------------------------------ MODULE MCLibrary ------------------------------
(* Two files in a directory and in a directory inside it, both of them roots. *)
EXTENDS Library, TLC

CONSTANTS a, b, walls, more

MCDirOf == [p \in Path |-> IF p = a THEN walls ELSE more]
MCParent == [d \in Dir |-> IF d = more THEN walls ELSE NoDir]
Clients == Permutations(Client)
=============================================================================
