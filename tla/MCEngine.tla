------------------------------ MODULE MCEngine ------------------------------
(***************************************************************************)
(* Engine from the starting states where every output has the same         *)
(* wallpaper, or none has one.                                             *)
(***************************************************************************)
EXTENDS Engine

UniformInit == Init /\ \A o, p \in Output : applied[o] = applied[p]

UniformSpec == UniformInit /\ [][Next]_vars
FairUniformSpec == UniformSpec /\ Fairness
=============================================================================
