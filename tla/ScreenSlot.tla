------------------------------ MODULE ScreenSlot ------------------------------
(***************************************************************************)
(* What a worker promises about one screen, without saying how: wallpapers *)
(* are requested in increasing generations, the screen only ever moves to  *)
(* a generation that is at least the one it shows, and once the screen has *)
(* been blanked nothing requested before the blanking comes back.          *)
(***************************************************************************)
EXTENDS Naturals

VARIABLES
    newest,     \* the highest generation requested so far
    shown,      \* the generation on the screen, 0 when blank
    floor       \* no generation up to this one may be shown any more

vars == <<newest, shown, floor>>

Init == newest = 0 /\ shown = 0 /\ floor = 0

Request ==
    /\ newest' \in Nat
    /\ newest' > newest
    /\ UNCHANGED <<shown, floor>>

Show ==
    /\ shown' \in (floor + 1)..newest
    /\ shown' >= shown
    /\ UNCHANGED <<newest, floor>>

Blank ==
    /\ shown' = 0
    /\ floor' \in floor..newest
    /\ floor' >= shown
    /\ UNCHANGED newest

Next == Request \/ Show \/ Blank

Spec == Init /\ [][Next]_vars
=============================================================================
