---------------------------- MODULE SupervisorOps ----------------------------
(***************************************************************************)
(* The pure part of owe-core/src/supervisor.rs: the difference of two      *)
(* output lists, what one hotplug event does to the record of its output,  *)
(* and the restart window.  An output list is a function from names to     *)
(* entries; a name it does not list has the entry Unlisted.  Two lists     *)
(* differ in at most one event per output (the code keys both by name), so *)
(* the order of the events plays no part.                                  *)
(***************************************************************************)
EXTENDS Naturals, Sequences, SequencesExt

CONSTANTS
    Output,         \* names a connector may have
    Size,           \* pixel sizes an output may have
    NoSize,         \* the size of an output that has none
    MaxRestarts,    \* failures inside the window that make an output Failed
    Window          \* length of the window, in clock ticks

ASSUME SupervisorAssumption ==
    /\ NoSize \notin Size
    /\ MaxRestarts \in Nat \ {0}
    /\ Window \in Nat \ {0}

\* One name in an output list.
Entry == [listed : {TRUE}, active : BOOLEAN, size : Size]
Unlisted == [listed |-> FALSE, active |-> FALSE, size |-> NoSize]
OutputList == [Output -> Entry \cup {Unlisted}]
Nobody == [o \in Output |-> Unlisted]

Health == {"Active", "Recovering", "Failed"}

\* A supervision record; "known" says whether the supervisor has one at all.
Tracked == [known : BOOLEAN, present : BOOLEAN, active : BOOLEAN,
            size : Size \cup {NoSize}, state : Health, restarts : Seq(Nat)]
Unknown == [known |-> FALSE, present |-> FALSE, active |-> FALSE,
            size |-> NoSize, state |-> "Active", restarts |-> << >>]

IsUsable(r) == r.known /\ r.present /\ r.active /\ r.state # "Failed"

-----------------------------------------------------------------------------
\* The event for one output between two lists.
Diff(before, after) ==
    CASE ~before.listed /\ after.listed /\ after.active  -> "Added"
      [] ~before.listed /\ after.listed /\ ~after.active -> "Deactivated"
      [] before.listed /\ ~after.listed                  -> "Removed"
      [] before.listed /\ after.listed /\ ~before.active /\ after.active -> "Activated"
      [] before.listed /\ after.listed /\ before.active /\ ~after.active -> "Deactivated"
      [] /\ before.listed /\ after.listed /\ before.active /\ after.active
         /\ before.size # after.size                     -> "Resized"
      [] OTHER                                           -> "None"

\* The record an event finds, made on the spot when there is none.
Entered(r, present, active) ==
    IF r.known THEN r
    ELSE [Unknown EXCEPT !.known = TRUE, !.present = present, !.active = active]

\* What is left of a record when its output is gone.
GoneButPresent(r) == [r EXCEPT !.active = FALSE, !.size = NoSize] \* mutant
Gone(r) == [r EXCEPT !.present = FALSE, !.active = FALSE, !.size = NoSize]

\* What an event does to the record of its output, and the action it returns.
OnEvent(r, event, size) ==
    LET listed == Entered(r, TRUE, event = "Resized") IN
    CASE event \in {"Added", "Activated"} ->
             [record |-> [Entered(r, FALSE, FALSE) EXCEPT !.present = TRUE, !.active = TRUE],
              action |-> "Spawn"]
      [] event = "Deactivated" ->
             [record |-> [listed EXCEPT !.present = TRUE, !.active = FALSE],
              action |-> IF listed.active THEN "Teardown" ELSE "None"]
      [] event = "Removed" /\ ~r.known -> [record |-> r, action |-> "None"]
      [] event = "Removed" /\ r.known ->
             [record |-> Gone(r),
              action |-> IF r.active THEN "Teardown" ELSE "None"]
      [] event = "Resized" ->
             [record |-> [listed EXCEPT !.size = size, !.present = TRUE],
              action |-> IF listed.active /\ listed.size # size THEN "Resize" ELSE "None"]
      [] OTHER -> [record |-> r, action |-> "None"]

\* Restarts at least a window old are dropped from the front; times after now
\* count as old.  An output whose restarts are all gone stops recovering.
FreshAtWindow(t, now) == t <= now /\ now - t <= Window \* mutant
Fresh(t, now) == t <= now /\ now - t < Window

\* Mutant: the state outlives the restarts it was about.
ExpireKeepingState(r, now) ==
    [r EXCEPT !.restarts = SelectSeq(@, LAMBDA t : Fresh(t, now))]

Expire(r, now) ==
    LET first == SelectInSeq(r.restarts, LAMBDA t : Fresh(t, now))
        kept  == IF first = 0 THEN << >>
                 ELSE SubSeq(r.restarts, first, Len(r.restarts)) IN
    [r EXCEPT !.restarts = kept,
              !.state = IF r.state = "Recovering" /\ kept = << >> THEN "Active" ELSE @]

\* Observe a list: one event per output, then the window, then presence and
\* size as listed.  Returns the records and the action for every output.
ObserveSnapshot(records, before, after, now) ==
    LET step == [o \in Output |->
                    OnEvent(records[o], Diff(before[o], after[o]), after[o].size)]
        aged == [o \in Output |-> Expire(step[o].record, now)] IN
    [records |-> [o \in Output |->
         IF after[o].listed /\ aged[o].known
         THEN [aged[o] EXCEPT !.present = TRUE, !.active = after[o].active,
                              !.size = after[o].size]
         ELSE aged[o]],
     actions |-> [o \in Output |-> step[o].action]]

\* Mutant: one output's spent budget gives up every output.
RecordFailureEverywhere(records, o, now) ==
    LET aged == [records EXCEPT ![o] = Expire([@ EXCEPT !.restarts = Append(@, now)], now)] IN
    IF Len(aged[o].restarts) >= MaxRestarts
    THEN [p \in Output |-> [aged[p] EXCEPT !.state = "Failed"]]
    ELSE [aged EXCEPT ![o].state = "Recovering"]

\* A worker failed: the restart counts if it is recent, and the one that fills
\* the budget marks the output Failed.  The window of every output is aged.
RecordFailure(records, o, now) ==
    LET aged == [p \in Output |->
            IF p = o
            THEN Expire([records[o] EXCEPT !.restarts = Append(@, now)], now)
            ELSE Expire(records[p], now)]
        state == IF Len(aged[o].restarts) >= MaxRestarts THEN "Failed" ELSE "Recovering" IN
    [aged EXCEPT ![o].state = state]

RecordSuccess(records, o) ==
    IF records[o].known
    THEN [records EXCEPT ![o].restarts = << >>, ![o].state = "Active"]
    ELSE records
=============================================================================
