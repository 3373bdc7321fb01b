------------------------------ MODULE Supervisor ------------------------------
(***************************************************************************)
(* owe-core/src/supervisor.rs under the use its documentation describes: a *)
(* caller that hands it every output list together with the one before,    *)
(* reports the failures and successes of workers, and obeys what it says.  *)
(***************************************************************************)
EXTENDS SupervisorOps, FiniteSets

CONSTANTS
    MaxTime,        \* bound: clock ticks
    MaxFailures     \* bound: failures reported per output between successes

ASSUME BoundAssumption == MaxTime \in Nat /\ MaxFailures \in Nat

VARIABLES
    records,    \* the supervisor: a record per output
    list,       \* the output list observed last
    clock,
    drawn,      \* outputs whose worker the caller runs, obeying the actions
    reported    \* history: failure times per output since its last success

vars == <<records, list, clock, drawn, reported>>

Init ==
    /\ records = [o \in Output |-> Unknown]
    /\ list = Nobody
    /\ clock = 0
    /\ drawn = {}
    /\ reported = [o \in Output |-> << >>]

\* The compositor's list changes and the supervisor observes it; the caller
\* does what it is told, for Spawn and Teardown.
Observe ==
    \E after \in OutputList :
        LET r == ObserveSnapshot(records, list, after, clock) IN
        /\ records' = r.records
        /\ list' = after
        /\ drawn' = (drawn \cup {o \in Output : r.actions[o] = "Spawn"})
                        \ {o \in Output : r.actions[o] = "Teardown"}
        /\ UNCHANGED <<clock, reported>>

\* A failure of an output that is absent or inactive is not counted.
Failure(o) ==
    /\ records[o].known /\ records[o].present /\ records[o].active
    /\ Len(reported[o]) < MaxFailures
    /\ records' = RecordFailure(records, o, clock)
    /\ reported' = [reported EXCEPT ![o] = Append(@, clock)]
    /\ UNCHANGED <<list, clock, drawn>>

Success(o) ==
    /\ records[o].known
    /\ records' = RecordSuccess(records, o)
    /\ reported' = [reported EXCEPT ![o] = << >>]
    /\ UNCHANGED <<list, clock, drawn>>

\* "clear" on an output that is gone forgets it.
Forget(o) ==
    /\ ~list[o].listed
    /\ records' = [records EXCEPT ![o] = Unknown]
    /\ reported' = [reported EXCEPT ![o] = << >>]
    /\ UNCHANGED <<list, clock, drawn>>

Tick ==
    /\ clock < MaxTime
    /\ clock' = clock + 1
    /\ UNCHANGED <<records, list, drawn, reported>>

Next ==
    \/ Observe
    \/ \E o \in Output : Failure(o) \/ Success(o) \/ Forget(o)
    \/ Tick

Spec == Init /\ [][Next]_vars

-----------------------------------------------------------------------------
\* Every variable has its type, no restart lies in the future and a present
\* output has a size.
TypeOK ==
    /\ records \in [Output -> Tracked]
    /\ list \in OutputList
    /\ clock \in 0..MaxTime
    /\ drawn \subseteq Output
    /\ reported \in [Output -> Seq(0..MaxTime)]
    /\ \A o \in Output :
           /\ \A i \in 1..Len(records[o].restarts) : records[o].restarts[i] <= clock
           /\ records[o].present => records[o].size \in Size

\* Health tells the truth about the restart history: an Active output has
\* none, a Recovering one has some and fewer than the budget (TrackedState).
HealthMatchesHistory ==
    \A o \in Output :
        LET r == records[o] IN
        /\ r.state = "Active" => r.restarts = << >>
        /\ r.state = "Recovering" => Len(r.restarts) \in 1..(MaxRestarts - 1)

\* The records list exactly the outputs the compositor lists, and a caller who
\* obeys draws on exactly the active ones: no ghosts, nobody forgotten.
NoGhostOutputs ==
    /\ \A o \in Output : (records[o].known /\ records[o].present) <=> list[o].listed
    /\ drawn = {o \in Output : list[o].listed /\ list[o].active}

Recent(o) == {i \in 1..Len(reported'[o]) : clock - reported'[o][i] < Window}

\* The budget is exact: an output is given up by a failure that is the last of
\* MaxRestarts inside one window, and by nothing else; and such a failure
\* always gives it up.
BudgetIsExact ==
    [][\A o \in Output :
          /\ records'[o].state = "Failed" /\ records[o].state # "Failed"
                 => Cardinality(Recent(o)) >= MaxRestarts
          /\ Len(reported'[o]) > Len(reported[o]) /\ Cardinality(Recent(o)) >= MaxRestarts
                 => records'[o].state = "Failed"]_vars

\* One bad output never stops the others (NFR-REL-1): what is reported about
\* one output never makes another unusable.
FailuresAreIsolated ==
    [][\A o, p \in Output :
          /\ o # p /\ reported'[o] # reported[o] /\ IsUsable(records[p])
          => IsUsable(records'[p])]_vars
=============================================================================
