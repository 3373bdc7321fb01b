------------------------------ MODULE Routing -------------------------------
(***************************************************************************)
(* Who draws: Engine::apply_inner and clear with the Caelestia backend,    *)
(* whose mode (DrawMode) is patched while the daemon runs.  In             *)
(* "daemon-drawn" mode the daemon's own surfaces carry the wallpaper; in   *)
(* "shell-routed" mode the shell's command line switches the whole session *)
(* and the daemon takes its surfaces away, for they lie above the shell's. *)
(*                                                                         *)
(* Drawing one output is one step here (Engine and Presenter have its      *)
(* inside); a moving wallpaper's clock keeps drawing on its own.  Nobody   *)
(* but the daemon changes the shell's wallpaper.                           *)
(***************************************************************************)
EXTENDS Naturals, FiniteSets, Sequences, SequencesExt

CONSTANTS
    Output,
    Still, Moving,              \* wallpapers, by kind
    NoWall,
    Slots,                      \* bound: requests under way at one time
    MaxRequests,                \* bound: requests
    MaxFaults                   \* bound: patches, restarts and unplugs

ASSUME RoutingAssumption ==
    /\ IsFiniteSet(Output) /\ Output # {}
    /\ NoWall \notin Still \cup Moving
    /\ Slots \in Nat /\ MaxRequests \in Nat /\ MaxFaults \in Nat

Wall == Still \cup Moving
Request == 1..Slots
Modes == {"daemon-drawn", "shell-routed"}

VARIABLES
    mode,                       \* shell_config().caelestia.mode
    configured,                 \* the mode the file has, in force after a start
    connected,                  \* Engine.outputs
    shell,                      \* what the shell shows under every surface
    surface,                    \* the wallpaper of OWE's surface, per output
    clock,                      \* the wallpaper the output's clock plays
    frame,                      \* the frame a clock is drawing, past its stop check
    applied,                    \* Engine.applied
    session,                    \* Engine.session, as saved
    job,                        \* the requests under way
    asked, faults,              \* bounds: requests and adversities so far
    excused                     \* history: outputs whose record is in doubt

screens == <<shell, surface>>
clocks == <<clock, frame>>
tables == <<applied, session>>
settings == <<mode, configured, connected, faults>>
vars == <<settings, screens, clocks, tables, job, asked, excused>>

\* A request: what it wants where, the steps it has left, the outputs it has
\* left to draw, and whether it met nobody else, nor lost an output.
NoJob == [op |-> "none", wall |-> NoWall, outputs |-> {}, plan |-> <<>>, todo |-> <<>>,
          alone |-> TRUE]

Init ==
    /\ configured \in Modes /\ mode = configured
    /\ connected = Output
    /\ shell = NoWall
    /\ surface = [o \in Output |-> NoWall]
    /\ clock = surface /\ frame = surface /\ applied = surface /\ session = surface
    /\ job = [r \in Request |-> NoJob]
    /\ asked = 0 /\ faults = 0 /\ excused = {}

(***************************************************************************)
(* The control of a request.                                               *)
(***************************************************************************)
Live(r) == job[r] # NoJob
At(r, step) == Live(r) /\ Head(job[r].plan) = step
Outputs(r) == job[r].outputs
Follows(r, plan) == job' = [job EXCEPT ![r].plan = plan]
Fails(r) == job' = [job EXCEPT ![r] = NoJob]

\* The step is done; after the last one the request is answered.
Done(r) == IF Len(job[r].plan) = 1 THEN Fails(r) ELSE Follows(r, Tail(job[r].plan))

Over(f, outputs, value) == [o \in Output |-> IF o \in outputs THEN value ELSE f[o]]

\* selects_every_output: the target has as many outputs as can be drawn now.
WholeSession(r) == Cardinality(Outputs(r)) = Cardinality(connected)

\* A target that matches nothing is refused.  Requests that overlap leave every
\* output they can touch in doubt, for the shell is one for all.
Ask(r, op, wall, outputs) ==
    /\ ~Live(r) /\ \A q \in Request : q < r => Live(q)
    /\ asked < MaxRequests /\ asked' = asked + 1
    /\ outputs # {} /\ outputs \subseteq connected
    /\ LET alone == \A q \in Request : ~Live(q)
       IN  /\ job' = [[q \in Request |-> [job[q] EXCEPT !.alone = alone \/ ~Live(q)]]
                          EXCEPT ![r] = [op |-> op, wall |-> wall, outputs |-> outputs,
                                         plan |-> <<"mode">>, todo |-> SetToSeq(outputs),
                                         alone |-> alone]]
           /\ excused' = IF alone THEN excused ELSE Output
    /\ UNCHANGED <<settings, screens, clocks, tables>>

Set(r, wall, outputs) == Ask(r, "set", wall, outputs)
Clear(r, outputs) == Ask(r, "clear", NoWall, outputs)

\* restore and the hotplug re-apply: the recorded wallpaper, output by output.
Reapply(r, o) == session[o] # NoWall /\ Ask(r, "set", session[o], {o})

(***************************************************************************)
(* apply_inner and clear read the mode once, and act on it.                *)
(***************************************************************************)
\* Mutant: the surfaces go before the clocks that draw on them.
RoutedPlanWipingFirst == <<"record", "wipe", "halt">>

RoutedPlan == <<"record", "halt", "wipe">>

\* route_to_shell: the shell has no target but the whole session; it may refuse.
Route(r) ==
    /\ At(r, "mode") /\ mode = "shell-routed" /\ job[r].op = "set"
    /\ \/ WholeSession(r) /\ shell' = job[r].wall /\ Follows(r, RoutedPlan)
       \/ UNCHANGED shell /\ Fails(r)
    /\ UNCHANGED <<settings, surface, clocks, tables, asked, excused>>

\* clear_wallpaper: the shell always keeps one.
RefuseClear(r) ==
    /\ At(r, "mode") /\ mode = "shell-routed" /\ job[r].op = "clear"
    /\ Fails(r)
    /\ UNCHANGED <<settings, screens, clocks, tables, asked, excused>>

Draw(r) ==
    /\ At(r, "mode") /\ mode = "daemon-drawn"
    /\ Follows(r, IF job[r].op = "set" THEN <<"draw", "record">>
                   ELSE <<"halt", "blank", "forget">>)
    /\ UNCHANGED <<settings, screens, clocks, tables, asked, excused>>

\* What is drawn or routed is now known to be so, unless another was about.
Settles(r) == excused' = IF job[r].alone THEN excused \ Outputs(r) ELSE excused
Doubts == excused' = Output

\* record_applied, and the end of clear: the session is saved first, and when
\* that fails the records stay as they were though the screens changed.
Write(r) ==
    \/ /\ applied' = Over(applied, Outputs(r), job[r].wall)
       /\ session' = Over(session, Outputs(r), job[r].wall)
       /\ Settles(r) /\ Done(r)
    \/ Fails(r) /\ Doubts /\ UNCHANGED tables

Record(r) ==
    /\ At(r, "record")
    /\ Write(r)
    /\ UNCHANGED <<settings, screens, clocks, asked>>

Forget(r) ==
    /\ At(r, "forget")
    /\ Write(r)
    /\ UNCHANGED <<settings, screens, clocks, asked>>

\* stop_playback_for_outputs: each clock is waited for; one that is in the
\* middle of a frame may outlive the wait.
Halt(r) ==
    /\ At(r, "halt")
    /\ clock' = Over(clock, Outputs(r), NoWall)
    /\ IF \E o \in Outputs(r) : frame[o] # NoWall THEN Doubts ELSE UNCHANGED excused
    /\ Done(r)
    /\ UNCHANGED <<settings, screens, frame, tables, asked>>

\* clear_presented_outputs only tries the presenter's lock, which a clock holds
\* while it draws; a surface it cannot clear stays, and is only logged.
Wipe(r) ==
    /\ At(r, "wipe")
    /\ \E left \in SUBSET Outputs(r) :
          /\ surface' = IF \E o \in Output : frame[o] # NoWall THEN surface
                        ELSE Over(surface, Outputs(r) \ left, NoWall)
          /\ excused' = excused \cup left
    /\ Done(r)
    /\ UNCHANGED <<settings, shell, clocks, tables, asked>>

\* clear waits for the lock; a surface it cannot clear ends it half way.
Blank(r) ==
    /\ At(r, "blank") /\ \A o \in Output : frame[o] = NoWall
    /\ \/ /\ surface' = Over(surface, Outputs(r), NoWall)
          /\ Done(r) /\ UNCHANGED excused
       \/ /\ \E cleared \in SUBSET Outputs(r) : surface' = Over(surface, cleared, NoWall)
          /\ Fails(r) /\ Doubts
    /\ UNCHANGED <<settings, shell, clocks, tables, asked>>

\* One output is drawn: what played there stops, and the picture or the first
\* frame is presented, if the output is still there.  A failure ends the request,
\* whatever was done before.
DrawOutput(r) ==
    /\ At(r, "draw")
    /\ LET o == Head(job[r].todo)
       IN  \/ /\ o \in connected /\ frame[o] = NoWall
              /\ surface' = [surface EXCEPT ![o] = job[r].wall]
              /\ clock' = [clock EXCEPT ![o] = IF job[r].wall \in Moving THEN job[r].wall
                                               ELSE NoWall]
              /\ job' = [job EXCEPT ![r].todo = Tail(@),
                            ![r].plan = IF Len(job[r].todo) = 1 THEN Tail(@) ELSE @]
              /\ UNCHANGED excused
           \/ /\ Fails(r) /\ Doubts
              /\ clock' = [clock EXCEPT ![o] = NoWall]
              /\ UNCHANGED surface
    /\ UNCHANGED <<settings, shell, frame, tables, asked>>

(***************************************************************************)
(* The clocks: one looks whether it was stopped, then takes the presenter  *)
(* and draws; the lock is for one at a time.                               *)
(***************************************************************************)
BeginFrame(o) ==
    /\ clock[o] # NoWall /\ \A p \in Output : frame[p] = NoWall
    /\ frame' = [frame EXCEPT ![o] = clock[o]]
    /\ UNCHANGED <<settings, screens, clock, tables, job, asked, excused>>

\* A stopped clock's frame is cancelled if the presenter hears of it in time.
EndFrame(o) ==
    /\ frame[o] # NoWall
    /\ frame' = [frame EXCEPT ![o] = NoWall]
    /\ surface' \in {surface, [surface EXCEPT ![o] = frame[o]]}
    /\ clock[o] = frame[o] => surface'[o] = frame[o]
    /\ UNCHANGED <<settings, shell, clock, tables, job, asked, excused>>

(***************************************************************************)
(* The mode is patched (nothing is applied again); an output is taken out  *)
(* and put back; the daemon starts anew, keeping what is on disk.          *)
(***************************************************************************)
Fault == faults < MaxFaults /\ faults' = faults + 1

Patch ==
    /\ Fault
    /\ mode' \in Modes \ {mode}
    /\ UNCHANGED <<configured, connected, screens, clocks, tables, job, asked, excused>>

\* The hotplug thread holds none of the requests' locks: an output may go, and come
\* back, at any step of a request that is about it.  What the request goes on to
\* do and to record is then in doubt, for every output it may touch.
Meets(o) ==
    /\ job' = [r \in Request |-> [job[r] EXCEPT !.alone = @ /\ o \notin Outputs(r)]]
    /\ excused' = IF \E r \in Request : o \in Outputs(r) THEN Output ELSE excused

\* reconcile's Teardown, which waits for the presenter.
Unplug(o) ==
    /\ Fault
    /\ o \in connected /\ \A p \in Output : frame[p] = NoWall
    /\ connected' = connected \ {o}
    /\ surface' = [surface EXCEPT ![o] = NoWall]
    /\ clock' = [clock EXCEPT ![o] = NoWall]
    /\ applied' = [applied EXCEPT ![o] = NoWall]
    /\ Meets(o)
    /\ UNCHANGED <<mode, configured, shell, frame, session, asked>>

Plug(o) ==
    /\ o \notin connected
    /\ connected' = connected \cup {o}
    /\ UNCHANGED <<mode, configured, faults, screens, clocks, tables, job, asked, excused>>

Restart ==
    /\ Fault
    /\ mode' = configured
    /\ surface' = [o \in Output |-> NoWall]
    /\ clock' = surface' /\ frame' = surface' /\ applied' = surface'
    /\ job' = [r \in Request |-> NoJob]
    /\ excused' = {}
    /\ UNCHANGED <<configured, connected, shell, session, asked>>

Next ==
    \/ \E r \in Request :
          \/ \E wall \in Wall, outputs \in SUBSET Output : Set(r, wall, outputs)
          \/ \E outputs \in SUBSET Output : Clear(r, outputs)
          \/ \E o \in Output : Reapply(r, o)
          \/ Route(r) \/ RefuseClear(r) \/ Draw(r) \/ DrawOutput(r) \/ Record(r)
          \/ Halt(r) \/ Wipe(r) \/ Blank(r) \/ Forget(r)
    \/ \E o \in Output : BeginFrame(o) \/ EndFrame(o) \/ Unplug(o) \/ Plug(o)
    \/ Patch \/ Restart

Spec == Init /\ [][Next]_vars
-----------------------------------------------------------------------------
\* What the variables hold: the plans a request can have left, its locals, and
\* the tables.
Plan == {<<>>, <<"mode">>, <<"draw", "record">>, <<"record">>,
         <<"record", "halt", "wipe">>, <<"halt", "wipe">>, <<"wipe">>,
         <<"halt", "blank", "forget">>, <<"blank", "forget">>, <<"forget">>}
Job == [op : {"none", "set", "clear"}, wall : Wall \cup {NoWall}, outputs : SUBSET Output,
        plan : Plan, todo : Seq(Output), alone : BOOLEAN]
Table == [Output -> Wall \cup {NoWall}]

TypeOK ==
    /\ mode \in Modes /\ configured \in Modes
    /\ connected \subseteq Output /\ excused \subseteq Output
    /\ shell \in Wall \cup {NoWall}
    /\ surface \in Table /\ clock \in Table /\ frame \in Table
    /\ applied \in Table /\ session \in Table
    /\ job \in [Request -> Job]
    /\ asked \in 0..MaxRequests /\ faults \in 0..MaxFaults

(***************************************************************************)
(* What the daemon says an output shows can be seen on it, whichever way   *)
(* it got there and however often the mode was switched since: at rest,    *)
(* the surface shows it, or there is no surface and the shell does.        *)
(* Requests that overlap, a request that fails half way or loses one of    *)
(* its outputs, a clock that outlives its stop and a surface that cannot   *)
(* be cleared leave records in doubt, until a request that met none of     *)
(* these sets the output again.                                            *)
(***************************************************************************)
Visible(o) == IF surface[o] # NoWall THEN surface[o] ELSE shell

AtRest == /\ \A r \in Request : ~Live(r)
          /\ \A o \in Output : frame[o] = NoWall

RecordIsVisible ==
    AtRest => \A o \in connected \ excused : applied[o] # NoWall => Visible(o) = applied[o]
=============================================================================
