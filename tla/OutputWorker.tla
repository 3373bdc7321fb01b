----------------------------- MODULE OutputWorker -----------------------------
(***************************************************************************)
(* One worker of owe-core/src/worker.rs and the drawing layer that obeys   *)
(* it.  The layer renders in jobs that finish in any order, hands frames   *)
(* to the compositor over a FIFO connection, and reports back late.        *)
(* Requests may reach the worker in another order than they were issued.   *)
(* The worker is the code; the layer, external to worker.rs, is what its   *)
(* WorkerAction documentation tells a caller to do.                        *)
(***************************************************************************)
EXTENDS WorkerMachine, Sequences

CONSTANTS
    MaxGeneration,  \* bound: requests issued
    MaxCopies,      \* bound: unfinished jobs for one generation and size
    MaxWire         \* bound: requests the compositor has not processed

ASSUME BoundAssumption ==
    MaxGeneration \in Nat /\ MaxCopies \in Nat \ {0} /\ MaxWire \in Nat \ {0}

Generation == 1..MaxGeneration

VARIABLES
    worker,     \* the state machine
    issued,     \* the last generation handed out
    requested,  \* generations issued and not yet delivered to the worker
    surface,    \* the size the compositor configured last
    jobs,       \* unfinished render jobs per generation and size
    wire,       \* frames and blankings on their way to the compositor
    screen,     \* what the compositor shows; generation 0 is a blank screen
    floor       \* history: the highest generation when the screen last blanked

vars == <<worker, issued, requested, surface, jobs, wire, screen, floor>>

Blank == [gen |-> 0, size |-> NoSize]
Frame(g, s) == [op |-> "frame", gen |-> g, size |-> s]
Blanking(g) == [op |-> "blank", gen |-> g, size |-> NoSize]

Init ==
    /\ worker = NewWorker
    /\ issued = 0
    /\ requested = {}
    /\ surface \in Size
    /\ jobs = [g \in Generation |-> [s \in Size |-> 0]]
    /\ wire = << >>
    /\ screen = Blank
    /\ floor = 0

\* The layer's half of an event: start the job or submit the frame asked for.
StartJob(r) ==
    IF r.action = "Render"
    THEN /\ jobs[r.gen][r.size] < MaxCopies
         /\ jobs' = [jobs EXCEPT ![r.gen][r.size] = @ + 1]
    ELSE UNCHANGED jobs

-----------------------------------------------------------------------------
\* A client asks for a wallpaper: the request gets the next generation.
Issue ==
    /\ issued < MaxGeneration
    /\ issued' = issued + 1
    /\ requested' = requested \cup {issued'}
    /\ UNCHANGED <<worker, surface, jobs, wire, screen, floor>>

\* A request reaches the worker, in any order and possibly twice.
Apply(g) ==
    LET r == OnApply(worker, g, surface) IN
    /\ g \in requested
    /\ worker' = r.worker
    /\ StartJob(r)
    /\ requested' \in {requested, requested \ {g}}
    /\ UNCHANGED <<issued, surface, wire, screen, floor>>

\* The compositor resizes the surface.
Configure(s) ==
    LET r == OnConfigure(worker, s) IN
    /\ surface' = s
    /\ worker' = r.worker
    /\ StartJob(r)
    /\ UNCHANGED <<issued, requested, wire, screen, floor>>

\* A render job finishes; its pixels, of the size the job was for, are sent
\* only if the worker says so.
Prepared(g, s) ==
    LET r == OnPrepared(worker, g) IN
    /\ jobs[g][s] > 0
    /\ Len(wire) < MaxWire
    /\ jobs' = [jobs EXCEPT ![g][s] = @ - 1]
    /\ worker' = r.worker
    /\ wire' = IF r.action = "Present" THEN Append(wire, Frame(g, s)) ELSE wire
    /\ UNCHANGED <<issued, requested, surface, screen, floor>>

RenderFailed(g, s) ==
    /\ jobs[g][s] > 0
    /\ jobs' = [jobs EXCEPT ![g][s] = @ - 1]
    /\ worker' = OnFailed(worker, g).worker
    /\ UNCHANGED <<issued, requested, surface, wire, screen, floor>>

\* The compositor shows the next frame and the worker hears of it.
Presented ==
    /\ wire # << >>
    /\ Head(wire).op = "frame"
    /\ screen' = [gen |-> Head(wire).gen, size |-> Head(wire).size]
    /\ worker' = OnPresented(worker, Head(wire).gen, Head(wire).size).worker
    /\ wire' = Tail(wire)
    /\ UNCHANGED <<issued, requested, surface, jobs, floor>>

\* The next frame could not be shown.
PresentFailed ==
    /\ wire # << >>
    /\ Head(wire).op = "frame"
    /\ worker' = OnFailed(worker, Head(wire).gen).worker
    /\ wire' = Tail(wire)
    /\ UNCHANGED <<issued, requested, surface, jobs, screen, floor>>

\* The user clears the wallpaper: the worker sleeps at once, the screen when
\* the compositor gets there.
Clear ==
    /\ Len(wire) < MaxWire
    /\ worker' = OnClear(worker).worker
    /\ wire' = Append(wire, Blanking(worker.generation))
    /\ UNCHANGED <<issued, requested, surface, jobs, screen, floor>>

Blanked ==
    /\ wire # << >>
    /\ Head(wire).op = "blank"
    /\ screen' = Blank
    /\ floor' = Head(wire).gen
    /\ wire' = Tail(wire)
    /\ UNCHANGED <<worker, issued, requested, surface, jobs>>

\* The compositor destroys the surface, with whatever was on its way to it.
SurfaceClosed ==
    /\ worker' = OnSurfaceClosed(worker).worker
    /\ wire' = << >>
    /\ screen' = Blank
    /\ floor' = worker.generation
    /\ UNCHANGED <<issued, requested, surface, jobs>>

-----------------------------------------------------------------------------
Next ==
    \/ Issue
    \/ \E g \in Generation : Apply(g)
    \/ \E s \in Size : Configure(s)
    \/ \E g \in Generation, s \in Size : Prepared(g, s) \/ RenderFailed(g, s)
    \/ Presented \/ PresentFailed \/ Blanked
    \/ Clear \/ SurfaceClosed

\* A job ends and the connection is served; clients and the compositor owe
\* nothing.
Fairness ==
    /\ \A g \in Generation, s \in Size :
           WF_vars(Prepared(g, s) \/ RenderFailed(g, s))
    /\ WF_vars(Presented \/ PresentFailed \/ Blanked)

Spec == Init /\ [][Next]_vars
FairSpec == Spec /\ Fairness

-----------------------------------------------------------------------------
WireItem == [op : {"frame"}, gen : Nat, size : Size]
                \cup [op : {"blank"}, gen : Nat, size : {NoSize}]

Awake == worker.kind \in Busy \cup {"Presented"}

\* Every variable has its type; only a worker with something on the way or on
\* the screen has a size, and then it has the newest generation.
TypeOK ==
    /\ WellFormed(worker)
    /\ worker.generation <= issued
    /\ issued \in 0..MaxGeneration
    /\ requested \subseteq 1..issued
    /\ surface \in Size
    /\ jobs \in [Generation -> [Size -> Nat]]
    /\ wire \in Seq(WireItem)
    /\ screen \in [gen : Nat, size : Size \cup {NoSize}]
    /\ floor \in Nat

\* A worker that says Presented is right about the generation on the screen,
\* whatever jobs, frames, clears and acknowledgements overlapped on the way
\* (worker.rs:21-24, "the older one's late Prepared/Presented events do
\* nothing").
PresentedIsOnScreen == worker.kind = "Presented" => screen.gen = worker.generation

\* A worker that is not sleeping has a job or a frame under way for the
\* generation it waits for: no order of events leaves it waiting for nobody.
BusyHasWork ==
    worker.kind \in Busy =>
        \/ \E s \in Size : jobs[worker.gen][s] > 0
        \/ \E i \in 1..Len(wire) :
               wire[i].op = "frame" /\ wire[i].gen = worker.gen

\* The screen follows the newest request and never goes back, not even after
\* it was cleared or its surface closed (worker.rs:21-24).
Slot == INSTANCE ScreenSlot
            WITH newest <- worker.generation, shown <- screen.gen, floor <- floor
NewestWins == Slot!Spec

\* A worker that starts working goes back to sleep (NFR-PERF-1, worker.rs:25-26).
WorkEnds == (worker.kind \in Busy) ~> IsSleeping(worker)
=============================================================================
