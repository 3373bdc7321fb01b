------------------------------- MODULE Engine -------------------------------
(***************************************************************************)
(* Changing wallpapers: Engine::apply_with and Engine::clear of            *)
(* owed/src/engine.rs, with the frame clocks of owed/src/playback.rs as    *)
(* far as they draw.  Every request runs on the thread of its connection;  *)
(* requests share the GPU lock, the transition epoch and table, the clock  *)
(* registry, the table of applied wallpapers and the session.              *)
(*                                                                         *)
(* A daemon that draws itself is modelled (DrawMode::DaemonDrawn), with    *)
(* its outputs fixed and requests whose reference, kind and target passed  *)
(* validation and whose still image was decoded.  A picture is the set of  *)
(* wallpapers visible in it: one, two or more in a blend, none on a blank  *)
(* screen.                                                                 *)
(***************************************************************************)
EXTENDS Naturals, Sequences, FiniteSets, SequencesExt

CONSTANTS
    Output,
    Still,          \* wallpapers that are one image
    Moving,         \* wallpapers a clock plays
    NoWall,         \* what an output without wallpaper has
    MaxRequests     \* bound: requests, each a thread of its own

ASSUME EngineAssumption ==
    /\ IsFiniteSet(Output) /\ Output # {}
    /\ Still \cap Moving = {}
    /\ NoWall \notin Still \cup Moving
    /\ MaxRequests \in Nat

Wall == Still \cup Moving
Request == 1..MaxRequests

VARIABLES
    screen,     \* the picture on every output
    applied,    \* Engine.applied: what this run believes is shown
    session,    \* Engine.session, as saved
    job,        \* control state and locals of every request
    gpu,        \* the request that holds Engine.gpu, or Free
    epoch,      \* Engine.epoch, one for all outputs
    inflight,   \* Engine.transitions: epoch and picture, per output
    clock,      \* the registered clock of every output
    inhand,     \* clocks that passed their stop check and wait for the GPU
    seen,       \* history: wallpapers that were fully on each screen
    mishaps     \* history: adversities met so far

tables == <<applied, session>>
drawing == <<gpu, epoch, inflight>>
clocks == <<clock, inhand>>
history == <<seen, mishaps>>
vars == <<screen, tables, job, drawing, clocks, history>>

Free == 0
NoClock == [wall |-> NoWall, owner |-> 0, shown |-> FALSE]
Clock == [wall : Moving, owner : 0..MaxRequests, shown : BOOLEAN]
NoFlight == [epoch |-> 0, picture |-> {}]

\* Adversities: a request failed after it had changed something or had stopped
\* a change of another; a request that played or cleared met another on its
\* outputs; an animation was stopped for an output it does not draw on; a clock
\* outlived its stop.
Mishap == {"partial", "race", "cross", "late"}

Step == {"new", "stop", "halt", "lock", "change", "animate", "start", "await",
         "abandon", "blank", "unset", "forget", "record", "ok", "failed"}
Job == [op : {"still", "play", "clear"}, wall : Wall \cup {NoWall},
        animated : BOOLEAN, outputs : SUBSET Output, at : Step,
        todo : Seq(Output), done : SUBSET Output,
        epoch : Nat, source : SUBSET Wall, blended : BOOLEAN]
NewJob == [op |-> "clear", wall |-> NoWall, animated |-> FALSE, outputs |-> {},
           at |-> "new", todo |-> << >>, done |-> {},
           epoch |-> 0, source |-> {}, blended |-> FALSE]

\* The outputs of a request one by one, in some fixed order.
InOrder(S) == SetToSeq(S)
Full(w) == IF w = NoWall THEN {} ELSE {w}
Ended(r) == job[r].at \in {"ok", "failed"}
Live(r) == job[r].at # "new" /\ ~Ended(r)
Quiet == /\ \A r \in Request : ~Live(r)
         /\ \A o \in Output : inhand[o] \subseteq {clock[o]}

\* Any state between requests: a wallpaper everywhere or nowhere, moving ones
\* with their clock.
Init ==
    /\ applied \in [Output -> Wall \cup {NoWall}]
    /\ session = applied
    /\ screen = [o \in Output |-> Full(applied[o])]
    /\ clock = [o \in Output |->
                   IF applied[o] \in Moving
                   THEN [wall |-> applied[o], owner |-> 0, shown |-> TRUE] ELSE NoClock]
    /\ job = [r \in Request |-> NewJob]
    /\ gpu = Free /\ epoch = 0
    /\ inflight = [o \in Output |-> NoFlight]
    /\ inhand = [o \in Output |-> {}]
    /\ seen = screen
    /\ mishaps = {}

-----------------------------------------------------------------------------
\* The control of a request.

At(r, step) == job[r].at = step
Becomes(r, j) == job' = [job EXCEPT ![r] = j]
Goes(r, step) == Becomes(r, [job[r] EXCEPT !.at = step])
\* The answer is sent; of the locals only the target is remembered.
Ends(r, answer) == Becomes(r, [NewJob EXCEPT !.at = answer, !.outputs = job[r].outputs])
\* Begin a loop over the outputs of the request.
Loops(r, step) ==
    Becomes(r, [job[r] EXCEPT !.at = step, !.todo = InOrder(job[r].outputs)])
\* One output is through; the last one leads to the next step.
Advance(j, step) ==
    IF Len(j.todo) > 1 THEN [j EXCEPT !.todo = Tail(@)]
    ELSE [j EXCEPT !.todo = << >>, !.at = step]

\* A failure that leaves something behind.
Scarred(r) ==
    \/ job[r].done # {}
    \/ \E o \in job[r].outputs : screen[o] # Full(applied[o])
Mishaps(flags) == mishaps' = mishaps \cup flags

\* A request ends with an error, giving back the GPU if it has it.
ReleaseOnSuccessOnly(r) == UNCHANGED gpu \* mutant
Release(r) == gpu' = IF gpu = r THEN Free ELSE gpu

Fail(r) ==
    /\ Ends(r, "failed")
    /\ Release(r)
    /\ Mishaps(IF Scarred(r) THEN {"partial"} ELSE {})

-----------------------------------------------------------------------------
\* Clients.

Overlaps(op, targets) ==
    \E r \in Request :
        /\ Live(r)
        /\ job[r].outputs \cap targets # {}
        /\ {op, job[r].op} \cap {"play", "clear"} # {}

Ask(r, op, w, anim, targets) ==
    /\ At(r, "new")
    /\ \A q \in Request : At(q, "new") => q >= r
    /\ Becomes(r, [NewJob EXCEPT !.op = op, !.wall = w, !.animated = anim,
                       !.outputs = targets, !.at = "stop", !.todo = InOrder(targets)])
    /\ Mishaps(IF Overlaps(op, targets) THEN {"race"} ELSE {})
    /\ UNCHANGED <<screen, tables, drawing, clocks, seen>>

SetStill(r, w, anim, targets) == w \in Still /\ Ask(r, "still", w, anim, targets)
SetMoving(r, w, targets) == w \in Moving /\ Ask(r, "play", w, FALSE, targets)
Clear(r, targets) == Ask(r, "clear", NoWall, FALSE, targets)

-----------------------------------------------------------------------------
\* Taking the outputs over.

\* stop_transition: the epoch moves on, for every animation there is, and this
\* output's entry goes.
StopTransition(o) ==
    /\ epoch' = epoch + 1
    /\ inflight' = [inflight EXCEPT ![o] = NoFlight]

Stop(r) ==
    /\ At(r, "stop")
    /\ StopTransition(Head(job[r].todo))
    /\ LET next == IF job[r].op = "play" THEN "start" ELSE "halt"
           j == Advance(job[r], next) IN
       Becomes(r, IF j.at = "stop" THEN j ELSE [j EXCEPT !.todo = InOrder(j.outputs)])
    /\ UNCHANGED <<screen, tables, gpu, clocks, history>>

\* The registry gives a clock up after STOP_TIMEOUT; one that was past its
\* check for stop by then draws one more frame.
KeepClock(o) == UNCHANGED clocks \* mutant
StopClock(o) ==
    /\ clock' = [clock EXCEPT ![o] = NoClock]
    /\ UNCHANGED inhand
LateFrame(o) == inhand[o] # {}

\* stop_playback_for_outputs, one output; a request to play stops the clocks it
\* started when it fails, by the name of the output.
Halt(r) ==
    LET o == Head(job[r].todo) IN
    /\ At(r, "halt") \/ At(r, "abandon")
    /\ StopClock(o)
    /\ IF At(r, "abandon") /\ Len(job[r].todo) = 1
       THEN Ends(r, "failed")
       ELSE Becomes(r, Advance(job[r], IF job[r].op = "still" THEN "lock" ELSE "blank"))
    /\ Mishaps(IF LateFrame(o) THEN {"late"} ELSE {})
    /\ UNCHANGED <<screen, tables, drawing, seen>>

-----------------------------------------------------------------------------
\* A still image: drawn and recorded under the GPU lock.

Acquire(r) == gpu = Free /\ gpu' = r

Lock(r) ==
    /\ At(r, "lock")
    /\ Acquire(r)
    /\ Loops(r, "change")
    /\ UNCHANGED <<screen, tables, epoch, inflight, clocks, history>>

\* A picture reaches a screen.
Show(o, picture) ==
    /\ screen' = [screen EXCEPT ![o] = picture]
    /\ seen' = [seen EXCEPT ![o] = IF Cardinality(picture) = 1 THEN @ \cup picture ELSE @]

\* Begin an animation: from the picture of the one that was left behind, or
\* from the wallpaper last applied, read again.
Begin(r) ==
    LET o == Head(job[r].todo)
        from == IF inflight[o] # NoFlight THEN inflight[o].picture ELSE {applied[o]} IN
    /\ At(r, "change") /\ job[r].animated /\ applied[o] # NoWall
    /\ epoch' = epoch + 1
    /\ inflight' = [inflight EXCEPT ![o] = [epoch |-> epoch + 1, picture |-> from]]
    /\ Becomes(r, [job[r] EXCEPT !.at = "animate", !.epoch = epoch + 1,
                                 !.source = from, !.blended = FALSE])
    /\ UNCHANGED <<screen, tables, gpu, clocks, history>>

\* The output is through, drawn or given up.
Through(r, drawn) ==
    LET o == Head(job[r].todo) IN
    Advance([job[r] EXCEPT !.at = "change", !.epoch = 0, !.source = {},
                           !.done = IF drawn THEN @ \cup {o} ELSE @], "record")

\* A frame of the blend.
Blend(r) ==
    LET o == Head(job[r].todo)
        picture == job[r].source \cup {job[r].wall} IN
    /\ At(r, "animate") /\ job[r].epoch = epoch /\ ~job[r].blended
    /\ Show(o, picture)
    /\ inflight' = [inflight EXCEPT ![o].picture = picture]
    /\ Becomes(r, [job[r] EXCEPT !.blended = TRUE])
    /\ UNCHANGED <<tables, gpu, epoch, clocks, mishaps>>

\* The last frame, after which the entry goes if it is still this animation's.
Complete(r) ==
    LET o == Head(job[r].todo) IN
    /\ At(r, "animate") /\ job[r].epoch = epoch /\ job[r].blended
    /\ Show(o, {job[r].wall})
    /\ inflight' = [inflight EXCEPT ![o] = IF @.epoch = job[r].epoch THEN NoFlight ELSE @]
    /\ Becomes(r, Through(r, TRUE))
    /\ UNCHANGED <<tables, gpu, epoch, clocks, mishaps>>

\* The epoch moved on: the output is left to whoever moved it.
SupersededIsDone(r) == Becomes(r, Through(r, TRUE)) \* mutant
GiveUp(r) == Becomes(r, Through(r, FALSE))

Superseded(r) ==
    LET o == Head(job[r].todo) IN
    /\ At(r, "animate") /\ job[r].epoch # epoch
    /\ GiveUp(r)
    /\ Mishaps(IF \E q \in Request \ {r} : Live(q) /\ o \in job[q].outputs
               THEN {} ELSE {"cross"})
    /\ UNCHANGED <<screen, tables, drawing, clocks, seen>>

\* Draw at once: no blend was asked for or is possible, or the surface was
\* resized during one.
Direct(r) ==
    LET o == Head(job[r].todo) IN
    /\ \/ At(r, "change")
       \/ At(r, "animate") /\ job[r].epoch = epoch
    /\ StopTransition(o)
    /\ Show(o, {job[r].wall})
    /\ Becomes(r, Through(r, TRUE))
    /\ UNCHANGED <<tables, gpu, clocks, mishaps>>

\* Rendering or presenting fails.
DrawFails(r) ==
    /\ At(r, "change") \/ (At(r, "animate") /\ job[r].epoch = epoch)
    /\ Fail(r)
    /\ UNCHANGED <<screen, tables, epoch, inflight, clocks, seen>>

-----------------------------------------------------------------------------
\* A moving wallpaper: drawn by its clocks, which share the GPU lock.

\* The file is probed before the clock that runs is replaced.
Start(r) ==
    LET o == Head(job[r].todo) IN
    /\ At(r, "start")
    /\ clock' = [clock EXCEPT ![o] = [wall |-> job[r].wall, owner |-> r, shown |-> FALSE]]
    /\ Goes(r, "await")
    /\ Mishaps(IF LateFrame(o) THEN {"late"} ELSE {})
    /\ UNCHANGED <<screen, tables, drawing, inhand, seen>>

\* The first frame is up and the clock was not replaced meanwhile.
Ready(r) ==
    LET o == Head(job[r].todo) IN
    /\ At(r, "await")
    /\ clock[o].owner = r /\ clock[o].shown
    /\ LET j == Advance([job[r] EXCEPT !.at = "start", !.done = @ \cup {o}], "record") IN
       Becomes(r, j)
    /\ UNCHANGED <<screen, tables, drawing, clocks, history>>

Abandon(r) ==
    LET rest == InOrder(job[r].done) IN
    IF rest = << >> THEN Ends(r, "failed")
    ELSE Becomes(r, [job[r] EXCEPT !.at = "abandon", !.todo = rest])

\* The probe fails; or the clock fails, is too late or was replaced.
PlayFails(r) ==
    LET o == Head(job[r].todo) IN
    /\ At(r, "start") \/ At(r, "await")
    /\ IF At(r, "await") /\ clock[o].owner = r
       THEN StopClock(o) ELSE UNCHANGED clocks
    /\ Abandon(r)
    /\ Mishaps((IF Scarred(r) THEN {"partial"} ELSE {})
               \cup (IF At(r, "await") /\ LateFrame(o) THEN {"late"} ELSE {}))
    /\ UNCHANGED <<screen, tables, drawing, seen>>

\* A clock has a frame due and sees no stop.
Due(o) ==
    /\ clock[o] # NoClock
    /\ clock[o] \notin inhand[o]
    /\ inhand' = [inhand EXCEPT ![o] = @ \cup {clock[o]}]
    /\ UNCHANGED <<screen, tables, job, drawing, clock, history>>

\* It gets the GPU: the frame is shown, whatever was stopped meanwhile.
ShowFrame(o, c) ==
    /\ c \in inhand[o]
    /\ gpu = Free
    /\ Show(o, {c.wall})
    /\ inhand' = [inhand EXCEPT ![o] = @ \ {c}]
    /\ clock' = IF clock[o] = c THEN [clock EXCEPT ![o].shown = TRUE] ELSE clock
    /\ UNCHANGED <<tables, job, drawing, mishaps>>

-----------------------------------------------------------------------------
\* record_applied: the session file first; a still has the GPU lock until here.
\* A request that drew nothing fails instead.
Record(r) ==
    /\ At(r, "record") /\ job[r].done # {}
    /\ applied' = [o \in Output |-> IF o \in job[r].done THEN job[r].wall ELSE applied[o]]
    /\ session' = [o \in Output |-> IF o \in job[r].done THEN job[r].wall ELSE session[o]]
    /\ Ends(r, "ok")
    /\ Release(r)
    /\ UNCHANGED <<screen, epoch, inflight, clocks, history>>

\* The session cannot be saved, or every output was taken over.
RecordFails(r) ==
    /\ At(r, "record")
    /\ Release(r)
    /\ IF job[r].op = "play" THEN Abandon(r) ELSE Ends(r, "failed")
    /\ Mishaps(IF job[r].done # {} THEN {"partial"} ELSE {})
    /\ UNCHANGED <<screen, tables, epoch, inflight, clocks, seen>>

\* Engine::clear from its presenter calls on; the presenter lock is held for
\* all of them, and the first that fails ends the request.
Blank(r) ==
    /\ At(r, "blank")
    /\ screen' = [o \in Output |-> IF o \in job[r].outputs THEN {} ELSE screen[o]]
    /\ Goes(r, "unset")
    /\ UNCHANGED <<tables, drawing, clocks, history>>

BlankFails(r) ==
    /\ At(r, "blank")
    /\ \E gone \in SUBSET job[r].outputs :
           screen' = [o \in Output |-> IF o \in gone THEN {} ELSE screen[o]]
    /\ Ends(r, "failed")
    /\ Mishaps({"partial"})
    /\ UNCHANGED <<tables, drawing, clocks, seen>>

Unset(r) ==
    /\ At(r, "unset")
    /\ \/ /\ session' = [o \in Output |-> IF o \in job[r].outputs THEN NoWall ELSE session[o]]
          /\ Goes(r, "forget")
          /\ UNCHANGED mishaps
       \/ /\ Ends(r, "failed")
          /\ Mishaps({"partial"})
          /\ UNCHANGED session
    /\ UNCHANGED <<screen, applied, drawing, clocks, seen>>

Forget(r) ==
    /\ At(r, "forget")
    /\ applied' = [o \in Output |-> IF o \in job[r].outputs THEN NoWall ELSE applied[o]]
    /\ Ends(r, "ok")
    /\ UNCHANGED <<screen, session, drawing, clocks, history>>

-----------------------------------------------------------------------------
\* A request names one output or all of them.
Target == {Output} \cup {{o} : o \in Output}

Client(r) ==
    \E targets \in Target :
        \/ \E w \in Wall : SetMoving(r, w, targets)
                           \/ \E anim \in BOOLEAN : SetStill(r, w, anim, targets)
        \/ Clear(r, targets)

Run(r) ==
    \/ Stop(r) \/ Halt(r) \/ Lock(r)
    \/ Begin(r) \/ Blend(r) \/ Complete(r) \/ Superseded(r) \/ Direct(r) \/ DrawFails(r)
    \/ Start(r) \/ Ready(r) \/ PlayFails(r)
    \/ Record(r) \/ RecordFails(r)
    \/ Blank(r) \/ BlankFails(r) \/ Unset(r) \/ Forget(r)

Tick == \E o \in Output : Due(o) \/ \E c \in inhand[o] : ShowFrame(o, c)

Next == Tick \/ \E r \in Request : Client(r) \/ Run(r)

\* The thread of a request runs; clocks may stall.
Fairness == \A r \in Request : WF_vars(Run(r))

Spec == Init /\ [][Next]_vars
FairSpec == Spec /\ Fairness

-----------------------------------------------------------------------------
Picture == SUBSET Wall

\* Every variable has its type, and the GPU lock is held by a still from its
\* first output to its record and by nothing else.
TypeOK ==
    /\ screen \in [Output -> Picture]
    /\ applied \in [Output -> Wall \cup {NoWall}]
    /\ session \in [Output -> Wall \cup {NoWall}]
    /\ job \in [Request -> Job]
    /\ epoch \in Nat
    /\ inflight \in [Output -> [epoch : Nat, picture : Picture]]
    /\ clock \in [Output -> Clock \cup {NoClock}]
    /\ inhand \in [Output -> SUBSET Clock]
    /\ seen \in [Output -> SUBSET Wall]
    /\ mishaps \subseteq Mishap
    /\ gpu \in Request \cup {Free}
    /\ \A r \in Request :
           gpu = r <=> job[r].op = "still" /\ job[r].at \in {"change", "animate", "record"}

\* What is recorded for the next run was on the screen, all of it, whatever was
\* superseded, failed or raced (engine.rs:1351-1355, "exactly how a session ends
\* up recording a wallpaper that was never shown").
RecordedWasShown ==
    \A o \in Output : session[o] # NoWall => session[o] \in seen[o]

\* However many still images interrupted each other on the same outputs, once
\* they are through every screen shows one wallpaper, the one the daemon says it
\* shows and the one it would restore, and only that one may have a clock
\* (engine.rs:599-601, "The session file is intent; this is fact").
FactAtRest ==
    Quiet /\ mishaps = {} =>
        /\ session = applied
        /\ screen = [o \in Output |-> Full(applied[o])]
        /\ \A o \in Output : clock[o] # NoClock => clock[o].wall = applied[o]

\* Every request is answered: the requests are finitely many, and there comes a
\* time when none is waiting for the GPU, an animation or a first frame.
EveryRequestEnds == <>[](\A r \in Request : ~Live(r))

\* A request loses an output only to a request for that output (FR-CORE-3, "set
\* on one output never disturbs others").
SupersededByItsOwn ==
    [][\A r \in Request :
          LET o == Head(job[r].todo) IN
          /\ At(r, "animate") /\ job'[r].at # "failed"
          /\ job'[r].todo # job[r].todo /\ o \notin job'[r].done
          => \E q \in Request \ {r} : o \in job[q].outputs]_vars

\* An animation that interrupts another, where nothing else went wrong, starts
\* from what is on the screen
\* (BACKEND-DESIGN.md:208, "continues from current state (no snap)").
NoSnap ==
    [][\A r \in Request, o \in Output :
          /\ At(r, "animate") /\ job'[r].blended /\ ~job[r].blended
          /\ o = Head(job[r].todo) /\ Cardinality(screen[o]) > 1
          /\ mishaps = {}
          => job[r].source = screen[o]]_vars
=============================================================================
