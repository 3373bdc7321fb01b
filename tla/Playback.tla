------------------------------ MODULE Playback ------------------------------
(***************************************************************************)
(* The frame clocks of one output: PlaybackRegistry, Session, Shared and   *)
(* Clock of owed/src/playback.rs.  Every request is a thread; every        *)
(* session has a clock thread that decodes and shows frames.  Outputs      *)
(* share nothing but the hold and the lifecycle lock.                      *)
(*                                                                         *)
(* Frames become due, decoders answer and waits run out at any time:       *)
(* wake-ups are shortcuts, every wait has a timeout.  The decoder and the  *)
(* sink that draws are external; either may fail or never return.          *)
(***************************************************************************)
EXTENDS Naturals, Sequences

CONSTANTS
    Milli,          \* units of content time in a millisecond
    Delays,         \* how long each frame of the content is shown, in those units
    Duration,       \* the content's length as its container gives it, in milliseconds
    SeekBudget,     \* SEEK_FRAME_BUDGET: frames a walk may pull
    Targets,        \* times a client seeks to, in milliseconds
    Loops,          \* ranges a client loops: pairs of start and end, in milliseconds
    MaxRequests     \* bound: requests, each a thread of its own

ASSUME PlaybackAssumption ==
    /\ Milli \in Nat \ {0} /\ Duration \in Nat
    /\ Delays \in Seq(Nat \ {0}) /\ Delays # << >>
    /\ SeekBudget \in Nat \ {0}
    /\ Targets \subseteq Nat
    /\ Loops \subseteq {pair \in Nat \X Nat : pair[1] < pair[2]}
    /\ MaxRequests \in Nat

\* Frames are numbered from 1; frame i begins when the ones before it have ended.
\* The clock counts whole milliseconds and drops the rest of every delay, so for
\* video, where a frame takes a rate's part of a second, it counts too little.
Last == Len(Delays)
Frames == 1..Last
EndOf[i \in 0..Last] == IF i = 0 THEN 0 ELSE EndOf[i - 1] + Delays[i]
Counted[i \in 0..Last] == IF i = 0 THEN 0 ELSE Counted[i - 1] + Delays[i] \div Milli

Contains(frame, time) ==
    /\ EndOf[frame - 1] <= time * Milli
    /\ time * Milli < EndOf[frame] \/ frame = Last

\* What a seek can promise: no frame that ended before the target, and none that
\* begins after it by more than what was dropped of the frames before, less than a
\* millisecond each; nothing is dropped of whole milliseconds.
Whole == \A i \in Frames : Milli * (Delays[i] \div Milli) = Delays[i]
Drift(n) == IF Whole THEN 0 ELSE n * (Milli - 1)
Near(frame, time) ==
    /\ EndOf[frame - 1] <= time * Milli + Drift(frame - 1)
    /\ time * Milli < EndOf[frame] \/ frame = Last

Request == 1..MaxRequests

\* A session is named by the request that starts it; Boot was there before.
Boot == MaxRequests + 1
Session == Request \cup {Boot}
Nobody == 0

VARIABLES
    registered, \* the session in PlaybackRegistry.sessions, or Nobody
    lifecycle,  \* the request that holds the lifecycle lock, or Nobody
    held,       \* governor.override pause
    seeks,      \* sequence of accepted seeks
    shared,     \* what a clock and its callers share, per session
    clock,      \* control state and locals of every clock thread
    job,        \* control state and locals of every request
    screen,     \* the session and frame on the output
    drawn,      \* history: sessions that have shown a frame
    landed,     \* history: seeks that were shown a frame near their target
    overrun     \* history: frames shown per session although it was stopped,
                \* and although it was paused or held

registry == <<registered, lifecycle, held, seeks>>
history == <<drawn, landed, overrun>>
vars == <<registry, shared, clock, job, screen, history>>

NoSeek == [seq |-> 0, target |-> 0]
Seek == [seq : Nat, target : Nat]
NoResult == [seq |-> 0, answer |-> "none"]
Result == [seq : Nat, answer : {"none", "applied", "refused", "fatal"}]
NoLoop == <<0, 0>>

Runtime == [playing : BOOLEAN, stop : BOOLEAN, failed : BOOLEAN,
            pending : Seek, result : Result, range : Loops \cup {NoLoop}, position : Frames,
            ready : {"none", "ok", "error"}, command : Request \cup {Nobody}]
NewRuntime == [playing |-> TRUE, stop |-> FALSE, failed |-> FALSE,
               pending |-> NoSeek, result |-> NoResult, range |-> NoLoop, position |-> 1,
               ready |-> "none", command |-> Nobody]

Clock == [at : {"none", "open", "wait", "walk", "show", "after", "reset", "done"},
          purpose : {"first", "pull", "wrap", "seek"}, frame : 0..Last,
          seek : Seek]
NoClock == [at |-> "none", purpose |-> "first", frame |-> 0, seek |-> NoSeek]
Ended == [NoClock EXCEPT !.at = "done"]

Op == {"start", "stop", "play", "pause", "loop", "seek", "hold"}
Job == [op : Op, at : {"new", "acquire", "join", "spawn", "await", "lock", "landing",
                       "snapshot", "ok", "failed"},
        session : Session \cup {Nobody}, seek : Seek, range : Loops \cup {NoLoop}]
NewJob == [op |-> "stop", at |-> "new", session |-> Nobody, seek |-> NoSeek, range |-> NoLoop]

Alive(s) == clock[s].at \notin {"none", "done"}
Live(r) == job[r].at \notin {"new", "ok", "failed"}

\* The output plays nothing or has a clock, paused or not, between two frames.
Init ==
    /\ registered \in {Nobody, Boot}
    /\ lifecycle = Nobody /\ seeks = 0 /\ held = FALSE
    /\ \E frame \in Frames, playing \in BOOLEAN :
           LET running(s) == s = Boot /\ registered = Boot IN
           /\ registered = Nobody => frame = 1 /\ playing
           /\ shared = [s \in Session |->
                  IF running(s) THEN [NewRuntime EXCEPT !.position = frame, !.playing = playing]
                  ELSE NewRuntime]
           /\ clock = [s \in Session |->
                  IF running(s) THEN [NoClock EXCEPT !.at = "wait", !.frame = frame]
                  ELSE NoClock]
           /\ screen = [session |-> registered, frame |-> frame]
    /\ job = [r \in Request |-> NewJob]
    /\ drawn = {registered} \ {Nobody}
    /\ landed = {}
    /\ overrun = [s \in Session |-> [stopped |-> 0, frozen |-> 0]]

-----------------------------------------------------------------------------
\* The control of a request.

At(r, step) == job[r].at = step
Becomes(r, j) == job' = [job EXCEPT ![r] = j]
Goes(r, step) == Becomes(r, [job[r] EXCEPT !.at = step])

\* Session::stop up to its wait, for one session.  A ready result that nobody
\* has taken becomes the refusal.
Stopped(sh) ==
    [sh EXCEPT !.stop = TRUE, !.playing = FALSE, !.pending = NoSeek,
               !.ready = IF @ = "none" THEN "error" ELSE @]
Stops(s) == shared' = [shared EXCEPT ![s] = Stopped(@)]

Ask(r, j) ==
    /\ At(r, "new")
    /\ \A q \in Request : At(q, "new") => q >= r
    /\ Becomes(r, j)
    /\ UNCHANGED <<registry, shared, clock, screen, history>>

AskStart(r) == Ask(r, [NewJob EXCEPT !.op = "start", !.at = "acquire"])
AskStop(r) == Ask(r, [NewJob EXCEPT !.op = "stop", !.at = "acquire"])

\* Commands go to the session that is registered now; without one they fail.
AskCommand(r, op, target, range) ==
    Ask(r, [NewJob EXCEPT !.op = op, !.session = registered,
                          !.at = IF registered = Nobody THEN "failed" ELSE "lock",
                          !.seek = [seq |-> 0, target |-> target], !.range = range])

\* set_held, from the thread of its own request.
Hold(r) ==
    /\ At(r, "new")
    /\ \A q \in Request : At(q, "new") => q >= r
    /\ held' = ~held
    /\ Becomes(r, [NewJob EXCEPT !.op = "hold", !.at = "ok"])
    /\ overrun' = [s \in Session |-> [overrun[s] EXCEPT !.frozen = 0]]
    /\ UNCHANGED <<registered, lifecycle, seeks, shared, clock, screen, drawn, landed>>

-----------------------------------------------------------------------------
\* PlaybackRegistry::start and stop.

\* Take the lifecycle lock, and the session out of the registry to stop it.
KeepOld(s) == UNCHANGED shared \* mutant
Replace(s) == Stops(s)

Acquire(r) ==
    /\ At(r, "acquire")
    /\ lifecycle = Nobody
    /\ lifecycle' = r
    /\ registered' = Nobody
    /\ IF registered = Nobody
       THEN UNCHANGED shared /\ Goes(r, "spawn")
       ELSE Replace(registered) /\ Becomes(r, [job[r] EXCEPT !.at = "join", !.session = registered])
    /\ UNCHANGED <<held, seeks, clock, screen, history>>

\* Wait for the clock to end, or let it go after STOP_TIMEOUT; stop_if_current
\* waits without the lock and has nothing left to do then.
Join(r) ==
    /\ At(r, "join")
    /\ IF lifecycle = r
       THEN Goes(r, "spawn")
       ELSE Becomes(r, [NewJob EXCEPT !.op = job[r].op, !.at = "failed"])
    /\ UNCHANGED <<registry, shared, clock, screen, history>>

\* A stop ends here; a start installs its session and its clock, or fails to
\* spawn the thread.
Spawn(r) ==
    /\ At(r, "spawn")
    /\ lifecycle' = Nobody
    /\ \/ /\ job[r].op = "start"
          /\ registered' = r
          /\ clock' = [clock EXCEPT ![r] = [NoClock EXCEPT !.at = "open"]]
          /\ Becomes(r, [job[r] EXCEPT !.at = "await", !.session = r])
       \/ /\ Becomes(r, [NewJob EXCEPT !.op = job[r].op,
                                       !.at = IF job[r].op = "stop" THEN "ok" ELSE "failed"])
          /\ UNCHANGED <<registered, clock>>
    /\ UNCHANGED <<held, seeks, shared, screen, history>>

\* The clock said how its first frame went: take the result, and answer with
\* the state of the session if it is still the registered one.
Ready(r) ==
    /\ At(r, "await")
    /\ shared[r].ready = "ok"
    /\ shared' = [shared EXCEPT ![r].ready = "none"]
    /\ Goes(r, IF registered = r THEN "ok" ELSE "failed")
    /\ UNCHANGED <<registry, clock, screen, history>>

\* It failed, or takes too long: stop it unless somebody else has.
NotReady(r) ==
    /\ At(r, "await")
    /\ shared[r].ready # "ok"
    /\ registered' = IF registered = r THEN Nobody ELSE registered
    /\ LET taken == [shared[r] EXCEPT !.ready = "none"] IN
       IF registered = r
       THEN /\ shared' = [shared EXCEPT ![r] = Stopped(taken)]
            /\ Goes(r, "join")
       ELSE /\ shared' = [shared EXCEPT ![r] = taken]
            /\ Goes(r, "failed")
    /\ UNCHANGED <<lifecycle, held, seeks, clock, screen, history>>

-----------------------------------------------------------------------------
\* PlaybackRegistry::command.

Refuses(s) == shared[s].failed \/ shared[s].stop

\* One command at a time per session; a seek keeps the others out until it is
\* answered.
Command(r) ==
    LET s == job[r].session
        op == job[r].op IN
    /\ At(r, "lock")
    /\ shared[s].command = Nobody
    /\ IF Refuses(s)
       THEN Goes(r, "failed") /\ UNCHANGED <<seeks, shared, overrun>>
       ELSE IF op = "seek"
       THEN LET request == [seq |-> seeks + 1, target |-> job[r].seek.target] IN
            /\ seeks' = seeks + 1
            /\ shared' = [shared EXCEPT ![s].pending = request, ![s].result = NoResult,
                                        ![s].command = r]
            /\ Becomes(r, [job[r] EXCEPT !.at = "landing", !.seek = request])
            /\ UNCHANGED overrun
       ELSE /\ shared' = [shared EXCEPT ![s].playing = IF op = "loop" THEN @ ELSE op = "play",
                                        ![s].range = IF op = "loop" THEN job[r].range ELSE @]
            /\ overrun' = IF op = "play" THEN [overrun EXCEPT ![s].frozen = 0] ELSE overrun
            /\ Goes(r, "snapshot")
            /\ UNCHANGED seeks
    /\ UNCHANGED <<registered, lifecycle, held, clock, screen, drawn, landed>>

\* wait_for_seek: the seek is answered by a result that is not older than it;
\* or else by the end of the session or the timeout.
AnyResult(r) == shared[job[r].session].result # NoResult \* mutant
OwnResult(r) == /\ shared[job[r].session].result # NoResult
                /\ shared[job[r].session].result.seq >= job[r].seek.seq

Answered(r, step) ==
    /\ Goes(r, step)
    /\ shared' = [shared EXCEPT ![job[r].session].command = Nobody]
    /\ UNCHANGED <<registry, clock, screen, history>>

Landed(r) ==
    /\ At(r, "landing")
    /\ OwnResult(r)
    /\ Answered(r, IF shared[job[r].session].result.answer = "applied"
                   THEN "snapshot" ELSE "failed")

\* Mutant: a seek waits as long as its session lives.
GivesUpWithSession(r) == ~OwnResult(r) /\ Refuses(job[r].session)
GivesUp(r) == ~OwnResult(r)

Unanswered(r) ==
    /\ At(r, "landing")
    /\ GivesUp(r)
    /\ Answered(r, "failed")

\* The answer of a command is the state of its session, if it still plays.
Snapshot(r) ==
    /\ At(r, "snapshot")
    /\ Goes(r, IF registered = job[r].session THEN "ok" ELSE "failed")
    /\ UNCHANGED <<registry, shared, clock, screen, history>>

-----------------------------------------------------------------------------
\* The clock thread.

Ticks(s, step) == clock[s].at = step
Turns(s, c) == clock' = [clock EXCEPT ![s] = c]
Step(s, step) == Turns(s, [clock[s] EXCEPT !.at = step])

\* complete_seek: never over the result of a newer seek.
Completed(sh, seq, answer) ==
    IF sh.result.seq < seq
    THEN [sh EXCEPT !.result = [seq |-> seq, answer |-> answer]] ELSE sh

\* fail_if_running: the reason stays with the session; a stopped one has none.
FailedUnlessStopped(sh) ==
    IF sh.stop THEN sh
    ELSE [sh EXCEPT !.failed = TRUE, !.playing = FALSE,
                    !.ready = IF @ = "none" THEN "error" ELSE @]

\* The thread ends with an error, which answers the seek it was about.
Dies(s) ==
    LET sh == IF clock[s].purpose = "seek"
              THEN Completed(shared[s], clock[s].seek.seq, "fatal") ELSE shared[s] IN
    /\ shared' = [shared EXCEPT ![s] = FailedUnlessStopped(sh)]
    /\ Turns(s, Ended)
    /\ UNCHANGED <<registry, job, screen, history>>

\* The decoder opens and gives its first frame.
Open(s) ==
    /\ Ticks(s, "open")
    /\ IF shared[s].stop THEN Turns(s, Ended)
       ELSE Turns(s, [clock[s] EXCEPT !.at = "show", !.purpose = "first", !.frame = 1])
    /\ UNCHANGED <<registry, shared, job, screen, history>>

Publish(s, frame) == shared' = [shared EXCEPT ![s].position = frame]

\* wait_for_turn: a stop comes first, then a seek, and a frame only while the
\* clock is neither paused nor held.
PlaysAlways(s) == TRUE \* mutant
MayPlay(s) == shared[s].playing /\ ~held

TurnStop(s) ==
    /\ Ticks(s, "wait")
    /\ shared[s].stop
    /\ Turns(s, Ended)
    /\ UNCHANGED <<registry, shared, job, screen, history>>

TurnSeek(s) ==
    /\ Ticks(s, "wait")
    /\ ~shared[s].stop /\ shared[s].pending # NoSeek
    /\ shared' = [shared EXCEPT ![s].pending = NoSeek]
    /\ Turns(s, [at |-> "walk", purpose |-> "seek", frame |-> 0, seek |-> shared[s].pending])
    /\ UNCHANGED <<registry, job, screen, history>>

\* Clock::advance: pull the next frame; at the end of the loop, or of the
\* content, go back to where the loop begins.
Wraps(frame, range) ==
    \/ range # NoLoop /\ Counted[frame] >= range[2]
    \/ range = NoLoop /\ Counted[frame] >= Duration
    \/ frame = Last

TurnPull(s) ==
    LET frame == clock[s].frame
        range == shared[s].range IN
    /\ Ticks(s, "wait")
    /\ ~shared[s].stop /\ shared[s].pending = NoSeek /\ MayPlay(s)
    /\ IF Wraps(frame, range)
       THEN /\ Turns(s, [at |-> "walk", purpose |-> "wrap", frame |-> 0,
                         seek |-> [seq |-> 0, target |-> range[1]]])
            /\ UNCHANGED shared
       ELSE /\ Turns(s, [clock[s] EXCEPT !.at = "show", !.purpose = "pull", !.frame = frame + 1])
            /\ Publish(s, frame + 1)
    /\ UNCHANGED <<registry, job, screen, history>>

\* Clock::jump_to: from the beginning of the content, pull frames until the
\* one held ends after the target, as the clock counts, or was the last, and
\* publish it before it is shown.  The walk looks at the stop before every frame.
PastTarget(c) == Counted[c.frame] > c.seek.target

Walking(s) == Ticks(s, "walk") /\ ~shared[s].stop

Walk(s) ==
    LET c == clock[s] IN
    /\ Walking(s)
    /\ IF PastTarget(c) \/ c.frame = Last
       THEN Step(s, "show") /\ Publish(s, c.frame)
       ELSE /\ c.frame < SeekBudget
            /\ Turns(s, [c EXCEPT !.frame = @ + 1])
            /\ UNCHANGED shared
    /\ UNCHANGED <<registry, job, screen, history>>

\* A seek beyond the budget is refused, and the clock starts over; a loop that
\* begins there ends it.
OutOfReach(s) ==
    LET c == clock[s] IN
    /\ Walking(s)
    /\ ~PastTarget(c) /\ c.frame # Last /\ c.frame >= SeekBudget
    /\ IF c.purpose = "seek"
       THEN /\ shared' = [shared EXCEPT ![s] = Completed(@, c.seek.seq, "refused")]
            /\ Turns(s, [NoClock EXCEPT !.at = "reset"])
       ELSE /\ shared' = [shared EXCEPT ![s] = FailedUnlessStopped(@)]
            /\ Turns(s, Ended)
    /\ UNCHANGED <<registry, job, screen, history>>

\* reset_to_start: the first frame is held, not shown.
Reset(s) ==
    /\ Ticks(s, "reset")
    /\ Turns(s, [NoClock EXCEPT !.at = "wait", !.frame = 1])
    /\ Publish(s, 1)
    /\ UNCHANGED <<registry, job, screen, history>>

\* present_current sees a stop and shows nothing; a seek is then answered as
\* failed, and a first frame never comes.
CheckStop(s) == shared[s].stop

Skip(s) ==
    /\ Ticks(s, "show") \/ Ticks(s, "walk")
    /\ CheckStop(s)
    /\ shared' = IF clock[s].purpose = "seek"
                 THEN [shared EXCEPT ![s] = Completed(@, clock[s].seek.seq, "fatal")] ELSE shared
    /\ Turns(s, Ended)
    /\ UNCHANGED <<registry, job, screen, history>>

\* The sink shows the frame; a stop that came after the check is too late.
Show(s) ==
    LET c == clock[s]
        sh == shared[s]
        frozen == c.purpose \in {"pull", "wrap"} /\ (held \/ ~sh.playing) IN
    /\ Ticks(s, "show")
    /\ screen' = [session |-> s, frame |-> c.frame]
    /\ Step(s, "after")
    /\ drawn' = drawn \cup {s}
    /\ landed' = IF c.purpose = "seek" /\ Near(c.frame, c.seek.target)
                 THEN landed \cup {c.seek.seq} ELSE landed
    /\ overrun' = [overrun EXCEPT ![s] =
           [stopped |-> IF sh.stop THEN @.stopped + 1 ELSE @.stopped,
            frozen  |-> IF frozen THEN @.frozen + 1 ELSE @.frozen]]
    /\ UNCHANGED <<registry, shared, job>>

\* Afterwards the frame is counted and whoever waits for it is told.
After(s) ==
    LET c == clock[s]
        sh == shared[s]
        told == CASE c.purpose = "first" -> [sh EXCEPT !.ready = IF @ = "none" THEN "ok" ELSE @]
                  [] c.purpose = "seek" -> Completed(sh, c.seek.seq, "applied")
                  [] OTHER -> sh IN
    /\ Ticks(s, "after")
    /\ IF sh.stop
       THEN /\ shared' = IF c.purpose = "seek"
                         THEN [shared EXCEPT ![s] = Completed(@, c.seek.seq, "fatal")] ELSE shared
            /\ Turns(s, Ended)
       ELSE /\ shared' = [shared EXCEPT ![s] = [told EXCEPT !.position = c.frame]]
            /\ Turns(s, [NoClock EXCEPT !.at = "wait", !.frame = c.frame])
    /\ UNCHANGED <<registry, job, screen, history>>

\* The decoder or the sink fails.
Breaks(s) ==
    /\ clock[s].at \in {"open", "wait", "walk", "show", "reset"}
    /\ Ticks(s, "wait") => ~shared[s].stop /\ shared[s].pending = NoSeek /\ MayPlay(s)
    /\ Dies(s)

-----------------------------------------------------------------------------
Client(r) ==
    \/ AskStart(r) \/ AskStop(r) \/ Hold(r)
    \/ AskCommand(r, "play", 0, NoLoop) \/ AskCommand(r, "pause", 0, NoLoop)
    \/ \E t \in Targets : AskCommand(r, "seek", t, NoLoop)
    \/ \E range \in Loops : AskCommand(r, "loop", 0, range)

Run(r) ==
    \/ Acquire(r) \/ Join(r) \/ Spawn(r) \/ Ready(r) \/ NotReady(r)
    \/ Command(r) \/ Landed(r) \/ Unanswered(r) \/ Snapshot(r)

Tick(s) ==
    \/ Open(s) \/ TurnStop(s) \/ TurnSeek(s) \/ TurnPull(s)
    \/ Walk(s) \/ OutOfReach(s) \/ Reset(s)
    \/ Skip(s) \/ Show(s) \/ After(s) \/ Breaks(s)

Next ==
    \/ \E r \in Request : Client(r) \/ Run(r)
    \/ \E s \in Session : Tick(s)

\* Requests run and their waits end; a decoder or a sink may never return.
Fairness == \A r \in Request : WF_vars(Run(r))

Spec == Init /\ [][Next]_vars
FairSpec == Spec /\ Fairness

-----------------------------------------------------------------------------
\* Every variable has its type; the lifecycle lock is held from taking a session
\* out to installing the next, the command lock while a seek is waited for; and
\* a session that failed never plays again, whatever is commanded.
TypeOK ==
    /\ registered \in Session \cup {Nobody}
    /\ held \in BOOLEAN /\ seeks \in Nat
    /\ shared \in [Session -> Runtime]
    /\ clock \in [Session -> Clock]
    /\ job \in [Request -> Job]
    /\ screen \in [session : Session \cup {Nobody}, frame : Frames]
    /\ drawn \subseteq Session /\ landed \subseteq 1..seeks
    /\ overrun \in [Session -> [stopped : Nat, frozen : Nat]]
    /\ lifecycle \in Request \cup {Nobody}
    /\ \A r \in Request :
           /\ At(r, "spawn") => lifecycle = r
           /\ lifecycle = r => job[r].at \in {"join", "spawn"}
           /\ \A s \in Session :
                  shared[s].command = r <=> At(r, "landing") /\ job[r].session = s
    /\ \A s \in Session : shared[s].failed => ~shared[s].playing

\* A success tells the truth, whatever timed out, was replaced or was stopped
\* meanwhile: a seek that succeeds was shown a frame that had not ended at its
\* target and begins there or before, but for the parts of milliseconds jump_to
\* drops; of content whose delays are whole milliseconds it is the frame whose slot
\* contains the target.  A start that succeeds has shown a frame of its own
\* (playback.rs:391-394).
AnswersAreTrue ==
    \A r \in Request :
        /\ job[r].op = "seek" /\ job[r].at \in {"snapshot", "ok"} => job[r].seek.seq \in landed
        /\ job[r].op = "start" /\ At(r, "ok") => r \in drawn

\* A clock that runs and was not told to stop is the registered one: however
\* starts, failures and stops overlap, nobody loses hold of a running clock
\* (test starting_over_a_running_wallpaper_replaces_it_without_leaks).
NoLeakedClock ==
    \A s \in Session : Alive(s) /\ ~shared[s].stop => registered = s

\* A clock that was stopped, paused or held shows at most the frame it already
\* had in hand (playback.rs:22-23, "pause freezes without losing the position").
FreezesAtOnce ==
    \A s \in Session : overrun[s].stopped <= 1 /\ overrun[s].frozen <= 1

\* Every request is answered, even when decoders and sinks never return.
EveryRequestEnds == <>[](\A r \in Request : ~Live(r))

\* "Rewind and skip forward to the frame whose start time contains target_ms"
\* (jump_to): that is the frame a seek shows, whatever its delay.
SeekIsExact ==
    \A s \in Session :
        Ticks(s, "after") /\ clock[s].purpose = "seek"
        => Contains(clock[s].frame, clock[s].seek.target)

\* What stats.get reports as "Index of the frame on screen" (playback.rs:302) is
\* that, for a paused clock.
PositionIsOnScreen ==
    \A s \in Session :
        /\ registered = s /\ Ticks(s, "wait") /\ ~shared[s].playing
        /\ screen.session = s
        => screen.frame = shared[s].position
=============================================================================
