------------------------------- MODULE Hotplug -------------------------------
(***************************************************************************)
(* Output reconciliation: the part of owed/src/engine.rs that keeps the    *)
(* daemon's list of outputs, their workers, the supervisor's records and   *)
(* what is on the screens in step with the compositor, and the thread of   *)
(* owed/src/hotplug.rs that drives it from the presenter's events.  IPC    *)
(* clients set, clear and patch the shell at the same time.                *)
(*                                                                         *)
(* Which wallpaper an output has plays no part here, only whether it has   *)
(* one; every screen is powered on and has scale 1.  The compositor and    *)
(* the presenter's Wayland side are external, as owe-render's surface.rs   *)
(* uses them: a change of an output and the events it causes are one step. *)
(***************************************************************************)
EXTENDS SupervisorOps, FiniteSets

CONSTANTS
    Client,         \* IPC connections, a thread each
    Sectioned,      \* outputs an [outputs.*] section has a wallpaper for
    MaxChanges,     \* bound: changes of the compositor
    MaxRequests,    \* bound: requests of clients
    MaxTogether     \* bound: changes, requests and whether anything failed, together

VARIABLES
    real,       \* the outputs the compositor has
    surface,    \* size of the daemon's surface on each output, if it has one
    picture,    \* size of the wallpaper drawn on that surface, if there is one
    events,     \* presenter events the hotplug thread has not received
    outputs,    \* Engine.outputs: the list the daemon believes in
    supervised,    \* Engine.supervisor
    workers,    \* keys of Engine.workers
    applied,    \* keys of Engine.applied: what this run has on screen
    session,    \* outputs with a wallpaper in the session
    gpu,        \* the thread that holds Engine.gpu, or Free
    thread,     \* control state and locals of every thread
    changes, requests,
    mishaps     \* history: adversities met so far

compositor == <<real, surface, picture>>
books == <<outputs, supervised, workers, applied, session>>
hotplugVars == <<compositor, events, books, gpu, thread, changes, requests, mishaps>>

Free == "free"
Listener == "hotplug"
Thread == Client \cup {Listener}

ASSUME HotplugAssumption ==
    /\ MaxChanges \in Nat /\ MaxRequests \in Nat /\ MaxTogether \in Nat
    /\ Free \notin Thread /\ Listener \notin Client
    /\ IsFiniteSet(Output) /\ Sectioned \subseteq Output

\* A presenter event; only Configured carries a size.
Event == [op : {"Added", "Removed", "Closed"}, output : Output, size : {NoSize}]
            \cup [op : {"Configured"}, output : Output, size : Size]
Plain(op, o) == [op |-> op, output |-> o, size |-> NoSize]
Configured(o, s) == [op |-> "Configured", output |-> o, size |-> s]

\* A piece of work on one output.  The second half of a present is to record it,
\* that of a teardown to drop the output, that of a clear to unset it.
Job == [op : {"reapply", "set", "record", "teardown", "drop", "clear", "unset"},
        output : Output]
Work(op, o) == [op |-> op, output |-> o]
Halves == {"record", "drop", "unset"}
ForEach(S, op) == {Work(op, o) : o \in S}

\* Adversities: the compositor changed while the daemon was busy, or while a
\* shell patch was under way; the backend could not list its outputs; a clear
\* and a present of another thread overlapped; an output was found without a
\* wallpaper between the present and the record of its first one; a patch and
\* the hotplug thread reconciled at the same time; a piece of work failed.
Mishap ==
    {"storm", "patch race", "listing failed", "clear race", "unrecorded", "crossed", "failed"}

ThreadState == [pc : {"restore", "idle", "batch", "diff", "observe", "act", "apply"},
                batch : Seq(Event), refresh : BOOLEAN,
                before : OutputList, after : OutputList, todo : SUBSET Job]
IdleThread == [pc |-> "idle", batch |-> << >>, refresh |-> FALSE,
               before |-> Nobody, after |-> Nobody, todo |-> {}]

Listed(list) == {o \in Output : list[o].listed}
Idle == \A t \in Thread : thread[t].pc = "idle"
Quiet == events = << >> /\ Idle

\* A thread that is through with what it did: the hotplug thread goes on with
\* its burst, or waits for the next one.
Resume(me) == IF me.batch = << >> /\ ~me.refresh THEN IdleThread
              ELSE [me EXCEPT !.pc = "batch", !.after = Nobody, !.todo = {}]

Reconciling(t) == thread[t].pc \in {"diff", "observe", "act"}
Patching(t) == t \in Client /\ Reconciling(t)

\* The daemon has started (Engine::start) and restores the session before the
\* hotplug thread listens; the presenter has announced every output, in some order.
InitHotplug ==
    /\ real \in [Output -> [listed : {TRUE}, active : {TRUE}, size : Size]
                               \cup {Unlisted}]
    /\ session \in SUBSET Output
    /\ surface = [o \in Output |-> NoSize]
    /\ picture = [o \in Output |-> NoSize]
    /\ \E s \in SetToSeqs(Listed(real)) :
           events = [i \in 1..Len(s) |-> Plain("Added", s[i])]
    /\ outputs = real
    /\ supervised = [o \in Output |-> Unknown]
    /\ workers = Listed(real)
    /\ applied = {}
    /\ gpu = Free
    /\ thread = [t \in Thread |->
                    IF t = Listener /\ Listed(real) # {}
                    THEN [IdleThread EXCEPT !.pc = "restore",
                                            !.todo = ForEach(Listed(real), "reapply")]
                    ELSE IdleThread]
    /\ changes = 0 /\ requests = 0
    /\ mishaps = {}

-----------------------------------------------------------------------------
\* What counts against MaxTogether.
Together == changes + requests + (IF "failed" \in mishaps THEN 1 ELSE 0)

\* The compositor.

Change ==
    /\ changes < MaxChanges /\ Together < MaxTogether
    /\ changes' = changes + 1
    /\ mishaps' = mishaps
           \cup (IF Quiet THEN {} ELSE {"storm"})
           \cup (IF \E t \in Thread : Patching(t) THEN {"patch race"} ELSE {})
    /\ UNCHANGED <<books, gpu, thread, requests>>

\* An output is plugged in.
Plug(o, s) ==
    /\ Change
    /\ ~real[o].listed
    /\ real' = [real EXCEPT ![o] = [listed |-> TRUE, active |-> TRUE, size |-> s]]
    /\ events' = Append(events, Plain("Added", o))
    /\ UNCHANGED <<surface, picture>>

\* An output is unplugged.  The compositor may close its surface first.
Unplug(o) ==
    /\ Change
    /\ real[o].listed
    /\ real' = [real EXCEPT ![o] = Unlisted]
    /\ surface' = [surface EXCEPT ![o] = NoSize]
    /\ picture' = [picture EXCEPT ![o] = NoSize]
    /\ \/ events' = Append(events, Plain("Removed", o))
       \/ /\ surface[o] # NoSize
          /\ events' = events \o <<Plain("Closed", o), Plain("Removed", o)>>

\* An output changes mode; a surface on it is reconfigured and keeps the old
\* picture until the next present.
Mode(o, s) ==
    /\ Change
    /\ real[o].listed /\ real[o].size # s
    /\ real' = [real EXCEPT ![o].size = s]
    /\ IF surface[o] = NoSize
       THEN UNCHANGED <<surface, events>>
       ELSE /\ surface' = [surface EXCEPT ![o] = s]
            /\ events' = Append(events, Configured(o, s))
    /\ UNCHANGED picture

\* The compositor closes the daemon's surface and keeps the output.
Close(o) ==
    /\ Change
    /\ surface[o] # NoSize
    /\ surface' = [surface EXCEPT ![o] = NoSize]
    /\ picture' = [picture EXCEPT ![o] = NoSize]
    /\ events' = Append(events, Plain("Closed", o))
    /\ UNCHANGED real

-----------------------------------------------------------------------------
\* The hotplug thread, up to the reconciliations it asks for.

Goes(t, state) == thread' = [thread EXCEPT ![t] = state]

\* Events that ask for a fresh list of outputs.
WantsRefreshOnAdd(e) == e.op = "Added" \* mutant
WantsRefresh(e) == e.op \in {"Added", "Removed"}

\* Wait for an event and drain the rest of the burst with it.
Receive ==
    LET me == thread[Listener] IN
    /\ me.pc = "idle"
    /\ events # << >>
    /\ events' = << >>
    /\ Goes(Listener, Resume([me EXCEPT
           !.batch = events,
           !.refresh = \E i \in 1..Len(events) : WantsRefresh(events[i])]))
    /\ UNCHANGED <<compositor, books, gpu, changes, requests, mishaps>>

\* Mutant: the configured size is not written into the list.
ConfiguredListSameSize(list, o, s) == [list EXCEPT ![o].active = TRUE]
ConfiguredList(list, o, s) == [list EXCEPT ![o].active = TRUE, ![o].size = s]

\* Outputs that came or went wait for the end of the burst.
PassOver ==
    LET me == thread[Listener] IN
    /\ me.pc = "batch" /\ me.batch # << >>
    /\ Head(me.batch).op \in {"Added", "Removed"}
    /\ Goes(Listener, Resume([me EXCEPT !.batch = Tail(@)]))
    /\ UNCHANGED <<compositor, events, books, gpu, changes, requests, mishaps>>

\* A reconciliation begins.
Crossing(others) == IF \E t \in others : Reconciling(t) THEN {"crossed"} ELSE {}

\* A surface was configured: reconcile against the daemon's own list, or the
\* backend's when the output is new, with the configured size written in.  A
\* backend that cannot list them ends that.
HandleConfigured ==
    LET me == thread[Listener]
        e == Head(me.batch)
        known == IF outputs[e.output].listed THEN outputs ELSE real IN
    /\ me.pc = "batch" /\ me.batch # << >>
    /\ e.op = "Configured"
    /\ \/ /\ known[e.output].listed
          /\ Goes(Listener, [me EXCEPT !.pc = "diff", !.batch = Tail(@),
                                       !.after = ConfiguredList(known, e.output, e.size)])
          /\ mishaps' = mishaps \cup Crossing(Client)
       \/ /\ ~known[e.output].listed
          /\ Goes(Listener, Resume([me EXCEPT !.batch = Tail(@)]))
          /\ UNCHANGED mishaps
       \/ /\ ~outputs[e.output].listed
          /\ Goes(Listener, Resume([me EXCEPT !.batch = Tail(@)]))
          /\ mishaps' = mishaps \cup {"listing failed"}
    /\ UNCHANGED <<compositor, events, books, gpu, changes, requests>>

\* A surface was closed: draw again what was drawn.
HandleClosed ==
    LET me == thread[Listener]
        o == Head(me.batch).output IN
    /\ me.pc = "batch" /\ me.batch # << >>
    /\ Head(me.batch).op = "Closed"
    /\ IF o \in applied /\ outputs[o].listed
       THEN Goes(Listener, [me EXCEPT !.pc = "apply", !.batch = Tail(@),
                                      !.todo = {Work("reapply", o)}])
       ELSE Goes(Listener, Resume([me EXCEPT !.batch = Tail(@)]))
    /\ UNCHANGED <<compositor, events, books, gpu, changes, requests, mishaps>>

RelistAgain(me, list) == [me EXCEPT !.pc = "diff", !.after = list] \* mutant
Relist(me, list) == [me EXCEPT !.pc = "diff", !.refresh = FALSE, !.after = list]

\* The burst is handled: list the outputs again if one came or went.  A
\* backend that cannot list them stands for the list of before.
Refresh ==
    LET me == thread[Listener] IN
    /\ me.pc = "batch" /\ me.batch = << >>
    /\ me.refresh
    /\ \/ /\ Goes(Listener, Relist(me, real))
          /\ mishaps' = mishaps \cup Crossing(Client)
       \/ /\ Goes(Listener, Relist(me, outputs))
          /\ mishaps' = mishaps \cup {"listing failed"} \cup Crossing(Client)
    /\ UNCHANGED <<compositor, events, books, gpu, changes, requests>>

-----------------------------------------------------------------------------
\* Clients, served once the session is restored.

Request(c) ==
    /\ thread[c].pc = "idle"
    /\ thread[Listener].pc # "restore"
    /\ requests < MaxRequests /\ Together < MaxTogether
    /\ requests' = requests + 1
    /\ UNCHANGED <<compositor, events, books, gpu, changes>>

Set(c, o) ==
    /\ Request(c)
    /\ Goes(c, [IdleThread EXCEPT !.pc = "apply", !.todo = {Work("set", o)}])
    /\ UNCHANGED mishaps

Clear(c, o) ==
    /\ Request(c)
    /\ outputs[o].listed
    /\ Goes(c, [IdleThread EXCEPT !.pc = "apply", !.todo = {Work("clear", o)}])
    /\ UNCHANGED mishaps

\* One patch at a time lists the outputs and reconciles against them.
PatchShell(c) ==
    /\ Request(c)
    /\ \A t \in Thread : ~Patching(t)
    /\ Goes(c, [IdleThread EXCEPT !.pc = "diff", !.after = real])
    /\ mishaps' = mishaps \cup Crossing({Listener})

-----------------------------------------------------------------------------
\* Engine::reconcile_outputs.

\* Read the list of before; the locks of the other tables come later.
Diffing(t) ==
    /\ thread[t].pc = "diff"
    /\ Goes(t, [thread[t] EXCEPT !.pc = "observe", !.before = outputs])
    /\ UNCHANGED <<compositor, events, books, gpu, changes, requests, mishaps>>

\* What the supervisor's actions ask for.  The code goes through them by name,
\* which puts no output before another.
OrdersWithoutSpawn(actions) == \* mutant
    ForEach({o \in Output : actions[o] = "Resize"}, "reapply")
Orders(actions) ==
    ForEach({o \in Output : actions[o] \in {"Spawn", "Resize"}}, "reapply")
        \cup ForEach({o \in Output : actions[o] = "Teardown"}, "teardown")

\* One worker per listed output; the supervisor observes; the new list is
\* published before its wallpapers are applied.
ObserveList(t) ==
    LET me == thread[t]
        r == ObserveSnapshot(supervised, me.before, me.after, 0) IN
    /\ me.pc = "observe"
    /\ workers' = Listed(me.after)
    /\ supervised' = r.records
    /\ outputs' = me.after
    /\ Goes(t, [me EXCEPT !.pc = "act", !.before = Nobody, !.todo = Orders(r.actions)])
    /\ UNCHANGED <<compositor, events, applied, session, gpu, changes, requests, mishaps>>

\* The last action is done: publish the list once more, and go on.
Republish(t) ==
    LET me == thread[t] IN
    /\ me.pc = "act" /\ me.todo = {}
    /\ outputs' = me.after
    /\ Goes(t, Resume(me))
    /\ UNCHANGED <<compositor, events, supervised, workers, applied, session, gpu,
                   changes, requests, mishaps>>

-----------------------------------------------------------------------------
\* The work on one output.

\* A thread has one output in hand at a time: what is half done is finished first.
Doing(t, op, o) ==
    /\ Work(op, o) \in thread[t].todo
    /\ op \in Halves \/ \A job \in thread[t].todo : job.op \notin Halves

\* One job is done, and perhaps another half is left of it.
Does(t, job, rest) ==
    LET me == [thread[t] EXCEPT !.todo = (@ \ {job}) \cup rest] IN
    Goes(t, IF me.todo = {} /\ me.pc # "act" THEN Resume(me) ELSE me)

Recording(t, o) == Work("record", o) \in thread[t].todo
Unsetting(t) == \E o \in Output : Work("unset", o) \in thread[t].todo

\* An apply that goes nowhere: nothing is planned for the output, by the session
\* or by a section, the daemon does not list it or the compositor has it no more.
Refused(op, o) ==
    \/ op = "reapply" /\ o \notin session \cup Sectioned
    \/ ~outputs[o].listed
    \/ ~real[o].listed

Skip(t, op, o) ==
    /\ Doing(t, op, o)
    /\ Refused(op, o)
    /\ Does(t, Work(op, o), {})
    /\ mishaps' = mishaps
           \cup (IF \E u \in Thread : Recording(u, o) THEN {"unrecorded"} ELSE {})
    /\ UNCHANGED <<compositor, events, books, gpu, changes, requests>>

\* Draw under the GPU lock.  The first frame makes the surface, and its first
\* configure is an event like any other; a frame of the wrong size is drawn
\* again at the size the compositor asks for.
Present(t, op, o) ==
    /\ Doing(t, op, o)
    /\ ~Refused(op, o)
    /\ gpu = Free
    /\ gpu' = t
    /\ surface' = [surface EXCEPT ![o] = real[o].size]
    /\ picture' = [picture EXCEPT ![o] = real[o].size]
    /\ workers' = workers \cup {o}
    /\ events' = IF surface[o] = NoSize
                 THEN Append(events, Configured(o, real[o].size)) ELSE events
    /\ mishaps' = mishaps
           \cup (IF \E c \in Client : Unsetting(c) THEN {"clear race"} ELSE {})
    /\ Does(t, Work(op, o), {Work("record", o)})
    /\ UNCHANGED <<real, outputs, supervised, applied, session, changes, requests>>

Release(t) == gpu' = Free

\* What was shown is recorded, in this run's table and in the session.
Record(t, o) ==
    /\ Doing(t, "record", o)
    /\ applied' = applied \cup {o}
    /\ session' = session \cup {o}
    /\ Release(t)
    /\ Does(t, Work("record", o), {})
    /\ UNCHANGED <<compositor, events, outputs, supervised, workers, changes, requests, mishaps>>

\* A piece of work fails with nothing to show for it: a picture that cannot be
\* read or drawn, a session file that cannot be written, a presenter that does
\* not answer.  The error is reported, and only a teardown goes on.
Fail(t, op, o) ==
    /\ Doing(t, op, o)
    /\ op \in {"reapply", "set"} => ~Refused(op, o)
    /\ "failed" \in mishaps \/ Together < MaxTogether
    /\ Does(t, Work(op, o), IF op = "teardown" THEN {Work("drop", o)} ELSE {})
    /\ IF op = "record" THEN Release(t) ELSE UNCHANGED gpu
    /\ mishaps' = mishaps \cup {"failed"}
    /\ UNCHANGED <<compositor, events, books, changes, requests>>

\* Take the surface away; no event tells of it.
BlankOutput(t, op, half, o) ==
    /\ Doing(t, op, o)
    /\ surface' = [surface EXCEPT ![o] = NoSize]
    /\ picture' = [picture EXCEPT ![o] = NoSize]
    /\ Does(t, Work(op, o), {Work(half, o)})
    /\ mishaps' = mishaps \cup (IF t \in Client /\ gpu # Free THEN {"clear race"} ELSE {})
    /\ UNCHANGED <<real, events, books, gpu, changes, requests>>

\* A teardown forgets the worker and what was shown, never the session.
Drop(t, o) ==
    /\ Doing(t, "drop", o)
    /\ workers' = workers \ {o}
    /\ applied' = applied \ {o}
    /\ Does(t, Work("drop", o), {})
    /\ UNCHANGED <<compositor, events, outputs, supervised, session, gpu,
                   changes, requests, mishaps>>

\* A clear forgets what was shown and the session's entry.
Unset(t, o) ==
    /\ Doing(t, "unset", o)
    /\ session' = session \ {o}
    /\ applied' = applied \ {o}
    /\ Does(t, Work("unset", o), {})
    /\ UNCHANGED <<compositor, events, outputs, supervised, workers, gpu,
                   changes, requests, mishaps>>

-----------------------------------------------------------------------------
Compositor ==
    \E o \in Output :
        \/ Unplug(o) \/ Close(o)
        \/ \E s \in Size : Plug(o, s) \/ Mode(o, s)

Ask ==
    \E c \in Client :
        \/ PatchShell(c)
        \/ \E o \in Output : Set(c, o) \/ Clear(c, o)

\* What the hotplug thread does with its burst.
Listen == Receive \/ PassOver \/ HandleConfigured \/ HandleClosed \/ Refresh

\* What a thread does on its own.
Step(t) ==
    \/ t = Listener /\ Listen
    \/ Diffing(t) \/ ObserveList(t) \/ Republish(t)
    \/ \E o \in Output :
           \/ \E op \in {"reapply", "set"} : Skip(t, op, o) \/ Present(t, op, o)
           \/ \E op \in {"reapply", "set", "record", "teardown", "clear", "unset"} : Fail(t, op, o)
           \/ Record(t, o) \/ Drop(t, o) \/ Unset(t, o)
           \/ BlankOutput(t, "teardown", "drop", o)
           \/ BlankOutput(t, "clear", "unset", o)

NextHotplug == Compositor \/ Ask \/ \E t \in Thread : Step(t)

\* Threads run; the GPU lock is held for one present and record.
Fairness == \A t \in Thread : WF_hotplugVars(Step(t))

HotplugSpec == InitHotplug /\ [][NextHotplug]_hotplugVars
FairHotplugSpec == HotplugSpec /\ Fairness

-----------------------------------------------------------------------------
\* Every variable has its type, and the GPU lock is held from a present to its
\* record and at no other time.
HotplugTypes ==
    /\ real \in OutputList /\ outputs \in OutputList
    /\ surface \in [Output -> Size \cup {NoSize}]
    /\ picture \in [Output -> Size \cup {NoSize}]
    /\ events \in Seq(Event)
    /\ supervised \in [Output -> Tracked]
    /\ workers \subseteq Output /\ applied \subseteq Output /\ session \subseteq Output
    /\ thread \in [Thread -> ThreadState]
    /\ changes \in Nat /\ requests \in Nat
    /\ mishaps \subseteq Mishap
    /\ gpu \in Thread \cup {Free}
    /\ \A t \in Thread : gpu = t <=> \E o \in Output : Recording(t, o)

\* However many outputs came, went and changed mode while the daemon was busy
\* with earlier changes, whoever reconciled at the same time and whatever could
\* not be drawn, recorded or taken away, once it has handled every event the list
\* it believes in is the compositor's (engine.rs:2590-2598, "the next reconcile
\* would diff against the wrong baseline").
SnapshotSettles ==
    Quiet /\ mishaps \subseteq {"storm", "crossed", "failed"} =>
        /\ Listed(outputs) = Listed(real)
        /\ \A o \in Output : surface[o] # NoSize => outputs[o].size = real[o].size

\* ... and every surface shows a picture of its own size, unless two threads
\* reconciled at the same time.
DrawnAtSize ==
    Quiet /\ mishaps \subseteq {"storm"} => picture = surface

\* When the compositor waits for the daemon between two changes, an output
\* with a wallpaper in the session shows it, whenever it was plugged in, and
\* however often (FR-LIB-4, FR-LIB-5).
WallpaperReturns ==
    Quiet /\ mishaps = {} =>
        \A o \in Output : real[o].listed /\ o \in session => picture[o] = real[o].size

\* The daemon comes to rest: no reconciliation causes events that cause
\* reconciliations for ever (hotplug.rs, "reconciles once per burst").
Settles == <>[]Quiet

\* Without the condition that nobody else reconciles: whatever a patch of the
\* shell lists at the same time, an output that is plugged in shows its wallpaper.
ReturnsAnyway ==
    Quiet /\ mishaps \subseteq {"crossed"} =>
        \A o \in Output : real[o].listed /\ o \in session => picture[o] = real[o].size

\* Without the condition that the compositor waits: an output that is
\* unplugged and plugged in again shows its wallpaper (PRD-F-08).
ReplugRestores ==
    Quiet /\ mishaps \subseteq {"storm"} =>
        \A o \in Output : real[o].listed /\ o \in session => picture[o] = real[o].size

\* Without the condition that the supervisor tracks it: an output that goes
\* away is torn down (supervisor.rs:13-15).
UnpluggedIsTornDown ==
    Quiet /\ mishaps = {} => applied \subseteq Listed(real)
=============================================================================
