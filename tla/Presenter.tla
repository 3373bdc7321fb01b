------------------------------ MODULE Presenter ------------------------------
(***************************************************************************)
(* The presenter of owe-render/src/surface.rs: callers that send it        *)
(* commands one at a time and give up after a while, the presenter thread  *)
(* with its surfaces, parked presents, frame waiters and buffers, and the  *)
(* compositor (external) with the events it sends.                         *)
(*                                                                         *)
(* A call's number stands for its frame and, when the call creates a       *)
(* surface, for that surface.  Requests reach the compositor when they are *)
(* flushed, at the end of the handler that makes them; its events queue.   *)
(***************************************************************************)
EXTENDS Naturals, Sequences

CONSTANTS
    Output,
    Size,           \* sizes of outputs and frames
    NoSize,         \* no size: not configured, not plugged in
    MaxBuffers,     \* buffer slots of a surface (render.buffering.max_in_flight)
    MaxCalls,       \* bound: calls
    MaxChanges      \* bound: changes the compositor makes of its own accord

ASSUME PresenterAssumption ==
    /\ Output # {} /\ Size # {} /\ NoSize \notin Size
    /\ MaxBuffers \in Nat \ {0}
    /\ MaxCalls \in Nat /\ MaxChanges \in Nat

Call == 1..MaxCalls
Nobody == 0
Slot == 0..MaxBuffers - 1

VARIABLES
    call,       \* every call: what it asks, how far it is, its reply channel
    commands,   \* calls on the command channel
    running,    \* the presenter thread is in its event loop
    known,      \* outputs in OutputState
    surface,    \* PresenterState.surfaces, per output
    pending,    \* the call whose present is parked, per output, or Nobody
    waiter,     \* the call that waits for a frame callback, or Nobody
    plugged,    \* compositor: the size of every output, NoSize when unplugged
    layer,      \* compositor: our layer surfaces
    events,     \* events on their way from the compositor
    changes,    \* changes the compositor has made
    committed,  \* history: calls whose frame was committed
    answered,   \* history: answers sent per call
    floor       \* history: no frame up to this one may appear, per output

callers == <<call, commands>>
thread == <<running, known, surface, pending, waiter>>
compositor == <<plugged, layer, events, changes>>
history == <<committed, answered, floor>>
vars == <<callers, thread, compositor, history>>

Op == {"present", "frame", "clear", "cancel"}
Answer == {"none", "presented", "resize", "ok", "error"}
CallRecord == [op : Op, output : Output, size : Size \cup {NoSize},
               at : {"new", "open", "cancelling", "done"}, answer : Answer]
NewCall == [op |-> "cancel", output |-> CHOOSE o \in Output : TRUE, size |-> NoSize,
            at |-> "new", answer |-> "none"]

Buffer == [frame : Call \cup {Nobody}, busy : BOOLEAN]
NoBuffer == [frame |-> Nobody, busy |-> FALSE]
NoBuffers == [i \in Slot |-> NoBuffer]

\* "pool" says whether the pool was made for the size, "asked" counts the frame
\* callbacks requested since the last commit.
Surface == [id : Call, size : Size \cup {NoSize}, pool : BOOLEAN,
            slots : [Slot -> Buffer], next : Slot, asked : Nat]
NoSurface == [id |-> Nobody]

\* "sent" says whether the first configure was sent.
Layer == [live : BOOLEAN, sent : BOOLEAN, frame : Call \cup {Nobody},
          callbacks : Nat, using : SUBSET Call]
NoLayer == [live |-> FALSE, sent |-> FALSE, frame |-> Nobody, callbacks |-> 0, using |-> {}]

Event == [kind : {"configure"}, id : Call, size : Size]
    \cup [kind : {"closed", "done"}, id : Call]
    \cup [kind : {"release"}, id : Call, frame : Call]
    \cup [kind : {"added", "removed"}, output : Output]

Has(o) == surface[o] # NoSurface
LiveOn(o) == {id \in Call : layer[id].live /\ call[id].output = o}
\* The frame on the screen of an output.
Shown(o) == IF LiveOn(o) = {} THEN Nobody ELSE layer[CHOOSE id \in LiveOn(o) : TRUE].frame
Larger(a, b) == IF a < b THEN b ELSE a

\* Sizes differ in nothing but being different.
FirstSize == CHOOSE size \in Size : TRUE

Init ==
    /\ call = [c \in Call |-> NewCall]
    /\ plugged \in [Output -> {FirstSize, NoSize}]
    /\ commands = << >>
    /\ running = TRUE
    /\ known = {o \in Output : plugged[o] # NoSize}
    /\ surface = [o \in Output |-> NoSurface]
    /\ pending = [o \in Output |-> Nobody]
    /\ waiter = [o \in Output |-> Nobody]
    /\ layer = [id \in Call |-> NoLayer]
    /\ events = << >>
    /\ changes = 0
    /\ committed = {}
    /\ answered = [c \in Call |-> 0]
    /\ floor = [o \in Output |-> 0]

-----------------------------------------------------------------------------
\* Callers: Presenter::present, present_frame, clear and cancel_frame.

At(c, step) == call[c].at = step

\* The engine keeps Mutex<Presenter> locked while it waits for an answer.
Overlapping == TRUE \* mutant
OneAtATime == \A c \in Call : At(c, "new") \/ At(c, "done")

Ask(c, op, o, size) ==
    /\ At(c, "new")
    /\ \A b \in Call : At(b, "new") => b >= c
    /\ OneAtATime
    /\ LET asked == [NewCall EXCEPT !.op = op, !.output = o, !.size = size, !.at = "open"] IN
       IF running
       THEN /\ call' = [call EXCEPT ![c] = asked]
            /\ commands' = Append(commands, [call |-> c, op |-> op])
       ELSE /\ call' = [call EXCEPT ![c] = [asked EXCEPT !.at = "done", !.answer = "error"]]
            /\ UNCHANGED commands
    /\ UNCHANGED <<thread, compositor, history>>

\* The wait for an answer has a timeout; a wait for a frame is then cancelled.
GiveUp(c) ==
    /\ At(c, "open")
    /\ IF call[c].op = "frame"
       THEN /\ call' = [call EXCEPT ![c].at = "cancelling", ![c].answer = "error"]
            /\ commands' = IF running THEN Append(commands, [call |-> c, op |-> "cancel"])
                           ELSE commands
       ELSE /\ call' = [call EXCEPT ![c].at = "done", ![c].answer = "error"]
            /\ UNCHANGED commands
    /\ UNCHANGED <<thread, compositor, history>>

\* The cancellation was answered, or timed out as well.
Cancelled(c) ==
    /\ At(c, "cancelling")
    /\ call' = [call EXCEPT ![c].at = "done"]
    /\ UNCHANGED <<commands, thread, compositor, history>>

-----------------------------------------------------------------------------
\* Answers.  A handler answers some calls, given as a function.  A caller that
\* still waits takes its answer at once; a reply channel holds one answer, and
\* nobody reads it once the caller has given up.

Nothing == [c \in Call |-> "none"]
Reply(c, answer) == [b \in Call |-> IF b = c THEN answer ELSE "none"]
Refuse(calls) == [c \in Call |-> IF c \in calls THEN "error" ELSE "none"]
Also(replies, more) == [c \in Call |-> IF replies[c] = "none" THEN more[c] ELSE replies[c]]

Send(replies) ==
    /\ call' = [c \in Call |->
           IF replies[c] # "none" /\ At(c, "open")
           THEN [call[c] EXCEPT !.answer = replies[c], !.at = "done"] ELSE call[c]]
    /\ answered' = [c \in Call |-> IF replies[c] # "none" THEN answered[c] + 1 ELSE answered[c]]

\* Our surface goes: the compositor destroys its layer, frame and all.
Destroyed(layers, id) ==
    IF id = Nobody THEN layers ELSE [layers EXCEPT ![id] = NoLayer]

-----------------------------------------------------------------------------
\* finish_present, upload, acquire_slot: what may become of a frame on a surface
\* that has a size, as outcomes.

\* The slots in the order they are tried, and those that may take the frame: the
\* first without a buffer or with one the compositor gave back.  The wait for a
\* release reads no events, so none comes.
Tried(s) == [k \in 1..MaxBuffers |-> (s.next + k - 1) % MaxBuffers]
AnyUsable(s, i) == TRUE \* mutant
Usable(s, i) == ~s.slots[i].busy
FirstFree(s) ==
    {Tried(s)[k] : k \in {k \in 1..MaxBuffers :
        Usable(s, Tried(s)[k]) /\ \A j \in 1..k - 1 : ~Usable(s, Tried(s)[j])}}

\* A frame of another size is sent back.  Otherwise a slot takes it, or none is
\* free, or the slot's buffer cannot be made.  A caller that waits for the frame is
\* answered by the frame callback, which is requested first and takes another
\* waiter's place.
Outcome(s, waits, replies, shown) ==
    [surface |-> s, waiter |-> waits, replies |-> replies, shown |-> shown]

StillWaiting(o, c) == IF call[c].op = "frame" THEN c ELSE waiter[o] \* mutant
AfterFailure(o, c) == IF call[c].op = "frame" THEN Nobody ELSE waiter[o]

Outcomes(o, c, s) ==
    LET framed == call[c].op = "frame"
        others == IF framed THEN Refuse({waiter[o]}) ELSE Nothing
        asked == [s EXCEPT !.asked = IF framed THEN @ + 1 ELSE @]
        Uses(i) == [asked EXCEPT !.next = (i + 1) % MaxBuffers]
        Fails(t) == Outcome(t, AfterFailure(o, c), Also(Reply(c, "error"), others), FALSE) IN
    IF s.size # call[c].size
    THEN {Outcome(s, waiter[o], Reply(c, "resize"), FALSE)}
    ELSE {Outcome([Uses(i) EXCEPT !.slots[i] = [frame |-> c, busy |-> TRUE]],
                  IF framed THEN c ELSE waiter[o],
                  IF framed THEN others ELSE Reply(c, "presented"), TRUE) : i \in FirstFree(s)}
         \cup {Fails(Uses(i)) : i \in {j \in FirstFree(s) : s.slots[j] = NoBuffer}}
         \cup (IF FirstFree(s) = {} THEN {Fails(asked)} ELSE {})

\* The surface, the waiter, the layer and the history after an outcome of c.
\* A commit brings the callbacks that were asked for, and holds its buffer.
Finished(o, c, out) ==
    LET id == out.surface.id
        s  == IF out.shown THEN [out.surface EXCEPT !.asked = 0] ELSE out.surface IN
    /\ surface' = [surface EXCEPT ![o] = s]
    /\ waiter' = [waiter EXCEPT ![o] = out.waiter]
    /\ IF out.shown
       THEN /\ committed' = committed \cup {c}
            /\ layer' = IF layer[id].live
                        THEN [layer EXCEPT ![id].frame = c, ![id].using = @ \cup {c},
                                           ![id].callbacks = @ + out.surface.asked]
                        ELSE layer
       ELSE UNCHANGED <<committed, layer>>

-----------------------------------------------------------------------------
\* The presenter thread: commands.

Takes(c, op) ==
    /\ running /\ commands # << >>
    /\ Head(commands) = [call |-> c, op |-> op]
    /\ commands' = Tail(commands)

\* Parking takes the place of whoever was parked.
Park(o, c, replies) ==
    /\ pending' = [pending EXCEPT ![o] = c]
    /\ Send(Also(replies, Refuse({pending[o]})))

\* begin_present without a surface: create one if the output is known; a
\* compositor that has lost the output closes the surface at once.
CreateSurface(c, o) ==
    /\ ~Has(o)
    /\ IF o \in known
       THEN /\ surface' = [surface EXCEPT ![o] = [id |-> c, size |-> NoSize, pool |-> TRUE,
                                                 slots |-> NoBuffers, next |-> 0, asked |-> 0]]
            /\ Park(o, c, Nothing)
            /\ IF plugged[o] # NoSize
               THEN layer' = [layer EXCEPT ![c] = [NoLayer EXCEPT !.live = TRUE]] /\ UNCHANGED events
               ELSE events' = Append(events, [kind |-> "closed", id |-> c]) /\ UNCHANGED layer
       ELSE Send(Reply(c, "error")) /\ UNCHANGED <<surface, pending, layer, events>>
    /\ UNCHANGED <<waiter, committed>>

\* The pool of a new surface cannot be made.
CannotCreate(c, o) ==
    /\ ~Has(o)
    /\ Send(Reply(c, "error"))
    /\ UNCHANGED <<surface, pending, waiter, layer, events, committed>>

PresentParked(c, o) ==
    /\ Has(o) /\ surface[o].size = NoSize
    /\ Park(o, c, Nothing)
    /\ UNCHANGED <<surface, waiter, layer, events, committed>>

PresentNow(c, o) ==
    /\ Has(o) /\ surface[o].size # NoSize
    /\ \E out \in Outcomes(o, c, surface[o]) : Finished(o, c, out) /\ Send(out.replies)
    /\ UNCHANGED <<pending, events>>

HandlePresent(c) ==
    LET o == call[c].output IN
    /\ Takes(c, call[c].op) /\ call[c].op \in {"present", "frame"}
    /\ CreateSurface(c, o) \/ CannotCreate(c, o) \/ PresentParked(c, o) \/ PresentNow(c, o)
    /\ UNCHANGED <<running, known, plugged, changes, floor>>

\* The surface goes, whoever is parked or waits is answered; a plain present that
\* was parked is answered as if it had been shown.
HandleClear(c) ==
    LET o == call[c].output
        parked == pending[o] IN
    /\ Takes(c, "clear")
    /\ surface' = [surface EXCEPT ![o] = NoSurface]
    /\ layer' = Destroyed(layer, surface[o].id)
    /\ pending' = [pending EXCEPT ![o] = Nobody]
    /\ waiter' = [waiter EXCEPT ![o] = Nobody]
    /\ floor' = [floor EXCEPT ![o] = c]
    /\ Send(Also(Reply(c, "ok"),
                 Also(IF parked # Nobody /\ call[parked].op = "present"
                      THEN Reply(parked, "presented") ELSE Nothing,
                      Refuse({parked, waiter[o]}))))
    /\ UNCHANGED <<running, known, plugged, events, changes, committed>>

\* The waiter's channel is dropped, which its caller would read as an error.
HandleCancel(c) ==
    LET o == call[c].output IN
    /\ Takes(c, "cancel")
    /\ pending' = [pending EXCEPT ![o] = Nobody]
    /\ waiter' = [waiter EXCEPT ![o] = Nobody]
    /\ Send(Also(IF call[c].op = "cancel" THEN Reply(c, "ok") ELSE Nothing,
                 Refuse({pending[o], waiter[o]})))
    /\ UNCHANGED <<running, known, surface, compositor, committed, floor>>

\* Shut down by a command, or by an event loop that fails: everything is
\* destroyed, and everybody still parked or on the channel answered.
Stop ==
    /\ running
    /\ running' = FALSE
    /\ surface' = [o \in Output |-> NoSurface]
    /\ pending' = [o \in Output |-> Nobody]
    /\ waiter' = [o \in Output |-> Nobody]
    /\ layer' = [id \in Call |-> NoLayer]
    /\ commands' = << >>
    /\ events' = << >>
    /\ floor' = [o \in Output |-> Larger(floor[o], Shown(o))]
    /\ Send(Refuse({pending[o] : o \in Output} \cup {waiter[o] : o \in Output}
                   \cup {c \in Call : \E i \in 1..Len(commands) :
                                          commands[i] = [call |-> c, op |-> call[c].op]}))
    /\ UNCHANGED <<known, plugged, changes, committed>>

-----------------------------------------------------------------------------
\* The presenter thread: events.  Surfaces are found by their id, outputs by
\* their name.

Dispatches(event) ==
    /\ running /\ events # << >>
    /\ event = Head(events)
    /\ events' = Tail(events)

Owner(id) == {o \in Output : surface[o].id = id}

\* A size that is new forgets the buffers and makes a pool, or cannot: the rest is
\* skipped then.  Otherwise a parked present is finished.
Resized(s, size) == [s EXCEPT !.size = size, !.slots = NoBuffers, !.pool = TRUE]

KeepParked(o) == UNCHANGED pending \* mutant
Unpark(o) == pending' = [pending EXCEPT ![o] = Nobody]

Configured(o, size) ==
    LET changed == surface[o].size # size
        s == IF changed THEN Resized(surface[o], size) ELSE surface[o] IN
    /\ IF pending[o] = Nobody
       THEN /\ surface' = [surface EXCEPT ![o] = s]
            /\ Send(Nothing)
            /\ UNCHANGED <<pending, waiter, layer, committed>>
       ELSE /\ \E out \in Outcomes(o, pending[o], s) :
                   Finished(o, pending[o], out) /\ Send(out.replies)
            /\ Unpark(o)

NoPool(o, size) ==
    /\ surface[o].size # size
    /\ surface' = [surface EXCEPT ![o] = [Resized(@, size) EXCEPT !.pool = FALSE]]
    /\ Send(Nothing)
    /\ UNCHANGED <<pending, waiter, layer, committed>>

HandleConfigure(event) ==
    /\ Dispatches(event) /\ event.kind = "configure"
    /\ \E o \in Owner(event.id) : Configured(o, event.size) \/ NoPool(o, event.size)
    /\ UNCHANGED <<commands, running, known, plugged, changes, floor>>

\* The surface of an output goes, and everybody who waits for it is refused.
Loses(o) ==
    /\ surface' = [surface EXCEPT ![o] = NoSurface]
    /\ Send(Refuse({pending[o], waiter[o]}))
    /\ pending' = [pending EXCEPT ![o] = Nobody]
    /\ waiter' = [waiter EXCEPT ![o] = Nobody]

HandleClosed(event) ==
    /\ Dispatches(event) /\ event.kind = "closed"
    /\ \E o \in Owner(event.id) : Loses(o)
    /\ UNCHANGED <<commands, running, known, plugged, layer, changes, committed, floor>>

\* A frame callback answers whoever waits on the output of its surface.
HandleDone(event) ==
    /\ Dispatches(event) /\ event.kind = "done"
    /\ \E o \in Owner(event.id) :
           /\ Send(IF waiter[o] = Nobody THEN Nothing ELSE Reply(waiter[o], "presented"))
           /\ waiter' = [waiter EXCEPT ![o] = Nobody]
    /\ UNCHANGED <<commands, running, known, surface, pending, plugged, layer, changes,
                   committed, floor>>

HandleRelease(event) ==
    /\ Dispatches(event) /\ event.kind = "release"
    /\ \E o \in Owner(event.id) :
           surface' = [surface EXCEPT ![o].slots =
               [i \in Slot |-> IF @[i].frame = event.frame THEN [@[i] EXCEPT !.busy = FALSE]
                               ELSE @[i]]]
    /\ UNCHANGED <<callers, running, known, pending, waiter, plugged, layer, changes, history>>

\* What comes for a surface that is gone finds nothing.
HandleStray(event) ==
    /\ Dispatches(event)
    /\ event.kind \notin {"added", "removed"} /\ Owner(event.id) = {}
    /\ UNCHANGED <<callers, thread, plugged, layer, changes, history>>

HandleAdded(event) ==
    /\ Dispatches(event) /\ event.kind = "added"
    /\ known' = known \cup {event.output}
    /\ UNCHANGED <<callers, running, surface, pending, waiter, plugged, layer, changes, history>>

\* output_destroyed: the surface is destroyed with what is known of the output.
HandleRemoved(event) ==
    /\ Dispatches(event) /\ event.kind = "removed"
    /\ known' = known \ {event.output}
    /\ layer' = Destroyed(layer, surface[event.output].id)
    /\ floor' = [floor EXCEPT ![event.output] = Larger(@, Shown(event.output))]
    /\ Loses(event.output)
    /\ UNCHANGED <<commands, running, plugged, changes, committed>>

-----------------------------------------------------------------------------
\* The compositor.

\* The first configure of a layer, in answer to its first commit.
Configure(id) ==
    /\ layer[id].live /\ ~layer[id].sent
    /\ layer' = [layer EXCEPT ![id].sent = TRUE]
    /\ events' = Append(events, [kind |-> "configure", id |-> id, size |-> plugged[call[id].output]])
    /\ UNCHANGED <<callers, thread, plugged, changes, history>>

\* What the compositor does matters while somebody listens.
Change == running /\ changes < MaxChanges /\ changes' = changes + 1

Resize(o) ==
    /\ Change
    /\ \E size \in Size \ {plugged[o]} :
           /\ plugged[o] # NoSize
           /\ plugged' = [plugged EXCEPT ![o] = size]
           /\ events' = events \o
                  IF \E id \in LiveOn(o) : layer[id].sent
                  THEN <<[kind |-> "configure", id |-> CHOOSE id \in LiveOn(o) : TRUE, size |-> size]>>
                  ELSE << >>
    /\ UNCHANGED <<callers, thread, layer, history>>

\* Its layer is off the screen before the client knows.
Closes(o) ==
    /\ layer' = [id \in Call |-> IF id \in LiveOn(o) THEN NoLayer ELSE layer[id]]
    /\ floor' = [floor EXCEPT ![o] = Larger(@, Shown(o))]

ClosedEvents(o) ==
    IF LiveOn(o) = {} THEN << >>
    ELSE <<[kind |-> "closed", id |-> CHOOSE id \in LiveOn(o) : TRUE]>>

Close(o) ==
    /\ Change
    /\ LiveOn(o) # {}
    /\ Closes(o)
    /\ events' = events \o ClosedEvents(o)
    /\ UNCHANGED <<callers, thread, plugged, committed, answered>>

Unplug(o) ==
    /\ Change
    /\ plugged[o] # NoSize
    /\ plugged' = [plugged EXCEPT ![o] = NoSize]
    /\ Closes(o)
    /\ events' = events \o ClosedEvents(o) \o <<[kind |-> "removed", output |-> o]>>
    /\ UNCHANGED <<callers, thread, committed, answered>>

Plug(o) ==
    /\ Change
    /\ plugged[o] = NoSize
    /\ \E size \in Size : plugged' = [plugged EXCEPT ![o] = size]
    /\ events' = Append(events, [kind |-> "added", output |-> o])
    /\ UNCHANGED <<callers, thread, layer, history>>

\* The screen is drawn; callbacks answer the commits since the last time.
Repaint(id) ==
    /\ layer[id].live /\ layer[id].callbacks > 0
    /\ layer' = [layer EXCEPT ![id].callbacks = 0]
    /\ events' = events \o [i \in 1..layer[id].callbacks |-> [kind |-> "done", id |-> id]]
    /\ UNCHANGED <<callers, thread, plugged, changes, history>>

\* A buffer is given back once another one has been committed.
Release(id) ==
    /\ \E frame \in layer[id].using \ {layer[id].frame} :
           /\ layer' = [layer EXCEPT ![id].using = @ \ {frame}]
           /\ events' = Append(events, [kind |-> "release", id |-> id, frame |-> frame])
    /\ UNCHANGED <<callers, thread, plugged, changes, history>>

-----------------------------------------------------------------------------
Caller ==
    \/ \E c \in Call, o \in Output :
           \/ \E size \in Size : Ask(c, "present", o, size) \/ Ask(c, "frame", o, size)
           \/ Ask(c, "clear", o, NoSize) \/ Ask(c, "cancel", o, NoSize)
    \/ \E c \in Call : GiveUp(c) \/ Cancelled(c)

Thread ==
    \/ \E c \in Call : HandlePresent(c) \/ HandleClear(c) \/ HandleCancel(c)
    \/ \E e \in {events[i] : i \in 1..Len(events)} :
           \/ HandleConfigure(e) \/ HandleClosed(e) \/ HandleDone(e) \/ HandleRelease(e)
           \/ HandleStray(e) \/ HandleAdded(e) \/ HandleRemoved(e)

Compositor ==
    \/ \E id \in Call : Configure(id) \/ Repaint(id) \/ Release(id)
    \/ \E o \in Output : Resize(o) \/ Close(o) \/ Unplug(o) \/ Plug(o)

Next == Caller \/ Thread \/ Stop \/ Compositor

\* The presenter thread runs and the compositor configures what it keeps.  It
\* may never repaint, and callers may stay away.
Fairness ==
    /\ WF_vars(Thread)
    /\ \A id \in Call : WF_vars(Configure(id))

Spec == Init /\ [][Next]_vars
FairSpec == Spec /\ Fairness

-----------------------------------------------------------------------------
\* Every variable has its type, and the compositor shows one surface of ours per
\* output at most.
TypeOK ==
    /\ call \in [Call -> CallRecord]
    /\ commands \in Seq([call : Call, op : Op])
    /\ running \in BOOLEAN
    /\ known \subseteq Output
    /\ surface \in [Output -> Surface \cup {NoSurface}]
    /\ pending \in [Output -> Call \cup {Nobody}]
    /\ waiter \in [Output -> Call \cup {Nobody}]
    /\ plugged \in [Output -> Size \cup {NoSize}]
    /\ layer \in [Call -> Layer]
    /\ events \in Seq(Event)
    /\ changes \in 0..MaxChanges
    /\ committed \subseteq Call
    /\ answered \in [Call -> Nat]
    /\ floor \in [Output -> Call \cup {Nobody}]
    /\ \A o \in Output : \A i, j \in LiveOn(o) : i = j

\* An answer that a caller reads is true of its own call: a frame that was
\* presented was committed to its surface, and an output that was cleared shows
\* nothing that is older (surface.rs, handle_command; the answer Clear gives to
\* a parked present would be false, but its caller has given up).
AnswersAreTrue ==
    \A c \in Call :
        /\ call[c].answer = "presented" => c \in committed
        /\ call[c].op = "clear" /\ call[c].answer = "ok" =>
               \A id \in LiveOn(call[c].output) : id > c

\* No reply channel is answered twice: it holds one answer, and a second one
\* would block the presenter thread, and with it every output.
AnsweredOnce == \A c \in Call : answered[c] <= 1

\* Nobody is forgotten: a parked present waits on a surface whose configure or end
\* is still to come, a waiter on one whose callback or end is.
NobodyWaitsInVain ==
    \A o \in Output :
        LET s == surface[o]
            Coming(kind) == \E i \in 1..Len(events) : events[i].kind = kind /\ events[i].id = s.id
            ends == \/ Coming("closed")
                    \/ \E i \in 1..Len(events) : events[i] = [kind |-> "removed", output |-> o]
            alive == layer[s.id].live IN
        /\ pending[o] # Nobody =>
               /\ Has(o)
               /\ \/ ~s.pool
                  \/ s.size = NoSize /\ (ends \/ Coming("configure") \/ (alive /\ ~layer[s.id].sent))
        /\ waiter[o] # Nobody =>
               /\ Has(o)
               /\ ends \/ Coming("done") \/ (alive /\ layer[s.id].callbacks > 0)

\* A buffer the compositor may still read is never written, unless its pool was
\* left behind for one of another size (surface.rs, acquire_slot and upload).
Written(o, i) ==
    /\ Has(o) /\ surface[o].slots[i].frame # Nobody
    /\ surface'[o].id = surface[o].id /\ surface'[o].size = surface[o].size
    /\ surface'[o].slots[i].frame # surface[o].slots[i].frame
ReadIsNotWritten ==
    [][\A o \in Output, i \in Slot :
          Written(o, i) => surface[o].slots[i].frame \notin layer[surface[o].id].using]_vars

\* Frames appear in the order of their calls, and nothing asked for before a
\* clear appears after it, whatever was parked, timed out or closed.  A surface
\* whose pool could not be made keeps its parked present past later ones, and is
\* excused until it has a pool (surface.rs, configure).
Asked(o) == {c \in Call : call[c].at # "new" /\ call[c].output = o}
Newest(o) == IF Asked(o) = {} THEN 0 ELSE CHOOSE c \in Asked(o) : \A b \in Asked(o) : b <= c
Screen(o) == INSTANCE ScreenSlot WITH newest <- Newest(o), shown <- Shown(o), floor <- floor[o]
LacksPool(o) == Has(o) /\ ~surface[o].pool
InOrder ==
    /\ \A o \in Output : Screen(o)!Init
    /\ [][\A o \in Output : LacksPool(o) \/ [Screen(o)!Next]_(Screen(o)!vars)]_vars

\* No present stays parked for ever on a surface that has its pool, even when
\* nobody cancels it and nothing is repainted.
NobodyParkedForever ==
    <>[](\A o \in Output : pending[o] # Nobody => LacksPool(o))
=============================================================================
