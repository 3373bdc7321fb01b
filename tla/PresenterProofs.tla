--------------------------- MODULE PresenterProofs ---------------------------
(***************************************************************************)
(* Proofs about Presenter for every set of outputs and sizes, any number   *)
(* of buffers, calls and changes.  A call is on the channel, then parked   *)
(* or waiting, then answered; the frames and the surface it makes are      *)
(* newer than all that was handled before it.                              *)
(***************************************************************************)
EXTENDS Presenter, FiniteSetTheorems, SequenceTheorems, TLAPS

-----------------------------------------------------------------------------
\* The inductive invariant.

\* A call's own command is on the channel; the other one cancels its wait.
Own(m) == m.op = call[m.call].op
Waits(c) == \E i \in 1..Len(commands) : commands[i].call = c /\ Own(commands[i])

\* A call that the thread has taken, or that never got there: all that still wait
\* are newer.
Past(n) == ~At(n, "new") /\ \A c \in Call : Waits(c) => n < c

Sequential == \A b, c \in Call : b < c /\ ~At(c, "new") => At(b, "done")
ChannelHolds ==
    /\ \A i \in 1..Len(commands) :
          /\ ~At(commands[i].call, "new")
          /\ \/ Own(commands[i])
             \/ commands[i].op = "cancel" /\ call[commands[i].call].op = "frame"
    /\ \A i, j \in 1..Len(commands) :
          i < j /\ Own(commands[i]) /\ Own(commands[j]) => commands[i].call < commands[j].call

\* A call that was not taken has been given nothing and has left nothing.
CallHolds(c) ==
    /\ answered[c] \in {0, 1}
    /\ At(c, "new") \/ Waits(c) => answered[c] = 0 /\ c \notin committed /\ layer[c] = NoLayer
    /\ c \in committed => Past(c)
    /\ call[c].answer = "presented" => c \in committed
    /\ call[c].op = "clear" /\ call[c].answer = "ok" => c <= floor[call[c].output]

\* Its caller is still owed the one answer.
Owed(o, c) == call[c].output = o /\ Past(c) /\ answered[c] = 0

FloorHolds(o) == floor[o] # Nobody => Past(floor[o]) /\ call[floor[o]].output = o
SurfaceHolds(o) ==
    Has(o) => /\ Past(surface[o].id) /\ call[surface[o].id].output = o
              /\ \A i \in Slot : surface[o].slots[i].frame \in committed \cup {Nobody}
PendingHolds(o) ==
    pending[o] # Nobody =>
        /\ Has(o) /\ Owed(o, pending[o]) /\ pending[o] \notin committed
        /\ call[pending[o]].op \in {"present", "frame"}
        /\ surface[o].pool => surface[o].size = NoSize /\ floor[o] < pending[o]
WaiterHolds(o) ==
    waiter[o] # Nobody =>
        Owed(o, waiter[o]) /\ waiter[o] \in committed /\ call[waiter[o]].op = "frame"

\* A layer is that of our surface; a frame is on it once the surface has a size, and
\* the buffers that may be read are busy.
LayerHolds(o, id) ==
    \/ layer[id] = NoLayer
    \/ /\ layer[id].live /\ surface[o].id = id /\ plugged[o] # NoSize /\ floor[o] < id
       /\ layer[id].frame # Nobody => /\ layer[id].frame \in committed
                                      /\ call[layer[id].frame].output = o
                                      /\ surface[o].size # NoSize
       /\ layer[id].using \subseteq committed
       /\ \A i \in Slot :
             surface[o].slots[i].frame \in layer[id].using => surface[o].slots[i].busy
LayersHold(o) == \A id \in Call : call[id].output = o /\ ~At(id, "new") => LayerHolds(o, id)

OutputHolds(o) == /\ FloorHolds(o) /\ SurfaceHolds(o) /\ PendingHolds(o)
                  /\ WaiterHolds(o) /\ LayersHold(o)

\* What ended is not said to live; what was given back is not in use.
EventHolds(e) ==
    /\ e.kind = "closed" => Past(e.id) /\ layer[e.id] = NoLayer
    /\ e.kind = "release" => e.frame \in committed /\ e.frame \notin layer[e.id].using

IInv ==
    /\ TypeOK /\ Sequential /\ ChannelHolds
    /\ \A c \in Call : CallHolds(c)
    /\ \A o \in Output : OutputHolds(o)
    /\ \A i \in 1..Len(events) : EventHolds(events[i])

-----------------------------------------------------------------------------
\* Types.

Command == [call : Call, op : Op]

LEMMA Numbers == Call \subseteq Nat \ {0} /\ Nobody \notin Call /\ Nobody = 0 /\ MaxCalls \in Nat
BY PresenterAssumption DEF PresenterAssumption, Call, Nobody

LEMMA CallFacts ==
    ASSUME NEW r \in CallRecord
    PROVE  /\ r.op \in Op /\ r.output \in Output /\ r.size \in Size \cup {NoSize}
           /\ r.at \in {"new", "open", "cancelling", "done"} /\ r.answer \in Answer
BY DEF CallRecord

LEMMA NewCallFacts ==
    /\ NewCall \in CallRecord /\ NewCall.at = "new" /\ NewCall.answer = "none"
    /\ NewCall.op = "cancel"
BY PresenterAssumption DEF PresenterAssumption, NewCall, CallRecord, Op, Answer

LEMMA LayerFacts ==
    ASSUME NEW l \in Layer
    PROVE  /\ l.live \in BOOLEAN /\ l.sent \in BOOLEAN /\ l.frame \in Call \cup {Nobody}
           /\ l.callbacks \in Nat /\ l.using \subseteq Call
BY DEF Layer

LEMMA NoLayerFacts ==
    /\ NoLayer \in Layer /\ ~NoLayer.live /\ NoLayer.frame = Nobody /\ NoLayer.using = {}
BY DEF NoLayer, Layer

LEMMA SurfaceFacts ==
    ASSUME NEW s \in Surface
    PROVE  /\ s.id \in Call /\ s.size \in Size \cup {NoSize} /\ s.pool \in BOOLEAN
           /\ s.slots \in [Slot -> Buffer] /\ s.next \in Slot /\ s.asked \in Nat
           /\ s # NoSurface /\ s.id # Nobody
BY Numbers DEF Surface, NoSurface

LEMMA Slots ==
    /\ \A n \in Nat : n % MaxBuffers \in Slot
    /\ NoBuffers \in [Slot -> Buffer] /\ 0 \in Slot
BY PresenterAssumption DEF PresenterAssumption, Slot, NoBuffers, NoBuffer, Buffer

LEMMA HasFacts ==
    ASSUME TypeOK, NEW o \in Output
    PROVE  /\ Has(o) => surface[o] \in Surface /\ surface[o].id \in Call
           /\ ~Has(o) => surface[o] = NoSurface /\ surface[o].id = Nobody
BY SurfaceFacts DEF TypeOK, Has, NoSurface

-----------------------------------------------------------------------------
\* Calls and the channel.

\* Calls go on and keep what they ask; only a new call comes to wait.
Onward ==
    /\ call' \in [Call -> CallRecord] /\ commands' \in Seq(Command)
    /\ Sequential' /\ ChannelHolds'
    /\ \A c \in Call : ~At(c, "new") =>
          /\ ~At(c, "new")' /\ call'[c].op = call[c].op /\ call'[c].output = call[c].output
          /\ call'[c].size = call[c].size
    /\ \A c \in Call : Waits(c)' => Waits(c) \/ At(c, "new")

LEMMA PastStays ==
    ASSUME Sequential, Onward, NEW n \in Call, Past(n)
    PROVE  Past(n)'
<1>1. ~At(n, "new") /\ ~At(n, "new")'
  BY DEF Past, Onward
<1>2. ASSUME NEW c \in Call, Waits(c)'
      PROVE  n < c
  <2>1. CASE Waits(c)
    BY <2>1 DEF Past
  <2>2. CASE At(c, "new")
    <3>1. n # c /\ n \in Nat /\ c \in Nat
      BY <1>1, <2>2, Numbers
    <3>2. ~(c < n)
      BY <1>1, <2>2 DEF Sequential, At
    <3> QED
      BY <3>1, <3>2
  <2> QED
    BY <1>2, <2>1, <2>2 DEF Onward
<1> QED
  BY <1>1, <1>2 DEF Past

\* Calls as a handler may change them: they end, and keep what they ask.
Kept(c) == /\ call'[c].op = call[c].op /\ call'[c].output = call[c].output
           /\ call'[c].size = call[c].size /\ (At(c, "new")' <=> At(c, "new"))
           /\ At(c, "done") => At(c, "done")'

LEMMA ChannelTypes ==
    ASSUME TypeOK
    PROVE  /\ commands \in Seq(Command) /\ Len(commands) \in Nat
           /\ \A i \in 1..Len(commands) : /\ commands[i] \in Command
                                          /\ commands[i].call \in Call
<1>1. commands \in Seq(Command)
  BY DEF TypeOK, Command
<1>2. Len(commands) \in Nat /\ \A i \in 1..Len(commands) : commands[i] \in Command
  BY <1>1, ElementOfSeq, LenProperties
<1>3. \A m \in Command : m.call \in Call
  BY DEF Command
<1> QED
  BY <1>1, <1>2, <1>3

LEMMA SequentialStays ==
    ASSUME Sequential, \A c \in Call : Kept(c)
    PROVE  Sequential'
<1>1. ASSUME NEW b \in Call, NEW c \in Call, b < c, ~At(c, "new")'
      PROVE  At(b, "done")'
  BY <1>1 DEF Kept, Sequential
<1> QED
  BY <1>1 DEF Sequential

\* The channel as it is, or without its first command.
LEMMA ChannelShrinks ==
    ASSUME TypeOK, Sequential', ChannelHolds, call' \in [Call -> CallRecord],
           \A c \in Call : Kept(c) \/ (At(c, "new") /\ ~At(c, "new")'),
           commands' \in Seq(Command),
           NEW k \in Nat, Len(commands') + k = Len(commands),
           \A i \in 1..Len(commands') : commands'[i] = commands[i + k]
    PROVE  Onward
<1>1. \A i \in 1..Len(commands) : commands[i].call \in Call
  BY ChannelTypes
<1>2. Len(commands') \in Nat /\ Len(commands) \in Nat
  BY LenProperties, ChannelTypes
<1>3. \A i \in 1..Len(commands') : i + k \in 1..Len(commands)
  BY <1>2
<1>5. ASSUME NEW i \in 1..Len(commands')
      PROVE  Own(commands[i])' <=> Own(commands[i + k])
  <2>1. ~At(commands[i + k].call, "new")
    BY <1>3 DEF ChannelHolds
  <2> QED
    BY <1>1, <1>3, <2>1 DEF Own, Kept
<1>6. Sequential'
  OBVIOUS
<1>7. ChannelHolds'
  <2>1. ASSUME NEW i \in 1..Len(commands')
        PROVE  /\ ~At(commands[i].call, "new")'
               /\ \/ Own(commands[i])'
                  \/ commands'[i].op = "cancel" /\ call'[commands'[i].call].op = "frame"
    BY <1>1, <1>3, <1>5 DEF ChannelHolds, Kept, At
  <2>2. ASSUME NEW i \in 1..Len(commands'), NEW j \in 1..Len(commands'),
               i < j, Own(commands[i])', Own(commands[j])'
        PROVE  commands'[i].call < commands'[j].call
    <3>1. /\ i + k \in 1..Len(commands) /\ j + k \in 1..Len(commands) /\ i + k < j + k
          /\ Own(commands[i + k]) /\ Own(commands[j + k])
      BY <1>2, <1>3, <1>5, <2>2
    <3>2. commands[i + k].call < commands[j + k].call
      BY <3>1 DEF ChannelHolds
    <3> QED
      BY <3>2
  <2> QED
    BY <2>1, <2>2 DEF ChannelHolds
<1>8. ASSUME NEW c \in Call, Waits(c)'
      PROVE  Waits(c)
  <2>1. PICK i \in 1..Len(commands') : commands'[i].call = c /\ Own(commands[i])'
    BY <1>8 DEF Waits
  <2> QED
    BY <1>3, <1>5, <2>1 DEF Waits
<1> QED
  BY <1>6, <1>7, <1>8 DEF Onward, Kept

LEMMA ChannelSame ==
    ASSUME TypeOK, Sequential', ChannelHolds, call' \in [Call -> CallRecord],
           \A c \in Call : Kept(c) \/ (At(c, "new") /\ ~At(c, "new")'),
           commands' = commands
    PROVE  Onward
<1>1. commands' \in Seq(Command) /\ Len(commands') + 0 = Len(commands)
  BY ChannelTypes
<1>2. \A i \in 1..Len(commands') : commands'[i] = commands[i + 0]
  BY ChannelTypes
<1> QED
  BY <1>1, <1>2, ChannelShrinks

\* The first command is taken.
LEMMA Taken ==
    ASSUME TypeOK, Sequential, ChannelHolds, call' \in [Call -> CallRecord],
           \A c \in Call : Kept(c), NEW c \in Call, NEW op \in Op, Takes(c, op)
    PROVE  /\ Onward /\ ~At(c, "new")
           /\ op # call[c].op => op = "cancel" /\ call[c].op = "frame"
           /\ op = call[c].op => Waits(c) /\ Past(c)'
<1>1. /\ commands # << >> /\ Head(commands) = [call |-> c, op |-> op]
      /\ commands' = Tail(commands)
  BY DEF Takes
<1>2. /\ commands \in Seq(Command) /\ Len(commands) \in Nat \ {0}
      /\ Head(commands) = commands[1] /\ commands' \in Seq(Command)
      /\ Len(commands') = Len(commands) - 1
      /\ \A i \in 1..Len(commands') : commands'[i] = commands[i + 1]
  BY <1>1, ChannelTypes, HeadTailProperties, LenProperties, EmptySeq
<1>3. Onward
  <2>1. 1 \in Nat /\ Len(commands') + 1 = Len(commands)
    BY <1>2
  <2> QED
    BY <1>2, <2>1, SequentialStays, ChannelShrinks
<1>4. 1 \in 1..Len(commands) /\ commands[1].call = c /\ commands[1].op = op
  BY <1>1, <1>2
<1>5. /\ ~At(c, "new")
      /\ op # call[c].op => op = "cancel" /\ call[c].op = "frame"
  BY <1>4 DEF ChannelHolds, Own
<1>6. ASSUME op = call[c].op
      PROVE  Waits(c) /\ Past(c)'
  <2>1. Own(commands[1])
    BY <1>4, <1>6 DEF Own
  <2>2. ASSUME NEW b \in Call, Waits(b)'
        PROVE  c < b
    <3>1. PICK i \in 1..Len(commands') : commands'[i].call = b /\ Own(commands[i])'
      BY <2>2 DEF Waits
    <3>2. i + 1 \in 1..Len(commands) /\ commands[i + 1].call = b /\ 1 < i + 1
      BY <1>2, <3>1
    <3>3. Own(commands[i + 1])
      BY <1>2, <3>1, <3>2 DEF Own, Kept
    <3> QED
      BY <1>4, <2>1, <3>2, <3>3 DEF ChannelHolds
  <2>3. ~At(c, "new")'
    BY <1>5 DEF Kept
  <2> QED
    BY <1>4, <2>1, <2>2, <2>3 DEF Waits, Past
<1> QED
  BY <1>3, <1>5, <1>6

-----------------------------------------------------------------------------
\* What a step may do to a call: begin it, answer it once and truly, show its frame,
\* and change the surface it made, which does not come back.

Begins(c) == /\ At(c, "new") /\ ~At(c, "new")' /\ call'[c].answer \in {"none", "error"}
             /\ answered'[c] = answered[c] /\ layer'[c] = layer[c]

Answered(c) ==
    /\ \/ answered'[c] = answered[c]
       \/ answered[c] = 0 /\ answered'[c] = 1 /\ Past(c)'
    /\ \/ call'[c].answer = call[c].answer
       \/ /\ call'[c].answer = "presented" => c \in committed'
          /\ call[c].op = "clear" /\ call'[c].answer = "ok" => c <= floor'[call[c].output]
LayerMoves(c) ==
    /\ layer'[c] # layer[c] => Past(c)'
    /\ Past(c) /\ layer[c] = NoLayer => layer'[c] = NoLayer
    /\ layer'[c].using \cap committed \subseteq layer[c].using

Moves ==
    /\ Onward
    /\ answered' \in [Call -> Nat] /\ layer' \in [Call -> Layer]
    /\ committed \subseteq committed' /\ committed' \subseteq Call
    /\ floor' \in [Output -> Call \cup {Nobody}]
    /\ \A c \in Call : Begins(c) \/ (Kept(c) /\ Answered(c))
    /\ \A c \in Call : LayerMoves(c)
    /\ \A c \in committed' \ committed : Past(c)'
    /\ \A o \in Output : floor[o] <= floor'[o]

LEMMA NotPast ==
    ASSUME NEW c \in Call, Past(c)
    PROVE  ~At(c, "new") /\ ~Waits(c)
BY Numbers DEF Past

\* A call that goes on keeps its promises.
LEMMA CallStays ==
    ASSUME IInv, Moves, NEW c \in Call
    PROVE  CallHolds(c)'
<1>1. /\ CallHolds(c) /\ Sequential /\ Onward /\ TypeOK /\ LayerMoves(c)
      /\ Begins(c) \/ (Kept(c) /\ Answered(c))
  BY DEF IInv, Moves
<1>2. Past(c)' => ~At(c, "new")' /\ ~Waits(c)'
  BY Numbers DEF Past
<1>3. answered'[c] \in {0, 1}
  BY <1>1 DEF CallHolds, Answered, Begins
<1>4. ASSUME At(c, "new")' \/ Waits(c)'
      PROVE  answered'[c] = 0 /\ c \notin committed' /\ layer'[c] = NoLayer
  <2>1. At(c, "new") \/ Waits(c)
    BY <1>1, <1>4 DEF Onward
  <2>2. ~Past(c)'
    BY <1>2, <1>4
  <2>3. answered[c] = 0 /\ c \notin committed /\ layer[c] = NoLayer
    BY <1>1, <2>1 DEF CallHolds
  <2>4. c \notin committed'
    BY <2>2, <2>3 DEF Moves
  <2> QED
    BY <1>1, <2>2, <2>3, <2>4 DEF Answered, Begins, LayerMoves
<1>5. c \in committed' => Past(c)'
  BY <1>1, PastStays DEF CallHolds, Moves
<1>6. call'[c].answer = "presented" => c \in committed'
  BY <1>1 DEF CallHolds, Moves, Answered, Begins
<1>7. ASSUME call'[c].op = "clear", call'[c].answer = "ok"
      PROVE  c <= floor'[call'[c].output]
  <2> DEFINE o == call[c].output
  <2>1. Answered(c) /\ call'[c].op = call[c].op /\ call'[c].output = o
    BY <1>1, <1>7 DEF Begins, Kept
  <2>2. o \in Output
    BY <1>1, CallFacts DEF TypeOK
  <2> HIDE DEF o
  <2>3. CASE call'[c].answer = call[c].answer
    <3>1. c <= floor[o]
      BY <1>1, <1>7, <2>1, <2>3 DEF CallHolds, o
    <3>2. floor[o] <= floor'[o]
      BY <2>2 DEF Moves
    <3>3. floor[o] \in Call \cup {Nobody} /\ floor'[o] \in Call \cup {Nobody}
      <4>1. floor \in [Output -> Call \cup {Nobody}] /\ floor' \in [Output -> Call \cup {Nobody}]
        BY <1>1 DEF TypeOK, Moves
      <4> QED
        BY <2>2, <4>1
    <3>4. \A n \in Call \cup {Nobody} : n \in Nat
      BY Numbers
    <3>5. c \in Nat /\ floor[o] \in Nat /\ floor'[o] \in Nat
      BY <3>3, <3>4
    <3> QED
      BY <2>1, <3>1, <3>2, <3>5
  <2>4. CASE call'[c].answer # call[c].answer
    BY <1>1, <1>7, <2>1, <2>4 DEF Answered, o
  <2> QED
    BY <2>3, <2>4
<1> QED
  BY <1>3, <1>4, <1>5, <1>6, <1>7 DEF CallHolds, At

\* An event that is on its way stays true.
LEMMA EventStays ==
    ASSUME IInv, Moves, NEW e \in Event, EventHolds(e)
    PROVE  EventHolds(e)'
<1>1. ASSUME e.kind = "closed"
      PROVE  Past(e.id)' /\ layer'[e.id] = NoLayer
  <2>1. e.id \in Call
    BY <1>1 DEF Event
  <2>2. Past(e.id) /\ layer[e.id] = NoLayer
    BY <1>1 DEF EventHolds
  <2> QED
    BY <2>1, <2>2, PastStays DEF IInv, Moves, LayerMoves
<1>2. ASSUME e.kind = "release"
      PROVE  e.frame \in committed' /\ e.frame \notin layer'[e.id].using
  <2>1. e.id \in Call
    BY <1>2 DEF Event
  <2>2. e.frame \in committed /\ e.frame \notin layer[e.id].using
    BY <1>2 DEF EventHolds
  <2>3. committed \subseteq committed' /\ layer'[e.id].using \cap committed \subseteq layer[e.id].using
    BY <2>1 DEF Moves, LayerMoves
  <2> QED
    BY <2>2, <2>3
<1> QED
  BY <1>1, <1>2 DEF EventHolds

\* Nothing that happens elsewhere disturbs an output.
Untouched(q) ==
    /\ surface'[q] = surface[q] /\ pending'[q] = pending[q] /\ waiter'[q] = waiter[q]
    /\ plugged'[q] = plugged[q] /\ floor'[q] = floor[q]
    /\ \A c \in Call : call[c].output = q =>
          /\ answered'[c] = answered[c] /\ layer'[c] = layer[c]
          /\ c \in committed' => c \in committed

\* Calls of the past keep what they are known for.
LEMMA OwedStays ==
    ASSUME IInv, Moves, NEW o \in Output, NEW c \in Call, Owed(o, c),
           answered'[c] = answered[c]
    PROVE  Owed(o, c)'
BY PastStays DEF IInv, Moves, Owed, Onward, Past

LEMMA FloorStays ==
    ASSUME IInv, Moves, NEW o \in Output, floor'[o] = floor[o]
    PROVE  FloorHolds(o)'
<1>1. ASSUME floor[o] # Nobody
      PROVE  Past(floor[o])' /\ call'[floor[o]].output = o
  <2>1. floor[o] \in Call
    BY <1>1 DEF IInv, TypeOK
  <2>2. Past(floor[o]) /\ call[floor[o]].output = o
    BY <1>1 DEF IInv, OutputHolds, FloorHolds
  <2>3. Past(floor[o])'
    BY <2>1, <2>2, PastStays DEF IInv, Moves
  <2> QED
    BY <2>1, <2>2, <2>3 DEF Moves, Onward, Past
<1> QED
  BY <1>1 DEF FloorHolds

LEMMA SurfaceStays ==
    ASSUME IInv, Moves, NEW o \in Output, surface'[o].id = surface[o].id, Has(o) => Has(o)',
           Has(o)' => Has(o) /\ surface'[o].slots \in [Slot -> Buffer]
                      /\ \A i \in Slot : surface'[o].slots[i].frame
                             \in committed' \cup {Nobody, surface[o].slots[i].frame}
    PROVE  SurfaceHolds(o)'
<1>1. ASSUME Has(o)'
      PROVE  /\ Past(surface[o].id)' /\ call'[surface[o].id].output = o
             /\ \A i \in Slot : surface'[o].slots[i].frame \in committed' \cup {Nobody}
  <2>1. Has(o)
    BY <1>1
  <2>2. /\ Past(surface[o].id) /\ call[surface[o].id].output = o
        /\ \A i \in Slot : surface[o].slots[i].frame \in committed \cup {Nobody}
    BY <2>1 DEF IInv, OutputHolds, SurfaceHolds
  <2>3. surface[o].id \in Call
    BY <2>1, HasFacts DEF IInv
  <2>4. Past(surface[o].id)' /\ call'[surface[o].id].output = o
    BY <2>2, <2>3, PastStays DEF IInv, Moves, Onward, Past
  <2>5. committed \subseteq committed'
    BY DEF Moves
  <2> QED
    BY <1>1, <2>2, <2>4, <2>5
<1> QED
  BY <1>1 DEF SurfaceHolds

LEMMA WaiterStays ==
    ASSUME IInv, Moves, NEW o \in Output, waiter'[o] = waiter[o],
           waiter[o] # Nobody => answered'[waiter[o]] = answered[waiter[o]]
    PROVE  WaiterHolds(o)'
<1>1. ASSUME waiter[o] # Nobody
      PROVE  Owed(o, waiter[o])' /\ waiter[o] \in committed' /\ call'[waiter[o]].op = "frame"
  <2>1. waiter[o] \in Call
    BY <1>1 DEF IInv, TypeOK
  <2>2. Owed(o, waiter[o]) /\ waiter[o] \in committed /\ call[waiter[o]].op = "frame"
    BY <1>1 DEF IInv, OutputHolds, WaiterHolds
  <2>3. PICK w \in Call : w = waiter[o]
    BY <2>1
  <2>4. Owed(o, w)'
    BY <1>1, <2>2, <2>3, OwedStays
  <2>5. w \in committed' /\ call'[w].op = "frame"
    BY <2>2, <2>3 DEF Moves, Onward, Owed, Past
  <2>6. w = waiter'[o]
    BY <2>3
  <2> QED
    BY <2>3, <2>4, <2>5 DEF Owed, Past
<1> QED
  BY <1>1 DEF WaiterHolds, Owed, Past

LEMMA PendingStays ==
    ASSUME IInv, Moves, NEW o \in Output, pending'[o] = pending[o],
           pending[o] # Nobody =>
               /\ answered'[pending[o]] = answered[pending[o]] /\ pending[o] \notin committed'
               /\ Has(o)'
               /\ surface'[o].pool => surface[o].pool /\ surface'[o].size = surface[o].size
                                      /\ floor'[o] = floor[o]
    PROVE  PendingHolds(o)'
<1>1. ASSUME pending[o] # Nobody
      PROVE  /\ Owed(o, pending[o])' /\ call'[pending[o]].op \in {"present", "frame"}
             /\ surface'[o].pool => surface'[o].size = NoSize /\ floor'[o] < pending[o]
  <2>1. pending[o] \in Call
    BY <1>1 DEF IInv, TypeOK
  <2>2. /\ Owed(o, pending[o]) /\ call[pending[o]].op \in {"present", "frame"}
        /\ surface[o].pool => surface[o].size = NoSize /\ floor[o] < pending[o]
    BY <1>1 DEF IInv, OutputHolds, PendingHolds
  <2>3. PICK w \in Call : w = pending[o]
    BY <2>1
  <2>4. Owed(o, w)'
    BY <1>1, <2>2, <2>3, OwedStays
  <2>5. call'[w].op \in {"present", "frame"}
    BY <2>2, <2>3 DEF Moves, Onward, Owed, Past
  <2>6. surface'[o].pool => surface'[o].size = NoSize /\ floor'[o] < w
    BY <1>1, <2>2, <2>3
  <2> QED
    BY <2>3, <2>4, <2>5, <2>6 DEF Owed, Past
<1> QED
  BY <1>1 DEF PendingHolds, Owed, Past

\* A layer that does not change is still that of the surface.
LEMMA LayerStays ==
    ASSUME IInv, Moves, NEW o \in Output, NEW id \in Call, call[id].output = o,
           ~At(id, "new"), layer'[id] = layer[id],
           layer[id] # NoLayer =>
               /\ surface'[o].id = surface[o].id /\ plugged'[o] # NoSize /\ floor'[o] = floor[o]
               /\ surface[o].size # NoSize => surface'[o].size # NoSize
               /\ \A i \in Slot : surface'[o].slots[i].frame \in layer[id].using =>
                      surface'[o].slots[i] = surface[o].slots[i]
    PROVE  LayerHolds(o, id)'
<1>1. LayerHolds(o, id)
  BY DEF IInv, OutputHolds, LayersHold
<1>2. CASE layer[id] = NoLayer
  BY <1>2 DEF LayerHolds
<1>3. CASE layer[id] # NoLayer
  <2>1. /\ layer[id].live /\ surface[o].id = id /\ floor[o] < id
        /\ layer[id].frame # Nobody => /\ layer[id].frame \in committed
                                       /\ call[layer[id].frame].output = o
                                       /\ surface[o].size # NoSize
        /\ layer[id].using \subseteq committed
        /\ \A i \in Slot :
              surface[o].slots[i].frame \in layer[id].using => surface[o].slots[i].busy
    BY <1>1, <1>3 DEF LayerHolds
  <2>2. committed \subseteq committed' /\ committed \subseteq Call
    BY DEF Moves, IInv, TypeOK
  <2>3. /\ surface'[o].id = surface[o].id /\ plugged'[o] # NoSize /\ floor'[o] = floor[o]
        /\ surface[o].size # NoSize => surface'[o].size # NoSize
        /\ \A i \in Slot : surface'[o].slots[i].frame \in layer[id].using =>
               surface'[o].slots[i] = surface[o].slots[i]
    BY <1>3
  <2>4. \A c \in committed : ~At(c, "new")
    BY <2>2 DEF IInv, CallHolds, Past
  <2>5. layer'[id].frame # Nobody => /\ layer'[id].frame \in committed'
                                     /\ call'[layer'[id].frame].output = o
                                     /\ surface'[o].size # NoSize
    BY <2>1, <2>2, <2>3, <2>4 DEF Moves, Onward
  <2>6. ASSUME NEW i \in Slot, surface'[o].slots[i].frame \in layer'[id].using
        PROVE  surface'[o].slots[i].busy
    <3>1. surface'[o].slots[i] = surface[o].slots[i]
      BY <2>1, <2>3, <2>6
    <3> QED
      BY <2>1, <2>6, <3>1
  <2> QED
    BY <2>1, <2>2, <2>3, <2>5, <2>6 DEF LayerHolds
<1> QED
  BY <1>2, <1>3

LEMMA OutputStays ==
    ASSUME IInv, Moves, NEW o \in Output, Untouched(o)
    PROVE  OutputHolds(o)'
<1>1. FloorHolds(o)'
  BY FloorStays DEF Untouched
<1>2. SurfaceHolds(o)'
  <2>1. Has(o)' <=> Has(o)
    BY DEF Has, Untouched
  <2>2. Has(o) => surface[o].slots \in [Slot -> Buffer]
    BY HasFacts, SurfaceFacts DEF IInv
  <2> QED
    BY <2>1, <2>2, SurfaceStays DEF Untouched
<1>3. WaiterHolds(o)'
  <2>1. ASSUME waiter[o] # Nobody
        PROVE  answered'[waiter[o]] = answered[waiter[o]]
    <3>1. waiter[o] \in Call /\ call[waiter[o]].output = o
      BY <2>1 DEF IInv, TypeOK, OutputHolds, WaiterHolds, Owed
    <3> QED
      BY <3>1 DEF Untouched
  <2> QED
    BY <2>1, WaiterStays DEF Untouched
<1>4. PendingHolds(o)'
  <2>1. ASSUME pending[o] # Nobody
        PROVE  /\ answered'[pending[o]] = answered[pending[o]] /\ pending[o] \notin committed'
               /\ Has(o)'
    <3>1. /\ pending[o] \in Call /\ call[pending[o]].output = o /\ Has(o)
          /\ pending[o] \notin committed
      BY <2>1 DEF IInv, TypeOK, OutputHolds, PendingHolds, Owed
    <3> QED
      BY <3>1 DEF Untouched, Has
  <2> QED
    BY <2>1, PendingStays DEF Untouched
<1>5. LayersHold(o)'
  <2>1. ASSUME NEW id \in Call, call'[id].output = o, ~At(id, "new")'
        PROVE  LayerHolds(o, id)'
    <3> USE <2>1
    <3>1. CASE At(id, "new")
      <4>1. layer[id] = NoLayer /\ layer'[id] = layer[id]
        BY <3>1 DEF IInv, CallHolds, Moves, Begins, Kept
      <4> QED
        BY <4>1 DEF LayerHolds
    <3>2. CASE ~At(id, "new")
      <4>1. call[id].output = o /\ layer'[id] = layer[id]
        BY <3>2 DEF Moves, Onward, Untouched
      <4>2. layer[id] # NoLayer => plugged[o] # NoSize
        BY <3>2, <4>1 DEF IInv, OutputHolds, LayersHold, LayerHolds
      <4> QED
        BY <3>2, <4>1, <4>2, LayerStays DEF Untouched
    <3> QED
      BY <3>1, <3>2
  <2> QED
    BY <2>1 DEF LayersHold
<1> QED
  BY <1>1, <1>2, <1>3, <1>4, <1>5 DEF OutputHolds

-----------------------------------------------------------------------------
\* A step as a whole.

AllHold == \A i \in 1..Len(events) : EventHolds(events[i])

Typed ==
    /\ running \in BOOLEAN /\ known \subseteq Output
    /\ surface \in [Output -> Surface \cup {NoSurface}]
    /\ pending \in [Output -> Call \cup {Nobody}] /\ waiter \in [Output -> Call \cup {Nobody}]
    /\ plugged \in [Output -> Size \cup {NoSize}]
    /\ events \in Seq(Event) /\ changes \in 0..MaxChanges

\* The compositor shows one surface of ours per output: the one we have.
LEMMA Single ==
    ASSUME NEW o \in Output, LayersHold(o), \A c \in Call : CallHolds(c),
           NEW id \in LiveOn(o)
    PROVE  /\ id \in Call /\ layer[id].live /\ call[id].output = o /\ surface[o].id = id
           /\ ~At(id, "new") /\ layer[id] # NoLayer
<1>1. id \in Call /\ layer[id].live /\ call[id].output = o
  BY DEF LiveOn
<1>2. layer[id] # NoLayer
  BY <1>1, NoLayerFacts
<1>3. ~At(id, "new")
  BY <1>1, <1>2 DEF CallHolds
<1> QED
  BY <1>1, <1>2, <1>3 DEF LayersHold, LayerHolds

LEMMA StepKeeps ==
    ASSUME IInv, Moves, Typed', \A o \in Output : OutputHolds(o)', AllHold'
    PROVE  IInv'
<1>1. \A c \in Call : CallHolds(c)'
  BY CallStays
<1>2. \A o \in Output : LayersHold(o)'
  BY DEF OutputHolds
<1>3. ASSUME NEW o \in Output, NEW i \in LiveOn(o)', NEW j \in LiveOn(o)'
      PROVE  i = j
  <2>1. i \in Call /\ layer'[i].live /\ call'[i].output = o
        /\ j \in Call /\ layer'[j].live /\ call'[j].output = o
    BY <1>3 DEF LiveOn
  <2>2. ASSUME NEW id \in Call, layer'[id].live, call'[id].output = o
        PROVE  surface'[o].id = id
    <3>1. layer'[id] # NoLayer
      BY <2>2, NoLayerFacts
    <3>2. ~At(id, "new")'
      BY <1>1, <3>1 DEF CallHolds
    <3> QED
      BY <1>2, <2>2, <3>1, <3>2 DEF LayersHold, LayerHolds
  <2> QED
    BY <2>1, <2>2
<1>4. TypeOK'
  <2>1. call' \in [Call -> CallRecord] /\ commands' \in Seq([call : Call, op : Op])
    BY DEF Moves, Onward, Command
  <2>2. /\ committed' \subseteq Call /\ answered' \in [Call -> Nat]
        /\ layer' \in [Call -> Layer] /\ floor' \in [Output -> Call \cup {Nobody}]
    BY DEF Moves
  <2> QED
    BY <1>3, <2>1, <2>2 DEF TypeOK, Typed
<1>5. Sequential' /\ ChannelHolds'
  BY DEF Moves, Onward
<1> QED
  BY <1>1, <1>4, <1>5 DEF IInv, AllHold

\* Only one output is disturbed, or none.
LEMMA OneKeeps ==
    ASSUME IInv, Moves, Typed', NEW o \in Output, OutputHolds(o)',
           \A q \in Output \ {o} : Untouched(q), AllHold'
    PROVE  IInv'
<1>1. \A q \in Output \ {o} : OutputHolds(q)'
  BY OutputStays
<1> QED
  BY <1>1, StepKeeps

LEMMA NoneKeeps ==
    ASSUME IInv, Moves, Typed', \A q \in Output : Untouched(q), AllHold'
    PROVE  IInv'
BY OutputStays, StepKeeps

LEMMA EventsSame ==
    ASSUME IInv, Moves, events' = events
    PROVE  events' \in Seq(Event) /\ AllHold'
<1>1. events \in Seq(Event) /\ Len(events) \in Nat
  BY LenProperties DEF IInv, TypeOK
<1>2. ASSUME NEW i \in 1..Len(events)
      PROVE  EventHolds(events[i])'
  <2>1. events[i] \in Event
    BY <1>1, ElementOfSeq
  <2>2. PICK e \in Event : e = events[i]
    BY <2>1
  <2>3. EventHolds(e)
    BY <2>2 DEF IInv
  <2>4. EventHolds(e)'
    BY <2>3, EventStays
  <2>5. e = events'[i]
    BY <2>2
  <2> QED
    BY <2>4, <2>5 DEF EventHolds, Past
<1> QED
  BY <1>1, <1>2 DEF AllHold

LEMMA EventsShrink ==
    ASSUME IInv, Moves, events # << >>, events' = Tail(events)
    PROVE  events' \in Seq(Event) /\ AllHold'
<1>1. /\ events \in Seq(Event) /\ events' \in Seq(Event) /\ Len(events) \in Nat
      /\ Len(events') = Len(events) - 1
      /\ \A i \in 1..Len(events') : events'[i] = events[i + 1]
  BY HeadTailProperties, LenProperties DEF IInv, TypeOK
<1>2. ASSUME NEW i \in 1..Len(events')
      PROVE  EventHolds(events[i])'
  <2>1. i + 1 \in 1..Len(events)
    BY <1>1
  <2>2. events[i + 1] \in Event
    BY <1>1, <2>1, ElementOfSeq
  <2>3. PICK e \in Event : e = events[i + 1]
    BY <2>2
  <2>4. EventHolds(e)
    BY <2>1, <2>3 DEF IInv
  <2>5. EventHolds(e)'
    BY <2>4, EventStays
  <2>6. e = events'[i]
    BY <1>1, <2>3
  <2> QED
    BY <2>5, <2>6 DEF EventHolds, Past
<1> QED
  BY <1>1, <1>2 DEF AllHold

LEMMA EventsGrow ==
    ASSUME IInv, Moves, NEW more \in Seq(Event), events' = events \o more,
           \A e \in Event : (\E i \in 1..Len(more) : e = more[i]) => EventHolds(e)'
    PROVE  events' \in Seq(Event) /\ AllHold'
<1>1. /\ events \in Seq(Event) /\ Len(events) \in Nat /\ Len(more) \in Nat
      /\ events' \in Seq(Event) /\ Len(events') = Len(events) + Len(more)
      /\ \A i \in 1..Len(events') :
            events'[i] = IF i <= Len(events) THEN events[i] ELSE more[i - Len(events)]
  BY ConcatProperties, LenProperties DEF IInv, TypeOK
<1>2. ASSUME NEW i \in 1..Len(events')
      PROVE  EventHolds(events[i])'
  <2>1. CASE i <= Len(events)
    <3>1. i \in 1..Len(events) /\ events'[i] = events[i]
      BY <1>1, <2>1
    <3>2. PICK e \in Event : e = events[i]
      BY <1>1, <3>1, ElementOfSeq
    <3>3. EventHolds(e)'
      BY <3>1, <3>2, EventStays DEF IInv
    <3>4. e = events'[i]
      BY <3>1, <3>2
    <3> QED
      BY <3>3, <3>4 DEF EventHolds, Past
  <2>2. CASE ~(i <= Len(events))
    <3>1. i - Len(events) \in 1..Len(more) /\ events'[i] = more[i - Len(events)]
      BY <1>1, <2>2
    <3>2. PICK e \in Event : e = more[i - Len(events)]
      BY <3>1, ElementOfSeq
    <3>3. EventHolds(e)'
      BY <3>1, <3>2
    <3>4. e = events'[i]
      BY <3>1, <3>2
    <3> QED
      BY <3>3, <3>4 DEF EventHolds, Past
  <2> QED
    BY <2>1, <2>2
<1> QED
  BY <1>1, <1>2 DEF AllHold

LEMMA EventsAppend ==
    ASSUME IInv, Moves, NEW e \in Event, events' = Append(events, e), EventHolds(e)'
    PROVE  events' \in Seq(Event) /\ AllHold'
<1>1. events \in Seq(Event)
  BY DEF IInv, TypeOK
<1>2. /\ << e >> \in Seq(Event) /\ Len(<< e >>) = 1 /\ << e >>[1] = e
      /\ Append(events, e) = events \o << e >>
  BY <1>1, AppendIsConcat
<1>3. PICK more \in Seq(Event) : more = << e >>
  BY <1>2
<1>4. events' = events \o more /\ Len(more) = 1 /\ more[1] = e
  BY <1>2, <1>3
<1>5. ASSUME NEW f \in Event, \E i \in 1..Len(more) : f = more[i]
      PROVE  EventHolds(f)'
  <2>1. f = e
    BY <1>4, <1>5
  <2> QED
    BY <2>1 DEF EventHolds, Past
<1> QED
  BY <1>4, <1>5, EventsGrow

-----------------------------------------------------------------------------
\* Callers.

LEMMA ChannelGrows ==
    ASSUME TypeOK, Sequential', ChannelHolds, call' \in [Call -> CallRecord],
           \A c \in Call : Kept(c) \/ (At(c, "new") /\ ~At(c, "new")'),
           NEW m \in Command, commands' = Append(commands, m), ~At(m.call, "new")',
           \/ /\ Own(m)' /\ At(m.call, "new")
              /\ \A b \in Call : ~At(b, "new") => b < m.call
           \/ ~Own(m)' /\ m.op = "cancel" /\ call'[m.call].op = "frame"
    PROVE  Onward
<1>1. /\ commands \in Seq(Command) /\ Len(commands) \in Nat
      /\ \A i \in 1..Len(commands) : commands[i].call \in Call
  BY ChannelTypes
<1>2. /\ commands' \in Seq(Command) /\ Len(commands') = Len(commands) + 1
      /\ \A i \in 1..Len(commands) : commands'[i] = commands[i]
      /\ commands'[Len(commands) + 1] = m
  BY <1>1, AppendProperties
<1>3. ASSUME NEW i \in 1..Len(commands)
      PROVE  ~At(commands[i].call, "new") /\ (Own(commands[i])' <=> Own(commands[i]))
  <2>1. ~At(commands[i].call, "new") /\ commands[i].call \in Call
    BY <1>1 DEF ChannelHolds
  <2> QED
    BY <1>2, <2>1 DEF Own, Kept
<1>4. \A i \in 1..Len(commands') : i \in 1..Len(commands) \/ i = Len(commands) + 1
  BY <1>1, <1>2
<1>5. ChannelHolds'
  <2>1. ASSUME NEW i \in 1..Len(commands')
        PROVE  /\ ~At(commands[i].call, "new")'
               /\ \/ Own(commands[i])'
                  \/ commands'[i].op = "cancel" /\ call'[commands'[i].call].op = "frame"
    <3>1. CASE i \in 1..Len(commands)
      BY <1>1, <1>2, <1>3, <3>1 DEF ChannelHolds, Kept, At
    <3>2. CASE i = Len(commands) + 1
      BY <1>2, <3>2 DEF Own, At
    <3> QED
      BY <1>4, <3>1, <3>2
  <2>2. ASSUME NEW i \in 1..Len(commands'), NEW j \in 1..Len(commands'),
               i < j, Own(commands[i])', Own(commands[j])'
        PROVE  commands'[i].call < commands'[j].call
    <3>1. i \in 1..Len(commands)
      BY <1>1, <1>2, <2>2
    <3>2. CASE j \in 1..Len(commands)
      <4>1. commands[i].call < commands[j].call
        BY <1>3, <2>2, <3>1, <3>2 DEF ChannelHolds
      <4> QED
        BY <1>2, <3>1, <3>2, <4>1
    <3>3. CASE j = Len(commands) + 1
      <4>1. Own(m)'
        BY <1>2, <2>2, <3>3 DEF Own
      <4>2. \A b \in Call : ~At(b, "new") => b < m.call
        BY <4>1
      <4> QED
        BY <1>1, <1>2, <1>3, <3>1, <3>3, <4>2
    <3> QED
      BY <1>4, <3>2, <3>3
  <2> QED
    BY <2>1, <2>2 DEF ChannelHolds
<1>6. ASSUME NEW c \in Call, Waits(c)'
      PROVE  Waits(c) \/ At(c, "new")
  <2>1. PICK i \in 1..Len(commands') : commands'[i].call = c /\ Own(commands[i])'
    BY <1>6 DEF Waits
  <2>2. CASE i \in 1..Len(commands)
    BY <1>2, <1>3, <2>1, <2>2 DEF Waits
  <2>3. CASE i = Len(commands) + 1
    BY <1>2, <2>1, <2>3 DEF Own
  <2> QED
    BY <1>4, <2>2, <2>3
<1> QED
  BY <1>2, <1>5, <1>6 DEF Onward, Kept

LEMMA FloorFacts ==
    ASSUME TypeOK
    PROVE  \A o \in Output : floor[o] \in Call \cup {Nobody} /\ floor[o] \in Nat
<1>1. \A o \in Output : floor[o] \in Call \cup {Nobody}
  BY DEF TypeOK
<1>2. \A n \in Call \cup {Nobody} : n \in Nat
  BY Numbers
<1> QED
  BY <1>1, <1>2

LEMMA FloorSame ==
    ASSUME TypeOK, floor' = floor
    PROVE  /\ floor' \in [Output -> Call \cup {Nobody}]
           /\ \A o \in Output : floor[o] <= floor'[o]
<1>1. ASSUME NEW o \in Output
      PROVE  floor[o] <= floor'[o]
  BY FloorFacts
<1> QED
  BY <1>1 DEF TypeOK

LEMMA FloorRises ==
    ASSUME TypeOK, NEW o \in Output, NEW n \in Call \cup {Nobody}, floor[o] <= n,
           floor' = [floor EXCEPT ![o] = n]
    PROVE  /\ floor' \in [Output -> Call \cup {Nobody}] /\ floor'[o] = n
           /\ \A q \in Output : floor[q] <= floor'[q]
           /\ \A q \in Output \ {o} : floor'[q] = floor[q]
<1>1. floor \in [Output -> Call \cup {Nobody}]
  BY DEF TypeOK
<1>2. \A q \in Output : floor'[q] = IF q = o THEN n ELSE floor[q]
  BY <1>1
<1>3. ASSUME NEW q \in Output
      PROVE  floor[q] <= floor'[q]
  BY <1>2, FloorFacts
<1> QED
  BY <1>1, <1>2, <1>3

\* Nothing but calls and the channel changes.
LEMMA CallerKeeps ==
    ASSUME IInv, Onward,
           \A c \in Call :
               \/ Kept(c) /\ call'[c].answer \in {call[c].answer, "error"}
               \/ At(c, "new") /\ ~At(c, "new")' /\ call'[c].answer \in {"none", "error"},
           UNCHANGED <<thread, compositor, history>>
    PROVE  IInv'
<1>1. UNCHANGED <<running, known, surface, pending, waiter, plugged, layer, events, changes,
                  committed, answered, floor>>
  BY DEF thread, compositor, history
<1>2. Moves
  <2>1. /\ answered' \in [Call -> Nat] /\ layer' \in [Call -> Layer] /\ committed' \subseteq Call
    BY <1>1 DEF IInv, TypeOK
  <2>2. /\ floor' \in [Output -> Call \cup {Nobody}]
        /\ \A o \in Output : floor[o] <= floor'[o]
    BY <1>1, FloorSame DEF IInv
  <2>3. ASSUME NEW c \in Call
        PROVE  Begins(c) \/ (Kept(c) /\ Answered(c))
    <3>1. CASE Kept(c) /\ call'[c].answer \in {call[c].answer, "error"}
      BY <1>1, <3>1 DEF Answered
    <3>2. CASE At(c, "new") /\ ~At(c, "new")' /\ call'[c].answer \in {"none", "error"}
      BY <1>1, <3>2 DEF Begins
    <3> QED
      BY <3>1, <3>2
  <2>4. \A c \in Call : LayerMoves(c)
    BY <1>1 DEF LayerMoves
  <2> QED
    BY <1>1, <2>1, <2>2, <2>3, <2>4 DEF Moves
<1>3. Typed'
  BY <1>1 DEF IInv, TypeOK, Typed
<1>4. \A q \in Output : Untouched(q)
  BY <1>1 DEF Untouched
<1>5. AllHold'
  BY <1>1, <1>2, EventsSame
<1> QED
  BY <1>2, <1>3, <1>4, <1>5, NoneKeeps

LEMMA AskKeeps ==
    ASSUME IInv, NEW c \in Call, NEW op \in Op, NEW o \in Output,
           NEW size \in Size \cup {NoSize}, Ask(c, op, o, size)
    PROVE  IInv'
<1> USE DEF IInv
<1>1. /\ At(c, "new") /\ \A b \in Call : At(b, "new") => b >= c
      /\ OneAtATime /\ UNCHANGED <<thread, compositor, history>>
  BY DEF Ask
<1>2. PICK asked \in CallRecord :
          /\ asked = [NewCall EXCEPT !.op = op, !.output = o, !.size = size, !.at = "open"]
          /\ asked.op = op /\ asked.output = o /\ asked.at = "open" /\ asked.answer = "none"
  <2>1. [NewCall EXCEPT !.op = op, !.output = o, !.size = size, !.at = "open"] \in CallRecord
    BY NewCallFacts DEF CallRecord
  <2> QED
    BY <2>1, NewCallFacts DEF CallRecord
<1>3. PICK refused \in CallRecord :
          /\ refused = [asked EXCEPT !.at = "done", !.answer = "error"]
          /\ refused.op = op /\ refused.at = "done" /\ refused.answer = "error"
  <2>1. [asked EXCEPT !.at = "done", !.answer = "error"] \in CallRecord
    BY DEF CallRecord, Answer
  <2> QED
    BY <1>2, <2>1 DEF CallRecord
<1>4. \/ /\ running /\ call' = [call EXCEPT ![c] = asked]
         /\ commands' = Append(commands, [call |-> c, op |-> op])
      \/ ~running /\ call' = [call EXCEPT ![c] = refused] /\ commands' = commands
  BY <1>2, <1>3 DEF Ask
<1>5. /\ call' \in [Call -> CallRecord] /\ ~At(c, "new")' /\ call'[c].op = op
      /\ call'[c].answer \in {"none", "error"}
      /\ \A b \in Call \ {c} : call'[b] = call[b]
  BY <1>2, <1>3, <1>4 DEF TypeOK, At
<1>6. \A b \in Call \ {c} : b < c => At(b, "done")
  BY <1>1, Numbers DEF OneAtATime
<1>7. \A b \in Call : ~At(b, "new") => b < c
  <2>1. ASSUME NEW b \in Call, ~At(b, "new"), ~(b < c)
        PROVE  FALSE
    <3>1. b # c
      BY <1>1, <2>1
    <3>2. c < b
      BY <2>1, <3>1, Numbers
    <3>3. At(c, "done")
      BY <2>1, <3>2 DEF Sequential
    <3> QED
      BY <1>1, <3>3 DEF At
  <2> QED
    BY <2>1
<1>8. Sequential'
  <2>1. ASSUME NEW a \in Call, NEW b \in Call, a < b, ~At(b, "new")'
        PROVE  At(a, "done")'
    <3>1. a # c
      <4>1. CASE b = c
        BY <2>1, <4>1, Numbers
      <4>2. CASE b # c
        <5>1. b < c
          BY <1>5, <1>7, <2>1, <4>2 DEF At
        <5> QED
          BY <2>1, <5>1, Numbers
      <4> QED
        BY <4>1, <4>2
    <3>2. At(a, "done")
      <4>1. CASE b = c
        BY <1>6, <2>1, <3>1, <4>1
      <4>2. CASE b # c
        BY <1>5, <2>1, <4>2 DEF At, Sequential
      <4> QED
        BY <4>1, <4>2
    <3> QED
      BY <1>5, <3>1, <3>2 DEF At
  <2> QED
    BY <2>1 DEF Sequential
<1>9. \A b \in Call : Kept(b) \/ (At(b, "new") /\ ~At(b, "new")')
  BY <1>1, <1>5 DEF Kept, At
<1>10. Onward
  <2>1. CASE running
    <3>1. PICK m \in Command : m = [call |-> c, op |-> op] /\ m.call = c /\ m.op = op
      <4>1. [call |-> c, op |-> op] \in Command
        BY DEF Command
      <4> QED
        BY <4>1
    <3>2. commands' = Append(commands, m) /\ Own(m)'
      BY <1>4, <1>5, <2>1, <3>1 DEF Own
    <3>3. ~At(m.call, "new")' /\ At(m.call, "new")
      BY <1>1, <1>5, <3>1 DEF At
    <3> QED
      BY <1>5, <1>7, <1>8, <1>9, <3>1, <3>2, <3>3, ChannelGrows
  <2>2. CASE ~running
    BY <1>4, <1>5, <1>8, <1>9, <2>2, ChannelSame
  <2> QED
    BY <2>1, <2>2 DEF TypeOK
<1>11. ASSUME NEW b \in Call
       PROVE  \/ Kept(b) /\ call'[b].answer \in {call[b].answer, "error"}
              \/ At(b, "new") /\ ~At(b, "new")' /\ call'[b].answer \in {"none", "error"}
  BY <1>1, <1>5 DEF Kept, At
<1> QED
  BY <1>1, <1>10, <1>11, CallerKeeps

LEMMA GiveUpKeeps ==
    ASSUME IInv, NEW c \in Call, GiveUp(c)
    PROVE  IInv'
<1> USE DEF IInv
<1>1. /\ At(c, "open") /\ ~At(c, "new") /\ ~At(c, "done")
      /\ UNCHANGED <<thread, compositor, history>>
  BY DEF GiveUp, At
<1>2. PICK k \in CallRecord :
          /\ \/ k = [call[c] EXCEPT !.at = "cancelling", !.answer = "error"] /\ call[c].op = "frame"
             \/ k = [call[c] EXCEPT !.at = "done", !.answer = "error"] /\ call[c].op # "frame"
          /\ call' = [call EXCEPT ![c] = k]
          /\ k.answer = "error" /\ k.op = call[c].op /\ k.output = call[c].output
          /\ k.size = call[c].size /\ k.at # "new"
  <2>1. call[c] \in CallRecord
    BY DEF TypeOK
  <2>2. PICK a \in CallRecord : a = call[c]
    BY <2>1
  <2>3. CASE a.op = "frame"
    <3>1. PICK k : k = [a EXCEPT !.at = "cancelling", !.answer = "error"]
      OBVIOUS
    <3>2. k \in CallRecord /\ k.answer = "error" /\ k.op = a.op /\ k.output = a.output
          /\ k.size = a.size /\ k.at = "cancelling"
      BY <3>1 DEF CallRecord, Answer
    <3>3. call' = [call EXCEPT ![c] = k]
      BY <2>2, <2>3, <3>1 DEF GiveUp
    <3> QED
      BY <2>2, <2>3, <3>1, <3>2, <3>3
  <2>4. CASE a.op # "frame"
    <3>1. PICK k : k = [a EXCEPT !.at = "done", !.answer = "error"]
      OBVIOUS
    <3>2. k \in CallRecord /\ k.answer = "error" /\ k.op = a.op /\ k.output = a.output
          /\ k.size = a.size /\ k.at = "done"
      BY <3>1 DEF CallRecord, Answer
    <3>3. call' = [call EXCEPT ![c] = k]
      BY <2>2, <2>4, <3>1 DEF GiveUp
    <3> QED
      BY <2>2, <2>4, <3>1, <3>2, <3>3
  <2> QED
    BY <2>3, <2>4
<1>3. /\ call' \in [Call -> CallRecord] /\ call'[c] = k /\ \A b \in Call \ {c} : call'[b] = call[b]
  BY <1>2 DEF TypeOK
<1>4. \A b \in Call : Kept(b) /\ call'[b].answer \in {call[b].answer, "error"}
  <2>1. ASSUME NEW b \in Call
        PROVE  Kept(b) /\ call'[b].answer \in {call[b].answer, "error"}
    <3>1. CASE b = c
      BY <1>1, <1>2, <1>3, <3>1 DEF Kept, At
    <3>2. CASE b # c
      BY <1>3, <3>2 DEF Kept, At
    <3> QED
      BY <3>1, <3>2
  <2> QED
    BY <2>1
<1>5. Sequential'
  BY <1>4, SequentialStays
<1>6. Onward
  <2>1. CASE commands' = commands
    BY <1>3, <1>4, <1>5, <2>1, ChannelSame
  <2>2. CASE commands' # commands
    <3>1. PICK m \in Command : m = [call |-> c, op |-> "cancel"] /\ m.call = c /\ m.op = "cancel"
      <4>1. [call |-> c, op |-> "cancel"] \in Command
        BY DEF Command, Op
      <4> QED
        BY <4>1
    <3>2. commands' = Append(commands, m) /\ call[c].op = "frame"
      BY <2>2, <3>1 DEF GiveUp
    <3>3. /\ ~At(m.call, "new")' /\ ~Own(m)' /\ call'[m.call].op = "frame"
      BY <1>1, <1>4, <3>1, <3>2 DEF At, Kept, Own
    <3> QED
      BY <1>3, <1>4, <1>5, <3>1, <3>2, <3>3, ChannelGrows
  <2> QED
    BY <2>1, <2>2
<1> QED
  BY <1>1, <1>4, <1>6, CallerKeeps

LEMMA CancelledKeeps ==
    ASSUME IInv, NEW c \in Call, Cancelled(c)
    PROVE  IInv'
<1> USE DEF IInv
<1>1. At(c, "cancelling") /\ commands' = commands /\ UNCHANGED <<thread, compositor, history>>
  BY DEF Cancelled
<1>2. call[c] \in CallRecord
  BY DEF TypeOK
<1>3. PICK a \in CallRecord : a = call[c]
  BY <1>2
<1>4. PICK k : k = [a EXCEPT !.at = "done"]
  OBVIOUS
<1>5. k \in CallRecord /\ k.answer = a.answer /\ k.op = a.op /\ k.output = a.output
      /\ k.size = a.size /\ k.at = "done"
  BY <1>4 DEF CallRecord
<1>6. call' = [call EXCEPT ![c] = k]
  BY <1>3, <1>4 DEF Cancelled
<1>7. /\ call' \in [Call -> CallRecord] /\ call'[c] = k /\ \A b \in Call \ {c} : call'[b] = call[b]
  BY <1>5, <1>6 DEF TypeOK
<1>8. ASSUME NEW b \in Call
      PROVE  Kept(b) /\ call'[b].answer \in {call[b].answer, "error"}
  <2>1. CASE b = c
    BY <1>1, <1>3, <1>5, <1>7, <2>1 DEF Kept, At
  <2>2. CASE b # c
    BY <1>7, <2>2 DEF Kept, At
  <2> QED
    BY <2>1, <2>2
<1>9. Sequential'
  BY <1>8, SequentialStays
<1>10. Onward
  BY <1>1, <1>7, <1>8, <1>9, ChannelSame
<1> QED
  BY <1>1, <1>8, <1>10, CallerKeeps

-----------------------------------------------------------------------------
\* Handlers: whom they answer, and what they leave.

LEMMA SendFacts ==
    ASSUME TypeOK, NEW replies \in [Call -> Answer], Send(replies)
    PROVE  /\ call' \in [Call -> CallRecord] /\ \A c \in Call : Kept(c)
           /\ answered' \in [Call -> Nat]
           /\ \A c \in Call :
                 /\ replies[c] = "none" => answered'[c] = answered[c]
                 /\ replies[c] # "none" => answered'[c] = answered[c] + 1
                 /\ \/ call'[c].answer = call[c].answer
                    \/ call'[c].answer = replies[c] /\ replies[c] # "none" /\ At(c, "open")
<1>1. \A c \in Call : call'[c] = IF replies[c] # "none" /\ At(c, "open")
                                 THEN [call[c] EXCEPT !.answer = replies[c], !.at = "done"]
                                 ELSE call[c]
  BY DEF Send
<1>2. ASSUME NEW c \in Call
      PROVE  /\ call'[c] \in CallRecord /\ Kept(c)
             /\ \/ call'[c].answer = call[c].answer
                \/ call'[c].answer = replies[c] /\ replies[c] # "none" /\ At(c, "open")
  <2>1. call[c] \in CallRecord
    BY DEF TypeOK
  <2>2. CASE replies[c] # "none" /\ At(c, "open")
    <3>1. PICK a \in CallRecord : a = call[c]
      BY <2>1
    <3>2. PICK r \in Answer : r = replies[c]
      OBVIOUS
    <3>3. call'[c] = [a EXCEPT !.answer = r, !.at = "done"]
      BY <1>1, <2>2, <3>1, <3>2
    <3>4. PICK k : k = [a EXCEPT !.answer = r, !.at = "done"]
      OBVIOUS
    <3>5. k \in CallRecord /\ k.answer = r /\ k.op = a.op /\ k.output = a.output
          /\ k.size = a.size /\ k.at = "done"
      BY <3>4 DEF CallRecord
    <3> QED
      BY <2>2, <3>1, <3>2, <3>3, <3>4, <3>5 DEF Kept, At
  <2>3. CASE ~(replies[c] # "none" /\ At(c, "open"))
    BY <1>1, <2>1, <2>3 DEF Kept, At
  <2> QED
    BY <2>2, <2>3
<1>3. call' \in [Call -> CallRecord]
  BY <1>2 DEF Send
<1>4. /\ answered' \in [Call -> Nat]
      /\ \A c \in Call : answered'[c] = IF replies[c] # "none" THEN answered[c] + 1 ELSE answered[c]
  <2>1. answered \in [Call -> Nat]
    BY DEF TypeOK
  <2>2. answered' = [c \in Call |-> IF replies[c] # "none" THEN answered[c] + 1 ELSE answered[c]]
    BY DEF Send
  <2> QED
    BY <2>1, <2>2
<1> QED
  BY <1>2, <1>3, <1>4

\* What a handler answers is owed and true.
Fits(c, answer) ==
    /\ answered[c] = 0 /\ Past(c)'
    /\ At(c, "open") =>
          /\ answer = "presented" => c \in committed'
          /\ call[c].op = "clear" /\ answer = "ok" => c <= floor'[call[c].output]

LEMMA HandlerMoves ==
    ASSUME IInv, Onward, NEW replies \in [Call -> Answer], Send(replies),
           \A c \in Call : replies[c] # "none" => Fits(c, replies[c]),
           layer' \in [Call -> Layer], \A c \in Call : LayerMoves(c),
           committed \subseteq committed', committed' \subseteq Call,
           \A c \in committed' \ committed : Past(c)',
           floor' \in [Output -> Call \cup {Nobody}],
           \A o \in Output : floor[o] <= floor'[o]
    PROVE  /\ Moves
           /\ \A c \in Call : replies[c] = "none" => answered'[c] = answered[c]
<1>1. TypeOK
  BY DEF IInv
<1>2. ASSUME NEW c \in Call
      PROVE  Answered(c)
  <2>1. CASE replies[c] = "none"
    BY <1>1, <2>1, SendFacts DEF Answered
  <2>2. CASE replies[c] # "none"
    <3>1. Fits(c, replies[c]) /\ answered'[c] = answered[c] + 1
      BY <1>1, <2>2, SendFacts
    <3>2. answered[c] = 0 /\ answered'[c] = 1
      BY <3>1 DEF Fits
    <3>3. \/ call'[c].answer = call[c].answer
          \/ call'[c].answer = replies[c] /\ At(c, "open")
      BY <1>1, SendFacts
    <3> QED
      BY <3>1, <3>2, <3>3 DEF Answered, Fits
  <2> QED
    BY <2>1, <2>2
<1>3. /\ answered' \in [Call -> Nat] /\ \A c \in Call : Kept(c)
      /\ \A c \in Call : replies[c] = "none" => answered'[c] = answered[c]
  BY <1>1, SendFacts
<1> QED
  BY <1>2, <1>3 DEF Moves

\* What is known of whoever is parked, waits, or was just taken from the channel.
LEMMA PendingFacts ==
    ASSUME IInv, NEW o \in Output, pending[o] # Nobody
    PROVE  /\ pending[o] \in Call /\ Has(o) /\ pending[o] \notin committed
           /\ call[pending[o]].output = o /\ Past(pending[o]) /\ answered[pending[o]] = 0
           /\ call[pending[o]].op \in {"present", "frame"}
           /\ surface[o].pool => surface[o].size = NoSize /\ floor[o] < pending[o]
BY DEF IInv, TypeOK, OutputHolds, PendingHolds, Owed

LEMMA WaiterFacts ==
    ASSUME IInv, NEW o \in Output, waiter[o] # Nobody
    PROVE  /\ waiter[o] \in Call /\ waiter[o] \in committed
           /\ call[waiter[o]].output = o /\ Past(waiter[o]) /\ answered[waiter[o]] = 0
           /\ call[waiter[o]].op = "frame" /\ waiter[o] # pending[o]
BY PendingFacts DEF IInv, TypeOK, OutputHolds, WaiterHolds, Owed

LEMMA LayerFound ==
    ASSUME IInv, NEW o \in Output, NEW id \in Call, call[id].output = o, layer[id] # NoLayer
    PROVE  /\ ~At(id, "new") /\ Has(o) /\ Past(id)
           /\ layer[id].live /\ surface[o].id = id /\ plugged[o] # NoSize /\ floor[o] < id
           /\ layer[id].frame # Nobody => /\ layer[id].frame \in committed
                                          /\ call[layer[id].frame].output = o
                                          /\ surface[o].size # NoSize
           /\ layer[id].using \subseteq committed
           /\ \A i \in Slot :
                 surface[o].slots[i].frame \in layer[id].using => surface[o].slots[i].busy
<1>1. ~At(id, "new")
  BY DEF IInv, CallHolds
<1>2. LayerHolds(o, id)
  BY <1>1 DEF IInv, OutputHolds, LayersHold
<1>3. Has(o)
  BY <1>2, HasFacts, Numbers DEF IInv, LayerHolds
<1>4. Past(id)
  BY <1>2, <1>3 DEF IInv, OutputHolds, SurfaceHolds, LayerHolds
<1> QED
  BY <1>1, <1>2, <1>3, <1>4 DEF LayerHolds

LEMMA TakenFacts ==
    ASSUME IInv, NEW replies \in [Call -> Answer], Send(replies),
           NEW c \in Call, Takes(c, call[c].op)
    PROVE  /\ Onward /\ Past(c)' /\ ~At(c, "new") /\ running
           /\ answered[c] = 0 /\ c \notin committed /\ layer[c] = NoLayer
           /\ \A n \in Call : Past(n) => n < c
           /\ \A o \in Output : pending[o] # c /\ waiter[o] # c /\ floor[o] < c
                                /\ surface[o].id # c
<1> USE DEF IInv
<1>1. call' \in [Call -> CallRecord] /\ \A b \in Call : Kept(b)
  BY SendFacts
<1>2. call[c].op \in Op
  BY CallFacts DEF TypeOK
<1>3. Onward /\ ~At(c, "new") /\ Waits(c) /\ Past(c)'
  <2>1. PICK op \in Op : op = call[c].op
    BY <1>2
  <2>2. Takes(c, op)
    BY <2>1
  <2> QED
    BY <1>1, <2>1, <2>2, Taken
<1>4. answered[c] = 0 /\ c \notin committed /\ layer[c] = NoLayer
  BY <1>3 DEF CallHolds
<1>5. \A n \in Call : Past(n) => n < c
  BY <1>3 DEF Past
<1>6. ~Past(c)
  BY <1>3, NotPast
<1>7. ASSUME NEW o \in Output
      PROVE  pending[o] # c /\ waiter[o] # c /\ floor[o] < c /\ surface[o].id # c
  <2>1. pending[o] # c /\ waiter[o] # c
    BY <1>6, PendingFacts, WaiterFacts, Numbers
  <2>2. floor[o] < c
    <3>1. CASE floor[o] = Nobody
      BY <3>1, Numbers
    <3>2. CASE floor[o] # Nobody
      BY <1>5, <3>2, FloorFacts DEF OutputHolds, FloorHolds
    <3> QED
      BY <3>1, <3>2
  <2>3. surface[o].id # c
    BY <1>6, HasFacts, Numbers DEF OutputHolds, SurfaceHolds
  <2> QED
    BY <2>1, <2>2, <2>3
<1> QED
  BY <1>3, <1>4, <1>5, <1>7 DEF Takes

LEMMA LayersSame ==
    ASSUME TypeOK, layer' = layer
    PROVE  layer' \in [Call -> Layer] /\ \A c \in Call : LayerMoves(c)
BY DEF TypeOK, LayerMoves

LEMMA Replies ==
    /\ Nothing \in [Call -> Answer] /\ \A c \in Call : Nothing[c] = "none"
    /\ \A c \in Call, a \in Answer :
          /\ Reply(c, a) \in [Call -> Answer]
          /\ \A b \in Call : Reply(c, a)[b] = IF b = c THEN a ELSE "none"
    /\ \A calls : /\ Refuse(calls) \in [Call -> Answer]
                  /\ \A b \in Call : Refuse(calls)[b] = IF b \in calls THEN "error" ELSE "none"
    /\ \A r, more \in [Call -> Answer] :
          /\ Also(r, more) \in [Call -> Answer]
          /\ \A b \in Call : Also(r, more)[b] = IF r[b] = "none" THEN more[b] ELSE r[b]
BY DEF Nothing, Reply, Refuse, Also, Answer

LEMMA RefuseFacts ==
    ASSUME NEW calls
    PROVE  \E y \in [Call -> Answer] :
               /\ y = Refuse(calls)
               /\ \A b \in Call : y[b] = IF b \in calls THEN "error" ELSE "none"
<1>1. PICK y : y = Refuse(calls)
  OBVIOUS
<1>2. y \in [Call -> Answer] /\ \A b \in Call : y[b] = IF b \in calls THEN "error" ELSE "none"
  BY <1>1 DEF Refuse, Answer
<1> QED
  BY <1>1, <1>2

LEMMA FirstFreeFacts ==
    ASSUME NEW s \in Surface, NEW i \in FirstFree(s)
    PROVE  i \in Slot /\ ~s.slots[i].busy
<1>1. PICK k \in 1..MaxBuffers : i = Tried(s)[k] /\ ~s.slots[i].busy
  BY DEF FirstFree, Usable
<1>2. s.next + k - 1 \in Nat
  BY SurfaceFacts, PresenterAssumption DEF Slot, PresenterAssumption
<1>3. i = (s.next + k - 1) % MaxBuffers
  BY <1>1 DEF Tried
<1> QED
  BY <1>1, <1>2, <1>3, Slots

\* A surface with another callback asked for, or another slot to try first.
LEMMA SurfaceMoves ==
    ASSUME NEW s \in Surface
    PROVE  /\ \A n \in Nat : LET t == [s EXCEPT !.asked = n] IN
                  /\ t \in Surface /\ t.id = s.id /\ t.size = s.size /\ t.pool = s.pool
                  /\ t.slots = s.slots /\ t.next = s.next
           /\ \A j \in Slot : LET t == [s EXCEPT !.next = j] IN
                  /\ t \in Surface /\ t.id = s.id /\ t.size = s.size /\ t.pool = s.pool
                  /\ t.slots = s.slots
           /\ \A i \in Slot, b \in Buffer : LET t == [s EXCEPT !.slots[i] = b] IN
                  /\ t \in Surface /\ t.id = s.id /\ t.size = s.size /\ t.pool = s.pool
                  /\ t.slots[i] = b /\ \A k \in Slot \ {i} : t.slots[k] = s.slots[k]
<1>1. \A n \in Nat : LET t == [s EXCEPT !.asked = n] IN
          /\ t \in Surface /\ t.id = s.id /\ t.size = s.size /\ t.pool = s.pool
          /\ t.slots = s.slots /\ t.next = s.next
  BY DEF Surface
<1>2. \A j \in Slot : LET t == [s EXCEPT !.next = j] IN
          /\ t \in Surface /\ t.id = s.id /\ t.size = s.size /\ t.pool = s.pool
          /\ t.slots = s.slots
  BY DEF Surface
<1>3. ASSUME NEW i \in Slot, NEW b \in Buffer
      PROVE  LET t == [s EXCEPT !.slots[i] = b] IN
             /\ t \in Surface /\ t.id = s.id /\ t.size = s.size /\ t.pool = s.pool
             /\ t.slots[i] = b /\ \A k \in Slot \ {i} : t.slots[k] = s.slots[k]
  <2>1. PICK f : f = [s.slots EXCEPT ![i] = b]
    OBVIOUS
  <2>2. f \in [Slot -> Buffer] /\ f[i] = b /\ \A k \in Slot \ {i} : f[k] = s.slots[k]
    BY <2>1, SurfaceFacts
  <2>3. [s EXCEPT !.slots[i] = b] = [s EXCEPT !.slots = f]
    BY <2>1 DEF Surface
  <2>4. LET t == [s EXCEPT !.slots = f] IN
        /\ t \in Surface /\ t.id = s.id /\ t.size = s.size /\ t.pool = s.pool /\ t.slots = f
    BY <2>2 DEF Surface
  <2> QED
    BY <2>2, <2>3, <2>4
<1> QED
  BY <1>1, <1>2, <1>3

\* What may become of a frame: a slot that was free holds it, or it fails.
Became(o, c, s, out) ==
    /\ out.surface \in Surface /\ out.surface.id = s.id /\ out.surface.size = s.size
    /\ out.surface.pool = s.pool
    /\ out.waiter \in {waiter[o], c, Nobody}
    /\ out.replies \in [Call -> Answer] /\ out.shown \in BOOLEAN
    /\ \A b \in Call : out.replies[b] # "none" =>
           b = c \/ (b = waiter[o] /\ out.replies[b] = "error" /\ out.waiter # b)
    /\ out.replies[c] = "presented" => out.shown
    /\ out.waiter = c => out.shown /\ out.replies[c] = "none" /\ call[c].op = "frame"
    /\ \A i \in Slot :
          \/ out.surface.slots[i] = s.slots[i]
          \/ out.shown /\ out.surface.slots[i] = [frame |-> c, busy |-> TRUE] /\ ~s.slots[i].busy

\* The slots after a frame: one that was not busy took it, or none.
Takers(slots, c, s, out) ==
    \A i \in Slot :
        \/ slots[i] = s.slots[i]
        \/ out.shown /\ slots[i] = [frame |-> c, busy |-> TRUE] /\ ~s.slots[i].busy

LEMMA BecameSlots ==
    ASSUME NEW o, NEW c, NEW s, NEW out, Became(o, c, s, out)
    PROVE  Takers(out.surface.slots, c, s, out)
BY DEF Became, Takers

LEMMA OutcomeFacts ==
    ASSUME NEW o \in Output, NEW c \in Call, NEW s \in Surface,
           waiter[o] \in Call \cup {Nobody}, waiter[o] # c, NEW out \in Outcomes(o, c, s)
    PROVE  Became(o, c, s, out)
<1> DEFINE framed == call[c].op = "frame"
           others == IF framed THEN Refuse({waiter[o]}) ELSE Nothing
           asked == [s EXCEPT !.asked = IF framed THEN @ + 1 ELSE @]
           Uses(i) == [asked EXCEPT !.next = (i + 1) % MaxBuffers]
           Fails(t) == Outcome(t, AfterFailure(o, c), Also(Reply(c, "error"), others), FALSE)
           shows == {Outcome([Uses(i) EXCEPT !.slots[i] = [frame |-> c, busy |-> TRUE]],
                             IF framed THEN c ELSE waiter[o],
                             IF framed THEN others ELSE Reply(c, "presented"), TRUE)
                        : i \in FirstFree(s)}
<1>1. /\ others \in [Call -> Answer]
      /\ \A b \in Call : others[b] # "none" => framed /\ b = waiter[o] /\ others[b] = "error"
  BY Replies
<1>2. /\ asked \in Surface /\ asked.id = s.id /\ asked.size = s.size
      /\ asked.pool = s.pool /\ asked.slots = s.slots
  <2>1. s.asked \in Nat
    BY SurfaceFacts
  <2>2. PICK n \in Nat : n = IF framed THEN s.asked + 1 ELSE s.asked
    BY <2>1
  <2>3. asked = [s EXCEPT !.asked = n]
    BY <2>2
  <2> QED
    BY <2>3, SurfaceMoves
<1> HIDE DEF asked, others
<1>3. \A i \in FirstFree(s) :
          /\ i \in Slot /\ ~s.slots[i].busy
          /\ Uses(i) \in Surface /\ Uses(i).id = s.id /\ Uses(i).size = s.size
          /\ Uses(i).pool = s.pool /\ Uses(i).slots = s.slots
  <2>1. ASSUME NEW i \in FirstFree(s)
        PROVE  /\ i \in Slot /\ ~s.slots[i].busy
               /\ Uses(i) \in Surface /\ Uses(i).id = s.id /\ Uses(i).size = s.size
               /\ Uses(i).pool = s.pool /\ Uses(i).slots = s.slots
    <3>1. i \in Slot /\ ~s.slots[i].busy
      BY FirstFreeFacts
    <3>2. (i + 1) % MaxBuffers \in Slot
      BY <3>1, Slots DEF Slot
    <3>3. PICK j \in Slot : j = (i + 1) % MaxBuffers
      BY <3>2
    <3>4. Uses(i) = [asked EXCEPT !.next = j]
      BY <3>3
    <3> QED
      BY <1>2, <3>1, <3>4, SurfaceMoves
  <2> QED
    BY <2>1
<1> HIDE DEF Uses
<1>4. \/ out = Outcome(s, waiter[o], Reply(c, "resize"), FALSE)
      \/ out \in shows
      \/ \E t \in {asked} \cup {Uses(i) : i \in FirstFree(s)} : out = Fails(t)
  BY DEF Outcomes, asked, Uses, others
<1>5. CASE out = Outcome(s, waiter[o], Reply(c, "resize"), FALSE)
  BY <1>5, Replies, Numbers DEF Became, Outcome, Answer
<1>6. CASE out \in shows
  <2>1. PICK i \in FirstFree(s) :
            out = Outcome([Uses(i) EXCEPT !.slots[i] = [frame |-> c, busy |-> TRUE]],
                          IF framed THEN c ELSE waiter[o],
                          IF framed THEN others ELSE Reply(c, "presented"), TRUE)
    BY <1>6
  <2>2. [frame |-> c, busy |-> TRUE] \in Buffer
    BY DEF Buffer
  <2>3. PICK b \in Buffer : b = [frame |-> c, busy |-> TRUE]
    BY <2>2
  <2>4. PICK t : t = [Uses(i) EXCEPT !.slots[i] = b]
    OBVIOUS
  <2>5. /\ t \in Surface /\ t.id = s.id /\ t.size = s.size /\ t.pool = s.pool
        /\ t.slots[i] = b /\ \A k \in Slot \ {i} : t.slots[k] = s.slots[k]
    BY <1>3, <2>4, SurfaceMoves
  <2>6. /\ out.surface = t /\ out.shown = TRUE
        /\ out.waiter = (IF framed THEN c ELSE waiter[o])
        /\ out.replies = IF framed THEN others ELSE Reply(c, "presented")
    BY <2>1, <2>3, <2>4 DEF Outcome
  <2>7. /\ Reply(c, "presented") \in [Call -> Answer]
        /\ \A d \in Call : Reply(c, "presented")[d] = IF d = c THEN "presented" ELSE "none"
    BY Replies DEF Answer
  <2>8. CASE framed
    <3>1. out.waiter = c /\ out.replies = others
      BY <2>6, <2>8
    <3>2. others[c] = "none"
      BY <1>1
    <3> QED
      BY <1>1, <1>3, <2>3, <2>5, <2>6, <2>8, <3>1, <3>2 DEF Became
  <2>9. CASE ~framed
    <3>1. out.waiter = waiter[o] /\ out.replies = Reply(c, "presented")
      BY <2>6, <2>9
    <3> QED
      BY <1>3, <2>3, <2>5, <2>6, <2>7, <3>1 DEF Became
  <2> QED
    BY <2>8, <2>9
<1>7. CASE \E t \in {asked} \cup {Uses(i) : i \in FirstFree(s)} : out = Fails(t)
  <2>1. PICK t \in {asked} \cup {Uses(i) : i \in FirstFree(s)} : out = Fails(t)
    BY <1>7
  <2>2. t \in Surface /\ t.id = s.id /\ t.size = s.size /\ t.pool = s.pool /\ t.slots = s.slots
    BY <1>2, <1>3
  <2>3. PICK r \in [Call -> Answer] :
            /\ r = Also(Reply(c, "error"), others)
            /\ r[c] = "error" /\ \A b \in Call \ {c} : r[b] = others[b]
    <3>1. /\ Reply(c, "error") \in [Call -> Answer]
          /\ \A b \in Call : Reply(c, "error")[b] = IF b = c THEN "error" ELSE "none"
      BY Replies DEF Answer
    <3>2. PICK q \in [Call -> Answer] : q = Reply(c, "error")
      BY <3>1
    <3>3. PICK r : r = Also(q, others)
      OBVIOUS
    <3>4. /\ r \in [Call -> Answer]
          /\ \A b \in Call : r[b] = IF q[b] = "none" THEN others[b] ELSE q[b]
      BY <1>1, <3>3 DEF Also
    <3> QED
      BY <3>1, <3>2, <3>3, <3>4
  <2>4. /\ out.surface = t /\ out.shown = FALSE /\ out.replies = r
        /\ out.waiter = AfterFailure(o, c)
    BY <2>1, <2>3 DEF Outcome
  <2>5. out.waiter = IF framed THEN Nobody ELSE waiter[o]
    BY <2>4 DEF AfterFailure
  <2>6. c # Nobody
    BY Numbers
  <2>7. \A b \in Call : out.replies[b] # "none" =>
            b = c \/ (b = waiter[o] /\ out.replies[b] = "error" /\ out.waiter # b)
    BY <1>1, <2>3, <2>4, <2>5, Numbers
  <2>8. out.waiter \in {waiter[o], c, Nobody} /\ out.waiter # c
    BY <2>5, <2>6
  <2> QED
    BY <2>2, <2>3, <2>4, <2>7, <2>8 DEF Became
<1> QED
  BY <1>4, <1>5, <1>6, <1>7

\* What is finished is on the surface and, when it was shown, on the layer.
LEMMA FinishedSurface ==
    ASSUME NEW o, NEW c, NEW s, NEW out, Became(o, c, s, out), Finished(o, c, out)
    PROVE  \E t \in Surface : /\ surface' = [surface EXCEPT ![o] = t] /\ t.id = s.id
                              /\ t.size = s.size /\ t.pool = s.pool
                              /\ t.slots = out.surface.slots
<1>1. /\ out.surface \in Surface /\ out.surface.id = s.id
      /\ out.surface.size = s.size /\ out.surface.pool = s.pool
  BY DEF Became
<1>2. PICK u \in Surface : u = out.surface
  BY <1>1
<1>3. PICK t : t = IF out.shown THEN [u EXCEPT !.asked = 0] ELSE u
  OBVIOUS
<1>4. t \in Surface /\ t.id = u.id /\ t.size = u.size /\ t.pool = u.pool /\ t.slots = u.slots
  <2>1. PICK n \in Nat : n = 0
    OBVIOUS
  <2>2. t = u \/ t = [u EXCEPT !.asked = n]
    BY <1>3, <2>1
  <2>3. PICK v : v = [u EXCEPT !.asked = n]
    OBVIOUS
  <2>4. v \in Surface /\ v.id = u.id /\ v.size = u.size /\ v.pool = u.pool /\ v.slots = u.slots
    BY <2>3, SurfaceMoves
  <2> QED
    BY <2>2, <2>3, <2>4
<1>5. surface' = [surface EXCEPT ![o] = t]
  BY <1>2, <1>3 DEF Finished
<1> QED
  BY <1>1, <1>2, <1>4, <1>5

Shows(id, c, out) ==
    /\ out.shown /\ layer[id].live
    /\ \E k \in Layer : /\ k.frame = c /\ k.using = layer[id].using \cup {c} /\ k.live
                        /\ layer' = [layer EXCEPT ![id] = k]

LEMMA FinishedLayer ==
    ASSUME TypeOK, NEW o, NEW c \in Call, NEW s, NEW out, NEW id \in Call, s.id = id,
           Became(o, c, s, out), Finished(o, c, out)
    PROVE  layer' = layer \/ Shows(id, c, out)
<1>1. out.surface.id = id /\ out.surface \in Surface
  BY DEF Became
<1>2. CASE out.shown /\ layer[id].live
  <2>1. layer[id] \in Layer
    BY DEF TypeOK
  <2>2. PICK l \in Layer : l = layer[id]
    BY <2>1
  <2>3. PICK n \in Nat : n = l.callbacks + out.surface.asked
    BY <1>1, LayerFacts, SurfaceFacts
  <2>4. PICK k : k = [l EXCEPT !.frame = c, !.using = l.using \cup {c}, !.callbacks = n]
    OBVIOUS
  <2>5. k \in Layer /\ k.frame = c /\ k.using = l.using \cup {c} /\ k.live = l.live
    BY <2>4 DEF Layer
  <2>6. layer' = [layer EXCEPT ![id].frame = c, ![id].using = @ \cup {c},
                               ![id].callbacks = @ + out.surface.asked]
    BY <1>1, <1>2 DEF Finished
  <2>7. layer' = [layer EXCEPT ![id] = k]
    BY <2>2, <2>3, <2>4, <2>6 DEF TypeOK, Layer
  <2> QED
    BY <1>2, <2>2, <2>5, <2>7 DEF Shows
<1>3. CASE ~(out.shown /\ layer[id].live)
  BY <1>1, <1>3 DEF Finished
<1> QED
  BY <1>2, <1>3

\* A frame is finished, or not, on a surface with a size.
LEMMA FinishKeeps ==
    ASSUME IInv, Onward, NEW o \in Output, NEW c \in Call,
           call[c].output = o, call[c].op \in {"present", "frame"},
           answered[c] = 0, c \notin committed, Past(c)', waiter[o] # c,
           Has(o), NEW s \in Surface, s.id = surface[o].id, s.size # NoSize,
           s.pool => surface[o].pool \/ pending'[o] = Nobody,
           \A i \in Slot : s.slots[i] \in {surface[o].slots[i], NoBuffer},
           NEW out, Became(o, c, s, out), Finished(o, c, out), Send(out.replies),
           UNCHANGED <<running, known, plugged, changes, floor>>,
           \/ pending' = [pending EXCEPT ![o] = Nobody]
           \/ pending' = pending /\ pending[o] # c /\ s = surface[o],
           \/ events' = events
           \/ events # << >> /\ events' = Tail(events)
    PROVE  IInv'
<1>1. PICK id \in Call :
          /\ TypeOK /\ id = surface[o].id /\ Past(id) /\ call[id].output = o /\ s.id = id
          /\ \A i \in Slot : surface[o].slots[i].frame \in committed \cup {Nobody}
  BY HasFacts DEF IInv, OutputHolds, SurfaceHolds
<1>2. PICK t \in Surface : /\ surface' = [surface EXCEPT ![o] = t] /\ t.id = id
                           /\ t.size = s.size /\ t.pool = s.pool
                           /\ t.slots = out.surface.slots
  BY <1>1, FinishedSurface
<1>3. PICK w \in Call \cup {Nobody} :
          w = out.waiter /\ waiter' = [waiter EXCEPT ![o] = w] /\ w \in {waiter[o], c, Nobody}
  BY <1>1 DEF Became, Finished, TypeOK
<1>4. PICK r \in [Call -> Answer] : r = out.replies /\ Send(r)
  BY DEF Became
<1>5. /\ \A b \in Call : r[b] # "none" => b = c \/ (b = waiter[o] /\ r[b] = "error" /\ w # b)
      /\ r[c] = "presented" => out.shown
      /\ w = c => out.shown /\ r[c] = "none" /\ call[c].op = "frame"
      /\ \A i \in Slot :
            \/ t.slots[i] = s.slots[i]
            \/ out.shown /\ t.slots[i] = [frame |-> c, busy |-> TRUE] /\ ~s.slots[i].busy
  <2>1. \A b \in Call : r[b] # "none" => b = c \/ (b = waiter[o] /\ r[b] = "error" /\ w # b)
    BY <1>3, <1>4 DEF Became
  <2>2. /\ r[c] = "presented" => out.shown
        /\ w = c => out.shown /\ r[c] = "none" /\ call[c].op = "frame"
    BY <1>3, <1>4 DEF Became
  <2>3. \A i \in Slot :
            \/ t.slots[i] = s.slots[i]
            \/ out.shown /\ t.slots[i] = [frame |-> c, busy |-> TRUE] /\ ~s.slots[i].busy
    <3>1. Takers(out.surface.slots, c, s, out)
      BY BecameSlots
    <3>2. Takers(t.slots, c, s, out)
      BY <1>2, <3>1
    <3> QED
      BY <3>2 DEF Takers
  <2> QED
    BY <2>1, <2>2, <2>3
<1>6. /\ out.shown => committed' = committed \cup {c}
      /\ ~out.shown => committed' = committed
  BY DEF Finished
<1>7. \/ layer' = layer
      \/ /\ out.shown /\ layer[id].live
         /\ \E k \in Layer : /\ k.frame = c /\ k.using = layer[id].using \cup {c} /\ k.live
                             /\ layer' = [layer EXCEPT ![id] = k]
  <2>1. layer' = layer \/ Shows(id, c, out)
    BY <1>1, FinishedLayer
  <2> QED
    BY <2>1 DEF Shows
<1>8. layer' \in [Call -> Layer] /\ \A b \in Call : LayerMoves(b)
  <2>1. CASE layer' = layer
    BY <1>1, <2>1, LayersSame
  <2>2. CASE layer' # layer
    <3>1. PICK k \in Layer : /\ k.frame = c /\ k.using = layer[id].using \cup {c} /\ k.live
                             /\ layer' = [layer EXCEPT ![id] = k]
      BY <1>7, <2>2
    <3>2. /\ layer' \in [Call -> Layer] /\ layer'[id] = k
          /\ \A b \in Call \ {id} : layer'[b] = layer[b]
      BY <1>1, <3>1 DEF TypeOK
    <3>3. layer[id] # NoLayer
      BY <1>7, <2>2, NoLayerFacts
    <3>4. Past(id)'
      BY <1>1, PastStays DEF IInv
    <3>5. LayerMoves(id)
      BY <3>1, <3>2, <3>3, <3>4 DEF LayerMoves, Past, At
    <3>6. \A b \in Call \ {id} : LayerMoves(b)
      BY <3>2 DEF LayerMoves
    <3> QED
      BY <3>2, <3>5, <3>6
  <2> QED
    BY <2>1, <2>2
<1>9. /\ committed \subseteq committed' /\ committed' \subseteq Call
      /\ \A b \in committed' \ committed : b = c
  BY <1>1, <1>6 DEF TypeOK, Became
<1>10. \A b \in Call : r[b] # "none" => Fits(b, r[b])
  <2>1. ASSUME NEW b \in Call, r[b] # "none"
        PROVE  Fits(b, r[b])
    <3>1. CASE b = c
      BY <1>5, <1>6, <2>1, <3>1 DEF Fits, Past
    <3>2. CASE b # c
      <4>1. b = waiter[o] /\ r[b] = "error" /\ b # Nobody
        BY <1>5, <2>1, <3>2, Numbers
      <4>2. answered[b] = 0 /\ Past(b)
        BY <4>1, WaiterFacts
      <4>3. Past(b)'
        BY <4>2, PastStays DEF IInv
      <4> QED
        BY <4>1, <4>2, <4>3 DEF Fits
    <3> QED
      BY <3>1, <3>2
  <2> QED
    BY <2>1
<1>11. Moves /\ \A b \in Call : r[b] = "none" => answered'[b] = answered[b]
  <2>1. /\ floor' \in [Output -> Call \cup {Nobody}]
        /\ \A q \in Output : floor[q] <= floor'[q]
    BY <1>1, FloorSame
  <2>2. \A b \in committed' \ committed : Past(b)'
    BY <1>9 DEF Past, At
  <2> QED
    BY <1>4, <1>8, <1>9, <1>10, <2>1, <2>2, HandlerMoves
<1>12. /\ events' \in Seq(Event) /\ AllHold'
  BY <1>11, EventsSame, EventsShrink
<1>13. /\ surface'[o] = t /\ waiter'[o] = w /\ floor'[o] = floor[o] /\ plugged'[o] = plugged[o]
       /\ pending'[o] \in {Nobody, pending[o]}
       /\ \A q \in Output \ {o} : surface'[q] = surface[q] /\ waiter'[q] = waiter[q]
                                  /\ pending'[q] = pending[q]
  BY <1>1, <1>2, <1>3 DEF TypeOK
<1>14. Typed'
  <2>1. /\ surface' \in [Output -> Surface \cup {NoSurface}]
        /\ waiter' \in [Output -> Call \cup {Nobody}]
    BY <1>1, <1>2, <1>3 DEF TypeOK
  <2>2. pending' \in [Output -> Call \cup {Nobody}]
    BY <1>1 DEF TypeOK
  <2> QED
    BY <1>1, <1>12, <2>1, <2>2 DEF TypeOK, Typed
<1>15. \A b \in Call \ {id} : layer'[b] = layer[b]
  BY <1>1, <1>7 DEF TypeOK
<1>16. ASSUME NEW q \in Output \ {o}
       PROVE  Untouched(q)
  <2>1. \A b \in Call : call[b].output = q => r[b] = "none"
    <3>1. waiter[o] # Nobody => call[waiter[o]].output = o
      BY WaiterFacts
    <3> QED
      BY <1>5, <3>1, Numbers
  <2>2. \A b \in Call : call[b].output = q => b # c /\ b # id
    BY <1>1
  <2> QED
    BY <1>9, <1>11, <1>13, <1>15, <2>1, <2>2 DEF Untouched
<1>17. t \in Surface /\ t # NoSurface /\ Has(o)'
  BY <1>13, SurfaceFacts DEF Has
<1>18. \A i \in Slot : /\ t.slots[i].frame \in committed' \cup {Nobody, surface[o].slots[i].frame}
                       /\ \/ t.slots[i] \in {surface[o].slots[i], NoBuffer}
                          \/ t.slots[i] = [frame |-> c, busy |-> TRUE] /\ out.shown
  <2>1. ASSUME NEW i \in Slot
        PROVE  /\ t.slots[i].frame \in committed' \cup {Nobody, surface[o].slots[i].frame}
               /\ \/ t.slots[i] \in {surface[o].slots[i], NoBuffer}
                  \/ t.slots[i] = [frame |-> c, busy |-> TRUE] /\ out.shown
    <3>1. CASE t.slots[i] = s.slots[i]
      <4>1. s.slots[i] \in {surface[o].slots[i], NoBuffer} /\ NoBuffer.frame = Nobody
        BY DEF NoBuffer
      <4> QED
        BY <3>1, <4>1
    <3>2. CASE out.shown /\ t.slots[i] = [frame |-> c, busy |-> TRUE]
      BY <1>6, <3>2
    <3> QED
      BY <1>5, <3>1, <3>2
  <2> QED
    BY <2>1
<1>19. SurfaceHolds(o)'
  <2>1. surface'[o].id = surface[o].id /\ t.slots \in [Slot -> Buffer]
    BY <1>1, <1>2, <1>13, SurfaceFacts
  <2> QED
    BY <1>11, <1>13, <1>17, <1>18, <2>1, SurfaceStays
<1>20. WaiterHolds(o)'
  <2>1. CASE w = Nobody
    BY <1>13, <2>1 DEF WaiterHolds
  <2>2. CASE w = c
    <3>1. out.shown /\ r[c] = "none" /\ call[c].op = "frame"
      BY <1>5, <2>2
    <3>2. answered'[c] = 0 /\ c \in committed'
      BY <1>6, <1>11, <3>1
    <3>3. call'[c].op = call[c].op /\ call'[c].output = o
      BY <1>1, <1>4, SendFacts DEF Kept
    <3> QED
      BY <1>13, <2>2, <3>1, <3>2, <3>3 DEF WaiterHolds, Owed, Past, At
  <2>3. CASE w = waiter[o] /\ w # c /\ w # Nobody
    <3>1. r[w] = "none" /\ w \in Call
      BY <1>5, <2>3
    <3> QED
      BY <1>11, <1>13, <2>3, <3>1, WaiterStays
  <2> QED
    BY <1>3, <2>1, <2>2, <2>3
<1>21. PendingHolds(o)'
  <2>1. CASE pending'[o] = Nobody
    BY <2>1 DEF PendingHolds
  <2>2. CASE pending'[o] # Nobody
    <3>1. pending'[o] = pending[o] /\ pending[o] # Nobody /\ pending[o] # c /\ s = surface[o]
      BY <1>1, <1>13, <2>2 DEF TypeOK
    <3>2. /\ pending[o] \in Call /\ pending[o] \notin committed
          /\ surface[o].pool => surface[o].size = NoSize
      BY <3>1, PendingFacts
    <3>3. pending[o] # waiter[o]
      BY <3>1, WaiterFacts
    <3>4. r[pending[o]] = "none" /\ pending[o] \notin committed'
      BY <1>5, <1>9, <3>1, <3>2, <3>3
    <3>5. /\ answered'[pending[o]] = answered[pending[o]] /\ ~surface'[o].pool
      BY <1>2, <1>11, <1>13, <3>1, <3>2, <3>4
    <3> QED
      BY <1>11, <1>13, <1>17, <3>1, <3>4, <3>5, PendingStays
  <2> QED
    BY <2>1, <2>2
<1>22. LayersHold(o)'
  <2>1. ASSUME NEW b \in Call, call'[b].output = o, ~At(b, "new")'
        PROVE  LayerHolds(o, b)'
    <3>1. call[b].output = o /\ ~At(b, "new")
      BY <1>1, <1>4, <2>1, SendFacts DEF Kept
    <3>2. CASE layer'[b] = layer[b]
      <4>1. ASSUME layer[b] # NoLayer
            PROVE  /\ surface'[o].id = surface[o].id /\ plugged'[o] # NoSize
                   /\ surface'[o].size # NoSize
                   /\ \A i \in Slot : t.slots[i].frame \in layer[b].using =>
                          t.slots[i] = surface[o].slots[i]
        <5>1. plugged[o] # NoSize /\ layer[b].using \subseteq committed
          BY <3>1, <4>1, LayerFound
        <5>2. NoBuffer.frame = Nobody /\ Nobody \notin committed
          BY <1>1, Numbers DEF NoBuffer, TypeOK
        <5> QED
          BY <1>1, <1>2, <1>13, <1>18, <5>1, <5>2
      <4> QED
        BY <1>11, <1>13, <3>1, <3>2, <4>1, LayerStays
    <3>3. CASE layer'[b] # layer[b]
      <4>1. b = id /\ out.shown /\ layer[id].live
        BY <1>7, <1>15, <3>3
      <4>2. PICK k \in Layer : /\ k.frame = c /\ k.using = layer[id].using \cup {c} /\ k.live
                               /\ layer' = [layer EXCEPT ![id] = k]
        BY <1>7, <3>3, <4>1
      <4>3. layer'[b] = k
        BY <1>1, <4>1, <4>2 DEF TypeOK
      <4>4. layer[id] # NoLayer
        BY <4>1, NoLayerFacts
      <4>5. /\ plugged[o] # NoSize /\ floor[o] < id /\ layer[id].using \subseteq committed
            /\ \A i \in Slot :
                  surface[o].slots[i].frame \in layer[id].using => surface[o].slots[i].busy
        BY <1>1, <4>4, LayerFound
      <4>6. k.using \subseteq committed' /\ c \in committed' /\ call'[c].output = o
        BY <1>1, <1>4, <1>6, <4>1, <4>2, <4>5, SendFacts DEF Kept
      <4>7. ASSUME NEW i \in Slot, t.slots[i].frame \in k.using
            PROVE  t.slots[i].busy
        <5>1. NoBuffer.frame = Nobody /\ Nobody \notin committed /\ Nobody # c
          BY <1>1, Numbers DEF NoBuffer, TypeOK
        <5>2. CASE t.slots[i] = surface[o].slots[i]
          <6>1. t.slots[i].frame # c
            BY <1>1, <5>1, <5>2
          <6> QED
            BY <4>2, <4>5, <4>7, <5>2, <6>1
        <5>3. CASE t.slots[i] = NoBuffer
          BY <4>2, <4>5, <4>7, <5>1, <5>3
        <5>4. CASE t.slots[i] = [frame |-> c, busy |-> TRUE]
          BY <5>4
        <5> QED
          BY <1>18, <5>2, <5>3, <5>4
      <4> QED
        BY <1>2, <1>13, <4>1, <4>2, <4>3, <4>5, <4>6, <4>7 DEF LayerHolds
    <3> QED
      BY <3>2, <3>3
  <2> QED
    BY <2>1 DEF LayersHold
<1>23. OutputHolds(o)'
  <2>1. FloorHolds(o)'
    BY <1>11, <1>13, FloorStays
  <2> QED
    BY <1>19, <1>20, <1>21, <1>22, <2>1 DEF OutputHolds
<1> QED
  BY <1>11, <1>12, <1>14, <1>16, <1>23, OneKeeps

\* Nobody is answered.
Quiet == call' = call /\ commands' = commands /\ answered' = answered /\ committed' = committed

LEMMA SendNothing ==
    ASSUME TypeOK, Send(Nothing)
    PROVE  call' = call /\ answered' = answered
<1>1. \A c \in Call : call'[c] = call[c] /\ answered'[c] = answered[c]
  BY DEF Send, Nothing
<1>2. call' = [c \in Call |-> call'[c]] /\ answered' = [c \in Call |-> answered'[c]]
  BY DEF Send
<1> QED
  BY <1>1, <1>2 DEF TypeOK

LEMMA QuietMoves ==
    ASSUME IInv, Quiet, layer' \in [Call -> Layer], \A c \in Call : LayerMoves(c),
           floor' \in [Output -> Call \cup {Nobody}],
           \A o \in Output : floor[o] <= floor'[o]
    PROVE  Moves
<1>1. call' \in [Call -> CallRecord] /\ \A c \in Call : Kept(c) /\ Answered(c)
  BY DEF Quiet, IInv, TypeOK, Kept, At, Answered
<1>2. Sequential'
  BY <1>1, SequentialStays DEF IInv
<1>3. Onward
  BY <1>1, <1>2, ChannelSame DEF Quiet, IInv
<1>4. answered' \in [Call -> Nat] /\ committed' \subseteq Call
  BY DEF Quiet, IInv, TypeOK
<1> QED
  BY <1>1, <1>3, <1>4 DEF Moves, Quiet

Passes == events' = events \/ (events # << >> /\ events' = Tail(events))

\* Some calls of an output are answered and nothing but its parked present and its
\* waiter goes.
LEMMA RepliesKeep ==
    ASSUME IInv, Onward, NEW o \in Output, NEW replies \in [Call -> Answer], Send(replies),
           \A b \in Call : replies[b] # "none" =>
               Fits(b, replies[b]) /\ call[b].output = o /\ b # pending'[o] /\ b # waiter'[o],
           pending' = pending \/ pending' = [pending EXCEPT ![o] = Nobody],
           waiter' = waiter \/ waiter' = [waiter EXCEPT ![o] = Nobody],
           UNCHANGED <<running, known, surface, plugged, layer, changes, committed, floor>>,
           Passes
    PROVE  IInv'
<1>1. TypeOK
  BY DEF IInv
<1>2. Moves /\ \A b \in Call : replies[b] = "none" => answered'[b] = answered[b]
  <2>1. layer' \in [Call -> Layer] /\ \A c \in Call : LayerMoves(c)
    BY <1>1, LayersSame
  <2>2. /\ floor' \in [Output -> Call \cup {Nobody}]
        /\ \A q \in Output : floor[q] <= floor'[q]
    BY <1>1, FloorSame
  <2>3. committed \subseteq committed' /\ committed' \subseteq Call /\ committed' \ committed = {}
    BY <1>1 DEF TypeOK
  <2> QED
    BY <2>1, <2>2, <2>3, HandlerMoves
<1>3. events' \in Seq(Event) /\ AllHold'
  BY <1>2, EventsSame, EventsShrink DEF Passes
<1>4. /\ pending' \in [Output -> Call \cup {Nobody}] /\ waiter' \in [Output -> Call \cup {Nobody}]
      /\ pending'[o] \in {Nobody, pending[o]} /\ waiter'[o] \in {Nobody, waiter[o]}
      /\ \A q \in Output \ {o} : pending'[q] = pending[q] /\ waiter'[q] = waiter[q]
  BY <1>1 DEF TypeOK
<1>5. Typed'
  BY <1>1, <1>3, <1>4 DEF TypeOK, Typed
<1>6. \A q \in Output \ {o} : Untouched(q)
  BY <1>2, <1>4 DEF Untouched
<1>7. OutputHolds(o)'
  <2>1. FloorHolds(o)'
    BY <1>2, FloorStays
  <2>2. Has(o)' <=> Has(o)
    BY DEF Has
  <2>3. SurfaceHolds(o)'
    <3>1. Has(o) => surface[o].slots \in [Slot -> Buffer]
      BY <1>1, HasFacts, SurfaceFacts
    <3> QED
      BY <1>2, <2>2, <3>1, SurfaceStays
  <2>4. WaiterHolds(o)'
    <3>1. CASE waiter'[o] = Nobody
      BY <3>1 DEF WaiterHolds
    <3>2. CASE waiter'[o] # Nobody
      <4>1. waiter'[o] = waiter[o] /\ waiter[o] \in Call
        BY <1>1, <1>4, <3>2 DEF TypeOK
      <4>2. answered'[waiter[o]] = answered[waiter[o]]
        BY <1>2, <4>1
      <4> QED
        BY <1>2, <4>1, <4>2, WaiterStays
    <3> QED
      BY <3>1, <3>2
  <2>5. PendingHolds(o)'
    <3>1. CASE pending'[o] = Nobody
      BY <3>1 DEF PendingHolds
    <3>2. CASE pending'[o] # Nobody
      <4>1. pending'[o] = pending[o] /\ pending[o] \in Call
        BY <1>1, <1>4, <3>2 DEF TypeOK
      <4>2. answered'[pending[o]] = answered[pending[o]]
        BY <1>2, <4>1
      <4>3. Has(o) /\ pending[o] \notin committed'
        BY <3>2, <4>1, PendingFacts
      <4> QED
        BY <1>2, <2>2, <4>1, <4>2, <4>3, PendingStays
    <3> QED
      BY <3>1, <3>2
  <2>6. LayersHold(o)'
    <3>1. ASSUME NEW id \in Call, call'[id].output = o, ~At(id, "new")'
          PROVE  LayerHolds(o, id)'
      <4>1. call[id].output = o /\ ~At(id, "new")
        BY <1>1, <3>1, SendFacts DEF Kept
      <4>2. layer[id] # NoLayer => plugged[o] # NoSize
        BY <4>1, LayerFound
      <4> QED
        BY <1>2, <4>1, <4>2, LayerStays
    <3> QED
      BY <3>1 DEF LayersHold
  <2> QED
    BY <2>1, <2>3, <2>4, <2>5, <2>6 DEF OutputHolds
<1> QED
  BY <1>2, <1>3, <1>5, <1>6, <1>7, OneKeeps

\* An output loses its surface, with whoever is parked or waits.
LEMMA LoseKeeps ==
    ASSUME IInv, Onward, NEW o \in Output, NEW replies \in [Call -> Answer], Send(replies),
           \A b \in Call : replies[b] # "none" => Fits(b, replies[b]) /\ call[b].output = o,
           surface' = [surface EXCEPT ![o] = NoSurface],
           pending' = [pending EXCEPT ![o] = Nobody], waiter' = [waiter EXCEPT ![o] = Nobody],
           layer' \in [Call -> Layer],
           \A id \in Call : IF call[id].output = o THEN layer'[id] = NoLayer
                                                   ELSE layer'[id] = layer[id],
           floor' = floor \/ \E n \in Call : /\ floor' = [floor EXCEPT ![o] = n] /\ floor[o] <= n
                                             /\ Past(n)' /\ call[n].output = o,
           known' \subseteq Output, UNCHANGED <<running, plugged, changes, committed>>, Passes
    PROVE  IInv'
<1>1. TypeOK
  BY DEF IInv
<1>2. \A c \in Call : LayerMoves(c)
  <2>1. ASSUME NEW c \in Call
        PROVE  LayerMoves(c)
    <3>1. CASE layer'[c] = layer[c]
      BY <3>1 DEF LayerMoves
    <3>2. CASE layer'[c] # layer[c]
      <4>1. call[c].output = o /\ layer'[c] = NoLayer /\ layer[c] # NoLayer
        BY <3>2
      <4>2. Past(c)'
        BY <4>1, LayerFound, PastStays DEF IInv
      <4> QED
        BY <4>1, <4>2, NoLayerFacts DEF LayerMoves
    <3> QED
      BY <3>1, <3>2
  <2> QED
    BY <2>1
<1>3. /\ floor' \in [Output -> Call \cup {Nobody}]
      /\ \A q \in Output : floor[q] <= floor'[q]
      /\ \A q \in Output \ {o} : floor'[q] = floor[q]
  <2>1. CASE floor' = floor
    BY <1>1, <2>1, FloorSame
  <2>2. CASE floor' # floor
    <3>1. PICK n \in Call : floor' = [floor EXCEPT ![o] = n] /\ floor[o] <= n
      BY <2>2
    <3> QED
      BY <1>1, <3>1, FloorRises
  <2> QED
    BY <2>1, <2>2
<1>4. Moves /\ \A b \in Call : replies[b] = "none" => answered'[b] = answered[b]
  <2>1. committed \subseteq committed' /\ committed' \subseteq Call /\ committed' \ committed = {}
    BY <1>1 DEF TypeOK
  <2>2. \A b \in Call : replies[b] # "none" => Fits(b, replies[b])
    OBVIOUS
  <2> QED
    BY <1>2, <1>3, <2>1, <2>2, HandlerMoves
<1>5. events' \in Seq(Event) /\ AllHold'
  BY <1>4, EventsSame, EventsShrink DEF Passes
<1>6. Typed' /\ surface'[o] = NoSurface /\ pending'[o] = Nobody /\ waiter'[o] = Nobody
  BY <1>1, <1>5 DEF TypeOK, Typed
<1>7. \A q \in Output \ {o} : Untouched(q)
  BY <1>1, <1>3, <1>4 DEF TypeOK, Untouched
<1>8. OutputHolds(o)'
  <2>1. FloorHolds(o)'
    <3>1. CASE floor' = floor
      BY <1>4, <3>1, FloorStays
    <3>2. CASE floor' # floor
      <4>1. PICK n \in Call : floor' = [floor EXCEPT ![o] = n] /\ Past(n)' /\ call[n].output = o
        BY <3>2
      <4>2. floor'[o] = n /\ call'[n].output = o
        BY <1>1, <4>1, SendFacts DEF Kept, TypeOK
      <4> QED
        BY <4>1, <4>2 DEF FloorHolds, Past, At
    <3> QED
      BY <3>1, <3>2
  <2>2. SurfaceHolds(o)' /\ PendingHolds(o)' /\ WaiterHolds(o)'
    BY <1>6 DEF SurfaceHolds, PendingHolds, WaiterHolds, Has
  <2>3. LayersHold(o)'
    <3>1. ASSUME NEW id \in Call, call'[id].output = o
          PROVE  LayerHolds(o, id)'
      <4>1. call[id].output = o
        BY <1>1, <3>1, SendFacts DEF Kept
      <4> QED
        BY <4>1 DEF LayerHolds
    <3> QED
      BY <3>1 DEF LayersHold
  <2> QED
    BY <2>1, <2>2, <2>3 DEF OutputHolds
<1> QED
  BY <1>4, <1>5, <1>6, <1>7, <1>8, OneKeeps

\* The surface of an output changes: its slots are forgotten, or what was given back
\* is free.
LEMMA SurfaceKeeps ==
    ASSUME IInv, NEW o \in Output, NEW t \in Surface, Quiet, Has(o),
           surface' = [surface EXCEPT ![o] = t], t.id = surface[o].id,
           surface[o].size # NoSize => t.size # NoSize,
           \A i \in Slot :
               \/ t.slots[i] \in {surface[o].slots[i], NoBuffer}
               \/ /\ t.slots[i].frame = surface[o].slots[i].frame
                  /\ t.slots[i].frame \notin layer[t.id].using,
           pending[o] # Nobody => (t.pool => surface[o].pool /\ t.size = surface[o].size),
           known' \subseteq Output,
           UNCHANGED <<running, pending, waiter, plugged, layer, changes, floor>>, Passes
    PROVE  IInv'
<1>1. TypeOK
  BY DEF IInv
<1>2. Moves
  <2>1. layer' \in [Call -> Layer] /\ \A c \in Call : LayerMoves(c)
    BY <1>1, LayersSame
  <2>2. /\ floor' \in [Output -> Call \cup {Nobody}]
        /\ \A q \in Output : floor[q] <= floor'[q]
    BY <1>1, FloorSame
  <2> QED
    BY <2>1, <2>2, QuietMoves
<1>3. events' \in Seq(Event) /\ AllHold'
  BY <1>2, EventsSame, EventsShrink DEF Passes
<1>4. /\ surface' \in [Output -> Surface \cup {NoSurface}] /\ surface'[o] = t
      /\ \A q \in Output \ {o} : surface'[q] = surface[q]
  BY <1>1 DEF TypeOK
<1>5. Typed'
  BY <1>1, <1>3, <1>4 DEF TypeOK, Typed
<1>6. \A q \in Output \ {o} : Untouched(q)
  BY <1>4 DEF Untouched, Quiet
<1>7. Has(o)'
  BY <1>4, SurfaceFacts DEF Has
<1>8. /\ NoBuffer.frame = Nobody /\ Nobody \notin committed
  BY <1>1, Numbers DEF NoBuffer, TypeOK
<1>9. OutputHolds(o)'
  <2>1. FloorHolds(o)'
    BY <1>2, FloorStays
  <2>2. SurfaceHolds(o)'
    <3>1. \A i \in Slot : t.slots[i].frame \in {Nobody, surface[o].slots[i].frame}
      BY <1>8
    <3>2. t.slots \in [Slot -> Buffer]
      BY SurfaceFacts
    <3> QED
      BY <1>2, <1>4, <1>7, <3>1, <3>2, SurfaceStays
  <2>3. WaiterHolds(o)'
    BY <1>2, WaiterStays DEF Quiet
  <2>4. PendingHolds(o)'
    <3>1. pending[o] # Nobody => pending[o] \notin committed'
      BY PendingFacts DEF Quiet
    <3> QED
      BY <1>2, <1>4, <1>7, <3>1, PendingStays DEF Quiet
  <2>5. LayersHold(o)'
    <3>1. ASSUME NEW id \in Call, call'[id].output = o, ~At(id, "new")'
          PROVE  LayerHolds(o, id)'
      <4>1. call[id].output = o /\ ~At(id, "new")
        BY <3>1 DEF Quiet, At
      <4>2. ASSUME layer[id] # NoLayer
            PROVE  /\ plugged[o] # NoSize /\ t.id = id
                   /\ \A i \in Slot : t.slots[i].frame \in layer[id].using =>
                          t.slots[i] = surface[o].slots[i]
        <5>1. plugged[o] # NoSize /\ surface[o].id = id /\ layer[id].using \subseteq committed
          BY <4>1, <4>2, LayerFound
        <5> QED
          BY <1>8, <5>1
      <4> QED
        BY <1>2, <1>4, <4>1, <4>2, LayerStays
    <3> QED
      BY <3>1 DEF LayersHold
  <2> QED
    BY <2>1, <2>2, <2>3, <2>4, <2>5 DEF OutputHolds
<1> QED
  BY <1>2, <1>3, <1>5, <1>6, <1>9, OneKeeps

\* The compositor changes an output and our layers there.
LEMMA CompositorKeeps ==
    ASSUME IInv, NEW o \in Output, Quiet, Moves, UNCHANGED thread,
           plugged' \in [Output -> Size \cup {NoSize}], changes' \in 0..MaxChanges,
           events' \in Seq(Event), AllHold',
           \A q \in Output \ {o} : plugged'[q] = plugged[q] /\ floor'[q] = floor[q],
           \A id \in Call : call[id].output # o => layer'[id] = layer[id],
           floor'[o] = floor[o]
           \/ /\ Past(floor[o])' /\ call[floor'[o]].output = o
              /\ ~(Has(o) /\ surface[o].pool /\ pending[o] # Nobody),
           \A id \in Call : call[id].output = o /\ ~At(id, "new") => LayerHolds(o, id)'
    PROVE  IInv'
<1>1. TypeOK /\ UNCHANGED <<running, known, surface, pending, waiter>>
  BY DEF IInv, thread
<1>2. Typed'
  BY <1>1 DEF TypeOK, Typed
<1>3. \A q \in Output \ {o} : Untouched(q)
  BY <1>1 DEF Untouched, Quiet
<1>4. OutputHolds(o)'
  <2>1. FloorHolds(o)'
    <3>1. CASE floor'[o] = floor[o]
      BY <3>1, FloorStays
    <3>2. CASE floor'[o] # floor[o]
      BY <3>2 DEF FloorHolds, Quiet
    <3> QED
      BY <3>1, <3>2
  <2>2. Has(o)' <=> Has(o)
    BY <1>1 DEF Has
  <2>3. SurfaceHolds(o)'
    <3>1. Has(o) => surface[o].slots \in [Slot -> Buffer]
      BY <1>1, HasFacts, SurfaceFacts
    <3> QED
      BY <1>1, <2>2, <3>1, SurfaceStays
  <2>4. WaiterHolds(o)'
    BY <1>1, WaiterStays DEF Quiet
  <2>5. PendingHolds(o)'
    <3>1. ASSUME pending[o] # Nobody
          PROVE  /\ pending[o] \notin committed' /\ Has(o)
                 /\ surface[o].pool => floor'[o] = floor[o]
      BY <3>1, PendingFacts DEF Quiet
    <3> QED
      BY <1>1, <2>2, <3>1, PendingStays DEF Quiet
  <2>6. LayersHold(o)'
    BY DEF LayersHold, Quiet, At
  <2> QED
    BY <2>1, <2>3, <2>4, <2>5, <2>6 DEF OutputHolds
<1> QED
  BY <1>2, <1>3, <1>4, OneKeeps

-----------------------------------------------------------------------------
\* The thread takes a command.

LEMMA RefuseKeeps ==
    ASSUME IInv, NEW c \in Call, NEW o \in Output, o = call[c].output, Takes(c, call[c].op),
           Send(Reply(c, "error")),
           UNCHANGED <<running, known, surface, pending, waiter, plugged, layer, changes,
                       committed, floor, events>>
    PROVE  IInv'
<1>1. PICK r \in [Call -> Answer] :
          /\ Send(r) /\ \A b \in Call : r[b] = IF b = c THEN "error" ELSE "none"
  BY Replies DEF Answer
<1>2. /\ Onward /\ Past(c)' /\ answered[c] = 0 /\ pending[o] # c /\ waiter[o] # c
  BY <1>1, TakenFacts
<1>3. Fits(c, "error")
  BY <1>2 DEF Fits
<1>4. \A b \in Call : r[b] # "none" =>
          Fits(b, r[b]) /\ call[b].output = o /\ b # pending'[o] /\ b # waiter'[o]
  BY <1>1, <1>2, <1>3
<1> QED
  BY <1>1, <1>2, <1>4, RepliesKeep DEF Passes

\* A present is parked, on a new surface or on one that has no size.
LEMMA ParkKeeps ==
    ASSUME IInv, NEW c \in Call, NEW o \in Output, o = call[c].output, Takes(c, call[c].op),
           call[c].op \in {"present", "frame"}, Park(o, c, Nothing),
           UNCHANGED <<running, known, waiter, plugged, changes, committed, floor>>,
           \/ Has(o) /\ surface[o].size = NoSize /\ UNCHANGED <<surface, layer, events>>
           \/ /\ ~Has(o)
              /\ surface' = [surface EXCEPT ![o] = [id |-> c, size |-> NoSize, pool |-> TRUE,
                                                   slots |-> NoBuffers, next |-> 0, asked |-> 0]]
              /\ \/ /\ plugged[o] # NoSize /\ layer' = [layer EXCEPT ![c] = [NoLayer EXCEPT !.live = TRUE]]
                    /\ UNCHANGED events
                 \/ /\ events' = Append(events, [kind |-> "closed", id |-> c]) /\ UNCHANGED layer
    PROVE  IInv'
<1>1. TypeOK
  BY DEF IInv
<1>2. PICK r \in [Call -> Answer] :
          /\ Send(r) /\ \A b \in Call : r[b] = IF b = pending[o] THEN "error" ELSE "none"
  <2>1. PICK q \in [Call -> Answer] : q = Refuse({pending[o]})
    BY Replies
  <2>2. \A b \in Call : q[b] = IF b = pending[o] THEN "error" ELSE "none"
    BY <2>1, Replies
  <2>3. PICK r : r = Also(Nothing, q)
    OBVIOUS
  <2>4. r \in [Call -> Answer] /\ \A b \in Call : r[b] = q[b]
    BY <2>3 DEF Also, Nothing
  <2>5. Send(r)
    BY <2>1, <2>3 DEF Park
  <2> QED
    BY <2>2, <2>4, <2>5
<1>3. /\ Onward /\ Past(c)' /\ ~At(c, "new") /\ answered[c] = 0 /\ c \notin committed
      /\ layer[c] = NoLayer /\ pending[o] # c /\ floor[o] < c
  BY <1>2, TakenFacts
<1>4. \A b \in Call : r[b] # "none" => Fits(b, r[b]) /\ call[b].output = o
  <2>1. ASSUME NEW b \in Call, r[b] # "none"
        PROVE  Fits(b, r[b]) /\ call[b].output = o
    <3>1. b = pending[o] /\ r[b] = "error" /\ b # Nobody
      BY <1>2, <2>1, Numbers
    <3>2. call[b].output = o /\ Past(b) /\ answered[b] = 0
      BY <3>1, PendingFacts
    <3>3. Past(b)'
      BY <1>3, <3>2, PastStays DEF IInv
    <3> QED
      BY <3>1, <3>2, <3>3 DEF Fits
  <2> QED
    BY <2>1
<1>5. /\ layer' \in [Call -> Layer]
      /\ \A b \in Call \ {c} : layer'[b] = layer[b]
      /\ \/ layer'[c] = NoLayer
         \/ /\ ~Has(o) /\ plugged[o] # NoSize /\ layer'[c].live /\ layer'[c].frame = Nobody
            /\ layer'[c].using = {}
  <2>1. CASE layer' = layer
    BY <1>1, <1>3, <2>1 DEF TypeOK
  <2>2. CASE layer' # layer
    <3>1. PICK l : l = [NoLayer EXCEPT !.live = TRUE]
      OBVIOUS
    <3>2. l \in Layer /\ l.live /\ l.frame = Nobody /\ l.using = {}
      BY <3>1 DEF NoLayer, Layer
    <3>3. ~Has(o) /\ plugged[o] # NoSize /\ layer' = [layer EXCEPT ![c] = l]
      BY <2>2, <3>1
    <3> QED
      BY <1>1, <3>2, <3>3 DEF TypeOK
  <2> QED
    BY <2>1, <2>2
<1>6. \A b \in Call : LayerMoves(b)
  <2>1. LayerMoves(c)
    <3>1. ~Past(c)
      <4>1. Waits(c)
        <5>1. call' \in [Call -> CallRecord] /\ \A b \in Call : Kept(b)
          BY <1>1, <1>2, SendFacts
        <5>2. PICK op \in Op : op = call[c].op
          BY <1>1, CallFacts DEF TypeOK
        <5> QED
          BY <5>1, <5>2, Taken DEF IInv
      <4> QED
        BY <4>1, NotPast
    <3> QED
      BY <1>3, <1>5, <3>1, NoLayerFacts DEF LayerMoves
  <2>2. \A b \in Call \ {c} : LayerMoves(b)
    BY <1>5 DEF LayerMoves
  <2> QED
    BY <2>1, <2>2
<1>7. Moves /\ \A b \in Call : r[b] = "none" => answered'[b] = answered[b]
  <2>1. /\ floor' \in [Output -> Call \cup {Nobody}]
        /\ \A q \in Output : floor[q] <= floor'[q]
    BY <1>1, FloorSame
  <2>2. committed \subseteq committed' /\ committed' \subseteq Call /\ committed' \ committed = {}
    BY <1>1 DEF TypeOK
  <2> QED
    BY <1>2, <1>3, <1>4, <1>5, <1>6, <2>1, <2>2, HandlerMoves
<1>8. events' \in Seq(Event) /\ AllHold'
  <2>1. CASE events' = events
    BY <1>7, <2>1, EventsSame
  <2>2. CASE events' # events
    <3>1. PICK e \in Event : e = [kind |-> "closed", id |-> c]
      <4>1. [kind |-> "closed", id |-> c] \in Event
        BY DEF Event
      <4> QED
        BY <4>1
    <3>2. events' = Append(events, e) /\ layer' = layer
      BY <2>2, <3>1
    <3>3. EventHolds(e)'
      BY <1>3, <3>1, <3>2 DEF EventHolds, Past, At
    <3> QED
      BY <1>7, <3>2, <3>3, EventsAppend
  <2> QED
    BY <2>1, <2>2
<1>9. PICK t \in Surface :
          /\ surface' = [surface EXCEPT ![o] = t] /\ t.size = NoSize
          /\ \/ Has(o) /\ t = surface[o] /\ layer' = layer
             \/ ~Has(o) /\ t.id = c /\ t.slots = NoBuffers
  <2>1. CASE Has(o)
    <3>1. surface[o] \in Surface /\ surface \in [Output -> Surface \cup {NoSurface}]
      BY <1>1, <2>1, HasFacts DEF TypeOK
    <3>2. surface = [surface EXCEPT ![o] = surface[o]]
      BY <3>1
    <3> QED
      BY <2>1, <3>1, <3>2
  <2>2. CASE ~Has(o)
    <3>1. PICK t : t = [id |-> c, size |-> NoSize, pool |-> TRUE,
                        slots |-> NoBuffers, next |-> 0, asked |-> 0]
      OBVIOUS
    <3>2. t \in Surface /\ t.id = c /\ t.size = NoSize /\ t.slots = NoBuffers
      BY <3>1, Slots DEF Surface
    <3> QED
      BY <2>2, <3>1, <3>2
  <2> QED
    BY <2>1, <2>2
<1>10. /\ surface'[o] = t /\ pending'[o] = c /\ waiter'[o] = waiter[o] /\ floor'[o] = floor[o]
       /\ \A q \in Output \ {o} : surface'[q] = surface[q] /\ pending'[q] = pending[q]
       /\ surface' \in [Output -> Surface \cup {NoSurface}]
       /\ pending' \in [Output -> Call \cup {Nobody}]
  BY <1>1, <1>9 DEF Park, TypeOK
<1>11. Typed'
  BY <1>1, <1>8, <1>10 DEF Typed, TypeOK
<1>12. ASSUME NEW q \in Output \ {o}
       PROVE  Untouched(q)
  <2>1. \A b \in Call : call[b].output = q => r[b] = "none" /\ b # c
    BY <1>4
  <2> QED
    BY <1>5, <1>7, <1>10, <2>1 DEF Untouched
<1>13. Has(o)'
  BY <1>10, SurfaceFacts DEF Has
<1>14. call'[c].output = o /\ call'[c].op = call[c].op
  BY <1>1, <1>2, SendFacts DEF Kept
<1>15. OutputHolds(o)'
  <2>1. FloorHolds(o)'
    BY <1>7, <1>10, FloorStays
  <2>2. SurfaceHolds(o)'
    <3>1. CASE Has(o)
      <4>1. surface'[o].id = surface[o].id /\ surface'[o].slots = surface[o].slots
        BY <1>9, <1>10, <3>1
      <4>2. t.slots \in [Slot -> Buffer]
        BY SurfaceFacts
      <4> QED
        BY <1>7, <1>10, <1>13, <3>1, <4>1, <4>2, SurfaceStays
    <3>2. CASE ~Has(o)
      <4>1. \A i \in Slot : t.slots[i].frame = Nobody
        BY <1>9, <3>2 DEF NoBuffers, NoBuffer
      <4> QED
        BY <1>3, <1>9, <1>10, <1>14, <3>2, <4>1 DEF SurfaceHolds, Past, At
    <3> QED
      BY <3>1, <3>2
  <2>3. WaiterHolds(o)'
    <3>1. waiter[o] # Nobody => waiter[o] \in Call /\ waiter[o] # pending[o]
      BY WaiterFacts
    <3>2. waiter[o] # Nobody => answered'[waiter[o]] = answered[waiter[o]]
      BY <1>2, <1>7, <3>1
    <3> QED
      BY <1>7, <3>2, WaiterStays
  <2>4. PendingHolds(o)'
    <3>1. answered'[c] = 0 /\ c \notin committed' /\ floor'[o] < c
      BY <1>2, <1>3, <1>7, <1>10
    <3> QED
      BY <1>3, <1>9, <1>10, <1>13, <1>14, <3>1 DEF PendingHolds, Owed, Past, At
  <2>5. LayersHold(o)'
    <3>1. ASSUME NEW id \in Call, call'[id].output = o, ~At(id, "new")'
          PROVE  LayerHolds(o, id)'
      <4>1. call[id].output = o /\ ~At(id, "new")
        BY <1>1, <1>2, <3>1, SendFacts DEF Kept
      <4>2. CASE layer'[id] = NoLayer
        BY <4>2 DEF LayerHolds
      <4>3. CASE id = c /\ layer'[id] # NoLayer
        BY <1>3, <1>5, <1>9, <1>10, <4>3 DEF LayerHolds
      <4>4. CASE id # c /\ layer'[id] # NoLayer
        <5>1. layer'[id] = layer[id] /\ layer[id] # NoLayer
          BY <1>5, <4>4
        <5>2. Has(o) /\ plugged[o] # NoSize
          BY <4>1, <5>1, LayerFound
        <5>3. surface'[o] = surface[o]
          BY <1>9, <1>10, <5>2
        <5> QED
          BY <1>7, <1>10, <4>1, <5>1, <5>2, <5>3, LayerStays
      <4> QED
        BY <4>2, <4>3, <4>4
    <3> QED
      BY <3>1 DEF LayersHold
  <2> QED
    BY <2>1, <2>2, <2>3, <2>4, <2>5 DEF OutputHolds
<1> QED
  BY <1>7, <1>8, <1>11, <1>12, <1>15, OneKeeps

\* The first command, when it is its call's own, says that the call waits.
LEMMA WaitsTaken ==
    ASSUME IInv, NEW c \in Call, Takes(c, call[c].op)
    PROVE  Waits(c) /\ ~Past(c)
<1>1. /\ commands # << >> /\ Head(commands) = [call |-> c, op |-> call[c].op]
  BY DEF Takes
<1>2. 1 \in 1..Len(commands) /\ Head(commands) = commands[1]
  BY <1>1, ChannelTypes, HeadTailProperties, LenProperties, EmptySeq DEF IInv
<1>3. commands[1].call = c /\ commands[1].op = call[c].op
  BY <1>1, <1>2
<1>4. Waits(c)
  BY <1>2, <1>3 DEF Waits, Own
<1> QED
  BY <1>4, NotPast

LEMMA WaiterElse ==
    ASSUME IInv, NEW c \in Call, Takes(c, call[c].op), NEW o \in Output
    PROVE  waiter[o] \in Call \cup {Nobody} /\ waiter[o] # c
<1>1. ~Past(c)
  BY WaitsTaken
<1>2. waiter[o] \in Call \cup {Nobody}
  BY DEF IInv, TypeOK
<1>3. CASE waiter[o] = Nobody
  BY <1>2, <1>3, Numbers
<1>4. CASE waiter[o] # Nobody
  BY <1>1, <1>2, <1>4, WaiterFacts
<1> QED
  BY <1>3, <1>4

LEMMA HandlePresentKeeps ==
    ASSUME IInv, NEW c \in Call, HandlePresent(c)
    PROVE  IInv'
<1>1. PICK o \in Output : o = call[c].output
  BY CallFacts DEF IInv, TypeOK
<1>2. /\ Takes(c, call[c].op) /\ call[c].op \in {"present", "frame"}
      /\ CreateSurface(c, o) \/ CannotCreate(c, o) \/ PresentParked(c, o) \/ PresentNow(c, o)
      /\ UNCHANGED <<running, known, plugged, changes, floor>>
  BY <1>1 DEF HandlePresent
<1>3. CASE CreateSurface(c, o) /\ o \in known
  BY <1>1, <1>2, <1>3, ParkKeeps DEF CreateSurface
<1>4. CASE CreateSurface(c, o) /\ o \notin known
  BY <1>1, <1>2, <1>4, RefuseKeeps DEF CreateSurface
<1>5. CASE CannotCreate(c, o)
  BY <1>1, <1>2, <1>5, RefuseKeeps DEF CannotCreate
<1>6. CASE PresentParked(c, o)
  BY <1>1, <1>2, <1>6, ParkKeeps DEF PresentParked
<1>7. CASE PresentNow(c, o)
  <2>1. Has(o) /\ surface[o].size # NoSize /\ pending' = pending /\ events' = events
    BY <1>7 DEF PresentNow
  <2>2. surface[o] \in Surface
    BY <2>1, HasFacts DEF IInv
  <2>3. PICK s \in Surface : s = surface[o]
    BY <2>2
  <2>4. PICK out \in Outcomes(o, c, s) : Finished(o, c, out) /\ Send(out.replies)
    BY <1>7, <2>3 DEF PresentNow
  <2>5. waiter[o] \in Call \cup {Nobody} /\ waiter[o] # c
    <3>1. ~Past(c)
      BY <1>2, WaitsTaken
    <3> QED
      BY <3>1, WaiterFacts, Numbers DEF IInv, TypeOK
  <2>6. Became(o, c, s, out)
    BY <2>5, OutcomeFacts
  <2>7. out.replies \in [Call -> Answer]
    BY <2>6 DEF Became
  <2>8. /\ Onward /\ Past(c)' /\ answered[c] = 0 /\ c \notin committed /\ pending[o] # c
    BY <1>2, <2>4, <2>7, TakenFacts
  <2>9. \A i \in Slot : s.slots[i] \in {surface[o].slots[i], NoBuffer}
    BY <2>3
  <2> QED
    BY <1>1, <1>2, <2>1, <2>3, <2>4, <2>5, <2>6, <2>8, <2>9, FinishKeeps
<1> QED
  BY <1>2, <1>3, <1>4, <1>5, <1>6, <1>7

\* The layers of an output go with its surface.
LEMMA DestroyedFacts ==
    ASSUME IInv, NEW o \in Output, layer' = Destroyed(layer, surface[o].id)
    PROVE  /\ layer' \in [Call -> Layer]
           /\ \A id \in Call : IF call[id].output = o THEN layer'[id] = NoLayer
                                                     ELSE layer'[id] = layer[id]
<1>1. layer \in [Call -> Layer]
  BY DEF IInv, TypeOK
<1>2. ASSUME NEW id \in Call, call[id].output = o, layer[id] # NoLayer
      PROVE  Has(o) /\ surface[o].id = id
  BY <1>2, LayerFound
<1>3. CASE ~Has(o)
  <2>1. layer' = layer
    BY <1>3, HasFacts DEF Destroyed, IInv
  <2> QED
    BY <1>1, <1>2, <1>3, <2>1
<1>4. CASE Has(o)
  <2>1. PICK d \in Call : d = surface[o].id /\ call[d].output = o
    BY <1>4, HasFacts DEF IInv, OutputHolds, SurfaceHolds
  <2>2. layer' = [layer EXCEPT ![d] = NoLayer]
    BY <2>1, Numbers DEF Destroyed
  <2> QED
    BY <1>1, <1>2, <2>1, <2>2, NoLayerFacts
<1> QED
  BY <1>3, <1>4

LEMMA TakesOwn ==
    ASSUME IInv, NEW c \in Call, NEW op \in Op, Takes(c, op)
    PROVE  op # call[c].op => op = "cancel" /\ call[c].op = "frame"
<1>1. /\ commands # << >> /\ Head(commands) = [call |-> c, op |-> op]
  BY DEF Takes
<1>2. 1 \in 1..Len(commands) /\ Head(commands) = commands[1]
  BY <1>1, ChannelTypes, HeadTailProperties, LenProperties, EmptySeq DEF IInv
<1>3. commands[1].call = c /\ commands[1].op = op
  BY <1>1, <1>2
<1> QED
  BY <1>2, <1>3 DEF IInv, ChannelHolds, Own

LEMMA HandleClearKeeps ==
    ASSUME IInv, NEW c \in Call, HandleClear(c)
    PROVE  IInv'
<1>1. PICK o \in Output : o = call[c].output
  BY CallFacts DEF IInv, TypeOK
<1>2. call[c].op = "clear" /\ Takes(c, call[c].op)
  BY TakesOwn DEF HandleClear, Op
<1>3. PICK p \in Call \cup {Nobody}, w \in Call \cup {Nobody} : p = pending[o] /\ w = waiter[o]
  BY DEF IInv, TypeOK
<1>4. PICK r \in [Call -> Answer] :
          /\ Send(r)
          /\ \A b \in Call : \/ r[b] = "none"
                             \/ b = c /\ r[b] = "ok"
                             \/ b \in {p, w} /\ b # c /\ r[b] = "error"
                             \/ b = p /\ b # c /\ r[b] = "presented"
  <2> DEFINE X == IF p # Nobody /\ call[p].op = "present" THEN Reply(p, "presented") ELSE Nothing
  <2>1. PICK x : x = X
    OBVIOUS
  <2>2. x \in [Call -> Answer] /\ \A b \in Call : x[b] # "none" => b = p /\ x[b] = "presented"
    <3>1. CASE p # Nobody /\ call[p].op = "present"
      BY <2>1, <3>1, Replies DEF Answer
    <3>2. CASE ~(p # Nobody /\ call[p].op = "present")
      BY <2>1, <3>2, Replies
    <3> QED
      BY <3>1, <3>2
  <2>3. PICK y \in [Call -> Answer] :
            /\ y = Refuse({p, w})
            /\ \A b \in Call : y[b] = IF b \in {p, w} THEN "error" ELSE "none"
    BY RefuseFacts
  <2>4. PICK z : z = Also(x, y)
    OBVIOUS
  <2>5. z \in [Call -> Answer] /\ \A b \in Call : z[b] = IF x[b] = "none" THEN y[b] ELSE x[b]
    BY <2>2, <2>4 DEF Also
  <2>6. PICK k \in [Call -> Answer] :
            k = Reply(c, "ok") /\ \A b \in Call : k[b] = IF b = c THEN "ok" ELSE "none"
    BY Replies DEF Answer
  <2>7. PICK r : r = Also(k, z)
    OBVIOUS
  <2>8. r \in [Call -> Answer] /\ \A b \in Call : r[b] = IF k[b] = "none" THEN z[b] ELSE k[b]
    BY <2>5, <2>7 DEF Also
  <2>9. Send(r)
    BY <1>1, <1>3, <2>1, <2>3, <2>4, <2>6, <2>7 DEF HandleClear
  <2> QED
    BY <2>2, <2>3, <2>5, <2>6, <2>8, <2>9
<1>5. /\ Onward /\ Past(c)' /\ ~At(c, "new") /\ answered[c] = 0 /\ floor[o] < c
      /\ \A n \in Call : Past(n) => n < c
  BY <1>2, <1>4, TakenFacts
<1>6. /\ floor' = [floor EXCEPT ![o] = c] /\ floor'[o] = c /\ floor[o] <= c
  BY <1>1, <1>5, FloorFacts, Numbers DEF HandleClear, IInv, TypeOK
<1>7. \A b \in Call : r[b] # "none" => Fits(b, r[b]) /\ call[b].output = o
  <2>1. ASSUME NEW b \in Call, r[b] # "none"
        PROVE  Fits(b, r[b]) /\ call[b].output = o
    <3>1. CASE b = c
      <4>1. r[b] = "ok"
        BY <1>4, <2>1, <3>1
      <4> QED
        BY <1>1, <1>5, <1>6, <3>1, <4>1, Numbers DEF Fits, Past, At
    <3>2. CASE b # c
      <4>1. b \in {p, w} /\ b # Nobody /\ (r[b] = "error" \/ r[b] = "presented")
        BY <1>4, <2>1, <3>2, Numbers
      <4>2. call[b].output = o /\ Past(b) /\ answered[b] = 0
        BY <1>3, <4>1, PendingFacts, WaiterFacts
      <4>3. Past(b)'
        BY <1>5, <4>2, PastStays DEF IInv
      <4>4. At(b, "done")
        BY <1>5, <4>2 DEF IInv, Sequential
      <4> QED
        BY <4>1, <4>2, <4>3, <4>4 DEF Fits, At
    <3> QED
      BY <3>1, <3>2
  <2> QED
    BY <2>1
<1>8. /\ layer' \in [Call -> Layer]
      /\ \A id \in Call : IF call[id].output = o THEN layer'[id] = NoLayer
                                                ELSE layer'[id] = layer[id]
  BY <1>1, DestroyedFacts DEF HandleClear
<1>9. /\ surface' = [surface EXCEPT ![o] = NoSurface] /\ pending' = [pending EXCEPT ![o] = Nobody]
      /\ waiter' = [waiter EXCEPT ![o] = Nobody] /\ known' \subseteq Output
      /\ UNCHANGED <<running, plugged, changes, committed>> /\ Passes
  BY <1>1 DEF HandleClear, Passes, IInv, TypeOK
<1>10. \E n \in Call : /\ floor' = [floor EXCEPT ![o] = n] /\ floor[o] <= n
                       /\ Past(n)' /\ call[n].output = o
  BY <1>1, <1>5, <1>6 DEF Past, At
<1> QED
  BY <1>4, <1>5, <1>7, <1>8, <1>9, <1>10, LoseKeeps

LEMMA HandleCancelKeeps ==
    ASSUME IInv, NEW c \in Call, HandleCancel(c)
    PROVE  IInv'
<1>1. PICK o \in Output : o = call[c].output
  BY CallFacts DEF IInv, TypeOK
<1>2. Takes(c, "cancel")
  BY DEF HandleCancel
<1>3. PICK p \in Call \cup {Nobody}, w \in Call \cup {Nobody} : p = pending[o] /\ w = waiter[o]
  BY DEF IInv, TypeOK
<1>4. PICK r \in [Call -> Answer] :
          /\ Send(r)
          /\ \A b \in Call : \/ r[b] = "none"
                             \/ b = c /\ r[b] = "ok" /\ call[c].op = "cancel"
                             \/ b \in {p, w} /\ r[b] = "error"
  <2>1. PICK x : x = IF call[c].op = "cancel" THEN Reply(c, "ok") ELSE Nothing
    OBVIOUS
  <2>2. /\ x \in [Call -> Answer]
        /\ \A b \in Call : x[b] # "none" => b = c /\ x[b] = "ok" /\ call[c].op = "cancel"
    <3>1. CASE call[c].op = "cancel"
      BY <2>1, <3>1, Replies DEF Answer
    <3>2. CASE call[c].op # "cancel"
      BY <2>1, <3>2, Replies
    <3> QED
      BY <3>1, <3>2
  <2>3. PICK y \in [Call -> Answer] :
            /\ y = Refuse({p, w})
            /\ \A b \in Call : y[b] = IF b \in {p, w} THEN "error" ELSE "none"
    BY RefuseFacts
  <2>4. PICK r : r = Also(x, y)
    OBVIOUS
  <2>5. r \in [Call -> Answer] /\ \A b \in Call : r[b] = IF x[b] = "none" THEN y[b] ELSE x[b]
    BY <2>2, <2>4 DEF Also
  <2>6. Send(r)
    BY <1>1, <1>3, <2>1, <2>3, <2>4 DEF HandleCancel
  <2> QED
    BY <2>2, <2>3, <2>5, <2>6
<1>5. /\ Onward
      /\ call[c].op = "cancel" => Past(c)' /\ answered[c] = 0
  <2>1. call' \in [Call -> CallRecord] /\ \A b \in Call : Kept(b)
    BY <1>4, SendFacts DEF IInv
  <2>2. PICK op \in Op : op = "cancel"
    BY DEF Op
  <2>3. Takes(c, op)
    BY <1>2, <2>2
  <2>4. Onward
    BY <2>1, <2>3, Taken DEF IInv
  <2>5. call[c].op = "cancel" => Past(c)' /\ answered[c] = 0
    BY <1>2, <1>4, TakenFacts
  <2> QED
    BY <2>4, <2>5
<1>6. /\ pending' = [pending EXCEPT ![o] = Nobody] /\ waiter' = [waiter EXCEPT ![o] = Nobody]
      /\ pending'[o] = Nobody /\ waiter'[o] = Nobody
      /\ UNCHANGED <<running, known, surface, plugged, layer, changes, committed, floor>> /\ Passes
  BY <1>1 DEF HandleCancel, compositor, Passes, IInv, TypeOK
<1>7. \A b \in Call : r[b] # "none" =>
          Fits(b, r[b]) /\ call[b].output = o /\ b # pending'[o] /\ b # waiter'[o]
  <2>1. ASSUME NEW b \in Call, r[b] # "none"
        PROVE  Fits(b, r[b]) /\ call[b].output = o /\ b # Nobody
    <3>1. CASE b = c /\ r[b] = "ok" /\ call[c].op = "cancel"
      BY <1>1, <1>5, <3>1, Numbers DEF Fits, Past, At
    <3>2. CASE b \in {p, w} /\ r[b] = "error"
      <4>1. b # Nobody
        BY Numbers
      <4>2. call[b].output = o /\ Past(b) /\ answered[b] = 0
        BY <1>3, <3>2, <4>1, PendingFacts, WaiterFacts
      <4>3. Past(b)'
        BY <1>5, <4>2, PastStays DEF IInv
      <4> QED
        BY <3>2, <4>1, <4>2, <4>3 DEF Fits
    <3> QED
      BY <1>4, <2>1, <3>1, <3>2
  <2> QED
    BY <1>6, <2>1
<1> QED
  BY <1>4, <1>5, <1>6, <1>7, RepliesKeep

-----------------------------------------------------------------------------
\* The thread stops, or loses an output.

\* What is on the screen of an output.
LEMMA ShownFacts ==
    ASSUME IInv, NEW o \in Output
    PROVE  /\ Shown(o) \in Call \cup {Nobody}
           /\ Shown(o) # Nobody =>
                 /\ Shown(o) \in committed /\ call[Shown(o)].output = o /\ Past(Shown(o))
                 /\ Has(o) /\ surface[o].size # NoSize
<1>1. CASE LiveOn(o) = {}
  BY <1>1 DEF Shown
<1>2. CASE LiveOn(o) # {}
  <2>1. PICK id \in LiveOn(o) : Shown(o) = layer[id].frame
    BY <1>2 DEF Shown
  <2>2. id \in Call /\ call[id].output = o /\ layer[id] # NoLayer
    BY <2>1, NoLayerFacts DEF LiveOn
  <2>3. layer[id].frame \in Call \cup {Nobody}
    BY <2>2, LayerFacts DEF IInv, TypeOK
  <2>4. layer[id].frame # Nobody => /\ layer[id].frame \in committed
                                    /\ call[layer[id].frame].output = o
                                    /\ surface[o].size # NoSize /\ Has(o)
    BY <2>2, LayerFound
  <2>5. layer[id].frame \in committed => Past(layer[id].frame)
    BY DEF IInv, TypeOK, CallHolds
  <2> QED
    BY <2>1, <2>3, <2>4, <2>5
<1> QED
  BY <1>1, <1>2

LEMMA LargerFacts ==
    ASSUME NEW a \in Call \cup {Nobody}, NEW b \in Call \cup {Nobody}
    PROVE  /\ Larger(a, b) \in Call \cup {Nobody} /\ Larger(a, b) \in {a, b}
           /\ a <= Larger(a, b) /\ b <= Larger(a, b)
           /\ Larger(a, b) # a => Larger(a, b) = b /\ b # Nobody
<1>1. a \in Nat /\ b \in Nat
  BY Numbers
<1> QED
  BY <1>1, Numbers DEF Larger

LEMMA StopKeeps ==
    ASSUME IInv, Stop
    PROVE  IInv'
<1>1. TypeOK
  BY DEF IInv
<1>2. PICK r \in [Call -> Answer] :
          /\ Send(r)
          /\ \A b \in Call : r[b] # "none" =>
                /\ r[b] = "error"
                /\ \/ \E o \in Output : b = pending[o] \/ b = waiter[o]
                   \/ Waits(b)
  <2> DEFINE S == {pending[o] : o \in Output} \cup {waiter[o] : o \in Output}
                   \cup {c \in Call : \E i \in 1..Len(commands) :
                                          commands[i] = [call |-> c, op |-> call[c].op]}
  <2>0. PICK calls : calls = S
    OBVIOUS
  <2>1. PICK r \in [Call -> Answer] :
            /\ r = Refuse(calls)
            /\ \A b \in Call : r[b] = IF b \in calls THEN "error" ELSE "none"
    BY RefuseFacts
  <2>2. ASSUME NEW b \in S
        PROVE  (\E o \in Output : b = pending[o] \/ b = waiter[o]) \/ Waits(b)
    <3>1. CASE b \in Call /\ \E i \in 1..Len(commands) :
                                 commands[i] = [call |-> b, op |-> call[b].op]
      <4>1. PICK i \in 1..Len(commands) : commands[i] = [call |-> b, op |-> call[b].op]
        BY <3>1
      <4>2. commands[i].call = b /\ commands[i].op = call[b].op
        BY <4>1
      <4> QED
        BY <4>2 DEF Waits, Own
    <3> QED
      BY <2>2, <3>1
  <2>3. Send(r)
    BY <2>0, <2>1 DEF Stop
  <2> HIDE DEF S
  <2> QED
    BY <2>0, <2>1, <2>2, <2>3
<1>3. /\ call' \in [Call -> CallRecord] /\ \A c \in Call : Kept(c)
  BY <1>1, <1>2, SendFacts
<1>4. commands' = << >> /\ commands' \in Seq(Command) /\ Len(commands') = 0
  BY DEF Stop
<1>5. \A c \in Call : ~Waits(c)'
  BY <1>4 DEF Waits
<1>6. Onward
  <2>1. Sequential'
    BY <1>3, SequentialStays DEF IInv
  <2>2. ChannelHolds'
    BY <1>4 DEF ChannelHolds
  <2> QED
    BY <1>3, <1>4, <1>5, <2>1, <2>2 DEF Onward, Kept
<1>7. \A c \in Call : ~At(c, "new") => Past(c)'
  BY <1>3, <1>5 DEF Past, Kept
<1>8. \A b \in Call : r[b] # "none" => Fits(b, r[b])
  <2>1. ASSUME NEW b \in Call, r[b] # "none"
        PROVE  Fits(b, r[b])
    <3>1. answered[b] = 0 /\ ~At(b, "new")
      <4>1. CASE \E o \in Output : b = pending[o] \/ b = waiter[o]
        <5>1. PICK o \in Output : b = pending[o] \/ b = waiter[o]
          BY <4>1
        <5>2. b # Nobody
          BY Numbers
        <5> QED
          BY <5>1, <5>2, PendingFacts, WaiterFacts, NotPast
      <4>2. CASE Waits(b)
        BY <4>2 DEF Waits, IInv, ChannelHolds, CallHolds
      <4> QED
        BY <1>2, <2>1, <4>1, <4>2
    <3>2. Past(b)'
      BY <1>7, <3>1
    <3>3. r[b] = "error"
      BY <1>2, <2>1
    <3> QED
      BY <3>1, <3>2, <3>3 DEF Fits
  <2> QED
    BY <2>1
<1>9. /\ layer' \in [Call -> Layer] /\ \A c \in Call : layer'[c] = NoLayer
  BY NoLayerFacts DEF Stop
<1>10. \A c \in Call : LayerMoves(c)
  <2>1. ASSUME NEW c \in Call
        PROVE  LayerMoves(c)
    <3>1. layer[c] # NoLayer => ~At(c, "new")
      BY DEF IInv, CallHolds
    <3> QED
      BY <1>7, <1>9, <3>1, NoLayerFacts DEF LayerMoves
  <2> QED
    BY <2>1
<1>11. /\ floor' \in [Output -> Call \cup {Nobody}]
       /\ \A o \in Output : /\ floor[o] <= floor'[o]
                            /\ floor'[o] = floor[o]
                               \/ (floor'[o] \in Call /\ Past(floor'[o]) /\ call[floor'[o]].output = o)
  <2>1. ASSUME NEW o \in Output
        PROVE  LET n == Larger(floor[o], Shown(o)) IN
               /\ n \in Call \cup {Nobody} /\ floor[o] <= n
               /\ n = floor[o] \/ (n \in Call /\ Past(n) /\ call[n].output = o)
    BY <1>1, FloorFacts, ShownFacts, LargerFacts
  <2> QED
    BY <2>1 DEF Stop
<1>12. committed' = committed /\ committed \subseteq Call
  BY <1>1 DEF Stop, TypeOK
<1>13. Moves
  BY <1>2, <1>6, <1>8, <1>9, <1>10, <1>11, <1>12, HandlerMoves
<1>14. Typed' /\ AllHold'
  <2>1. /\ running' = FALSE /\ known' = known /\ plugged' = plugged /\ changes' = changes
        /\ surface' \in [Output -> Surface \cup {NoSurface}]
        /\ pending' \in [Output -> Call \cup {Nobody}]
        /\ waiter' \in [Output -> Call \cup {Nobody}]
    BY DEF Stop
  <2>2. events' \in Seq(Event) /\ Len(events') = 0
    BY DEF Stop
  <2>3. Typed'
    BY <1>1, <2>1, <2>2 DEF TypeOK, Typed
  <2> QED
    BY <2>2, <2>3 DEF AllHold
<1>15. ASSUME NEW o \in Output
       PROVE  OutputHolds(o)'
  <2>1. FloorHolds(o)'
    <3>1. CASE floor'[o] = floor[o]
      BY <1>13, <3>1, FloorStays
    <3>2. CASE floor'[o] # floor[o]
      <4>1. PICK n \in Call : n = floor'[o] /\ Past(n) /\ call[n].output = o
        BY <1>11, <3>2
      <4>2. Past(n)' /\ call'[n].output = o
        BY <1>3, <1>7, <4>1, NotPast DEF Kept
      <4> QED
        BY <4>1, <4>2 DEF FloorHolds, Past, At
    <3> QED
      BY <3>1, <3>2
  <2>2. SurfaceHolds(o)' /\ PendingHolds(o)' /\ WaiterHolds(o)'
    BY DEF Stop, SurfaceHolds, PendingHolds, WaiterHolds, Has
  <2>3. LayersHold(o)'
    BY <1>9 DEF LayersHold, LayerHolds
  <2> QED
    BY <2>1, <2>2, <2>3 DEF OutputHolds
<1> QED
  BY <1>13, <1>14, <1>15, StepKeeps

-----------------------------------------------------------------------------
\* The thread dispatches an event.

LEMMA EventFacts ==
    ASSUME NEW e \in Event
    PROVE  /\ e.kind = "configure" => e.id \in Call /\ e.size \in Size
           /\ e.kind \in {"closed", "done"} => e.id \in Call
           /\ e.kind = "release" => e.id \in Call /\ e.frame \in Call
           /\ e.kind \in {"added", "removed"} => e.output \in Output
BY DEF Event

LEMMA Dispatched ==
    ASSUME IInv, NEW e, Dispatches(e)
    PROVE  e \in Event /\ EventHolds(e) /\ Passes
<1>1. events \in Seq(Event) /\ events # << >> /\ e = Head(events) /\ events' = Tail(events)
  BY DEF IInv, TypeOK, Dispatches
<1>2. 1 \in 1..Len(events) /\ e = events[1]
  BY <1>1, HeadTailProperties, LenProperties, EmptySeq
<1>3. e \in Event
  BY <1>1, <1>2, ElementOfSeq
<1>4. EventHolds(e)
  BY <1>2 DEF IInv
<1> QED
  BY <1>1, <1>3, <1>4 DEF Passes

LEMMA Answering ==
    ASSUME IInv, NEW replies \in [Call -> Answer], Send(replies), commands' = commands
    PROVE  Onward
<1>1. call' \in [Call -> CallRecord] /\ \A b \in Call : Kept(b)
  BY SendFacts DEF IInv
<1>2. Sequential'
  BY <1>1, SequentialStays DEF IInv
<1> QED
  BY <1>1, <1>2, ChannelSame DEF IInv

LEMMA LosesFacts ==
    ASSUME IInv, NEW o \in Output, Loses(o), commands' = commands
    PROVE  /\ Onward
           /\ \E r \in [Call -> Answer] :
                 /\ Send(r)
                 /\ \A b \in Call : r[b] # "none" => Fits(b, r[b]) /\ call[b].output = o
<1>1. PICK S : S = {pending[o], waiter[o]}
  OBVIOUS
<1>2. PICK r \in [Call -> Answer] :
          r = Refuse(S) /\ \A b \in Call : r[b] = IF b \in S THEN "error" ELSE "none"
  BY RefuseFacts
<1>3. Send(r)
  BY <1>1, <1>2 DEF Loses
<1>4. Onward
  BY <1>3, Answering
<1>5. ASSUME NEW b \in Call, r[b] # "none"
      PROVE  Fits(b, r[b]) /\ call[b].output = o
  <2>1. r[b] = "error" /\ (b = pending[o] \/ b = waiter[o]) /\ b # Nobody
    BY <1>1, <1>2, <1>5, Numbers
  <2>2. call[b].output = o /\ Past(b) /\ answered[b] = 0
    BY <2>1, PendingFacts, WaiterFacts
  <2>3. Past(b)'
    BY <1>4, <2>2, PastStays DEF IInv
  <2> QED
    BY <2>1, <2>2, <2>3 DEF Fits
<1> QED
  BY <1>3, <1>4, <1>5

LEMMA HandleClosedKeeps ==
    ASSUME IInv, NEW e, HandleClosed(e)
    PROVE  IInv'
<1>1. e \in Event /\ EventHolds(e) /\ Passes /\ e.kind = "closed"
  BY Dispatched DEF HandleClosed
<1>2. PICK o \in Output : surface[o].id = e.id /\ Loses(o)
  BY DEF HandleClosed, Owner
<1>3. e.id \in Call /\ layer[e.id] = NoLayer
  BY <1>1, EventFacts DEF EventHolds
<1>4. /\ UNCHANGED <<commands, running, known, plugged, layer, changes, committed, floor>>
      /\ known' \subseteq Output
  BY DEF HandleClosed, IInv, TypeOK
<1>5. PICK r \in [Call -> Answer] :
          /\ Onward /\ Send(r)
          /\ \A b \in Call : r[b] # "none" => Fits(b, r[b]) /\ call[b].output = o
  BY <1>2, <1>4, LosesFacts
<1>6. ASSUME NEW id \in Call
      PROVE  IF call[id].output = o THEN layer'[id] = NoLayer ELSE layer'[id] = layer[id]
  BY <1>2, <1>3, <1>4, LayerFound
<1>7. layer' \in [Call -> Layer]
  BY <1>4 DEF IInv, TypeOK
<1>8. /\ surface' = [surface EXCEPT ![o] = NoSurface]
      /\ pending' = [pending EXCEPT ![o] = Nobody] /\ waiter' = [waiter EXCEPT ![o] = Nobody]
  BY <1>2 DEF Loses
<1> QED
  BY <1>1, <1>4, <1>5, <1>6, <1>7, <1>8, LoseKeeps

LEMMA HandleRemovedKeeps ==
    ASSUME IInv, NEW e, HandleRemoved(e)
    PROVE  IInv'
<1>1. e \in Event /\ Passes /\ e.kind = "removed"
  BY Dispatched DEF HandleRemoved
<1>2. PICK o \in Output : o = e.output
  BY <1>1, EventFacts
<1>3. /\ layer' = Destroyed(layer, surface[o].id) /\ Loses(o)
      /\ floor' = [floor EXCEPT ![o] = Larger(floor[o], Shown(o))]
      /\ UNCHANGED <<commands, running, plugged, changes, committed>>
      /\ known' = known \ {e.output}
  BY <1>2 DEF HandleRemoved
<1>4. known' \subseteq Output
  BY <1>3 DEF IInv, TypeOK
<1>5. PICK r \in [Call -> Answer] :
          /\ Onward /\ Send(r)
          /\ \A b \in Call : r[b] # "none" => Fits(b, r[b]) /\ call[b].output = o
  BY <1>3, LosesFacts
<1>6. /\ layer' \in [Call -> Layer]
      /\ \A id \in Call : IF call[id].output = o THEN layer'[id] = NoLayer
                                                ELSE layer'[id] = layer[id]
  BY <1>3, DestroyedFacts
<1>7. /\ surface' = [surface EXCEPT ![o] = NoSurface]
      /\ pending' = [pending EXCEPT ![o] = Nobody] /\ waiter' = [waiter EXCEPT ![o] = Nobody]
  BY <1>3 DEF Loses
<1>8. floor' = floor \/ \E n \in Call : /\ floor' = [floor EXCEPT ![o] = n] /\ floor[o] <= n
                                        /\ Past(n)' /\ call[n].output = o
  <2>1. PICK n \in Call \cup {Nobody} :
            /\ n = Larger(floor[o], Shown(o)) /\ floor[o] <= n
            /\ n # floor[o] => n = Shown(o) /\ n # Nobody
    <3>1. PICK a \in Call \cup {Nobody}, b \in Call \cup {Nobody} : a = floor[o] /\ b = Shown(o)
      BY FloorFacts, ShownFacts DEF IInv
    <3> QED
      BY <3>1, LargerFacts
  <2>2. CASE n = floor[o]
    BY <1>3, <2>1, <2>2 DEF IInv, TypeOK
  <2>3. CASE n # floor[o]
    <3>1. n \in Call /\ Past(n) /\ call[n].output = o
      BY <2>1, <2>3, ShownFacts
    <3>2. Past(n)'
      BY <1>5, <3>1, PastStays DEF IInv
    <3> QED
      BY <1>3, <2>1, <3>1, <3>2
  <2> QED
    BY <2>2, <2>3
<1> QED
  BY <1>1, <1>3, <1>4, <1>5, <1>6, <1>7, <1>8, LoseKeeps

LEMMA HandleDoneKeeps ==
    ASSUME IInv, NEW e, HandleDone(e)
    PROVE  IInv'
<1>1. Passes
  BY Dispatched DEF HandleDone
<1>2. PICK o \in Output :
          /\ Send(IF waiter[o] = Nobody THEN Nothing ELSE Reply(waiter[o], "presented"))
          /\ waiter' = [waiter EXCEPT ![o] = Nobody]
  BY DEF HandleDone, Owner
<1>3. UNCHANGED <<commands, running, known, surface, pending, plugged, layer, changes,
                  committed, floor>>
  BY DEF HandleDone
<1>4. PICK w \in Call \cup {Nobody} : w = waiter[o]
  BY DEF IInv, TypeOK
<1>5. PICK r \in [Call -> Answer] :
          /\ Send(r) /\ \A b \in Call : r[b] # "none" => b = w /\ r[b] = "presented"
  <2>1. CASE w = Nobody
    <3>1. Send(Nothing)
      BY <1>2, <1>4, <2>1
    <3> QED
      BY <3>1, Replies
  <2>2. CASE w # Nobody
    <3>1. Send(Reply(w, "presented"))
      BY <1>2, <1>4, <2>2
    <3> QED
      BY <2>2, <3>1, Replies DEF Answer
  <2> QED
    BY <2>1, <2>2
<1>6. Onward
  BY <1>3, <1>5, Answering
<1>7. waiter'[o] = Nobody
  BY <1>2 DEF IInv, TypeOK
<1>8. \A b \in Call : r[b] # "none" =>
          Fits(b, r[b]) /\ call[b].output = o /\ b # pending'[o] /\ b # waiter'[o]
  <2>1. ASSUME NEW b \in Call, r[b] # "none"
        PROVE  Fits(b, r[b]) /\ call[b].output = o /\ b # pending'[o] /\ b # waiter'[o]
    <3>1. b = waiter[o] /\ r[b] = "presented" /\ b # Nobody
      BY <1>4, <1>5, <2>1, Numbers
    <3>2. /\ b \in committed /\ call[b].output = o /\ Past(b) /\ answered[b] = 0
          /\ b # pending[o]
      BY <3>1, WaiterFacts
    <3>3. Past(b)'
      BY <1>6, <3>2, PastStays DEF IInv
    <3> QED
      BY <1>3, <1>7, <3>1, <3>2, <3>3 DEF Fits
  <2> QED
    BY <2>1
<1> QED
  BY <1>1, <1>2, <1>3, <1>5, <1>6, <1>8, RepliesKeep

LEMMA QuietKeeps ==
    ASSUME IInv, Quiet, known' \subseteq Output, Passes,
           UNCHANGED <<running, surface, pending, waiter, plugged, layer, changes, floor>>
    PROVE  IInv'
<1>1. TypeOK
  BY DEF IInv
<1>2. Moves
  <2>1. layer' \in [Call -> Layer] /\ \A c \in Call : LayerMoves(c)
    BY <1>1, LayersSame
  <2>2. /\ floor' \in [Output -> Call \cup {Nobody}]
        /\ \A q \in Output : floor[q] <= floor'[q]
    BY <1>1, FloorSame
  <2> QED
    BY <2>1, <2>2, QuietMoves
<1>3. events' \in Seq(Event) /\ AllHold'
  BY <1>2, EventsSame, EventsShrink DEF Passes
<1>4. Typed'
  BY <1>1, <1>3 DEF TypeOK, Typed
<1>5. \A q \in Output : Untouched(q)
  BY DEF Untouched, Quiet
<1> QED
  BY <1>2, <1>3, <1>4, <1>5, NoneKeeps

LEMMA HandleStrayKeeps ==
    ASSUME IInv, NEW e, HandleStray(e)
    PROVE  IInv'
<1>1. Passes
  BY Dispatched DEF HandleStray
<1>2. /\ Quiet /\ known' \subseteq Output
      /\ UNCHANGED <<running, surface, pending, waiter, plugged, layer, changes, floor>>
  BY DEF HandleStray, Quiet, callers, thread, history, IInv, TypeOK
<1> QED
  BY <1>1, <1>2, QuietKeeps

LEMMA HandleAddedKeeps ==
    ASSUME IInv, NEW e, HandleAdded(e)
    PROVE  IInv'
<1>1. Passes /\ e \in Event /\ e.kind = "added"
  BY Dispatched DEF HandleAdded
<1>2. known' = known \cup {e.output} /\ e.output \in Output
  BY <1>1, EventFacts DEF HandleAdded
<1>3. /\ Quiet /\ known' \subseteq Output
      /\ UNCHANGED <<running, surface, pending, waiter, plugged, layer, changes, floor>>
  BY <1>2 DEF HandleAdded, Quiet, callers, thread, history, IInv, TypeOK
<1> QED
  BY <1>1, <1>3, QuietKeeps

LEMMA HandleReleaseKeeps ==
    ASSUME IInv, NEW e, HandleRelease(e)
    PROVE  IInv'
<1>1. Passes /\ e \in Event /\ e.kind = "release" /\ EventHolds(e)
  BY Dispatched DEF HandleRelease
<1>2. e.id \in Call /\ e.frame \notin layer[e.id].using
  BY <1>1, EventFacts DEF EventHolds
<1>3. PICK o \in Output :
          /\ surface[o].id = e.id
          /\ surface' = [surface EXCEPT ![o].slots =
                 [i \in Slot |-> IF @[i].frame = e.frame THEN [@[i] EXCEPT !.busy = FALSE]
                                 ELSE @[i]]]
  BY DEF HandleRelease, Owner
<1>4. Has(o) /\ surface[o] \in Surface
  BY <1>2, <1>3, HasFacts, Numbers DEF IInv
<1>5. PICK s \in Surface : s = surface[o]
  BY <1>4
<1>6. PICK f : f = [i \in Slot |-> IF s.slots[i].frame = e.frame
                                   THEN [s.slots[i] EXCEPT !.busy = FALSE] ELSE s.slots[i]]
  OBVIOUS
<1>7. /\ f \in [Slot -> Buffer]
      /\ \A i \in Slot : \/ f[i] = s.slots[i]
                         \/ f[i].frame = s.slots[i].frame /\ s.slots[i].frame = e.frame
  <2>1. ASSUME NEW i \in Slot
        PROVE  /\ f[i] \in Buffer
               /\ \/ f[i] = s.slots[i]
                  \/ f[i].frame = s.slots[i].frame /\ s.slots[i].frame = e.frame
    <3>1. PICK b \in Buffer : b = s.slots[i]
      BY SurfaceFacts
    <3>2. PICK d : d = [b EXCEPT !.busy = FALSE]
      OBVIOUS
    <3>3. d \in Buffer /\ d.frame = b.frame
      BY <3>2 DEF Buffer
    <3>4. f[i] = IF b.frame = e.frame THEN d ELSE b
      BY <1>6, <3>1, <3>2
    <3> QED
      BY <3>1, <3>3, <3>4
  <2> QED
    BY <1>6, <2>1
<1>8. PICK t : t = [s EXCEPT !.slots = f]
  OBVIOUS
<1>9. /\ t \in Surface /\ t.id = s.id /\ t.size = s.size /\ t.pool = s.pool /\ t.slots = f
  BY <1>7, <1>8 DEF Surface
<1>10. surface' = [surface EXCEPT ![o] = t]
  BY <1>3, <1>5, <1>6, <1>8
<1>11. /\ Quiet /\ known' \subseteq Output
       /\ UNCHANGED <<running, pending, waiter, plugged, layer, changes, floor>>
  BY DEF HandleRelease, Quiet, callers, history, IInv, TypeOK
<1>12. \A i \in Slot :
          \/ t.slots[i] \in {surface[o].slots[i], NoBuffer}
          \/ /\ t.slots[i].frame = surface[o].slots[i].frame
             /\ t.slots[i].frame \notin layer[t.id].using
  BY <1>2, <1>3, <1>5, <1>7, <1>9
<1>13. t.id = surface[o].id /\ t.size = surface[o].size /\ t.pool = surface[o].pool
  BY <1>5, <1>9
<1> QED
  BY <1>1, <1>4, <1>9, <1>10, <1>11, <1>12, <1>13, SurfaceKeeps

LEMMA ResizedFacts ==
    ASSUME NEW s \in Surface, NEW size \in Size
    PROVE  /\ Resized(s, size) \in Surface /\ Resized(s, size).id = s.id
           /\ Resized(s, size).size = size /\ Resized(s, size).slots = NoBuffers
           /\ [Resized(s, size) EXCEPT !.pool = FALSE] \in Surface
           /\ [Resized(s, size) EXCEPT !.pool = FALSE].id = s.id
           /\ [Resized(s, size) EXCEPT !.pool = FALSE].size = size
           /\ [Resized(s, size) EXCEPT !.pool = FALSE].slots = NoBuffers
           /\ ~[Resized(s, size) EXCEPT !.pool = FALSE].pool
<1>1. PICK t : t = [s EXCEPT !.size = size, !.slots = NoBuffers, !.pool = TRUE]
  OBVIOUS
<1>2. t \in Surface /\ t.id = s.id /\ t.size = size /\ t.slots = NoBuffers
  BY <1>1, Slots DEF Surface
<1>3. PICK u : u = [t EXCEPT !.pool = FALSE]
  OBVIOUS
<1>4. u \in Surface /\ u.id = s.id /\ u.size = size /\ u.slots = NoBuffers /\ u.pool = FALSE
  BY <1>2, <1>3 DEF Surface
<1>5. Resized(s, size) = t /\ [Resized(s, size) EXCEPT !.pool = FALSE] = u
  BY <1>1, <1>3 DEF Resized
<1> QED
  BY <1>2, <1>4, <1>5

LEMMA HandleConfigureKeeps ==
    ASSUME IInv, NEW e, HandleConfigure(e)
    PROVE  IInv'
<1>1. Passes /\ e \in Event /\ e.kind = "configure"
  BY Dispatched DEF HandleConfigure
<1>2. e.id \in Call /\ e.size \in Size
  BY <1>1, EventFacts
<1>3. PICK size \in Size : size = e.size
  BY <1>2
<1>4. size # NoSize
  BY PresenterAssumption DEF PresenterAssumption
<1>5. PICK o \in Output :
          surface[o].id = e.id /\ (Configured(o, size) \/ NoPool(o, size))
  BY <1>3 DEF HandleConfigure, Owner
<1>6. UNCHANGED <<commands, running, known, plugged, changes, floor>>
  BY DEF HandleConfigure
<1>7. Has(o) /\ surface[o] \in Surface
  BY <1>2, <1>5, HasFacts, Numbers DEF IInv
<1>8. PICK s0 \in Surface : s0 = surface[o]
  BY <1>7
<1>9. known' \subseteq Output
  BY <1>6 DEF IInv, TypeOK
<1>10. \A i \in Slot : NoBuffers[i] = NoBuffer
  BY DEF NoBuffers
<1>11. PICK s \in Surface :
           /\ s = IF surface[o].size # size THEN Resized(surface[o], size) ELSE surface[o]
           /\ s.id = surface[o].id /\ s.size = size
           /\ \A i \in Slot : s.slots[i] \in {surface[o].slots[i], NoBuffer}
  <2>1. CASE s0.size # size
    <3>0. /\ Resized(s0, size) \in Surface /\ Resized(s0, size).id = s0.id
          /\ Resized(s0, size).size = size /\ Resized(s0, size).slots = NoBuffers
      BY ResizedFacts
    <3>1. PICK t \in Surface : /\ t = Resized(s0, size) /\ t.id = s0.id /\ t.size = size
                               /\ t.slots = NoBuffers
      BY <3>0
    <3>2. t = IF surface[o].size # size THEN Resized(surface[o], size) ELSE surface[o]
      BY <1>8, <2>1, <3>1
    <3>3. t.id = surface[o].id /\ \A i \in Slot : t.slots[i] \in {surface[o].slots[i], NoBuffer}
      BY <1>8, <1>10, <3>1
    <3> QED
      BY <3>1, <3>2, <3>3
  <2>2. CASE s0.size = size
    BY <1>8, <2>2
  <2> QED
    BY <2>1, <2>2
<1>12. CASE Configured(o, size) /\ pending[o] = Nobody
  <2>1. /\ surface' = [surface EXCEPT ![o] = s] /\ Send(Nothing)
        /\ UNCHANGED <<pending, waiter, layer, committed>>
    BY <1>11, <1>12 DEF Configured
  <2>2. Quiet
    BY <1>6, <2>1, SendNothing DEF Quiet, IInv
  <2>3. \A i \in Slot :
            \/ s.slots[i] \in {surface[o].slots[i], NoBuffer}
            \/ /\ s.slots[i].frame = surface[o].slots[i].frame
               /\ s.slots[i].frame \notin layer[s.id].using
    BY <1>11
  <2> QED
    BY <1>1, <1>4, <1>6, <1>7, <1>9, <1>11, <1>12, <2>1, <2>2, <2>3, SurfaceKeeps
<1>13. CASE Configured(o, size) /\ pending[o] # Nobody
  <2>1. PICK c \in Call : /\ c = pending[o] /\ c \notin committed /\ call[c].output = o
                          /\ Past(c) /\ answered[c] = 0 /\ call[c].op \in {"present", "frame"}
    BY <1>13, PendingFacts
  <2>2. pending' = [pending EXCEPT ![o] = Nobody] /\ pending'[o] = Nobody
    BY <1>13 DEF Configured, Unpark, IInv, TypeOK
  <2>3. PICK out \in Outcomes(o, c, s) : Finished(o, c, out) /\ Send(out.replies)
    BY <1>11, <1>13, <2>1 DEF Configured
  <2>4. waiter[o] \in Call \cup {Nobody} /\ waiter[o] # c
    BY <2>1, WaiterFacts, Numbers DEF IInv, TypeOK
  <2>5. Became(o, c, s, out)
    BY <2>4, OutcomeFacts
  <2>6. out.replies \in [Call -> Answer]
    BY <2>5 DEF Became
  <2>7. Onward
    BY <1>6, <2>3, <2>6, Answering
  <2>8. Past(c)'
    BY <2>1, <2>7, PastStays DEF IInv
  <2>9. events' = events \/ (events # << >> /\ events' = Tail(events))
    BY <1>1 DEF Passes
  <2> QED
    BY <1>4, <1>6, <1>7, <1>11, <2>1, <2>2, <2>3, <2>4, <2>5, <2>7, <2>8, <2>9, FinishKeeps
<1>14. CASE NoPool(o, size)
  <2>1. PICK t \in Surface : /\ t = [Resized(s0, size) EXCEPT !.pool = FALSE] /\ t.id = s0.id
                             /\ t.size = size /\ t.slots = NoBuffers /\ ~t.pool
    BY ResizedFacts
  <2>2. /\ surface' = [surface EXCEPT ![o] = t] /\ Send(Nothing)
        /\ UNCHANGED <<pending, waiter, layer, committed>>
    BY <1>8, <1>14, <2>1 DEF NoPool
  <2>3. Quiet
    BY <1>6, <2>2, SendNothing DEF Quiet, IInv
  <2>4. \A i \in Slot :
            \/ t.slots[i] \in {surface[o].slots[i], NoBuffer}
            \/ /\ t.slots[i].frame = surface[o].slots[i].frame
               /\ t.slots[i].frame \notin layer[t.id].using
    BY <1>10, <2>1
  <2>5. t.id = surface[o].id /\ t.size # NoSize
    BY <1>4, <1>8, <2>1
  <2> QED
    BY <1>1, <1>6, <1>7, <1>9, <2>1, <2>2, <2>3, <2>4, <2>5, SurfaceKeeps
<1> QED
  BY <1>5, <1>12, <1>13, <1>14

-----------------------------------------------------------------------------
\* The compositor's own actions.

LEMMA OneEvent ==
    ASSUME NEW e \in Event
    PROVE  << e >> \in Seq(Event) /\ \A i \in 1..Len(<< e >>) : << e >>[i] = e
<1>1. << e >> \in Seq(Event) /\ Len(<< e >>) = 1 /\ << e >>[1] = e
  OBVIOUS
<1> QED
  BY <1>1

\* A layer of ours changes, and shows and uses nothing it did not.
LEMMA LayerKeeps ==
    ASSUME IInv, NEW id \in Call, layer[id] # NoLayer, NEW l \in Layer,
           layer' = [layer EXCEPT ![id] = l], l.live, l.frame = layer[id].frame,
           l.using \subseteq layer[id].using,
           NEW more \in Seq(Event), events' = events \o more,
           \A i \in 1..Len(more) :
               /\ more[i].kind \in {"configure", "done", "release"}
               /\ more[i].kind = "release" =>
                      /\ more[i].id = id /\ more[i].frame \in committed
                      /\ more[i].frame \notin l.using,
           UNCHANGED <<callers, thread, plugged, changes, history>>
    PROVE  IInv'
<1>1. PICK o \in Output : o = call[id].output
  BY CallFacts DEF IInv, TypeOK
<1>2. TypeOK /\ Quiet /\ UNCHANGED <<plugged, changes, floor>> /\ UNCHANGED thread
  BY DEF IInv, Quiet, callers, history
<1>3. /\ layer' \in [Call -> Layer] /\ layer'[id] = l
      /\ \A b \in Call \ {id} : layer'[b] = layer[b]
  BY <1>2 DEF TypeOK
<1>4. /\ Past(id) /\ ~At(id, "new") /\ surface[o].id = id /\ plugged[o] # NoSize /\ floor[o] < id
      /\ layer[id].frame # Nobody => /\ layer[id].frame \in committed
                                     /\ call[layer[id].frame].output = o
                                     /\ surface[o].size # NoSize
      /\ layer[id].using \subseteq committed
      /\ \A i \in Slot :
            surface[o].slots[i].frame \in layer[id].using => surface[o].slots[i].busy
  BY <1>1, LayerFound
<1>5. Onward
  <2>1. call' \in [Call -> CallRecord] /\ \A b \in Call : Kept(b)
    BY <1>2 DEF Quiet, TypeOK, Kept, At
  <2>2. Sequential'
    BY <2>1, SequentialStays DEF IInv
  <2> QED
    BY <1>2, <2>1, <2>2, ChannelSame DEF IInv, Quiet
<1>6. Moves
  <2>1. LayerMoves(id)
    <3>1. Past(id)'
      BY <1>4, <1>5, PastStays DEF IInv
    <3> QED
      BY <1>3, <3>1 DEF LayerMoves, Past, At
  <2>2. \A b \in Call : LayerMoves(b)
    BY <1>3, <2>1 DEF LayerMoves
  <2>3. /\ floor' \in [Output -> Call \cup {Nobody}]
        /\ \A q \in Output : floor[q] <= floor'[q]
    BY <1>2, FloorSame
  <2> QED
    BY <1>2, <1>3, <2>2, <2>3, QuietMoves
<1>7. events' \in Seq(Event) /\ AllHold'
  <2>1. ASSUME NEW e \in Event, \E i \in 1..Len(more) : e = more[i]
        PROVE  EventHolds(e)'
    <3>1. PICK i \in 1..Len(more) : e = more[i]
      BY <2>1
    <3>2. /\ e.kind # "closed"
          /\ e.kind = "release" => e.id = id /\ e.frame \in committed /\ e.frame \notin l.using
      BY <3>1
    <3> QED
      BY <1>2, <1>3, <3>2 DEF EventHolds, Quiet
  <2> QED
    BY <1>6, <2>1, EventsGrow
<1>8. ASSUME NEW b \in Call, call[b].output = o, ~At(b, "new")
      PROVE  LayerHolds(o, b)'
  <2>1. surface' = surface
    BY <1>2 DEF thread
  <2>2. CASE b = id
    <3>1. l.using \subseteq committed
      BY <1>4
    <3> QED
      BY <1>2, <1>3, <1>4, <2>1, <2>2, <3>1 DEF LayerHolds, Quiet
  <2>3. CASE b # id
    <3>1. layer[b] = NoLayer
      BY <1>4, <1>8, <2>3, LayerFound
    <3> QED
      BY <1>3, <2>3, <3>1 DEF LayerHolds
  <2> QED
    BY <2>2, <2>3
<1>9. \A b \in Call : call[b].output # o => layer'[b] = layer[b]
  BY <1>1, <1>3
<1>10. plugged' \in [Output -> Size \cup {NoSize}] /\ changes' \in 0..MaxChanges
  BY <1>2 DEF TypeOK
<1> QED
  BY <1>2, <1>6, <1>7, <1>8, <1>9, <1>10, CompositorKeeps

LEMMA ConfigureKeeps ==
    ASSUME IInv, NEW id \in Call, Configure(id)
    PROVE  IInv'
<1>1. /\ layer[id] \in Layer /\ layer[id] # NoLayer /\ layer[id].live
      /\ layer' = [layer EXCEPT ![id].sent = TRUE]
      /\ UNCHANGED <<callers, thread, plugged, changes, history>>
  BY NoLayerFacts DEF Configure, IInv, TypeOK
<1>2. PICK k \in Layer : k = layer[id]
  BY <1>1
<1>3. PICK l : l = [k EXCEPT !.sent = TRUE]
  OBVIOUS
<1>4. l \in Layer /\ l.live = k.live /\ l.frame = k.frame /\ l.using = k.using
  BY <1>3 DEF Layer
<1>5. layer' = [layer EXCEPT ![id] = l]
  BY <1>1, <1>2, <1>3
<1>6. PICK o \in Output : o = call[id].output
  BY CallFacts DEF IInv, TypeOK
<1>7. plugged[o] \in Size
  <2>1. plugged[o] # NoSize
    BY <1>1, <1>6, LayerFound
  <2> QED
    BY <2>1 DEF IInv, TypeOK
<1>8. PICK e \in Event : /\ e = [kind |-> "configure", id |-> id, size |-> plugged[o]]
                         /\ e.kind = "configure"
  <2>1. PICK size \in Size : size = plugged[o]
    BY <1>7
  <2>2. [kind |-> "configure", id |-> id, size |-> size] \in Event
    BY DEF Event
  <2> QED
    BY <2>1, <2>2
<1>9. PICK more \in Seq(Event) : more = << e >> /\ \A i \in 1..Len(more) : more[i] = e
  BY OneEvent
<1>10. events' = events \o more
  BY <1>6, <1>8, <1>9, AppendIsConcat DEF Configure, IInv, TypeOK
<1>11. \A i \in 1..Len(more) :
           /\ more[i].kind \in {"configure", "done", "release"}
           /\ more[i].kind = "release" =>
                  /\ more[i].id = id /\ more[i].frame \in committed
                  /\ more[i].frame \notin l.using
  BY <1>8, <1>9
<1> QED
  BY <1>1, <1>2, <1>4, <1>5, <1>10, <1>11, LayerKeeps

LEMMA RepaintKeeps ==
    ASSUME IInv, NEW id \in Call, Repaint(id)
    PROVE  IInv'
<1>1. /\ layer[id] \in Layer /\ layer[id] # NoLayer /\ layer[id].live
      /\ layer' = [layer EXCEPT ![id].callbacks = 0]
      /\ UNCHANGED <<callers, thread, plugged, changes, history>>
  BY NoLayerFacts DEF Repaint, IInv, TypeOK
<1>2. PICK k \in Layer : k = layer[id]
  BY <1>1
<1>3. PICK l : l = [k EXCEPT !.callbacks = 0]
  OBVIOUS
<1>4. l \in Layer /\ l.live = k.live /\ l.frame = k.frame /\ l.using = k.using
  BY <1>3 DEF Layer
<1>5. layer' = [layer EXCEPT ![id] = l]
  BY <1>1, <1>2, <1>3
<1>6. PICK n \in Nat : n = layer[id].callbacks
  BY <1>1, LayerFacts
<1>7. [kind |-> "done", id |-> id] \in Event
  BY DEF Event
<1>8. PICK e \in Event : e = [kind |-> "done", id |-> id] /\ e.kind = "done"
  BY <1>7
<1>9. PICK more : more = [i \in 1..n |-> e]
  OBVIOUS
<1>10. more \in Seq(Event) /\ Len(more) = n /\ \A i \in 1..Len(more) : more[i] = e
  BY <1>9
<1>11. events' = events \o more
  BY <1>6, <1>8, <1>9 DEF Repaint
<1>12. \A i \in 1..Len(more) :
           /\ more[i].kind \in {"configure", "done", "release"}
           /\ more[i].kind = "release" =>
                  /\ more[i].id = id /\ more[i].frame \in committed
                  /\ more[i].frame \notin l.using
  BY <1>8, <1>10
<1> QED
  BY <1>1, <1>2, <1>4, <1>5, <1>10, <1>11, <1>12, LayerKeeps

LEMMA ReleaseKeeps ==
    ASSUME IInv, NEW id \in Call, Release(id)
    PROVE  IInv'
<1>1. PICK frame \in layer[id].using \ {layer[id].frame} :
          /\ layer' = [layer EXCEPT ![id].using = @ \ {frame}]
          /\ events' = Append(events, [kind |-> "release", id |-> id, frame |-> frame])
  BY DEF Release
<1>2. /\ layer[id] \in Layer /\ layer[id] # NoLayer
      /\ UNCHANGED <<callers, thread, plugged, changes, history>>
  BY <1>1, NoLayerFacts DEF Release, IInv, TypeOK
<1>3. PICK o \in Output : o = call[id].output
  BY CallFacts DEF IInv, TypeOK
<1>4. layer[id].live /\ layer[id].using \subseteq committed /\ frame \in committed
  BY <1>1, <1>2, <1>3, LayerFound
<1>5. frame \in Call
  BY <1>4 DEF IInv, TypeOK
<1>6. PICK k \in Layer : k = layer[id]
  BY <1>2
<1>7. PICK l : l = [k EXCEPT !.using = k.using \ {frame}]
  OBVIOUS
<1>8. l \in Layer /\ l.live = k.live /\ l.frame = k.frame /\ l.using = k.using \ {frame}
  BY <1>7 DEF Layer
<1>9. layer' = [layer EXCEPT ![id] = l]
  BY <1>1, <1>6, <1>7
<1>10. [kind |-> "release", id |-> id, frame |-> frame] \in Event
  BY <1>5 DEF Event
<1>11. PICK e \in Event : /\ e = [kind |-> "release", id |-> id, frame |-> frame]
                          /\ e.kind = "release" /\ e.id = id /\ e.frame = frame
  BY <1>10
<1>12. PICK more \in Seq(Event) : more = << e >> /\ \A i \in 1..Len(more) : more[i] = e
  BY OneEvent
<1>13. events' = events \o more
  BY <1>1, <1>11, <1>12, AppendIsConcat DEF IInv, TypeOK
<1>14. \A i \in 1..Len(more) :
           /\ more[i].kind \in {"configure", "done", "release"}
           /\ more[i].kind = "release" =>
                  /\ more[i].id = id /\ more[i].frame \in committed
                  /\ more[i].frame \notin l.using
  BY <1>4, <1>8, <1>11, <1>12
<1> QED
  BY <1>2, <1>4, <1>6, <1>8, <1>9, <1>13, <1>14, LayerKeeps

\* An output gets a size, and keeps our layers.
LEMMA PlugKeeps ==
    ASSUME IInv, NEW o \in Output, NEW size \in Size, plugged' = [plugged EXCEPT ![o] = size],
           Change, NEW more \in Seq(Event), events' = events \o more,
           \A i \in 1..Len(more) : more[i].kind \in {"configure", "added"},
           UNCHANGED <<callers, thread, layer, history>>
    PROVE  IInv'
<1>1. TypeOK /\ Quiet /\ UNCHANGED <<layer, floor>> /\ UNCHANGED thread
  BY DEF IInv, Quiet, callers, history
<1>2. Moves
  <2>1. layer' \in [Call -> Layer] /\ \A c \in Call : LayerMoves(c)
    BY <1>1, LayersSame
  <2>2. /\ floor' \in [Output -> Call \cup {Nobody}]
        /\ \A q \in Output : floor[q] <= floor'[q]
    BY <1>1, FloorSame
  <2> QED
    BY <1>1, <2>1, <2>2, QuietMoves
<1>3. events' \in Seq(Event) /\ AllHold'
  <2>1. ASSUME NEW e \in Event, \E i \in 1..Len(more) : e = more[i]
        PROVE  EventHolds(e)'
    <3>1. e.kind # "closed" /\ e.kind # "release"
      BY <2>1
    <3> QED
      BY <3>1 DEF EventHolds
  <2> QED
    BY <1>2, <2>1, EventsGrow
<1>4. /\ plugged' \in [Output -> Size \cup {NoSize}] /\ plugged'[o] = size /\ size # NoSize
      /\ \A q \in Output \ {o} : plugged'[q] = plugged[q]
  BY <1>1, PresenterAssumption DEF TypeOK, PresenterAssumption
<1>5. changes' \in 0..MaxChanges
  BY <1>1, PresenterAssumption DEF TypeOK, Change, PresenterAssumption
<1>6. ASSUME NEW id \in Call, call[id].output = o, ~At(id, "new")
      PROVE  LayerHolds(o, id)'
  BY <1>1, <1>2, <1>4, <1>6, LayerStays DEF thread
<1> QED
  BY <1>1, <1>2, <1>3, <1>4, <1>5, <1>6, CompositorKeeps

LEMMA ResizeKeeps ==
    ASSUME IInv, NEW o \in Output, Resize(o)
    PROVE  IInv'
<1>1. PICK size \in Size :
          /\ plugged' = [plugged EXCEPT ![o] = size]
          /\ events' = events \o
                 IF \E id \in LiveOn(o) : layer[id].sent
                 THEN <<[kind |-> "configure", id |-> CHOOSE id \in LiveOn(o) : TRUE, size |-> size]>>
                 ELSE << >>
  BY DEF Resize
<1>2. Change /\ UNCHANGED <<callers, thread, layer, history>>
  BY DEF Resize
<1>3. CASE \E id \in LiveOn(o) : layer[id].sent
  <2>1. PICK d \in LiveOn(o) : d = CHOOSE id \in LiveOn(o) : TRUE
    BY <1>3
  <2>2. d \in Call
    BY DEF LiveOn
  <2>3. [kind |-> "configure", id |-> d, size |-> size] \in Event
    BY <2>2 DEF Event
  <2>4. PICK e \in Event : e = [kind |-> "configure", id |-> d, size |-> size] /\ e.kind = "configure"
    BY <2>3
  <2>5. PICK more \in Seq(Event) : more = << e >> /\ \A i \in 1..Len(more) : more[i] = e
    BY OneEvent
  <2>6. events' = events \o more
    BY <1>1, <1>3, <2>1, <2>4, <2>5
  <2>7. \A i \in 1..Len(more) : more[i].kind \in {"configure", "added"}
    BY <2>4, <2>5
  <2> QED
    BY <1>1, <1>2, <2>6, <2>7, PlugKeeps
<1>4. CASE ~(\E id \in LiveOn(o) : layer[id].sent)
  <2>1. PICK more : more = << >>
    OBVIOUS
  <2>2. more \in Seq(Event) /\ Len(more) = 0
    BY <2>1
  <2>3. events' = events \o more
    BY <1>1, <1>4, <2>1
  <2>4. \A i \in 1..Len(more) : more[i].kind \in {"configure", "added"}
    BY <2>2
  <2> QED
    BY <1>1, <1>2, <2>2, <2>3, <2>4, PlugKeeps
<1> QED
  BY <1>3, <1>4

LEMMA PlugInKeeps ==
    ASSUME IInv, NEW o \in Output, Plug(o)
    PROVE  IInv'
<1>1. PICK size \in Size : plugged' = [plugged EXCEPT ![o] = size]
  BY DEF Plug
<1>2. Change /\ UNCHANGED <<callers, thread, layer, history>>
  BY DEF Plug
<1>3. [kind |-> "added", output |-> o] \in Event
  BY DEF Event
<1>4. PICK e \in Event : e = [kind |-> "added", output |-> o] /\ e.kind = "added"
  BY <1>3
<1>5. PICK more \in Seq(Event) : more = << e >> /\ \A i \in 1..Len(more) : more[i] = e
  BY OneEvent
<1>6. events' = events \o more
  BY <1>4, <1>5, AppendIsConcat DEF Plug, IInv, TypeOK
<1>7. \A i \in 1..Len(more) : more[i].kind \in {"configure", "added"}
  BY <1>4, <1>5
<1> QED
  BY <1>1, <1>2, <1>6, <1>7, PlugKeeps

\* Our layers of an output are closed, by the compositor or with the output.
LEMMA ClosesKeeps ==
    ASSUME IInv, NEW o \in Output, Closes(o), Change,
           plugged' = plugged \/ plugged' = [plugged EXCEPT ![o] = NoSize],
           NEW more \in Seq(Event), events' = events \o more,
           \A i \in 1..Len(more) : more[i].kind = "removed"
                                   \/ (more[i].kind = "closed" /\ more[i].id \in LiveOn(o)),
           UNCHANGED <<callers, thread, committed, answered>>
    PROVE  IInv'
<1>1. TypeOK /\ Quiet /\ UNCHANGED thread
  BY DEF IInv, Quiet, callers
<1>2. /\ layer' \in [Call -> Layer]
      /\ \A id \in Call : IF call[id].output = o THEN layer'[id] = NoLayer
                                                ELSE layer'[id] = layer[id]
  <2>1. layer' = [id \in Call |-> IF id \in LiveOn(o) THEN NoLayer ELSE layer[id]]
    BY DEF Closes
  <2>2. \A id \in Call : call[id].output = o => layer[id] = NoLayer \/ id \in LiveOn(o)
    BY LayerFound DEF LiveOn
  <2>3. \A id \in LiveOn(o) : call[id].output = o
    BY DEF LiveOn
  <2> QED
    BY <1>1, <2>1, <2>2, <2>3, NoLayerFacts DEF TypeOK
<1>3. Onward
  <2>1. call' \in [Call -> CallRecord] /\ \A b \in Call : Kept(b)
    BY <1>1 DEF Quiet, TypeOK, Kept, At
  <2>2. Sequential'
    BY <2>1, SequentialStays DEF IInv
  <2> QED
    BY <1>1, <2>1, <2>2, ChannelSame DEF IInv, Quiet
<1>4. \A c \in Call : LayerMoves(c)
  <2>1. ASSUME NEW c \in Call
        PROVE  LayerMoves(c)
    <3>1. CASE layer'[c] = layer[c]
      BY <3>1 DEF LayerMoves
    <3>2. CASE layer'[c] # layer[c]
      <4>1. layer'[c] = NoLayer /\ layer[c] # NoLayer /\ call[c].output = o
        BY <1>2, <3>2
      <4>2. Past(c)'
        BY <1>3, <4>1, LayerFound, PastStays DEF IInv
      <4> QED
        BY <4>1, <4>2, NoLayerFacts DEF LayerMoves
    <3> QED
      BY <3>1, <3>2
  <2> QED
    BY <2>1
<1>5. PICK n \in Call \cup {Nobody} :
          /\ n = Larger(floor[o], Shown(o)) /\ floor[o] <= n
          /\ n # floor[o] => n = Shown(o) /\ n # Nobody
  <2>1. PICK a \in Call \cup {Nobody}, b \in Call \cup {Nobody} : a = floor[o] /\ b = Shown(o)
    BY <1>1, FloorFacts, ShownFacts
  <2> QED
    BY <2>1, LargerFacts
<1>6. /\ floor' = [floor EXCEPT ![o] = n] /\ floor' \in [Output -> Call \cup {Nobody}]
      /\ floor'[o] = n /\ \A q \in Output : floor[q] <= floor'[q]
      /\ \A q \in Output \ {o} : floor'[q] = floor[q]
  <2>1. floor' = [floor EXCEPT ![o] = n]
    BY <1>5 DEF Closes
  <2> QED
    BY <1>1, <1>5, <2>1, FloorRises
<1>7. Moves
  BY <1>1, <1>2, <1>4, <1>6, QuietMoves
<1>8. events' \in Seq(Event) /\ AllHold'
  <2>1. ASSUME NEW e \in Event, \E i \in 1..Len(more) : e = more[i]
        PROVE  EventHolds(e)'
    <3>1. e.kind = "removed" \/ (e.kind = "closed" /\ e.id \in LiveOn(o))
      BY <2>1
    <3>2. CASE e.kind = "removed"
      BY <3>2 DEF EventHolds
    <3>3. CASE e.kind = "closed" /\ e.id \in LiveOn(o)
      <4>1. PICK d \in Call : d = e.id /\ layer[d].live /\ call[d].output = o
        BY <3>3 DEF LiveOn
      <4>2. Past(d)' /\ layer'[d] = NoLayer
        BY <1>2, <1>3, <4>1, NoLayerFacts, LayerFound, PastStays DEF IInv
      <4> QED
        BY <3>3, <4>1, <4>2 DEF EventHolds, Past, At
    <3> QED
      BY <3>1, <3>2, <3>3
  <2> QED
    BY <1>7, <2>1, EventsGrow
<1>9. floor'[o] = floor[o]
      \/ /\ Past(floor[o])' /\ call[floor'[o]].output = o
         /\ ~(Has(o) /\ surface[o].pool /\ pending[o] # Nobody)
  <2>1. CASE n = floor[o]
    BY <1>6, <2>1
  <2>2. CASE n # floor[o]
    <3>1. /\ n \in Call /\ Past(n) /\ call[n].output = o /\ surface[o].size # NoSize
      BY <1>5, <2>2, ShownFacts
    <3>2. Past(n)'
      BY <1>3, <3>1, PastStays DEF IInv
    <3>3. ~(Has(o) /\ surface[o].pool /\ pending[o] # Nobody)
      BY <3>1, PendingFacts
    <3> QED
      BY <1>6, <3>1, <3>2, <3>3 DEF Past, At
  <2> QED
    BY <2>1, <2>2
<1>10. /\ plugged' \in [Output -> Size \cup {NoSize}] /\ changes' \in 0..MaxChanges
       /\ \A q \in Output \ {o} : plugged'[q] = plugged[q]
  <2>1. changes' \in 0..MaxChanges
    BY <1>1, PresenterAssumption DEF TypeOK, Change, PresenterAssumption
  <2>2. CASE plugged' = plugged
    BY <1>1, <2>1, <2>2 DEF TypeOK
  <2>3. CASE plugged' = [plugged EXCEPT ![o] = NoSize]
    BY <1>1, <2>1, <2>3 DEF TypeOK
  <2> QED
    BY <2>2, <2>3
<1>11. \A id \in Call : call[id].output = o => LayerHolds(o, id)'
  BY <1>2 DEF LayerHolds
<1> QED
  BY <1>1, <1>2, <1>6, <1>7, <1>8, <1>9, <1>10, <1>11, CompositorKeeps

LEMMA ClosedEventsFacts ==
    ASSUME IInv, NEW o \in Output
    PROVE  /\ ClosedEvents(o) \in Seq(Event)
           /\ \A i \in 1..Len(ClosedEvents(o)) :
                 ClosedEvents(o)[i].kind = "closed" /\ ClosedEvents(o)[i].id \in LiveOn(o)
<1>1. CASE LiveOn(o) = {}
  <2>1. PICK more : more = << >>
    OBVIOUS
  <2>2. more \in Seq(Event) /\ Len(more) = 0
    BY <2>1
  <2>3. ClosedEvents(o) = more
    BY <1>1, <2>1 DEF ClosedEvents
  <2> QED
    BY <2>2, <2>3
<1>2. CASE LiveOn(o) # {}
  <2>1. PICK d \in LiveOn(o) : d = CHOOSE id \in LiveOn(o) : TRUE
    BY <1>2
  <2>2. d \in Call
    BY DEF LiveOn
  <2>3. [kind |-> "closed", id |-> d] \in Event
    BY <2>2 DEF Event
  <2>4. PICK e \in Event : e = [kind |-> "closed", id |-> d] /\ e.kind = "closed" /\ e.id = d
    BY <2>3
  <2>5. PICK more \in Seq(Event) : more = << e >> /\ \A i \in 1..Len(more) : more[i] = e
    BY OneEvent
  <2>6. ClosedEvents(o) = more
    BY <1>2, <2>1, <2>4, <2>5 DEF ClosedEvents
  <2> QED
    BY <2>4, <2>5, <2>6
<1> QED
  BY <1>1, <1>2

LEMMA CloseKeeps ==
    ASSUME IInv, NEW o \in Output, Close(o)
    PROVE  IInv'
<1>1. PICK more \in Seq(Event) :
          /\ more = ClosedEvents(o)
          /\ \A i \in 1..Len(more) : more[i].kind = "closed" /\ more[i].id \in LiveOn(o)
  BY ClosedEventsFacts
<1>2. /\ Closes(o) /\ Change /\ plugged' = plugged /\ events' = events \o more
      /\ UNCHANGED <<callers, thread, committed, answered>>
  BY <1>1 DEF Close
<1> QED
  BY <1>1, <1>2, ClosesKeeps

LEMMA UnplugKeeps ==
    ASSUME IInv, NEW o \in Output, Unplug(o)
    PROVE  IInv'
<1>1. PICK first \in Seq(Event) :
          /\ first = ClosedEvents(o)
          /\ \A i \in 1..Len(first) : first[i].kind = "closed" /\ first[i].id \in LiveOn(o)
  BY ClosedEventsFacts
<1>2. [kind |-> "removed", output |-> o] \in Event
  BY DEF Event
<1>3. PICK e \in Event : e = [kind |-> "removed", output |-> o] /\ e.kind = "removed"
  BY <1>2
<1>4. PICK last \in Seq(Event) :
          last = << e >> /\ Len(last) \in Nat /\ \A i \in 1..Len(last) : last[i] = e
  BY OneEvent, LenProperties
<1>5. PICK more : more = first \o last
  OBVIOUS
<1>6. /\ more \in Seq(Event) /\ Len(more) = Len(first) + Len(last) /\ Len(first) \in Nat
      /\ \A i \in 1..Len(more) : more[i] = IF i <= Len(first) THEN first[i] ELSE last[i - Len(first)]
  BY <1>5, ConcatProperties, LenProperties
<1>7. ASSUME NEW i \in 1..Len(more)
      PROVE  more[i].kind = "removed" \/ (more[i].kind = "closed" /\ more[i].id \in LiveOn(o))
  <2>1. CASE i <= Len(first)
    <3>1. i \in 1..Len(first) /\ more[i] = first[i]
      BY <1>6, <2>1
    <3> QED
      BY <1>1, <3>1
  <2>2. CASE ~(i <= Len(first))
    <3>1. i - Len(first) \in 1..Len(last) /\ more[i] = last[i - Len(first)]
      BY <1>4, <1>6, <2>2
    <3> QED
      BY <1>3, <1>4, <3>1
  <2> QED
    BY <2>1, <2>2
<1>8. events' = events \o more
  <2>1. events \in Seq(Event) /\ events' = (events \o first) \o last
    BY <1>1, <1>3, <1>4 DEF Unplug, IInv, TypeOK
  <2> QED
    BY <1>5, <2>1, ConcatAssociative
<1>9. /\ Closes(o) /\ Change /\ plugged' = [plugged EXCEPT ![o] = NoSize]
      /\ UNCHANGED <<callers, thread, committed, answered>>
  BY DEF Unplug
<1> QED
  BY <1>6, <1>7, <1>8, <1>9, ClosesKeeps

-----------------------------------------------------------------------------
\* The invariant holds.

LEMMA InitIInv == Init => IInv
<1> SUFFICES ASSUME Init PROVE IInv
  OBVIOUS
<1>1. /\ \A c \in Call : /\ call[c] = NewCall /\ At(c, "new") /\ layer[c] = NoLayer
                         /\ answered[c] = 0 /\ call[c].answer = "none" /\ call[c].op = "cancel"
      /\ \A o \in Output : /\ surface[o] = NoSurface /\ pending[o] = Nobody
                           /\ waiter[o] = Nobody /\ floor[o] = Nobody /\ ~Has(o)
  BY NewCallFacts, Numbers DEF Init, At, Has
<1>2. /\ committed = {} /\ commands = << >> /\ events = << >>
      /\ Len(commands) = 0 /\ Len(events) = 0
  BY DEF Init
<1>3. TypeOK
  <2>1. call \in [Call -> CallRecord]
    BY NewCallFacts DEF Init
  <2>2. commands \in Seq(Command) /\ events \in Seq(Event)
    BY <1>2
  <2>3. running \in BOOLEAN /\ known \subseteq Output /\ changes \in 0..MaxChanges
    BY PresenterAssumption DEF Init, PresenterAssumption
  <2>4. /\ surface \in [Output -> Surface \cup {NoSurface}]
        /\ pending \in [Output -> Call \cup {Nobody}]
        /\ waiter \in [Output -> Call \cup {Nobody}]
        /\ floor \in [Output -> Call \cup {Nobody}]
    BY Numbers DEF Init
  <2>5. plugged \in [Output -> Size \cup {NoSize}]
    <3>1. FirstSize \in Size
      BY PresenterAssumption DEF FirstSize, PresenterAssumption
    <3> QED
      BY <3>1 DEF Init
  <2>6. layer \in [Call -> Layer] /\ answered \in [Call -> Nat] /\ committed \subseteq Call
    BY <1>2, NoLayerFacts DEF Init
  <2>7. \A o \in Output : LiveOn(o) = {}
    BY <1>1, NoLayerFacts DEF LiveOn
  <2> QED
    BY <2>1, <2>2, <2>3, <2>4, <2>5, <2>6, <2>7 DEF TypeOK, Command
<1>4. Sequential
  BY <1>1 DEF Sequential
<1>5. ChannelHolds
  BY <1>2 DEF ChannelHolds
<1>6. \A c \in Call : CallHolds(c)
  BY <1>1, <1>2 DEF CallHolds
<1>7. \A o \in Output : OutputHolds(o)
  BY <1>1 DEF OutputHolds, FloorHolds, SurfaceHolds, PendingHolds, WaiterHolds, LayersHold
<1>8. \A i \in 1..Len(events) : EventHolds(events[i])
  BY <1>2
<1> QED
  BY <1>3, <1>4, <1>5, <1>6, <1>7, <1>8 DEF IInv

LEMMA NextIInv == IInv /\ [Next]_vars => IInv'
<1> SUFFICES ASSUME IInv, [Next]_vars PROVE IInv'
  OBVIOUS
<1>1. CASE Caller
  <2>1. ASSUME NEW c \in Call, NEW o \in Output, NEW size \in Size,
               Ask(c, "present", o, size) \/ Ask(c, "frame", o, size)
        PROVE  IInv'
    <3>1. "present" \in Op /\ "frame" \in Op /\ size \in Size \cup {NoSize}
      BY DEF Op
    <3> QED
      BY <2>1, <3>1, AskKeeps
  <2>2. ASSUME NEW c \in Call, NEW o \in Output,
               Ask(c, "clear", o, NoSize) \/ Ask(c, "cancel", o, NoSize)
        PROVE  IInv'
    <3>1. "clear" \in Op /\ "cancel" \in Op /\ NoSize \in Size \cup {NoSize}
      BY DEF Op
    <3> QED
      BY <2>2, <3>1, AskKeeps
  <2> QED
    BY <1>1, <2>1, <2>2, GiveUpKeeps, CancelledKeeps DEF Caller
<1>2. CASE Thread
  BY <1>2, HandlePresentKeeps, HandleClearKeeps, HandleCancelKeeps, HandleConfigureKeeps,
     HandleClosedKeeps, HandleDoneKeeps, HandleReleaseKeeps, HandleStrayKeeps,
     HandleAddedKeeps, HandleRemovedKeeps DEF Thread
<1>3. CASE Stop
  BY <1>3, StopKeeps
<1>4. CASE Compositor
  BY <1>4, ConfigureKeeps, RepaintKeeps, ReleaseKeeps, ResizeKeeps, CloseKeeps, UnplugKeeps,
     PlugInKeeps DEF Compositor
<1>5. CASE UNCHANGED vars
  <2>1. /\ Quiet /\ known' \subseteq Output /\ Passes
        /\ UNCHANGED <<running, surface, pending, waiter, plugged, layer, changes, floor>>
    BY <1>5 DEF vars, callers, thread, compositor, history, Quiet, Passes, IInv, TypeOK
  <2> QED
    BY <2>1, QuietKeeps
<1> QED
  BY <1>1, <1>2, <1>3, <1>4, <1>5 DEF Next

LEMMA Invariance == Spec => []IInv
BY InitIInv, NextIInv, PTL DEF Spec

\* Every variable keeps its type, and the compositor never shows two surfaces of ours on
\* one output: a new one is made when the old one is gone (surface.rs, begin_present,
\* closed, clear).
THEOREM TypeCorrect == Spec => []TypeOK
<1>1. IInv => TypeOK
  BY DEF IInv
<1> QED
  BY <1>1, Invariance, PTL

\* An answer that a caller reads is true of its own call: what it says was presented was
\* committed, and after a clear nothing older is on the output, whatever was parked,
\* timed out or closed (surface.rs, handle_command, finish_present, frame).
THEOREM AnswersAreTrueAlways == Spec => []AnswersAreTrue
<1>1. ASSUME IInv
      PROVE  AnswersAreTrue
  <2>1. ASSUME NEW c \in Call
        PROVE  /\ call[c].answer = "presented" => c \in committed
               /\ call[c].op = "clear" /\ call[c].answer = "ok" =>
                      \A id \in LiveOn(call[c].output) : id > c
    <3>1. CallHolds(c)
      BY <1>1 DEF IInv
    <3>2. ASSUME call[c].op = "clear", call[c].answer = "ok", NEW id \in LiveOn(call[c].output)
          PROVE  id > c
      <4>1. PICK o \in Output : o = call[c].output
        BY <1>1, CallFacts DEF IInv, TypeOK
      <4>2. id \in Call /\ call[id].output = o /\ layer[id] # NoLayer
        BY <4>1, NoLayerFacts DEF LiveOn
      <4>3. floor[o] < id /\ c <= floor[o] /\ floor[o] \in Nat
        BY <1>1, <3>1, <3>2, <4>1, <4>2, LayerFound, FloorFacts DEF CallHolds, IInv
      <4> QED
        BY <4>2, <4>3, Numbers
    <3> QED
      BY <3>1, <3>2 DEF CallHolds
  <2> QED
    BY <2>1 DEF AnswersAreTrue
<1> QED
  BY <1>1, Invariance, PTL

\* No call is answered twice, so that the thread never blocks on a reply channel, which
\* holds one answer: whoever is parked, waits or is on the channel is so in one place
\* only, and leaves it when it is answered (surface.rs, handle_command).
THEOREM AnsweredOnceAlways == Spec => []AnsweredOnce
<1>1. IInv => AnsweredOnce
  BY DEF IInv, CallHolds, AnsweredOnce
<1> QED
  BY <1>1, Invariance, PTL

-----------------------------------------------------------------------------
\* What is written.

\* A slot is written when a frame is finished on the surface as it is, and it was free.
LEMMA FinishWrites ==
    ASSUME IInv, NEW o \in Output, NEW c, NEW s \in Surface, NEW out,
           Became(o, c, s, out), Finished(o, c, out),
           s = surface[o] \/ s.size # surface[o].size,
           NEW q \in Output, NEW i \in Slot, Written(q, i)
    PROVE  ~surface[q].slots[i].busy
<1>1. PICK t \in Surface : /\ surface' = [surface EXCEPT ![o] = t] /\ t.size = s.size
                           /\ t.slots = out.surface.slots
  BY FinishedSurface
<1>2. surface'[o] = t /\ \A p \in Output \ {o} : surface'[p] = surface[p]
  BY <1>1 DEF IInv, TypeOK
<1>3. /\ surface'[q].size = surface[q].size
      /\ surface'[q].slots[i].frame # surface[q].slots[i].frame
  BY DEF Written
<1>4. q = o
  BY <1>2, <1>3
<1>5. s = surface[o] /\ t.slots[i] # s.slots[i]
  BY <1>1, <1>2, <1>3, <1>4
<1>6. ~s.slots[i].busy
  BY <1>1, <1>5 DEF Became
<1> QED
  BY <1>4, <1>5, <1>6

LEMMA UnchangedWrites ==
    ASSUME surface' = surface, NEW q \in Output, NEW i \in Slot, Written(q, i)
    PROVE  FALSE
BY DEF Written

LEMMA LostWrites ==
    ASSUME IInv, NEW o \in Output, surface' = [surface EXCEPT ![o] = NoSurface],
           NEW q \in Output, NEW i \in Slot, Written(q, i)
    PROVE  FALSE
<1>1. surface'[o] = NoSurface /\ \A p \in Output \ {o} : surface'[p] = surface[p]
  BY DEF IInv, TypeOK
<1>2. surface[q].id \in Call /\ surface'[q].id = surface[q].id
  BY HasFacts DEF Written, IInv
<1>3. NoSurface.id \notin Call
  BY Numbers DEF NoSurface
<1> QED
  BY <1>1, <1>2, <1>3 DEF Written

LEMMA PresentWrites ==
    ASSUME IInv, NEW c \in Call, HandlePresent(c), NEW q \in Output, NEW i \in Slot, Written(q, i)
    PROVE  ~surface[q].slots[i].busy
<1>1. PICK o \in Output : o = call[c].output
  BY CallFacts DEF IInv, TypeOK
<1>2. /\ Takes(c, call[c].op)
      /\ CreateSurface(c, o) \/ CannotCreate(c, o) \/ PresentParked(c, o) \/ PresentNow(c, o)
  BY <1>1 DEF HandlePresent
<1>3. CASE surface' = surface
  BY <1>3, UnchangedWrites
<1>4. CASE CreateSurface(c, o) /\ surface' # surface
  <2>1. PICK t : surface' = [surface EXCEPT ![o] = t]
    BY <1>4 DEF CreateSurface
  <2>2. ~Has(o) /\ \A p \in Output \ {o} : surface'[p] = surface[p]
    BY <1>4, <2>1 DEF CreateSurface, IInv, TypeOK
  <2> QED
    BY <2>2 DEF Written
<1>5. CASE PresentNow(c, o)
  <2>1. PICK s \in Surface : s = surface[o]
    BY <1>5, HasFacts DEF PresentNow, IInv
  <2>2. PICK out \in Outcomes(o, c, s) : Finished(o, c, out)
    BY <1>5, <2>1 DEF PresentNow
  <2>3. waiter[o] \in Call \cup {Nobody} /\ waiter[o] # c
    BY <1>2, WaiterElse
  <2>4. Became(o, c, s, out)
    BY <2>3, OutcomeFacts
  <2> QED
    BY <2>1, <2>2, <2>4, FinishWrites
<1> QED
  BY <1>2, <1>3, <1>4, <1>5 DEF CannotCreate, PresentParked

LEMMA ConfigureWrites ==
    ASSUME IInv, NEW e, HandleConfigure(e), NEW q \in Output, NEW i \in Slot, Written(q, i)
    PROVE  ~surface[q].slots[i].busy
<1>1. e \in Event /\ e.kind = "configure"
  BY Dispatched DEF HandleConfigure
<1>2. PICK id \in Call, size \in Size : id = e.id /\ size = e.size
  BY <1>1, EventFacts
<1>3. PICK o \in Output : surface[o].id = id /\ (Configured(o, size) \/ NoPool(o, size))
  BY <1>2 DEF HandleConfigure, Owner
<1>4. PICK s0 \in Surface : s0 = surface[o]
  BY <1>3, HasFacts, Numbers DEF IInv
<1>5. PICK s \in Surface :
          /\ s = IF surface[o].size # size THEN Resized(surface[o], size) ELSE surface[o]
          /\ s.size = size /\ (s = surface[o] \/ surface[o].size # size)
  <2>1. CASE s0.size # size
    <3>1. Resized(s0, size) \in Surface /\ Resized(s0, size).size = size
      BY ResizedFacts
    <3> QED
      BY <1>4, <2>1, <3>1
  <2>2. CASE s0.size = size
    BY <1>4, <2>2
  <2> QED
    BY <2>1, <2>2
<1>6. ASSUME NEW t, surface' = [surface EXCEPT ![o] = t], t.size # surface[o].size \/ t = surface[o]
      PROVE  FALSE
  <2>1. surface'[o] = t /\ \A p \in Output \ {o} : surface'[p] = surface[p]
    BY <1>6 DEF IInv, TypeOK
  <2> QED
    BY <1>6, <2>1 DEF Written
<1>7. CASE Configured(o, size) /\ pending[o] = Nobody
  BY <1>5, <1>6, <1>7 DEF Configured
<1>8. CASE Configured(o, size) /\ pending[o] # Nobody
  <2>1. PICK c \in Call : c = pending[o]
    BY <1>8, PendingFacts
  <2>2. PICK out \in Outcomes(o, c, s) : Finished(o, c, out)
    BY <1>5, <1>8, <2>1 DEF Configured
  <2>3. waiter[o] \in Call \cup {Nobody} /\ waiter[o] # c
    BY <2>1, WaiterFacts, Numbers DEF IInv, TypeOK
  <2>4. Became(o, c, s, out)
    BY <2>3, OutcomeFacts
  <2> QED
    BY <1>5, <2>2, <2>4, FinishWrites
<1>9. CASE NoPool(o, size)
  <2>1. PICK t : t = [Resized(s0, size) EXCEPT !.pool = FALSE]
    OBVIOUS
  <2>2. t.size = size
    BY <2>1, ResizedFacts
  <2>3. surface' = [surface EXCEPT ![o] = t] /\ surface[o].size # size
    BY <1>4, <1>9, <2>1 DEF NoPool
  <2> QED
    BY <1>6, <2>2, <2>3
<1> QED
  BY <1>3, <1>7, <1>8, <1>9

LEMMA ReleaseWrites ==
    ASSUME IInv, NEW e, HandleRelease(e), NEW q \in Output, NEW i \in Slot, Written(q, i)
    PROVE  FALSE
<1>1. PICK o \in Output :
          surface' = [surface EXCEPT ![o].slots =
                 [j \in Slot |-> IF @[j].frame = e.frame THEN [@[j] EXCEPT !.busy = FALSE]
                                 ELSE @[j]]]
  BY DEF HandleRelease, Owner
<1>2. surface \in [Output -> Surface \cup {NoSurface}] /\ Has(q)
  BY DEF IInv, TypeOK, Written
<1>3. CASE q # o
  <2>1. surface'[q] = surface[q]
    BY <1>1, <1>2, <1>3
  <2> QED
    BY <2>1 DEF Written
<1>4. CASE q = o
  <2>1. PICK s \in Surface : s = surface[o]
    BY <1>2, <1>4, HasFacts DEF IInv
  <2>2. PICK f : f = [j \in Slot |-> IF s.slots[j].frame = e.frame
                                     THEN [s.slots[j] EXCEPT !.busy = FALSE] ELSE s.slots[j]]
    OBVIOUS
  <2>3. f[i].frame = s.slots[i].frame
    BY <2>2, SurfaceFacts DEF Buffer
  <2>4. PICK t : t = [s EXCEPT !.slots = f]
    OBVIOUS
  <2>5. t.slots = f
    BY <2>4 DEF Surface
  <2>6. surface' = [surface EXCEPT ![o] = t]
    BY <1>1, <2>1, <2>2, <2>4
  <2>7. surface'[o] = t
    BY <1>2, <2>6
  <2> QED
    BY <1>4, <2>1, <2>3, <2>5, <2>7 DEF Written
<1> QED
  BY <1>3, <1>4

LEMMA StepWrites ==
    ASSUME IInv, [Next]_vars, NEW q \in Output, NEW i \in Slot, Written(q, i)
    PROVE  ~surface[q].slots[i].busy
<1>1. surface' # surface
  BY UnchangedWrites
<1>2. Thread \/ Stop
  BY <1>1 DEF Next, Caller, Ask, GiveUp, Cancelled, Compositor, Configure, Repaint, Release,
     Resize, Close, Unplug, Plug, vars, thread
<1>3. CASE Stop
  <2>1. surface'[q] = NoSurface
    BY <1>3 DEF Stop
  <2>2. surface[q].id \in Call /\ surface'[q].id = surface[q].id
    BY HasFacts DEF Written, IInv
  <2> QED
    BY <2>1, <2>2, Numbers DEF NoSurface
<1>4. CASE Thread
  <2>1. ASSUME NEW c \in Call, HandlePresent(c) \/ HandleClear(c) \/ HandleCancel(c)
        PROVE  ~surface[q].slots[i].busy
    <3>1. CASE HandlePresent(c)
      BY <3>1, PresentWrites
    <3>2. CASE HandleClear(c)
      <4>1. PICK o \in Output : o = call[c].output
        BY CallFacts DEF IInv, TypeOK
      <4>2. surface' = [surface EXCEPT ![o] = NoSurface]
        BY <3>2, <4>1 DEF HandleClear
      <4> QED
        BY <4>2, LostWrites
    <3>3. CASE HandleCancel(c)
      BY <1>1, <3>3 DEF HandleCancel
    <3> QED
      BY <2>1, <3>1, <3>2, <3>3
  <2>2. ASSUME NEW e,
               \/ HandleConfigure(e) \/ HandleClosed(e) \/ HandleDone(e) \/ HandleRelease(e)
               \/ HandleStray(e) \/ HandleAdded(e) \/ HandleRemoved(e)
        PROVE  ~surface[q].slots[i].busy
    <3>1. CASE HandleConfigure(e)
      BY <3>1, ConfigureWrites
    <3>2. CASE HandleRelease(e)
      BY <3>2, ReleaseWrites
    <3>3. CASE HandleClosed(e)
      BY <3>3, LostWrites DEF HandleClosed, Owner, Loses
    <3>4. CASE HandleRemoved(e)
      <4>1. PICK o \in Output : o = e.output
        BY <3>4, Dispatched, EventFacts DEF HandleRemoved
      <4>2. surface' = [surface EXCEPT ![o] = NoSurface]
        BY <3>4, <4>1 DEF HandleRemoved, Loses
      <4> QED
        BY <4>2, LostWrites
    <3>5. CASE HandleDone(e) \/ HandleStray(e) \/ HandleAdded(e)
      BY <1>1, <3>5 DEF HandleDone, HandleStray, HandleAdded, thread
    <3> QED
      BY <2>2, <3>1, <3>2, <3>3, <3>4, <3>5
  <2> QED
    BY <1>4, <2>1, <2>2 DEF Thread
<1> QED
  BY <1>2, <1>3, <1>4

\* No buffer that the compositor may still read is written: what it holds is busy until
\* its release comes, and only a slot that is not busy takes a frame, unless the pool was
\* left behind for one of another size (surface.rs, acquire_slot, upload, release).
THEOREM ReadIsNotWrittenAlways == Spec => ReadIsNotWritten
<1>1. ASSUME IInv, [Next]_vars, NEW o \in Output, NEW i \in Slot, Written(o, i)
      PROVE  surface[o].slots[i].frame \notin layer[surface[o].id].using
  <2>1. ~surface[o].slots[i].busy
    BY <1>1, StepWrites
  <2>2. PICK id \in Call : id = surface[o].id /\ call[id].output = o
    BY <1>1, HasFacts DEF Written, IInv, OutputHolds, SurfaceHolds
  <2>3. CASE layer[id] = NoLayer
    BY <2>2, <2>3, NoLayerFacts
  <2>4. CASE layer[id] # NoLayer
    BY <1>1, <2>1, <2>2, <2>4, LayerFound
  <2> QED
    BY <2>3, <2>4
<1>2. IInv /\ [Next]_vars =>
          \A o \in Output, i \in Slot :
              Written(o, i) => surface[o].slots[i].frame \notin layer[surface[o].id].using
  BY <1>1
<1> QED
  BY <1>2, Invariance, PTL DEF Spec, ReadIsNotWritten

-----------------------------------------------------------------------------
\* The order of frames.

\* A nonempty set of calls has a greatest one.
LEMMA GreatestCall ==
    ASSUME NEW T \in SUBSET Call, T # {}
    PROVE  \E c \in T : \A b \in T : b <= c
<1> DEFINE F == {x..MaxCalls : x \in T}
           R == StrictSubsetOrdering(Nat)
<1>0. MaxCalls \in Nat /\ T \subseteq Nat /\ \A x \in T : x <= MaxCalls
  BY PresenterAssumption DEF Call, PresenterAssumption
<1>1. F # {} /\ F \subseteq FiniteSubsetsOf(Nat)
  <2>1. ASSUME NEW x \in T
        PROVE  x..MaxCalls \in FiniteSubsetsOf(Nat)
    <3>1. IsFiniteSet(x..MaxCalls)
      BY <1>0, FS_Interval
    <3>2. x..MaxCalls \in SUBSET Nat
      BY <1>0
    <3> QED
      BY <3>1, <3>2 DEF FiniteSubsetsOf
  <2> QED
    BY <2>1
<1>2. IsWellFoundedOn(R, FiniteSubsetsOf(Nat))
  BY FS_StrictSubsetOrderingWellFounded
<1> HIDE DEF F
<1>3. PICK A \in F : \A B \in F : <<B, A>> \notin R
  BY <1>1, <1>2, WFMin
<1>4. PICK x \in T : A = x..MaxCalls
  BY DEF F
<1>5. ASSUME NEW y \in T, x < y
      PROVE  FALSE
  <2>1. y..MaxCalls \in F
    BY DEF F
  <2>2. /\ y..MaxCalls \subseteq x..MaxCalls /\ x \notin y..MaxCalls /\ x \in x..MaxCalls
        /\ y..MaxCalls \in SUBSET Nat /\ x..MaxCalls \in SUBSET Nat
    BY <1>0, <1>5
  <2>3. <<y..MaxCalls, x..MaxCalls>> \in R
    BY <2>2 DEF StrictSubsetOrdering
  <2> QED
    BY <1>3, <1>4, <2>1, <2>3
<1> QED
  BY <1>0, <1>4, <1>5

LEMMA NewestFacts ==
    ASSUME NEW o \in Output
    PROVE  /\ Newest(o) \in Nat /\ \A c \in Asked(o) : c <= Newest(o)
           /\ Newest(o) = 0 \/ Newest(o) \in Asked(o)
<1>1. CASE Asked(o) = {}
  BY <1>1 DEF Newest
<1>2. CASE Asked(o) # {}
  <2>1. PICK T : T = Asked(o)
    OBVIOUS
  <2>2. T \in SUBSET Call
    BY <2>1 DEF Asked
  <2>3. \E c \in T : \A b \in T : b <= c
    BY <1>2, <2>1, <2>2, GreatestCall
  <2>4. Newest(o) = CHOOSE c \in T : \A b \in T : b <= c
    BY <1>2, <2>1 DEF Newest
  <2>5. Newest(o) \in T /\ \A b \in T : b <= Newest(o)
    BY <2>3, <2>4
  <2> QED
    BY <2>1, <2>2, <2>5, Numbers
<1> QED
  BY <1>1, <1>2

InOrderAt(o) == LacksPool(o) \/ [Screen(o)!Next]_(Screen(o)!vars)

\* What is known of the screen of an output after a step that begins no call.
LEMMA NewestSame ==
    ASSUME \A b \in Call : Kept(b), NEW o \in Output
    PROVE  Newest(o)' = Newest(o)
<1>1. Asked(o)' = Asked(o)
  BY DEF Asked, Kept, At
<1> QED
  BY <1>1 DEF Newest

LEMMA StillInOrder ==
    ASSUME NEW o \in Output, \A b \in Call : Kept(b), floor'[o] = floor[o],
           \A id \in Call : call[id].output = o =>
               layer'[id].live = layer[id].live /\ layer'[id].frame = layer[id].frame
    PROVE  InOrderAt(o)
<1>1. Newest(o)' = Newest(o)
  BY NewestSame
<1>2. LiveOn(o)' = LiveOn(o) /\ \A id \in LiveOn(o) : layer'[id].frame = layer[id].frame
  BY DEF LiveOn, Kept
<1>3. Shown(o)' = Shown(o)
  BY <1>2 DEF Shown
<1> QED
  BY <1>1, <1>3 DEF InOrderAt, Screen!Next, Screen!vars

\* The screen goes blank, and nothing up to its floor comes back.
LEMMA BlankInOrder ==
    ASSUME NEW o \in Output, \A b \in Call : Kept(b),
           \A id \in Call : call[id].output = o => layer'[id] = NoLayer,
           NEW n \in Call \cup {Nobody}, floor'[o] = n, floor[o] <= n, Shown(o) <= n,
           floor[o] \in Nat, n \in Asked(o) \cup {Nobody}
    PROVE  InOrderAt(o)
<1>1. Newest(o)' = Newest(o) /\ Newest(o) \in Nat
  BY NewestSame, NewestFacts
<1>2. LiveOn(o)' = {}
  BY NoLayerFacts DEF LiveOn, Kept
<1>3. Shown(o)' = 0
  BY <1>2, Numbers DEF Shown
<1>4. n \in Nat /\ n <= Newest(o)
  <2>1. CASE n = Nobody
    BY <1>1, <2>1, Numbers
  <2>2. CASE n \in Asked(o)
    BY <2>2, NewestFacts, Numbers DEF Asked
  <2> QED
    BY <2>1, <2>2
<1>5. floor'[o] \in floor[o]..Newest(o)
  BY <1>1, <1>4
<1>6. Screen(o)!Blank
  BY <1>1, <1>3, <1>5 DEF Screen!Blank
<1> QED
  BY <1>6 DEF InOrderAt, Screen!Next

\* A frame newer than all that must not come back is shown.
LEMMA ShowInOrder ==
    ASSUME TypeOK, NEW o \in Output, \A b \in Call : Kept(b),
           NEW id \in LiveOn(o), NEW k \in Layer, layer' = [layer EXCEPT ![id] = k], k.live,
           k.frame \in Asked(o), floor[o] < k.frame, Shown(o) <= k.frame, floor'[o] = floor[o]
    PROVE  InOrderAt(o)
<1>1. Newest(o)' = Newest(o) /\ Newest(o) \in Nat /\ k.frame <= Newest(o)
  BY NewestSame, NewestFacts
<1>2. /\ layer'[id] = k /\ \A b \in Call \ {id} : layer'[b] = layer[b]
      /\ id \in Call /\ call[id].output = o
  BY DEF TypeOK, LiveOn
<1>3. LiveOn(o) = {id}
  BY DEF TypeOK
<1>4. LiveOn(o)' = {id}
  BY <1>2, <1>3 DEF LiveOn, Kept
<1>5. Shown(o)' = k.frame
  BY <1>2, <1>4 DEF Shown
<1>6. floor[o] \in Nat /\ k.frame \in Nat
  BY FloorFacts, Numbers DEF Asked
<1>7. Shown(o)' \in (floor[o] + 1)..Newest(o) /\ Shown(o)' >= Shown(o)
  BY <1>1, <1>5, <1>6
<1>8. Screen(o)!Show
  BY <1>1, <1>7 DEF Screen!Show
<1> QED
  BY <1>8 DEF InOrderAt, Screen!Next

\* A call that begins is the newest of its output.
LEMMA AskInOrder ==
    ASSUME IInv, NEW c \in Call, NEW op \in Op, NEW q \in Output,
           NEW size \in Size \cup {NoSize}, Ask(c, op, q, size), NEW o \in Output
    PROVE  InOrderAt(o)
<1>1. /\ At(c, "new") /\ \A b \in Call : At(b, "new") => b >= c
      /\ UNCHANGED <<layer, floor>> /\ OneAtATime
  BY DEF Ask, compositor, history
<1>2. \A b \in Call \ {c} : call'[b] = call[b]
  BY DEF Ask, IInv, TypeOK
<1>3. ~At(c, "new")' /\ call'[c].output = q
  <2>1. PICK asked : asked = [NewCall EXCEPT !.op = op, !.output = q, !.size = size, !.at = "open"]
    OBVIOUS
  <2>2. asked.at = "open" /\ asked.output = q
    BY <2>1 DEF NewCall
  <2>3. PICK refused : refused = [asked EXCEPT !.at = "done", !.answer = "error"]
    OBVIOUS
  <2>4. refused.at = "done" /\ refused.output = q
    BY <2>1, <2>2, <2>3 DEF NewCall
  <2>5. call' = [call EXCEPT ![c] = asked] \/ call' = [call EXCEPT ![c] = refused]
    BY <2>1, <2>3 DEF Ask
  <2>6. call'[c] = asked \/ call'[c] = refused
    BY <2>5 DEF IInv, TypeOK
  <2> QED
    BY <2>2, <2>4, <2>6 DEF At
<1>4. \A id \in LiveOn(o) \cup LiveOn(o)' : id \in Call /\ id # c
  <2>1. layer[c] = NoLayer
    BY <1>1 DEF IInv, CallHolds
  <2> QED
    BY <1>1, <2>1, NoLayerFacts DEF LiveOn
<1>5. LiveOn(o)' = LiveOn(o)
  BY <1>1, <1>2, <1>4 DEF LiveOn
<1>6. Shown(o)' = Shown(o)
  BY <1>1, <1>5 DEF Shown
<1>7. CASE o # q
  <2>1. Asked(o)' = Asked(o)
    BY <1>1, <1>2, <1>3, <1>7 DEF Asked, At
  <2>2. Newest(o)' = Newest(o)
    BY <2>1 DEF Newest
  <2> QED
    BY <1>1, <1>6, <2>2 DEF InOrderAt, Screen!Next, Screen!vars
<1>8. CASE o = q
  <2>1. \A b \in Asked(o) : b < c
    <3>1. ASSUME NEW b \in Asked(o), ~(b < c)
          PROVE  FALSE
      <4>1. b \in Call /\ ~At(b, "new") /\ b # c
        BY <1>1, <3>1 DEF Asked, At
      <4>2. c < b
        BY <3>1, <4>1, Numbers
      <4> QED
        BY <1>1, <4>1, <4>2 DEF IInv, Sequential, At
    <3> QED
      BY <3>1
  <2>2. Asked(o)' = Asked(o) \cup {c}
    BY <1>1, <1>2, <1>3, <1>8 DEF Asked, At
  <2>3. \A b \in Asked(o)' : b \in Nat /\ b <= c
    BY <2>1, <2>2, Numbers DEF Asked
  <2>4. PICK T : T = Asked(o)'
    OBVIOUS
  <2>5. c \in T /\ \A b \in T : b \in Nat /\ b <= c
    BY <2>2, <2>3, <2>4
  <2>6. (CHOOSE x \in T : \A b \in T : b <= x) = c
    BY <2>5
  <2>7. Newest(o)' = c
    BY <2>4, <2>5, <2>6 DEF Newest
  <2>8. Newest(o) \in Nat /\ Newest(o) < c
    BY <2>1, NewestFacts, Numbers
  <2>9. Screen(o)!Request
    BY <1>1, <1>6, <2>7, <2>8, Numbers DEF Screen!Request
  <2> QED
    BY <2>9 DEF InOrderAt, Screen!Next
<1> QED
  BY <1>7, <1>8

LEMMA SendKept ==
    ASSUME TypeOK, NEW replies, Send(replies)
    PROVE  \A c \in Call : Kept(c)
<1>1. ASSUME NEW c \in Call
      PROVE  Kept(c)
  <2>1. PICK a \in CallRecord : a = call[c]
    BY DEF TypeOK
  <2>2. PICK r : r = replies[c]
    OBVIOUS
  <2>3. PICK k : k = [a EXCEPT !.answer = r, !.at = "done"]
    OBVIOUS
  <2>4. k.op = a.op /\ k.output = a.output /\ k.size = a.size /\ k.at = "done"
    BY <2>3 DEF CallRecord
  <2>5. call'[c] = (IF r # "none" /\ At(c, "open") THEN k ELSE a)
    BY <2>1, <2>2, <2>3 DEF Send
  <2> QED
    BY <2>1, <2>4, <2>5 DEF Kept, At
<1> QED
  BY <1>1

LEMMA SameKept ==
    ASSUME call' = call
    PROVE  \A c \in Call : Kept(c)
BY DEF Kept, At

\* Nothing changes on any screen.
ScreensSame ==
    /\ \A b \in Call : Kept(b)
    /\ floor' = floor
    /\ \A id \in Call : layer'[id].live = layer[id].live /\ layer'[id].frame = layer[id].frame

LEMMA AllStill ==
    ASSUME ScreensSame
    PROVE  \A o \in Output : InOrderAt(o)
BY StillInOrder DEF ScreensSame

\* One screen goes blank.
LEMMA BlankOne ==
    ASSUME IInv, \A b \in Call : Kept(b), NEW o \in Output,
           \A id \in Call : IF call[id].output = o THEN layer'[id] = NoLayer
                                                   ELSE layer'[id] = layer[id],
           NEW n \in Call \cup {Nobody}, floor' = [floor EXCEPT ![o] = n],
           floor[o] <= n, Shown(o) <= n, n \in Asked(o) \cup {Nobody}
    PROVE  \A q \in Output : InOrderAt(q)
<1>1. /\ floor'[o] = n /\ \A q \in Output \ {o} : floor'[q] = floor[q]
      /\ floor[o] \in Nat
  BY FloorRises, FloorFacts DEF IInv
<1>2. InOrderAt(o)
  BY <1>1, BlankInOrder
<1>3. ASSUME NEW q \in Output \ {o}
      PROVE  InOrderAt(q)
  BY <1>1, StillInOrder
<1> QED
  BY <1>2, <1>3

\* The greater of an output's floor and the frame it shows.
LEMMA LargerAsked ==
    ASSUME IInv, NEW o \in Output
    PROVE  \E n \in Call \cup {Nobody} :
               /\ n = Larger(floor[o], Shown(o)) /\ floor[o] <= n /\ Shown(o) <= n
               /\ n \in Asked(o) \cup {Nobody}
<1>1. PICK f \in Call \cup {Nobody} : f = floor[o]
  BY FloorFacts DEF IInv
<1>2. PICK s \in Call \cup {Nobody} : s = Shown(o)
  BY ShownFacts
<1>3. f \in Asked(o) \cup {Nobody}
  BY <1>1 DEF IInv, OutputHolds, FloorHolds, Past, At, Asked
<1>4. s \in Asked(o) \cup {Nobody}
  BY <1>2, ShownFacts DEF Past, At, Asked
<1>5. /\ Larger(f, s) \in Call \cup {Nobody} /\ Larger(f, s) \in {f, s}
      /\ f <= Larger(f, s) /\ s <= Larger(f, s)
  BY LargerFacts
<1> QED
  BY <1>1, <1>2, <1>3, <1>4, <1>5

\* A frame taken or parked appears on the screen of its output.
LEMMA ShowOne ==
    ASSUME IInv, \A b \in Call : Kept(b), floor' = floor, NEW o \in Output,
           NEW id \in Call, call[id].output = o, NEW c \in Call, call[c].output = o,
           ~At(c, "new"), floor[o] < c, Shown(o) <= c, NEW out, Shows(id, c, out)
    PROVE  \A q \in Output : InOrderAt(q)
<1>1. PICK k \in Layer : k.frame = c /\ k.live /\ layer' = [layer EXCEPT ![id] = k]
  BY DEF Shows
<1>2. id \in LiveOn(o)
  BY DEF Shows, LiveOn
<1>3. c \in Asked(o)
  BY DEF Asked, At
<1>4. InOrderAt(o)
  BY <1>1, <1>2, <1>3, ShowInOrder DEF IInv
<1>5. ASSUME NEW q \in Output \ {o}
      PROVE  InOrderAt(q)
  <2>1. \A b \in Call : call[b].output = q => layer'[b] = layer[b]
    BY <1>1, <1>5 DEF IInv, TypeOK
  <2> QED
    BY <2>1, StillInOrder
<1> QED
  BY <1>4, <1>5

\* A present on a surface with a size shows a newer frame, or none.
LEMMA PresentNowInOrder ==
    ASSUME IInv, NEW c \in Call, HandlePresent(c), NEW o \in Output, o = call[c].output,
           Takes(c, call[c].op), PresentNow(c, o)
    PROVE  \A q \in Output : InOrderAt(q)
<1>1. floor' = floor
  BY DEF HandlePresent
<1>2. PICK s \in Surface : s = surface[o] /\ s.size # NoSize /\ Has(o)
  BY HasFacts DEF PresentNow, IInv
<1>3. PICK out \in Outcomes(o, c, s) : Finished(o, c, out) /\ Send(out.replies)
  BY <1>2 DEF PresentNow
<1>4. waiter[o] \in Call \cup {Nobody} /\ waiter[o] # c
  BY WaiterElse
<1>5. Became(o, c, s, out)
  BY <1>4, OutcomeFacts
<1>6. PICK r \in [Call -> Answer] : r = out.replies /\ Send(r)
  BY <1>3, <1>5 DEF Became
<1>7. /\ ~At(c, "new") /\ floor[o] < c /\ \A n \in Call : Past(n) => n < c
  BY <1>6, TakenFacts
<1>8. Shown(o) <= c
  <2>1. CASE Shown(o) = Nobody
    BY <2>1, Numbers
  <2>2. CASE Shown(o) # Nobody
    <3>1. Shown(o) \in Call /\ Past(Shown(o))
      BY <2>2, ShownFacts
    <3>2. PICK n \in Call : n = Shown(o) /\ Past(n)
      BY <3>1
    <3>3. n < c /\ n \in Nat /\ c \in Nat
      BY <1>7, <3>2, Numbers
    <3> QED
      BY <3>2, <3>3
  <2> QED
    BY <2>1, <2>2
<1>9. \A b \in Call : Kept(b)
  BY <1>3, SendKept DEF IInv
<1>10. PICK id \in Call : id = s.id /\ call[id].output = o
  BY <1>2, SurfaceFacts DEF IInv, OutputHolds, SurfaceHolds
<1>11. layer' = layer \/ Shows(id, c, out)
  BY <1>3, <1>5, <1>10, FinishedLayer DEF IInv
<1>12. CASE layer' = layer
  BY <1>1, <1>9, <1>12, AllStill DEF ScreensSame
<1>13. CASE Shows(id, c, out)
  BY <1>1, <1>7, <1>8, <1>9, <1>10, <1>13, ShowOne
<1> QED
  BY <1>11, <1>12, <1>13

\* The layer of a new surface is blank, and there was none before.
LEMMA CreateInOrder ==
    ASSUME IInv, NEW c \in Call, HandlePresent(c), NEW o \in Output, o = call[c].output,
           Takes(c, call[c].op), CreateSurface(c, o)
    PROVE  \A q \in Output : InOrderAt(q)
<1>1. floor' = floor
  BY DEF HandlePresent
<1>2. \A b \in Call : Kept(b)
  BY SendKept DEF IInv, CreateSurface, Park
<1>3. CASE layer' = layer
  BY <1>1, <1>2, <1>3, AllStill DEF ScreensSame
<1>4. CASE layer' = [layer EXCEPT ![c] = [NoLayer EXCEPT !.live = TRUE]]
  <2>1. PICK k : k = [NoLayer EXCEPT !.live = TRUE]
    OBVIOUS
  <2>2. k.frame = Nobody
    BY <2>1 DEF NoLayer
  <2>3. layer'[c] = k /\ \A b \in Call \ {c} : layer'[b] = layer[b]
    BY <1>4, <2>1 DEF IInv, TypeOK
  <2>4. ASSUME NEW q \in Output \ {o}
        PROVE  InOrderAt(q)
    BY <1>1, <1>2, <2>3, <2>4, StillInOrder
  <2>5. InOrderAt(o)
    <3>1. LiveOn(o) = {}
      <4>1. ~Has(o)
        BY DEF CreateSurface
      <4> QED
        BY <4>1, LayerFound, NoLayerFacts DEF LiveOn
    <3>2. Shown(o) = Nobody
      BY <3>1 DEF Shown
    <3>3. LiveOn(o)' \subseteq {c}
      BY <1>2, <2>3, <3>1 DEF LiveOn, Kept
    <3>4. Shown(o)' = Nobody
      <4>1. CASE LiveOn(o)' = {}
        BY <4>1 DEF Shown
      <4>2. CASE LiveOn(o)' = {c}
        BY <2>2, <2>3, <4>2 DEF Shown
      <4> QED
        BY <3>3, <4>1, <4>2
    <3>5. Newest(o)' = Newest(o)
      BY <1>2, NewestSame
    <3> QED
      BY <1>1, <3>2, <3>4, <3>5 DEF InOrderAt, Screen!Next, Screen!vars
  <2> QED
    BY <2>4, <2>5
<1> QED
  BY <1>3, <1>4 DEF CreateSurface

LEMMA HandlePresentInOrder ==
    ASSUME IInv, NEW c \in Call, HandlePresent(c)
    PROVE  \A q \in Output : InOrderAt(q)
<1>1. PICK o \in Output : o = call[c].output
  BY CallFacts DEF IInv, TypeOK
<1>2. /\ Takes(c, call[c].op) /\ floor' = floor
      /\ CreateSurface(c, o) \/ CannotCreate(c, o) \/ PresentParked(c, o) \/ PresentNow(c, o)
  BY <1>1 DEF HandlePresent
<1>3. CASE CannotCreate(c, o) \/ PresentParked(c, o)
  <2>1. layer' = layer
    BY <1>3 DEF CannotCreate, PresentParked
  <2>2. \A b \in Call : Kept(b)
    BY <1>3, SendKept DEF IInv, CannotCreate, PresentParked, Park
  <2> QED
    BY <1>2, <2>1, <2>2, AllStill DEF ScreensSame
<1> QED
  BY <1>1, <1>2, <1>3, PresentNowInOrder, CreateInOrder

\* A parked present is shown once its surface has its first size, when nothing was
\* shown on it; one that outlived another pool is excused.
LEMMA HandleConfigureInOrder ==
    ASSUME IInv, NEW e, HandleConfigure(e)
    PROVE  \A q \in Output : InOrderAt(q)
<1>1. e \in Event /\ e.kind = "configure"
  BY Dispatched DEF HandleConfigure
<1>2. PICK i \in Call, size \in Size : i = e.id /\ size = e.size
  BY <1>1, EventFacts
<1>3. PICK o \in Output : surface[o].id = i /\ (Configured(o, size) \/ NoPool(o, size))
  BY <1>2 DEF HandleConfigure, Owner
<1>4. floor' = floor
  BY DEF HandleConfigure
<1>5. PICK s0 \in Surface : s0 = surface[o] /\ Has(o)
  BY <1>3, HasFacts, Numbers DEF IInv
<1>6. PICK s \in Surface :
          /\ s = IF surface[o].size # size THEN Resized(surface[o], size) ELSE surface[o]
          /\ s.id = s0.id
  <2>1. CASE s0.size # size
    <3>1. Resized(s0, size) \in Surface /\ Resized(s0, size).id = s0.id
      BY ResizedFacts
    <3> QED
      BY <1>5, <2>1, <3>1
  <2>2. CASE s0.size = size
    BY <1>5, <2>2
  <2> QED
    BY <2>1, <2>2
<1>7. CASE layer' = layer /\ \A b \in Call : Kept(b)
  BY <1>4, <1>7, AllStill DEF ScreensSame
<1>8. CASE Configured(o, size) /\ pending[o] = Nobody
  <2>1. layer' = layer /\ Send(Nothing)
    BY <1>8 DEF Configured
  <2> QED
    BY <1>7, <2>1, SendKept DEF IInv
<1>9. CASE NoPool(o, size)
  <2>1. layer' = layer /\ Send(Nothing)
    BY <1>9 DEF NoPool
  <2> QED
    BY <1>7, <2>1, SendKept DEF IInv
<1>10. CASE Configured(o, size) /\ pending[o] # Nobody
  <2>1. PICK c \in Call : /\ c = pending[o] /\ call[c].output = o /\ Past(c)
                          /\ surface[o].pool => surface[o].size = NoSize /\ floor[o] < c
    BY <1>10, PendingFacts
  <2>2. PICK out \in Outcomes(o, c, s) : Finished(o, c, out) /\ Send(out.replies)
    BY <1>6, <1>10, <2>1 DEF Configured
  <2>3. waiter[o] \in Call \cup {Nobody} /\ waiter[o] # c
    BY <2>1, WaiterFacts, Numbers DEF IInv, TypeOK
  <2>4. Became(o, c, s, out)
    BY <2>3, OutcomeFacts
  <2>5. \A b \in Call : Kept(b)
    BY <2>2, SendKept DEF IInv
  <2>6. PICK id \in Call : id = s.id /\ id = surface[o].id /\ call[id].output = o
    BY <1>5, <1>6, SurfaceFacts DEF IInv, OutputHolds, SurfaceHolds
  <2>7. layer' = layer \/ Shows(id, c, out)
    BY <2>2, <2>4, <2>6, FinishedLayer DEF IInv
  <2>8. CASE Shows(id, c, out) /\ surface[o].pool
    <3>1. Shown(o) = Nobody
      BY <2>1, <2>8, ShownFacts
    <3>2. Shown(o) <= c
      BY <3>1, Numbers
    <3>3. ~At(c, "new") /\ floor[o] < c
      BY <2>1, <2>8 DEF Past
    <3>4. Shows(id, c, out)
      BY <2>8
    <3> QED
      BY <1>4, <2>1, <2>5, <2>6, <3>2, <3>3, <3>4, ShowOne
  <2>9. CASE Shows(id, c, out) /\ ~surface[o].pool
    <3>1. InOrderAt(o)
      BY <1>5, <2>9 DEF InOrderAt, LacksPool
    <3>2. ASSUME NEW q \in Output \ {o}
          PROVE  InOrderAt(q)
      <4>1. \A b \in Call : call[b].output = q => layer'[b] = layer[b]
        BY <2>6, <2>9, <3>2 DEF Shows, IInv, TypeOK
      <4> QED
        BY <1>4, <2>5, <4>1, StillInOrder
    <3> QED
      BY <3>1, <3>2
  <2> QED
    BY <1>7, <2>5, <2>7, <2>8, <2>9
<1> QED
  BY <1>3, <1>8, <1>9, <1>10

\* A call taken from the channel is newer than all that was taken before.
LEMMA OldBefore ==
    ASSUME IInv, NEW c \in Call, Takes(c, call[c].op)
    PROVE  ~At(c, "new") /\ \A n \in Call : Past(n) => n < c
<1>1. Waits(c)
  BY WaitsTaken
<1>2. \A i \in 1..Len(commands) : ~At(commands[i].call, "new")
  BY DEF IInv, ChannelHolds
<1> QED
  BY <1>1, <1>2 DEF Waits, Past

LEMMA HandleClearInOrder ==
    ASSUME IInv, NEW c \in Call, HandleClear(c)
    PROVE  \A q \in Output : InOrderAt(q)
<1>1. PICK o \in Output : o = call[c].output
  BY CallFacts DEF IInv, TypeOK
<1>2. call[c].op = "clear" /\ Takes(c, call[c].op)
  BY TakesOwn DEF HandleClear, Op
<1>3. floor' = [floor EXCEPT ![o] = c] /\ layer' = Destroyed(layer, surface[o].id)
  BY <1>1 DEF HandleClear
<1>4. \A b \in Call : Kept(b)
  BY SendKept DEF IInv, HandleClear
<1>5. ~At(c, "new") /\ \A n \in Call : Past(n) => n < c
  BY <1>2, OldBefore
<1>6. floor[o] <= c
  <2>1. CASE floor[o] = Nobody
    BY <2>1, Numbers
  <2>2. CASE floor[o] # Nobody
    <3>1. PICK n \in Call : n = floor[o] /\ Past(n)
      BY <2>2, FloorFacts DEF IInv, OutputHolds, FloorHolds
    <3>2. n < c /\ n \in Nat /\ c \in Nat
      BY <1>5, <3>1, Numbers
    <3> QED
      BY <3>1, <3>2
  <2> QED
    BY <2>1, <2>2
<1>7. Shown(o) <= c
  <2>1. CASE Shown(o) = Nobody
    BY <2>1, Numbers
  <2>2. CASE Shown(o) # Nobody
    <3>1. PICK n \in Call : n = Shown(o) /\ Past(n)
      BY <2>2, ShownFacts
    <3>2. n < c /\ n \in Nat /\ c \in Nat
      BY <1>5, <3>1, Numbers
    <3> QED
      BY <3>1, <3>2
  <2> QED
    BY <2>1, <2>2
<1>8. c \in Asked(o)
  BY <1>1, <1>5 DEF Asked, At
<1>9. \A id \in Call : IF call[id].output = o THEN layer'[id] = NoLayer
                                              ELSE layer'[id] = layer[id]
  BY <1>3, DestroyedFacts
<1> QED
  BY <1>3, <1>4, <1>6, <1>7, <1>8, <1>9, BlankOne

\* The output is gone, for the thread or for the compositor.
LEMMA BlankLarger ==
    ASSUME IInv, \A b \in Call : Kept(b), NEW o \in Output,
           \A id \in Call : IF call[id].output = o THEN layer'[id] = NoLayer
                                                   ELSE layer'[id] = layer[id],
           floor' = [floor EXCEPT ![o] = Larger(@, Shown(o))]
    PROVE  \A q \in Output : InOrderAt(q)
<1>1. PICK n \in Call \cup {Nobody} :
               /\ n = Larger(floor[o], Shown(o)) /\ floor[o] <= n /\ Shown(o) <= n
               /\ n \in Asked(o) \cup {Nobody}
  BY LargerAsked
<1>2. floor' = [floor EXCEPT ![o] = n]
  BY <1>1
<1> QED
  BY <1>1, <1>2, BlankOne

LEMMA HandleRemovedInOrder ==
    ASSUME IInv, NEW e, HandleRemoved(e)
    PROVE  \A q \in Output : InOrderAt(q)
<1>1. PICK o \in Output : o = e.output
  BY Dispatched, EventFacts DEF HandleRemoved
<1>2. /\ floor' = [floor EXCEPT ![o] = Larger(@, Shown(o))]
      /\ layer' = Destroyed(layer, surface[o].id)
  BY <1>1 DEF HandleRemoved
<1>3. \A b \in Call : Kept(b)
  BY SendKept DEF IInv, HandleRemoved, Loses
<1>4. \A id \in Call : IF call[id].output = o THEN layer'[id] = NoLayer
                                              ELSE layer'[id] = layer[id]
  BY <1>2, DestroyedFacts
<1> QED
  BY <1>2, <1>3, <1>4, BlankLarger

LEMMA ClosesInOrder ==
    ASSUME IInv, NEW o \in Output, Closes(o), UNCHANGED callers
    PROVE  \A q \in Output : InOrderAt(q)
<1>1. \A b \in Call : Kept(b)
  BY SameKept DEF callers
<1>2. \A id \in Call : IF call[id].output = o THEN layer'[id] = NoLayer
                                              ELSE layer'[id] = layer[id]
  <2>1. layer' = [id \in Call |-> IF id \in LiveOn(o) THEN NoLayer ELSE layer[id]]
    BY DEF Closes
  <2>2. \A id \in Call : call[id].output = o => layer[id] = NoLayer \/ id \in LiveOn(o)
    BY LayerFound DEF LiveOn
  <2>3. \A id \in LiveOn(o) : call[id].output = o
    BY DEF LiveOn
  <2> QED
    BY <2>1, <2>2, <2>3
<1>3. floor' = [floor EXCEPT ![o] = Larger(@, Shown(o))]
  BY DEF Closes
<1> QED
  BY <1>1, <1>2, <1>3, BlankLarger

LEMMA StopInOrder ==
    ASSUME IInv, Stop
    PROVE  \A q \in Output : InOrderAt(q)
<1>1. \A b \in Call : Kept(b)
  BY SendKept DEF IInv, Stop
<1>2. \A id \in Call : layer'[id] = NoLayer
  BY DEF Stop
<1>3. ASSUME NEW o \in Output
      PROVE  InOrderAt(o)
  <2>1. PICK n \in Call \cup {Nobody} :
                 /\ n = Larger(floor[o], Shown(o)) /\ floor[o] <= n /\ Shown(o) <= n
                 /\ n \in Asked(o) \cup {Nobody}
    BY LargerAsked
  <2>2. floor'[o] = n /\ floor[o] \in Nat
    BY <2>1, FloorFacts DEF Stop, IInv
  <2> QED
    BY <1>1, <1>2, <2>1, <2>2, BlankInOrder
<1> QED
  BY <1>3

LEMMA HandlersInOrder ==
    ASSUME IInv, NEW e,
           HandleClosed(e) \/ HandleDone(e) \/ HandleRelease(e) \/ HandleStray(e) \/ HandleAdded(e)
    PROVE  \A q \in Output : InOrderAt(q)
<1>1. layer' = layer /\ floor' = floor
  BY DEF HandleClosed, HandleDone, HandleRelease, HandleStray, HandleAdded, history
<1>2. \A b \in Call : Kept(b)
  <2>1. CASE HandleClosed(e)
    BY <2>1, SendKept DEF IInv, HandleClosed, Loses
  <2>2. CASE HandleDone(e)
    BY <2>2, SendKept DEF IInv, HandleDone
  <2>3. CASE HandleRelease(e) \/ HandleStray(e) \/ HandleAdded(e)
    BY <2>3, SameKept DEF HandleRelease, HandleStray, HandleAdded, callers
  <2> QED
    BY <2>1, <2>2, <2>3
<1> QED
  BY <1>1, <1>2, AllStill DEF ScreensSame

LEMMA HandleCancelInOrder ==
    ASSUME IInv, NEW c \in Call, HandleCancel(c)
    PROVE  \A q \in Output : InOrderAt(q)
<1>1. layer' = layer /\ floor' = floor
  BY DEF HandleCancel, compositor
<1>2. \A b \in Call : Kept(b)
  BY SendKept DEF IInv, HandleCancel
<1> QED
  BY <1>1, <1>2, AllStill DEF ScreensSame

\* A caller that gives up changes nothing but its own call.
LEMMA GiveUpInOrder ==
    ASSUME IInv, NEW c \in Call, GiveUp(c) \/ Cancelled(c)
    PROVE  \A q \in Output : InOrderAt(q)
<1>1. layer' = layer /\ floor' = floor
  BY DEF GiveUp, Cancelled, compositor, history
<1>2. PICK a \in CallRecord : a = call[c] /\ call[c].at \notin {"new", "done"}
  BY DEF IInv, TypeOK, GiveUp, Cancelled, At
<1>3. PICK k : /\ k \in {[a EXCEPT !.at = "cancelling", !.answer = "error"],
                         [a EXCEPT !.at = "done", !.answer = "error"], [a EXCEPT !.at = "done"]}
               /\ call' = [call EXCEPT ![c] = k]
  BY <1>2 DEF GiveUp, Cancelled, IInv, TypeOK
<1>4. k.op = a.op /\ k.output = a.output /\ k.size = a.size /\ k.at \in {"cancelling", "done"}
  BY <1>3 DEF CallRecord
<1>5. call'[c] = k /\ \A b \in Call \ {c} : call'[b] = call[b]
  BY <1>3 DEF IInv, TypeOK
<1>6. \A b \in Call : Kept(b)
  BY <1>2, <1>4, <1>5 DEF Kept, At
<1> QED
  BY <1>1, <1>6, AllStill DEF ScreensSame

\* The compositor configures, repaints, gives buffers back and changes sizes.
LEMMA CompositorInOrder ==
    ASSUME IInv, Compositor
    PROVE  \A q \in Output : InOrderAt(q)
<1>1. \A b \in Call : Kept(b)
  BY SameKept DEF Compositor, Configure, Repaint, Release, Resize, Close, Unplug, Plug, callers
<1>2. CASE \E o \in Output : Close(o) \/ Unplug(o)
  BY <1>2, ClosesInOrder DEF Close, Unplug
<1>3. CASE \E o \in Output : Resize(o) \/ Plug(o)
  BY <1>1, <1>3, AllStill DEF Resize, Plug, ScreensSame, history
<1>4. CASE \E id \in Call : Configure(id) \/ Repaint(id) \/ Release(id)
  <2>1. PICK id \in Call : Configure(id) \/ Repaint(id) \/ Release(id)
    BY <1>4
  <2>2. floor' = floor
    BY <2>1 DEF Configure, Repaint, Release, history
  <2>3. \A b \in Call : layer'[b].live = layer[b].live /\ layer'[b].frame = layer[b].frame
    <3>1. PICK l \in Layer : l = layer[id]
      BY DEF IInv, TypeOK
    <3>2. \E k : k.live = l.live /\ k.frame = l.frame /\ layer' = [layer EXCEPT ![id] = k]
      <4>1. CASE Configure(id)
        <5>1. PICK k : k = [l EXCEPT !.sent = TRUE]
          OBVIOUS
        <5>2. k.live = l.live /\ k.frame = l.frame
          BY <5>1 DEF Layer
        <5>3. layer' = [layer EXCEPT ![id] = k]
          BY <3>1, <4>1, <5>1 DEF Configure
        <5> QED
          BY <5>2, <5>3
      <4>2. CASE Repaint(id)
        <5>1. PICK k : k = [l EXCEPT !.callbacks = 0]
          OBVIOUS
        <5>2. k.live = l.live /\ k.frame = l.frame
          BY <5>1 DEF Layer
        <5>3. layer' = [layer EXCEPT ![id] = k]
          BY <3>1, <4>2, <5>1 DEF Repaint
        <5> QED
          BY <5>2, <5>3
      <4>3. CASE Release(id)
        <5>1. PICK f : layer' = [layer EXCEPT ![id].using = @ \ {f}]
          BY <4>3 DEF Release
        <5>2. PICK k : k = [l EXCEPT !.using = @ \ {f}]
          OBVIOUS
        <5>3. k.live = l.live /\ k.frame = l.frame
          BY <5>2 DEF Layer
        <5>4. layer' = [layer EXCEPT ![id] = k]
          BY <3>1, <5>1, <5>2
        <5> QED
          BY <5>3, <5>4
      <4> QED
        BY <2>1, <4>1, <4>2, <4>3
    <3> QED
      BY <3>1, <3>2 DEF IInv, TypeOK
  <2> QED
    BY <1>1, <2>2, <2>3, AllStill DEF ScreensSame
<1> QED
  BY <1>2, <1>3, <1>4 DEF Compositor

LEMMA NextInOrder ==
    ASSUME IInv, [Next]_vars
    PROVE  \A q \in Output : InOrderAt(q)
<1>1. CASE Caller
  <2>1. CASE \E c \in Call : GiveUp(c) \/ Cancelled(c)
    BY <2>1, GiveUpInOrder
  <2>2. ASSUME NEW c \in Call, NEW o \in Output,
               \/ \E size \in Size : Ask(c, "present", o, size) \/ Ask(c, "frame", o, size)
               \/ Ask(c, "clear", o, NoSize) \/ Ask(c, "cancel", o, NoSize)
        PROVE  \A q \in Output : InOrderAt(q)
    <3>1. PICK op \in Op, size \in Size \cup {NoSize} : Ask(c, op, o, size)
      BY <2>2 DEF Op
    <3> QED
      BY <3>1, AskInOrder
  <2> QED
    BY <1>1, <2>1, <2>2 DEF Caller
<1>2. CASE Thread
  BY <1>2, HandlePresentInOrder, HandleClearInOrder, HandleCancelInOrder,
     HandleConfigureInOrder, HandleRemovedInOrder, HandlersInOrder DEF Thread
<1>3. CASE Stop
  BY <1>3, StopInOrder
<1>4. CASE Compositor
  BY <1>4, CompositorInOrder
<1>5. CASE UNCHANGED vars
  <2>1. ScreensSame
    BY <1>5, SameKept DEF vars, callers, compositor, history, ScreensSame
  <2> QED
    BY <2>1, AllStill
<1> QED
  BY <1>1, <1>2, <1>3, <1>4, <1>5 DEF Next

\* Frames appear in the order of their calls, and nothing asked for before a clear, or
\* before the output went, appears after it: every step of the presenter, its callers and
\* the compositor is, on every screen with a pool, a step of ScreenSlot or none
\* (surface.rs, begin_present, configure, handle_command).
THEOREM InOrderAlways == Spec => InOrder
<1>1. ASSUME Init, NEW o \in Output
      PROVE  Screen(o)!Init
  <2>1. Asked(o) = {}
    BY <1>1, NewCallFacts DEF Init, Asked
  <2>2. Newest(o) = 0
    BY <2>1 DEF Newest
  <2>3. LiveOn(o) = {}
    BY <1>1, NoLayerFacts DEF Init, LiveOn
  <2>4. Shown(o) = 0
    BY <2>3, Numbers DEF Shown
  <2>5. floor[o] = 0
    BY <1>1 DEF Init
  <2> QED
    BY <2>2, <2>4, <2>5 DEF Screen!Init
<1>2. Init => \A o \in Output : Screen(o)!Init
  BY <1>1
<1>3. IInv /\ [Next]_vars => \A o \in Output : LacksPool(o) \/ [Screen(o)!Next]_(Screen(o)!vars)
  BY NextInOrder DEF InOrderAt
<1> QED
  BY <1>2, <1>3, Invariance, PTL DEF Spec, InOrder
==============================================================================
