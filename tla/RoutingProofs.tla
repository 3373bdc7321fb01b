--------------------------- MODULE RoutingProofs ---------------------------
(***************************************************************************)
(* Proofs about Routing for every set of outputs and wallpapers and every  *)
(* number of requests.  A request that met nobody answers, step by step,   *)
(* for the outputs it is about; everywhere else what is recorded can be    *)
(* seen, or the output is in doubt.                                        *)
(***************************************************************************)
EXTENDS Routing, FiniteSetTheorems, SequenceTheorems, TLAPS

-----------------------------------------------------------------------------
\* The inductive invariant.

\* A clock draws what the surface already shows.
Steady(o) == /\ frame[o] \in {NoWall, clock[o]}
             /\ clock[o] \in {NoWall, surface[o]}
Shown(o) == Steady(o) /\ (applied[o] # NoWall => Visible(o) = applied[o])
Quiet(o) == clock[o] = NoWall /\ frame[o] = NoWall
ShownBut(outputs) == \A o \in connected \ (excused \cup outputs) : Shown(o)
Presents(outputs, wall) == \A o \in outputs : Steady(o) /\ surface[o] = wall

\* Nothing is left of an output that was taken out, but for the record of a request
\* it was taken from.
Apart(o) == Quiet(o) /\ surface[o] = NoWall /\ (applied[o] = NoWall \/ o \in excused)

\* All the others were put in since the request was routed.
Fresh(outputs) == \A o \in connected \ outputs : Apart(o)

\* What a request that met nobody has achieved when these steps are left.
Asking(j) == j.plan = <<"mode">> /\ ToSet(j.todo) = j.outputs /\ ShownBut({})
Drawing(j) == /\ j.plan = <<"draw", "record">>
              /\ ShownBut(j.outputs) /\ Presents(j.outputs \ ToSet(j.todo), j.wall)
Drawn(j) == /\ j.plan = <<"record">>
            /\ ShownBut(j.outputs) /\ Presents(j.outputs, j.wall)
Routed(j) == /\ j.plan = <<"record", "halt", "wipe">>
             /\ Fresh(j.outputs) /\ shell = j.wall
Leaving(j) == /\ j.plan = <<"halt", "wipe">>
              /\ Fresh(j.outputs) /\ shell = j.wall
              /\ \A o \in j.outputs : applied[o] = j.wall
Wiping(j) == /\ j.plan = <<"wipe">>
             /\ Fresh(j.outputs) /\ shell = j.wall
             /\ \A o \in j.outputs : applied[o] = j.wall
             /\ excused = Output \/ \A o \in j.outputs : Quiet(o)
Clearing(j) == /\ j.plan = <<"halt", "blank", "forget">>
               /\ j.wall = NoWall /\ ShownBut(j.outputs)
Blanking(j) == /\ j.plan = <<"blank", "forget">>
               /\ j.wall = NoWall /\ ShownBut(j.outputs)
               /\ \A o \in j.outputs : clock[o] = NoWall
Blanked(j) == /\ j.plan = <<"forget">>
              /\ j.wall = NoWall /\ ShownBut(j.outputs)
              /\ \A o \in j.outputs : Quiet(o) /\ surface[o] = NoWall
Stage(j) == \/ Asking(j) \/ Drawing(j) \/ Drawn(j)
            \/ Routed(j) \/ Leaving(j) \/ Wiping(j)
            \/ Clearing(j) \/ Blanking(j) \/ Blanked(j)

Form(j) ==
    /\ j.op \in {"set", "clear"} /\ j.plan # <<>>
    /\ j.alone => j.outputs \subseteq connected
    /\ ToSet(j.todo) \subseteq j.outputs
    /\ Head(j.plan) \in {"mode", "draw"} => j.todo # <<>>
    /\ j.op = "clear" => j.wall = NoWall

\* Requests that met each other left every output in doubt.
Answers(r) ==
    Live(r) => /\ Form(job[r])
               /\ ~job[r].alone => excused = Output
               /\ job[r].alone => (\A q \in Request : Live(q) => q = r) /\ Stage(job[r])

Answered == \A q \in Request : Answers(q)
AllShown == (\A q \in Request : ~Live(q)) => ShownBut({})

IInv ==
    /\ TypeOK
    /\ \A o \in Output \ connected : Apart(o)
    /\ Answered /\ AllShown

-----------------------------------------------------------------------------
\* The outputs of a request, one by one.

LEMMA SetToSeqFacts ==
    ASSUME NEW S \in SUBSET Output
    PROVE  /\ SetToSeq(S) \in Seq(Output)
           /\ ToSet(SetToSeq(S)) = S
           /\ S # {} => SetToSeq(S) # <<>>
<1> DEFINE n == Cardinality(S)
           s == SetToSeq(S)
<1>1. IsFiniteSet(S)
  BY RoutingAssumption, FS_Subset DEF RoutingAssumption
<1>2. n \in Nat /\ ExistsBijection(1..n, S)
  BY <1>1, FS_CardinalityType
<1>3. PICK f \in Bijection(1..n, S) : TRUE
  BY <1>2 DEF ExistsBijection
<1>4. f \in [1..n -> S] /\ IsInjective(f)
  BY <1>3 DEF Bijection, Injection
<1>5. s \in [1..n -> S] /\ IsInjective(s)
  BY <1>4, Zenon DEF SetToSeq
<1>6. s \in Seq(S) /\ Len(s) = n /\ DOMAIN s = 1..n
  BY <1>2, <1>5
<1>7. s \in Seq(Output)
  BY <1>6, SeqMonotonic
<1>8. ToSet(s) = S
  <2>1. IsFiniteSet(1..n) /\ Cardinality(1..n) = n
    BY <1>2, FS_Interval
  <2>2. s \in Surjection(1..n, S)
    BY <2>1, <1>1, <1>5, FS_Injection DEF Injection
  <2> QED
    BY <2>2, <1>5, <1>6 DEF Surjection, ToSet
<1>9. S # {} => s # <<>>
  BY <1>6, <1>8 DEF ToSet
<1> QED
  BY <1>7, <1>8, <1>9

LEMMA HeadAndTail ==
    ASSUME NEW s \in Seq(Output), s # <<>>
    PROVE  /\ Head(s) \in ToSet(s)
           /\ Tail(s) \in Seq(Output)
           /\ ToSet(Tail(s)) \subseteq ToSet(s)
           /\ \A o \in ToSet(s) : o = Head(s) \/ o \in ToSet(Tail(s))
           /\ Len(s) = 1 => ToSet(Tail(s)) = {}
           /\ Len(s) # 1 => Tail(s) # <<>>
<1>1. /\ Len(s) \in Nat \ {0} /\ DOMAIN s = 1..Len(s)
      /\ Head(s) = s[1]
      /\ Tail(s) \in Seq(Output) /\ Len(Tail(s)) = Len(s) - 1
      /\ DOMAIN Tail(s) = 1..(Len(s) - 1)
      /\ \A i \in 1..(Len(s) - 1) : Tail(s)[i] = s[i + 1]
  BY HeadTailProperties, LenProperties, EmptySeq, ElementOfSeq
<1>2. Head(s) \in ToSet(s)
  BY <1>1 DEF ToSet
<1>3. ASSUME NEW o \in ToSet(Tail(s))
      PROVE  o \in ToSet(s)
  <2>1. PICK i \in 1..(Len(s) - 1) : o = Tail(s)[i]
    BY <1>1 DEF ToSet
  <2>2. o = s[i + 1] /\ i + 1 \in 1..Len(s)
    BY <1>1, <2>1
  <2> QED
    BY <1>1, <2>2 DEF ToSet
<1>4. ASSUME NEW o \in ToSet(s), o # Head(s)
      PROVE  o \in ToSet(Tail(s))
  <2>1. PICK i \in 1..Len(s) : o = s[i]
    BY <1>1 DEF ToSet
  <2>2. i # 1
    BY <1>1, <1>4, <2>1
  <2>3. i - 1 \in 1..(Len(s) - 1) /\ (i - 1) + 1 = i
    BY <1>1, <2>1, <2>2
  <2>4. Tail(s)[i - 1] = o
    BY <1>1, <2>1, <2>3
  <2> QED
    BY <1>1, <2>3, <2>4 DEF ToSet
<1>5. ASSUME Len(s) = 1
      PROVE  ToSet(Tail(s)) = {}
  <2>1. DOMAIN Tail(s) = {}
    BY <1>1, <1>5
  <2> QED
    BY <2>1 DEF ToSet
<1>6. ASSUME Len(s) # 1
      PROVE  Tail(s) # <<>>
  <2>1. Len(Tail(s)) # 0
    BY <1>1, <1>6
  <2> QED
    BY <2>1, EmptySeq, Zenon
<1> QED
  BY <1>1, <1>2, <1>3, <1>4, <1>5, <1>6

-----------------------------------------------------------------------------
\* The plans and what is left of them.

LEMMA Tails ==
    /\ Tail(<<"mode">>) = <<>> /\ Tail(<<"record">>) = <<>>
    /\ Tail(<<"wipe">>) = <<>> /\ Tail(<<"forget">>) = <<>>
    /\ Tail(<<"draw", "record">>) = <<"record">>
    /\ Tail(<<"halt", "wipe">>) = <<"wipe">>
    /\ Tail(<<"blank", "forget">>) = <<"forget">>
    /\ Tail(<<"record", "halt", "wipe">>) = <<"halt", "wipe">>
    /\ Tail(<<"halt", "blank", "forget">>) = <<"blank", "forget">>
OBVIOUS

LEMMA Heads ==
    /\ Head(<<"record">>) = "record" /\ <<"record">> # <<>>
    /\ Head(<<"wipe">>) = "wipe" /\ <<"wipe">> # <<>>
    /\ Head(<<"forget">>) = "forget" /\ <<"forget">> # <<>>
    /\ Head(<<"halt", "wipe">>) = "halt" /\ <<"halt", "wipe">> # <<>>
    /\ Head(<<"blank", "forget">>) = "blank" /\ <<"blank", "forget">> # <<>>
OBVIOUS

LEMMA PlanTail ==
    ASSUME NEW p \in Plan, p # <<>>
    PROVE  /\ Tail(p) \in Plan
           /\ Len(p) = 1 <=> Tail(p) = <<>>
           /\ Tail(p) # <<>> => Head(Tail(p)) \notin {"mode", "draw"}
<1>1. CASE p \in {<<"mode">>, <<"record">>, <<"wipe">>, <<"forget">>}
  <2>1. Tail(p) = <<>> /\ Len(p) = 1
    BY <1>1, Tails
  <2> QED
    BY <2>1 DEF Plan
<1>2. CASE p \in {<<"draw", "record">>, <<"halt", "wipe">>, <<"blank", "forget">>}
  <2>1. Tail(p) \in {<<"record">>, <<"wipe">>, <<"forget">>}
    BY <1>2, Tails
  <2>3. Tail(p) # <<>> /\ Head(Tail(p)) \notin {"mode", "draw"}
    <3>1. "record" \notin {"mode", "draw"} /\ "wipe" \notin {"mode", "draw"}
      OBVIOUS
    <3>2. "forget" \notin {"mode", "draw"} /\ "halt" \notin {"mode", "draw"}
      OBVIOUS
    <3>3. "blank" \notin {"mode", "draw"}
      OBVIOUS
    <3> QED
      BY <2>1, <3>1, <3>2, <3>3, Heads, Zenon
  <2>4. Tail(p) \in Plan
    BY <2>1 DEF Plan
  <2>2. Len(p) = 2
    BY <1>2
  <2> QED
    BY <2>2, <2>3, <2>4
<1>3. CASE p \in {<<"record", "halt", "wipe">>, <<"halt", "blank", "forget">>}
  <2>1. Tail(p) \in {<<"halt", "wipe">>, <<"blank", "forget">>}
    BY <1>3, Tails
  <2>3. Tail(p) # <<>> /\ Head(Tail(p)) \notin {"mode", "draw"}
    <3>1. "record" \notin {"mode", "draw"} /\ "wipe" \notin {"mode", "draw"}
      OBVIOUS
    <3>2. "forget" \notin {"mode", "draw"} /\ "halt" \notin {"mode", "draw"}
      OBVIOUS
    <3>3. "blank" \notin {"mode", "draw"}
      OBVIOUS
    <3> QED
      BY <2>1, <3>1, <3>2, <3>3, Heads, Zenon
  <2>4. Tail(p) \in Plan
    BY <2>1 DEF Plan
  <2>2. Len(p) = 3
    BY <1>3
  <2> QED
    BY <2>2, <2>3, <2>4
<1> QED
  BY <1>1, <1>2, <1>3 DEF Plan

\* The step a request takes tells what it has achieved.
LEMMA StageAt ==
    ASSUME NEW j \in Job, Stage(j)
    PROVE  /\ Head(j.plan) = "mode" => Asking(j)
           /\ Head(j.plan) = "draw" => Drawing(j)
           /\ Head(j.plan) = "record" => Drawn(j) \/ Routed(j)
           /\ Head(j.plan) = "halt" => Leaving(j) \/ Clearing(j)
           /\ Head(j.plan) = "wipe" => Wiping(j)
           /\ Head(j.plan) = "blank" => Blanking(j)
           /\ Head(j.plan) = "forget" => Blanked(j)
<1>1. /\ Asking(j) => Head(j.plan) = "mode"
      /\ Drawing(j) => Head(j.plan) = "draw"
      /\ Drawn(j) => Head(j.plan) = "record"
      /\ Routed(j) => Head(j.plan) = "record"
      /\ Leaving(j) => Head(j.plan) = "halt"
      /\ Wiping(j) => Head(j.plan) = "wipe"
      /\ Clearing(j) => Head(j.plan) = "halt"
      /\ Blanking(j) => Head(j.plan) = "blank"
      /\ Blanked(j) => Head(j.plan) = "forget"
  BY DEF Asking, Drawing, Drawn, Routed, Leaving, Wiping, Clearing, Blanking, Blanked
<1> QED
  BY <1>1 DEF Stage

-----------------------------------------------------------------------------
\* The locals of a request.

LEMMA NoJobFacts ==
    NoJob \in Job /\ NoJob.op = "none" /\ NoJob.alone = TRUE
BY DEF NoJob, Job, Plan

\* The request a step is about, and what is known of it.
LEMMA JobNow ==
    ASSUME IInv, NEW r \in Request, Live(r)
    PROVE  job[r] \in Job /\ Form(job[r]) /\ job[r].outputs \in SUBSET Output
<1>1. job[r] \in Job
  BY DEF IInv, TypeOK
<1>2. Form(job[r])
  BY DEF IInv, Answered, Answers
<1> QED
  BY <1>1, <1>2 DEF Job

Same(k, j) == k.op = j.op /\ k.wall = j.wall /\ k.outputs = j.outputs /\ k.alone = j.alone
Becomes(r, k) == job' = [job EXCEPT ![r] = k]

LEMMA FailsJob ==
    ASSUME NEW r \in Request, Fails(r)
    PROVE  Becomes(r, NoJob)
BY DEF Fails, Becomes

LEMMA FollowsJob ==
    ASSUME IInv, NEW r \in Request, Live(r), NEW p \in Plan, p # <<>>, Follows(r, p),
           Head(p) \in {"mode", "draw"} => job[r].todo # <<>>
    PROVE  \E k \in Job : /\ Becomes(r, k) /\ Form(k) /\ Same(k, job[r])
                          /\ k.plan = p /\ k.todo = job[r].todo
<1> DEFINE j == job[r]
           k == [j EXCEPT !.plan = p]
<1>1. j \in Job /\ Form(j)
  BY JobNow
<1>2. Becomes(r, k)
  BY DEF Follows, Becomes
<1>3. j.todo # <<>> \/ Head(p) \notin {"mode", "draw"}
  OBVIOUS
<1> HIDE DEF j
<1>4. k \in Job /\ Same(k, j) /\ k.plan = p /\ k.todo = j.todo
  BY <1>1 DEF Job, Same
<1> HIDE DEF k
<1>5. Form(k)
  BY <1>1, <1>3, <1>4 DEF Form, Same
<1> QED
  BY <1>2, <1>4, <1>5 DEF j

LEMMA DoneJob ==
    ASSUME IInv, NEW r \in Request, Live(r), Done(r)
    PROVE  \E k \in Job : /\ Becomes(r, k)
                          /\ Tail(job[r].plan) = <<>> => k = NoJob
                          /\ (Tail(job[r].plan) # <<>>) =>
                                 /\ Form(k) /\ Same(k, job[r])
                                 /\ k.plan = Tail(job[r].plan)
<1> DEFINE p == job[r].plan
<1>1. p \in Plan /\ p # <<>>
  BY JobNow DEF Form, Job
<1>2. /\ Tail(p) \in Plan
      /\ Len(p) = 1 <=> Tail(p) = <<>>
      /\ Tail(p) # <<>> => Head(Tail(p)) \notin {"mode", "draw"}
  BY <1>1, PlanTail
<1>3. CASE Tail(p) = <<>>
  <2>1. Fails(r)
    BY <1>2, <1>3 DEF Done
  <2> QED
    BY <2>1, <1>3, FailsJob, NoJobFacts
<1>4. CASE Tail(p) # <<>>
  <2>1. Follows(r, Tail(p))
    BY <1>2, <1>4 DEF Done
  <2> QED
    BY <2>1, <1>2, <1>4, FollowsJob, Zenon
<1> QED
  BY <1>3, <1>4

-----------------------------------------------------------------------------
\* What a step of one request means for all of them.

\* Nothing is claimed of outputs in doubt.
LEMMA InDoubt ==
    ASSUME TypeOK, excused = Output, NEW outputs
    PROVE  ShownBut(outputs)
BY DEF TypeOK, ShownBut

LEMMA Advance ==
    ASSUME IInv, TypeOK', NEW r \in Request, Live(r), NEW k \in Job, Becomes(r, k),
           connected' = connected,
           ~job[r].alone => excused' = Output,
           k # NoJob => Form(k) /\ k.alone = job[r].alone,
           job[r].alone /\ k = NoJob => ShownBut({})',
           job[r].alone /\ k # NoJob => Stage(k)'
    PROVE  Answered' /\ AllShown'
<1>1. /\ job \in [Request -> Job]
      /\ job'[r] = k
      /\ \A q \in Request \ {r} : job'[q] = job[q]
  BY DEF IInv, TypeOK, Becomes
<1>2. Answers(r)
  BY DEF IInv, Answered
<1>3. CASE job[r].alone
  <2>1. \A q \in Request \ {r} : ~Live(q)
    BY <1>2, <1>3 DEF Answers
  <2>2. \A q \in Request \ {r} : ~Live(q)'
    BY <1>1, <2>1 DEF Live
  <2>3. Answers(r)'
    <3>1. SUFFICES ASSUME Live(r)' PROVE Answers(r)'
      BY DEF Answers
    <3>2. k # NoJob
      BY <1>1, <3>1 DEF Live
    <3>3. Form(k)'
      BY <3>2 DEF Form
    <3>4. k.alone = TRUE
      BY <1>3, <3>2 DEF Job
    <3> QED
      BY <1>1, <1>3, <2>2, <3>2, <3>3, <3>4 DEF Answers
  <2>4. Answered'
    BY <2>2, <2>3 DEF Answered, Answers
  <2>5. AllShown'
    BY <1>1, <1>3 DEF AllShown, Live
  <2> QED
    BY <2>4, <2>5
<1>4. CASE ~job[r].alone
  <2>1. excused' = Output
    BY <1>4
  <2>2. ASSUME NEW q \in Request \ {r}, Live(q)'
        PROVE  Answers(q)'
    <3>1. job'[q] = job[q] /\ Live(q)
      BY <1>1, <2>2 DEF Live
    <3>2. PICK j \in Job : j = job[q]
      BY <3>1, JobNow
    <3>3. Form(j) /\ ~j.alone
      <4>1. Answers(q)
        BY DEF IInv, Answered
      <4> QED
        BY <1>2, <1>4, <4>1, <3>1, <3>2 DEF Answers
    <3>4. Form(j)'
      BY <3>3 DEF Form
    <3> QED
      BY <2>1, <3>1, <3>2, <3>3, <3>4 DEF Answers
  <2>3. Answers(r)'
    <3>1. SUFFICES ASSUME Live(r)' PROVE Answers(r)'
      BY DEF Answers
    <3>2. k # NoJob
      BY <1>1, <3>1 DEF Live
    <3>3. Form(k)'
      BY <3>2 DEF Form
    <3>4. ~k.alone
      BY <1>4, <3>2
    <3> QED
      BY <1>1, <2>1, <3>3, <3>4 DEF Answers
  <2>4. Answered'
    BY <2>2, <2>3 DEF Answered, Answers
  <2>5. ShownBut({})'
    BY <2>1 DEF TypeOK, ShownBut
  <2> QED
    BY <2>4, <2>5 DEF AllShown
<1> QED
  BY <1>3, <1>4

\* A step that leaves the requests alone and keeps what they have achieved.
LEMMA Stays ==
    ASSUME IInv, UNCHANGED <<job, connected, excused>>,
           \A outputs \in SUBSET Output : ShownBut(outputs) => ShownBut(outputs)',
           \A j \in Job : Stage(j) => Stage(j)'
    PROVE  Answered' /\ AllShown'
<1>1. ASSUME NEW q \in Request, Live(q)'
      PROVE  Answers(q)'
  <2>1. Live(q) /\ job'[q] = job[q]
    BY <1>1 DEF Live
  <2>2. PICK j \in Job : j = job[q]
    BY <2>1, JobNow
  <2>3. Answers(q)
    BY DEF IInv, Answered
  <2>4. Form(j) /\ Form(j)'
    BY <2>1, <2>2, <2>3 DEF Answers, Form
  <2>5. j.alone => (\A s \in Request : Live(s)' => s = q)
    BY <2>1, <2>2, <2>3 DEF Answers, Live
  <2>6. j.alone => Stage(j)'
    BY <2>1, <2>2, <2>3 DEF Answers
  <2>7. ~j.alone => excused' = Output
    BY <2>1, <2>2, <2>3 DEF Answers
  <2> QED
    BY <2>1, <2>2, <2>4, <2>5, <2>6, <2>7 DEF Answers
<1>2. AllShown'
  <2>1. SUFFICES ASSUME (\A q \in Request : ~Live(q))' PROVE ShownBut({})'
    BY DEF AllShown
  <2>2. \A q \in Request : ~Live(q)
    BY <2>1 DEF Live
  <2>3. ShownBut({})
    BY <2>2 DEF IInv, AllShown
  <2> QED
    BY <2>3
<1> QED
  BY <1>1, <1>2 DEF Answered, Answers

LEMMA OverFacts ==
    ASSUME NEW f \in Table, NEW S, NEW v \in Wall \cup {NoWall}
    PROVE  /\ Over(f, S, v) \in Table
           /\ \A o \in Output : Over(f, S, v)[o] = IF o \in S THEN v ELSE f[o]
BY DEF Over, Table

-----------------------------------------------------------------------------
\* The first state.

LEMMA InitIInv == Init => IInv
<1>1. SUFFICES ASSUME Init PROVE IInv
  OBVIOUS
<1>2. surface \in Table /\ \A o \in Output : surface[o] = NoWall
  BY <1>1 DEF Init, Table
<1>3. clock = surface /\ frame = surface /\ applied = surface /\ session = surface
  BY <1>1 DEF Init
<1>4. job \in [Request -> Job] /\ \A r \in Request : job[r] = NoJob
  BY <1>1, NoJobFacts DEF Init
<1>5. mode \in Modes /\ configured \in Modes /\ connected = Output /\ excused = {}
  BY <1>1 DEF Init
<1>6. shell = NoWall /\ asked \in 0..MaxRequests /\ faults \in 0..MaxFaults
  BY <1>1, RoutingAssumption DEF Init, RoutingAssumption
<1>7. TypeOK
  BY <1>2, <1>3, <1>4, <1>5, <1>6 DEF TypeOK
<1>8. Answered
  BY <1>4 DEF Answered, Answers, Live
<1>9. AllShown
  BY <1>2, <1>3, <1>5 DEF AllShown, ShownBut, Shown, Steady
<1> QED
  BY <1>5, <1>7, <1>8, <1>9 DEF IInv

-----------------------------------------------------------------------------
\* Somebody asks.

LEMMA Unmarked ==
    ASSUME NEW j \in Job, j.alone = TRUE
    PROVE  [j EXCEPT !.alone = TRUE] = j
BY DEF Job

LEMMA AskKeeps ==
    ASSUME IInv, NEW r \in Request, NEW op \in {"set", "clear"},
           NEW wall \in Wall \cup {NoWall}, NEW outputs \in SUBSET Output,
           op = "clear" => wall = NoWall, Ask(r, op, wall, outputs)
    PROVE  IInv'
<1> DEFINE alone == \A q \in Request : ~Live(q)
           marked(q) == [job[q] EXCEPT !.alone = alone \/ ~Live(q)]
           k == [op |-> op, wall |-> wall, outputs |-> outputs,
                 plan |-> <<"mode">>, todo |-> SetToSeq(outputs), alone |-> alone]
<1>1. /\ ~Live(r) /\ outputs # {} /\ outputs \subseteq connected
      /\ asked < MaxRequests /\ asked' = asked + 1
      /\ job' = [[q \in Request |-> marked(q)] EXCEPT ![r] = k]
      /\ excused' = IF alone THEN excused ELSE Output
      /\ UNCHANGED <<mode, configured, connected, faults, shell, surface, clock, frame,
                     applied, session>>
  BY Zenon DEF Ask, settings, screens, clocks, tables
<1>2. /\ SetToSeq(outputs) \in Seq(Output) /\ ToSet(SetToSeq(outputs)) = outputs
      /\ SetToSeq(outputs) # <<>>
  BY <1>1, SetToSeqFacts
<1>3. job \in [Request -> Job] /\ excused \subseteq Output
  BY DEF IInv, TypeOK
<1>4. alone \in BOOLEAN
  OBVIOUS
<1> HIDE DEF alone
<1>5. ASSUME NEW q \in Request
      PROVE  /\ marked(q) \in Job
             /\ marked(q).op = job[q].op /\ marked(q).outputs = job[q].outputs
             /\ marked(q).plan = job[q].plan /\ marked(q).todo = job[q].todo
             /\ marked(q).wall = job[q].wall
             /\ ~Live(q) => marked(q) = NoJob
             /\ Live(q) => marked(q).alone = alone
  <2>1. job[q] \in Job /\ (alone \/ ~Live(q)) \in BOOLEAN
    BY <1>3, <1>4
  <2>2. ~Live(q) => (alone \/ ~Live(q)) = TRUE
    OBVIOUS
  <2>3. Live(q) => (alone \/ ~Live(q)) = alone
    BY <1>4
  <2>4. ~Live(q) => job[q] = NoJob
    BY DEF Live
  <2> DEFINE b == alone \/ ~Live(q)
  <2>5. b \in BOOLEAN /\ (~Live(q) => b = TRUE) /\ (Live(q) => b = alone)
    BY <2>1, <2>2, <2>3
  <2> HIDE DEF b
  <2>6. /\ [job[q] EXCEPT !.alone = b] \in Job
        /\ [job[q] EXCEPT !.alone = b].op = job[q].op
        /\ [job[q] EXCEPT !.alone = b].outputs = job[q].outputs
        /\ [job[q] EXCEPT !.alone = b].plan = job[q].plan
        /\ [job[q] EXCEPT !.alone = b].todo = job[q].todo
        /\ [job[q] EXCEPT !.alone = b].wall = job[q].wall
        /\ [job[q] EXCEPT !.alone = b].alone = b
    BY <2>1, <2>5 DEF Job
  <2>7. [NoJob EXCEPT !.alone = TRUE] = NoJob
    BY NoJobFacts, Unmarked
  <2>8. ~Live(q) => [job[q] EXCEPT !.alone = b] = NoJob
    BY <2>4, <2>5, <2>7, Zenon
  <2> QED
    BY <2>5, <2>6, <2>8 DEF b
<1>6. /\ k \in Job /\ k.op = op /\ k.wall = wall /\ k.outputs = outputs
      /\ k.plan = <<"mode">> /\ k.todo = SetToSeq(outputs) /\ k.alone = alone
  BY <1>2, <1>4 DEF Job, Plan
<1> HIDE DEF k, marked
<1>13. PICK j \in Job : j = k
  BY <1>6
<1>7. /\ job' \in [Request -> Job] /\ job'[r] = j
      /\ \A q \in Request \ {r} : job'[q] = marked(q)
  BY <1>1, <1>5, <1>13
<1>8. TypeOK'
  <2>1. asked' \in 0..MaxRequests
    BY <1>1, RoutingAssumption DEF RoutingAssumption, IInv, TypeOK
  <2>2. excused' \subseteq Output
    BY <1>1, <1>3
  <2> QED
    BY <1>1, <1>7, <2>1, <2>2 DEF IInv, TypeOK
<1>9. Form(j)'
  <2>1. j.plan # <<>> /\ j.op \in {"set", "clear"}
    <3>1. <<"mode">> # <<>>
      OBVIOUS
    <3> QED
      BY <1>6, <1>13, <3>1, Zenon
  <2>2. ToSet(j.todo) = j.outputs /\ j.todo # <<>>
    BY <1>2, <1>6, <1>13, Zenon
  <2>3. j.outputs \subseteq connected /\ (j.op = "clear" => j.wall = NoWall)
    BY <1>1, <1>6, <1>13
  <2>4. Form(j)
    BY <2>1, <2>2, <2>3 DEF Form
  <2> QED
    BY <1>1, <2>4 DEF Form
<1>10. Live(r)'
  BY <1>6, <1>7, <1>13, NoJobFacts DEF Live
<1>11. CASE alone
  <2>1. \A q \in Request \ {r} : ~Live(q)'
    BY <1>11, <1>5, <1>7 DEF alone, Live
  <2>2. ShownBut({})
    BY <1>11 DEF alone, IInv, AllShown
  <2>3. ShownBut({})'
    BY <1>1, <1>11, <2>2 DEF ShownBut, Shown, Steady, Visible
  <2>4. Stage(j)'
    <3>1. j.plan = <<"mode">> /\ ToSet(j.todo) = j.outputs
      BY <1>2, <1>6, <1>13, Zenon
    <3> QED
      BY <2>3, <3>1 DEF Stage, Asking
  <2>5. Answered'
    BY <1>6, <1>7, <1>9, <1>13, <1>11, <2>1, <2>4 DEF Answered, Answers
  <2> QED
    BY <1>1, <1>8, <1>10, <2>5 DEF IInv, AllShown, Apart, Quiet
<1>12. CASE ~alone
  <2>1. excused' = Output
    BY <1>1, <1>12
  <2>2. ASSUME NEW q \in Request \ {r}, Live(q)'
        PROVE  Answers(q)'
    <3>1. Live(q)
      BY <1>5, <1>7, <2>2 DEF Live
    <3>2. Form(job[q])
      BY <3>1, JobNow
    <3>3. PICK i \in Job : i = marked(q)
      BY <1>5
    <3>4. ~i.alone
      BY <1>5, <1>12, <3>1, <3>3
    <3>5. Form(i)
      BY <1>5, <3>2, <3>3, <3>4 DEF Form
    <3>6. Form(i)'
      BY <1>1, <3>5 DEF Form
    <3> QED
      BY <1>7, <2>1, <3>3, <3>4, <3>6 DEF Answers
  <2>3. Answers(r)'
    BY <1>6, <1>7, <1>9, <1>13, <1>12, <2>1 DEF Answers
  <2>4. Answered'
    BY <2>2, <2>3 DEF Answered, Answers
  <2> QED
    BY <1>1, <1>8, <1>10, <2>4 DEF IInv, AllShown, Apart, Quiet
<1> QED
  BY <1>11, <1>12

\* What is known when a request takes a step.
LEMMA StepNow ==
    ASSUME IInv, NEW r \in Request, Live(r)
    PROVE  /\ job[r].alone => Stage(job[r])
           /\ ~job[r].alone => excused = Output
           /\ \A o \in job[r].outputs : o \in Output /\ (job[r].alone => o \in connected)
           /\ connected \subseteq Output
           /\ job[r].wall \in Wall \cup {NoWall}
           /\ job[r].plan \in Plan /\ job[r].plan # <<>>
           /\ NoJob.alone = TRUE
<1>1. Answers(r)
  BY DEF IInv, Answered
<1>2. job[r] \in Job /\ Form(job[r]) /\ connected \subseteq Output
  BY JobNow DEF IInv, TypeOK
<1> QED
  BY <1>1, <1>2, NoJobFacts DEF Answers, Form, Job

-----------------------------------------------------------------------------
\* The clocks.

LEMMA FramesKeep ==
    ASSUME IInv, TypeOK', UNCHANGED <<connected, shell, clock, applied, job, excused>>,
           \A o \in Output : /\ Steady(o) => Steady(o)' /\ surface'[o] = surface[o]
                             /\ Quiet(o) => Quiet(o)' /\ surface'[o] = surface[o]
    PROVE  IInv'
<1>1. /\ connected' = connected /\ shell' = shell /\ clock' = clock
      /\ applied' = applied /\ job' = job /\ excused' = excused
      /\ connected \subseteq Output
  BY DEF IInv, TypeOK
<1>2. ASSUME NEW o \in Output, Shown(o)
      PROVE  Shown(o)'
  BY <1>1, <1>2 DEF Shown, Visible
<1>3. ASSUME NEW outputs, ShownBut(outputs)
      PROVE  ShownBut(outputs)'
  BY <1>1, <1>2, <1>3 DEF ShownBut
<1>4. ASSUME NEW j \in Job
      PROVE  /\ Asking(j) => Asking(j)'
             /\ Drawing(j) => Drawing(j)'
             /\ Drawn(j) => Drawn(j)'
             /\ Routed(j) => Routed(j)'
             /\ Leaving(j) => Leaving(j)'
             /\ Wiping(j) => Wiping(j)'
             /\ Clearing(j) => Clearing(j)'
             /\ Blanking(j) => Blanking(j)'
             /\ Blanked(j) => Blanked(j)'
  <2>1. j.outputs \subseteq Output
    BY DEF Job
  <2>2. ASSUME NEW S \in SUBSET Output, Presents(S, j.wall)
        PROVE  Presents(S, j.wall)'
    BY <2>2 DEF Presents
  <2>3. j.outputs \ ToSet(j.todo) \subseteq Output
    BY <2>1
  <2>4. Asking(j) => Asking(j)'
    BY <1>3 DEF Asking
  <2>5. Drawing(j) => Drawing(j)'
    BY <1>3, <2>2, <2>3 DEF Drawing
  <2>6. Drawn(j) => Drawn(j)'
    BY <1>3, <2>1, <2>2 DEF Drawn
  <2>12. Fresh(j.outputs) => Fresh(j.outputs)'
    BY <1>1 DEF Fresh, Apart
  <2>7. (Routed(j) => Routed(j)') /\ (Leaving(j) => Leaving(j)')
    BY <1>1, <2>1, <2>12 DEF Routed, Leaving
  <2>8. Wiping(j) => Wiping(j)'
    BY <1>1, <2>1, <2>12 DEF Wiping
  <2>9. Clearing(j) => Clearing(j)'
    BY <1>3 DEF Clearing
  <2>10. Blanking(j) => Blanking(j)'
    BY <1>1, <1>3 DEF Blanking
  <2>11. Blanked(j) => Blanked(j)'
    BY <1>3, <2>1 DEF Blanked
  <2> QED
    BY <2>4, <2>5, <2>6, <2>7, <2>8, <2>9, <2>10, <2>11
<1>5. \A j \in Job : Stage(j) => Stage(j)'
  BY <1>4 DEF Stage
<1>6. Answered' /\ AllShown'
  BY <1>1, <1>3, <1>5, Stays
<1>7. \A o \in Output \ connected : Apart(o)'
  BY <1>1 DEF IInv, Apart
<1> QED
  BY <1>1, <1>6, <1>7 DEF IInv

LEMMA BeginFrameKeeps ==
    ASSUME IInv, NEW o \in Output, BeginFrame(o)
    PROVE  IInv'
<1>1. /\ clock[o] # NoWall /\ frame' = [frame EXCEPT ![o] = clock[o]]
      /\ UNCHANGED <<mode, configured, connected, faults, shell, surface, clock, applied,
                     session, job, asked, excused>>
  BY DEF BeginFrame, settings, screens, tables
<1>2. /\ frame \in Table /\ clock \in Table
  BY DEF IInv, TypeOK
<1>3. /\ frame' \in Table /\ frame'[o] = clock[o]
      /\ \A p \in Output \ {o} : frame'[p] = frame[p]
  BY <1>1, <1>2 DEF Table
<1>4. TypeOK'
  BY <1>1, <1>3 DEF IInv, TypeOK
<1>5. ASSUME NEW p \in Output
      PROVE  /\ Steady(p) => Steady(p)' /\ surface'[p] = surface[p]
             /\ Quiet(p) => Quiet(p)' /\ surface'[p] = surface[p]
  BY <1>1, <1>3 DEF Steady, Quiet
<1> QED
  BY <1>1, <1>4, <1>5, FramesKeep

LEMMA EndFrameKeeps ==
    ASSUME IInv, NEW o \in Output, EndFrame(o)
    PROVE  IInv'
<1>1. /\ frame[o] # NoWall /\ frame' = [frame EXCEPT ![o] = NoWall]
      /\ surface' \in {surface, [surface EXCEPT ![o] = frame[o]]}
      /\ UNCHANGED <<mode, configured, connected, faults, shell, clock, applied,
                     session, job, asked, excused>>
  BY DEF EndFrame, settings, tables
<1>2. /\ frame \in Table /\ surface \in Table
  BY DEF IInv, TypeOK
<1>3. /\ frame' \in Table /\ frame'[o] = NoWall
      /\ \A p \in Output \ {o} : frame'[p] = frame[p]
  BY <1>1, <1>2 DEF Table
<1>4. /\ surface' \in Table /\ surface'[o] \in {surface[o], frame[o]}
      /\ \A p \in Output \ {o} : surface'[p] = surface[p]
  BY <1>1, <1>2 DEF Table
<1>5. TypeOK'
  BY <1>1, <1>3, <1>4 DEF IInv, TypeOK
<1>6. ASSUME NEW p \in Output
      PROVE  /\ Steady(p) => Steady(p)' /\ surface'[p] = surface[p]
             /\ Quiet(p) => Quiet(p)' /\ surface'[p] = surface[p]
  BY <1>1, <1>3, <1>4 DEF Steady, Quiet
<1> QED
  BY <1>1, <1>5, <1>6, FramesKeep

-----------------------------------------------------------------------------
\* Patches, outputs that come and go, a start.

LEMMA FaultBound ==
    ASSUME IInv, Fault
    PROVE  faults' \in 0..MaxFaults
BY RoutingAssumption DEF RoutingAssumption, IInv, TypeOK, Fault

LEMMA PatchKeeps ==
    ASSUME IInv, Patch
    PROVE  IInv'
<1>1. /\ mode' \in Modes /\ faults' \in 0..MaxFaults
      /\ UNCHANGED <<configured, connected, shell, surface, clock, frame, applied,
                     session, job, asked, excused>>
  BY FaultBound DEF Patch, screens, clocks, tables
<1>2. TypeOK'
  BY <1>1 DEF IInv, TypeOK
<1>3. \A o \in Output : /\ Steady(o) => Steady(o)' /\ surface'[o] = surface[o]
                        /\ Quiet(o) => Quiet(o)' /\ surface'[o] = surface[o]
  BY <1>1 DEF Steady, Quiet
<1> QED
  BY <1>1, <1>2, <1>3, FramesKeep

\* A request that loses an output is no longer one that met nobody; the others
\* keep what they have achieved.
LEMMA UnplugKeeps ==
    ASSUME IInv, NEW o \in Output, Unplug(o)
    PROVE  IInv'
<1> DEFINE marked(r) == [job[r] EXCEPT !.alone = @ /\ o \notin Outputs(r)]
<1>1. /\ o \in connected /\ \A p \in Output : frame[p] = NoWall
      /\ connected' = connected \ {o}
      /\ surface' = [surface EXCEPT ![o] = NoWall]
      /\ clock' = [clock EXCEPT ![o] = NoWall]
      /\ applied' = [applied EXCEPT ![o] = NoWall]
      /\ job' = [r \in Request |-> marked(r)]
      /\ excused' = IF \E r \in Request : o \in Outputs(r) THEN Output ELSE excused
      /\ UNCHANGED <<mode, configured, shell, frame, session, asked>>
  BY DEF Unplug, Meets
<1>2. faults' \in 0..MaxFaults
  BY FaultBound DEF Unplug
<1>3. /\ surface \in Table /\ clock \in Table /\ applied \in Table
      /\ connected \subseteq Output /\ excused \subseteq Output
      /\ job \in [Request -> Job]
  BY DEF IInv, TypeOK
<1>4. /\ surface' \in Table /\ clock' \in Table /\ applied' \in Table
      /\ surface'[o] = NoWall /\ clock'[o] = NoWall /\ applied'[o] = NoWall
      /\ \A p \in Output \ {o} : /\ surface'[p] = surface[p] /\ clock'[p] = clock[p]
                                 /\ applied'[p] = applied[p]
  BY <1>1, <1>3 DEF Table
<1>5. ASSUME NEW r \in Request
      PROVE  /\ marked(r) \in Job
             /\ marked(r).plan = job[r].plan /\ marked(r).todo = job[r].todo
             /\ marked(r).op = job[r].op /\ marked(r).wall = job[r].wall
             /\ marked(r).outputs = job[r].outputs
             /\ o \in job[r].outputs => ~marked(r).alone
             /\ o \notin job[r].outputs => marked(r) = job[r]
  <2> DEFINE j == job[r]
             b == j.alone /\ o \notin j.outputs
  <2>1. j \in Job /\ j.alone \in BOOLEAN
    BY <1>3 DEF Job
  <2>2. b \in BOOLEAN /\ (o \in j.outputs => b = FALSE) /\ (o \notin j.outputs => b = j.alone)
    BY <2>1
  <2>3. marked(r) = [j EXCEPT !.alone = b]
    BY DEF Outputs
  <2> HIDE DEF b, j, marked
  <2>4. /\ [j EXCEPT !.alone = b] \in Job /\ [j EXCEPT !.alone = b].alone = b
        /\ [j EXCEPT !.alone = b].plan = j.plan /\ [j EXCEPT !.alone = b].todo = j.todo
        /\ [j EXCEPT !.alone = b].op = j.op /\ [j EXCEPT !.alone = b].wall = j.wall
        /\ [j EXCEPT !.alone = b].outputs = j.outputs
        /\ b = j.alone => [j EXCEPT !.alone = b] = j
    BY <2>1, <2>2 DEF Job
  <2> QED
    BY <2>2, <2>3, <2>4 DEF j
<1> HIDE DEF marked
<1>6. /\ job' \in [Request -> Job]
      /\ \A r \in Request : job'[r] = marked(r)
  BY <1>1, <1>5
<1>7. excused \subseteq excused' /\ excused' \subseteq Output
  BY <1>1, <1>3
<1>8. TypeOK'
  BY <1>1, <1>2, <1>3, <1>4, <1>6, <1>7 DEF IInv, TypeOK
<1>9. \A p \in Output : Apart(p) => Apart(p)'
  BY <1>1, <1>4, <1>7 DEF Apart, Quiet
<1>10. \A p \in Output \ connected' : Apart(p)'
  <2>1. Apart(o)'
    BY <1>1, <1>4 DEF Apart, Quiet
  <2> QED
    BY <1>1, <1>9, <2>1 DEF IInv
<1>11. ASSUME NEW p \in Output \ {o}
       PROVE  /\ Shown(p) => Shown(p)'
              /\ Steady(p) => Steady(p)'
              /\ Quiet(p) => Quiet(p)'
  BY <1>1, <1>4 DEF Shown, Steady, Visible, Quiet
<1>12. ASSUME NEW outputs, ShownBut(outputs)
       PROVE  ShownBut(outputs)'
  BY <1>1, <1>3, <1>7, <1>11, <1>12 DEF ShownBut
<1>13. ASSUME NEW r \in Request, Live(r), NEW j \in Job, j = job[r], j.alone,
              o \notin j.outputs
       PROVE  Stage(j)'
  <2>2. Stage(j) /\ j.outputs \subseteq Output \ {o}
    BY <1>13, StepNow
  <2>3. excused = Output => excused' = Output
    BY <1>1
  <2>4. Fresh(j.outputs) => Fresh(j.outputs)'
    BY <1>1, <1>3, <1>9 DEF Fresh
  <2>5. Asking(j) => Asking(j)'
    BY <1>12 DEF Asking
  <2>6. Drawing(j) => Drawing(j)'
    BY <1>4, <1>11, <1>12, <2>2 DEF Drawing, Presents
  <2>7. Drawn(j) => Drawn(j)'
    BY <1>4, <1>11, <1>12, <2>2 DEF Drawn, Presents
  <2>8. Routed(j) => Routed(j)'
    BY <1>1, <2>4 DEF Routed
  <2>9. Leaving(j) => Leaving(j)'
    BY <1>1, <1>4, <2>2, <2>4 DEF Leaving
  <2>10. Wiping(j) => Wiping(j)'
    BY <1>1, <1>4, <1>11, <2>2, <2>3, <2>4 DEF Wiping
  <2>11. Clearing(j) => Clearing(j)'
    BY <1>12 DEF Clearing
  <2>12. Blanking(j) => Blanking(j)'
    BY <1>4, <1>12, <2>2 DEF Blanking
  <2>13. Blanked(j) => Blanked(j)'
    BY <1>4, <1>11, <1>12, <2>2 DEF Blanked
  <2> QED
    BY <2>2, <2>5, <2>6, <2>7, <2>8, <2>9, <2>10, <2>11, <2>12, <2>13 DEF Stage
<1>14. ASSUME NEW r \in Request
       PROVE  Live(r)' <=> Live(r)
  <2>1. job[r] \in Job /\ (job[r] = NoJob => job[r].outputs = {})
    BY <1>3 DEF NoJob
  <2>2. CASE o \in job[r].outputs
    <3>1. ~job'[r].alone /\ job[r] # NoJob
      BY <1>5, <1>6, <2>1, <2>2
    <3> QED
      BY <3>1, NoJobFacts DEF Live
  <2>3. CASE o \notin job[r].outputs
    BY <1>5, <1>6, <2>3 DEF Live
  <2> QED
    BY <2>2, <2>3
<1>15. ASSUME NEW r \in Request, Live(r)'
       PROVE  Answers(r)'
  <2>1. Live(r) /\ Answers(r)
    BY <1>14, <1>15 DEF IInv, Answered
  <2>2. PICK j \in Job : j = job[r]
    BY <1>3
  <2>3. PICK k \in Job : k = marked(r) /\ k = job'[r]
    BY <1>5, <1>6
  <2>4. /\ k.plan = j.plan /\ k.todo = j.todo /\ k.op = j.op /\ k.wall = j.wall
        /\ k.outputs = j.outputs
        /\ o \in j.outputs => ~k.alone
        /\ o \notin j.outputs => k = j
    BY <1>5, <2>2, <2>3
  <2>5. Form(j) /\ (~j.alone => excused = Output)
    BY <2>1, <2>2 DEF Answers
  <2>6. k.alone => k = j /\ o \notin j.outputs
    BY <2>4
  <2>7. Form(k)'
    <3>1. k.alone => k.outputs \subseteq connected'
      BY <1>1, <2>4, <2>5, <2>6 DEF Form
    <3> QED
      BY <2>4, <2>5, <3>1 DEF Form
  <2>8. ~k.alone => excused' = Output
    <3>1. o \in j.outputs => \E q \in Request : o \in Outputs(q)
      BY <2>2 DEF Outputs
    <3> QED
      BY <1>1, <2>4, <2>5, <3>1
  <2>9. k.alone => \A q \in Request : Live(q)' => q = r
    BY <1>14, <2>1, <2>2, <2>6 DEF Answers
  <2>10. k.alone => Stage(k)'
    BY <1>13, <2>1, <2>2, <2>6
  <2> QED
    BY <2>3, <2>7, <2>8, <2>9, <2>10 DEF Answers
<1>16. Answered'
  BY <1>15 DEF Answered, Answers
<1>17. AllShown'
  BY <1>12, <1>14 DEF IInv, AllShown
<1> QED
  BY <1>8, <1>10, <1>16, <1>17 DEF IInv

LEMMA PlugKeeps ==
    ASSUME IInv, NEW o \in Output, Plug(o)
    PROVE  IInv'
<1>1. /\ o \notin connected
      /\ connected' = connected \cup {o}
      /\ UNCHANGED <<mode, configured, faults, shell, surface, clock, frame, applied,
                     session, job, asked, excused>>
  BY DEF Plug, screens, clocks, tables
<1>2. connected \subseteq Output /\ \A p \in Output \ connected : Apart(p)
  BY DEF IInv, TypeOK
<1>3. TypeOK'
  BY <1>1 DEF IInv, TypeOK
<1>4. \A p \in Output : Apart(p) => Apart(p)'
  BY <1>1 DEF Apart, Quiet
<1>5. \A p \in Output : Shown(p) => Shown(p)'
  BY <1>1 DEF Shown, Steady, Visible
<1>6. o \in excused \/ Shown(o)
  BY <1>1, <1>2 DEF Apart, Quiet, Shown, Steady
<1>7. ASSUME NEW outputs, ShownBut(outputs)
      PROVE  ShownBut(outputs)'
  BY <1>1, <1>2, <1>5, <1>6, <1>7 DEF ShownBut
<1>8. ASSUME NEW j \in Job, Stage(j)
      PROVE  Stage(j)'
  <2>1. Fresh(j.outputs) => Fresh(j.outputs)'
    BY <1>1, <1>2, <1>4 DEF Fresh
  <2>2. Asking(j) => Asking(j)'
    BY <1>7 DEF Asking
  <2>3. /\ Drawing(j) => Drawing(j)'
        /\ Drawn(j) => Drawn(j)'
    BY <1>1, <1>7 DEF Drawing, Drawn, Presents, Steady
  <2>4. /\ Routed(j) => Routed(j)'
        /\ Leaving(j) => Leaving(j)'
        /\ Wiping(j) => Wiping(j)'
    BY <1>1, <2>1 DEF Routed, Leaving, Wiping, Quiet
  <2>5. /\ Clearing(j) => Clearing(j)'
        /\ Blanking(j) => Blanking(j)'
        /\ Blanked(j) => Blanked(j)'
    BY <1>1, <1>7 DEF Clearing, Blanking, Blanked, Quiet
  <2> QED
    BY <1>8, <2>2, <2>3, <2>4, <2>5 DEF Stage
<1>9. ASSUME NEW r \in Request, Live(r)'
      PROVE  Answers(r)'
  <2>1. Live(r) /\ Answers(r) /\ job[r] \in Job
    BY <1>1, <1>9 DEF Live, IInv, Answered, TypeOK
  <2>2. PICK j \in Job : j = job[r] /\ j = job'[r]
    BY <1>1, <2>1
  <2>3. Form(j)'
    BY <1>1, <2>1, <2>2 DEF Answers, Form
  <2>4. j.alone => Stage(j)' /\ \A q \in Request : Live(q)' => q = r
    BY <1>1, <1>8, <2>1, <2>2 DEF Answers, Live
  <2>5. ~j.alone => excused' = Output
    BY <1>1, <2>1, <2>2 DEF Answers
  <2> QED
    BY <2>2, <2>3, <2>4, <2>5 DEF Answers
<1>10. Answered'
  BY <1>9 DEF Answered, Answers
<1>11. AllShown'
  BY <1>1, <1>7 DEF IInv, AllShown, Live
<1>12. \A p \in Output \ connected' : Apart(p)'
  BY <1>1, <1>2, <1>4
<1> QED
  BY <1>3, <1>10, <1>11, <1>12 DEF IInv

LEMMA RestartKeeps ==
    ASSUME IInv, Restart
    PROVE  IInv'
<1>1. /\ mode' = configured
      /\ surface' = [o \in Output |-> NoWall]
      /\ clock' = surface' /\ frame' = surface' /\ applied' = surface'
      /\ job' = [r \in Request |-> NoJob]
      /\ excused' = {}
      /\ UNCHANGED <<configured, connected, shell, session, asked>>
  BY DEF Restart
<1>2. faults' \in 0..MaxFaults
  BY FaultBound DEF Restart
<1>3. surface' \in Table /\ \A o \in Output : surface'[o] = NoWall
  BY <1>1 DEF Table
<1>4. job' \in [Request -> Job] /\ \A r \in Request : job'[r] = NoJob
  BY <1>1, NoJobFacts
<1>5. TypeOK'
  BY <1>1, <1>2, <1>3, <1>4 DEF IInv, TypeOK
<1>6. \A o \in Output : Apart(o)' /\ Shown(o)'
  BY <1>1, <1>3 DEF Apart, Quiet, Shown, Steady
<1>7. connected \subseteq Output
  BY DEF IInv, TypeOK
<1>8. ShownBut({})'
  BY <1>1, <1>6, <1>7 DEF ShownBut
<1>9. Answered'
  BY <1>4 DEF Answered, Answers, Live
<1> QED
  BY <1>5, <1>6, <1>8, <1>9 DEF IInv, AllShown

-----------------------------------------------------------------------------
\* The steps of a request.

LEMMA UnmovedShown ==
    ASSUME NEW outputs, ShownBut(outputs),
           UNCHANGED <<connected, shell, surface, clock, frame, applied, excused>>
    PROVE  ShownBut(outputs)'
BY DEF ShownBut, Shown, Steady, Visible

LEMMA RouteKeeps ==
    ASSUME IInv, NEW r \in Request, Route(r)
    PROVE  IInv'
<1>1. /\ Live(r) /\ Head(job[r].plan) = "mode"
      /\ UNCHANGED <<mode, configured, connected, faults, surface, clock, frame, applied,
                     session, asked, excused>>
  BY DEF Route, At, settings, clocks, tables
<1>2. /\ job[r].alone => Stage(job[r])
      /\ ~job[r].alone => excused = Output
      /\ job[r] \in Job /\ job[r].wall \in Wall \cup {NoWall}
      /\ job[r].plan \in Plan /\ job[r].plan # <<>>
  BY <1>1, StepNow, JobNow
<1>3. job[r].alone => Asking(job[r])
  BY <1>1, <1>2, StageAt
<1>4. \A o \in Output \ connected : Apart(o)'
  BY <1>1 DEF IInv, Apart, Quiet
<1>5. CASE WholeSession(r) /\ shell' = job[r].wall /\ Follows(r, RoutedPlan)
  <2>1. /\ RoutedPlan \in Plan /\ RoutedPlan # <<>>
        /\ Head(RoutedPlan) \notin {"mode", "draw"}
    BY DEF RoutedPlan, Plan
  <2>2. PICK k \in Job : /\ Becomes(r, k) /\ Form(k) /\ Same(k, job[r])
                         /\ k.plan = RoutedPlan
    BY <1>1, <1>5, <2>1, FollowsJob, Zenon
  <2>3. TypeOK'
    BY <1>1, <1>2, <1>5, <2>2 DEF IInv, TypeOK, Becomes
  <2>4. ASSUME job[r].alone
        PROVE  Stage(k)'
    <3>1. job[r].outputs \subseteq connected /\ connected \subseteq Output
      BY <1>1, <2>4, JobNow DEF Form, IInv, TypeOK
    <3>2. IsFiniteSet(connected)
      BY <3>1, RoutingAssumption, FS_Subset DEF RoutingAssumption
    <3>3. job[r].outputs = connected
      BY <1>5, <3>1, <3>2, FS_Subset DEF WholeSession, Outputs
    <3> QED
      BY <1>1, <1>5, <2>2, <3>3 DEF Stage, Routed, Fresh, RoutedPlan, Same
  <2>5. Answered' /\ AllShown'
    <3>1. k # NoJob
      BY <2>2, NoJobFacts DEF Form
    <3>2. k.alone = job[r].alone
      BY <2>2 DEF Same
    <3> QED
      BY <1>1, <1>2, <2>2, <2>3, <2>4, <3>1, <3>2, Advance
  <2> QED
    BY <1>1, <1>4, <2>3, <2>5 DEF IInv
<1>6. CASE UNCHANGED shell /\ Fails(r)
  <2>1. Becomes(r, NoJob) /\ NoJob \in Job
    BY <1>6, FailsJob, NoJobFacts
  <2>2. TypeOK'
    BY <1>1, <1>6, <2>1 DEF IInv, TypeOK, Becomes
  <2>3. job[r].alone => ShownBut({})'
    BY <1>1, <1>3, <1>6, UnmovedShown DEF Asking
  <2>4. Answered' /\ AllShown'
    BY <1>1, <1>2, <2>1, <2>2, <2>3, Advance
  <2> QED
    BY <1>1, <1>4, <2>2, <2>4 DEF IInv
<1> QED
  BY <1>5, <1>6 DEF Route

LEMMA RefuseClearKeeps ==
    ASSUME IInv, NEW r \in Request, RefuseClear(r)
    PROVE  IInv'
<1>1. /\ Live(r) /\ Head(job[r].plan) = "mode" /\ Fails(r)
      /\ UNCHANGED <<mode, configured, connected, faults, shell, surface, clock, frame,
                     applied, session, asked, excused>>
  BY DEF RefuseClear, At, settings, screens, clocks, tables
<1>2. /\ job[r].alone => Stage(job[r])
      /\ ~job[r].alone => excused = Output
      /\ job[r] \in Job
  BY <1>1, StepNow, JobNow
<1>3. job[r].alone => Asking(job[r])
  BY <1>1, <1>2, StageAt
<1>4. Becomes(r, NoJob) /\ NoJob \in Job
  BY <1>1, FailsJob, NoJobFacts
<1>5. TypeOK'
  BY <1>1, <1>4 DEF IInv, TypeOK, Becomes
<1>6. job[r].alone => ShownBut({})'
  BY <1>1, <1>3, UnmovedShown DEF Asking
<1>7. Answered' /\ AllShown'
  BY <1>1, <1>2, <1>4, <1>5, <1>6, Advance
<1>8. \A o \in Output \ connected : Apart(o)'
  BY <1>1 DEF IInv, Apart, Quiet
<1> QED
  BY <1>1, <1>5, <1>7, <1>8 DEF IInv

LEMMA DrawKeeps ==
    ASSUME IInv, NEW r \in Request, Draw(r)
    PROVE  IInv'
<1> DEFINE p == IF job[r].op = "set" THEN <<"draw", "record">>
                ELSE <<"halt", "blank", "forget">>
<1>1. /\ Live(r) /\ Head(job[r].plan) = "mode" /\ Follows(r, p)
      /\ UNCHANGED <<mode, configured, connected, faults, shell, surface, clock, frame,
                     applied, session, asked, excused>>
  BY DEF Draw, At, settings, screens, clocks, tables
<1>2. /\ job[r].alone => Stage(job[r])
      /\ ~job[r].alone => excused = Output
      /\ job[r] \in Job /\ Form(job[r])
  BY <1>1, StepNow, JobNow
<1>3. job[r].alone => Asking(job[r])
  BY <1>1, <1>2, StageAt
<1>4. p \in Plan /\ p # <<>>
  BY DEF Plan
<1>5. job[r].todo # <<>>
  BY <1>1, <1>2 DEF Form
<1>6. PICK k \in Job : /\ Becomes(r, k) /\ Form(k) /\ Same(k, job[r])
                       /\ k.plan = p /\ k.todo = job[r].todo
  BY <1>1, <1>4, <1>5, FollowsJob, Zenon
<1>7. TypeOK'
  BY <1>1, <1>6 DEF IInv, TypeOK, Becomes
<1>8. ASSUME job[r].alone
      PROVE  Stage(k)'
  <2>1. ShownBut({}) /\ ToSet(k.todo) = k.outputs
    BY <1>3, <1>6, <1>8 DEF Asking, Same
  <2>2. ShownBut(k.outputs)
    BY <2>1 DEF ShownBut
  <2>3. ShownBut(k.outputs)'
    BY <1>1, <2>2, UnmovedShown
  <2>4. CASE job[r].op = "set"
    <3>1. k.plan = <<"draw", "record">>
      BY <1>6, <2>4
    <3>2. k.outputs \ ToSet(k.todo) = {}
      BY <2>1
    <3>3. Drawing(k)'
      BY <2>3, <3>1, <3>2 DEF Drawing, Presents
    <3> QED
      BY <3>3 DEF Stage
  <2>5. CASE job[r].op # "set"
    <3>1. k.plan = <<"halt", "blank", "forget">>
      BY <1>6, <2>5
    <3>2. k.wall = NoWall
      BY <1>2, <1>6, <2>5 DEF Form, Same
    <3>3. Clearing(k)'
      BY <2>3, <3>1, <3>2 DEF Clearing
    <3> QED
      BY <3>3 DEF Stage
  <2> QED
    BY <2>4, <2>5
<1>9. Answered' /\ AllShown'
  <2>1. k # NoJob
    BY <1>6, NoJobFacts DEF Form
  <2>2. k.alone = job[r].alone
    BY <1>6 DEF Same
  <2> QED
    BY <1>1, <1>2, <1>6, <1>7, <1>8, <2>1, <2>2, Advance
<1>10. \A o \in Output \ connected : Apart(o)'
  BY <1>1 DEF IInv, Apart, Quiet
<1> QED
  BY <1>1, <1>7, <1>9, <1>10 DEF IInv

\* What is written down was shown before, or is not shown and nothing is claimed.
LEMMA WriteKeeps ==
    ASSUME IInv, NEW r \in Request, Live(r), Write(r),
           Head(job[r].plan) \in {"record", "forget"},
           UNCHANGED <<settings, screens, clocks, asked>>
    PROVE  IInv'
<1> DEFINE j == job[r]
<1>1. UNCHANGED <<mode, configured, connected, faults, shell, surface, clock, frame, asked>>
  BY DEF settings, screens, clocks
<1>2. /\ j.alone => Stage(j)
      /\ ~j.alone => excused = Output
      /\ \A o \in j.outputs : o \in Output /\ (j.alone => o \in connected)
      /\ j.wall \in Wall \cup {NoWall}
      /\ j \in Job /\ connected \subseteq Output
      /\ excused \subseteq Output /\ applied \in Table /\ session \in Table
  BY StepNow, JobNow DEF IInv, TypeOK
<1>3. j.alone => Drawn(j) \/ Routed(j) \/ Blanked(j)
  BY <1>2, StageAt
<1>4. CASE /\ applied' = Over(applied, j.outputs, j.wall)
           /\ session' = Over(session, j.outputs, j.wall)
           /\ Settles(r) /\ Done(r)
  <2>1. /\ applied' \in Table /\ session' \in Table
        /\ \A o \in Output : applied'[o] = IF o \in j.outputs THEN j.wall ELSE applied[o]
    BY <1>2, <1>4, OverFacts
  <2>2. PICK k \in Job : /\ Becomes(r, k)
                         /\ Tail(j.plan) = <<>> => k = NoJob
                         /\ (Tail(j.plan) # <<>>) =>
                                /\ Form(k) /\ Same(k, j)
                                /\ k.plan = Tail(j.plan)
    BY <1>4, DoneJob, Zenon
  <2>3. excused' = IF j.alone THEN excused \ j.outputs ELSE excused
    BY <1>4 DEF Settles, Outputs
  <2>4. TypeOK'
    BY <1>1, <1>2, <2>1, <2>2, <2>3 DEF IInv, TypeOK, Becomes
  <2>5. ASSUME NEW o \in Output \ connected
        PROVE  Apart(o)'
    <3>1. Apart(o)
      BY DEF IInv
    <3>2. CASE j.alone
      <4>1. applied'[o] = applied[o] /\ (o \in excused => o \in excused')
        BY <1>2, <2>1, <2>3, <3>2
      <4> QED
        BY <1>1, <3>1, <4>1 DEF Apart, Quiet
    <3>3. CASE ~j.alone
      <4>1. o \in excused'
        BY <1>2, <2>3, <3>3
      <4> QED
        BY <1>1, <3>1, <4>1 DEF Apart, Quiet
    <3> QED
      BY <3>2, <3>3
  <2>6. ASSUME NEW o \in connected \ (excused' \cup j.outputs), ShownBut(j.outputs), j.alone
        PROVE  Shown(o)'
    <3>1. Shown(o) /\ applied'[o] = applied[o]
      BY <1>2, <2>1, <2>3, <2>6 DEF ShownBut
    <3> QED
      BY <1>1, <3>1 DEF Shown, Steady, Visible
  <2>7. ASSUME j.alone, Drawn(j)
        PROVE  ShownBut({})' /\ Tail(j.plan) = <<>>
    <3>1. ASSUME NEW o \in j.outputs
          PROVE  Shown(o)'
      <4>1. Steady(o) /\ surface[o] = j.wall /\ applied'[o] = j.wall
        BY <1>2, <2>1, <2>7 DEF Drawn, Presents
      <4> QED
        BY <1>1, <4>1 DEF Shown, Steady, Visible
    <3>2. ShownBut({})'
      BY <1>1, <2>6, <2>7, <3>1 DEF Drawn, ShownBut
    <3>3. j.plan = <<"record">>
      BY <2>7 DEF Drawn
    <3> QED
      BY <3>2, <3>3, Tails
  <2>8. ASSUME j.alone, Blanked(j)
        PROVE  ShownBut({})' /\ Tail(j.plan) = <<>>
    <3>1. ASSUME NEW o \in j.outputs
          PROVE  Shown(o)'
      <4>1. Quiet(o) /\ applied'[o] = NoWall
        BY <1>2, <2>1, <2>8 DEF Blanked
      <4> QED
        BY <1>1, <4>1 DEF Shown, Steady, Quiet
    <3>2. ShownBut({})'
      BY <1>1, <2>6, <2>8, <3>1 DEF Blanked, ShownBut
    <3>3. j.plan = <<"forget">>
      BY <2>8 DEF Blanked
    <3> QED
      BY <3>2, <3>3, Tails
  <2>9. ASSUME j.alone, Routed(j)
        PROVE  k # NoJob /\ Stage(k)'
    <3>1. j.plan = <<"record", "halt", "wipe">> /\ Fresh(j.outputs) /\ shell = j.wall
      BY <2>9 DEF Routed
    <3>2. Tail(j.plan) = <<"halt", "wipe">>
      BY <3>1, Tails
    <3>3. Tail(j.plan) # <<>>
      BY <3>2, Heads, Zenon
    <3>4. Form(k) /\ Same(k, j) /\ k.plan = <<"halt", "wipe">>
      BY <2>2, <3>2, <3>3
    <3>7. k.outputs = j.outputs /\ k.wall = j.wall
      BY <3>4 DEF Same
    <3>8. ASSUME NEW o \in connected \ j.outputs
          PROVE  Apart(o)'
      <4>1. Apart(o) /\ applied'[o] = applied[o] /\ (o \in excused => o \in excused')
        BY <1>2, <2>1, <2>3, <3>1 DEF Fresh
      <4> QED
        BY <1>1, <4>1 DEF Apart, Quiet
    <3>9. Fresh(k.outputs)'
      BY <1>1, <3>7, <3>8 DEF Fresh
    <3>5. Leaving(k)'
      BY <1>1, <1>2, <2>1, <3>1, <3>4, <3>7, <3>9 DEF Leaving
    <3>6. k # NoJob
      BY <3>4, NoJobFacts DEF Form
    <3> QED
      BY <3>5, <3>6 DEF Stage
  <2>10. k # NoJob => Form(k) /\ k.alone = j.alone
    BY <2>2 DEF Same
  <2>11. j.alone /\ k = NoJob => ShownBut({})'
    BY <1>3, <2>7, <2>8, <2>9
  <2>12. j.alone /\ k # NoJob => Stage(k)'
    BY <1>3, <2>2, <2>7, <2>8, <2>9
  <2>13. Answered' /\ AllShown'
    BY <1>1, <1>2, <2>2, <2>3, <2>4, <2>10, <2>11, <2>12, Advance
  <2> QED
    BY <1>1, <2>4, <2>5, <2>13 DEF IInv
<1>5. CASE Fails(r) /\ Doubts /\ UNCHANGED tables
  <2>1. /\ Becomes(r, NoJob) /\ NoJob \in Job /\ excused' = Output
        /\ applied' = applied /\ session' = session
    BY <1>5, FailsJob, NoJobFacts DEF Doubts, tables
  <2>2. TypeOK'
    BY <1>1, <1>2, <2>1 DEF IInv, TypeOK, Becomes
  <2>3. ShownBut({})'
    BY <1>1, <1>2, <2>1 DEF ShownBut
  <2>4. Answered' /\ AllShown'
    BY <1>1, <1>2, <2>1, <2>2, <2>3, Advance
  <2>5. \A o \in Output \ connected : Apart(o)'
    BY <1>1, <2>1 DEF IInv, Apart, Quiet
  <2> QED
    BY <1>1, <2>2, <2>4, <2>5 DEF IInv
<1> QED
  BY <1>4, <1>5 DEF Write, Outputs

LEMMA HaltKeeps ==
    ASSUME IInv, NEW r \in Request, Halt(r)
    PROVE  IInv'
<1> DEFINE j == job[r]
<1>1. /\ Live(r) /\ Head(j.plan) = "halt" /\ Done(r)
      /\ clock' = Over(clock, j.outputs, NoWall)
      /\ IF \E o \in j.outputs : frame[o] # NoWall THEN excused' = Output
                                                  ELSE excused' = excused
      /\ UNCHANGED <<mode, configured, connected, faults, shell, surface, frame, applied,
                     session, asked>>
  BY DEF Halt, At, Outputs, Doubts, settings, screens, tables
<1>2. /\ j.alone => Stage(j)
      /\ ~j.alone => excused = Output
      /\ \A o \in j.outputs : o \in Output /\ (j.alone => o \in connected)
      /\ j \in Job /\ connected \subseteq Output
      /\ excused \subseteq Output /\ clock \in Table
  BY <1>1, StepNow, JobNow DEF IInv, TypeOK
<1>3. j.alone => Leaving(j) \/ Clearing(j)
  BY <1>1, <1>2, StageAt
<1>4. /\ clock' \in Table
      /\ \A o \in Output : clock'[o] = IF o \in j.outputs THEN NoWall ELSE clock[o]
  BY <1>1, <1>2, OverFacts
<1>5. PICK k \in Job : /\ Becomes(r, k)
                       /\ Tail(j.plan) = <<>> => k = NoJob
                       /\ (Tail(j.plan) # <<>>) =>
                              /\ Form(k) /\ Same(k, j)
                              /\ k.plan = Tail(j.plan)
  BY <1>1, DoneJob, Zenon
<1>6. /\ excused' \subseteq Output /\ excused \subseteq excused'
      /\ excused' = Output \/ \A o \in j.outputs : frame[o] = NoWall
  BY <1>1, <1>2
<1>7. TypeOK'
  BY <1>1, <1>4, <1>5, <1>6 DEF IInv, TypeOK, Becomes
<1>8. \A o \in Output \ connected : Apart(o)'
  BY <1>1, <1>4 DEF IInv, Apart, Quiet
<1>9. ASSUME j.alone, Leaving(j)
      PROVE  k # NoJob /\ Stage(k)'
  <2>1. /\ j.plan = <<"halt", "wipe">> /\ Fresh(j.outputs) /\ shell = j.wall
        /\ \A o \in j.outputs : applied[o] = j.wall
    BY <1>9 DEF Leaving
  <2>2. Tail(j.plan) = <<"wipe">>
    BY <2>1, Tails
  <2>3. Tail(j.plan) # <<>>
    BY <2>2, Heads, Zenon
  <2>4. Form(k) /\ Same(k, j) /\ k.plan = <<"wipe">>
    BY <1>5, <2>2, <2>3
  <2>5. excused' = Output \/ \A o \in j.outputs : Quiet(o)'
    BY <1>1, <1>2, <1>4, <1>6 DEF Quiet
  <2>8. k.outputs = j.outputs /\ k.wall = j.wall
    BY <2>4 DEF Same
  <2>9. ASSUME NEW o \in connected \ j.outputs
        PROVE  Apart(o)'
    <3>1. Apart(o) /\ clock'[o] = clock[o] /\ (o \in excused => o \in excused')
      BY <1>2, <1>4, <1>6, <2>1 DEF Fresh
    <3> QED
      BY <1>1, <3>1 DEF Apart, Quiet
  <2>10. Fresh(k.outputs)'
    BY <1>1, <2>8, <2>9 DEF Fresh
  <2>11. \A o \in k.outputs : applied'[o] = k.wall
    BY <1>1, <2>1, <2>8
  <2>6. Wiping(k)'
    BY <1>1, <2>1, <2>4, <2>5, <2>8, <2>10, <2>11 DEF Wiping
  <2>7. k # NoJob
    BY <2>4, NoJobFacts DEF Form
  <2> QED
    BY <2>6, <2>7 DEF Stage
<1>10. ASSUME j.alone, Clearing(j)
       PROVE  k # NoJob /\ Stage(k)'
  <2>1. j.plan = <<"halt", "blank", "forget">> /\ j.wall = NoWall /\ ShownBut(j.outputs)
    BY <1>10 DEF Clearing
  <2>2. Tail(j.plan) = <<"blank", "forget">>
    BY <2>1, Tails
  <2>3. Tail(j.plan) # <<>>
    BY <2>2, Heads, Zenon
  <2>4. Form(k) /\ Same(k, j) /\ k.plan = <<"blank", "forget">>
    BY <1>5, <2>2, <2>3
  <2>5. k.outputs = j.outputs /\ k.wall = NoWall
    BY <2>1, <2>4 DEF Same
  <2>6. ASSUME NEW o \in connected \ (excused' \cup k.outputs)
        PROVE  Shown(o)'
    <3>1. Shown(o) /\ clock'[o] = clock[o]
      BY <1>2, <1>4, <1>6, <2>1, <2>5 DEF ShownBut
    <3> QED
      BY <1>1, <3>1 DEF Shown, Steady, Visible
  <2>7. ShownBut(k.outputs)'
    BY <1>1, <2>6 DEF ShownBut
  <2>8. \A o \in k.outputs : clock'[o] = NoWall
    BY <1>2, <1>4, <2>5
  <2>9. Blanking(k)'
    BY <2>4, <2>5, <2>7, <2>8 DEF Blanking
  <2>10. k # NoJob
    BY <2>4, NoJobFacts DEF Form
  <2> QED
    BY <2>9, <2>10 DEF Stage
<1>11. k # NoJob => Form(k) /\ k.alone = j.alone
  BY <1>5 DEF Same
<1>12. ~j.alone => excused' = Output
  BY <1>2, <1>6
<1>13. j.alone => k # NoJob /\ Stage(k)'
  BY <1>3, <1>9, <1>10
<1>14. Answered' /\ AllShown'
  BY <1>1, <1>5, <1>7, <1>11, <1>12, <1>13, Advance
<1> QED
  BY <1>1, <1>7, <1>8, <1>14 DEF IInv

LEMMA WipeKeeps ==
    ASSUME IInv, NEW r \in Request, Wipe(r)
    PROVE  IInv'
<1> DEFINE j == job[r]
<1>1. /\ Live(r) /\ Head(j.plan) = "wipe" /\ Done(r)
      /\ UNCHANGED <<mode, configured, connected, faults, shell, clock, frame, applied,
                     session, asked>>
  BY DEF Wipe, At, settings, clocks, tables
<1>2. /\ j.alone => Stage(j)
      /\ ~j.alone => excused = Output
      /\ \A o \in j.outputs : o \in Output /\ (j.alone => o \in connected)
      /\ j \in Job /\ connected \subseteq Output
      /\ excused \subseteq Output /\ surface \in Table
  BY <1>1, StepNow, JobNow DEF IInv, TypeOK
<1>3. j.alone => Wiping(j)
  BY <1>1, <1>2, StageAt
<1>4. PICK left \in SUBSET j.outputs :
          /\ surface' = IF \E o \in Output : frame[o] # NoWall THEN surface
                        ELSE Over(surface, j.outputs \ left, NoWall)
          /\ excused' = excused \cup left
  BY DEF Wipe, Outputs
<1>12. /\ Over(surface, j.outputs \ left, NoWall) \in Table
       /\ \A o \in Output : Over(surface, j.outputs \ left, NoWall)[o]
                               = IF o \in j.outputs \ left THEN NoWall ELSE surface[o]
  BY <1>2, OverFacts
<1>5. /\ surface' \in Table
      /\ \A o \in Output : surface'[o] \in {NoWall, surface[o]}
      /\ (\A o \in Output : frame[o] = NoWall) =>
             \A o \in j.outputs \ left : surface'[o] = NoWall
      /\ excused' \subseteq Output
  BY <1>2, <1>4, <1>12
<1>6. PICK k \in Job : /\ Becomes(r, k)
                       /\ Tail(j.plan) = <<>> => k = NoJob
                       /\ (Tail(j.plan) # <<>>) =>
                              /\ Form(k) /\ Same(k, j)
                              /\ k.plan = Tail(j.plan)
  BY <1>1, DoneJob, Zenon
<1>7. TypeOK'
  BY <1>1, <1>5, <1>6 DEF IInv, TypeOK, Becomes
<1>8. \A o \in Output \ connected : Apart(o)'
  BY <1>1, <1>4, <1>5 DEF IInv, Apart, Quiet
<1>9. ASSUME j.alone
      PROVE  k = NoJob /\ ShownBut({})'
  <2>1. /\ j.plan = <<"wipe">> /\ Fresh(j.outputs) /\ shell = j.wall
        /\ \A o \in j.outputs : applied[o] = j.wall
        /\ excused = Output \/ \A o \in j.outputs : Quiet(o)
    BY <1>3, <1>9 DEF Wiping
  <2>2. k = NoJob
    BY <1>6, <2>1, Tails
  <2>3. CASE excused = Output
    BY <1>1, <1>2, <1>4, <2>2, <2>3 DEF ShownBut
  <2>4. CASE \A o \in j.outputs : Quiet(o)
    <3>1. \A o \in Output : frame[o] = NoWall
      BY <2>1, <2>4 DEF IInv, Fresh, Apart, Quiet
    <3>2. ASSUME NEW o \in j.outputs \ excused'
          PROVE  Shown(o)'
      <4>1. surface'[o] = NoWall /\ o \in Output
        BY <1>2, <1>4, <1>5, <3>1
      <4> QED
        BY <1>1, <2>1, <2>4, <4>1 DEF Shown, Steady, Quiet, Visible
    <3>3. ASSUME NEW o \in connected \ (j.outputs \cup excused')
          PROVE  Shown(o)'
      <4>1. Apart(o) /\ o \notin excused /\ surface'[o] = NoWall
        BY <1>2, <1>4, <1>5, <2>1 DEF Fresh, Apart
      <4> QED
        BY <1>1, <4>1 DEF Apart, Quiet, Shown, Steady
    <3> QED
      BY <1>1, <2>2, <3>2, <3>3 DEF ShownBut
  <2> QED
    BY <2>1, <2>3, <2>4
<1>10. k # NoJob => Form(k) /\ k.alone = j.alone
  BY <1>6 DEF Same
<1>11. Answered' /\ AllShown'
  <2>1. ~j.alone => excused' = Output
    BY <1>2, <1>4
  <2> QED
    BY <1>1, <1>2, <1>6, <1>7, <1>9, <1>10, <2>1, Advance
<1> QED
  BY <1>1, <1>7, <1>8, <1>11 DEF IInv

LEMMA BlankKeeps ==
    ASSUME IInv, NEW r \in Request, Blank(r)
    PROVE  IInv'
<1> DEFINE j == job[r]
<1>1. /\ Live(r) /\ Head(j.plan) = "blank"
      /\ \A o \in Output : frame[o] = NoWall
      /\ UNCHANGED <<mode, configured, connected, faults, shell, clock, frame, applied,
                     session, asked>>
  BY DEF Blank, At, settings, clocks, tables
<1>2. /\ j.alone => Stage(j)
      /\ ~j.alone => excused = Output
      /\ \A o \in j.outputs : o \in Output /\ (j.alone => o \in connected)
      /\ j \in Job /\ connected \subseteq Output
      /\ excused \subseteq Output /\ surface \in Table
  BY <1>1, StepNow, JobNow DEF IInv, TypeOK
<1>3. j.alone => Blanking(j)
  BY <1>1, <1>2, StageAt
<1>4. CASE surface' = Over(surface, j.outputs, NoWall) /\ Done(r) /\ UNCHANGED excused
  <2>4. /\ surface' \in Table
        /\ \A o \in Output : surface'[o] = IF o \in j.outputs THEN NoWall ELSE surface[o]
    BY <1>2, <1>4, OverFacts
  <2>5. PICK k \in Job : /\ Becomes(r, k)
                         /\ Tail(j.plan) = <<>> => k = NoJob
                         /\ (Tail(j.plan) # <<>>) =>
                                /\ Form(k) /\ Same(k, j)
                                /\ k.plan = Tail(j.plan)
    BY <1>1, <1>4, DoneJob, Zenon
  <2>6. TypeOK'
    BY <1>1, <1>4, <2>4, <2>5 DEF IInv, TypeOK, Becomes
  <2>7. \A o \in Output \ connected : Apart(o)'
    BY <1>1, <1>4, <2>4 DEF IInv, Apart, Quiet
  <2>8. ASSUME j.alone
        PROVE  k # NoJob /\ Stage(k)'
    <3>1. /\ j.plan = <<"blank", "forget">> /\ j.wall = NoWall /\ ShownBut(j.outputs)
          /\ \A o \in j.outputs : clock[o] = NoWall
      BY <1>3, <2>8 DEF Blanking
    <3>2. Tail(j.plan) = <<"forget">>
      BY <3>1, Tails
    <3>3. Tail(j.plan) # <<>>
      BY <3>2, Heads, Zenon
    <3>4. Form(k) /\ Same(k, j) /\ k.plan = <<"forget">>
      BY <2>5, <3>2, <3>3
    <3>5. k.outputs = j.outputs /\ k.wall = NoWall
      BY <3>1, <3>4 DEF Same
    <3>6. ASSUME NEW o \in connected \ (excused \cup j.outputs)
          PROVE  Shown(o)'
      <4>1. Shown(o) /\ surface'[o] = surface[o]
        BY <1>2, <2>4, <3>1 DEF ShownBut
      <4> QED
        BY <1>1, <4>1 DEF Shown, Steady, Visible
    <3>7. ShownBut(k.outputs)'
      BY <1>1, <1>4, <3>5, <3>6 DEF ShownBut
    <3>8. \A o \in k.outputs : Quiet(o)' /\ surface'[o] = NoWall
      BY <1>1, <1>2, <2>4, <3>1, <3>5 DEF Quiet
    <3>9. Blanked(k)'
      BY <3>4, <3>5, <3>7, <3>8 DEF Blanked
    <3>10. k # NoJob
      BY <3>4, NoJobFacts DEF Form
    <3> QED
      BY <3>9, <3>10 DEF Stage
  <2>9. k # NoJob => Form(k) /\ k.alone = j.alone
    BY <2>5 DEF Same
  <2>10. Answered' /\ AllShown'
    BY <1>1, <1>2, <1>4, <2>5, <2>6, <2>8, <2>9, Advance
  <2> QED
    BY <1>1, <2>6, <2>7, <2>10 DEF IInv
<1>5. CASE /\ \E cleared \in SUBSET j.outputs : surface' = Over(surface, cleared, NoWall)
           /\ Fails(r) /\ Doubts
  <2>1. /\ Becomes(r, NoJob) /\ NoJob \in Job /\ excused' = Output
    BY <1>5, FailsJob, NoJobFacts DEF Doubts
  <2>2. PICK cleared \in SUBSET j.outputs : surface' = Over(surface, cleared, NoWall)
    BY <1>5
  <2>3. surface' \in Table /\ \A o \in Output : surface'[o] \in {NoWall, surface[o]}
    BY <1>2, <2>2, OverFacts
  <2>4. TypeOK'
    BY <1>1, <2>1, <2>3 DEF IInv, TypeOK, Becomes
  <2>5. ShownBut({})'
    BY <2>1, <2>4, InDoubt DEF TypeOK, ShownBut
  <2>6. Answered' /\ AllShown'
    BY <1>1, <1>2, <2>1, <2>4, <2>5, Advance
  <2>7. \A o \in Output \ connected : Apart(o)'
    BY <1>1, <2>1, <2>3 DEF IInv, Apart, Quiet
  <2> QED
    BY <1>1, <2>4, <2>6, <2>7 DEF IInv
<1> QED
  BY <1>4, <1>5 DEF Blank, Outputs

LEMMA DrawOutputKeeps ==
    ASSUME IInv, NEW r \in Request, DrawOutput(r)
    PROVE  IInv'
<1> DEFINE j == job[r]
<1>1. /\ Live(r) /\ Head(j.plan) = "draw"
      /\ UNCHANGED <<mode, configured, connected, faults, shell, frame, applied, session,
                     asked>>
  BY DEF DrawOutput, At, settings, tables
<1>2. /\ j.alone => Stage(j)
      /\ ~j.alone => excused = Output
      /\ \A p \in j.outputs : p \in Output /\ (j.alone => p \in connected)
      /\ j.wall \in Wall \cup {NoWall} /\ j.plan \in Plan /\ j.plan # <<>>
      /\ j \in Job /\ Form(j) /\ connected \subseteq Output
      /\ excused \subseteq Output /\ surface \in Table /\ clock \in Table
  BY <1>1, StepNow, JobNow DEF IInv, TypeOK
<1>3. j.alone => Drawing(j)
  BY <1>1, <1>2, StageAt
<1>4. /\ j.todo \in Seq(Output) /\ j.todo # <<>> /\ ToSet(j.todo) \subseteq j.outputs
  BY <1>1, <1>2 DEF Form, Job
<1>5. /\ Head(j.todo) \in j.outputs
      /\ Tail(j.todo) \in Seq(Output) /\ ToSet(Tail(j.todo)) \subseteq j.outputs
      /\ \A p \in ToSet(j.todo) : p = Head(j.todo) \/ p \in ToSet(Tail(j.todo))
      /\ Len(j.todo) = 1 => ToSet(Tail(j.todo)) = {}
      /\ Len(j.todo) # 1 => Tail(j.todo) # <<>>
  BY <1>4, HeadAndTail
<1>8. PICK o \in Output : o = Head(j.todo) /\ o \in j.outputs
  BY <1>2, <1>5
<1>6. CASE /\ o \in connected /\ frame[o] = NoWall
           /\ surface' = [surface EXCEPT ![o] = j.wall]
           /\ clock' = [clock EXCEPT ![o] = IF j.wall \in Moving THEN j.wall ELSE NoWall]
           /\ job' = [job EXCEPT ![r].todo = Tail(@),
                         ![r].plan = IF Len(j.todo) = 1 THEN Tail(@) ELSE @]
           /\ UNCHANGED excused
  <2> DEFINE next == [j EXCEPT !.todo = Tail(j.todo),
                               !.plan = IF Len(j.todo) = 1 THEN Tail(j.plan) ELSE j.plan]
  <2>1. j.plan = <<"draw", "record">>
    BY <1>1, <1>2 DEF Plan
  <2>2. Tail(j.plan) = <<"record">> /\ Tail(j.plan) \in Plan
    BY <2>1, Tails DEF Plan
  <2>3. /\ next \in Job /\ Same(next, j) /\ next.todo = Tail(j.todo)
        /\ next.plan = IF Len(j.todo) = 1 THEN <<"record">> ELSE <<"draw", "record">>
    BY <1>2, <1>5, <2>1, <2>2 DEF Job, Same
  <2>4. Becomes(r, next)
    BY <1>6 DEF Becomes
  <2> HIDE DEF next
  <2>5. PICK k \in Job : k = next
    BY <2>3
  <2>6. Form(k)
    <3>1. k.plan # <<>> /\ (Head(k.plan) \in {"mode", "draw"} => Len(j.todo) # 1)
      <4>1. /\ <<"record">> # <<>> /\ <<"draw", "record">> # <<>>
            /\ Head(<<"record">>) \notin {"mode", "draw"}
        OBVIOUS
      <4> QED
        BY <2>3, <2>5, <4>1
    <3> QED
      BY <1>2, <1>5, <2>3, <2>5, <3>1 DEF Form, Same
  <2>7. /\ surface' \in Table /\ surface'[o] = j.wall
        /\ \A p \in Output \ {o} : surface'[p] = surface[p]
    BY <1>2, <1>6 DEF Table
  <2>8. /\ clock' \in Table /\ clock'[o] \in {NoWall, j.wall}
        /\ \A p \in Output \ {o} : clock'[p] = clock[p]
    BY <1>2, <1>6 DEF Table
  <2>9. TypeOK'
    <3>1. job' \in [Request -> Job]
      BY <2>4, <2>5 DEF IInv, TypeOK, Becomes
    <3>2. excused' = excused
      BY <1>6
    <3> QED
      BY <1>1, <2>7, <2>8, <3>1, <3>2 DEF IInv, TypeOK
  <2>10. \A p \in Output \ connected : Apart(p)'
    BY <1>1, <1>6, <2>7, <2>8 DEF IInv, Apart, Quiet
  <2>11. Steady(o)' /\ surface'[o] = j.wall
    <3>1. frame'[o] = NoWall
      BY <1>1, <1>6
    <3> QED
      BY <2>7, <2>8, <3>1 DEF Steady
  <2>12. ASSUME j.alone
         PROVE  Stage(k)'
    <3>1. ShownBut(j.outputs) /\ Presents(j.outputs \ ToSet(j.todo), j.wall)
      BY <1>3, <2>12 DEF Drawing
    <3>2. k.outputs = j.outputs /\ k.wall = j.wall /\ k.todo = Tail(j.todo)
      BY <2>3, <2>5 DEF Same
    <3>3. ASSUME NEW p \in connected \ (excused \cup j.outputs)
          PROVE  Shown(p)'
      <4>1. Shown(p) /\ surface'[p] = surface[p] /\ clock'[p] = clock[p]
        BY <1>2, <1>8, <2>7, <2>8, <3>1 DEF ShownBut
      <4> QED
        BY <1>1, <4>1 DEF Shown, Steady, Visible
    <3>4. ShownBut(k.outputs)'
      BY <1>1, <1>6, <3>2, <3>3 DEF ShownBut
    <3>5. ASSUME NEW p \in j.outputs \ ToSet(Tail(j.todo))
          PROVE  Steady(p)' /\ surface'[p] = j.wall
      <4>1. CASE p = o
        BY <2>11, <4>1
      <4>2. CASE p # o
        <5>1. p \in j.outputs \ ToSet(j.todo)
          BY <1>5, <1>8, <3>5, <4>2
        <5>2. Steady(p) /\ surface[p] = j.wall
          BY <3>1, <5>1 DEF Presents
        <5>3. surface'[p] = surface[p] /\ clock'[p] = clock[p]
          BY <1>2, <2>7, <2>8, <3>5, <4>2
        <5> QED
          BY <1>1, <5>2, <5>3 DEF Steady
      <4> QED
        BY <4>1, <4>2
    <3>6. CASE Len(j.todo) = 1
      <4>1. k.plan = <<"record">>
        BY <2>3, <2>5, <3>6
      <4>2. \A p \in k.outputs : Steady(p)' /\ surface'[p] = k.wall
        BY <1>5, <3>2, <3>5, <3>6
      <4>3. Drawn(k)'
        BY <3>4, <4>1, <4>2 DEF Drawn, Presents
      <4> QED
        BY <4>3 DEF Stage
    <3>7. CASE Len(j.todo) # 1
      <4>1. k.plan = <<"draw", "record">>
        BY <2>3, <2>5, <3>7
      <4>2. \A p \in k.outputs \ ToSet(k.todo) : Steady(p)' /\ surface'[p] = k.wall
        BY <3>2, <3>5
      <4>3. Drawing(k)'
        BY <3>4, <4>1, <4>2 DEF Drawing, Presents
      <4> QED
        BY <4>3 DEF Stage
    <3> QED
      BY <3>6, <3>7
  <2>13. k # NoJob /\ k.alone = j.alone
    BY <2>3, <2>5, <2>6, NoJobFacts DEF Form, Same
  <2>14. Becomes(r, k)
    BY <2>4, <2>5
  <2>15. Answered' /\ AllShown'
    BY <1>1, <1>2, <1>6, <2>6, <2>9, <2>12, <2>13, <2>14, Advance
  <2> QED
    BY <1>1, <2>9, <2>10, <2>15 DEF IInv
<1>7. CASE /\ Fails(r) /\ Doubts
           /\ clock' = [clock EXCEPT ![o] = NoWall]
           /\ UNCHANGED surface
  <2>1. /\ Becomes(r, NoJob) /\ NoJob \in Job /\ excused' = Output
    BY <1>7, FailsJob, NoJobFacts DEF Doubts
  <2>2. clock' \in Table /\ \A p \in Output : clock'[p] \in {NoWall, clock[p]}
    BY <1>2, <1>7 DEF Table
  <2>3. TypeOK'
    BY <1>1, <1>2, <1>7, <2>1, <2>2 DEF IInv, TypeOK, Becomes
  <2>4. ShownBut({})'
    BY <1>1, <1>2, <2>1 DEF ShownBut
  <2>5. Answered' /\ AllShown'
    BY <1>1, <1>2, <2>1, <2>3, <2>4, Advance
  <2>6. \A p \in Output \ connected : Apart(p)'
    BY <1>1, <1>7, <2>1, <2>2 DEF IInv, Apart, Quiet
  <2> QED
    BY <1>1, <2>3, <2>5, <2>6 DEF IInv
<1> QED
  BY <1>6, <1>7, <1>8 DEF DrawOutput

-----------------------------------------------------------------------------
\* Every step.

LEMMA NextIInv == IInv /\ [Next]_vars => IInv'
<1>1. SUFFICES ASSUME IInv, [Next]_vars PROVE IInv'
  OBVIOUS
<1>2. ASSUME NEW r \in Request, NEW wall \in Wall, NEW outputs \in SUBSET Output,
             Set(r, wall, outputs)
      PROVE  IInv'
  BY <1>1, <1>2, AskKeeps DEF Set
<1>3. ASSUME NEW r \in Request, NEW outputs \in SUBSET Output, Clear(r, outputs)
      PROVE  IInv'
  BY <1>1, <1>3, AskKeeps DEF Clear
<1>4. ASSUME NEW r \in Request, NEW o \in Output, Reapply(r, o)
      PROVE  IInv'
  <2>1. session[o] \in Wall \cup {NoWall} /\ {o} \in SUBSET Output
    BY <1>1 DEF IInv, TypeOK, Table
  <2>2. PICK w \in Wall \cup {NoWall} : w = session[o]
    BY <2>1
  <2>3. Ask(r, "set", w, {o})
    BY <1>4, <2>2 DEF Reapply
  <2> QED
    BY <1>1, <2>1, <2>3, AskKeeps
<1>5. ASSUME NEW r \in Request, Record(r) \/ Forget(r)
      PROVE  IInv'
  <2>1. /\ Live(r) /\ Write(r) /\ Head(job[r].plan) \in {"record", "forget"}
        /\ UNCHANGED <<settings, screens, clocks, asked>>
    BY <1>5 DEF Record, Forget, At
  <2> QED
    BY <1>1, <2>1, WriteKeeps
<1>6. CASE UNCHANGED vars
  <2>1. UNCHANGED <<mode, configured, connected, faults, shell, surface, clock, frame,
                    applied, session, job, asked, excused>>
    BY <1>6 DEF vars, settings, screens, clocks, tables
  <2>2. TypeOK'
    BY <1>1, <2>1 DEF IInv, TypeOK
  <2>3. \A o \in Output : /\ Steady(o) => Steady(o)' /\ surface'[o] = surface[o]
                          /\ Quiet(o) => Quiet(o)' /\ surface'[o] = surface[o]
    BY <2>1 DEF Steady, Quiet
  <2> QED
    BY <1>1, <2>1, <2>2, <2>3, FramesKeep
<1> QED
  BY <1>1, <1>2, <1>3, <1>4, <1>5, <1>6, RouteKeeps, RefuseClearKeeps, DrawKeeps,
     DrawOutputKeeps, HaltKeeps, WipeKeeps, BlankKeeps, BeginFrameKeeps, EndFrameKeeps,
     UnplugKeeps, PlugKeeps, PatchKeeps, RestartKeeps DEF Next

LEMMA Invariance == Spec => []IInv
BY InitIInv, NextIInv, PTL DEF Spec

-----------------------------------------------------------------------------
\* The theorems.

\* The locals of the requests, the surfaces, the clocks and the tables hold
\* what they are meant to, through every plan a request can be given.
THEOREM TypeCorrect == Spec => []TypeOK
<1>1. IInv => TypeOK
  BY DEF IInv
<1> QED
  BY <1>1, Invariance, PTL

\* What Engine.applied says of an output can be seen on it at rest, on its
\* surface or on the shell below: whatever the mode was when it was applied,
\* and however requests, frames, unplugs and restarts followed each other.
THEOREM RecordIsVisibleAlways == Spec => []RecordIsVisible
<1>1. IInv => RecordIsVisible
  BY DEF IInv, AllShown, ShownBut, Shown, RecordIsVisible, AtRest
<1> QED
  BY <1>1, Invariance, PTL
=============================================================================
