---------------------------- MODULE EngineProofs ----------------------------
(***************************************************************************)
(* Proofs about Engine for every set of outputs and wallpapers and every   *)
(* number of requests.  Three things are carried along: the form of every  *)
(* request's locals; what was shown when; and, as long as nothing went     *)
(* wrong, which request answers for an output that does not show what is   *)
(* applied.                                                                *)
(***************************************************************************)
EXTENDS Engine, FiniteSetTheorems, SequenceTheorems, TLAPS

-----------------------------------------------------------------------------
\* The locals of a request.

Looping == {"stop", "halt", "abandon", "change", "animate", "start", "await"}
Idle(j) == j.at \in {"new", "ok", "failed"}
Left(j) == ToSet(j.todo)

StillForm(j) ==
    /\ j.op = "still" /\ j.wall \in Still
    /\ j.at \in {"stop", "halt", "lock", "change", "animate", "record"}
PlayForm(j) ==
    /\ j.op = "play" /\ j.wall \in Moving
    /\ j.at \in {"stop", "start", "await", "abandon", "record"}
ClearForm(j) ==
    /\ j.op = "clear"
    /\ j.at \in {"stop", "halt", "blank", "unset", "forget"}

InForm(j) ==
    /\ j.at \in Looping <=> j.todo # << >>
    /\ Left(j) \subseteq j.outputs
    /\ IsInjective(j.todo)
    /\ j.done \subseteq j.outputs
    /\ j.done # {} => j.at \in {"change", "animate", "start", "await", "abandon", "record"}
    /\ j.at # "abandon" => j.done \cap Left(j) = {}
    /\ j.op = "play" /\ j.at \in {"start", "await", "record"} => j.outputs = j.done \cup Left(j)
    /\ ~Idle(j) => j.outputs # {} /\ (StillForm(j) \/ PlayForm(j) \/ ClearForm(j))

-----------------------------------------------------------------------------
\* The outputs of a request, one by one.

LEMMA InOrderFacts ==
    ASSUME NEW S \in SUBSET Output
    PROVE  /\ InOrder(S) \in Seq(Output)
           /\ ToSet(InOrder(S)) = S
           /\ IsInjective(InOrder(S))
           /\ InOrder(S) # << >> <=> S # {}
<1> DEFINE n == Cardinality(S)
           s == InOrder(S)
<1>1. IsFiniteSet(S)
  BY EngineAssumption, FS_Subset DEF EngineAssumption
<1>2. n \in Nat /\ ExistsBijection(1..n, S)
  BY <1>1, FS_CardinalityType
<1>3. PICK f \in Bijection(1..n, S) : TRUE
  BY <1>2 DEF ExistsBijection
<1>4. /\ f \in [1..n -> S]
      /\ \A a, b \in 1..n : f[a] = f[b] => a = b
      /\ \A y \in S : \E x \in 1..n : f[x] = y
  BY <1>3 DEF Bijection, Injection, Surjection, IsInjective
<1>5. IsInjective(f)
  BY <1>4 DEF IsInjective
<1>6. s \in [1..n -> S] /\ IsInjective(s)
  BY <1>4, <1>5, Zenon DEF InOrder, SetToSeq
<1>7. s \in Seq(S) /\ Len(s) = n /\ DOMAIN s = 1..n
  BY <1>2, <1>6
<1>8. s \in Injection(1..n, S)
  BY <1>6 DEF Injection, IsInjective
<1>9. s \in Seq(Output)
  BY <1>7, SeqMonotonic
<1>10. ToSet(s) = S
  <2>1. s \in Surjection(1..n, S)
    <3>1. IsFiniteSet(1..n) /\ Cardinality(1..n) = n
      BY <1>2, FS_Interval
    <3> QED
      BY <3>1, <1>1, <1>8, FS_Injection
  <2> QED
    BY <2>1, <1>6, <1>7 DEF Surjection, ToSet
<1>11. s # << >> <=> S # {}
  BY <1>7, <1>10 DEF ToSet
<1> QED
  BY <1>6, <1>9, <1>10, <1>11

LEMMA TailFacts ==
    ASSUME NEW s \in Seq(Output), s # << >>, IsInjective(s)
    PROVE  /\ Head(s) \in Output /\ Tail(s) \in Seq(Output)
           /\ IsInjective(Tail(s))
           /\ Head(s) \in ToSet(s)
           /\ ToSet(Tail(s)) = ToSet(s) \ {Head(s)}
           /\ Len(s) > 1 => Tail(s) # << >>
           /\ ~(Len(s) > 1) => ToSet(s) = {Head(s)} /\ Len(s) = 1
<1>1. /\ Len(s) \in Nat \ {0} /\ DOMAIN s = 1..Len(s)
      /\ Head(s) = s[1] /\ s[1] \in Output
      /\ Tail(s) \in Seq(Output) /\ Len(Tail(s)) = Len(s) - 1
      /\ DOMAIN Tail(s) = 1..(Len(s) - 1)
      /\ \A i \in 1..(Len(s) - 1) : Tail(s)[i] = s[i + 1]
  BY HeadTailProperties, LenProperties, EmptySeq, ElementOfSeq
<1>2. \A a, b \in 1..Len(s) : s[a] = s[b] => a = b
  BY <1>1 DEF IsInjective
<1>3. IsInjective(Tail(s))
  BY <1>1, <1>2 DEF IsInjective
<1>4. Head(s) \in ToSet(s)
  BY <1>1 DEF ToSet
<1>5. ToSet(Tail(s)) = ToSet(s) \ {Head(s)}
  <2>1. ASSUME NEW o \in ToSet(Tail(s))
        PROVE  o \in ToSet(s) /\ o # Head(s)
    <3>1. PICK i \in 1..(Len(s) - 1) : o = Tail(s)[i]
      BY <1>1 DEF ToSet
    <3>2. o = s[i + 1] /\ i + 1 \in 1..Len(s) /\ 1 \in 1..Len(s) /\ i + 1 # 1
      BY <1>1, <3>1
    <3> QED
      BY <1>1, <1>2, <3>2 DEF ToSet
  <2>2. ASSUME NEW o \in ToSet(s), o # Head(s)
        PROVE  o \in ToSet(Tail(s))
    <3>1. PICK i \in 1..Len(s) : o = s[i]
      BY <1>1 DEF ToSet
    <3>2. i # 1
      BY <1>1, <2>2, <3>1
    <3>3. i - 1 \in 1..(Len(s) - 1) /\ (i - 1) + 1 = i
      BY <1>1, <3>1, <3>2
    <3>4. Tail(s)[i - 1] = o
      BY <1>1, <3>1, <3>3
    <3> QED
      BY <1>1, <3>3, <3>4 DEF ToSet
  <2> QED
    BY <2>1, <2>2
<1>6. Len(s) > 1 => Tail(s) # << >>
  BY <1>1
<1>7. ~(Len(s) > 1) => ToSet(s) = {Head(s)} /\ Len(s) = 1
  <2>1. SUFFICES ASSUME ~(Len(s) > 1) PROVE ToSet(s) = {Head(s)} /\ Len(s) = 1
    OBVIOUS
  <2>2. Len(s) = 1
    BY <1>1, <2>1
  <2> QED
    BY <1>1, <2>2 DEF ToSet
<1> QED
  BY <1>1, <1>3, <1>4, <1>5, <1>6, <1>7

LEMMA EmptyFacts == ToSet(<< >>) = {} /\ IsInjective(<< >>)
BY DEF ToSet, IsInjective

LEMMA AdvanceFacts ==
    ASSUME NEW j \in Job, j.todo # << >>, IsInjective(j.todo), NEW step \in Step
    PROVE  LET k == Advance(j, step) IN
           /\ k \in Job
           /\ k.op = j.op /\ k.wall = j.wall /\ k.animated = j.animated
           /\ k.outputs = j.outputs /\ k.done = j.done /\ k.epoch = j.epoch
           /\ k.source = j.source /\ k.blended = j.blended
           /\ Head(j.todo) \in Output /\ Head(j.todo) \in Left(j)
           /\ Left(k) = Left(j) \ {Head(j.todo)} /\ IsInjective(k.todo)
           /\ \/ k.todo # << >> /\ k.at = j.at
              \/ k.todo = << >> /\ k.at = step
<1> DEFINE k == Advance(j, step)
<1>1. j.todo \in Seq(Output)
  BY DEF Job
<1>2. CASE Len(j.todo) > 1
  <2>1. k = [j EXCEPT !.todo = Tail(j.todo)]
    BY <1>2 DEF Advance
  <2>2. /\ k \in Job /\ k.todo = Tail(j.todo) /\ k.at = j.at
        /\ k.op = j.op /\ k.wall = j.wall /\ k.animated = j.animated
        /\ k.outputs = j.outputs /\ k.done = j.done /\ k.epoch = j.epoch
        /\ k.source = j.source /\ k.blended = j.blended
    BY <1>1, <2>1, TailFacts DEF Job
  <2> QED
    BY <1>1, <1>2, <2>2, TailFacts DEF Left
<1>3. CASE ~(Len(j.todo) > 1)
  <2>1. k = [j EXCEPT !.todo = << >>, !.at = step]
    BY <1>3 DEF Advance
  <2>2. /\ k \in Job /\ k.todo = << >> /\ k.at = step
        /\ k.op = j.op /\ k.wall = j.wall /\ k.animated = j.animated
        /\ k.outputs = j.outputs /\ k.done = j.done /\ k.epoch = j.epoch
        /\ k.source = j.source /\ k.blended = j.blended
    <3>1. << >> \in Seq(Output) /\ step \in Step
      BY EmptySeq
    <3>2. k \in Job
      BY <2>1, <3>1 DEF Job
    <3> QED
      BY <2>1, <3>2 DEF Job
  <2> QED
    BY <1>1, <1>3, <2>2, TailFacts, EmptyFacts DEF Left
<1> QED
  BY <1>2, <1>3

-----------------------------------------------------------------------------
\* What was shown.

\* A clock belongs to the request that started it, while that goes on.
OwnClock(r, o) ==
    /\ job[r].op = "play" /\ job[r].at \notin {"new", "stop"}
    /\ clock[o].wall = job[r].wall
    /\ o \in job[r].done \/ (job[r].at = "await" /\ o = Head(job[r].todo))

Shown ==
    /\ \A r \in Request : \A o \in job[r].done : job[r].wall \in seen[o]
    /\ \A o \in Output : clock[o].shown => clock[o].wall \in seen[o]
    /\ \A r \in Request, o \in Output : clock[o].owner = r /\ ~Ended(r) => OwnClock(r, o)

Basics == TypeOK /\ (\A r \in Request : InForm(job[r])) /\ Shown /\ RecordedWasShown

-----------------------------------------------------------------------------
\* What every step keeps.

\* A still has the GPU while it draws.
Holds(j) == j.op = "still" /\ j.at \in {"change", "animate", "record"}

\* Only one request moves.
LEMMA OneMoves ==
    ASSUME Basics, NEW r \in Request, NEW k \in Job, Becomes(r, k), InForm(k)
    PROVE  /\ job' \in [Request -> Job]
           /\ job'[r] = k /\ \A q \in Request \ {r} : job'[q] = job[q]
           /\ \A q \in Request : InForm(job'[q])
BY DEF Basics, TypeOK, Becomes

\* The variables have their types.
Typed ==
    /\ screen \in [Output -> Picture]
    /\ applied \in [Output -> Wall \cup {NoWall}]
    /\ session \in [Output -> Wall \cup {NoWall}]
    /\ epoch \in Nat
    /\ inflight \in [Output -> [epoch : Nat, picture : Picture]]
    /\ clock \in [Output -> Clock \cup {NoClock}]
    /\ inhand \in [Output -> SUBSET Clock]
    /\ seen \in [Output -> SUBSET Wall]
    /\ mishaps \subseteq Mishap

LEMMA TypedNow == Basics => Typed
BY DEF Basics, TypeOK, Typed

LEMMA StopTransitionTyped ==
    ASSUME Typed, NEW o \in Output, StopTransition(o)
    PROVE  epoch' \in Nat /\ inflight' \in [Output -> [epoch : Nat, picture : Picture]]
<1> DEFINE Flight == [epoch : Nat, picture : Picture]
<1>1. NoFlight \in Flight
  BY DEF NoFlight, Picture
<1>2. inflight \in [Output -> Flight] /\ epoch \in Nat
  BY DEF Typed
<1> HIDE DEF Flight
<1>3. inflight' \in [Output -> Flight] /\ epoch' \in Nat
  BY <1>1, <1>2 DEF StopTransition
<1> QED
  BY <1>3 DEF Flight

\* The lock stays with its still, is taken by one or given back.
Handed(r, k) ==
    \/ gpu' = gpu /\ (Holds(k) <=> Holds(job[r]))
    \/ gpu = Free /\ gpu' = r /\ Holds(k)
    \/ gpu = r /\ gpu' = Free /\ ~Holds(k)

LEMMA TypeStep ==
    ASSUME Basics, NEW r \in Request, NEW k \in Job, Becomes(r, k), InForm(k),
           Typed', Handed(r, k)
    PROVE  TypeOK'
<1>1. /\ job' \in [Request -> Job]
      /\ job'[r] = k /\ \A q \in Request \ {r} : job'[q] = job[q]
  BY OneMoves
<1>2. /\ gpu \in Request \cup {Free} /\ Free \notin Request
      /\ \A q \in Request : gpu = q <=> Holds(job[q])
  BY EngineAssumption DEF Basics, TypeOK, Holds, Free, Request, EngineAssumption
<1>3. /\ gpu' \in Request \cup {Free}
      /\ \A q \in Request : gpu' = q <=> Holds(job'[q])
  BY <1>1, <1>2 DEF Handed
<1> QED
  BY <1>1, <1>3 DEF TypeOK, Typed, Holds

\* What is shown, recorded or played at a step of a request.
LEMMA ShownStep ==
    ASSUME Basics, NEW r \in Request, NEW k \in Job, Becomes(r, k), InForm(k),
           \A o \in Output : seen[o] \subseteq seen'[o],
           \A o \in k.done : k.wall \in seen'[o],
           \A o \in Output : \/ clock'[o] = clock[o]
                             \/ clock'[o] = NoClock
                             \/ clock'[o].owner = r /\ clock'[o].shown = FALSE,
           k.at \notin {"ok", "failed"} => \A o \in Output : clock'[o].owner = r => OwnClock(r, o)',
           \A o \in Output : \/ session'[o] = session[o]
                             \/ session'[o] = NoWall
                             \/ session'[o] \in seen'[o]
    PROVE  Shown' /\ RecordedWasShown'
<1>1. /\ job'[r] = k /\ \A q \in Request \ {r} : job'[q] = job[q]
      /\ k.done \subseteq Output
      /\ \A q \in Request : job[q].done \subseteq Output
  <2>1. job'[r] = k /\ \A q \in Request \ {r} : job'[q] = job[q]
    BY OneMoves
  <2>2. job \in [Request -> Job]
    BY DEF Basics, TypeOK
  <2> QED
    BY <2>1, <2>2 DEF Job
<1>2. \A q \in Request : \A o \in job'[q].done : job'[q].wall \in seen'[o]
  <2>1. \A q \in Request : \A o \in job[q].done : job[q].wall \in seen[o]
    BY DEF Basics, Shown
  <2> QED
    BY <1>1, <2>1
<1>3. \A o \in Output : clock'[o].shown => clock'[o].wall \in seen'[o]
  <2>1. \A o \in Output : clock[o].shown => clock[o].wall \in seen[o]
    BY DEF Basics, Shown
  <2>2. NoClock.shown = FALSE
    BY DEF NoClock
  <2> QED
    BY <2>1, <2>2
<1>4. \A q \in Request, o \in Output : clock'[o].owner = q /\ ~Ended(q)' => OwnClock(q, o)'
  <2>1. \A q \in Request, o \in Output : clock[o].owner = q /\ ~Ended(q) => OwnClock(q, o)
    BY DEF Basics, Shown
  <2>2. SUFFICES ASSUME NEW q \in Request, NEW o \in Output, clock'[o].owner = q, ~Ended(q)'
                 PROVE  OwnClock(q, o)'
    OBVIOUS
  <2>3. CASE q = r
    BY <1>1, <2>2, <2>3 DEF Ended
  <2>4. CASE q # r
    <3>1. job'[q] = job[q]
      BY <1>1, <2>4
    <3>2. NoClock.owner # q
      BY EngineAssumption DEF NoClock, Request, EngineAssumption
    <3>3. clock'[o] = clock[o]
      BY <2>2, <2>4, <3>2
    <3> QED
      BY <2>1, <2>2, <3>1, <3>3 DEF OwnClock, Ended
  <2> QED
    BY <2>3, <2>4
<1>5. RecordedWasShown'
  BY DEF Basics, RecordedWasShown
<1> QED
  BY <1>2, <1>3, <1>4, <1>5 DEF Shown

-----------------------------------------------------------------------------
\* The locals after a step of a request.

Same(k, j) == k.op = j.op /\ k.wall = j.wall /\ k.outputs = j.outputs

LEMMA JobNow ==
    ASSUME Basics, NEW r \in Request
    PROVE  job[r] \in Job /\ InForm(job[r])
BY DEF Basics, TypeOK

\* What the form says of a loop.
LEMMA HeadNow ==
    ASSUME Basics, NEW r \in Request, job[r].at \in Looping
    PROVE  /\ job[r].todo # << >> /\ IsInjective(job[r].todo)
           /\ Head(job[r].todo) \in Output /\ Head(job[r].todo) \in Left(job[r])
           /\ Left(job[r]) \subseteq job[r].outputs
<1>1. job[r] \in Job /\ InForm(job[r])
  BY JobNow
<1>2. job[r].todo # << >> /\ IsInjective(job[r].todo) /\ job[r].todo \in Seq(Output)
      /\ Left(job[r]) \subseteq job[r].outputs
  BY <1>1 DEF InForm, Job
<1> QED
  BY <1>2, TailFacts DEF Left

\* What a client asks for.
Fits(op, w) ==
    \/ op = "still" /\ w \in Still
    \/ op = "play" /\ w \in Moving
    \/ op = "clear" /\ w = NoWall

LEMMA NewJobFacts ==
    /\ NewJob \in Job
    /\ NewJob.op = "clear" /\ NewJob.todo = << >> /\ NewJob.done = {} /\ NewJob.at = "new"
BY EmptySeq DEF NewJob, Job, Step

LEMMA AskJob ==
    ASSUME Basics, NEW r \in Request, NEW op, NEW w, NEW anim \in BOOLEAN,
           NEW targets \in SUBSET Output, targets # {},
           Fits(op, w), Ask(r, op, w, anim, targets)
    PROVE  \E k \in Job : /\ Becomes(r, k) /\ InForm(k)
                          /\ k.at = "stop" /\ k.outputs = targets /\ k.op = op
                          /\ k.done = {}
<1> DEFINE k == [NewJob EXCEPT !.op = op, !.wall = w, !.animated = anim,
                     !.outputs = targets, !.at = "stop", !.todo = InOrder(targets)]
<1>1. /\ InOrder(targets) \in Seq(Output) /\ ToSet(InOrder(targets)) = targets
      /\ IsInjective(InOrder(targets)) /\ InOrder(targets) # << >>
  BY InOrderFacts
<1>2. op \in {"still", "play", "clear"} /\ w \in Wall \cup {NoWall} /\ "stop" \in Step
  BY DEF Wall, Step, Fits
<1>3. /\ k \in Job
      /\ k.op = op /\ k.wall = w /\ k.outputs = targets /\ k.at = "stop"
      /\ k.todo = InOrder(targets) /\ k.done = {}
  BY <1>1, <1>2, NewJobFacts DEF Job
<1> HIDE DEF k
<1>5. InForm(k)
  BY <1>1, <1>3 DEF InForm, Looping, Idle, Left, StillForm, PlayForm, ClearForm, Fits
<1>6. Becomes(r, k)
  BY DEF Ask, k
<1> QED
  BY <1>3, <1>5, <1>6

LEMMA EndsJob ==
    ASSUME Basics, NEW r \in Request, NEW answer \in {"ok", "failed"}, Ends(r, answer)
    PROVE  \E k \in Job : /\ Becomes(r, k) /\ InForm(k)
                          /\ k.at = answer /\ k.outputs = job[r].outputs
                          /\ k.done = {} /\ Left(k) = {}
<1> DEFINE k == [NewJob EXCEPT !.at = answer, !.outputs = job[r].outputs]
<1>1. job[r].outputs \in SUBSET Output
  BY JobNow DEF Job
<1>2. answer \in Step
  BY DEF Step
<1>3. /\ k \in Job
      /\ k.outputs = job[r].outputs /\ k.at = answer /\ k.op = "clear"
      /\ k.todo = << >> /\ k.done = {}
  BY <1>1, <1>2, NewJobFacts DEF Job
<1> HIDE DEF k
<1>4. Left(k) = {} /\ IsInjective(k.todo)
  BY <1>3, EmptyFacts DEF Left
<1>5. InForm(k)
  BY <1>3, <1>4 DEF InForm, Looping, Idle
<1>6. Becomes(r, k)
  BY DEF Ends, k
<1> QED
  BY <1>3, <1>4, <1>5, <1>6

\* A request begins a loop over its outputs, or over those that are done.
LEMMA LoopsJob ==
    ASSUME Basics, NEW r \in Request, NEW S \in SUBSET Output, S # {}, NEW step \in Step,
           Becomes(r, [job[r] EXCEPT !.at = step, !.todo = InOrder(S)])
    PROVE  \E k \in Job : /\ Becomes(r, k) /\ Same(k, job[r])
                          /\ k.at = step /\ k.done = job[r].done
                          /\ k.todo # << >> /\ IsInjective(k.todo) /\ Left(k) = S
<1> DEFINE j == job[r]
           k == [j EXCEPT !.at = step, !.todo = InOrder(S)]
<1>1. j \in Job
  BY JobNow
<1>2. /\ InOrder(S) \in Seq(Output) /\ ToSet(InOrder(S)) = S
      /\ IsInjective(InOrder(S)) /\ InOrder(S) # << >>
  BY InOrderFacts
<1> HIDE DEF j
<1>3. /\ k \in Job /\ k.todo = InOrder(S) /\ k.at = step
      /\ k.op = j.op /\ k.wall = j.wall /\ k.outputs = j.outputs /\ k.done = j.done
  BY <1>1, <1>2 DEF Job
<1>4. Becomes(r, k)
  BY DEF j
<1> HIDE DEF k
<1> QED
  BY <1>2, <1>3, <1>4 DEF Same, Left, j

\* A request goes on to another step.
LEMMA GoesJob ==
    ASSUME Basics, NEW r \in Request, NEW step \in Step, Goes(r, step)
    PROVE  \E k \in Job : /\ Becomes(r, k) /\ Same(k, job[r])
                          /\ k.at = step /\ k.done = job[r].done /\ k.todo = job[r].todo
<1> DEFINE j == job[r]
           k == [j EXCEPT !.at = step]
<1>1. j \in Job
  BY JobNow
<1> HIDE DEF j
<1>2. /\ k \in Job /\ k.todo = j.todo /\ k.at = step
      /\ k.op = j.op /\ k.wall = j.wall /\ k.outputs = j.outputs /\ k.done = j.done
  BY <1>1 DEF Job
<1>3. Becomes(r, k)
  BY DEF Goes, j
<1> HIDE DEF k
<1> QED
  BY <1>2, <1>3 DEF Same, j

LEMMA StopJob ==
    ASSUME Basics, NEW r \in Request, Stop(r)
    PROVE  \E k \in Job : /\ Becomes(r, k) /\ InForm(k) /\ Same(k, job[r]) /\ k.done = {}
                          /\ \/ k.at = "stop"
                             \/ /\ k.at = IF k.op = "play" THEN "start" ELSE "halt"
                                /\ Left(k) = k.outputs
<1> DEFINE j == job[r]
           next == IF j.op = "play" THEN "start" ELSE "halt"
           a == Advance(j, next)
           k == IF a.at = "stop" THEN a ELSE [a EXCEPT !.todo = InOrder(a.outputs)]
<1>1. /\ j \in Job /\ InForm(j) /\ j.at = "stop" /\ j.todo # << >> /\ IsInjective(j.todo)
      /\ j.done = {} /\ j.outputs # {} /\ next \in Step
  <2>1. j \in Job /\ InForm(j) /\ j.at = "stop"
    BY JobNow DEF Stop, At
  <2> QED
    BY <2>1 DEF InForm, Looping, Step, Idle
<1>2. /\ a \in Job
      /\ a.op = j.op /\ a.wall = j.wall /\ a.outputs = j.outputs /\ a.done = j.done
      /\ Left(a) \subseteq Left(j) /\ IsInjective(a.todo)
      /\ \/ a.todo # << >> /\ a.at = "stop"
         \/ a.todo = << >> /\ a.at = next
  <2> HIDE DEF j, next
  <2> QED
    BY <1>1, AdvanceFacts
<1>3. Becomes(r, k)
  BY DEF Stop
<1> HIDE DEF a
<1>4. CASE a.at = "stop"
  <2>1. k = a /\ a.todo # << >>
    BY <1>1, <1>2, <1>4
  <2>2. InForm(a)
    BY <1>1, <1>2, <1>4, <2>1 DEF InForm, Looping, Idle, StillForm, PlayForm, ClearForm
  <2> QED
    BY <1>1, <1>2, <1>3, <1>4, <2>1, <2>2 DEF Same
<1>5. CASE a.at # "stop"
  <2>1. /\ a.outputs \in SUBSET Output /\ a.outputs # {}
    BY <1>1, <1>2 DEF Job
  <2>2. /\ InOrder(a.outputs) \in Seq(Output) /\ ToSet(InOrder(a.outputs)) = a.outputs
        /\ IsInjective(InOrder(a.outputs)) /\ InOrder(a.outputs) # << >>
    BY <2>1, InOrderFacts
  <2>3. /\ k \in Job /\ k.todo = InOrder(a.outputs) /\ k.at = next
        /\ k.op = j.op /\ k.wall = j.wall /\ k.outputs = j.outputs /\ k.done = {}
    BY <1>1, <1>2, <1>5, <2>2 DEF Job
  <2>4. InForm(k) /\ Left(k) = k.outputs
    BY <1>1, <1>2, <2>2, <2>3
       DEF InForm, Looping, Idle, StillForm, PlayForm, ClearForm, Left
  <2> HIDE DEF k
  <2> QED
    BY <1>3, <2>3, <2>4 DEF Same
<1> QED
  BY <1>4, <1>5

LEMMA HaltJob ==
    ASSUME Basics, NEW r \in Request, Halt(r)
    PROVE  \E k \in Job :
               /\ Becomes(r, k) /\ InForm(k)
               /\ \/ job[r].at = "abandon" /\ k.at = "failed" /\ k.done = {}
                  \/ /\ Same(k, job[r]) /\ k.done = job[r].done
                     /\ Left(k) = Left(job[r]) \ {Head(job[r].todo)}
                     /\ \/ k.at = job[r].at
                        \/ /\ job[r].at = "halt" /\ Left(k) = {}
                           /\ k.at = IF k.op = "still" THEN "lock" ELSE "blank"
<1> DEFINE j == job[r]
           next == IF j.op = "still" THEN "lock" ELSE "blank"
           k == Advance(j, next)
<1>1. /\ j \in Job /\ InForm(j) /\ j.at \in {"halt", "abandon"} /\ next \in Step
      /\ j.todo # << >> /\ IsInjective(j.todo) /\ j.todo \in Seq(Output)
  <2>1. j \in Job /\ InForm(j) /\ j.at \in {"halt", "abandon"}
    BY JobNow DEF Halt, At
  <2> QED
    BY <2>1 DEF InForm, Looping, Step, Job
<1>2. CASE At(r, "abandon") /\ Len(j.todo) = 1
  <2>1. Ends(r, "failed")
    BY <1>2 DEF Halt
  <2> QED
    BY <1>2, <2>1, EndsJob DEF At
<1>3. CASE ~(At(r, "abandon") /\ Len(j.todo) = 1)
  <2>1. Becomes(r, k)
    BY <1>3 DEF Halt
  <2> HIDE DEF j, next
  <2>2. /\ k \in Job /\ Same(k, j) /\ k.done = j.done
        /\ Left(k) = Left(j) \ {Head(j.todo)} /\ IsInjective(k.todo)
        /\ \/ k.todo # << >> /\ k.at = j.at
           \/ k.todo = << >> /\ k.at = next
    BY <1>1, AdvanceFacts DEF Same
  <2>3. j.at = "abandon" => k.todo # << >>
    <3>1. SUFFICES ASSUME j.at = "abandon" PROVE k.todo # << >>
      OBVIOUS
    <3>2. Len(j.todo) > 1
      BY <1>1, <1>3, <3>1, TailFacts DEF At, j
    <3>3. k = [j EXCEPT !.todo = Tail(j.todo)]
      BY <3>2 DEF Advance
    <3> QED
      BY <1>1, <3>2, <3>3, TailFacts DEF Job
  <2>4. k.at # j.at => j.at = "halt" /\ k.at = next /\ k.todo = << >> /\ Left(k) = {}
    BY <1>1, <2>2, <2>3, EmptyFacts DEF Left
  <2> HIDE DEF k
  <2>5. InForm(k)
    BY <1>1, <2>2, <2>3, <2>4
       DEF InForm, Looping, Idle, StillForm, PlayForm, ClearForm, Same, next
  <2> QED
    BY <2>1, <2>2, <2>4, <2>5 DEF j, next, Same
<1> QED
  BY <1>2, <1>3

LEMMA LockJob ==
    ASSUME Basics, NEW r \in Request, Lock(r)
    PROVE  \E k \in Job : /\ Becomes(r, k) /\ InForm(k) /\ Same(k, job[r])
                          /\ k.at = "change" /\ k.op = "still" /\ k.done = {}
                          /\ Left(k) = k.outputs
<1> DEFINE j == job[r]
<1>1. j \in Job /\ InForm(j) /\ j.at = "lock" /\ Loops(r, "change")
  BY JobNow DEF Lock, At
<1> HIDE DEF j
<1>2. j.outputs \in SUBSET Output /\ j.outputs # {} /\ j.done = {} /\ StillForm(j)
  BY <1>1 DEF InForm, Idle, Job, PlayForm, ClearForm
<1>3. PICK k \in Job : /\ Becomes(r, k) /\ Same(k, j)
                       /\ k.at = "change" /\ k.done = j.done
                       /\ k.todo # << >> /\ IsInjective(k.todo) /\ Left(k) = j.outputs
  <2>1. "change" \in Step
    BY DEF Step
  <2>2. Becomes(r, [job[r] EXCEPT !.at = "change", !.todo = InOrder(j.outputs)])
    BY <1>1 DEF Loops, j
  <2> QED
    BY <1>2, <2>1, <2>2, LoopsJob, ZenonT(40) DEF j
<1>4. InForm(k)
  BY <1>2, <1>3 DEF InForm, Looping, Idle, StillForm, Same
<1> QED
  BY <1>2, <1>3, <1>4 DEF Same, StillForm, j

\* What an animation starts from is a picture.
LEMMA FromTyped ==
    ASSUME Basics, NEW o \in Output, applied[o] # NoWall
    PROVE  (IF inflight[o] # NoFlight THEN inflight[o].picture ELSE {applied[o]}) \in SUBSET Wall
<1>1. inflight[o].picture \in SUBSET Wall
  BY DEF Basics, TypeOK, Picture
<1>2. applied[o] \in Wall
  BY DEF Basics, TypeOK
<1> QED
  BY <1>1, <1>2

LEMMA BeginJob ==
    ASSUME Basics, NEW r \in Request, Begin(r)
    PROVE  \E k \in Job : /\ Becomes(r, k) /\ InForm(k) /\ Same(k, job[r])
                          /\ k.at = "animate" /\ k.op = "still"
                          /\ k.done = job[r].done /\ k.todo = job[r].todo
<1> DEFINE j == job[r]
           o == Head(j.todo)
           from == IF inflight[o] # NoFlight THEN inflight[o].picture ELSE {applied[o]}
           k == [j EXCEPT !.at = "animate", !.epoch = epoch + 1,
                          !.source = from, !.blended = FALSE]
<1>1. /\ j \in Job /\ InForm(j) /\ j.at = "change" /\ o \in Output /\ epoch \in Nat
      /\ applied[o] # NoWall /\ Becomes(r, k)
  BY JobNow, HeadNow DEF Begin, At, Looping, Basics, TypeOK
<1>2. from \in SUBSET Wall
  BY <1>1, FromTyped
<1> HIDE DEF j, o, from
<1>3. /\ k \in Job /\ k.at = "animate"
      /\ k.op = j.op /\ k.wall = j.wall /\ k.outputs = j.outputs
      /\ k.done = j.done /\ k.todo = j.todo
  <2>1. "animate" \in Step /\ epoch + 1 \in Nat
    BY <1>1 DEF Step
  <2> QED
    BY <1>1, <1>2, <2>1 DEF Job
<1> HIDE DEF k
<1>4. InForm(k) /\ k.op = "still"
  BY <1>1, <1>3 DEF InForm, Looping, Idle, Left, StillForm, PlayForm, ClearForm
<1> QED
  BY <1>1, <1>3, <1>4 DEF Same, j

LEMMA BlendJob ==
    ASSUME Basics, NEW r \in Request, Blend(r)
    PROVE  \E k \in Job : /\ Becomes(r, k) /\ InForm(k) /\ Same(k, job[r])
                          /\ k.at = "animate" /\ k.op = "still"
                          /\ k.done = job[r].done /\ k.todo = job[r].todo
<1> DEFINE j == job[r]
           k == [j EXCEPT !.blended = TRUE]
<1>1. j \in Job /\ InForm(j) /\ j.at = "animate" /\ Becomes(r, k)
  BY JobNow DEF Blend, At
<1> HIDE DEF j
<1>2. /\ k \in Job /\ k.at = "animate"
      /\ k.op = j.op /\ k.wall = j.wall /\ k.outputs = j.outputs
      /\ k.done = j.done /\ k.todo = j.todo
  BY <1>1 DEF Job
<1> HIDE DEF k
<1>3. InForm(k) /\ k.op = "still"
  BY <1>1, <1>2 DEF InForm, Looping, Idle, Left, StillForm, PlayForm, ClearForm
<1> QED
  BY <1>1, <1>2, <1>3 DEF Same, j

LEMMA ThroughJob ==
    ASSUME Basics, NEW r \in Request, job[r].at \in {"change", "animate"},
           NEW drawn \in BOOLEAN, Becomes(r, Through(r, drawn))
    PROVE  \E k \in Job :
               /\ Becomes(r, k) /\ InForm(k) /\ Same(k, job[r]) /\ k.op = "still"
               /\ k.done = IF drawn THEN job[r].done \cup {Head(job[r].todo)} ELSE job[r].done
               /\ Left(k) = Left(job[r]) \ {Head(job[r].todo)}
               /\ k.at = "change" \/ (k.at = "record" /\ Left(k) = {})
<1> DEFINE j == job[r]
           o == Head(j.todo)
           d == [j EXCEPT !.at = "change", !.epoch = 0, !.source = {},
                          !.done = IF drawn THEN @ \cup {o} ELSE @]
           k == Advance(d, "record")
<1>1. /\ j \in Job /\ InForm(j) /\ j.at \in {"change", "animate"}
      /\ o \in Output /\ o \in Left(j) /\ Left(j) \subseteq j.outputs
      /\ j.todo # << >> /\ IsInjective(j.todo)
  BY JobNow, HeadNow DEF Looping
<1>2. Becomes(r, k)
  BY DEF Through
<1> HIDE DEF j, o
<1>3. /\ d \in Job /\ d.at = "change" /\ d.todo = j.todo /\ Same(d, j)
      /\ d.done = IF drawn THEN j.done \cup {o} ELSE j.done
  BY <1>1 DEF Job, Step, Same
<1> HIDE DEF d
<1>4. /\ k \in Job /\ Same(k, d) /\ k.done = d.done
      /\ Left(k) = Left(d) \ {o} /\ IsInjective(k.todo)
      /\ \/ k.todo # << >> /\ k.at = "change"
         \/ k.todo = << >> /\ k.at = "record"
  <2>1. "record" \in Step
    BY DEF Step
  <2> QED
    BY <1>1, <1>3, <2>1, AdvanceFacts DEF Same, o
<1> HIDE DEF k
<1>5. Left(d) = Left(j) /\ (k.at = "record" => Left(k) = {})
  BY <1>3, <1>4, EmptyFacts DEF Left
<1>6. /\ j.op = "still" /\ j.wall \in Still /\ j.outputs # {}
      /\ j.done \subseteq j.outputs /\ j.done \cap Left(j) = {}
  BY <1>1 DEF InForm, Idle, StillForm, PlayForm, ClearForm
<1>7. InForm(k)
  BY <1>1, <1>3, <1>4, <1>5, <1>6 DEF InForm, Looping, Idle, StillForm, Same
<1> QED
  BY <1>2, <1>3, <1>4, <1>5, <1>6, <1>7 DEF Same, j, o

LEMMA StartJob ==
    ASSUME Basics, NEW r \in Request, Start(r)
    PROVE  \E k \in Job : /\ Becomes(r, k) /\ InForm(k) /\ Same(k, job[r])
                          /\ k.at = "await" /\ k.op = "play" /\ k.wall \in Moving
                          /\ k.done = job[r].done /\ k.todo = job[r].todo
<1> DEFINE j == job[r]
<1>1. j \in Job /\ InForm(j) /\ j.at = "start" /\ Goes(r, "await")
  BY JobNow DEF Start, At
<1>2. PICK k \in Job : /\ Becomes(r, k) /\ Same(k, j)
                       /\ k.at = "await" /\ k.done = j.done /\ k.todo = j.todo
  BY <1>1, GoesJob DEF Step
<1> HIDE DEF j
<1>3. InForm(k) /\ k.op = "play" /\ k.wall \in Moving
  BY <1>1, <1>2 DEF InForm, Looping, Idle, Left, StillForm, PlayForm, ClearForm, Same
<1> QED
  BY <1>2, <1>3 DEF j

LEMMA ReadyJob ==
    ASSUME Basics, NEW r \in Request, Ready(r)
    PROVE  \E k \in Job :
               /\ Becomes(r, k) /\ InForm(k) /\ Same(k, job[r]) /\ k.op = "play"
               /\ k.done = job[r].done \cup {Head(job[r].todo)}
               /\ Left(k) = Left(job[r]) \ {Head(job[r].todo)}
               /\ k.at = "start" \/ (k.at = "record" /\ Left(k) = {})
<1> DEFINE j == job[r]
           o == Head(j.todo)
           d == [j EXCEPT !.at = "start", !.done = @ \cup {o}]
           k == Advance(d, "record")
<1>1. /\ j \in Job /\ InForm(j) /\ j.at = "await"
      /\ o \in Output /\ o \in Left(j) /\ Left(j) \subseteq j.outputs
      /\ j.todo # << >> /\ IsInjective(j.todo)
  BY JobNow, HeadNow DEF Looping, Ready, At
<1>2. Becomes(r, k)
  BY DEF Ready
<1> HIDE DEF j, o
<1>3. /\ d \in Job /\ d.at = "start" /\ d.todo = j.todo /\ Same(d, j)
      /\ d.done = j.done \cup {o}
  BY <1>1 DEF Job, Step, Same
<1> HIDE DEF d
<1>4. /\ k \in Job /\ Same(k, d) /\ k.done = d.done
      /\ Left(k) = Left(d) \ {o} /\ IsInjective(k.todo)
      /\ \/ k.todo # << >> /\ k.at = "start"
         \/ k.todo = << >> /\ k.at = "record"
  <2>1. "record" \in Step
    BY DEF Step
  <2> QED
    BY <1>1, <1>3, <2>1, AdvanceFacts DEF Same, o
<1> HIDE DEF k
<1>5. Left(d) = Left(j) /\ (k.at = "record" => Left(k) = {})
  BY <1>3, <1>4, EmptyFacts DEF Left
<1>6. /\ j.op = "play" /\ j.wall \in Moving /\ j.outputs # {}
      /\ j.outputs = j.done \cup Left(j) /\ j.done \cap Left(j) = {}
  BY <1>1 DEF InForm, Idle, StillForm, PlayForm, ClearForm
<1>7. InForm(k)
  BY <1>1, <1>3, <1>4, <1>5, <1>6 DEF InForm, Looping, Idle, PlayForm, Same
<1> QED
  BY <1>2, <1>3, <1>4, <1>5, <1>6, <1>7 DEF Same, j, o

LEMMA AbandonJob ==
    ASSUME Basics, NEW r \in Request, job[r].op = "play",
           job[r].at \in {"start", "await", "record"}, Abandon(r)
    PROVE  \E k \in Job :
               /\ Becomes(r, k) /\ InForm(k)
               /\ \/ k.at = "failed" /\ k.done = {} /\ job[r].done = {}
                  \/ Same(k, job[r]) /\ k.at = "abandon" /\ k.done = job[r].done /\ k.done # {}
<1> DEFINE j == job[r]
<1>1. j \in Job /\ InForm(j) /\ j.done \in SUBSET Output
  BY JobNow DEF Job
<1>2. CASE InOrder(j.done) = << >>
  <2>1. Ends(r, "failed") /\ j.done = {}
    BY <1>1, <1>2, InOrderFacts DEF Abandon
  <2> QED
    BY <2>1, EndsJob
<1>3. CASE InOrder(j.done) # << >>
  <2>1. Becomes(r, [job[r] EXCEPT !.at = "abandon", !.todo = InOrder(j.done)]) /\ j.done # {}
    BY <1>1, <1>3, InOrderFacts DEF Abandon
  <2>2. PICK k \in Job : /\ Becomes(r, k) /\ Same(k, j)
                         /\ k.at = "abandon" /\ k.done = j.done
                         /\ k.todo # << >> /\ IsInjective(k.todo) /\ Left(k) = j.done
    <3>1. "abandon" \in Step
      BY DEF Step
    <3>2. j.done \in SUBSET Output /\ j.done # {}
      BY <1>1, <2>1
    <3>3. Becomes(r, [job[r] EXCEPT !.at = "abandon", !.todo = InOrder(j.done)])
      BY <2>1
    <3> QED
      BY <3>1, <3>2, <3>3, LoopsJob
  <2>3. j.op = "play" /\ j.at \in {"start", "await", "record"}
    OBVIOUS
  <2> HIDE DEF j
  <2>4. PlayForm(j) /\ j.outputs # {} /\ j.done \subseteq j.outputs
    BY <1>1, <2>3 DEF InForm, Idle, StillForm, PlayForm, ClearForm
  <2>5. InForm(k)
    BY <2>2, <2>4 DEF InForm, Looping, Idle, PlayForm, Same
  <2> QED
    BY <2>1, <2>2, <2>5 DEF j
<1> QED
  BY <1>2, <1>3

\* A clear goes from one step to the next.
LEMMA ClearJob ==
    ASSUME Basics, NEW r \in Request, NEW step \in {"unset", "forget"},
           job[r].at \in {"blank", "unset"}, Goes(r, step)
    PROVE  \E k \in Job : /\ Becomes(r, k) /\ InForm(k) /\ Same(k, job[r])
                          /\ k.at = step /\ k.op = "clear" /\ k.done = {} /\ Left(k) = {}
<1> DEFINE j == job[r]
<1>1. j \in Job /\ InForm(j) /\ j.at \in {"blank", "unset"}
  BY JobNow
<1>2. PICK k \in Job : /\ Becomes(r, k) /\ Same(k, j)
                       /\ k.at = step /\ k.done = j.done /\ k.todo = j.todo
  BY GoesJob DEF Step
<1> HIDE DEF j
<1>3. j.todo = << >> /\ j.done = {} /\ j.outputs # {} /\ j.op = "clear"
  BY <1>1 DEF InForm, Looping, Idle, StillForm, PlayForm, ClearForm
<1>4. Left(k) = {} /\ IsInjective(k.todo)
  BY <1>2, <1>3, EmptyFacts DEF Left
<1>5. InForm(k)
  BY <1>2, <1>3, <1>4 DEF InForm, Looping, Idle, ClearForm, Same
<1> QED
  BY <1>2, <1>3, <1>4, <1>5 DEF Same, j

-----------------------------------------------------------------------------
\* Every step keeps the basics.

LEMMA BasicsStep ==
    ASSUME Basics, NEW r \in Request, NEW k \in Job, Becomes(r, k), InForm(k),
           Typed', Handed(r, k),
           \A o \in Output : seen[o] \subseteq seen'[o],
           \A o \in k.done : k.wall \in seen'[o],
           \A o \in Output : \/ clock'[o] = clock[o]
                             \/ clock'[o] = NoClock
                             \/ clock'[o].owner = r /\ clock'[o].shown = FALSE,
           k.at \notin {"ok", "failed"} => \A o \in Output : clock'[o].owner = r => OwnClock(r, o)',
           \A o \in Output : \/ session'[o] = session[o]
                             \/ session'[o] = NoWall
                             \/ session'[o] \in seen'[o]
    PROVE  Basics'
<1>1. TypeOK'
  BY TypeStep
<1>2. \A q \in Request : InForm(job'[q])
  BY OneMoves
<1>3. Shown' /\ RecordedWasShown'
  BY ShownStep
<1> QED
  BY <1>1, <1>2, <1>3 DEF Basics

\* A request that runs keeps what it has done, or has none.
LEMMA KeepsDone ==
    ASSUME Basics, NEW r \in Request, NEW k, UNCHANGED seen,
           k.done = {} \/ (k.done = job[r].done /\ k.wall = job[r].wall)
    PROVE  /\ \A o \in Output : seen[o] \subseteq seen'[o]
           /\ \A o \in k.done : k.wall \in seen'[o]
BY DEF Basics, Shown

LEMMA OwnNow ==
    ASSUME Basics, NEW r \in Request, NEW o \in Output, clock[o].owner = r,
           job[r].at \notin {"ok", "failed"}
    PROVE  OwnClock(r, o)
BY DEF Basics, Shown, Ended

\* Whoever does not play has no clock.
LEMMA NoneOwned ==
    ASSUME Basics, NEW r \in Request, job[r].at \notin {"ok", "failed"},
           job[r].op # "play" \/ job[r].at \in {"new", "stop"}
    PROVE  \A o \in Output : clock[o].owner # r
BY OwnNow DEF OwnClock

\* The clocks of a request that goes on stay its own.
LEMMA StaysOwn ==
    ASSUME Basics, NEW r \in Request, NEW k \in Job, Becomes(r, k), InForm(k), Same(k, job[r]),
           job[r].at \notin {"ok", "failed"}, k.at \notin {"new", "stop"},
           job[r].done \subseteq k.done,
           NEW o \in Output, clock'[o] = clock[o], clock[o].owner = r,
           o \in job[r].done \/ o \in k.done \/ (k.at = "await" /\ o = Head(k.todo))
    PROVE  OwnClock(r, o)'
<1>1. job'[r] = k
  BY OneMoves
<1>2. OwnClock(r, o)
  BY OwnNow
<1> QED
  BY <1>1, <1>2 DEF OwnClock, Same

LEMMA ShowFacts ==
    ASSUME Typed, NEW o \in Output, NEW picture \in SUBSET Wall, Show(o, picture)
    PROVE  /\ screen' \in [Output -> Picture] /\ seen' \in [Output -> SUBSET Wall]
           /\ screen'[o] = picture
           /\ \A p \in Output \ {o} : screen'[p] = screen[p]
           /\ \A p \in Output : seen[p] \subseteq seen'[p]
           /\ \A w : picture = {w} => w \in seen'[o]
<1>1. screen \in [Output -> Picture] /\ seen \in [Output -> SUBSET Wall]
  BY DEF Typed
<1>2. screen' \in [Output -> Picture] /\ screen'[o] = picture
      /\ \A p \in Output \ {o} : screen'[p] = screen[p]
  BY <1>1 DEF Show, Picture
<1> DEFINE new == IF Cardinality(picture) = 1 THEN seen[o] \cup picture ELSE seen[o]
<1>3. new \in SUBSET Wall /\ seen[o] \subseteq new
  BY <1>1
<1>4. seen' = [seen EXCEPT ![o] = new]
  BY DEF Show
<1>5. \A w : picture = {w} => w \in new
  BY FS_Singleton
<1> HIDE DEF new
<1> QED
  BY <1>1, <1>2, <1>3, <1>4, <1>5

LEMMA StopClockFacts ==
    ASSUME Typed, NEW o \in Output, StopClock(o)
    PROVE  /\ clock' \in [Output -> Clock \cup {NoClock}] /\ UNCHANGED inhand
           /\ clock'[o] = NoClock
           /\ \A p \in Output \ {o} : clock'[p] = clock[p]
<1>1. clock \in [Output -> Clock \cup {NoClock}]
  BY DEF Typed
<1> QED
  BY <1>1 DEF StopClock

LEMMA MishapsTyped ==
    ASSUME Typed, NEW flags \in SUBSET Mishap, Mishaps(flags)
    PROVE  mishaps' \subseteq Mishap
BY DEF Typed, Mishaps

LEMMA AskBasics ==
    ASSUME Basics, NEW r \in Request, NEW op, NEW w, NEW anim \in BOOLEAN,
           NEW targets \in SUBSET Output, targets # {},
           Fits(op, w), Ask(r, op, w, anim, targets)
    PROVE  Basics'
<1>1. PICK k \in Job : /\ Becomes(r, k) /\ InForm(k)
                       /\ k.at = "stop" /\ k.outputs = targets /\ k.op = op /\ k.done = {}
  BY AskJob
<1>2. job[r].at = "new"
  BY DEF Ask, At
<1>3. Typed'
  <2>1. mishaps' \subseteq Mishap
    BY TypedNow, MishapsTyped DEF Ask, Mishap
  <2> QED
    BY <2>1, TypedNow DEF Typed, Ask, tables, drawing, clocks
<1>4. Handed(r, k)
  BY <1>1, <1>2 DEF Handed, Holds, Ask, drawing
<1>5. \A o \in Output : clock[o].owner # r
  BY <1>2, NoneOwned
<1> QED
  BY <1>1, <1>3, <1>4, <1>5, BasicsStep, KeepsDone DEF Ask, tables, clocks

LEMMA StopBasics ==
    ASSUME Basics, NEW r \in Request, Stop(r)
    PROVE  Basics'
<1>1. PICK k \in Job :
          /\ Becomes(r, k) /\ InForm(k) /\ Same(k, job[r]) /\ k.done = {}
          /\ k.at \in {"stop", "start", "halt"}
  BY StopJob
<1>2. job[r].at = "stop" /\ Head(job[r].todo) \in Output
  BY HeadNow DEF Stop, At, Looping
<1>3. Typed'
  <2>1. Typed /\ epoch' \in Nat /\ inflight' \in [Output -> [epoch : Nat, picture : Picture]]
    BY <1>2, TypedNow, StopTransitionTyped DEF Stop
  <2> QED
    BY <2>1 DEF Typed, Stop, tables, clocks, history
<1>4. Handed(r, k)
  BY <1>1, <1>2 DEF Handed, Holds, Stop
<1>5. \A o \in Output : clock[o].owner # r
  BY <1>2, NoneOwned
<1>6. UNCHANGED <<session, clock, seen>>
  BY DEF Stop, tables, clocks, history
<1> QED
  BY <1>1, <1>3, <1>4, <1>5, <1>6, BasicsStep, KeepsDone

LEMMA HaltBasics ==
    ASSUME Basics, NEW r \in Request, Halt(r)
    PROVE  Basics'
<1> DEFINE o == Head(job[r].todo)
<1>1. PICK k \in Job :
          /\ Becomes(r, k) /\ InForm(k)
          /\ \/ k.at = "failed" /\ k.done = {}
             \/ /\ Same(k, job[r]) /\ k.done = job[r].done
                /\ k.at = job[r].at \/ (job[r].at = "halt" /\ k.at \in {"lock", "blank"})
  BY HaltJob
<1>2. job[r].at \in {"halt", "abandon"} /\ o \in Output
  BY HeadNow DEF Halt, At, Looping
<1>3. /\ clock' \in [Output -> Clock \cup {NoClock}] /\ UNCHANGED inhand
      /\ clock'[o] = NoClock /\ \A p \in Output \ {o} : clock'[p] = clock[p]
  BY <1>2, TypedNow, StopClockFacts DEF Halt
<1> HIDE DEF o
<1>4. Typed'
  <2>1. mishaps' \subseteq Mishap
    BY TypedNow, MishapsTyped DEF Halt, Mishap
  <2> QED
    BY <1>3, <2>1, TypedNow DEF Typed, Halt, tables, drawing
<1>5. Handed(r, k)
  BY <1>1, <1>2 DEF Handed, Holds, Halt, drawing
<1>6. k.at # "failed" => \A p \in Output : clock'[p].owner = r => OwnClock(r, p)'
  <2>1. SUFFICES ASSUME k.at # "failed", NEW p \in Output, clock'[p].owner = r
                 PROVE  OwnClock(r, p)'
    OBVIOUS
  <2>2. NoClock.owner # r
    BY EngineAssumption DEF NoClock, Request, EngineAssumption
  <2>3. clock'[p] = clock[p] /\ clock[p].owner = r
    BY <1>3, <2>1, <2>2
  <2>4. OwnClock(r, p)
    BY <1>2, <2>3, OwnNow
  <2>5. p \in job[r].done /\ k.at \notin {"new", "stop"}
    BY <1>1, <1>2, <2>1, <2>4 DEF OwnClock
  <2> QED
    BY <1>1, <1>2, <2>1, <2>3, <2>5, StaysOwn
<1>7. UNCHANGED <<session, seen>>
  BY DEF Halt, tables
<1>8. /\ \A p \in Output : seen[p] \subseteq seen'[p]
      /\ \A p \in k.done : k.wall \in seen'[p]
  BY <1>1, <1>7, KeepsDone DEF Same
<1> QED
  BY <1>1, <1>3, <1>4, <1>5, <1>6, <1>7, <1>8, BasicsStep

LEMMA LockBasics ==
    ASSUME Basics, NEW r \in Request, Lock(r)
    PROVE  Basics'
<1>1. PICK k \in Job : /\ Becomes(r, k) /\ InForm(k) /\ Same(k, job[r])
                       /\ k.at = "change" /\ k.op = "still" /\ k.done = {}
  BY LockJob
<1>2. job[r].at = "lock" /\ job[r].op = "still"
  BY <1>1 DEF Lock, At, Same
<1>3. Typed'
  BY TypedNow DEF Typed, Lock, tables, clocks, history
<1>4. Handed(r, k)
  BY <1>1, <1>2 DEF Handed, Holds, Lock, Acquire
<1>5. \A o \in Output : clock[o].owner # r
  BY <1>2, NoneOwned
<1>6. UNCHANGED <<session, clock, seen>>
  BY DEF Lock, tables, clocks, history
<1> QED
  BY <1>1, <1>3, <1>4, <1>5, <1>6, BasicsStep, KeepsDone

LEMMA BeginBasics ==
    ASSUME Basics, NEW r \in Request, Begin(r)
    PROVE  Basics'
<1> DEFINE o == Head(job[r].todo)
           from == IF inflight[o] # NoFlight THEN inflight[o].picture ELSE {applied[o]}
           Flight == [epoch : Nat, picture : Picture]
<1>1. PICK k \in Job : /\ Becomes(r, k) /\ InForm(k) /\ Same(k, job[r])
                       /\ k.at = "animate" /\ k.op = "still" /\ k.done = job[r].done
  BY BeginJob
<1>2. job[r].at = "change" /\ job[r].op = "still" /\ o \in Output
  BY <1>1, HeadNow DEF Begin, At, Looping, Same
<1>3. Typed'
  <2>1. Typed /\ epoch \in Nat /\ inflight \in [Output -> Flight]
    BY TypedNow DEF Typed
  <2>2. from \in SUBSET Wall
    BY <1>2, FromTyped DEF Begin
  <2>3. [epoch |-> epoch + 1, picture |-> from] \in Flight
    <3> HIDE DEF from
    <3> QED
      BY <2>1, <2>2 DEF Picture
  <2>4. inflight' = [inflight EXCEPT ![o] = [epoch |-> epoch + 1, picture |-> from]]
    BY DEF Begin
  <2> HIDE DEF o, from, Flight
  <2>5. inflight' \in [Output -> Flight]
    BY <1>2, <2>1, <2>3, <2>4
  <2>6. epoch' \in Nat
    BY <2>1 DEF Begin
  <2> QED
    BY <2>1, <2>5, <2>6 DEF Typed, Begin, tables, clocks, history, Flight
<1>4. Handed(r, k)
  BY <1>1, <1>2 DEF Handed, Holds, Begin
<1>5. \A p \in Output : clock[p].owner # r
  BY <1>2, NoneOwned
<1>6. UNCHANGED <<session, clock, seen>>
  BY DEF Begin, tables, clocks, history
<1>7. /\ \A p \in Output : seen[p] \subseteq seen'[p]
      /\ \A p \in k.done : k.wall \in seen'[p]
  BY <1>1, <1>6, KeepsDone DEF Same
<1> QED
  BY <1>1, <1>3, <1>4, <1>5, <1>6, <1>7, BasicsStep

LEMMA BlendBasics ==
    ASSUME Basics, NEW r \in Request, Blend(r)
    PROVE  Basics'
<1> DEFINE o == Head(job[r].todo)
           picture == job[r].source \cup {job[r].wall}
           Flight == [epoch : Nat, picture : Picture]
<1>1. PICK k \in Job : /\ Becomes(r, k) /\ InForm(k) /\ Same(k, job[r])
                       /\ k.at = "animate" /\ k.op = "still" /\ k.done = job[r].done
  BY BlendJob
<1>2. job[r].at = "animate" /\ job[r].op = "still" /\ o \in Output
  BY <1>1, HeadNow DEF Blend, At, Looping, Same
<1>3. picture \in SUBSET Wall
  <2>1. job[r] \in Job /\ job[r].wall \in Still
    BY <1>2, JobNow DEF InForm, Idle, StillForm, PlayForm, ClearForm
  <2> QED
    BY <2>1 DEF Job, Wall
<1>4. /\ screen' \in [Output -> Picture] /\ seen' \in [Output -> SUBSET Wall]
      /\ \A p \in Output : seen[p] \subseteq seen'[p]
  BY <1>2, <1>3, TypedNow, ShowFacts DEF Blend
<1>5. Typed'
  <2>1. Typed /\ inflight \in [Output -> Flight]
    BY TypedNow DEF Typed
  <2>2. inflight' = [inflight EXCEPT ![o].picture = picture]
    BY DEF Blend
  <2> HIDE DEF o, picture
  <2>3. [inflight[o] EXCEPT !.picture = picture] \in Flight
    BY <1>2, <1>3, <2>1 DEF Picture
  <2> HIDE DEF Flight
  <2>4. inflight' \in [Output -> Flight]
    BY <1>2, <2>1, <2>2, <2>3
  <2> QED
    BY <1>4, <2>1, <2>4 DEF Typed, Blend, tables, clocks, Flight
<1>6. Handed(r, k)
  BY <1>1, <1>2 DEF Handed, Holds, Blend
<1>7. \A p \in Output : clock[p].owner # r
  BY <1>2, NoneOwned
<1>8. \A p \in k.done : k.wall \in seen'[p]
  <2>1. k.done \subseteq Output
    BY DEF Job
  <2> QED
    BY <1>1, <1>4, <2>1 DEF Basics, Shown, Same
<1>9. UNCHANGED <<session, clock>>
  BY DEF Blend, tables, clocks
<1> QED
  BY <1>1, <1>4, <1>5, <1>6, <1>7, <1>8, <1>9, BasicsStep

\* A still is drawn in full: the last frame of a blend, or at once.
LEMMA DrawnBasics ==
    ASSUME Basics, NEW r \in Request, job[r].at \in {"change", "animate"},
           Show(Head(job[r].todo), {job[r].wall}), Becomes(r, Through(r, TRUE)),
           epoch' \in Nat, inflight' \in [Output -> [epoch : Nat, picture : Picture]],
           UNCHANGED <<tables, gpu, clocks, mishaps>>
    PROVE  Basics'
<1> DEFINE o == Head(job[r].todo)
           w == job[r].wall
<1>1. PICK k \in Job : /\ Becomes(r, k) /\ InForm(k) /\ Same(k, job[r]) /\ k.op = "still"
                       /\ k.done = job[r].done \cup {o}
                       /\ k.at \in {"change", "record"}
  BY ThroughJob
<1>2. job[r].op = "still" /\ o \in Output /\ {w} \in SUBSET Wall
  <2>1. o \in Output
    BY HeadNow DEF Looping
  <2>2. InForm(job[r]) /\ job[r].op = "still"
    BY <1>1, JobNow DEF Same
  <2>3. w \in Still
    BY <2>2 DEF InForm, Idle, StillForm, PlayForm, ClearForm
  <2> QED
    BY <2>1, <2>2, <2>3 DEF Wall
<1>3. /\ screen' \in [Output -> Picture] /\ seen' \in [Output -> SUBSET Wall]
      /\ \A p \in Output : seen[p] \subseteq seen'[p]
      /\ w \in seen'[o]
  BY <1>2, TypedNow, ShowFacts
<1>4. Typed'
  BY <1>3, TypedNow DEF Typed, tables, clocks
<1>5. Handed(r, k)
  BY <1>1, <1>2 DEF Handed, Holds
<1>6. \A p \in Output : clock[p].owner # r
  BY <1>2, NoneOwned
<1>7. \A p \in k.done : k.wall \in seen'[p]
  <2>1. k.done \subseteq Output
    BY DEF Job
  <2> HIDE DEF o, w
  <2>2. \A p \in job[r].done : job[r].wall \in seen[p]
    BY DEF Basics, Shown
  <2> QED
    BY <1>1, <1>3, <2>1, <2>2 DEF Same, w
<1>8. UNCHANGED <<session, clock>>
  BY DEF tables, clocks
<1> QED
  BY <1>1, <1>3, <1>4, <1>5, <1>6, <1>7, <1>8, BasicsStep

LEMMA CompleteBasics ==
    ASSUME Basics, NEW r \in Request, Complete(r)
    PROVE  Basics'
<1> DEFINE o == Head(job[r].todo)
           Flight == [epoch : Nat, picture : Picture]
           new == IF inflight[o].epoch = job[r].epoch THEN NoFlight ELSE inflight[o]
<1>1. inflight \in [Output -> Flight] /\ epoch \in Nat /\ NoFlight \in Flight
  BY TypedNow DEF Typed, NoFlight, Picture
<1>2. job[r].at = "animate" /\ o \in Output
  BY HeadNow DEF Complete, At, Looping
<1>3. inflight' = [inflight EXCEPT ![o] = new]
  BY DEF Complete
<1> HIDE DEF o, Flight
<1>4. new \in Flight
  BY <1>1, <1>2
<1> HIDE DEF new
<1>5. inflight' \in [Output -> Flight] /\ epoch' \in Nat
  BY <1>1, <1>2, <1>3, <1>4 DEF Complete
<1> QED
  BY <1>2, <1>5, DrawnBasics DEF Complete, Flight

LEMMA DirectBasics ==
    ASSUME Basics, NEW r \in Request, Direct(r)
    PROVE  Basics'
<1>1. job[r].at \in {"change", "animate"}
  BY DEF Direct, At
<1>2. Head(job[r].todo) \in Output
  BY <1>1, HeadNow DEF Looping
<1>3. epoch' \in Nat /\ inflight' \in [Output -> [epoch : Nat, picture : Picture]]
  BY <1>2, TypedNow, StopTransitionTyped DEF Direct
<1> QED
  BY <1>1, <1>3, DrawnBasics DEF Direct

LEMMA SupersededBasics ==
    ASSUME Basics, NEW r \in Request, Superseded(r)
    PROVE  Basics'
<1>1. job[r].at = "animate" /\ Becomes(r, Through(r, FALSE))
  BY DEF Superseded, At, GiveUp
<1>2. PICK k \in Job : /\ Becomes(r, k) /\ InForm(k) /\ Same(k, job[r]) /\ k.op = "still"
                       /\ k.done = job[r].done /\ k.at \in {"change", "record"}
  BY <1>1, ThroughJob
<1>3. Typed'
  <2>1. mishaps' \subseteq Mishap
    BY TypedNow, MishapsTyped DEF Superseded, Mishap
  <2> QED
    BY <2>1, TypedNow DEF Typed, Superseded, tables, drawing, clocks
<1>4. Handed(r, k)
  BY <1>1, <1>2 DEF Handed, Holds, Superseded, drawing, Same
<1>5. \A p \in Output : clock[p].owner # r
  BY <1>1, <1>2, NoneOwned DEF Same
<1>6. UNCHANGED <<session, clock, seen>>
  BY DEF Superseded, tables, clocks
<1>7. /\ \A p \in Output : seen[p] \subseteq seen'[p]
      /\ \A p \in k.done : k.wall \in seen'[p]
  BY <1>2, <1>6, KeepsDone DEF Same
<1> QED
  BY <1>2, <1>3, <1>4, <1>5, <1>6, <1>7, BasicsStep

\* A request ends, and gives the GPU back if it has it.
LEMMA EndsBasics ==
    ASSUME Basics, NEW r \in Request, NEW answer \in {"ok", "failed"}, Ends(r, answer),
           Typed', Release(r) \/ (UNCHANGED gpu /\ ~Holds(job[r])), UNCHANGED seen,
           \A o \in Output : clock'[o] = clock[o] \/ clock'[o] = NoClock,
           \A o \in Output : \/ session'[o] = session[o]
                             \/ session'[o] = NoWall
                             \/ session'[o] \in seen[o]
    PROVE  Basics'
<1>1. PICK k \in Job : /\ Becomes(r, k) /\ InForm(k) /\ k.at = answer /\ k.done = {}
  BY EndsJob
<1>2. Handed(r, k)
  <2>1. ~Holds(k)
    BY <1>1 DEF Holds
  <2>2. gpu = r <=> Holds(job[r])
    BY DEF Basics, TypeOK, Holds
  <2> QED
    BY <2>1, <2>2 DEF Handed, Release
<1>3. /\ \A p \in Output : seen[p] \subseteq seen'[p]
      /\ \A p \in k.done : k.wall \in seen'[p]
  BY <1>1, KeepsDone
<1> QED
  BY <1>1, <1>2, <1>3, BasicsStep

LEMMA DrawFailsBasics ==
    ASSUME Basics, NEW r \in Request, DrawFails(r)
    PROVE  Basics'
<1>1. Typed'
  <2>1. mishaps' \subseteq Mishap
    BY TypedNow, MishapsTyped DEF DrawFails, Fail, Mishap
  <2> QED
    BY <2>1, TypedNow DEF Typed, DrawFails, tables, clocks
<1>2. UNCHANGED <<session, clock, seen>>
  BY DEF DrawFails, tables, clocks
<1> QED
  BY <1>1, <1>2, EndsBasics DEF DrawFails, Fail

LEMMA StartBasics ==
    ASSUME Basics, NEW r \in Request, Start(r)
    PROVE  Basics'
<1> DEFINE j == job[r]
           o == Head(j.todo)
           c == [wall |-> j.wall, owner |-> r, shown |-> FALSE]
<1>1. PICK k \in Job : /\ Becomes(r, k) /\ InForm(k) /\ Same(k, j)
                       /\ k.at = "await" /\ k.op = "play" /\ k.wall \in Moving
                       /\ k.done = j.done /\ k.todo = j.todo
  BY StartJob
<1>2. j.at = "start" /\ o \in Output
  BY HeadNow DEF Start, At, Looping
<1>3. c \in Clock
  <2>1. r \in 0..MaxRequests /\ j.wall \in Moving
    BY <1>1, EngineAssumption DEF Request, EngineAssumption, Same
  <2> QED
    BY <2>1 DEF Clock
<1>4. /\ clock' \in [Output -> Clock \cup {NoClock}]
      /\ clock'[o] = c /\ \A p \in Output \ {o} : clock'[p] = clock[p]
  <2>1. clock \in [Output -> Clock \cup {NoClock}] /\ clock' = [clock EXCEPT ![o] = c]
    BY TypedNow DEF Typed, Start
  <2> HIDE DEF c, o
  <2> QED
    BY <1>2, <1>3, <2>1
<1>5. Typed'
  <2>1. mishaps' \subseteq Mishap
    BY TypedNow, MishapsTyped DEF Start, Mishap
  <2> QED
    BY <1>4, <2>1, TypedNow DEF Typed, Start, tables, drawing
<1>6. Handed(r, k)
  BY <1>1, <1>2 DEF Handed, Holds, Start, drawing
<1>7. \A p \in Output : clock'[p].owner = r => OwnClock(r, p)'
  <2>1. SUFFICES ASSUME NEW p \in Output, clock'[p].owner = r
                 PROVE  OwnClock(r, p)'
    OBVIOUS
  <2>2. CASE p = o
    <3>1. job'[r] = k
      BY <1>1, OneMoves
    <3>2. clock'[p].wall = j.wall
      BY <1>4, <2>2
    <3> QED
      BY <1>1, <2>2, <3>1, <3>2 DEF OwnClock, Same
  <2>3. CASE p # o
    <3>1. clock'[p] = clock[p] /\ clock[p].owner = r
      BY <1>4, <2>1, <2>3
    <3>2. OwnClock(r, p)
      BY <1>2, <3>1, OwnNow
    <3>3. p \in j.done
      BY <1>2, <3>2 DEF OwnClock
    <3> QED
      BY <1>1, <1>2, <3>1, <3>3, StaysOwn
  <2> QED
    BY <2>2, <2>3
<1>8. UNCHANGED <<session, seen>>
  BY DEF Start, tables
<1>9. /\ \A p \in Output : seen[p] \subseteq seen'[p]
      /\ \A p \in k.done : k.wall \in seen'[p]
  BY <1>1, <1>8, KeepsDone DEF Same
<1>10. \A p \in Output : \/ clock'[p] = clock[p]
                         \/ clock'[p].owner = r /\ clock'[p].shown = FALSE
  BY <1>4
<1> QED
  BY <1>1, <1>5, <1>6, <1>7, <1>8, <1>9, <1>10, BasicsStep

LEMMA ReadyBasics ==
    ASSUME Basics, NEW r \in Request, Ready(r)
    PROVE  Basics'
<1> DEFINE j == job[r]
           o == Head(j.todo)
<1>1. PICK k \in Job : /\ Becomes(r, k) /\ InForm(k) /\ Same(k, j) /\ k.op = "play"
                       /\ k.done = j.done \cup {o}
                       /\ k.at \in {"start", "record"}
  BY ReadyJob
<1>2. j.at = "await" /\ o \in Output /\ clock[o].owner = r /\ clock[o].shown
  BY HeadNow DEF Ready, At, Looping
<1>3. Typed'
  BY TypedNow DEF Typed, Ready, tables, drawing, clocks, history
<1>4. Handed(r, k)
  BY <1>1, <1>2 DEF Handed, Holds, Ready, drawing, Same
<1>5. UNCHANGED <<session, clock, seen>>
  BY DEF Ready, tables, clocks, history
<1>6. \A p \in k.done : k.wall \in seen'[p]
  <2>1. OwnClock(r, o)
    BY <1>2, OwnNow
  <2>2. j.wall \in seen[o] /\ \A p \in j.done : j.wall \in seen[p]
    BY <1>2, <2>1 DEF Basics, Shown, OwnClock
  <2> QED
    BY <1>1, <1>5, <2>2 DEF Same
<1>7. \A p \in Output : clock'[p].owner = r => OwnClock(r, p)'
  <2>1. SUFFICES ASSUME NEW p \in Output, clock'[p].owner = r
                 PROVE  OwnClock(r, p)'
    OBVIOUS
  <2>2. OwnClock(r, p)
    BY <1>2, <1>5, <2>1, OwnNow
  <2>3. p \in k.done
    BY <1>1, <2>2 DEF OwnClock
  <2>4. j.done \subseteq k.done /\ clock'[p] = clock[p] /\ clock[p].owner = r
    BY <1>1, <1>5, <2>1
  <2> QED
    BY <1>1, <1>2, <2>3, <2>4, StaysOwn
<1> QED
  BY <1>1, <1>3, <1>4, <1>5, <1>6, <1>7, BasicsStep

\* A play that fails ends, or goes on to stop the clocks it started.
LEMMA AbandonBasics ==
    ASSUME Basics, NEW r \in Request, job[r].op = "play",
           job[r].at \in {"start", "await", "record"}, Abandon(r),
           Typed', UNCHANGED <<gpu, session, seen>>,
           NEW S \in SUBSET Output, S \cap job[r].done = {},
           \A o \in S : clock'[o] = NoClock,
           \A o \in Output \ S : clock'[o] = clock[o],
           job[r].at = "await" => \/ Head(job[r].todo) \in S
                                  \/ clock[Head(job[r].todo)].owner # r
    PROVE  Basics'
<1>1. PICK k \in Job :
          /\ Becomes(r, k) /\ InForm(k)
          /\ \/ k.at = "failed" /\ k.done = {} /\ job[r].done = {}
             \/ Same(k, job[r]) /\ k.at = "abandon" /\ k.done = job[r].done
  BY AbandonJob
<1>2. Handed(r, k)
  BY <1>1 DEF Handed, Holds, Same
<1>3. /\ \A p \in Output : seen[p] \subseteq seen'[p]
      /\ \A p \in k.done : k.wall \in seen'[p]
  BY <1>1, KeepsDone DEF Same
<1>4. k.at # "failed" => \A p \in Output : clock'[p].owner = r => OwnClock(r, p)'
  <2>1. SUFFICES ASSUME k.at # "failed", NEW p \in Output, clock'[p].owner = r
                 PROVE  OwnClock(r, p)'
    OBVIOUS
  <2>2. NoClock.owner # r
    BY EngineAssumption DEF NoClock, Request, EngineAssumption
  <2>3. p \notin S /\ clock'[p] = clock[p] /\ clock[p].owner = r
    BY <2>1, <2>2
  <2>4. OwnClock(r, p)
    BY <2>3, OwnNow
  <2>5. p \in job[r].done
    BY <2>3, <2>4 DEF OwnClock
  <2>6. Same(k, job[r]) /\ k.at = "abandon" /\ job[r].done \subseteq k.done
    BY <1>1, <2>1
  <2> QED
    BY <1>1, <2>3, <2>5, <2>6, StaysOwn
<1> QED
  BY <1>1, <1>2, <1>3, <1>4, BasicsStep

LEMMA PlayFailsBasics ==
    ASSUME Basics, NEW r \in Request, PlayFails(r)
    PROVE  Basics'
<1> DEFINE j == job[r]
           o == Head(j.todo)
           S == IF At(r, "await") /\ clock[o].owner = r THEN {o} ELSE {}
<1>1. /\ j.at \in {"start", "await"} /\ j.op = "play" /\ o \in Output
      /\ o \notin j.done
  <2>1. j.at \in {"start", "await"} /\ InForm(j)
    BY JobNow DEF PlayFails, At
  <2>2. o \in Output /\ o \in Left(j)
    BY <2>1, HeadNow DEF Looping
  <2> QED
    BY <2>1, <2>2 DEF InForm, Idle, StillForm, PlayForm, ClearForm
<1>2. /\ clock' \in [Output -> Clock \cup {NoClock}] /\ UNCHANGED inhand
      /\ \A p \in S : clock'[p] = NoClock
      /\ \A p \in Output \ S : clock'[p] = clock[p]
  <2>1. CASE At(r, "await") /\ clock[o].owner = r
    BY <1>1, <2>1, TypedNow, StopClockFacts DEF PlayFails
  <2>2. CASE ~(At(r, "await") /\ clock[o].owner = r)
    BY <2>2, TypedNow DEF PlayFails, clocks, Typed
  <2> QED
    BY <2>1, <2>2
<1>3. Typed'
  <2>1. mishaps' \subseteq Mishap
    BY TypedNow, MishapsTyped DEF PlayFails, Mishap
  <2> QED
    BY <1>2, <2>1, TypedNow DEF Typed, PlayFails, tables, drawing
<1>4. S \in SUBSET Output /\ S \cap j.done = {}
  BY <1>1
<1>5. j.at = "await" => o \in S \/ clock[o].owner # r
  BY DEF At
<1>6. UNCHANGED <<gpu, session, seen>> /\ Abandon(r)
  BY DEF PlayFails, tables, drawing
<1> HIDE DEF S
<1> QED
  BY <1>1, <1>2, <1>3, <1>4, <1>5, <1>6, AbandonBasics

LEMMA RecordBasics ==
    ASSUME Basics, NEW r \in Request, Record(r)
    PROVE  Basics'
<1>1. job[r].at = "record" /\ job[r].wall \in Wall
  <2>1. job[r].at = "record" /\ InForm(job[r])
    BY JobNow DEF Record, At
  <2> QED
    BY <2>1 DEF InForm, Idle, StillForm, PlayForm, ClearForm, Wall
<1>2. Typed'
  BY <1>1, TypedNow DEF Typed, Record, clocks, history
<1>3. UNCHANGED <<clock, seen>> /\ Ends(r, "ok") /\ Release(r)
  BY DEF Record, clocks, history
<1>4. \A o \in Output : session'[o] = session[o] \/ session'[o] \in seen[o]
  BY DEF Record, Basics, Shown
<1> QED
  BY <1>2, <1>3, <1>4, EndsBasics

LEMMA RecordFailsBasics ==
    ASSUME Basics, NEW r \in Request, RecordFails(r)
    PROVE  Basics'
<1>1. job[r].at = "record" /\ UNCHANGED <<session, clock, seen>>
  BY DEF RecordFails, At, tables, clocks
<1>2. Typed'
  <2>1. mishaps' \subseteq Mishap
    BY TypedNow, MishapsTyped DEF RecordFails, Mishap
  <2> QED
    BY <2>1, TypedNow DEF Typed, RecordFails, tables, clocks
<1>3. CASE job[r].op = "play"
  <2>1. gpu' = gpu
    <3>1. gpu # r
      BY <1>3 DEF Basics, TypeOK
    <3> QED
      BY <3>1 DEF RecordFails, Release
  <2>2. Abandon(r)
    BY <1>3 DEF RecordFails
  <2>3. /\ {} \in SUBSET Output /\ {} \cap job[r].done = {}
        /\ \A o \in Output \ {} : clock'[o] = clock[o]
    BY <1>1
  <2> QED
    BY <1>1, <1>2, <1>3, <2>1, <2>2, <2>3, AbandonBasics
<1>4. CASE job[r].op # "play"
  <2>1. Ends(r, "failed") /\ Release(r)
    BY <1>4 DEF RecordFails
  <2> QED
    BY <1>1, <1>2, <2>1, EndsBasics
<1> QED
  BY <1>3, <1>4

\* A step of a clear that goes on.
LEMMA ClearBasics ==
    ASSUME Basics, NEW r \in Request, NEW step \in {"unset", "forget"},
           job[r].at \in {"blank", "unset"}, Goes(r, step), Typed',
           UNCHANGED <<gpu, clocks, seen>>,
           \A o \in Output : session'[o] = session[o] \/ session'[o] = NoWall
    PROVE  Basics'
<1>1. PICK k \in Job : /\ Becomes(r, k) /\ InForm(k) /\ Same(k, job[r])
                       /\ k.at = step /\ k.op = "clear" /\ k.done = {}
  BY ClearJob
<1>2. Handed(r, k)
  BY <1>1 DEF Handed, Holds, Same
<1>3. /\ \A p \in Output : seen[p] \subseteq seen'[p]
      /\ \A p \in k.done : k.wall \in seen'[p]
  BY <1>1, KeepsDone
<1>4. clock' = clock /\ \A p \in Output : clock[p].owner # r
  BY <1>1, NoneOwned DEF clocks, Same
<1> QED
  BY <1>1, <1>2, <1>3, <1>4, BasicsStep

LEMMA BlankBasics ==
    ASSUME Basics, NEW r \in Request, Blank(r) \/ BlankFails(r) \/ Unset(r) \/ Forget(r)
    PROVE  Basics'
<1>1. CASE Blank(r)
  <2>1. Typed'
    BY <1>1, TypedNow DEF Typed, Picture, Blank, tables, drawing, clocks, history
  <2>2. UNCHANGED <<gpu, clocks, seen, session>> /\ job[r].at = "blank" /\ Goes(r, "unset")
    BY <1>1 DEF Blank, At, tables, drawing, history
  <2> QED
    BY <2>1, <2>2, ClearBasics
<1>2. CASE BlankFails(r)
  <2>1. Typed'
    <3>1. mishaps' \subseteq Mishap
      BY <1>2, TypedNow, MishapsTyped DEF BlankFails, Mishap
    <3>2. screen' \in [Output -> Picture]
      BY <1>2, TypedNow DEF Typed, Picture, BlankFails
    <3> QED
      BY <1>2, <3>1, <3>2, TypedNow DEF Typed, BlankFails, tables, drawing, clocks
  <2>2. UNCHANGED <<gpu, clock, seen, session>> /\ job[r].at = "blank" /\ Ends(r, "failed")
    BY <1>2 DEF BlankFails, At, tables, drawing, clocks
  <2> QED
    BY <2>1, <2>2, EndsBasics DEF Holds
<1>3. CASE Unset(r)
  <2>1. session' \in [Output -> Wall \cup {NoWall}]
        /\ \A o \in Output : session'[o] = session[o] \/ session'[o] = NoWall
    BY <1>3, TypedNow DEF Typed, Unset
  <2>2. Typed'
    <3>1. mishaps' \subseteq Mishap
      BY <1>3, TypedNow, MishapsTyped DEF Unset, Mishap, Typed
    <3> QED
      BY <1>3, <2>1, <3>1, TypedNow DEF Typed, Unset, drawing, clocks
  <2>3. /\ UNCHANGED <<gpu, clocks, clock, seen>> /\ job[r].at = "unset"
        /\ Goes(r, "forget") \/ Ends(r, "failed")
    BY <1>3 DEF Unset, At, drawing, clocks
  <2>4. CASE Goes(r, "forget")
    BY <2>1, <2>2, <2>3, <2>4, ClearBasics
  <2>5. CASE Ends(r, "failed")
    BY <2>1, <2>2, <2>3, <2>5, EndsBasics DEF Holds
  <2> QED
    BY <2>3, <2>4, <2>5
<1>4. CASE Forget(r)
  <2>1. Typed'
    BY <1>4, TypedNow DEF Typed, Forget, drawing, clocks, history
  <2>2. UNCHANGED <<gpu, clock, seen, session>> /\ job[r].at = "forget" /\ Ends(r, "ok")
    BY <1>4 DEF Forget, At, drawing, clocks, history
  <2> QED
    BY <2>1, <2>2, EndsBasics DEF Holds
<1> QED
  BY <1>1, <1>2, <1>3, <1>4

\* A clock takes a frame, or shows it.
LEMMA TickBasics ==
    ASSUME Basics, Tick
    PROVE  Basics'
<1>1. PICK o \in Output : Due(o) \/ \E c \in inhand[o] : ShowFrame(o, c)
  BY DEF Tick
<1>2. /\ job' = job /\ gpu' = gpu /\ session' = session
  BY <1>1 DEF Due, ShowFrame, tables, drawing, history
<1>3. SUFFICES /\ Typed' /\ \A p \in Output : seen[p] \subseteq seen'[p]
               /\ \A p \in Output : /\ clock'[p].wall = clock[p].wall
                                    /\ clock'[p].owner = clock[p].owner
                                    /\ clock'[p].shown => clock[p].wall \in seen'[p]
  <2>1. TypeOK'
    BY <1>2, <1>3 DEF Basics, TypeOK, Typed
  <2>2. \A r \in Request : InForm(job'[r])
    BY <1>2 DEF Basics
  <2>3. \A r \in Request : job[r].done \subseteq Output
    BY JobNow DEF Job
  <2>4. Shown'
    BY <1>2, <1>3, <2>3 DEF Basics, Shown, OwnClock, Ended
  <2>5. RecordedWasShown'
    BY <1>2, <1>3 DEF Basics, RecordedWasShown
  <2> QED
    BY <2>1, <2>2, <2>4, <2>5 DEF Basics
<1>4. CASE Due(o)
  <2>1. clock[o] \in Clock /\ clock' = clock /\ seen' = seen
    BY <1>4, TypedNow DEF Typed, Due, history
  <2>2. inhand' \in [Output -> SUBSET Clock]
    <3>1. inhand \in [Output -> SUBSET Clock]
          /\ inhand' = [inhand EXCEPT ![o] = inhand[o] \cup {clock[o]}]
      BY <1>4, TypedNow DEF Typed, Due
    <3> QED
      BY <2>1, <3>1
  <2> QED
    BY <1>4, <2>1, <2>2, TypedNow DEF Typed, Due, tables, drawing, history, Basics, Shown
<1>5. CASE \E c \in inhand[o] : ShowFrame(o, c)
  <2>1. PICK c \in inhand[o] : ShowFrame(o, c)
    BY <1>5
  <2>2. c \in Clock /\ {c.wall} \in SUBSET Wall
    BY TypedNow DEF Typed, Clock, Wall
  <2>3. /\ screen' \in [Output -> Picture] /\ seen' \in [Output -> SUBSET Wall]
        /\ \A p \in Output : seen[p] \subseteq seen'[p]
        /\ c.wall \in seen'[o]
    BY <2>1, <2>2, TypedNow, ShowFacts DEF ShowFrame
  <2>4. inhand' \in [Output -> SUBSET Clock]
    BY <2>1, TypedNow DEF Typed, ShowFrame
  <2>5. /\ clock' \in [Output -> Clock \cup {NoClock}]
        /\ \A p \in Output : /\ clock'[p].wall = clock[p].wall
                             /\ clock'[p].owner = clock[p].owner
                             /\ clock'[p].shown => clock[p].wall \in seen'[p]
    <3>1. clock \in [Output -> Clock \cup {NoClock}]
          /\ \A p \in Output : clock[p].shown => clock[p].wall \in seen[p]
      BY TypedNow DEF Typed, Basics, Shown
    <3>2. CASE clock[o] = c
      <4>1. /\ [c EXCEPT !.shown = TRUE] \in Clock
            /\ [c EXCEPT !.shown = TRUE].wall = c.wall
            /\ [c EXCEPT !.shown = TRUE].owner = c.owner
        BY <2>2 DEF Clock
      <4>2. clock' = [clock EXCEPT ![o] = [c EXCEPT !.shown = TRUE]]
        BY <2>1, <3>2 DEF ShowFrame
      <4> QED
        BY <2>3, <3>1, <3>2, <4>1, <4>2
    <3>3. CASE clock[o] # c
      BY <2>1, <2>3, <3>1, <3>3 DEF ShowFrame
    <3> QED
      BY <3>2, <3>3
  <2> QED
    BY <2>1, <2>3, <2>4, <2>5, TypedNow DEF Typed, ShowFrame, tables, drawing
<1> QED
  BY <1>1, <1>4, <1>5

LEMMA FullTyped ==
    ASSUME NEW w \in Wall \cup {NoWall}
    PROVE  /\ Full(w) \in SUBSET Wall
           /\ w # NoWall => Full(w) = {w}
           /\ Full(NoWall) = {}
BY DEF Full

LEMMA InitBasics == Init => Basics
<1> SUFFICES ASSUME Init PROVE Basics
  OBVIOUS
<1>1. \A r \in Request : job[r] = NewJob
  BY DEF Init
<1>2. Typed
  <2>1. screen \in [Output -> Picture] /\ seen \in [Output -> SUBSET Wall]
    BY FullTyped DEF Init, Picture
  <2>2. \A w \in Moving : [wall |-> w, owner |-> 0, shown |-> TRUE] \in Clock
    BY EngineAssumption DEF Clock, EngineAssumption
  <2>3. clock \in [Output -> Clock \cup {NoClock}]
    BY <2>2 DEF Init
  <2>4. inflight \in [Output -> [epoch : Nat, picture : Picture]]
    <3>1. NoFlight \in [epoch : Nat, picture : Picture]
      BY DEF NoFlight, Picture
    <3> QED
      BY <3>1 DEF Init
  <2> QED
    BY <2>1, <2>3, <2>4 DEF Typed, Init
<1>3. TypeOK
  <2>1. gpu = Free /\ Free \notin Request
    BY EngineAssumption DEF Init, Free, Request, EngineAssumption
  <2>2. job \in [Request -> Job]
    BY NewJobFacts DEF Init
  <2> QED
    BY <1>1, <1>2, <2>1, <2>2, NewJobFacts DEF TypeOK, Typed
<1>4. \A r \in Request : InForm(job[r])
  BY <1>1, NewJobFacts, EmptyFacts DEF InForm, Looping, Idle, Left
<1>5. Shown
  <2>1. \A o \in Output : clock[o].shown => clock[o].wall \in seen[o]
    <3>1. SUFFICES ASSUME NEW o \in Output, clock[o].shown
                   PROVE  clock[o].wall \in seen[o]
      OBVIOUS
    <3>2. applied[o] \in Moving /\ clock[o] = [wall |-> applied[o], owner |-> 0, shown |-> TRUE]
      BY <3>1 DEF Init, NoClock
    <3>3. seen[o] = Full(applied[o]) /\ applied[o] # NoWall
      BY <3>2, EngineAssumption DEF Init, EngineAssumption
    <3> QED
      BY <3>2, <3>3 DEF Full
  <2>2. \A r \in Request, o \in Output : clock[o].owner # r
    BY EngineAssumption DEF Init, NoClock, Request, EngineAssumption
  <2> QED
    BY <1>1, <2>1, <2>2, NewJobFacts DEF Shown
<1>6. RecordedWasShown
  BY DEF Init, RecordedWasShown, Full
<1> QED
  BY <1>3, <1>4, <1>5, <1>6 DEF Basics

LEMMA ClientBasics ==
    ASSUME Basics, NEW r \in Request, Client(r)
    PROVE  Basics'
<1>1. PICK targets \in Target :
          \/ \E w \in Wall : SetMoving(r, w, targets)
                             \/ \E anim \in BOOLEAN : SetStill(r, w, anim, targets)
          \/ Clear(r, targets)
  BY DEF Client
<1>2. targets \in SUBSET Output /\ targets # {}
  BY EngineAssumption DEF Target, EngineAssumption
<1>3. CASE \E w \in Wall : SetMoving(r, w, targets)
  <2>1. PICK w \in Moving : Ask(r, "play", w, FALSE, targets)
    BY <1>3 DEF SetMoving
  <2>2. Fits("play", w)
    BY DEF Fits
  <2> QED
    BY <1>2, <2>1, <2>2, AskBasics
<1>4. CASE \E w \in Wall, anim \in BOOLEAN : SetStill(r, w, anim, targets)
  <2>1. PICK w \in Still, anim \in BOOLEAN : Ask(r, "still", w, anim, targets)
    BY <1>4 DEF SetStill
  <2>2. Fits("still", w)
    BY DEF Fits
  <2> QED
    BY <1>2, <2>1, <2>2, AskBasics
<1>5. CASE Clear(r, targets)
  <2>1. Ask(r, "clear", NoWall, FALSE, targets) /\ Fits("clear", NoWall)
    BY <1>5 DEF Clear, Fits
  <2> QED
    BY <1>2, <2>1, AskBasics
<1> QED
  BY <1>1, <1>3, <1>4, <1>5

LEMMA NextBasics == Basics /\ [Next]_vars => Basics'
<1> SUFFICES ASSUME Basics, [Next]_vars PROVE Basics'
  OBVIOUS
<1>1. CASE UNCHANGED vars
  BY <1>1 DEF vars, tables, drawing, clocks, history, Basics, TypeOK, Shown, OwnClock, Ended,
              RecordedWasShown
<1>2. CASE Tick
  BY <1>2, TickBasics
<1>3. ASSUME NEW r \in Request, Client(r) PROVE Basics'
  BY <1>3, ClientBasics
<1>4. ASSUME NEW r \in Request, Run(r) PROVE Basics'
  BY <1>4, StopBasics, HaltBasics, LockBasics, BeginBasics, BlendBasics, CompleteBasics,
     SupersededBasics, DirectBasics, DrawFailsBasics, StartBasics, ReadyBasics,
     PlayFailsBasics, RecordBasics, RecordFailsBasics, BlankBasics DEF Run
<1> QED
  BY <1>1, <1>2, <1>3, <1>4 DEF Next

\* Every variable keeps its type, and the GPU lock is held by a still from its
\* first output to its record, by one request at a time and by nothing else
\* (Engine.gpu around engine.rs change_all and record_applied).
THEOREM TypeCorrect == Spec => []TypeOK
<1>1. Basics => TypeOK
  BY DEF Basics
<1> QED
  BY <1>1, InitBasics, NextBasics, PTL DEF Spec

\* Whatever was superseded, failed or raced, the session names no wallpaper
\* that was not fully on the screen of its output (engine.rs record_applied).
THEOREM RecordedWasShownAlways == Spec => []RecordedWasShown
<1>1. Basics => RecordedWasShown
  BY DEF Basics
<1> QED
  BY <1>1, InitBasics, NextBasics, PTL DEF Spec

-----------------------------------------------------------------------------
\* As long as nothing went wrong.

\* Who plays or clears has its outputs to itself.
Alone ==
    \A q, r \in Request :
        q # r /\ Live(q) /\ Live(r) /\ job[q].outputs \cap job[r].outputs # {}
        => job[q].op = "still" /\ job[r].op = "still"

\* No clock outlives its stop.
Punctual == \A o \in Output : inhand[o] \subseteq {clock[o]}

\* Where a request has stopped the clocks there are none.
Stopped(j) ==
    IF j.at \in {"lock", "change", "animate", "blank", "unset", "forget"}
       \/ (j.at = "record" /\ j.op = "still")
    THEN j.outputs
    ELSE IF j.at = "halt" THEN j.outputs \ Left(j) ELSE {}
Silenced == \A r \in Request : \A o \in Stopped(job[r]) : clock[o] = NoClock

\* The request that answers for an output whose picture is not the applied one.
InCharge(j, o) ==
    /\ o \in j.outputs
    /\ \/ j.op = "still" /\ j.at \in {"stop", "halt", "lock"}
       \/ j.op = "still" /\ j.at \in {"change", "animate"} /\ o \in Left(j)
       \/ o \in j.done
       \/ j.op = "play" /\ j.at \in {"start", "await", "record"}
       \/ j.at \in {"unset", "forget"}
Exact ==
    \A o \in Output :
        screen[o] = Full(applied[o]) \/ \E r \in Request : InCharge(job[r], o)

\* What is up of a request that is not through.
Drawn(r) ==
    /\ job[r].at # "abandon"
    /\ \A o \in job[r].done :
           /\ screen[o] = {job[r].wall}
           /\ job[r].op = "play" => clock[o].owner = r
    /\ job[r].at \in {"unset", "forget"} => \A o \in job[r].outputs : screen[o] = {}
    /\ job[r].at = "forget" => \A o \in job[r].outputs : session[o] = NoWall

Agreed ==
    \A o \in Output :
        \/ session[o] = applied[o]
        \/ \E r \in Request : job[r].at = "forget" /\ o \in job[r].outputs

\* A clock plays what is applied, or its request goes on.
ClocksAgree ==
    \A o \in Output :
        \/ clock[o] = NoClock
        \/ clock[o].wall = applied[o]
        \/ \E r \in Request : clock[o].owner = r /\ Live(r)

\* What a clock has shown is still on the screen.
ClocksShow == \A o \in Output : clock[o].shown => screen[o] = {clock[o].wall}

Orderly ==
    /\ Alone /\ Punctual /\ Silenced /\ Exact /\ Agreed /\ ClocksAgree /\ ClocksShow
    /\ \A r \in Request : Drawn(r)

Calm == mishaps = {} => Orderly

-----------------------------------------------------------------------------
\* Who else is there.

\* A request that goes on, seen from its locals.
Busy(j) == ~Idle(j)

LEMMA LiveIsBusy == ASSUME NEW r \in Request PROVE Live(r) <=> Busy(job[r])
BY DEF Live, Ended, Busy, Idle

\* Whoever has done something, or is in charge, goes on.
LEMMA InChargeIsBusy ==
    ASSUME Basics, NEW q \in Request, NEW o, InCharge(job[q], o)
    PROVE  Live(q) /\ o \in job[q].outputs
<1>1. InForm(job[q])
  BY JobNow
<1> QED
  BY <1>1, LiveIsBusy DEF InCharge, InForm, Busy, Idle

\* Two that go on and share an output are stills, and only one of them draws.
LEMMA Sharers ==
    ASSUME Basics, Orderly, NEW r \in Request, NEW q \in Request, q # r,
           Live(r), Live(q), NEW o, o \in job[r].outputs, o \in job[q].outputs
    PROVE  /\ StillForm(job[r]) /\ StillForm(job[q])
           /\ Holds(job[r]) => job[q].at \in {"stop", "halt", "lock"} /\ job[q].done = {}
<1>1. job[q].op = "still" /\ job[r].op = "still"
  <2>1. job[q].outputs \cap job[r].outputs # {}
    OBVIOUS
  <2> QED
    BY <2>1 DEF Orderly, Alone
<1>2. /\ InForm(job[q]) /\ InForm(job[r]) /\ ~Idle(job[q]) /\ ~Idle(job[r])
  BY JobNow, LiveIsBusy DEF Busy
<1>3. StillForm(job[r]) /\ StillForm(job[q])
  BY <1>1, <1>2 DEF InForm, PlayForm, ClearForm
<1>4. Holds(job[r]) => ~Holds(job[q])
  BY DEF Basics, TypeOK, Holds
<1> QED
  BY <1>2, <1>3, <1>4 DEF InForm, StillForm, Holds

\* What a request finds on its own outputs.
LEMMA MineNow ==
    ASSUME Basics, Orderly, NEW r \in Request, Live(r), NEW o \in job[r].outputs
    PROVE  /\ o \in Output
           /\ job[r].at # "forget" => session[o] = applied[o]
           /\ \/ clock[o] = NoClock
              \/ clock[o].wall = applied[o]
              \/ clock[o].owner = r
           /\ \/ screen[o] = Full(applied[o])
              \/ InCharge(job[r], o)
              \/ /\ job[r].op = "still"
                 /\ \E q \in Request \ {r} : InCharge(job[q], o)
           /\ inhand[o] \subseteq {clock[o]}
           /\ clock[o].shown => screen[o] = {clock[o].wall}
<1>1. o \in Output
  BY JobNow DEF Job
<1>2. job[r].at # "forget" => session[o] = applied[o]
  <2>1. SUFFICES ASSUME NEW q \in Request, job[q].at = "forget", o \in job[q].outputs,
                        q # r
                 PROVE  FALSE
    BY <1>1 DEF Orderly, Agreed
  <2>2. Live(q)
    BY <2>1 DEF Live, Ended
  <2> QED
    BY <2>1, <2>2, Sharers DEF StillForm
<1>3. clock[o] = NoClock \/ clock[o].wall = applied[o] \/ clock[o].owner = r
  <2>1. SUFFICES ASSUME NEW q \in Request, clock[o].owner = q, Live(q), q # r
                 PROVE  FALSE
    BY <1>1 DEF Orderly, ClocksAgree
  <2>2. OwnClock(q, o)
    BY <1>1, <2>1, OwnNow DEF Live, Ended
  <2>3. o \in job[q].outputs /\ job[q].op = "play"
    <3>1. InForm(job[q])
      BY JobNow
    <3>2. job[q].at = "await" => Head(job[q].todo) \in job[q].outputs
      BY HeadNow DEF Looping
    <3> QED
      BY <2>2, <3>1, <3>2 DEF OwnClock, InForm
  <2> QED
    BY <2>1, <2>3, Sharers DEF StillForm
<1>4. \/ screen[o] = Full(applied[o])
      \/ InCharge(job[r], o)
      \/ job[r].op = "still" /\ \E q \in Request \ {r} : InCharge(job[q], o)
  <2>1. SUFFICES ASSUME NEW q \in Request, InCharge(job[q], o), q # r
                 PROVE  job[r].op = "still"
    BY <1>1 DEF Orderly, Exact
  <2> QED
    BY <2>1, InChargeIsBusy, Sharers DEF StillForm
<1> QED
  BY <1>1, <1>2, <1>3, <1>4 DEF Orderly, Punctual, ClocksShow

\* Another request has nothing on the outputs of one that is not a still, or
\* that has the GPU: nothing it drew, blanked or plays.
LEMMA NothingOfOthers ==
    ASSUME Basics, Orderly, NEW r \in Request, NEW q \in Request, q # r, Live(r),
           NEW o \in job[r].outputs
    PROVE  /\ job[q].op = "play" => o \notin job[q].done
           /\ job[r].op # "still" \/ Holds(job[r]) => o \notin job[q].done
           /\ job[q].at \in {"unset", "forget"} => o \notin job[q].outputs
           /\ job[r].op # "still" => o \notin Stopped(job[q])
<1>1. InForm(job[q]) /\ job[q].done \subseteq job[q].outputs
  BY JobNow DEF InForm
<1>2. CASE Live(q) /\ o \in job[q].outputs
  BY <1>2, Sharers DEF StillForm
<1>3. CASE ~Live(q)
  <2>1. Idle(job[q])
    BY <1>3, LiveIsBusy DEF Busy
  <2>2. job[q].done = {} /\ Stopped(job[q]) = {} /\ job[q].at \notin {"unset", "forget"}
    BY <1>1, <2>1 DEF InForm, Idle, Stopped
  <2> QED
    BY <2>2
<1>4. CASE o \notin job[q].outputs
  BY <1>1, <1>4 DEF Stopped
<1> QED
  BY <1>2, <1>3, <1>4

\* One request moves and changes its own outputs only: what it leaves behind
\* there decides.
Untouched(o) ==
    /\ screen'[o] = screen[o] /\ applied'[o] = applied[o] /\ session'[o] = session[o]
    /\ clock'[o] = clock[o] /\ inhand'[o] = inhand[o]

\* What it leaves on one of them.
Leaves(r, k, o) ==
    /\ inhand'[o] \subseteq {clock'[o]}
    /\ clock'[o] = clock[o] \/ clock'[o] = NoClock \/ job[r].op # "still"
    /\ \/ screen'[o] = screen[o] /\ session'[o] = session[o]
       \/ Holds(job[r]) \/ job[r].op # "still"
    /\ o \in Stopped(k) => clock'[o] = NoClock
    /\ o \in k.done => screen'[o] = {k.wall} /\ (k.op = "play" => clock'[o].owner = r)
    /\ k.at \in {"unset", "forget"} => screen'[o] = {}
    /\ k.at = "forget" => session'[o] = NoWall
    /\ \/ screen'[o] = Full(applied'[o])
       \/ InCharge(k, o)
       \/ \E q \in Request \ {r} : InCharge(job[q], o)
    /\ session'[o] = applied'[o] \/ k.at = "forget"
    /\ \/ clock'[o] = NoClock
       \/ clock'[o].wall = applied'[o]
       \/ clock'[o].owner = r /\ Busy(k)
    /\ clock'[o].shown => screen'[o] = {clock'[o].wall}

LEMMA OrderStep ==
    ASSUME Basics, Orderly, NEW r \in Request, Live(r),
           NEW k \in Job, Becomes(r, k), InForm(k), k.at # "abandon",
           k.outputs = job[r].outputs, Idle(k) \/ k.op = job[r].op,
           \A o \in Output \ job[r].outputs : Untouched(o),
           \A o \in job[r].outputs : Leaves(r, k, o)
    PROVE  Orderly'
<1>1. /\ job'[r] = k /\ \A q \in Request \ {r} : job'[q] = job[q]
      /\ \A q \in Request : /\ job[q].outputs \subseteq Output
                            /\ job[q].done \subseteq job[q].outputs
                            /\ Stopped(job[q]) \subseteq job[q].outputs
  <2>1. \A q \in Request : job[q] \in Job /\ InForm(job[q])
    BY JobNow
  <2> QED
    BY <2>1, OneMoves DEF Job, InForm, Stopped
<1>2. /\ k.done \subseteq job[r].outputs /\ Stopped(k) \subseteq job[r].outputs
  BY DEF InForm, Stopped
<1>3. \A q \in Request : Live(q)' <=> Busy(job'[q])
  BY DEF Live, Ended, Busy, Idle
<1>4. Alone'
  <2>1. Busy(k) => k.op = job[r].op
    BY DEF Busy
  <2>2. \A q \in Request : q # r => (Live(q)' <=> Live(q))
    BY <1>1 DEF Live, Ended
  <2>3. Alone
    BY DEF Orderly
  <2> QED
    BY <1>1, <1>3, <2>1, <2>2, <2>3 DEF Alone
<1>5. Punctual'
  BY DEF Orderly, Punctual, Untouched, Leaves
<1>6. Silenced'
  <2>1. SUFFICES ASSUME NEW q \in Request, NEW o \in Stopped(job'[q])
                 PROVE  clock'[o] = NoClock
    BY DEF Silenced
  <2>2. CASE q = r
    BY <1>1, <1>2, <2>1, <2>2 DEF Leaves
  <2>3. CASE q # r
    <3>1. o \in Stopped(job[q]) /\ o \in Output /\ clock[o] = NoClock
      BY <1>1, <2>1, <2>3 DEF Orderly, Silenced
    <3>2. CASE o \in job[r].outputs
      <4>1. job[r].op = "still"
        BY <2>3, <3>1, <3>2, NothingOfOthers
      <4> QED
        BY <3>1, <3>2, <4>1 DEF Leaves
    <3>3. CASE o \notin job[r].outputs
      BY <3>1, <3>3 DEF Untouched
    <3> QED
      BY <3>2, <3>3
  <2> QED
    BY <2>2, <2>3
<1>7. Exact'
  <2>1. SUFFICES ASSUME NEW o \in Output
                 PROVE  screen'[o] = Full(applied'[o]) \/ \E q \in Request : InCharge(job'[q], o)
    BY DEF Exact
  <2>2. CASE o \in job[r].outputs
    BY <1>1, <2>2 DEF Leaves
  <2>3. CASE o \notin job[r].outputs
    <3>1. screen[o] = Full(applied[o]) \/ \E q \in Request \ {r} : InCharge(job[q], o)
      BY <2>3 DEF Orderly, Exact, InCharge
    <3> QED
      BY <1>1, <2>3, <3>1 DEF Untouched
  <2> QED
    BY <2>2, <2>3
<1>8. Agreed'
  <2>1. SUFFICES ASSUME NEW o \in Output
                 PROVE  \/ session'[o] = applied'[o]
                        \/ \E q \in Request : job'[q].at = "forget" /\ o \in job'[q].outputs
    BY DEF Agreed
  <2>2. CASE o \in job[r].outputs
    BY <1>1, <2>2 DEF Leaves
  <2>3. CASE o \notin job[r].outputs
    <3>1. \/ session[o] = applied[o]
          \/ \E q \in Request \ {r} : job[q].at = "forget" /\ o \in job[q].outputs
      BY <2>3 DEF Orderly, Agreed
    <3> QED
      BY <1>1, <2>3, <3>1 DEF Untouched
  <2> QED
    BY <2>2, <2>3
<1>9. ClocksAgree'
  <2>1. SUFFICES ASSUME NEW o \in Output
                 PROVE  \/ clock'[o] = NoClock
                        \/ clock'[o].wall = applied'[o]
                        \/ \E q \in Request : clock'[o].owner = q /\ Live(q)'
    BY DEF ClocksAgree
  <2>2. CASE o \in job[r].outputs
    BY <1>1, <1>3, <2>2 DEF Leaves
  <2>3. CASE o \notin job[r].outputs
    <3>1. clock[o].owner # r
      <4>1. SUFFICES ASSUME clock[o].owner = r PROVE FALSE
        OBVIOUS
      <4>2. OwnClock(r, o)
        BY <4>1, OwnNow DEF Live, Ended
      <4>3. job[r].at = "await" => Head(job[r].todo) \in job[r].outputs
        BY HeadNow DEF Looping
      <4> QED
        BY <1>1, <2>3, <4>2, <4>3 DEF OwnClock
    <3>2. \/ clock[o] = NoClock
          \/ clock[o].wall = applied[o]
          \/ \E q \in Request \ {r} : clock[o].owner = q /\ Live(q)
      BY <3>1 DEF Orderly, ClocksAgree
    <3>3. \A q \in Request \ {r} : Live(q) => Live(q)'
      BY <1>1 DEF Live, Ended
    <3> QED
      BY <2>3, <3>2, <3>3 DEF Untouched
  <2> QED
    BY <2>2, <2>3
<1>10. ClocksShow'
  BY DEF Orderly, ClocksShow, Leaves, Untouched
<1>11. ASSUME NEW q \in Request PROVE Drawn(q)'
  <2>1. CASE q = r
    BY <1>1, <1>2, <2>1 DEF Drawn, Leaves
  <2>2. CASE q # r
    <3>1. Drawn(q) /\ job'[q] = job[q]
      BY <1>1, <2>2 DEF Orderly
    <3>2. ASSUME NEW o \in job[q].done
          PROVE  screen'[o] = screen[o] /\ (job[q].op = "play" => clock'[o] = clock[o])
      <4>1. o \in Output
        BY <1>1
      <4>2. CASE o \in job[r].outputs
        <5>1. job[q].op # "play" /\ job[r].op = "still" /\ ~Holds(job[r])
          BY <2>2, <4>2, NothingOfOthers
        <5> QED
          BY <4>2, <5>1 DEF Leaves
      <4>3. CASE o \notin job[r].outputs
        BY <4>1, <4>3 DEF Untouched
      <4> QED
        BY <4>2, <4>3
    <3>3. ASSUME job[q].at \in {"unset", "forget"}, NEW o \in job[q].outputs
          PROVE  screen'[o] = screen[o] /\ session'[o] = session[o]
      <4>1. o \in Output /\ o \notin job[r].outputs
        BY <1>1, <2>2, <3>3, NothingOfOthers
      <4> QED
        BY <4>1 DEF Untouched
    <3> QED
      BY <3>1, <3>2, <3>3 DEF Drawn
  <2> QED
    BY <2>1, <2>2
<1> QED
  BY <1>4, <1>5, <1>6, <1>7, <1>8, <1>9, <1>10, <1>11 DEF Orderly

-----------------------------------------------------------------------------
\* Every step keeps the order, unless it is a mishap.

\* What is settled stays settled where nothing changes.
LEMMA LeavesAlone ==
    ASSUME Basics, Orderly, NEW r \in Request, Live(r), job[r].at # "forget",
           NEW k \in Job, Same(k, job[r]), Busy(k), k.at \notin {"unset", "forget"},
           NEW o \in job[r].outputs, Untouched(o),
           o \in Stopped(k) => clock[o] = NoClock,
           o \in k.done => o \in job[r].done,
           InCharge(job[r], o) => InCharge(k, o)
    PROVE  Leaves(r, k, o)
<1>1. /\ session[o] = applied[o] /\ inhand[o] \subseteq {clock[o]}
      /\ clock[o] = NoClock \/ clock[o].wall = applied[o] \/ clock[o].owner = r
      /\ \/ screen[o] = Full(applied[o])
         \/ InCharge(job[r], o)
         \/ \E q \in Request \ {r} : InCharge(job[q], o)
      /\ clock[o].shown => screen[o] = {clock[o].wall}
  BY MineNow
<1>2. o \in k.done => screen[o] = {k.wall} /\ (k.op = "play" => clock[o].owner = r)
  BY DEF Orderly, Drawn, Same
<1> QED
  BY <1>1, <1>2 DEF Leaves, Untouched

LEMMA QuietStep ==
    ASSUME Basics, Orderly, NEW r \in Request, Live(r), job[r].at # "forget",
           NEW k \in Job, Becomes(r, k), InForm(k), Same(k, job[r]), Busy(k),
           k.at \notin {"unset", "forget", "abandon"},
           UNCHANGED <<screen, tables, clocks>>,
           \A o \in Stopped(k) : clock[o] = NoClock,
           k.done = job[r].done,
           \A o \in job[r].outputs : InCharge(job[r], o) => InCharge(k, o)
    PROVE  Orderly'
<1>1. \A o : Untouched(o)
  BY DEF Untouched, tables, clocks
<1>2. \A o \in job[r].outputs : Leaves(r, k, o)
  BY <1>1, LeavesAlone
<1> QED
  BY <1>1, <1>2, OrderStep DEF Same

LEMMA StopOrder ==
    ASSUME Basics, Orderly, NEW r \in Request, Stop(r)
    PROVE  Orderly'
<1>1. PICK k \in Job : /\ Becomes(r, k) /\ InForm(k) /\ Same(k, job[r]) /\ k.done = {}
                       /\ \/ k.at = "stop"
                          \/ /\ k.at = IF k.op = "play" THEN "start" ELSE "halt"
                             /\ Left(k) = k.outputs
  BY StopJob
<1>2. job[r].at = "stop" /\ Live(r) /\ job[r].done = {}
  <2>1. job[r].at = "stop" /\ InForm(job[r])
    BY JobNow DEF Stop, At
  <2> QED
    BY <2>1 DEF Live, Ended, InForm
<1>3. Busy(k) /\ k.at \notin {"unset", "forget", "abandon"}
  BY <1>1 DEF Busy, Idle
<1>4. Stopped(k) = {}
  BY <1>1 DEF Stopped
<1>5. \A o \in job[r].outputs : InCharge(job[r], o) => InCharge(k, o)
  BY <1>1, <1>2 DEF InCharge, Same
<1>6. UNCHANGED <<screen, tables, clocks>>
  BY DEF Stop
<1> QED
  BY <1>1, <1>2, <1>3, <1>4, <1>5, <1>6, QuietStep

LEMMA HaltOrder ==
    ASSUME Basics, Orderly, NEW r \in Request, Halt(r), inhand[Head(job[r].todo)] = {}
    PROVE  Orderly'
<1> DEFINE j == job[r]
           h == Head(j.todo)
<1>1. j.at = "halt" /\ Live(r) /\ InForm(j) /\ h \in Output /\ h \in Left(j) /\ h \in j.outputs
  <2>1. j.at # "abandon"
    BY DEF Orderly, Drawn
  <2>2. j.at = "halt" /\ InForm(j)
    BY <2>1, JobNow DEF Halt, At
  <2> QED
    BY <2>2, HeadNow DEF Live, Ended, Looping
<1>2. PICK k \in Job :
          /\ Becomes(r, k) /\ InForm(k) /\ Same(k, j) /\ k.done = j.done
          /\ Left(k) = Left(j) \ {h}
          /\ \/ k.at = "halt"
             \/ k.at = (IF k.op = "still" THEN "lock" ELSE "blank") /\ Left(k) = {}
  BY <1>1, HaltJob
<1>3. /\ UNCHANGED <<screen, tables, inhand>>
      /\ clock'[h] = NoClock /\ \A p \in Output \ {h} : clock'[p] = clock[p]
  BY <1>1, TypedNow, StopClockFacts DEF Halt
<1> HIDE DEF h
<1>4. j.done = {}
  BY <1>1 DEF InForm
<1>5. ASSUME NEW o \in j.outputs
      PROVE  Leaves(r, k, o)
  <2>1. CASE o = h
    <3>1. /\ session[o] = applied[o] /\ inhand[o] = {}
          /\ \/ screen[o] = Full(applied[o])
             \/ InCharge(j, o)
             \/ \E q \in Request \ {r} : InCharge(job[q], o)
      BY <1>1, <2>1, MineNow DEF h
    <3>2. InCharge(j, o) => InCharge(k, o)
      BY <1>1, <1>2, <1>4 DEF InCharge, Same
    <3>3. ~NoClock.shown
      BY DEF NoClock
    <3> QED
      BY <1>2, <1>3, <1>4, <2>1, <3>1, <3>2, <3>3 DEF Leaves, tables
  <2>2. CASE o # h
    <3>1. Untouched(o) /\ o \in Output
      BY <1>3, <2>2, MineNow, <1>1 DEF Untouched, tables
    <3>2. o \in Stopped(k) => o \in Stopped(j)
      BY <1>1, <1>2, <2>2 DEF Stopped, Same
    <3>3. o \in Stopped(k) => clock[o] = NoClock
      BY <3>2 DEF Orderly, Silenced
    <3>4. InCharge(j, o) => InCharge(k, o)
      BY <1>1, <1>2, <1>4 DEF InCharge, Same
    <3>5. Busy(k) /\ k.at \notin {"unset", "forget"}
      BY <1>2 DEF Busy, Idle
    <3> QED
      BY <1>1, <1>2, <3>1, <3>3, <3>4, <3>5, LeavesAlone
  <2> QED
    BY <2>1, <2>2
<1>6. \A o \in Output \ j.outputs : Untouched(o)
  BY <1>1, <1>3 DEF Untouched, tables
<1>7. k.at # "abandon" /\ k.outputs = j.outputs /\ k.op = j.op
  BY <1>2 DEF Same
<1> QED
  BY <1>1, <1>2, <1>5, <1>6, <1>7, OrderStep

\* Where a still draws there are no clocks.
LEMMA NoClocksHere ==
    ASSUME Basics, Orderly, NEW r \in Request, job[r].at \in {"lock", "change", "animate", "record"},
           job[r].op = "still", NEW o \in job[r].outputs
    PROVE  clock[o] = NoClock
BY DEF Orderly, Silenced, Stopped

LEMMA LockOrder ==
    ASSUME Basics, Orderly, NEW r \in Request, Lock(r)
    PROVE  Orderly'
<1>1. PICK k \in Job : /\ Becomes(r, k) /\ InForm(k) /\ Same(k, job[r])
                       /\ k.at = "change" /\ k.op = "still" /\ k.done = {}
                       /\ Left(k) = k.outputs
  BY LockJob
<1>2. job[r].at = "lock" /\ Live(r) /\ job[r].done = {} /\ job[r].op = "still"
  <2>1. job[r].at = "lock" /\ InForm(job[r])
    BY JobNow DEF Lock, At
  <2> QED
    BY <1>1, <2>1 DEF Live, Ended, InForm, Same
<1>3. Busy(k) /\ k.at \notin {"unset", "forget", "abandon"}
  BY <1>1 DEF Busy, Idle
<1>4. \A o \in Stopped(k) : clock[o] = NoClock
  BY <1>1, <1>2, NoClocksHere DEF Stopped, Same
<1>5. \A o \in job[r].outputs : InCharge(job[r], o) => InCharge(k, o)
  BY <1>1, <1>2 DEF InCharge, Same
<1>6. UNCHANGED <<screen, tables, clocks>>
  BY DEF Lock
<1> QED
  BY <1>1, <1>2, <1>3, <1>4, <1>5, <1>6, QuietStep

LEMMA BeginOrder ==
    ASSUME Basics, Orderly, NEW r \in Request, Begin(r)
    PROVE  Orderly'
<1>1. PICK k \in Job : /\ Becomes(r, k) /\ InForm(k) /\ Same(k, job[r])
                       /\ k.at = "animate" /\ k.op = "still"
                       /\ k.done = job[r].done /\ k.todo = job[r].todo
  BY BeginJob
<1>2. job[r].at = "change" /\ Live(r) /\ job[r].op = "still" /\ Left(k) = Left(job[r])
  BY <1>1 DEF Begin, At, Live, Ended, Same, Left
<1>3. Busy(k) /\ k.at \notin {"unset", "forget", "abandon"}
  BY <1>1 DEF Busy, Idle
<1>4. \A o \in Stopped(k) : clock[o] = NoClock
  BY <1>1, <1>2, NoClocksHere DEF Stopped, Same
<1>5. \A o \in job[r].outputs : InCharge(job[r], o) => InCharge(k, o)
  BY <1>1, <1>2 DEF InCharge, Same
<1>6. UNCHANGED <<screen, tables, clocks>>
  BY DEF Begin
<1> QED
  BY <1>1, <1>2, <1>3, <1>4, <1>5, <1>6, QuietStep

\* A still puts a picture on the output it is at.
LEMMA ShowOrder ==
    ASSUME Basics, Orderly, NEW r \in Request, job[r].at \in {"change", "animate"},
           NEW k \in Job, Becomes(r, k), InForm(k), Same(k, job[r]), k.op = "still",
           k.at \in {"change", "animate", "record"},
           NEW picture \in SUBSET Wall, Show(Head(job[r].todo), picture),
           UNCHANGED <<tables, clocks>>,
           k.done \subseteq job[r].done \cup {Head(job[r].todo)},
           job[r].done \subseteq k.done,
           InCharge(k, Head(job[r].todo)),
           Head(job[r].todo) \in k.done => picture = {job[r].wall},
           \A o \in Left(job[r]) \ {Head(job[r].todo)} : InCharge(k, o)
    PROVE  Orderly'
<1> DEFINE j == job[r]
           h == Head(j.todo)
<1>1. /\ Live(r) /\ InForm(j) /\ h \in Output /\ h \in Left(j) /\ h \in j.outputs
      /\ j.op = "still" /\ h \notin j.done /\ Holds(j)
  <2>1. InForm(j) /\ j.op = "still" /\ Live(r)
    BY JobNow DEF Same, Live, Ended
  <2>2. h \in Output /\ h \in Left(j)
    BY HeadNow DEF Looping
  <2> QED
    BY <2>1, <2>2 DEF InForm, Holds
<1>2. screen'[h] = picture /\ \A p \in Output \ {h} : screen'[p] = screen[p]
  BY <1>1, TypedNow, ShowFacts
<1>3. Busy(k) /\ k.at \notin {"unset", "forget", "abandon"}
  BY DEF Busy, Idle
<1> HIDE DEF h
<1>4. ASSUME NEW o \in j.outputs
      PROVE  Leaves(r, k, o)
  <2>1. clock[o] = NoClock /\ ~NoClock.shown
    BY <1>1, NoClocksHere DEF NoClock
  <2>2. CASE o = h
    <3>1. session[o] = applied[o] /\ inhand[o] \subseteq {clock[o]}
      BY <1>1, MineNow
    <3> QED
      BY <1>1, <1>2, <1>3, <2>1, <2>2, <3>1 DEF Leaves, tables, clocks, h, Same
  <2>3. CASE o # h
    <3>1. Untouched(o)
      BY <1>1, <1>2, <2>3, MineNow DEF Untouched, tables, clocks
    <3>2. o \in k.done => o \in j.done
      BY <2>3 DEF h
    <3>3. InCharge(j, o) => InCharge(k, o)
      BY <1>1, <2>3 DEF InCharge, Same, h
    <3> QED
      BY <1>1, <1>3, <2>1, <3>1, <3>2, <3>3, LeavesAlone
  <2> QED
    BY <2>2, <2>3
<1>5. \A o \in Output \ j.outputs : Untouched(o)
  BY <1>1, <1>2 DEF Untouched, tables, clocks
<1>6. k.outputs = j.outputs /\ k.op = j.op
  BY DEF Same
<1> QED
  BY <1>1, <1>3, <1>4, <1>5, <1>6, OrderStep

LEMMA BlendOrder ==
    ASSUME Basics, Orderly, NEW r \in Request, Blend(r)
    PROVE  Orderly'
<1> DEFINE h == Head(job[r].todo)
           picture == job[r].source \cup {job[r].wall}
<1>1. PICK k \in Job : /\ Becomes(r, k) /\ InForm(k) /\ Same(k, job[r])
                       /\ k.at = "animate" /\ k.op = "still"
                       /\ k.done = job[r].done /\ k.todo = job[r].todo
  BY BlendJob
<1>2. job[r].at = "animate" /\ Show(h, picture) /\ UNCHANGED <<tables, clocks>>
  BY DEF Blend, At
<1>3. picture \in SUBSET Wall
  <2>1. job[r] \in Job /\ InForm(job[r]) /\ job[r].op = "still"
    BY <1>1, JobNow DEF Same
  <2>2. job[r].wall \in Still
    BY <1>2, <2>1 DEF InForm, Idle, StillForm, PlayForm, ClearForm
  <2> QED
    BY <2>1, <2>2 DEF Job, Wall
<1>4. \A o \in Left(job[r]) : InCharge(k, o)
  <2>1. InForm(k) /\ Left(k) = Left(job[r])
    BY <1>1 DEF Left
  <2> QED
    BY <1>1, <2>1 DEF InCharge, InForm
<1>5. h \in Left(job[r]) /\ h \notin job[r].done
  <2>1. h \in Left(job[r]) /\ InForm(job[r])
    BY <1>2, HeadNow, JobNow DEF Looping
  <2> QED
    BY <1>2, <2>1 DEF InForm
<1> HIDE DEF picture
<1> QED
  BY <1>1, <1>2, <1>3, <1>4, <1>5, ShowOrder

LEMMA DrawnOrder ==
    ASSUME Basics, Orderly, NEW r \in Request, job[r].at \in {"change", "animate"},
           Show(Head(job[r].todo), {job[r].wall}), Becomes(r, Through(r, TRUE)),
           UNCHANGED <<tables, clocks>>
    PROVE  Orderly'
<1> DEFINE h == Head(job[r].todo)
<1>1. PICK k \in Job :
          /\ Becomes(r, k) /\ InForm(k) /\ Same(k, job[r]) /\ k.op = "still"
          /\ k.done = job[r].done \cup {h}
          /\ Left(k) = Left(job[r]) \ {h}
          /\ k.at = "change" \/ (k.at = "record" /\ Left(k) = {})
  BY ThroughJob
<1>2. {job[r].wall} \in SUBSET Wall
  <2>1. InForm(job[r]) /\ job[r].op = "still"
    BY <1>1, JobNow DEF Same
  <2>2. job[r].wall \in Still
    BY <2>1 DEF InForm, Idle, StillForm, PlayForm, ClearForm
  <2> QED
    BY <2>2 DEF Wall
<1>3. InCharge(k, h)
  BY <1>1 DEF InCharge, InForm
<1>4. \A o \in Left(job[r]) \ {h} : InCharge(k, o)
  BY <1>1 DEF InCharge, InForm
<1>5. k.at \in {"change", "animate", "record"}
  BY <1>1
<1> QED
  BY <1>1, <1>2, <1>3, <1>4, <1>5, ShowOrder

LEMMA SupersededOrder ==
    ASSUME Basics, Orderly, NEW r \in Request, Superseded(r),
           \E q \in Request \ {r} : Live(q) /\ Head(job[r].todo) \in job[q].outputs
    PROVE  Orderly'
<1> DEFINE j == job[r]
           h == Head(j.todo)
<1>1. j.at = "animate" /\ Becomes(r, Through(r, FALSE)) /\ Live(r)
  BY DEF Superseded, At, GiveUp, Live, Ended
<1>2. PICK k \in Job :
          /\ Becomes(r, k) /\ InForm(k) /\ Same(k, j) /\ k.op = "still"
          /\ k.done = j.done
          /\ Left(k) = Left(j) \ {h}
          /\ k.at = "change" \/ (k.at = "record" /\ Left(k) = {})
  BY <1>1, ThroughJob
<1>3. h \in Output /\ h \in Left(j) /\ h \in j.outputs /\ j.op = "still" /\ Holds(j)
      /\ h \notin j.done
  <2>1. h \in Output /\ h \in Left(j) /\ h \in j.outputs /\ InForm(j)
    BY <1>1, HeadNow, JobNow DEF Looping
  <2> QED
    BY <1>1, <1>2, <2>1 DEF Same, Holds, InForm
<1>4. PICK q \in Request \ {r} : Live(q) /\ h \in job[q].outputs
  OBVIOUS
<1>5. InCharge(job[q], h)
  BY <1>1, <1>3, <1>4, Sharers DEF InCharge, StillForm
<1>6. UNCHANGED <<screen, tables, clocks>> /\ \A o : Untouched(o)
  BY DEF Superseded, Untouched, tables, clocks
<1>7. Busy(k) /\ k.at \notin {"unset", "forget", "abandon"}
  BY <1>2 DEF Busy, Idle
<1> HIDE DEF h
<1>8. ASSUME NEW o \in j.outputs
      PROVE  Leaves(r, k, o)
  <2>1. clock[o] = NoClock /\ ~NoClock.shown
    BY <1>1, <1>3, NoClocksHere DEF NoClock
  <2>2. CASE o = h
    <3>1. session[o] = applied[o] /\ inhand[o] \subseteq {clock[o]}
      BY <1>1, MineNow
    <3>2. \E p \in Request \ {r} : InCharge(job[p], o)
      BY <1>5, <2>2
    <3> QED
      BY <1>2, <1>3, <1>6, <1>7, <2>1, <2>2, <3>1, <3>2 DEF Leaves, Untouched
  <2>3. CASE o # h
    <3>1. InCharge(j, o) => InCharge(k, o)
      BY <1>1, <1>2, <1>3, <2>3 DEF InCharge, Same
    <3> QED
      BY <1>1, <1>2, <1>6, <1>7, <2>1, <3>1, LeavesAlone
  <2> QED
    BY <2>2, <2>3
<1>9. k.outputs = j.outputs /\ k.op = j.op
  BY <1>2 DEF Same
<1> QED
  BY <1>1, <1>2, <1>6, <1>7, <1>8, <1>9, OrderStep

\* A request ends where nothing it leaves is unsettled.
LEMMA EndsOrder ==
    ASSUME Basics, Orderly, NEW r \in Request, Live(r), NEW answer \in {"ok", "failed"},
           Ends(r, answer),
           \A o \in Output \ job[r].outputs : Untouched(o),
           \A o \in job[r].outputs :
               /\ inhand'[o] = inhand[o]
               /\ clock'[o] = clock[o] \/ clock'[o] = NoClock
               /\ screen'[o] = screen[o]
               /\ session'[o] = session[o] \/ Holds(job[r]) \/ job[r].op # "still"
               /\ inhand[o] \subseteq {clock'[o]}
               /\ \/ screen[o] = Full(applied'[o])
                  \/ \E q \in Request \ {r} : InCharge(job[q], o)
               /\ session'[o] = applied'[o]
               /\ clock'[o] = NoClock \/ clock'[o].wall = applied'[o]
    PROVE  Orderly'
<1>1. PICK k \in Job : /\ Becomes(r, k) /\ InForm(k)
                       /\ k.at = answer /\ k.outputs = job[r].outputs
                       /\ k.done = {} /\ Left(k) = {}
  BY EndsJob
<1>2. Stopped(k) = {} /\ Idle(k)
  BY <1>1 DEF Stopped, Idle
<1>3. ASSUME NEW o \in job[r].outputs
      PROVE  Leaves(r, k, o)
  <2>1. clock'[o].shown => screen'[o] = {clock'[o].wall}
    <3>1. ~NoClock.shown
      BY DEF NoClock
    <3>2. clock[o].shown => screen[o] = {clock[o].wall}
      BY MineNow
    <3> QED
      BY <3>1, <3>2
  <2> QED
    BY <1>1, <1>2, <2>1 DEF Leaves
<1>4. k.at # "abandon"
  BY <1>1
<1> QED
  BY <1>1, <1>2, <1>3, <1>4, OrderStep

\* A failure that left nothing behind.
LEMMA UnscarredNow ==
    ASSUME NEW r \in Request, ~Scarred(r)
    PROVE  job[r].done = {} /\ \A o \in job[r].outputs : screen[o] = Full(applied[o])
BY DEF Scarred

LEMMA DrawFailsOrder ==
    ASSUME Basics, Orderly, NEW r \in Request, DrawFails(r), ~Scarred(r)
    PROVE  Orderly'
<1>1. job[r].at \in {"change", "animate"} /\ Live(r) /\ Ends(r, "failed")
  BY DEF DrawFails, Fail, At, Live, Ended
<1>2. job[r].op = "still"
  <2>1. InForm(job[r])
    BY JobNow
  <2> QED
    BY <1>1, <2>1 DEF InForm, Idle, StillForm, PlayForm, ClearForm
<1>3. \A o : Untouched(o)
  BY DEF DrawFails, Untouched, tables, clocks
<1>4. ASSUME NEW o \in job[r].outputs
      PROVE  /\ clock[o] = NoClock /\ session[o] = applied[o] /\ inhand[o] \subseteq {clock[o]}
             /\ screen[o] = Full(applied[o])
  BY <1>1, <1>2, NoClocksHere, MineNow, UnscarredNow
<1> QED
  BY <1>1, <1>3, <1>4, EndsOrder DEF Untouched

LEMMA StartOrder ==
    ASSUME Basics, Orderly, NEW r \in Request, Start(r), inhand[Head(job[r].todo)] = {}
    PROVE  Orderly'
<1> DEFINE j == job[r]
           h == Head(j.todo)
           c == [wall |-> j.wall, owner |-> r, shown |-> FALSE]
<1>1. PICK k \in Job : /\ Becomes(r, k) /\ InForm(k) /\ Same(k, j)
                       /\ k.at = "await" /\ k.op = "play" /\ k.wall \in Moving
                       /\ k.done = j.done /\ k.todo = j.todo
  BY StartJob
<1>2. /\ j.at = "start" /\ h \in Output /\ h \in j.outputs /\ h \notin j.done
      /\ Live(r) /\ j.op = "play"
  <2>1. j.at = "start" /\ InForm(j)
    BY JobNow DEF Start, At
  <2>2. h \in Output /\ h \in j.outputs /\ h \in Left(j)
    BY <2>1, HeadNow DEF Looping
  <2> QED
    BY <1>1, <2>1, <2>2 DEF InForm, Live, Ended, Same
<1>3. /\ clock'[h] = c /\ \A p \in Output \ {h} : clock'[p] = clock[p]
      /\ UNCHANGED <<screen, applied, session, inhand>>
  <2>1. clock \in [Output -> Clock \cup {NoClock}] /\ clock' = [clock EXCEPT ![h] = c]
    BY TypedNow DEF Typed, Start
  <2>2. UNCHANGED <<screen, applied, session, inhand>>
    BY DEF Start, tables
  <2> HIDE DEF c, h
  <2> QED
    BY <1>2, <2>1, <2>2
<1>4. c.owner = r /\ ~c.shown
  OBVIOUS
<1>5. Busy(k) /\ Stopped(k) = {} /\ \A o \in j.outputs : InCharge(k, o)
  BY <1>1 DEF Busy, Idle, Stopped, InCharge, Same
<1>6. inhand[h] = {}
  OBVIOUS
<1> HIDE DEF h, c
<1>7. ASSUME NEW o \in j.outputs
      PROVE  Leaves(r, k, o)
  <2>1. CASE o = h
    <3>1. session[o] = applied[o]
      BY <1>2, MineNow
    <3> QED
      BY <1>1, <1>2, <1>3, <1>4, <1>5, <1>6, <2>1, <3>1 DEF Leaves
  <2>2. CASE o # h
    <3>1. Untouched(o)
      BY <1>2, <1>3, <2>2, MineNow DEF Untouched
    <3> QED
      BY <1>1, <1>2, <1>5, <3>1, LeavesAlone
  <2> QED
    BY <2>1, <2>2
<1>8. \A o \in Output \ j.outputs : Untouched(o)
  BY <1>2, <1>3 DEF Untouched
<1>9. k.at # "abandon" /\ k.outputs = j.outputs /\ k.op = j.op
  BY <1>1 DEF Same
<1> QED
  BY <1>1, <1>2, <1>7, <1>8, <1>9, OrderStep

LEMMA ReadyOrder ==
    ASSUME Basics, Orderly, NEW r \in Request, Ready(r)
    PROVE  Orderly'
<1> DEFINE j == job[r]
           h == Head(j.todo)
<1>1. PICK k \in Job : /\ Becomes(r, k) /\ InForm(k) /\ Same(k, j) /\ k.op = "play"
                       /\ k.done = j.done \cup {h}
                       /\ k.at \in {"start", "record"}
  BY ReadyJob
<1>2. /\ j.at = "await" /\ h \in j.outputs /\ clock[h].owner = r /\ clock[h].shown
      /\ Live(r)
  BY HeadNow DEF Ready, At, Looping, Live, Ended
<1>3. clock[h].wall = j.wall
  <2>1. h \in Output
    BY <1>2, HeadNow DEF Looping
  <2> QED
    BY <1>2, <2>1, OwnNow DEF OwnClock
<1>4. \A o : Untouched(o)
  BY DEF Ready, Untouched, tables, clocks
<1>5. Busy(k) /\ Stopped(k) = {} /\ \A o \in j.outputs : InCharge(k, o)
  BY <1>1 DEF Busy, Idle, Stopped, InCharge, Same
<1> HIDE DEF h
<1>6. ASSUME NEW o \in j.outputs
      PROVE  Leaves(r, k, o)
  <2>1. CASE o = h
    <3>1. session[o] = applied[o] /\ inhand[o] \subseteq {clock[o]}
          /\ screen[o] = {clock[o].wall}
      BY <1>2, <2>1, MineNow
    <3> QED
      BY <1>1, <1>2, <1>3, <1>4, <1>5, <2>1, <3>1 DEF Leaves, Untouched, Same
  <2>2. CASE o # h
    BY <1>1, <1>2, <1>4, <1>5, <2>2, LeavesAlone
  <2> QED
    BY <2>1, <2>2
<1>7. k.at # "abandon" /\ k.outputs = j.outputs /\ k.op = j.op
  BY <1>1 DEF Same
<1> QED
  BY <1>1, <1>2, <1>4, <1>6, <1>7, OrderStep

LEMMA PlayFailsOrder ==
    ASSUME Basics, Orderly, NEW r \in Request, PlayFails(r), ~Scarred(r),
           At(r, "await") => inhand[Head(job[r].todo)] = {}
    PROVE  Orderly'
<1> DEFINE j == job[r]
           h == Head(j.todo)
<1>1. /\ j.at \in {"start", "await"} /\ Live(r) /\ h \in Output /\ h \in j.outputs
      /\ j.done = {} /\ j.op = "play"
  <2>1. j.at \in {"start", "await"} /\ InForm(j)
    BY JobNow DEF PlayFails, At
  <2>2. h \in Output /\ h \in j.outputs
    BY <2>1, HeadNow DEF Looping
  <2>3. j.done = {}
    BY UnscarredNow
  <2> QED
    BY <2>1, <2>2, <2>3 DEF InForm, Idle, StillForm, PlayForm, ClearForm, Live, Ended
<1>2. Ends(r, "failed")
  <2>1. InOrder(j.done) = << >>
    BY <1>1, InOrderFacts
  <2> QED
    BY <2>1 DEF PlayFails, Abandon
<1>3. UNCHANGED <<screen, applied, session>>
  BY DEF PlayFails, tables
<1>4. /\ UNCHANGED inhand
      /\ IF j.at = "await" /\ clock[h].owner = r
         THEN clock'[h] = NoClock /\ \A p \in Output \ {h} : clock'[p] = clock[p]
         ELSE clock' = clock
  <2>1. CASE At(r, "await") /\ clock[h].owner = r
    <3>1. StopClock(h)
      BY <2>1 DEF PlayFails
    <3>2. /\ UNCHANGED inhand /\ clock'[h] = NoClock
          /\ \A p \in Output \ {h} : clock'[p] = clock[p]
      BY <1>1, <3>1, TypedNow, StopClockFacts
    <3> QED
      BY <2>1, <3>2 DEF At
  <2>2. CASE ~(At(r, "await") /\ clock[h].owner = r)
    BY <2>2 DEF PlayFails, clocks, At
  <2> QED
    BY <2>1, <2>2
<1>5. \A o \in Output : clock[o].owner = r => j.at = "await" /\ o = h
  <2>1. SUFFICES ASSUME NEW o \in Output, clock[o].owner = r
                 PROVE  j.at = "await" /\ o = h
    OBVIOUS
  <2>2. OwnClock(r, o)
    BY <1>1, <2>1, OwnNow
  <2> QED
    BY <1>1, <2>2 DEF OwnClock
<1>6. j.at = "await" => inhand[h] = {}
  BY DEF At
<1> HIDE DEF h
<1>7. ASSUME NEW o \in j.outputs
      PROVE  /\ inhand'[o] = inhand[o]
             /\ clock'[o] = clock[o] \/ clock'[o] = NoClock
             /\ inhand[o] \subseteq {clock'[o]}
             /\ screen[o] = Full(applied[o])
             /\ session[o] = applied[o]
             /\ clock'[o] = NoClock \/ clock'[o].wall = applied[o]
  <2>1. /\ o \in Output /\ session[o] = applied[o] /\ inhand[o] \subseteq {clock[o]}
        /\ clock[o] = NoClock \/ clock[o].wall = applied[o] \/ clock[o].owner = r
        /\ screen[o] = Full(applied[o])
    BY <1>1, MineNow, UnscarredNow
  <2> QED
    BY <1>4, <1>5, <1>6, <2>1
<1>8. \A o \in Output \ j.outputs : Untouched(o)
  BY <1>1, <1>3, <1>4 DEF Untouched
<1> QED
  BY <1>1, <1>2, <1>3, <1>7, <1>8, EndsOrder

LEMMA RecordOrder ==
    ASSUME Basics, Orderly, NEW r \in Request, Record(r)
    PROVE  Orderly'
<1> DEFINE j == job[r]
<1>1. j.at = "record" /\ Live(r) /\ InForm(j) /\ j.done \subseteq Output /\ Ends(r, "ok")
      /\ j.done \subseteq j.outputs
  <2>1. j.at = "record" /\ Live(r) /\ Ends(r, "ok")
    BY DEF Record, At, Live, Ended
  <2>2. InForm(j) /\ j.done \subseteq Output
    BY JobNow DEF Job
  <2> QED
    BY <2>1, <2>2 DEF InForm
<1>2. Left(j) = {}
  <2>1. j.todo = << >>
    BY <1>1 DEF InForm, Looping
  <2> QED
    BY <2>1, EmptyFacts DEF Left
<1>3. \/ j.op = "still" /\ Holds(j) /\ j.wall # NoWall
      \/ j.op = "play" /\ j.outputs = j.done /\ j.wall # NoWall
  <2>1. \/ j.op = "still" /\ j.wall \in Still
        \/ j.op = "play" /\ j.wall \in Moving
    BY <1>1 DEF InForm, Idle, StillForm, PlayForm, ClearForm
  <2>2. j.wall # NoWall
    BY <2>1, EngineAssumption DEF EngineAssumption
  <2> QED
    BY <1>1, <1>2, <2>1, <2>2 DEF InForm, Holds
<1>4. /\ UNCHANGED <<screen, clock, inhand>>
      /\ \A o \in j.done : applied'[o] = j.wall /\ session'[o] = j.wall
      /\ \A o \in Output \ j.done : applied'[o] = applied[o] /\ session'[o] = session[o]
  BY <1>1 DEF Record, clocks
<1>5. ASSUME NEW o \in j.outputs
      PROVE  /\ inhand[o] \subseteq {clock[o]}
             /\ \/ screen[o] = Full(applied'[o])
                \/ \E q \in Request \ {r} : InCharge(job[q], o)
             /\ session'[o] = applied'[o]
             /\ clock[o] = NoClock \/ clock[o].wall = applied'[o]
  <2>1. /\ o \in Output /\ session[o] = applied[o] /\ inhand[o] \subseteq {clock[o]}
        /\ \/ screen[o] = Full(applied[o])
           \/ InCharge(j, o)
           \/ \E q \in Request \ {r} : InCharge(job[q], o)
    BY <1>1, MineNow
  <2>2. CASE o \in j.done
    <3>1. screen[o] = {j.wall} /\ (j.op = "play" => clock[o].owner = r)
      BY <2>2 DEF Orderly, Drawn
    <3>2. screen[o] = Full(applied'[o])
      BY <1>3, <1>4, <2>2, <3>1 DEF Full
    <3>3. j.op = "play" => clock[o].wall = j.wall
      BY <1>1, <2>1, <3>1, OwnNow DEF OwnClock
    <3>4. j.op = "still" => clock[o] = NoClock
      BY <1>1, NoClocksHere
    <3> QED
      BY <1>3, <1>4, <2>1, <2>2, <3>2, <3>3, <3>4
  <2>3. CASE o \notin j.done
    <3>1. j.op = "still" /\ clock[o] = NoClock
      BY <1>1, <1>3, <2>3, NoClocksHere
    <3>2. ~InCharge(j, o)
      BY <1>1, <2>3, <3>1 DEF InCharge
    <3> QED
      BY <1>4, <2>1, <2>3, <3>1, <3>2
  <2> QED
    BY <2>2, <2>3
<1>6. \A o \in Output \ j.outputs : Untouched(o)
  BY <1>1, <1>4 DEF Untouched
<1> QED
  BY <1>1, <1>3, <1>4, <1>5, <1>6, EndsOrder

LEMMA RecordFailsOrder ==
    ASSUME Basics, Orderly, NEW r \in Request, RecordFails(r), job[r].done = {}
    PROVE  Orderly'
<1> DEFINE j == job[r]
<1>1. j.at = "record" /\ Live(r) /\ InForm(j) /\ j.todo = << >>
  <2>1. j.at = "record" /\ Live(r) /\ InForm(j)
    BY JobNow DEF RecordFails, At, Live, Ended
  <2> QED
    BY <2>1 DEF InForm, Looping
<1>2. j.op = "still"
  <2>1. Left(j) = {}
    BY <1>1, EmptyFacts DEF Left
  <2> QED
    BY <1>1, <2>1 DEF InForm, Idle, StillForm, PlayForm, ClearForm
<1>3. Ends(r, "failed") /\ \A o : Untouched(o)
  BY <1>2 DEF RecordFails, Untouched, tables, clocks
<1>4. ASSUME NEW o \in j.outputs
      PROVE  /\ inhand[o] \subseteq {clock[o]} /\ session[o] = applied[o] /\ clock[o] = NoClock
             /\ \/ screen[o] = Full(applied[o])
                \/ \E q \in Request \ {r} : InCharge(job[q], o)
  <2>1. ~InCharge(j, o)
    BY <1>1, <1>2 DEF InCharge
  <2> QED
    BY <1>1, <1>2, <2>1, MineNow, NoClocksHere
<1> QED
  BY <1>1, <1>3, <1>4, EndsOrder DEF Untouched

\* A clear blanks, unsets and forgets outputs it has to itself.
LEMMA BlankOrder ==
    ASSUME Basics, Orderly, NEW r \in Request, Blank(r)
    PROVE  Orderly'
<1> DEFINE j == job[r]
<1>1. j.at = "blank" /\ Goes(r, "unset") /\ Live(r)
  BY DEF Blank, At, Live, Ended
<1>2. PICK k \in Job : /\ Becomes(r, k) /\ InForm(k) /\ Same(k, j)
                       /\ k.at = "unset" /\ k.op = "clear" /\ k.done = {}
  BY <1>1, ClearJob
<1>3. UNCHANGED <<applied, session, clock, inhand>>
  BY DEF Blank, tables, clocks
<1>4. \A o \in Output : screen'[o] = IF o \in j.outputs THEN {} ELSE screen[o]
  BY DEF Blank
<1>5. ASSUME NEW o \in j.outputs
      PROVE  Leaves(r, k, o)
  <2>1. o \in Output /\ session[o] = applied[o] /\ inhand[o] \subseteq {clock[o]}
    BY <1>1, MineNow
  <2>2. clock[o] = NoClock /\ ~NoClock.shown
    BY <1>1 DEF Orderly, Silenced, Stopped, NoClock
  <2>3. InCharge(k, o)
    BY <1>2 DEF InCharge, Same
  <2>4. screen'[o] = {} /\ j.op # "still"
    BY <1>2, <1>4, <2>1 DEF Same
  <2> QED
    BY <1>2, <1>3, <2>1, <2>2, <2>3, <2>4 DEF Leaves
<1>6. \A o \in Output \ j.outputs : Untouched(o)
  BY <1>3, <1>4 DEF Untouched
<1>7. k.at # "abandon" /\ k.outputs = j.outputs /\ k.op = j.op
  BY <1>2 DEF Same
<1> QED
  BY <1>1, <1>2, <1>5, <1>6, <1>7, OrderStep

LEMMA UnsetOrder ==
    ASSUME Basics, Orderly, NEW r \in Request, Unset(r), Goes(r, "forget"),
           session' = [o \in Output |-> IF o \in job[r].outputs THEN NoWall ELSE session[o]]
    PROVE  Orderly'
<1> DEFINE j == job[r]
<1>1. j.at = "unset" /\ Live(r)
  BY DEF Unset, At, Live, Ended
<1>2. PICK k \in Job : /\ Becomes(r, k) /\ InForm(k) /\ Same(k, j)
                       /\ k.at = "forget" /\ k.op = "clear" /\ k.done = {}
  BY <1>1, ClearJob
<1>3. UNCHANGED <<screen, applied, clock, inhand>>
  BY DEF Unset, clocks
<1>4. ASSUME NEW o \in j.outputs
      PROVE  Leaves(r, k, o)
  <2>1. o \in Output /\ inhand[o] \subseteq {clock[o]} /\ screen[o] = {}
    BY <1>1, MineNow DEF Orderly, Drawn
  <2>2. clock[o] = NoClock /\ ~NoClock.shown
    BY <1>1 DEF Orderly, Silenced, Stopped, NoClock
  <2>3. InCharge(k, o) /\ session'[o] = NoWall /\ j.op # "still"
    BY <1>2, <2>1 DEF InCharge, Same
  <2> QED
    BY <1>2, <1>3, <2>1, <2>2, <2>3 DEF Leaves
<1>5. \A o \in Output \ j.outputs : Untouched(o)
  BY <1>3 DEF Untouched
<1>6. k.at # "abandon" /\ k.outputs = j.outputs /\ k.op = j.op
  BY <1>2 DEF Same
<1> QED
  BY <1>1, <1>2, <1>4, <1>5, <1>6, OrderStep

LEMMA ForgetOrder ==
    ASSUME Basics, Orderly, NEW r \in Request, Forget(r)
    PROVE  Orderly'
<1> DEFINE j == job[r]
<1>1. j.at = "forget" /\ Live(r) /\ Ends(r, "ok") /\ j.op = "clear"
  <2>1. j.at = "forget" /\ InForm(j)
    BY JobNow DEF Forget, At
  <2> QED
    BY <2>1 DEF Forget, Live, Ended, InForm, Idle, StillForm, PlayForm, ClearForm
<1>2. /\ UNCHANGED <<screen, session, clock, inhand>>
      /\ \A o \in Output : applied'[o] = IF o \in j.outputs THEN NoWall ELSE applied[o]
  BY DEF Forget, clocks
<1>3. ASSUME NEW o \in j.outputs
      PROVE  /\ inhand[o] \subseteq {clock[o]} /\ clock[o] = NoClock
             /\ screen[o] = Full(applied'[o]) /\ session[o] = applied'[o]
  <2>1. o \in Output /\ inhand[o] \subseteq {clock[o]}
    BY <1>1, MineNow
  <2>2. screen[o] = {} /\ session[o] = NoWall
    BY <1>1 DEF Orderly, Drawn
  <2>3. clock[o] = NoClock
    BY <1>1 DEF Orderly, Silenced, Stopped
  <2> QED
    BY <1>2, <2>1, <2>2, <2>3 DEF Full
<1>4. \A o \in Output \ j.outputs : Untouched(o)
  BY <1>2 DEF Untouched
<1> QED
  BY <1>1, <1>2, <1>3, <1>4, EndsOrder

\* A request that meets nobody it could disturb joins in.
LEMMA AskOrder ==
    ASSUME Basics, Orderly, NEW r \in Request, NEW op, NEW w, NEW anim \in BOOLEAN,
           NEW targets \in SUBSET Output, targets # {},
           Fits(op, w), Ask(r, op, w, anim, targets), ~Overlaps(op, targets)
    PROVE  Orderly'
<1>1. PICK k \in Job : /\ Becomes(r, k) /\ InForm(k)
                       /\ k.at = "stop" /\ k.outputs = targets /\ k.op = op /\ k.done = {}
  BY AskJob
<1>2. /\ job'[r] = k /\ \A q \in Request \ {r} : job'[q] = job[q]
      /\ UNCHANGED <<screen, applied, session, clock, inhand>>
  BY <1>1, OneMoves DEF Ask, tables, clocks
<1>3. ~Live(r) /\ \A q \in Request \ {r} : Live(q)' <=> Live(q)
  BY <1>2 DEF Ask, At, Live, Ended
<1>4. Alone'
  <2>1. SUFFICES ASSUME NEW q \in Request \ {r}, Live(q), job[q].outputs \cap targets # {}
                 PROVE  job[q].op = "still" /\ op = "still"
    BY <1>1, <1>2, <1>3 DEF Orderly, Alone
  <2>2. job[q].op \in {"still", "play", "clear"} /\ op \in {"still", "play", "clear"}
    BY JobNow DEF Job, Fits
  <2>3. {op, job[q].op} \cap {"play", "clear"} = {}
    BY <2>1 DEF Overlaps
  <2> QED
    BY <2>2, <2>3
<1>5. Punctual' /\ ClocksShow'
  BY <1>2 DEF Orderly, Punctual, ClocksShow
<1>6. Silenced'
  BY <1>1, <1>2 DEF Orderly, Silenced, Stopped
<1>7. Exact'
  <2>1. \A o \in Output : ~InCharge(job[r], o)
    BY <1>3, InChargeIsBusy
  <2> QED
    BY <1>2, <2>1 DEF Orderly, Exact
<1>8. Agreed'
  <2>1. job[r].at # "forget"
    BY <1>3 DEF Live, Ended
  <2> QED
    BY <1>2, <2>1 DEF Orderly, Agreed
<1>9. ClocksAgree'
  BY <1>2, <1>3 DEF Orderly, ClocksAgree
<1>10. ASSUME NEW q \in Request PROVE Drawn(q)'
  BY <1>1, <1>2 DEF Orderly, Drawn
<1> QED
  BY <1>4, <1>5, <1>6, <1>7, <1>8, <1>9, <1>10 DEF Orderly

\* A clock that plays shows what is applied or what its request answers for.
LEMMA FrameOrder ==
    ASSUME Basics, Orderly, NEW o \in Output, NEW c \in inhand[o], ShowFrame(o, c)
    PROVE  Orderly'
<1>1. clock[o] = c /\ c \in Clock /\ c.wall \in Moving /\ c # NoClock /\ c.wall # NoWall
  <2>1. clock[o] = c /\ c \in Clock
    BY TypedNow DEF Typed, Orderly, Punctual
  <2> QED
    BY <2>1, EngineAssumption DEF Clock, NoClock, EngineAssumption
<1>2. /\ screen'[o] = {c.wall} /\ \A p \in Output \ {o} : screen'[p] = screen[p]
      /\ inhand'[o] = {} /\ \A p \in Output \ {o} : inhand'[p] = inhand[p]
  <2>1. {c.wall} \in SUBSET Wall
    BY <1>1 DEF Wall
  <2>2. screen'[o] = {c.wall} /\ \A p \in Output \ {o} : screen'[p] = screen[p]
    BY <2>1, TypedNow, ShowFacts DEF ShowFrame
  <2>3. inhand \in [Output -> SUBSET Clock] /\ inhand[o] \subseteq {c}
    BY <1>1, TypedNow DEF Typed, Orderly, Punctual
  <2> QED
    BY <2>2, <2>3 DEF ShowFrame
<1>3. /\ clock'[o].wall = c.wall /\ clock'[o].owner = c.owner
      /\ \A p \in Output \ {o} : clock'[p] = clock[p]
  <2>1. clock \in [Output -> Clock \cup {NoClock}]
    BY TypedNow DEF Typed
  <2>2. /\ [c EXCEPT !.shown = TRUE].wall = c.wall
        /\ [c EXCEPT !.shown = TRUE].owner = c.owner
    BY <1>1 DEF Clock
  <2>3. clock' = [clock EXCEPT ![o] = [c EXCEPT !.shown = TRUE]]
    BY <1>1 DEF ShowFrame
  <2> QED
    BY <2>1, <2>2, <2>3
<1>4. UNCHANGED <<job, applied, session, gpu>>
  BY DEF ShowFrame, tables, drawing
<1>5. \A q \in Request : o \notin Stopped(job[q])
  BY <1>1 DEF Orderly, Silenced
<1>6. \A q \in Request : Live(q)' <=> Live(q)
  BY <1>4 DEF Live, Ended
<1>7. Alone' /\ Agreed'
  BY <1>4, <1>6 DEF Orderly, Alone, Agreed
<1>8. Punctual' /\ ClocksShow'
  BY <1>2, <1>3 DEF Orderly, Punctual, ClocksShow
<1>9. Silenced'
  <2>1. \A q \in Request : Stopped(job[q]) \subseteq Output
    BY JobNow DEF Job, Stopped
  <2> QED
    BY <1>3, <1>4, <1>5, <2>1 DEF Orderly, Silenced
<1>10. Exact'
  <2>1. screen'[o] = Full(applied[o]) \/ \E q \in Request : InCharge(job[q], o)
    <3>1. CASE c.wall = applied[o]
      BY <1>1, <1>2, <3>1 DEF Full
    <3>2. ASSUME NEW q \in Request, c.owner = q, Live(q)
          PROVE  InCharge(job[q], o)
      <4>1. OwnClock(q, o) /\ InForm(job[q]) /\ job[q].at # "abandon"
        BY <1>1, <3>2, OwnNow, JobNow DEF Live, Ended, Orderly, Drawn
      <4>2. job[q].at \in {"start", "await", "record"} /\ job[q].op = "play"
        BY <3>2, <4>1 DEF Live, Ended, OwnClock, InForm, Idle, StillForm, PlayForm, ClearForm
      <4>3. o \in job[q].outputs
        BY <4>1, <4>2, HeadNow DEF OwnClock, InForm, Looping
      <4> QED
        BY <4>2, <4>3 DEF InCharge
    <3> QED
      BY <1>1, <3>1, <3>2 DEF Orderly, ClocksAgree
  <2> QED
    BY <1>2, <1>4, <2>1 DEF Orderly, Exact
<1>11. ClocksAgree'
  BY <1>1, <1>3, <1>4, <1>6 DEF Orderly, ClocksAgree
<1>12. ASSUME NEW q \in Request PROVE Drawn(q)'
  <2>1. Drawn(q) /\ job[q].outputs \subseteq Output /\ InForm(job[q])
    BY JobNow DEF Orderly, Job
  <2>2. job[q].at \in {"unset", "forget"} => o \notin job[q].outputs
    BY <1>5 DEF Stopped
  <2>3. o \in job[q].done => c.wall = job[q].wall
    <3>1. SUFFICES ASSUME o \in job[q].done PROVE c.wall = job[q].wall
      OBVIOUS
    <3>2. o \in job[q].outputs /\ job[q].op # "still"
      BY <1>5, <2>1, <3>1 DEF InForm, Stopped, Idle, StillForm, PlayForm, ClearForm
    <3>3. job[q].at \notin {"ok", "failed"} /\ job[q].op = "play"
      BY <2>1, <3>1, <3>2 DEF InForm, Idle, StillForm, PlayForm, ClearForm
    <3>4. clock[o].owner = q
      BY <2>1, <3>1, <3>3 DEF Drawn
    <3> QED
      BY <1>1, <3>3, <3>4, OwnNow DEF OwnClock
  <2>4. job[q].done \subseteq Output
    BY <2>1 DEF InForm
  <2> QED
    BY <1>1, <1>2, <1>3, <1>4, <2>1, <2>2, <2>3, <2>4 DEF Drawn
<1> QED
  BY <1>7, <1>8, <1>9, <1>10, <1>11, <1>12 DEF Orderly

LEMMA TickOrder ==
    ASSUME Basics, Orderly, Tick
    PROVE  Orderly'
<1>1. PICK o \in Output : Due(o) \/ \E c \in inhand[o] : ShowFrame(o, c)
  BY DEF Tick
<1>2. CASE Due(o)
  <2>1. UNCHANGED <<screen, applied, session, job, clock>>
    BY <1>2 DEF Due, tables
  <2>2. Punctual'
    <3>1. inhand \in [Output -> SUBSET Clock]
          /\ inhand' = [inhand EXCEPT ![o] = inhand[o] \cup {clock[o]}]
      BY <1>2, TypedNow DEF Typed, Due
    <3> QED
      BY <2>1, <3>1 DEF Orderly, Punctual
  <2> QED
    BY <2>1, <2>2 DEF Orderly, Alone, Silenced, Exact, Agreed, ClocksAgree, ClocksShow,
                      Drawn, Live, Ended
<1> QED
  BY <1>1, <1>2, FrameOrder

-----------------------------------------------------------------------------
\* Nothing went wrong so far: no step was a mishap.

LEMMA NoMishap ==
    ASSUME NEW flags, Mishaps(flags), mishaps' = {}
    PROVE  flags = {}
BY DEF Mishaps

LEMMA ClientOrder ==
    ASSUME Basics, Orderly, NEW r \in Request, Client(r), mishaps' = {}
    PROVE  Orderly'
<1>1. PICK targets \in Target :
          \/ \E w \in Wall : SetMoving(r, w, targets)
                             \/ \E anim \in BOOLEAN : SetStill(r, w, anim, targets)
          \/ Clear(r, targets)
  BY DEF Client
<1>2. targets \in SUBSET Output /\ targets # {}
  BY EngineAssumption DEF Target, EngineAssumption
<1>3. \E op, w : \E anim \in BOOLEAN : Fits(op, w) /\ Ask(r, op, w, anim, targets)
  <2>1. CASE \E w \in Wall : SetMoving(r, w, targets)
    BY <2>1 DEF SetMoving, Fits
  <2>2. CASE \E w \in Wall, anim \in BOOLEAN : SetStill(r, w, anim, targets)
    BY <2>2 DEF SetStill, Fits
  <2>3. CASE Clear(r, targets)
    BY <2>3 DEF Clear, Fits
  <2> QED
    BY <1>1, <2>1, <2>2, <2>3
<1>4. PICK op, w : \E anim \in BOOLEAN : Fits(op, w) /\ Ask(r, op, w, anim, targets)
  BY <1>3
<1>5. PICK anim \in BOOLEAN : Fits(op, w) /\ Ask(r, op, w, anim, targets)
  BY <1>4
<1>6. ~Overlaps(op, targets)
  BY <1>5, NoMishap DEF Ask
<1> QED
  BY <1>2, <1>5, <1>6, AskOrder

LEMMA RunOrder ==
    ASSUME Basics, Orderly, NEW r \in Request, Run(r), mishaps' = {}
    PROVE  Orderly'
<1> DEFINE h == Head(job[r].todo)
<1>1. CASE Stop(r) \/ Lock(r) \/ Begin(r) \/ Blend(r) \/ Ready(r) \/ Record(r)
           \/ Blank(r) \/ Forget(r)
  BY <1>1, StopOrder, LockOrder, BeginOrder, BlendOrder, ReadyOrder, RecordOrder,
     BlankOrder, ForgetOrder
<1>2. CASE Complete(r) \/ Direct(r)
  BY <1>2, DrawnOrder DEF Complete, Direct, At
<1>3. CASE Halt(r)
  <2>1. inhand[h] = {}
    BY <1>3, NoMishap DEF Halt, LateFrame
  <2> QED
    BY <1>3, <2>1, HaltOrder
<1>4. CASE Superseded(r)
  <2>1. \E q \in Request \ {r} : Live(q) /\ h \in job[q].outputs
    BY <1>4, NoMishap DEF Superseded
  <2> QED
    BY <1>4, <2>1, SupersededOrder
<1>5. CASE DrawFails(r)
  <2>1. ~Scarred(r)
    BY <1>5, NoMishap DEF DrawFails, Fail
  <2> QED
    BY <1>5, <2>1, DrawFailsOrder
<1>6. CASE Start(r)
  <2>1. inhand[h] = {}
    BY <1>6, NoMishap DEF Start, LateFrame
  <2> QED
    BY <1>6, <2>1, StartOrder
<1>7. CASE PlayFails(r)
  <2>1. (IF Scarred(r) THEN {"partial"} ELSE {})
        \cup (IF At(r, "await") /\ LateFrame(h) THEN {"late"} ELSE {}) = {}
    BY <1>7, NoMishap DEF PlayFails
  <2>2. ~Scarred(r) /\ (At(r, "await") => inhand[h] = {})
    BY <2>1 DEF LateFrame
  <2> QED
    BY <1>7, <2>2, PlayFailsOrder
<1>8. CASE RecordFails(r)
  <2>1. job[r].done = {}
    BY <1>8, NoMishap DEF RecordFails
  <2> QED
    BY <1>8, <2>1, RecordFailsOrder
<1>9. CASE Unset(r)
  <2>1. ~Mishaps({"partial"})
    BY NoMishap
  <2> QED
    BY <1>9, <2>1, UnsetOrder DEF Unset
<1>10. ~BlankFails(r)
  BY NoMishap DEF BlankFails
<1> QED
  BY <1>1, <1>2, <1>3, <1>4, <1>5, <1>6, <1>7, <1>8, <1>9, <1>10 DEF Run

\* A mishap is not forgotten.
LEMMA MishapsStay ==
    ASSUME [Next]_vars, mishaps' = {}
    PROVE  mishaps = {}
<1>1. mishaps \subseteq mishaps'
  <2>1. CASE UNCHANGED vars
    BY <2>1 DEF vars, history
  <2>2. CASE Tick
    BY <2>2 DEF Tick, Due, ShowFrame, history
  <2>3. ASSUME NEW r \in Request, Client(r) PROVE mishaps \subseteq mishaps'
    BY <2>3 DEF Client, SetStill, SetMoving, Clear, Ask, Mishaps
  <2>4. ASSUME NEW r \in Request, Run(r) PROVE mishaps \subseteq mishaps'
    BY <2>4 DEF Run, Stop, Halt, Lock, Begin, Blend, Complete, Superseded, Direct, DrawFails,
                Fail, Start, Ready, PlayFails, Record, RecordFails, Blank, BlankFails, Unset,
                Forget, Mishaps, history
  <2> QED
    BY <2>1, <2>2, <2>3, <2>4 DEF Next
<1> QED
  BY <1>1

LEMMA InitCalm == Init => Calm
<1> SUFFICES ASSUME Init PROVE Orderly
  BY DEF Calm
<1>1. \A r \in Request : job[r] = NewJob
  BY DEF Init
<1>2. \A r \in Request : ~Live(r) /\ Stopped(job[r]) = {} /\ Drawn(r)
  BY <1>1, NewJobFacts DEF Live, Stopped, Drawn
<1>3. Exact /\ Agreed /\ Punctual
  BY DEF Init, Exact, Agreed, Punctual
<1>4. ClocksAgree
  BY DEF Init, ClocksAgree
<1>5. ClocksShow
  <2>1. SUFFICES ASSUME NEW o \in Output, clock[o].shown
                 PROVE  screen[o] = {clock[o].wall}
    BY DEF ClocksShow
  <2>2. applied[o] \in Moving /\ clock[o].wall = applied[o]
    BY <2>1 DEF Init, NoClock
  <2>3. applied[o] # NoWall
    BY <2>2, EngineAssumption DEF EngineAssumption
  <2> QED
    BY <2>2, <2>3 DEF Init, Full
<1> QED
  BY <1>2, <1>3, <1>4, <1>5 DEF Orderly, Alone, Silenced

LEMMA NextCalm == Basics /\ Calm /\ [Next]_vars => Calm'
<1> SUFFICES ASSUME Basics, Calm, [Next]_vars, mishaps' = {} PROVE Orderly'
  BY DEF Calm
<1>1. Orderly
  BY MishapsStay DEF Calm
<1>2. CASE UNCHANGED vars
  BY <1>1, <1>2 DEF vars, tables, drawing, clocks, history, Orderly, Alone, Punctual, Silenced,
                    Exact, Agreed, ClocksAgree, ClocksShow, Drawn, Live, Ended
<1>3. CASE Tick
  BY <1>1, <1>3, TickOrder
<1>4. ASSUME NEW r \in Request, Client(r) PROVE Orderly'
  BY <1>1, <1>4, ClientOrder
<1>5. ASSUME NEW r \in Request, Run(r) PROVE Orderly'
  BY <1>1, <1>5, RunOrder
<1> QED
  BY <1>2, <1>3, <1>4, <1>5 DEF Next

\* When all requests have ended nobody is in charge of an output.
LEMMA CalmAtRest == Basics /\ Calm => FactAtRest
<1> SUFFICES ASSUME Basics, Orderly, Quiet
             PROVE  /\ session = applied
                    /\ screen = [o \in Output |-> Full(applied[o])]
                    /\ \A o \in Output : clock[o] # NoClock => clock[o].wall = applied[o]
  BY DEF Calm, FactAtRest
<1>1. \A r \in Request : ~Live(r) /\ job[r].at # "forget"
  BY DEF Quiet, Live, Ended
<1>2. \A o \in Output : session[o] = applied[o]
  BY <1>1 DEF Orderly, Agreed
<1>3. \A o \in Output : screen[o] = Full(applied[o])
  BY <1>1, InChargeIsBusy DEF Orderly, Exact
<1>4. \A o \in Output : clock[o] # NoClock => clock[o].wall = applied[o]
  BY <1>1 DEF Orderly, ClocksAgree
<1> QED
  BY <1>2, <1>3, <1>4, TypedNow DEF Typed

\* Once all requests are through and nothing but stills interrupted each other,
\* every screen shows one wallpaper, the one the daemon says it shows and the
\* one the next run restores (engine.rs applied_rows and record_applied).
THEOREM FactAtRestAlways == Spec => []FactAtRest
<1>1. Init => Basics /\ Calm
  BY InitBasics, InitCalm
<1>2. Basics /\ Calm /\ [Next]_vars => (Basics /\ Calm)'
  BY NextBasics, NextCalm
<1> QED
  BY <1>1, <1>2, CalmAtRest, PTL DEF Spec

=============================================================================
