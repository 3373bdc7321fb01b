--------------------------- MODULE PlaybackProofs ---------------------------
(***************************************************************************)
(* Proofs about Playback for any content, any budget of a walk, and any    *)
(* number of requests.                                                     *)
(***************************************************************************)
EXTENDS Playback, FiniteSetTheorems, SequenceTheorems, TLAPS

-----------------------------------------------------------------------------
\* The inductive invariant.

\* A walk has pulled no frame behind one that ends after its target, as the clock
\* counts; the frame it shows is near it.
Walked(c) ==
    /\ c.at \in {"wait", "show", "after"} => c.frame \in Frames
    /\ c.at = "walk" => /\ c.purpose \in {"wrap", "seek"}
                        /\ c.frame = 0 \/ Counted[c.frame - 1] <= c.seek.target
    /\ c.at = "show" /\ c.purpose = "seek" => Near(c.frame, c.seek.target)

\* What a session tells its callers has happened: its first frame, and the seeks
\* it calls applied, whose numbers have all been given.
Told(s, sh, c) ==
    /\ c.at = "after" => s \in drawn
    /\ c.purpose = "seek" => c.seek.seq \in 1..seeks
    /\ c.at = "after" /\ c.purpose = "seek" => c.seek.seq \in landed
    /\ sh.pending = NoSeek \/ sh.pending.seq \in 1..seeks
    /\ sh.result.seq \in 0..seeks
    /\ sh.result.answer = "applied" => sh.result.seq \in landed
    /\ sh.ready = "ok" => s \in drawn

\* A frame too many: a stopped clock is about to end, and one that is paused or
\* held has no frame in hand.
Overran(sh, c, o) ==
    /\ o.stopped = 0 \/ (o.stopped = 1 /\ sh.stop /\ c.at \in {"after", "done"})
    /\ o.frozen = 0 \/ /\ o.frozen = 1
                       /\ held \/ ~sh.playing
                       /\ ~(c.at \in {"walk", "show"} /\ c.purpose \in {"pull", "wrap"})

SessionHolds(s) == /\ Walked(clock[s]) /\ Told(s, shared[s], clock[s])
                   /\ Overran(shared[s], clock[s], overrun[s])

\* Nothing a session knows is newer than the seek numbered n.
Within(sh, c, n) == /\ sh.pending.seq <= n /\ sh.result.seq <= n
                    /\ c.purpose = "seek" => c.seek.seq <= n

\* What a request may do where it is, what its answer claims, and a start that
\* has no clock yet.
Rightly(r, j) ==
    /\ j.at \in {"acquire", "join", "spawn"} => j.op \in {"start", "stop"}
    /\ j.at = "await" => j.op = "start"
    /\ j.at \in {"lock", "landing", "snapshot"} => /\ j.op \notin {"start", "stop"}
                                                   /\ j.session \in Session
    /\ j.at = "landing" => Within(shared[j.session], clock[j.session], j.seek.seq)
    /\ j.op = "seek" /\ j.at \in {"snapshot", "ok"} => j.seek.seq \in landed
    /\ j.op = "start" /\ j.at = "ok" => r \in drawn
    /\ j.at \in {"new", "acquire", "spawn"} \/ lifecycle = r => clock[r].at = "none"

\* Who holds which lock.
Locks(r, j) ==
    /\ j.at = "spawn" => lifecycle = r
    /\ lifecycle = r => j.at \in {"join", "spawn"}
    /\ \A s \in Session : shared[s].command = r <=> j.at = "landing" /\ j.session = s

IInv == /\ TypeOK
        /\ lifecycle # Nobody => registered = Nobody
        /\ NoLeakedClock
        /\ \A s \in Session : SessionHolds(s)
        /\ \A r \in Request : Rightly(r, job[r])

-----------------------------------------------------------------------------
\* Content time.  EndOf and Counted are recursive: that they are what they say, and
\* numbers, is shown with the least frame for which they would not be.

LEMMA LeastMember ==
    ASSUME NEW T \in SUBSET Nat, T # {}
    PROVE  \E x \in T : \A y \in T : x <= y
<1> DEFINE F == {0..x : x \in T}
           R == StrictSubsetOrdering(Nat)
<1>1. F # {} /\ F \subseteq FiniteSubsetsOf(Nat)
  <2>1. \A x \in T : 0..x \in FiniteSubsetsOf(Nat)
    BY FS_Interval DEF FiniteSubsetsOf
  <2> QED
    BY <2>1
<1>2. IsWellFoundedOn(R, FiniteSubsetsOf(Nat))
  BY FS_StrictSubsetOrderingWellFounded
<1> HIDE DEF F
<1>3. \E A \in F : \A B \in F : <<B, A>> \notin R
  BY <1>1, <1>2, WFMin
<1>4. PICK A \in F : \A B \in F : <<B, A>> \notin R
  BY <1>3
<1>5. PICK x \in T : A = 0..x
  BY DEF F
<1>6. ASSUME NEW y \in T, y < x
      PROVE  FALSE
  <2>1. 0..y \in F
    BY DEF F
  <2>2. /\ 0..y \subseteq 0..x /\ x \notin 0..y /\ x \in 0..x
        /\ 0..y \in SUBSET Nat /\ 0..x \in SUBSET Nat
    BY <1>6
  <2>3. <<0..y, 0..x>> \in R
    BY <2>2 DEF StrictSubsetOrdering
  <2> QED
    BY <1>4, <1>5, <2>1, <2>3
<1> QED
  BY <1>5, <1>6

LEMMA Content ==
    /\ Last \in Nat \ {0}
    /\ \A i \in Frames : Delays[i] \in Nat
BY PlaybackAssumption, EmptySeq, LenProperties, ElementOfSeq DEF PlaybackAssumption, Last, Frames

\* Every sequence of numbers has its running sums.
LEMMA SumsExist ==
    ASSUME NEW D, \A i \in 1..Last : D[i] \in Nat
    PROVE  \E f \in [0..Last -> Nat] :
               f = [i \in 0..Last |-> IF i = 0 THEN 0 ELSE f[i - 1] + D[i]]
<1> DEFINE Upto(f, n) == f[0] = 0 /\ \A i \in 1..n : f[i] = f[i - 1] + D[i]
           T == {n \in 0..Last : ~\E f \in [0..n -> Nat] : Upto(f, n)}
<1>1. Last \in Nat
  BY Content
<1>2. T = {}
  <2>1. SUFFICES ASSUME T # {} PROVE FALSE
    OBVIOUS
  <2>2. T \subseteq Nat
    BY <1>1
  <2> HIDE DEF T
  <2>3. PICK n \in T : \A m \in T : n <= m
    BY <2>1, <2>2, LeastMember
  <2>4. n \in 0..Last /\ ~\E f \in [0..n -> Nat] : Upto(f, n)
    BY <2>3 DEF T
  <2>5. CASE n = 0
    <3>1. [i \in 0..0 |-> 0] \in [0..n -> Nat] /\ Upto([i \in 0..0 |-> 0], n)
      BY <2>5
    <3> QED
      BY <3>1, <2>4
  <2>6. CASE n # 0
    <3>1. n - 1 \in 0..Last /\ n - 1 \notin T /\ n \in Nat
      BY <1>1, <2>3, <2>4, <2>6, <2>2
    <3>2. PICK f \in [0..n - 1 -> Nat] : Upto(f, n - 1)
      BY <3>1 DEF T
    <3> DEFINE g == [i \in 0..n |-> IF i = n THEN f[n - 1] + D[n] ELSE f[i]]
    <3>3. g \in [0..n -> Nat]
      BY <1>1, <3>1, <2>4, <2>6
    <3>4. Upto(g, n)
      <4>1. g[0] = 0
        BY <3>1, <3>2, <2>6
      <4>2. \A i \in 1..n : g[i] = g[i - 1] + D[i]
        BY <3>1, <3>2, <2>6
      <4> QED
        BY <4>1, <4>2
    <3> QED
      BY <3>3, <3>4, <2>4
  <2> QED
    BY <2>5, <2>6
<1>3. PICK f \in [0..Last -> Nat] : Upto(f, Last)
  BY <1>1, <1>2
<1>4. f = [i \in 0..Last |-> IF i = 0 THEN 0 ELSE f[i - 1] + D[i]]
  BY <1>1, <1>3
<1> QED
  BY <1>4

\* What is shown by following running sums.
LEMMA SumsAre ==
    ASSUME NEW D, \A i \in 1..Last : D[i] \in Nat,
           NEW sum, sum = [i \in 0..Last |-> IF i = 0 THEN 0 ELSE sum[i - 1] + D[i]]
    PROVE  /\ sum[0] = 0
           /\ \A i \in Frames : sum[i] = sum[i - 1] + D[i]
           /\ \A i \in 0..Last : sum[i] \in Nat
<1>1. /\ sum[0] = 0
      /\ \A i \in Frames : sum[i] = sum[i - 1] + D[i]
  <2>1. \A i \in 0..Last : sum[i] = IF i = 0 THEN 0 ELSE sum[i - 1] + D[i]
    OBVIOUS
  <2>2. 0 \in 0..Last /\ \A i \in Frames : i \in 0..Last /\ i # 0
    BY Content DEF Frames
  <2> QED
    BY <2>1, <2>2
<1> DEFINE T == {i \in 0..Last : sum[i] \notin Nat}
<1>2. T = {}
  <2>1. SUFFICES ASSUME T # {} PROVE FALSE
    OBVIOUS
  <2>2. PICK i \in T : \A k \in T : i <= k
    <3>1. T \subseteq Nat
      BY Content
    <3> HIDE DEF T
    <3> QED
      BY <2>1, <3>1, LeastMember
  <2>3. i \in Frames /\ i - 1 \in 0..Last /\ i - 1 \notin T
    BY <1>1, <2>2, Content DEF Frames
  <2> QED
    BY <1>1, <2>2, <2>3 DEF Frames
<1> QED
  BY <1>1, <1>2

\* A delay is the milliseconds counted of it and a part of one.
LEMMA Milliseconds ==
    /\ Milli \in Nat \ {0}
    /\ \A i \in 1..Last : \E q \in Nat, r \in 0..Milli - 1 :
           q = Delays[i] \div Milli /\ Delays[i] = (Milli * q) + r
<1>1. Milli \in Nat \ {0} /\ \A i \in 1..Last : Delays[i] \in Nat
  BY Content, PlaybackAssumption DEF PlaybackAssumption, Frames
<1>2. ASSUME NEW d \in Nat, NEW m \in Nat \ {0}
      PROVE  \E q \in Nat, r \in 0..m - 1 : q = d \div m /\ d = (m * q) + r
  <2>1. PICK q \in Nat : q = d \div m
    OBVIOUS
  <2>2. m * q <= d /\ d < (m * q) + m /\ m * q \in Nat
    BY <2>1
  <2>3. d - (m * q) \in 0..m - 1 /\ d = (m * q) + (d - (m * q))
    BY <2>2
  <2> QED
    BY <2>1, <2>3
<1> QED
  BY <1>1, <1>2

LEMMA EndOfFacts ==
    /\ EndOf[0] = 0
    /\ \A i \in Frames : EndOf[i] = EndOf[i - 1] + Delays[i]
    /\ \A i \in 0..Last : EndOf[i] \in Nat
<1>1. \A i \in 1..Last : Delays[i] \in Nat
  BY Content DEF Frames
<1>2. EndOf = [i \in 0..Last |-> IF i = 0 THEN 0 ELSE EndOf[i - 1] + Delays[i]]
  BY <1>1, SumsExist DEF EndOf
<1> QED
  BY <1>1, <1>2, SumsAre

LEMMA CountedFacts ==
    /\ Counted[0] = 0
    /\ \A i \in Frames : Counted[i] = Counted[i - 1] + Delays[i] \div Milli
    /\ \A i \in 0..Last : Counted[i] \in Nat
<1> DEFINE D == [i \in 1..Last |-> Delays[i] \div Milli]
           Sums(f) == [i \in 0..Last |-> IF i = 0 THEN 0 ELSE f[i - 1] + Delays[i] \div Milli]
<1>1. /\ \A i \in 1..Last : D[i] \in Nat /\ D[i] = Delays[i] \div Milli
      /\ Last \in Nat
  BY Milliseconds, Content
<1> HIDE DEF D
<1>2. ASSUME NEW f
      PROVE  Sums(f) = [i \in 0..Last |-> IF i = 0 THEN 0 ELSE f[i - 1] + D[i]]
  <2>1. \A i \in 0..Last : i # 0 => i \in 1..Last
    BY <1>1
  <2> QED
    BY <1>1, <2>1
<1>3. PICK f \in [0..Last -> Nat] :
          f = [i \in 0..Last |-> IF i = 0 THEN 0 ELSE f[i - 1] + D[i]]
  BY <1>1, SumsExist
<1>4. f = Sums(f)
  BY <1>2, <1>3
<1>5. Counted = Sums(Counted)
  BY <1>4 DEF Counted
<1>6. Counted = [i \in 0..Last |-> IF i = 0 THEN 0 ELSE Counted[i - 1] + D[i]]
  BY <1>2, <1>5
<1>7. /\ Counted[0] = 0
      /\ \A i \in Frames : Counted[i] = Counted[i - 1] + D[i]
      /\ \A i \in 0..Last : Counted[i] \in Nat
  BY <1>1, <1>6, SumsAre
<1> QED
  BY <1>1, <1>7 DEF Frames

\* What the clock counts falls short of content time by its drift at most.
LEMMA CountedFallsShort ==
    \A i \in 0..Last : /\ Milli * Counted[i] <= EndOf[i]
                       /\ EndOf[i] <= Milli * Counted[i] + Drift(i)
<1> DEFINE T == {i \in 0..Last : ~ /\ Milli * Counted[i] <= EndOf[i]
                                   /\ EndOf[i] <= Milli * Counted[i] + Drift(i)}
<1>1. SUFFICES ASSUME T # {} PROVE FALSE
  OBVIOUS
<1>2. T \subseteq Nat
  BY Content
<1> HIDE DEF T
<1>3. PICK i \in T : \A k \in T : i <= k
  BY <1>1, <1>2, LeastMember
<1>4. /\ i \in 0..Last /\ i \in Nat
      /\ ~ /\ Milli * Counted[i] <= EndOf[i]
           /\ EndOf[i] <= Milli * Counted[i] + Drift(i)
  BY <1>2, <1>3 DEF T
<1>5. PICK m \in Nat \ {0} : m = Milli
  BY Milliseconds
<1>6. i # 0
  BY <1>4, <1>5, EndOfFacts, CountedFacts DEF Drift
<1>7. i \in Frames /\ i - 1 \in 0..Last /\ i - 1 \notin T
  BY <1>3, <1>4, <1>6, Content DEF Frames
<1>8. /\ m * Counted[i - 1] <= EndOf[i - 1]
      /\ EndOf[i - 1] <= m * Counted[i - 1] + Drift(i - 1)
  BY <1>5, <1>7 DEF T
<1>9. PICK c \in Nat, e \in Nat, q \in Nat, r \in 0..m - 1 :
          /\ c = Counted[i - 1] /\ e = EndOf[i - 1]
          /\ q = Delays[i] \div Milli /\ Delays[i] = (m * q) + r
          /\ Counted[i] = c + q /\ EndOf[i] = e + ((m * q) + r)
  <2>1. PICK q \in Nat, r \in 0..m - 1 : q = Delays[i] \div Milli /\ Delays[i] = (m * q) + r
    BY <1>5, <1>7, Milliseconds DEF Frames
  <2>2. /\ Counted[i - 1] \in Nat /\ EndOf[i - 1] \in Nat
        /\ Counted[i] = Counted[i - 1] + q /\ EndOf[i] = EndOf[i - 1] + ((m * q) + r)
    BY <1>7, <2>1, EndOfFacts, CountedFacts
  <2> QED
    BY <2>1, <2>2
<1>10. PICK x \in Nat, y \in Nat : x = m * c /\ y = m * q /\ m * (c + q) = x + y
  OBVIOUS
<1>11. m * Counted[i] <= EndOf[i]
  <2>1. x <= e
    BY <1>8, <1>9, <1>10
  <2>2. EndOf[i] = e + (y + r) /\ m * Counted[i] = x + y
    BY <1>9, <1>10
  <2> QED
    BY <2>1, <2>2
<1>12. Drift(i - 1) \in Nat /\ Drift(i) \in Nat /\ Drift(i - 1) + r <= Drift(i)
  <2>1. CASE Whole
    <3>1. y = y + r
      BY <1>10, <1>5, <1>7, <1>9, <2>1 DEF Whole
    <3>2. r = 0
      BY <3>1
    <3> QED
      BY <2>1, <3>2 DEF Drift
  <2>2. CASE ~Whole
    <3>1. /\ (i - 1) * (m - 1) + (m - 1) = i * (m - 1)
          /\ (i - 1) * (m - 1) \in Nat /\ i * (m - 1) \in Nat
      BY <1>4, <1>6
    <3> QED
      BY <1>5, <2>2, <3>1 DEF Drift
  <2> QED
    BY <2>1, <2>2
<1>13. EndOf[i] <= m * Counted[i] + Drift(i)
  <2>1. e <= x + Drift(i - 1)
    BY <1>8, <1>9, <1>10
  <2>2. EndOf[i] = e + (y + r) /\ m * Counted[i] = x + y
    BY <1>9, <1>10
  <2> QED
    BY <1>12, <2>1, <2>2
<1> QED
  BY <1>4, <1>5, <1>11, <1>13

\* The frame whose slot contains a target, as the clock counts, is near it.
InSlot(frame, target) ==
    /\ Counted[frame - 1] <= target
    /\ target < Counted[frame] \/ frame = Last

LEMMA InSlotIsNear ==
    ASSUME NEW frame \in Frames, NEW target \in Nat, InSlot(frame, target)
    PROVE  Near(frame, target)
<1>1. PICK m \in Nat \ {0} : m = Milli
  BY Milliseconds
<1>2. frame - 1 \in 0..Last /\ frame \in 0..Last
  BY Content DEF Frames
<1>3. \A a, b \in Nat : /\ a <= b => m * a <= m * b
                        /\ a < b => m * a < m * b
                        /\ m * a \in Nat /\ m * a = a * m
  OBVIOUS
<1>4. EndOf[frame - 1] <= target * m + Drift(frame - 1)
  <2>1. EndOf[frame - 1] <= m * Counted[frame - 1] + Drift(frame - 1)
    BY <1>1, <1>2, CountedFallsShort
  <2>2. m * Counted[frame - 1] <= m * target /\ m * target = target * m
    BY <1>2, <1>3, CountedFacts DEF InSlot
  <2>3. Drift(frame - 1) \in Nat
    BY <1>1, <1>2 DEF Drift
  <2> QED
    BY <1>2, <1>3, <2>1, <2>2, <2>3, EndOfFacts, CountedFacts
<1>5. ASSUME target < Counted[frame]
      PROVE  target * m < EndOf[frame]
  <2>1. m * target < m * Counted[frame]
    BY <1>2, <1>3, <1>5, CountedFacts
  <2>2. m * Counted[frame] <= EndOf[frame]
    BY <1>1, <1>2, CountedFallsShort
  <2> QED
    BY <1>2, <1>3, <2>1, <2>2, EndOfFacts, CountedFacts
<1> QED
  BY <1>1, <1>4, <1>5 DEF InSlot, Near

-----------------------------------------------------------------------------
\* What TypeOK says of one session or request.

LEMMA Names ==
    /\ Request \subseteq Session /\ Nobody \notin Session /\ Boot \in Session
    /\ Boot \notin Request /\ Session \subseteq Nat
BY PlaybackAssumption DEF PlaybackAssumption, Request, Session, Boot, Nobody

LEMMA SessionTypes ==
    ASSUME TypeOK, NEW s \in Session
    PROVE  /\ shared[s] \in Runtime /\ clock[s] \in Clock
           /\ shared[s].failed => ~shared[s].playing
           /\ overrun[s].stopped \in Nat /\ overrun[s].frozen \in Nat
BY DEF TypeOK

LEMMA RuntimeFacts ==
    ASSUME NEW sh \in Runtime
    PROVE  /\ sh.playing \in BOOLEAN /\ sh.stop \in BOOLEAN /\ sh.failed \in BOOLEAN
           /\ sh.pending \in Seek /\ sh.result \in Result /\ sh.range \in Loops \cup {NoLoop}
           /\ sh.position \in Frames /\ sh.ready \in {"none", "ok", "error"}
           /\ sh.command \in Request \cup {Nobody}
           /\ sh.pending.seq \in Nat /\ sh.result.seq \in Nat
BY DEF Runtime, Seek, Result

LEMMA ClockFacts ==
    ASSUME NEW c \in Clock
    PROVE  /\ c.at \in {"none", "open", "wait", "walk", "show", "after", "reset", "done"}
           /\ c.purpose \in {"first", "pull", "wrap", "seek"}
           /\ c.frame \in 0..Last /\ c.seek \in Seek
           /\ c.seek.seq \in Nat /\ c.seek.target \in Nat
BY DEF Clock, Seek

LEMMA NoClocks ==
    /\ NoSeek \in Seek /\ NoSeek.seq = 0
    /\ NoClock \in Clock /\ NoClock.at = "none"
    /\ NoClock.purpose = "first" /\ NoClock.seek = NoSeek
    /\ Ended \in Clock /\ Ended.at = "done" /\ Ended.purpose = "first"
BY Content DEF NoSeek, Seek, NoClock, Ended, Clock

\* A clock between two frames.
LEMMA Waits ==
    ASSUME NEW frame \in Frames
    PROVE  LET c == [NoClock EXCEPT !.at = "wait", !.frame = frame] IN
           c \in Clock /\ c.at = "wait" /\ c.frame = frame /\ c.purpose = "first"
<1>1. frame \in 0..Last /\ NoSeek \in Seek
  BY Content, NoClocks DEF Frames
<1>2. PICK n \in Clock : n = NoClock /\ n.purpose = "first"
  BY NoClocks
<1>3. LET c == [n EXCEPT !.at = "wait", !.frame = frame] IN
      c \in Clock /\ c.at = "wait" /\ c.frame = frame /\ c.purpose = n.purpose
  BY <1>1 DEF Clock
<1> QED
  BY <1>2, <1>3

LEMMA JobFacts ==
    ASSUME NEW j \in Job
    PROVE  /\ j.session \in Session \cup {Nobody} /\ j.seek \in Seek /\ j.seek.seq \in Nat
           /\ j.op \in Op /\ j.range \in Loops \cup {NoLoop}
BY DEF Job, Seek

LEMMA Put ==
    ASSUME NEW S, NEW T, NEW f \in [S -> T], NEW x \in S, NEW v \in T
    PROVE  /\ [f EXCEPT ![x] = v] \in [S -> T]
           /\ [f EXCEPT ![x] = v][x] = v
           /\ \A y \in S \ {x} : [f EXCEPT ![x] = v][y] = f[y]
OBVIOUS

LEMMA Same ==
    ASSUME NEW S, NEW T, NEW f \in [S -> T], NEW x \in S
    PROVE  f = [f EXCEPT ![x] = f[x]]
OBVIOUS

-----------------------------------------------------------------------------
\* What stays.

LEMMA SessionStays ==
    ASSUME NEW s \in Session, SessionHolds(s),
           shared'[s] = shared[s], clock'[s] = clock[s], overrun'[s] = overrun[s],
           held' = held, seeks \in Nat, seeks' \in Nat, seeks <= seeks',
           drawn \subseteq drawn', landed \subseteq landed'
    PROVE  SessionHolds(s)'
<1>1. Walked(clock[s])'
  BY DEF SessionHolds, Walked
<1>2. Told(s, shared[s], clock[s])'
  BY DEF SessionHolds, Told
<1>3. Overran(shared[s], clock[s], overrun[s])'
  BY DEF SessionHolds, Overran
<1> QED
  BY <1>1, <1>2, <1>3 DEF SessionHolds

\* A request that does nothing keeps what it may claim, when its session learns
\* of no newer seek and its clock does not start.
LEMMA RequestStays ==
    ASSUME NEW r \in Request, Rightly(r, job[r]), job'[r] = job[r],
           lifecycle' = r => lifecycle = r,
           clock[r].at = "none" => clock'[r].at = "none",
           drawn \subseteq drawn', landed \subseteq landed',
           job[r].at = "landing" =>
               LET s == job[r].session IN
               Within(shared[s], clock[s], job[r].seek.seq) =>
                   Within(shared'[s], clock'[s], job[r].seek.seq)
    PROVE  Rightly(r, job[r])'
BY DEF Rightly, Within

-----------------------------------------------------------------------------
\* A step of the clock of one session.

LEMMA ClockKeeps ==
    ASSUME IInv, NEW s \in Session, NEW sh \in Runtime, NEW c \in Clock,
           shared' = [shared EXCEPT ![s] = sh], clock' = [clock EXCEPT ![s] = c],
           UNCHANGED <<registered, lifecycle, held, seeks, job>>,
           overrun' \in [Session -> [stopped : Nat, frozen : Nat]],
           \A t \in Session \ {s} : overrun'[t] = overrun[t],
           screen' \in [session : Session \cup {Nobody}, frame : Frames],
           drawn \subseteq drawn', drawn' \subseteq Session,
           landed \subseteq landed', landed' \subseteq 1..seeks,
           Alive(s), c.at # "none",
           sh.command = shared[s].command, sh.stop = shared[s].stop, sh.failed => ~sh.playing,
           Walked(c), Told(s, sh, c)', Overran(sh, c, overrun'[s]),
           \A n \in Nat : Within(shared[s], clock[s], n) => Within(sh, c, n)
    PROVE  IInv'
<1>1. TypeOK
  BY DEF IInv
<1>2. /\ shared' \in [Session -> Runtime] /\ shared'[s] = sh
      /\ clock' \in [Session -> Clock] /\ clock'[s] = c
      /\ \A t \in Session \ {s} : shared'[t] = shared[t] /\ clock'[t] = clock[t]
  BY <1>1, Put DEF TypeOK
<1>3. TypeOK'
  <2>1. \A t \in Session : shared'[t].command = shared[t].command
    BY <1>2
  <2>2. \A t \in Session : shared'[t].failed => ~shared'[t].playing
    BY <1>1, <1>2 DEF TypeOK
  <2> QED
    BY <1>1, <1>2, <2>1, <2>2 DEF TypeOK, At
<1>4. NoLeakedClock'
  BY <1>2 DEF IInv, NoLeakedClock, Alive
<1>5. SessionHolds(s)'
  <2>1. Walked(clock[s])'
    BY <1>2 DEF Walked
  <2>2. Told(s, shared[s], clock[s])'
    BY <1>2 DEF Told
  <2>3. Overran(shared[s], clock[s], overrun[s])'
    BY <1>2 DEF Overran
  <2> QED
    BY <2>1, <2>2, <2>3 DEF SessionHolds
<1>6. ASSUME NEW t \in Session \ {s}
      PROVE  SessionHolds(t)'
  BY <1>1, <1>2, SessionStays DEF IInv, TypeOK
<1>7. ASSUME NEW r \in Request
      PROVE  Rightly(r, job[r])'
  <2>1. Rightly(r, job[r]) /\ job[r] \in Job
    BY <1>1 DEF IInv, TypeOK
  <2>2. clock[r].at = "none" => clock'[r].at = "none"
    BY <1>2, Names DEF Alive
  <2>3. job[r].at = "landing" =>
            LET t == job[r].session IN
            Within(shared[t], clock[t], job[r].seek.seq) =>
                Within(shared'[t], clock'[t], job[r].seek.seq)
    BY <1>2, <2>1, JobFacts DEF Rightly
  <2> QED
    BY <2>1, <2>2, <2>3, RequestStays
<1> QED
  BY <1>3, <1>4, <1>5, <1>6, <1>7 DEF IInv

\* The same for a step that shows nothing.
LEMMA TickKeeps ==
    ASSUME IInv, NEW s \in Session, NEW sh \in Runtime, NEW c \in Clock,
           shared' = [shared EXCEPT ![s] = sh], clock' = [clock EXCEPT ![s] = c],
           UNCHANGED <<registry, job, screen, history>>,
           Alive(s), c.at # "none",
           sh.command = shared[s].command, sh.stop = shared[s].stop, sh.failed => ~sh.playing,
           Walked(c), Told(s, sh, c), Overran(sh, c, overrun[s]),
           \A n \in Nat : Within(shared[s], clock[s], n) => Within(sh, c, n)
    PROVE  IInv'
<1>1. UNCHANGED <<registered, lifecycle, held, seeks, job, screen, drawn, landed, overrun>>
  BY DEF registry, history
<1>2. /\ overrun' \in [Session -> [stopped : Nat, frozen : Nat]]
      /\ screen' \in [session : Session \cup {Nobody}, frame : Frames]
      /\ drawn' \subseteq Session /\ landed' \subseteq 1..seeks
  BY <1>1 DEF IInv, TypeOK
<1>3. Told(s, sh, c)'
  BY <1>1 DEF Told
<1>4. Overran(sh, c, overrun'[s])
  BY <1>1
<1> QED
  BY <1>1, <1>2, <1>3, <1>4, ClockKeeps

-----------------------------------------------------------------------------
\* The steps of a clock.

\* What is known of a session whose clock runs.
LEMMA Known ==
    ASSUME IInv, NEW s \in Session
    PROVE  /\ TypeOK
           /\ Walked(clock[s]) /\ Told(s, shared[s], clock[s])
           /\ Overran(shared[s], clock[s], overrun[s])
           /\ shared[s] \in Runtime /\ clock[s] \in Clock
           /\ shared[s].failed => ~shared[s].playing
           /\ shared = [shared EXCEPT ![s] = shared[s]]
<1>1. TypeOK /\ SessionHolds(s)
  BY DEF IInv
<1>2. shared = [shared EXCEPT ![s] = shared[s]]
  BY <1>1, Same DEF TypeOK
<1> QED
  BY <1>1, <1>2, SessionTypes DEF SessionHolds

\* The clock ends without a word.
LEMMA EndKeeps ==
    ASSUME IInv, NEW s \in Session, Turns(s, Ended), Alive(s), clock[s].at # "after",
           UNCHANGED <<registry, shared, job, screen, history>>
    PROVE  IInv'
<1>1. PICK c \in Clock : c = Ended /\ c.at = "done" /\ c.purpose = "first"
  BY NoClocks
<1>2. clock' = [clock EXCEPT ![s] = c] /\ shared' = [shared EXCEPT ![s] = shared[s]]
  BY <1>1, Known DEF Turns
<1>3. Walked(c) /\ Told(s, shared[s], c)
  BY <1>1, Known DEF Walked, Told
<1>4. Overran(shared[s], c, overrun[s])
  BY <1>1, Known DEF Overran, Alive
<1>5. \A n \in Nat : Within(shared[s], clock[s], n) => Within(shared[s], c, n)
  BY <1>1 DEF Within
<1> QED
  BY <1>1, <1>2, <1>3, <1>4, <1>5, Known, TickKeeps

LEMMA TurnStopKeeps ==
    ASSUME IInv, NEW s \in Session, TurnStop(s)
    PROVE  IInv'
BY EndKeeps DEF TurnStop, Ticks, Alive

LEMMA OpenKeeps ==
    ASSUME IInv, NEW s \in Session, Open(s)
    PROVE  IInv'
<1>1. /\ clock[s].at = "open" /\ Alive(s)
      /\ UNCHANGED <<registry, shared, job, screen, history>>
  BY DEF Open, Ticks, Alive
<1>2. CASE shared[s].stop
  BY <1>1, <1>2, EndKeeps DEF Open
<1>3. CASE ~shared[s].stop
  <2>1. PICK b \in Clock : b = clock[s]
    BY Known
  <2>2. 1 \in Frames /\ 1 \in 0..Last
    BY Content DEF Frames
  <2>3. PICK c : c = [b EXCEPT !.at = "show", !.purpose = "first", !.frame = 1]
    OBVIOUS
  <2>4. c \in Clock /\ c.at = "show" /\ c.purpose = "first" /\ c.frame = 1
    BY <2>2, <2>3 DEF Clock
  <2>5. clock' = [clock EXCEPT ![s] = c] /\ shared' = [shared EXCEPT ![s] = shared[s]]
    BY <1>1, <1>3, <2>1, <2>3, Known DEF Open, Turns
  <2>6. Walked(c) /\ Told(s, shared[s], c)
    BY <2>2, <2>4, Known DEF Walked, Told
  <2>7. Overran(shared[s], c, overrun[s])
    BY <1>1, <2>4, Known DEF Overran
  <2>8. \A n \in Nat : Within(shared[s], clock[s], n) => Within(shared[s], c, n)
    BY <2>4 DEF Within
  <2> QED
    BY <1>1, <2>4, <2>5, <2>6, <2>7, <2>8, Known, TickKeeps
<1> QED
  BY <1>2, <1>3

LEMMA TurnSeekKeeps ==
    ASSUME IInv, NEW s \in Session, TurnSeek(s)
    PROVE  IInv'
<1>1. /\ clock[s].at = "wait" /\ Alive(s) /\ shared[s].pending # NoSeek
      /\ UNCHANGED <<registry, job, screen, history>>
  BY DEF TurnSeek, Ticks, Alive
<1>2. PICK b \in Runtime : b = shared[s]
  BY Known
<1>3. PICK sh : sh = [b EXCEPT !.pending = NoSeek]
  OBVIOUS
<1>4. /\ sh \in Runtime /\ sh.pending = NoSeek /\ sh.result = b.result /\ sh.ready = b.ready
      /\ sh.command = b.command /\ sh.stop = b.stop /\ sh.failed = b.failed
      /\ sh.playing = b.playing
  BY <1>3, NoClocks DEF Runtime
<1>5. PICK c : c = [at |-> "walk", purpose |-> "seek", frame |-> 0, seek |-> b.pending]
  OBVIOUS
<1>6. /\ c \in Clock /\ c.at = "walk" /\ c.purpose = "seek" /\ c.frame = 0 /\ c.seek = b.pending
  BY <1>5, RuntimeFacts, Content DEF Clock
<1>7. clock' = [clock EXCEPT ![s] = c] /\ shared' = [shared EXCEPT ![s] = sh]
  BY <1>2, <1>3, <1>5 DEF TurnSeek, Turns
<1>8. Walked(c)
  BY <1>6 DEF Walked
<1>9. Told(s, sh, c)
  BY <1>1, <1>2, <1>4, <1>6, Known DEF Told
<1>10. Overran(sh, c, overrun[s])
  BY <1>1, <1>2, <1>4, <1>6, Known DEF Overran
<1>11. \A n \in Nat : Within(shared[s], clock[s], n) => Within(sh, c, n)
  BY <1>2, <1>4, <1>6, NoClocks DEF Within
<1> QED
  BY <1>1, <1>2, <1>4, <1>6, <1>7, <1>8, <1>9, <1>10, <1>11, Known, TickKeeps

\* The position is published and nothing else.
LEMMA Published ==
    ASSUME NEW b \in Runtime, NEW frame \in Frames
    PROVE  LET sh == [b EXCEPT !.position = frame] IN
           /\ sh \in Runtime /\ sh.pending = b.pending /\ sh.result = b.result
           /\ sh.ready = b.ready /\ sh.command = b.command /\ sh.stop = b.stop
           /\ sh.failed = b.failed /\ sh.playing = b.playing
BY DEF Runtime

LEMMA TurnPullKeeps ==
    ASSUME IInv, NEW s \in Session, TurnPull(s)
    PROVE  IInv'
<1> DEFINE frame == clock[s].frame
           range == shared[s].range
<1>1. /\ clock[s].at = "wait" /\ Alive(s) /\ MayPlay(s)
      /\ UNCHANGED <<registry, job, screen, history>>
  BY DEF TurnPull, Ticks, Alive
<1>2. PICK b \in Runtime : b = shared[s]
  BY Known
<1>3. PICK k \in Clock : k = clock[s]
  BY Known
<1>4. k.frame \in Frames
  BY <1>1, <1>3, Known DEF Walked
<1>5. overrun[s].stopped = 0 /\ overrun[s].frozen = 0
  BY <1>1, Known DEF Overran, MayPlay
<1>6. CASE Wraps(k.frame, b.range)
  <2>1. b.range[1] \in Nat
    BY RuntimeFacts, PlaybackAssumption DEF PlaybackAssumption, NoLoop
  <2>2. PICK target \in Nat : target = b.range[1]
    BY <2>1
  <2>3. PICK c : c = [at |-> "walk", purpose |-> "wrap", frame |-> 0,
                      seek |-> [seq |-> 0, target |-> target]]
    OBVIOUS
  <2>4. c \in Clock /\ c.at = "walk" /\ c.purpose = "wrap" /\ c.frame = 0
    BY <2>3, Content DEF Clock, Seek
  <2>5. clock' = [clock EXCEPT ![s] = c] /\ shared' = [shared EXCEPT ![s] = b]
    BY <1>2, <1>3, <1>6, <2>2, <2>3, Known DEF TurnPull, Turns
  <2>6. Walked(c) /\ Told(s, b, c)
    BY <1>2, <2>4, Known DEF Walked, Told
  <2>7. Overran(b, c, overrun[s])
    BY <1>5 DEF Overran
  <2>8. \A n \in Nat : Within(shared[s], clock[s], n) => Within(b, c, n)
    BY <1>2, <2>4 DEF Within
  <2> QED
    BY <1>1, <1>2, <2>4, <2>5, <2>6, <2>7, <2>8, Known, TickKeeps
<1>7. CASE ~Wraps(k.frame, b.range)
  <2>1. k.frame + 1 \in Frames /\ k.frame + 1 \in 0..Last
    BY <1>4, <1>7, Content DEF Wraps, Frames
  <2>2. PICK next \in Frames : next = k.frame + 1 /\ next \in 0..Last
    BY <2>1
  <2>3. PICK c : c = [k EXCEPT !.at = "show", !.purpose = "pull", !.frame = next]
    OBVIOUS
  <2>4. c \in Clock /\ c.at = "show" /\ c.purpose = "pull" /\ c.frame = next
    BY <2>2, <2>3 DEF Clock
  <2>5. PICK sh \in Runtime :
             /\ sh = [b EXCEPT !.position = next]
             /\ sh.pending = b.pending /\ sh.result = b.result
             /\ sh.ready = b.ready /\ sh.command = b.command /\ sh.stop = b.stop
             /\ sh.failed = b.failed /\ sh.playing = b.playing
    BY Published
  <2>6. clock' = [clock EXCEPT ![s] = c] /\ shared' = [shared EXCEPT ![s] = sh]
    BY <1>2, <1>3, <1>7, <2>2, <2>3, <2>5 DEF TurnPull, Turns, Publish
  <2>7. Walked(c) /\ Told(s, sh, c)
    BY <1>2, <2>4, <2>5, Known DEF Walked, Told
  <2>8. Overran(sh, c, overrun[s])
    BY <1>5 DEF Overran
  <2>9. \A n \in Nat : Within(shared[s], clock[s], n) => Within(sh, c, n)
    BY <1>2, <2>4, <2>5 DEF Within
  <2> QED
    BY <1>1, <1>2, <2>4, <2>5, <2>6, <2>7, <2>8, <2>9, Known, TickKeeps
<1> QED
  BY <1>6, <1>7

LEMMA WalkKeeps ==
    ASSUME IInv, NEW s \in Session, Walk(s)
    PROVE  IInv'
<1>1. PICK k \in Clock : k = clock[s]
  BY Known
<1>2. PICK b \in Runtime : b = shared[s]
  BY Known
<1>3. /\ k.at = "walk" /\ Alive(s) /\ UNCHANGED <<registry, job, screen, history>>
  BY <1>1 DEF Walk, Walking, Ticks, Alive
<1>4. /\ k.purpose \in {"wrap", "seek"}
      /\ k.frame = 0 \/ Counted[k.frame - 1] <= k.seek.target
  BY <1>1, <1>3, Known DEF Walked
<1>5. overrun[s].stopped = 0 /\ (overrun[s].frozen = 0 \/ k.purpose = "seek")
  BY <1>1, <1>3, <1>4, Known DEF Overran
<1>6. Counted[k.frame] \in Nat /\ k.seek.target \in Nat /\ k.frame \in Nat /\ Last \in Nat \ {0}
  BY CountedFacts, ClockFacts, Content
<1>7. CASE PastTarget(k) \/ k.frame = Last
  <2>1. k.frame # 0
    BY <1>6, <1>7, CountedFacts DEF PastTarget
  <2>2. PICK f \in Frames : f = k.frame
    BY <2>1, <1>6, ClockFacts DEF Frames
  <2>3. Near(k.frame, k.seek.target)
    <3>1. InSlot(k.frame, k.seek.target)
      BY <1>4, <1>6, <1>7, <2>1 DEF PastTarget, InSlot
    <3> QED
      BY <1>6, <2>2, <3>1, InSlotIsNear
  <2>4. PICK c : c = [k EXCEPT !.at = "show"]
    OBVIOUS
  <2>5. /\ c \in Clock /\ c.at = "show" /\ c.purpose = k.purpose /\ c.frame = k.frame
        /\ c.seek = k.seek
    BY <2>4 DEF Clock
  <2>6. PICK sh \in Runtime :
             /\ sh = [b EXCEPT !.position = f]
             /\ sh.pending = b.pending /\ sh.result = b.result
             /\ sh.ready = b.ready /\ sh.command = b.command /\ sh.stop = b.stop
             /\ sh.failed = b.failed /\ sh.playing = b.playing
    BY Published
  <2>7. clock' = [clock EXCEPT ![s] = c] /\ shared' = [shared EXCEPT ![s] = sh]
    BY <1>1, <1>2, <1>7, <2>2, <2>4, <2>6 DEF Walk, Step, Turns, Publish
  <2>8. Walked(c)
    BY <2>2, <2>3, <2>5 DEF Walked
  <2>9. Told(s, sh, c)
    BY <1>1, <1>2, <1>3, <2>5, <2>6, Known DEF Told
  <2>10. Overran(sh, c, overrun[s])
    BY <1>1, <1>2, <1>3, <1>5, <2>5, <2>6, Known DEF Overran
  <2>11. \A n \in Nat : Within(shared[s], clock[s], n) => Within(sh, c, n)
    BY <1>1, <1>2, <2>5, <2>6 DEF Within
  <2> QED
    BY <1>2, <1>3, <2>5, <2>6, <2>7, <2>8, <2>9, <2>10, <2>11, Known, TickKeeps
<1>8. CASE ~(PastTarget(k) \/ k.frame = Last)
  <2>1. k.frame + 1 \in 0..Last /\ Counted[k.frame] <= k.seek.target
    BY <1>6, <1>8, ClockFacts DEF PastTarget
  <2>2. PICK f \in 0..Last : f = k.frame + 1
    BY <2>1
  <2>3. PICK c : c = [k EXCEPT !.frame = f]
    OBVIOUS
  <2>4. /\ c \in Clock /\ c.at = "walk" /\ c.purpose = k.purpose /\ c.frame = f
        /\ c.seek = k.seek
    BY <1>3, <2>3 DEF Clock
  <2>5. clock' = [clock EXCEPT ![s] = c] /\ shared' = [shared EXCEPT ![s] = b]
    BY <1>1, <1>2, <1>8, <2>2, <2>3, Known DEF Walk, Turns
  <2>6. Walked(c)
    <3>1. Counted[f - 1] <= k.seek.target
      BY <1>6, <2>1, <2>2
    <3> QED
      BY <1>4, <2>4, <3>1 DEF Walked
  <2>7. Told(s, b, c)
    BY <1>1, <1>2, <1>3, <2>4, Known DEF Told
  <2>8. Overran(b, c, overrun[s])
    BY <1>1, <1>2, <1>3, <1>5, <2>4, Known DEF Overran
  <2>9. \A n \in Nat : Within(shared[s], clock[s], n) => Within(b, c, n)
    BY <1>1, <1>2, <2>4 DEF Within
  <2> QED
    BY <1>2, <1>3, <2>4, <2>5, <2>6, <2>7, <2>8, <2>9, Known, TickKeeps
<1> QED
  BY <1>7, <1>8

\* A result is the one of before or the new one, which is newer.
LEMMA CompletedFacts ==
    ASSUME NEW b \in Runtime, NEW seq \in Nat, NEW answer \in {"applied", "refused", "fatal"}
    PROVE  LET sh == Completed(b, seq, answer) IN
           /\ sh \in Runtime /\ sh.pending = b.pending
           /\ \/ sh.result = b.result
              \/ sh.result.seq = seq /\ sh.result.answer = answer
           /\ sh.ready = b.ready /\ sh.command = b.command /\ sh.stop = b.stop
           /\ sh.failed = b.failed /\ sh.playing = b.playing
<1>1. [seq |-> seq, answer |-> answer] \in Result
  BY DEF Result
<1>2. PICK result \in Result : result = [seq |-> seq, answer |-> answer]
  BY <1>1
<1>3. LET sh == [b EXCEPT !.result = result] IN
      /\ sh \in Runtime /\ sh.pending = b.pending /\ sh.result = result
      /\ sh.ready = b.ready /\ sh.command = b.command /\ sh.stop = b.stop
      /\ sh.failed = b.failed /\ sh.playing = b.playing
  BY DEF Runtime
<1>4. result.seq = seq /\ result.answer = answer
  BY <1>2
<1>5. CASE b.result.seq < seq
  BY <1>2, <1>3, <1>4, <1>5 DEF Completed
<1>6. CASE ~(b.result.seq < seq)
  BY <1>6 DEF Completed
<1> QED
  BY <1>5, <1>6

LEMMA FailedFacts ==
    ASSUME NEW b \in Runtime
    PROVE  LET sh == FailedUnlessStopped(b) IN
           /\ sh \in Runtime /\ sh.pending = b.pending /\ sh.result = b.result
           /\ sh.ready = "ok" => b.ready = "ok"
           /\ sh.command = b.command /\ sh.stop = b.stop
           /\ sh.playing => b.playing
           /\ (b.failed => ~b.playing) => (sh.failed => ~sh.playing)
<1>1. CASE b.stop
  BY <1>1 DEF FailedUnlessStopped
<1>2. CASE ~b.stop
  <2>1. PICK ready \in {"none", "ok", "error"} :
             ready = (IF b.ready = "none" THEN "error" ELSE b.ready)
    BY RuntimeFacts
  <2>2. LET sh == [b EXCEPT !.failed = TRUE, !.playing = FALSE, !.ready = ready] IN
        /\ sh \in Runtime /\ sh.pending = b.pending /\ sh.result = b.result
        /\ sh.ready = ready
        /\ sh.command = b.command /\ sh.stop = b.stop /\ sh.playing = FALSE
    BY DEF Runtime
  <2>3. FailedUnlessStopped(b) = [b EXCEPT !.failed = TRUE, !.playing = FALSE, !.ready = ready]
    BY <1>2, <2>1 DEF FailedUnlessStopped
  <2> QED
    BY <2>1, <2>2, <2>3
<1> QED
  BY <1>1, <1>2

\* The clock drops what it was about, and may say so to the seek it was about.
LEMMA DropKeeps ==
    ASSUME IInv, NEW s \in Session, Alive(s), NEW sh \in Runtime, NEW c \in Clock,
           shared' = [shared EXCEPT ![s] = sh], clock' = [clock EXCEPT ![s] = c],
           UNCHANGED <<registry, job, screen, history>>,
           sh.pending = shared[s].pending,
           \/ sh.result = shared[s].result
           \/ /\ clock[s].purpose = "seek" /\ sh.result.seq = clock[s].seek.seq
              /\ sh.result.answer # "applied",
           sh.ready = "ok" => shared[s].ready = "ok",
           sh.command = shared[s].command, sh.stop = shared[s].stop,
           sh.playing => shared[s].playing, sh.failed => ~sh.playing,
           c.purpose = "first", c.at = "done" \/ (c.at = "reset" /\ clock[s].at # "after")
    PROVE  IInv'
<1>1. Walked(c)
  BY DEF Walked
<1>2. Told(s, sh, c)
  <2>1. sh.result.seq \in 0..seeks
    BY Known, ClockFacts DEF Told
  <2> QED
    BY <2>1, Known DEF Told
<1>3. Overran(sh, c, overrun[s])
  BY Known DEF Overran, Alive
<1>4. \A n \in Nat : Within(shared[s], clock[s], n) => Within(sh, c, n)
  BY DEF Within
<1> QED
  BY <1>1, <1>2, <1>3, <1>4, TickKeeps

LEMMA OutOfReachKeeps ==
    ASSUME IInv, NEW s \in Session, OutOfReach(s)
    PROVE  IInv'
<1>1. PICK k \in Clock : k = clock[s]
  BY Known
<1>2. PICK b \in Runtime : b = shared[s]
  BY Known
<1>3. /\ k.at = "walk" /\ Alive(s) /\ UNCHANGED <<registry, job, screen, history>>
      /\ b.failed => ~b.playing
  BY <1>1, <1>2, Known DEF OutOfReach, Walking, Ticks, Alive
<1>4. CASE k.purpose = "seek"
  <2>1. PICK sh : sh = Completed(b, k.seek.seq, "refused")
    OBVIOUS
  <2>2. /\ sh \in Runtime /\ sh.pending = b.pending
        /\ sh.result = b.result \/ (sh.result.seq = k.seek.seq /\ sh.result.answer = "refused")
        /\ sh.ready = b.ready /\ sh.command = b.command /\ sh.stop = b.stop
        /\ sh.failed = b.failed /\ sh.playing = b.playing
    <3>1. PICK n \in Nat : n = k.seek.seq
      BY ClockFacts
    <3>2. sh = Completed(b, n, "refused")
      BY <2>1, <3>1
    <3> QED
      BY <3>1, <3>2, CompletedFacts
  <2>3. PICK n \in Clock : n = NoClock /\ n.purpose = "first"
    BY NoClocks
  <2>4. PICK c : c = [n EXCEPT !.at = "reset"]
    OBVIOUS
  <2>5. c \in Clock /\ c.at = "reset" /\ c.purpose = "first"
    BY <2>3, <2>4 DEF Clock
  <2>6. clock' = [clock EXCEPT ![s] = c] /\ shared' = [shared EXCEPT ![s] = sh]
    BY <1>1, <1>2, <1>4, <2>1, <2>3, <2>4 DEF OutOfReach, Turns
  <2> QED
    BY <1>1, <1>2, <1>3, <1>4, <2>2, <2>5, <2>6, DropKeeps
<1>5. CASE k.purpose # "seek"
  <2>1. PICK sh : sh = FailedUnlessStopped(b)
    OBVIOUS
  <2>2. /\ sh \in Runtime /\ sh.pending = b.pending /\ sh.result = b.result
        /\ sh.ready = "ok" => b.ready = "ok"
        /\ sh.command = b.command /\ sh.stop = b.stop
        /\ sh.playing => b.playing
        /\ sh.failed => ~sh.playing
    BY <1>3, <2>1, FailedFacts
  <2>3. PICK c \in Clock : c = Ended /\ c.at = "done" /\ c.purpose = "first"
    BY NoClocks
  <2>4. clock' = [clock EXCEPT ![s] = c] /\ shared' = [shared EXCEPT ![s] = sh]
    BY <1>1, <1>2, <1>5, <2>1, <2>3 DEF OutOfReach, Turns
  <2> QED
    BY <1>2, <1>3, <2>2, <2>3, <2>4, DropKeeps
<1> QED
  BY <1>4, <1>5

\* A clock that ends in the middle of a seek answers it as failed.
LEMMA FatalFacts ==
    ASSUME NEW k \in Clock, NEW b \in Runtime
    PROVE  LET t == IF k.purpose = "seek" THEN Completed(b, k.seek.seq, "fatal") ELSE b IN
           /\ t \in Runtime /\ t.pending = b.pending
           /\ \/ t.result = b.result
              \/ k.purpose = "seek" /\ t.result.seq = k.seek.seq /\ t.result.answer = "fatal"
           /\ t.ready = b.ready /\ t.command = b.command /\ t.stop = b.stop
           /\ t.failed = b.failed /\ t.playing = b.playing
<1>1. PICK n \in Nat : n = k.seek.seq
  BY ClockFacts
<1>2. CASE k.purpose = "seek"
  <2>1. PICK t : t = Completed(b, n, "fatal")
    OBVIOUS
  <2>2. /\ t \in Runtime /\ t.pending = b.pending
        /\ t.result = b.result \/ (t.result.seq = n /\ t.result.answer = "fatal")
        /\ t.ready = b.ready /\ t.command = b.command /\ t.stop = b.stop
        /\ t.failed = b.failed /\ t.playing = b.playing
    BY <1>1, <2>1, CompletedFacts, ZenonT(40)
  <2> QED
    BY <1>1, <1>2, <2>1, <2>2
<1>3. CASE k.purpose # "seek"
  BY <1>3
<1> QED
  BY <1>2, <1>3

LEMMA EndsKeeps ==
    ASSUME IInv, NEW s \in Session, Alive(s), Turns(s, Ended),
           shared' = IF clock[s].purpose = "seek"
                     THEN [shared EXCEPT ![s] = Completed(@, clock[s].seek.seq, "fatal")]
                     ELSE shared,
           UNCHANGED <<registry, job, screen, history>>
    PROVE  IInv'
<1>1. PICK k \in Clock : k = clock[s]
  BY Known
<1>2. PICK b \in Runtime : b = shared[s]
  BY Known
<1>3. PICK c \in Clock : c = Ended /\ c.at = "done" /\ c.purpose = "first"
  BY NoClocks
<1>4. PICK sh : sh = IF k.purpose = "seek" THEN Completed(b, k.seek.seq, "fatal") ELSE b
  OBVIOUS
<1>5. /\ sh \in Runtime /\ sh.pending = b.pending
      /\ \/ sh.result = b.result
         \/ k.purpose = "seek" /\ sh.result.seq = k.seek.seq /\ sh.result.answer = "fatal"
      /\ sh.ready = b.ready /\ sh.command = b.command /\ sh.stop = b.stop
      /\ sh.failed = b.failed /\ sh.playing = b.playing
  BY <1>4, FatalFacts
<1>6. clock' = [clock EXCEPT ![s] = c] /\ shared' = [shared EXCEPT ![s] = sh]
  BY <1>1, <1>2, <1>3, <1>4, Known DEF Turns
<1>7. shared[s].failed => ~shared[s].playing
  BY Known
<1> QED
  BY <1>1, <1>2, <1>3, <1>5, <1>6, <1>7, DropKeeps, ZenonT(40)

LEMMA SkipKeeps ==
    ASSUME IInv, NEW s \in Session, Skip(s)
    PROVE  IInv'
BY EndsKeeps DEF Skip, Ticks, Alive

LEMMA BreaksKeeps ==
    ASSUME IInv, NEW s \in Session, Breaks(s)
    PROVE  IInv'
<1>1. PICK k \in Clock : k = clock[s]
  BY Known
<1>2. PICK b \in Runtime : b = shared[s]
  BY Known
<1>3. Alive(s) /\ UNCHANGED <<registry, job, screen, history>> /\ (b.failed => ~b.playing)
  BY <1>2, Known DEF Breaks, Dies, Alive
<1>4. PICK m : m = IF k.purpose = "seek" THEN Completed(b, k.seek.seq, "fatal") ELSE b
  OBVIOUS
<1>5. /\ m \in Runtime /\ m.pending = b.pending
      /\ \/ m.result = b.result
         \/ k.purpose = "seek" /\ m.result.seq = k.seek.seq /\ m.result.answer = "fatal"
      /\ m.ready = b.ready /\ m.command = b.command /\ m.stop = b.stop
      /\ m.failed = b.failed /\ m.playing = b.playing
  BY <1>4, FatalFacts
<1>6. PICK sh : sh = FailedUnlessStopped(m)
  OBVIOUS
<1>7. /\ sh \in Runtime /\ sh.pending = m.pending /\ sh.result = m.result
      /\ sh.ready = "ok" => m.ready = "ok"
      /\ sh.command = m.command /\ sh.stop = m.stop
      /\ sh.playing => m.playing
      /\ sh.failed => ~sh.playing
  BY <1>3, <1>5, <1>6, FailedFacts
<1>8. PICK c \in Clock : c = Ended /\ c.at = "done" /\ c.purpose = "first"
  BY NoClocks
<1>9. clock' = [clock EXCEPT ![s] = c] /\ shared' = [shared EXCEPT ![s] = sh]
  BY <1>1, <1>2, <1>4, <1>6, <1>8 DEF Breaks, Dies, Turns
<1> QED
  BY <1>1, <1>2, <1>3, <1>5, <1>7, <1>8, <1>9, DropKeeps, ZenonT(40)

LEMMA ResetKeeps ==
    ASSUME IInv, NEW s \in Session, Reset(s)
    PROVE  IInv'
<1>1. /\ clock[s].at = "reset" /\ Alive(s) /\ UNCHANGED <<registry, job, screen, history>>
  BY DEF Reset, Ticks, Alive
<1>2. PICK b \in Runtime : b = shared[s]
  BY Known
<1>3. PICK f \in Frames : f = 1
  BY Content DEF Frames
<1>4. PICK c : c = [NoClock EXCEPT !.at = "wait", !.frame = f]
  OBVIOUS
<1>5. c \in Clock /\ c.at = "wait" /\ c.frame = f /\ c.purpose = "first"
  BY <1>4, Waits
<1>6. PICK sh \in Runtime :
           /\ sh = [b EXCEPT !.position = f]
           /\ sh.pending = b.pending /\ sh.result = b.result
           /\ sh.ready = b.ready /\ sh.command = b.command /\ sh.stop = b.stop
           /\ sh.failed = b.failed /\ sh.playing = b.playing
  BY Published
<1>7. clock' = [clock EXCEPT ![s] = c] /\ shared' = [shared EXCEPT ![s] = sh]
  BY <1>2, <1>3, <1>4, <1>6 DEF Reset, Turns, Publish
<1>8. Walked(c) /\ Told(s, sh, c)
  BY <1>2, <1>5, <1>6, Known DEF Walked, Told
<1>9. Overran(sh, c, overrun[s])
  BY <1>1, <1>2, <1>5, <1>6, Known DEF Overran
<1>10. \A n \in Nat : Within(shared[s], clock[s], n) => Within(sh, c, n)
  BY <1>2, <1>5, <1>6 DEF Within
<1> QED
  BY <1>1, <1>2, <1>5, <1>6, <1>7, <1>8, <1>9, <1>10, Known, TickKeeps

LEMMA ShowKeeps ==
    ASSUME IInv, NEW s \in Session, Show(s)
    PROVE  IInv'
<1>1. PICK k \in Clock : k = clock[s]
  BY Known
<1>2. PICK b \in Runtime : b = shared[s]
  BY Known
<1> DEFINE frozen == k.purpose \in {"pull", "wrap"} /\ (held \/ ~b.playing)
<1>3. /\ k.at = "show" /\ Alive(s)
      /\ UNCHANGED <<registered, lifecycle, held, seeks, shared, job>>
      /\ screen' = [session |-> s, frame |-> k.frame]
      /\ drawn' = drawn \cup {s}
      /\ landed' = IF k.purpose = "seek" /\ Near(k.frame, k.seek.target)
                   THEN landed \cup {k.seek.seq} ELSE landed
      /\ overrun' = [overrun EXCEPT ![s] =
             [stopped |-> IF b.stop THEN @.stopped + 1 ELSE @.stopped,
              frozen  |-> IF frozen THEN @.frozen + 1 ELSE @.frozen]]
  BY <1>1, <1>2 DEF Show, Ticks, Alive, registry
<1>4. /\ k.frame \in Frames
      /\ k.purpose = "seek" => Near(k.frame, k.seek.target) /\ k.seek.seq \in 1..seeks
      /\ overrun[s].stopped = 0
      /\ overrun[s].frozen = 0 \/ (overrun[s].frozen = 1 /\ ~frozen /\ (held \/ ~b.playing))
  BY <1>1, <1>2, <1>3, Known DEF Walked, Told, Overran
<1>5. PICK c : c = [k EXCEPT !.at = "after"]
  OBVIOUS
<1>6. /\ c \in Clock /\ c.at = "after" /\ c.purpose = k.purpose /\ c.frame = k.frame
      /\ c.seek = k.seek
  BY <1>5 DEF Clock
<1>7. clock' = [clock EXCEPT ![s] = c] /\ shared' = [shared EXCEPT ![s] = b]
  BY <1>1, <1>2, <1>3, <1>5, Known DEF Show, Step, Turns
<1>8. PICK x \in Nat : x = IF b.stop THEN 1 ELSE 0
  OBVIOUS
<1>9. PICK y \in Nat : y = IF frozen THEN 1 ELSE overrun[s].frozen
  BY <1>4
<1> HIDE DEF frozen
<1>10. PICK o : o = [stopped |-> x, frozen |-> y]
  OBVIOUS
<1>11. overrun' = [overrun EXCEPT ![s] = o]
  <2>1. x = (IF b.stop THEN overrun[s].stopped + 1 ELSE overrun[s].stopped)
    BY <1>4, <1>8
  <2>2. y = (IF frozen THEN overrun[s].frozen + 1 ELSE overrun[s].frozen)
    BY <1>4, <1>9
  <2> QED
    BY <1>3, <1>10, <2>1, <2>2
<1>12. /\ overrun' \in [Session -> [stopped : Nat, frozen : Nat]] /\ overrun'[s] = o
       /\ \A t \in Session \ {s} : overrun'[t] = overrun[t]
  BY <1>10, <1>11, Known, Put DEF TypeOK
<1>13. Overran(b, c, overrun'[s])
  <2>1. o.stopped = x /\ o.frozen = y
    BY <1>10
  <2> QED
    BY <1>4, <1>6, <1>8, <1>9, <1>12, <2>1 DEF Overran, frozen
<1>14. /\ screen' \in [session : Session \cup {Nobody}, frame : Frames]
       /\ drawn \subseteq drawn' /\ drawn' \subseteq Session
       /\ landed \subseteq landed' /\ landed' \subseteq 1..seeks
  BY <1>3, <1>4, Known DEF TypeOK
<1>15. Walked(c)
  BY <1>4, <1>6 DEF Walked
<1>16. Told(s, b, c)'
  BY <1>1, <1>2, <1>3, <1>4, <1>6, <1>14, Known DEF Told
<1>17. \A n \in Nat : Within(shared[s], clock[s], n) => Within(b, c, n)
  BY <1>1, <1>2, <1>6 DEF Within
<1> QED
  BY <1>2, <1>3, <1>6, <1>7, <1>12, <1>13, <1>14, <1>15, <1>16, <1>17, Known, ClockKeeps

LEMMA AfterKeeps ==
    ASSUME IInv, NEW s \in Session, After(s)
    PROVE  IInv'
<1>1. PICK k \in Clock : k = clock[s]
  BY Known
<1>2. PICK b \in Runtime : b = shared[s]
  BY Known
<1>3. k.at = "after" /\ Alive(s) /\ UNCHANGED <<registry, job, screen, history>>
  BY <1>1 DEF After, Ticks, Alive
<1>4. CASE b.stop
  BY <1>2, <1>3, <1>4, EndsKeeps DEF After
<1>5. CASE ~b.stop
  <2>1. k.frame \in Frames /\ s \in drawn /\ (k.purpose = "seek" => k.seek.seq \in landed)
    BY <1>1, <1>3, Known DEF Walked, Told
  <2>2. PICK f \in Frames : f = k.frame
    BY <2>1
  <2>3. PICK c : c = [NoClock EXCEPT !.at = "wait", !.frame = f]
    OBVIOUS
  <2>4. c \in Clock /\ c.at = "wait" /\ c.frame = f /\ c.purpose = "first"
    BY <2>3, Waits
  <2>5. PICK m : m = CASE k.purpose = "first" ->
                              [b EXCEPT !.ready = IF @ = "none" THEN "ok" ELSE @]
                       [] k.purpose = "seek" -> Completed(b, k.seek.seq, "applied")
                       [] OTHER -> b
    OBVIOUS
  <2>6. /\ m \in Runtime /\ m.pending = b.pending
        /\ \/ m.result = b.result
           \/ k.purpose = "seek" /\ m.result.seq = k.seek.seq /\ m.result.answer = "applied"
        /\ m.command = b.command /\ m.stop = b.stop
        /\ m.failed = b.failed /\ m.playing = b.playing
    <3>1. CASE k.purpose = "first"
      <4>1. PICK ready \in {"none", "ok", "error"} :
                 ready = IF b.ready = "none" THEN "ok" ELSE b.ready
        BY RuntimeFacts
      <4>2. m = [b EXCEPT !.ready = ready]
        BY <2>5, <3>1, <4>1
      <4> QED
        BY <4>2 DEF Runtime
    <3>2. CASE k.purpose = "seek"
      <4>1. PICK n \in Nat : n = k.seek.seq
        BY ClockFacts
      <4>2. m = Completed(b, n, "applied")
        BY <2>5, <3>2, <4>1
      <4> QED
        BY <3>2, <4>1, <4>2, CompletedFacts, ZenonT(40)
    <3>3. CASE k.purpose \notin {"first", "seek"}
      BY <2>5, <3>3
    <3> QED
      BY <3>1, <3>2, <3>3
  <2>7. PICK sh \in Runtime :
             /\ sh = [m EXCEPT !.position = f]
             /\ sh.pending = m.pending /\ sh.result = m.result
             /\ sh.ready = m.ready /\ sh.command = m.command /\ sh.stop = m.stop
             /\ sh.failed = m.failed /\ sh.playing = m.playing
    BY <2>6, Published
  <2>8. clock' = [clock EXCEPT ![s] = c] /\ shared' = [shared EXCEPT ![s] = sh]
    BY <1>1, <1>2, <1>5, <2>2, <2>3, <2>5, <2>7 DEF After, Turns
  <2>9. Walked(c)
    BY <2>4 DEF Walked
  <2>10. Told(s, sh, c)
    <3>1. sh.result.seq \in 0..seeks /\ (sh.result.answer = "applied" => sh.result.seq \in landed)
      BY <1>1, <1>2, <2>1, <2>6, <2>7, Known, ClockFacts DEF Told
    <3> QED
      BY <1>2, <2>1, <2>4, <2>6, <2>7, <3>1, Known DEF Told
  <2>11. Overran(sh, c, overrun[s])
    BY <1>2, <1>5, <2>4, <2>6, <2>7, Known DEF Overran
  <2>12. \A n \in Nat : Within(shared[s], clock[s], n) => Within(sh, c, n)
    BY <1>1, <1>2, <2>4, <2>6, <2>7 DEF Within
  <2>13. sh.failed => ~sh.playing
    BY <1>2, <2>6, <2>7, Known
  <2> QED
    BY <1>2, <1>3, <2>4, <2>6, <2>7, <2>8, <2>9, <2>10, <2>11, <2>12, <2>13, TickKeeps
<1> QED
  BY <1>4, <1>5

-----------------------------------------------------------------------------
\* A step of a request, which may touch one session.

LEMMA GoesFacts ==
    ASSUME TypeOK, NEW r \in Request, NEW j \in Job, Becomes(r, j)
    PROVE  /\ job' \in [Request -> Job] /\ job'[r] = j
           /\ \A q \in Request \ {r} : job'[q] = job[q]
BY Put DEF TypeOK, Becomes

LEMMA Moved ==
    ASSUME NEW i \in Job,
           NEW at \in {"new", "acquire", "join", "spawn", "await", "lock", "landing",
                       "snapshot", "ok", "failed"}
    PROVE  LET j == [i EXCEPT !.at = at] IN
           /\ j \in Job /\ j.at = at /\ j.op = i.op /\ j.session = i.session
           /\ j.seek = i.seek /\ j.range = i.range
BY DEF Job

\* What is known of a request.
LEMMA Asked ==
    ASSUME IInv, NEW r \in Request
    PROVE  TypeOK /\ job[r] \in Job /\ Rightly(r, job[r]) /\ Locks(r, job[r])
BY DEF IInv, TypeOK, Locks, At

LEMMA RequestKeeps ==
    ASSUME IInv, NEW r \in Request, NEW j \in Job, Becomes(r, j),
           NEW s \in Session, NEW sh \in Runtime, NEW c \in Clock,
           shared' = [shared EXCEPT ![s] = sh], clock' = [clock EXCEPT ![s] = c],
           UNCHANGED <<held, screen, drawn, landed>>,
           registered' \in Session \cup {Nobody}, lifecycle' \in Request \cup {Nobody},
           lifecycle' # Nobody => registered' = Nobody,
           \A q \in Request \ {r} : lifecycle' = q <=> lifecycle = q,
           seeks' \in Nat, seeks <= seeks',
           overrun' \in [Session -> [stopped : Nat, frozen : Nat]],
           \A t \in Session \ {s} : overrun'[t] = overrun[t],
           c.at \notin {"none", "done"} /\ ~sh.stop => registered' = s,
           \A t \in Session \ {s} : Alive(t) /\ ~shared[t].stop => registered' = t,
           s # r => (clock[s].at = "none" => c.at = "none"),
           Walked(c), Told(s, sh, c)', Overran(sh, c, overrun'[s]), sh.failed => ~sh.playing,
           Rightly(r, j)', Locks(r, j)',
           \A q \in Request \ {r} : sh.command = q <=> shared[s].command = q,
           \A q \in Request \ {r} : job[q].at = "landing" /\ job[q].session = s =>
               LET n == job[q].seek.seq IN Within(shared[s], clock[s], n) => Within(sh, c, n)
    PROVE  IInv'
<1>1. TypeOK
  BY DEF IInv
<1>2. /\ shared' \in [Session -> Runtime] /\ shared'[s] = sh
      /\ clock' \in [Session -> Clock] /\ clock'[s] = c
      /\ \A t \in Session \ {s} : shared'[t] = shared[t] /\ clock'[t] = clock[t]
  BY <1>1, Put DEF TypeOK
<1>3. /\ job' \in [Request -> Job] /\ job'[r] = j
      /\ \A q \in Request \ {r} : job'[q] = job[q]
  BY <1>1, GoesFacts
<1>4. ASSUME NEW q \in Request
      PROVE  Locks(q, job[q])'
  <2>1. CASE q = r
    BY <1>3, <2>1 DEF Locks
  <2>2. CASE q # r
    <3>1. Locks(q, job[q]) /\ q \in Request \ {r}
      BY <2>2, Asked
    <3>2. \A t \in Session : shared'[t].command = q <=> shared[t].command = q
      BY <1>2, <3>1
    <3> QED
      BY <1>3, <3>1, <3>2 DEF Locks
  <2> QED
    BY <2>1, <2>2
<1>5. \A t \in Session : shared'[t].failed => ~shared'[t].playing
  BY <1>1, <1>2 DEF TypeOK
<1>6. landed' \subseteq 1..seeks'
  BY <1>1 DEF TypeOK
<1>7. TypeOK'
  BY <1>1, <1>2, <1>3, <1>4, <1>5, <1>6 DEF TypeOK, Locks, At
<1>8. NoLeakedClock'
  BY <1>2 DEF NoLeakedClock, Alive
<1>9. SessionHolds(s)'
  <2>1. Walked(clock[s])'
    BY <1>2 DEF Walked
  <2>2. Told(s, shared[s], clock[s])'
    BY <1>2 DEF Told
  <2>3. Overran(shared[s], clock[s], overrun[s])'
    BY <1>2 DEF Overran
  <2> QED
    BY <2>1, <2>2, <2>3 DEF SessionHolds
<1>10. ASSUME NEW t \in Session \ {s}
       PROVE  SessionHolds(t)'
  BY <1>1, <1>2, SessionStays DEF IInv, TypeOK
<1>11. ASSUME NEW q \in Request
       PROVE  Rightly(q, job[q])'
  <2>1. CASE q = r
    BY <1>3, <2>1 DEF Rightly, Within
  <2>2. CASE q # r
    <3>1. q \in Request \ {r} /\ job'[q] = job[q] /\ Rightly(q, job[q])
      BY <1>3, <2>2, Asked
    <3>2. clock[q].at = "none" => clock'[q].at = "none"
      BY <1>2, <3>1, Names
    <3>3. job[q].at = "landing" =>
              LET t == job[q].session IN
              Within(shared[t], clock[t], job[q].seek.seq) =>
                  Within(shared'[t], clock'[t], job[q].seek.seq)
      BY <1>2, <3>1 DEF Rightly
    <3> QED
      BY <3>1, <3>2, <3>3, RequestStays
  <2> QED
    BY <2>1, <2>2
<1> QED
  BY <1>7, <1>8, <1>9, <1>10, <1>11 DEF IInv

\* It touches a session, and not the clocks.
LEMMA CommandKeeps ==
    ASSUME IInv, NEW r \in Request, NEW j \in Job, Becomes(r, j),
           NEW s \in Session, NEW sh \in Runtime, shared' = [shared EXCEPT ![s] = sh],
           UNCHANGED <<registered, lifecycle, held, clock, screen, drawn, landed>>,
           seeks' \in Nat, seeks <= seeks',
           overrun' \in [Session -> [stopped : Nat, frozen : Nat]],
           \A t \in Session \ {s} : overrun'[t] = overrun[t],
           sh.stop = shared[s].stop,
           Told(s, sh, clock[s])', Overran(sh, clock[s], overrun'[s]),
           sh.failed => ~sh.playing,
           Rightly(r, j)', Locks(r, j)',
           \A q \in Request \ {r} : sh.command = q <=> shared[s].command = q,
           \A q \in Request \ {r} : job[q].at = "landing" /\ job[q].session = s =>
               LET n == job[q].seek.seq IN
               Within(shared[s], clock[s], n) => Within(sh, clock[s], n)
    PROVE  IInv'
<1>1. PICK c \in Clock : c = clock[s]
  BY Known
<1>2. TypeOK /\ clock' = [clock EXCEPT ![s] = c]
  BY <1>1, Same DEF IInv, TypeOK
<1>3. /\ registered' \in Session \cup {Nobody} /\ lifecycle' \in Request \cup {Nobody}
      /\ lifecycle' # Nobody => registered' = Nobody
  BY <1>2 DEF TypeOK, IInv
<1>4. /\ c.at \notin {"none", "done"} /\ ~sh.stop => registered' = s
      /\ \A t \in Session \ {s} : Alive(t) /\ ~shared[t].stop => registered' = t
  BY <1>1 DEF IInv, NoLeakedClock, Alive
<1>5. Walked(c) /\ Told(s, sh, c)' /\ Overran(sh, c, overrun'[s])
  BY <1>1, Known DEF Told
<1> QED
  BY <1>1, <1>2, <1>3, <1>4, <1>5, RequestKeeps

\* It touches no session.
LEMMA JobKeeps ==
    ASSUME IInv, NEW r \in Request, NEW j \in Job, Becomes(r, j),
           UNCHANGED <<registry, shared, clock, screen, history>>,
           Rightly(r, j), Locks(r, j)
    PROVE  IInv'
<1>1. /\ UNCHANGED <<registered, lifecycle, held, seeks, shared, clock, screen, drawn, landed>>
      /\ overrun' = overrun
  BY DEF registry, history
<1>2. PICK s \in Session : s = Boot
  BY Names
<1>3. PICK sh \in Runtime : sh = shared[s]
  BY Known
<1>4. /\ shared' = [shared EXCEPT ![s] = sh] /\ seeks' \in Nat /\ seeks <= seeks'
      /\ overrun' \in [Session -> [stopped : Nat, frozen : Nat]]
      /\ \A t \in Session \ {s} : overrun'[t] = overrun[t]
  BY <1>1, <1>3, Known DEF TypeOK
<1>5. Told(s, sh, clock[s])' /\ Overran(sh, clock[s], overrun'[s]) /\ (sh.failed => ~sh.playing)
  BY <1>1, <1>3, Known DEF Told
<1>6. Rightly(r, j)' /\ Locks(r, j)'
  BY <1>1 DEF Rightly, Locks, Within
<1> QED
  BY <1>1, <1>3, <1>4, <1>5, <1>6, CommandKeeps

-----------------------------------------------------------------------------
\* Requests are made.

LEMMA NewJobs ==
    ASSUME NEW op \in Op, NEW session \in Session \cup {Nobody}, NEW target \in Nat,
           NEW range \in Loops \cup {NoLoop}
    PROVE  /\ NewJob \in Job /\ NewJob.at = "new" /\ NewJob.op = "stop"
           /\ [op |-> op, at |-> "new", session |-> session,
               seek |-> [seq |-> 0, target |-> target], range |-> range] \in Job
BY NoClocks DEF NewJob, Job, Op, NoLoop, Seek, NoSeek

LEMMA AskKeeps ==
    ASSUME IInv, NEW r \in Request, NEW j \in Job, Ask(r, j),
           j.at \in {"acquire", "lock", "failed"},
           j.at = "acquire" => j.op \in {"start", "stop"},
           j.at = "lock" => j.op \notin {"start", "stop"} /\ j.session \in Session
    PROVE  IInv'
<1>1. /\ job[r].at = "new" /\ Becomes(r, j)
      /\ UNCHANGED <<registry, shared, clock, screen, history>>
  BY DEF Ask, At
<1>2. Rightly(r, j)
  BY <1>1, Asked DEF Rightly, Locks
<1>3. Locks(r, j)
  BY <1>1, Asked DEF Locks
<1> QED
  BY <1>1, <1>2, <1>3, JobKeeps

LEMMA AskStartKeeps ==
    ASSUME IInv, NEW r \in Request, AskStart(r) \/ AskStop(r)
    PROVE  IInv'
<1>1. PICK op \in {"start", "stop"} : Ask(r, [NewJob EXCEPT !.op = op, !.at = "acquire"])
  BY DEF AskStart, AskStop
<1>2. PICK i \in Job : i = NewJob
  BY NewJobs, Names, NoClocks DEF Op, NoLoop
<1>3. PICK j : j = [i EXCEPT !.op = op, !.at = "acquire"]
  OBVIOUS
<1>4. j \in Job /\ j.op = op /\ j.at = "acquire"
  BY <1>3 DEF Job, Op
<1> QED
  BY <1>1, <1>2, <1>3, <1>4, AskKeeps

LEMMA AskCommandKeeps ==
    ASSUME IInv, NEW r \in Request, NEW op \in Op \ {"start", "stop"}, NEW target \in Nat,
           NEW range \in Loops \cup {NoLoop}, AskCommand(r, op, target, range)
    PROVE  IInv'
<1>1. PICK i \in Job : i = NewJob
  BY NewJobs, Names, NoClocks DEF Op, NoLoop
<1>2. PICK s \in Session \cup {Nobody} : s = registered
  BY DEF IInv, TypeOK
<1>3. PICK at \in {"failed", "lock"} : at = IF s = Nobody THEN "failed" ELSE "lock"
  OBVIOUS
<1>4. PICK seek \in Seek : seek = [seq |-> 0, target |-> target]
  BY DEF Seek
<1>5. PICK j : j = [i EXCEPT !.op = op, !.session = s, !.at = at, !.seek = seek, !.range = range]
  OBVIOUS
<1>6. j \in Job /\ j.op = op /\ j.at = at /\ j.session = s
  BY <1>5 DEF Job
<1>7. Ask(r, j)
  BY <1>1, <1>2, <1>3, <1>4, <1>5 DEF AskCommand
<1> QED
  BY <1>3, <1>6, <1>7, AskKeeps

LEMMA HoldKeeps ==
    ASSUME IInv, NEW r \in Request, Hold(r)
    PROVE  IInv'
<1>1. /\ job[r].at = "new" /\ held' = ~held
      /\ Becomes(r, [NewJob EXCEPT !.op = "hold", !.at = "ok"])
      /\ overrun' = [s \in Session |-> [overrun[s] EXCEPT !.frozen = 0]]
      /\ UNCHANGED <<registered, lifecycle, seeks, shared, clock, screen, drawn, landed>>
  BY DEF Hold, At
<1>2. TypeOK
  BY DEF IInv
<1>3. PICK i \in Job : i = NewJob
  BY NewJobs, Names, NoClocks DEF Op, NoLoop
<1>4. PICK j : j = [i EXCEPT !.op = "hold", !.at = "ok"]
  OBVIOUS
<1>5. j \in Job /\ j.op = "hold" /\ j.at = "ok"
  BY <1>4 DEF Job, Op
<1>6. /\ job' \in [Request -> Job] /\ job'[r] = j
      /\ \A q \in Request \ {r} : job'[q] = job[q]
  BY <1>1, <1>2, <1>3, <1>4, <1>5, GoesFacts
<1>7. \A o \in [stopped : Nat, frozen : Nat] :
          /\ [o EXCEPT !.frozen = 0] \in [stopped : Nat, frozen : Nat]
          /\ [o EXCEPT !.frozen = 0].stopped = o.stopped
          /\ [o EXCEPT !.frozen = 0].frozen = 0
  OBVIOUS
<1>8. /\ overrun' \in [Session -> [stopped : Nat, frozen : Nat]]
      /\ \A s \in Session : overrun'[s].stopped = overrun[s].stopped /\ overrun'[s].frozen = 0
  BY <1>1, <1>2, <1>7 DEF TypeOK
<1>9. ASSUME NEW q \in Request
      PROVE  Locks(q, job[q])' /\ Rightly(q, job[q])'
  <2>1. Locks(q, job[q]) /\ Rightly(q, job[q])
    BY Asked
  <2>2. CASE q = r
    <3>1. Locks(q, job[q])'
      BY <1>1, <1>5, <1>6, <2>1, <2>2 DEF Locks
    <3>2. Rightly(q, job[q])'
      BY <1>1, <1>5, <1>6, <2>1, <2>2, Asked DEF Rightly, Locks
    <3> QED
      BY <3>1, <3>2
  <2>3. CASE q # r
    BY <1>1, <1>6, <2>1, <2>3 DEF Locks, Rightly, Within
  <2> QED
    BY <2>2, <2>3
<1>10. TypeOK'
  BY <1>1, <1>2, <1>6, <1>8, <1>9 DEF TypeOK, Locks, At
<1>11. ASSUME NEW s \in Session
       PROVE  SessionHolds(s)'
  <2>1. Walked(clock[s])'
    BY <1>1, Known DEF Walked
  <2>2. Told(s, shared[s], clock[s])'
    BY <1>1, Known DEF Told
  <2>3. Overran(shared[s], clock[s], overrun[s])'
    BY <1>1, <1>8, Known DEF Overran
  <2> QED
    BY <2>1, <2>2, <2>3 DEF SessionHolds
<1> QED
  BY <1>1, <1>9, <1>10, <1>11 DEF IInv, NoLeakedClock, Alive

-----------------------------------------------------------------------------
\* Starts and stops.

LEMMA StoppedFacts ==
    ASSUME NEW b \in Runtime
    PROVE  LET sh == Stopped(b) IN
           /\ sh \in Runtime /\ sh.stop /\ ~sh.playing /\ sh.pending = NoSeek
           /\ sh.result = b.result /\ sh.command = b.command
           /\ sh.ready = "ok" => b.ready = "ok"
<1>1. PICK ready \in {"none", "ok", "error"} :
           ready = (IF b.ready = "none" THEN "error" ELSE b.ready)
  BY RuntimeFacts
<1>2. LET sh == [b EXCEPT !.stop = TRUE, !.playing = FALSE, !.pending = NoSeek,
                          !.ready = ready] IN
      /\ sh \in Runtime /\ sh.stop /\ ~sh.playing /\ sh.pending = NoSeek
      /\ sh.result = b.result /\ sh.command = b.command /\ sh.ready = ready
  BY NoClocks DEF Runtime
<1>3. Stopped(b) = [b EXCEPT !.stop = TRUE, !.playing = FALSE, !.pending = NoSeek,
                             !.ready = ready]
  BY <1>1 DEF Stopped
<1> QED
  BY <1>1, <1>2, <1>3

\* While the registry is empty no clock runs on.
LEMMA NobodyRuns ==
    ASSUME IInv, registered = Nobody, NEW t \in Session, Alive(t)
    PROVE  shared[t].stop
<1>1. shared[t].stop \in BOOLEAN
  BY Known, RuntimeFacts
<1> QED
  BY <1>1, Names DEF IInv, NoLeakedClock

\* The lifecycle lock changes hands while the registry is empty.
LEMMA LockKeeps ==
    ASSUME IInv, NEW r \in Request, NEW j \in Job, Becomes(r, j),
           UNCHANGED <<held, seeks, shared, clock, screen, drawn, landed, overrun>>,
           registered = Nobody, registered' = Nobody, lifecycle' \in Request \cup {Nobody},
           \A q \in Request \ {r} : lifecycle' = q <=> lifecycle = q,
           Rightly(r, j)', Locks(r, j)'
    PROVE  IInv'
<1>1. PICK s \in Session : s = Boot
  BY Names
<1>2. PICK sh \in Runtime : sh = shared[s]
  BY Known
<1>3. PICK c \in Clock : c = clock[s]
  BY Known
<1>4. shared' = [shared EXCEPT ![s] = sh]
  BY <1>2, Same, Known DEF TypeOK
<1>5. clock' = [clock EXCEPT ![s] = c]
  BY <1>3, Same, Known DEF TypeOK
<1>6. /\ seeks' \in Nat /\ seeks <= seeks' /\ registered' \in Session \cup {Nobody}
      /\ overrun' \in [Session -> [stopped : Nat, frozen : Nat]]
      /\ \A t \in Session : overrun'[t] = overrun[t]
  BY DEF IInv, TypeOK
<1>7. Walked(c) /\ Told(s, sh, c)' /\ Overran(sh, c, overrun'[s]) /\ (sh.failed => ~sh.playing)
  BY <1>2, <1>3, Known DEF Told
<1>8. \A t \in Session \ {s} : Alive(t) /\ ~shared[t].stop => registered' = t
  BY NobodyRuns
<1>9. c.at \notin {"none", "done"} /\ ~sh.stop => registered' = s
  BY <1>2, <1>3, NobodyRuns DEF Alive
<1>10. s # r => (clock[s].at = "none" => c.at = "none")
  BY <1>3
<1>11. \A q \in Request \ {r} : sh.command = q <=> shared[s].command = q
  BY <1>2
<1>12. \A q \in Request \ {r} : job[q].at = "landing" /\ job[q].session = s =>
           LET n == job[q].seek.seq IN Within(shared[s], clock[s], n) => Within(sh, c, n)
  BY <1>2, <1>3
<1> QED
  BY <1>4, <1>5, <1>6, <1>7, <1>8, <1>9, <1>10, <1>11, <1>12, RequestKeeps

LEMMA AcquireKeeps ==
    ASSUME IInv, NEW r \in Request, Acquire(r)
    PROVE  IInv'
<1>1. /\ job[r].at = "acquire" /\ lifecycle = Nobody /\ lifecycle' = r /\ registered' = Nobody
      /\ UNCHANGED <<held, seeks, clock, screen, drawn, landed, overrun>>
  BY DEF Acquire, At, history
<1>2. PICK i \in Job : i = job[r]
  BY Asked
<1>3. /\ i.op \in {"start", "stop"} /\ clock[r].at = "none"
      /\ \A s \in Session : shared[s].command # r
  BY <1>1, <1>2, Asked DEF Rightly, Locks
<1>4. \A q \in Request \ {r} : lifecycle' = q <=> lifecycle = q
  BY <1>1, Names
<1>5. /\ seeks' \in Nat /\ seeks <= seeks'
      /\ overrun' \in [Session -> [stopped : Nat, frozen : Nat]]
      /\ \A s \in Session : overrun'[s] = overrun[s]
      /\ registered' \in Session \cup {Nobody} /\ lifecycle' \in Request \cup {Nobody}
  BY <1>1 DEF IInv, TypeOK
<1>6. CASE registered = Nobody
  <2>1. PICK j : j = [i EXCEPT !.at = "spawn"]
    OBVIOUS
  <2>2. j \in Job /\ j.at = "spawn" /\ j.op = i.op
    BY <2>1, Moved
  <2>3. Becomes(r, j) /\ shared' = shared
    BY <1>2, <1>6, <2>1 DEF Acquire, Goes
  <2>4. Rightly(r, j)' /\ Locks(r, j)'
    BY <1>1, <1>3, <2>2, <2>3 DEF Rightly, Locks
  <2> QED
    BY <1>1, <1>4, <1>5, <1>6, <2>2, <2>3, <2>4, LockKeeps
<1>7. CASE registered # Nobody
  <2>1. PICK s \in Session : s = registered
    BY <1>7 DEF IInv, TypeOK
  <2>2. PICK b \in Runtime : b = shared[s]
    BY Known
  <2>3. PICK sh \in Runtime :
             /\ sh = Stopped(b) /\ sh.stop /\ ~sh.playing /\ sh.pending = NoSeek
             /\ sh.result = b.result /\ sh.command = b.command
             /\ sh.ready = "ok" => b.ready = "ok"
    BY StoppedFacts
  <2>4. PICK c \in Clock : c = clock[s]
    BY Known
  <2>5. PICK j : j = [i EXCEPT !.at = "join", !.session = s]
    OBVIOUS
  <2>6. j \in Job /\ j.at = "join" /\ j.op = i.op
    BY <2>5 DEF Job
  <2>7. Becomes(r, j) /\ shared' = [shared EXCEPT ![s] = sh]
    BY <1>2, <1>7, <2>1, <2>2, <2>3, <2>5 DEF Acquire, Replace, Stops
  <2>8. clock' = [clock EXCEPT ![s] = c]
    BY <1>1, <2>4, Same, Known DEF TypeOK
  <2>9. Walked(c) /\ Told(s, sh, c)'
    BY <1>1, <2>2, <2>3, <2>4, Known DEF Told
  <2>10. Overran(sh, c, overrun'[s])
    BY <1>1, <2>2, <2>3, <2>4, Known DEF Overran
  <2>11. \A t \in Session \ {s} : Alive(t) => shared[t].stop
    <3>1. ASSUME NEW t \in Session \ {s}, Alive(t), ~shared[t].stop
          PROVE  FALSE
      BY <2>1, <3>1 DEF IInv, NoLeakedClock
    <3> QED
      BY <3>1
  <2>12. shared'[s].command = shared[s].command /\ \A t \in Session \ {s} : shared'[t] = shared[t]
    BY <2>2, <2>3, <2>7, Put, Known DEF TypeOK
  <2>13. Rightly(r, j)' /\ Locks(r, j)'
    BY <1>1, <1>3, <2>6, <2>12 DEF Rightly, Locks
  <2>14. ASSUME NEW q \in Request
         PROVE  LET n == job[q].seek.seq IN Within(shared[s], clock[s], n) => Within(sh, c, n)
    <3>1. job[q].seek.seq \in Nat
      BY Asked, JobFacts
    <3> QED
      BY <2>2, <2>3, <2>4, <3>1, NoClocks DEF Within
  <2>15. \A q \in Request \ {r} : sh.command = q <=> shared[s].command = q
    BY <2>2, <2>3
  <2>16. s # r => (clock[s].at = "none" => c.at = "none")
    BY <2>4
  <2> QED
    BY <1>1, <1>4, <1>5, <2>3, <2>6, <2>7, <2>8, <2>9, <2>10, <2>11, <2>13, <2>14, <2>15, <2>16,
       RequestKeeps
<1> QED
  BY <1>6, <1>7

LEMMA JoinKeeps ==
    ASSUME IInv, NEW r \in Request, Join(r)
    PROVE  IInv'
<1>1. job[r].at = "join" /\ UNCHANGED <<registry, shared, clock, screen, history>>
  BY DEF Join, At
<1>2. PICK i \in Job : i = job[r]
  BY Asked
<1>3. /\ i.op \in {"start", "stop"} /\ (lifecycle = r => clock[r].at = "none")
      /\ \A s \in Session : shared[s].command # r
  BY <1>1, <1>2, Asked DEF Rightly, Locks
<1>4. CASE lifecycle = r
  <2>1. PICK j : j = [i EXCEPT !.at = "spawn"]
    OBVIOUS
  <2>2. j \in Job /\ j.at = "spawn" /\ j.op = i.op
    BY <2>1, Moved
  <2>3. Becomes(r, j)
    BY <1>2, <1>4, <2>1 DEF Join, Goes
  <2>4. Rightly(r, j) /\ Locks(r, j)
    BY <1>3, <1>4, <2>2 DEF Rightly, Locks
  <2> QED
    BY <1>1, <2>2, <2>3, <2>4, JobKeeps
<1>5. CASE lifecycle # r
  <2>1. PICK n \in Job : n = NewJob
    BY NewJobs, Names, NoClocks DEF Op, NoLoop
  <2>2. PICK j : j = [n EXCEPT !.op = i.op, !.at = "failed"]
    OBVIOUS
  <2>3. j \in Job /\ j.at = "failed"
    BY <1>3, <2>2 DEF Job, Op
  <2>4. Becomes(r, j)
    BY <1>2, <1>5, <2>1, <2>2 DEF Join
  <2>5. Rightly(r, j) /\ Locks(r, j)
    BY <1>3, <1>5, <2>3 DEF Rightly, Locks
  <2> QED
    BY <1>1, <2>3, <2>4, <2>5, JobKeeps
<1> QED
  BY <1>4, <1>5

LEMMA SpawnKeeps ==
    ASSUME IInv, NEW r \in Request, Spawn(r)
    PROVE  IInv'
<1>1. /\ job[r].at = "spawn" /\ lifecycle' = Nobody
      /\ UNCHANGED <<held, seeks, shared, screen, drawn, landed, overrun>>
  BY DEF Spawn, At, history
<1>2. PICK i \in Job : i = job[r]
  BY Asked
<1>3. /\ i.op \in {"start", "stop"} /\ clock[r].at = "none" /\ lifecycle = r
      /\ \A s \in Session : shared[s].command # r
  BY <1>1, <1>2, Asked DEF Rightly, Locks
<1>4. registered = Nobody /\ r # Nobody
  BY <1>3, Names DEF IInv
<1>5. \A q \in Request \ {r} : lifecycle' = q <=> lifecycle = q
  BY <1>1, <1>3, Names
<1>6. /\ seeks' \in Nat /\ seeks <= seeks'
      /\ overrun' \in [Session -> [stopped : Nat, frozen : Nat]]
      /\ \A s \in Session : overrun'[s] = overrun[s]
      /\ lifecycle' \in Request \cup {Nobody}
  BY <1>1 DEF IInv, TypeOK
<1>7. CASE /\ i.op = "start" /\ registered' = r
           /\ clock' = [clock EXCEPT ![r] = [NoClock EXCEPT !.at = "open"]]
           /\ Becomes(r, [i EXCEPT !.at = "await", !.session = r])
  <2>1. PICK s \in Session : s = r
    BY Names
  <2>2. PICK sh \in Runtime : sh = shared[s]
    BY Known
  <2>3. PICK n \in Clock : n = NoClock /\ n.purpose = "first"
    BY NoClocks
  <2>4. PICK c : c = [n EXCEPT !.at = "open"]
    OBVIOUS
  <2>5. c \in Clock /\ c.at = "open" /\ c.purpose = "first"
    BY <2>3, <2>4 DEF Clock
  <2>6. PICK j : j = [i EXCEPT !.at = "await", !.session = r]
    OBVIOUS
  <2>7. j \in Job /\ j.at = "await" /\ j.op = i.op
    BY <2>1, <2>6 DEF Job
  <2>8. Becomes(r, j) /\ shared' = [shared EXCEPT ![s] = sh] /\ clock' = [clock EXCEPT ![s] = c]
    BY <1>1, <1>7, <2>1, <2>2, <2>3, <2>4, <2>6, Same, Known DEF TypeOK
  <2>9. Walked(c) /\ Told(s, sh, c)'
    BY <1>1, <2>2, <2>5, Known DEF Walked, Told
  <2>10. Overran(sh, c, overrun'[s])
    BY <1>1, <1>3, <2>1, <2>2, <2>5, Known DEF Overran
  <2>11. sh.failed => ~sh.playing
    BY <2>2, Known
  <2>12. registered' \in Session \cup {Nobody} /\ (lifecycle' # Nobody => registered' = Nobody)
    BY <1>1, <1>7, <2>1
  <2>13. \A t \in Session \ {s} : Alive(t) /\ ~shared[t].stop => registered' = t
    BY <1>4, NobodyRuns
  <2>14. c.at \notin {"none", "done"} /\ ~sh.stop => registered' = s
    BY <1>7, <2>1
  <2>15. Rightly(r, j)' /\ Locks(r, j)'
    BY <1>1, <1>3, <1>4, <1>7, <2>7 DEF Rightly, Locks
  <2>16. s # r => (clock[s].at = "none" => c.at = "none")
    BY <2>1
  <2>17. \A q \in Request \ {r} : sh.command = q <=> shared[s].command = q
    BY <2>2
  <2>18. \A q \in Request \ {r} : job[q].at = "landing" /\ job[q].session = s =>
             LET m == job[q].seek.seq IN Within(shared[s], clock[s], m) => Within(sh, c, m)
    BY <2>2, <2>5 DEF Within
  <2> QED
    BY <1>1, <1>5, <1>6, <2>5, <2>7, <2>8, <2>9, <2>10, <2>11, <2>12, <2>13, <2>14, <2>15,
       <2>16, <2>17, <2>18, RequestKeeps
<1>8. CASE /\ registered' = registered /\ clock' = clock
           /\ Becomes(r, [NewJob EXCEPT !.op = i.op,
                                        !.at = IF i.op = "stop" THEN "ok" ELSE "failed"])
  <2>1. PICK n \in Job : n = NewJob
    BY NewJobs, Names, NoClocks DEF Op, NoLoop
  <2>2. PICK at \in {"ok", "failed"} : at = IF i.op = "stop" THEN "ok" ELSE "failed"
    OBVIOUS
  <2>3. PICK j : j = [n EXCEPT !.op = i.op, !.at = at]
    OBVIOUS
  <2>4. j \in Job /\ j.at = at /\ j.op = i.op
    BY <1>3, <2>3 DEF Job, Op
  <2>5. Becomes(r, j)
    BY <1>8, <2>1, <2>2, <2>3
  <2>6. Rightly(r, j)' /\ Locks(r, j)'
    BY <1>1, <1>3, <1>4, <2>2, <2>4 DEF Rightly, Locks
  <2> QED
    BY <1>1, <1>4, <1>5, <1>6, <1>8, <2>4, <2>5, <2>6, LockKeeps
<1> QED
  BY <1>2, <1>7, <1>8 DEF Spawn

\* A result that is ready is taken.
LEMMA TakenFacts ==
    ASSUME NEW b \in Runtime
    PROVE  LET sh == [b EXCEPT !.ready = "none"] IN
           /\ sh \in Runtime /\ sh.ready = "none" /\ sh.stop = b.stop /\ sh.failed = b.failed
           /\ sh.playing = b.playing /\ sh.pending = b.pending /\ sh.result = b.result
           /\ sh.command = b.command
BY DEF Runtime

LEMMA ReadyKeeps ==
    ASSUME IInv, NEW r \in Request, Ready(r)
    PROVE  IInv'
<1>1. /\ job[r].at = "await" /\ shared[r].ready = "ok"
      /\ UNCHANGED <<registered, lifecycle, held, seeks, clock, screen, drawn, landed, overrun>>
  BY DEF Ready, At, registry, history
<1>2. PICK i \in Job : i = job[r]
  BY Asked
<1>3. /\ i.op = "start" /\ lifecycle # r
      /\ \A s \in Session : shared[s].command # r
  BY <1>1, <1>2, Asked DEF Rightly, Locks
<1>4. PICK s \in Session : s = r
  BY Names
<1>5. PICK b \in Runtime : b = shared[s]
  BY Known
<1>6. PICK sh : sh = [b EXCEPT !.ready = "none"]
  OBVIOUS
<1>7. /\ sh \in Runtime /\ sh.ready = "none" /\ sh.stop = b.stop /\ sh.failed = b.failed
      /\ sh.playing = b.playing /\ sh.pending = b.pending /\ sh.result = b.result
      /\ sh.command = b.command
  BY <1>6, TakenFacts
<1>8. PICK at \in {"ok", "failed"} : at = IF registered = r THEN "ok" ELSE "failed"
  OBVIOUS
<1>9. PICK j : j = [i EXCEPT !.at = at]
  OBVIOUS
<1>10. j \in Job /\ j.at = at /\ j.op = i.op
  BY <1>9 DEF Job
<1>11. Becomes(r, j) /\ shared' = [shared EXCEPT ![s] = sh]
  BY <1>2, <1>4, <1>5, <1>6, <1>8, <1>9 DEF Ready, Goes
<1>12. r \in drawn
  BY <1>1, <1>4, Known DEF Told
<1>13. /\ seeks' \in Nat /\ seeks <= seeks'
       /\ overrun' \in [Session -> [stopped : Nat, frozen : Nat]]
       /\ \A t \in Session : overrun'[t] = overrun[t]
  BY <1>1 DEF IInv, TypeOK
<1>14. Told(s, sh, clock[s])'
  BY <1>1, <1>5, <1>7, Known DEF Told
<1>15. Overran(sh, clock[s], overrun'[s]) /\ (sh.failed => ~sh.playing)
  BY <1>1, <1>5, <1>7, Known DEF Overran
<1>16. \A t \in Session : shared'[t].command = shared[t].command
  BY <1>5, <1>7, <1>11, Put, Known DEF TypeOK
<1>17. Rightly(r, j)' /\ Locks(r, j)'
  BY <1>1, <1>3, <1>10, <1>12, <1>16 DEF Rightly, Locks
<1>18. \A q \in Request \ {r} : sh.command = q <=> shared[s].command = q
  BY <1>5, <1>7
<1>19. \A q \in Request \ {r} : job[q].at = "landing" /\ job[q].session = s =>
           LET n == job[q].seek.seq IN
           Within(shared[s], clock[s], n) => Within(sh, clock[s], n)
  BY <1>5, <1>7 DEF Within
<1> QED
  BY <1>1, <1>5, <1>7, <1>10, <1>11, <1>13, <1>14, <1>15, <1>17, <1>18, <1>19, CommandKeeps

LEMMA NotReadyKeeps ==
    ASSUME IInv, NEW r \in Request, NotReady(r)
    PROVE  IInv'
<1>1. /\ job[r].at = "await"
      /\ registered' = IF registered = r THEN Nobody ELSE registered
      /\ UNCHANGED <<lifecycle, held, seeks, clock, screen, drawn, landed, overrun>>
  BY DEF NotReady, At, history
<1>2. PICK i \in Job : i = job[r]
  BY Asked
<1>3. /\ i.op = "start" /\ lifecycle # r
      /\ \A s \in Session : shared[s].command # r
  BY <1>1, <1>2, Asked DEF Rightly, Locks
<1>4. PICK s \in Session : s = r
  BY Names
<1>5. PICK b \in Runtime : b = shared[s]
  BY Known
<1>6. PICK taken : taken = [b EXCEPT !.ready = "none"]
  OBVIOUS
<1>7. /\ taken \in Runtime /\ taken.ready = "none" /\ taken.stop = b.stop
      /\ taken.failed = b.failed /\ taken.playing = b.playing /\ taken.pending = b.pending
      /\ taken.result = b.result /\ taken.command = b.command
  BY <1>6, TakenFacts
<1>8. PICK sh \in Runtime :
           /\ sh = IF registered = r THEN Stopped(taken) ELSE taken
           /\ sh.ready # "ok" /\ (registered = r => sh.stop) /\ (b.stop => sh.stop)
           /\ (registered # r => sh.stop = b.stop)
           /\ sh.playing => b.playing /\ registered # r
           /\ sh.failed => b.failed \/ ~sh.playing
           /\ sh.pending = NoSeek \/ sh.pending = b.pending
           /\ sh.result = b.result /\ sh.command = b.command
  <2>1. CASE registered = r
    <3>1. LET sh == Stopped(taken) IN
          /\ sh \in Runtime /\ sh.stop /\ ~sh.playing /\ sh.pending = NoSeek
          /\ sh.result = taken.result /\ sh.command = taken.command
          /\ sh.ready = "ok" => taken.ready = "ok"
      BY <1>7, StoppedFacts
    <3> QED
      BY <1>7, <2>1, <3>1
  <2>2. CASE registered # r
    BY <1>7, <2>2
  <2> QED
    BY <2>1, <2>2
<1>9. PICK at \in {"join", "failed"} : at = IF registered = r THEN "join" ELSE "failed"
  OBVIOUS
<1>10. PICK j : j = [i EXCEPT !.at = at]
  OBVIOUS
<1>11. j \in Job /\ j.at = at /\ j.op = i.op
  BY <1>10 DEF Job
<1>12. PICK c \in Clock : c = clock[s]
  BY Known
<1>13. Becomes(r, j)
  BY <1>2, <1>9, <1>10 DEF NotReady, Goes
<1>14. shared' = [shared EXCEPT ![s] = sh]
  BY <1>4, <1>5, <1>6, <1>8 DEF NotReady
<1>15. clock' = [clock EXCEPT ![s] = c]
  BY <1>1, <1>12, Same, Known DEF TypeOK
<1>16. /\ seeks' \in Nat /\ seeks <= seeks'
       /\ overrun' \in [Session -> [stopped : Nat, frozen : Nat]]
       /\ \A t \in Session : overrun'[t] = overrun[t]
       /\ registered' \in Session \cup {Nobody} /\ lifecycle' \in Request \cup {Nobody}
       /\ lifecycle' # Nobody => registered' = Nobody
       /\ \A q \in Request \ {r} : lifecycle' = q <=> lifecycle = q
  BY <1>1 DEF IInv, TypeOK
<1>17. /\ c.at \notin {"none", "done"} /\ ~sh.stop => registered' = s
       /\ \A t \in Session \ {s} : Alive(t) /\ ~shared[t].stop => registered' = t
  BY <1>1, <1>4, <1>5, <1>8, <1>12 DEF IInv, NoLeakedClock, Alive
<1>18. Walked(c) /\ Told(s, sh, c)'
  BY <1>1, <1>5, <1>8, <1>12, Known DEF Told
<1>19. Overran(sh, c, overrun'[s]) /\ (sh.failed => ~sh.playing)
  BY <1>1, <1>5, <1>8, <1>12, Known DEF Overran
<1>20. \A t \in Session : shared'[t].command = shared[t].command
  BY <1>5, <1>8, <1>14, Put, Known DEF TypeOK
<1>21. Rightly(r, j)' /\ Locks(r, j)'
  BY <1>1, <1>3, <1>9, <1>11, <1>20 DEF Rightly, Locks
<1>22. s # r => (clock[s].at = "none" => c.at = "none")
  BY <1>4
<1>23. \A q \in Request \ {r} : sh.command = q <=> shared[s].command = q
  BY <1>5, <1>8
<1>24. ASSUME NEW q \in Request
       PROVE  LET n == job[q].seek.seq IN Within(shared[s], clock[s], n) => Within(sh, c, n)
  <2>1. job[q].seek.seq \in Nat
    BY Asked, JobFacts
  <2> QED
    BY <1>5, <1>8, <1>12, <2>1, NoClocks DEF Within
<1> QED
  BY <1>1, <1>11, <1>12, <1>13, <1>14, <1>15, <1>16, <1>17, <1>18, <1>19, <1>21, <1>22, <1>23,
     <1>24, RequestKeeps

-----------------------------------------------------------------------------
\* Commands.

\* A request at the lock is nobody's command holder.
LEMMA AtLock ==
    ASSUME IInv, NEW r \in Request, job[r].at = "lock"
    PROVE  /\ job[r].op \in Op \ {"start", "stop"} /\ job[r].session \in Session
           /\ lifecycle # r
           /\ \A s \in Session : shared[s].command # r
BY Asked, JobFacts DEF Rightly, Locks

LEMMA RefusedKeeps ==
    ASSUME IInv, NEW r \in Request, Command(r), Refuses(job[r].session)
    PROVE  IInv'
<1>1. /\ job[r].at = "lock" /\ Goes(r, "failed")
      /\ UNCHANGED <<registry, shared, clock, screen, history>>
  BY DEF Command, At, registry, history
<1>2. PICK i \in Job : i = job[r]
  BY Asked
<1>3. PICK j : j = [i EXCEPT !.at = "failed"]
  OBVIOUS
<1>4. j \in Job /\ j.at = "failed"
  BY <1>3 DEF Job
<1>5. Becomes(r, j)
  BY <1>1, <1>2, <1>3 DEF Goes
<1>6. Rightly(r, j) /\ Locks(r, j)
  BY <1>1, <1>4, AtLock DEF Rightly, Locks
<1> QED
  BY <1>1, <1>4, <1>5, <1>6, JobKeeps

LEMMA SeekKeeps ==
    ASSUME IInv, NEW r \in Request, Command(r), ~Refuses(job[r].session), job[r].op = "seek"
    PROVE  IInv'
<1>1. /\ job[r].at = "lock" /\ shared[job[r].session].command = Nobody
      /\ seeks' = seeks + 1
      /\ UNCHANGED <<registered, lifecycle, held, clock, screen, drawn, landed, overrun>>
  BY DEF Command, At
<1>2. PICK i \in Job : i = job[r]
  BY Asked
<1>3. PICK s \in Session : s = i.session
  BY <1>1, <1>2, AtLock
<1>4. PICK b \in Runtime : b = shared[s]
  BY Known
<1>5. seeks \in Nat /\ i.seek.target \in Nat
  BY <1>2, JobFacts DEF IInv, TypeOK, Seek
<1>6. PICK request \in Seek :
           request = [seq |-> seeks + 1, target |-> i.seek.target] /\ request.seq = seeks + 1
  <2>1. [seq |-> seeks + 1, target |-> i.seek.target] \in Seek
    BY <1>5 DEF Seek
  <2> QED
    BY <2>1
<1>7. NoResult \in Result /\ NoResult.seq = 0 /\ NoResult.answer = "none"
  BY DEF NoResult, Result
<1>8. PICK result \in Result : result = NoResult
  BY <1>7
<1>9. PICK sh : sh = [b EXCEPT !.pending = request, !.result = result, !.command = r]
  OBVIOUS
<1>10. /\ sh \in Runtime /\ sh.pending = request /\ sh.result = result /\ sh.command = r
       /\ sh.stop = b.stop /\ sh.failed = b.failed /\ sh.playing = b.playing
       /\ sh.ready = b.ready
  BY <1>9 DEF Runtime
<1>11. PICK j : j = [i EXCEPT !.at = "landing", !.seek = request]
  OBVIOUS
<1>12. /\ j \in Job /\ j.at = "landing" /\ j.op = i.op /\ j.seek = request
       /\ j.session = i.session
  BY <1>11 DEF Job
<1>13. Becomes(r, j)
  BY <1>2, <1>6, <1>11, <1>1 DEF Command
<1>14. shared' = [shared EXCEPT ![s] = sh]
  <2>1. shared' = [shared EXCEPT ![s].pending = request, ![s].result = NoResult,
                                 ![s].command = r]
    BY <1>1, <1>2, <1>3, <1>6 DEF Command
  <2> QED
    BY <2>1, <1>4, <1>8, <1>9, Known, ZenonT(40) DEF TypeOK
<1>15. /\ seeks' \in Nat /\ seeks <= seeks'
       /\ overrun' \in [Session -> [stopped : Nat, frozen : Nat]]
       /\ \A t \in Session : overrun'[t] = overrun[t]
  BY <1>1 DEF IInv, TypeOK
<1>16. Told(s, sh, clock[s])'
  BY <1>1, <1>4, <1>5, <1>6, <1>7, <1>8, <1>10, Known DEF Told
<1>17. Overran(sh, clock[s], overrun'[s]) /\ (sh.failed => ~sh.playing)
  BY <1>1, <1>4, <1>10, Known DEF Overran
<1>18. /\ \A t \in Session \ {s} : shared'[t] = shared[t]
       /\ shared'[s] = sh /\ clock'[s] = clock[s]
  BY <1>1, <1>10, <1>14, Put, Known DEF TypeOK
<1>19. Within(sh, clock[s], request.seq)
  BY <1>5, <1>6, <1>7, <1>8, <1>10, Known DEF Within, Told
<1>20. Rightly(r, j)'
  BY <1>1, <1>2, <1>3, <1>12, <1>18, <1>19, AtLock DEF Rightly, Within
<1>21. Locks(r, j)'
  BY <1>1, <1>2, <1>3, <1>10, <1>12, <1>18, AtLock DEF Locks
<1>22. \A q \in Request : shared[s].command # q
  BY <1>1, <1>2, <1>3, Names
<1>23. \A q \in Request \ {r} : sh.command = q <=> shared[s].command = q
  BY <1>10, <1>22
<1>24. \A q \in Request : ~(job[q].at = "landing" /\ job[q].session = s)
  BY <1>22, Asked DEF Locks
<1> QED
  BY <1>1, <1>4, <1>10, <1>12, <1>13, <1>14, <1>15, <1>16, <1>17, <1>20, <1>21, <1>23, <1>24,
     CommandKeeps

LEMMA PlayKeeps ==
    ASSUME IInv, NEW r \in Request, Command(r), ~Refuses(job[r].session), job[r].op # "seek"
    PROVE  IInv'
<1>1. /\ job[r].at = "lock" /\ shared[job[r].session].command = Nobody
      /\ Goes(r, "snapshot")
      /\ UNCHANGED <<registered, lifecycle, held, seeks, clock, screen, drawn, landed>>
  BY DEF Command, At
<1>2. PICK i \in Job : i = job[r]
  BY Asked
<1>3. PICK s \in Session : s = i.session
  BY <1>1, <1>2, AtLock
<1>4. PICK b \in Runtime : b = shared[s]
  BY Known
<1>5. ~b.failed /\ ~b.stop
  BY <1>2, <1>3, <1>4 DEF Refuses
<1>6. PICK playing \in BOOLEAN : playing = IF i.op = "loop" THEN b.playing ELSE i.op = "play"
  BY RuntimeFacts
<1>7. PICK range \in Loops \cup {NoLoop} : range = IF i.op = "loop" THEN i.range ELSE b.range
  BY RuntimeFacts, JobFacts
<1>8. PICK sh : sh = [b EXCEPT !.playing = playing, !.range = range]
  OBVIOUS
<1>9. /\ sh \in Runtime /\ sh.playing = playing /\ sh.pending = b.pending
      /\ sh.result = b.result /\ sh.command = b.command /\ sh.stop = b.stop
      /\ sh.failed = b.failed /\ sh.ready = b.ready
  BY <1>8 DEF Runtime
<1>10. PICK j : j = [i EXCEPT !.at = "snapshot"]
  OBVIOUS
<1>11. j \in Job /\ j.at = "snapshot" /\ j.op = i.op /\ j.session = i.session
  BY <1>10 DEF Job
<1>12. Becomes(r, j)
  BY <1>1, <1>2, <1>10 DEF Goes
<1>13. shared' = [shared EXCEPT ![s] = sh]
  <2>1. shared' = [shared EXCEPT
            ![s].playing = IF i.op = "loop" THEN @ ELSE i.op = "play",
            ![s].range = IF i.op = "loop" THEN i.range ELSE @]
    BY <1>1, <1>2, <1>3 DEF Command
  <2>2. shared \in [Session -> Runtime]
    BY Known DEF TypeOK
  <2>3. shared' = [shared EXCEPT
            ![s] = [b EXCEPT !.playing = IF i.op = "loop" THEN @ ELSE i.op = "play",
                             !.range = IF i.op = "loop" THEN i.range ELSE @]]
    BY <1>4, <2>1, <2>2 DEF Runtime
  <2>4. sh = [b EXCEPT !.playing = IF i.op = "loop" THEN @ ELSE i.op = "play",
                       !.range = IF i.op = "loop" THEN i.range ELSE @]
    BY <1>6, <1>7, <1>8 DEF Runtime
  <2> QED
    BY <2>3, <2>4
<1>14. overrun' = IF i.op = "play" THEN [overrun EXCEPT ![s].frozen = 0] ELSE overrun
  BY <1>1, <1>2, <1>3 DEF Command
<1>15. /\ overrun' \in [Session -> [stopped : Nat, frozen : Nat]]
       /\ \A t \in Session \ {s} : overrun'[t] = overrun[t]
       /\ overrun'[s].stopped = overrun[s].stopped
       /\ IF i.op = "play" THEN overrun'[s].frozen = 0
          ELSE overrun'[s].frozen = overrun[s].frozen
  <2>1. PICK o \in [stopped : Nat, frozen : Nat] : o = overrun[s]
    BY Known DEF TypeOK
  <2>2. LET v == [o EXCEPT !.frozen = 0] IN
        v \in [stopped : Nat, frozen : Nat] /\ v.stopped = o.stopped /\ v.frozen = 0
    OBVIOUS
  <2>3. CASE i.op = "play"
    BY <1>14, <2>1, <2>2, <2>3, Put, Known DEF TypeOK
  <2>4. CASE i.op # "play"
    BY <1>14, <2>4, Known DEF TypeOK
  <2> QED
    BY <2>3, <2>4
<1>16. seeks' \in Nat /\ seeks <= seeks'
  BY <1>1 DEF IInv, TypeOK
<1>17. Told(s, sh, clock[s])'
  BY <1>1, <1>4, <1>9, Known DEF Told
<1>18. Overran(sh, clock[s], overrun'[s]) /\ (sh.failed => ~sh.playing)
  <2>1. Overran(b, clock[s], overrun[s])
    BY <1>4, Known
  <2>2. i.op # "play" => (sh.playing => b.playing)
    BY <1>6, <1>9
  <2> QED
    BY <1>1, <1>5, <1>9, <1>15, <2>1, <2>2 DEF Overran
<1>19. \A t \in Session : shared'[t].command = shared[t].command
  BY <1>4, <1>9, <1>13, Put, Known DEF TypeOK
<1>20. j.op \in Op \ {"start", "stop", "seek"} /\ j.session \in Session
  BY <1>1, <1>2, <1>11, AtLock
<1>21. Rightly(r, j)' /\ Locks(r, j)'
  BY <1>1, <1>11, <1>19, <1>20, AtLock DEF Rightly, Locks
<1>22. \A q \in Request \ {r} : sh.command = q <=> shared[s].command = q
  BY <1>4, <1>9
<1>23. \A q \in Request \ {r} : job[q].at = "landing" /\ job[q].session = s =>
           LET n == job[q].seek.seq IN
           Within(shared[s], clock[s], n) => Within(sh, clock[s], n)
  BY <1>4, <1>9 DEF Within
<1>24. sh.stop = shared[s].stop
  BY <1>4, <1>9
<1> QED
  BY <1>1, <1>9, <1>11, <1>12, <1>13, <1>15, <1>16, <1>17, <1>18, <1>21, <1>22, <1>23, <1>24,
     CommandKeeps

LEMMA CommandStepKeeps ==
    ASSUME IInv, NEW r \in Request, Command(r)
    PROVE  IInv'
BY RefusedKeeps, SeekKeeps, PlayKeeps

\* A seek that is answered gives the session back.  It is answered by a result
\* that is its own: none is newer, as no seek came after it.
LEMMA AnsweredKeeps ==
    ASSUME IInv, NEW r \in Request, job[r].at = "landing",
           NEW at \in {"snapshot", "failed"}, Answered(r, at),
           at = "snapshot" => (job[r].op = "seek" => job[r].seek.seq \in landed)
    PROVE  IInv'
<1>1. UNCHANGED <<registered, lifecycle, held, seeks, clock, screen, drawn, landed, overrun>>
  BY DEF Answered, registry, history
<1>2. PICK i \in Job : i = job[r]
  BY Asked
<1>3. /\ i.op \notin {"start", "stop"} /\ i.session \in Session /\ lifecycle # r
      /\ \A t \in Session : shared[t].command = r <=> t = i.session
  BY <1>2, Asked DEF Rightly, Locks
<1>4. PICK s \in Session : s = i.session
  BY <1>3
<1>5. PICK b \in Runtime : b = shared[s]
  BY Known
<1>6. PICK sh : sh = [b EXCEPT !.command = Nobody]
  OBVIOUS
<1>7. /\ sh \in Runtime /\ sh.playing = b.playing /\ sh.pending = b.pending
      /\ sh.result = b.result /\ sh.command = Nobody /\ sh.stop = b.stop
      /\ sh.failed = b.failed /\ sh.ready = b.ready
  BY <1>6 DEF Runtime
<1>8. PICK j : j = [i EXCEPT !.at = at]
  OBVIOUS
<1>9. j \in Job /\ j.at = at /\ j.op = i.op /\ j.session = i.session /\ j.seek = i.seek
  BY <1>8 DEF Job
<1>10. Becomes(r, j)
  BY <1>2, <1>8 DEF Answered, Goes
<1>11. shared' = [shared EXCEPT ![s] = sh]
  BY <1>2, <1>4, <1>5, <1>6, Known DEF Answered, TypeOK
<1>12. /\ seeks' \in Nat /\ seeks <= seeks'
       /\ overrun' \in [Session -> [stopped : Nat, frozen : Nat]]
       /\ \A t \in Session : overrun'[t] = overrun[t]
  BY <1>1 DEF IInv, TypeOK
<1>13. Told(s, sh, clock[s])'
  BY <1>1, <1>5, <1>7, Known DEF Told
<1>14. Overran(sh, clock[s], overrun'[s]) /\ (sh.failed => ~sh.playing)
  BY <1>1, <1>5, <1>7, Known DEF Overran
<1>15. /\ shared'[s].command = Nobody
       /\ \A t \in Session \ {s} : shared'[t].command = shared[t].command
  BY <1>7, <1>11, Put, Known DEF TypeOK
<1>16. Rightly(r, j)'
  BY <1>1, <1>2, <1>3, <1>9 DEF Rightly
<1>17. Locks(r, j)'
  BY <1>1, <1>3, <1>4, <1>9, <1>15, Names DEF Locks
<1>18. \A q \in Request \ {r} : sh.command = q <=> shared[s].command = q
  BY <1>3, <1>4, <1>5, <1>7, Names
<1>19. \A q \in Request \ {r} : job[q].at = "landing" /\ job[q].session = s =>
           LET n == job[q].seek.seq IN
           Within(shared[s], clock[s], n) => Within(sh, clock[s], n)
  BY <1>5, <1>7 DEF Within
<1> QED
  BY <1>1, <1>5, <1>7, <1>9, <1>10, <1>11, <1>12, <1>13, <1>14, <1>16, <1>17, <1>18, <1>19,
     CommandKeeps

LEMMA LandedKeeps ==
    ASSUME IInv, NEW r \in Request, Landed(r) \/ Unanswered(r)
    PROVE  IInv'
<1>1. job[r].at = "landing"
  BY DEF Landed, Unanswered, At
<1>2. CASE Landed(r)
  <2>1. PICK s \in Session : s = job[r].session
    BY <1>1, Asked DEF Rightly
  <2>2. PICK at \in {"snapshot", "failed"} :
             at = IF shared[s].result.answer = "applied" THEN "snapshot" ELSE "failed"
    OBVIOUS
  <2>3. Answered(r, at)
    BY <1>2, <2>1, <2>2 DEF Landed
  <2>4. shared[s].result.seq = job[r].seek.seq
    <3>1. shared[s].result.seq >= job[r].seek.seq /\ shared[s].result.seq <= job[r].seek.seq
      BY <1>1, <1>2, <2>1, Asked DEF Landed, OwnResult, Rightly, Within
    <3>2. shared[s].result.seq \in Nat /\ job[r].seek.seq \in Nat
      BY <2>1, Asked, JobFacts, Known, RuntimeFacts
    <3> QED
      BY <3>1, <3>2
  <2>5. at = "snapshot" => job[r].seek.seq \in landed
    BY <2>2, <2>4, Known DEF Told
  <2> QED
    BY <1>1, <2>3, <2>5, AnsweredKeeps
<1>3. CASE Unanswered(r)
  BY <1>1, <1>3, AnsweredKeeps DEF Unanswered
<1> QED
  BY <1>2, <1>3

LEMMA SnapshotKeeps ==
    ASSUME IInv, NEW r \in Request, Snapshot(r)
    PROVE  IInv'
<1>1. job[r].at = "snapshot" /\ UNCHANGED <<registry, shared, clock, screen, history>>
  BY DEF Snapshot, At
<1>2. PICK i \in Job : i = job[r]
  BY Asked
<1>3. PICK at \in {"ok", "failed"} : at = IF registered = i.session THEN "ok" ELSE "failed"
  OBVIOUS
<1>4. PICK j : j = [i EXCEPT !.at = at]
  OBVIOUS
<1>5. j \in Job /\ j.at = at /\ j.op = i.op /\ j.seek = i.seek
  BY <1>4 DEF Job
<1>6. Becomes(r, j)
  BY <1>2, <1>3, <1>4 DEF Snapshot, Goes
<1>7. Rightly(r, j) /\ Locks(r, j)
  BY <1>1, <1>2, <1>5, Asked DEF Rightly, Locks
<1> QED
  BY <1>1, <1>5, <1>6, <1>7, JobKeeps

-----------------------------------------------------------------------------
\* Init and Next.

LEMMA InitIInv == Init => IInv
<1> SUFFICES ASSUME Init PROVE IInv
  OBVIOUS
<1> DEFINE running(s) == s = Boot /\ registered = Boot
<1>1. PICK frame \in Frames, playing \in BOOLEAN :
           /\ shared = [s \in Session |->
                  IF running(s) THEN [NewRuntime EXCEPT !.position = frame, !.playing = playing]
                  ELSE NewRuntime]
           /\ clock = [s \in Session |->
                  IF running(s) THEN [NoClock EXCEPT !.at = "wait", !.frame = frame]
                  ELSE NoClock]
           /\ screen = [session |-> registered, frame |-> frame]
  BY DEF Init
<1>2. /\ registered \in {Nobody, Boot} /\ lifecycle = Nobody /\ seeks = 0 /\ held = FALSE
      /\ job = [r \in Request |-> NewJob] /\ drawn = {registered} \ {Nobody} /\ landed = {}
      /\ overrun = [s \in Session |-> [stopped |-> 0, frozen |-> 0]]
  BY DEF Init
<1>3. PICK new \in Runtime :
           /\ new = NewRuntime /\ ~new.failed /\ ~new.stop /\ new.pending = NoSeek
           /\ new.result = NoResult /\ new.ready = "none" /\ new.command = Nobody
  <2>1. 1 \in Frames
    BY Content DEF Frames
  <2>2. NoResult \in Result
    BY DEF NoResult, Result
  <2>3. /\ NewRuntime \in Runtime
        /\ ~NewRuntime.failed /\ ~NewRuntime.stop /\ NewRuntime.pending = NoSeek
        /\ NewRuntime.result = NoResult /\ NewRuntime.ready = "none"
        /\ NewRuntime.command = Nobody
    BY <2>1, <2>2, NoClocks DEF NewRuntime, Runtime, NoLoop
  <2> QED
    BY <2>3
<1>4. PICK on : on = [new EXCEPT !.position = frame, !.playing = playing]
  OBVIOUS
<1>5. /\ on \in Runtime /\ ~on.failed /\ ~on.stop /\ on.pending = NoSeek
      /\ on.result = NoResult /\ on.ready = "none" /\ on.command = Nobody
  BY <1>3, <1>4 DEF Runtime
<1>6. PICK c : c = [NoClock EXCEPT !.at = "wait", !.frame = frame]
  OBVIOUS
<1>7. c \in Clock /\ c.at = "wait" /\ c.frame = frame /\ c.purpose = "first"
  BY <1>6, Waits
<1>8. PICK none \in Clock : none = NoClock /\ none.at = "none" /\ none.purpose = "first"
  BY NoClocks
<1>9. /\ \A s \in Session : shared[s] \in {on, new}
      /\ shared \in [Session -> Runtime]
  BY <1>1, <1>3, <1>4, <1>5
<1>10. /\ \A s \in Session : clock[s] = IF running(s) THEN c ELSE none
       /\ clock \in [Session -> Clock]
  BY <1>1, <1>6, <1>7, <1>8
<1>11. NewJob \in Job /\ NewJob.at = "new" /\ NewJob.op = "stop"
  BY NewJobs, Names, NoClocks DEF Op, NoLoop
<1>12. job \in [Request -> Job] /\ \A r \in Request : job[r].at = "new" /\ job[r].op = "stop"
  BY <1>2, <1>11
<1>13. TypeOK
  <2>1. registered \in Session \cup {Nobody} /\ drawn \subseteq Session /\ landed \subseteq 1..seeks
    BY <1>2, Names
  <2>2. screen \in [session : Session \cup {Nobody}, frame : Frames]
    BY <1>1, <2>1
  <2>3. overrun \in [Session -> [stopped : Nat, frozen : Nat]]
    BY <1>2
  <2>4. \A r \in Request : Locks(r, job[r])
    BY <1>2, <1>3, <1>5, <1>9, <1>12, Names DEF Locks
  <2>5. \A s \in Session : ~shared[s].failed
    BY <1>3, <1>5, <1>9
  <2> QED
    BY <1>2, <1>9, <1>10, <1>12, <2>1, <2>2, <2>3, <2>4, <2>5 DEF TypeOK, Locks, At
<1>14. NoLeakedClock
  BY <1>8, <1>10 DEF NoLeakedClock, Alive
<1>15. ASSUME NEW s \in Session
       PROVE  SessionHolds(s)
  <2>1. /\ clock[s].at \in {"none", "wait"} /\ clock[s].purpose = "first"
        /\ clock[s].at = "wait" => clock[s].frame \in Frames
    BY <1>7, <1>8, <1>10
  <2>2. NoResult.seq = 0 /\ NoResult.answer = "none"
    BY DEF NoResult
  <2>3. Walked(clock[s])
    BY <2>1 DEF Walked
  <2>4. Told(s, shared[s], clock[s])
    BY <1>2, <1>3, <1>5, <1>9, <2>1, <2>2 DEF Told
  <2>5. Overran(shared[s], clock[s], overrun[s])
    BY <1>2 DEF Overran
  <2> QED
    BY <2>3, <2>4, <2>5 DEF SessionHolds
<1>16. ASSUME NEW r \in Request
       PROVE  Rightly(r, job[r])
  <2>1. clock[r].at = "none"
    BY <1>8, <1>10, Names
  <2> QED
    BY <1>12, <2>1 DEF Rightly
<1> QED
  BY <1>2, <1>13, <1>14, <1>15, <1>16 DEF IInv

LEMMA ClientKeeps ==
    ASSUME IInv, NEW r \in Request, Client(r)
    PROVE  IInv'
<1>1. /\ {"play", "pause", "seek", "loop"} \subseteq Op \ {"start", "stop"}
      /\ 0 \in Nat /\ NoLoop \in Loops \cup {NoLoop} /\ Targets \subseteq Nat
  BY PlaybackAssumption DEF PlaybackAssumption, Op
<1>2. CASE AskStart(r) \/ AskStop(r)
  BY <1>2, AskStartKeeps
<1>3. CASE Hold(r)
  BY <1>3, HoldKeeps
<1>4. CASE AskCommand(r, "play", 0, NoLoop) \/ AskCommand(r, "pause", 0, NoLoop)
  BY <1>1, <1>4, AskCommandKeeps
<1>5. CASE \E t \in Targets : AskCommand(r, "seek", t, NoLoop)
  BY <1>1, <1>5, AskCommandKeeps
<1>6. CASE \E range \in Loops : AskCommand(r, "loop", 0, range)
  BY <1>1, <1>6, AskCommandKeeps
<1> QED
  BY <1>2, <1>3, <1>4, <1>5, <1>6 DEF Client

LEMMA NextIInv == IInv /\ [Next]_vars => IInv'
<1> SUFFICES ASSUME IInv, [Next]_vars PROVE IInv'
  OBVIOUS
<1>1. ASSUME NEW r \in Request, Client(r) PROVE IInv'
  BY <1>1, ClientKeeps
<1>2. ASSUME NEW r \in Request, Run(r) PROVE IInv'
  BY <1>2, AcquireKeeps, JoinKeeps, SpawnKeeps, ReadyKeeps, NotReadyKeeps, CommandStepKeeps,
     LandedKeeps, SnapshotKeeps DEF Run
<1>3. ASSUME NEW s \in Session, Tick(s) PROVE IInv'
  BY <1>3, OpenKeeps, TurnStopKeeps, TurnSeekKeeps, TurnPullKeeps, WalkKeeps, OutOfReachKeeps,
     ResetKeeps, SkipKeeps, ShowKeeps, AfterKeeps, BreaksKeeps DEF Tick
<1>4. CASE UNCHANGED vars
  <2>1. UNCHANGED <<registered, lifecycle, held, seeks, shared, clock, job, screen, drawn,
                    landed, overrun>>
    BY <1>4 DEF vars, registry, history
  <2>2. TypeOK'
    BY <2>1 DEF IInv, TypeOK, At
  <2>3. \A s \in Session : SessionHolds(s)'
    BY <2>1, SessionStays DEF IInv, TypeOK
  <2>4. \A r \in Request : Rightly(r, job[r])'
    BY <2>1 DEF IInv, Rightly, Within
  <2> QED
    BY <2>1, <2>2, <2>3, <2>4 DEF IInv, NoLeakedClock, Alive
<1> QED
  BY <1>1, <1>2, <1>3, <1>4 DEF Next

LEMMA Invariance == Spec => []IInv
BY InitIInv, NextIInv, PTL DEF Spec

-----------------------------------------------------------------------------
\* What follows.

\* The variables keep their types, a lock has one holder, and a session that
\* failed never plays again (Shared::fail_if_running).
THEOREM TypeCorrect == Spec => []TypeOK
<1>1. IInv => TypeOK
  BY DEF IInv
<1> QED
  BY <1>1, Invariance, PTL

\* A seek that is answered with success has put the frame that contains its
\* target on the output, and a start one of its own frames, for any content and
\* any number of requests (PlaybackRegistry::command and start).
THEOREM AnswersAreTrueAlways == Spec => []AnswersAreTrue
<1>1. IInv => AnswersAreTrue
  BY DEF IInv, Rightly, AnswersAreTrue, At
<1> QED
  BY <1>1, Invariance, PTL

\* No clock runs that the registry has lost and nobody has stopped
\* (PlaybackRegistry::start, stop and stop_if_current).
THEOREM NoLeakedClockAlways == Spec => []NoLeakedClock
<1>1. IInv => NoLeakedClock
  BY DEF IInv
<1> QED
  BY <1>1, Invariance, PTL

\* A stop, a pause and a hold let through at most the one frame the clock had in
\* hand (Clock::present_current looks at the stop before it shows).
THEOREM FreezesAtOnceAlways == Spec => []FreezesAtOnce
<1>1. IInv => FreezesAtOnce
  <2>1. ASSUME IInv, NEW s \in Session
        PROVE  overrun[s].stopped <= 1 /\ overrun[s].frozen <= 1
    BY <2>1, Known DEF Overran
  <2> QED
    BY <2>1 DEF FreezesAtOnce
<1> QED
  BY <1>1, Invariance, PTL
=============================================================================
