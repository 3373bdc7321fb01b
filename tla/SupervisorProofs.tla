--------------------------- MODULE SupervisorProofs ---------------------------
(***************************************************************************)
(* Proofs about Supervisor for every set of outputs and sizes, every       *)
(* budget, window and bound.  Two facts carry them: a record matches the   *)
(* entry of its output in the list observed last, and the restarts it      *)
(* keeps are the end of what was reported, with nothing recent before it.  *)
(*                                                                         *)
(* Then proofs about Hotplug, which drives the supervisor, for every set   *)
(* of outputs and sizes and every bound.  What carries them: whatever the  *)
(* hotplug thread has still to take up ends at the sizes of the surfaces,  *)
(* and the list in force agrees with the outputs unless a refresh is owed. *)
(***************************************************************************)
EXTENDS Supervisor, Hotplug, FiniteSetTheorems, SequenceTheorems, WellFoundedInduction, TLAPS

-----------------------------------------------------------------------------
\* Sequences of times.

\* s is the end of t.
IsEndOf(s, t) ==
    /\ Len(s) <= Len(t)
    /\ \A i \in 1..Len(s) : s[i] = t[Len(t) - Len(s) + i]

\* What t has before its end s is not recent.
StaleBefore(s, t, now) == \A i \in 1..(Len(t) - Len(s)) : ~Fresh(t[i], now)

\* Times in order, none after now.
InTime(t, now) ==
    \A i, j \in 1..Len(t) : i <= j => t[i] <= t[j] /\ t[j] <= now

\* What a window keeps of the restarts.
Kept(s, now) ==
    LET first == SelectInSeq(s, LAMBDA t : Fresh(t, now)) IN
    IF first = 0 THEN << >> ELSE SubSeq(s, first, Len(s))

Below == {p \in Nat \X Nat : p[1] < p[2]}

LEMMA BelowIsWellFounded == IsWellFoundedOn(Below, Nat)
<1>1. OpToRel(<, Nat) = Below
  BY Zenon DEF OpToRel, Below
<1> QED
  BY <1>1, NatLessThanWellFounded, Zenon

\* A set of numbers that is not empty has a least element.
LEMMA MinExists ==
    ASSUME NEW S \in SUBSET Nat, S # {}
    PROVE  Min(S) \in S /\ \A y \in S : Min(S) <= y
<1>1. PICK x \in S : \A y \in S : ~(<<y, x>> \in Below)
  BY BelowIsWellFounded, WFMin, Zenon
<1>2. ASSUME NEW y \in S
      PROVE  x <= y
  <2>1. x \in Nat /\ y \in Nat
    OBVIOUS
  <2>2. ~(y < x)
    <3>1. <<y, x>> \notin Below
      BY <1>1
    <3> QED
      BY <2>1, <3>1 DEF Below
  <2> QED
    BY <2>1, <2>2
<1> QED
  BY <1>2 DEF Min

LEMMA KeptShape ==
    ASSUME NEW s \in Seq(Nat), NEW now \in Nat
    PROVE  /\ Kept(s, now) \in Seq(Nat)
           /\ IsEndOf(Kept(s, now), s)
           /\ StaleBefore(Kept(s, now), s, now)
           /\ Len(Kept(s, now)) > 0 => Fresh(Kept(s, now)[1], now)
<1> DEFINE I == {i \in 1..Len(s) : Fresh(s[i], now)}
           first == IF I # {} THEN Min(I) ELSE 0
<1>0. Len(s) \in Nat /\ \A i \in 1..Len(s) : s[i] \in Nat
  BY ElementOfSeq, LenProperties
<1>1. Kept(s, now) = IF first = 0 THEN << >> ELSE SubSeq(s, first, Len(s))
  BY Zenon DEF Kept, SelectInSeq
<1>2. CASE I = {}
  <2>1. Kept(s, now) = << >>
    BY <1>1, <1>2
  <2>2. \A i \in 1..Len(s) : ~Fresh(s[i], now)
    BY <1>2
  <2> QED
    BY <2>1, <2>2, <1>0, EmptySeq DEF IsEndOf, StaleBefore
<1>3. CASE I # {}
  <2>1. first \in I /\ \A i \in I : first <= i
    <3>1. I \in SUBSET Nat
      BY <1>0
    <3>2. Min(I) \in I /\ \A i \in I : Min(I) <= i
      BY <3>1, <1>3, MinExists
    <3> QED
      BY <3>2, <1>3
  <2> HIDE DEF first
  <2>2. first \in 1..Len(s) /\ Fresh(s[first], now)
    BY <2>1
  <2>3. \A i \in 1..(first - 1) : ~Fresh(s[i], now)
    BY <1>0, <2>1, <2>2
  <2>4. Kept(s, now) = SubSeq(s, first, Len(s))
    BY <1>1, <2>2
  <2>5. /\ Kept(s, now) \in Seq(Nat)
        /\ Len(Kept(s, now)) = Len(s) - first + 1
        /\ \A i \in 1..(Len(s) - first + 1) : Kept(s, now)[i] = s[first + i - 1]
    <3>1. \A i \in first..Len(s) : s[i] \in Nat
      BY <1>0, <2>2
    <3>2. first \in Int /\ Len(s) \in Int /\ first <= Len(s)
      BY <1>0, <2>2
    <3> QED
      BY <2>4, <3>1, <3>2, SubSeqProperties
  <2>6. Len(s) - Len(Kept(s, now)) = first - 1 /\ Len(Kept(s, now)) \in Nat \ {0}
    BY <1>0, <2>2, <2>5
  <2>7. StaleBefore(Kept(s, now), s, now)
    BY <2>3, <2>6 DEF StaleBefore
  <2>8. IsEndOf(Kept(s, now), s)
    BY <1>0, <2>2, <2>5, <2>6 DEF IsEndOf
  <2>9. Fresh(Kept(s, now)[1], now)
    <3>1. 1 \in 1..(Len(s) - first + 1) /\ first + 1 - 1 = first
      BY <1>0, <2>2
    <3>2. Kept(s, now)[1] = s[first]
      BY <2>5, <3>1
    <3> QED
      BY <2>2, <3>2
  <2> QED
    BY <2>5, <2>7, <2>8, <2>9
<1> QED
  BY <1>2, <1>3

\* The end of an end is an end, and what it leaves out is left out for one or
\* the other reason.
LEMMA EndOfEnd ==
    ASSUME NEW a \in Seq(Nat), NEW b \in Seq(Nat), NEW c \in Seq(Nat), NEW now \in Nat,
           IsEndOf(a, b), IsEndOf(b, c), StaleBefore(a, b, now), StaleBefore(b, c, now)
    PROVE  IsEndOf(a, c) /\ StaleBefore(a, c, now)
<1>1. Len(a) \in Nat /\ Len(b) \in Nat /\ Len(c) \in Nat
  BY LenProperties
<1>2. ASSUME NEW i \in 1..Len(a)
      PROVE  a[i] = c[Len(c) - Len(a) + i]
  <2>1. a[i] = b[Len(b) - Len(a) + i]
    BY DEF IsEndOf
  <2>2. Len(b) - Len(a) + i \in 1..Len(b)
    BY <1>1 DEF IsEndOf
  <2> QED
    BY <1>1, <2>1, <2>2 DEF IsEndOf
<1>3. ASSUME NEW i \in 1..(Len(c) - Len(a)), i > Len(c) - Len(b)
      PROVE  ~Fresh(c[i], now)
  <2> DEFINE j == i - (Len(c) - Len(b))
  <2>1. j \in 1..(Len(b) - Len(a)) /\ j \in 1..Len(b) /\ i = Len(c) - Len(b) + j
    BY <1>1, <1>3 DEF IsEndOf
  <2>2. c[i] = b[j]
    BY <2>1 DEF IsEndOf
  <2> QED
    BY <2>1, <2>2 DEF StaleBefore
<1> QED
  BY <1>1, <1>2, <1>3 DEF IsEndOf, StaleBefore

\* A record keeps what is recent of a longer history too.
LEMMA KeptOfHistory ==
    ASSUME NEW s \in Seq(Nat), NEW t \in Seq(Nat), NEW now \in Nat,
           IsEndOf(s, t), StaleBefore(s, t, now)
    PROVE  IsEndOf(Kept(s, now), t) /\ StaleBefore(Kept(s, now), t, now)
BY KeptShape, EndOfEnd

\* Both grow by a failure.
LEMMA GrowTogether ==
    ASSUME NEW s \in Seq(Nat), NEW t \in Seq(Nat), NEW now \in Nat,
           IsEndOf(s, t), StaleBefore(s, t, now), InTime(t, now)
    PROVE  /\ IsEndOf(Append(s, now), Append(t, now))
           /\ StaleBefore(Append(s, now), Append(t, now), now)
           /\ InTime(Append(t, now), now)
<1> DEFINE a == Append(s, now)
           b == Append(t, now)
<1>1. /\ Len(s) \in Nat /\ Len(t) \in Nat
      /\ Len(a) = Len(s) + 1 /\ Len(b) = Len(t) + 1
      /\ \A i \in 1..Len(s) : a[i] = s[i]
      /\ \A i \in 1..Len(t) : b[i] = t[i]
      /\ a[Len(s) + 1] = now /\ b[Len(t) + 1] = now
  BY AppendProperties, LenProperties
<1> HIDE DEF a, b
<1>2. IsEndOf(a, b)
  <2>1. ASSUME NEW i \in 1..(Len(s) + 1)
        PROVE  a[i] = b[Len(t) - Len(s) + i]
    <3>1. CASE i = Len(s) + 1
      <4>1. Len(t) - Len(s) + i = Len(t) + 1
        BY <1>1, <3>1
      <4> QED
        BY <1>1, <3>1, <4>1
    <3>2. CASE i \in 1..Len(s)
      <4>1. Len(t) - Len(s) + i \in 1..Len(t)
        BY <1>1, <3>2 DEF IsEndOf
      <4> QED
        BY <1>1, <3>2, <4>1 DEF IsEndOf
    <3> QED
      BY <1>1, <3>1, <3>2
  <2>2. Len(a) <= Len(b) /\ Len(b) - Len(a) = Len(t) - Len(s)
    BY <1>1 DEF IsEndOf
  <2> QED
    BY <1>1, <2>1, <2>2 DEF IsEndOf
<1>3. StaleBefore(a, b, now)
  <2>1. Len(b) - Len(a) = Len(t) - Len(s) /\ Len(s) <= Len(t)
    BY <1>1 DEF IsEndOf
  <2>2. ASSUME NEW i \in 1..(Len(t) - Len(s))
        PROVE  ~Fresh(b[i], now)
    BY <1>1, <2>1 DEF StaleBefore
  <2> QED
    BY <2>1, <2>2 DEF StaleBefore
<1>4. InTime(b, now)
  <2>1. ASSUME NEW i \in 1..(Len(t) + 1), NEW j \in 1..(Len(t) + 1), i <= j
        PROVE  b[i] <= b[j] /\ b[j] <= now
    <3>1. CASE j \in 1..Len(t)
      <4>1. i \in 1..Len(t)
        BY <1>1, <2>1, <3>1
      <4> QED
        BY <1>1, <2>1, <3>1, <4>1 DEF InTime
    <3>2. CASE j = Len(t) + 1
      <4>1. CASE i = j
        BY <1>1, <3>2, <4>1
      <4>2. CASE i \in 1..Len(t)
        BY <1>1, <3>2, <4>2, SMTT(20) DEF InTime
      <4> QED
        BY <1>1, <2>1, <3>2, <4>1, <4>2
    <3> QED
      BY <1>1, <3>1, <3>2
  <2> QED
    BY <1>1, <2>1 DEF InTime
<1> QED
  BY <1>2, <1>3, <1>4 DEF a, b

\* The recent failures are as many as the record keeps.
LEMMA KeptCountsRecent ==
    ASSUME NEW s \in Seq(Nat), NEW t \in Seq(Nat), NEW now \in Nat,
           IsEndOf(s, t), StaleBefore(s, t, now), InTime(t, now),
           Len(s) > 0 => Fresh(s[1], now)
    PROVE  Cardinality({i \in 1..Len(t) : now - t[i] < Window}) = Len(s)
<1> DEFINE R == {i \in 1..Len(t) : now - t[i] < Window}
           f == Len(t) - Len(s) + 1
<1>1. /\ Len(s) \in Nat /\ Len(t) \in Nat /\ Len(s) <= Len(t)
      /\ \A i \in 1..Len(t) : t[i] \in Nat /\ t[i] <= now
  BY LenProperties, ElementOfSeq DEF InTime, IsEndOf
<1>2. \A i \in 1..(f - 1) : ~(now - t[i] < Window)
  BY <1>1 DEF StaleBefore, Fresh
<1>3. ASSUME NEW i \in f..Len(t)
      PROVE  now - t[i] < Window
  <2>1. Len(s) > 0 /\ f \in 1..Len(t) /\ i \in 1..Len(t) /\ f <= i /\ 1 \in 1..Len(s)
    BY <1>1
  <2>2. s[1] = t[f]
    BY <1>1, <2>1 DEF IsEndOf
  <2>3. now - t[f] < Window
    BY <2>1, <2>2 DEF Fresh
  <2>4. t[f] <= t[i]
    BY <2>1 DEF InTime
  <2>5. t[f] \in Nat /\ t[i] \in Nat /\ Window \in Nat
    BY <1>1, <2>1, SupervisorAssumption DEF SupervisorAssumption
  <2> HIDE DEF f
  <2> QED
    BY <2>3, <2>4, <2>5
<1>4. R = f..Len(t)
  BY <1>1, <1>2, <1>3
<1>5. Cardinality(f..Len(t)) = Len(s)
  <2>1. f \in Int /\ Len(t) \in Int
    BY <1>1
  <2>2. Cardinality(f..Len(t)) = IF f > Len(t) THEN 0 ELSE Len(t) - f + 1
    BY <2>1, FS_Interval
  <2> QED
    BY <1>1, <2>2
<1> QED
  BY <1>4, <1>5

-----------------------------------------------------------------------------
\* Records.

\* A record agrees with the entry of its output.
Matches(r, e) ==
    /\ e.listed => r.known /\ r.present /\ r.active = e.active /\ r.size = e.size
    /\ ~e.listed => ~r.present /\ ~r.active

\* What the supervisor has no record of has not failed.
Blank(r) == ~r.known => ~r.present /\ ~r.active /\ r.state = "Active" /\ r.restarts = << >>

Healthy(r) ==
    /\ r.state = "Active" => r.restarts = << >>
    /\ r.state = "Recovering" => Len(r.restarts) \in 1..(MaxRestarts - 1)

\* The restarts of a record are what is recent of the failures t.
Dated(r, t, now) ==
    IsEndOf(r.restarts, t) /\ StaleBefore(r.restarts, t, now) /\ InTime(t, now)

\* An event fits the record to the entry but for the size, orders a worker
\* when its output becomes active and the end of one when it stops being so,
\* and leaves the history alone.
LEMMA SetActive ==
    ASSUME NEW n \in Tracked, NEW p \in BOOLEAN
    PROVE  LET m == [n EXCEPT !.present = TRUE, !.active = p] IN
           /\ m \in Tracked /\ m.known = n.known /\ m.present /\ m.active = p
           /\ m.restarts = n.restarts /\ m.state = n.state /\ m.size = n.size
BY DEF Tracked

LEMMA SetSize ==
    ASSUME NEW n \in Tracked, NEW z \in Size \cup {NoSize}
    PROVE  LET m == [n EXCEPT !.size = z, !.present = TRUE] IN
           /\ m \in Tracked /\ m.known = n.known /\ m.present /\ m.active = n.active
           /\ m.restarts = n.restarts /\ m.state = n.state /\ m.size = z
BY DEF Tracked

LEMMA EventShape ==
    ASSUME NEW r \in Tracked, NEW b \in Entry \cup {Unlisted}, NEW a \in Entry \cup {Unlisted},
           Matches(r, b), Blank(r)
    PROVE  LET s == OnEvent(r, Diff(b, a), a.size) IN
           /\ s.record \in Tracked
           /\ s.record.restarts = r.restarts /\ s.record.state = r.state
           /\ r.known => s.record.known
           /\ a.listed => s.record.known
           /\ ~a.listed => ~s.record.present /\ ~s.record.active
           /\ Blank(s.record)
           /\ (s.action = "Spawn") <=> (~b.active /\ a.active)
           /\ (s.action = "Teardown") <=> (b.active /\ ~a.active)
<1> DEFINE d == Diff(b, a)
           s == OnEvent(r, d, a.size)
<1>1. /\ r.known \in BOOLEAN /\ r.present \in BOOLEAN /\ r.active \in BOOLEAN
      /\ r.state \in Health /\ r.restarts \in Seq(Nat) /\ r.size \in Size \cup {NoSize}
      /\ b.listed \in BOOLEAN /\ b.active \in BOOLEAN /\ a.listed \in BOOLEAN /\ a.active \in BOOLEAN
      /\ a.size \in Size \cup {NoSize}
      /\ b.active => b.listed
      /\ a.active => a.listed
  <2>1. /\ r.known \in BOOLEAN /\ r.present \in BOOLEAN /\ r.active \in BOOLEAN
        /\ r.state \in Health /\ r.restarts \in Seq(Nat) /\ r.size \in Size \cup {NoSize}
    BY DEF Tracked
  <2>2. ASSUME NEW e \in Entry \cup {Unlisted}
        PROVE  /\ e.listed \in BOOLEAN /\ e.active \in BOOLEAN /\ e.size \in Size \cup {NoSize}
               /\ e.active => e.listed
    <3>1. CASE e \in Entry
      <4>1. e.listed = TRUE /\ e.active \in BOOLEAN /\ e.size \in Size
        BY <3>1 DEF Entry
      <4> QED
        BY <4>1
    <3>2. CASE e = Unlisted
      <4>1. e.listed = FALSE /\ e.active = FALSE /\ e.size = NoSize
        BY <3>2 DEF Unlisted
      <4> QED
        BY <4>1
    <3> QED
      BY <3>1, <3>2
  <2> QED
    BY <2>1, <2>2
<1>2. \A p, q \in BOOLEAN :
          LET n == Entered(r, p, q) IN
          /\ n \in Tracked /\ n.known /\ n.restarts = r.restarts /\ n.state = r.state
          /\ r.known => n = r
          /\ ~r.known => n.present = p /\ n.active = q
  BY <1>1 DEF Entered, Unknown, Tracked, Health, Blank
<1>3. CASE d \in {"Added", "Activated"}
  <2> DEFINE n == Entered(r, FALSE, FALSE)
  <2>1. s = [record |-> [n EXCEPT !.present = TRUE, !.active = TRUE], action |-> "Spawn"]
    BY <1>3 DEF OnEvent
  <2>2. ~b.active /\ a.active
    BY <1>1, <1>3 DEF Diff
  <2>3. n \in Tracked /\ n.known /\ n.restarts = r.restarts /\ n.state = r.state
    BY <1>2
  <2> HIDE DEF n
  <2>4. /\ s.record \in Tracked /\ s.record.known /\ s.action = "Spawn"
        /\ s.record.restarts = n.restarts /\ s.record.state = n.state
    <3>1. n.active \in BOOLEAN
      BY <2>3 DEF Tracked
    <3> DEFINE m == [n EXCEPT !.present = TRUE, !.active = TRUE]
    <3>2. /\ m \in Tracked /\ m.known = n.known
          /\ m.restarts = n.restarts /\ m.state = n.state
      BY <2>3, SetActive
    <3>3. s.record = m /\ s.action = "Spawn"
      BY <2>1
    <3> HIDE DEF m, s
    <3> QED
      BY <2>3, <3>1, <3>2, <3>3
  <2> QED
    BY <1>1, <2>2, <2>3, <2>4 DEF Blank
<1>4. CASE d = "Deactivated"
  <2> DEFINE n == Entered(r, TRUE, FALSE)
  <2>1. s = [record |-> [n EXCEPT !.present = TRUE, !.active = FALSE],
             action |-> IF n.active THEN "Teardown" ELSE "None"]
    BY <1>4 DEF OnEvent
  <2>2. a.listed /\ ~a.active
    BY <1>1, <1>4 DEF Diff
  <2>3. n \in Tracked /\ n.known /\ n.restarts = r.restarts /\ n.state = r.state
    BY <1>2
  <2>4. n.active <=> b.active
    BY <1>1, <1>2 DEF Matches, Blank
  <2> HIDE DEF n
  <2>5. /\ s.record \in Tracked /\ s.record.known
        /\ s.record.restarts = n.restarts /\ s.record.state = n.state
        /\ s.action = IF n.active THEN "Teardown" ELSE "None"
    <3>1. n.active \in BOOLEAN
      BY <2>3 DEF Tracked
    <3> DEFINE m == [n EXCEPT !.present = TRUE, !.active = FALSE]
    <3>2. /\ m \in Tracked /\ m.known = n.known
          /\ m.restarts = n.restarts /\ m.state = n.state
      BY <2>3, SetActive
    <3>3. s.record = m /\ s.action = IF n.active THEN "Teardown" ELSE "None"
      BY <2>1
    <3> HIDE DEF m, s
    <3> QED
      BY <2>3, <3>1, <3>2, <3>3
  <2> QED
    BY <1>1, <2>2, <2>3, <2>4, <2>5 DEF Blank
<1>5. CASE d = "Removed"
  <2>1. b.listed /\ ~a.listed /\ ~a.active
    BY <1>1, <1>5 DEF Diff
  <2>2. r.known /\ (r.active <=> b.active)
    BY <1>1, <2>1 DEF Matches
  <2>3. s = [record |-> Gone(r), action |-> IF r.active THEN "Teardown" ELSE "None"]
    BY <1>5, <2>2 DEF OnEvent
  <2>4. /\ Gone(r) \in Tracked /\ Gone(r).known /\ ~Gone(r).present /\ ~Gone(r).active
        /\ Gone(r).restarts = r.restarts /\ Gone(r).state = r.state
    BY <1>1, <2>2 DEF Gone, Tracked
  <2> QED
    BY <1>1, <2>1, <2>2, <2>3, <2>4 DEF Blank
<1>6. CASE d = "Resized"
  <2> DEFINE n == Entered(r, TRUE, TRUE)
  <2>1. s = [record |-> [n EXCEPT !.size = a.size, !.present = TRUE],
             action |-> IF n.active /\ n.size # a.size THEN "Resize" ELSE "None"]
    BY <1>6 DEF OnEvent
  <2>2. b.active /\ a.active
    BY <1>1, <1>6 DEF Diff
  <2>3. n \in Tracked /\ n.known /\ n.restarts = r.restarts /\ n.state = r.state
    BY <1>2
  <2> HIDE DEF n
  <2>4. /\ s.record \in Tracked /\ s.record.known
        /\ s.record.restarts = n.restarts /\ s.record.state = n.state
        /\ s.action \in {"Resize", "None"}
    <3> DEFINE m == [n EXCEPT !.size = a.size, !.present = TRUE]
    <3>2. /\ m \in Tracked /\ m.known = n.known
          /\ m.restarts = n.restarts /\ m.state = n.state
      BY <1>1, <2>3, SetSize
    <3>3. s.record = m /\ s.action \in {"Resize", "None"}
      BY <2>1
    <3> HIDE DEF m, s
    <3> QED
      BY <2>3, <3>2, <3>3
  <2> QED
    BY <1>1, <2>2, <2>3, <2>4 DEF Blank
<1>7. CASE d = "None"
  <2>1. s = [record |-> r, action |-> "None"]
    BY <1>7 DEF OnEvent
  <2>2. (a.listed <=> b.listed) /\ (a.active <=> b.active)
    BY <1>1, <1>7 DEF Diff
  <2>3. s.record = r /\ s.action = "None"
    BY <2>1
  <2> QED
    BY <1>1, <2>2, <2>3 DEF Matches
<1>8. d \in {"Added", "Activated", "Deactivated", "Removed", "Resized", "None"}
  BY DEF Diff
<1> QED
  BY <1>3, <1>4, <1>5, <1>6, <1>7, <1>8

\* What the window does to a record.
LEMMA ExpireShape ==
    ASSUME NEW r \in Tracked, NEW now \in Nat
    PROVE  LET x == Expire(r, now) IN
           /\ x \in Tracked
           /\ x.known = r.known /\ x.present = r.present /\ x.active = r.active /\ x.size = r.size
           /\ x.restarts = Kept(r.restarts, now)
           /\ x.state = IF r.state = "Recovering" /\ Kept(r.restarts, now) = << >>
                        THEN "Active" ELSE r.state
<1> DEFINE k == Kept(r.restarts, now)
           st == IF r.state = "Recovering" /\ k = << >> THEN "Active" ELSE r.state
<1>1. Expire(r, now) = [r EXCEPT !.restarts = k, !.state = st]
  BY DEF Expire, Kept
<1>2. r.restarts \in Seq(Nat) /\ r.state \in Health
  BY DEF Tracked
<1>3. k \in Seq(Nat) /\ st \in Health
  BY <1>2, KeptShape DEF Health
<1> HIDE DEF k, st
<1>4. LET x == [r EXCEPT !.restarts = k, !.state = st] IN
      /\ x \in Tracked
      /\ x.known = r.known /\ x.present = r.present /\ x.active = r.active /\ x.size = r.size
      /\ x.restarts = k /\ x.state = st
  BY <1>3 DEF Tracked
<1> QED
  BY <1>1, <1>4 DEF k, st

\* The window keeps a record as good as it was.
LEMMA ExpireKeeps ==
    ASSUME NEW r \in Tracked, NEW t \in Seq(Nat), NEW now \in Nat,
           Blank(r), Healthy(r), Dated(r, t, now)
    PROVE  LET x == Expire(r, now) IN
           Blank(x) /\ Healthy(x) /\ Dated(x, t, now)
<1> DEFINE k == Kept(r.restarts, now)
           x == Expire(r, now)
<1>1. r.restarts \in Seq(Nat)
  BY DEF Tracked
<1>2. /\ k \in Seq(Nat) /\ Len(k) \in Nat /\ Len(k) <= Len(r.restarts)
      /\ IsEndOf(k, t) /\ StaleBefore(k, t, now)
  <2>1. k \in Seq(Nat) /\ IsEndOf(k, r.restarts)
    BY <1>1, KeptShape
  <2>2. IsEndOf(k, t) /\ StaleBefore(k, t, now)
    BY <1>1, KeptOfHistory DEF Dated
  <2> QED
    BY <2>1, <2>2, LenProperties DEF IsEndOf
<1>3. /\ x \in Tracked
      /\ x.known = r.known /\ x.present = r.present /\ x.active = r.active
      /\ x.restarts = k
      /\ x.state = IF r.state = "Recovering" /\ k = << >> THEN "Active" ELSE r.state
  BY ExpireShape
<1> HIDE DEF x, k
<1>4. r.restarts = << >> => k = << >>
  BY <1>2, EmptySeq
<1>5. k # << >> => Len(k) > 0
  BY <1>2, EmptySeq
<1>6. Blank(x)
  BY <1>3, <1>4 DEF Blank
<1>7. Healthy(x)
  <2>1. Len(r.restarts) \in Nat
    BY <1>1, LenProperties
  <2> QED
    BY <1>2, <1>3, <1>4, <1>5, <2>1, SupervisorAssumption DEF Healthy, SupervisorAssumption
<1>8. Dated(x, t, now)
  BY <1>2, <1>3 DEF Dated
<1> QED
  BY <1>6, <1>7, <1>8 DEF x

\* Time only makes failures older.
LEMMA Ages ==
    ASSUME NEW r \in Tracked, NEW t \in Seq(Nat), NEW now \in Nat, Dated(r, t, now)
    PROVE  Dated(r, t, now + 1)
<1>1. /\ Len(t) \in Nat /\ Len(r.restarts) \in Nat
      /\ \A i \in 1..Len(t) : t[i] \in Nat /\ t[i] <= now
  <2>1. r.restarts \in Seq(Nat)
    BY DEF Tracked
  <2> QED
    BY <2>1, LenProperties, ElementOfSeq DEF Dated, InTime
<1>2. ASSUME NEW i \in 1..(Len(t) - Len(r.restarts))
      PROVE  ~Fresh(t[i], now + 1)
  <2>1. i \in 1..Len(t) /\ ~Fresh(t[i], now)
    BY <1>1 DEF Dated, StaleBefore
  <2> QED
    BY <1>1, <2>1, SupervisorAssumption DEF Fresh, SupervisorAssumption
<1>3. InTime(t, now + 1)
  BY <1>1 DEF Dated, InTime
<1> QED
  BY <1>2, <1>3 DEF Dated, StaleBefore

\* The record of an output that failed just now.
Counted(r, now) == Expire([r EXCEPT !.restarts = Append(@, now)], now)
Spent(r, now) == IF Len(Counted(r, now).restarts) >= MaxRestarts THEN "Failed" ELSE "Recovering"
Struck(r, now) == [Counted(r, now) EXCEPT !.state = Spent(r, now)]

\* A failure is counted with those that are recent, itself among them.
LEMMA FailureShape ==
    ASSUME NEW r \in Tracked, NEW t \in Seq(Nat), NEW now \in Nat,
           r.known, Dated(r, t, now)
    PROVE  LET y == Struck(r, now) IN
           /\ y \in Tracked
           /\ y.known /\ y.present = r.present /\ y.active = r.active /\ y.size = r.size
           /\ y.state = IF Len(y.restarts) >= MaxRestarts THEN "Failed" ELSE "Recovering"
           /\ Blank(y) /\ Healthy(y) /\ Dated(y, Append(t, now), now)
           /\ Len(y.restarts) > 0 => Fresh(y.restarts[1], now)
<1> DEFINE g == [r EXCEPT !.restarts = Append(@, now)]
           u == Append(t, now)
           x == Expire(g, now)
           st == IF Len(x.restarts) >= MaxRestarts THEN "Failed" ELSE "Recovering"
           y == [x EXCEPT !.state = st]
<1>1. Struck(r, now) = y
  BY DEF Struck, Spent, Counted
<1>2. r.restarts \in Seq(Nat) /\ Append(r.restarts, now) \in Seq(Nat) /\ u \in Seq(Nat)
  BY AppendProperties DEF Tracked
<1>3. /\ g \in Tracked /\ g.restarts = Append(r.restarts, now)
      /\ g.known = r.known /\ g.present = r.present /\ g.active = r.active /\ g.size = r.size
  BY <1>2 DEF Tracked
<1>4. /\ IsEndOf(g.restarts, u) /\ StaleBefore(g.restarts, u, now) /\ InTime(u, now)
  BY <1>2, <1>3, GrowTogether DEF Dated
<1> HIDE DEF g
<1>5. /\ x \in Tracked /\ x.restarts = Kept(g.restarts, now)
      /\ x.known = g.known /\ x.present = g.present /\ x.active = g.active /\ x.size = g.size
  BY <1>3, ExpireShape
<1> HIDE DEF x
<1>6. st \in {"Failed", "Recovering"}
  OBVIOUS
<1> HIDE DEF st
<1>7. /\ y \in Tracked /\ y.restarts = x.restarts /\ y.state = st
      /\ y.known = x.known /\ y.present = x.present /\ y.active = x.active /\ y.size = x.size
  BY <1>5, <1>6 DEF Tracked, Health
<1> HIDE DEF y
<1>8. g.restarts \in Seq(Nat)
  BY <1>2, <1>3
<1>9. /\ IsEndOf(y.restarts, u) /\ StaleBefore(y.restarts, u, now)
      /\ y.restarts \in Seq(Nat) /\ Len(y.restarts) \in Nat
      /\ Len(y.restarts) > 0 => Fresh(y.restarts[1], now)
  BY <1>2, <1>4, <1>5, <1>7, <1>8, KeptShape, KeptOfHistory, LenProperties
<1>10. Len(y.restarts) > 0
  <2>1. Len(u) = Len(t) + 1 /\ u[Len(t) + 1] = now /\ Len(t) \in Nat
    BY AppendProperties, LenProperties
  <2>2. Fresh(now, now)
    BY SupervisorAssumption DEF Fresh, SupervisorAssumption
  <2> HIDE DEF u
  <2>3. SUFFICES ASSUME Len(y.restarts) = 0 PROVE FALSE
    BY <1>9
  <2>4. Len(t) + 1 \in 1..(Len(u) - Len(y.restarts))
    BY <2>1, <2>3
  <2>5. ~Fresh(u[Len(t) + 1], now)
    BY <1>9, <2>4 DEF StaleBefore
  <2> QED
    BY <2>1, <2>2, <2>5
<1>11. y.state = IF Len(y.restarts) >= MaxRestarts THEN "Failed" ELSE "Recovering"
  BY <1>7 DEF st
<1>12. Healthy(y)
  BY <1>9, <1>10, <1>11, SupervisorAssumption DEF Healthy, SupervisorAssumption
<1>13. Dated(y, u, now)
  BY <1>4, <1>9 DEF Dated
<1>14. y.known /\ y.present = r.present /\ y.active = r.active /\ y.size = r.size
  BY <1>3, <1>5, <1>7
<1>15. Blank(y)
  BY <1>14 DEF Blank
<1> QED
  BY <1>1, <1>7, <1>9, <1>11, <1>12, <1>13, <1>14, <1>15

-----------------------------------------------------------------------------
\* The supervisor's methods, output by output.

LEMMA RecordFailureShape ==
    ASSUME NEW rs \in [Output -> Tracked], NEW o \in Output, NEW now \in Nat
    PROVE  RecordFailure(rs, o, now) =
               [p \in Output |-> IF p = o THEN Struck(rs[o], now) ELSE Expire(rs[p], now)]
<1> DEFINE aged == [p \in Output |-> IF p = o THEN Counted(rs[o], now) ELSE Expire(rs[p], now)]
<1>1. RecordFailure(rs, o, now) =
          [aged EXCEPT ![o].state = IF Len(aged[o].restarts) >= MaxRestarts
                                    THEN "Failed" ELSE "Recovering"]
  BY DEF RecordFailure, Counted
<1>2. aged[o] = Counted(rs[o], now)
  OBVIOUS
<1>3. RecordFailure(rs, o, now) = [aged EXCEPT ![o].state = Spent(rs[o], now)]
  BY <1>1, <1>2 DEF Spent
<1>4. RecordFailure(rs, o, now) =
          [p \in Output |-> IF p = o THEN [aged[o] EXCEPT !.state = Spent(rs[o], now)]
                            ELSE aged[p]]
  BY <1>3
<1>5. \A p \in Output : p # o => aged[p] = Expire(rs[p], now)
  OBVIOUS
<1> HIDE DEF aged
<1> QED
  BY <1>2, <1>4, <1>5 DEF Struck

\* A record once its entry went from b to a.
Told(r, b, a) == OnEvent(r, Diff(b, a), a.size)
Seen(r, b, a, now) ==
    LET x == Expire(Told(r, b, a).record, now) IN
    IF a.listed /\ x.known
    THEN [x EXCEPT !.present = TRUE, !.active = a.active, !.size = a.size]
    ELSE x

LEMMA ObserveShape ==
    ASSUME NEW rs, NEW before, NEW after, NEW now
    PROVE  ObserveSnapshot(rs, before, after, now) =
               [records |-> [o \in Output |-> Seen(rs[o], before[o], after[o], now)],
                actions |-> [o \in Output |-> Told(rs[o], before[o], after[o]).action]]
<1> DEFINE step == [o \in Output |-> OnEvent(rs[o], Diff(before[o], after[o]), after[o].size)]
           aged == [o \in Output |-> Expire(step[o].record, now)]
           recs == [o \in Output |->
                       IF after[o].listed /\ aged[o].known
                       THEN [aged[o] EXCEPT !.present = TRUE, !.active = after[o].active,
                                            !.size = after[o].size]
                       ELSE aged[o]]
           acts == [o \in Output |-> step[o].action]
<1>1. ObserveSnapshot(rs, before, after, now) = [records |-> recs, actions |-> acts]
  BY DEF ObserveSnapshot
<1>2. \A o \in Output : step[o] = Told(rs[o], before[o], after[o])
  BY DEF Told
<1>3. acts = [o \in Output |-> Told(rs[o], before[o], after[o]).action]
  BY <1>2
<1> HIDE DEF step
<1>4. \A o \in Output : aged[o] = Expire(Told(rs[o], before[o], after[o]).record, now)
  BY <1>2
<1> HIDE DEF aged
<1>5. recs = [o \in Output |-> Seen(rs[o], before[o], after[o], now)]
  BY <1>4 DEF Seen
<1> QED
  BY <1>1, <1>3, <1>5

\* An observation fits a record to the new entry.
LEMMA SeenShape ==
    ASSUME NEW r \in Tracked, NEW b \in Entry \cup {Unlisted}, NEW a \in Entry \cup {Unlisted},
           NEW t \in Seq(Nat), NEW now \in Nat,
           Matches(r, b), Blank(r), Healthy(r), Dated(r, t, now)
    PROVE  LET y == Seen(r, b, a, now) IN
           /\ y \in Tracked
           /\ Matches(y, a) /\ Blank(y) /\ Healthy(y) /\ Dated(y, t, now)
           /\ y.state = "Failed" => r.state = "Failed"
<1> DEFINE s == Told(r, b, a).record
           x == Expire(s, now)
           z == [x EXCEPT !.present = TRUE, !.active = a.active, !.size = a.size]
           y == Seen(r, b, a, now)
<1>1. /\ s \in Tracked /\ s.restarts = r.restarts /\ s.state = r.state
      /\ a.listed => s.known
      /\ ~a.listed => ~s.present /\ ~s.active
      /\ Blank(s)
  BY EventShape DEF Told
<1> HIDE DEF s
<1>2. Healthy(s) /\ Dated(s, t, now)
  BY <1>1 DEF Healthy, Dated
<1>3. Blank(x) /\ Healthy(x) /\ Dated(x, t, now)
  BY <1>1, <1>2, ExpireKeeps
<1>4. /\ x \in Tracked /\ x.known = s.known /\ x.present = s.present /\ x.active = s.active
      /\ x.state = "Failed" => s.state = "Failed"
  BY <1>1, ExpireShape
<1>5. y = IF a.listed /\ x.known THEN z ELSE x
  BY DEF Seen, s
<1> HIDE DEF x
<1>6. a.active \in BOOLEAN /\ a.size \in Size \cup {NoSize}
  <2>1. CASE a \in Entry
    BY <2>1 DEF Entry
  <2>2. CASE a = Unlisted
    BY <2>2 DEF Unlisted
  <2> QED
    BY <2>1, <2>2
<1>7. /\ z \in Tracked /\ z.known = x.known /\ z.restarts = x.restarts /\ z.state = x.state
      /\ z.present /\ z.active = a.active /\ z.size = a.size
  BY <1>4, <1>6 DEF Tracked
<1> HIDE DEF y, z
<1>8. CASE a.listed
  <2>1. y = z /\ x.known
    BY <1>1, <1>4, <1>5, <1>8
  <2>2. Matches(z, a) /\ Blank(z)
    BY <1>7, <1>8, <2>1 DEF Matches, Blank
  <2>3. Healthy(z) /\ Dated(z, t, now)
    BY <1>3, <1>7 DEF Healthy, Dated
  <2> QED
    BY <1>1, <1>4, <1>7, <2>1, <2>2, <2>3 DEF y
<1>9. CASE ~a.listed
  <2>1. y = x
    BY <1>5, <1>9
  <2>2. Matches(x, a)
    BY <1>1, <1>4, <1>9 DEF Matches
  <2> QED
    BY <1>1, <1>3, <1>4, <2>1, <2>2 DEF y
<1> QED
  BY <1>8, <1>9

-----------------------------------------------------------------------------
\* The invariant.

Sound(r, e, t, now) == Matches(r, e) /\ Blank(r) /\ Healthy(r) /\ Dated(r, t, now)

IInv ==
    /\ records \in [Output -> Tracked]
    /\ list \in OutputList
    /\ clock \in 0..MaxTime
    /\ drawn = {o \in Output : list[o].active}
    /\ reported \in [Output -> Seq(0..MaxTime)]
    /\ \A o \in Output : Sound(records[o], list[o], reported[o], clock)

LEMMA TimesAreNumbers ==
    ASSUME NEW s \in Seq(0..MaxTime)
    PROVE  s \in Seq(Nat)
<1>1. /\ Len(s) \in Nat /\ \A i \in 1..Len(s) : s[i] \in Nat
      /\ s = [i \in 1..Len(s) |-> s[i]]
  BY LenProperties, ElementOfSeq, BoundAssumption DEF BoundAssumption
<1> QED
  BY <1>1, IsASeq

\* The types of what the invariant is about, output by output.
LEMMA Typed ==
    ASSUME IInv, NEW o \in Output
    PROVE  /\ records[o] \in Tracked /\ list[o] \in Entry \cup {Unlisted}
           /\ reported[o] \in Seq(Nat) /\ reported[o] \in Seq(0..MaxTime) /\ clock \in Nat
           /\ Matches(records[o], list[o]) /\ Blank(records[o]) /\ Healthy(records[o])
           /\ Dated(records[o], reported[o], clock)
BY TimesAreNumbers, BoundAssumption DEF IInv, OutputList, Sound, BoundAssumption

LEMMA Initial == Init => IInv
<1> SUFFICES ASSUME Init PROVE IInv
  OBVIOUS
<1>1. Unknown \in Tracked /\ << >> \in Seq(0..MaxTime) /\ Len(<< >>) = 0
  BY EmptySeq DEF Unknown, Tracked, Health
<1>2. Matches(Unknown, Unlisted) /\ Blank(Unknown) /\ Healthy(Unknown)
  BY DEF Matches, Blank, Healthy, Unknown, Unlisted
<1>3. Dated(Unknown, << >>, 0)
  BY <1>1 DEF Dated, IsEndOf, StaleBefore, InTime, Unknown
<1>4. \A o \in Output : records[o] = Unknown /\ list[o] = Unlisted /\ reported[o] = << >>
  BY DEF Init, Nobody
<1>5. drawn = {o \in Output : list[o].active}
  BY <1>4 DEF Init, Unlisted
<1> QED
  BY <1>1, <1>2, <1>3, <1>4, <1>5, BoundAssumption
     DEF Init, IInv, Nobody, OutputList, Sound, BoundAssumption

LEMMA ObserveStep == IInv /\ Observe => IInv'
<1> SUFFICES ASSUME IInv, Observe PROVE IInv'
  OBVIOUS
<1>1. PICK after \in OutputList :
         LET r == ObserveSnapshot(records, list, after, clock) IN
         /\ records' = r.records
         /\ list' = after
         /\ drawn' = (drawn \cup {o \in Output : r.actions[o] = "Spawn"})
                         \ {o \in Output : r.actions[o] = "Teardown"}
         /\ UNCHANGED <<clock, reported>>
  BY DEF Observe
<1>2. \A o \in Output : after[o] \in Entry \cup {Unlisted}
  BY DEF OutputList
<1> DEFINE new == [o \in Output |-> Seen(records[o], list[o], after[o], clock)]
           act == [o \in Output |-> Told(records[o], list[o], after[o]).action]
<1>3. records' = new /\ list' = after /\ clock' = clock /\ reported' = reported
  BY <1>1, ObserveShape
<1>4. drawn' = (drawn \cup {o \in Output : act[o] = "Spawn"}) \ {o \in Output : act[o] = "Teardown"}
  BY <1>1, ObserveShape
<1>5. ASSUME NEW o \in Output
      PROVE  /\ new[o] \in Tracked
             /\ Sound(new[o], after[o], reported[o], clock)
             /\ (act[o] = "Spawn") <=> (~list[o].active /\ after[o].active)
             /\ (act[o] = "Teardown") <=> (list[o].active /\ ~after[o].active)
  <2>1. /\ Seen(records[o], list[o], after[o], clock) \in Tracked
        /\ Sound(Seen(records[o], list[o], after[o], clock), after[o], reported[o], clock)
    BY <1>2, Typed, SeenShape DEF Sound
  <2>2. LET a == Told(records[o], list[o], after[o]).action IN
        /\ (a = "Spawn") <=> (~list[o].active /\ after[o].active)
        /\ (a = "Teardown") <=> (list[o].active /\ ~after[o].active)
    BY <1>2, Typed, EventShape DEF Told
  <2> QED
    BY <2>1, <2>2
<1>6. drawn' = {o \in Output : list'[o].active}
  <2> HIDE DEF act, new
  <2> QED
    BY <1>3, <1>4, <1>5 DEF IInv
<1>7. records' \in [Output -> Tracked]
  BY <1>3, <1>5
<1>8. \A o \in Output : Sound(records'[o], list'[o], reported'[o], clock')
  <2> HIDE DEF new
  <2> QED
    BY <1>3, <1>5
<1> QED
  BY <1>3, <1>6, <1>7, <1>8 DEF IInv

\* A failure: the record it strikes, and the others, which only age.
LEMMA FailureRecords ==
    ASSUME IInv, NEW o \in Output, Failure(o)
    PROVE  /\ records' = [p \in Output |-> IF p = o THEN Struck(records[o], clock)
                                           ELSE Expire(records[p], clock)]
           /\ reported' = [reported EXCEPT ![o] = Append(@, clock)]
           /\ reported' \in [Output -> Seq(0..MaxTime)]
           /\ reported'[o] = Append(reported[o], clock)
           /\ \A p \in Output : p # o => reported'[p] = reported[p]
           /\ records[o].known
           /\ list' = list /\ clock' = clock /\ drawn' = drawn
<1>1. /\ reported' = [reported EXCEPT ![o] = Append(@, clock)]
      /\ records' = RecordFailure(records, o, clock) /\ records[o].known
      /\ list' = list /\ clock' = clock /\ drawn' = drawn
  BY DEF Failure
<1>2. Append(reported[o], clock) \in Seq(0..MaxTime)
  BY Typed, AppendProperties DEF IInv
<1>3. RecordFailure(records, o, clock) =
          [p \in Output |-> IF p = o THEN Struck(records[o], clock) ELSE Expire(records[p], clock)]
  <2>1. records \in [Output -> Tracked] /\ clock \in Nat
    BY Typed DEF IInv
  <2> QED
    BY <2>1, RecordFailureShape
<1> QED
  BY <1>1, <1>2, <1>3 DEF IInv

LEMMA FailureStep == ASSUME IInv, NEW o \in Output, Failure(o) PROVE IInv'
<1> DEFINE new == [p \in Output |-> IF p = o THEN Struck(records[o], clock)
                                   ELSE Expire(records[p], clock)]
<1>1. /\ records' = new /\ list' = list /\ clock' = clock /\ drawn' = drawn
      /\ reported' \in [Output -> Seq(0..MaxTime)]
      /\ reported'[o] = Append(reported[o], clock)
      /\ \A p \in Output : p # o => reported'[p] = reported[p]
      /\ records[o].known
  BY FailureRecords
<1>2. new[o] \in Tracked /\ Sound(new[o], list[o], reported'[o], clock)
  <2> DEFINE y == Struck(records[o], clock)
  <2>1. /\ y \in Tracked
        /\ y.known /\ y.present = records[o].present /\ y.active = records[o].active
        /\ y.size = records[o].size
        /\ Blank(y) /\ Healthy(y) /\ Dated(y, reported'[o], clock)
    BY <1>1, Typed, FailureShape
  <2> HIDE DEF y
  <2>2. Matches(y, list[o])
    BY <2>1, Typed DEF Matches
  <2>3. new[o] = y
    BY DEF y
  <2> QED
    BY <2>1, <2>2, <2>3 DEF Sound
<1>3. ASSUME NEW p \in Output, p # o
      PROVE  new[p] \in Tracked /\ Sound(new[p], list[p], reported'[p], clock)
  <2> DEFINE x == Expire(records[p], clock)
  <2>1. /\ x \in Tracked
        /\ x.known = records[p].known /\ x.present = records[p].present
        /\ x.active = records[p].active /\ x.size = records[p].size
    BY Typed, ExpireShape
  <2>2. Blank(x) /\ Healthy(x) /\ Dated(x, reported[p], clock)
    BY Typed, ExpireKeeps
  <2> HIDE DEF x
  <2>3. Matches(x, list[p])
    BY <2>1, Typed DEF Matches
  <2>4. new[p] = x
    BY <1>3 DEF x
  <2> QED
    BY <1>1, <1>3, <2>1, <2>2, <2>3, <2>4 DEF Sound
<1>4. \A p \in Output : new[p] \in Tracked /\ Sound(new[p], list[p], reported'[p], clock)
  BY <1>2, <1>3
<1>5. new \in [Output -> Tracked]
  BY <1>4
<1> HIDE DEF new
<1> QED
  BY <1>1, <1>4, <1>5 DEF IInv

LEMMA SuccessStep == ASSUME IInv, NEW o \in Output, Success(o) PROVE IInv'
<1> DEFINE y == [records[o] EXCEPT !.restarts = << >>, !.state = "Active"]
<1>1. /\ records[o].known /\ list' = list /\ clock' = clock /\ drawn' = drawn
      /\ reported' = [reported EXCEPT ![o] = << >>]
      /\ records' = [records EXCEPT ![o].restarts = << >>, ![o].state = "Active"]
  BY DEF Success, RecordSuccess
<1>2. /\ y \in Tracked /\ y.known /\ y.restarts = << >> /\ y.state = "Active"
      /\ y.present = records[o].present /\ y.active = records[o].active
      /\ y.size = records[o].size
  BY <1>1, Typed, EmptySeq DEF Tracked, Health
<1>3. records' = [records EXCEPT ![o] = y]
  BY <1>1 DEF IInv
<1> HIDE DEF y
<1>4. << >> \in Seq(0..MaxTime) /\ Len(<< >>) = 0
  BY EmptySeq
<1>5. Sound(y, list[o], << >>, clock)
  <2>1. Matches(y, list[o])
    BY <1>1, <1>2, Typed DEF Matches
  <2>2. Blank(y) /\ Healthy(y)
    BY <1>2 DEF Blank, Healthy
  <2>3. Dated(y, << >>, clock)
    BY <1>2, <1>4 DEF Dated, IsEndOf, StaleBefore, InTime
  <2> QED
    BY <2>1, <2>2, <2>3 DEF Sound
<1> QED
  BY <1>1, <1>2, <1>3, <1>4, <1>5 DEF IInv

LEMMA ForgetStep == ASSUME IInv, NEW o \in Output, Forget(o) PROVE IInv'
<1>1. /\ ~list[o].listed /\ list' = list /\ clock' = clock /\ drawn' = drawn
      /\ reported' = [reported EXCEPT ![o] = << >>]
      /\ records' = [records EXCEPT ![o] = Unknown]
  BY DEF Forget
<1>2. Unknown \in Tracked /\ << >> \in Seq(0..MaxTime) /\ Len(<< >>) = 0
  BY EmptySeq DEF Unknown, Tracked, Health
<1>3. Sound(Unknown, list[o], << >>, clock)
  <2>1. Matches(Unknown, list[o]) /\ Blank(Unknown) /\ Healthy(Unknown)
    BY <1>1 DEF Matches, Blank, Healthy, Unknown
  <2>2. Dated(Unknown, << >>, clock)
    BY <1>2 DEF Dated, IsEndOf, StaleBefore, InTime, Unknown
  <2> QED
    BY <2>1, <2>2 DEF Sound
<1> QED
  BY <1>1, <1>2, <1>3 DEF IInv

LEMMA TickStep == IInv /\ Tick => IInv'
<1> SUFFICES ASSUME IInv, Tick PROVE IInv'
  OBVIOUS
<1>1. /\ clock' = clock + 1 /\ clock' \in 0..MaxTime
      /\ UNCHANGED <<records, list, drawn, reported>>
  BY BoundAssumption DEF Tick, IInv, BoundAssumption
<1>2. \A o \in Output : Sound(records[o], list[o], reported[o], clock + 1)
  BY Typed, Ages DEF Sound
<1> QED
  BY <1>1, <1>2 DEF IInv

LEMMA Preserved == IInv /\ [Next]_vars => IInv'
<1>1. ASSUME IInv, UNCHANGED vars PROVE IInv'
  BY <1>1 DEF IInv, vars
<1> QED
  BY <1>1, ObserveStep, FailureStep, SuccessStep, ForgetStep, TickStep DEF Next

LEMMA Invariance == Spec => []IInv
BY Initial, Preserved, PTL DEF Spec

-----------------------------------------------------------------------------
\* What follows.

\* Supervisor has its types: no restart lies in the future and a present
\* output has a size (supervisor.rs, Tracked).
THEOREM TypeCorrect == Spec => []TypeOK
<1>1. ASSUME IInv PROVE TypeOK
  <2>1. ASSUME NEW o \in Output, NEW i \in 1..Len(records[o].restarts)
        PROVE  records[o].restarts[i] <= clock
    <3> DEFINE s == records[o].restarts
               t == reported[o]
    <3>1. s \in Seq(Nat) /\ t \in Seq(Nat) /\ IsEndOf(s, t) /\ InTime(t, clock)
      BY <1>1, Typed DEF Dated, Tracked
    <3> HIDE DEF s, t
    <3>2. Len(s) \in Nat /\ Len(t) \in Nat /\ i \in 1..Len(s)
      BY <3>1, <2>1, LenProperties DEF s
    <3>3. s[i] = t[Len(t) - Len(s) + i] /\ Len(t) - Len(s) + i \in 1..Len(t)
      BY <3>1, <3>2 DEF IsEndOf
    <3>4. \A j \in 1..Len(t) : j <= j /\ t[j] <= clock
      BY <3>1, <3>2 DEF InTime
    <3> QED
      BY <3>3, <3>4 DEF s
  <2>2. ASSUME NEW o \in Output, records[o].present
        PROVE  records[o].size \in Size
    <3>1. list[o].listed /\ records[o].size = list[o].size
      BY <1>1, <2>2, Typed DEF Matches
    <3>2. list[o] \in Entry
      BY <1>1, <3>1, Typed DEF Unlisted
    <3> QED
      BY <3>1, <3>2 DEF Entry
  <2>3. drawn \subseteq Output
    BY <1>1 DEF IInv
  <2> QED
    BY <1>1, <2>1, <2>2, <2>3 DEF IInv, TypeOK
<1> QED
  BY <1>1, Invariance, PTL

\* Health tells the truth about the restart history (TrackedState).
THEOREM HealthTellsTruth == Spec => []HealthMatchesHistory
<1>1. ASSUME IInv PROVE HealthMatchesHistory
  BY <1>1, Typed DEF HealthMatchesHistory, Healthy
<1> QED
  BY <1>1, Invariance, PTL

\* The records list what the compositor lists, and a caller who obeys draws
\* on what is active (observe_snapshot and the actions it returns).
THEOREM NoGhosts == Spec => []NoGhostOutputs
<1>1. ASSUME IInv PROVE NoGhostOutputs
  <2>1. ASSUME NEW o \in Output
        PROVE  /\ (records[o].known /\ records[o].present) <=> list[o].listed
               /\ list[o].active => list[o].listed
    <3>1. list[o].active => list[o].listed
      <4>1. CASE list[o] \in Entry
        BY <4>1 DEF Entry
      <4>2. CASE list[o] = Unlisted
        BY <4>2 DEF Unlisted
      <4> QED
        BY <1>1, <4>1, <4>2, Typed
    <3> QED
      BY <1>1, <3>1, Typed DEF Matches
  <2>2. drawn = {o \in Output : list[o].listed /\ list[o].active}
    BY <1>1, <2>1 DEF IInv
  <2> QED
    BY <2>1, <2>2 DEF NoGhostOutputs
<1> QED
  BY <1>1, Invariance, PTL

\* A report about one output never makes another unusable (record_failure,
\* NFR-REL-1).
THEOREM FailuresStayHome == Spec => FailuresAreIsolated
<1> DEFINE Safe(o, p) ==
        o # p /\ reported'[o] # reported[o] /\ IsUsable(records[p]) => IsUsable(records'[p])
<1>1. ASSUME IInv, Next, NEW o \in Output, NEW p \in Output
      PROVE  Safe(o, p)
  <2>1. CASE Observe
    BY <2>1 DEF Observe
  <2>2. ASSUME NEW q \in Output, Failure(q) PROVE Safe(o, p)
    <3>1. CASE o = q /\ p # q
      <4>1. records'[p] = Expire(records[p], clock)
        BY <1>1, <2>2, <3>1, FailureRecords
      <4>2. records[p] \in Tracked /\ clock \in Nat
        BY <1>1, Typed
      <4> DEFINE x == Expire(records[p], clock)
      <4>3. /\ x.known = records[p].known /\ x.present = records[p].present
            /\ x.active = records[p].active
            /\ x.state = records[p].state \/ x.state = "Active"
        BY <4>2, ExpireShape
      <4> QED
        BY <4>1, <4>3 DEF IsUsable
    <3>2. CASE o # q
      BY <1>1, <2>2, <3>2, FailureRecords
    <3> QED
      BY <3>1, <3>2
  <2>3. ASSUME NEW q \in Output, Success(q) PROVE Safe(o, p)
    BY <1>1, <2>3 DEF Success, RecordSuccess, IInv
  <2>4. ASSUME NEW q \in Output, Forget(q) PROVE Safe(o, p)
    BY <1>1, <2>4 DEF Forget, IInv
  <2>5. CASE Tick
    BY <2>5 DEF Tick
  <2> QED
    BY <1>1, <2>1, <2>2, <2>3, <2>4, <2>5 DEF Next
<1>2. IInv /\ [Next]_vars =>
          [\A o, p \in Output :
              /\ o # p /\ reported'[o] # reported[o] /\ IsUsable(records[p])
              => IsUsable(records'[p])]_vars
  BY <1>1
<1> QED
  BY <1>2, Invariance, PTL DEF Spec, FailuresAreIsolated

\* An output is given up by the last of MaxRestarts recent failures, and by
\* nothing else (record_failure, expire_window).
THEOREM BudgetExact == Spec => BudgetIsExact
<1> DEFINE GivenUp(o) == records'[o].state = "Failed" /\ records[o].state # "Failed"
           Exact(o) ==
               /\ GivenUp(o) => Cardinality(Recent(o)) >= MaxRestarts
               /\ Len(reported'[o]) > Len(reported[o]) /\ Cardinality(Recent(o)) >= MaxRestarts
                      => records'[o].state = "Failed"
<1>1. ASSUME IInv, Next, NEW o \in Output
      PROVE  Exact(o)
  <2>1. Len(reported[o]) \in Nat /\ Len(<< >>) = 0
    BY <1>1, Typed, LenProperties, EmptySeq
  <2>2. CASE Observe
    <3>1. PICK after \in OutputList :
             /\ records' = ObserveSnapshot(records, list, after, clock).records
             /\ reported' = reported
      BY <2>2 DEF Observe
    <3>2. records'[o] = Seen(records[o], list[o], after[o], clock)
      BY <3>1, ObserveShape
    <3>3. after[o] \in Entry \cup {Unlisted}
      BY DEF OutputList
    <3>4. Seen(records[o], list[o], after[o], clock).state = "Failed" => records[o].state = "Failed"
      BY <1>1, <3>3, Typed, SeenShape
    <3> QED
      BY <2>1, <3>1, <3>2, <3>4
  <2>3. ASSUME NEW q \in Output, Failure(q) PROVE Exact(o)
    <3>1. CASE o = q
      <4> DEFINE y == Struck(records[o], clock)
                 u == Append(reported[o], clock)
      <4>1. records'[o] = y /\ reported'[o] = u /\ records[o].known
        BY <1>1, <2>3, <3>1, FailureRecords
      <4>2. /\ y \in Tracked /\ Dated(y, u, clock)
            /\ y.state = IF Len(y.restarts) >= MaxRestarts THEN "Failed" ELSE "Recovering"
            /\ Len(y.restarts) > 0 => Fresh(y.restarts[1], clock)
        BY <1>1, <4>1, Typed, FailureShape
      <4>3. u \in Seq(Nat) /\ clock \in Nat
        BY <1>1, Typed, AppendProperties
      <4> HIDE DEF y, u
      <4>4. y.restarts \in Seq(Nat)
        BY <4>2 DEF Tracked
      <4>5. Cardinality({i \in 1..Len(u) : clock - u[i] < Window}) = Len(y.restarts)
        BY <4>2, <4>3, <4>4, KeptCountsRecent DEF Dated
      <4>6. Cardinality(Recent(o)) = Len(y.restarts)
        BY <4>1, <4>5 DEF Recent
      <4> QED
        BY <4>1, <4>2, <4>6
    <3>2. CASE o # q
      <4>1. records'[o] = Expire(records[o], clock) /\ reported'[o] = reported[o]
        BY <1>1, <2>3, <3>2, FailureRecords
      <4>2. Expire(records[o], clock).state = "Failed" => records[o].state = "Failed"
        BY <1>1, Typed, ExpireShape
      <4> QED
        BY <2>1, <4>1, <4>2
    <3> QED
      BY <3>1, <3>2
  <2>4. ASSUME NEW q \in Output, Success(q) PROVE Exact(o)
    <3>1. /\ records'[o].state \in {"Active", records[o].state}
          /\ reported'[o] \in {<< >>, reported[o]}
      <4>1. CASE o = q
        BY <1>1, <2>4, <4>1, Typed DEF Success, RecordSuccess, IInv, Tracked
      <4>2. CASE o # q
        BY <1>1, <2>4, <4>2 DEF Success, RecordSuccess, IInv
      <4> QED
        BY <4>1, <4>2
    <3> QED
      BY <2>1, <3>1
  <2>5. ASSUME NEW q \in Output, Forget(q) PROVE Exact(o)
    <3>1. /\ records'[o].state \in {"Active", records[o].state}
          /\ reported'[o] \in {<< >>, reported[o]}
      BY <1>1, <2>5 DEF Forget, IInv, Unknown
    <3> QED
      BY <2>1, <3>1
  <2>6. CASE Tick
    BY <2>1, <2>6 DEF Tick
  <2> QED
    BY <1>1, <2>2, <2>3, <2>4, <2>5, <2>6 DEF Next
<1>2. IInv /\ [Next]_vars =>
          [\A o \in Output :
              /\ records'[o].state = "Failed" /\ records[o].state # "Failed"
                     => Cardinality(Recent(o)) >= MaxRestarts
              /\ Len(reported'[o]) > Len(reported[o]) /\ Cardinality(Recent(o)) >= MaxRestarts
                     => records'[o].state = "Failed"]_vars
  BY <1>1
<1> QED
  BY <1>2, Invariance, PTL DEF Spec, BudgetIsExact

-----------------------------------------------------------------------------
\* Hotplug: the inductive invariant.

\* The hotplug thread, and what it has still to take up, oldest first.
Hot == thread[Listener]
Pending == Hot.batch \o events
Owed == Hot.refresh \/ \E e \in ToSet(events) : WantsRefresh(e)

\* The hotplug thread has a list in hand that it will publish.
Holding == Hot.pc \in {"diff", "observe"}

\* The list in force once the thread has published what it has in hand.
Believed == IF Holding THEN Hot.after ELSE outputs

Tells(e, o) == e.op = "Configured" /\ e.output = o
Silent(q, o) == \A i \in 1..Len(q) : ~Tells(q[i], o)
LastTold(q, o, s) ==
    \E i \in 1..Len(q) : /\ Tells(q[i], o) /\ q[i].size = s
                         /\ \A j \in (i + 1)..Len(q) : ~Tells(q[j], o)

\* Who begins with size b and takes up q ends with size s for the output.
EndsWith(q, o, b, s) == LastTold(q, o, s) \/ (Silent(q, o) /\ b = s)

\* Somebody is told another size than s.
ToldWrong(q, o, s) == \E e \in ToSet(q) : Tells(e, o) /\ e.size # s
ToldClosed(q, o) == \E e \in ToSet(q) : e.op = "Closed" /\ e.output = o

AllActive(l) == \A o \in Output : l[o].listed => l[o].active

Ops == {"reapply", "set", "record", "teardown", "drop", "clear", "unset"}
Somebody(op, o) == \E t \in Thread : Work(op, o) \in thread[t].todo
Drawing(o) == Somebody("reapply", o) \/ Somebody("set", o)
Taking(o) == Somebody("teardown", o) \/ Somebody("drop", o)
Clearing(o) == Somebody("unset", o)
Recorded(o) == Somebody("record", o)

Orderly == mishaps \subseteq {"storm", "crossed", "failed"}
OneAtATime == mishaps \subseteq {"storm"}
Calm == mishaps = {}

\* What a thread has in hand where it is.
ClientOps == {"set", "record", "clear", "unset"}
ListOps == {"reapply", "record", "teardown", "drop"}
Formed(t, me) ==
    /\ me.pc = "idle" => me = IdleThread
    /\ me.todo # {} => me.pc \in {"restore", "act", "apply"}
    /\ \A j, k \in me.todo : j.op \in Halves /\ k.op \in Halves => j = k
    /\ t # Listener => /\ me.pc \in {"idle", "diff", "observe", "act", "apply"}
                       /\ me.batch = << >> /\ ~me.refresh
    /\ \A j \in me.todo : j.op \in (IF me.pc = "apply" /\ t # Listener THEN ClientOps ELSE ListOps)
    /\ AllActive(me.before) /\ AllActive(me.after)
ThreadsFormed == \A t \in Thread : Formed(t, thread[t])

\* What is on the screens.
ScreensHold ==
    /\ AllActive(real) /\ AllActive(outputs)
    /\ \A o \in Output :
           /\ surface[o] # NoSize => (real[o].listed /\ surface[o] = real[o].size)
           /\ (surface[o] = NoSize <=> picture[o] = NoSize)

\* A patch writes the list the compositor has.
PatchesHold ==
    /\ \A t, u \in Thread : Patching(t) /\ Patching(u) => t = u
    /\ Orderly => \A t \in Thread : Patching(t) => thread[t].after = real

\* Unless a list is asked for again, the one in force lists the right outputs ...
ListsAgree ==
    Orderly /\ ~Owed =>
        /\ Listed(Believed) = Listed(real)
        /\ Hot.pc = "act" => Listed(Hot.after) = Listed(real)

\* ... and ends with the sizes of the surfaces.
SizesAgree ==
    Orderly => \A o \in Output : surface[o] # NoSize =>
        /\ EndsWith(Pending, o, Believed[o].size, real[o].size)
        /\ Hot.pc = "act" => EndsWith(Pending, o, Hot.after[o].size, real[o].size)

\* What is shown is in the session or about to be; a clear keeps it away.
SessionHolds ==
    OneAtATime =>
        /\ \A o \in Output : Clearing(o) => gpu = Free /\ surface[o] = NoSize
        /\ \A o \in Output : surface[o] # NoSize => o \in session \/ Recorded(o)

\* The supervisor has recorded the sizes of a list.
InStep(r, l) ==
    \A o \in Output : l[o].listed /\ r[o].known => r[o].active /\ r[o].size = l[o].size

\* One reconciliation at a time: its list of before is the list in force.
ReconcilesAlone ==
    OneAtATime =>
        /\ \A t, u \in Thread : Reconciling(t) /\ Reconciling(u) => t = u
        /\ \A t \in Thread : thread[t].pc = "observe" => thread[t].before = outputs
        /\ \A t \in Thread : thread[t].pc = "act" => thread[t].after = outputs
        /\ InStep(supervised, outputs)

\* Somebody has a size in mind that is not the output's.
Mistaken(o) ==
    \/ outputs[o].size # real[o].size
    \/ (Holding /\ Hot.after[o].size # real[o].size)
    \/ ToldWrong(Pending, o, real[o].size)

\* A picture of the wrong size is about to be drawn again, or its size will be
\* found to differ.
PicturesHold ==
    OneAtATime => \A o \in Output : picture[o] # surface[o] => Drawing(o) \/ Mistaken(o)

\* Without haste: what is torn down is gone, what is shown is applied, and an
\* output without its picture will get one.
Awaited(o) ==
    \/ Drawing(o)
    \/ Clearing(o)
    \/ ~outputs[o].listed
    \/ (o \in applied /\ ToldClosed(Pending, o))
ListsKnown(t) == Listed(thread[t].after) \in {Listed(outputs), Listed(real)}
ShownIsApplied(o) == surface[o] # NoSize => o \in applied \/ Recorded(o)
WillReturn(o) == real[o].listed /\ o \in session /\ surface[o] = NoSize => Awaited(o)
CalmHolds ==
    Calm =>
        /\ \A t \in Thread : thread[t].pc \in {"diff", "observe"} => ListsKnown(t)
        /\ \A o \in Output : Taking(o) => ~real[o].listed
        /\ \A o \in Output : Recorded(o) => surface[o] # NoSize
        /\ \A o \in Output : ShownIsApplied(o)
        /\ \A o \in Output : WillReturn(o)

HotplugInv ==
    /\ HotplugTypes /\ ThreadsFormed /\ ScreensHold /\ PatchesHold /\ ListsAgree
    /\ SizesAgree /\ SessionHolds /\ ReconcilesAlone /\ PicturesHold /\ CalmHolds

\* What a queue tells.

LEMMA ToSetIs ==
    ASSUME NEW q \in Seq(Event)
    PROVE  /\ \A i \in 1..Len(q) : q[i] \in ToSet(q)
           /\ \A e \in ToSet(q) : \E i \in 1..Len(q) : e = q[i]
           /\ ToSet(q) \subseteq Event
  BY DEF ToSet

LEMMA ElementsOf ==
    ASSUME NEW q \in Seq(Event)
    PROVE  /\ \A e : ToSet(Append(q, e)) = ToSet(q) \cup {e}
           /\ q # << >> => ToSet(q) = ToSet(Tail(q)) \cup {Head(q)} /\ Head(q) \in Event
           /\ ToSet(q) \subseteq Event
           /\ \A p \in Seq(Event) : ToSet(p \o q) = ToSet(p) \cup ToSet(q)
  <1>1. ASSUME NEW e
        PROVE  ToSet(Append(q, e)) = ToSet(q) \cup {e}
    <2>1. Len(Append(q, e)) = Len(q) + 1 /\ Append(q, e)[Len(q) + 1] = e
          /\ \A i \in 1..Len(q) : Append(q, e)[i] = q[i]
      OBVIOUS
    <2> QED  BY <2>1 DEF ToSet
  <1>2. ASSUME q # << >>
        PROVE  ToSet(q) = ToSet(Tail(q)) \cup {Head(q)} /\ Head(q) \in Event
    <2>1. /\ Len(Tail(q)) = Len(q) - 1 /\ Head(q) = q[1] /\ Len(q) >= 1
          /\ \A i \in 1..(Len(q) - 1) : Tail(q)[i] = q[i + 1]
      BY <1>2
    <2>2. Tail(q) \in Seq(Event)
      BY <1>2
    <2>3. ASSUME NEW i \in 1..Len(q)
          PROVE  q[i] \in ToSet(Tail(q)) \cup {Head(q)}
      <3>1. CASE i = 1
        BY <3>1, <2>1
      <3>2. CASE i # 1
        <4>1. i - 1 \in 1..Len(Tail(q)) /\ Tail(q)[i - 1] = q[i]
          BY <3>2, <2>1
        <4> QED  BY <4>1, <2>2, ToSetIs
      <3> QED  BY <3>1, <3>2
    <2>4. ASSUME NEW i \in 1..Len(Tail(q))
          PROVE  Tail(q)[i] \in ToSet(q)
      BY <2>1 DEF ToSet
    <2> QED  BY <2>1, <2>2, <2>3, <2>4 DEF ToSet
  <1>3. ToSet(q) \subseteq Event
    BY DEF ToSet
  <1>4. ASSUME NEW p \in Seq(Event)
        PROVE  ToSet(p \o q) = ToSet(p) \cup ToSet(q)
    <2>1. /\ Len(p \o q) = Len(p) + Len(q) /\ p \o q \in Seq(Event)
          /\ \A i \in 1..Len(p) : (p \o q)[i] = p[i]
          /\ \A i \in 1..Len(q) : (p \o q)[Len(p) + i] = q[i]
      OBVIOUS
    <2>2. ASSUME NEW i \in 1..Len(p \o q)
          PROVE  (p \o q)[i] \in ToSet(p) \cup ToSet(q)
      <3>1. CASE i <= Len(p)
        BY <3>1, <2>1 DEF ToSet
      <3>2. CASE i > Len(p)
        <4>1. i - Len(p) \in 1..Len(q) /\ (p \o q)[i] = q[i - Len(p)]
          BY <3>2, <2>1
        <4> QED  BY <4>1 DEF ToSet
      <3> QED  BY <3>1, <3>2
    <2>3. ASSUME NEW i \in 1..Len(q)
          PROVE  q[i] \in ToSet(p \o q)
      <3>1. Len(p) + i \in 1..Len(p \o q) /\ (p \o q)[Len(p) + i] = q[i]
        BY <2>1
      <3> QED  BY <3>1, <2>1 DEF ToSet
    <2>4. ASSUME NEW i \in 1..Len(p)
          PROVE  p[i] \in ToSet(p \o q)
      BY <2>1 DEF ToSet
    <2>5. p \o q \in Seq(Event)
      BY <2>1
    <2>6. ASSUME NEW e \in ToSet(p \o q)
          PROVE  e \in ToSet(p) \cup ToSet(q)
      <3>1. PICK i \in 1..Len(p \o q) : e = (p \o q)[i]
        BY <2>5, ToSetIs
      <3> QED  BY <3>1, <2>2
    <2>7. ToSet(p) \subseteq ToSet(p \o q)
      BY <2>4, ToSetIs
    <2>8. ToSet(q) \subseteq ToSet(p \o q)
      BY <2>3, ToSetIs
    <2> QED  BY <2>6, <2>7, <2>8
  <1> QED  BY <1>1, <1>2, <1>3, <1>4

LEMMA EmptyTells ==
    ASSUME NEW o, NEW b, NEW s
    PROVE  /\ ToSet(<< >>) = {}
           /\ EndsWith(<< >>, o, b, s) => b = s
  BY DEF ToSet, EndsWith, LastTold, Silent

LEMMA EndsAppend ==
    ASSUME NEW q \in Seq(Event), NEW e, NEW o, NEW b, NEW s
    PROVE  /\ Tells(e, o) => EndsWith(Append(q, e), o, b, e.size)
           /\ ~Tells(e, o) /\ EndsWith(q, o, b, s) => EndsWith(Append(q, e), o, b, s)
  <1> DEFINE n == Len(q) + 1
             p == Append(q, e)
  <1>1. Len(p) = n /\ p[n] = e /\ \A i \in 1..Len(q) : p[i] = q[i]
    OBVIOUS
  <1>2. n \in 1..Len(p) /\ (n + 1)..Len(p) = {}
    BY <1>1
  <1>3. ASSUME Tells(e, o)
        PROVE  EndsWith(p, o, b, e.size)
    BY <1>1, <1>2, <1>3 DEF EndsWith, LastTold
  <1>4. ASSUME ~Tells(e, o), LastTold(q, o, s)
        PROVE  LastTold(p, o, s)
    <2>1. PICK i \in 1..Len(q) : /\ Tells(q[i], o) /\ q[i].size = s
                                 /\ \A j \in (i + 1)..Len(q) : ~Tells(q[j], o)
      BY <1>4 DEF LastTold
    <2>2. i \in 1..Len(p) /\ p[i] = q[i]
      BY <1>1
    <2>3. \A j \in (i + 1)..Len(p) : ~Tells(p[j], o)
      BY <1>1, <1>4, <2>1
    <2> QED  BY <2>1, <2>2, <2>3 DEF LastTold
  <1>5. ASSUME ~Tells(e, o), Silent(q, o)
        PROVE  Silent(p, o)
    BY <1>1, <1>5 DEF Silent
  <1> QED  BY <1>3, <1>4, <1>5 DEF EndsWith

LEMMA EndsTail ==
    ASSUME NEW q \in Seq(Event), q # << >>, NEW o, NEW b, NEW s, EndsWith(q, o, b, s)
    PROVE  /\ Tells(Head(q), o) => EndsWith(Tail(q), o, Head(q).size, s)
           /\ ~Tells(Head(q), o) => EndsWith(Tail(q), o, b, s)
  <1>1. /\ Len(Tail(q)) = Len(q) - 1 /\ Head(q) = q[1] /\ Len(q) \in Nat /\ Len(q) >= 1
        /\ \A i \in 1..(Len(q) - 1) : Tail(q)[i] = q[i + 1]
    OBVIOUS
  <1>2. CASE Silent(q, o) /\ b = s
    <2>1. Silent(Tail(q), o) /\ ~Tells(Head(q), o)
      BY <1>1, <1>2 DEF Silent
    <2> QED  BY <1>2, <2>1 DEF EndsWith
  <1>3. CASE LastTold(q, o, s)
    <2>1. PICK i \in 1..Len(q) : /\ Tells(q[i], o) /\ q[i].size = s
                                 /\ \A j \in (i + 1)..Len(q) : ~Tells(q[j], o)
      BY <1>3 DEF LastTold
    <2>2. CASE i = 1
      <3>1. Silent(Tail(q), o)
        BY <1>1, <2>1, <2>2 DEF Silent
      <3> QED  BY <1>1, <2>1, <2>2, <3>1 DEF EndsWith
    <2>3. CASE i # 1
      <3>1. i - 1 \in 1..Len(Tail(q)) /\ Tail(q)[i - 1] = q[i]
        BY <1>1, <2>3
      <3>2. ASSUME NEW j \in ((i - 1) + 1)..Len(Tail(q))
            PROVE  ~Tells(Tail(q)[j], o)
        <4>1. j + 1 \in (i + 1)..Len(q) /\ Tail(q)[j] = q[j + 1]
          BY <1>1
        <4> QED  BY <4>1, <2>1
      <3>3. LastTold(Tail(q), o, s)
        BY <2>1, <3>1, <3>2 DEF LastTold
      <3> QED  BY <3>3 DEF EndsWith
    <2> QED  BY <2>2, <2>3
  <1> QED  BY <1>2, <1>3 DEF EndsWith

\* The base plays no part once it is right, and somebody is wrong about a size
\* that is not the last one.
LEMMA EndsSays ==
    ASSUME NEW q \in Seq(Event), NEW o, NEW b, NEW s, EndsWith(q, o, b, s)
    PROVE  /\ EndsWith(q, o, s, s)
           /\ \A r : r # s => b # r \/ ToldWrong(q, o, r)
  <1>1. EndsWith(q, o, s, s)
    BY DEF EndsWith
  <1>2. ASSUME NEW r, r # s
        PROVE  b # r \/ ToldWrong(q, o, r)
    BY <1>2 DEF EndsWith, LastTold, ToldWrong, ToSet
  <1> QED  BY <1>1, <1>2

LEMMA ToldAppend ==
    ASSUME NEW q \in Seq(Event), NEW e, NEW o, NEW s
    PROVE  /\ ToldWrong(q, o, s) => ToldWrong(Append(q, e), o, s)
           /\ ToldClosed(q, o) => ToldClosed(Append(q, e), o)
           /\ e.op = "Closed" /\ e.output = o => ToldClosed(Append(q, e), o)
  BY ElementsOf DEF ToldWrong, ToldClosed

LEMMA ToldTail ==
    ASSUME NEW q \in Seq(Event), q # << >>, NEW o, NEW s
    PROVE  /\ ToldWrong(q, o, s) =>
                  \/ ToldWrong(Tail(q), o, s)
                  \/ Tells(Head(q), o) /\ Head(q).size # s
           /\ ToldClosed(q, o) =>
                  \/ ToldClosed(Tail(q), o)
                  \/ Head(q).op = "Closed" /\ Head(q).output = o
  BY ElementsOf DEF ToldWrong, ToldClosed


LEMMA AppendConcat ==
    ASSUME NEW a \in Seq(Event), NEW b \in Seq(Event), NEW e \in Event
    PROVE  a \o Append(b, e) = Append(a \o b, e)
  <1> DEFINE l == a \o Append(b, e)
             r == Append(a \o b, e)
  <1>1. /\ Append(b, e) \in Seq(Event) /\ Len(Append(b, e)) = Len(b) + 1
        /\ \A i \in 1..Len(b) : Append(b, e)[i] = b[i]
        /\ Append(b, e)[Len(b) + 1] = e
    OBVIOUS
  <1>2. l \in Seq(Event) /\ r \in Seq(Event)
    OBVIOUS
  <1>3. Len(l) = Len(a) + Len(b) + 1 /\ Len(r) = Len(a) + Len(b) + 1
    OBVIOUS
  <1>4. ASSUME NEW i \in 1..Len(l)
        PROVE  l[i] = r[i]
    <2>1. CASE i <= Len(a)
      BY <2>1, <1>3
    <2>2. CASE i > Len(a)
      BY <2>2, <1>1, <1>3
    <2> QED  BY <2>1, <2>2
  <1> QED  BY <1>2, <1>3, <1>4, SeqEqual

\* What the records of threads become.

LEMMA ThreadsAre ==
    /\ Listener \in Thread /\ Client \subseteq Thread
    /\ \A t \in Thread : t # Listener <=> t \in Client
  BY HotplugAssumption DEF Thread

LEMMA GoesIs ==
    ASSUME thread \in [Thread -> ThreadState], NEW t \in Thread, NEW s \in ThreadState,
           Goes(t, s)
    PROVE  /\ thread' \in [Thread -> ThreadState] /\ thread'[t] = s
           /\ \A u \in Thread : u # t => thread'[u] = thread[u]
  BY DEF Goes

LEMMA FieldsOf ==
    ASSUME NEW me \in ThreadState
    PROVE  /\ me.pc \in {"restore", "idle", "batch", "diff", "observe", "act", "apply"}
           /\ me.batch \in Seq(Event) /\ me.refresh \in BOOLEAN
           /\ me.before \in OutputList /\ me.after \in OutputList /\ me.todo \subseteq Job
  BY DEF ThreadState

LEMMA NobodyIs == Nobody \in OutputList /\ AllActive(Nobody)
  BY DEF Nobody, OutputList, AllActive, Unlisted

LEMMA IdleIs ==
    /\ IdleThread \in ThreadState /\ \A t \in Thread : Formed(t, IdleThread)
    /\ IdleThread.pc = "idle" /\ IdleThread.batch = << >> /\ ~IdleThread.refresh
    /\ IdleThread.todo = {} /\ IdleThread.after = Nobody /\ IdleThread.before = Nobody
  <1>1. << >> \in Seq(Event)
    OBVIOUS
  <1> QED  BY <1>1, NobodyIs DEF IdleThread, ThreadState, Formed

LEMMA ResumeIs ==
    ASSUME NEW t \in Thread, NEW me \in ThreadState, AllActive(me.before),
           t # Listener => me.batch = << >> /\ ~me.refresh
    PROVE  LET r == Resume(me) IN
           /\ r \in ThreadState /\ Formed(t, r)
           /\ r.batch = me.batch /\ (r.refresh <=> me.refresh) /\ r.todo = {}
           /\ r.pc \in {"idle", "batch"}
           /\ r.pc = "idle" => r.batch = << >> /\ ~r.refresh
  <1> DEFINE n == [me EXCEPT !.pc = "batch", !.after = Nobody, !.todo = {}]
  <1>1. CASE me.batch = << >> /\ ~me.refresh
    BY <1>1, IdleIs DEF Resume
  <1>2. CASE ~(me.batch = << >> /\ ~me.refresh)
    <2>1. Resume(me) = n
      BY <1>2 DEF Resume
    <2>2. n \in ThreadState /\ n.pc = "batch" /\ n.batch = me.batch /\ n.refresh = me.refresh
          /\ n.todo = {} /\ n.after = Nobody /\ n.before = me.before
      BY NobodyIs DEF ThreadState
    <2>3. t = Listener
      BY <1>2
    <2>4. Formed(t, n)
      BY <2>2, <2>3, NobodyIs DEF Formed
    <2> QED  BY <2>1, <2>2, <2>4
  <1> QED  BY <1>1, <1>2

\* The part of a thread's record that is about reconciling.
SameList(me, n) ==
    /\ n.batch = me.batch /\ (n.refresh <=> me.refresh)
    /\ \A p \in {"diff", "observe", "act"} : n.pc = p <=> me.pc = p
    /\ me.pc \in {"diff", "observe", "act"} => n.after = me.after /\ n.before = me.before

LEMMA DoesIs ==
    ASSUME HotplugTypes, ThreadsFormed, NEW t \in Thread, NEW job \in thread[t].todo,
           NEW rest \in SUBSET Job, Does(t, job, rest),
           \A j \in rest : j.op \in (IF thread[t].pc = "apply" /\ t # Listener
                                     THEN ClientOps ELSE ListOps),
           \A j, k \in (thread[t].todo \ {job}) \cup rest :
               j.op \in Halves /\ k.op \in Halves => j = k
    PROVE  /\ thread' \in [Thread -> ThreadState] /\ ThreadsFormed'
           /\ \A u \in Thread : u # t => thread'[u] = thread[u]
           /\ thread'[t].todo = (thread[t].todo \ {job}) \cup rest
           /\ \A u \in Thread : SameList(thread[u], thread'[u])
  <1> DEFINE me == thread[t]
             n == [me EXCEPT !.todo = (@ \ {job}) \cup rest]
             s == IF n.todo = {} /\ n.pc # "act" THEN Resume(n) ELSE n
  <1>1. me \in ThreadState /\ Formed(t, me)
    BY DEF HotplugTypes, ThreadsFormed
  <1>2. /\ n \in ThreadState /\ n.todo = (me.todo \ {job}) \cup rest
        /\ n.pc = me.pc /\ n.batch = me.batch /\ n.refresh = me.refresh
        /\ n.before = me.before /\ n.after = me.after
    BY <1>1 DEF ThreadState
  <1>3. me.pc \in {"restore", "act", "apply"}
    BY <1>1 DEF Formed
  <1>4. Formed(t, n)
    BY <1>1, <1>2, <1>3 DEF Formed
  <1>5. AllActive(n.before) /\ (t # Listener => n.batch = << >> /\ ~n.refresh)
    BY <1>1, <1>2 DEF Formed
  <1> HIDE DEF n
  <1>6. Goes(t, s)
    BY DEF Does, n
  <1>7. /\ s \in ThreadState /\ Formed(t, s) /\ s.todo = n.todo /\ SameList(me, s)
    <2>1. CASE n.todo = {} /\ n.pc # "act"
      <3>1. s = Resume(n)
        BY <2>1
      <3>2. n.pc \notin {"diff", "observe", "act"} /\ me.pc \notin {"diff", "observe", "act"}
        BY <1>2, <1>3, <2>1
      <3> HIDE DEF s
      <3> QED  BY <2>1, <3>1, <3>2, <1>2, <1>5, ResumeIs DEF SameList
    <2>2. CASE ~(n.todo = {} /\ n.pc # "act")
      <3>1. s = n
        BY <2>2
      <3> QED  BY <3>1, <1>2, <1>4 DEF SameList
    <2> QED  BY <2>1, <2>2
  <1> HIDE DEF s
  <1>8. /\ thread' \in [Thread -> ThreadState] /\ thread'[t] = s
        /\ \A u \in Thread : u # t => thread'[u] = thread[u]
    BY <1>6, <1>7, GoesIs DEF HotplugTypes
  <1>9. ThreadsFormed'
    BY <1>7, <1>8 DEF ThreadsFormed, Formed, AllActive
  <1>10. \A u \in Thread : SameList(thread[u], thread'[u])
    BY <1>7, <1>8 DEF SameList
  <1> QED  BY <1>2, <1>7, <1>8, <1>9, <1>10

\* Steps that leave the lists alone.
ListsStay ==
    /\ thread' \in [Thread -> ThreadState]
    /\ \A t \in Thread : SameList(thread[t], thread'[t])
    /\ outputs' = outputs /\ supervised' = supervised /\ real' = real
    /\ mishaps \subseteq mishaps'

LEMMA Earlier ==
    ASSUME mishaps \subseteq mishaps'
    PROVE  /\ (Orderly' => Orderly) /\ (OneAtATime' => OneAtATime) /\ (Calm' => Calm)
           /\ (OneAtATime => Orderly) /\ (Calm => OneAtATime) /\ (Calm => Orderly)
  BY DEF Orderly, OneAtATime, Calm

LEMMA StayMeans ==
    ASSUME HotplugTypes, ListsStay
    PROVE  /\ (Holding' <=> Holding) /\ (Believed' = Believed)
           /\ ((Hot.pc = "act")' <=> Hot.pc = "act")
           /\ (Holding \/ Hot.pc = "act") => Hot'.after = Hot.after
           /\ Hot'.batch = Hot.batch /\ (Hot'.refresh <=> Hot.refresh)
           /\ \A t \in Thread : /\ (Reconciling(t)' <=> Reconciling(t))
                                /\ (Patching(t)' <=> Patching(t))
  <1>1. Listener \in Thread
    BY ThreadsAre
  <1>2. SameList(Hot, Hot')
    BY <1>1 DEF ListsStay, Hot
  <1>3. /\ (Holding' <=> Holding) /\ ((Hot.pc = "act")' <=> Hot.pc = "act")
        /\ (Holding \/ Hot.pc = "act") => Hot'.after = Hot.after
    BY <1>2 DEF SameList, Holding
  <1>4. Believed' = Believed
    BY <1>3 DEF Believed, ListsStay
  <1>5. ASSUME NEW t \in Thread
        PROVE  /\ (Reconciling(t)' <=> Reconciling(t)) /\ (Patching(t)' <=> Patching(t))
    BY DEF ListsStay, SameList, Reconciling, Patching
  <1> QED  BY <1>2, <1>3, <1>4, <1>5 DEF SameList

LEMMA StayKeeps ==
    ASSUME HotplugTypes, ListsStay, PatchesHold, ListsAgree, ReconcilesAlone,
           \A e \in ToSet(events) : WantsRefresh(e) => e \in ToSet(events')
    PROVE  PatchesHold' /\ ListsAgree' /\ ReconcilesAlone'
  <1>1. PatchesHold'
    <2>1. \A t \in Thread : Patching(t) => thread'[t].after = thread[t].after
      BY DEF ListsStay, SameList, Patching, Reconciling
    <2> QED  BY <2>1, StayMeans, Earlier DEF PatchesHold, ListsStay
  <1>2. ListsAgree'
    <2>1. Owed => Owed'
      BY StayMeans DEF Owed, WantsRefresh
    <2>2. SUFFICES ASSUME Orderly', ~Owed'
                   PROVE  /\ Listed(Believed)' = Listed(real)'
                          /\ (Hot.pc = "act")' => Listed(Hot.after)' = Listed(real)'
      BY DEF ListsAgree
    <2>3. Orderly /\ ~Owed
      BY <2>1, <2>2, Earlier DEF ListsStay
    <2> QED  BY <2>3, StayMeans DEF ListsAgree, ListsStay, Listed
  <1>3. ReconcilesAlone'
    <2> SUFFICES ASSUME OneAtATime'
                 PROVE  /\ \A t, u \in Thread : Reconciling(t)' /\ Reconciling(u)' => t = u
                        /\ \A t \in Thread : thread'[t].pc = "observe" => thread'[t].before = outputs'
                        /\ \A t \in Thread : thread'[t].pc = "act" => thread'[t].after = outputs'
                        /\ InStep(supervised, outputs)'
      BY DEF ReconcilesAlone
    <2>1. OneAtATime
      BY Earlier DEF ListsStay
    <2> QED  BY <2>1, StayMeans DEF ReconcilesAlone, ListsStay, SameList, InStep
  <1> QED  BY <1>1, <1>2, <1>3

\* ... and tell nobody a size, and make no surface.
LEMMA SizesStay ==
    ASSUME HotplugTypes, ListsStay, SizesAgree, events' = events,
           \A o \in Output : surface'[o] # NoSize => surface[o] # NoSize
    PROVE  SizesAgree'
  <1> SUFFICES ASSUME Orderly', NEW o \in Output, surface'[o] # NoSize
               PROVE  /\ EndsWith(Pending', o, Believed'[o].size, real'[o].size)
                      /\ Hot'.pc = "act" => EndsWith(Pending', o, Hot'.after[o].size, real'[o].size)
    BY DEF SizesAgree
  <1>1. Orderly /\ surface[o] # NoSize
    BY Earlier DEF ListsStay
  <1>2. Pending' = Pending
    BY StayMeans DEF Pending
  <1>3. /\ EndsWith(Pending, o, Believed[o].size, real[o].size)
        /\ Hot.pc = "act" => EndsWith(Pending, o, Hot.after[o].size, real[o].size)
    BY <1>1 DEF SizesAgree
  <1>4. /\ real' = real /\ Believed' = Believed /\ ((Hot'.pc = "act") <=> Hot.pc = "act")
        /\ Hot.pc = "act" => Hot'.after = Hot.after
    BY StayMeans DEF ListsStay
  <1> QED  BY <1>2, <1>3, <1>4

\* Who is mistaken stays so while nobody looks again.
LEMMA MistakenStays ==
    ASSUME HotplugTypes, ListsStay, NEW o \in Output, Mistaken(o),
           \A e \in ToSet(Pending) : e.op = "Configured" => e \in ToSet(Pending')
    PROVE  Mistaken(o)'
  <1>1. ToldWrong(Pending, o, real[o].size) => ToldWrong(Pending', o, real[o].size)
    BY DEF ToldWrong, Tells
  <1>2. real' = real /\ outputs' = outputs /\ (Holding' <=> Holding)
        /\ (Holding => Hot'.after = Hot.after)
    BY StayMeans DEF ListsStay
  <1> QED  BY <1>1, <1>2 DEF Mistaken

\* Jobs that come and go with one step of a thread.
LEMMA WorkIs ==
    \A op, p, oq, q : Work(op, p) = Work(oq, q) <=> op = oq /\ p = q
  <1> SUFFICES ASSUME NEW op, NEW p, NEW oq, NEW q
               PROVE  Work(op, p) = Work(oq, q) <=> op = oq /\ p = q
    OBVIOUS
  <1>1. /\ Work(op, p).op = op /\ Work(op, p).output = p
        /\ Work(oq, q).op = oq /\ Work(oq, q).output = q
    BY DEF Work
  <1> QED  BY <1>1 DEF Work

LEMMA JobsMove ==
    ASSUME NEW t \in Thread, NEW op, NEW p \in Output, NEW job, NEW rest,
           thread'[t].todo = (thread[t].todo \ {job}) \cup rest,
           \A u \in Thread : u # t => thread'[u] = thread[u]
    PROVE  /\ Somebody(op, p) /\ Work(op, p) # job => Somebody(op, p)'
           /\ Somebody(op, p)' => Somebody(op, p) \/ Work(op, p) \in rest
           /\ Work(op, p) \in rest => Somebody(op, p)'
  <1> DEFINE w == Work(op, p)
  <1>1. /\ Somebody(op, p) <=> \E u \in Thread : w \in thread[u].todo
        /\ Somebody(op, p)' <=> \E u \in Thread : w \in thread'[u].todo
    BY DEF Somebody, Work
  <1> HIDE DEF w
  <1>2. ASSUME NEW u \in Thread, w \in thread[u].todo, w # job
        PROVE  w \in thread'[u].todo
    BY <1>2
  <1>3. ASSUME NEW u \in Thread, w \in thread'[u].todo
        PROVE  w \in thread[u].todo \/ w \in rest
    BY <1>3
  <1>4. w \in rest => w \in thread'[t].todo
    OBVIOUS
  <1> QED  BY <1>1, <1>2, <1>3, <1>4 DEF w

\* The work on one output, step by step.

LEMMA EntryIs ==
    ASSUME NEW l \in OutputList, NEW o \in Output
    PROVE  /\ l[o].listed \in BOOLEAN /\ l[o].active \in BOOLEAN
           /\ l[o].size \in Size \cup {NoSize}
           /\ l[o].listed => l[o].size \in Size /\ l[o].size # NoSize
           /\ ~l[o].listed => l[o] = Unlisted /\ l[o].size = NoSize /\ ~l[o].active
  <1>1. CASE l[o] \in Entry
    <2>1. l[o].listed = TRUE /\ l[o].active \in BOOLEAN /\ l[o].size \in Size
      BY <1>1 DEF Entry
    <2> QED  BY <2>1, SupervisorAssumption DEF SupervisorAssumption
  <1>2. CASE l[o] = Unlisted
    BY <1>2 DEF Unlisted
  <1> QED  BY <1>1, <1>2 DEF OutputList

LEMMA EventsAre ==
    /\ \A op \in {"Added", "Removed", "Closed"}, o \in Output : Plain(op, o) \in Event
    /\ \A o \in Output, s \in Size : Configured(o, s) \in Event
    /\ \A op, o : Plain(op, o).op = op /\ Plain(op, o).output = o
    /\ \A o, s : Configured(o, s).op = "Configured" /\ Configured(o, s).output = o
                 /\ Configured(o, s).size = s
    /\ \A e \in Event : e.op \in {"Added", "Removed", "Closed", "Configured"}
                        /\ e.output \in Output /\ (e.op = "Configured" => e.size \in Size)
  BY DEF Plain, Configured, Event

\* A step of a thread with one job.
LEMMA WorkGoes ==
    ASSUME HotplugTypes, ThreadsFormed, NEW t \in Thread, NEW o \in Output, NEW op,
           Doing(t, op, o), NEW rest,
           \/ rest = {}
           \/ op \in {"reapply", "set"} /\ rest = {Work("record", o)}
           \/ op = "teardown" /\ rest = {Work("drop", o)}
           \/ op = "clear" /\ rest = {Work("unset", o)},
           Does(t, Work(op, o), rest),
           real' = real, outputs' = outputs, supervised' = supervised,
           mishaps \subseteq mishaps'
    PROVE  /\ ListsStay /\ ThreadsFormed'
           /\ thread'[t].todo = (thread[t].todo \ {Work(op, o)}) \cup rest
           /\ \A u \in Thread : u # t => thread'[u] = thread[u]
           /\ op \in {"clear", "unset"} => t \in Client
           /\ \A p \in Output : \A q \in Ops :
                 /\ Somebody(q, p) /\ (q # op \/ p # o) => Somebody(q, p)'
                 /\ Somebody(q, p)' => Somebody(q, p) \/ Work(q, p) \in rest
                 /\ Work(q, p) \in rest => Somebody(q, p)'
  <1> DEFINE ops == IF thread[t].pc = "apply" /\ t # Listener THEN ClientOps ELSE ListOps
  <1>1. Work(op, o) \in thread[t].todo /\ (op \in Halves \/ \A j \in thread[t].todo : j.op \notin Halves)
    BY DEF Doing
  <1>2. /\ \A j \in thread[t].todo : j.op \in ops
        /\ \A j, k \in thread[t].todo : j.op \in Halves /\ k.op \in Halves => j = k
    BY DEF ThreadsFormed, Formed
  <1>3. \A q : Work(q, o).op = q
    BY DEF Work
  <1>4. op \in ops
    BY <1>1, <1>2, <1>3
  <1>5. rest \subseteq Job
    BY DEF Job, Work
  <1>6. \A j \in rest : j.op \in ops
    <2>1. CASE rest = {}
      BY <2>1
    <2>2. CASE op \in {"reapply", "set"} /\ rest = {Work("record", o)}
      BY <2>2, <1>3 DEF ClientOps, ListOps
    <2>3. CASE op = "teardown" /\ rest = {Work("drop", o)}
      BY <2>3, <1>3, <1>4 DEF ClientOps, ListOps
    <2>4. CASE op = "clear" /\ rest = {Work("unset", o)}
      BY <2>4, <1>3, <1>4 DEF ClientOps, ListOps
    <2> QED  BY <2>1, <2>2, <2>3, <2>4
  <1>7. \A j, k \in (thread[t].todo \ {Work(op, o)}) \cup rest :
            j.op \in Halves /\ k.op \in Halves => j = k
    <2>1. CASE rest = {}
      BY <2>1, <1>2
    <2>2. CASE rest # {}
      <3>1. op \notin Halves /\ \E j : rest = {j}
        BY <2>2 DEF Halves
      <3> QED  BY <3>1, <1>1
    <2> QED  BY <2>1, <2>2
  <1>8. op \in {"clear", "unset"} => t \in Client
    BY <1>4, ThreadsAre DEF ListOps
  <1> HIDE DEF ops
  <1>9. /\ thread' \in [Thread -> ThreadState] /\ ThreadsFormed'
        /\ \A u \in Thread : u # t => thread'[u] = thread[u]
        /\ thread'[t].todo = (thread[t].todo \ {Work(op, o)}) \cup rest
        /\ \A u \in Thread : SameList(thread[u], thread'[u])
    BY <1>1, <1>5, <1>6, <1>7, DoesIs DEF ops
  <1>10. ASSUME NEW p \in Output, NEW q \in Ops
         PROVE  /\ Somebody(q, p) /\ (q # op \/ p # o) => Somebody(q, p)'
                /\ Somebody(q, p)' => Somebody(q, p) \/ Work(q, p) \in rest
                /\ Work(q, p) \in rest => Somebody(q, p)'
    <2>1. q # op \/ p # o => Work(q, p) # Work(op, o)
      BY WorkIs
    <2> DEFINE job == Work(op, o)
    <2>2. /\ thread'[t].todo = (thread[t].todo \ {job}) \cup rest
          /\ \A u \in Thread : u # t => thread'[u] = thread[u]
      BY <1>9
    <2> HIDE DEF job
    <2>3. /\ Somebody(q, p) /\ Work(q, p) # job => Somebody(q, p)'
          /\ Somebody(q, p)' => Somebody(q, p) \/ Work(q, p) \in rest
          /\ Work(q, p) \in rest => Somebody(q, p)'
      BY <2>2, JobsMove
    <2> QED  BY <2>1, <2>3 DEF job
  <1> QED  BY <1>8, <1>9, <1>10 DEF ListsStay

\* Who holds the GPU lock after a step that neither draws nor records.
LEMMA LockStays ==
    ASSUME HotplugTypes, NEW t \in Thread, NEW job, NEW rest, gpu' = gpu,
           thread'[t].todo = (thread[t].todo \ {job}) \cup rest,
           \A u \in Thread : u # t => thread'[u] = thread[u],
           \A o \in Output : Work("record", o) # job /\ Work("record", o) \notin rest
    PROVE  /\ \A u \in Thread : gpu' = u <=> \E o \in Output : Recording(u, o)'
           /\ gpu' \in Thread \cup {Free}
  <1>1. \A u \in Thread, o \in Output : Recording(u, o)' <=> Recording(u, o)
    <2> TAKE u \in Thread, o \in Output
    <2> DEFINE w == Work("record", o)
    <2>1. w # job /\ w \notin rest
      OBVIOUS
    <2>2. w \in thread'[u].todo <=> w \in thread[u].todo
      BY <2>1
    <2> QED  BY <2>2 DEF Recording, Work
  <1> QED  BY <1>1 DEF HotplugTypes

\* What is left to show of CalmHolds when the lists stay.
LEMMA CalmStays ==
    ASSUME ListsStay, CalmHolds,
           Calm' => \A o \in Output : /\ Taking(o)' => ~real[o].listed
                                      /\ Recorded(o)' => surface'[o] # NoSize
                                      /\ ShownIsApplied(o)' /\ WillReturn(o)'
    PROVE  CalmHolds'
  <1>1. ASSUME Calm', NEW t \in Thread, thread'[t].pc \in {"diff", "observe"}
        PROVE  ListsKnown(t)'
    <2>1. Calm
      BY <1>1, Earlier DEF ListsStay
    <2>2. thread[t].pc \in {"diff", "observe"} /\ thread'[t].after = thread[t].after
      BY <1>1 DEF ListsStay, SameList
    <2> QED  BY <2>1, <2>2 DEF CalmHolds, ListsKnown, Listed, ListsStay
  <1>2. real' = real
    BY DEF ListsStay
  <1> QED  BY <1>1, <1>2 DEF CalmHolds

LEMMA SkipKeeps ==
    ASSUME HotplugInv, NEW t \in Thread, NEW op \in {"reapply", "set"}, NEW o \in Output,
           Skip(t, op, o)
    PROVE  HotplugInv'
  <1>1. /\ HotplugTypes /\ ThreadsFormed /\ ScreensHold /\ PatchesHold /\ ListsAgree
        /\ SizesAgree /\ SessionHolds /\ ReconcilesAlone /\ PicturesHold /\ CalmHolds
    BY DEF HotplugInv
  <1>2. /\ Doing(t, op, o) /\ Refused(op, o) /\ Does(t, Work(op, o), {})
        /\ real' = real /\ surface' = surface /\ picture' = picture /\ events' = events
        /\ outputs' = outputs /\ supervised' = supervised /\ workers' = workers
        /\ applied' = applied /\ session' = session /\ gpu' = gpu
        /\ changes' = changes /\ requests' = requests
        /\ mishaps \subseteq mishaps' /\ mishaps' \subseteq Mishap
        /\ Recorded(o) => "unrecorded" \in mishaps'
    BY <1>1 DEF Skip, compositor, books, HotplugTypes, Mishap, Recorded, Somebody, Recording
  <1>3. /\ ListsStay /\ ThreadsFormed'
        /\ thread'[t].todo = (thread[t].todo \ {Work(op, o)}) \cup {}
        /\ \A u \in Thread : u # t => thread'[u] = thread[u]
        /\ \A p \in Output : \A q \in Ops :
              /\ Somebody(q, p) /\ (q # op \/ p # o) => Somebody(q, p)'
              /\ Somebody(q, p)' => Somebody(q, p) \/ Work(q, p) \in {}
    BY <1>1, <1>2, WorkGoes
  <1>4. \A p \in Output : Work("record", p) # Work(op, o) /\ Work("record", p) \notin {}
    BY WorkIs
  <1>6. HotplugTypes'
    <2>1. /\ \A u \in Thread : gpu' = u <=> \E p \in Output : Recording(u, p)'
          /\ gpu' \in Thread \cup {Free}
      BY <1>1, <1>2, <1>3, <1>4, LockStays
    <2> QED  BY <1>1, <1>2, <1>3, <2>1 DEF HotplugTypes, ListsStay
  <1>7. ScreensHold'
    BY <1>1, <1>2 DEF ScreensHold, AllActive
  <1>8. PatchesHold' /\ ListsAgree' /\ ReconcilesAlone' /\ SizesAgree'
    BY <1>1, <1>2, <1>3, StayKeeps, SizesStay
  <1>10. \A p \in Output : /\ (Recorded(p)' <=> Recorded(p)) /\ (Clearing(p)' <=> Clearing(p))
                           /\ (Taking(p)' <=> Taking(p))
                           /\ p # o => (Drawing(p)' <=> Drawing(p))
    BY <1>3 DEF Recorded, Clearing, Taking, Drawing, Ops
  <1>11. SessionHolds'
    BY <1>1, <1>2, <1>10, Earlier DEF SessionHolds
  <1>12. real[o].listed /\ (o \in session) => ~outputs[o].listed
    BY <1>2 DEF Refused
  <1>13. Pending' = Pending
    BY <1>1, <1>2, <1>3, StayMeans DEF Pending
  <1>14. PicturesHold'
    <2> SUFFICES ASSUME OneAtATime', NEW p \in Output, picture'[p] # surface'[p]
                 PROVE  Drawing(p)' \/ Mistaken(p)'
      BY DEF PicturesHold
    <2>1. OneAtATime /\ Orderly /\ picture[p] # surface[p]
      BY <1>2, Earlier
    <2>2. Mistaken(p) => Mistaken(p)'
      BY <1>1, <1>3, <1>13, MistakenStays
    <2>3. CASE p # o
      BY <2>1, <2>2, <2>3, <1>1, <1>10 DEF PicturesHold
    <2>4. CASE p = o
      <3>1. surface[o] # NoSize /\ real[o].listed
        BY <2>1, <2>4, <1>1 DEF ScreensHold
      <3>2. o \in session
        <4>1. ~Recorded(o)
          BY <1>2 DEF OneAtATime
        <4> QED  BY <3>1, <4>1, <2>1, <1>1 DEF SessionHolds
      <3>3. outputs[o].size = NoSize /\ real[o].size # NoSize
        BY <3>1, <3>2, <1>1, <1>12, EntryIs DEF HotplugTypes
      <3> QED  BY <3>3, <2>2, <2>4 DEF Mistaken
    <2> QED  BY <2>3, <2>4
  <1>15. CalmHolds'
    <2> SUFFICES ASSUME Calm', NEW p \in Output
                 PROVE  /\ Taking(p)' => ~real[p].listed
                        /\ Recorded(p)' => surface'[p] # NoSize
                        /\ ShownIsApplied(p)' /\ WillReturn(p)'
      BY <1>1, <1>3, CalmStays
    <2>1. Calm
      BY <1>2, Earlier
    <2>3. /\ Taking(p)' => ~real[p].listed
          /\ Recorded(p)' => surface'[p] # NoSize
          /\ ShownIsApplied(p)'
      BY <2>1, <1>1, <1>2, <1>10 DEF CalmHolds, ShownIsApplied
    <2>4. WillReturn(p)'
      <3> SUFFICES ASSUME real[p].listed, p \in session, surface[p] = NoSize
                   PROVE  Awaited(p)'
        BY <1>2 DEF WillReturn
      <3>1. Awaited(p)
        BY <2>1, <1>1 DEF CalmHolds, WillReturn
      <3>2. CASE p = o
        BY <3>2, <1>2, <1>12 DEF Awaited
      <3>3. CASE p # o
        BY <3>1, <3>3, <1>2, <1>10, <1>13 DEF Awaited
      <3> QED  BY <3>2, <3>3
    <2> QED  BY <2>3, <2>4
  <1> QED  BY <1>3, <1>6, <1>7, <1>8, <1>11, <1>14, <1>15 DEF HotplugInv

LEMMA PresentKeeps ==
    ASSUME HotplugInv, NEW t \in Thread, NEW op \in {"reapply", "set"}, NEW o \in Output,
           Present(t, op, o)
    PROVE  HotplugInv'
  <1> DEFINE e == Configured(o, real[o].size)
  <1>1. /\ HotplugTypes /\ ThreadsFormed /\ ScreensHold /\ PatchesHold /\ ListsAgree
        /\ SizesAgree /\ SessionHolds /\ ReconcilesAlone /\ PicturesHold /\ CalmHolds
    BY DEF HotplugInv
  <1>2. /\ Doing(t, op, o) /\ ~Refused(op, o) /\ Does(t, Work(op, o), {Work("record", o)})
        /\ real' = real /\ outputs' = outputs /\ supervised' = supervised
        /\ surface' = [surface EXCEPT ![o] = real[o].size]
        /\ picture' = [picture EXCEPT ![o] = real[o].size]
        /\ workers' = workers \cup {o}
        /\ applied' = applied /\ session' = session /\ gpu = Free /\ gpu' = t
        /\ changes' = changes /\ requests' = requests
    BY DEF Present
  <1>a. events' = IF surface[o] = NoSize THEN Append(events, e) ELSE events
    BY DEF Present
  <1>b. /\ mishaps \subseteq mishaps' /\ mishaps' \subseteq Mishap
        /\ (\E c \in Client : Unsetting(c)) => "clear race" \in mishaps'
    BY <1>1 DEF Present, HotplugTypes, Mishap
  <1> DEFINE rest == {Work("record", o)}
  <1>c. Does(t, Work(op, o), rest) /\ rest = {Work("record", o)}
    BY <1>2
  <1> HIDE DEF rest
  <1>d. \/ rest = {}
        \/ op \in {"reapply", "set"} /\ rest = {Work("record", o)}
        \/ op = "teardown" /\ rest = {Work("drop", o)}
        \/ op = "clear" /\ rest = {Work("unset", o)}
    BY <1>c
  <1>e. HotplugTypes /\ ThreadsFormed /\ Doing(t, op, o) /\ mishaps \subseteq mishaps'
        /\ real' = real /\ outputs' = outputs /\ supervised' = supervised
    BY <1>1, <1>2, <1>b
  <1>3. /\ ListsStay /\ ThreadsFormed'
        /\ thread'[t].todo = (thread[t].todo \ {Work(op, o)}) \cup rest
        /\ \A u \in Thread : u # t => thread'[u] = thread[u]
        /\ \A p \in Output : \A q \in Ops :
              /\ Somebody(q, p) /\ (q # op \/ p # o) => Somebody(q, p)'
              /\ Somebody(q, p)' => Somebody(q, p) \/ Work(q, p) \in rest
              /\ Work(q, p) \in rest => Somebody(q, p)'
    BY <1>c, <1>d, <1>e, WorkGoes
  <1>4. \A p \in Output : \A q \in Ops : Work(q, p) \in rest <=> q = "record" /\ p = o
    BY <1>c, WorkIs
  <1>5. real[o].listed /\ real[o].size \in Size /\ real[o].size # NoSize
    BY <1>1, <1>2, EntryIs DEF Refused, HotplugTypes
  <1>6. /\ surface' \in [Output -> Size \cup {NoSize}] /\ picture' \in [Output -> Size \cup {NoSize}]
        /\ surface'[o] = real[o].size /\ picture'[o] = real[o].size
        /\ \A p \in Output : p # o => surface'[p] = surface[p] /\ picture'[p] = picture[p]
    BY <1>1, <1>2, <1>5 DEF HotplugTypes
  <1>7. e \in Event /\ Tells(e, o) /\ e.size = real[o].size /\ ~WantsRefresh(e)
        /\ \A p : Tells(e, p) => p = o
    BY <1>5, EventsAre DEF Tells, WantsRefresh
  <1>8. events \in Seq(Event) /\ events' \in Seq(Event)
    BY <1>1, <1>7, <1>a DEF HotplugTypes
  <1> HIDE DEF e
  <1>9. \A x \in ToSet(events) : x \in ToSet(events')
    BY <1>8, <1>a, ElementsOf
  <1>10. HotplugTypes'
    <2>1. \A u \in Thread : \A p \in Output : ~Recording(u, p)
      BY <1>1, <1>2, HotplugAssumption DEF HotplugTypes
    <2>2. ASSUME NEW u \in Thread
          PROVE  gpu' = u <=> \E p \in Output : Recording(u, p)'
      <3>1. CASE u = t
        <4>1. Recording(t, o)'
          BY <1>3, <1>c DEF Recording, Work
        <4> QED  BY <4>1, <3>1, <1>2
      <3>2. CASE u # t
        <4>1. \A p \in Output : ~Recording(u, p)'
          BY <3>2, <2>1, <1>3 DEF Recording, Work
        <4> QED  BY <4>1, <3>2, <1>2
      <3> QED  BY <3>1, <3>2
    <2>3. workers' \subseteq Output /\ gpu' \in Thread \cup {Free}
      BY <1>1, <1>2 DEF HotplugTypes
    <2>4. \A u \in Thread : gpu' = u <=> \E p \in Output : Recording(u, p)'
      BY <2>2
    <2> QED  BY <1>1, <1>2, <1>b, <1>3, <1>6, <1>8, <2>3, <2>4 DEF HotplugTypes, ListsStay
  <1>11. ScreensHold'
    BY <1>1, <1>2, <1>5, <1>6 DEF ScreensHold, AllActive
  <1>12. PatchesHold' /\ ListsAgree' /\ ReconcilesAlone'
    BY <1>1, <1>3, <1>9, StayKeeps
  <1>13. Hot.batch \in Seq(Event) /\ Pending \in Seq(Event)
    BY <1>1, ThreadsAre, FieldsOf DEF HotplugTypes, Hot, Pending
  <1>14. Pending' = IF surface[o] = NoSize THEN Append(Pending, e) ELSE Pending
    <2>1. Hot'.batch = Hot.batch
      BY <1>1, <1>3, StayMeans
    <2>2. Hot.batch \o Append(events, e) = Append(Hot.batch \o events, e)
      BY <1>13, <1>8, <1>7, AppendConcat
    <2>3. CASE surface[o] = NoSize
      BY <1>a, <2>1, <2>2, <2>3 DEF Pending
    <2>4. CASE surface[o] # NoSize
      BY <1>a, <2>1, <2>4 DEF Pending
    <2> QED  BY <2>3, <2>4
  <1>15. SizesAgree'
    <2>1. CASE surface[o] # NoSize
      <3>1. events' = events
        BY <1>a, <2>1
      <3>2. \A p \in Output : surface'[p] # NoSize => surface[p] # NoSize
        BY <1>6, <2>1
      <3> QED  BY <1>1, <1>3, <3>1, <3>2, SizesStay
    <2>2. CASE surface[o] = NoSize
      <3>1. Pending' = Append(Pending, e)
        BY <1>14, <2>2
      <3>2. ASSUME NEW p \in Output, NEW b, p # o => EndsWith(Pending, p, b, real[p].size)
            PROVE  EndsWith(Pending', p, b, real[p].size)
        <4>1. CASE p = o
          BY <3>1, <4>1, <1>7, <1>13, EndsAppend
        <4>2. CASE p # o
          <5>1. ~Tells(e, p)
            BY <4>2, <1>7
          <5> QED  BY <3>1, <3>2, <4>2, <5>1, <1>13, EndsAppend
        <4> QED  BY <4>1, <4>2
      <3>3. /\ real' = real /\ Believed' = Believed /\ ((Hot.pc = "act")' <=> Hot.pc = "act")
            /\ Hot.pc = "act" => Hot'.after = Hot.after
        BY <1>1, <1>3, StayMeans DEF ListsStay
      <3>4. \A p \in Output : surface'[p] # NoSize /\ p # o => surface[p] # NoSize
        BY <1>6
      <3>5. Orderly' => Orderly
        BY <1>b, Earlier
      <3> SUFFICES ASSUME Orderly, NEW p \in Output, surface'[p] # NoSize
                   PROVE  /\ EndsWith(Pending', p, Believed[p].size, real[p].size)
                          /\ Hot.pc = "act" => EndsWith(Pending', p, Hot.after[p].size, real[p].size)
        BY <3>3, <3>5 DEF SizesAgree
      <3>6. p # o => /\ EndsWith(Pending, p, Believed[p].size, real[p].size)
                     /\ Hot.pc = "act" => EndsWith(Pending, p, Hot.after[p].size, real[p].size)
        BY <3>4, <1>1 DEF SizesAgree
      <3> QED  BY <3>2, <3>6
    <2> QED  BY <2>1, <2>2
  <1>16. \A p \in Output : /\ (Clearing(p)' <=> Clearing(p)) /\ (Taking(p)' <=> Taking(p))
                           /\ (Recorded(p)' <=> Recorded(p) \/ p = o)
                           /\ p # o => (Drawing(p)' <=> Drawing(p))
    BY <1>3, <1>4 DEF Recorded, Clearing, Taking, Drawing, Ops
  <1>17. ASSUME OneAtATime', NEW p \in Output
         PROVE  ~Clearing(p)
    <2>1. ASSUME Clearing(p)
          PROVE  FALSE
      <3>1. PICK c \in Thread : Work("unset", p) \in thread[c].todo
        BY <2>1 DEF Clearing, Somebody
      <3>2. Work("unset", p).op = "unset"
        BY DEF Work
      <3>3. c \in Client
        <4>1. CASE c = Listener
          BY <4>1, <3>1, <3>2, <1>1 DEF ThreadsFormed, Formed, ListOps
        <4> QED  BY <4>1, ThreadsAre
      <3>4. "clear race" \in mishaps'
        BY <3>1, <3>3, <1>b DEF Unsetting
      <3> QED  BY <1>17, <3>4 DEF OneAtATime
    <2> QED  BY <2>1
  <1>18. SessionHolds'
    <2> SUFFICES ASSUME OneAtATime', NEW p \in Output
                 PROVE  /\ ~Clearing(p)'
                        /\ surface'[p] # NoSize => p \in session' \/ Recorded(p)'
      BY DEF SessionHolds
    <2>1. OneAtATime
      BY <1>b, Earlier
    <2> QED  BY <2>1, <1>1, <1>2, <1>6, <1>16, <1>17 DEF SessionHolds
  <1>19. PicturesHold'
    <2> SUFFICES ASSUME OneAtATime', NEW p \in Output, picture'[p] # surface'[p]
                 PROVE  Drawing(p)' \/ Mistaken(p)'
      BY DEF PicturesHold
    <2>1. OneAtATime /\ p # o /\ picture[p] # surface[p]
      BY <1>b, <1>6, Earlier
    <2>2. \A x \in ToSet(Pending) : x \in ToSet(Pending')
      BY <1>13, <1>14, ElementsOf
    <2>3. Mistaken(p) => Mistaken(p)'
      BY <1>1, <1>3, <2>2, MistakenStays
    <2> QED  BY <2>1, <2>3, <1>1, <1>16 DEF PicturesHold
  <1>20. CalmHolds'
    <2> SUFFICES ASSUME Calm', NEW p \in Output
                 PROVE  /\ Taking(p)' => ~real[p].listed
                        /\ Recorded(p)' => surface'[p] # NoSize
                        /\ ShownIsApplied(p)' /\ WillReturn(p)'
      BY <1>1, <1>3, CalmStays
    <2>1. Calm
      BY <1>b, Earlier
    <2>2. /\ Taking(p) => ~real[p].listed /\ (Recorded(p) => surface[p] # NoSize)
          /\ ShownIsApplied(p) /\ WillReturn(p)
      BY <2>1, <1>1 DEF CalmHolds
    <2>3. /\ Taking(p)' => ~real[p].listed
          /\ Recorded(p)' => surface'[p] # NoSize
          /\ ShownIsApplied(p)'
      <3>1. \A q \in Output : Recorded(q) => surface[q] # NoSize
        BY <2>1, <1>1 DEF CalmHolds
      <3>2. Taking(p) => ~real[p].listed
        BY <2>1, <1>1 DEF CalmHolds
      <3> QED  BY <3>1, <3>2, <2>2, <1>2, <1>5, <1>6, <1>16 DEF ShownIsApplied
    <2>4. WillReturn(p)'
      <3> SUFFICES ASSUME real[p].listed, p \in session, surface'[p] = NoSize
                   PROVE  Awaited(p)'
        BY <1>2 DEF WillReturn
      <3>1. p # o /\ Awaited(p)
        BY <1>5, <1>6, <2>2 DEF WillReturn
      <3>2. ToldClosed(Pending, p) => ToldClosed(Pending', p)
        BY <1>13, <1>14, ToldAppend
      <3> QED  BY <3>1, <3>2, <1>2, <1>16 DEF Awaited
    <2> QED  BY <2>3, <2>4
  <1> QED  BY <1>3, <1>10, <1>11, <1>12, <1>15, <1>18, <1>19, <1>20 DEF HotplugInv

\* Once the record is made, nobody has one to make.
LEMMA NothingRecorded ==
    ASSUME HotplugTypes, ThreadsFormed, NEW t \in Thread, NEW o \in Output, Doing(t, "record", o),
           thread'[t].todo = thread[t].todo \ {Work("record", o)},
           \A u \in Thread : u # t => thread'[u] = thread[u]
    PROVE  \A u \in Thread, p \in Output : ~Recording(u, p)'
  <1>1. Recording(t, o) /\ gpu = t
    BY DEF Doing, Recording, HotplugTypes
  <1> SUFFICES ASSUME NEW u \in Thread, NEW p \in Output, Work("record", p) \in thread'[u].todo
               PROVE  FALSE
    BY DEF Recording, Work
  <1>2. Work("record", p) \in thread[u].todo
    OBVIOUS
  <1>3. u = t
    BY <1>1, <1>2 DEF HotplugTypes, Recording
  <1>4. Work("record", p).op \in Halves /\ Work("record", o).op \in Halves
    BY DEF Work, Halves
  <1>5. Work("record", p) = Work("record", o)
    BY <1>1, <1>2, <1>3, <1>4 DEF Recording, ThreadsFormed, Formed
  <1> QED  BY <1>3, <1>5

\* A piece of work that fails leaves the lists and the screens alone, and the rest
\* of the invariant is about what goes well.
LEMMA FailKeeps ==
    ASSUME HotplugInv, NEW t \in Thread, NEW o \in Output,
           NEW op \in {"reapply", "set", "record", "teardown", "clear", "unset"}, Fail(t, op, o)
    PROVE  HotplugInv'
  <1>a. PICK rest : rest = IF op = "teardown" THEN {Work("drop", o)} ELSE {}
    OBVIOUS
  <1>1. /\ HotplugTypes /\ ThreadsFormed /\ ScreensHold /\ PatchesHold /\ ListsAgree
        /\ SizesAgree /\ SessionHolds /\ ReconcilesAlone /\ PicturesHold /\ CalmHolds
    BY DEF HotplugInv
  <1>2. /\ Doing(t, op, o) /\ Does(t, Work(op, o), rest)
        /\ real' = real /\ surface' = surface /\ picture' = picture /\ events' = events
        /\ outputs' = outputs /\ supervised' = supervised /\ workers' = workers
        /\ applied' = applied /\ session' = session
        /\ changes' = changes /\ requests' = requests
        /\ mishaps' = mishaps \cup {"failed"}
        /\ gpu' = IF op = "record" THEN Free ELSE gpu
    BY <1>a DEF Fail, compositor, books, Release
  <1>3. /\ mishaps \subseteq mishaps' /\ mishaps' \subseteq Mishap
        /\ ~OneAtATime' /\ ~Calm'
    BY <1>1, <1>2 DEF HotplugTypes, Mishap, OneAtATime, Calm
  <1>4. /\ ListsStay /\ ThreadsFormed'
        /\ thread'[t].todo = (thread[t].todo \ {Work(op, o)}) \cup rest
        /\ \A u \in Thread : u # t => thread'[u] = thread[u]
    <2>1. \/ rest = {}
          \/ op \in {"reapply", "set"} /\ rest = {Work("record", o)}
          \/ op = "teardown" /\ rest = {Work("drop", o)}
          \/ op = "clear" /\ rest = {Work("unset", o)}
      BY <1>a
    <2>2. /\ real' = real /\ outputs' = outputs /\ supervised' = supervised
          /\ mishaps \subseteq mishaps' /\ HotplugTypes /\ ThreadsFormed
          /\ Doing(t, op, o) /\ Does(t, Work(op, o), rest)
      BY <1>1, <1>2, <1>3
    <2> QED  BY <2>1, <2>2, WorkGoes
  <1>5. \A p \in Output : Work("record", p) \notin rest
    BY <1>a, WorkIs
  <1>6. /\ \A u \in Thread : gpu' = u <=> \E p \in Output : Recording(u, p)'
        /\ gpu' \in Thread \cup {Free}
    <2>1. CASE op = "record"
      <3>1. thread'[t].todo = thread[t].todo \ {Work("record", o)}
        BY <1>4, <1>a, <2>1
      <3>2. Doing(t, "record", o)
        BY <1>2, <2>1
      <3>3. \A u \in Thread, p \in Output : ~Recording(u, p)'
        BY <1>1, <1>4, <3>1, <3>2, NothingRecorded
      <3>4. gpu' = Free /\ Free \notin Thread
        BY <1>2, <2>1, HotplugAssumption
      <3> QED  BY <3>3, <3>4
    <2>2. CASE op # "record"
      <3>1. \A p \in Output : Work("record", p) # Work(op, o)
        BY <2>2, WorkIs
      <3>2. gpu' = gpu
        BY <1>2, <2>2
      <3> QED  BY <1>1, <1>4, <1>5, <3>1, <3>2, LockStays
    <2> QED  BY <2>1, <2>2
  <1>7. HotplugTypes'
    BY <1>1, <1>2, <1>3, <1>4, <1>6 DEF HotplugTypes, ListsStay
  <1>8. ScreensHold'
    BY <1>1, <1>2 DEF ScreensHold, AllActive
  <1>9. PatchesHold' /\ ListsAgree' /\ ReconcilesAlone' /\ SizesAgree'
    BY <1>1, <1>2, <1>4, StayKeeps, SizesStay
  <1>10. SessionHolds' /\ PicturesHold' /\ CalmHolds'
    BY <1>3 DEF SessionHolds, PicturesHold, CalmHolds
  <1> QED  BY <1>4, <1>7, <1>8, <1>9, <1>10 DEF HotplugInv

LEMMA RecordKeeps ==
    ASSUME HotplugInv, NEW t \in Thread, NEW o \in Output, Record(t, o)
    PROVE  HotplugInv'
  <1>1. /\ HotplugTypes /\ ThreadsFormed /\ ScreensHold /\ PatchesHold /\ ListsAgree
        /\ SizesAgree /\ SessionHolds /\ ReconcilesAlone /\ PicturesHold /\ CalmHolds
    BY DEF HotplugInv
  <1>2. /\ Doing(t, "record", o) /\ Does(t, Work("record", o), {})
        /\ real' = real /\ surface' = surface /\ picture' = picture /\ events' = events
        /\ outputs' = outputs /\ supervised' = supervised /\ workers' = workers
        /\ applied' = applied \cup {o} /\ session' = session \cup {o} /\ gpu' = Free
        /\ changes' = changes /\ requests' = requests /\ mishaps' = mishaps
    BY DEF Record, compositor, Release
  <1>3. /\ ListsStay /\ ThreadsFormed'
        /\ thread'[t].todo = (thread[t].todo \ {Work("record", o)}) \cup {}
        /\ \A u \in Thread : u # t => thread'[u] = thread[u]
        /\ \A p \in Output : \A q \in Ops :
              /\ Somebody(q, p) /\ (q # "record" \/ p # o) => Somebody(q, p)'
              /\ Somebody(q, p)' => Somebody(q, p) \/ Work(q, p) \in {}
    BY <1>1, <1>2, WorkGoes
  <1>4. Recording(t, o) /\ gpu = t
    BY <1>1, <1>2 DEF Doing, Recording, HotplugTypes
  <1>5. \A u \in Thread, p \in Output : Recording(u, p) => u = t /\ p = o
    <2> SUFFICES ASSUME NEW u \in Thread, NEW p \in Output, Recording(u, p)
                 PROVE  u = t /\ p = o
      OBVIOUS
    <2>1. u = t
      BY <1>1, <1>4 DEF HotplugTypes
    <2>2. Work("record", p).op \in Halves /\ Work("record", o).op \in Halves
      BY DEF Work, Halves
    <2>3. Work("record", p) = Work("record", o)
      BY <2>1, <2>2, <1>1, <1>4 DEF Recording, ThreadsFormed, Formed
    <2> QED  BY <2>1, <2>3, WorkIs
  <1>6. HotplugTypes'
    <2>1. ASSUME NEW u \in Thread
          PROVE  ~(gpu' = u) /\ \A p \in Output : ~Recording(u, p)'
      <3>1. gpu' # u
        BY <1>2, HotplugAssumption
      <3>2. ASSUME NEW p \in Output, Work("record", p) \in thread'[u].todo
            PROVE  FALSE
        <4>1. Work("record", p) \in thread[u].todo
          BY <3>2, <1>3
        <4>2. u = t /\ p = o
          BY <4>1, <1>5 DEF Recording
        <4> QED  BY <3>2, <4>2, <1>3
      <3> QED  BY <3>1, <3>2 DEF Recording, Work
    <2>2. applied' \subseteq Output /\ session' \subseteq Output /\ gpu' \in Thread \cup {Free}
      BY <1>1, <1>2 DEF HotplugTypes
    <2>3. \A u \in Thread : gpu' = u <=> \E p \in Output : Recording(u, p)'
      BY <2>1
    <2> QED  BY <1>1, <1>2, <1>3, <2>2, <2>3 DEF HotplugTypes, ListsStay
  <1>7. ScreensHold'
    BY <1>1, <1>2 DEF ScreensHold, AllActive
  <1>8. PatchesHold' /\ ListsAgree' /\ ReconcilesAlone' /\ SizesAgree'
    BY <1>1, <1>2, <1>3, StayKeeps, SizesStay
  <1>9. \A p \in Output : /\ (Clearing(p)' <=> Clearing(p)) /\ (Taking(p)' <=> Taking(p))
                          /\ (Drawing(p)' <=> Drawing(p))
                          /\ (Recorded(p)' => Recorded(p))
                          /\ (Recorded(p) => p = o)
    <2>1. \A p \in Output : Recorded(p) => p = o
      BY <1>5 DEF Recorded, Somebody, Recording
    <2> QED  BY <2>1, <1>3 DEF Recorded, Clearing, Taking, Drawing, Ops
  <1>10. Pending' = Pending
    BY <1>1, <1>2, <1>3, StayMeans DEF Pending
  <1>11. SessionHolds'
    BY <1>1, <1>2, <1>9, Earlier DEF SessionHolds
  <1>12. PicturesHold'
    <2>1. \A p \in Output : Mistaken(p) => Mistaken(p)'
      BY <1>1, <1>3, <1>10, MistakenStays
    <2> QED  BY <2>1, <1>1, <1>2, <1>9, Earlier DEF PicturesHold
  <1>13. CalmHolds'
    <2> SUFFICES ASSUME Calm', NEW p \in Output
                 PROVE  /\ Taking(p)' => ~real[p].listed
                        /\ Recorded(p)' => surface'[p] # NoSize
                        /\ ShownIsApplied(p)' /\ WillReturn(p)'
      BY <1>1, <1>3, CalmStays
    <2>1. Calm
      BY <1>2, Earlier
    <2>2. Recorded(o) /\ surface[o] # NoSize
      BY <1>1, <1>4, <2>1 DEF CalmHolds, Recorded, Somebody, Recording
    <2>3. /\ Taking(p)' => ~real[p].listed
          /\ Recorded(p)' => surface'[p] # NoSize
          /\ ShownIsApplied(p)'
      BY <2>1, <1>1, <1>2, <1>9 DEF CalmHolds, ShownIsApplied
    <2>4. WillReturn(p)'
      <3>1. WillReturn(p)
        BY <2>1, <1>1 DEF CalmHolds
      <3> QED  BY <3>1, <2>2, <1>2, <1>9, <1>10 DEF WillReturn, Awaited
    <2> QED  BY <2>3, <2>4
  <1> QED  BY <1>3, <1>6, <1>7, <1>8, <1>11, <1>12, <1>13 DEF HotplugInv


LEMMA BlankKeeps ==
    ASSUME HotplugInv, NEW t \in Thread, NEW op, NEW half, NEW o \in Output,
           \/ op = "teardown" /\ half = "drop"
           \/ op = "clear" /\ half = "unset",
           BlankOutput(t, op, half, o)
    PROVE  HotplugInv'
  <1> DEFINE rest == {Work(half, o)}
  <1>1. /\ HotplugTypes /\ ThreadsFormed /\ ScreensHold /\ PatchesHold /\ ListsAgree
        /\ SizesAgree /\ SessionHolds /\ ReconcilesAlone /\ PicturesHold /\ CalmHolds
    BY DEF HotplugInv
  <1>2. /\ Doing(t, op, o) /\ Does(t, Work(op, o), rest)
        /\ surface' = [surface EXCEPT ![o] = NoSize]
        /\ picture' = [picture EXCEPT ![o] = NoSize]
        /\ real' = real /\ events' = events
        /\ outputs' = outputs /\ supervised' = supervised /\ workers' = workers
        /\ applied' = applied /\ session' = session /\ gpu' = gpu
        /\ changes' = changes /\ requests' = requests
    BY DEF BlankOutput, books
  <1>3. /\ mishaps \subseteq mishaps' /\ mishaps' \subseteq Mishap
        /\ t \in Client /\ gpu # Free => "clear race" \in mishaps'
    BY <1>1 DEF BlankOutput, HotplugTypes, Mishap
  <1>4. rest = {Work(half, o)}
    OBVIOUS
  <1> HIDE DEF rest
  <1>5. \/ rest = {}
        \/ op \in {"reapply", "set"} /\ rest = {Work("record", o)}
        \/ op = "teardown" /\ rest = {Work("drop", o)}
        \/ op = "clear" /\ rest = {Work("unset", o)}
    BY <1>4
  <1>6. HotplugTypes /\ ThreadsFormed /\ Doing(t, op, o) /\ Does(t, Work(op, o), rest)
        /\ mishaps \subseteq mishaps'
        /\ real' = real /\ outputs' = outputs /\ supervised' = supervised
    BY <1>1, <1>2, <1>3
  <1>7. /\ ListsStay /\ ThreadsFormed'
        /\ thread'[t].todo = (thread[t].todo \ {Work(op, o)}) \cup rest
        /\ \A u \in Thread : u # t => thread'[u] = thread[u]
        /\ op \in {"clear", "unset"} => t \in Client
        /\ \A p \in Output : \A q \in Ops :
              /\ Somebody(q, p) /\ (q # op \/ p # o) => Somebody(q, p)'
              /\ Somebody(q, p)' => Somebody(q, p) \/ Work(q, p) \in rest
              /\ Work(q, p) \in rest => Somebody(q, p)'
    BY <1>5, <1>6, WorkGoes
  <1>8. \A p \in Output : \A q \in Ops : Work(q, p) \in rest <=> q = half /\ p = o
    BY <1>4, WorkIs
  <1>9. \A p \in Output : Work("record", p) # Work(op, o) /\ Work("record", p) \notin rest
    BY <1>4, WorkIs
  <1>10. Somebody(op, o)
    BY <1>2 DEF Doing, Somebody
  <1>11. /\ surface' \in [Output -> Size \cup {NoSize}] /\ picture' \in [Output -> Size \cup {NoSize}]
         /\ surface'[o] = NoSize /\ picture'[o] = NoSize
         /\ \A p \in Output : p # o => surface'[p] = surface[p] /\ picture'[p] = picture[p]
    BY <1>1, <1>2 DEF HotplugTypes
  <1>12. \A p \in Output : /\ (Recorded(p)' <=> Recorded(p)) /\ (Drawing(p)' <=> Drawing(p))
                           /\ (Taking(p)' => Taking(p))
                           /\ (Clearing(p) => Clearing(p)')
                           /\ Clearing(p)' => Clearing(p) \/ (p = o /\ op = "clear")
                           /\ (op = "clear" => Clearing(o)') /\ (op = "teardown" => Taking(o))
    BY <1>7, <1>8, <1>10 DEF Recorded, Clearing, Taking, Drawing, Ops
  <1>13. HotplugTypes'
    <2>1. /\ \A u \in Thread : gpu' = u <=> \E p \in Output : Recording(u, p)'
          /\ gpu' \in Thread \cup {Free}
      BY <1>1, <1>2, <1>7, <1>9, LockStays
    <2> QED  BY <1>1, <1>2, <1>3, <1>7, <1>11, <2>1 DEF HotplugTypes, ListsStay
  <1>14. ScreensHold'
    BY <1>1, <1>2, <1>11 DEF ScreensHold, AllActive
  <1>15. PatchesHold' /\ ListsAgree' /\ ReconcilesAlone' /\ SizesAgree'
    BY <1>1, <1>2, <1>7, <1>11, StayKeeps, SizesStay
  <1>16. op = "clear" /\ OneAtATime' => gpu = Free
    BY <1>3, <1>7 DEF OneAtATime
  <1>17. SessionHolds'
    <2> SUFFICES ASSUME OneAtATime', NEW p \in Output
                 PROVE  /\ Clearing(p)' => gpu' = Free /\ surface'[p] = NoSize
                        /\ surface'[p] # NoSize => p \in session' \/ Recorded(p)'
      BY DEF SessionHolds
    <2>1. OneAtATime
      BY <1>3, Earlier
    <2> QED  BY <2>1, <1>1, <1>2, <1>11, <1>12, <1>16 DEF SessionHolds
  <1>18. Pending' = Pending
    BY <1>1, <1>2, <1>7, StayMeans DEF Pending
  <1>19. PicturesHold'
    <2>1. \A p \in Output : Mistaken(p) => Mistaken(p)'
      BY <1>1, <1>7, <1>18, MistakenStays
    <2>2. OneAtATime' => OneAtATime
      BY <1>3, Earlier
    <2> QED  BY <2>1, <2>2, <1>1, <1>11, <1>12 DEF PicturesHold
  <1>20. CalmHolds'
    <2> SUFFICES ASSUME Calm', NEW p \in Output
                 PROVE  /\ Taking(p)' => ~real[p].listed
                        /\ Recorded(p)' => surface'[p] # NoSize
                        /\ ShownIsApplied(p)' /\ WillReturn(p)'
      BY <1>1, <1>7, CalmStays
    <2>1. Calm
      BY <1>3, Earlier
    <2>2. /\ Taking(p) => ~real[p].listed
          /\ Recorded(p) => surface[p] # NoSize
          /\ ShownIsApplied(p) /\ WillReturn(p)
      BY <2>1, <1>1 DEF CalmHolds
    <2>3. Recorded(o) => FALSE
      <3>1. CASE op = "teardown"
        BY <3>1, <2>1, <1>1, <1>12 DEF CalmHolds, ScreensHold
      <3>2. CASE op = "clear"
        <4>1. gpu = Free
          BY <3>2, <1>3, <1>7 DEF Calm
        <4> QED  BY <4>1, <1>1, HotplugAssumption DEF HotplugTypes, Recorded, Somebody, Recording
      <3> QED  BY <3>1, <3>2
    <2>4. WillReturn(p)'
      <3> SUFFICES ASSUME real[p].listed, p \in session, surface'[p] = NoSize
                   PROVE  Awaited(p)'
        BY <1>2 DEF WillReturn
      <3>1. CASE p = o
        <4>1. op = "clear"
          BY <3>1, <2>1, <1>1, <1>12 DEF CalmHolds
        <4> QED  BY <3>1, <4>1, <1>12 DEF Awaited
      <3>2. CASE p # o
        BY <3>2, <2>2, <1>2, <1>11, <1>12, <1>18 DEF WillReturn, Awaited
      <3> QED  BY <3>1, <3>2
    <2> QED  BY <2>2, <2>3, <2>4, <1>2, <1>11, <1>12 DEF ShownIsApplied
  <1> QED  BY <1>7, <1>13, <1>14, <1>15, <1>17, <1>19, <1>20 DEF HotplugInv

LEMMA DropKeeps ==
    ASSUME HotplugInv, NEW t \in Thread, NEW o \in Output, Drop(t, o)
    PROVE  HotplugInv'
  <1>1. /\ HotplugTypes /\ ThreadsFormed /\ ScreensHold /\ PatchesHold /\ ListsAgree
        /\ SizesAgree /\ SessionHolds /\ ReconcilesAlone /\ PicturesHold /\ CalmHolds
    BY DEF HotplugInv
  <1>2. /\ Doing(t, "drop", o) /\ Does(t, Work("drop", o), {})
        /\ real' = real /\ surface' = surface /\ picture' = picture /\ events' = events
        /\ outputs' = outputs /\ supervised' = supervised /\ workers' = workers \ {o}
        /\ applied' = applied \ {o} /\ session' = session /\ gpu' = gpu
        /\ changes' = changes /\ requests' = requests /\ mishaps' = mishaps
    BY DEF Drop, compositor
  <1>3. /\ ListsStay /\ ThreadsFormed'
        /\ thread'[t].todo = (thread[t].todo \ {Work("drop", o)}) \cup {}
        /\ \A u \in Thread : u # t => thread'[u] = thread[u]
        /\ \A p \in Output : \A q \in Ops :
              /\ Somebody(q, p) /\ (q # "drop" \/ p # o) => Somebody(q, p)'
              /\ Somebody(q, p)' => Somebody(q, p) \/ Work(q, p) \in {}
    BY <1>1, <1>2, WorkGoes
  <1>4. \A p \in Output : Work("record", p) # Work("drop", o) /\ Work("record", p) \notin {}
    BY WorkIs
  <1>5. Taking(o)
    BY <1>2 DEF Doing, Taking, Somebody
  <1>6. HotplugTypes'
    <2>1. /\ \A u \in Thread : gpu' = u <=> \E p \in Output : Recording(u, p)'
          /\ gpu' \in Thread \cup {Free}
      BY <1>1, <1>2, <1>3, <1>4, LockStays
    <2>2. workers' \subseteq Output /\ applied' \subseteq Output
      BY <1>1, <1>2 DEF HotplugTypes
    <2> QED  BY <1>1, <1>2, <1>3, <2>1, <2>2 DEF HotplugTypes, ListsStay
  <1>7. ScreensHold'
    BY <1>1, <1>2 DEF ScreensHold, AllActive
  <1>8. PatchesHold' /\ ListsAgree' /\ ReconcilesAlone' /\ SizesAgree'
    BY <1>1, <1>2, <1>3, StayKeeps, SizesStay
  <1>9. \A p \in Output : /\ (Recorded(p)' <=> Recorded(p)) /\ (Clearing(p)' <=> Clearing(p))
                          /\ (Taking(p)' => Taking(p)) /\ (Drawing(p)' <=> Drawing(p))
    BY <1>3 DEF Recorded, Clearing, Taking, Drawing, Ops
  <1>10. SessionHolds'
    BY <1>1, <1>2, <1>9, Earlier DEF SessionHolds
  <1>11. Pending' = Pending
    BY <1>1, <1>2, <1>3, StayMeans DEF Pending
  <1>12. PicturesHold'
    <2>1. \A p \in Output : Mistaken(p) => Mistaken(p)'
      BY <1>1, <1>3, <1>11, MistakenStays
    <2> QED  BY <2>1, <1>1, <1>2, <1>9, Earlier DEF PicturesHold
  <1>13. CalmHolds'
    <2> SUFFICES ASSUME Calm', NEW p \in Output
                 PROVE  /\ Taking(p)' => ~real[p].listed
                        /\ Recorded(p)' => surface'[p] # NoSize
                        /\ ShownIsApplied(p)' /\ WillReturn(p)'
      BY <1>1, <1>3, CalmStays
    <2>1. Calm
      BY <1>2, Earlier
    <2>2. /\ Taking(p) => ~real[p].listed
          /\ Recorded(p) => surface[p] # NoSize
          /\ ShownIsApplied(p) /\ WillReturn(p)
      BY <2>1, <1>1 DEF CalmHolds
    <2>3. ~real[o].listed /\ surface[o] = NoSize
      BY <2>1, <1>1, <1>5 DEF CalmHolds, ScreensHold
    <2>4. WillReturn(p)'
      <3> SUFFICES ASSUME real[p].listed, p \in session, surface[p] = NoSize
                   PROVE  Awaited(p)'
        BY <1>2 DEF WillReturn
      <3>1. p # o /\ Awaited(p)
        BY <2>2, <2>3 DEF WillReturn
      <3> QED  BY <3>1, <1>2, <1>9, <1>11 DEF Awaited
    <2>5. ShownIsApplied(p)'
      <3>1. surface[p] # NoSize => p # o
        BY <2>3
      <3> QED  BY <2>2, <3>1, <1>2, <1>9 DEF ShownIsApplied
    <2> QED  BY <2>2, <2>4, <2>5, <1>2, <1>9
  <1> QED  BY <1>3, <1>6, <1>7, <1>8, <1>10, <1>12, <1>13 DEF HotplugInv

LEMMA UnsetKeeps ==
    ASSUME HotplugInv, NEW t \in Thread, NEW o \in Output, Unset(t, o)
    PROVE  HotplugInv'
  <1>1. /\ HotplugTypes /\ ThreadsFormed /\ ScreensHold /\ PatchesHold /\ ListsAgree
        /\ SizesAgree /\ SessionHolds /\ ReconcilesAlone /\ PicturesHold /\ CalmHolds
    BY DEF HotplugInv
  <1>2. /\ Doing(t, "unset", o) /\ Does(t, Work("unset", o), {})
        /\ real' = real /\ surface' = surface /\ picture' = picture /\ events' = events
        /\ outputs' = outputs /\ supervised' = supervised /\ workers' = workers
        /\ applied' = applied \ {o} /\ session' = session \ {o} /\ gpu' = gpu
        /\ changes' = changes /\ requests' = requests /\ mishaps' = mishaps
    BY DEF Unset, compositor
  <1>3. /\ ListsStay /\ ThreadsFormed'
        /\ thread'[t].todo = (thread[t].todo \ {Work("unset", o)}) \cup {}
        /\ \A u \in Thread : u # t => thread'[u] = thread[u]
        /\ \A p \in Output : \A q \in Ops :
              /\ Somebody(q, p) /\ (q # "unset" \/ p # o) => Somebody(q, p)'
              /\ Somebody(q, p)' => Somebody(q, p) \/ Work(q, p) \in {}
    BY <1>1, <1>2, WorkGoes
  <1>4. \A p \in Output : Work("record", p) # Work("unset", o) /\ Work("record", p) \notin {}
    BY WorkIs
  <1>5. Clearing(o)
    BY <1>2 DEF Doing, Clearing, Somebody
  <1>6. HotplugTypes'
    <2>3. HotplugTypes /\ gpu' = gpu
      BY <1>1, <1>2
    <2> DEFINE job == Work("unset", o)
               rest == {}
    <2>4. /\ thread'[t].todo = (thread[t].todo \ {job}) \cup rest
          /\ \A u \in Thread : u # t => thread'[u] = thread[u]
          /\ \A p \in Output : Work("record", p) # job /\ Work("record", p) \notin rest
      BY <1>3, <1>4
    <2> HIDE DEF job, rest
    <2>1. /\ \A u \in Thread : gpu' = u <=> \E p \in Output : Recording(u, p)'
          /\ gpu' \in Thread \cup {Free}
      BY <2>3, <2>4, LockStays
    <2>2. session' \subseteq Output /\ applied' \subseteq Output
      BY <1>1, <1>2 DEF HotplugTypes
    <2> QED  BY <1>1, <1>2, <1>3, <2>1, <2>2 DEF HotplugTypes, ListsStay
  <1>7. ScreensHold'
    BY <1>1, <1>2 DEF ScreensHold, AllActive
  <1>8. PatchesHold' /\ ListsAgree' /\ ReconcilesAlone' /\ SizesAgree'
    BY <1>1, <1>2, <1>3, StayKeeps, SizesStay
  <1>9. \A p \in Output : /\ (Recorded(p)' <=> Recorded(p)) /\ (Taking(p)' <=> Taking(p))
                          /\ (Drawing(p)' <=> Drawing(p)) /\ (Clearing(p)' => Clearing(p))
                          /\ p # o => (Clearing(p)' <=> Clearing(p))
    BY <1>3 DEF Recorded, Clearing, Taking, Drawing, Ops
  <1>10. OneAtATime => surface[o] = NoSize
    BY <1>1, <1>5 DEF SessionHolds
  <1>11. SessionHolds'
    <2> SUFFICES ASSUME OneAtATime', NEW p \in Output
                 PROVE  /\ Clearing(p)' => gpu' = Free /\ surface'[p] = NoSize
                        /\ surface'[p] # NoSize => p \in session' \/ Recorded(p)'
      BY DEF SessionHolds
    <2>1. OneAtATime
      BY <1>2, Earlier
    <2>2. /\ Clearing(p) => gpu = Free /\ surface[p] = NoSize
          /\ surface[p] # NoSize => p \in session \/ Recorded(p)
      BY <2>1, <1>1 DEF SessionHolds
    <2>3. surface[p] # NoSize => p # o
      BY <2>1, <1>10
    <2> QED  BY <2>2, <2>3, <1>2, <1>9
  <1>12. Pending' = Pending
    BY <1>1, <1>2, <1>3, StayMeans DEF Pending
  <1>13. PicturesHold'
    <2>1. \A p \in Output : Mistaken(p) => Mistaken(p)'
      BY <1>1, <1>3, <1>12, MistakenStays
    <2> QED  BY <2>1, <1>1, <1>2, <1>9, Earlier DEF PicturesHold
  <1>14. CalmHolds'
    <2> SUFFICES ASSUME Calm', NEW p \in Output
                 PROVE  /\ Taking(p)' => ~real[p].listed
                        /\ Recorded(p)' => surface'[p] # NoSize
                        /\ ShownIsApplied(p)' /\ WillReturn(p)'
      BY <1>1, <1>3, CalmStays
    <2>1. Calm /\ OneAtATime
      BY <1>2, Earlier
    <2>2. /\ Taking(p) => ~real[p].listed
          /\ Recorded(p) => surface[p] # NoSize
          /\ ShownIsApplied(p) /\ WillReturn(p)
      BY <2>1, <1>1 DEF CalmHolds
    <2>3. WillReturn(p)'
      <3> SUFFICES ASSUME real[p].listed, p \in session \ {o}, surface[p] = NoSize
                   PROVE  Awaited(p)'
        BY <1>2 DEF WillReturn
      <3>1. p # o /\ Awaited(p)
        BY <2>2 DEF WillReturn
      <3> QED  BY <3>1, <1>2, <1>9, <1>12 DEF Awaited
    <2>4. ShownIsApplied(p)'
      <3>1. surface[p] # NoSize => p # o
        BY <2>1, <1>10
      <3> QED  BY <2>2, <3>1, <1>2, <1>9 DEF ShownIsApplied
    <2> QED  BY <2>2, <2>3, <2>4, <1>2, <1>9
  <1> QED  BY <1>3, <1>6, <1>7, <1>8, <1>11, <1>13, <1>14 DEF HotplugInv


\* The requests of clients.

LEMMA AskKeeps ==
    ASSUME HotplugInv, NEW c \in Client, thread[c].pc = "idle",
           NEW op \in {"set", "clear"}, NEW o \in Output,
           Goes(c, [IdleThread EXCEPT !.pc = "apply", !.todo = {Work(op, o)}]),
           UNCHANGED <<compositor, events, books, gpu, changes, mishaps>>,
           requests' = requests + 1
    PROVE  HotplugInv'
  <1> DEFINE n == [IdleThread EXCEPT !.pc = "apply", !.todo = {Work(op, o)}]
             job == Work(op, o)
  <1>1. /\ HotplugTypes /\ ThreadsFormed /\ ScreensHold /\ PatchesHold /\ ListsAgree
        /\ SizesAgree /\ SessionHolds /\ ReconcilesAlone /\ PicturesHold /\ CalmHolds
    BY DEF HotplugInv
  <1>2. /\ real' = real /\ surface' = surface /\ picture' = picture /\ events' = events
        /\ outputs' = outputs /\ supervised' = supervised /\ workers' = workers
        /\ applied' = applied /\ session' = session /\ gpu' = gpu
        /\ changes' = changes /\ mishaps' = mishaps /\ requests' \in Nat
    BY <1>1 DEF compositor, books, HotplugTypes
  <1>3. c \in Thread /\ c # Listener
    BY ThreadsAre
  <1>4. thread[c] = IdleThread
    BY <1>1, <1>3 DEF ThreadsFormed, Formed
  <1>5. job \in Job /\ job.op = op
    BY DEF Job, Work
  <1>6. /\ n \in ThreadState /\ n.pc = "apply" /\ n.todo = {job} /\ n.batch = IdleThread.batch
        /\ n.refresh = IdleThread.refresh /\ n.before = IdleThread.before
        /\ n.after = IdleThread.after
    BY <1>5, IdleIs DEF ThreadState
  <1>7. Formed(c, n)
    BY <1>3, <1>5, <1>6, IdleIs, NobodyIs DEF Formed, ClientOps
  <1> HIDE DEF n
  <1>8. /\ thread' \in [Thread -> ThreadState] /\ thread'[c] = n
        /\ \A u \in Thread : u # c => thread'[u] = thread[u]
    BY <1>1, <1>3, <1>6, GoesIs DEF HotplugTypes, n
  <1>9. ThreadsFormed'
    BY <1>1, <1>7, <1>8 DEF ThreadsFormed, Formed, AllActive
  <1>10. SameList(thread[c], n)
    BY <1>4, <1>6, IdleIs DEF SameList
  <1>11. ListsStay
    BY <1>2, <1>8, <1>10 DEF ListsStay, SameList
  <1>12. thread'[c].todo = (thread[c].todo \ {job}) \cup {job}
    BY <1>4, <1>6, <1>8, IdleIs
  <1> HIDE DEF job
  <1>13. \A p \in Output : \A q \in Ops :
             /\ Somebody(q, p) => Somebody(q, p)'
             /\ Somebody(q, p)' => Somebody(q, p) \/ Work(q, p) = job
    <2> SUFFICES ASSUME NEW p \in Output, NEW q \in Ops
                 PROVE  /\ Somebody(q, p) => Somebody(q, p)'
                        /\ Somebody(q, p)' => Somebody(q, p) \/ Work(q, p) = job
      OBVIOUS
    <2> DEFINE rest == {job}
    <2>1. thread'[c].todo = (thread[c].todo \ {job}) \cup rest
      BY <1>12
    <2>2. Work(q, p) \in rest <=> Work(q, p) = job
      OBVIOUS
    <2> HIDE DEF rest
    <2>3. /\ Somebody(q, p) /\ Work(q, p) # job => Somebody(q, p)'
          /\ Somebody(q, p)' => Somebody(q, p) \/ Work(q, p) \in rest
          /\ Work(q, p) \in rest => Somebody(q, p)'
      BY <1>3, <1>8, <2>1, JobsMove
    <2> QED  BY <2>2, <2>3
  <1>14. \A p \in Output : \A q \in Ops : q \notin {"set", "clear"} => Work(q, p) # job
    BY WorkIs DEF job
  <1>15. \A p \in Output : /\ (Recorded(p)' <=> Recorded(p)) /\ (Clearing(p)' <=> Clearing(p))
                           /\ (Taking(p)' <=> Taking(p)) /\ (Drawing(p) => Drawing(p)')
    BY <1>13, <1>14 DEF Recorded, Clearing, Taking, Drawing, Ops
  <1>16. HotplugTypes'
    <2> DEFINE rest == {job}
    <2>1. /\ thread'[c].todo = (thread[c].todo \ {job}) \cup rest
          /\ \A p \in Output : Work("record", p) # job /\ Work("record", p) \notin rest
      BY <1>12, <1>14 DEF Ops
    <2> HIDE DEF rest
    <2>2. HotplugTypes /\ gpu' = gpu /\ \A u \in Thread : u # c => thread'[u] = thread[u]
      BY <1>1, <1>2, <1>8
    <2>3. /\ \A u \in Thread : gpu' = u <=> \E p \in Output : Recording(u, p)'
          /\ gpu' \in Thread \cup {Free}
      BY <1>3, <2>1, <2>2, LockStays
    <2> QED  BY <1>1, <1>2, <1>8, <2>3 DEF HotplugTypes
  <1>17. ScreensHold'
    BY <1>1, <1>2 DEF ScreensHold, AllActive
  <1>18. PatchesHold' /\ ListsAgree' /\ ReconcilesAlone' /\ SizesAgree'
    BY <1>1, <1>2, <1>11, StayKeeps, SizesStay
  <1>19. SessionHolds'
    BY <1>1, <1>2, <1>15, Earlier DEF SessionHolds
  <1>20. Pending' = Pending
    BY <1>1, <1>2, <1>11, StayMeans DEF Pending
  <1>21. PicturesHold'
    <2>1. \A p \in Output : Mistaken(p) => Mistaken(p)'
      BY <1>1, <1>11, <1>20, MistakenStays
    <2> QED  BY <2>1, <1>1, <1>2, <1>15, Earlier DEF PicturesHold
  <1>22. CalmHolds'
    <2> SUFFICES ASSUME Calm', NEW p \in Output
                 PROVE  /\ Taking(p)' => ~real[p].listed
                        /\ Recorded(p)' => surface'[p] # NoSize
                        /\ ShownIsApplied(p)' /\ WillReturn(p)'
      BY <1>1, <1>11, CalmStays
    <2>1. Calm
      BY <1>2, Earlier
    <2>2. /\ Taking(p) => ~real[p].listed
          /\ Recorded(p) => surface[p] # NoSize
          /\ ShownIsApplied(p) /\ WillReturn(p)
      BY <2>1, <1>1 DEF CalmHolds
    <2>3. WillReturn(p)'
      BY <2>2, <1>2, <1>15, <1>20 DEF WillReturn, Awaited
    <2> QED  BY <2>2, <2>3, <1>2, <1>15 DEF ShownIsApplied
  <1> QED  BY <1>9, <1>16, <1>17, <1>18, <1>19, <1>21, <1>22 DEF HotplugInv

LEMMA SetKeeps ==
    ASSUME HotplugInv, NEW c \in Client, NEW o \in Output, Set(c, o) \/ Clear(c, o)
    PROVE  HotplugInv'
  <1>1. /\ thread[c].pc = "idle" /\ requests' = requests + 1
        /\ UNCHANGED <<compositor, events, books, gpu, changes, mishaps>>
    BY DEF Set, Clear, Request
  <1>2. CASE Set(c, o)
    BY <1>1, <1>2, AskKeeps DEF Set
  <1>3. CASE Clear(c, o)
    BY <1>1, <1>3, AskKeeps DEF Clear
  <1> QED  BY <1>2, <1>3

\* A step of the hotplug thread on its way through a burst, with no
\* reconciliation before or after it.
LEMMA BurstKeeps ==
    ASSUME HotplugInv, NEW n \in ThreadState, Goes(Listener, n), Formed(Listener, n),
           Hot.pc \in {"idle", "batch"}, n.pc \in {"idle", "batch", "apply"},
           \A j \in n.todo : j.op = "reapply",
           UNCHANGED <<compositor, books, gpu, changes, requests>>,
           mishaps' \in {mishaps, mishaps \cup {"listing failed"}},
           events' \in Seq(Event), Owed => Owed',
           "listing failed" \notin mishaps' => \A o \in Output : surface[o] # NoSize =>
               /\ \A b, s : EndsWith(Pending, o, b, s) => EndsWith(Pending', o, b, s)
               /\ \A s : ToldWrong(Pending, o, s) => ToldWrong(Pending', o, s),
           \A o \in applied : ToldClosed(Pending, o) =>
               \/ ToldClosed(Pending', o)
               \/ ~outputs[o].listed
               \/ Work("reapply", o) \in n.todo
    PROVE  HotplugInv'
  <1>1. /\ HotplugTypes /\ ThreadsFormed /\ ScreensHold /\ PatchesHold /\ ListsAgree
        /\ SizesAgree /\ SessionHolds /\ ReconcilesAlone /\ PicturesHold /\ CalmHolds
    BY DEF HotplugInv
  <1>2. /\ real' = real /\ surface' = surface /\ picture' = picture
        /\ outputs' = outputs /\ supervised' = supervised /\ workers' = workers
        /\ applied' = applied /\ session' = session /\ gpu' = gpu
        /\ changes' = changes /\ requests' = requests
        /\ mishaps \subseteq mishaps' /\ (Orderly' => "listing failed" \notin mishaps')
    BY DEF compositor, books, Orderly
  <1>a. /\ (Orderly' => Orderly) /\ (OneAtATime' => OneAtATime) /\ (Calm' => Calm)
        /\ (OneAtATime' => Orderly')
    BY <1>2, Earlier DEF OneAtATime, Orderly
  <1>3. /\ thread' \in [Thread -> ThreadState] /\ thread'[Listener] = n
        /\ \A u \in Thread : u # Listener => thread'[u] = thread[u]
        /\ Listener \in Thread /\ Hot' = n
    BY <1>1, ThreadsAre, GoesIs DEF HotplugTypes, Hot
  <1>4. Hot.todo = {}
    BY <1>1, <1>3 DEF ThreadsFormed, Formed, Hot
  <1>5. ThreadsFormed'
    BY <1>1, <1>3 DEF ThreadsFormed, Formed, AllActive
  <1>6. /\ \A t \in Thread : /\ (Reconciling(t)' <=> Reconciling(t))
                             /\ (Patching(t)' <=> Patching(t))
                             /\ Reconciling(t) => t # Listener
    BY <1>3 DEF Reconciling, Patching, Hot
  <1>7. /\ ~Holding /\ ~Holding' /\ Hot.pc # "act" /\ Hot'.pc # "act"
        /\ Believed' = outputs /\ Believed = outputs
    BY <1>2, <1>3 DEF Holding, Believed
  <1>8. \A q : q # "reapply" => \A p \in Output : Work(q, p) \notin n.todo
    BY DEF Work
  <1>9. \A p \in Output : \A q \in Ops :
            /\ Somebody(q, p)' <=> Somebody(q, p) \/ Work(q, p) \in n.todo
    BY <1>3, <1>4 DEF Somebody, Work, Hot
  <1>10. \A p \in Output : /\ (Recorded(p)' <=> Recorded(p)) /\ (Clearing(p)' <=> Clearing(p))
                           /\ (Taking(p)' <=> Taking(p)) /\ (Drawing(p) => Drawing(p)')
                           /\ (Work("reapply", p) \in n.todo => Drawing(p)')
    BY <1>8, <1>9 DEF Recorded, Clearing, Taking, Drawing, Ops
  <1>11. HotplugTypes'
    <2>1. \A u \in Thread, p \in Output : Recording(u, p)' <=> Recording(u, p)
      BY <1>3, <1>4, <1>8 DEF Recording, Work, Hot
    <2>2. mishaps' \subseteq Mishap
      BY <1>1 DEF HotplugTypes, Mishap
    <2> QED  BY <1>1, <1>2, <1>3, <2>1, <2>2 DEF HotplugTypes
  <1>12. ScreensHold'
    BY <1>1, <1>2 DEF ScreensHold, AllActive
  <1>13. PatchesHold'
    <2>1. \A t \in Thread : Patching(t) => thread'[t] = thread[t]
      BY <1>3, <1>6 DEF Patching
    <2> QED  BY <1>1, <1>2, <1>6, <1>a, <2>1 DEF PatchesHold
  <1>14. ListsAgree' /\ SizesAgree'
    <2>1. ListsAgree'
      BY <1>1, <1>2, <1>7, <1>a DEF ListsAgree, Listed
    <2>2. SizesAgree'
      BY <1>1, <1>2, <1>7, <1>a DEF SizesAgree
    <2> QED  BY <2>1, <2>2
  <1>15. SessionHolds'
    BY <1>1, <1>2, <1>10, <1>a DEF SessionHolds
  <1>16. ReconcilesAlone'
    <2>1. \A t \in Thread : Reconciling(t) => thread'[t] = thread[t]
      BY <1>3, <1>6
    <2>2. \A t \in Thread : thread'[t].pc \in {"observe", "act"} => thread'[t] = thread[t]
      BY <1>3
    <2> QED  BY <1>1, <1>2, <1>6, <1>a, <2>2 DEF ReconcilesAlone, InStep
  <1>17. PicturesHold'
    <2> SUFFICES ASSUME OneAtATime', NEW p \in Output, picture'[p] # surface'[p]
                 PROVE  Drawing(p)' \/ Mistaken(p)'
      BY DEF PicturesHold
    <2>1. /\ OneAtATime /\ "listing failed" \notin mishaps'
          /\ picture[p] # surface[p] /\ surface[p] # NoSize
      BY <1>1, <1>2, <1>a DEF ScreensHold
    <2>2. Mistaken(p) => Mistaken(p)'
      BY <2>1, <1>2, <1>7 DEF Mistaken
    <2> QED  BY <2>1, <2>2, <1>1, <1>10 DEF PicturesHold
  <1>18. CalmHolds'
    <2>1. \A t \in Thread : thread'[t].pc \in {"diff", "observe"} =>
              thread'[t] = thread[t]
      BY <1>3
    <2>2. \A p \in Output : Awaited(p) => Awaited(p)'
      BY <1>2, <1>10 DEF Awaited
    <2>3. \A t \in Thread : thread'[t] = thread[t] => (ListsKnown(t) => ListsKnown(t)')
      BY <1>2 DEF ListsKnown, Listed
    <2>4. \A p \in Output : (ShownIsApplied(p) => ShownIsApplied(p)')
                            /\ (WillReturn(p) => WillReturn(p)')
      BY <1>2, <1>10, <2>2 DEF ShownIsApplied, WillReturn
    <2> SUFFICES ASSUME Calm
                 PROVE  /\ \A t \in Thread : thread'[t].pc \in {"diff", "observe"} => ListsKnown(t)'
                        /\ \A p \in Output : /\ Taking(p)' => ~real'[p].listed
                                             /\ Recorded(p)' => surface'[p] # NoSize
                                             /\ ShownIsApplied(p)' /\ WillReturn(p)'
      BY <1>a DEF CalmHolds
    <2> QED  BY <1>1, <1>2, <1>10, <2>1, <2>3, <2>4 DEF CalmHolds
  <1> QED  BY <1>5, <1>11, <1>12, <1>13, <1>14, <1>15, <1>16, <1>17, <1>18 DEF HotplugInv


\* The hotplug thread takes up the first event of its burst.
LEMMA Taken ==
    ASSUME HotplugTypes, ThreadsFormed, Hot.pc = "batch", Hot.batch # << >>
    PROVE  LET e == Head(Hot.batch)
               m == [Hot EXCEPT !.batch = Tail(@)] IN
           /\ Hot \in ThreadState /\ Formed(Listener, Hot) /\ Hot.todo = {}
           /\ Pending \in Seq(Event) /\ Pending # << >>
           /\ Head(Pending) = e /\ Tail(Pending) = Tail(Hot.batch) \o events
           /\ e \in Event
           /\ m \in ThreadState /\ m.batch = Tail(Hot.batch) /\ m.refresh = Hot.refresh
           /\ m.before = Hot.before /\ m.after = Hot.after
           /\ AllActive(Hot.before)
           /\ Resume(m) \in ThreadState /\ Formed(Listener, Resume(m))
           /\ Resume(m).batch = Tail(Hot.batch) /\ (Resume(m).refresh <=> Hot.refresh)
           /\ Resume(m).todo = {} /\ Resume(m).pc \in {"idle", "batch"}
  <1> DEFINE e == Head(Hot.batch)
             m == [Hot EXCEPT !.batch = Tail(@)]
             a == Hot.batch
  <1>1. Hot \in ThreadState /\ Formed(Listener, Hot) /\ Listener \in Thread
    BY ThreadsAre DEF HotplugTypes, ThreadsFormed, Hot
  <1>2. Hot.todo = {} /\ AllActive(Hot.before)
    BY <1>1 DEF Formed
  <1>3. a \in Seq(Event) /\ events \in Seq(Event) /\ a # << >>
    BY <1>1, FieldsOf DEF HotplugTypes
  <1>4. m \in ThreadState /\ m.batch = Tail(a) /\ m.refresh = Hot.refresh
        /\ m.before = Hot.before /\ m.after = Hot.after
    <2>1. Tail(a) \in Seq(Event)
      BY <1>3
    <2> QED  BY <1>1, <2>1 DEF ThreadState
  <1> HIDE DEF m
  <1>5. /\ Resume(m) \in ThreadState /\ Formed(Listener, Resume(m))
        /\ Resume(m).batch = Tail(a) /\ (Resume(m).refresh <=> Hot.refresh)
        /\ Resume(m).todo = {} /\ Resume(m).pc \in {"idle", "batch"}
    BY <1>1, <1>2, <1>4, ResumeIs
  <1> HIDE DEF a
  <1>6. (a \o events) \in Seq(Event) /\ a \o events # << >> /\ Head(a) \in Event
        /\ Head(a \o events) = Head(a)
    BY <1>3
  <1>7. Tail(a \o events) = Tail(a) \o events
    <2> DEFINE l == Tail(a \o events)
               r == Tail(a) \o events
    <2>1. /\ Len(a \o events) = Len(a) + Len(events) /\ Len(a) >= 1 /\ Len(a) \in Nat
          /\ \A i \in 1..Len(a) : (a \o events)[i] = a[i]
          /\ \A i \in 1..Len(events) : (a \o events)[Len(a) + i] = events[i]
      BY <1>3
    <2>2. /\ l \in Seq(Event) /\ Len(l) = Len(a) + Len(events) - 1
          /\ \A i \in 1..Len(l) : l[i] = (a \o events)[i + 1]
      BY <1>6, <2>1
    <2>3. /\ Tail(a) \in Seq(Event) /\ Len(Tail(a)) = Len(a) - 1
          /\ \A i \in 1..(Len(a) - 1) : Tail(a)[i] = a[i + 1]
      BY <1>3
    <2>4. /\ r \in Seq(Event) /\ Len(r) = Len(a) + Len(events) - 1
          /\ \A i \in 1..(Len(a) - 1) : r[i] = Tail(a)[i]
          /\ \A i \in 1..Len(events) : r[Len(a) - 1 + i] = events[i]
      BY <1>3, <2>3
    <2> HIDE DEF l, r
    <2>5. ASSUME NEW i \in 1..Len(l)
          PROVE  l[i] = r[i]
      <3>1. CASE i <= Len(a) - 1
        <4>1. l[i] = a[i + 1]
          BY <3>1, <2>1, <2>2
        <4>2. r[i] = a[i + 1]
          BY <3>1, <2>1, <2>3, <2>4
        <4> QED  BY <4>1, <4>2
      <3>2. CASE i > Len(a) - 1
        <4> DEFINE k == i - Len(a) + 1
        <4>1. k \in 1..Len(events) /\ i = Len(a) - 1 + k /\ i + 1 = Len(a) + k
          BY <3>2, <1>3, <2>1, <2>2
        <4> HIDE DEF k
        <4>2. l[i] = events[k] /\ r[i] = events[k]
          BY <4>1, <2>1, <2>2, <2>4
        <4> QED  BY <4>2
      <3> QED  BY <3>1, <3>2, <2>1
    <2>6. l = r
      BY <2>2, <2>4, <2>5, SeqEqual
    <2> QED  BY <2>6 DEF l, r
  <1> QED  BY <1>1, <1>2, <1>4, <1>5, <1>6, <1>7 DEF Pending, a, m

LEMMA ReceiveKeeps ==
    ASSUME HotplugInv, Receive
    PROVE  HotplugInv'
  <1> DEFINE m == [Hot EXCEPT !.batch = events,
                              !.refresh = \E i \in 1..Len(events) : WantsRefresh(events[i])]
             n == Resume(m)
  <1>1. /\ HotplugTypes /\ ThreadsFormed
    BY DEF HotplugInv
  <1>2. /\ Hot.pc = "idle" /\ events' = << >> /\ Goes(Listener, n)
        /\ UNCHANGED <<compositor, books, gpu, changes, requests>> /\ mishaps' = mishaps
    BY DEF Receive, Hot
  <1>3. Hot \in ThreadState /\ Hot = IdleThread /\ Listener \in Thread
    BY <1>1, <1>2, ThreadsAre DEF HotplugTypes, ThreadsFormed, Formed, Hot
  <1>4. events \in Seq(Event)
    BY <1>1 DEF HotplugTypes
  <1>5. /\ m \in ThreadState /\ m.batch = events
        /\ m.refresh <=> \E i \in 1..Len(events) : WantsRefresh(events[i])
        /\ m.before = Nobody
    BY <1>3, <1>4, IdleIs DEF ThreadState
  <1> HIDE DEF m
  <1>6. /\ n \in ThreadState /\ Formed(Listener, n)
        /\ n.batch = m.batch /\ (n.refresh <=> m.refresh) /\ n.todo = {}
        /\ n.pc \in {"idle", "batch"}
    BY <1>3, <1>5, NobodyIs, ResumeIs
  <1> HIDE DEF n
  <1>7. Hot' = n
    BY <1>1, <1>2, <1>3, <1>6, GoesIs DEF HotplugTypes, Hot
  <1>8. Pending = events /\ Pending' = events
    BY <1>2, <1>3, <1>4, <1>5, <1>6, <1>7, IdleIs DEF Pending
  <1>9. Owed => Owed'
    <2>1. Owed => \E e \in ToSet(events) : WantsRefresh(e)
      BY <1>3, IdleIs DEF Owed
    <2>2. (\E e \in ToSet(events) : WantsRefresh(e)) => m.refresh
      BY <1>4, <1>5, ToSetIs
    <2> QED  BY <2>1, <2>2, <1>6, <1>7 DEF Owed
  <1>10. events' \in Seq(Event)
    BY <1>2
  <1> QED  BY <1>2, <1>6, <1>8, <1>9, <1>10, BurstKeeps

\* An event is passed over, or found to ask for nothing.
LEMMA PassedKeeps ==
    ASSUME HotplugInv, Hot.pc = "batch", Hot.batch # << >>,
           NEW n \in ThreadState, Goes(Listener, n), Formed(Listener, n),
           n.batch = Tail(Hot.batch), n.refresh <=> Hot.refresh,
           n.pc \in {"idle", "batch", "apply"}, \A j \in n.todo : j.op = "reapply",
           UNCHANGED <<compositor, events, books, gpu, changes, requests>>,
           mishaps' \in {mishaps, mishaps \cup {"listing failed"}},
           "listing failed" \notin mishaps' =>
               \A o \in Output : surface[o] # NoSize => ~Tells(Head(Hot.batch), o),
           Head(Hot.batch).op = "Closed" =>
               LET o == Head(Hot.batch).output IN
               o \in applied => ~outputs[o].listed \/ Work("reapply", o) \in n.todo
    PROVE  HotplugInv'
  <1>1. HotplugTypes /\ ThreadsFormed
    BY DEF HotplugInv
  <1>2. Hot' = n
    BY <1>1, ThreadsAre, GoesIs DEF HotplugTypes, Hot
  <1>3. /\ Pending \in Seq(Event) /\ Pending # << >> /\ Head(Pending) = Head(Hot.batch)
        /\ Tail(Pending) = Tail(Hot.batch) \o events
    BY <1>1, Taken
  <1>4. Pending' = Tail(Pending)
    BY <1>2, <1>3 DEF Pending
  <1>5. ASSUME NEW o \in Output, surface[o] # NoSize, "listing failed" \notin mishaps'
        PROVE  /\ \A b, s : EndsWith(Pending, o, b, s) => EndsWith(Pending', o, b, s)
               /\ \A s : ToldWrong(Pending, o, s) => ToldWrong(Pending', o, s)
    <2>1. ~Tells(Head(Pending), o)
      BY <1>3, <1>5
    <2> QED  BY <2>1, <1>3, <1>4, EndsTail, ToldTail
  <1>6. ASSUME NEW o \in applied, ToldClosed(Pending, o)
        PROVE  \/ ToldClosed(Pending', o)
               \/ ~outputs[o].listed
               \/ Work("reapply", o) \in n.todo
    <2>1. \/ ToldClosed(Tail(Pending), o)
          \/ Head(Pending).op = "Closed" /\ Head(Pending).output = o
      BY <1>3, <1>6, ToldTail
    <2> QED  BY <2>1, <1>3, <1>4
  <1>7. Owed => Owed'
    BY <1>2 DEF Owed, WantsRefresh
  <1>8. events' \in Seq(Event)
    BY <1>1 DEF HotplugTypes
  <1>9. UNCHANGED <<compositor, books, gpu, changes, requests>>
    OBVIOUS
  <1>10. Hot.pc \in {"idle", "batch"}
    OBVIOUS
  <1> QED  BY <1>5, <1>6, <1>7, <1>8, <1>9, <1>10, BurstKeeps

LEMMA PassOverKeeps ==
    ASSUME HotplugInv, PassOver
    PROVE  HotplugInv'
  <1> DEFINE m == [Hot EXCEPT !.batch = Tail(@)]
             n == Resume(m)
  <1>1. /\ Hot.pc = "batch" /\ Hot.batch # << >>
        /\ Head(Hot.batch).op \in {"Added", "Removed"} /\ Goes(Listener, n)
        /\ UNCHANGED <<compositor, events, books, gpu, changes, requests>> /\ mishaps' = mishaps
    BY DEF PassOver, Hot
  <1>2. /\ n \in ThreadState /\ Formed(Listener, n) /\ n.batch = Tail(Hot.batch)
        /\ (n.refresh <=> Hot.refresh) /\ n.todo = {} /\ n.pc \in {"idle", "batch"}
    BY <1>1, Taken DEF HotplugInv
  <1> HIDE DEF n
  <1>3. (\A o \in Output : ~Tells(Head(Hot.batch), o)) /\ Head(Hot.batch).op # "Closed"
    BY <1>1 DEF Tells
  <1> QED  BY <1>1, <1>2, <1>3, PassedKeeps

LEMMA HandleClosedKeeps ==
    ASSUME HotplugInv, HandleClosed
    PROVE  HotplugInv'
  <1> DEFINE m == [Hot EXCEPT !.batch = Tail(@)]
             o == Head(Hot.batch).output
             d == [Hot EXCEPT !.pc = "apply", !.batch = Tail(@), !.todo = {Work("reapply", o)}]
             n == IF o \in applied /\ outputs[o].listed THEN d ELSE Resume(m)
  <1>1. /\ Hot.pc = "batch" /\ Hot.batch # << >>
        /\ Head(Hot.batch).op = "Closed" /\ Goes(Listener, n)
        /\ UNCHANGED <<compositor, events, books, gpu, changes, requests>> /\ mishaps' = mishaps
    BY DEF HandleClosed, Hot
  <1>2. /\ Hot \in ThreadState /\ Formed(Listener, Hot) /\ o \in Output
        /\ Tail(Hot.batch) \in Seq(Event)
        /\ Resume(m) \in ThreadState /\ Formed(Listener, Resume(m))
        /\ Resume(m).batch = Tail(Hot.batch) /\ (Resume(m).refresh <=> Hot.refresh)
        /\ Resume(m).todo = {} /\ Resume(m).pc \in {"idle", "batch"}
    <2>1. Hot \in ThreadState /\ Head(Hot.batch) \in Event
      BY <1>1, Taken DEF HotplugInv
    <2>2. Tail(Hot.batch) \in Seq(Event)
      BY <1>1, <2>1, FieldsOf
    <2> QED  BY <1>1, <2>1, <2>2, Taken, EventsAre DEF HotplugInv
  <1> HIDE DEF m
  <1>3. /\ n \in ThreadState /\ Formed(Listener, n) /\ n.batch = Tail(Hot.batch)
        /\ (n.refresh <=> Hot.refresh) /\ n.pc \in {"idle", "batch", "apply"}
        /\ \A j \in n.todo : j.op = "reapply"
        /\ o \in applied => ~outputs[o].listed \/ Work("reapply", o) \in n.todo
    <2>1. CASE o \in applied /\ outputs[o].listed
      <3>1. Work("reapply", o) \in Job /\ Work("reapply", o).op = "reapply"
        BY <1>2 DEF Work, Job
      <3>2. /\ d \in ThreadState /\ d.pc = "apply" /\ d.batch = Tail(Hot.batch)
            /\ d.refresh = Hot.refresh /\ d.todo = {Work("reapply", o)}
            /\ d.before = Hot.before /\ d.after = Hot.after
        BY <1>2, <3>1 DEF ThreadState
      <3>3. Formed(Listener, d)
        BY <1>2, <3>1, <3>2 DEF Formed, ListOps
      <3>4. n = d
        BY <2>1
      <3> HIDE DEF n, d
      <3> QED  BY <3>1, <3>2, <3>3, <3>4
    <2>2. CASE ~(o \in applied /\ outputs[o].listed)
      <3>1. n = Resume(m)
        BY <2>2
      <3> HIDE DEF n
      <3> QED  BY <2>2, <3>1, <1>2
    <2> QED  BY <2>1, <2>2
  <1> HIDE DEF n
  <1>4. \A p \in Output : ~Tells(Head(Hot.batch), p)
    BY <1>1 DEF Tells
  <1> QED  BY <1>1, <1>3, <1>4, PassedKeeps


\* A step of a thread that is about the lists: nothing on the screens changes.
LEMMA ListStep ==
    ASSUME HotplugInv, NEW t \in Thread, NEW n \in ThreadState, Goes(t, n), Formed(t, n),
           thread[t].todo = {}, \A j \in n.todo : j.op \in {"reapply", "teardown"},
           UNCHANGED <<compositor, events, applied, session, gpu>>,
           outputs' \in OutputList, AllActive(outputs'),
           supervised' \in [Output -> Tracked], workers' \subseteq Output,
           changes' \in Nat, requests' \in Nat,
           mishaps \subseteq mishaps', mishaps' \subseteq Mishap
    PROVE  /\ HotplugTypes' /\ ThreadsFormed' /\ ScreensHold' /\ SessionHolds'
           /\ thread'[t] = n /\ \A u \in Thread : u # t => thread'[u] = thread[u]
           /\ real' = real /\ surface' = surface /\ picture' = picture /\ events' = events
           /\ applied' = applied /\ session' = session
           /\ \A p \in Output :
                 /\ (Recorded(p)' <=> Recorded(p)) /\ (Clearing(p)' <=> Clearing(p))
                 /\ (Drawing(p) \/ Work("reapply", p) \in n.todo => Drawing(p)')
                 /\ (Taking(p)' => Taking(p) \/ Work("teardown", p) \in n.todo)
           /\ (Orderly' => Orderly) /\ (OneAtATime' => OneAtATime) /\ (Calm' => Calm)
  <1>1. /\ HotplugTypes /\ ThreadsFormed /\ ScreensHold /\ SessionHolds
    BY DEF HotplugInv
  <1>2. /\ real' = real /\ surface' = surface /\ picture' = picture /\ events' = events
        /\ applied' = applied /\ session' = session /\ gpu' = gpu
    BY DEF compositor
  <1>3. /\ thread' \in [Thread -> ThreadState] /\ thread'[t] = n
        /\ \A u \in Thread : u # t => thread'[u] = thread[u]
    BY <1>1, GoesIs DEF HotplugTypes
  <1>4. ThreadsFormed'
    BY <1>1, <1>3 DEF ThreadsFormed, Formed, AllActive
  <1>5. \A q : q \notin {"reapply", "teardown"} => \A p \in Output : Work(q, p) \notin n.todo
    BY DEF Work
  <1>6. \A p \in Output : \A q \in Ops :
            Somebody(q, p)' <=> Somebody(q, p) \/ Work(q, p) \in n.todo
    BY <1>3 DEF Somebody, Work
  <1>7. \A p \in Output :
            /\ (Recorded(p)' <=> Recorded(p)) /\ (Clearing(p)' <=> Clearing(p))
            /\ (Drawing(p) \/ Work("reapply", p) \in n.todo => Drawing(p)')
            /\ (Taking(p)' => Taking(p) \/ Work("teardown", p) \in n.todo)
    BY <1>5, <1>6 DEF Recorded, Clearing, Taking, Drawing, Ops
  <1>8. HotplugTypes'
    <2>1. \A u \in Thread, p \in Output : Recording(u, p)' <=> Recording(u, p)
      BY <1>3, <1>5 DEF Recording, Work
    <2> QED  BY <1>1, <1>2, <1>3, <2>1 DEF HotplugTypes
  <1>9. ScreensHold'
    BY <1>1, <1>2 DEF ScreensHold, AllActive
  <1>10. (Orderly' => Orderly) /\ (OneAtATime' => OneAtATime) /\ (Calm' => Calm)
    BY Earlier
  <1>11. SessionHolds'
    BY <1>1, <1>2, <1>7, <1>10 DEF SessionHolds
  <1> QED  BY <1>2, <1>3, <1>4, <1>7, <1>8, <1>9, <1>10, <1>11

\* What a reconciliation starts from.
LEMMA CrossingIs ==
    ASSUME HotplugTypes, NEW S
    PROVE  /\ Crossing(S) \subseteq Mishap
           /\ \A t \in S : Reconciling(t) => Crossing(S) = {"crossed"}
  BY DEF Crossing, Mishap

\* The hotplug thread takes a list in hand, for a size it was told or because
\* outputs came or went.
LEMMA TakesList ==
    ASSUME HotplugInv, NEW n \in ThreadState, Goes(Listener, n), Formed(Listener, n),
           Hot.pc = "batch", n.pc = "diff", n.todo = {},
           UNCHANGED <<compositor, events, books, gpu, changes, requests>>,
           mishaps \cup Crossing(Client) \subseteq mishaps', mishaps' \subseteq Mishap,
           Listed(n.after) \in {Listed(outputs), Listed(real)},
           Orderly' => Listed(n.after) = Listed(real) \/ (Owed => Owed'),
           Orderly' => \A o \in Output : surface[o] # NoSize =>
               (EndsWith(Pending, o, outputs[o].size, real[o].size)
                => EndsWith(Pending', o, n.after[o].size, real[o].size)),
           \A o \in Output : ToldWrong(Pending, o, real[o].size) =>
               ToldWrong(Pending', o, real[o].size) \/ n.after[o].size # real[o].size,
           \A o \in Output : ToldClosed(Pending, o) => ToldClosed(Pending', o)
    PROVE  HotplugInv'
  <1>1. /\ HotplugTypes /\ ThreadsFormed /\ ScreensHold /\ PatchesHold /\ ListsAgree
        /\ SizesAgree /\ SessionHolds /\ ReconcilesAlone /\ PicturesHold /\ CalmHolds
    BY DEF HotplugInv
  <1>2. /\ Listener \in Thread /\ Hot.todo = {} /\ mishaps \subseteq mishaps'
        /\ outputs' = outputs /\ supervised' = supervised /\ workers' = workers
        /\ UNCHANGED <<compositor, events, applied, session, gpu>>
        /\ changes' = changes /\ requests' = requests
    BY <1>1, ThreadsAre DEF ThreadsFormed, Formed, Hot, books
  <1>3. /\ HotplugTypes' /\ ThreadsFormed' /\ ScreensHold' /\ SessionHolds'
        /\ Hot' = n /\ \A u \in Thread : u # Listener => thread'[u] = thread[u]
        /\ real' = real /\ surface' = surface /\ picture' = picture /\ events' = events
        /\ applied' = applied /\ session' = session
        /\ \A p \in Output :
              /\ (Recorded(p)' <=> Recorded(p)) /\ (Clearing(p)' <=> Clearing(p))
              /\ (Drawing(p) => Drawing(p)') /\ (Taking(p)' => Taking(p))
        /\ (Orderly' => Orderly) /\ (OneAtATime' => OneAtATime) /\ (Calm' => Calm)
    <2>1. /\ outputs' \in OutputList /\ AllActive(outputs')
          /\ supervised' \in [Output -> Tracked] /\ workers' \subseteq Output
          /\ changes' \in Nat /\ requests' \in Nat
      BY <1>1, <1>2 DEF HotplugTypes, ScreensHold
    <2> QED  BY <1>2, <2>1, ListStep DEF Hot
  <1>4. /\ ~Holding /\ Holding' /\ Hot'.pc # "act"
        /\ Believed = outputs /\ Believed' = n.after
    BY <1>2, <1>3 DEF Holding, Believed
  <1>5. \A t \in Thread : t # Listener => /\ (Reconciling(t)' <=> Reconciling(t))
                                          /\ (Patching(t)' <=> Patching(t))
    BY <1>3 DEF Reconciling, Patching
  <1>6. \A t \in Thread : Patching(t) \/ Patching(t)' => t # Listener
    BY HotplugAssumption DEF Patching
  <1>7. PatchesHold'
    <2>1. \A t \in Thread : Patching(t)' => Patching(t) /\ thread'[t] = thread[t]
      BY <1>3, <1>5, <1>6
    <2> QED  BY <1>1, <1>3, <2>1 DEF PatchesHold
  <1>8. ListsAgree'
    <2> SUFFICES ASSUME Orderly', ~Owed'
                 PROVE  Listed(n.after) = Listed(real)
      BY <1>3, <1>4 DEF ListsAgree, Listed
    <2>1. CASE Listed(n.after) # Listed(real)
      <3>1. ~Owed /\ Orderly
        BY <2>1, <1>3
      <3> QED  BY <3>1, <1>1, <1>4 DEF ListsAgree
    <2> QED  BY <2>1
  <1>9. SizesAgree'
    <2> SUFFICES ASSUME Orderly', NEW o \in Output, surface[o] # NoSize
                 PROVE  EndsWith(Pending', o, n.after[o].size, real[o].size)
      BY <1>3, <1>4 DEF SizesAgree
    <2>1. EndsWith(Pending, o, outputs[o].size, real[o].size)
      BY <1>1, <1>3, <1>4 DEF SizesAgree
    <2> QED  BY <2>1
  <1>10. OneAtATime' => \A t \in Client : ~Reconciling(t)
    <2>1. \A t \in Client : Reconciling(t) => "crossed" \in mishaps'
      BY <1>1, CrossingIs
    <2> QED  BY <2>1 DEF OneAtATime
  <1>11. ReconcilesAlone'
    <2> SUFFICES ASSUME OneAtATime'
                 PROVE  /\ \A t, u \in Thread : Reconciling(t)' /\ Reconciling(u)' => t = u
                        /\ \A t \in Thread : thread'[t].pc = "observe" => thread'[t].before = outputs'
                        /\ \A t \in Thread : thread'[t].pc = "act" => thread'[t].after = outputs'
                        /\ InStep(supervised, outputs)'
      BY DEF ReconcilesAlone
    <2>1. \A t \in Thread : Reconciling(t)' => t = Listener
      BY <1>5, <1>10, ThreadsAre
    <2>2. \A t \in Thread : t # Listener => thread'[t].pc \notin {"observe", "act"}
      BY <2>1 DEF Reconciling
    <2>3. thread'[Listener].pc = "diff"
      BY <1>3 DEF Hot
    <2>4. InStep(supervised, outputs)
      BY <1>1, <1>3 DEF ReconcilesAlone
    <2> QED  BY <1>2, <2>1, <2>2, <2>3, <2>4 DEF InStep
  <1>12. PicturesHold'
    <2> SUFFICES ASSUME OneAtATime', NEW p \in Output, picture[p] # surface[p]
                 PROVE  Drawing(p)' \/ Mistaken(p)'
      BY <1>3 DEF PicturesHold
    <2>1. Drawing(p) \/ Mistaken(p)
      BY <1>1, <1>3 DEF PicturesHold
    <2>2. Mistaken(p) => Mistaken(p)'
      BY <1>2, <1>3, <1>4 DEF Mistaken
    <2> QED  BY <2>1, <2>2, <1>3
  <1>13. CalmHolds'
    <2>1. \A t \in Thread : t # Listener => (ListsKnown(t) => ListsKnown(t)')
      BY <1>2, <1>3 DEF ListsKnown, Listed
    <2>2. ListsKnown(Listener)'
      BY <1>2, <1>3 DEF ListsKnown, Listed, Hot
    <2>3. \A p \in Output : Awaited(p) => Awaited(p)'
      BY <1>2, <1>3 DEF Awaited
    <2>4. \A p \in Output : /\ (ShownIsApplied(p) => ShownIsApplied(p)')
                            /\ (WillReturn(p) => WillReturn(p)')
      BY <1>3, <2>3 DEF ShownIsApplied, WillReturn
    <2> SUFFICES ASSUME Calm
                 PROVE  /\ \A t \in Thread : thread'[t].pc \in {"diff", "observe"} => ListsKnown(t)'
                        /\ \A p \in Output : /\ Taking(p)' => ~real'[p].listed
                                             /\ Recorded(p)' => surface'[p] # NoSize
                                             /\ ShownIsApplied(p)' /\ WillReturn(p)'
      BY <1>3 DEF CalmHolds
    <2> QED  BY <1>1, <1>3, <2>1, <2>2, <2>4 DEF CalmHolds
  <1> QED  BY <1>3, <1>7, <1>8, <1>9, <1>11, <1>12, <1>13 DEF HotplugInv

LEMMA RefreshKeeps ==
    ASSUME HotplugInv, Refresh
    PROVE  HotplugInv'
  <1>1. /\ HotplugTypes /\ ThreadsFormed /\ ScreensHold
    BY DEF HotplugInv
  <1>2. PICK taken \in {real, outputs} :
           /\ Goes(Listener, Relist(Hot, taken))
           /\ \/ taken = real /\ mishaps' = mishaps \cup Crossing(Client)
              \/ mishaps' = mishaps \cup {"listing failed"} \cup Crossing(Client)
    BY DEF Refresh, Hot
  <1> DEFINE n == Relist(Hot, taken)
  <1>3. /\ Hot.pc = "batch" /\ Hot.batch = << >> /\ Hot.refresh
        /\ UNCHANGED <<compositor, events, books, gpu, changes, requests>>
    BY DEF Refresh, Hot
  <1>4. Hot \in ThreadState /\ Formed(Listener, Hot) /\ Hot.todo = {}
        /\ taken \in OutputList /\ AllActive(taken)
    BY <1>1, <1>3, ThreadsAre DEF HotplugTypes, ThreadsFormed, Formed, Hot, ScreensHold
  <1>5. /\ n \in ThreadState /\ n.pc = "diff" /\ n.batch = << >> /\ n.after = taken
        /\ n.before = Hot.before /\ n.todo = {} /\ ~n.refresh
    BY <1>3, <1>4 DEF Relist, ThreadState
  <1> HIDE DEF n
  <1>6. Formed(Listener, n)
    BY <1>4, <1>5 DEF Formed
  <1>7. Goes(Listener, n)
    BY <1>2 DEF n
  <1>8. Hot' = n
    BY <1>1, <1>5, <1>7, ThreadsAre, GoesIs DEF HotplugTypes, Hot
  <1>9. Pending' = Pending /\ Pending \in Seq(Event)
    BY <1>1, <1>3, <1>5, <1>8 DEF Pending, HotplugTypes
  <1>10. /\ mishaps \cup Crossing(Client) \subseteq mishaps' /\ mishaps' \subseteq Mishap
         /\ Orderly' => taken = real
    <2>1. mishaps \subseteq Mishap /\ Crossing(Client) \subseteq Mishap
      BY <1>1, CrossingIs DEF HotplugTypes
    <2>2. CASE taken = real /\ mishaps' = mishaps \cup Crossing(Client)
      BY <2>1, <2>2
    <2>3. CASE mishaps' = mishaps \cup {"listing failed"} \cup Crossing(Client)
      <3>1. "listing failed" \in Mishap /\ ~Orderly'
        BY <2>3 DEF Orderly, Mishap
      <3> QED  BY <3>1, <2>1, <2>3
    <2> QED  BY <1>2, <2>2, <2>3
  <1>11. ASSUME NEW o \in Output, EndsWith(Pending, o, outputs[o].size, real[o].size)
         PROVE  EndsWith(Pending, o, real[o].size, real[o].size)
    BY <1>9, <1>11, EndsSays
  <1>12. Listed(n.after) \in {Listed(outputs), Listed(real)}
    BY <1>5
  <1>13. Orderly' => Listed(n.after) = Listed(real) \/ (Owed => Owed')
    BY <1>5, <1>10
  <1>14. Orderly' => \A o \in Output : surface[o] # NoSize =>
             (EndsWith(Pending, o, outputs[o].size, real[o].size)
              => EndsWith(Pending', o, n.after[o].size, real[o].size))
    BY <1>5, <1>9, <1>10, <1>11
  <1>15. \A o \in Output : /\ (ToldWrong(Pending, o, real[o].size) => ToldWrong(Pending', o, real[o].size))
                           /\ (ToldClosed(Pending, o) => ToldClosed(Pending', o))
    BY <1>9
  <1> QED  BY <1>3, <1>5, <1>6, <1>7, <1>10, <1>12, <1>13, <1>14, <1>15, TakesList

LEMMA HandleConfiguredKeeps ==
    ASSUME HotplugInv, HandleConfigured
    PROVE  HotplugInv'
  <1> DEFINE e == Head(Hot.batch)
             o == e.output
             known == IF outputs[o].listed THEN outputs ELSE real
             after == ConfiguredList(known, o, e.size)
             n == [Hot EXCEPT !.pc = "diff", !.batch = Tail(@), !.after = after]
             m == [Hot EXCEPT !.batch = Tail(@)]
  <1>1. /\ HotplugTypes /\ ThreadsFormed /\ ScreensHold
    BY DEF HotplugInv
  <1>2. /\ Hot.pc = "batch" /\ Hot.batch # << >> /\ e.op = "Configured"
        /\ UNCHANGED <<compositor, events, books, gpu, changes, requests>>
        /\ \/ known[o].listed /\ Goes(Listener, n) /\ mishaps' = mishaps \cup Crossing(Client)
           \/ ~known[o].listed /\ Goes(Listener, Resume(m)) /\ mishaps' = mishaps
           \/ Goes(Listener, Resume(m)) /\ mishaps' = mishaps \cup {"listing failed"}
    BY DEF HandleConfigured, Hot
  <1>3. /\ Hot \in ThreadState /\ Formed(Listener, Hot) /\ Hot.todo = {}
        /\ Pending \in Seq(Event) /\ Pending # << >>
        /\ Head(Pending) = e /\ Tail(Pending) = Tail(Hot.batch) \o events
        /\ e \in Event
        /\ Resume(m) \in ThreadState /\ Formed(Listener, Resume(m))
        /\ Resume(m).batch = Tail(Hot.batch) /\ (Resume(m).refresh <=> Hot.refresh)
        /\ Resume(m).todo = {} /\ Resume(m).pc \in {"idle", "batch"}
    BY <1>1, <1>2, Taken
  <1>4. o \in Output /\ e.size \in Size
    BY <1>2, <1>3, EventsAre
  <1>5. known \in OutputList /\ AllActive(known) /\ (known = outputs \/ known = real)
    BY <1>1 DEF HotplugTypes, ScreensHold
  <1>6. ASSUME Goes(Listener, Resume(m)),
               \/ ~known[o].listed /\ mishaps' = mishaps
               \/ mishaps' = mishaps \cup {"listing failed"}
        PROVE  HotplugInv'
    <2>1. "listing failed" \notin mishaps' => ~real[o].listed
      BY <1>6
    <2>2. "listing failed" \notin mishaps' => \A p \in Output : surface[p] # NoSize => ~Tells(e, p)
      BY <2>1, <1>1 DEF Tells, ScreensHold
    <2> DEFINE r == Resume(m)
    <2>3. r \in ThreadState /\ Goes(Listener, r) /\ Formed(Listener, r)
          /\ r.batch = Tail(Hot.batch) /\ (r.refresh <=> Hot.refresh)
          /\ r.todo = {} /\ r.pc \in {"idle", "batch"}
      BY <1>3, <1>6
    <2>4. Head(Hot.batch).op # "Closed"
      BY <1>2
    <2>5. /\ UNCHANGED <<compositor, events, books, gpu, changes, requests>>
          /\ mishaps' \in {mishaps, mishaps \cup {"listing failed"}}
      BY <1>2, <1>6
    <2> HIDE DEF r, known
    <2> QED  BY <1>2, <2>2, <2>3, <2>4, <2>5, PassedKeeps
  <1>7. ASSUME known[o].listed, Goes(Listener, n), mishaps' = mishaps \cup Crossing(Client)
        PROVE  HotplugInv'
    <2>1. /\ after \in OutputList /\ AllActive(after) /\ Listed(after) = Listed(known)
          /\ after[o].size = e.size /\ \A p \in Output : p # o => after[p] = known[p]
      <3> HIDE DEF known
      <3>1. known \in [Output -> Entry \cup {Unlisted}]
        BY <1>5 DEF OutputList
      <3>2. known[o] \in Entry
        BY <3>1, <1>4, <1>7 DEF Unlisted
      <3>3. known[o].listed = TRUE /\ known[o].active \in BOOLEAN /\ known[o].size \in Size
        BY <3>2 DEF Entry
      <3> DEFINE x == [known[o] EXCEPT !.active = TRUE, !.size = e.size]
      <3>4. x \in Entry /\ x.listed /\ x.active /\ x.size = e.size
        BY <3>2, <1>4 DEF Entry
      <3>5. after = [known EXCEPT ![o] = x]
        BY <3>1, <1>4 DEF ConfiguredList
      <3> HIDE DEF x, after
      <3>6. after \in [Output -> Entry \cup {Unlisted}] /\ after[o] = x
            /\ \A p \in Output : p # o => after[p] = known[p]
        BY <3>1, <3>4, <3>5, <1>4
      <3>7. AllActive(after)
        BY <3>4, <3>6, <1>5 DEF AllActive
      <3>8. Listed(after) = Listed(known)
        BY <3>4, <3>6, <1>7 DEF Listed
      <3> QED  BY <3>4, <3>6, <3>7, <3>8 DEF OutputList
    <2> HIDE DEF known, after
    <2>2. /\ n \in ThreadState /\ n.pc = "diff" /\ n.batch = Tail(Hot.batch)
          /\ n.refresh = Hot.refresh /\ n.after = after /\ n.before = Hot.before /\ n.todo = {}
      <3>1. Tail(Hot.batch) \in Seq(Event)
        BY <1>2, <1>3, FieldsOf
      <3> QED  BY <1>3, <2>1, <3>1 DEF ThreadState
    <2> HIDE DEF n
    <2>3. Formed(Listener, n)
      BY <1>3, <2>1, <2>2 DEF Formed
    <2>4. Hot' = n
      BY <1>1, <1>7, <2>2, ThreadsAre, GoesIs DEF HotplugTypes, Hot
    <2>5. Pending' = Tail(Pending)
      BY <1>2, <1>3, <2>2, <2>4 DEF Pending
    <2>6. mishaps \cup Crossing(Client) \subseteq mishaps' /\ mishaps' \subseteq Mishap
      BY <1>1, <1>7, CrossingIs DEF HotplugTypes
    <2>7. Listed(n.after) \in {Listed(outputs), Listed(real)}
      BY <1>5, <2>1, <2>2
    <2>8. Owed => Owed'
      BY <1>2, <2>2, <2>4 DEF Owed, WantsRefresh
    <2>9. ASSUME NEW p \in Output, EndsWith(Pending, p, outputs[p].size, real[p].size)
          PROVE  EndsWith(Pending', p, n.after[p].size, real[p].size)
      <3>1. CASE p = o
        <4>1. Tells(Head(Pending), p)
          BY <3>1, <1>2, <1>3 DEF Tells
        <4> QED  BY <3>1, <4>1, <1>3, <2>1, <2>2, <2>5, <2>9, EndsTail
      <3>2. CASE p # o
        <4>1. ~Tells(Head(Pending), p)
          BY <3>2, <1>3 DEF Tells
        <4>2. EndsWith(Tail(Pending), p, outputs[p].size, real[p].size)
          BY <4>1, <1>3, <2>9, EndsTail
        <4>3. Tail(Pending) \in Seq(Event)
          BY <1>3
        <4>4. EndsWith(Tail(Pending), p, real[p].size, real[p].size)
          BY <4>2, <4>3, EndsSays
        <4>5. n.after[p].size \in {outputs[p].size, real[p].size}
          BY <3>2, <1>5, <2>1, <2>2
        <4> QED  BY <4>2, <4>4, <4>5, <2>5
      <3> QED  BY <3>1, <3>2
    <2>10. \A p \in Output : ToldWrong(Pending, p, real[p].size) =>
               ToldWrong(Pending', p, real[p].size) \/ n.after[p].size # real[p].size
      <3> SUFFICES ASSUME NEW p \in Output, ToldWrong(Pending, p, real[p].size)
                   PROVE  ToldWrong(Tail(Pending), p, real[p].size) \/ n.after[p].size # real[p].size
        BY <2>5
      <3>1. \/ ToldWrong(Tail(Pending), p, real[p].size)
            \/ Tells(e, p) /\ e.size # real[p].size
        BY <1>3, ToldTail
      <3> QED  BY <3>1, <2>1, <2>2 DEF Tells
    <2>11. \A p \in Output : ToldClosed(Pending, p) => ToldClosed(Pending', p)
      <3> SUFFICES ASSUME NEW p \in Output, ToldClosed(Pending, p)
                   PROVE  ToldClosed(Tail(Pending), p)
        BY <2>5
      <3>1. ToldClosed(Tail(Pending), p) \/ Head(Pending).op = "Closed"
        BY <1>3, ToldTail
      <3> QED  BY <3>1, <1>2, <1>3
    <2> QED  BY <1>2, <1>7, <2>2, <2>3, <2>6, <2>7, <2>8, <2>9, <2>10, <2>11, TakesList
  <1> HIDE DEF known, n, m
  <1> QED  BY <1>2, <1>6, <1>7


\* What an observation of outputs that are powered on asks for.
LEMMA OnEntry ==
    ASSUME NEW e \in Entry \cup {Unlisted}
    PROVE  /\ e.listed \in BOOLEAN /\ e.active \in BOOLEAN /\ e.size \in Size \cup {NoSize}
           /\ e.active => e.listed
           /\ e.listed => e.size \in Size /\ e.size # NoSize
  <1>1. CASE e \in Entry
    <2>1. e.listed = TRUE /\ e.active \in BOOLEAN /\ e.size \in Size
      BY <1>1 DEF Entry
    <2> QED  BY <2>1, SupervisorAssumption DEF SupervisorAssumption
  <1>2. CASE e = Unlisted
    BY <1>2 DEF Unlisted
  <1> QED  BY <1>1, <1>2

LEMMA EnteredIs ==
    ASSUME NEW r \in Tracked, NEW p \in BOOLEAN, NEW a \in BOOLEAN
    PROVE  LET n == Entered(r, p, a) IN
           /\ n \in Tracked
           /\ r.known => n = r
           /\ ~r.known => n.active = a /\ n.size = NoSize
  <1> DEFINE m == [Unknown EXCEPT !.known = TRUE, !.present = p, !.active = a]
  <1>1. m \in Tracked /\ m.active = a /\ m.size = NoSize
    <2>1. << >> \in Seq(Nat)
      OBVIOUS
    <2> QED  BY <2>1 DEF Unknown, Tracked, Health
  <1> HIDE DEF m
  <1>2. Entered(r, p, a) = IF r.known THEN r ELSE m
    BY DEF Entered, m
  <1> QED  BY <1>1, <1>2

LEMMA ToldIs ==
    ASSUME NEW r \in Tracked, NEW b \in Entry \cup {Unlisted}, NEW a \in Entry \cup {Unlisted},
           b.listed => b.active, a.listed => a.active
    PROVE  LET s == Told(r, b, a) IN
           /\ s.record \in Tracked
           /\ s.action = "Teardown" => b.listed /\ ~a.listed
           /\ ~b.listed /\ a.listed => s.action = "Spawn"
           /\ b.listed /\ a.listed /\ a.size # b.size
              /\ (r.known => r.active /\ r.size = b.size) => s.action = "Resize"
  <1> DEFINE d == Diff(b, a)
  <1>1. /\ b.listed \in BOOLEAN /\ b.active \in BOOLEAN /\ a.listed \in BOOLEAN
        /\ a.active \in BOOLEAN /\ a.size \in Size \cup {NoSize} /\ b.size \in Size \cup {NoSize}
        /\ a.listed => a.size # NoSize
    BY OnEntry
  <1>2. CASE ~b.listed /\ a.listed
    <2> DEFINE n == Entered(r, FALSE, FALSE)
               m == [n EXCEPT !.present = TRUE, !.active = TRUE]
    <2>1. d = "Added"
      BY <1>2 DEF Diff
    <2>2. n \in Tracked
      BY EnteredIs
    <2> HIDE DEF n
    <2>3. m \in Tracked
      BY <2>2, SetActive
    <2> HIDE DEF m, d
    <2>4. Told(r, b, a) = [record |-> m, action |-> "Spawn"]
      BY <2>1 DEF Told, OnEvent, n, m, d
    <2> QED  BY <1>2, <2>3, <2>4
  <1>3. CASE b.listed /\ ~a.listed
    <2>1. d = "Removed"
      BY <1>3 DEF Diff
    <2>2. Gone(r) \in Tracked
      BY DEF Gone, Tracked
    <2> HIDE DEF d
    <2>3. CASE r.known
      <3>1. Told(r, b, a) = [record |-> Gone(r), action |-> IF r.active THEN "Teardown" ELSE "None"]
        BY <2>1, <2>3 DEF Told, OnEvent, d
      <3> QED  BY <1>3, <2>2, <3>1
    <2>4. CASE ~r.known
      <3>1. Told(r, b, a) = [record |-> r, action |-> "None"]
        BY <2>1, <2>4 DEF Told, OnEvent, d
      <3> QED  BY <1>3, <3>1
    <2> QED  BY <2>3, <2>4
  <1>4. CASE b.listed /\ a.listed /\ a.size # b.size
    <2> DEFINE n == Entered(r, TRUE, d = "Resized")
               m == [n EXCEPT !.size = a.size, !.present = TRUE]
    <2>1. d = "Resized"
      BY <1>4 DEF Diff
    <2>2. /\ n \in Tracked /\ (r.known => n = r) /\ (~r.known => n.active = TRUE /\ n.size = NoSize)
      BY <2>1, EnteredIs
    <2> HIDE DEF n
    <2>3. m \in Tracked
      BY <1>1, <2>2, SetSize
    <2> HIDE DEF m, d
    <2>4. Told(r, b, a) =
              [record |-> m,
               action |-> IF n.active /\ n.size # a.size THEN "Resize" ELSE "None"]
      BY <2>1 DEF Told, OnEvent, n, m, d
    <2> QED  BY <1>1, <1>4, <2>2, <2>3, <2>4
  <1>5. CASE ~(~b.listed /\ a.listed) /\ ~(b.listed /\ ~a.listed)
             /\ ~(b.listed /\ a.listed /\ a.size # b.size)
    <2>1. d = "None"
      BY <1>1, <1>5 DEF Diff
    <2> HIDE DEF d
    <2>2. Told(r, b, a) = [record |-> r, action |-> "None"]
      BY <2>1 DEF Told, OnEvent, d
    <2> QED  BY <1>1, <1>5, <2>2
  <1> QED  BY <1>1, <1>2, <1>3, <1>4, <1>5

LEMMA SeenIs ==
    ASSUME NEW r \in Tracked, NEW b \in Entry \cup {Unlisted}, NEW a \in Entry \cup {Unlisted},
           b.listed => b.active, a.listed => a.active, NEW now \in Nat
    PROVE  LET y == Seen(r, b, a, now) IN
           /\ y \in Tracked
           /\ a.listed /\ y.known => y.active /\ y.size = a.size
  <1> DEFINE x == Expire(Told(r, b, a).record, now)
             z == [x EXCEPT !.present = TRUE, !.active = a.active, !.size = a.size]
  <1>1. Told(r, b, a).record \in Tracked
    BY ToldIs
  <1>2. x \in Tracked
    BY <1>1, ExpireShape
  <1>3. Seen(r, b, a, now) = IF a.listed /\ x.known THEN z ELSE x
    BY DEF Seen
  <1> HIDE DEF x
  <1>4. a.active \in BOOLEAN /\ a.size \in Size \cup {NoSize} /\ a.listed \in BOOLEAN
    BY OnEntry
  <1>5. z \in Tracked /\ z.active = a.active /\ z.size = a.size
    BY <1>2, <1>4 DEF Tracked
  <1> HIDE DEF z
  <1> QED  BY <1>2, <1>3, <1>4, <1>5

\* An observation of a whole list.
LEMMA ObservedIs ==
    ASSUME NEW rs \in [Output -> Tracked], NEW before \in OutputList, NEW after \in OutputList,
           AllActive(before), AllActive(after)
    PROVE  LET r == ObserveSnapshot(rs, before, after, 0)
               jobs == Orders(r.actions) IN
           /\ r.records \in [Output -> Tracked] /\ InStep(r.records, after)
           /\ jobs \subseteq Job /\ \A j \in jobs : j.op \in {"reapply", "teardown"}
           /\ \A o \in Output :
                 /\ Work("teardown", o) \in jobs => before[o].listed /\ ~after[o].listed
                 /\ ~before[o].listed /\ after[o].listed => Work("reapply", o) \in jobs
                 /\ InStep(rs, before) /\ before[o].listed /\ after[o].listed
                    /\ after[o].size # before[o].size => Work("reapply", o) \in jobs
  <1> DEFINE r == ObserveSnapshot(rs, before, after, 0)
             acts == r.actions
             jobs == Orders(acts)
  <1>1. /\ r.records = [o \in Output |-> Seen(rs[o], before[o], after[o], 0)]
        /\ acts = [o \in Output |-> Told(rs[o], before[o], after[o]).action]
    BY ObserveShape
  <1>2. \A o \in Output : /\ before[o] \in Entry \cup {Unlisted} /\ after[o] \in Entry \cup {Unlisted}
                          /\ before[o].listed => before[o].active
                          /\ after[o].listed => after[o].active
                          /\ rs[o] \in Tracked
    BY DEF OutputList, AllActive
  <1>3. r.records \in [Output -> Tracked] /\ InStep(r.records, after)
    <2>1. ASSUME NEW o \in Output
          PROVE  /\ Seen(rs[o], before[o], after[o], 0) \in Tracked
                 /\ after[o].listed /\ Seen(rs[o], before[o], after[o], 0).known =>
                        /\ Seen(rs[o], before[o], after[o], 0).active
                        /\ Seen(rs[o], before[o], after[o], 0).size = after[o].size
      BY <1>2, SeenIs
    <2> DEFINE recs == r.records
    <2>2. \A o \in Output : recs[o] = Seen(rs[o], before[o], after[o], 0)
      BY <1>1
    <2>3. recs \in [Output -> Tracked]
      BY <1>1, <2>1
    <2> HIDE DEF recs
    <2>4. InStep(recs, after)
      BY <2>1, <2>2 DEF InStep
    <2> QED  BY <2>3, <2>4 DEF recs
  <1> HIDE DEF acts
  <1>4. /\ jobs \subseteq Job /\ \A j \in jobs : j.op \in {"reapply", "teardown"}
        /\ \A o \in Output :
              /\ Work("teardown", o) \in jobs => acts[o] = "Teardown"
              /\ acts[o] \in {"Spawn", "Resize"} => Work("reapply", o) \in jobs
    <2>1. \A j \in jobs : \E o \in Output : \/ j = Work("reapply", o)
                                            \/ j = Work("teardown", o) /\ acts[o] = "Teardown"
      BY DEF Orders, ForEach
    <2>2. \A o \in Output : acts[o] \in {"Spawn", "Resize"} => Work("reapply", o) \in jobs
      BY DEF Orders, ForEach
    <2> HIDE DEF jobs
    <2>3. \A o \in Output : Work("reapply", o) \in Job /\ Work("teardown", o) \in Job
                            /\ Work("reapply", o).op = "reapply" /\ Work("teardown", o).op = "teardown"
      BY DEF Work, Job
    <2>4. jobs \subseteq Job /\ \A j \in jobs : j.op \in {"reapply", "teardown"}
      BY <2>1, <2>3
    <2>5. ASSUME NEW o \in Output, Work("teardown", o) \in jobs
          PROVE  acts[o] = "Teardown"
      <3>1. PICK p \in Output : \/ Work("teardown", o) = Work("reapply", p)
                                \/ Work("teardown", o) = Work("teardown", p) /\ acts[p] = "Teardown"
        BY <2>1, <2>5
      <3> QED  BY <3>1, WorkIs
    <2> QED  BY <2>2, <2>4, <2>5
  <1>5. \A o \in Output : acts[o] = Told(rs[o], before[o], after[o]).action
    BY <1>1
  <1> HIDE DEF jobs
  <1>6. ASSUME NEW o \in Output
        PROVE  /\ acts[o] = "Teardown" => before[o].listed /\ ~after[o].listed
               /\ ~before[o].listed /\ after[o].listed => acts[o] = "Spawn"
               /\ InStep(rs, before) /\ before[o].listed /\ after[o].listed
                  /\ after[o].size # before[o].size => acts[o] = "Resize"
    <2>1. InStep(rs, before) /\ before[o].listed =>
              (rs[o].known => rs[o].active /\ rs[o].size = before[o].size)
      BY DEF InStep
    <2> QED  BY <1>2, <1>5, <2>1, ToldIs
  <1>7. ASSUME NEW o \in Output
        PROVE  /\ Work("teardown", o) \in jobs => before[o].listed /\ ~after[o].listed
               /\ ~before[o].listed /\ after[o].listed => Work("reapply", o) \in jobs
               /\ InStep(rs, before) /\ before[o].listed /\ after[o].listed
                  /\ after[o].size # before[o].size => Work("reapply", o) \in jobs
    BY <1>4, <1>6
  <1> QED  BY <1>3, <1>4, <1>7 DEF jobs, acts


LEMMA PatchShellKeeps ==
    ASSUME HotplugInv, NEW c \in Client, PatchShell(c)
    PROVE  HotplugInv'
  <1> DEFINE n == [IdleThread EXCEPT !.pc = "diff", !.after = real]
  <1>1. /\ HotplugTypes /\ ThreadsFormed /\ ScreensHold /\ PatchesHold /\ ListsAgree
        /\ SizesAgree /\ SessionHolds /\ ReconcilesAlone /\ PicturesHold /\ CalmHolds
    BY DEF HotplugInv
  <1>2. /\ thread[c].pc = "idle" /\ requests' = requests + 1
        /\ UNCHANGED <<compositor, events, books, gpu, changes>>
        /\ \A t \in Thread : ~Patching(t)
        /\ Goes(c, n) /\ mishaps' = mishaps \cup Crossing({Listener})
    BY DEF PatchShell, Request
  <1>3. c \in Thread /\ c # Listener /\ Listener \in Thread
    BY ThreadsAre
  <1>4. thread[c] = IdleThread /\ thread[c].todo = {}
    BY <1>1, <1>2, <1>3, IdleIs DEF ThreadsFormed, Formed
  <1>5. /\ n \in ThreadState /\ n.pc = "diff" /\ n.after = real /\ n.todo = {}
        /\ n.batch = << >> /\ ~n.refresh /\ n.before = Nobody
    BY <1>1, IdleIs DEF ThreadState, HotplugTypes
  <1> HIDE DEF n
  <1>6. Formed(c, n)
    BY <1>1, <1>5, NobodyIs DEF Formed, ScreensHold
  <1>7. /\ mishaps \subseteq mishaps' /\ mishaps' \subseteq Mishap
        /\ outputs' = outputs /\ supervised' = supervised /\ workers' = workers
        /\ UNCHANGED <<compositor, events, applied, session, gpu>>
        /\ changes' = changes
    BY <1>1, <1>2, CrossingIs DEF books, HotplugTypes
  <1>8. /\ HotplugTypes' /\ ThreadsFormed' /\ ScreensHold' /\ SessionHolds'
        /\ thread'[c] = n /\ \A u \in Thread : u # c => thread'[u] = thread[u]
        /\ real' = real /\ surface' = surface /\ picture' = picture /\ events' = events
        /\ applied' = applied /\ session' = session
        /\ \A p \in Output :
              /\ (Recorded(p)' <=> Recorded(p)) /\ (Clearing(p)' <=> Clearing(p))
              /\ (Drawing(p) => Drawing(p)') /\ (Taking(p)' => Taking(p))
        /\ (Orderly' => Orderly) /\ (OneAtATime' => OneAtATime) /\ (Calm' => Calm)
    <2>1. /\ outputs' \in OutputList /\ AllActive(outputs')
          /\ supervised' \in [Output -> Tracked] /\ workers' \subseteq Output
          /\ changes' \in Nat /\ requests' \in Nat
      BY <1>1, <1>2, <1>7 DEF HotplugTypes, ScreensHold
    <2> QED  BY <1>2, <1>3, <1>4, <1>5, <1>6, <1>7, <2>1, ListStep
  <1>9. /\ Hot' = Hot /\ Pending' = Pending /\ (Holding' <=> Holding) /\ Believed' = Believed
        /\ (Owed' <=> Owed)
    BY <1>3, <1>7, <1>8 DEF Hot, Pending, Holding, Believed, Owed, WantsRefresh
  <1>10. \A t \in Thread : Patching(t)' => t = c
    BY <1>2, <1>8 DEF Patching, Reconciling
  <1>11. PatchesHold'
    BY <1>5, <1>8, <1>10 DEF PatchesHold
  <1>12. ListsAgree' /\ SizesAgree'
    <2>1. ListsAgree'
      BY <1>1, <1>8, <1>9 DEF ListsAgree, Listed
    <2>2. SizesAgree'
      BY <1>1, <1>8, <1>9 DEF SizesAgree
    <2> QED  BY <2>1, <2>2
  <1>13. OneAtATime' => ~Reconciling(Listener)
    <2>1. Reconciling(Listener) => "crossed" \in mishaps'
      BY <1>1, <1>2, CrossingIs
    <2> QED  BY <2>1 DEF OneAtATime
  <1>14. ReconcilesAlone'
    <2> SUFFICES ASSUME OneAtATime'
                 PROVE  /\ \A t, u \in Thread : Reconciling(t)' /\ Reconciling(u)' => t = u
                        /\ \A t \in Thread : thread'[t].pc = "observe" => thread'[t].before = outputs'
                        /\ \A t \in Thread : thread'[t].pc = "act" => thread'[t].after = outputs'
                        /\ InStep(supervised, outputs)'
      BY DEF ReconcilesAlone
    <2>1. \A t \in Thread : Reconciling(t)' => t = c
      BY <1>2, <1>3, <1>8, <1>13, ThreadsAre DEF Patching, Reconciling
    <2>2. \A t \in Thread : thread'[t].pc \notin {"observe", "act"}
      BY <2>1, <1>5, <1>8 DEF Reconciling
    <2>3. InStep(supervised, outputs)
      BY <1>1, <1>8 DEF ReconcilesAlone
    <2> QED  BY <1>7, <2>1, <2>2, <2>3 DEF InStep
  <1>15. PicturesHold'
    <2>1. \A p \in Output : Mistaken(p) => Mistaken(p)'
      BY <1>7, <1>8, <1>9 DEF Mistaken
    <2> QED  BY <2>1, <1>1, <1>8 DEF PicturesHold
  <1>16. CalmHolds'
    <2>1. \A t \in Thread : t # c => (ListsKnown(t) => ListsKnown(t)')
      BY <1>7, <1>8 DEF ListsKnown, Listed
    <2>2. ListsKnown(c)'
      BY <1>5, <1>8 DEF ListsKnown, Listed
    <2>3. \A p \in Output : Awaited(p) => Awaited(p)'
      BY <1>7, <1>8, <1>9 DEF Awaited
    <2>4. \A p \in Output : /\ (ShownIsApplied(p) => ShownIsApplied(p)')
                            /\ (WillReturn(p) => WillReturn(p)')
      BY <1>8, <2>3 DEF ShownIsApplied, WillReturn
    <2> SUFFICES ASSUME Calm
                 PROVE  /\ \A t \in Thread : thread'[t].pc \in {"diff", "observe"} => ListsKnown(t)'
                        /\ \A p \in Output : /\ Taking(p)' => ~real'[p].listed
                                             /\ Recorded(p)' => surface'[p] # NoSize
                                             /\ ShownIsApplied(p)' /\ WillReturn(p)'
      BY <1>8 DEF CalmHolds
    <2> QED  BY <1>1, <1>8, <2>1, <2>2, <2>4 DEF CalmHolds
  <1> QED  BY <1>8, <1>11, <1>12, <1>14, <1>15, <1>16 DEF HotplugInv

LEMMA DiffingKeeps ==
    ASSUME HotplugInv, NEW t \in Thread, Diffing(t)
    PROVE  HotplugInv'
  <1> DEFINE n == [thread[t] EXCEPT !.pc = "observe", !.before = outputs]
  <1>1. /\ HotplugTypes /\ ThreadsFormed /\ ScreensHold /\ PatchesHold /\ ListsAgree
        /\ SizesAgree /\ SessionHolds /\ ReconcilesAlone /\ PicturesHold /\ CalmHolds
    BY DEF HotplugInv
  <1>2. /\ thread[t].pc = "diff" /\ Goes(t, n)
        /\ UNCHANGED <<compositor, events, books, gpu, changes, requests, mishaps>>
    BY DEF Diffing
  <1>3. Listener \in Thread /\ thread[t] \in ThreadState /\ Formed(t, thread[t])
    BY <1>1, ThreadsAre DEF HotplugTypes, ThreadsFormed
  <1>4. /\ n \in ThreadState /\ n.pc = "observe" /\ n.after = thread[t].after
        /\ n.todo = thread[t].todo /\ n.batch = thread[t].batch
        /\ n.refresh = thread[t].refresh /\ n.before = outputs
    BY <1>1, <1>3 DEF ThreadState, HotplugTypes
  <1> HIDE DEF n
  <1>5. thread[t].todo = {} /\ Formed(t, n)
    BY <1>1, <1>2, <1>3, <1>4 DEF Formed, ScreensHold
  <1>6. /\ mishaps \subseteq mishaps' /\ mishaps' \subseteq Mishap
        /\ outputs' = outputs /\ supervised' = supervised /\ workers' = workers
        /\ UNCHANGED <<compositor, events, applied, session, gpu>>
        /\ changes' = changes /\ requests' = requests
    BY <1>1, <1>2 DEF books, HotplugTypes
  <1>7. /\ HotplugTypes' /\ ThreadsFormed' /\ ScreensHold' /\ SessionHolds'
        /\ thread'[t] = n /\ \A u \in Thread : u # t => thread'[u] = thread[u]
        /\ real' = real /\ surface' = surface /\ picture' = picture /\ events' = events
        /\ applied' = applied /\ session' = session
        /\ \A p \in Output :
              /\ (Recorded(p)' <=> Recorded(p)) /\ (Clearing(p)' <=> Clearing(p))
              /\ (Drawing(p) => Drawing(p)') /\ (Taking(p)' => Taking(p))
        /\ (Orderly' => Orderly) /\ (OneAtATime' => OneAtATime) /\ (Calm' => Calm)
    <2>1. /\ outputs' \in OutputList /\ AllActive(outputs')
          /\ supervised' \in [Output -> Tracked] /\ workers' \subseteq Output
          /\ changes' \in Nat /\ requests' \in Nat
      BY <1>1, <1>6 DEF HotplugTypes, ScreensHold
    <2> QED  BY <1>2, <1>4, <1>5, <1>6, <2>1, ListStep
  <1>8. \A u \in Thread : /\ (Reconciling(u)' <=> Reconciling(u)) /\ (Patching(u)' <=> Patching(u))
                          /\ thread'[u].after = thread[u].after
    BY <1>2, <1>4, <1>7 DEF Reconciling, Patching
  <1>9. /\ Hot'.batch = Hot.batch /\ (Hot'.refresh <=> Hot.refresh) /\ Hot'.after = Hot.after
        /\ ((Hot'.pc = "act") <=> Hot.pc = "act") /\ (Holding' <=> Holding)
    BY <1>2, <1>3, <1>4, <1>7 DEF Hot, Holding
  <1>10. Pending' = Pending /\ Believed' = Believed /\ (Owed' <=> Owed)
    BY <1>6, <1>7, <1>9 DEF Pending, Believed, Owed, WantsRefresh
  <1>11. PatchesHold'
    BY <1>1, <1>7, <1>8 DEF PatchesHold
  <1>12. ListsAgree' /\ SizesAgree'
    <2>1. ListsAgree'
      BY <1>1, <1>7, <1>9, <1>10 DEF ListsAgree, Listed
    <2>2. SizesAgree'
      BY <1>1, <1>7, <1>9, <1>10 DEF SizesAgree
    <2> QED  BY <2>1, <2>2
  <1>13. ReconcilesAlone'
    <2> SUFFICES ASSUME OneAtATime'
                 PROVE  /\ \A u, v \in Thread : Reconciling(u)' /\ Reconciling(v)' => u = v
                        /\ \A u \in Thread : thread'[u].pc = "observe" => thread'[u].before = outputs'
                        /\ \A u \in Thread : thread'[u].pc = "act" => thread'[u].after = outputs'
                        /\ InStep(supervised, outputs)'
      BY DEF ReconcilesAlone
    <2>1. /\ \A u, v \in Thread : Reconciling(u) /\ Reconciling(v) => u = v
          /\ \A u \in Thread : thread[u].pc = "observe" => thread[u].before = outputs
          /\ \A u \in Thread : thread[u].pc = "act" => thread[u].after = outputs
          /\ InStep(supervised, outputs)
      BY <1>1, <1>7 DEF ReconcilesAlone
    <2> QED  BY <2>1, <1>4, <1>6, <1>7, <1>8 DEF InStep
  <1>14. PicturesHold'
    <2>1. \A p \in Output : Mistaken(p) => Mistaken(p)'
      BY <1>6, <1>7, <1>9, <1>10 DEF Mistaken
    <2> QED  BY <2>1, <1>1, <1>7 DEF PicturesHold
  <1>15. CalmHolds'
    <2>1. \A u \in Thread : ListsKnown(u)' <=> ListsKnown(u)
      BY <1>6, <1>7, <1>8 DEF ListsKnown, Listed
    <2>2. \A u \in Thread : thread'[u].pc \in {"diff", "observe"} => thread[u].pc \in {"diff", "observe"}
      BY <1>2, <1>4, <1>7
    <2>3. \A p \in Output : Awaited(p) => Awaited(p)'
      BY <1>6, <1>7, <1>10 DEF Awaited
    <2>4. \A p \in Output : /\ (ShownIsApplied(p) => ShownIsApplied(p)')
                            /\ (WillReturn(p) => WillReturn(p)')
      BY <1>7, <2>3 DEF ShownIsApplied, WillReturn
    <2> SUFFICES ASSUME Calm
                 PROVE  /\ \A u \in Thread : thread'[u].pc \in {"diff", "observe"} => ListsKnown(u)'
                        /\ \A p \in Output : /\ Taking(p)' => ~real'[p].listed
                                             /\ Recorded(p)' => surface'[p] # NoSize
                                             /\ ShownIsApplied(p)' /\ WillReturn(p)'
      BY <1>7 DEF CalmHolds
    <2> QED  BY <1>1, <1>7, <2>1, <2>2, <2>4 DEF CalmHolds
  <1> QED  BY <1>7, <1>11, <1>12, <1>13, <1>14, <1>15 DEF HotplugInv


\* A list is published: what was said of the list in force holds of it.
LEMMA Publishes ==
    ASSUME HotplugInv, NEW t \in Thread, Reconciling(t), outputs' = thread[t].after,
           real' = real, surface' = surface, events' = events,
           Hot'.batch = Hot.batch, Hot'.refresh <=> Hot.refresh,
           \A u \in Thread : u # t => thread'[u] = thread[u],
           \/ /\ thread[t].pc = "observe" /\ thread'[t].pc = "act"
              /\ thread'[t].after = thread[t].after
           \/ thread[t].pc = "act" /\ thread'[t].pc \in {"idle", "batch"},
           Orderly' => Orderly
    PROVE  PatchesHold' /\ ListsAgree' /\ SizesAgree'
  <1>1. /\ HotplugTypes /\ ThreadsFormed /\ PatchesHold /\ ListsAgree /\ SizesAgree
    BY DEF HotplugInv
  <1>2. Listener \in Thread /\ Pending' = Pending /\ (Owed' <=> Owed) /\ Pending \in Seq(Event)
    <2>1. Listener \in Thread /\ Hot.batch \in Seq(Event) /\ events \in Seq(Event)
      BY <1>1, ThreadsAre, FieldsOf DEF HotplugTypes, Hot
    <2> QED  BY <2>1 DEF Pending, Owed, WantsRefresh
  <1>3. PatchesHold'
    <2>1. \A u \in Thread : Patching(u)' => Patching(u) /\ thread'[u].after = thread[u].after
      BY DEF Patching, Reconciling
    <2> QED  BY <1>1, <2>1 DEF PatchesHold
  \* The lists the daemon may believe in afterwards.
  <1>4. ASSUME Orderly'
        PROVE  /\ \/ Believed' = Believed
                  \/ Believed' = real
                  \/ Hot.pc = "act" /\ Believed' = Hot.after
               /\ Hot'.pc = "act" => \/ Hot'.after = Believed
                                     \/ Hot.pc = "act" /\ Hot'.after = Hot.after
    <2>1. CASE t = Listener
      <3>1. CASE thread[t].pc = "observe"
        BY <2>1, <3>1 DEF Hot, Believed, Holding
      <3>2. CASE thread[t].pc = "act"
        BY <2>1, <3>2 DEF Hot, Believed, Holding
      <3> QED  BY <3>1, <3>2
    <2>2. CASE t # Listener
      <3>1. thread[t].after = real
        BY <1>1, <1>4, <2>2, ThreadsAre DEF PatchesHold, Patching
      <3>2. Hot' = Hot
        BY <1>2, <2>2 DEF Hot
      <3> QED  BY <3>1, <3>2 DEF Believed, Holding
    <2> QED  BY <2>1, <2>2
  <1>5. ListsAgree'
    <2> SUFFICES ASSUME Orderly', ~Owed
                 PROVE  /\ Listed(Believed') = Listed(real)
                        /\ Hot'.pc = "act" => Listed(Hot'.after) = Listed(real)
      BY <1>2 DEF ListsAgree, Listed
    <2>1. /\ Listed(Believed) = Listed(real)
          /\ Hot.pc = "act" => Listed(Hot.after) = Listed(real)
      BY <1>1 DEF ListsAgree
    <2> QED  BY <1>4, <2>1
  <1>6. SizesAgree'
    <2> SUFFICES ASSUME Orderly', NEW o \in Output, surface[o] # NoSize
                 PROVE  /\ EndsWith(Pending, o, Believed'[o].size, real[o].size)
                        /\ Hot'.pc = "act" => EndsWith(Pending, o, Hot'.after[o].size, real[o].size)
      BY <1>2 DEF SizesAgree
    <2>1. /\ EndsWith(Pending, o, Believed[o].size, real[o].size)
          /\ Hot.pc = "act" => EndsWith(Pending, o, Hot.after[o].size, real[o].size)
      BY <1>1 DEF SizesAgree
    <2>2. EndsWith(Pending, o, real[o].size, real[o].size)
      BY <1>2, <2>1, EndsSays
    <2> QED  BY <1>4, <2>1, <2>2
  <1> QED  BY <1>3, <1>5, <1>6

LEMMA RepublishKeeps ==
    ASSUME HotplugInv, NEW t \in Thread, Republish(t)
    PROVE  HotplugInv'
  <1> DEFINE n == Resume(thread[t])
  <1>1. /\ HotplugTypes /\ ThreadsFormed /\ ScreensHold /\ PatchesHold /\ ListsAgree
        /\ SizesAgree /\ SessionHolds /\ ReconcilesAlone /\ PicturesHold /\ CalmHolds
    BY DEF HotplugInv
  <1>2. /\ thread[t].pc = "act" /\ thread[t].todo = {} /\ outputs' = thread[t].after /\ Goes(t, n)
        /\ UNCHANGED <<compositor, events, supervised, workers, applied, session, gpu,
                       changes, requests, mishaps>>
    BY DEF Republish
  <1>3. /\ Listener \in Thread /\ thread[t] \in ThreadState /\ Formed(t, thread[t])
        /\ AllActive(thread[t].after) /\ thread[t].after \in OutputList
    BY <1>1, ThreadsAre, FieldsOf DEF HotplugTypes, ThreadsFormed, Formed
  <1>4. /\ n \in ThreadState /\ Formed(t, n) /\ n.batch = thread[t].batch
        /\ (n.refresh <=> thread[t].refresh) /\ n.todo = {} /\ n.pc \in {"idle", "batch"}
    BY <1>3, ResumeIs DEF Formed
  <1> HIDE DEF n
  <1>5. /\ HotplugTypes' /\ ThreadsFormed' /\ ScreensHold' /\ SessionHolds'
        /\ thread'[t] = n /\ \A u \in Thread : u # t => thread'[u] = thread[u]
        /\ real' = real /\ surface' = surface /\ picture' = picture /\ events' = events
        /\ applied' = applied /\ session' = session
        /\ \A p \in Output :
              /\ (Recorded(p)' <=> Recorded(p)) /\ (Clearing(p)' <=> Clearing(p))
              /\ (Drawing(p) => Drawing(p)') /\ (Taking(p)' => Taking(p))
        /\ (Orderly' => Orderly) /\ (OneAtATime' => OneAtATime) /\ (Calm' => Calm)
    <2>1. /\ outputs' \in OutputList /\ AllActive(outputs')
          /\ supervised' \in [Output -> Tracked] /\ workers' \subseteq Output
          /\ changes' \in Nat /\ requests' \in Nat
          /\ mishaps \subseteq mishaps' /\ mishaps' \subseteq Mishap
          /\ UNCHANGED <<compositor, events, applied, session, gpu>>
      BY <1>1, <1>2, <1>3 DEF HotplugTypes
    <2> QED  BY <1>2, <1>4, <2>1, ListStep
  <1>6. Reconciling(t) /\ ~Reconciling(t)'
        /\ \A u \in Thread : u # t => (Reconciling(u)' <=> Reconciling(u))
    BY <1>2, <1>4, <1>5 DEF Reconciling
  <1>7. Hot'.batch = Hot.batch /\ (Hot'.refresh <=> Hot.refresh)
    BY <1>3, <1>4, <1>5 DEF Hot
  <1>8. PatchesHold' /\ ListsAgree' /\ SizesAgree'
    BY <1>2, <1>4, <1>5, <1>6, <1>7, Publishes
  <1>9. OneAtATime => outputs' = outputs
    BY <1>1, <1>2 DEF ReconcilesAlone
  <1>10. ReconcilesAlone'
    <2> SUFFICES ASSUME OneAtATime
                 PROVE  /\ \A u, v \in Thread : Reconciling(u)' /\ Reconciling(v)' => u = v
                        /\ \A u \in Thread : thread'[u].pc = "observe" => thread'[u].before = outputs'
                        /\ \A u \in Thread : thread'[u].pc = "act" => thread'[u].after = outputs'
                        /\ InStep(supervised, outputs)'
      BY <1>5 DEF ReconcilesAlone
    <2>1. \A u \in Thread : ~Reconciling(u)'
      BY <1>1, <1>6 DEF ReconcilesAlone
    <2>2. InStep(supervised, outputs)
      BY <1>1 DEF ReconcilesAlone
    <2> QED  BY <1>2, <1>9, <2>1, <2>2 DEF InStep, Reconciling
  <1>11. PicturesHold'
    <2>1. Pending' = Pending
      BY <1>5, <1>7 DEF Pending
    <2>2. OneAtATime => (Holding' <=> Holding) /\ (Holding => Hot'.after = Hot.after)
      <3>1. CASE t = Listener
        BY <3>1, <1>2, <1>4, <1>5 DEF Hot, Holding
      <3>2. CASE t # Listener
        BY <3>2, <1>3, <1>5 DEF Hot, Holding
      <3> QED  BY <3>1, <3>2
    <2>3. \A p \in Output : OneAtATime /\ Mistaken(p) => Mistaken(p)'
      BY <1>5, <1>9, <2>1, <2>2 DEF Mistaken
    <2> QED  BY <2>3, <1>1, <1>5 DEF PicturesHold
  <1>12. CalmHolds'
    <2>1. Calm => OneAtATime
      BY DEF Calm, OneAtATime
    <2>2. Calm => \A u \in Thread : thread'[u].pc \notin {"diff", "observe"}
      BY <1>1, <1>6, <2>1 DEF ReconcilesAlone, Reconciling
    <2>3. Pending' = Pending
      BY <1>5, <1>7 DEF Pending
    <2>4. Calm => \A p \in Output : Awaited(p) => Awaited(p)'
      BY <1>5, <1>9, <2>1, <2>3 DEF Awaited
    <2>5. Calm => \A p \in Output : /\ (ShownIsApplied(p) => ShownIsApplied(p)')
                                    /\ (WillReturn(p) => WillReturn(p)')
      BY <1>5, <2>4 DEF ShownIsApplied, WillReturn
    <2> SUFFICES ASSUME Calm
                 PROVE  /\ \A u \in Thread : thread'[u].pc \in {"diff", "observe"} => ListsKnown(u)'
                        /\ \A p \in Output : /\ Taking(p)' => ~real'[p].listed
                                             /\ Recorded(p)' => surface'[p] # NoSize
                                             /\ ShownIsApplied(p)' /\ WillReturn(p)'
      BY <1>5 DEF CalmHolds
    <2> QED  BY <1>1, <1>5, <2>2, <2>5 DEF CalmHolds
  <1> QED  BY <1>5, <1>8, <1>10, <1>11, <1>12 DEF HotplugInv

LEMMA ObserveListKeeps ==
    ASSUME HotplugInv, NEW t \in Thread, ObserveList(t)
    PROVE  HotplugInv'
  <1> DEFINE me == thread[t]
             r == ObserveSnapshot(supervised, me.before, me.after, 0)
             jobs == Orders(r.actions)
             n == [me EXCEPT !.pc = "act", !.before = Nobody, !.todo = jobs]
  <1>1. /\ HotplugTypes /\ ThreadsFormed /\ ScreensHold /\ PatchesHold /\ ListsAgree
        /\ SizesAgree /\ SessionHolds /\ ReconcilesAlone /\ PicturesHold /\ CalmHolds
    BY DEF HotplugInv
  <1>2. /\ me.pc = "observe" /\ workers' = Listed(me.after) /\ supervised' = r.records
        /\ outputs' = me.after /\ Goes(t, n)
        /\ UNCHANGED <<compositor, events, applied, session, gpu, changes, requests, mishaps>>
    BY DEF ObserveList
  <1>3. /\ Listener \in Thread /\ me \in ThreadState /\ Formed(t, me) /\ me.todo = {}
        /\ AllActive(me.before) /\ AllActive(me.after)
        /\ me.after \in OutputList /\ me.before \in OutputList
        /\ supervised \in [Output -> Tracked]
    BY <1>1, <1>2, ThreadsAre, FieldsOf DEF HotplugTypes, ThreadsFormed, Formed
  <1>4. /\ r.records \in [Output -> Tracked] /\ InStep(r.records, me.after)
        /\ jobs \subseteq Job /\ \A j \in jobs : j.op \in {"reapply", "teardown"}
        /\ \A o \in Output :
              /\ Work("teardown", o) \in jobs => me.before[o].listed /\ ~me.after[o].listed
              /\ ~me.before[o].listed /\ me.after[o].listed => Work("reapply", o) \in jobs
              /\ InStep(supervised, me.before) /\ me.before[o].listed /\ me.after[o].listed
                 /\ me.after[o].size # me.before[o].size => Work("reapply", o) \in jobs
    BY <1>3, ObservedIs
  <1> HIDE DEF jobs, r
  <1>5. /\ n \in ThreadState /\ n.pc = "act" /\ n.before = Nobody /\ n.after = me.after
        /\ n.todo = jobs /\ n.batch = me.batch /\ n.refresh = me.refresh
    BY <1>3, <1>4, NobodyIs DEF ThreadState
  <1> HIDE DEF n
  <1>6. Formed(t, n)
    BY <1>3, <1>4, <1>5, NobodyIs DEF Formed, Halves, ListOps
  <1>7. /\ HotplugTypes' /\ ThreadsFormed' /\ ScreensHold' /\ SessionHolds'
        /\ thread'[t] = n /\ \A u \in Thread : u # t => thread'[u] = thread[u]
        /\ real' = real /\ surface' = surface /\ picture' = picture /\ events' = events
        /\ applied' = applied /\ session' = session
        /\ \A p \in Output :
              /\ (Recorded(p)' <=> Recorded(p)) /\ (Clearing(p)' <=> Clearing(p))
              /\ (Drawing(p) \/ Work("reapply", p) \in jobs => Drawing(p)')
              /\ (Taking(p)' => Taking(p) \/ Work("teardown", p) \in jobs)
        /\ (Orderly' => Orderly) /\ (OneAtATime' => OneAtATime) /\ (Calm' => Calm)
    <2>1. /\ outputs' \in OutputList /\ AllActive(outputs')
          /\ supervised' \in [Output -> Tracked] /\ workers' \subseteq Output
          /\ changes' \in Nat /\ requests' \in Nat
          /\ mishaps \subseteq mishaps' /\ mishaps' \subseteq Mishap
          /\ UNCHANGED <<compositor, events, applied, session, gpu>>
      BY <1>1, <1>2, <1>3, <1>4 DEF HotplugTypes, Listed
    <2> QED  BY <1>2, <1>3, <1>4, <1>5, <1>6, <2>1, ListStep
  <1>8. Reconciling(t) /\ \A u \in Thread : Reconciling(u)' <=> Reconciling(u)
    BY <1>2, <1>5, <1>7 DEF Reconciling
  <1>9. Hot'.batch = Hot.batch /\ (Hot'.refresh <=> Hot.refresh)
    BY <1>3, <1>5, <1>7 DEF Hot
  <1>10. PatchesHold' /\ ListsAgree' /\ SizesAgree'
    <2>1. outputs' = thread[t].after /\ thread[t].pc = "observe" /\ thread'[t].pc = "act"
          /\ thread'[t].after = thread[t].after
      BY <1>2, <1>5, <1>7
    <2>2. /\ real' = real /\ surface' = surface /\ events' = events /\ (Orderly' => Orderly)
          /\ \A u \in Thread : u # t => thread'[u] = thread[u]
      BY <1>7
    <2> HIDE DEF me
    <2> QED  BY <1>8, <1>9, <2>1, <2>2, Publishes
  <1>11. OneAtATime => /\ \A u \in Thread : Reconciling(u) => u = t
                       /\ me.before = outputs /\ InStep(supervised, outputs)
    BY <1>1, <1>2, <1>8 DEF ReconcilesAlone
  <1>12. ReconcilesAlone'
    <2> SUFFICES ASSUME OneAtATime
                 PROVE  /\ \A u, v \in Thread : Reconciling(u)' /\ Reconciling(v)' => u = v
                        /\ \A u \in Thread : thread'[u].pc = "observe" => thread'[u].before = outputs'
                        /\ \A u \in Thread : thread'[u].pc = "act" => thread'[u].after = outputs'
                        /\ InStep(supervised, outputs)'
      BY <1>7 DEF ReconcilesAlone
    <2>1. \A u \in Thread : Reconciling(u)' => u = t
      BY <1>8, <1>11
    <2>2. InStep(supervised', outputs')
      BY <1>2, <1>4
    <2> QED  BY <1>2, <1>5, <1>7, <2>1, <2>2 DEF InStep, Reconciling
  <1>13. Pending' = Pending
    BY <1>7, <1>9 DEF Pending
  <1>14. PicturesHold'
    <2> SUFFICES ASSUME OneAtATime, NEW p \in Output, picture[p] # surface[p]
                 PROVE  Drawing(p)' \/ Mistaken(p)'
      BY <1>7 DEF PicturesHold
    <2>1. Drawing(p) \/ Mistaken(p)
      BY <1>1 DEF PicturesHold
    <2>2. real[p].listed /\ real[p].size # NoSize
      BY <1>1, EntryIs DEF ScreensHold, HotplugTypes
    <2>3. ASSUME outputs[p].size # real[p].size, me.after[p].size = real[p].size
          PROVE  Drawing(p)'
      <3>1. me.after[p].listed
        BY <2>2, <2>3, <1>3, EntryIs
      <3>2. Work("reapply", p) \in jobs
        BY <2>3, <3>1, <1>4, <1>11
      <3> QED  BY <3>2, <1>7
    <2>4. Holding => Hot.after = me.after
      BY <1>3, <1>11 DEF Holding, Hot, Reconciling
    <2> QED  BY <2>1, <2>3, <2>4, <1>2, <1>7, <1>13 DEF Mistaken
  <1>15. CalmHolds'
    <2>1. Calm => OneAtATime
      BY DEF Calm, OneAtATime
    <2>2. Calm => \A u \in Thread : thread'[u].pc \notin {"diff", "observe"}
      BY <1>5, <1>7, <1>8, <1>11, <2>1 DEF Reconciling
    <2>3. Calm => ListsKnown(t)
      BY <1>1, <1>2 DEF CalmHolds
    <2>4. ASSUME Calm, NEW p \in Output, Taking(p)'
          PROVE  ~real[p].listed
      <3>1. CASE Taking(p)
        BY <3>1, <2>4, <1>1 DEF CalmHolds
      <3>2. CASE Work("teardown", p) \in jobs
        <4>1. outputs[p].listed /\ ~me.after[p].listed
          BY <3>2, <2>1, <2>4, <1>4, <1>11
        <4>2. Listed(me.after) = Listed(real)
          BY <4>1, <2>3, <2>4 DEF ListsKnown, Listed
        <4> QED  BY <4>1, <4>2 DEF Listed
      <3> QED  BY <3>1, <3>2, <2>4, <1>7
    <2>5. ASSUME Calm, NEW p \in Output, Awaited(p)
          PROVE  Awaited(p)'
      <3>1. ASSUME ~outputs[p].listed
            PROVE  ~me.after[p].listed \/ Work("reapply", p) \in jobs
        <4>1. me.after[p].listed \in BOOLEAN
          BY <1>3, EntryIs
        <4> QED  BY <3>1, <4>1, <2>1, <2>5, <1>4, <1>11
      <3> QED  BY <2>5, <3>1, <1>2, <1>7, <1>13 DEF Awaited
    <2>6. Calm => \A p \in Output : /\ (ShownIsApplied(p) => ShownIsApplied(p)')
                                    /\ (WillReturn(p) => WillReturn(p)')
      BY <1>7, <2>5 DEF ShownIsApplied, WillReturn
    <2> SUFFICES ASSUME Calm
                 PROVE  /\ \A u \in Thread : thread'[u].pc \in {"diff", "observe"} => ListsKnown(u)'
                        /\ \A p \in Output : /\ Taking(p)' => ~real'[p].listed
                                             /\ Recorded(p)' => surface'[p] # NoSize
                                             /\ ShownIsApplied(p)' /\ WillReturn(p)'
      BY <1>7 DEF CalmHolds
    <2> QED  BY <1>1, <1>7, <2>2, <2>4, <2>6 DEF CalmHolds
  <1> QED  BY <1>7, <1>10, <1>12, <1>14, <1>15 DEF HotplugInv


\* The compositor.

\* With nothing under way nobody has anything in hand.
LEMMA QuietMeans ==
    ASSUME HotplugTypes, ThreadsFormed, Quiet
    PROVE  /\ Pending = << >> /\ ~Owed /\ ~Holding /\ Believed = outputs
           /\ \A t \in Thread : thread[t] = IdleThread
           /\ \A op \in Ops, o \in Output : ~Somebody(op, o)
  <1>1. \A t \in Thread : thread[t] = IdleThread
    BY DEF Quiet, Idle, ThreadsFormed, Formed
  <1>2. Hot = IdleThread
    BY <1>1, ThreadsAre DEF Hot
  <1>3. events = << >> /\ ToSet(<< >>) = {}
    BY DEF Quiet, ToSet
  <1>4. << >> \o << >> = << >>
    OBVIOUS
  <1>5. /\ Pending = << >> /\ ~Owed /\ ~Holding /\ Believed = outputs
    BY <1>2, <1>3, <1>4, IdleIs DEF Pending, Owed, Holding, Believed
  <1>6. \A op \in Ops, o \in Output : ~Somebody(op, o)
    BY <1>1, IdleIs DEF Somebody
  <1> QED  BY <1>1, <1>5, <1>6

\* A change of one output keeps the invariant when its events tell of it.
LEMMA ChangeKeeps ==
    ASSUME HotplugInv, Change, NEW o \in Output,
           real' \in OutputList, surface' \in [Output -> Size \cup {NoSize}],
           picture' \in [Output -> Size \cup {NoSize}], events' \in Seq(Event),
           AllActive(real'),
           surface'[o] # NoSize => real'[o].listed /\ surface'[o] = real'[o].size,
           surface'[o] = NoSize <=> picture'[o] = NoSize,
           \A p \in Output : p # o => /\ real'[p] = real[p] /\ surface'[p] = surface[p]
                                      /\ picture'[p] = picture[p],
           Owed => Owed',
           Owed' \/ Listed(real') = Listed(real),
           \A p \in Output : p # o =>
               /\ \A b, s : EndsWith(Pending, p, b, s) => EndsWith(Pending', p, b, s)
               /\ \A s : ToldWrong(Pending, p, s) => ToldWrong(Pending', p, s)
               /\ ToldClosed(Pending, p) => ToldClosed(Pending', p),
           surface'[o] # NoSize =>
               /\ surface[o] # NoSize
               /\ \A b : EndsWith(Pending', o, b, real'[o].size),
           OneAtATime' /\ picture'[o] # surface'[o] => Drawing(o) \/ Mistaken(o)',
           Calm' => WillReturn(o)'
    PROVE  HotplugInv'
  <1>1. /\ HotplugTypes /\ ThreadsFormed /\ ScreensHold /\ PatchesHold /\ ListsAgree
        /\ SizesAgree /\ SessionHolds /\ ReconcilesAlone /\ PicturesHold /\ CalmHolds
    BY DEF HotplugInv
  <1>2. /\ outputs' = outputs /\ supervised' = supervised /\ workers' = workers
        /\ applied' = applied /\ session' = session /\ gpu' = gpu /\ thread' = thread
        /\ requests' = requests /\ changes' = changes + 1
        /\ mishaps \subseteq mishaps' /\ mishaps' \subseteq Mishap
        /\ ~Quiet => "storm" \in mishaps'
        /\ \A t \in Thread : Patching(t) => "patch race" \in mishaps'
    BY <1>1 DEF Change, books, HotplugTypes, Mishap
  <1>3. (Orderly' => Orderly) /\ (OneAtATime' => OneAtATime) /\ (Calm' => Calm)
    BY <1>2, Earlier
  <1>4. Orderly' => \A t \in Thread : ~Patching(t)
    BY <1>2 DEF Orderly
  <1>5. Calm' => Quiet
    BY <1>2 DEF Calm
  <1>6. /\ Hot' = Hot /\ (Holding' <=> Holding) /\ Believed' = Believed
        /\ \A t \in Thread : (Reconciling(t)' <=> Reconciling(t)) /\ (Patching(t)' <=> Patching(t))
        /\ \A p \in Output : /\ (Recorded(p)' <=> Recorded(p)) /\ (Clearing(p)' <=> Clearing(p))
                             /\ (Drawing(p)' <=> Drawing(p)) /\ (Taking(p)' <=> Taking(p))
    BY <1>2 DEF Hot, Holding, Believed, Reconciling, Patching, Recorded, Clearing, Drawing,
                Taking, Somebody
  <1>7. HotplugTypes'
    <2>1. \A u \in Thread, p \in Output : Recording(u, p)' <=> Recording(u, p)
      BY <1>2 DEF Recording
    <2>2. changes' \in Nat
      <3>1. changes \in Nat
        BY <1>1 DEF HotplugTypes
      <3>2. changes' = changes + 1
        BY <1>2
      <3> QED  BY <3>1, <3>2
    <2>3. \A u \in Thread : gpu' = u <=> \E p \in Output : Recording(u, p)'
      BY <1>1, <1>2, <2>1 DEF HotplugTypes
    <2> QED  BY <1>1, <1>2, <2>2, <2>3 DEF HotplugTypes
  <1>8. ThreadsFormed'
    BY <1>1, <1>2 DEF ThreadsFormed, Formed, AllActive
  <1>9. ScreensHold'
    <2>1. \A p \in Output : /\ surface'[p] # NoSize => real'[p].listed /\ surface'[p] = real'[p].size
                            /\ (surface'[p] = NoSize <=> picture'[p] = NoSize)
      BY <1>1 DEF ScreensHold
    <2> QED  BY <1>1, <1>2, <2>1 DEF ScreensHold, AllActive
  <1>10. PatchesHold'
    BY <1>1, <1>4, <1>6 DEF PatchesHold
  <1>11. ListsAgree'
    <2> SUFFICES ASSUME Orderly', ~Owed'
                 PROVE  /\ Listed(Believed) = Listed(real')
                        /\ Hot.pc = "act" => Listed(Hot.after) = Listed(real')
      BY <1>6 DEF ListsAgree, Listed
    <2> QED  BY <1>1, <1>3 DEF ListsAgree
  <1>12. \A p \in Output : surface'[p] # NoSize => surface[p] # NoSize
    OBVIOUS
  <1>13. SizesAgree'
    <2> SUFFICES ASSUME Orderly', NEW p \in Output, surface'[p] # NoSize
                 PROVE  /\ EndsWith(Pending', p, Believed[p].size, real'[p].size)
                        /\ Hot.pc = "act" => EndsWith(Pending', p, Hot.after[p].size, real'[p].size)
      BY <1>6 DEF SizesAgree
    <2>1. CASE p = o
      BY <2>1
    <2>2. CASE p # o
      <3>1. /\ EndsWith(Pending, p, Believed[p].size, real[p].size)
            /\ Hot.pc = "act" => EndsWith(Pending, p, Hot.after[p].size, real[p].size)
        BY <1>1, <1>3, <1>12 DEF SizesAgree
      <3> QED  BY <2>2, <3>1
    <2> QED  BY <2>1, <2>2
  <1>14. SessionHolds'
    <2> SUFFICES ASSUME OneAtATime', NEW p \in Output
                 PROVE  /\ Clearing(p)' => gpu' = Free /\ surface'[p] = NoSize
                        /\ surface'[p] # NoSize => p \in session' \/ Recorded(p)'
      BY DEF SessionHolds
    <2> QED  BY <1>1, <1>2, <1>3, <1>6, <1>12 DEF SessionHolds
  <1>15. ReconcilesAlone'
    BY <1>1, <1>2, <1>3, <1>6 DEF ReconcilesAlone, InStep
  <1>16. PicturesHold'
    <2> SUFFICES ASSUME OneAtATime', NEW p \in Output, picture'[p] # surface'[p]
                 PROVE  Drawing(p) \/ Mistaken(p)'
      BY <1>6 DEF PicturesHold
    <2>1. CASE p = o
      BY <2>1
    <2>2. CASE p # o
      <3>1. Drawing(p) \/ Mistaken(p)
        BY <2>2, <1>1, <1>3 DEF PicturesHold
      <3>2. Mistaken(p) => Mistaken(p)'
        BY <2>2, <1>2, <1>6 DEF Mistaken
      <3> QED  BY <3>1, <3>2
    <2> QED  BY <2>1, <2>2
  <1>17. CalmHolds'
    <2> SUFFICES ASSUME Calm'
                 PROVE  /\ \A t \in Thread : thread'[t].pc \in {"diff", "observe"} => ListsKnown(t)'
                        /\ \A p \in Output : /\ Taking(p)' => ~real'[p].listed
                                             /\ Recorded(p)' => surface'[p] # NoSize
                                             /\ ShownIsApplied(p)' /\ WillReturn(p)'
      BY DEF CalmHolds
    <2>1. Calm /\ Quiet
      BY <1>3, <1>5
    <2>2. \A t \in Thread : thread'[t].pc \notin {"diff", "observe"}
      BY <2>1, <1>2 DEF Quiet, Idle
    <2>3. \A p \in Output : ~Recorded(p) /\ ~Taking(p)
      BY <2>1, <1>1, QuietMeans DEF Recorded, Taking, Ops
    <2>4. \A p \in Output : ShownIsApplied(p)'
      BY <2>1, <1>1, <1>2, <1>6, <1>12 DEF CalmHolds, ShownIsApplied
    <2>5. ASSUME NEW p \in Output
          PROVE  WillReturn(p)'
      <3>1. CASE p = o
        BY <3>1
      <3>2. CASE p # o
        <4>1. WillReturn(p)
          BY <2>1, <1>1 DEF CalmHolds
        <4> QED  BY <4>1, <3>2, <1>2, <1>6 DEF WillReturn, Awaited
      <3> QED  BY <3>1, <3>2
    <2> QED  BY <2>2, <2>3, <2>4, <2>5, <1>6
  <1> QED  BY <1>7, <1>8, <1>9, <1>10, <1>11, <1>13, <1>14, <1>15, <1>16, <1>17 DEF HotplugInv

\* One more event at the end of the queue.
LEMMA Appended ==
    ASSUME HotplugTypes, thread' = thread, NEW e \in Event, events' = Append(events, e)
    PROVE  /\ events' \in Seq(Event) /\ Pending' = Append(Pending, e)
           /\ Pending \in Seq(Event) /\ Pending' \in Seq(Event)
           /\ (Owed => Owed') /\ (WantsRefresh(e) => Owed')
           /\ \A p \in Output : ~Tells(e, p) =>
                 \A b, s : EndsWith(Pending, p, b, s) => EndsWith(Pending', p, b, s)
           /\ \A p \in Output : Tells(e, p) => \A b : EndsWith(Pending', p, b, e.size)
           /\ \A p \in Output : /\ \A s : ToldWrong(Pending, p, s) => ToldWrong(Pending', p, s)
                                /\ ToldClosed(Pending, p) => ToldClosed(Pending', p)
                                /\ e.op = "Closed" /\ e.output = p => ToldClosed(Pending', p)
  <1>1. /\ Hot' = Hot /\ Hot.batch \in Seq(Event) /\ events \in Seq(Event)
    BY ThreadsAre, FieldsOf DEF HotplugTypes, Hot
  <1>2. events' \in Seq(Event) /\ Pending \in Seq(Event)
    BY <1>1 DEF Pending
  <1>3. Pending' = Append(Pending, e)
    BY <1>1, AppendConcat DEF Pending
  <1>4. Pending' \in Seq(Event)
    BY <1>2, <1>3
  <1>5. ToSet(events') = ToSet(events) \cup {e}
    BY <1>1, ElementsOf
  <1>6. (Owed => Owed') /\ (WantsRefresh(e) => Owed')
    BY <1>1, <1>5 DEF Owed, WantsRefresh
  <1>7. ASSUME NEW p \in Output
        PROVE  /\ ~Tells(e, p) => \A b, s : EndsWith(Pending, p, b, s) => EndsWith(Pending', p, b, s)
               /\ Tells(e, p) => \A b : EndsWith(Pending', p, b, e.size)
    BY <1>2, <1>3, EndsAppend
  <1>8. ASSUME NEW p \in Output
        PROVE  /\ \A s : ToldWrong(Pending, p, s) => ToldWrong(Pending', p, s)
               /\ ToldClosed(Pending, p) => ToldClosed(Pending', p)
               /\ e.op = "Closed" /\ e.output = p => ToldClosed(Pending', p)
    BY <1>2, <1>3, ToldAppend
  <1> QED  BY <1>2, <1>3, <1>4, <1>6, <1>7, <1>8


LEMMA PlugKeeps ==
    ASSUME HotplugInv, NEW o \in Output, NEW s \in Size, Plug(o, s)
    PROVE  HotplugInv'
  <1> DEFINE e == Plain("Added", o)
  <1>1. /\ HotplugTypes /\ ThreadsFormed /\ ScreensHold /\ ListsAgree
    BY DEF HotplugInv
  <1>2. /\ Change /\ ~real[o].listed /\ events' = Append(events, e)
        /\ real' = [real EXCEPT ![o] = [listed |-> TRUE, active |-> TRUE, size |-> s]]
        /\ surface' = surface /\ picture' = picture /\ thread' = thread
        /\ session' = session /\ outputs' = outputs
        /\ ~Quiet => "storm" \in mishaps'
    BY DEF Plug, Change, books
  <1>3. e \in Event /\ WantsRefresh(e) /\ \A p : ~Tells(e, p)
    BY EventsAre DEF Tells, WantsRefresh
  <1> HIDE DEF e
  <1>4. /\ events' \in Seq(Event) /\ Owed'
        /\ \A p \in Output :
              /\ \A b, z : EndsWith(Pending, p, b, z) => EndsWith(Pending', p, b, z)
              /\ \A z : ToldWrong(Pending, p, z) => ToldWrong(Pending', p, z)
              /\ ToldClosed(Pending, p) => ToldClosed(Pending', p)
    BY <1>1, <1>2, <1>3, Appended
  <1>5. /\ real' \in OutputList /\ AllActive(real')
        /\ \A p \in Output : p # o => real'[p] = real[p]
    <2>1. real \in OutputList /\ AllActive(real)
      BY <1>1 DEF HotplugTypes, ScreensHold
    <2> DEFINE n == [listed |-> TRUE, active |-> TRUE, size |-> s]
    <2>2. real \in [Output -> Entry \cup {Unlisted}] /\ real' = [real EXCEPT ![o] = n]
      BY <1>2, <2>1 DEF OutputList
    <2>3. n \in Entry /\ n.listed /\ n.active
      BY DEF Entry
    <2> HIDE DEF n
    <2> QED  BY <2>1, <2>2, <2>3 DEF OutputList, AllActive
  <1>6. surface[o] = NoSize /\ picture[o] = NoSize
        /\ surface' \in [Output -> Size \cup {NoSize}] /\ picture' \in [Output -> Size \cup {NoSize}]
    BY <1>1, <1>2 DEF ScreensHold, HotplugTypes
  <1>7. Calm' => WillReturn(o)'
    <2> SUFFICES ASSUME Calm'
                 PROVE  ~outputs[o].listed
      BY <1>2 DEF WillReturn, Awaited
    <2>1. Quiet
      BY <1>2 DEF Calm
    <2>2. ~Owed /\ Believed = outputs
      BY <2>1, <1>1, QuietMeans
    <2>3. Orderly
      BY DEF Orderly, Calm, Change, Plug
    <2>4. Listed(outputs) = Listed(real)
      BY <2>2, <2>3, <1>1 DEF ListsAgree
    <2> QED  BY <2>4, <1>2 DEF Listed
  <1> QED  BY <1>2, <1>4, <1>5, <1>6, <1>7, ChangeKeeps

LEMMA UnplugKeeps ==
    ASSUME HotplugInv, NEW o \in Output, Unplug(o)
    PROVE  HotplugInv'
  <1> DEFINE c == Plain("Closed", o)
             e == Plain("Removed", o)
  <1>1. /\ HotplugTypes /\ ThreadsFormed /\ ScreensHold
    BY DEF HotplugInv
  <1>2. /\ Change /\ real' = [real EXCEPT ![o] = Unlisted]
        /\ surface' = [surface EXCEPT ![o] = NoSize]
        /\ picture' = [picture EXCEPT ![o] = NoSize] /\ thread' = thread
        /\ events' = Append(events, e) \/ events' = events \o <<c, e>>
    BY DEF Unplug, Change
  <1>3. /\ c \in Event /\ e \in Event /\ WantsRefresh(e) /\ \A p : ~Tells(e, p) /\ ~Tells(c, p)
    BY EventsAre DEF Tells, WantsRefresh
  <1> HIDE DEF c, e
  <1>4. /\ events' \in Seq(Event) /\ Owed'
        /\ \A p \in Output :
              /\ \A b, z : EndsWith(Pending, p, b, z) => EndsWith(Pending', p, b, z)
              /\ \A z : ToldWrong(Pending, p, z) => ToldWrong(Pending', p, z)
              /\ ToldClosed(Pending, p) => ToldClosed(Pending', p)
    <2>1. CASE events' = Append(events, e)
      BY <2>1, <1>1, <1>2, <1>3, Appended
    <2>2. CASE events' = events \o <<c, e>>
      <3> DEFINE x == Append(events, c)
                 q == Append(Pending, c)
      <3>1. Hot' = Hot /\ Hot.batch \in Seq(Event) /\ events \in Seq(Event)
        BY <1>1, <1>2, ThreadsAre, FieldsOf DEF HotplugTypes, Hot
      <3>2. x \in Seq(Event) /\ events' = Append(x, e) /\ events' \in Seq(Event)
        BY <1>3, <2>2, <3>1
      <3>3. Pending \in Seq(Event) /\ q \in Seq(Event)
        BY <1>3, <3>1 DEF Pending
      <3>4. Hot.batch \o x = q
        BY <1>3, <3>1, AppendConcat DEF Pending
      <3> HIDE DEF x
      <3>5. Pending' = Append(q, e)
        <4>1. Pending' = Hot.batch \o Append(x, e)
          BY <3>1, <3>2 DEF Pending
        <4>2. Hot.batch \o Append(x, e) = Append(Hot.batch \o x, e)
          BY <1>3, <3>1, <3>2, AppendConcat
        <4> QED  BY <3>4, <4>1, <4>2
      <3> HIDE DEF q
      <3>6. q = Append(Pending, c)
        BY DEF q
      <3>7. ToSet(events') = ToSet(x) \cup {e}
        BY <3>2, ElementsOf
      <3>8. Owed'
        BY <3>7, <1>3 DEF Owed, WantsRefresh
      <3>9. ASSUME NEW p \in Output
            PROVE  /\ \A b, z : EndsWith(Pending, p, b, z) => EndsWith(Pending', p, b, z)
                   /\ \A z : ToldWrong(Pending, p, z) => ToldWrong(Pending', p, z)
                   /\ ToldClosed(Pending, p) => ToldClosed(Pending', p)
        <4>1. /\ \A b, z : EndsWith(Pending, p, b, z) => EndsWith(q, p, b, z)
              /\ \A z : ToldWrong(Pending, p, z) => ToldWrong(q, p, z)
              /\ ToldClosed(Pending, p) => ToldClosed(q, p)
          BY <1>3, <3>3, <3>6, EndsAppend, ToldAppend
        <4>2. /\ \A b, z : EndsWith(q, p, b, z) => EndsWith(Pending', p, b, z)
              /\ \A z : ToldWrong(q, p, z) => ToldWrong(Pending', p, z)
              /\ ToldClosed(q, p) => ToldClosed(Pending', p)
          BY <1>3, <3>3, <3>5, EndsAppend, ToldAppend
        <4> QED  BY <4>1, <4>2
      <3> QED  BY <3>2, <3>8, <3>9
    <2> QED  BY <1>2, <2>1, <2>2
  <1>5. /\ real' \in OutputList /\ AllActive(real') /\ ~real'[o].listed
        /\ \A p \in Output : p # o => real'[p] = real[p]
    <2>1. real \in [Output -> Entry \cup {Unlisted}] /\ AllActive(real) /\ Unlisted.listed = FALSE
      BY <1>1 DEF HotplugTypes, ScreensHold, OutputList, Unlisted
    <2> QED  BY <1>2, <2>1 DEF AllActive, OutputList
  <1>6. /\ surface' \in [Output -> Size \cup {NoSize}] /\ picture' \in [Output -> Size \cup {NoSize}]
        /\ surface'[o] = NoSize /\ picture'[o] = NoSize
        /\ \A p \in Output : p # o => surface'[p] = surface[p] /\ picture'[p] = picture[p]
    BY <1>1, <1>2 DEF HotplugTypes
  <1>7. WillReturn(o)'
    BY <1>5 DEF WillReturn
  <1> QED  BY <1>2, <1>4, <1>5, <1>6, <1>7, ChangeKeeps

LEMMA ModeKeeps ==
    ASSUME HotplugInv, NEW o \in Output, NEW s \in Size, Mode(o, s)
    PROVE  HotplugInv'
  <1> DEFINE e == Configured(o, s)
  <1>1. /\ HotplugTypes /\ ThreadsFormed /\ ScreensHold /\ SizesAgree /\ PicturesHold /\ CalmHolds
    BY DEF HotplugInv
  <1>2. /\ Change /\ real[o].listed /\ real[o].size # s
        /\ real' = [real EXCEPT ![o].size = s] /\ picture' = picture /\ thread' = thread
        /\ IF surface[o] = NoSize
           THEN surface' = surface /\ events' = events
           ELSE surface' = [surface EXCEPT ![o] = s] /\ events' = Append(events, e)
        /\ outputs' = outputs /\ session' = session /\ applied' = applied
        /\ mishaps \subseteq mishaps'
    BY DEF Mode, Change, books
  <1>3. e \in Event /\ Tells(e, o) /\ e.size = s /\ \A p : Tells(e, p) => p = o
    BY EventsAre DEF Tells
  <1>4. e.op # "Closed" /\ ~WantsRefresh(e)
    BY EventsAre DEF WantsRefresh
  <1> HIDE DEF e
  <1>5. s # NoSize
    BY SupervisorAssumption DEF SupervisorAssumption
  <1>6. /\ real' \in OutputList /\ AllActive(real') /\ Listed(real') = Listed(real)
        /\ real'[o].listed /\ real'[o].size = s
        /\ \A p \in Output : p # o => real'[p] = real[p]
    <2>1. real \in OutputList /\ AllActive(real)
      BY <1>1 DEF HotplugTypes, ScreensHold
    <2> DEFINE n == [real[o] EXCEPT !.size = s]
    <2>2. real \in [Output -> Entry \cup {Unlisted}] /\ real' = [real EXCEPT ![o] = n]
      BY <1>2, <2>1 DEF OutputList
    <2>3. real[o] \in Entry /\ real[o].active
      BY <1>2, <2>1, <2>2 DEF Unlisted, AllActive
    <2>4. n \in Entry /\ n.listed /\ n.active /\ n.size = s
      BY <2>3 DEF Entry
    <2> HIDE DEF n
    <2> QED  BY <1>2, <2>1, <2>2, <2>4 DEF OutputList, AllActive, Listed
  <1>7. CASE surface[o] = NoSize
    <2>1. surface' = surface /\ events' = events /\ picture[o] = NoSize
      BY <1>1, <1>2, <1>7 DEF ScreensHold
    <2>2. Pending' = Pending /\ (Owed => Owed') /\ events' \in Seq(Event)
      BY <1>1, <1>2, <2>1 DEF Pending, Owed, Hot, WantsRefresh, HotplugTypes
    <2>3. surface' \in [Output -> Size \cup {NoSize}] /\ picture' \in [Output -> Size \cup {NoSize}]
      BY <1>1, <1>2, <2>1 DEF HotplugTypes
    <2>4. Calm' => WillReturn(o)'
      <3>1. Calm' => WillReturn(o)
        BY <1>1, <1>2 DEF CalmHolds, Calm
      <3>2. \A op \in Ops, p \in Output : Somebody(op, p)' <=> Somebody(op, p)
        BY <1>2 DEF Somebody
      <3>3. Awaited(o) => Awaited(o)'
        BY <1>2, <2>2, <3>2 DEF Awaited, Drawing, Clearing, Ops
      <3> QED  BY <1>2, <2>1, <3>1, <3>3 DEF WillReturn
    <2> QED  BY <1>2, <1>6, <1>7, <2>1, <2>2, <2>3, <2>4, ChangeKeeps
  <1>8. CASE surface[o] # NoSize
    <2>1. surface' = [surface EXCEPT ![o] = s] /\ events' = Append(events, e) /\ picture[o] # NoSize
      BY <1>1, <1>2, <1>8 DEF ScreensHold
    <2>2. /\ events' \in Seq(Event) /\ (Owed => Owed') /\ Pending' = Append(Pending, e)
          /\ Pending \in Seq(Event)
          /\ \A b : EndsWith(Pending', o, b, s)
          /\ \A p \in Output : p # o =>
                \A b, z : EndsWith(Pending, p, b, z) => EndsWith(Pending', p, b, z)
          /\ \A p \in Output :
                /\ \A z : ToldWrong(Pending, p, z) => ToldWrong(Pending', p, z)
                /\ ToldClosed(Pending, p) => ToldClosed(Pending', p)
      BY <1>1, <1>2, <1>3, <2>1, Appended
    <2>3. /\ surface' \in [Output -> Size \cup {NoSize}] /\ picture' \in [Output -> Size \cup {NoSize}]
          /\ surface'[o] = s /\ \A p \in Output : p # o => surface'[p] = surface[p]
      BY <1>1, <1>2, <2>1 DEF HotplugTypes
    <2>4. WillReturn(o)'
      BY <1>5, <2>3 DEF WillReturn
    <2>5. OneAtATime' => Mistaken(o)'
      <3> SUFFICES ASSUME OneAtATime'
                   PROVE  Mistaken(o)'
        OBVIOUS
      <3>1. Orderly
        BY <1>2 DEF OneAtATime, Orderly
      <3>2. EndsWith(Pending, o, Believed[o].size, real[o].size)
        BY <3>1, <1>1, <1>8 DEF SizesAgree
      <3>3. Believed[o].size # s \/ ToldWrong(Pending, o, s)
        BY <3>2, <2>2, <1>2, EndsSays
      <3>4. ToldWrong(Pending, o, s) => ToldWrong(Pending', o, real'[o].size)
        BY <2>2, <1>6
      <3>5. Hot' = Hot
        BY <1>2 DEF Hot
      <3> QED  BY <3>3, <3>4, <3>5, <1>2, <1>6 DEF Mistaken, Believed, Holding
    <2>6. /\ surface'[o] # NoSize => real'[o].listed /\ surface'[o] = real'[o].size
          /\ (surface'[o] = NoSize <=> picture'[o] = NoSize)
      BY <1>2, <1>5, <1>6, <2>1, <2>3
    <2>7. surface'[o] # NoSize => /\ surface[o] # NoSize
                                  /\ \A b : EndsWith(Pending', o, b, real'[o].size)
      BY <1>6, <1>8, <2>2
    <2>8. \A p \in Output : p # o => /\ real'[p] = real[p] /\ surface'[p] = surface[p]
                                     /\ picture'[p] = picture[p]
      BY <1>2, <1>6, <2>3
    <2>9. Change
      BY <1>2
    <2> QED  BY <1>6, <2>2, <2>3, <2>4, <2>5, <2>6, <2>7, <2>8, <2>9, ChangeKeeps
  <1> QED  BY <1>7, <1>8

LEMMA CloseKeeps ==
    ASSUME HotplugInv, NEW o \in Output, Close(o)
    PROVE  HotplugInv'
  <1> DEFINE e == Plain("Closed", o)
  <1>1. /\ HotplugTypes /\ ThreadsFormed /\ ScreensHold /\ CalmHolds
    BY DEF HotplugInv
  <1>2. /\ Change /\ surface[o] # NoSize /\ real' = real
        /\ surface' = [surface EXCEPT ![o] = NoSize]
        /\ picture' = [picture EXCEPT ![o] = NoSize]
        /\ events' = Append(events, e) /\ thread' = thread
        /\ outputs' = outputs /\ session' = session /\ applied' = applied
        /\ mishaps \subseteq mishaps'
        /\ ~Quiet => "storm" \in mishaps'
    BY DEF Close, Change, books
  <1>3. e \in Event /\ e.op = "Closed" /\ e.output = o /\ \A p : ~Tells(e, p)
    BY EventsAre DEF Tells
  <1> HIDE DEF e
  <1>4. /\ events' \in Seq(Event) /\ (Owed => Owed') /\ ToldClosed(Pending', o)
        /\ \A p \in Output :
              /\ \A b, z : EndsWith(Pending, p, b, z) => EndsWith(Pending', p, b, z)
              /\ \A z : ToldWrong(Pending, p, z) => ToldWrong(Pending', p, z)
              /\ ToldClosed(Pending, p) => ToldClosed(Pending', p)
    BY <1>1, <1>2, <1>3, Appended
  <1>5. /\ surface' \in [Output -> Size \cup {NoSize}] /\ picture' \in [Output -> Size \cup {NoSize}]
        /\ surface'[o] = NoSize /\ picture'[o] = NoSize
        /\ \A p \in Output : p # o => surface'[p] = surface[p] /\ picture'[p] = picture[p]
    BY <1>1, <1>2 DEF HotplugTypes
  <1>6. /\ real' \in OutputList /\ AllActive(real') /\ Listed(real') = Listed(real)
        /\ \A p \in Output : real'[p] = real[p]
    BY <1>1, <1>2 DEF HotplugTypes, ScreensHold
  <1>7. Calm' => WillReturn(o)'
    <2> SUFFICES ASSUME Calm'
                 PROVE  Awaited(o)'
      BY DEF WillReturn
    <2>1. Calm /\ Quiet
      BY <1>2 DEF Calm
    <2>2. ~Recorded(o)
      BY <2>1, <1>1, QuietMeans DEF Recorded, Ops
    <2>3. o \in applied
      BY <2>1, <2>2, <1>1, <1>2 DEF CalmHolds, ShownIsApplied
    <2> QED  BY <2>3, <1>2, <1>4 DEF Awaited
  <1> QED  BY <1>2, <1>4, <1>5, <1>6, <1>7, ChangeKeeps


\* The initial states, and the theorems.

LEMMA InitialEvents ==
    ASSUME NEW S \in SUBSET Output, NEW s \in SetToSeqs(S)
    PROVE  [i \in 1..Len(s) |-> Plain("Added", s[i])] \in Seq(Event)
  <1>1. IsFiniteSet(S)
    BY HotplugAssumption, FS_Subset
  <1>2. Cardinality(S) \in Nat
    BY <1>1, FS_CardinalityType
  <1>3. s \in [1..Cardinality(S) -> S]
    BY DEF SetToSeqs
  <1>4. Len(s) = Cardinality(S)
    BY <1>2, <1>3
  <1>5. \A i \in 1..Len(s) : Plain("Added", s[i]) \in Event
    BY <1>3, <1>4, EventsAre
  <1> QED  BY <1>2, <1>4, <1>5

LEMMA InitKeeps == InitHotplug => HotplugInv
  <1> SUFFICES ASSUME InitHotplug
               PROVE  HotplugInv
    OBVIOUS
  <1> DEFINE jobs == ForEach(Listed(real), "reapply")
             m == [IdleThread EXCEPT !.pc = "restore", !.todo = jobs]
             n == IF Listed(real) # {} THEN m ELSE IdleThread
  <1>1. /\ real \in [Output -> [listed : {TRUE}, active : {TRUE}, size : Size] \cup {Unlisted}]
        /\ session \in SUBSET Output
        /\ surface = [o \in Output |-> NoSize] /\ picture = [o \in Output |-> NoSize]
        /\ outputs = real /\ supervised = [o \in Output |-> Unknown]
        /\ workers = Listed(real) /\ applied = {} /\ gpu = Free
        /\ changes = 0 /\ requests = 0 /\ mishaps = {}
    BY DEF InitHotplug
  <1>2. /\ thread = [t \in Thread |-> IF t = Listener THEN n ELSE IdleThread]
    BY DEF InitHotplug
  <1>3. events \in Seq(Event)
    <2>1. Listed(real) \in SUBSET Output
      BY DEF Listed
    <2> QED  BY <2>1, InitialEvents DEF InitHotplug
  <1>4. real \in OutputList /\ AllActive(real)
    <2>1. \A e \in [listed : {TRUE}, active : {TRUE}, size : Size] : e \in Entry /\ e.active
      BY DEF Entry
    <2>2. Unlisted.listed = FALSE
      BY DEF Unlisted
    <2> QED  BY <1>1, <2>1, <2>2 DEF OutputList, AllActive
  <1>5. Unknown \in Tracked /\ Unknown.known = FALSE
    <2>1. << >> \in Seq(Nat)
      OBVIOUS
    <2> QED  BY <2>1 DEF Unknown, Tracked, Health
  <1>6. jobs \subseteq Job /\ (\A j \in jobs : j.op = "reapply")
        /\ \A o \in Output : real[o].listed => Work("reapply", o) \in jobs
    <2>1. \A o \in Output : Work("reapply", o) \in Job /\ Work("reapply", o).op = "reapply"
      BY DEF Work, Job
    <2> QED  BY <2>1 DEF ForEach, Listed
  <1> HIDE DEF jobs
  <1>7. /\ m \in ThreadState /\ m.pc = "restore" /\ m.todo = jobs /\ m.batch = << >> /\ ~m.refresh
        /\ m.before = Nobody /\ m.after = Nobody
    BY <1>6, IdleIs DEF ThreadState
  <1> HIDE DEF m
  <1>8. /\ n \in ThreadState /\ n.pc \in {"restore", "idle"} /\ n.batch = << >> /\ ~n.refresh
        /\ n.todo \subseteq jobs /\ Formed(Listener, n)
        /\ \A o \in Output : real[o].listed => Work("reapply", o) \in n.todo
    <2>1. Listener \in Thread
      BY ThreadsAre
    <2>2. CASE Listed(real) # {}
      <3>1. Formed(Listener, m)
        BY <1>6, <1>7, NobodyIs DEF Formed, Halves, ListOps
      <3>2. n = m
        BY <2>2
      <3> HIDE DEF n
      <3> QED  BY <3>1, <3>2, <1>6, <1>7
    <2>3. CASE Listed(real) = {}
      <3>1. n = IdleThread
        BY <2>3
      <3>2. \A o \in Output : ~real[o].listed
        BY <2>3 DEF Listed
      <3> HIDE DEF n
      <3> QED  BY <3>1, <3>2, <2>1, IdleIs
    <2> QED  BY <2>2, <2>3
  <1> HIDE DEF n
  <1>9. /\ thread \in [Thread -> ThreadState] /\ thread[Listener] = n
        /\ \A t \in Thread : t # Listener => thread[t] = IdleThread
    BY <1>2, <1>8, IdleIs, ThreadsAre
  <1>10. \A t \in Thread : thread[t].pc \in {"restore", "idle"} /\ \A j \in thread[t].todo : j.op = "reapply"
    BY <1>6, <1>8, <1>9, IdleIs
  <1>11. \A op : op # "reapply" => \A o \in Output : ~Somebody(op, o)
    BY <1>10 DEF Somebody, Work
  <1>12. HotplugTypes
    <2>1. \A t \in Thread, o \in Output : ~Recording(t, o)
      BY <1>10 DEF Recording, Work
    <2>2. \A t \in Thread : gpu = t <=> \E o \in Output : Recording(t, o)
      BY <2>1, <1>1, HotplugAssumption
    <2>3. surface \in [Output -> Size \cup {NoSize}] /\ picture \in [Output -> Size \cup {NoSize}]
      BY <1>1
    <2>4. supervised \in [Output -> Tracked] /\ workers \subseteq Output
      BY <1>1, <1>5 DEF Listed
    <2> QED  BY <1>1, <1>3, <1>4, <1>9, <2>2, <2>3, <2>4 DEF HotplugTypes
  <1>13. ThreadsFormed
    BY <1>8, <1>9, IdleIs DEF ThreadsFormed
  <1>14. ScreensHold
    BY <1>1, <1>4 DEF ScreensHold
  <1>15. \A t \in Thread : ~Reconciling(t) /\ ~Patching(t)
    BY <1>10 DEF Reconciling, Patching
  <1>16. PatchesHold
    BY <1>15 DEF PatchesHold
  <1>17. /\ ~Holding /\ Hot.pc # "act" /\ Believed = real
    BY <1>1, <1>8, <1>9 DEF Hot, Holding, Believed
  <1>18. ListsAgree
    BY <1>17 DEF ListsAgree
  <1>19. SizesAgree /\ PicturesHold
    BY <1>1 DEF SizesAgree, PicturesHold
  <1>20. SessionHolds
    BY <1>1, <1>11 DEF SessionHolds, Clearing
  <1>21. ReconcilesAlone
    <2>1. InStep(supervised, outputs)
      BY <1>1, <1>5 DEF InStep
    <2> QED  BY <1>10, <1>15, <2>1 DEF ReconcilesAlone
  <1>22. CalmHolds
    <2>1. \A o \in Output : real[o].listed => Drawing(o)
      <3>1. Listener \in Thread
        BY ThreadsAre
      <3> QED  BY <3>1, <1>8, <1>9 DEF Drawing, Somebody
    <2>2. \A o \in Output : ~Taking(o) /\ ~Recorded(o) /\ ShownIsApplied(o)
      BY <1>1, <1>11 DEF Taking, Recorded, ShownIsApplied
    <2> QED  BY <1>10, <2>1, <2>2 DEF CalmHolds, WillReturn, Awaited
  <1> QED  BY <1>12, <1>13, <1>14, <1>16, <1>18, <1>19, <1>20, <1>21, <1>22 DEF HotplugInv

LEMMA HotplugStutters == HotplugInv /\ UNCHANGED hotplugVars => HotplugInv'
  <1> SUFFICES ASSUME HotplugInv, UNCHANGED hotplugVars
               PROVE  HotplugInv'
    OBVIOUS
  <1>1. /\ real' = real /\ surface' = surface /\ picture' = picture /\ events' = events
        /\ outputs' = outputs /\ supervised' = supervised /\ workers' = workers
        /\ applied' = applied /\ session' = session /\ gpu' = gpu /\ thread' = thread
        /\ changes' = changes /\ requests' = requests /\ mishaps' = mishaps
    BY DEF hotplugVars, compositor, books
  <1>2. HotplugTypes'
    BY <1>1 DEF HotplugInv, HotplugTypes, Recording
  <1>3. ThreadsFormed' /\ ScreensHold'
    BY <1>1 DEF HotplugInv, ThreadsFormed, Formed, AllActive, ScreensHold
  <1>4. /\ Hot' = Hot /\ Pending' = Pending /\ (Owed' <=> Owed) /\ (Holding' <=> Holding)
        /\ Believed' = Believed /\ (Orderly' <=> Orderly) /\ (OneAtATime' <=> OneAtATime)
        /\ (Calm' <=> Calm)
        /\ \A t \in Thread : (Reconciling(t)' <=> Reconciling(t)) /\ (Patching(t)' <=> Patching(t))
        /\ \A o \in Output : /\ (Drawing(o)' <=> Drawing(o)) /\ (Taking(o)' <=> Taking(o))
                             /\ (Clearing(o)' <=> Clearing(o)) /\ (Recorded(o)' <=> Recorded(o))
    BY <1>1 DEF Hot, Pending, Owed, WantsRefresh, Holding, Believed, Orderly, OneAtATime, Calm,
                Reconciling, Patching, Drawing, Taking, Clearing, Recorded, Somebody
  <1>5. PatchesHold' /\ ListsAgree' /\ SizesAgree' /\ SessionHolds'
    <2>1. PatchesHold' /\ SessionHolds'
      BY <1>1, <1>4 DEF HotplugInv, PatchesHold, SessionHolds
    <2>2. ListsAgree'
      BY <1>1, <1>4 DEF HotplugInv, ListsAgree, Listed
    <2>3. SizesAgree'
      BY <1>1, <1>4 DEF HotplugInv, SizesAgree
    <2> QED  BY <2>1, <2>2, <2>3
  <1>6. ReconcilesAlone'
    BY <1>1, <1>4 DEF HotplugInv, ReconcilesAlone, InStep
  <1>7. PicturesHold'
    BY <1>1, <1>4 DEF HotplugInv, PicturesHold, Mistaken
  <1>8. CalmHolds'
    BY <1>1, <1>4 DEF HotplugInv, CalmHolds, ListsKnown, Listed, ShownIsApplied, WillReturn, Awaited
  <1> QED  BY <1>2, <1>3, <1>5, <1>6, <1>7, <1>8 DEF HotplugInv

LEMMA HotplugKeeps == HotplugInv /\ [NextHotplug]_hotplugVars => HotplugInv'
  <1> SUFFICES ASSUME HotplugInv, [NextHotplug]_hotplugVars
               PROVE  HotplugInv'
    OBVIOUS
  <1>1. CASE Compositor
    BY <1>1, PlugKeeps, UnplugKeeps, ModeKeeps, CloseKeeps DEF Compositor
  <1>2. CASE Ask
    BY <1>2, SetKeeps, PatchShellKeeps DEF Ask
  <1>3. ASSUME NEW t \in Thread, Step(t)
        PROVE  HotplugInv'
    <2>1. CASE Listen
      BY <2>1, ReceiveKeeps, PassOverKeeps, HandleConfiguredKeeps, HandleClosedKeeps, RefreshKeeps
         DEF Listen
    <2>2. CASE Diffing(t) \/ ObserveList(t) \/ Republish(t)
      BY <2>2, DiffingKeeps, ObserveListKeeps, RepublishKeeps
    <2>3. ASSUME NEW o \in Output,
                 \/ \E op \in {"reapply", "set"} : Skip(t, op, o) \/ Present(t, op, o)
                 \/ \E op \in {"reapply", "set", "record", "teardown", "clear", "unset"} : Fail(t, op, o)
                 \/ Record(t, o) \/ Drop(t, o) \/ Unset(t, o)
                 \/ BlankOutput(t, "teardown", "drop", o)
                 \/ BlankOutput(t, "clear", "unset", o)
          PROVE  HotplugInv'
      BY <2>3, SkipKeeps, PresentKeeps, FailKeeps, RecordKeeps, DropKeeps, UnsetKeeps, BlankKeeps
    <2> QED  BY <1>3, <2>1, <2>2, <2>3 DEF Step
  <1>4. CASE UNCHANGED hotplugVars
    BY <1>4, HotplugStutters
  <1> QED  BY <1>1, <1>2, <1>3, <1>4 DEF NextHotplug

LEMMA HotplugInvariance == HotplugSpec => []HotplugInv
  BY InitKeeps, HotplugKeeps, PTL DEF HotplugSpec

\* Types, and that a thread holds the GPU lock from a present to its record and
\* at no other time (apply_inner to record_applied).
THEOREM HotplugTypesCorrect == HotplugSpec => []HotplugTypes
  <1>1. HotplugInv => HotplugTypes
    BY DEF HotplugInv
  <1> QED  BY <1>1, HotplugInvariance, PTL

\* Once the daemon has handled every event the compositor caused, the list of
\* outputs it believes in is the compositor's (reconcile_outputs and
\* refresh_outputs of engine.rs), whatever came and went while it was busy,
\* whoever reconciled at the same time and whatever failed to be shown or cleared.
THEOREM SnapshotSettlesAlways == HotplugSpec => []SnapshotSettles
  <1>1. ASSUME HotplugInv, Quiet, Orderly
        PROVE  /\ Listed(outputs) = Listed(real)
               /\ \A o \in Output : surface[o] # NoSize => outputs[o].size = real[o].size
    <2>1. ThreadsFormed /\ HotplugTypes /\ ListsAgree /\ SizesAgree
      BY <1>1 DEF HotplugInv
    <2>2. Pending = << >> /\ ~Owed /\ Believed = outputs
      BY <1>1, <2>1, QuietMeans
    <2>3. Listed(outputs) = Listed(real)
      BY <1>1, <2>1, <2>2 DEF ListsAgree
    <2>4. ASSUME NEW o \in Output, surface[o] # NoSize
          PROVE  outputs[o].size = real[o].size
      BY <1>1, <2>1, <2>2, <2>4, EmptyTells DEF SizesAgree
    <2> QED  BY <2>3, <2>4
  <1>2. HotplugInv => SnapshotSettles
    BY <1>1 DEF SnapshotSettles, Orderly
  <1> QED  BY <1>2, HotplugInvariance, PTL

\* Once every event is handled every surface shows a picture of its own size
\* (handle_presenter_event reconciles at each configured size), unless two
\* threads reconciled at the same time.
THEOREM DrawnAtSizeAlways == HotplugSpec => []DrawnAtSize
  <1>1. ASSUME HotplugInv, Quiet, OneAtATime
        PROVE  picture = surface
    <2>1. /\ ThreadsFormed /\ HotplugTypes /\ ScreensHold /\ ListsAgree /\ SizesAgree /\ PicturesHold
          /\ Orderly
      BY <1>1 DEF HotplugInv, OneAtATime, Orderly
    <2>2. /\ Pending = << >> /\ ~Holding /\ Believed = outputs
          /\ \A op \in Ops, o \in Output : ~Somebody(op, o)
      BY <1>1, <2>1, QuietMeans
    <2>3. ASSUME NEW o \in Output, picture[o] # surface[o]
          PROVE  FALSE
      <3>1. Mistaken(o)
        BY <1>1, <2>1, <2>2, <2>3 DEF PicturesHold, Drawing, Ops
      <3>2. ~ToldWrong(Pending, o, real[o].size)
        BY <2>2, EmptyTells DEF ToldWrong
      <3>3. surface[o] # NoSize
        BY <2>1, <2>3 DEF ScreensHold
      <3>4. outputs[o].size = real[o].size
        BY <2>1, <2>2, <3>3, EmptyTells DEF SizesAgree
      <3> QED  BY <2>2, <3>1, <3>2, <3>4 DEF Mistaken
    <2> QED  BY <2>1, <2>3 DEF HotplugTypes
  <1>2. HotplugInv => DrawnAtSize
    BY <1>1 DEF DrawnAtSize, OneAtATime
  <1> QED  BY <1>2, HotplugInvariance, PTL

\* When nothing went wrong and the compositor waits for the daemon between two
\* changes, every output that is plugged in and has a wallpaper in the session
\* shows it (reconcile_outputs applies planned_wallpaper, the session first).
THEOREM WallpaperReturnsAlways == HotplugSpec => []WallpaperReturns
  <1>1. ASSUME HotplugInv, Quiet, Calm, NEW o \in Output, real[o].listed, o \in session
        PROVE  picture[o] = real[o].size
    <2>1. /\ ThreadsFormed /\ HotplugTypes /\ ScreensHold /\ ListsAgree /\ SizesAgree
          /\ PicturesHold /\ CalmHolds /\ Orderly /\ OneAtATime
      BY <1>1 DEF HotplugInv, OneAtATime, Orderly, Calm
    <2>2. /\ Pending = << >> /\ ~Owed /\ ~Holding /\ Believed = outputs
          /\ \A op \in Ops, p \in Output : ~Somebody(op, p)
      BY <1>1, <2>1, QuietMeans
    <2>3. ~Drawing(o) /\ ~Clearing(o)
      BY <2>2 DEF Drawing, Clearing, Ops
    <2>4. Listed(outputs) = Listed(real)
      BY <2>1, <2>2 DEF ListsAgree
    <2>5. surface[o] # NoSize
      <3> SUFFICES ASSUME surface[o] = NoSize
                   PROVE  FALSE
        OBVIOUS
      <3>1. Awaited(o)
        BY <1>1, <2>1 DEF CalmHolds, WillReturn
      <3>2. ~ToldClosed(Pending, o)
        BY <2>2, EmptyTells DEF ToldClosed
      <3>3. outputs[o].listed
        BY <1>1, <2>4 DEF Listed
      <3> QED  BY <2>3, <3>1, <3>2, <3>3 DEF Awaited
    <2>6. surface[o] = real[o].size
      BY <2>1, <2>5 DEF ScreensHold
    <2>7. outputs[o].size = real[o].size
      BY <2>1, <2>2, <2>5, EmptyTells DEF SizesAgree
    <2>8. ~Mistaken(o)
      BY <2>2, <2>7, EmptyTells DEF Mistaken, ToldWrong
    <2> QED  BY <2>1, <2>3, <2>6, <2>8 DEF PicturesHold
  <1>2. HotplugInv => WallpaperReturns
    BY <1>1 DEF WallpaperReturns, Calm
  <1> QED  BY <1>2, HotplugInvariance, PTL
=============================================================================
