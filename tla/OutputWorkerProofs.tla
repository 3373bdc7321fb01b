-------------------------- MODULE OutputWorkerProofs --------------------------
(***************************************************************************)
(* Proofs about OutputWorker for every number of requests, sizes and       *)
(* bounds.  TypeOK and the order of the wire carry the other two: frames   *)
(* and blankings reach the compositor in the order of their generations,   *)
(* and nothing on the wire is older than what the screen shows.            *)
(***************************************************************************)
EXTENDS OutputWorker, SequenceTheorems, TLAPS

\* What is on the wire is ordered, and a frame is newer than any blanking
\* before it.
WireOrdered ==
    \A i, j \in 1..Len(wire) :
        i < j => /\ wire[i].gen <= wire[j].gen
                 /\ wire[i].op = "blank" /\ wire[j].op = "frame"
                        => wire[i].gen < wire[j].gen

\* Where the wire, the screen and the last blanking stand to each other.
WireInRange ==
    /\ floor <= worker.generation
    /\ screen.gen <= worker.generation
    /\ screen.gen # 0 => floor < screen.gen
    /\ Awake => floor < worker.generation
    /\ \A i \in 1..Len(wire) :
           /\ floor <= wire[i].gen
           /\ screen.gen <= wire[i].gen
           /\ wire[i].gen <= worker.generation
           /\ wire[i].op = "frame" => floor < wire[i].gen
           /\ wire[i].op = "blank" /\ Awake => wire[i].gen < worker.generation

IInv == TypeOK /\ WireOrdered /\ WireInRange /\ PresentedIsOnScreen /\ BusyHasWork

-----------------------------------------------------------------------------
\* What the worker's operators keep and what they return.
LEMMA ApplyShape ==
    ASSUME NEW w, WellFormed(w), NEW g \in Nat, NEW s \in Size
    PROVE  LET r == OnApply(w, g, s) IN
           /\ WellFormed(r.worker)
           /\ \/ r = Nothing(w)
              \/ /\ g > w.generation
                 /\ r.worker = [kind |-> "Preparing", gen |-> g, size |-> s, generation |-> g]
                 /\ r.action = "Render" /\ r.gen = g /\ r.size = s
BY SizeAssumption DEF Worker, Kind, Busy, OnApply, WellFormed, Nothing, Render, Do, Become

LEMMA PreparedShape ==
    ASSUME NEW w, WellFormed(w), NEW g \in Nat
    PROVE  LET r == OnPrepared(w, g) IN
           /\ r.worker = w
           /\ (r.action = "Present") <=> Awaits(w, g)
BY DEF Worker, Kind, Busy, OnPrepared, WellFormed, Nothing, Present, Do, Awaits

LEMMA PresentedShape ==
    ASSUME NEW w, WellFormed(w), NEW g \in Nat, NEW s \in Size
    PROVE  LET r == OnPresented(w, g, s) IN
           /\ WellFormed(r.worker)
           /\ r.worker.generation = w.generation
           /\ IF Awaits(w, g)
              THEN r.worker.kind = "Presented" /\ w.generation = g
              ELSE r.worker = w
BY SizeAssumption DEF Worker, Kind, Busy, OnPresented, WellFormed, Nothing, Do, Become, Awaits

LEMMA ConfigureShape ==
    ASSUME NEW w, WellFormed(w), NEW s \in Size
    PROVE  LET r == OnConfigure(w, s) IN
           /\ WellFormed(r.worker)
           /\ r.worker.generation = w.generation
           /\ \/ /\ r.action = "Render" /\ r.gen = w.generation /\ r.size = s
                 /\ w.kind \in Busy \cup {"Presented"}
                 /\ r.worker.kind \in Busy
              \/ /\ r.action = "Idle"
                 /\ w.kind \notin Busy
                 /\ r.worker.kind \in {w.kind, "Idle"}
BY SizeAssumption
   DEF Worker, Kind, Busy, OnConfigure, WellFormed, Nothing, Render, Do, Become, Sleep

LEMMA FailedShape ==
    ASSUME NEW w, WellFormed(w), NEW g \in Nat
    PROVE  LET r == OnFailed(w, g) IN
           /\ WellFormed(r.worker)
           /\ r.worker.generation = w.generation
           /\ IF g < w.generation THEN r.worker = w ELSE r.worker.kind = "Failed"
BY SizeAssumption DEF Worker, Kind, Busy, OnFailed, WellFormed, Nothing, DropPixels, Do, Become, Sleep

LEMMA SleepShape ==
    ASSUME NEW w, WellFormed(w)
    PROVE  /\ WellFormed(OnClear(w).worker)
           /\ OnClear(w).worker.generation = w.generation
           /\ OnClear(w).worker.kind = "Idle"
           /\ WellFormed(OnSurfaceClosed(w).worker)
           /\ OnSurfaceClosed(w).worker.generation = w.generation
           /\ OnSurfaceClosed(w).worker.kind = "Idle"
BY SizeAssumption DEF Worker, Kind, Busy, OnClear, OnSurfaceClosed, WellFormed, DropPixels, Do, Become, Sleep

-----------------------------------------------------------------------------
\* The type of everything but the worker, for a generation the worker has.
LEMMA TypeFacts ==
    ASSUME TypeOK
    PROVE  /\ WellFormed(worker)
           /\ worker.generation \in Nat /\ issued \in Nat
           /\ Generation \subseteq Nat
           /\ \A g \in requested : g \in Nat /\ g <= issued
           /\ \A i \in 1..Len(wire) :
                  /\ wire[i].gen \in Nat
                  /\ wire[i].op \in {"frame", "blank"}
BY BoundAssumption DEF TypeOK, WellFormed, Generation, Worker, WireItem

\* A job added or taken away leaves counts of jobs.
LEMMA JobTypes ==
    ASSUME NEW f \in [Generation -> [Size -> Nat]], NEW g, NEW s
    PROVE  /\ [f EXCEPT ![g][s] = @ + 1] \in [Generation -> [Size -> Nat]]
           /\ g \in Generation /\ s \in Size /\ f[g][s] > 0
                  => [f EXCEPT ![g][s] = @ - 1] \in [Generation -> [Size -> Nat]]
<1>1. ASSUME g \in Generation, s \in Size
      PROVE  f[g] \in [Size -> Nat] /\ f[g][s] \in Nat
  BY <1>1
<1>2. [f EXCEPT ![g][s] = @ + 1] \in [Generation -> [Size -> Nat]]
  <2>1. CASE g \in Generation
    <3> DEFINE h == [f[g] EXCEPT ![s] = @ + 1]
    <3>1. f[g] \in [Size -> Nat]
      BY <2>1
    <3>2. h \in [Size -> Nat]
      <4>1. s \in Size => f[g][s] \in Nat
        BY <3>1
      <4>2. h = [x \in Size |-> IF x = s THEN f[g][s] + 1 ELSE f[g][x]]
        BY <3>1
      <4>3. ASSUME NEW x \in Size
            PROVE  (IF x = s THEN f[g][s] + 1 ELSE f[g][x]) \in Nat
        BY <3>1, <4>1
      <4> HIDE DEF h
      <4> QED
        BY <4>2, <4>3
    <3> HIDE DEF h
    <3>3. [f EXCEPT ![g] = h] \in [Generation -> [Size -> Nat]]
      BY <3>2
    <3> QED
      BY <3>3 DEF h
  <2> QED
    BY <2>1
<1>3. ASSUME g \in Generation, s \in Size, f[g][s] > 0
      PROVE  [f EXCEPT ![g][s] = @ - 1] \in [Generation -> [Size -> Nat]]
  BY <1>1, <1>3
<1> QED
  BY <1>2, <1>3

\* The head of a non-empty wire and what is behind it.
LEMMA TailFacts ==
    ASSUME TypeOK, wire # << >>
    PROVE  /\ Len(wire) \in Nat /\ Len(wire) >= 1
           /\ Head(wire) = wire[1]
           /\ Tail(wire) \in Seq(WireItem)
           /\ Len(Tail(wire)) = Len(wire) - 1
           /\ \A i \in 1..Len(Tail(wire)) :
                  Tail(wire)[i] = wire[i + 1] /\ i + 1 \in 1..Len(wire)
           /\ Head(wire) \in WireItem
<1>1. wire \in Seq(WireItem)
  BY DEF TypeOK
<1> QED
  BY <1>1, HeadTailProperties

LEMMA AppendFacts ==
    ASSUME TypeOK, NEW e \in WireItem
    PROVE  /\ Append(wire, e) \in Seq(WireItem)
           /\ Len(wire) \in Nat
           /\ Len(Append(wire, e)) = Len(wire) + 1
           /\ Append(wire, e)[Len(wire) + 1] = e
           /\ \A i \in 1..Len(wire) : Append(wire, e)[i] = wire[i]
<1>1. wire \in Seq(WireItem)
  BY DEF TypeOK
<1> QED
  BY <1>1, AppendProperties

-----------------------------------------------------------------------------
\* Every variable keeps its type.
LEMMA TypeStep == TypeOK /\ [Next]_vars => TypeOK'
<1> SUFFICES ASSUME TypeOK, [Next]_vars PROVE TypeOK'
  OBVIOUS
<1>0. WellFormed(worker) /\ Generation \subseteq Nat /\ worker.generation \in Nat
  BY TypeFacts
<1>1. CASE Issue
  <2>1. issued \in Nat /\ issued' = issued + 1 /\ issued' \in 0..MaxGeneration
    BY <1>1, BoundAssumption DEF TypeOK, Issue
  <2>2. requested' \subseteq 1..issued'
    BY <1>1, <2>1 DEF TypeOK, Issue
  <2> QED
    BY <1>0, <1>1, <2>1, <2>2 DEF TypeOK, Issue
<1>2. ASSUME NEW g \in Generation, Apply(g) PROVE TypeOK'
  <2> DEFINE r == OnApply(worker, g, surface)
  <2>0. g \in requested /\ g \in Nat /\ g <= issued /\ surface \in Size
    BY <1>2, TypeFacts DEF TypeOK, Apply
  <2>1. WellFormed(r.worker) /\ r.worker.generation <= issued
    <3>1. WellFormed(r.worker)
      BY <1>0, <2>0, ApplyShape
    <3>2. CASE r = Nothing(worker)
      BY <3>1, <3>2 DEF TypeOK, Nothing, Do
    <3>3. CASE r.worker = [kind |-> "Preparing", gen |-> g, size |-> surface, generation |-> g]
      BY <2>0, <3>1, <3>3
    <3> HIDE DEF r
    <3> QED
      BY <1>0, <2>0, <3>1, <3>2, <3>3, ApplyShape DEF r
  <2>2. jobs' \in [Generation -> [Size -> Nat]]
    <3> HIDE DEF r
    <3>1. jobs' \in {jobs, [jobs EXCEPT ![r.gen][r.size] = @ + 1]}
      BY <1>2 DEF Apply, StartJob, r
    <3> DEFINE a == r.gen
               b == r.size
    <3> HIDE DEF a, b
    <3>2. [jobs EXCEPT ![a][b] = @ + 1] \in [Generation -> [Size -> Nat]]
      BY JobTypes DEF TypeOK
    <3> QED
      BY <3>1, <3>2 DEF TypeOK, a, b
  <2>3. WellFormed(worker') /\ worker'.generation <= issued
    BY <1>2, <2>1 DEF Apply
  <2>4. /\ requested' \subseteq requested
        /\ UNCHANGED <<issued, surface, wire, screen, floor>>
    BY <1>2 DEF Apply
  <2> HIDE DEF r
  <2> QED
    BY <2>2, <2>3, <2>4 DEF TypeOK
<1>3. ASSUME NEW s \in Size, Configure(s) PROVE TypeOK'
  <2> DEFINE r == OnConfigure(worker, s)
  <2>1. WellFormed(r.worker) /\ r.worker.generation <= issued
    BY <1>0, ConfigureShape DEF TypeOK
  <2>2. jobs' \in [Generation -> [Size -> Nat]]
    <3> HIDE DEF r
    <3>1. jobs' \in {jobs, [jobs EXCEPT ![r.gen][r.size] = @ + 1]}
      BY <1>3 DEF Configure, StartJob, r
    <3> DEFINE a == r.gen
               b == r.size
    <3> HIDE DEF a, b
    <3>2. [jobs EXCEPT ![a][b] = @ + 1] \in [Generation -> [Size -> Nat]]
      BY JobTypes DEF TypeOK
    <3> QED
      BY <3>1, <3>2 DEF TypeOK, a, b
  <2>3. WellFormed(worker') /\ worker'.generation <= issued
    BY <1>3, <2>1 DEF Configure
  <2>4. surface' = s /\ UNCHANGED <<issued, requested, wire, screen, floor>>
    BY <1>3 DEF Configure
  <2> HIDE DEF r
  <2> QED
    BY <2>2, <2>3, <2>4 DEF TypeOK
<1>4. ASSUME NEW g \in Generation, NEW s \in Size, Prepared(g, s) PROVE TypeOK'
  <2>1. worker' = worker
    BY <1>0, <1>4, PreparedShape DEF Prepared
  <2>2. jobs' \in [Generation -> [Size -> Nat]]
    BY <1>4, JobTypes DEF TypeOK, Prepared
  <2>3. Frame(g, s) \in WireItem
    BY <1>0 DEF Frame, WireItem
  <2>4. wire' \in Seq(WireItem)
    BY <1>4, <2>3, AppendFacts DEF TypeOK, Prepared
  <2> QED
    BY <1>4, <2>1, <2>2, <2>4 DEF TypeOK, Prepared
<1>5. ASSUME NEW g \in Generation, NEW s \in Size, RenderFailed(g, s) PROVE TypeOK'
  <2>1. WellFormed(worker') /\ worker'.generation <= issued
    BY <1>0, <1>5, FailedShape DEF TypeOK, RenderFailed
  <2>2. jobs' \in [Generation -> [Size -> Nat]]
    BY <1>5, JobTypes DEF TypeOK, RenderFailed
  <2> QED
    BY <1>5, <2>1, <2>2 DEF TypeOK, RenderFailed
<1>6. CASE Presented
  <2>1. Head(wire) \in WireItem /\ Tail(wire) \in Seq(WireItem)
    BY <1>6, TailFacts DEF Presented
  <2>2. Head(wire).gen \in Nat /\ Head(wire).size \in Size
    BY <1>6, <2>1 DEF Presented, WireItem
  <2>3. WellFormed(worker') /\ worker'.generation <= issued
    BY <1>0, <1>6, <2>2, PresentedShape DEF TypeOK, Presented
  <2> QED
    BY <1>6, <2>1, <2>2, <2>3 DEF TypeOK, Presented
<1>7. CASE PresentFailed
  <2>1. Head(wire) \in WireItem /\ Tail(wire) \in Seq(WireItem)
    BY <1>7, TailFacts DEF PresentFailed
  <2>2. WellFormed(worker') /\ worker'.generation <= issued
    BY <1>0, <1>7, <2>1, FailedShape DEF TypeOK, PresentFailed, WireItem
  <2> QED
    BY <1>7, <2>1, <2>2 DEF TypeOK, PresentFailed
<1>8. CASE Blanked
  <2>1. Head(wire) \in WireItem /\ Tail(wire) \in Seq(WireItem)
    BY <1>8, TailFacts DEF Blanked
  <2> QED
    BY <1>8, <2>1 DEF TypeOK, Blanked, Blank, WireItem
<1>9. CASE Clear
  <2>1. WellFormed(worker') /\ worker'.generation <= issued
    BY <1>0, <1>9, SleepShape DEF TypeOK, Clear
  <2>2. Blanking(worker.generation) \in WireItem
    BY <1>0 DEF Blanking, WireItem
  <2> QED
    BY <1>9, <2>1, <2>2, AppendFacts DEF TypeOK, Clear
<1>10. CASE SurfaceClosed
  <2>1. WellFormed(worker') /\ worker'.generation <= issued
    BY <1>0, <1>10, SleepShape DEF TypeOK, SurfaceClosed
  <2> QED
    BY <1>0, <1>10, <2>1 DEF TypeOK, SurfaceClosed, WellFormed, Awake, Blank
<1>11. CASE UNCHANGED vars
  BY <1>11 DEF TypeOK, Awake, vars
<1> QED
  BY <1>1, <1>2, <1>3, <1>4, <1>5, <1>6, <1>7, <1>8, <1>9, <1>10, <1>11 DEF Next

-----------------------------------------------------------------------------
\* A worker only becomes awake by accepting a newer generation.
LEMMA WorkerStep ==
    ASSUME TypeOK, Next
    PROVE  /\ worker'.generation \in Nat
           /\ worker'.generation >= worker.generation
           /\ Awake' => \/ Awake /\ worker'.generation = worker.generation
                       \/ worker'.generation > worker.generation
<1>0. /\ WellFormed(worker) /\ worker.generation \in Nat /\ Generation \subseteq Nat
      /\ surface \in Size
  BY TypeFacts DEF TypeOK
<1>1. ASSUME UNCHANGED worker PROVE Awake' = Awake
  BY <1>1 DEF Awake
<1>2. CASE Issue \/ Blanked
  BY <1>0, <1>1, <1>2 DEF Issue, Blanked
<1>3. ASSUME NEW g \in Generation, Apply(g)
      PROVE  \/ worker' = worker
             \/ worker'.generation = g /\ g > worker.generation
  <2>1. worker' = OnApply(worker, g, surface).worker
    BY <1>3 DEF Apply
  <2>2. CASE OnApply(worker, g, surface) = Nothing(worker)
    BY <2>1, <2>2 DEF Nothing, Do
  <2>3. CASE OnApply(worker, g, surface).worker
               = [kind |-> "Preparing", gen |-> g, size |-> surface, generation |-> g]
             /\ g > worker.generation
    BY <2>1, <2>3
  <2>4. g \in Nat
    BY <1>0
  <2> QED
    BY <1>0, <2>2, <2>3, <2>4, ApplyShape
<1>4. ASSUME NEW s \in Size, Configure(s)
      PROVE  worker'.generation = worker.generation /\ (Awake' => Awake)
  <2>1. worker' = OnConfigure(worker, s).worker
    BY <1>4 DEF Configure
  <2> QED
    BY <1>0, <2>1, ConfigureShape DEF Awake, Busy
<1>5. ASSUME NEW g \in Generation, NEW s \in Size, Prepared(g, s)
      PROVE  worker' = worker
  BY <1>0, <1>5, PreparedShape DEF Prepared
<1>6. ASSUME NEW g \in Nat, worker' = OnFailed(worker, g).worker
      PROVE  worker'.generation = worker.generation /\ (Awake' => Awake)
  BY <1>0, <1>6, FailedShape DEF Awake, Busy
<1>7. ASSUME NEW g \in Generation, NEW s \in Size, RenderFailed(g, s)
      PROVE  worker'.generation = worker.generation /\ (Awake' => Awake)
  BY <1>0, <1>6, <1>7 DEF RenderFailed
<1>8. CASE Presented
  <2>1. Head(wire) \in WireItem /\ Head(wire).op = "frame"
    BY <1>8, TailFacts DEF Presented
  <2>2. Head(wire).gen \in Nat /\ Head(wire).size \in Size
    BY <2>1 DEF WireItem
  <2>3. worker' = OnPresented(worker, Head(wire).gen, Head(wire).size).worker
    BY <1>8 DEF Presented
  <2>4. CASE Awaits(worker, Head(wire).gen)
    <3>1. worker'.generation = worker.generation
      BY <1>0, <2>2, <2>3, PresentedShape
    <3>2. Awake
      BY <2>4 DEF Awake, Awaits
    <3> QED
      BY <1>0, <3>1, <3>2
  <2>5. CASE ~Awaits(worker, Head(wire).gen)
    <3>1. worker' = worker
      BY <1>0, <2>2, <2>3, <2>5, PresentedShape
    <3> QED
      BY <1>0, <1>1, <3>1
  <2> QED
    BY <2>4, <2>5
<1>9. CASE PresentFailed
  <2>1. Head(wire).gen \in Nat
    BY <1>9, TailFacts DEF PresentFailed, WireItem
  <2>2. worker'.generation = worker.generation /\ (Awake' => Awake)
    BY <1>6, <1>9, <2>1 DEF PresentFailed
  <2> QED
    BY <1>0, <2>2
<1>10. CASE Clear \/ SurfaceClosed
  <2>1. worker'.kind = "Idle" /\ worker'.generation = worker.generation
    BY <1>0, <1>10, SleepShape DEF Clear, SurfaceClosed
  <2> QED
    BY <1>0, <2>1 DEF Awake, Busy
<1> QED
  BY <1>0, <1>1, <1>2, <1>3, <1>4, <1>5, <1>7, <1>8, <1>9, <1>10 DEF Next

\* The order on the wire and its place between screen and worker are kept.
LEMMA WireStep ==
    TypeOK /\ WireOrdered /\ WireInRange /\ [Next]_vars => WireOrdered' /\ WireInRange'
<1> SUFFICES ASSUME TypeOK, WireOrdered, WireInRange, [Next]_vars
             PROVE  WireOrdered' /\ WireInRange'
  OBVIOUS
<1>1. CASE UNCHANGED vars
  BY <1>1 DEF vars, WireOrdered, WireInRange, Awake
<1>2. ASSUME Next PROVE WireOrdered' /\ WireInRange'
  <2>0. /\ worker.generation \in Nat /\ worker'.generation \in Nat
        /\ worker'.generation >= worker.generation
        /\ Awake' => \/ Awake /\ worker'.generation = worker.generation
                    \/ worker'.generation > worker.generation
        /\ Generation \subseteq Nat /\ WellFormed(worker)
        /\ floor \in Nat /\ screen.gen \in Nat
        /\ \A i \in 1..Len(wire) :
               wire[i].gen \in Nat /\ wire[i].op \in {"frame", "blank"}
    BY <1>2, WorkerStep, TypeFacts DEF TypeOK
  <2>1. ASSUME UNCHANGED <<wire, screen, floor>> PROVE WireOrdered' /\ WireInRange'
    BY <2>0, <2>1 DEF WireOrdered, WireInRange
  <2>2. CASE Issue
    BY <2>1, <2>2 DEF Issue
  <2>3. ASSUME NEW g \in Generation, Apply(g) PROVE WireOrdered' /\ WireInRange'
    BY <2>1, <2>3 DEF Apply
  <2>4. ASSUME NEW s \in Size, Configure(s) PROVE WireOrdered' /\ WireInRange'
    BY <2>1, <2>4 DEF Configure
  <2>5. ASSUME NEW g \in Generation, NEW s \in Size, RenderFailed(g, s)
        PROVE  WireOrdered' /\ WireInRange'
    BY <2>1, <2>5 DEF RenderFailed
  <2>6. ASSUME NEW g \in Generation, NEW s \in Size, Prepared(g, s)
        PROVE  WireOrdered' /\ WireInRange'
    <3>1. CASE OnPrepared(worker, g).action # "Present"
      BY <2>1, <2>6, <3>1 DEF Prepared
    <3>2. CASE OnPrepared(worker, g).action = "Present"
      <4>1. Awaits(worker, g) /\ worker' = worker
        BY <2>0, <2>6, <3>2, PreparedShape DEF Prepared
      <4>2. Awake /\ Awake' /\ g = worker.generation
        BY <2>0, <4>1 DEF Awaits, WellFormed, Awake
      <4>3. Frame(g, s) \in WireItem
        BY <2>0 DEF Frame, WireItem
      <4>4. /\ wire' = Append(wire, Frame(g, s))
            /\ UNCHANGED <<screen, floor>>
        BY <2>6, <3>2 DEF Prepared
      <4>5. /\ Len(wire) \in Nat /\ Len(wire') = Len(wire) + 1
            /\ wire'[Len(wire) + 1] = Frame(g, s)
            /\ \A i \in 1..Len(wire) : wire'[i] = wire[i]
        BY <4>3, <4>4, AppendFacts
      <4>6. wire'[Len(wire) + 1].gen = worker.generation /\ wire'[Len(wire) + 1].op = "frame"
        BY <4>2, <4>5 DEF Frame
      <4> QED
        BY <2>0, <4>1, <4>2, <4>4, <4>5, <4>6 DEF WireOrdered, WireInRange
    <3> QED
      BY <3>1, <3>2
  <2>7. CASE Presented \/ PresentFailed \/ Blanked
    <3>1. /\ wire # << >> /\ wire' = Tail(wire)
          /\ \/ Head(wire).op = "frame" /\ floor' = floor
                /\ screen'.gen \in {screen.gen, Head(wire).gen}
             \/ Head(wire).op = "blank" /\ floor' = Head(wire).gen /\ screen'.gen = 0
      BY <2>7 DEF Presented, PresentFailed, Blanked, Blank
    <3>2. /\ Len(wire) \in Nat /\ Len(wire) >= 1 /\ Head(wire) = wire[1]
          /\ Len(wire') = Len(wire) - 1
          /\ \A i \in 1..Len(wire') : wire'[i] = wire[i + 1] /\ i + 1 \in 1..Len(wire)
      BY <3>1, TailFacts
    <3>3. WireOrdered'
      BY <3>2 DEF WireOrdered
    <3>4. \A i \in 1..Len(wire') :
             /\ wire'[i] = wire[i + 1] /\ i + 1 \in 1..Len(wire)
             /\ wire[1].gen <= wire[i + 1].gen
             /\ wire[1].op = "blank" /\ wire[i + 1].op = "frame"
                    => wire[1].gen < wire[i + 1].gen
      BY <3>2 DEF WireOrdered
    <3>5. 1 \in 1..Len(wire)
      BY <3>2
    <3>6. /\ floor <= wire[1].gen /\ screen.gen <= wire[1].gen
          /\ wire[1].gen <= worker.generation /\ wire[1].gen \in Nat
          /\ wire[1].op = "frame" => floor < wire[1].gen
          /\ wire[1].op = "blank" /\ Awake => wire[1].gen < worker.generation
      BY <2>0, <3>5 DEF WireInRange
    <3>7. /\ floor' <= worker'.generation /\ screen'.gen <= worker'.generation
          /\ screen'.gen # 0 => floor' < screen'.gen
          /\ Awake' => floor' < worker'.generation
      BY <2>0, <3>1, <3>2, <3>6 DEF WireInRange
    <3>8. ASSUME NEW i \in 1..Len(wire')
          PROVE  /\ floor' <= wire'[i].gen
                 /\ screen'.gen <= wire'[i].gen
                 /\ wire'[i].gen <= worker'.generation
                 /\ wire'[i].op = "frame" => floor' < wire'[i].gen
                 /\ wire'[i].op = "blank" /\ Awake' => wire'[i].gen < worker'.generation
      <4> DEFINE e == wire[i + 1]
      <4>1. /\ wire'[i] = e /\ i + 1 \in 1..Len(wire) /\ wire[1].gen <= e.gen
            /\ wire[1].op = "blank" /\ e.op = "frame" => wire[1].gen < e.gen
        BY <3>4
      <4>2. /\ floor <= e.gen /\ screen.gen <= e.gen /\ e.gen <= worker.generation
            /\ e.op = "frame" => floor < e.gen
            /\ e.op = "blank" /\ Awake => e.gen < worker.generation
            /\ e.gen \in Nat
        BY <2>0, <4>1 DEF WireInRange
      <4> HIDE DEF e
      <4> QED
        BY <2>0, <3>1, <3>2, <3>6, <4>1, <4>2
    <3> QED
      BY <3>3, <3>7, <3>8 DEF WireInRange
  <2>8. CASE Clear
    <3> DEFINE e == Blanking(worker.generation)
    <3>1. e \in WireItem /\ e.gen = worker.generation /\ e.op = "blank"
      BY <2>0 DEF Blanking, WireItem
    <3>2. wire' = Append(wire, e) /\ UNCHANGED <<screen, floor>>
      BY <2>8 DEF Clear
    <3>3. ~Awake' /\ worker'.generation = worker.generation
      BY <2>0, <2>8, SleepShape DEF Clear, Awake, Busy
    <3> HIDE DEF e
    <3>4. /\ Len(wire) \in Nat /\ Len(wire') = Len(wire) + 1
          /\ wire'[Len(wire) + 1] = e
          /\ \A i \in 1..Len(wire) : wire'[i] = wire[i]
      BY <3>1, <3>2, AppendFacts
    <3> QED
      BY <2>0, <3>1, <3>2, <3>3, <3>4 DEF WireOrdered, WireInRange
  <2>9. CASE SurfaceClosed
    <3>1. ~Awake' /\ worker'.generation = worker.generation
      BY <2>0, <2>9, SleepShape DEF SurfaceClosed, Awake, Busy
    <3>2. Len(wire') = 0 /\ screen'.gen = 0 /\ floor' = worker.generation
      BY <2>9 DEF SurfaceClosed, Blank
    <3> QED
      BY <2>0, <3>1, <3>2 DEF WireOrdered, WireInRange
  <2> QED
    BY <1>2, <2>2, <2>3, <2>4, <2>5, <2>6, <2>7, <2>8, <2>9 DEF Next
<1> QED
  BY <1>1, <1>2

-----------------------------------------------------------------------------
\* A worker that says Presented stays right about the screen.
LEMMA PresentedStep ==
    TypeOK /\ WireInRange /\ PresentedIsOnScreen /\ [Next]_vars => PresentedIsOnScreen'
<1> SUFFICES ASSUME TypeOK, WireInRange, PresentedIsOnScreen, [Next]_vars,
                    worker'.kind = "Presented"
             PROVE  screen'.gen = worker'.generation
  BY DEF PresentedIsOnScreen
<1>0. /\ worker.generation \in Nat /\ Generation \subseteq Nat /\ WellFormed(worker)
      /\ screen.gen \in Nat /\ surface \in Size
  BY TypeFacts DEF TypeOK
<1>1. ASSUME worker.kind = "Presented", worker'.generation = worker.generation,
             screen' = screen
      PROVE  screen'.gen = worker'.generation
  BY <1>1 DEF PresentedIsOnScreen
<1>2. CASE Issue \/ UNCHANGED vars
  BY <1>1, <1>2 DEF Issue, vars
<1>3. ASSUME NEW g \in Generation, Apply(g) PROVE screen'.gen = worker'.generation
  <2>1. worker' = OnApply(worker, g, surface).worker /\ screen' = screen
    BY <1>3 DEF Apply
  <2>2. CASE OnApply(worker, g, surface) = Nothing(worker)
    BY <1>1, <2>1, <2>2 DEF Nothing, Do
  <2>3. CASE OnApply(worker, g, surface).worker
               = [kind |-> "Preparing", gen |-> g, size |-> surface, generation |-> g]
    BY <2>1, <2>3
  <2>4. g \in Nat
    BY <1>0
  <2> QED
    BY <1>0, <2>2, <2>3, <2>4, ApplyShape
<1>4. ASSUME NEW s \in Size, Configure(s) PROVE screen'.gen = worker'.generation
  <2>1. worker' = OnConfigure(worker, s).worker /\ screen' = screen
    BY <1>4 DEF Configure
  <2>2. worker.kind = "Presented" /\ worker'.generation = worker.generation
    BY <1>0, <2>1, ConfigureShape DEF Busy
  <2> QED
    BY <1>1, <2>1, <2>2
<1>5. ASSUME NEW g \in Generation, NEW s \in Size, Prepared(g, s)
      PROVE  screen'.gen = worker'.generation
  BY <1>0, <1>1, <1>5, PreparedShape DEF Prepared
<1>6. ASSUME NEW g \in Nat, worker' = OnFailed(worker, g).worker, screen' = screen
      PROVE  screen'.gen = worker'.generation
  BY <1>0, <1>1, <1>6, FailedShape
<1>7. ASSUME NEW g \in Generation, NEW s \in Size, RenderFailed(g, s)
      PROVE  screen'.gen = worker'.generation
  BY <1>0, <1>6, <1>7 DEF RenderFailed
<1>8. CASE Presented
  <2> DEFINE h == Head(wire)
  <2>1. h \in WireItem /\ h.op = "frame" /\ h = wire[1] /\ 1 \in 1..Len(wire)
    BY <1>8, TailFacts DEF Presented
  <2>2. h.gen \in Nat /\ h.size \in Size
    BY <2>1 DEF WireItem
  <2>3. worker' = OnPresented(worker, h.gen, h.size).worker /\ screen'.gen = h.gen
    BY <1>8 DEF Presented
  <2>4. screen.gen <= h.gen /\ h.gen <= worker.generation
    BY <2>1 DEF WireInRange
  <2> HIDE DEF h
  <2>5. CASE Awaits(worker, h.gen)
    BY <1>0, <2>2, <2>3, <2>5, PresentedShape
  <2>6. CASE ~Awaits(worker, h.gen)
    <3>1. worker' = worker
      BY <1>0, <2>2, <2>3, <2>6, PresentedShape
    <3> QED
      BY <1>0, <2>2, <2>3, <2>4, <3>1 DEF PresentedIsOnScreen
  <2> QED
    BY <2>5, <2>6
<1>9. CASE PresentFailed
  <2>1. Head(wire).gen \in Nat
    BY <1>9, TailFacts DEF PresentFailed, WireItem
  <2> QED
    BY <1>6, <1>9, <2>1 DEF PresentFailed
<1>10. CASE Blanked
  <2>1. Head(wire) = wire[1] /\ 1 \in 1..Len(wire) /\ Head(wire).op = "blank"
    BY <1>10, TailFacts DEF Blanked
  <2>2. worker' = worker /\ Awake
    BY <1>10 DEF Blanked, Awake
  <2>3. wire[1].gen < worker.generation /\ screen.gen <= wire[1].gen /\ wire[1].gen \in Nat
    BY <2>1, <2>2, TypeFacts DEF WireInRange
  <2> QED
    BY <1>0, <2>2, <2>3 DEF PresentedIsOnScreen
<1>11. CASE Clear \/ SurfaceClosed
  BY <1>0, <1>11, SleepShape DEF Clear, SurfaceClosed
<1> QED
  BY <1>2, <1>3, <1>4, <1>5, <1>7, <1>8, <1>9, <1>10, <1>11 DEF Next

\* Work under way for generation g, in a job or on the wire.
Work(g) ==
    \/ \E s \in Size : jobs[g][s] > 0
    \/ \E i \in 1..Len(wire) : wire[i].op = "frame" /\ wire[i].gen = g

\* The same after a step.
NextWork(g) ==
    \/ \E s \in Size : jobs'[g][s] > 0
    \/ \E i \in 1..Len(wire') : wire'[i].op = "frame" /\ wire'[i].gen = g

\* Starting a job leaves work for its generation and takes none away.
LEMMA StartJobWork ==
    ASSUME TypeOK, NEW r, StartJob(r), UNCHANGED wire
    PROVE  /\ \A g \in Generation : Work(g) => NextWork(g)
           /\ r.action = "Render" /\ r.gen \in Generation /\ r.size \in Size
                  => NextWork(r.gen)
<1>0. jobs \in [Generation -> [Size -> Nat]]
  BY DEF TypeOK
<1>1. CASE r.action # "Render"
  BY <1>1 DEF StartJob, Work, NextWork
<1>2. CASE r.action = "Render"
  <2> DEFINE a == r.gen
             b == r.size
  <2>1. jobs' = [jobs EXCEPT ![a][b] = @ + 1]
    BY <1>2 DEF StartJob
  <2> HIDE DEF a, b
  <2>2. ASSUME NEW g \in Generation, NEW s \in Size
        PROVE  /\ jobs[g][s] \in Nat
               /\ jobs'[g][s] = IF g = a /\ s = b THEN jobs[g][s] + 1 ELSE jobs[g][s]
    BY <1>0, <2>1
  <2>3. \A g \in Generation : Work(g) => NextWork(g)
    BY <2>2 DEF Work, NextWork
  <2>4. a \in Generation /\ b \in Size => NextWork(a)
    BY <2>2 DEF Work, NextWork
  <2> QED
    BY <1>2, <2>3, <2>4 DEF a, b
<1> QED
  BY <1>1, <1>2

\* A busy worker keeps having work under way.
LEMMA BusyStep ==
    TypeOK /\ WireInRange /\ BusyHasWork /\ [Next]_vars => BusyHasWork'
<1> SUFFICES ASSUME TypeOK, WireInRange, BusyHasWork, [Next]_vars, worker'.kind \in Busy
             PROVE  NextWork(worker'.gen)
  BY DEF BusyHasWork, Work, NextWork
<1>0. /\ worker.generation \in Nat /\ Generation \subseteq Nat /\ WellFormed(worker)
      /\ surface \in Size /\ jobs \in [Generation -> [Size -> Nat]]
  BY TypeFacts DEF TypeOK
<1>1. Awake => worker.gen = worker.generation /\ worker.gen \in Generation
  <2>1. floor \in Nat /\ issued \in 0..MaxGeneration /\ worker.generation <= issued
    BY DEF TypeOK
  <2> QED
    BY <1>0, <2>1, BoundAssumption DEF WireInRange, WellFormed, Awake, Generation
<1>2. worker.kind \in Busy => Work(worker.gen) /\ Awake
  BY DEF BusyHasWork, Work, NextWork, Awake
<1>3. CASE Issue \/ UNCHANGED vars
  BY <1>2, <1>3 DEF Issue, vars, Work, NextWork
<1>4. ASSUME NEW g \in Generation, Apply(g) PROVE NextWork(worker'.gen)
  <2> DEFINE r == OnApply(worker, g, surface)
  <2>1. worker' = r.worker /\ StartJob(r) /\ UNCHANGED wire
    BY <1>4 DEF Apply
  <2>2. g \in Nat
    BY <1>0
  <2>3. CASE r = Nothing(worker)
    <3>1. worker' = worker
      BY <2>1, <2>3 DEF Nothing, Do
    <3> HIDE DEF r
    <3> QED
      BY <1>1, <1>2, <2>1, <3>1, StartJobWork
  <2>4. CASE /\ r.worker = [kind |-> "Preparing", gen |-> g, size |-> surface, generation |-> g]
             /\ r.action = "Render" /\ r.gen = g /\ r.size = surface
    <3> HIDE DEF r
    <3>1. worker'.gen = g
      BY <2>1, <2>4
    <3> QED
      BY <1>0, <2>1, <2>4, <3>1, StartJobWork
  <2> QED
    BY <1>0, <2>2, <2>3, <2>4, ApplyShape
<1>5. ASSUME NEW s \in Size, Configure(s) PROVE NextWork(worker'.gen)
  <2> DEFINE r == OnConfigure(worker, s)
  <2>1. worker' = r.worker /\ StartJob(r) /\ UNCHANGED wire
    BY <1>5 DEF Configure
  <2>2. /\ r.action = "Render" /\ r.gen = worker.generation /\ r.size = s
        /\ worker.kind \in Busy \cup {"Presented"}
        /\ worker'.generation = worker.generation /\ WellFormed(worker')
    BY <1>0, <2>1, ConfigureShape DEF Busy
  <2> HIDE DEF r
  <2>3. worker'.gen = worker.generation /\ worker.generation \in Generation
    BY <1>1, <2>2 DEF WellFormed, Awake
  <2> QED
    BY <2>1, <2>2, <2>3, StartJobWork
<1>6. ASSUME NEW g \in Generation, NEW s \in Size, jobs[g][s] > 0,
             jobs' = [jobs EXCEPT ![g][s] = @ - 1], UNCHANGED wire,
             worker' = worker, g # worker.gen
      PROVE  NextWork(worker'.gen)
  <2>1. worker.gen \in Generation /\ Work(worker.gen)
    BY <1>1, <1>2, <1>6
  <2>2. jobs'[worker.gen] = jobs[worker.gen]
    BY <1>0, <1>6, <2>1
  <2> QED
    BY <1>6, <2>1, <2>2 DEF Work, NextWork
<1>7. ASSUME NEW g \in Generation, NEW s \in Size, Prepared(g, s)
      PROVE  NextWork(worker'.gen)
  <2>1. worker' = worker /\ (OnPrepared(worker, g).action = "Present" <=> Awaits(worker, g))
    BY <1>0, <1>7, PreparedShape DEF Prepared
  <2>2. CASE Awaits(worker, g)
    <3>1. wire' = Append(wire, Frame(g, s)) /\ worker'.gen = g
      BY <1>7, <2>1, <2>2 DEF Prepared, Awaits
    <3>2. Frame(g, s) \in WireItem
      BY <1>0 DEF Frame, WireItem
    <3>3. Len(wire) \in Nat /\ Len(wire') = Len(wire) + 1 /\ wire'[Len(wire) + 1] = Frame(g, s)
      BY <3>1, <3>2, AppendFacts
    <3>4. Len(wire) + 1 \in 1..Len(wire')
      BY <3>3
    <3>5. wire'[Len(wire) + 1].op = "frame" /\ wire'[Len(wire) + 1].gen = g
      BY <3>3 DEF Frame
    <3> QED
      BY <3>1, <3>4, <3>5 DEF Work, NextWork
  <2>3. CASE ~Awaits(worker, g)
    <3>1. wire' = wire /\ g # worker.gen
      BY <1>7, <2>1, <2>3 DEF Prepared, Awaits
    <3> QED
      BY <1>6, <1>7, <2>1, <3>1 DEF Prepared
  <2> QED
    BY <2>2, <2>3
<1>8. ASSUME NEW g \in Nat, worker' = OnFailed(worker, g).worker
      PROVE  worker' = worker /\ g # worker.gen
  <2>1. worker' = worker /\ g < worker.generation
    BY <1>0, <1>8, FailedShape DEF Busy
  <2> QED
    BY <1>0, <1>1, <1>2, <2>1
<1>9. ASSUME NEW g \in Generation, NEW s \in Size, RenderFailed(g, s)
      PROVE  NextWork(worker'.gen)
  <2>1. worker' = worker /\ g # worker.gen
    BY <1>0, <1>8, <1>9 DEF RenderFailed
  <2> QED
    BY <1>6, <1>9, <2>1 DEF RenderFailed
<1>10. ASSUME wire # << >>, wire' = Tail(wire), UNCHANGED <<worker, jobs>>,
              Head(wire).op = "frame" => Head(wire).gen # worker.gen
       PROVE  NextWork(worker'.gen)
  <2>1. /\ Len(wire) \in Nat /\ Head(wire) = wire[1]
        /\ Len(wire') = Len(wire) - 1
        /\ \A i \in 1..Len(wire') : wire'[i] = wire[i + 1]
    BY <1>10, TailFacts
  <2>2. Work(worker.gen)
    BY <1>2, <1>10
  <2>3. ASSUME NEW i \in 1..Len(wire), wire[i].op = "frame", wire[i].gen = worker.gen
        PROVE  i - 1 \in 1..Len(wire') /\ wire'[i - 1] = wire[i]
    <3>1. i # 1
      BY <1>10, <2>1, <2>3
    <3>2. i - 1 \in 1..Len(wire')
      BY <2>1, <2>3, <3>1
    <3>3. wire'[i - 1] = wire[(i - 1) + 1]
      BY <2>1, <3>2
    <3> QED
      BY <2>3, <3>2, <3>3
  <2> QED
    BY <1>10, <2>2, <2>3 DEF Work, NextWork
<1>11. CASE Presented
  <2> DEFINE h == Head(wire)
  <2>1. h \in WireItem /\ h.op = "frame"
    BY <1>11, TailFacts DEF Presented
  <2>2. h.gen \in Nat /\ h.size \in Size
    BY <2>1 DEF WireItem
  <2>3. worker' = OnPresented(worker, h.gen, h.size).worker
    BY <1>11 DEF Presented
  <2> HIDE DEF h
  <2>4. ~Awaits(worker, h.gen) /\ worker' = worker
    BY <1>0, <2>2, <2>3, PresentedShape DEF Busy
  <2>5. h.gen # worker.gen
    BY <2>4 DEF Awaits
  <2> QED
    BY <1>10, <1>11, <2>4, <2>5 DEF Presented, h
<1>12. CASE PresentFailed
  <2>1. Head(wire).gen \in Nat
    BY <1>12, TailFacts DEF PresentFailed, WireItem
  <2>2. worker' = worker /\ Head(wire).gen # worker.gen
    BY <1>8, <1>12, <2>1 DEF PresentFailed
  <2> QED
    BY <1>10, <1>12, <2>2 DEF PresentFailed
<1>13. CASE Blanked
  BY <1>10, <1>13 DEF Blanked
<1>14. CASE Clear \/ SurfaceClosed
  BY <1>0, <1>14, SleepShape DEF Clear, SurfaceClosed, Busy
<1> QED
  BY <1>3, <1>4, <1>5, <1>7, <1>9, <1>11, <1>12, <1>13, <1>14 DEF Next

-----------------------------------------------------------------------------
LEMMA InitIInv == Init => IInv
<1> SUFFICES ASSUME Init PROVE IInv
  OBVIOUS
<1>1. TypeOK
  <2>1. WellFormed(worker)
    BY DEF Init, NewWorker, WellFormed, Worker, Kind, Busy
  <2>2. jobs \in [Generation -> [Size -> Nat]]
    BY DEF Init
  <2>3. screen \in [gen : Nat, size : Size \cup {NoSize}]
    BY DEF Init, Blank
  <2> QED
    BY <2>1, <2>2, <2>3, BoundAssumption DEF Init, TypeOK, NewWorker
<1>2. WireOrdered /\ WireInRange
  BY DEF Init, WireOrdered, WireInRange, NewWorker, Blank, Awake, Busy
<1>3. PresentedIsOnScreen /\ BusyHasWork
  BY DEF Init, PresentedIsOnScreen, BusyHasWork, NewWorker, Busy
<1> QED
  BY <1>1, <1>2, <1>3 DEF IInv

\* The inductive invariant.
THEOREM Invariance == Spec => []IInv
<1>1. IInv /\ [Next]_vars => IInv'
  BY TypeStep, WireStep, PresentedStep, BusyStep DEF IInv
<1> QED
  BY <1>1, InitIInv, PTL DEF Spec

\* Types are kept for any number of requests, sizes and jobs.
THEOREM TypeCorrect == Spec => []TypeOK
<1>1. IInv => TypeOK
  BY DEF IInv
<1> QED
  BY <1>1, Invariance, PTL

\* A worker that says Presented has its newest generation on the screen.
THEOREM WorkerTellsTruth == Spec => []PresentedIsOnScreen
<1>1. IInv => PresentedIsOnScreen
  BY DEF IInv
<1> QED
  BY <1>1, Invariance, PTL

\* A worker that waits has something to wait for.
THEOREM WorkerNeverStranded == Spec => []BusyHasWork
<1>1. IInv => BusyHasWork
  BY DEF IInv
<1> QED
  BY <1>1, Invariance, PTL

-----------------------------------------------------------------------------
\* Every step of the worker and its layer is one of the slot's, or none.
LEMMA SlotStep == IInv /\ [Next]_vars => [Slot!Next]_(Slot!vars)
<1> SUFFICES ASSUME IInv, [Next]_vars PROVE [Slot!Next]_(Slot!vars)
  OBVIOUS
<1>0. /\ TypeOK /\ WireInRange
      /\ worker.generation \in Nat /\ Generation \subseteq Nat /\ WellFormed(worker)
      /\ screen.gen \in Nat /\ floor \in Nat
  BY TypeFacts DEF IInv, TypeOK
<1> USE DEF Slot!vars
<1>1. CASE UNCHANGED vars
  BY <1>1 DEF vars
<1>2. ASSUME Next, UNCHANGED <<screen, floor>> PROVE [Slot!Next]_(Slot!vars)
  <2>1. worker'.generation \in Nat /\ worker'.generation >= worker.generation
    BY <1>0, <1>2, WorkerStep
  <2>2. CASE worker'.generation = worker.generation
    BY <1>2, <2>2
  <2>3. CASE worker'.generation > worker.generation
    BY <1>2, <2>1, <2>3 DEF Slot!Next, Slot!Request
  <2> QED
    BY <1>0, <2>1, <2>2, <2>3
<1>3. CASE Next /\ Presented
  <2>1. /\ Head(wire).op = "frame" /\ Head(wire) = wire[1] /\ 1 \in 1..Len(wire)
        /\ screen'.gen = Head(wire).gen /\ floor' = floor /\ wire[1].gen \in Nat
    BY <1>0, <1>3, TailFacts, TypeFacts DEF Presented
  <2>2. floor < wire[1].gen /\ screen.gen <= wire[1].gen /\ wire[1].gen <= worker.generation
    BY <1>0, <2>1 DEF WireInRange
  <2>3. worker'.generation = worker.generation
    <3>1. Head(wire).size \in Size
      BY <1>0, <1>3, TailFacts DEF Presented, WireItem
    <3>2. worker' = OnPresented(worker, Head(wire).gen, Head(wire).size).worker
      BY <1>3 DEF Presented
    <3>3. Head(wire).gen \in Nat
      BY <2>1
    <3> QED
      BY <1>0, <3>1, <3>2, <3>3, PresentedShape
  <2> QED
    BY <1>0, <2>1, <2>2, <2>3 DEF Slot!Next, Slot!Show
<1>4. CASE Blanked
  <2>1. /\ Head(wire) = wire[1] /\ 1 \in 1..Len(wire) /\ wire[1].gen \in Nat
        /\ screen'.gen = 0 /\ floor' = wire[1].gen /\ worker' = worker
    BY <1>0, <1>4, TailFacts, TypeFacts DEF Blanked, Blank
  <2>2. floor <= wire[1].gen /\ screen.gen <= wire[1].gen /\ wire[1].gen <= worker.generation
    BY <1>0, <2>1 DEF WireInRange
  <2> QED
    BY <1>0, <2>1, <2>2 DEF Slot!Next, Slot!Blank
<1>5. CASE SurfaceClosed
  <2>1. /\ screen'.gen = 0 /\ floor' = worker.generation
        /\ worker'.generation = worker.generation
    BY <1>0, <1>5, SleepShape DEF SurfaceClosed, Blank
  <2> QED
    BY <1>0, <2>1 DEF WireInRange, Slot!Next, Slot!Blank
<1> QED
  BY <1>1, <1>2, <1>3, <1>4, <1>5
     DEF Next, Issue, Apply, Configure, Prepared, RenderFailed, PresentFailed, Clear

\* The screen follows the newest request and never goes back: the worker and
\* its layer implement ScreenSlot.
THEOREM NewestWinsAlways == Spec => NewestWins
<1>1. Init => Slot!Init
  BY DEF Init, Slot!Init, NewWorker, Blank
<1> QED
  BY <1>1, SlotStep, Invariance, PTL DEF Spec, NewestWins, Slot!Spec
=============================================================================
