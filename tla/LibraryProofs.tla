--------------------------- MODULE LibraryProofs ---------------------------
(***************************************************************************)
(* Proofs about Library for every set of clients, files and directories,   *)
(* and about Media, the decoders its thumbnails are made with, for every   *)
(* container, cache and number of rewinds.                                 *)
(*                                                                         *)
(* Two arguments are carried along for Library: nothing in the index, on   *)
(* the channel or in the cache is newer than its file, and what is said to *)
(* show a version shows that one or a later one; and a scan that met no    *)
(* trouble has seen, or is still to list, every directory it answers for.  *)
(* For Media: whatever a frame is taken from, the decoder's place in it is *)
(* the number of frames given; what a process has not written, what is in  *)
(* its pipe and what was given make up the container.                      *)
(***************************************************************************)
EXTENDS Library, Media, SequenceTheorems, TLAPS

-----------------------------------------------------------------------------
\* The inductive invariant.

\* A key that names a version the file has had.
Had(key) == key[2] <= disk[key[1]].version

\* No two rows are about one file, and none is ahead of it.
RowsHold == /\ \A r, s \in rows : r.path = s.path => r = s
            /\ \A r \in rows : r.stamp <= disk[r.path].version

\* A thumbnail shows the version in its key or a later one.
CacheHolds == /\ \A k \in Key : cache[k] # 0 => cache[k] >= k[2]
              /\ \A k \in DOMAIN known :
                    known[k] = "cached" => cleared \/ cache[k] >= k[2]

QueueHolds == \A i \in 1..Len(queue) : Had(queue[i].key)
WorkerHolds == /\ worker # Asleep => Had(worker.to.key)
               /\ worker.pc = "write" => worker.shows >= worker.to.key[2]
               /\ worker.pc = "reply" => worker.to.key \in DOMAIN known

\* Every directory there is below a readable root has been listed or will be,
\* unless it is passed over.
Covered(j, d) == \/ PassedOver(d) \/ d \in j.stack
                 \/ Parent[d] \in j.stack /\ dirs[d] # "linked"
                 \/ \A p \in Path \ j.absent : DirOf[p] = d => p \in DOMAIN j.seen
Surveyed(j) == /\ j.readable = {r \in Roots : Exists(r)} /\ j.missing = Roots \ j.readable
               /\ \A d \in Dir : Exists(d) => dirs[d] \in {"ok", "linked"}
               /\ \A d \in Dir : Exists(d) /\ Ancestors(d) \cap j.readable # {} => Covered(j, d)
ScanHolds(c) ==
    At(c, "walk") => /\ library = c
                     /\ \A p \in DOMAIN job[c].seen : job[c].seen[p] <= disk[p].version
                     /\ \A p \in Path \ job[c].absent : ~Lost(p)
                     /\ job[c].trouble = {} => Surveyed(job[c])
AnswerHolds(c) ==
    /\ At(c, "wait") => job[c].stamp = job[c].key[2]
    /\ At(c, "thumbed") => cleared \/ job[c].shows >= job[c].stamp

IInv == /\ TypeOK /\ \A p \in Path : disk[p].version <= edits + 1
        /\ RowsHold /\ CacheHolds /\ QueueHolds /\ WorkerHolds
        /\ \A c \in Client : ScanHolds(c) /\ AnswerHolds(c)

-----------------------------------------------------------------------------
\* Functions on a part of a set.

LEMMA PartialFacts ==
    ASSUME NEW S, NEW T, NEW f \in Partial(S, T)
    PROVE  /\ DOMAIN f \subseteq S /\ f = [x \in DOMAIN f |-> f[x]]
           /\ \A x \in DOMAIN f : f[x] \in T
<1>1. PICK D \in SUBSET S : f \in [D -> T]
  BY DEF Partial
<1> QED
  BY <1>1

LEMMA IsPartial ==
    ASSUME NEW S, NEW T, NEW D \in SUBSET S, NEW f \in [D -> T]
    PROVE  f \in Partial(S, T)
BY DEF Partial

-----------------------------------------------------------------------------
\* What a client and the worker are about.

LEMMA VersionFacts ==
    /\ Version \subseteq Nat /\ Version \subseteq Shows /\ 0 \in Shows /\ 1 \in Version
    /\ \A v \in Version : v # 0
    /\ \A v \in Shows : v # 0 => v \in Version
BY Bounds DEF Version, Shows

LEMMA JobKind ==
    ASSUME TypeOK, NEW c \in Client
    PROVE  /\ At(c, "walk") => job[c] \in Scan
           /\ At(c, "wait") => job[c] \in Wait
           /\ At(c, "thumbed") => job[c] \in Thumbed
           /\ job[c] \notin Scan => ~At(c, "walk")
<1>1. job[c] \in {Idle} \cup Scan \cup Wait \cup Thumbed
  BY DEF TypeOK
<1>2. Idle.pc = "idle"
  BY DEF Idle
<1>3. \A j \in Scan : j.pc = "walk"
  BY DEF Scan
<1>4. \A j \in Wait : j.pc = "wait"
  BY DEF Wait
<1>5. \A j \in Thumbed : j.pc = "thumbed"
  BY DEF Thumbed
<1> QED
  BY <1>1, <1>2, <1>3, <1>4, <1>5 DEF At

LEMMA WorkerKind ==
    ASSUME TypeOK
    PROVE  /\ worker.pc \in {"reply", "decode"} => worker \in Working
           /\ worker.pc = "write" => worker \in Writing
           /\ worker.pc \in {"reply", "decode", "write"} => worker.to \in Asked /\ worker # Asleep
           /\ worker # Asleep => worker.to \in Asked
<1>1. worker \in {Asleep} \cup Working \cup Writing
  BY DEF TypeOK
<1>2. Asleep.pc = "asleep"
  BY DEF Asleep
<1>3. \A w \in Working : w.pc \in {"reply", "decode"} /\ w.to \in Asked
  BY DEF Working
<1>4. \A w \in Writing : w.pc = "write" /\ w.to \in Asked
  BY DEF Writing
<1> QED
  BY <1>1, <1>2, <1>3, <1>4

LEMMA AskedFacts ==
    ASSUME NEW q \in Asked
    PROVE  /\ q.client \in Client /\ q.key \in Key
           /\ q.key[1] \in Path /\ q.key[2] \in Version
BY DEF Asked, Key

\* The client an action is about goes on, the others stay where they are.
LEMMA GoesFacts ==
    ASSUME TypeOK, NEW c \in Client, NEW j, Goes(c, j)
    PROVE  /\ job'[c] = j
           /\ \A b \in Client \ {c} : job'[b] = job[b]
           /\ j \in {Idle} \cup Scan \cup Wait \cup Thumbed =>
                 job' \in [Client -> {Idle} \cup Scan \cup Wait \cup Thumbed]
BY DEF TypeOK, Goes

-----------------------------------------------------------------------------
\* What stays when the files do.

LEMMA ScanStays ==
    ASSUME NEW c \in Client, ScanHolds(c), job'[c] = job[c],
           UNCHANGED <<disk, dirs, library>>
    PROVE  ScanHolds(c)'
<1> DEFINE j == job[c]
<1>1. SUFFICES ASSUME At(c, "walk")' PROVE ScanHolds(c)'
  BY DEF ScanHolds
<1>2. At(c, "walk")
  BY <1>1 DEF At
<1>3. /\ library = c
      /\ \A p \in DOMAIN j.seen : j.seen[p] <= disk[p].version
      /\ \A p \in Path \ j.absent : ~Lost(p)
      /\ j.trouble = {} => Surveyed(j)
  BY <1>2 DEF ScanHolds
<1>4. \A p \in Path \ j.absent : ~Lost(p)'
  BY <1>3 DEF Lost
<1>5. j.trouble = {} => Surveyed(job[c])'
  BY <1>3 DEF Surveyed, Covered, PassedOver, Exists
<1> QED
  BY <1>3, <1>4, <1>5 DEF ScanHolds

LEMMA AnswerStays ==
    ASSUME NEW c \in Client, AnswerHolds(c), job'[c] = job[c], cleared => cleared'
    PROVE  AnswerHolds(c)'
BY DEF AnswerHolds, At

\* A step that touches neither files nor rows.
LEMMA RowsStay ==
    ASSUME RowsHold, UNCHANGED <<disk, rows>>
    PROVE  RowsHold'
BY DEF RowsHold

LEMMA CacheStays ==
    ASSUME CacheHolds, UNCHANGED <<known, cache, cleared>>
    PROVE  CacheHolds'
BY DEF CacheHolds

LEMMA ChannelStays ==
    ASSUME QueueHolds, WorkerHolds, UNCHANGED <<disk, queue, worker, known>>
    PROVE  QueueHolds' /\ WorkerHolds'
BY DEF QueueHolds, WorkerHolds, Had

-----------------------------------------------------------------------------
\* The first state.

LEMMA InitIInv == Init => IInv
<1>1. SUFFICES ASSUME Init PROVE IInv
  OBVIOUS
<1>2. /\ \A p \in Path : disk[p].version = 1 /\ disk[p].there \in BOOLEAN
      /\ disk \in [Path -> [version : {1}, there : BOOLEAN]]
  BY <1>1 DEF Init
<1>3. disk \in [Path -> [version : Version, there : BOOLEAN]]
  BY <1>2, VersionFacts
<1>4. rows \in StoredTables
  BY <1>1 DEF Init
<1>5. PICK S \in SUBSET Path : \E f \in Numberings(S) : rows = {Row(f[p], p, 1) : p \in S}
  BY <1>4 DEF StoredTables
<1>6. PICK f : rows = {Row(f[p], p, 1) : p \in S}
  BY <1>5
<1>7. \A r \in rows : \E p \in S : r = Row(f[p], p, 1)
  BY <1>6
<1>8. \A r \in rows : /\ r.path \in S /\ r.stamp = 1 /\ r.id = f[r.path]
                      /\ r = Row(r.id, r.path, r.stamp)
  BY <1>7 DEF Row
<1>9. RowsHold
  <2>1. \A r, s \in rows : r.path = s.path => r = s
    BY <1>8
  <2>2. \A r \in rows : r.stamp <= disk[r.path].version
    BY <1>2, <1>8
  <2> QED
    BY <2>1, <2>2 DEF RowsHold
<1>10. /\ dirs \in [Dir -> Trouble \cup {"ok", "linked"}] /\ library = Free
       /\ job \in [Client -> {Idle}] /\ queue = << >> /\ worker = Asleep
       /\ known = [k \in {} |-> "cached"] /\ cache = [k \in Key |-> 0]
       /\ cleared = FALSE /\ edits = 0 /\ requests = 0 /\ crashes = 0
  BY <1>1 DEF Init
<1>11. known \in Partial(Key, {"cached", "failed"}) /\ DOMAIN known = {}
  <2>1. known \in [{} -> {"cached", "failed"}]
    BY <1>10
  <2> QED
    BY <2>1, IsPartial
<1>12. cache \in [Key -> Shows] /\ \A k \in Key : cache[k] = 0
  BY <1>10, VersionFacts
<1>13. job \in [Client -> {Idle} \cup Scan \cup Wait \cup Thumbed]
  BY <1>10
<1>14. edits \in 0..MaxEdits /\ requests \in 0..MaxRequests /\ crashes \in 0..MaxCrashes
  BY <1>10, Bounds
<1>15. \A r \in rows : r = Row(r.id, r.path, r.stamp) /\ r.path \in Path /\ r.stamp \in Version
  BY <1>8, VersionFacts
<1>16. queue \in Seq(Asked) /\ Len(queue) = 0
  BY <1>10
<1>17. TypeOK
  BY <1>3, <1>10, <1>11, <1>12, <1>13, <1>14, <1>15, <1>16 DEF TypeOK
<1>18. CacheHolds /\ QueueHolds
  BY <1>11, <1>12, <1>16 DEF CacheHolds, QueueHolds
<1>19. WorkerHolds
  BY <1>10 DEF WorkerHolds, Asleep
<1>20. \A c \in Client : ScanHolds(c) /\ AnswerHolds(c)
  BY <1>10 DEF ScanHolds, AnswerHolds, At, Idle
<1>21. \A p \in Path : disk[p].version <= edits + 1
  BY <1>2, <1>10
<1> QED
  BY <1>9, <1>17, <1>18, <1>19, <1>20, <1>21 DEF IInv

-----------------------------------------------------------------------------
\* Scans.

LEMMA AskFacts ==
    ASSUME IInv, NEW c \in Client, Ask(c)
    PROVE  requests' \in 0..MaxRequests
BY Bounds DEF Ask, IInv, TypeOK

\* With the lock free nobody scans.
LEMMA NobodyScans ==
    ASSUME IInv, library = Free, NEW c \in Client
    PROVE  ~At(c, "walk")
BY NobodyIsFree DEF IInv, ScanHolds

LEMMA OnlyScan ==
    ASSUME IInv, NEW c \in Client, At(c, "walk"), NEW b \in Client \ {c}
    PROVE  ~At(b, "walk")
BY DEF IInv, ScanHolds

LEMMA CheckRootsKeeps ==
    ASSUME IInv, NEW c \in Client, CheckRoots(c)
    PROVE  IInv'
<1> DEFINE readable == {r \in Roots : Exists(r)}
           k == [pc |-> "walk", readable |-> readable, missing |-> Roots \ readable,
                 stack |-> {r \in readable : (Ancestors(r) \ {r}) \cap readable = {}},
                 seen |-> [p \in {} |-> 0], unreadable |-> {},
                 absent |-> {p \in Path : Lost(p)},
                 trouble |-> {d \in Dir : Exists(d) /\ dirs[d] \in Trouble}]
<1>1. /\ Ask(c) /\ library = Free /\ library' = c /\ Goes(c, k)
      /\ UNCHANGED <<disk, dirs, cleared, rows, queue, worker, known, cache, edits, crashes>>
  BY DEF CheckRoots, Ask, people, thumbs
<1>2. k \in Scan
  <2>1. readable \subseteq Roots /\ Roots \subseteq Dir
    BY Layout DEF Layout
  <2>2. [p \in {} |-> 0] \in [{} -> Version]
    OBVIOUS
  <2>3. [p \in {} |-> 0] \in Partial(Path, Version)
    BY <2>2, IsPartial
  <2> HIDE DEF readable
  <2> QED
    BY <2>1, <2>3 DEF Scan
<1>3. /\ k.pc = "walk" /\ k.readable = readable /\ k.missing = Roots \ readable
      /\ k.stack = {r \in readable : (Ancestors(r) \ {r}) \cap readable = {}}
      /\ DOMAIN k.seen = {}
      /\ k.absent = {p \in Path : Lost(p)}
      /\ k.trouble = {d \in Dir : Exists(d) /\ dirs[d] \in Trouble}
  OBVIOUS
<1> HIDE DEF k
<1>4. PICK j \in Scan : j = k
  BY <1>2
<1>5. ASSUME j.trouble = {}
      PROVE  Surveyed(j)
  <2>1. j.readable = {r \in Roots : Exists(r)} /\ j.missing = Roots \ j.readable
    BY <1>3, <1>4
  <2>2. \A d \in Dir : Exists(d) => dirs[d] \in {"ok", "linked"}
    <3>1. \A d \in Dir : dirs[d] \in Trouble \cup {"ok", "linked"}
      BY DEF IInv, TypeOK
    <3> QED
      BY <1>3, <1>4, <1>5, <3>1
  <2>3. ASSUME NEW d \in Dir, Exists(d), Ancestors(d) \cap j.readable # {}
        PROVE  Covered(j, d)
    <3>1. PICK a \in Ancestors(d) : a \in j.readable
      BY <2>3
    <3>2. ASSUME NEW r \in j.readable, Ancestors(r) = {r}
          PROVE  r \in j.stack
      BY <1>3, <1>4, <3>2
    <3>3. CASE Parent[d] = NoDir
      <4>1. Ancestors(d) = {d}
        BY <3>3 DEF Ancestors
      <4> QED
        BY <3>1, <3>2, <4>1 DEF Covered
    <3>4. CASE Parent[d] # NoDir
      <4>1. Ancestors(d) = {d, Parent[d]} /\ Ancestors(Parent[d]) = {Parent[d]}
        BY <3>4, Layout DEF Layout, Ancestors
      <4>2. CASE Parent[d] \in j.readable
        <5>1. Parent[d] \in Roots
          BY <2>1, <4>2
        <5> QED
          BY <3>2, <4>1, <4>2, <5>1 DEF Covered, PassedOver
      <4>3. CASE Parent[d] \notin j.readable
        <5>1. d \in j.readable /\ (Ancestors(d) \ {d}) \cap j.readable = {}
          BY <3>1, <4>1, <4>3
        <5>2. d \in j.stack
          BY <1>3, <1>4, <5>1
        <5> QED
          BY <5>2 DEF Covered
      <4> QED
        BY <4>2, <4>3
    <3> QED
      BY <3>3, <3>4
  <2> QED
    BY <2>1, <2>2, <2>3 DEF Surveyed
<1>6. /\ job'[c] = j /\ \A b \in Client \ {c} : job'[b] = job[b]
      /\ job' \in [Client -> {Idle} \cup Scan \cup Wait \cup Thumbed]
  BY <1>1, <1>4, GoesFacts DEF IInv
<1>7. TypeOK'
  BY <1>1, <1>6, AskFacts DEF IInv, TypeOK
<1>8. ScanHolds(c)'
  <2>1. \A p \in Path \ j.absent : ~Lost(p)
    BY <1>3, <1>4
  <2>2. \A p \in Path \ j.absent : ~Lost(p)'
    BY <1>1, <2>1 DEF Lost
  <2>3. j.trouble = {} => Surveyed(j)'
    BY <1>1, <1>5 DEF Surveyed, Covered, PassedOver, Exists
  <2>4. DOMAIN j.seen = {}
    BY <1>3, <1>4
  <2> QED
    BY <1>1, <1>6, <2>2, <2>3, <2>4 DEF ScanHolds
<1>9. AnswerHolds(c)'
  BY <1>3, <1>4, <1>6 DEF AnswerHolds, At
<1>10. ASSUME NEW b \in Client \ {c}
       PROVE  ScanHolds(b)' /\ AnswerHolds(b)'
  <2>1. ~At(b, "walk") /\ AnswerHolds(b)
    BY <1>1, NobodyScans DEF IInv
  <2>2. ~At(b, "walk")' /\ AnswerHolds(b)'
    BY <1>1, <1>6, <2>1, AnswerStays DEF At
  <2> QED
    BY <2>2 DEF ScanHolds
<1>11. RowsHold' /\ CacheHolds' /\ QueueHolds' /\ WorkerHolds'
  BY <1>1, RowsStay, CacheStays, ChannelStays DEF IInv
<1> QED
  BY <1>1, <1>7, <1>8, <1>9, <1>10, <1>11 DEF IInv

\* A directory above one that is there is there itself.
LEMMA ParentThere ==
    ASSUME NEW d \in Dir, Exists(d), Parent[d] # NoDir
    PROVE  Parent[d] \in Dir /\ Exists(Parent[d])
BY Layout DEF Layout, Exists, Ancestors

\* The directory x has been listed, or cannot be.
LEMMA Surveys ==
    ASSUME NEW j \in Scan, Surveyed(j), NEW k \in Scan, NEW x \in j.stack,
           k.readable = j.readable, k.missing = j.missing, k.absent = j.absent,
           \A p \in Path \ j.absent : ~Lost(p),
           j.stack \ {x} \subseteq k.stack, DOMAIN j.seen \subseteq DOMAIN k.seen,
           Listable(x) => /\ \A p \in Path : DirOf[p] = x /\ There(p) => p \in DOMAIN k.seen
                          /\ \A d \in Dir : Parent[d] = x /\ Exists(d) /\ dirs[d] # "linked"
                                => d \in k.stack
    PROVE  Surveyed(k)
<1>1. x \in Dir
  BY DEF Scan
<1>2. /\ j.readable = {r \in Roots : Exists(r)} /\ j.missing = Roots \ j.readable
      /\ \A d \in Dir : Exists(d) => dirs[d] \in {"ok", "linked"}
      /\ \A d \in Dir : Exists(d) /\ Ancestors(d) \cap j.readable # {} => Covered(j, d)
  BY DEF Surveyed
<1>3. Exists(x) => Listable(x)
  BY <1>1, <1>2 DEF Listable
<1>4. ASSUME NEW d \in Dir, Exists(d), Ancestors(d) \cap j.readable # {}
      PROVE  Covered(k, d)
  <2>1. Covered(j, d)
    BY <1>2, <1>4
  <2>2. CASE d = x
    <3>1. ASSUME NEW p \in Path \ j.absent, DirOf[p] = d
          PROVE  p \in DOMAIN k.seen
      <4>1. disk[p].there
        BY <3>1 DEF Lost
      <4>2. There(p)
        BY <1>2, <1>4, <3>1, <4>1 DEF There
      <4> QED
        BY <1>3, <1>4, <2>2, <3>1, <4>2
    <3> QED
      BY <3>1 DEF Covered
  <2>3. CASE d # x /\ d \in j.stack
    BY <2>3 DEF Covered
  <2>4. CASE d # x /\ Parent[d] \in j.stack /\ dirs[d] # "linked"
    <3>1. Parent[d] # x => Parent[d] \in k.stack
      BY <2>4
    <3>2. Parent[d] = x => d \in k.stack
      <4>1. SUFFICES ASSUME Parent[d] = x PROVE d \in k.stack
        OBVIOUS
      <4>2. Parent[d] # NoDir
        BY <1>1, <4>1, Layout DEF Layout
      <4>3. Listable(x)
        BY <1>3, <1>4, <4>1, <4>2, ParentThere
      <4> QED
        BY <1>4, <2>4, <4>1, <4>3
    <3> QED
      BY <2>4, <3>1, <3>2 DEF Covered
  <2>5. CASE \A p \in Path \ j.absent : DirOf[p] = d => p \in DOMAIN j.seen
    BY <2>5 DEF Covered
  <2>6. CASE PassedOver(d)
    BY <2>6 DEF Covered
  <2> QED
    BY <2>1, <2>2, <2>3, <2>4, <2>5, <2>6 DEF Covered
<1> QED
  BY <1>2, <1>4 DEF Surveyed

\* What the walk of one directory leaves of a scan: it found all there is, unless
\* there was trouble.
FoundOrKept(j, seen, p) == \/ seen[p] = disk[p].version
                           \/ p \in DOMAIN j.seen /\ seen[p] = j.seen[p]
Advances(j, x, k) ==
    /\ k.readable = j.readable /\ k.missing = j.missing /\ k.absent = j.absent
    /\ k.trouble = {} => j.trouble = {}
    /\ j.stack \ {x} \subseteq k.stack /\ DOMAIN j.seen \subseteq DOMAIN k.seen
    /\ \A p \in DOMAIN k.seen : p \in Path /\ FoundOrKept(j, k.seen, p)
    /\ Listable(x) /\ k.trouble = {} => FilesIn(x) \subseteq DOMAIN k.seen
                                        /\ SubsOf(x) \subseteq k.stack

LEMMA ScanFacts ==
    ASSUME NEW j \in Scan
    PROVE  /\ j.stack \subseteq Dir /\ j.unreadable \subseteq Dir /\ j.trouble \subseteq Dir
           /\ j.seen \in Partial(Path, Version) /\ DOMAIN j.seen \subseteq Path
           /\ \A p \in DOMAIN j.seen : j.seen[p] \in Version
<1>1. j.seen \in Partial(Path, Version)
  BY DEF Scan
<1> QED
  BY <1>1, PartialFacts DEF Scan

LEMMA ListedAdvances ==
    ASSUME TypeOK, NEW j \in Scan, NEW x \in j.stack, NEW failed
    PROVE  Listed(j, x, failed) \in Scan /\ Advances(j, x, Listed(j, x, failed))
<1> DEFINE found == FilesIn(x) \ failed
           subs == SubsOf(x) \ failed
           seen == [p \in DOMAIN j.seen \cup found |->
                       IF p \in found THEN disk[p].version ELSE j.seen[p]]
           trouble == IF failed = {} THEN j.trouble ELSE j.trouble \cup {x}
           k == Listed(j, x, failed)
<1>1. /\ x \in Dir /\ found \subseteq Path /\ subs \subseteq Dir /\ trouble \subseteq Dir
  BY ScanFacts DEF FilesIn, SubsOf
<1>2. /\ found \subseteq FilesIn(x)
      /\ trouble = {} => /\ j.trouble = {} /\ found = FilesIn(x) /\ subs = SubsOf(x)
  OBVIOUS
<1>3. k = [j EXCEPT !.stack = (j.stack \ {x}) \cup subs, !.seen = seen, !.trouble = trouble]
  BY Zenon DEF Listed
<1> HIDE DEF found, subs, trouble, k
<1>4. /\ seen \in Partial(Path, Version) /\ DOMAIN seen = DOMAIN j.seen \cup found
      /\ \A p \in DOMAIN seen : seen[p] = IF p \in found THEN disk[p].version ELSE j.seen[p]
  <2>1. \A p \in found : disk[p].version \in Version
    BY <1>1 DEF TypeOK
  <2>2. DOMAIN j.seen \cup found \in SUBSET Path
    BY <1>1, ScanFacts
  <2>3. seen \in [DOMAIN j.seen \cup found -> Version]
    BY <2>1, ScanFacts
  <2> QED
    BY <2>2, <2>3, IsPartial
<1> HIDE DEF seen
<1>5. /\ k \in Scan /\ k.readable = j.readable /\ k.missing = j.missing
      /\ k.absent = j.absent /\ k.trouble = trouble
      /\ k.stack = (j.stack \ {x}) \cup subs /\ k.seen = seen
  BY <1>1, <1>3, <1>4, ScanFacts DEF Scan
<1>6. ASSUME NEW p \in DOMAIN seen
      PROVE  p \in Path /\ FoundOrKept(j, seen, p)
  <2>1. p \in DOMAIN j.seen \/ p \in found
    BY <1>4, <1>6
  <2>2. p \in Path
    BY <1>1, <2>1, ScanFacts
  <2>3. seen[p] = IF p \in found THEN disk[p].version ELSE j.seen[p]
    BY <1>4, <1>6
  <2> QED
    BY <2>1, <2>2, <2>3 DEF FoundOrKept
<1>7. trouble = {} => FilesIn(x) \subseteq DOMAIN seen /\ SubsOf(x) \subseteq k.stack
  BY <1>2, <1>4, <1>5
<1>8. Advances(j, x, k)
  BY <1>2, <1>4, <1>5, <1>6, <1>7 DEF Advances
<1> QED
  BY <1>5, <1>8 DEF k

LEMMA UnlistedAdvances ==
    ASSUME NEW j \in Scan, NEW x \in j.stack, ~Listable(x)
    PROVE  LET k == [j EXCEPT !.stack = j.stack \ {x}, !.unreadable = j.unreadable \cup {x}] IN
           k \in Scan /\ Advances(j, x, k)
<1> DEFINE k == [j EXCEPT !.stack = j.stack \ {x}, !.unreadable = j.unreadable \cup {x}]
<1>1. x \in Dir /\ j.stack \subseteq Dir /\ j.unreadable \subseteq Dir
  BY ScanFacts
<1>2. /\ k \in Scan /\ k.readable = j.readable /\ k.missing = j.missing
      /\ k.absent = j.absent /\ k.trouble = j.trouble
      /\ k.stack = j.stack \ {x} /\ k.seen = j.seen
  BY <1>1 DEF Scan
<1> HIDE DEF k
<1>3. Advances(j, x, k)
  BY <1>2, ScanFacts DEF Advances, FoundOrKept
<1> QED
  BY <1>2, <1>3 DEF k

LEMMA WalkKeeps ==
    ASSUME IInv, NEW c \in Client, Walk(c)
    PROVE  IInv'
<1>1. /\ At(c, "walk")
      /\ UNCHANGED <<disk, dirs, cleared, rows, library, queue, worker, known, cache, edits,
                     requests, crashes>>
  BY DEF Walk, people, thumbs
<1>2. TypeOK
  BY DEF IInv
<1>3. PICK j \in Scan : j = job[c]
  BY <1>1, <1>2, JobKind
<1>4. PICK x \in j.stack :
         \/ /\ Listable(x)
            /\ \E failed \in SUBSET (FilesIn(x) \cup SubsOf(x)) : Goes(c, Listed(j, x, failed))
         \/ /\ ~Listable(x)
            /\ Goes(c, [j EXCEPT !.stack = j.stack \ {x}, !.unreadable = j.unreadable \cup {x}])
  BY <1>3, Zenon DEF Walk
<1>5. \E k \in Scan : Goes(c, k) /\ Advances(j, x, k)
  <2>1. CASE Listable(x)
    <3>1. PICK failed : Goes(c, Listed(j, x, failed))
      BY <1>4, <2>1
    <3> QED
      BY <1>2, <3>1, ListedAdvances
  <2>2. CASE ~Listable(x)
    BY <1>4, <2>2, UnlistedAdvances
  <2> QED
    BY <2>1, <2>2
<1>6. PICK k \in Scan : Goes(c, k) /\ Advances(j, x, k)
  BY <1>5
<1>7. /\ job'[c] = k /\ \A b \in Client \ {c} : job'[b] = job[b]
      /\ job' \in [Client -> {Idle} \cup Scan \cup Wait \cup Thumbed]
  BY <1>2, <1>6, GoesFacts
<1>8. TypeOK'
  BY <1>1, <1>2, <1>7 DEF TypeOK
<1>9. /\ library = c
      /\ \A p \in DOMAIN j.seen : j.seen[p] <= disk[p].version
      /\ \A p \in Path \ j.absent : ~Lost(p)
      /\ j.trouble = {} => Surveyed(j)
  BY <1>1, <1>3 DEF IInv, ScanHolds
<1>10. \A p \in DOMAIN k.seen : k.seen[p] <= disk[p].version
  <2>1. \A p \in Path : disk[p].version \in Nat
    BY <1>2, VersionFacts DEF TypeOK
  <2> QED
    BY <1>6, <1>9, <2>1 DEF Advances, FoundOrKept
<1>11. ASSUME k.trouble = {}
       PROVE  Surveyed(k)
  <2>1. Listable(x) => /\ \A p \in Path : DirOf[p] = x /\ There(p) => p \in DOMAIN k.seen
                       /\ \A d \in Dir : Parent[d] = x /\ Exists(d) /\ dirs[d] # "linked"
                             => d \in k.stack
    BY <1>6, <1>11 DEF Advances, FilesIn, SubsOf
  <2>2. /\ k.readable = j.readable /\ k.missing = j.missing /\ k.absent = j.absent
        /\ j.trouble = {} /\ j.stack \ {x} \subseteq k.stack
        /\ DOMAIN j.seen \subseteq DOMAIN k.seen
    BY <1>6, <1>11 DEF Advances
  <2> QED
    BY <1>9, <2>1, <2>2, Surveys
<1>12. ScanHolds(c)'
  <2>1. \A p \in Path \ k.absent : ~Lost(p)'
    BY <1>1, <1>6, <1>9 DEF Lost, Advances
  <2>2. k.trouble = {} => Surveyed(k)'
    BY <1>1, <1>11 DEF Surveyed, Covered, PassedOver, Exists
  <2> QED
    BY <1>1, <1>7, <1>9, <1>10, <2>1, <2>2 DEF ScanHolds
<1>13. AnswerHolds(c)'
  <2>1. k.pc = "walk"
    BY DEF Scan
  <2> QED
    BY <1>7, <2>1 DEF AnswerHolds, At
<1>14. ASSUME NEW b \in Client \ {c}
       PROVE  ScanHolds(b)' /\ AnswerHolds(b)'
  BY <1>1, <1>7, ScanStays, AnswerStays DEF IInv
<1>15. RowsHold' /\ CacheHolds' /\ QueueHolds' /\ WorkerHolds'
  BY <1>1, RowsStay, CacheStays, ChannelStays DEF IInv
<1> QED
  BY <1>1, <1>8, <1>12, <1>13, <1>14, <1>15 DEF IInv

-----------------------------------------------------------------------------
\* What a commit does to the rows.

\* A row of before, brought up to date, or one for a file that had none.
Kept(scan, s) == \E r \in rows : /\ r.path \notin GonePaths(scan)
                                 /\ s.id = r.id /\ s.path = r.path
                                 /\ s.stamp = IF r.path \in DOMAIN scan.seen
                                              THEN scan.seen[r.path] ELSE r.stamp
New(scan, s) == /\ s.path \in DOMAIN scan.seen \ Indexed(rows)
                /\ s.stamp = scan.seen[s.path]

LEMMA CommitFacts ==
    ASSUME TypeOK, RowsHold, NEW scan \in Scan, rows' \in Commits(scan)
    PROVE  /\ \A s \in rows' : /\ s = Row(s.id, s.path, s.stamp)
                               /\ Kept(scan, s) \/ New(scan, s)
           /\ \A r, s \in rows' : r.path = s.path => r = s
           /\ Indexed(rows) \ Indexed(rows') \subseteq GonePaths(scan)
<1> DEFINE new == DOMAIN scan.seen \ Indexed(rows)
           seen == scan.seen
           gone == GonePaths(scan)
           After(r) == IF r.path \in DOMAIN seen THEN [r EXCEPT !.stamp = seen[r.path]] ELSE r
<1>1. PICK f \in Numberings(new) :
         rows' = {r \in Updated(rows, seen) : r.path \notin gone}
                    \cup {Row(Largest(rows) + f[p], p, seen[p]) : p \in new}
  BY Zenon DEF Commits
<1> DEFINE kept == {r \in Updated(rows, seen) : r.path \notin gone}
           added == {Row(Largest(rows) + f[p], p, seen[p]) : p \in new}
<1>2. \A r \in rows : r = Row(r.id, r.path, r.stamp)
  BY DEF TypeOK
<1>3. ASSUME NEW r \in rows
      PROVE  /\ After(r).id = r.id /\ After(r).path = r.path
             /\ After(r).stamp = IF r.path \in DOMAIN seen THEN seen[r.path] ELSE r.stamp
             /\ After(r) = Row(After(r).id, After(r).path, After(r).stamp)
  <2>1. r = [id |-> r.id, path |-> r.path, stamp |-> r.stamp]
    BY <1>2 DEF Row
  <2>2. CASE r.path \in DOMAIN seen
    <3>1. After(r) = [id |-> r.id, path |-> r.path, stamp |-> seen[r.path]]
      BY <2>1, <2>2
    <3> QED
      BY <3>1, <2>2 DEF Row
  <2>3. CASE r.path \notin DOMAIN seen
    BY <2>1, <2>3 DEF Row
  <2> QED
    BY <2>2, <2>3
<1>4. Updated(rows, seen) = {After(r) : r \in rows}
  BY DEF Updated
<1> HIDE DEF After
<1>5. ASSUME NEW s \in kept
      PROVE  \E r \in rows : s = After(r) /\ r.path \notin gone
  <2>1. PICK r \in rows : s = After(r)
    BY <1>4, <1>5
  <2> QED
    BY <1>3, <1>5, <2>1
<1>6. ASSUME NEW s \in added
      PROVE  \E p \in new : /\ s.path = p /\ s.stamp = seen[p] /\ s.id = Largest(rows) + f[p]
                            /\ s = Row(s.id, s.path, s.stamp)
  <2>1. PICK p \in new : s = Row(Largest(rows) + f[p], p, seen[p])
    BY <1>6
  <2> QED
    BY <2>1 DEF Row
<1>7. rows' = kept \cup added
  BY <1>1
<1> HIDE DEF kept, added
<1>8. \A s \in kept : Kept(scan, s) /\ s = Row(s.id, s.path, s.stamp) /\ s.path \in Indexed(rows)
  BY <1>3, <1>5 DEF Kept, Indexed
<1>9. \A s \in added : New(scan, s) /\ s = Row(s.id, s.path, s.stamp) /\ s.path \notin Indexed(rows)
  BY <1>6 DEF New
<1>10. ASSUME NEW r \in rows', NEW s \in rows', r.path = s.path
       PROVE  r = s
  <2>1. CASE r \in kept /\ s \in kept
    <3>1. PICK a \in rows : r = After(a)
      BY <1>5, <2>1
    <3>2. PICK b \in rows : s = After(b)
      BY <1>5, <2>1
    <3>3. a.path = b.path
      BY <1>3, <1>10, <3>1, <3>2
    <3>4. a = b
      BY <3>3 DEF RowsHold
    <3> QED
      BY <3>1, <3>2, <3>4
  <2>2. CASE r \in added /\ s \in added
    <3>1. PICK a \in new : /\ r.path = a /\ r.stamp = seen[a] /\ r.id = Largest(rows) + f[a]
                           /\ r = Row(r.id, r.path, r.stamp)
      BY <1>6, <2>2
    <3>2. PICK b \in new : /\ s.path = b /\ s.stamp = seen[b] /\ s.id = Largest(rows) + f[b]
                           /\ s = Row(s.id, s.path, s.stamp)
      BY <1>6, <2>2
    <3>3. a = b
      BY <1>10, <3>1, <3>2
    <3> QED
      BY <3>1, <3>2, <3>3
  <2> QED
    BY <1>7, <1>8, <1>9, <1>10, <2>1, <2>2
<1>11. Indexed(rows) \ Indexed(rows') \subseteq gone
  <2>1. ASSUME NEW r \in rows, r.path \notin gone
        PROVE  r.path \in Indexed(rows')
    <3>1. After(r) \in Updated(rows, seen) /\ After(r).path = r.path
      BY <1>3, <1>4
    <3>2. After(r) \in kept
      BY <2>1, <3>1 DEF kept
    <3> QED
      BY <1>7, <3>1, <3>2 DEF Indexed
  <2> QED
    BY <2>1 DEF Indexed
<1> QED
  BY <1>7, <1>8, <1>9, <1>10, <1>11

LEMMA CommitKeeps ==
    ASSUME IInv, NEW c \in Client, Commit(c)
    PROVE  IInv'
<1>1. /\ At(c, "walk") /\ rows' \in Commits(job[c]) /\ library' = Free /\ Goes(c, Idle)
      /\ UNCHANGED <<disk, dirs, cleared, queue, worker, known, cache, edits, requests, crashes>>
  BY DEF Commit, people, thumbs
<1>2. TypeOK /\ RowsHold
  BY DEF IInv
<1>3. PICK j \in Scan : j = job[c]
  BY <1>1, <1>2, JobKind
<1>4. /\ \A s \in rows' : /\ s = Row(s.id, s.path, s.stamp)
                          /\ Kept(j, s) \/ New(j, s)
      /\ \A r, s \in rows' : r.path = s.path => r = s
  BY <1>1, <1>2, <1>3, CommitFacts
<1>5. /\ DOMAIN j.seen \subseteq Path /\ \A p \in DOMAIN j.seen : j.seen[p] \in Version
      /\ \A p \in DOMAIN j.seen : j.seen[p] <= disk[p].version
  <2>1. j.seen \in Partial(Path, Version)
    BY DEF Scan
  <2> QED
    BY <1>1, <1>3, <2>1, PartialFacts DEF IInv, ScanHolds
<1>6. ASSUME NEW s \in rows'
      PROVE  s.path \in Path /\ s.stamp \in Version /\ s.stamp <= disk[s.path].version
  <2>1. CASE Kept(j, s)
    <3>1. PICK r \in rows : /\ s.path = r.path
                            /\ s.stamp = IF r.path \in DOMAIN j.seen
                                         THEN j.seen[r.path] ELSE r.stamp
      BY <2>1 DEF Kept
    <3>2. r.path \in Path /\ r.stamp \in Version /\ r.stamp <= disk[r.path].version
      BY <1>2 DEF TypeOK, RowsHold
    <3> QED
      BY <1>5, <3>1, <3>2
  <2>2. CASE New(j, s)
    BY <1>5, <2>2 DEF New
  <2> QED
    BY <1>4, <2>1, <2>2
<1>7. /\ job'[c] = Idle /\ \A b \in Client \ {c} : job'[b] = job[b]
      /\ job' \in [Client -> {Idle} \cup Scan \cup Wait \cup Thumbed]
  BY <1>1, <1>2, GoesFacts
<1>8. TypeOK'
  BY <1>1, <1>2, <1>4, <1>6, <1>7 DEF TypeOK
<1>9. RowsHold'
  BY <1>1, <1>4, <1>6 DEF RowsHold
<1>10. ScanHolds(c)' /\ AnswerHolds(c)'
  BY <1>7 DEF ScanHolds, AnswerHolds, At, Idle
<1>11. ASSUME NEW b \in Client \ {c}
       PROVE  ScanHolds(b)' /\ AnswerHolds(b)'
  <2>1. ~At(b, "walk") /\ AnswerHolds(b)
    BY <1>1, OnlyScan DEF IInv
  <2>2. ~At(b, "walk")' /\ AnswerHolds(b)'
    BY <1>1, <1>7, <2>1, AnswerStays DEF At
  <2> QED
    BY <2>2 DEF ScanHolds
<1>12. CacheHolds' /\ QueueHolds' /\ WorkerHolds'
  BY <1>1, CacheStays, ChannelStays DEF IInv
<1> QED
  BY <1>1, <1>8, <1>9, <1>10, <1>11, <1>12 DEF IInv

-----------------------------------------------------------------------------
\* Thumbnails are asked for and taken.

LEMMA ThumbKeeps ==
    ASSUME IInv, NEW c \in Client, Thumb(c)
    PROVE  IInv'
<1>1. PICK r \in rows :
         /\ Goes(c, [pc |-> "wait", key |-> <<r.path, r.stamp>>, stamp |-> r.stamp])
         /\ queue' = Append(queue, [client |-> c, key |-> <<r.path, r.stamp>>])
  BY DEF Thumb, CacheKey
<1>2. /\ Ask(c)
      /\ UNCHANGED <<disk, dirs, cleared, rows, library, worker, known, cache, edits, crashes>>
  BY DEF Thumb, people
<1>3. TypeOK
  BY DEF IInv
<1>4. r.path \in Path /\ r.stamp \in Version /\ r.stamp <= disk[r.path].version
  BY <1>3 DEF TypeOK, IInv, RowsHold
<1> DEFINE k == [pc |-> "wait", key |-> <<r.path, r.stamp>>, stamp |-> r.stamp]
           q == [client |-> c, key |-> <<r.path, r.stamp>>]
<1>5. k \in Wait /\ k.pc = "wait" /\ k.key[2] = k.stamp
  BY <1>4 DEF Wait, Key
<1>6. q \in Asked /\ Had(q.key)
  BY <1>4 DEF Asked, Key, Had
<1>7. queue \in Seq(Asked)
  BY <1>3 DEF TypeOK
<1> HIDE DEF k, q
<1>8. /\ job'[c] = k /\ \A b \in Client \ {c} : job'[b] = job[b]
      /\ job' \in [Client -> {Idle} \cup Scan \cup Wait \cup Thumbed]
  BY <1>1, <1>3, <1>5, GoesFacts DEF k
<1>9. queue' = Append(queue, q)
  BY <1>1 DEF q
<1>10. /\ queue' \in Seq(Asked) /\ Len(queue') = Len(queue) + 1
       /\ \A i \in 1..Len(queue) : queue'[i] = queue[i]
       /\ queue'[Len(queue) + 1] = q
  BY <1>6, <1>7, <1>9
<1>11. TypeOK'
  BY <1>2, <1>3, <1>8, <1>10, AskFacts DEF TypeOK
<1>12. QueueHolds'
  <2>1. ASSUME NEW i \in 1..Len(queue')
        PROVE  Had(queue'[i].key)
    <3>1. Len(queue) \in Nat
      BY <1>7
    <3>2. i \in 1..Len(queue) \/ i = Len(queue) + 1
      BY <1>10, <3>1
    <3> QED
      BY <1>6, <1>10, <3>2 DEF IInv, QueueHolds
  <2> QED
    BY <1>2, <2>1 DEF QueueHolds, Had
<1>13. WorkerHolds'
  BY <1>2 DEF IInv, WorkerHolds, Had
<1>14. ScanHolds(c)' /\ AnswerHolds(c)'
  BY <1>5, <1>8 DEF ScanHolds, AnswerHolds, At
<1>15. ASSUME NEW b \in Client \ {c}
       PROVE  ScanHolds(b)' /\ AnswerHolds(b)'
  BY <1>2, <1>8, ScanStays, AnswerStays DEF IInv
<1>16. RowsHold' /\ CacheHolds'
  BY <1>2, RowsStay, CacheStays DEF IInv
<1> QED
  BY <1>2, <1>11, <1>12, <1>13, <1>14, <1>15, <1>16 DEF IInv

\* The client is done, with an answer or without.
LEMMA IdleKeeps ==
    ASSUME IInv, NEW c \in Client, Goes(c, Idle), ~At(c, "walk"),
           UNCHANGED <<people, rows, library, thumbs, edits, requests, crashes>>
    PROVE  IInv'
<1>1. UNCHANGED <<disk, dirs, cleared, rows, library, queue, worker, known, cache, edits,
                  requests, crashes>>
  BY DEF people, thumbs
<1>2. TypeOK
  BY DEF IInv
<1>3. /\ job'[c] = Idle /\ \A b \in Client \ {c} : job'[b] = job[b]
      /\ job' \in [Client -> {Idle} \cup Scan \cup Wait \cup Thumbed]
  BY <1>2, GoesFacts
<1>4. TypeOK'
  BY <1>1, <1>2, <1>3 DEF TypeOK
<1>5. ScanHolds(c)' /\ AnswerHolds(c)'
  BY <1>3 DEF ScanHolds, AnswerHolds, At, Idle
<1>6. ASSUME NEW b \in Client \ {c}
      PROVE  ScanHolds(b)' /\ AnswerHolds(b)'
  BY <1>1, <1>3, ScanStays, AnswerStays DEF IInv
<1>7. RowsHold' /\ CacheHolds' /\ QueueHolds' /\ WorkerHolds'
  BY <1>1, RowsStay, CacheStays, ChannelStays DEF IInv
<1> QED
  BY <1>1, <1>4, <1>5, <1>6, <1>7 DEF IInv

-----------------------------------------------------------------------------
\* The worker.

\* What the worker leaves alone when it touches no client.
LEMMA WorkerStep ==
    ASSUME IInv, TypeOK', CacheHolds', QueueHolds', WorkerHolds', UNCHANGED <<books, job>>
    PROVE  IInv'
<1>1. UNCHANGED <<disk, dirs, cleared, rows, library, edits, requests, crashes, job>>
  BY DEF books, people
<1>2. \A c \in Client : ScanHolds(c)' /\ AnswerHolds(c)'
  BY <1>1, ScanStays, AnswerStays DEF IInv
<1>3. RowsHold'
  BY <1>1, RowsStay DEF IInv
<1> QED
  BY <1>1, <1>2, <1>3 DEF IInv

\* A key gets an answer.
LEMMA KnownFacts ==
    ASSUME TypeOK, NEW key \in Key, NEW decision \in {"cached", "failed"},
           known' = [k \in DOMAIN known \cup {key} |-> IF k = key THEN decision ELSE known[k]]
    PROVE  /\ known' \in Partial(Key, {"cached", "failed"})
           /\ DOMAIN known' = DOMAIN known \cup {key} /\ DOMAIN known \subseteq Key
           /\ known'[key] = decision
           /\ \A k \in DOMAIN known \ {key} : known'[k] = known[k]
<1>1. /\ DOMAIN known \subseteq Key
      /\ \A k \in DOMAIN known : known[k] \in {"cached", "failed"}
  BY PartialFacts DEF TypeOK
<1>2. DOMAIN known \cup {key} \in SUBSET Key
  BY <1>1
<1>3. known' \in [DOMAIN known \cup {key} -> {"cached", "failed"}]
  BY <1>1
<1> QED
  BY <1>1, <1>2, <1>3, IsPartial

LEMMA DecideKeeps ==
    ASSUME IInv, Decide
    PROVE  IInv'
<1> DEFINE q == Head(queue)
<1>1. /\ worker = Asleep /\ queue # << >> /\ queue' = Tail(queue)
      /\ UNCHANGED <<books, job, cache>>
  BY DEF Decide
<1>2. TypeOK /\ CacheHolds /\ QueueHolds
  BY DEF IInv
<1>3. queue \in Seq(Asked)
  BY <1>2 DEF TypeOK
<1>4. /\ q \in Asked /\ q = queue[1] /\ Len(queue) \in Nat \ {0}
      /\ queue' \in Seq(Asked) /\ Len(queue') = Len(queue) - 1
      /\ \A i \in 1..(Len(queue) - 1) : queue'[i] = queue[i + 1]
  BY <1>1, <1>3, HeadTailProperties, LenProperties, EmptySeq, ElementOfSeq
<1>5. Had(q.key) /\ q.key \in Key
  BY <1>2, <1>4, AskedFacts DEF QueueHolds
<1>6. UNCHANGED <<disk, dirs, cleared, rows, library, edits, requests, crashes>>
  BY <1>1 DEF books, people
<1>7. QueueHolds'
  <2>1. ASSUME NEW i \in 1..Len(queue')
        PROVE  Had(queue'[i].key)
    <3>1. i \in 1..(Len(queue) - 1) /\ i + 1 \in 1..Len(queue)
      BY <1>4
    <3> QED
      BY <1>2, <1>4, <3>1 DEF QueueHolds
  <2> QED
    BY <1>6, <2>1 DEF QueueHolds, Had
<1>8. /\ [pc |-> "reply", to |-> q] \in Working
      /\ [pc |-> "decode", to |-> q] \in Working
  BY <1>4 DEF Working
<1>9. CASE worker' = [pc |-> "reply", to |-> q] /\ known' = known /\ q.key \in DOMAIN known
  <2>1. worker'.pc = "reply" /\ worker'.to = q
    BY <1>9
  <2>2. TypeOK'
    BY <1>1, <1>2, <1>4, <1>6, <1>8, <1>9 DEF TypeOK
  <2>3. CacheHolds'
    BY <1>1, <1>2, <1>6, <1>9, CacheStays
  <2>4. WorkerHolds'
    BY <1>5, <1>6, <1>9, <2>1 DEF WorkerHolds, Had
  <2> QED
    BY <1>1, <1>7, <2>2, <2>3, <2>4, WorkerStep
<1>10. CASE /\ cache[q.key] # 0
            /\ known' = [k \in DOMAIN known \cup {q.key} |->
                            IF k = q.key THEN "cached" ELSE known[k]]
            /\ worker' = [pc |-> "reply", to |-> q]
  <2>1. worker'.pc = "reply" /\ worker'.to = q
    BY <1>10
  <2>2. /\ known' \in Partial(Key, {"cached", "failed"})
        /\ DOMAIN known' = DOMAIN known \cup {q.key}
        /\ \A k \in DOMAIN known \ {q.key} : known'[k] = known[k]
    BY <1>2, <1>5, <1>10, KnownFacts
  <2>3. TypeOK'
    BY <1>1, <1>2, <1>4, <1>6, <1>8, <1>10, <2>2 DEF TypeOK
  <2>4. CacheHolds'
    BY <1>1, <1>2, <1>5, <1>6, <1>10, <2>2 DEF CacheHolds
  <2>5. WorkerHolds'
    BY <1>5, <1>6, <2>1, <2>2 DEF WorkerHolds, Had
  <2> QED
    BY <1>1, <1>7, <2>3, <2>4, <2>5, WorkerStep
<1>11. CASE worker' = [pc |-> "decode", to |-> q] /\ known' = known
  <2>1. worker'.pc = "decode" /\ worker'.to = q
    BY <1>11
  <2>2. TypeOK'
    BY <1>1, <1>2, <1>4, <1>6, <1>8, <1>11 DEF TypeOK
  <2>3. CacheHolds'
    BY <1>1, <1>2, <1>6, <1>11, CacheStays
  <2>4. WorkerHolds'
    BY <1>5, <1>6, <2>1 DEF WorkerHolds, Had
  <2> QED
    BY <1>1, <1>7, <2>2, <2>3, <2>4, WorkerStep
<1> QED
  BY <1>9, <1>10, <1>11 DEF Decide

LEMMA DecodeKeeps ==
    ASSUME IInv, Decode
    PROVE  IInv'
<1>1. /\ worker.pc = "decode"
      /\ worker' = [pc |-> "write", to |-> worker.to, shows |-> disk[worker.to.key[1]].version]
      /\ UNCHANGED <<books, job, queue, known, cache>>
  BY DEF Decode
<1>2. TypeOK /\ WorkerHolds
  BY DEF IInv
<1>3. PICK q \in Asked : q = worker.to
  BY <1>1, <1>2, WorkerKind
<1>4. q.key[1] \in Path /\ q.key[2] \in Version /\ Had(q.key)
  BY <1>1, <1>2, <1>3, AskedFacts, WorkerKind DEF WorkerHolds
<1>5. PICK v \in Version : v = disk[q.key[1]].version
  BY <1>2, <1>4 DEF TypeOK
<1>6. worker' = [pc |-> "write", to |-> q, shows |-> v]
  BY <1>1, <1>3, <1>5
<1>7. worker' \in Writing /\ worker'.pc = "write" /\ worker'.to = q /\ worker'.shows = v
  BY <1>6 DEF Writing
<1>8. UNCHANGED <<disk, dirs, cleared, rows, library, edits, requests, crashes>>
  BY <1>1 DEF books, people
<1>9. TypeOK'
  BY <1>1, <1>2, <1>7, <1>8 DEF TypeOK
<1>10. v >= q.key[2]
  BY <1>4, <1>5, VersionFacts DEF Had
<1>11. WorkerHolds'
  BY <1>4, <1>7, <1>8, <1>10 DEF WorkerHolds, Had
<1>12. CacheHolds' /\ QueueHolds'
  BY <1>1, <1>8, CacheStays DEF IInv, QueueHolds, Had
<1> QED
  BY <1>1, <1>9, <1>11, <1>12, WorkerStep

\* The worker has an answer; CacheHolds is for the caller to show.
LEMMA FinishedKeeps ==
    ASSUME IInv, worker.pc \in {"decode", "write"},
           NEW decision \in {"cached", "failed"}, Finished(worker.to, decision),
           UNCHANGED <<books, job, queue>>, cache' \in [Key -> Shows],
           \A k \in Key \ {worker.to.key} : cache'[k] = cache[k],
           cache'[worker.to.key] # 0 => cache'[worker.to.key] >= worker.to.key[2],
           decision = "cached" => cache'[worker.to.key] >= worker.to.key[2]
    PROVE  IInv'
<1>1. TypeOK /\ WorkerHolds /\ CacheHolds
  BY DEF IInv
<1>2. PICK q \in Asked : q = worker.to
  BY <1>1, WorkerKind
<1>3. q.key \in Key /\ Had(q.key)
  BY <1>1, <1>2, AskedFacts, WorkerKind DEF WorkerHolds
<1>4. /\ known' = [k \in DOMAIN known \cup {q.key} |->
                      IF k = q.key THEN decision ELSE known[k]]
      /\ worker' = [pc |-> "reply", to |-> q]
  BY <1>2 DEF Finished
<1>5. /\ known' \in Partial(Key, {"cached", "failed"})
      /\ DOMAIN known' = DOMAIN known \cup {q.key} /\ DOMAIN known \subseteq Key
      /\ known'[q.key] = decision
      /\ \A k \in DOMAIN known \ {q.key} : known'[k] = known[k]
  BY <1>1, <1>3, <1>4, KnownFacts
<1>6. worker' \in Working /\ worker'.pc = "reply" /\ worker'.to = q
  BY <1>4 DEF Working
<1>7. UNCHANGED <<disk, dirs, cleared, rows, library, edits, requests, crashes, queue, job>>
  BY DEF books, people
<1>8. TypeOK'
  BY <1>1, <1>5, <1>6, <1>7 DEF TypeOK
<1>9. WorkerHolds'
  BY <1>3, <1>5, <1>6, <1>7 DEF WorkerHolds, Had
<1>10. QueueHolds'
  BY <1>7 DEF IInv, QueueHolds, Had
<1>11. /\ \A k \in Key \ {q.key} : cache'[k] = cache[k]
       /\ cache'[q.key] # 0 => cache'[q.key] >= q.key[2]
       /\ decision = "cached" => cache'[q.key] >= q.key[2]
  BY <1>2
<1>12. CacheHolds'
  <2>1. ASSUME NEW k \in Key
        PROVE  cache'[k] # 0 => cache'[k] >= k[2]
    BY <1>1, <1>11 DEF CacheHolds
  <2>2. ASSUME NEW k \in DOMAIN known', known'[k] = "cached"
        PROVE  cleared' \/ cache'[k] >= k[2]
    <3>1. CASE k = q.key
      BY <1>5, <1>11, <2>2, <3>1
    <3>2. CASE k # q.key
      <4>1. k \in DOMAIN known /\ k \in Key /\ known[k] = "cached"
        BY <1>5, <2>2, <3>2
      <4>2. cleared \/ cache[k] >= k[2]
        BY <1>1, <4>1 DEF CacheHolds
      <4> QED
        BY <1>7, <1>11, <3>2, <4>1, <4>2
    <3> QED
      BY <3>1, <3>2
  <2> QED
    BY <2>1, <2>2 DEF CacheHolds
<1> QED
  BY <1>8, <1>9, <1>10, <1>12, WorkerStep

LEMMA DecodeFailsKeeps ==
    ASSUME IInv, DecodeFails
    PROVE  IInv'
<1>1. /\ worker.pc \in {"decode", "write"} /\ Finished(worker.to, "failed")
      /\ UNCHANGED <<books, job, queue, cache>>
  BY DEF DecodeFails
<1>2. worker.to.key \in Key
  BY <1>1, WorkerKind, AskedFacts DEF IInv
<1>3. cache' \in [Key -> Shows] /\ \A k \in Key : cache[k] # 0 => cache[k] >= k[2]
  BY <1>1 DEF IInv, TypeOK, CacheHolds
<1>4. "failed" # "cached" /\ "failed" \in {"cached", "failed"}
  OBVIOUS
<1> QED
  BY <1>1, <1>2, <1>3, <1>4, FinishedKeeps

LEMMA WriteThumbKeeps ==
    ASSUME IInv, WriteThumb
    PROVE  IInv'
<1>1. /\ worker.pc = "write" /\ Finished(worker.to, "cached")
      /\ cache' = [cache EXCEPT ![worker.to.key] = worker.shows]
      /\ UNCHANGED <<books, job, queue>>
  BY DEF WriteThumb
<1>2. worker.to.key \in Key /\ worker.shows \in Shows
  <2>1. worker \in Writing /\ worker.to \in Asked
    BY <1>1, WorkerKind DEF IInv
  <2> QED
    BY <2>1, AskedFacts, VersionFacts DEF Writing
<1>3. worker.shows >= worker.to.key[2]
  BY <1>1 DEF IInv, WorkerHolds
<1>4. cache \in [Key -> Shows]
  BY DEF IInv, TypeOK
<1>5. /\ cache' \in [Key -> Shows] /\ cache'[worker.to.key] = worker.shows
      /\ \A k \in Key \ {worker.to.key} : cache'[k] = cache[k]
  BY <1>1, <1>2, <1>4
<1> QED
  BY <1>1, <1>3, <1>5, FinishedKeeps

LEMMA ReplyKeeps ==
    ASSUME IInv, Reply
    PROVE  IInv'
<1>1. /\ worker.pc = "reply" /\ worker' = Asleep
      /\ UNCHANGED <<books, queue, known, cache>>
  BY DEF Reply
<1>2. TypeOK /\ CacheHolds /\ WorkerHolds
  BY DEF IInv
<1>3. PICK q \in Asked : q = worker.to
  BY <1>1, <1>2, WorkerKind
<1>4. q.client \in Client /\ q.key \in Key /\ q.key \in DOMAIN known
  BY <1>1, <1>2, <1>3, AskedFacts DEF WorkerHolds
<1>5. UNCHANGED <<disk, dirs, cleared, rows, library, edits, requests, crashes, queue, known,
                  cache>>
  BY <1>1 DEF books, people
<1>6. \/ job' = job
      \/ /\ Waits(q)
         /\ job' = [job EXCEPT ![q.client] =
                      IF known[q.key] = "cached"
                      THEN [pc |-> "thumbed", stamp |-> job[q.client].stamp,
                            shows |-> cache[q.key]]
                      ELSE Idle]
  BY <1>3, Zenon DEF Reply
<1>7. ASSUME NEW c \in Client, job'[c] = job[c]
      PROVE  ScanHolds(c)' /\ AnswerHolds(c)'
  BY <1>5, <1>7, ScanStays, AnswerStays DEF IInv
<1>8. RowsHold' /\ CacheHolds' /\ QueueHolds'
  BY <1>5, RowsStay, CacheStays DEF IInv, QueueHolds, Had
<1>9. WorkerHolds'
  BY <1>1 DEF WorkerHolds, Asleep
<1>10. /\ job' \in [Client -> {Idle} \cup Scan \cup Wait \cup Thumbed]
       /\ \A c \in Client : ScanHolds(c)' /\ AnswerHolds(c)'
  <2>1. CASE job' = job
    BY <1>2, <1>7, <2>1 DEF TypeOK
  <2>2. CASE Waits(q) /\ known[q.key] = "cached"
                /\ job' = [job EXCEPT ![q.client] =
                      [pc |-> "thumbed", stamp |-> job[q.client].stamp, shows |-> cache[q.key]]]
    <3> DEFINE k == [pc |-> "thumbed", stamp |-> job[q.client].stamp, shows |-> cache[q.key]]
    <3>1. job[q.client] \in Wait
      BY <1>2, <1>4, <2>2, JobKind DEF Waits, At
    <3>2. job[q.client].stamp \in Version /\ cache[q.key] \in Shows
      BY <1>2, <1>4, <3>1 DEF Wait, TypeOK
    <3>3. k \in Thumbed
      BY <3>2 DEF Thumbed
    <3>4. k.pc = "thumbed" /\ k.stamp = job[q.client].stamp /\ k.shows = cache[q.key]
      OBVIOUS
    <3>5. job[q.client].stamp = q.key[2]
      <4>1. At(q.client, "wait") /\ job[q.client].key = q.key
        BY <2>2 DEF Waits, At
      <4> QED
        BY <1>4, <4>1 DEF IInv, AnswerHolds
    <3>6. cleared \/ cache[q.key] >= q.key[2]
      BY <1>2, <1>4, <2>2 DEF CacheHolds
    <3> HIDE DEF k
    <3>7. /\ job' \in [Client -> {Idle} \cup Scan \cup Wait \cup Thumbed]
          /\ job'[q.client] = k /\ \A c \in Client \ {q.client} : job'[c] = job[c]
      BY <1>2, <1>4, <2>2, <3>3 DEF TypeOK, k
    <3>8. PICK j \in Thumbed : j = k
      BY <3>3
    <3>9. ScanHolds(q.client)' /\ AnswerHolds(q.client)'
      <4>1. PICK c \in Client : c = q.client
        BY <1>4
      <4>2. job'[c] = j /\ j.pc = "thumbed" /\ (cleared' \/ j.shows >= j.stamp)
        BY <1>5, <3>4, <3>5, <3>6, <3>7, <3>8, <4>1
      <4>3. ScanHolds(c)' /\ AnswerHolds(c)'
        BY <4>2 DEF ScanHolds, AnswerHolds, At
      <4> QED
        BY <4>1, <4>3
    <3> QED
      BY <1>7, <3>7, <3>9
  <2>3. CASE Waits(q) /\ job' = [job EXCEPT ![q.client] = Idle]
    <3>1. /\ job' \in [Client -> {Idle} \cup Scan \cup Wait \cup Thumbed]
          /\ job'[q.client] = Idle /\ \A c \in Client \ {q.client} : job'[c] = job[c]
      BY <1>2, <1>4, <2>3 DEF TypeOK
    <3>2. PICK c \in Client : c = q.client
      BY <1>4
    <3>3. ScanHolds(c)' /\ AnswerHolds(c)'
      BY <3>1, <3>2 DEF ScanHolds, AnswerHolds, At, Idle
    <3> QED
      BY <1>7, <3>1, <3>2, <3>3
  <2> QED
    BY <1>6, <2>1, <2>2, <2>3
<1>11. TypeOK'
  BY <1>1, <1>2, <1>5, <1>10 DEF TypeOK
<1> QED
  BY <1>5, <1>8, <1>9, <1>10, <1>11 DEF IInv

-----------------------------------------------------------------------------
\* People and crashes.

\* Whatever people do, no file gets older, and a scan takes note.
LEMMA EditKeeps ==
    ASSUME IInv, Edit, Noted,
           disk' \in [Path -> [version : Version, there : BOOLEAN]],
           \A p \in Path : /\ disk[p].version <= disk'[p].version
                           /\ disk'[p].version <= disk[p].version + 1,
           dirs' \in [Dir -> Trouble \cup {"ok", "linked"}],
           cleared' \in BOOLEAN, cleared => cleared', cache' \in [Key -> Shows],
           \/ UNCHANGED cache
           \/ cleared' /\ \A k \in Key : cache'[k] = 0
    PROVE  IInv'
<1>1. /\ edits < MaxEdits /\ edits' = edits + 1
      /\ UNCHANGED <<rows, library, queue, worker, known, requests, crashes>>
  BY DEF Edit
<1>2. TypeOK /\ RowsHold /\ CacheHolds /\ QueueHolds /\ WorkerHolds
  BY DEF IInv
<1>3. edits' \in 0..MaxEdits /\ edits \in Nat /\ edits' = edits + 1
  BY <1>1, <1>2, Bounds DEF TypeOK
<1>4. \A p \in Path : disk[p].version \in Nat /\ disk'[p].version \in Nat
  BY <1>2, VersionFacts DEF TypeOK
<1>5. \A p \in Path : disk'[p].version <= edits' + 1
  BY <1>3, <1>4 DEF IInv
<1>6. ASSUME NEW q \in Asked, Had(q.key)
      PROVE  Had(q.key)'
  <2>1. q.key[1] \in Path /\ q.key[2] \in Nat
    BY AskedFacts, VersionFacts
  <2> QED
    BY <1>4, <1>6, <2>1 DEF Had
<1>7. RowsHold'
  <2>1. ASSUME NEW r \in rows
        PROVE  r.stamp <= disk'[r.path].version
    <3>1. r.path \in Path /\ r.stamp \in Nat /\ r.stamp <= disk[r.path].version
      BY <1>2, VersionFacts DEF TypeOK, RowsHold
    <3> QED
      BY <1>4, <3>1
  <2> QED
    BY <1>1, <1>2, <2>1 DEF RowsHold
<1>8. QueueHolds'
  <2>1. ASSUME NEW i \in 1..Len(queue)
        PROVE  Had(queue[i].key)'
    <3>1. queue[i] \in Asked /\ Had(queue[i].key)
      BY <1>2, ElementOfSeq DEF TypeOK, QueueHolds
    <3>2. PICK q \in Asked : q = queue[i]
      BY <3>1
    <3>3. Had(q.key)'
      BY <1>6, <3>1, <3>2
    <3> QED
      BY <1>1, <3>2, <3>3
  <2> QED
    BY <1>1, <2>1 DEF QueueHolds
<1>9. WorkerHolds'
  <2>1. CASE worker = Asleep
    BY <1>1, <2>1 DEF WorkerHolds, Asleep
  <2>2. CASE worker # Asleep
    <3>1. PICK q \in Asked : q = worker.to
      BY <1>2, <2>2, WorkerKind
    <3>2. Had(q.key)'
      BY <1>2, <1>6, <2>2, <3>1 DEF WorkerHolds
    <3> QED
      BY <1>1, <1>2, <3>1, <3>2 DEF WorkerHolds
  <2> QED
    BY <2>1, <2>2
<1>10. CacheHolds'
  <2>1. CASE UNCHANGED cache
    BY <1>1, <1>2, <2>1 DEF CacheHolds
  <2>2. CASE cleared' /\ \A k \in Key : cache'[k] = 0
    BY <2>2 DEF CacheHolds
  <2> QED
    BY <2>1, <2>2
<1>11. ASSUME NEW c \in Client
       PROVE  /\ job'[c] \in {Idle} \cup Scan \cup Wait \cup Thumbed
              /\ ScanHolds(c)' /\ AnswerHolds(c)'
  <2>1. ScanHolds(c) /\ AnswerHolds(c)
    BY DEF IInv
  <2>2. CASE ~At(c, "walk")
    <3>1. job'[c] = job[c]
      BY <2>2 DEF Noted, At
    <3>2. ~At(c, "walk")'
      BY <2>2, <3>1 DEF At
    <3> QED
      BY <1>2, <2>1, <3>1, <3>2, AnswerStays DEF ScanHolds, TypeOK
  <2>3. CASE At(c, "walk")
    <3>1. PICK j \in Scan : j = job[c]
      BY <1>2, <2>3, JobKind
    <3> DEFINE lost == {p \in Path : Lost(p)'}
               turned == {d \in Dir : dirs'[d] # dirs[d]}
    <3>2. job'[c] = [j EXCEPT !.absent = j.absent \cup lost,
                              !.trouble = j.trouble \cup turned]
      BY <2>3, <3>1 DEF Noted, At
    <3>3. lost \subseteq Path /\ turned \subseteq Dir
      OBVIOUS
    <3>4. (\A p \in Path \ lost : ~Lost(p)') /\ (turned = {} => \A d \in Dir : dirs'[d] = dirs[d])
      OBVIOUS
    <3> HIDE DEF lost, turned
    <3>5. PICK k \in Scan : /\ k = job'[c]
                            /\ k.readable = j.readable /\ k.missing = j.missing
                            /\ k.stack = j.stack /\ k.seen = j.seen
                            /\ k.absent = j.absent \cup lost
                            /\ k.trouble = j.trouble \cup turned
      <4> DEFINE k == [j EXCEPT !.absent = j.absent \cup lost,
                                !.trouble = j.trouble \cup turned]
      <4>1. /\ k \in Scan
            /\ k.readable = j.readable /\ k.missing = j.missing
            /\ k.stack = j.stack /\ k.seen = j.seen
            /\ k.absent = j.absent \cup lost /\ k.trouble = j.trouble \cup turned
        BY <3>3 DEF Scan
      <4>2. k = job'[c]
        BY <3>2
      <4> HIDE DEF k
      <4> QED
        BY <4>1, <4>2
    <3>6. /\ library = c
          /\ \A p \in DOMAIN j.seen : j.seen[p] <= disk[p].version
          /\ j.trouble = {} => Surveyed(j)
      BY <2>1, <2>3, <3>1 DEF ScanHolds
    <3>7. \A p \in DOMAIN k.seen : k.seen[p] <= disk'[p].version
      <4>1. j.seen \in Partial(Path, Version)
        BY DEF Scan
      <4>2. \A p \in DOMAIN j.seen : p \in Path /\ j.seen[p] \in Nat
        BY <4>1, PartialFacts, VersionFacts
      <4> QED
        BY <1>4, <3>5, <3>6, <4>2
    <3>8. \A p \in Path \ k.absent : ~Lost(p)'
      BY <3>4, <3>5
    <3>9. ASSUME k.trouble = {}
          PROVE  Surveyed(k)'
      <4>1. j.trouble = {} /\ \A d \in Dir : dirs'[d] = dirs[d]
        BY <3>4, <3>5, <3>9
      <4>2. ASSUME NEW d \in Dir
            PROVE  Exists(d)' = Exists(d)
        <5>1. Ancestors(d) \subseteq Dir
          BY Layout DEF Layout, Ancestors
        <5> QED
          BY <4>1, <5>1 DEF Exists
      <4>3. Surveyed(j) /\ Roots \subseteq Dir
        BY <3>6, <4>1, Layout DEF Layout
      <4>4. k.readable = {r \in Roots : Exists(r)'}
        BY <3>5, <4>2, <4>3 DEF Surveyed
      <4>5. k.missing = Roots \ k.readable
        BY <3>5, <4>3 DEF Surveyed
      <4>6. \A d \in Dir : Exists(d)' => dirs'[d] \in {"ok", "linked"}
        BY <4>1, <4>2, <4>3 DEF Surveyed
      <4>7. ASSUME NEW d \in Dir, Exists(d)', Ancestors(d) \cap k.readable # {}
            PROVE  Covered(k, d)
        <5>1. Covered(j, d)
          BY <3>5, <4>2, <4>3, <4>7 DEF Surveyed
        <5> QED
          BY <3>5, <5>1 DEF Covered
      <4>8. ASSUME NEW d \in Dir, Covered(k, d)
            PROVE  Covered(k, d)'
        BY <4>1, <4>8 DEF Covered, PassedOver
      <4> QED
        BY <3>5, <4>4, <4>5, <4>6, <4>7, <4>8 DEF Surveyed
    <3>10. ScanHolds(c)'
      BY <1>1, <3>5, <3>6, <3>7, <3>8, <3>9 DEF ScanHolds
    <3>11. AnswerHolds(c)'
      <4>1. k.pc = "walk"
        BY DEF Scan
      <4> QED
        BY <3>5, <4>1 DEF AnswerHolds, At
    <3> QED
      BY <3>5, <3>10, <3>11
  <2> QED
    BY <2>2, <2>3
<1>12. job' \in [Client -> {Idle} \cup Scan \cup Wait \cup Thumbed]
  <2>1. job' = [c \in Client |-> job'[c]]
    BY DEF Noted
  <2> QED
    BY <1>11, <2>1
<1>13. TypeOK'
  BY <1>1, <1>2, <1>3, <1>12 DEF TypeOK
<1> QED
  BY <1>5, <1>7, <1>8, <1>9, <1>10, <1>11, <1>13 DEF IInv

LEMMA WriteKeeps ==
    ASSUME IInv, NEW p \in Path, Write(p)
    PROVE  IInv'
<1>1. /\ Edit /\ Noted /\ UNCHANGED <<dirs, cache, cleared>>
      /\ disk' = [disk EXCEPT ![p] = [version |-> disk[p].version + 1, there |-> TRUE]]
  BY DEF Write
<1>2. disk \in [Path -> [version : Version, there : BOOLEAN]] /\ edits \in Nat
  BY Bounds DEF IInv, TypeOK
<1>3. disk[p].version \in Nat /\ disk[p].version <= edits + 1 /\ edits < MaxEdits
  BY <1>1, <1>2, VersionFacts DEF IInv, Edit
<1>4. disk[p].version + 1 \in Version
  BY <1>2, <1>3, Bounds DEF Version
<1> DEFINE new == [version |-> disk[p].version + 1, there |-> TRUE]
<1>5. new \in [version : Version, there : BOOLEAN] /\ new.version = disk[p].version + 1
  BY <1>4
<1> HIDE DEF new
<1>6. /\ disk' \in [Path -> [version : Version, there : BOOLEAN]]
      /\ disk'[p] = new /\ \A q \in Path \ {p} : disk'[q] = disk[q]
  BY <1>1, <1>2, <1>5 DEF new
<1>7. \A q \in Path : /\ disk[q].version <= disk'[q].version
                      /\ disk'[q].version <= disk[q].version + 1
  <2>1. \A q \in Path : disk[q].version \in Nat
    BY <1>2, VersionFacts
  <2> QED
    BY <1>5, <1>6, <2>1
<1>8. dirs' \in [Dir -> Trouble \cup {"ok", "linked"}] /\ cleared' \in BOOLEAN /\ cache' \in [Key -> Shows]
  BY <1>1 DEF IInv, TypeOK
<1> QED
  BY <1>1, <1>6, <1>7, <1>8, EditKeeps

LEMMA DeleteKeeps ==
    ASSUME IInv, NEW p \in Path, Delete(p)
    PROVE  IInv'
<1>1. /\ Edit /\ Noted /\ UNCHANGED <<dirs, cache, cleared>>
      /\ disk' = [disk EXCEPT ![p] = [disk[p] EXCEPT !.there = FALSE]]
  BY DEF Delete
<1>2. disk \in [Path -> [version : Version, there : BOOLEAN]]
  BY DEF IInv, TypeOK
<1> DEFINE new == [disk[p] EXCEPT !.there = FALSE]
<1>3. new \in [version : Version, there : BOOLEAN] /\ new.version = disk[p].version
  BY <1>2
<1> HIDE DEF new
<1>4. /\ disk' \in [Path -> [version : Version, there : BOOLEAN]]
      /\ disk'[p] = new /\ \A q \in Path \ {p} : disk'[q] = disk[q]
  BY <1>1, <1>2, <1>3 DEF new
<1>5. \A q \in Path : /\ disk[q].version <= disk'[q].version
                      /\ disk'[q].version <= disk[q].version + 1
  <2>1. \A q \in Path : disk[q].version \in Nat
    BY <1>2, VersionFacts
  <2> QED
    BY <1>3, <1>4, <2>1
<1>6. dirs' \in [Dir -> Trouble \cup {"ok", "linked"}] /\ cleared' \in BOOLEAN /\ cache' \in [Key -> Shows]
  BY <1>1 DEF IInv, TypeOK
<1> QED
  BY <1>1, <1>4, <1>5, <1>6, EditKeeps

\* A directory turns or the cache is emptied; the files stay.
LEMMA FilesStay ==
    ASSUME IInv, UNCHANGED disk
    PROVE  /\ disk' \in [Path -> [version : Version, there : BOOLEAN]]
           /\ \A p \in Path : /\ disk[p].version <= disk'[p].version
                              /\ disk'[p].version <= disk[p].version + 1
<1>1. disk \in [Path -> [version : Version, there : BOOLEAN]]
  BY DEF IInv, TypeOK
<1>2. \A p \in Path : disk[p].version \in Nat
  BY <1>1, VersionFacts
<1> QED
  BY <1>1, <1>2

LEMMA TurnKeeps ==
    ASSUME IInv, NEW d \in Dir, NEW s \in Trouble \cup Sound(d), Turn(d, s)
    PROVE  IInv'
<1>1. /\ Edit /\ Noted /\ UNCHANGED <<disk, cache, cleared>>
      /\ dirs' = [dirs EXCEPT ![d] = s]
  BY DEF Turn
<1>2. dirs' \in [Dir -> Trouble \cup {"ok", "linked"}] /\ cleared' \in BOOLEAN /\ cache' \in [Key -> Shows]
  <2>1. s \in Trouble \cup {"ok", "linked"}
    BY DEF Sound
  <2> QED
    BY <1>1, <2>1 DEF IInv, TypeOK
<1> QED
  BY <1>1, <1>2, FilesStay, EditKeeps

LEMMA EmptyCacheKeeps ==
    ASSUME IInv, EmptyCache
    PROVE  IInv'
<1>1. /\ Edit /\ Noted /\ UNCHANGED <<disk, dirs>>
      /\ cache' = [k \in Key |-> 0] /\ cleared' = TRUE
  BY DEF EmptyCache
<1>2. dirs' \in [Dir -> Trouble \cup {"ok", "linked"}]
  BY <1>1 DEF IInv, TypeOK
<1>3. cache' \in [Key -> Shows] /\ \A k \in Key : cache'[k] = 0
  BY <1>1, VersionFacts
<1> QED
  BY <1>1, <1>2, <1>3, FilesStay, EditKeeps

LEMMA CrashKeeps ==
    ASSUME IInv, Crash
    PROVE  IInv'
<1>1. /\ crashes' \in 0..MaxCrashes /\ library' = Free
      /\ job' \in [Client -> {Idle}] /\ queue' = << >> /\ worker' = Asleep
      /\ known' = [k \in {} |-> "cached"]
      /\ UNCHANGED <<disk, dirs, cleared, rows, cache, edits, requests>>
  BY Bounds DEF IInv, TypeOK, Crash, people
<1>2. known' \in Partial(Key, {"cached", "failed"}) /\ DOMAIN known' = {}
  <2>1. known' \in [{} -> {"cached", "failed"}]
    BY <1>1
  <2> QED
    BY <2>1, IsPartial
<1>3. TypeOK'
  BY <1>1, <1>2 DEF IInv, TypeOK
<1>4. RowsHold' /\ CacheHolds'
  BY <1>1, <1>2 DEF IInv, RowsHold, CacheHolds
<1>5. QueueHolds' /\ WorkerHolds'
  BY <1>1 DEF QueueHolds, WorkerHolds, Asleep
<1>6. \A c \in Client : ScanHolds(c)' /\ AnswerHolds(c)'
  BY <1>1 DEF ScanHolds, AnswerHolds, At, Idle
<1> QED
  BY <1>1, <1>3, <1>4, <1>5, <1>6 DEF IInv

-----------------------------------------------------------------------------
\* Every step.

LEMMA StutterKeeps ==
    ASSUME IInv, UNCHANGED vars
    PROVE  IInv'
<1>1. UNCHANGED <<disk, dirs, cleared, rows, library, job, queue, worker, known, cache, edits,
                  requests, crashes>>
  BY DEF vars, people, thumbs
<1>2. TypeOK'
  BY <1>1 DEF IInv, TypeOK
<1>3. RowsHold' /\ CacheHolds' /\ QueueHolds' /\ WorkerHolds'
  BY <1>1, RowsStay, CacheStays, ChannelStays DEF IInv
<1>4. \A c \in Client : ScanHolds(c)' /\ AnswerHolds(c)'
  BY <1>1, ScanStays, AnswerStays DEF IInv
<1> QED
  BY <1>1, <1>2, <1>3, <1>4 DEF IInv

LEMMA NextIInv == IInv /\ [Next]_vars => IInv'
<1>1. SUFFICES ASSUME IInv, [Next]_vars PROVE IInv'
  OBVIOUS
<1>2. ASSUME NEW c \in Client, TimeOut(c) \/ Read(c)
      PROVE  IInv'
  <2>1. /\ Goes(c, Idle) /\ ~At(c, "walk")
        /\ UNCHANGED <<people, rows, library, thumbs, edits, requests, crashes>>
    BY <1>2 DEF TimeOut, Read, At
  <2> QED
    BY <1>1, <2>1, IdleKeeps
<1>3. ASSUME Thumbnailer
      PROVE  IInv'
  BY <1>1, <1>3, DecideKeeps, DecodeKeeps, DecodeFailsKeeps, WriteThumbKeeps, ReplyKeeps
     DEF Thumbnailer
<1> QED
  BY <1>1, <1>2, <1>3, CheckRootsKeeps, WalkKeeps, CommitKeeps, ThumbKeeps, WriteKeeps,
     DeleteKeeps, TurnKeeps, EmptyCacheKeeps, CrashKeeps, StutterKeeps DEF Next

LEMMA Invariance == Spec => []IInv
BY InitIInv, NextIInv, PTL DEF Spec

-----------------------------------------------------------------------------
\* Only a commit touches the table.

LEMMA RowsChange ==
    ASSUME IInv, [Next]_vars, rows' # rows
    PROVE  \E c \in Client : Commit(c)
<1>1. ASSUME Thumbnailer
      PROVE  rows' = rows
  BY <1>1 DEF Thumbnailer, Decide, Decode, DecodeFails, WriteThumb, Reply, books
<1>2. ASSUME Edit \/ Crash
      PROVE  rows' = rows
  BY <1>2 DEF Edit, Crash
<1>3. ASSUME NEW c \in Client,
             CheckRoots(c) \/ Walk(c) \/ Thumb(c) \/ TimeOut(c) \/ Read(c)
      PROVE  rows' = rows
  BY <1>3 DEF CheckRoots, Walk, Thumb, TimeOut, Read
<1>4. UNCHANGED vars => rows' = rows
  BY DEF vars
<1> QED
  BY <1>1, <1>2, <1>3, <1>4 DEF Next, Write, Delete, Turn, EmptyCache

\* It is the commit of the one client that scans.
LEMMA ItsCommit ==
    ASSUME IInv, [Next]_vars, NEW c \in Client, At(c, "walk"), rows' # rows
    PROVE  Commit(c)
<1>1. PICK b \in Client : Commit(b)
  BY RowsChange
<1>2. At(b, "walk")
  BY <1>1 DEF Commit
<1> QED
  BY <1>1, <1>2, OnlyScan

\* What a commit reads is a scan.
LEMMA CommitOf ==
    ASSUME IInv, NEW c \in Client, Commit(c)
    PROVE  \E j \in Scan : /\ j = job[c] /\ j.stack = {} /\ rows' \in Commits(j)
                           /\ \A p \in Path \ j.absent : ~Lost(p)
                           /\ j.trouble = {} => Surveyed(j)
<1>1. At(c, "walk") /\ job[c].stack = {} /\ rows' \in Commits(job[c])
  BY DEF Commit
<1>2. job[c] \in Scan
  BY <1>1, JobKind DEF IInv
<1>3. /\ \A p \in Path \ job[c].absent : ~Lost(p)
      /\ job[c].trouble = {} => Surveyed(job[c])
  BY <1>1 DEF IInv, ScanHolds
<1> QED
  BY <1>1, <1>2, <1>3

\* When nothing is left to list, a file below roots that were all readable is
\* seen unless it was lost.
LEMMA AllSeen ==
    ASSUME NEW j \in Scan, Surveyed(j), j.stack = {},
           NEW p \in Path \ j.absent, ~Lost(p),
           Within(p, j.readable), ~Within(p, j.missing), ~PassedOver(DirOf[p])
    PROVE  p \in DOMAIN j.seen
<1> DEFINE d == DirOf[p]
<1>1. /\ d \in Dir /\ Roots \subseteq Dir
      /\ Parent[d] # NoDir => Parent[d] \in Dir /\ Ancestors(Parent[d]) = {Parent[d]}
  BY Layout DEF Layout, Ancestors
<1>2. /\ j.readable = {r \in Roots : Exists(r)} /\ j.missing = Roots \ j.readable
      /\ \A x \in Dir : Exists(x) => dirs[x] \in {"ok", "linked"}
      /\ \A x \in Dir : Exists(x) /\ Ancestors(x) \cap j.readable # {} => Covered(j, x)
  BY DEF Surveyed
<1>3. \A a \in Ancestors(d) : a \in Roots => Exists(a)
  BY <1>2 DEF Within
<1>4. Ancestors(d) \cap j.readable # {}
  BY DEF Within
<1>5. Exists(d)
  <2>1. CASE d \in Roots
    BY <1>3, <2>1 DEF Ancestors
  <2>2. CASE d \notin Roots
    <3>1. dirs[d] # "gone"
      BY <2>2 DEF Lost
    <3>2. Parent[d] # NoDir /\ Ancestors(d) = {d, Parent[d]} /\ Parent[d] \in j.readable
      BY <1>2, <1>4, <2>2 DEF Ancestors
    <3>3. dirs[Parent[d]] \in {"ok", "linked"}
      BY <1>1, <1>2, <3>2
    <3> QED
      BY <3>1, <3>2, <3>3 DEF Exists
  <2> QED
    BY <2>1, <2>2
<1>6. Covered(j, d)
  BY <1>1, <1>2, <1>4, <1>5
<1> QED
  BY <1>6 DEF Covered

-----------------------------------------------------------------------------
\* The theorems.

\* Type correctness: whoever scans, edits, asks, gives up or dies, the table, the
\* channel, the scheduler's answers and the cache keep their shape, and every key
\* names a version within the bounds.
THEOREM TypeCorrect == Spec => []TypeOK
<1>1. IInv => TypeOK
  BY DEF IInv
<1> QED
  BY <1>1, Invariance, PTL

\* A thumbnail is never older than the row it was asked for: LibraryService's
\* thumbnail and the worker's ensure(), with edits, timeouts and restarts
\* anywhere between the key, the decoding, the file and the answer.
THEOREM ThumbIsTrueAlways == Spec => []ThumbIsTrue
<1>1. IInv => ThumbIsTrue
  BY DEF IInv, AnswerHolds, ThumbIsTrue
<1> QED
  BY <1>1, Invariance, PTL

\* Library::scan never gives a row that stays another id, whatever it inserts and
\* drops in the same transaction.
THEOREM IdsAreStableAlways == Spec => IdsAreStable
<1>1. IInv /\ [Next]_vars => [\A r \in rows, s \in rows' : r.path = s.path => r.id = s.id]_vars
  <2>1. SUFFICES ASSUME IInv, [Next]_vars, NEW r \in rows, NEW s \in rows', r.path = s.path
                 PROVE  r.id = s.id
    OBVIOUS
  <2>2. \A q \in rows : r.path = q.path => r = q
    BY <2>1 DEF IInv, RowsHold
  <2>3. CASE rows' = rows
    BY <2>1, <2>2, <2>3
  <2>4. CASE rows' # rows
    <3>1. PICK c \in Client : Commit(c)
      BY <2>1, <2>4, RowsChange
    <3>2. PICK j \in Scan : rows' \in Commits(j)
      BY <2>1, <3>1, CommitOf
    <3>3. Kept(j, s) \/ New(j, s)
      BY <2>1, <3>2, CommitFacts DEF IInv
    <3>4. ~New(j, s)
      BY <2>1 DEF New, Indexed
    <3>5. PICK q \in rows : s.id = q.id /\ s.path = q.path
      BY <3>3, <3>4 DEF Kept
    <3> QED
      BY <2>1, <2>2, <3>5
  <2> QED
    BY <2>3, <2>4
<1> QED
  BY <1>1, Invariance, PTL DEF Spec, IdsAreStable

\* A scan that met no forbidden directory, no empty mount point and no entry it
\* could not look at, and under which no directory changed, drops a row only when
\* its file was deleted or is in a linked or hidden directory inside a root: the
\* walk of Library::scan is complete below every readable root but for those, and
\* a root that cannot be read protects what is in it.
THEOREM RowsAreTrueAlways == Spec => RowsAreTrue
<1>1. IInv /\ [Next]_vars =>
        [\A c \in Client : Committed(c) /\ job[c].trouble = {}
            => Removed \subseteq job[c].absent \cup {p \in Path : PassedOver(DirOf[p])}]_vars
  <2>1. SUFFICES ASSUME IInv, [Next]_vars, NEW c \in Client, Committed(c), job[c].trouble = {}
                 PROVE  Removed \subseteq job[c].absent \cup {p \in Path : PassedOver(DirOf[p])}
    OBVIOUS
  <2>2. Commit(c)
    BY <2>1, ItsCommit DEF Committed
  <2>3. PICK j \in Scan : /\ j = job[c] /\ j.stack = {} /\ rows' \in Commits(j)
                          /\ \A p \in Path \ j.absent : ~Lost(p)
                          /\ j.trouble = {} => Surveyed(j)
    BY <2>1, <2>2, CommitOf
  <2>4. Removed \subseteq GonePaths(j)
    BY <2>1, <2>3, CommitFacts DEF IInv, Removed
  <2>5. ASSUME NEW p \in GonePaths(j)
        PROVE  p \in j.absent \cup {q \in Path : PassedOver(DirOf[q])}
    <3>1. /\ p \in Indexed(rows) /\ p \notin DOMAIN j.seen
          /\ Within(p, j.readable) /\ ~Within(p, j.missing)
      BY <2>5 DEF GonePaths
    <3>2. p \in Path
      BY <2>1, <3>1 DEF Indexed, IInv, TypeOK
    <3> QED
      BY <2>1, <2>3, <3>1, <3>2, AllSeen
  <2> QED
    BY <2>3, <2>4, <2>5
<1> QED
  BY <1>1, Invariance, PTL DEF Spec, RowsAreTrue

-----------------------------------------------------------------------------
\* The decoders: the inductive invariant of Media.

\* The frames of the container that the pre-cache keeps, and whether some are
\* left over.
Fits == IF file.cap < file.length THEN file.cap ELSE file.length
Overflows == file.cap < file.length

\* What a decoder of each kind is while nobody reads from it.
PcTypes == {"new", "open", "refused", "dropped", "trying", "draining", "reading", "reaping"}
FrameTypes == [index : Int, picture : Int]
SourceTypes ==
    source \in [cache : Seq(FrameTypes), pending : FrameTypes, produced : Nat,
                at : Nat, cursor : Nat, exhausted : BOOLEAN, streaming : BOOLEAN]
AnswerTypes ==
    /\ answer \in [op : {"none", "frame", "end", "error"}, frame : FrameTypes]
    /\ pass.given \in Nat /\ pass.failed \in BOOLEAN /\ pass.rewinds \in Nat
    /\ pass = [given |-> pass.given, failed |-> pass.failed,
               rewinds |-> pass.rewinds, tried |-> pass.tried]
MediaTypes ==
    /\ file \in Files /\ pc \in PcTypes
    /\ still \in BOOLEAN
    /\ SourceTypes
    /\ video.arc \in Nat /\ video.next_index \in Nat /\ video.finished \in BOOLEAN
    /\ video = [runtime |-> video.runtime, arc |-> video.arc,
                next_index |-> video.next_index, finished |-> video.finished]
    /\ child \in [state : {"none", "running", "stuck", "closing", "ended",
                           "failed", "killed"},
                  left : Nat, pipe : Nat, torn : BOOLEAN]
    /\ AnswerTypes

\* Each kind of file is in its own states.
KindHolds ==
    /\ pc \in {"trying", "draining", "reading", "reaping"} => Kind = "video"
    /\ pc = "open" => Kind \in {"static-image", "animated-image", "video"}
    /\ Kind # "video" => child = NoChild
    /\ pc \in {"refused", "dropped"} => child = NoChild

\* What opens has given nothing and told nothing.
OpensClean ==
    pc \in {"new", "trying", "draining"} =>
        /\ pass.given = 0 /\ pass.rewinds = 0 /\ answer = Plain("none")
        /\ child = NoChild

StillHolds ==
    pc = "open" /\ Kind = "static-image" =>
        /\ still => pass.given = 0
        /\ ~still /\ ~pass.failed => pass.given = 1

\* The child has written, or has yet to write, every frame that was not read.
VideoHolds ==
    /\ Kind = "video" /\ pc \in {"open", "reading", "reaping"} =>
           video.next_index = pass.given
    /\ child.state # "none" => child.left + child.pipe + pass.given = file.length
    /\ child.state \in {"ended", "closing"} => child.left = 0
    /\ child.state = "none" => child = NoChild
    /\ child.torn => child.state = "failed"
    /\ pc = "reading" => ~video.finished
    /\ pc = "reaping" =>
           child.pipe = 0 /\ child.state \in Closed /\ video.finished
    /\ Kind = "video" /\ pc = "open" /\ video.finished =>
           child = NoChild /\ (pass.failed \/ pass.given = file.length)

\* The cache holds the head of the container, and the decoder streams when
\* there is more.
CacheKept ==
    Kind = "animated-image" /\ pc = "open" =>
        source.cache = Prefix(Fits) /\ source.streaming = Overflows

AnimatedHolds ==
    Kind = "animated-image" /\ pc = "open" /\ ~Mixed =>
        /\ source.cursor = pass.given
        /\ source.at <= file.length
        /\ ~Overflows => source.exhausted /\ source.pending = NoFrame
                         /\ source.cursor <= file.length
        /\ Overflows /\ source.pending # NoFrame =>
               /\ source.pending = Frame(Fits, Fits)
               /\ source.cursor <= Fits
               /\ source.at = Fits + 1 /\ source.produced = Fits + 1
        /\ Overflows /\ source.pending = NoFrame =>
               /\ source.at = source.cursor /\ source.produced = source.cursor
               /\ source.cursor >= Fits
        /\ Overflows /\ source.exhausted => pass.failed \/ pass.given = file.length

MediaInv == /\ MediaTypes /\ KindHolds /\ OpensClean /\ StillHolds
            /\ VideoHolds /\ CacheKept /\ AnimatedHolds /\ PassIsExact
-----------------------------------------------------------------------------
\* What the definitions say of the file at hand and of the cache.

LEMMA FileIs ==
    ASSUME file \in Files
    PROVE  /\ file.length \in Nat \ {0} /\ file.cap \in Nat /\ file.damage \in Nat
           /\ file.damage <= file.length
           /\ Kind = "static-image" => file.length = 1
  <1>1. file \in AllFiles
    BY DEF Files
  <1>2. file.length \in Lengths /\ file.damage \in {0} \cup Lengths /\ file.cap \in Caps
    BY <1>1 DEF AllFiles
  <1>3. file.damage <= file.length
    BY DEF Files
  <1>4. Kind = "static-image" => file.length = 1
    BY DEF Files, Kind
  <1>5. file.length \in Nat \ {0} /\ file.cap \in Nat
    BY <1>2, MediaAssumption DEF MediaAssumption
  <1>6. \A x \in {0} \cup Lengths : x \in Nat
    BY MediaAssumption DEF MediaAssumption
  <1> QED  BY <1>2, <1>3, <1>4, <1>5, <1>6

LEMMA FitsIs ==
    ASSUME file \in Files
    PROVE  Fits \in Nat /\ Fits <= file.length /\ (Overflows => Fits < file.length)
           /\ (~Overflows => Fits = file.length)
  BY FileIs DEF Fits, Overflows

LEMMA PrefixIs ==
    ASSUME NEW n \in Nat
    PROVE  /\ Prefix(n) \in Seq(FrameTypes) /\ Len(Prefix(n)) = n
           /\ \A i \in 1..n : Prefix(n)[i] = Frame(i - 1, i - 1)
  <1>1. \A i \in 1..n : Frame(i - 1, i - 1) \in FrameTypes
    BY DEF Frame, FrameTypes
  <1>2. Prefix(n) \in [1..n -> FrameTypes]
    BY <1>1 DEF Prefix
  <1>3. Prefix(n) \in Seq(FrameTypes) /\ Len(Prefix(n)) = n
    BY <1>2
  <1> QED  BY <1>3 DEF Prefix

\* A frame of the head is found under its index, and nothing else is.
LEMMA CachedInPrefix ==
    ASSUME NEW n \in Nat, NEW k \in Nat
    PROVE  Cached(Prefix(n), k) = IF k < n THEN Frame(k, k) ELSE NoFrame
  <1> PICK head : head = Prefix(n)
    OBVIOUS
  <1>1. Len(head) = n /\ \A i \in 1..n : head[i] = Frame(i - 1, i - 1)
    BY PrefixIs
  <1>2. \A i \in 1..n : head[i].index = i - 1
    BY <1>1 DEF Frame
  <1>3. CASE k < n
    <2>1. k + 1 \in 1..n /\ head[k + 1].index = k
      BY <1>2, <1>3
    <2>2. PICK i : i = CHOOSE j \in 1..Len(head) : head[j].index = k
      OBVIOUS
    <2>3. i \in 1..n /\ head[i].index = k
      BY <1>1, <2>1, <2>2
    <2>4. i = k + 1
      BY <1>2, <2>3
    <2>5. head[i] = Frame(k, k)
      BY <1>1, <2>3, <2>4
    <2>6. \E j \in 1..Len(head) : head[j].index = k
      BY <1>1, <2>1
    <2> QED  BY <1>3, <2>2, <2>5, <2>6 DEF Cached
  <1>4. CASE ~(k < n)
    <2>1. ~\E i \in 1..Len(head) : head[i].index = k
      BY <1>1, <1>2, <1>4
    <2> QED  BY <1>4, <2>1 DEF Cached
  <1> QED  BY <1>3, <1>4

LEMMA FramesDiffer ==
    /\ NoFrame \in FrameTypes /\ NoFrame.index = 0 /\ NoFrame.picture = -1
    /\ \A i, j \in Int : Frame(i, j) \in FrameTypes /\ Frame(i, j).index = i
                        /\ Frame(i, j).picture = j
    /\ \A i, j \in Nat : Frame(i, j) # NoFrame
  BY DEF Frame, NoFrame, FrameTypes

\* What is read while the decoder serves from its cache.
LEMMA ServesFromCache ==
    ASSUME MediaTypes, CacheKept, pc = "open", Kind = "animated-image"
    PROVE  /\ FromCache(source) <=> source.cursor < Fits
           /\ FromCache(source) =>
                  Cached(source.cache, source.cursor) = Frame(source.cursor, source.cursor)
           /\ Len(source.cache) = Fits
  <1>1. file \in Files /\ source.cursor \in Nat
    BY DEF MediaTypes, SourceTypes
  <1>2. PICK n \in Nat : n = Fits
    BY <1>1, FitsIs
  <1>3. source.cache = Prefix(n)
    BY <1>2 DEF CacheKept
  <1>4. PICK k \in Nat : k = source.cursor
    BY <1>1
  <1>5. Cached(source.cache, source.cursor) = IF k < n THEN Frame(k, k) ELSE NoFrame
    BY <1>3, <1>4, CachedInPrefix
  <1>6. Len(source.cache) = n
    BY <1>3, PrefixIs
  <1> QED  BY <1>2, <1>4, <1>5, <1>6, FramesDiffer DEF FromCache
-----------------------------------------------------------------------------
\* The steps.

\* What a call tells is typed.
LEMMA CallsTold ==
    ASSUME MediaTypes,
           \/ Errs \/ Ends \/ UNCHANGED <<answer, pass>>
           \/ \E f \in FrameTypes : Gives(f)
    PROVE  AnswerTypes'
  <1>1. CASE Errs
    <2>1. answer' \in [op : {"none", "frame", "end", "error"}, frame : FrameTypes]
      BY <1>1, FramesDiffer DEF Errs, Plain
    <2>2. pass'.given \in Nat /\ pass'.failed \in BOOLEAN /\ pass'.rewinds \in Nat
      BY <1>1 DEF MediaTypes, AnswerTypes, Errs
    <2>3. pass' = [given |-> pass'.given, failed |-> pass'.failed,
                   rewinds |-> pass'.rewinds, tried |-> pass'.tried]
      BY <1>1 DEF MediaTypes, AnswerTypes, Errs
    <2> QED  BY <2>1, <2>2, <2>3 DEF AnswerTypes
  <1>2. CASE Ends \/ UNCHANGED <<answer, pass>>
    BY <1>2, FramesDiffer DEF MediaTypes, AnswerTypes, Ends, Plain
  <1>3. CASE \E f \in FrameTypes : Gives(f)
    <2>1. answer' \in [op : {"none", "frame", "end", "error"}, frame : FrameTypes]
      BY <1>3 DEF Gives, Given
    <2>2. pass'.given \in Nat /\ pass'.failed \in BOOLEAN /\ pass'.rewinds \in Nat
      BY <1>3 DEF MediaTypes, AnswerTypes, Gives
    <2>3. pass' = [given |-> pass'.given, failed |-> pass'.failed,
                   rewinds |-> pass'.rewinds, tried |-> pass'.tried]
      BY <1>3 DEF MediaTypes, AnswerTypes, Gives
    <2> QED  BY <2>1, <2>2, <2>3 DEF AnswerTypes
  <1> QED  BY <1>1, <1>2, <1>3

LEMMA OpenStillKeeps ==
    ASSUME MediaInv, OpenStill
    PROVE  MediaInv'
  <1> USE DEF MediaInv
  <1>0. UNCHANGED <<file, Kind, Fits>> /\ (Overflows' <=> Overflows)
    BY DEF OpenStill, outside, Errs, Plain, Kind, Fits, Overflows
  <1>a. AnswerTypes'
    BY CallsTold DEF OpenStill, outside
  <1>1. MediaTypes'
    BY <1>0, <1>a, FramesDiffer
       DEF OpenStill, outside, Errs, Plain, MediaTypes, SourceTypes, PcTypes
  <1>2. KindHolds'
    BY <1>0 DEF OpenStill, outside, Errs, Plain, KindHolds, OpensClean, MediaTypes
  <1>3. OpensClean'
    BY <1>0 DEF OpenStill, outside, Errs, Plain, OpensClean
  <1>4. StillHolds'
    BY <1>0
       DEF OpenStill, outside, Errs, Plain, StillHolds, OpensClean, MediaTypes,
           AnswerTypes
  <1>5. VideoHolds'
    BY <1>0, FileIs
       DEF OpenStill, outside, Errs, Plain, VideoHolds, OpensClean, KindHolds,
           MediaTypes, AnswerTypes
  <1>6. CacheKept'
    BY <1>0 DEF OpenStill, outside, Errs, Plain, CacheKept, KindHolds
  <1>7. AnimatedHolds'
    BY <1>0 DEF OpenStill, outside, Errs, Plain, AnimatedHolds, Mixed, KindHolds
  <1>8. PassIsExact'
    BY <1>0
       DEF OpenStill, outside, Errs, Plain, PassIsExact, Mixed, Exact, OpensClean,
           Plain
  <1> QED  BY <1>1, <1>2, <1>3, <1>4, <1>5, <1>6, <1>7, <1>8

LEMMA OpenUnsupportedKeeps ==
    ASSUME MediaInv, OpenUnsupported
    PROVE  MediaInv'
  <1> USE DEF MediaInv
  <1>0. UNCHANGED <<file, Kind, Fits>> /\ (Overflows' <=> Overflows)
    BY DEF OpenUnsupported, decoders, outside, Errs, Plain, Kind, Fits, Overflows
  <1>a. AnswerTypes'
    BY CallsTold DEF OpenUnsupported, decoders, outside
  <1>1. MediaTypes'
    BY <1>0, <1>a, FramesDiffer
       DEF OpenUnsupported, decoders, outside, Errs, Plain, MediaTypes, SourceTypes,
           PcTypes
  <1>2. KindHolds'
    BY <1>0
       DEF OpenUnsupported, decoders, outside, Errs, Plain, KindHolds, OpensClean,
           MediaTypes
  <1>3. OpensClean'
    BY <1>0 DEF OpenUnsupported, decoders, outside, Errs, Plain, OpensClean
  <1>4. StillHolds'
    BY <1>0
       DEF OpenUnsupported, decoders, outside, Errs, Plain, StillHolds, OpensClean,
           MediaTypes, AnswerTypes
  <1>5. VideoHolds'
    BY <1>0, FileIs
       DEF OpenUnsupported, decoders, outside, Errs, Plain, VideoHolds, OpensClean,
           KindHolds, MediaTypes, AnswerTypes
  <1>6. CacheKept'
    BY <1>0 DEF OpenUnsupported, decoders, outside, Errs, Plain, CacheKept, KindHolds
  <1>7. AnimatedHolds'
    BY <1>0
       DEF OpenUnsupported, decoders, outside, Errs, Plain, AnimatedHolds, Mixed,
           KindHolds
  <1>8. PassIsExact'
    BY <1>0
       DEF OpenUnsupported, decoders, outside, Errs, Plain, PassIsExact, Mixed,
           Exact, OpensClean, Plain
  <1> QED  BY <1>1, <1>2, <1>3, <1>4, <1>5, <1>6, <1>7, <1>8

LEMMA OpenVideoKeeps ==
    ASSUME MediaInv, OpenVideo
    PROVE  MediaInv'
  <1> USE DEF MediaInv
  <1>0. UNCHANGED <<file, Kind, Fits>> /\ (Overflows' <=> Overflows)
    BY DEF OpenVideo, decoders, outside, Errs, Plain, Kind, Fits, Overflows
  <1>a. AnswerTypes'
    BY CallsTold DEF OpenVideo, decoders, outside
  <1>1. MediaTypes'
    BY <1>0, <1>a, FramesDiffer
       DEF OpenVideo, decoders, outside, Errs, Plain, MediaTypes, SourceTypes,
           PcTypes
  <1>2. KindHolds'
    BY <1>0 DEF OpenVideo, decoders, outside, Errs, Plain, KindHolds, OpensClean, MediaTypes
  <1>3. OpensClean'
    BY <1>0 DEF OpenVideo, decoders, outside, Errs, Plain, OpensClean
  <1>4. StillHolds'
    BY <1>0
       DEF OpenVideo, decoders, outside, Errs, Plain, StillHolds, OpensClean,
           MediaTypes, AnswerTypes
  <1>5. VideoHolds'
    BY <1>0, FileIs
       DEF OpenVideo, decoders, outside, Errs, Plain, VideoHolds, OpensClean,
           KindHolds, MediaTypes, AnswerTypes
  <1>6. CacheKept'
    BY <1>0 DEF OpenVideo, decoders, outside, Errs, Plain, CacheKept, KindHolds
  <1>7. AnimatedHolds'
    BY <1>0 DEF OpenVideo, decoders, outside, Errs, Plain, AnimatedHolds, Mixed, KindHolds
  <1>8. PassIsExact'
    BY <1>0
       DEF OpenVideo, decoders, outside, Errs, Plain, PassIsExact, Mixed, Exact,
           OpensClean, Plain
  <1> QED  BY <1>1, <1>2, <1>3, <1>4, <1>5, <1>6, <1>7, <1>8

LEMMA ProbeKeeps ==
    ASSUME MediaInv, Probe
    PROVE  MediaInv'
  <1> USE DEF MediaInv
  <1>0. UNCHANGED <<file, Kind, Fits>> /\ (Overflows' <=> Overflows)
    BY DEF Probe, decoders, Kind, Fits, Overflows
  <1>a. AnswerTypes'
    BY CallsTold DEF Probe, decoders
  <1>1. MediaTypes'
    BY <1>0, <1>a, FramesDiffer DEF Probe, decoders, MediaTypes, SourceTypes, PcTypes
  <1>2. KindHolds'
    BY <1>0 DEF Probe, decoders, KindHolds, OpensClean, MediaTypes
  <1>3. OpensClean'
    BY <1>0 DEF Probe, decoders, OpensClean
  <1>4. StillHolds'
    BY <1>0 DEF Probe, decoders, StillHolds, OpensClean, MediaTypes, AnswerTypes
  <1>5. VideoHolds'
    BY <1>0, FileIs
       DEF Probe, decoders, VideoHolds, OpensClean, KindHolds, MediaTypes,
           AnswerTypes
  <1>6. CacheKept'
    BY <1>0 DEF Probe, decoders, CacheKept, KindHolds
  <1>7. AnimatedHolds'
    BY <1>0 DEF Probe, decoders, AnimatedHolds, Mixed, KindHolds
  <1>8. PassIsExact'
    BY <1>0 DEF Probe, decoders, PassIsExact, Mixed, Exact, OpensClean, Plain
  <1> QED  BY <1>1, <1>2, <1>3, <1>4, <1>5, <1>6, <1>7, <1>8

LEMMA AttemptFailsKeeps ==
    ASSUME MediaInv, AttemptFails
    PROVE  MediaInv'
  <1> USE DEF MediaInv
  <1>0. UNCHANGED <<file, Kind, Fits>> /\ (Overflows' <=> Overflows)
    BY DEF AttemptFails, Untried, decoders, outside, Plain, Kind, Fits, Overflows
  <1>a. AnswerTypes'
    <2>1. answer' \in [op : {"none", "frame", "end", "error"}, frame : FrameTypes]
      BY FramesDiffer DEF AttemptFails, Untried, Plain, MediaTypes, AnswerTypes
    <2>2. pass'.given \in Nat /\ pass'.failed \in BOOLEAN /\ pass'.rewinds \in Nat
      BY DEF AttemptFails, Untried, MediaTypes, AnswerTypes
    <2>3. pass' = [given |-> pass'.given, failed |-> pass'.failed,
                   rewinds |-> pass'.rewinds, tried |-> pass'.tried]
      BY DEF AttemptFails, Untried, MediaTypes, AnswerTypes
    <2> QED  BY <2>1, <2>2, <2>3 DEF AnswerTypes
  <1>1. MediaTypes'
    BY <1>0, <1>a, FramesDiffer
       DEF AttemptFails, Untried, decoders, outside, Plain, MediaTypes, SourceTypes,
           PcTypes
  <1>2. KindHolds'
    BY <1>0
       DEF AttemptFails, Untried, decoders, outside, Plain, KindHolds, OpensClean,
           MediaTypes
  <1>3. OpensClean'
    BY <1>0 DEF AttemptFails, Untried, decoders, outside, Plain, OpensClean
  <1>4. StillHolds'
    BY <1>0
       DEF AttemptFails, Untried, decoders, outside, Plain, StillHolds, OpensClean,
           MediaTypes, AnswerTypes
  <1>5. VideoHolds'
    BY <1>0, FileIs
       DEF AttemptFails, Untried, decoders, outside, Plain, VideoHolds, OpensClean,
           KindHolds, MediaTypes, AnswerTypes
  <1>6. CacheKept'
    BY <1>0 DEF AttemptFails, Untried, decoders, outside, Plain, CacheKept, KindHolds
  <1>7. AnimatedHolds'
    BY <1>0
       DEF AttemptFails, Untried, decoders, outside, Plain, AnimatedHolds, Mixed,
           KindHolds
  <1>8. PassIsExact'
    BY <1>0
       DEF AttemptFails, Untried, decoders, outside, Plain, PassIsExact, Mixed,
           Exact, OpensClean, Plain
  <1> QED  BY <1>1, <1>2, <1>3, <1>4, <1>5, <1>6, <1>7, <1>8

LEMMA AttemptOpensKeeps ==
    ASSUME MediaInv, AttemptOpens
    PROVE  MediaInv'
  <1> USE DEF MediaInv
  <1>0. UNCHANGED <<file, Kind, Fits>> /\ (Overflows' <=> Overflows)
    BY DEF AttemptOpens, Spawned, outside, Plain, Kind, Fits, Overflows
  <1>a. AnswerTypes'
    BY CallsTold DEF AttemptOpens, Spawned, outside
  <1>1. MediaTypes'
    BY <1>0, <1>a, FileIs
       DEF AttemptOpens, Spawned, outside, Plain, MediaTypes, SourceTypes, PcTypes
  <1>2. KindHolds'
    BY <1>0 DEF AttemptOpens, Spawned, outside, Plain, KindHolds, OpensClean, MediaTypes
  <1>3. OpensClean'
    BY <1>0 DEF AttemptOpens, Spawned, outside, Plain, OpensClean
  <1>4. StillHolds'
    BY <1>0 DEF AttemptOpens, StillHolds, KindHolds
  <1>5. VideoHolds'
    BY <1>0, FileIs
       DEF AttemptOpens, Spawned, outside, Plain, VideoHolds, OpensClean, KindHolds,
           MediaTypes, AnswerTypes
  <1>6. CacheKept'
    BY <1>0 DEF AttemptOpens, Spawned, outside, Plain, CacheKept, KindHolds
  <1>7. AnimatedHolds'
    BY <1>0 DEF AttemptOpens, Spawned, outside, Plain, AnimatedHolds, Mixed, KindHolds
  <1>8. PassIsExact'
    BY <1>0
       DEF AttemptOpens, Spawned, outside, Plain, PassIsExact, Mixed, Exact,
           OpensClean, Plain
  <1> QED  BY <1>1, <1>2, <1>3, <1>4, <1>5, <1>6, <1>7, <1>8

\* The decoder of an animation that opened.
LEMMA OpenedIs ==
    ASSUME file \in Files, NEW d, d = Opened(file)
    PROVE  /\ d \in [cache : Seq(FrameTypes), pending : FrameTypes, produced : Nat,
                     at : Nat, cursor : Nat, exhausted : BOOLEAN, streaming : BOOLEAN]
           /\ d.cache = Prefix(Fits) /\ d.streaming = Overflows /\ d.cursor = 0
           /\ d.exhausted = ~Overflows
           /\ d.pending = IF Overflows THEN Frame(Fits, Fits) ELSE NoFrame
           /\ d.at = IF Overflows THEN Fits + 1 ELSE Fits
           /\ d.produced = d.at
  <1> PICK n \in Nat : n = Fits
    BY FitsIs
  <1>1. Prefix(n) \in Seq(FrameTypes) /\ Frame(n, n) \in FrameTypes
    BY PrefixIs, FramesDiffer
  <1>2. d = [cache |-> Prefix(n),
             pending |-> IF Overflows THEN Frame(n, n) ELSE NoFrame,
             produced |-> IF Overflows THEN n + 1 ELSE n,
             at |-> IF Overflows THEN n + 1 ELSE n, cursor |-> 0,
             exhausted |-> ~Overflows, streaming |-> Overflows]
    BY DEF Opened, Fits, Overflows
  <1>3. Overflows \in BOOLEAN
    BY DEF Overflows
  <1> QED  BY <1>1, <1>2, <1>3, FramesDiffer

LEMMA OpenAnimatedKeeps ==
    ASSUME MediaInv, OpenAnimated
    PROVE  MediaInv'
  <1> USE DEF MediaInv
  <1>0. UNCHANGED <<file, Kind, Fits>> /\ (Overflows' <=> Overflows)
    BY DEF OpenAnimated, outside, Errs, Plain, Kind, Fits, Overflows
  <1>a. AnswerTypes'
    BY CallsTold DEF OpenAnimated, outside
  <1>1. MediaTypes'
    BY <1>0, <1>a, OpenedIs DEF OpenAnimated, outside, MediaTypes, PcTypes, SourceTypes
  <1>2. KindHolds'
    BY <1>0 DEF OpenAnimated, outside, Errs, Plain, KindHolds, OpensClean, MediaTypes
  <1>3. OpensClean'
    BY <1>0 DEF OpenAnimated, outside, Errs, Plain, OpensClean
  <1>4. StillHolds'
    BY <1>0
       DEF OpenAnimated, outside, Errs, Plain, StillHolds, OpensClean, MediaTypes,
           AnswerTypes
  <1>5. VideoHolds'
    BY <1>0, FileIs
       DEF OpenAnimated, outside, Errs, Plain, VideoHolds, OpensClean, KindHolds,
           MediaTypes, AnswerTypes
  <1>6. CacheKept'
    BY <1>0, OpenedIs DEF OpenAnimated, CacheKept, MediaTypes
  <1>7. AnimatedHolds'
    <2> SUFFICES ASSUME Opens(file)
                 PROVE  AnimatedHolds'
      BY DEF OpenAnimated, AnimatedHolds
    <2>1. source' = Opened(file) /\ UNCHANGED pass /\ pass.given = 0 /\ file \in Files
      BY DEF OpenAnimated, OpensClean, MediaTypes
    <2>2. /\ source'.cursor = 0 /\ source'.exhausted = ~Overflows
          /\ source'.pending = IF Overflows THEN Frame(Fits, Fits) ELSE NoFrame
          /\ source'.at = IF Overflows THEN Fits + 1 ELSE Fits
          /\ source'.produced = source'.at
      BY <2>1, OpenedIs
    <2>3. CASE Overflows
      <3>1. Fits \in Nat /\ Fits < file.length /\ file.length \in Nat
        BY <2>1, <2>3, FitsIs, FileIs
      <3>2. /\ ~source'.exhausted /\ source'.pending = Frame(Fits, Fits)
            /\ Frame(Fits, Fits) # NoFrame
            /\ source'.at = Fits + 1 /\ source'.produced = Fits + 1
        BY <2>2, <2>3, <3>1, FramesDiffer
      <3>3. source'.cursor = pass'.given /\ source'.at <= file.length
            /\ source'.cursor <= Fits
        BY <2>1, <2>2, <3>1, <3>2
      <3> QED  BY <1>0, <2>3, <3>2, <3>3 DEF AnimatedHolds
    <2>4. CASE ~Overflows
      <3>1. source'.exhausted
        BY <2>2, <2>4
      <3>2. source'.pending = NoFrame /\ source'.at = Fits
        BY <2>2, <2>4
      <3>3. file.length \in Nat /\ Fits = file.length
        BY <2>1, <2>4, FileIs, FitsIs
      <3>4. source'.cursor = pass'.given /\ source'.cursor <= file.length
            /\ source'.at <= file.length
        BY <2>1, <2>2, <3>2, <3>3
      <3> QED  BY <1>0, <2>4, <3>1, <3>2, <3>4 DEF AnimatedHolds
    <2> QED  BY <2>3, <2>4
  <1>8. PassIsExact'
    BY <1>0
       DEF OpenAnimated, outside, Errs, Plain, PassIsExact, Mixed, Exact, OpensClean,
           Plain
  <1> QED  BY <1>1, <1>2, <1>3, <1>4, <1>5, <1>6, <1>7, <1>8

LEMMA NextStillKeeps ==
    ASSUME MediaInv, NextStill
    PROVE  MediaInv'
  <1> USE DEF MediaInv
  <1>0. UNCHANGED <<file, Kind, Fits>> /\ (Overflows' <=> Overflows)
    BY DEF NextStill, outside, Ends, Gives, Plain, Given, Frame, Kind, Fits, Overflows
  <1>a. AnswerTypes'
    BY CallsTold, FramesDiffer DEF NextStill, outside, Given, Frame
  <1>1. MediaTypes'
    BY <1>0, <1>a, FileIs
       DEF NextStill, outside, Ends, Gives, Plain, Given, Frame, MediaTypes, PcTypes,
           SourceTypes
  <1>2. KindHolds'
    BY <1>0
       DEF NextStill, outside, Ends, Gives, Plain, Given, Frame, KindHolds,
           VideoHolds, OpensClean, MediaTypes
  <1>3. OpensClean'
    BY <1>0
       DEF NextStill, outside, Ends, Gives, Plain, Given, Frame, OpensClean,
           KindHolds, VideoHolds, NoChild
  <1>4. StillHolds'
    BY <1>0
       DEF NextStill, outside, Ends, Gives, Plain, Given, Frame, StillHolds,
           MediaTypes, AnswerTypes, KindHolds
  <1>5. VideoHolds'
    BY <1>0, FileIs
       DEF NextStill, outside, Ends, Gives, Plain, Given, Frame, VideoHolds,
           OpensClean, KindHolds, MediaTypes, AnswerTypes, NoChild
  <1>6. CacheKept'
    BY <1>0 DEF NextStill, outside, Ends, Gives, Plain, Given, Frame, CacheKept, KindHolds
  <1>7. AnimatedHolds'
    BY <1>0
       DEF NextStill, outside, Ends, Gives, Plain, Given, Frame, AnimatedHolds,
           Mixed, KindHolds
  <1>8. PassIsExact'
    BY <1>0, FileIs
       DEF NextStill, outside, Ends, Gives, Plain, Given, Frame, PassIsExact, Mixed,
           Exact, StillHolds, VideoHolds, KindHolds, MediaTypes, AnswerTypes, Plain,
           Given
  <1> QED  BY <1>1, <1>2, <1>3, <1>4, <1>5, <1>6, <1>7, <1>8

LEMMA NextVideoKeeps ==
    ASSUME MediaInv, NextVideo
    PROVE  MediaInv'
  <1> USE DEF MediaInv
  <1>0. UNCHANGED <<file, Kind, Fits>> /\ (Overflows' <=> Overflows)
    BY DEF NextVideo, decoders, outside, Ends, Plain, Kind, Fits, Overflows
  <1>a. AnswerTypes'
    BY CallsTold DEF NextVideo, decoders, outside
  <1>1. MediaTypes'
    BY <1>0, <1>a, FileIs
       DEF NextVideo, decoders, outside, Ends, Plain, MediaTypes, PcTypes,
           SourceTypes
  <1>2. KindHolds'
    BY <1>0
       DEF NextVideo, decoders, outside, Ends, Plain, KindHolds, VideoHolds,
           OpensClean, MediaTypes
  <1>3. OpensClean'
    BY <1>0
       DEF NextVideo, decoders, outside, Ends, Plain, OpensClean, KindHolds,
           VideoHolds, NoChild
  <1>4. StillHolds'
    BY <1>0
       DEF NextVideo, decoders, outside, Ends, Plain, StillHolds, MediaTypes,
           AnswerTypes, KindHolds
  <1>5. VideoHolds'
    BY <1>0, FileIs
       DEF NextVideo, decoders, outside, Ends, Plain, VideoHolds, OpensClean,
           KindHolds, MediaTypes, AnswerTypes, NoChild
  <1>6. CacheKept'
    BY <1>0 DEF NextVideo, decoders, outside, Ends, Plain, CacheKept, KindHolds
  <1>7. AnimatedHolds'
    BY <1>0 DEF NextVideo, decoders, outside, Ends, Plain, AnimatedHolds, Mixed, KindHolds
  <1>8. PassIsExact'
    BY <1>0, FileIs
       DEF NextVideo, decoders, outside, Ends, Plain, PassIsExact, Mixed, Exact,
           StillHolds, VideoHolds, KindHolds, MediaTypes, AnswerTypes, Plain, Given
  <1> QED  BY <1>1, <1>2, <1>3, <1>4, <1>5, <1>6, <1>7, <1>8

LEMMA ReadFrameKeeps ==
    ASSUME MediaInv, ReadFrame
    PROVE  MediaInv'
  <1> USE DEF MediaInv
  <1>0. UNCHANGED <<file, Kind, Fits>> /\ (Overflows' <=> Overflows)
    BY DEF ReadFrame, outside, Kind, Fits, Overflows
  <1> PICK k \in Nat : k = video.next_index
    BY DEF MediaTypes
  <1> PICK f \in FrameTypes : f = Frame(k, k)
    BY FramesDiffer
  <1>a. AnswerTypes'
    <2>1. Gives(f)
      BY DEF ReadFrame
    <2> QED  BY <2>1, CallsTold
  <1>b. /\ video'.arc \in Nat /\ video'.next_index \in Nat /\ video'.finished \in BOOLEAN
        /\ video' = [runtime |-> video'.runtime, arc |-> video'.arc,
                     next_index |-> video'.next_index, finished |-> video'.finished]
    BY DEF ReadFrame, MediaTypes
  <1>c. child' \in [state : {"none", "running", "stuck", "closing", "ended",
                                "failed", "killed"},
                       left : Nat, pipe : Nat, torn : BOOLEAN]
    BY DEF ReadFrame, MediaTypes
  <1>1. MediaTypes'
    BY <1>0, <1>a, <1>b, <1>c DEF ReadFrame, outside, MediaTypes, PcTypes, SourceTypes
  <1>2. KindHolds'
    BY <1>0
       DEF ReadFrame, outside, Gives, Given, Frame, KindHolds, VideoHolds,
           OpensClean, MediaTypes
  <1>3. OpensClean'
    BY <1>0
       DEF ReadFrame, outside, Gives, Given, Frame, OpensClean, KindHolds,
           VideoHolds, NoChild
  <1>4. StillHolds'
    BY <1>0
       DEF ReadFrame, outside, Gives, Given, Frame, StillHolds, MediaTypes,
           AnswerTypes, KindHolds
  <1>5. VideoHolds'
    BY <1>0, FileIs
       DEF ReadFrame, outside, Gives, Given, Frame, VideoHolds, OpensClean,
           KindHolds, MediaTypes, AnswerTypes, NoChild
  <1>6. CacheKept'
    BY <1>0 DEF ReadFrame, outside, Gives, Given, Frame, CacheKept, KindHolds
  <1>7. AnimatedHolds'
    BY <1>0 DEF ReadFrame, outside, Gives, Given, Frame, AnimatedHolds, Mixed, KindHolds
  <1>8. PassIsExact'
    BY <1>0, FileIs
       DEF ReadFrame, outside, Gives, Given, Frame, PassIsExact, Mixed, Exact,
           StillHolds, VideoHolds, KindHolds, MediaTypes, AnswerTypes, Plain, Given
  <1> QED  BY <1>1, <1>2, <1>3, <1>4, <1>5, <1>6, <1>7, <1>8

LEMMA ReadFailsKeeps ==
    ASSUME MediaInv, ReadFails
    PROVE  MediaInv'
  <1> USE DEF MediaInv
  <1>0. UNCHANGED <<file, Kind, Fits>> /\ (Overflows' <=> Overflows)
    BY DEF ReadFails, StopChild, NoChild, outside, Errs, Plain, Kind, Fits, Overflows
  <1>a. AnswerTypes'
    BY CallsTold DEF ReadFails, StopChild, NoChild, outside
  <1>1. MediaTypes'
    BY <1>0, <1>a, FileIs
       DEF ReadFails, StopChild, NoChild, outside, Errs, Plain, MediaTypes, PcTypes,
           SourceTypes
  <1>2. KindHolds'
    BY <1>0
       DEF ReadFails, StopChild, NoChild, outside, Errs, Plain, KindHolds,
           VideoHolds, OpensClean, MediaTypes
  <1>3. OpensClean'
    BY <1>0
       DEF ReadFails, StopChild, NoChild, outside, Errs, Plain, OpensClean,
           KindHolds, VideoHolds, NoChild
  <1>4. StillHolds'
    BY <1>0
       DEF ReadFails, StopChild, NoChild, outside, Errs, Plain, StillHolds,
           MediaTypes, AnswerTypes, KindHolds
  <1>5. VideoHolds'
    BY <1>0, FileIs
       DEF ReadFails, StopChild, NoChild, outside, Errs, Plain, VideoHolds,
           OpensClean, KindHolds, MediaTypes, AnswerTypes, NoChild
  <1>6. CacheKept'
    BY <1>0 DEF ReadFails, StopChild, NoChild, outside, Errs, Plain, CacheKept, KindHolds
  <1>7. AnimatedHolds'
    BY <1>0
       DEF ReadFails, StopChild, NoChild, outside, Errs, Plain, AnimatedHolds, Mixed,
           KindHolds
  <1>8. PassIsExact'
    BY <1>0, FileIs
       DEF ReadFails, StopChild, NoChild, outside, Errs, Plain, PassIsExact, Mixed,
           Exact, StillHolds, VideoHolds, KindHolds, MediaTypes, AnswerTypes, Plain,
           Given
  <1> QED  BY <1>1, <1>2, <1>3, <1>4, <1>5, <1>6, <1>7, <1>8

LEMMA ReadEndsKeeps ==
    ASSUME MediaInv, ReadEnds
    PROVE  MediaInv'
  <1> USE DEF MediaInv
  <1>0. UNCHANGED <<file, Kind, Fits>> /\ (Overflows' <=> Overflows)
    BY DEF ReadEnds, Closed, outside, Kind, Fits, Overflows
  <1>a. AnswerTypes'
    BY CallsTold DEF ReadEnds, Closed, outside
  <1>1. MediaTypes'
    BY <1>0, <1>a, FileIs DEF ReadEnds, Closed, outside, MediaTypes, PcTypes, SourceTypes
  <1>2. KindHolds'
    BY <1>0 DEF ReadEnds, Closed, outside, KindHolds, VideoHolds, OpensClean, MediaTypes
  <1>3. OpensClean'
    BY <1>0 DEF ReadEnds, Closed, outside, OpensClean, KindHolds, VideoHolds, NoChild
  <1>4. StillHolds'
    BY <1>0 DEF ReadEnds, Closed, outside, StillHolds, MediaTypes, AnswerTypes, KindHolds
  <1>5. VideoHolds'
    BY <1>0, FileIs
       DEF ReadEnds, Closed, outside, VideoHolds, OpensClean, KindHolds, MediaTypes,
           AnswerTypes, NoChild
  <1>6. CacheKept'
    BY <1>0 DEF ReadEnds, Closed, outside, CacheKept, KindHolds
  <1>7. AnimatedHolds'
    BY <1>0 DEF ReadEnds, Closed, outside, AnimatedHolds, Mixed, KindHolds
  <1>8. PassIsExact'
    BY <1>0, FileIs
       DEF ReadEnds, Closed, outside, PassIsExact, Mixed, Exact, StillHolds,
           VideoHolds, KindHolds, MediaTypes, AnswerTypes, Plain, Given
  <1> QED  BY <1>1, <1>2, <1>3, <1>4, <1>5, <1>6, <1>7, <1>8

LEMMA ReapKeeps ==
    ASSUME MediaInv, Reap
    PROVE  MediaInv'
  <1> USE DEF MediaInv
  <1>0. UNCHANGED <<file, Kind, Fits>> /\ (Overflows' <=> Overflows)
    BY DEF Reap, NoChild, outside, Errs, Ends, Plain, Kind, Fits, Overflows
  <1>a. AnswerTypes'
    BY CallsTold DEF Reap, NoChild, outside
  <1>1. MediaTypes'
    BY <1>0, <1>a, FileIs
       DEF Reap, NoChild, outside, Errs, Ends, Plain, MediaTypes, PcTypes,
           SourceTypes
  <1>2. KindHolds'
    BY <1>0
       DEF Reap, NoChild, outside, Errs, Ends, Plain, KindHolds, VideoHolds,
           OpensClean, MediaTypes
  <1>3. OpensClean'
    BY <1>0
       DEF Reap, NoChild, outside, Errs, Ends, Plain, OpensClean, KindHolds,
           VideoHolds, NoChild
  <1>4. StillHolds'
    BY <1>0
       DEF Reap, NoChild, outside, Errs, Ends, Plain, StillHolds, MediaTypes,
           AnswerTypes, KindHolds
  <1>5. VideoHolds'
    BY <1>0, FileIs
       DEF Reap, NoChild, outside, Errs, Ends, Plain, VideoHolds, OpensClean,
           KindHolds, MediaTypes, AnswerTypes, NoChild
  <1>6. CacheKept'
    BY <1>0 DEF Reap, NoChild, outside, Errs, Ends, Plain, CacheKept, KindHolds
  <1>7. AnimatedHolds'
    BY <1>0 DEF Reap, NoChild, outside, Errs, Ends, Plain, AnimatedHolds, Mixed, KindHolds
  <1>8. PassIsExact'
    BY <1>0, FileIs
       DEF Reap, NoChild, outside, Errs, Ends, Plain, PassIsExact, Mixed, Exact,
           StillHolds, VideoHolds, KindHolds, MediaTypes, AnswerTypes, Plain, Given
  <1> QED  BY <1>1, <1>2, <1>3, <1>4, <1>5, <1>6, <1>7, <1>8

LEMMA DropKeeps ==
    ASSUME MediaInv, Drop
    PROVE  MediaInv'
  <1> USE DEF MediaInv
  <1>0. UNCHANGED <<file, Kind, Fits>> /\ (Overflows' <=> Overflows)
    BY DEF Drop, StopChild, NoChild, outside, Kind, Fits, Overflows
  <1>a. AnswerTypes'
    BY CallsTold DEF Drop, StopChild, NoChild, outside
  <1>1. MediaTypes'
    BY <1>0, <1>a, FileIs
       DEF Drop, StopChild, NoChild, outside, MediaTypes, PcTypes, SourceTypes
  <1>2. KindHolds'
    BY <1>0
       DEF Drop, StopChild, NoChild, outside, KindHolds, VideoHolds, OpensClean,
           MediaTypes
  <1>3. OpensClean'
    BY <1>0
       DEF Drop, StopChild, NoChild, outside, OpensClean, KindHolds, VideoHolds,
           NoChild
  <1>4. StillHolds'
    BY <1>0
       DEF Drop, StopChild, NoChild, outside, StillHolds, MediaTypes, AnswerTypes,
           KindHolds
  <1>5. VideoHolds'
    BY <1>0, FileIs
       DEF Drop, StopChild, NoChild, outside, VideoHolds, OpensClean, KindHolds,
           MediaTypes, AnswerTypes, NoChild
  <1>6. CacheKept'
    BY <1>0 DEF Drop, StopChild, NoChild, outside, CacheKept, KindHolds
  <1>7. AnimatedHolds'
    BY <1>0 DEF Drop, StopChild, NoChild, outside, AnimatedHolds, Mixed, KindHolds
  <1>8. PassIsExact'
    BY <1>0, FileIs
       DEF Drop, StopChild, NoChild, outside, PassIsExact, Mixed, Exact, StillHolds,
           VideoHolds, KindHolds, MediaTypes, AnswerTypes, Plain, Given
  <1> QED  BY <1>1, <1>2, <1>3, <1>4, <1>5, <1>6, <1>7, <1>8

\* A process that is there is a video's, opened and not dropped.
LEMMA ChildIs ==
    ASSUME MediaInv, child.state # "none"
    PROVE  Kind = "video" /\ pc \in {"open", "reading", "reaping"}
  BY DEF MediaInv, KindHolds, OpensClean, MediaTypes, PcTypes, NoChild

\* What a process does is between it and its pipe.
LEMMA ProcessDoes ==
    ASSUME MediaInv, Process
    PROVE  /\ child.state = "running"
           /\ child' \in [state : {"none", "running", "stuck", "closing", "ended",
                            "failed", "killed"},
                   left : Nat, pipe : Nat, torn : BOOLEAN]
           /\ child'.state # "none" /\ child'.left + child'.pipe = child.left + child.pipe
           /\ child'.state \in {"ended", "closing"} => child'.left = 0
           /\ child'.torn => child'.state = "failed"
  <1>1. child \in [state : {"none", "running", "stuck", "closing", "ended",
                          "failed", "killed"},
                  left : Nat, pipe : Nat, torn : BOOLEAN]
    BY DEF MediaInv, MediaTypes
  <1>2. child.torn => child.state = "failed"
    BY DEF MediaInv, VideoHolds
  <1>3. CASE WriteOut
    <2>1. /\ child.state = "running" /\ child.left > 0 /\ child.pipe = 0
          /\ child' = [child EXCEPT !.left = @ - 1, !.pipe = 1]
      BY <1>3 DEF WriteOut, Pipeline
    <2>2. /\ child'.state = "running" /\ child'.left = child.left - 1 /\ child'.pipe = 1
          /\ child'.torn = child.torn
      BY <1>1, <2>1
    <2>3. child'.left \in Nat /\ child'.left + child'.pipe = child.left + child.pipe
      BY <1>1, <2>1, <2>2
    <2> QED  BY <1>1, <1>2, <2>1, <2>2, <2>3
  <1>4. CASE Exit
    BY <1>1, <1>2, <1>4 DEF Exit, Pipeline
  <1>5. CASE Die
    BY <1>1, <1>2, <1>5 DEF Die, Pipeline
  <1>6. CASE Stick
    BY <1>1, <1>2, <1>6 DEF Stick, Pipeline
  <1> QED  BY <1>3, <1>4, <1>5, <1>6 DEF Process

\* What the handle reaches is killed, or had ended before.
LEMMA CancelDoes ==
    ASSUME MediaInv, Cancel
    PROVE  \/ UNCHANGED child
           \/ /\ child' \in [state : {"none", "running", "stuck", "closing", "ended",
                               "failed", "killed"},
                      left : Nat, pipe : Nat, torn : BOOLEAN]
              /\ child.state # "none" /\ child'.state = "killed" /\ ~child'.torn
              /\ child'.left = child.left /\ child'.pipe = child.pipe
  <1>1. child \in [state : {"none", "running", "stuck", "closing", "ended",
                          "failed", "killed"},
                  left : Nat, pipe : Nat, torn : BOOLEAN]
    BY DEF MediaInv, MediaTypes
  <1>2. child.torn => child.state = "failed"
    BY DEF MediaInv, VideoHolds
  <1> QED  BY <1>1, <1>2 DEF Cancel, Kill, Alive

LEMMA CancelKeeps ==
    ASSUME MediaInv, Cancel
    PROVE  MediaInv'
  <1> USE DEF MediaInv
  <1>0. UNCHANGED <<file, Kind, Fits>> /\ (Overflows' <=> Overflows)
    BY DEF Cancel, Closed, Kind, Fits, Overflows
  <1>a. AnswerTypes'
    BY CallsTold DEF Cancel, Alive, Closed
  <1>1. MediaTypes'
    BY <1>0, ChildIs, CancelDoes, <1>a, FileIs
       DEF Cancel, Closed, MediaTypes, PcTypes, SourceTypes
  <1>2. KindHolds'
    BY <1>0, ChildIs, CancelDoes
       DEF Cancel, Closed, KindHolds, VideoHolds, OpensClean, MediaTypes
  <1>3. OpensClean'
    BY <1>0, ChildIs, CancelDoes
       DEF Cancel, Closed, OpensClean, KindHolds, VideoHolds, NoChild
  <1>4. StillHolds'
    BY <1>0, ChildIs, CancelDoes
       DEF Cancel, Closed, StillHolds, MediaTypes, AnswerTypes, KindHolds
  <1>5. VideoHolds'
    <2>1. UNCHANGED <<pc, video, pass>>
      BY DEF Cancel
    <2>2. CASE UNCHANGED child
      BY <1>0, <2>1, <2>2 DEF VideoHolds
    <2>3. CASE ~UNCHANGED child
      <3>1. /\ child.state # "none" /\ child'.state = "killed" /\ ~child'.torn
            /\ child'.left = child.left /\ child'.pipe = child.pipe
        BY <2>3, CancelDoes
      <3>2. child'.left + child'.pipe + pass.given = file.length
        BY <3>1 DEF VideoHolds
      <3>3. ~(Kind = "video" /\ pc = "open" /\ video.finished)
        BY <3>1 DEF VideoHolds, NoChild
      <3> QED  BY <1>0, <2>1, <3>1, <3>2, <3>3 DEF VideoHolds, Closed
    <2> QED  BY <2>2, <2>3
  <1>6. CacheKept'
    BY <1>0, ChildIs, CancelDoes DEF Cancel, Closed, CacheKept, KindHolds
  <1>7. AnimatedHolds'
    BY <1>0, ChildIs, CancelDoes DEF Cancel, Closed, AnimatedHolds, Mixed, KindHolds
  <1>8. PassIsExact'
    BY <1>0, ChildIs, CancelDoes, FileIs
       DEF Cancel, Closed, PassIsExact, Mixed, Exact, StillHolds, VideoHolds,
           KindHolds, MediaTypes, AnswerTypes, Plain, Given
  <1> QED  BY <1>1, <1>2, <1>3, <1>4, <1>5, <1>6, <1>7, <1>8

LEMMA PipelineKeeps ==
    ASSUME MediaInv, Process
    PROVE  MediaInv'
  <1> USE DEF MediaInv
  <1>0. UNCHANGED <<file, Kind, Fits>> /\ (Overflows' <=> Overflows)
    BY DEF Process, WriteOut, Exit, Die, Stick, Pipeline, outside, Kind, Fits, Overflows
  <1>b. UNCHANGED <<pc, still, source, video, answer, pass>>
    BY DEF Process, WriteOut, Exit, Die, Stick, Pipeline, outside
  <1>a. AnswerTypes'
    BY CallsTold DEF Process, WriteOut, Exit, Die, Stick, Pipeline, Alive, Closed, outside
  <1>1. MediaTypes'
    BY <1>0, <1>b, ChildIs, ProcessDoes, <1>a, FileIs
       DEF Closed, MediaTypes, PcTypes, SourceTypes
  <1>2. KindHolds'
    BY <1>0, <1>b, ChildIs, ProcessDoes
       DEF Closed, KindHolds, VideoHolds, OpensClean, MediaTypes
  <1>3. OpensClean'
    BY <1>0, <1>b, ChildIs, ProcessDoes
       DEF Closed, OpensClean, KindHolds, VideoHolds, NoChild
  <1>4. StillHolds'
    BY <1>0, <1>b, ChildIs, ProcessDoes
       DEF Closed, StillHolds, MediaTypes, AnswerTypes, KindHolds
  <1>5. VideoHolds'
    <2>1. /\ Kind = "video" /\ pc \in {"open", "reading"}
          /\ child.left + child.pipe + pass.given = file.length
          /\ video.next_index = pass.given
          /\ pc = "open" => ~video.finished
      BY ProcessDoes, ChildIs DEF VideoHolds, Closed, NoChild
    <2>2. child'.left + child'.pipe + pass.given = file.length
      BY <2>1, ProcessDoes DEF MediaTypes, AnswerTypes
    <2> QED  BY <1>0, <1>b, <2>1, <2>2, ProcessDoes DEF VideoHolds
  <1>6. CacheKept'
    BY <1>0, <1>b, ChildIs, ProcessDoes DEF Closed, CacheKept, KindHolds
  <1>7. AnimatedHolds'
    BY <1>0, <1>b, ChildIs, ProcessDoes DEF Closed, AnimatedHolds, Mixed, KindHolds
  <1>8. PassIsExact'
    BY <1>0, <1>b, ChildIs, ProcessDoes, FileIs
       DEF Closed, PassIsExact, Mixed, Exact, StillHolds, VideoHolds, KindHolds,
           MediaTypes, AnswerTypes, Plain, Given
  <1> QED  BY <1>1, <1>2, <1>3, <1>4, <1>5, <1>6, <1>7, <1>8

LEMMA OthersKeep ==
    ASSUME MediaInv, UNCHANGED <<file, pc, still, source, video, child, answer, pass>>
    PROVE  MediaInv'
  BY DEF MediaInv, MediaTypes, SourceTypes, AnswerTypes, KindHolds, OpensClean,
         StillHolds, VideoHolds, CacheKept, AnimatedHolds, PassIsExact, Exact, Mixed,
         Kind, Fits, Overflows

\* A rewind starts a new pass, or leaves the decoder as it was and says so.
LEMMA RewindKeeps ==
    ASSUME MediaInv, Rewind
    PROVE  MediaInv'
  <1> USE DEF MediaInv
  <1> PICK ok \in BOOLEAN :
        /\ answer' = Plain(IF ok THEN "none" ELSE "error")
        /\ pass' = [pass EXCEPT !.rewinds = @ + 1, !.failed = ~ok,
                        !.given = IF ok \/ Kind = "video" THEN 0 ELSE @]
        /\ CASE Kind = "static-image" ->
                   still' = (still \/ ok) /\ UNCHANGED <<source, video, child>>
             [] Kind = "animated-image" ->
                   /\ source' = IF ok THEN Rewound(source) ELSE source
                   /\ UNCHANGED <<still, video, child>>
             [] Kind = "video" ->
                   /\ child' = IF ok THEN Spawned ELSE NoChild
                   /\ video' = [video EXCEPT !.next_index = 0, !.finished = ~ok,
                                             !.arc = IF ok THEN @ + 1 ELSE @]
                   /\ UNCHANGED <<still, source>>
    BY DEF Rewind, Reopens
  <1>0. UNCHANGED <<file, pc, Kind, Fits>> /\ (Overflows' <=> Overflows) /\ pc = "open"
    BY DEF Rewind, outside, Kind, Fits, Overflows
  <1>1. /\ answer'.op \in {"none", "error"}
        /\ answer' \in [op : {"none", "frame", "end", "error"}, frame : FrameTypes]
    BY FramesDiffer DEF Plain
  <1>2. /\ pass'.given \in Nat /\ pass'.rewinds = pass.rewinds + 1 /\ pass'.rewinds \in Nat
        /\ pass'.failed = ~ok /\ pass'.failed \in BOOLEAN
        /\ pass'.given = IF ok \/ Kind = "video" THEN 0 ELSE pass.given
        /\ pass' = [given |-> pass'.given, failed |-> pass'.failed,
                    rewinds |-> pass'.rewinds, tried |-> pass'.tried]
    <2>1. pass' = [given |-> IF ok \/ Kind = "video" THEN 0 ELSE pass.given,
                   failed |-> ~ok, rewinds |-> pass.rewinds + 1, tried |-> pass.tried]
      BY DEF MediaTypes, AnswerTypes
    <2>2. pass.given \in Nat /\ pass.rewinds \in Nat
      BY DEF MediaTypes, AnswerTypes
    <2>3. /\ pass'.given = IF ok \/ Kind = "video" THEN 0 ELSE pass.given
          /\ pass'.failed = ~ok /\ pass'.rewinds = pass.rewinds + 1
          /\ pass'.tried = pass.tried
      BY <2>1
    <2>4. pass' = [given |-> pass'.given, failed |-> pass'.failed,
                   rewinds |-> pass'.rewinds, tried |-> pass'.tried]
      BY <2>1
    <2>5. pass'.given \in Nat /\ pass'.failed \in BOOLEAN /\ pass'.rewinds \in Nat
      BY <2>2, <2>3
    <2> QED  BY <2>3, <2>4, <2>5
  <1>3. AnswerTypes' /\ PassIsExact' /\ OpensClean'
    BY <1>0, <1>1, <1>2 DEF AnswerTypes, PassIsExact, Exact, OpensClean
  <1>4. CASE Kind = "static-image"
    <2>1. still' = (still \/ ok) /\ UNCHANGED <<source, video, child>>
      BY <1>4
    <2>2. StillHolds'
      BY <1>0, <1>2, <1>4, <2>1 DEF StillHolds, MediaTypes
    <2>3. MediaTypes'
      BY <1>0, <1>3, <2>1 DEF MediaTypes, SourceTypes
    <2>4. KindHolds' /\ VideoHolds' /\ CacheKept' /\ AnimatedHolds'
      BY <1>0, <1>4, <2>1 DEF KindHolds, VideoHolds, NoChild, CacheKept, AnimatedHolds
    <2> QED  BY <1>3, <2>2, <2>3, <2>4
  <1>5. CASE Kind = "video"
    <2>1. /\ child' = IF ok THEN Spawned ELSE NoChild
          /\ video' = [video EXCEPT !.next_index = 0, !.finished = ~ok,
                                    !.arc = IF ok THEN @ + 1 ELSE @]
          /\ UNCHANGED <<still, source>>
      BY <1>5
    <2>2. /\ video'.arc \in Nat /\ video'.next_index = 0 /\ video'.finished = ~ok
          /\ video' = [runtime |-> video'.runtime, arc |-> video'.arc,
                       next_index |-> video'.next_index, finished |-> video'.finished]
      <3>1. video' = [runtime |-> video.runtime,
                      arc |-> IF ok THEN video.arc + 1 ELSE video.arc,
                      next_index |-> 0, finished |-> ~ok]
        BY <2>1 DEF MediaTypes
      <3>2. video.arc \in Nat
        BY DEF MediaTypes
      <3> QED  BY <3>1, <3>2
    <2>3. MediaTypes'
      BY <1>0, <1>3, <2>1, <2>2, FileIs DEF MediaTypes, SourceTypes, Spawned, NoChild
    <2>4. VideoHolds'
      BY <1>0, <1>2, <1>5, <2>1, <2>2, FileIs DEF VideoHolds, Spawned, NoChild, MediaTypes
    <2>5. KindHolds' /\ StillHolds' /\ CacheKept' /\ AnimatedHolds'
      BY <1>0, <1>5 DEF KindHolds, StillHolds, CacheKept, AnimatedHolds
    <2> QED  BY <1>3, <2>3, <2>4, <2>5
  <1>6. CASE Kind = "animated-image"
    <2>1. source' = IF ok THEN Rewound(source) ELSE source
      BY <1>6
    <2>2. UNCHANGED <<still, video, child>>
      BY <1>6
    <2>3. /\ file \in Files /\ source.at \in Nat /\ source.cursor \in Nat /\ Fits \in Nat
          /\ Fits <= file.length /\ file.length \in Nat
          /\ source.streaming \in BOOLEAN /\ (source.streaming <=> Overflows)
          /\ Len(source.cache) = Fits /\ (Fits # 0 => source.cache # << >>)
      <3>1. file \in Files /\ source.cache \in Seq(FrameTypes)
        BY DEF MediaTypes, SourceTypes
      <3>2. Len(source.cache) = Fits
        BY <1>0, <1>6, ServesFromCache
      <3> QED  BY <1>0, <1>6, <3>1, <3>2, FileIs, FitsIs
               DEF MediaTypes, SourceTypes, CacheKept, Overflows
    <2>4. CASE ok
      <3>1. /\ source'.at = 0 /\ source'.pending = NoFrame /\ source'.cursor = 0
            /\ source'.produced = Fits /\ source'.exhausted = ~source.streaming
            /\ source'.cache = source.cache /\ source'.streaming = source.streaming
            /\ SourceTypes'
        BY <2>1, <2>3, <2>4, FramesDiffer DEF Rewound, MediaTypes, SourceTypes
      <3>2. CacheKept'
        BY <1>0, <1>6, <3>1 DEF CacheKept
      <3>3. AnimatedHolds'
        <4>1. SUFFICES ASSUME ~Mixed'
                       PROVE  AnimatedHolds'
          BY DEF AnimatedHolds
        <4>2. Overflows => Fits = 0
          BY <1>0, <1>2, <1>6, <2>3, <3>1, <4>1 DEF Mixed, MediaTypes, AnswerTypes
        <4>3. pass'.given = 0
          BY <1>2, <2>4
        <4>4. ~Overflows => source'.exhausted
          BY <2>3, <3>1
        <4>5. Overflows => ~source'.exhausted
          BY <2>3, <3>1
        <4> QED  BY <1>0, <2>3, <3>1, <4>2, <4>3, <4>4, <4>5 DEF AnimatedHolds
      <3>4. MediaTypes'
        BY <1>0, <1>3, <2>2, <3>1 DEF MediaTypes
      <3>5. KindHolds' /\ VideoHolds' /\ StillHolds'
        BY <1>0, <1>6, <2>2 DEF KindHolds, VideoHolds, NoChild, StillHolds
      <3> QED  BY <1>3, <3>2, <3>3, <3>4, <3>5
    <2>5. CASE ~ok
      <3>1. source' = source /\ pass'.given = pass.given /\ pass'.failed
        BY <1>2, <1>6, <2>1, <2>5
      <3>2. CacheKept'
        BY <1>0, <1>6, <3>1 DEF CacheKept
      <3>3. AnimatedHolds'
        <4>1. Mixed => Mixed'
          BY <1>0, <1>2, <3>1 DEF Mixed, MediaTypes, AnswerTypes
        <4> QED  BY <1>0, <3>1, <4>1 DEF AnimatedHolds
      <3>4. MediaTypes'
        BY <1>0, <1>3, <2>2, <3>1 DEF MediaTypes, SourceTypes
      <3>5. KindHolds' /\ VideoHolds' /\ StillHolds'
        BY <1>0, <1>6, <2>2 DEF KindHolds, VideoHolds, NoChild, StillHolds
      <3> QED  BY <1>3, <3>2, <3>3, <3>4, <3>5
    <2> QED  BY <2>4, <2>5
  <1> QED  BY <1>0, <1>4, <1>5, <1>6 DEF KindHolds

\* The next frame of an animation is the one after those that were given, from
\* wherever it is taken; there is none only at the end or after an error.
LEMMA NextAnimatedKeeps ==
    ASSUME MediaInv, NextAnimated
    PROVE  MediaInv'
  <1> USE DEF MediaInv
  <1>0. /\ UNCHANGED <<file, pc, Kind, Fits>> /\ (Overflows' <=> Overflows)
        /\ UNCHANGED <<still, video, child>>
        /\ pc = "open" /\ Kind = "animated-image"
    BY DEF NextAnimated, outside, Kind, Fits, Overflows
  <1>1. /\ source \in [cache : Seq(FrameTypes), pending : FrameTypes, produced : Nat,
                       at : Nat, cursor : Nat, exhausted : BOOLEAN, streaming : BOOLEAN]
        /\ pass.given \in Nat /\ pass.failed \in BOOLEAN
    BY DEF MediaTypes, SourceTypes, AnswerTypes
  <1>2. /\ Fits \in Nat /\ file.length \in Nat /\ file.damage \in Nat
        /\ Overflows => Fits < file.length
        /\ ~Overflows => Fits = file.length
    BY FileIs, FitsIs DEF MediaTypes
  <1>3. /\ FromCache(source) <=> source.cursor < Fits
        /\ FromCache(source) =>
               Cached(source.cache, source.cursor) = Frame(source.cursor, source.cursor)
    BY <1>0, ServesFromCache
  <1>4. source.cache = Prefix(Fits) /\ source.streaming = Overflows
    BY <1>0 DEF CacheKept
  \* What there is to know of a decoder in its pass.
  <1>5. ASSUME ~Mixed
        PROVE  /\ source.cursor = pass.given /\ source.at <= file.length
               /\ ~Overflows => /\ source.exhausted /\ source.pending = NoFrame
                                /\ source.cursor <= file.length
               /\ Overflows /\ source.pending # NoFrame =>
                      /\ source.pending = Frame(Fits, Fits) /\ source.cursor <= Fits
                      /\ source.at = Fits + 1 /\ source.produced = Fits + 1
               /\ Overflows /\ source.pending = NoFrame =>
                      /\ source.at = source.cursor /\ source.produced = source.cursor
                      /\ source.cursor >= Fits
               /\ Overflows /\ source.exhausted =>
                      pass.failed \/ pass.given = file.length
    BY <1>0, <1>5 DEF AnimatedHolds
  \* What is the same for all four.
  <1>6. ASSUME SourceTypes', AnswerTypes', UNCHANGED pass.rewinds,
               source'.cache = source.cache, source'.streaming = source.streaming,
               ~Mixed => AnimatedHolds' /\ PassIsExact'
        PROVE  MediaInv'
    <2>1. Mixed' <=> Mixed
      BY <1>0, <1>6 DEF Mixed
    <2>2. AnimatedHolds' /\ PassIsExact'
      BY <1>6, <2>1 DEF AnimatedHolds, PassIsExact
    <2>3. CacheKept'
      BY <1>0, <1>4, <1>6 DEF CacheKept
    <2>4. MediaTypes'
      BY <1>0, <1>6 DEF MediaTypes
    <2>5. KindHolds' /\ OpensClean' /\ StillHolds' /\ VideoHolds'
      BY <1>0 DEF KindHolds, OpensClean, StillHolds, VideoHolds, NoChild
    <2> QED  BY <2>2, <2>3, <2>4, <2>5
  <1>7. ASSUME NEW f \in FrameTypes, Gives(f)
        PROVE  /\ AnswerTypes' /\ UNCHANGED pass.rewinds /\ UNCHANGED pass.failed
               /\ pass'.given = pass.given + 1
               /\ answer'.op = "frame" /\ answer'.frame = f
    <2>1. AnswerTypes'
      BY <1>7, CallsTold
    <2>2. pass' = [pass EXCEPT !.given = @ + 1] /\ answer' = Given(f)
      BY <1>7 DEF Gives
    <2> QED  BY <2>1, <2>2 DEF MediaTypes, AnswerTypes, Given
  <1>8. CASE FromCache(source) /\ Gives(Cached(source.cache, source.cursor))
             /\ source' = Served(source)
    <2> PICK k \in Nat : k = source.cursor
      BY <1>1
    <2> PICK f \in FrameTypes : f = Frame(k, k)
      BY FramesDiffer
    <2>1. k < Fits /\ Gives(f) /\ f.index = k /\ f.picture = k
      BY <1>3, <1>8, FramesDiffer
    <2>2. /\ SourceTypes' /\ source'.cursor = k + 1
          /\ source' = [source EXCEPT !.cursor = k + 1]
      BY <1>1, <1>8 DEF Served, SourceTypes
    <2>3. /\ source'.cache = source.cache /\ source'.streaming = source.streaming
          /\ source'.pending = source.pending /\ source'.produced = source.produced
          /\ source'.at = source.at /\ source'.exhausted = source.exhausted
      BY <1>1, <2>2
    <2>4. ASSUME ~Mixed
          PROVE  AnimatedHolds' /\ PassIsExact'
      <3>1. pass'.given = k + 1 /\ UNCHANGED pass.failed
            /\ answer'.op = "frame" /\ answer'.frame = f
        BY <1>5, <1>7, <2>1, <2>4
      <3>2. PassIsExact'
        BY <2>1, <3>1 DEF PassIsExact, Exact
      <3>3. AnimatedHolds'
        BY <1>0, <1>2, <1>5, <2>1, <2>2, <2>3, <2>4, <3>1 DEF AnimatedHolds
      <3> QED  BY <3>2, <3>3
    <2> QED  BY <1>6, <1>7, <2>1, <2>2, <2>3, <2>4
  <1>9. CASE FromPending(source) /\ Gives(source.pending)
             /\ source' = ServedPending(source)
    <2> PICK f \in FrameTypes : f = source.pending
      BY <1>1
    <2>1. /\ ~FromCache(source) /\ Gives(f) /\ f # NoFrame /\ f.index = source.cursor
      BY <1>9 DEF FromPending
    <2>2. source' = [cache |-> source.cache, pending |-> NoFrame,
                     produced |-> source.produced, at |-> source.at,
                     cursor |-> source.cursor + 1,
                     exhausted |-> source.exhausted, streaming |-> source.streaming]
      BY <1>1, <1>9 DEF ServedPending
    <2>5. SourceTypes'
      BY <1>1, <2>2, FramesDiffer DEF SourceTypes
    <2>3. /\ source'.cache = source.cache /\ source'.streaming = source.streaming
          /\ source'.pending = NoFrame /\ source'.produced = source.produced
          /\ source'.at = source.at /\ source'.exhausted = source.exhausted
          /\ source'.cursor = source.cursor + 1
      BY <1>1, <2>2
    <2>4. ASSUME ~Mixed
          PROVE  AnimatedHolds' /\ PassIsExact'
      <3>1. Overflows /\ source.cursor = Fits
        BY <1>1, <1>2, <1>3, <1>5, <2>1, <2>4
      <3>2. f = Frame(Fits, Fits) /\ f.index = Fits /\ f.picture = Fits
        BY <1>2, <1>5, <2>1, <2>4, <3>1, FramesDiffer
      <3>3. pass'.given = Fits + 1 /\ UNCHANGED pass.failed
            /\ answer'.op = "frame" /\ answer'.frame = f
        BY <1>5, <1>7, <2>1, <2>4, <3>1
      <3>4. PassIsExact'
        BY <1>2, <3>2, <3>3 DEF PassIsExact, Exact
      <3>5. AnimatedHolds'
        BY <1>0, <1>2, <1>5, <2>1, <2>3, <2>4, <3>1, <3>3 DEF AnimatedHolds
      <3> QED  BY <3>4, <3>5
    <2> QED  BY <1>6, <1>7, <2>1, <2>3, <2>4, <2>5
  <1>10. CASE FromStream(source, file) /\ Gives(Frame(source.produced, source.at))
              /\ source' = Pulled(source)
    <2> PICK p \in Nat, q \in Nat : p = source.produced /\ q = source.at
      BY <1>1
    <2> PICK f \in FrameTypes : f = Frame(p, q)
      BY FramesDiffer
    <2>1. /\ ~FromCache(source) /\ ~FromPending(source) /\ ~source.exhausted
          /\ q < file.length /\ Gives(f) /\ f.index = p /\ f.picture = q
      BY <1>10, FramesDiffer DEF FromStream, Pulls
    <2>2. source' = [source EXCEPT !.at = q + 1, !.produced = p + 1, !.cursor = p + 1]
      BY <1>1, <1>10 DEF Pulled
    <2>3. /\ source'.cache = source.cache /\ source'.streaming = source.streaming
          /\ source'.pending = source.pending /\ source'.produced = p + 1
          /\ source'.at = q + 1 /\ source'.exhausted = source.exhausted
          /\ source'.cursor = p + 1
      BY <1>1, <2>2
    <2>4. SourceTypes'
      <3>1. source' = [cache |-> source.cache, pending |-> source.pending,
                       produced |-> p + 1, at |-> q + 1, cursor |-> p + 1,
                       exhausted |-> source.exhausted, streaming |-> source.streaming]
        BY <1>1, <2>2
      <3> QED  BY <1>1, <3>1 DEF SourceTypes
    <2>5. ASSUME ~Mixed
          PROVE  AnimatedHolds' /\ PassIsExact'
      <3>1. Overflows
        BY <1>5, <2>1, <2>5
      <3>2. source.pending = NoFrame
        <4>1. SUFFICES ASSUME source.pending # NoFrame
                       PROVE  FALSE
          OBVIOUS
        <4>2. source.pending.index = Fits /\ source.cursor <= Fits
          BY <1>2, <1>5, <2>5, <3>1, <4>1, FramesDiffer
        <4>3. source.cursor = Fits
          BY <1>1, <1>2, <1>3, <2>1, <4>2
        <4> QED  BY <2>1, <4>1, <4>2, <4>3 DEF FromPending
      <3>3. p = source.cursor /\ q = p /\ p = pass.given /\ p >= Fits
        BY <1>5, <2>5, <3>1, <3>2
      <3>4. pass'.given = p + 1 /\ UNCHANGED pass.failed
            /\ answer'.op = "frame" /\ answer'.frame = f
        BY <1>7, <2>1, <3>3
      <3>5. PassIsExact'
        <4>1. f.index = pass'.given - 1 /\ f.picture = f.index
          BY <2>1, <3>3, <3>4
        <4> QED  BY <3>4, <4>1 DEF PassIsExact, Exact
      <3>6. AnimatedHolds'
        BY <1>0, <1>2, <2>1, <2>3, <3>1, <3>2, <3>3, <3>4 DEF AnimatedHolds
      <3> QED  BY <3>5, <3>6
    <2> QED  BY <1>6, <1>7, <2>1, <2>3, <2>4, <2>5
  <1>11. CASE /\ ~FromCache(source) /\ ~FromPending(source) /\ ~Pulls(source, file)
              /\ IF Breaks(source, file) THEN Errs ELSE Ends
              /\ source' = Exhausted(source)
    <2>1. AnswerTypes'
      BY <1>11, CallsTold
    <2>2. source' = [source EXCEPT !.exhausted = TRUE] /\ SourceTypes'
      BY <1>1, <1>11 DEF Exhausted, SourceTypes
    <2>3. /\ source'.cache = source.cache /\ source'.streaming = source.streaming
          /\ source'.pending = source.pending /\ source'.produced = source.produced
          /\ source'.at = source.at /\ source'.exhausted
          /\ source'.cursor = source.cursor
      BY <1>1, <2>2
    <2>4. /\ pass'.rewinds = pass.rewinds /\ pass'.given = pass.given
          /\ pass.failed => pass'.failed
          /\ Breaks(source, file) => pass'.failed
      BY <1>11 DEF Errs, Ends, MediaTypes, AnswerTypes
    <2>5. answer'.op \in {"end", "error"}
      BY <1>11 DEF Errs, Ends, Plain
    <2>6. ASSUME ~Mixed
          PROVE  AnimatedHolds' /\ PassIsExact'
      <3>1. pass'.failed \/ pass'.given = file.length
        <4>1. CASE ~Overflows
          BY <1>1, <1>2, <1>3, <1>5, <1>11, <2>4, <2>6, <4>1
        <4>2. CASE Overflows /\ source.exhausted
          BY <1>5, <2>4, <2>6, <4>2
        <4>3. CASE Overflows /\ ~source.exhausted /\ ~Breaks(source, file)
          <5>1. source.at = file.length
            BY <1>1, <1>2, <1>5, <1>11, <2>6, <4>3 DEF Pulls, Breaks
          <5>2. source.pending = NoFrame
            <6>1. SUFFICES ASSUME source.pending # NoFrame
                           PROVE  FALSE
              OBVIOUS
            <6>2. source.pending.index = Fits /\ source.cursor <= Fits
              BY <1>2, <1>5, <2>6, <4>3, <6>1, FramesDiffer
            <6>3. source.cursor = Fits
              BY <1>1, <1>2, <1>3, <1>11, <6>2
            <6> QED  BY <1>11, <6>1, <6>2, <6>3 DEF FromPending
          <5> QED  BY <1>5, <2>4, <2>6, <4>3, <5>1, <5>2
        <4> QED  BY <2>4, <4>1, <4>2, <4>3
      <3>2. PassIsExact'
        BY <1>0, <2>5, <3>1 DEF PassIsExact, Exact
      <3>3. AnimatedHolds'
        BY <1>0, <1>5, <2>3, <2>4, <2>6, <3>1 DEF AnimatedHolds
      <3> QED  BY <3>2, <3>3
    <2> QED  BY <1>6, <2>1, <2>2, <2>3, <2>4, <2>6
  <1> QED  BY <1>8, <1>9, <1>10, <1>11 DEF NextAnimated

-----------------------------------------------------------------------------
\* The theorems.

LEMMA InitMediaInv == InitMedia => MediaInv
  <1> SUFFICES ASSUME InitMedia
               PROVE  MediaInv
    OBVIOUS
  <1>1. NoFrame \in FrameTypes /\ << >> \in Seq(FrameTypes)
    BY FramesDiffer
  <1>4. SourceTypes
    BY <1>1 DEF InitMedia, FreshSource, SourceTypes
  <1>5. AnswerTypes
    BY <1>1 DEF InitMedia, AnswerTypes, Plain, NewPass
  <1>6. MediaTypes
    BY <1>4, <1>5 DEF InitMedia, MediaTypes, PcTypes, FreshVideo, NoChild
  <1> QED  BY <1>6 DEF InitMedia, MediaInv, KindHolds, OpensClean, StillHolds, VideoHolds,
              CacheKept, AnimatedHolds, PassIsExact, Exact, Plain, NoChild, NewPass

LEMMA NextMediaInv == MediaInv /\ [NextMedia]_mediaVars => MediaInv'
  <1> SUFFICES ASSUME MediaInv, [NextMedia]_mediaVars
               PROVE  MediaInv'
    OBVIOUS
  <1>1. CASE Reader
    BY <1>1, OpenStillKeeps, OpenUnsupportedKeeps, OpenAnimatedKeeps, OpenVideoKeeps,
       ProbeKeeps, AttemptFailsKeeps, AttemptOpensKeeps, NextStillKeeps,
       NextAnimatedKeeps, NextVideoKeeps, ReadFrameKeeps, ReadFailsKeeps, ReadEndsKeeps,
       ReapKeeps, RewindKeeps, DropKeeps DEF Reader
  <1>2. CASE TakeHandle \/ HelperEnds \/ UNCHANGED mediaVars
    BY <1>2, OthersKeep DEF TakeHandle, HelperEnds, mediaVars, decoders
  <1>3. CASE Cancel \/ Process
    BY <1>3, CancelKeeps, PipelineKeeps
  <1> QED  BY <1>1, <1>2, <1>3 DEF NextMedia

THEOREM MediaInvariance == MediaSpec => []MediaInv
  BY InitMediaInv, NextMediaInv, PTL DEF MediaSpec

\* Every pass of every decoder gives the container's frames in order, each with
\* its own picture, and ends only when all were given or an error was told.
THEOREM PassIsExactAlways == MediaSpec => []PassIsExact
  <1>1. MediaInv => PassIsExact
    BY DEF MediaInv
  <1> QED  BY <1>1, MediaInvariance, PTL

\* No process outlives the decoder that reads from it.
THEOREM NoOrphansAlways == MediaSpec => []NoOrphans
  <1>1. MediaInv => NoOrphans
    BY ChildIs DEF MediaInv, VideoHolds, NoOrphans, NoChild
  <1> QED  BY <1>1, MediaInvariance, PTL
=============================================================================
