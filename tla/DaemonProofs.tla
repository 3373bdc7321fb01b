---------------------------- MODULE DaemonProofs ----------------------------
(***************************************************************************)
(* Proofs about Daemon for every number of processes, starts, requests and *)
(* crashes.  Who holds the socket path is settled by where the processes   *)
(* are; what a start restores, by who writes the session file: one at a    *)
(* time, unless two met.                                                   *)
(*                                                                         *)
(* And about one Connection of its socket, for every length of a line, of  *)
(* a read and of a session: the units on their way are the lines of the    *)
(* requests not yet taken.                                                 *)
(*                                                                         *)
(* And about the shell's Events, for every set of lines and of subscribers *)
(* and every queue: what is on its way is the shell's lines in their rows, *)
(* each whole but for those that were cut.                                 *)
(***************************************************************************)
EXTENDS Daemon, Connection, Events, SequenceTheorems, FiniteSetTheorems, TLAPS

\* The socket was bound and is not removed yet.
Bound(d) == main[d] \in {"serve", "presenter", "hotplug", "events", "listener", "socket"}

\* A save belongs to the restore or to the request of its process.
Tied(d) ==
    /\ restoring[d] <=> main[d] \in {"restore", "restoring"}
    /\ conn[d] # NoRequest => Bound(d)
    /\ save[d].step # "none" =>
          IF restoring[d] THEN main[d] = "restoring" /\ save[d].what = session[d]
          ELSE conn[d].pc = "record" /\ save[d].what = conn[d].what

\* The path is that of the only daemon that bound it; who removes a socket
\* removes that of a process that is gone.
OneServes ==
    raced \/ \A d \in Process : /\ Bound(d) => path = d
                                /\ main[d] = "remove" => path \notin Process

\* One process writes, to a file that is not the session yet; the session file,
\* and whatever may come to be in it, is what a restart may put back.
Writes(d) == save[d].step \in {"write", "rename"}
OneWrites ==
    /\ Loaded \in hopes
    /\ temp # NoFile => temp # file
    /\ \A d \in Process : Writes(d) => /\ temp # NoFile /\ save[d].inode = temp
                                       /\ \A e \in Process \ {d} : ~Writes(e)
    /\ \A d \in Process : save[d].step = "rename" => content[temp] = save[d].what
    /\ \A d \in Process : restoring[d] => session[d] = Loaded
    /\ \A d \in Process : conn[d].pc \in {"set", "record"} => conn[d].what \in hopes
    /\ \A d \in Process : conn[d].pc = "reply" => ~conn[d].ok \/ conn[d].what = Loaded

Basics == TypeOK /\ (\A d \in Process : Tied(d)) /\ OneServes
IInv == Basics /\ (meddled \/ raced \/ OneWrites)

-----------------------------------------------------------------------------
\* Inodes.

LEMMA Distinct ==
    /\ Nobody \notin Process /\ Dead \notin Process /\ Nobody # Dead
    /\ Nothing \notin Wallpaper /\ Torn \notin Wallpaper /\ Nothing # Torn
BY DaemonAssumption DEF DaemonAssumption, Nobody, Dead, Nothing, Torn

LEMMA OneMore ==
    ASSUME NEW S, IsFiniteSet(S), NEW x
    PROVE  /\ IsFiniteSet(S \cup {x}) /\ Cardinality(S \cup {x}) \in Nat
           /\ Cardinality(S \cup {x}) <= Cardinality(S) + 1
<1> DEFINE T == S \cup {x}
<1>1. IsFiniteSet(T) /\ Cardinality(T) = IF x \in S THEN Cardinality(S) ELSE Cardinality(S) + 1
  BY FS_AddElement
<1>2. Cardinality(S) \in Nat
  BY FS_CardinalityType
<1> HIDE DEF T
<1>3. Cardinality(T) \in Nat /\ Cardinality(T) <= Cardinality(S) + 1
  BY <1>1, <1>2
<1> QED
  BY <1>1, <1>3 DEF T

\* There are more inodes than the session, its temporary and the open files.
LEMMA UnusedExists ==
    ASSUME NEW d \in Process, save[d].step = "open"
    PROVE  Unused \in Inode /\ Unused \notin {file, temp} \cup Opened
<1> DEFINE W == {e \in Process : save[e].step \in {"write", "rename"}}
           f == [e \in W |-> save[e].inode]
           n == Cardinality(Process)
           T == {file, temp} \cup Opened
<1>1. IsFiniteSet(Process) /\ n \in Nat
  BY DaemonAssumption, FS_CardinalityType DEF DaemonAssumption
<1>2. IsFiniteSet(W) /\ Cardinality(W) \in Nat /\ Cardinality(W) <= n
  <2>1. W \in SUBSET Process
    OBVIOUS
  <2> HIDE DEF W
  <2> QED
    BY <1>1, <2>1, FS_Subset, FS_CardinalityType
<1>3. Opened = {f[e] : e \in W}
  BY DEF Opened
<1>4. f \in Surjection(W, Opened)
  <2>1. f \in [W -> Opened]
    BY <1>3
  <2>2. \A i \in Opened : \E e \in W : f[e] = i
    BY <1>3
  <2> HIDE DEF f, W
  <2> QED
    BY <2>1, <2>2 DEF Surjection
<1> HIDE DEF f
<1>5. IsFiniteSet(Opened) /\ Cardinality(Opened) \in Nat /\ Cardinality(Opened) <= n
  <2>1. IsFiniteSet(Opened) /\ Cardinality(Opened) <= Cardinality(W)
    BY <1>2, <1>4, FS_Surjection
  <2> QED
    BY <1>1, <1>2, <2>1, FS_CardinalityType
<1>6. Cardinality(W) # n
  <2>1. W \in SUBSET Process /\ d \notin W
    OBVIOUS
  <2> HIDE DEF W
  <2> QED
    BY <1>1, <2>1, FS_Subset
<1>7. Cardinality(Opened) <= Cardinality(W)
  BY <1>2, <1>4, FS_Surjection
<1>8. IsFiniteSet(T) /\ Cardinality(T) \in Nat /\ Cardinality(T) < n + 2
  <2>1. T = (Opened \cup {file}) \cup {temp}
    OBVIOUS
  <2>2. IsFiniteSet(Opened \cup {file}) /\ Cardinality(Opened \cup {file}) \in Nat
        /\ Cardinality(Opened \cup {file}) <= Cardinality(Opened) + 1
    BY <1>5, OneMore
  <2>3. IsFiniteSet(T) /\ Cardinality(T) \in Nat
        /\ Cardinality(T) <= Cardinality(Opened \cup {file}) + 1
    BY <2>1, <2>2, OneMore
  <2> HIDE DEF T, W
  <2> QED
    BY <1>1, <1>2, <1>5, <1>6, <1>7, <2>2, <2>3
<1>9. Cardinality(Inode) = n + 2
  <2> HIDE DEF n
  <2>1. Inode = 1..(n + 2)
    BY DEF Inode, n
  <2>2. n + 2 \in Int /\ 1 \in Int /\ ~(1 > n + 2)
    BY <1>1
  <2> DEFINE m == n + 2
  <2> HIDE DEF m
  <2>3. Cardinality(1..m) = m - 1 + 1
    BY <2>2, FS_Interval DEF m
  <2> QED
    BY <1>1, <2>1, <2>3 DEF m
<1>10. \E i \in Inode : i \notin T
  <2>1. SUFFICES ASSUME Inode \in SUBSET T PROVE FALSE
    OBVIOUS
  <2> HIDE DEF T
  <2>2. Cardinality(Inode) <= Cardinality(T)
    BY <1>8, <2>1, FS_Subset
  <2> QED
    BY <1>1, <1>8, <1>9, <2>2
<1> QED
  BY <1>10 DEF Unused

-----------------------------------------------------------------------------
\* What the types say of a process.

LEMMA SaveNow ==
    ASSUME TypeOK, NEW d \in Process, save[d].step # "none"
    PROVE  /\ save[d].what \in Wallpaper
           /\ save[d].step = "open" \/ (Writes(d) /\ save[d].inode \in Inode)
           /\ save[d].step = "open" => save[d] = [step |-> "open", what |-> save[d].what]
           /\ Writes(d) => save[d] = [step |-> save[d].step, what |-> save[d].what,
                                      inode |-> save[d].inode]
BY DEF TypeOK, Save, Quiet, Writes

LEMMA RequestNow ==
    ASSUME TypeOK, NEW d \in Process
    PROVE  /\ conn[d].pc \in {"set", "record"} =>
                  /\ conn[d].what \in Wallpaper
                  /\ conn[d] = [pc |-> conn[d].pc, what |-> conn[d].what]
           /\ conn[d].pc = "reply" =>
                  /\ conn[d].what \in Wallpaper /\ conn[d].ok \in BOOLEAN
           /\ conn[d].pc \in {"kill", "killed"} => conn[d] = [pc |-> conn[d].pc]
           /\ conn[d].pc = "none" <=> conn[d] = NoRequest
BY DEF TypeOK, Request, NoRequest

\* One entry of a table changes.
LEMMA Entry ==
    ASSUME NEW S, NEW T, NEW f \in [S -> T], NEW d \in S, NEW v \in T,
           NEW g, g = [f EXCEPT ![d] = v]
    PROVE  g \in [S -> T] /\ g[d] = v /\ \A e \in S \ {d} : g[e] = f[e]
OBVIOUS

\* The restart and the requests of a process do not change.
Still(e) ==
    /\ main'[e] = main[e] /\ session'[e] = session[e] /\ restoring'[e] = restoring[e]
    /\ conn'[e] = conn[e] /\ save'[e] = save[e]

-----------------------------------------------------------------------------
\* Types.

LEMMA EndsTyped ==
    ASSUME TypeOK, NEW d \in Process, NEW where \in Process \cup {Nobody, Dead}, Ends(d, where),
           {starts', sets', crashes'} \subseteq Nat
    PROVE  TypeOK'
<1>1. NoRequest \in Request /\ Quiet \in Save /\ "off" \in Phase
  BY DEF Request, Save, Phase
<1> QED
  BY <1>1 DEF TypeOK, Ends, Goes, disk

LEMMA MainTyped ==
    ASSUME TypeOK, NEW d \in Process
    PROVE  /\ Threads(d) \/ Free(d) \/ Stale(d) => TypeOK'
           /\ StopServing(d) \/ JoinHotplug(d) \/ JoinListener(d) => TypeOK'
           /\ StopPresenter(d) => TypeOK'
           /\ RequestEvents(d) => TypeOK'
           /\ Burst(d) \/ Reconciled(d) \/ Closed(d) \/ Listen(d) => TypeOK'
<1>1. ASSUME Threads(d) \/ Free(d) \/ Stale(d) PROVE TypeOK'
  BY <1>1 DEF TypeOK, Phase, Threads, Free, Stale, Goes, threads, disk, history, bounds
<1>2. ASSUME StopServing(d) \/ JoinHotplug(d) \/ JoinListener(d) PROVE TypeOK'
  BY <1>2 DEF TypeOK, Phase, StopServing, JoinHotplug, JoinListener, Goes, threads, disk,
              history, bounds
<1>3. ASSUME StopPresenter(d) PROVE TypeOK'
  BY <1>3 DEF TypeOK, Phase, StopPresenter, Goes, disk, history, bounds
<1>4. ASSUME RequestEvents(d) PROVE TypeOK'
  BY <1>4 DEF TypeOK, Phase, RequestEvents, Goes, disk, history, bounds
<1>5. ASSUME Burst(d) \/ Reconciled(d) \/ Closed(d) \/ Listen(d) PROVE TypeOK'
  BY <1>5 DEF TypeOK, Burst, Reconciled, Closed, Listen, tables, disk, history, bounds
<1> QED
  BY <1>1, <1>2, <1>3, <1>4, <1>5

\* Starting, and the socket.
LEMMA BootTyped ==
    ASSUME TypeOK, NEW d \in Process
    PROVE  /\ Start(d) => TypeOK'
           /\ Restore(d) => TypeOK'
           /\ AlreadyRunning(d) \/ Exit(d) \/ ServeFails(d) \/ Crash(d) => TypeOK'
           /\ RemovePath(d) => TypeOK'
           /\ Bind(d) => TypeOK'
<1>1. ASSUME Start(d) PROVE TypeOK'
  <2>1. Loaded \in Wallpaper \cup {Nothing}
    BY Distinct DEF TypeOK, Loaded, NoFile
  <2> QED
    BY <1>1, <2>1 DEF TypeOK, Phase, Start, Goes, disk, history
<1>2. ASSUME Restore(d) PROVE TypeOK'
  <2>1. CASE Goes(d, "restoring") /\ session[d] # Nothing
             /\ save' = [save EXCEPT ![d] = [step |-> "open", what |-> session[d]]]
             /\ UNCHANGED restoring
    <3>1. [step |-> "open", what |-> session[d]] \in Save
      BY <2>1 DEF TypeOK, Save
    <3> HIDE DEF Save
    <3> QED
      BY <1>2, <2>1, <3>1 DEF TypeOK, Phase, Restore, Goes, threads, disk, history, bounds
  <2>2. CASE Goes(d, "threads") /\ restoring' = [restoring EXCEPT ![d] = FALSE]
             /\ UNCHANGED save
    BY <1>2, <2>2 DEF TypeOK, Phase, Restore, Goes, threads, disk, history, bounds
  <2> QED
    BY <1>2, <2>1, <2>2 DEF Restore
<1>3. ASSUME AlreadyRunning(d) \/ Exit(d) \/ ServeFails(d) \/ Crash(d) PROVE TypeOK'
  <2>1. PICK where \in Process \cup {Nobody, Dead} : Ends(d, where)
    BY <1>3 DEF AlreadyRunning, Exit, ServeFails, Crash, TypeOK
  <2>2. {starts', sets', crashes'} \subseteq Nat
    BY <1>3 DEF AlreadyRunning, Exit, ServeFails, Crash, TypeOK, bounds
  <2> QED
    BY <2>1, <2>2, EndsTyped
<1>4. ASSUME RemovePath(d) PROVE TypeOK'
  <2>1. CASE Ends(d, path)
    <3>1. path \in Process \cup {Nobody, Dead} /\ {starts', sets', crashes'} \subseteq Nat
      BY <1>4 DEF TypeOK, RemovePath, bounds
    <3> QED
      BY <2>1, <3>1, EndsTyped
  <2>2. CASE ~Ends(d, path)
    BY <1>4, <2>2 DEF TypeOK, Phase, RemovePath, Goes, threads, disk, history, bounds
  <2> QED
    BY <2>1, <2>2
<1>5. ASSUME Bind(d) PROVE TypeOK'
  <2>1. CASE Ends(d, path)
    <3>1. path \in Process \cup {Nobody, Dead} /\ {starts', sets', crashes'} \subseteq Nat
      BY <1>5 DEF TypeOK, Bind, bounds
    <3> QED
      BY <2>1, <3>1, EndsTyped
  <2>2. CASE ~Ends(d, path)
    BY <1>5, <2>2 DEF TypeOK, Phase, Bind, Goes, threads, disk, bounds
  <2> QED
    BY <2>1, <2>2
<1> QED
  BY <1>1, <1>2, <1>3, <1>4, <1>5

\* Requests.
LEMMA AnswerTyped ==
    ASSUME TypeOK, NEW d \in Process
    PROVE  /\ AskSet(d) => TypeOK'
           /\ AskKill(d) => TypeOK'
           /\ Set(d) => TypeOK'
           /\ Kill(d) \/ Reply(d) => TypeOK'
<1>1. ASSUME AskSet(d) PROVE TypeOK'
  <2>1. PICK w \in Wallpaper : Asks(d, [pc |-> "set", what |-> w]) /\ hopes' = hopes \cup {w}
    BY <1>1 DEF AskSet
  <2>2. [pc |-> "set", what |-> w] \in Request
    BY DEF Request
  <2> HIDE DEF Request
  <2> QED
    BY <2>1, <2>2 DEF TypeOK, Asks, threads, disk
<1>2. ASSUME AskKill(d) PROVE TypeOK'
  <2>1. [pc |-> "kill"] \in Request
    BY DEF Request
  <2> QED
    BY <1>2, <2>1 DEF TypeOK, AskKill, Asks, threads, disk
<1>3. ASSUME Set(d) PROVE TypeOK'
  <2>1. /\ conn[d].what \in Wallpaper /\ conn[d].pc = "set"
        /\ conn[d] = [pc |-> conn[d].pc, what |-> conn[d].what]
    BY <1>3, RequestNow DEF Set
  <2>2. /\ [conn[d] EXCEPT !.pc = "record"] \in Request
        /\ [pc |-> "reply", what |-> conn[d].what, ok |-> FALSE] \in Request
        /\ [step |-> "open", what |-> conn[d].what] \in Save
    <3>1. [conn[d] EXCEPT !.pc = "record"] = [pc |-> "record", what |-> conn[d].what]
      BY <2>1
    <3> QED
      BY <2>1, <3>1 DEF Request, Save
  <2>3. conn' \in [Process -> Request] /\ save' \in [Process -> Save]
    <3> DEFINE c == [conn[d] EXCEPT !.pc = "record"]
               f == [pc |-> "reply", what |-> conn[d].what, ok |-> FALSE]
               s == [step |-> "open", what |-> conn[d].what]
    <3>1. /\ conn' = [conn EXCEPT ![d] = c] \/ conn' = [conn EXCEPT ![d] = f]
          /\ save' = [save EXCEPT ![d] = s] \/ save' = save
      BY <1>3 DEF Set
    <3>2. conn \in [Process -> Request] /\ save \in [Process -> Save]
          /\ c \in Request /\ f \in Request /\ s \in Save
      BY <2>2 DEF TypeOK
    <3> HIDE DEF c, f, s
    <3> QED
      BY <3>1, <3>2
  <2> QED
    BY <1>3, <2>3 DEF TypeOK, Set, threads, disk, history, bounds
<1>4. ASSUME Kill(d) \/ Reply(d) PROVE TypeOK'
  <2>1. NoRequest \in Request /\ [pc |-> "killed"] \in Request
    BY DEF Request
  <2>2. ASSUME Kill(d) PROVE [conn[d] EXCEPT !.pc = "killed"] = [pc |-> "killed"]
    <3>1. conn[d].pc = "kill"
      BY <2>2 DEF Kill
    <3>2. conn[d] = [pc |-> "kill"]
      BY <3>1, RequestNow
    <3> QED
      BY <3>2
  <2>3. conn' \in [Process -> Request]
    BY <1>4, <2>1, <2>2 DEF TypeOK, Kill, Reply
  <2>4. hopes' \subseteq Wallpaper \cup {Nothing}
    BY <1>4, RequestNow DEF TypeOK, Kill, Reply, history
  <2>5. shutdown' \in [Process -> BOOLEAN]
    BY <1>4 DEF TypeOK, Kill, Reply
  <2>6. UNCHANGED <<main, session, restoring, save, presenter, hotplug, stopEvents, listener,
                    path, file, temp, content, meddled, raced, starts, sets, crashes>>
    BY <1>4 DEF Kill, Reply, threads, disk, history, bounds
  <2> QED
    BY <2>3, <2>4, <2>5, <2>6 DEF TypeOK
<1> QED
  BY <1>1, <1>2, <1>3, <1>4

\* Saving.
LEMMA OpenTyped ==
    ASSUME TypeOK, NEW d \in Process, Open(d)
    PROVE  /\ TypeOK'
           /\ temp' \in Inode /\ (temp # NoFile => temp' = temp)
           /\ temp = NoFile => temp' # file
           /\ content'[temp'] = Torn /\ \A i \in Inode \ {temp'} : content'[i] = content[i]
           /\ save'[d] = [step |-> "write", what |-> save[d].what, inode |-> temp']
           /\ \A e \in Process \ {d} : save'[e] = save[e]
<1> DEFINE i == IF temp = NoFile THEN Unused ELSE temp
           s == [step |-> "write", what |-> save[d].what, inode |-> i]
<1>1. save[d].step = "open" /\ temp' = i /\ content' = [content EXCEPT ![i] = Torn]
      /\ save' = [save EXCEPT ![d] = s] /\ (temp = NoFile => i = Unused)
      /\ (temp # NoFile => i = temp)
  BY DEF Open
<1>2. Unused \in Inode /\ Unused # file
  BY <1>1, UnusedExists
<1>3. i \in Inode
  BY <1>2 DEF TypeOK
<1>4. s \in Save /\ s.step = "write" /\ s.what = save[d].what /\ s.inode = i
  BY <1>1, <1>3, SaveNow DEF Save
<1>5. content \in [Inode -> Wallpaper \cup {Nothing, Torn}] /\ save \in [Process -> Save]
  BY DEF TypeOK
<1> HIDE DEF i, s
<1>6. /\ save' \in [Process -> Save] /\ save'[d] = s
      /\ \A e \in Process \ {d} : save'[e] = save[e]
      /\ content' \in [Inode -> Wallpaper \cup {Nothing, Torn}] /\ content'[i] = Torn
      /\ \A k \in Inode \ {i} : content'[k] = content[k]
  BY <1>1, <1>3, <1>4, <1>5
<1>7. UNCHANGED <<main, session, restoring, conn, presenter, hotplug, stopEvents, listener,
                  shutdown, path, file, hopes, raced, starts, sets, crashes>>
      /\ meddled' \in BOOLEAN
  BY DEF Open, threads, bounds
<1>8. TypeOK'
  BY <1>1, <1>3, <1>6, <1>7 DEF TypeOK
<1> QED
  BY <1>1, <1>2, <1>3, <1>6, <1>8 DEF s

LEMMA WriteTyped ==
    ASSUME TypeOK, NEW d \in Process, Write(d)
    PROVE  /\ TypeOK'
           /\ save'[d] = [step |-> "rename", what |-> save[d].what, inode |-> save[d].inode]
           /\ \A e \in Process \ {d} : save'[e] = save[e]
           /\ \A i \in Inode \ {save[d].inode} : content'[i] = content[i]
           /\ \/ content'[save[d].inode] = save[d].what
              \/ \E e \in Process \ {d} : Writes(e)
<1> DEFINE i == save[d].inode
           s == [save[d] EXCEPT !.step = "rename"]
<1>1. /\ save[d].what \in Wallpaper /\ i \in Inode
      /\ save[d] = [step |-> "write", what |-> save[d].what, inode |-> i]
  BY SaveNow DEF Write, Writes
<1>2. s = [step |-> "rename", what |-> save[d].what, inode |-> i] /\ s \in Save
  BY <1>1 DEF Save
<1>3. PICK left : /\ content' = [content EXCEPT ![i] = left]
                  /\ left \in {save[d].what, Torn}
                  /\ left = save[d].what \/ \E e \in Process \ {d} : Writes(e)
  BY DEF Write, Writes
<1>4. save' = [save EXCEPT ![d] = s]
  BY DEF Write
<1>5. content \in [Inode -> Wallpaper \cup {Nothing, Torn}] /\ save \in [Process -> Save]
  BY DEF TypeOK
<1> HIDE DEF i, s
<1>6. /\ save' \in [Process -> Save] /\ save'[d] = s
      /\ \A e \in Process \ {d} : save'[e] = save[e]
      /\ content' \in [Inode -> Wallpaper \cup {Nothing, Torn}] /\ content'[i] = left
      /\ \A k \in Inode \ {i} : content'[k] = content[k]
  BY <1>1, <1>2, <1>3, <1>4, <1>5
<1>7. UNCHANGED <<main, session, restoring, conn, presenter, hotplug, stopEvents, listener,
                  shutdown, path, file, temp, hopes, meddled, raced, starts, sets, crashes>>
  BY DEF Write, threads, history, bounds
<1>8. TypeOK'
  BY <1>6, <1>7 DEF TypeOK
<1> QED
  BY <1>2, <1>3, <1>6, <1>8 DEF i

LEMMA RecordedTyped ==
    ASSUME TypeOK, NEW d \in Process, Tied(d), save[d].step # "none", NEW ok \in BOOLEAN,
           Recorded(d, ok)
    PROVE  /\ session' \in [Process -> Wallpaper \cup {Nothing}] /\ save' \in [Process -> Save]
           /\ conn' \in [Process -> Request] /\ main' \in [Process -> Phase]
           /\ restoring' \in [Process -> BOOLEAN]
           /\ save'[d] = Quiet /\ restoring'[d] = FALSE
           /\ restoring[d] => main'[d] = "threads" /\ conn' = conn
           /\ ~restoring[d] => /\ main' = main
                               /\ conn'[d] = [pc |-> "reply", what |-> save[d].what, ok |-> ok]
           /\ \A e \in Process \ {d} :
                  /\ main'[e] = main[e] /\ session'[e] = session[e]
                  /\ restoring'[e] = restoring[e] /\ conn'[e] = conn[e] /\ save'[e] = save[e]
<1> DEFINE c == [pc |-> "reply", what |-> conn[d].what, ok |-> ok]
           w == save[d].what
<1>1. w \in Wallpaper
  BY SaveNow
<1>2. ~restoring[d] => conn[d].what = w
  BY DEF Tied
<1>3. ~restoring[d] => c \in Request
  BY <1>1, <1>2 DEF Request
<1>4. Quiet \in Save /\ "threads" \in Phase
  BY DEF Save, Phase
<1>5. /\ session' = [session EXCEPT ![d] = w] \/ session' = session
      /\ save' = [save EXCEPT ![d] = Quiet]
      /\ restoring' = [restoring EXCEPT ![d] = FALSE]
      /\ restoring[d] => main' = [main EXCEPT ![d] = "threads"] /\ conn' = conn
      /\ ~restoring[d] => main' = main /\ conn' = [conn EXCEPT ![d] = c]
  BY DEF Recorded, Goes
<1>6. /\ session \in [Process -> Wallpaper \cup {Nothing}] /\ save \in [Process -> Save]
      /\ conn \in [Process -> Request] /\ main \in [Process -> Phase]
      /\ restoring \in [Process -> BOOLEAN]
  BY DEF TypeOK
<1> HIDE DEF w, c
<1>7. /\ session' \in [Process -> Wallpaper \cup {Nothing}]
      /\ \A e \in Process \ {d} : session'[e] = session[e]
  BY <1>1, <1>5, <1>6
<1>8. /\ save' \in [Process -> Save] /\ save'[d] = Quiet
      /\ restoring' \in [Process -> BOOLEAN] /\ restoring'[d] = FALSE
      /\ \A e \in Process \ {d} : save'[e] = save[e] /\ restoring'[e] = restoring[e]
  BY <1>4, <1>5, <1>6
<1>9. /\ conn' \in [Process -> Request] /\ main' \in [Process -> Phase]
      /\ restoring[d] => main'[d] = "threads" /\ conn' = conn
      /\ ~restoring[d] => main' = main /\ conn'[d] = c
      /\ \A e \in Process \ {d} : main'[e] = main[e] /\ conn'[e] = conn[e]
  BY <1>3, <1>4, <1>5, <1>6
<1> QED
  BY <1>2, <1>7, <1>8, <1>9 DEF c, w

LEMMA RenameTyped ==
    ASSUME TypeOK, NEW d \in Process, Tied(d), Rename(d)
    PROVE  TypeOK'
<1>1. PICK ok \in BOOLEAN : Recorded(d, ok)
  BY DEF Rename
<1>2. save[d].step # "none"
  BY DEF Rename
<1>3. /\ session' \in [Process -> Wallpaper \cup {Nothing}] /\ save' \in [Process -> Save]
      /\ conn' \in [Process -> Request] /\ main' \in [Process -> Phase]
      /\ restoring' \in [Process -> BOOLEAN]
  BY <1>1, <1>2, RecordedTyped
<1>4. {file', temp'} \subseteq Inode \cup {NoFile} /\ meddled' \in BOOLEAN
  BY DEF TypeOK, Rename
<1>5. UNCHANGED <<presenter, hotplug, stopEvents, listener, shutdown, path, content, hopes,
                  raced, starts, sets, crashes>>
  BY DEF Rename, threads, bounds
<1> QED
  BY <1>3, <1>4, <1>5 DEF TypeOK

-----------------------------------------------------------------------------
\* One process moves.

Untouched(e) ==
    /\ main'[e] = main[e] /\ session'[e] = session[e] /\ restoring'[e] = restoring[e]
    /\ conn'[e] = conn[e] /\ save'[e] = save[e]

\* It leaves the session file alone and promises nothing new.
LEMMA LocalStep ==
    ASSUME IInv, NEW d \in Process, TypeOK', \A e \in Process \ {d} : Untouched(e),
           Tied(d)', OneServes', raced => raced', meddled => meddled',
           UNCHANGED <<file, temp, content>>, hopes \subseteq hopes',
           Writes(d)' => save'[d] = save[d],
           OneWrites => /\ restoring'[d] => session'[d] = Loaded
                        /\ conn'[d].pc \in {"set", "record"} => conn'[d].what \in hopes'
                        /\ conn'[d].pc = "reply" => ~conn'[d].ok \/ conn'[d].what = Loaded
    PROVE  IInv'
<1>1. \A e \in Process : Tied(e)'
  BY DEF IInv, Basics, Tied, Bound, Untouched
<1>2. OneWrites => OneWrites'
  <2> SUFFICES ASSUME OneWrites PROVE OneWrites'
    OBVIOUS
  <2>1. Loaded' = Loaded
    BY DEF Loaded
  <2>2. \A e \in Process : Writes(e)' => Writes(e) /\ save'[e] = save[e]
    BY DEF Untouched, Writes
  <2>3. \A e \in Process :
            save'[e].step = "rename" => save[e].step = "rename" /\ save'[e] = save[e]
    BY <2>2 DEF Writes
  <2>4. \A e \in Process : restoring'[e] => session'[e] = Loaded
    BY DEF OneWrites, Untouched
  <2>5. \A e \in Process : /\ conn'[e].pc \in {"set", "record"} => conn'[e].what \in hopes'
                           /\ conn'[e].pc = "reply" => ~conn'[e].ok \/ conn'[e].what = Loaded
    BY DEF OneWrites, Untouched
  <2> QED
    BY <2>1, <2>2, <2>3, <2>4, <2>5 DEF OneWrites
<1> QED
  BY <1>1, <1>2 DEF IInv, Basics

\* It moves its main thread, or another that has no part in this.
LEMMA MainStep ==
    ASSUME IInv, NEW d \in Process, TypeOK',
           \A e \in Process \ {d} : main'[e] = main[e],
           UNCHANGED <<session, restoring, conn, save, path, file, temp, content, hopes,
                       meddled, raced>>,
           main'[d] # main[d] => ~restoring[d] /\ main'[d] \notin {"restore", "restoring"},
           Bound(d)' <=> Bound(d),
           main'[d] = "remove" => main[d] = "remove" \/ path \notin Process
    PROVE  IInv'
<1>1. \A e \in Process \ {d} : Untouched(e)
  BY DEF Untouched
<1>2. Tied(d)'
  BY DEF IInv, Basics, Tied, Bound
<1>3. OneServes'
  BY DEF IInv, Basics, OneServes, Bound
<1>4. OneWrites => /\ restoring[d] => session[d] = Loaded
                   /\ conn[d].pc \in {"set", "record"} => conn[d].what \in hopes
                   /\ conn[d].pc = "reply" => ~conn[d].ok \/ conn[d].what = Loaded
  BY DEF OneWrites
<1> QED
  BY <1>1, <1>2, <1>3, <1>4, LocalStep

\* It is gone.
LEMMA EndsStep ==
    ASSUME IInv, NEW d \in Process, NEW where, Ends(d, where), TypeOK',
           where = path \/ (where \in {Nobody, Dead} /\ (Bound(d) \/ path = d))
    PROVE  IInv'
<1>1. /\ main'[d] = "off" /\ restoring'[d] = FALSE /\ conn'[d] = NoRequest /\ save'[d] = Quiet
      /\ \A e \in Process \ {d} : Untouched(e)
      /\ UNCHANGED <<file, temp, content, hopes, meddled, raced>> /\ path' = where
  BY DEF IInv, Basics, TypeOK, Ends, Goes, Untouched, disk
<1>2. Tied(d)'
  BY <1>1 DEF Tied, Quiet
<1>3. OneServes'
  <2>1. CASE raced
    BY <1>1, <2>1 DEF OneServes
  <2>2. CASE ~raced
    <3>1. \A e \in Process : /\ Bound(e) => path = e
                             /\ main[e] = "remove" => path \notin Process
      BY <2>2 DEF IInv, Basics, OneServes
    <3>2. CASE where = path
      BY <1>1, <3>1, <3>2 DEF OneServes, Bound, Untouched
    <3>3. CASE where \in {Nobody, Dead} /\ path = d
      BY <1>1, <3>1, <3>3, Distinct DEF OneServes, Bound, Untouched
    <3> QED
      BY <3>1, <3>2, <3>3
  <2> QED
    BY <2>1, <2>2
<1> QED
  BY <1>1, <1>2, <1>3, LocalStep DEF Writes, Quiet, NoRequest

-----------------------------------------------------------------------------
\* Every step.

LEMMA ThreadsStep ==
    ASSUME IInv, NEW d \in Process,
           Threads(d) \/ Free(d) \/ Stale(d) \/ StopServing(d) \/ StopPresenter(d)
           \/ JoinHotplug(d) \/ RequestEvents(d) \/ JoinListener(d)
           \/ Burst(d) \/ Reconciled(d) \/ Closed(d) \/ Listen(d)
    PROVE  IInv'
<1>1. TypeOK'
  BY MainTyped DEF IInv, Basics
<1>2. UNCHANGED <<session, restoring, conn, save, path, file, temp, content, hopes,
                  meddled, raced>>
  BY DEF Threads, Free, Stale, StopServing, StopPresenter, JoinHotplug, RequestEvents,
         JoinListener, Burst, Reconciled, Closed, Listen, disk, history, tables
<1>3. main \in [Process -> Phase] /\ Tied(d)
  BY DEF IInv, Basics, TypeOK
<1>4. CASE Threads(d) \/ Free(d) \/ Stale(d)
  BY <1>1, <1>2, <1>3, <1>4, MainStep DEF Threads, Free, Stale, Answers, Goes, Tied, Bound
<1>5. CASE StopServing(d) \/ StopPresenter(d) \/ JoinHotplug(d) \/ RequestEvents(d)
           \/ JoinListener(d)
  BY <1>1, <1>2, <1>3, <1>5, MainStep
     DEF StopServing, StopPresenter, JoinHotplug, RequestEvents, JoinListener, Serving, Goes,
         Tied, Bound
<1>6. CASE Burst(d) \/ Reconciled(d) \/ Closed(d) \/ Listen(d)
  BY <1>1, <1>2, <1>6, MainStep DEF Burst, Reconciled, Closed, Listen, Bound
<1> QED
  BY <1>4, <1>5, <1>6

LEMMA EndsAll ==
    ASSUME IInv, NEW d \in Process,
           AlreadyRunning(d) \/ Exit(d) \/ ServeFails(d) \/ Crash(d)
    PROVE  IInv'
<1>1. TypeOK'
  BY BootTyped DEF IInv, Basics
<1>2. CASE AlreadyRunning(d)
  BY <1>1, <1>2, EndsStep DEF AlreadyRunning
<1>3. CASE Exit(d) \/ ServeFails(d)
  BY <1>1, <1>3, EndsStep DEF Exit, ServeFails, Serving, Bound
<1>4. CASE Crash(d)
  BY <1>1, <1>4, EndsStep DEF Crash
<1> QED
  BY <1>2, <1>3, <1>4

\* The path is kept, and nobody new binds or removes it.
LEMMA PathKept ==
    ASSUME IInv, NEW d \in Process, \A e \in Process \ {d} : main'[e] = main[e],
           UNCHANGED <<path, raced>>, Bound(d)' => Bound(d),
           main'[d] = "remove" => main[d] = "remove"
    PROVE  OneServes'
BY DEF IInv, Basics, OneServes, Bound

LEMMA StartStep ==
    ASSUME IInv, NEW d \in Process, Start(d)
    PROVE  IInv' /\ session'[d] = Loaded
<1>1. TypeOK' /\ TypeOK /\ Tied(d)
  BY BootTyped DEF IInv, Basics
<1>2. /\ main[d] = "off" /\ main'[d] = "restore" /\ session'[d] = Loaded
      /\ restoring'[d] = TRUE /\ conn' = conn /\ save' = save
      /\ \A e \in Process \ {d} : Untouched(e)
      /\ UNCHANGED <<file, temp, content, hopes, meddled, raced, path>>
  BY <1>1 DEF TypeOK, Start, Goes, Untouched, disk, history
<1>3. conn[d] = NoRequest /\ save[d].step = "none"
  BY <1>1, <1>2, RequestNow DEF Tied, Bound, NoRequest
<1>4. Tied(d)'
  BY <1>2, <1>3 DEF Tied
<1>5. OneServes'
  BY <1>2, PathKept DEF Untouched, Bound
<1> QED
  BY <1>1, <1>2, <1>3, <1>4, <1>5, LocalStep DEF NoRequest

LEMMA RestoreStep ==
    ASSUME IInv, NEW d \in Process, Restore(d)
    PROVE  IInv'
<1>1. TypeOK' /\ TypeOK /\ Tied(d)
  BY BootTyped DEF IInv, Basics
<1>2. /\ main[d] = "restore" /\ session' = session /\ conn' = conn
      /\ \/ /\ main'[d] = "restoring" /\ restoring' = restoring
            /\ save'[d] = [step |-> "open", what |-> session[d]]
         \/ main'[d] = "threads" /\ restoring'[d] = FALSE /\ save' = save
      /\ \A e \in Process \ {d} : Untouched(e)
      /\ UNCHANGED <<file, temp, content, hopes, meddled, raced, path>>
  BY <1>1 DEF TypeOK, Restore, Goes, Untouched, disk, history
<1>3. conn[d] = NoRequest /\ save[d].step = "none"
  BY <1>1, <1>2, RequestNow DEF Tied, Bound, NoRequest
<1>4. OneWrites => (restoring'[d] => session'[d] = Loaded)
  BY <1>1, <1>2 DEF OneWrites, Tied
<1>5. OneServes'
  BY <1>2, PathKept DEF Untouched, Bound
<1>6. Tied(d)'
  BY <1>1, <1>2, <1>3 DEF Tied
<1> QED
  BY <1>1, <1>2, <1>3, <1>4, <1>5, <1>6, LocalStep DEF NoRequest, Writes

LEMMA RemoveStep ==
    ASSUME IInv, NEW d \in Process, RemovePath(d)
    PROVE  IInv'
<1>1. TypeOK' /\ TypeOK /\ Tied(d)
  BY BootTyped DEF IInv, Basics
<1>2. CASE path = Nobody
  BY <1>1, <1>2, EndsStep DEF RemovePath
<1>3. CASE path # Nobody
  <2>1. /\ main[d] = "remove" /\ main'[d] = "bind" /\ path' = Nobody
        /\ UNCHANGED <<session, restoring, conn, save>>
        /\ \A e \in Process \ {d} : Untouched(e)
        /\ UNCHANGED <<file, temp, content, hopes, meddled, raced>>
    BY <1>1, <1>3 DEF TypeOK, RemovePath, Goes, Untouched, disk, history
  <2>2. OneServes'
    BY <2>1, Distinct DEF IInv, Basics, OneServes, Bound, Untouched
  <2>3. ~restoring[d] /\ conn[d] = NoRequest
    BY <1>1, <2>1 DEF Tied, Bound
  <2>4. Tied(d)'
    BY <1>1, <2>1, <2>3 DEF Tied, Bound
  <2> QED
    BY <1>1, <2>1, <2>2, <2>3, <2>4, LocalStep DEF NoRequest
<1> QED
  BY <1>2, <1>3

LEMMA BindStep ==
    ASSUME IInv, NEW d \in Process, Bind(d)
    PROVE  IInv'
<1>1. TypeOK' /\ TypeOK /\ Tied(d)
  BY BootTyped DEF IInv, Basics
<1>2. CASE path # Nobody
  BY <1>1, <1>2, EndsStep DEF Bind
<1>3. CASE path = Nobody
  <2>1. /\ main[d] = "bind" /\ main'[d] = "serve" /\ path' = d
        /\ raced' = (raced \/ \E e \in Process : main[e] = "remove")
        /\ UNCHANGED <<session, restoring, conn, save>>
        /\ \A e \in Process \ {d} : Untouched(e)
        /\ UNCHANGED <<file, temp, content, hopes, meddled>>
    BY <1>1, <1>3 DEF TypeOK, Bind, Goes, Untouched, disk
  <2>2. OneServes'
    <3>1. SUFFICES ASSUME ~raced, \A e \in Process : main[e] # "remove" PROVE OneServes'
      BY <2>1 DEF OneServes
    <3>2. \A e \in Process : ~Bound(e)
      BY <1>3, <3>1, Distinct DEF IInv, Basics, OneServes
    <3> QED
      BY <2>1, <3>1, <3>2 DEF OneServes, Bound, Untouched
  <2>3. ~restoring[d] /\ conn[d] = NoRequest
    BY <1>1, <2>1 DEF Tied, Bound
  <2>4. Tied(d)'
    BY <1>1, <2>1, <2>3 DEF Tied, Bound
  <2>5. raced => raced'
    BY <2>1
  <2> QED
    BY <1>1, <2>1, <2>2, <2>3, <2>4, <2>5, LocalStep DEF NoRequest
<1> QED
  BY <1>2, <1>3

LEMMA AsksStep ==
    ASSUME IInv, NEW d \in Process, AskSet(d) \/ AskKill(d)
    PROVE  IInv'
<1>1. TypeOK' /\ TypeOK /\ Tied(d)
  BY AnswerTyped DEF IInv, Basics
<1>2. PICK request : Asks(d, request)
  BY DEF AskSet, AskKill
<1>3. /\ Bound(d) /\ UNCHANGED <<main, session, restoring, save>> /\ conn[d] = NoRequest
      /\ \A e \in Process \ {d} : Untouched(e)
      /\ UNCHANGED <<file, temp, content, meddled, raced, path>>
  BY <1>1, <1>2 DEF TypeOK, Asks, Serving, Bound, Untouched, disk
<1>4. /\ hopes \subseteq hopes'
      /\ conn'[d].pc \in {"set", "record"} => conn'[d].what \in hopes'
      /\ conn'[d].pc # "reply"
  <2>1. CASE AskSet(d)
    <3>1. PICK w \in Wallpaper : Asks(d, [pc |-> "set", what |-> w]) /\ hopes' = hopes \cup {w}
      BY <2>1 DEF AskSet
    <3>2. conn'[d] = [pc |-> "set", what |-> w]
      BY <1>1, <3>1 DEF TypeOK, Asks
    <3> QED
      BY <3>1, <3>2
  <2>2. CASE AskKill(d)
    <3>1. conn'[d] = [pc |-> "kill"] /\ hopes' = hopes
      BY <1>1, <2>2 DEF TypeOK, AskKill, Asks
    <3> QED
      BY <3>1
  <2> QED
    BY <2>1, <2>2
<1>5. save[d].step = "none" /\ ~restoring[d]
  BY <1>1, <1>3, RequestNow DEF Tied, Bound
<1>6. Tied(d)'
  BY <1>1, <1>3, <1>5 DEF Tied, Bound
<1>7. OneServes'
  BY <1>3, PathKept DEF Untouched, Bound
<1> QED
  BY <1>1, <1>3, <1>4, <1>5, <1>6, <1>7, LocalStep

LEMMA SetStep ==
    ASSUME IInv, NEW d \in Process, Set(d)
    PROVE  IInv'
<1> DEFINE c == [conn[d] EXCEPT !.pc = "record"]
           f == [pc |-> "reply", what |-> conn[d].what, ok |-> FALSE]
           s == [step |-> "open", what |-> conn[d].what]
<1>1. TypeOK' /\ TypeOK /\ Tied(d)
  BY AnswerTyped DEF IInv, Basics
<1>2. /\ conn[d].pc = "set" /\ c.pc = "record" /\ c.what = conn[d].what
      /\ conn[d] # NoRequest
  <2>1. conn[d].pc = "set"
    BY DEF Set
  <2>2. conn[d] = [pc |-> "set", what |-> conn[d].what]
    BY <1>1, <2>1, RequestNow
  <2> QED
    BY <2>1, <2>2 DEF NoRequest
<1>3. save[d].step = "none" /\ ~restoring[d] /\ Bound(d)
  BY <1>1, <1>2 DEF Tied, Bound
<1>4. f.pc = "reply" /\ ~f.ok /\ s.step = "open" /\ s.what = conn[d].what
  OBVIOUS
<1>5. /\ \/ save' = [save EXCEPT ![d] = s] /\ conn' = [conn EXCEPT ![d] = c]
         \/ save' = save /\ conn' = [conn EXCEPT ![d] = f]
      /\ UNCHANGED <<main, session, restoring, file, temp, content, hopes, meddled, raced, path>>
  BY DEF Set, disk, history
<1>6. conn \in [Process -> Request] /\ save \in [Process -> Save]
  BY <1>1 DEF TypeOK
<1> HIDE DEF c, f, s
<1>7. /\ \A e \in Process \ {d} : Untouched(e)
      /\ \/ save'[d] = s /\ conn'[d] = c
         \/ save'[d] = save[d] /\ conn'[d] = f
  BY <1>5, <1>6 DEF Untouched
<1>8. Tied(d)'
  BY <1>1, <1>2, <1>3, <1>4, <1>5, <1>7 DEF Tied, Bound
<1>9. OneServes'
  BY <1>5, PathKept DEF Bound
<1>10. OneWrites => /\ restoring'[d] => session'[d] = Loaded
                    /\ conn'[d].pc \in {"set", "record"} => conn'[d].what \in hopes'
                    /\ conn'[d].pc = "reply" => ~conn'[d].ok \/ conn'[d].what = Loaded
  BY <1>2, <1>3, <1>4, <1>5, <1>7 DEF OneWrites
<1>11. Writes(d)' => save'[d] = save[d]
  BY <1>4, <1>7 DEF Writes
<1> QED
  BY <1>1, <1>5, <1>7, <1>8, <1>9, <1>10, <1>11, LocalStep

LEMMA KillStep ==
    ASSUME IInv, NEW d \in Process, Kill(d)
    PROVE  IInv'
<1>1. TypeOK' /\ TypeOK /\ Tied(d)
  BY AnswerTyped DEF IInv, Basics
<1>2. conn[d] = [pc |-> "kill"]
  <2>1. conn[d].pc = "kill"
    BY DEF Kill
  <2> QED
    BY <1>1, <2>1, RequestNow
<1>3. /\ conn'[d] = [pc |-> "killed"] /\ \A e \in Process \ {d} : Untouched(e)
      /\ UNCHANGED <<main, session, restoring, save, file, temp, content, hopes, meddled,
                     raced, path>>
  BY <1>1, <1>2 DEF TypeOK, Kill, Untouched, disk, history
<1>4. save[d].step = "none" /\ ~restoring[d] /\ Bound(d)
  BY <1>1, <1>2 DEF Tied, NoRequest, Bound
<1>5. Tied(d)'
  BY <1>1, <1>3, <1>4 DEF Tied, Bound
<1>6. OneServes'
  BY <1>3, PathKept DEF Bound
<1> QED
  BY <1>1, <1>3, <1>4, <1>5, <1>6, LocalStep

\* Unless two daemons serve, one process has a request.
LEMMA OneAnswers ==
    ASSUME IInv, ~raced, NEW d \in Process, conn[d] # NoRequest, NEW e \in Process \ {d}
    PROVE  conn[e] = NoRequest
BY DEF IInv, Basics, OneServes, Tied

\* With an answer only the wallpaper it was about is hoped for, and it is in the file.
LEMMA ReplyStep ==
    ASSUME IInv, NEW d \in Process, Reply(d)
    PROVE  IInv'
<1>1. TypeOK' /\ TypeOK /\ Tied(d)
  BY AnswerTyped DEF IInv, Basics
<1>2. /\ conn'[d] = NoRequest /\ \A e \in Process \ {d} : Untouched(e)
      /\ conn[d].pc \in {"reply", "killed"}
      /\ UNCHANGED <<main, session, restoring, save, file, temp, content, meddled, raced, path>>
      /\ hopes' = IF conn[d].pc = "reply" /\ conn[d].ok THEN {conn[d].what} ELSE hopes
  BY <1>1 DEF TypeOK, Reply, Untouched, disk
<1>3. save[d].step = "none" /\ ~restoring[d]
  BY <1>1, <1>2 DEF Tied, NoRequest, Bound
<1>4. Tied(d)'
  BY <1>1, <1>2, <1>3 DEF Tied
<1>5. OneServes'
  BY <1>2, PathKept DEF Bound
<1>6. CASE hopes' = hopes
  BY <1>1, <1>2, <1>3, <1>4, <1>5, <1>6, LocalStep DEF NoRequest
<1>7. CASE conn[d].pc = "reply" /\ conn[d].ok
  <2>1. Basics'
    BY <1>1, <1>2, <1>4, <1>5 DEF IInv, Basics, Tied, Bound, Untouched
  <2>2. ASSUME ~meddled, ~raced PROVE OneWrites'
    <3>1. OneWrites /\ hopes' = {Loaded} /\ Loaded' = Loaded
      BY <1>2, <1>7, <2>2 DEF IInv, OneWrites, Loaded
    <3>2. \A e \in Process : conn'[e] = NoRequest
      BY <1>2, <2>2, OneAnswers DEF Untouched, NoRequest
    <3>3. temp' = temp /\ file' = file /\ content' = content /\ save' = save
          /\ session' = session /\ restoring' = restoring
      BY <1>2
    <3> QED
      BY <3>1, <3>2, <3>3 DEF OneWrites, Writes, NoRequest
  <2> QED
    BY <1>2, <2>1, <2>2 DEF IInv
<1> QED
  BY <1>2, <1>6, <1>7

\* The temporary is not the session file.
LEMMA OpenStep ==
    ASSUME IInv, NEW d \in Process, Open(d)
    PROVE  IInv'
<1>1. TypeOK /\ Tied(d)
  BY DEF IInv, Basics
<1>2. /\ TypeOK' /\ temp' \in Inode /\ (temp # NoFile => temp' = temp)
      /\ temp = NoFile => temp' # file
      /\ content'[temp'] = Torn /\ \A i \in Inode \ {temp'} : content'[i] = content[i]
      /\ save'[d] = [step |-> "write", what |-> save[d].what, inode |-> temp']
      /\ \A e \in Process \ {d} : save'[e] = save[e]
  BY <1>1, OpenTyped
<1>3. /\ save[d].step = "open"
      /\ UNCHANGED <<main, session, restoring, conn, path, file, hopes, raced>>
      /\ meddled' = (meddled \/ \E e \in Process \ {d} : save[e].step # "none")
  BY DEF Open
<1>4. Basics'
  <2>1. OneServes'
    BY <1>3, PathKept DEF Bound
  <2>2. \A e \in Process : Tied(e)'
    BY <1>2, <1>3 DEF IInv, Basics, Tied, Bound
  <2> QED
    BY <1>2, <2>1, <2>2 DEF Basics
<1>5. ASSUME ~meddled', ~raced' PROVE OneWrites'
  <2>1. OneWrites /\ \A e \in Process \ {d} : save[e].step = "none"
    BY <1>3, <1>5 DEF IInv
  <2>2. temp' # file /\ temp' # NoFile
    BY <1>2, <2>1 DEF OneWrites, Inode, NoFile
  <2>3. Loaded' = Loaded
    <3>1. file \in Inode => content'[file] = content[file]
      BY <1>2, <2>2
    <3>2. file \in Inode \/ file = NoFile
      BY <1>1 DEF TypeOK
    <3> QED
      BY <1>3, <3>1, <3>2 DEF Loaded
  <2>4. \A e \in Process : Writes(e)' => e = d
    BY <1>2, <2>1 DEF Writes
  <2>5. \A e \in Process : save'[e].step # "rename"
    BY <1>2, <2>1
  <2> QED
    BY <1>2, <1>3, <2>1, <2>2, <2>3, <2>4, <2>5 DEF OneWrites
<1> QED
  BY <1>4, <1>5 DEF IInv

\* A single writer leaves what it meant to write.
LEMMA WriteStep ==
    ASSUME IInv, NEW d \in Process, Write(d)
    PROVE  IInv'
<1>1. TypeOK /\ Tied(d)
  BY DEF IInv, Basics
<1>2. /\ TypeOK'
      /\ save'[d] = [step |-> "rename", what |-> save[d].what, inode |-> save[d].inode]
      /\ \A e \in Process \ {d} : save'[e] = save[e]
      /\ \A i \in Inode \ {save[d].inode} : content'[i] = content[i]
      /\ content'[save[d].inode] = save[d].what \/ \E e \in Process \ {d} : Writes(e)
  BY <1>1, WriteTyped
<1>3. /\ save[d].step = "write" /\ Writes(d)
      /\ UNCHANGED <<main, session, restoring, conn, path, file, temp, hopes, raced, meddled>>
  BY DEF Write, Writes, history
<1>4. Basics'
  <2>1. OneServes'
    BY <1>3, PathKept DEF Bound
  <2>2. \A e \in Process : Tied(e)'
    BY <1>2, <1>3 DEF IInv, Basics, Tied, Bound
  <2> QED
    BY <1>2, <2>1, <2>2 DEF Basics
<1>5. ASSUME OneWrites PROVE OneWrites'
  <2>1. /\ temp # NoFile /\ save[d].inode = temp /\ temp # file
        /\ \A e \in Process \ {d} : ~Writes(e)
    BY <1>3, <1>5 DEF OneWrites
  <2>2. content'[temp] = save[d].what
    BY <1>2, <2>1
  <2>3. Loaded' = Loaded
    <3>1. file \in Inode => content'[file] = content[file]
      BY <1>2, <2>1
    <3>2. file \in Inode \/ file = NoFile
      BY <1>1 DEF TypeOK
    <3> QED
      BY <1>3, <3>1, <3>2 DEF Loaded
  <2>4. \A e \in Process : Writes(e)' => e = d
    BY <1>2, <2>1 DEF Writes
  <2>5. \A e \in Process : save'[e].step = "rename" => e = d
    BY <2>4 DEF Writes
  <2> QED
    BY <1>2, <1>3, <1>5, <2>1, <2>2, <2>3, <2>4, <2>5 DEF OneWrites
<1> QED
  BY <1>3, <1>4, <1>5 DEF IInv

\* What is renamed is what its writer meant, and what a restart may put back.
LEMMA RenameStep ==
    ASSUME IInv, NEW d \in Process, Rename(d)
    PROVE  IInv'
<1>1. TypeOK /\ Tied(d) /\ save[d].step = "rename" /\ Writes(d) /\ save[d].what \in Wallpaper
  BY SaveNow DEF IInv, Basics, Rename, Writes
<1>2. TypeOK'
  BY <1>1, RenameTyped
<1>3. /\ UNCHANGED <<path, content, hopes, raced>>
      /\ \/ /\ temp = NoFile /\ Recorded(d, FALSE) /\ UNCHANGED <<file, temp, meddled>>
         \/ /\ temp # NoFile /\ Recorded(d, TRUE) /\ file' = temp /\ temp' = NoFile
            /\ meddled' = (meddled \/ \E e \in Process \ {d} : restoring[e])
  BY DEF Rename
<1>4. PICK ok \in BOOLEAN : Recorded(d, ok) /\ (temp # NoFile => ok = TRUE)
  BY <1>3
<1>5. /\ save'[d] = Quiet /\ restoring'[d] = FALSE
      /\ restoring[d] => main'[d] = "threads" /\ conn' = conn
      /\ ~restoring[d] => /\ main' = main
                          /\ conn'[d] = [pc |-> "reply", what |-> save[d].what, ok |-> ok]
      /\ \A e \in Process \ {d} : Untouched(e)
  BY <1>1, <1>4, RecordedTyped DEF Untouched
<1>6. main[d] = "restoring" => conn[d] = NoRequest
  BY <1>1 DEF Tied, Bound
<1>7. restoring[d] => main[d] = "restoring" /\ save[d].what = session[d]
  BY <1>1 DEF Tied
<1>8. ~restoring[d] => conn[d].pc = "record" /\ save[d].what = conn[d].what
  BY <1>1 DEF Tied
<1>9. Basics'
  <2>1. \A e \in Process \ {d} : main'[e] = main[e]
    BY <1>5 DEF Untouched
  <2>2. (Bound(d)' <=> Bound(d)) /\ (main'[d] = "remove" => main[d] = "remove")
    BY <1>5, <1>7 DEF Bound
  <2>3. OneServes'
    BY <1>3, <2>1, <2>2, PathKept
  <2>4. Tied(d)'
    <3>1. CASE restoring[d]
      BY <1>5, <1>6, <1>7, <3>1 DEF Tied, Quiet
    <3>2. CASE ~restoring[d]
      <4>1. conn[d] # NoRequest
        BY <1>8, <3>2 DEF NoRequest
      <4> QED
        BY <1>1, <1>5, <2>2, <3>2, <4>1 DEF Tied, Quiet
    <3> QED
      BY <3>1, <3>2
  <2>5. \A e \in Process : Tied(e)'
    BY <1>5, <2>4 DEF IInv, Basics, Tied, Bound, Untouched
  <2> QED
    BY <1>2, <2>3, <2>5 DEF Basics
<1>10. ASSUME ~meddled', ~raced' PROVE OneWrites'
  <2>1. /\ OneWrites /\ temp # NoFile /\ ok = TRUE /\ file' = temp /\ temp' = NoFile
        /\ \A e \in Process \ {d} : ~restoring[e]
    <3>1. OneWrites
      BY <1>3, <1>10 DEF IInv
    <3>2. temp # NoFile
      BY <1>1, <3>1 DEF OneWrites
    <3> QED
      BY <1>3, <1>4, <1>10, <3>1, <3>2
  <2>2. content[temp] = save[d].what /\ \A e \in Process \ {d} : ~Writes(e)
    BY <1>1, <2>1 DEF OneWrites
  <2>3. Loaded' = save[d].what
    BY <1>1, <1>3, <2>1, <2>2, Distinct DEF Loaded
  <2>4. restoring[d] => Loaded' = Loaded
    BY <1>7, <2>1, <2>3 DEF OneWrites
  <2>5. Loaded' \in hopes
    <3>1. CASE restoring[d]
      BY <2>1, <2>4, <3>1 DEF OneWrites
    <3>2. CASE ~restoring[d]
      BY <1>8, <2>1, <2>3, <3>2 DEF OneWrites
    <3> QED
      BY <3>1, <3>2
  <2>6. \A e \in Process : ~Writes(e)' /\ ~restoring'[e]
    BY <1>5, <2>1, <2>2 DEF Writes, Quiet, Untouched
  <2>7. ASSUME NEW e \in Process
        PROVE  /\ conn'[e].pc \in {"set", "record"} => conn'[e].what \in hopes
               /\ conn'[e].pc = "reply" => ~conn'[e].ok \/ conn'[e].what = Loaded'
    <3>1. CASE restoring[d]
      BY <1>5, <2>1, <2>4, <3>1 DEF OneWrites
    <3>2. CASE ~restoring[d] /\ e = d
      BY <1>5, <2>3, <3>2
    <3>3. CASE ~restoring[d] /\ e # d
      <4>1. conn[d] # NoRequest /\ ~raced
        BY <1>3, <1>8, <1>10, <3>3 DEF NoRequest
      <4>2. conn'[e] = NoRequest
        BY <1>5, <3>3, <4>1, OneAnswers DEF Untouched
      <4> QED
        BY <4>2 DEF NoRequest
    <3> QED
      BY <3>1, <3>2, <3>3
  <2>8. \A e \in Process : save'[e].step # "rename"
    BY <2>6 DEF Writes
  <2> QED
    BY <1>3, <2>1, <2>5, <2>6, <2>7, <2>8 DEF OneWrites
<1> QED
  BY <1>9, <1>10 DEF IInv

LEMMA InitIInv == Init => IInv
<1> SUFFICES ASSUME Init PROVE IInv
  OBVIOUS
<1>1. PICK w \in {Nothing, CHOOSE w \in Wallpaper : TRUE} :
          /\ file = (IF w = Nothing THEN NoFile ELSE 1)
          /\ content = [i \in Inode |-> w]
          /\ hopes = {w}
  BY DEF Init
<1>2. w \in Wallpaper \cup {Nothing}
  BY DaemonAssumption DEF DaemonAssumption
<1>3. 1 \in Inode
  <2> DEFINE n == Cardinality(Process)
  <2>1. n \in Nat
    BY DaemonAssumption, FS_CardinalityType DEF DaemonAssumption
  <2>2. Inode = 1..(n + 2)
    BY DEF Inode
  <2> HIDE DEF n
  <2> QED
    BY <2>1, <2>2
<1>4. NoRequest \in Request /\ Quiet \in Save /\ "off" \in Phase
  BY DEF Request, Save, Phase
<1>5. TypeOK
  <2>1. /\ {file, temp} \subseteq Inode \cup {NoFile}
        /\ content \in [Inode -> Wallpaper \cup {Nothing, Torn}]
        /\ hopes \subseteq Wallpaper \cup {Nothing}
    BY <1>1, <1>2, <1>3 DEF Init
  <2>2. /\ {restoring, presenter, stopEvents, shutdown} \subseteq [Process -> BOOLEAN]
        /\ main \in [Process -> Phase] /\ conn \in [Process -> Request]
        /\ save \in [Process -> Save] /\ session \in [Process -> Wallpaper \cup {Nothing}]
    BY <1>4 DEF Init
  <2>3. /\ hotplug \in [Process -> {"waiting", "working", "done"}]
        /\ listener \in [Process -> {"reading", "done"}]
    BY DEF Init
  <2>4. /\ path \in Process \cup {Nobody, Dead}
        /\ {meddled, raced} \subseteq BOOLEAN
    BY DEF Init
  <2>5. {starts, sets, crashes} \subseteq Nat
    <3>1. starts = 0 /\ sets = 0 /\ crashes = 0
      BY DEF Init
    <3> QED
      BY <3>1
  <2> QED
    BY <2>1, <2>2, <2>3, <2>4, <2>5 DEF TypeOK
<1>6. Loaded = w
  BY <1>1, <1>2, <1>3, Distinct DEF Loaded, NoFile
<1>7. \A d \in Process : /\ main[d] = "off" /\ ~restoring[d] /\ conn[d] = NoRequest
                         /\ save[d] = Quiet
  BY DEF Init
<1>8. Basics
  BY <1>5, <1>7 DEF Basics, Tied, OneServes, Bound, Quiet
<1>9. OneWrites
  <2>1. temp = NoFile
    BY DEF Init
  <2> QED
    BY <1>1, <1>6, <1>7, <2>1 DEF OneWrites, Writes, Quiet, NoRequest
<1> QED
  BY <1>8, <1>9 DEF IInv

LEMMA NextIInv == IInv /\ [Next]_vars => IInv'
<1> SUFFICES ASSUME IInv, [Next]_vars PROVE IInv'
  OBVIOUS
<1>1. CASE UNCHANGED vars
  BY <1>1 DEF vars, threads, disk, history, bounds, IInv, Basics, TypeOK, Tied, Bound, OneServes,
              OneWrites, Writes, Loaded
<1>2. ASSUME NEW d \in Process, Start(d) \/ Boot(d) \/ Saves(d) PROVE IInv'
  BY <1>2, StartStep, RestoreStep, ThreadsStep, EndsAll, RemoveStep, BindStep, OpenStep,
     WriteStep, RenameStep DEF Boot, Saves
<1>3. ASSUME NEW d \in Process, AskSet(d) \/ AskKill(d) \/ Answer(d) PROVE IInv'
  BY <1>3, AsksStep, SetStep, KillStep, ReplyStep DEF Answer
<1>4. ASSUME NEW d \in Process, Burst(d) \/ Reconciled(d) \/ Closed(d) \/ Listen(d)
      PROVE  IInv'
  BY <1>4, ThreadsStep
<1>5. ASSUME NEW d \in Process, Stops(d) \/ ServeFails(d) \/ Crash(d) PROVE IInv'
  BY <1>5, ThreadsStep, EndsAll DEF Stops
<1> QED
  BY <1>1, <1>2, <1>3, <1>4, <1>5 DEF Next

-----------------------------------------------------------------------------

LEMMA Invariance == Spec => []IInv
BY InitIInv, NextIInv, PTL DEF Spec

\* Every variable keeps its type: the session file and its temporary are inodes,
\* a save has its wallpaper, and there is always room for the next temporary
\* (state.rs SessionState::save).
THEOREM TypeCorrect == Spec => []TypeOK
<1>1. IInv => TypeOK
  BY DEF IInv, Basics
<1> QED
  BY <1>1, Invariance, PTL

\* However many processes start, stop and crash, a daemon that serves is the one
\* at the socket path, so two never serve, unless two starts raced over a socket
\* left by a crash (server.rs Server::bind_with_shutdown).
THEOREM ServesAtPathAlways == Spec => []ServesAtPath
<1>1. IInv => ServesAtPath
  BY DEF IInv, Basics, OneServes, ServesAtPath, Serving, Bound
<1> QED
  BY <1>1, Invariance, PTL

\* A start finds in the session file the wallpaper whose set was answered last,
\* or one whose set was not answered, wherever the daemons before it stopped,
\* unless two wrote or served at once (state.rs SessionState::save and load).
THEOREM RestartRestoresAlways == Spec => RestartRestores
<1>1. IInv /\ [Next]_vars =>
        [\A d \in Process : Start(d) => meddled \/ raced \/ session'[d] \in hopes]_vars
  <2>1. SUFFICES ASSUME IInv, NEW d \in Process, Start(d)
                 PROVE  meddled \/ raced \/ session'[d] \in hopes
    OBVIOUS
  <2>2. session'[d] = Loaded
    BY <2>1, StartStep
  <2> QED
    BY <2>1, <2>2 DEF IInv, OneWrites
<1> QED
  BY <1>1, Invariance, PTL DEF Spec, RestartRestores

-----------------------------------------------------------------------------
\* The socket: the inductive invariant of Connection.

Units == [of : Nat \ {0}, newline : BOOLEAN]
Results == {"io", "protocol", "ok", "bad", "internal"}
Replies == [id : Nat, verdict : {"ok", "bad", "internal"}]

ConnectionTypes ==
    /\ sent \in Seq(Messages) /\ results \in Seq(Results) /\ answers \in Seq(Replies)
    /\ line \in Seq(Units) /\ requests \in Seq(Units) /\ replies \in Seq(Units)
    /\ buffer \in Seq(Units) /\ current \in Seq(Units) /\ output \in Seq(Units)
    /\ calling \in {"idle", "waiting", "gone"}
    /\ serving \in {"pending", "reading", "frames", "handling", "writing", "closing", "ended"}
    /\ handshaken \in BOOLEAN

\* A stream that holds the requests after the first `taken`, each whole and in
\* its place: ends[k] is where the k-th ends.
Fills(ends, stream, taken, asked) ==
    /\ ends[taken] = 0 /\ ends[Len(asked)] = Len(stream)
    /\ \A j, k \in taken..Len(asked) : j <= k => ends[j] <= ends[k]
    /\ \A k \in (taken + 1)..Len(asked) : ends[k] = ends[k - 1] + Length(asked[k]) + 1
    /\ \A k \in (taken + 1)..Len(asked) : \A p \in (ends[k - 1] + 1)..ends[k] :
          stream[p].of = k /\ (stream[p].newline <=> p = ends[k])
Holds(stream, taken, asked) ==
    \E ends \in [taken..Len(asked) -> Nat] : Fills(ends, stream, taken, asked)

\* The requests the daemon has cut out of the stream.
Taken == IF serving = "handling" THEN Len(answers) + 1 ELSE Len(answers)
Closing == {"closing", "ended"}

RequestsHold ==
    /\ Taken <= Len(sent)
    /\ serving \notin Closing => /\ Holds(buffer \o requests, Taken, sent)
                                 /\ \A i \in 1..Taken : sent[i].kind # "long"
    /\ serving = "handling" => current # << >> /\ current[1].of = Taken

\* A hello with a version both have.
Greets(message) == message.kind = "hello" /\ Negotiate(message.schema) # {}

AnswersHold ==
    /\ \A i \in 1..Len(answers) : answers[i] \in Encoded(Due(i))
    /\ \A i \in 1..(Len(answers) - 1) : sent[i].kind # "long"
    /\ serving # "ended" =>
           (handshaken <=> \E j \in 1..Len(answers) : Greets(sent[j]))
    /\ applied = {k \in 1..Len(answers) : Due(k).verdict = "ok"}

\* What is on its way to the client is of replies that were made.
Made(units) == \A i \in 1..Len(units) : units[i].of \in 1..Len(answers)
RepliesHold == Made(line) /\ Made(replies) /\ Made(output)

\* A result that is the daemon's is its reply to that very call.
CallsHold ==
    /\ calling = "waiting" => Len(sent) = Len(results) + 1
    /\ calling = "idle" => Len(sent) = Len(results)
    /\ \A k \in 1..Len(results) : results[k] \in {"ok", "bad"} =>
           k <= Len(answers) /\ answers[k].verdict = results[k]

ConnectionInv ==
    ConnectionTypes /\ RequestsHold /\ AnswersHold /\ RepliesHold /\ CallsHold

-----------------------------------------------------------------------------
\* Units, lines and pieces of a stream.

LEMMA UnitIs ==
    ASSUME NEW k \in Nat \ {0}, NEW b \in BOOLEAN
    PROVE  Unit(k, b) \in Units /\ Unit(k, b).of = k /\ Unit(k, b).newline = b
  BY DEF Unit, Units

\* The units of one message, the last of them its newline.
IsLine(units, k, n) ==
    /\ units \in Seq(Units) /\ Len(units) = n + 1
    /\ \A i \in 1..(n + 1) : units[i].of = k /\ (units[i].newline <=> i = n + 1)

LEMMA LineIs ==
    ASSUME NEW k \in Nat \ {0}, NEW n \in Nat
    PROVE  IsLine(Line(k, n), k, n)
  <1>1. \A i \in 1..(n + 1) : Unit(k, i = n + 1) \in Units
    BY UnitIs
  <1>2. Line(k, n) \in [1..(n + 1) -> Units]
    BY <1>1 DEF Line
  <1>3. n + 1 \in Nat
    OBVIOUS
  <1>4. Line(k, n) \in Seq(Units) /\ Len(Line(k, n)) = n + 1
    BY <1>2, <1>3
  <1>5. \A i \in 1..(n + 1) : Line(k, n)[i] = Unit(k, i = n + 1)
    BY DEF Line
  <1> QED  BY <1>4, <1>5, UnitIs DEF IsLine

LEMMA LengthIs ==
    ASSUME NEW message \in Messages
    PROVE  /\ Length(message) \in Nat \ {0}
           /\ Length(message) > MAX_FRAME_BYTES <=> message.kind = "long"
  BY FrameAssumption, ConnectionAssumption DEF FrameAssumption, ConnectionAssumption, Length

\* What is left of a place, once `away` units before it are gone.
LEMMA Shifted ==
    ASSUME NEW old \in Nat, NEW away \in Nat, NEW from \in Nat, NEW to \in Nat,
           from >= away, to <= old,
           NEW p \in ((from - away) + 1)..(to - away)
    PROVE  /\ p \in Int /\ p \in 1..(old - away) /\ p + away \in (from + 1)..to
           /\ p + away = to <=> p = to - away
  OBVIOUS

\* A piece of a sequence.
LEMMA PartIs ==
    ASSUME NEW S, NEW s \in Seq(S), NEW m \in Nat \ {0}, NEW n \in Nat, n <= Len(s)
    PROVE  /\ SubSeq(s, m, n) \in Seq(S)
           /\ Len(SubSeq(s, m, n)) = IF m <= n THEN n - m + 1 ELSE 0
           /\ \A i \in 1..(n - m + 1) : SubSeq(s, m, n)[i] = s[m + i - 1]
  <1>1. Len(s) \in Nat
    BY LenProperties
  <1>2. \A i \in m..n : s[i] \in S
    BY <1>1, ElementOfSeq
  <1> QED  BY <1>2, SubSeqProperties

\* The rest of a sequence, once `away` of it are gone.
LEMMA RestIs ==
    ASSUME NEW S, NEW s \in Seq(S), NEW away \in Nat, away <= Len(s)
    PROVE  /\ SubSeq(s, away + 1, Len(s)) \in Seq(S)
           /\ Len(SubSeq(s, away + 1, Len(s))) = Len(s) - away
           /\ \A p \in 1..(Len(s) - away) : SubSeq(s, away + 1, Len(s))[p] = s[p + away]
  <1>1. Len(s) \in Nat
    BY LenProperties
  <1>2. /\ SubSeq(s, away + 1, Len(s)) \in Seq(S)
        /\ Len(SubSeq(s, away + 1, Len(s))) =
               IF away + 1 <= Len(s) THEN Len(s) - (away + 1) + 1 ELSE 0
        /\ \A i \in 1..(Len(s) - (away + 1) + 1) :
              SubSeq(s, away + 1, Len(s))[i] = s[(away + 1) + i - 1]
    BY <1>1, PartIs
  <1>3. Len(SubSeq(s, away + 1, Len(s))) = Len(s) - away
    BY <1>1, <1>2
  <1>4. ASSUME NEW p \in 1..(Len(s) - away)
        PROVE  SubSeq(s, away + 1, Len(s))[p] = s[p + away]
    <2>1. p \in 1..(Len(s) - (away + 1) + 1) /\ (away + 1) + p - 1 = p + away
      BY <1>1
    <2> QED  BY <1>2, <2>1
  <1> QED  BY <1>2, <1>3, <1>4

\* A sequence is its head up to some place and the rest.
LEMMA TwoParts ==
    ASSUME NEW S, NEW s \in Seq(S), NEW n \in 0..Len(s)
    PROVE  /\ SubSeq(s, 1, n) \in Seq(S) /\ SubSeq(s, n + 1, Len(s)) \in Seq(S)
           /\ SubSeq(s, 1, n) \o SubSeq(s, n + 1, Len(s)) = s
  <1>1. Len(s) \in Nat
    BY LenProperties
  <1>2. SubSeq(s, 1, n) \in Seq(S)
    BY <1>1, PartIs
  <1>3. SubSeq(s, n + 1, Len(s)) \in Seq(S)
    BY <1>1, PartIs
  <1>4. SubSeq(s, 1, n) \o SubSeq(s, n + 1, Len(s)) = s
    <2>1. 1 \in 1..(Len(s) + 1) /\ n \in (1 - 1)..Len(s) /\ Len(s) \in n..Len(s)
      BY <1>1
    <2>2. SubSeq(s, 1, n) \o SubSeq(s, n + 1, Len(s)) = SubSeq(s, 1, Len(s))
      BY <2>1, ConcatAdjacentSubSeq
    <2>3. SubSeq(s, 1, Len(s)) = s
      BY SubSeqFull
    <2> QED  BY <2>2, <2>3, Zenon
  <1> QED  BY <1>2, <1>3, <1>4

-----------------------------------------------------------------------------
\* A stream of whole lines.

LEMMA HoldsNothing ==
    ASSUME NEW asked \in Seq(Messages)
    PROVE  Holds(<< >>, Len(asked), asked)
  <1> PICK n \in Nat : n = Len(asked)
    BY LenProperties
  <1> PICK ends : ends = [k \in n..n |-> 0]
    OBVIOUS
  <1>1. ends \in [n..Len(asked) -> Nat] /\ ends[n] = 0 /\ Len(<< >>) = 0
    OBVIOUS
  <1>2. \A j, k \in n..Len(asked) : j <= k => ends[j] <= ends[k]
    OBVIOUS
  <1>3. (n + 1)..Len(asked) = {}
    OBVIOUS
  <1>4. Fills(ends, << >>, n, asked)
    BY <1>1, <1>2, <1>3 DEF Fills
  <1> QED  BY <1>1, <1>4 DEF Holds

LEMMA HoldsMore ==
    ASSUME NEW asked \in Seq(Messages), NEW stream \in Seq(Units), NEW taken \in Nat,
           taken <= Len(asked), Holds(stream, taken, asked), NEW message \in Messages
    PROVE  Holds(stream \o Line(Len(asked) + 1, Length(message)), taken, Append(asked, message))
  <1>a. PICK n \in Nat : n = Len(asked)
    BY LenProperties
  <1>b. PICK size \in Nat \ {0} : size = Length(message)
    BY LengthIs
  <1>c. PICK ends \in [taken..n -> Nat] : Fills(ends, stream, taken, asked)
    BY <1>a DEF Holds
  <1>d. PICK next : next = Append(asked, message)
    OBVIOUS
  <1>e. PICK new : new = Line(n + 1, size)
    OBVIOUS
  <1>f. PICK whole : whole = stream \o new
    OBVIOUS
  <1>g. PICK old \in Nat : old = Len(stream)
    BY LenProperties
  <1>1. Len(next) = n + 1 /\ next[n + 1] = message /\ \A k \in 1..n : next[k] = asked[k]
    BY <1>a, <1>d, AppendProperties
  <1>2. /\ new \in Seq(Units) /\ Len(new) = size + 1
        /\ \A i \in 1..(size + 1) : new[i].of = n + 1 /\ (new[i].newline <=> i = size + 1)
    <2>1. n + 1 \in Nat \ {0} /\ size \in Nat
      OBVIOUS
    <2>2. IsLine(new, n + 1, size)
      BY <1>e, <2>1, LineIs
    <2> QED  BY <2>2 DEF IsLine
  <1>3. /\ Len(whole) = old + size + 1
        /\ \A p \in 1..(old + size + 1) :
              whole[p] = IF p <= old THEN stream[p] ELSE new[p - old]
    <2>1. /\ Len(whole) = Len(stream) + Len(new)
          /\ \A p \in 1..(Len(stream) + Len(new)) :
                whole[p] = IF p <= Len(stream) THEN stream[p] ELSE new[p - Len(stream)]
      <3>1. stream \in Seq(Units) /\ new \in Seq(Units)
        BY <1>2
      <3>2. /\ Len(stream \o new) = Len(stream) + Len(new)
            /\ \A p \in 1..(Len(stream) + Len(new)) :
                  (stream \o new)[p] = IF p <= Len(stream) THEN stream[p]
                                       ELSE new[p - Len(stream)]
        BY <3>1, ConcatProperties
      <3> QED  BY <1>f, <3>2
    <2> QED  BY <1>2, <1>g, <2>1
  <1>h. PICK more : more = [k \in taken..(n + 1) |-> IF k = n + 1 THEN old + size + 1 ELSE ends[k]]
    OBVIOUS
  <1>4. /\ more \in [taken..(n + 1) -> Nat] /\ more[n + 1] = old + size + 1
        /\ \A k \in taken..n : more[k] = ends[k]
    <2>1. taken \in Nat /\ n \in Nat /\ taken <= n /\ old + size + 1 \in Nat
      BY <1>a
    <2>2. \A k \in taken..n : k \in taken..(n + 1) /\ k # n + 1 /\ ends[k] \in Nat
      BY <1>c, <2>1
    <2>3. \A k \in taken..(n + 1) : k = n + 1 \/ k \in taken..n
      BY <2>1
    <2>4. n + 1 \in taken..(n + 1)
      BY <2>1
    <2> QED  BY <1>h, <2>1, <2>2, <2>3, <2>4
  <1>5. more[taken] = 0 /\ more[n] = old
    BY <1>a, <1>c, <1>g, <1>4 DEF Fills
  <1>6. ASSUME NEW j \in taken..(n + 1), NEW k \in taken..(n + 1), j <= k
        PROVE  more[j] <= more[k]
    <2>1. CASE k <= n
      BY <1>a, <1>c, <1>4, <1>6, <2>1 DEF Fills
    <2>2. CASE j = n + 1
      BY <1>4, <1>6, <2>2
    <2>3. CASE k = n + 1 /\ j <= n
      <3>1. ends[j] <= ends[n] /\ ends[j] \in Nat
        BY <1>a, <1>c, <2>3 DEF Fills
      <3>2. more[j] = ends[j] /\ ends[n] = old /\ more[k] = old + size + 1
        BY <1>4, <1>5, <2>3
      <3> QED  BY <3>1, <3>2
    <2> QED  BY <2>1, <2>2, <2>3
  <1>7. ASSUME NEW k \in (taken + 1)..(n + 1)
        PROVE  more[k] = more[k - 1] + Length(next[k]) + 1
    <2>1. CASE k = n + 1
      BY <1>b, <1>1, <1>4, <1>5, <2>1
    <2>2. CASE k <= n
      <3>1. k \in (taken + 1)..n /\ k \in taken..n /\ k - 1 \in taken..n /\ k \in 1..n
        BY <2>2
      <3>2. ends[k] = ends[k - 1] + Length(asked[k]) + 1
        BY <1>a, <1>c, <3>1 DEF Fills
      <3> QED  BY <1>1, <1>4, <3>1, <3>2
    <2> QED  BY <2>1, <2>2
  <1>8. ASSUME NEW k \in (taken + 1)..(n + 1), NEW p \in (more[k - 1] + 1)..more[k]
        PROVE  whole[p].of = k /\ (whole[p].newline <=> p = more[k])
    <2>1. CASE k = n + 1
      <3>1. p \in (old + 1)..(old + size + 1) /\ more[k] = old + size + 1
        BY <1>4, <1>5, <2>1
      <3>2. whole[p] = new[p - old] /\ p - old \in 1..(size + 1)
        BY <1>3, <3>1
      <3>3. whole[p].of = n + 1 /\ (whole[p].newline <=> p - old = size + 1)
        BY <1>2, <3>2
      <3> QED  BY <2>1, <3>1, <3>3
    <2>2. CASE k <= n
      <3>1. k \in (taken + 1)..n /\ k \in taken..n /\ k - 1 \in taken..n /\ n \in taken..n
        BY <2>2
      <3>2. more[k - 1] = ends[k - 1] /\ more[k] = ends[k]
        BY <1>4, <3>1
      <3>3. ends[k] <= ends[n] /\ ends[n] = old /\ ends[k - 1] \in Nat /\ ends[k] \in Nat
        <4>1. ends[k] <= ends[n]
          BY <1>a, <1>c, <3>1 DEF Fills
        <4>2. ends[n] = old
          BY <1>4, <1>5, <3>1
        <4> QED  BY <1>c, <3>1, <4>1, <4>2
      <3>4. p \in (ends[k - 1] + 1)..ends[k] /\ p \in 1..(old + size + 1) /\ p <= old
        BY <3>2, <3>3
      <3>5. stream[p].of = k /\ (stream[p].newline <=> p = ends[k])
        BY <1>a, <1>c, <3>1, <3>4 DEF Fills
      <3>6. whole[p] = stream[p]
        BY <1>3, <3>4
      <3> QED  BY <3>2, <3>5, <3>6
    <2> QED  BY <2>1, <2>2
  <1>9. Fills(more, whole, taken, next)
    BY <1>1, <1>3, <1>4, <1>5, <1>6, <1>7, <1>8 DEF Fills
  <1>10. Holds(whole, taken, next)
    BY <1>1, <1>4, <1>9 DEF Holds
  <1> QED  BY <1>a, <1>b, <1>d, <1>e, <1>f, <1>10

\* The first line of a stream, and what follows it.
FirstIs(stream, size, taken, asked) ==
    /\ size + 1 <= Len(stream)
    /\ \A i \in 1..(size + 1) :
          stream[i].of = taken + 1 /\ (stream[i].newline <=> i = size + 1)
    /\ Holds(SubSeq(stream, size + 2, Len(stream)), taken + 1, asked)

LEMMA HoldsFirst ==
    ASSUME NEW asked \in Seq(Messages), NEW stream \in Seq(Units), NEW taken \in Nat,
           taken < Len(asked), Holds(stream, taken, asked),
           NEW size \in Nat \ {0}, size = Length(asked[taken + 1])
    PROVE  FirstIs(stream, size, taken, asked)
  <1>a. PICK n \in Nat : n = Len(asked)
    BY LenProperties
  <1>b. PICK ends \in [taken..n -> Nat] : Fills(ends, stream, taken, asked)
    BY <1>a DEF Holds
  <1>c. PICK old \in Nat : old = Len(stream)
    BY LenProperties
  <1>1. taken + 1 \in (taken + 1)..n /\ (taken + 1) - 1 = taken /\ n \in taken..n
        /\ taken + 1 \in taken..n
    BY <1>a
  <1>2. ends[taken] = 0 /\ ends[n] = old /\ ends[taken + 1] = size + 1
    BY <1>a, <1>b, <1>c, <1>1 DEF Fills
  <1>3. \A i \in 1..(size + 1) :
           stream[i].of = taken + 1 /\ (stream[i].newline <=> i = size + 1)
    BY <1>a, <1>b, <1>1, <1>2 DEF Fills
  <1>4. \A k \in (taken + 1)..n : ends[k] \in Nat /\ ends[k] >= size + 1 /\ ends[k] <= old
    <2> SUFFICES ASSUME NEW k \in (taken + 1)..n
                 PROVE  ends[k] \in Nat /\ ends[k] >= size + 1 /\ ends[k] <= old
      OBVIOUS
    <2>1. k \in taken..n /\ taken + 1 <= k /\ k <= n
      OBVIOUS
    <2>2. ends[k] \in Nat
      BY <1>b, <2>1
    <2>3. ends[taken + 1] <= ends[k]
      BY <1>a, <1>b, <1>1, <2>1 DEF Fills
    <2>4. ends[k] <= ends[n]
      BY <1>a, <1>b, <1>1, <2>1 DEF Fills
    <2> QED  BY <1>2, <2>2, <2>3, <2>4
  <1>5. size + 1 <= old
    BY <1>1, <1>2, <1>4
  <1>d. PICK rest : rest = SubSeq(stream, size + 2, Len(stream))
    OBVIOUS
  <1>6. /\ Len(rest) = old - (size + 1)
        /\ \A p \in 1..(old - (size + 1)) : rest[p] = stream[p + (size + 1)]
    <2>1. PICK away \in Nat : away = size + 1
      OBVIOUS
    <2>2. away <= Len(stream) /\ rest = SubSeq(stream, away + 1, Len(stream))
      <3>1. away <= Len(stream) /\ size + 2 = away + 1
        BY <1>c, <1>5, <2>1
      <3> QED  BY <1>d, <3>1, Zenon
    <2>3. /\ Len(SubSeq(stream, away + 1, Len(stream))) = Len(stream) - away
          /\ \A p \in 1..(Len(stream) - away) :
                SubSeq(stream, away + 1, Len(stream))[p] = stream[p + away]
      BY <2>2, RestIs
    <2> QED  BY <1>c, <2>1, <2>2, <2>3
  <1>e. PICK less : less = [k \in (taken + 1)..n |-> ends[k] - (size + 1)]
    OBVIOUS
  <1>7. /\ less \in [(taken + 1)..n -> Nat]
        /\ \A k \in (taken + 1)..n : less[k] = ends[k] - (size + 1)
    <2>1. \A k \in (taken + 1)..n : ends[k] - (size + 1) \in Nat
      BY <1>4
    <2> QED  BY <1>e, <2>1
  <1>8. less[taken + 1] = 0 /\ less[n] = Len(rest)
    BY <1>a, <1>1, <1>2, <1>6, <1>7
  <1>9. ASSUME NEW j \in (taken + 1)..n, NEW k \in (taken + 1)..n, j <= k
        PROVE  less[j] <= less[k]
    <2>1. ends[j] <= ends[k]
      <3>1. j \in taken..n /\ k \in taken..n
        OBVIOUS
      <3>2. \A a, b \in taken..n : a <= b => ends[a] <= ends[b]
        BY <1>a, <1>b DEF Fills
      <3> QED  BY <1>9, <3>1, <3>2
    <2>2. less[j] = ends[j] - (size + 1) /\ less[k] = ends[k] - (size + 1)
      BY <1>7
    <2>3. PICK a \in Nat, b \in Nat : a = ends[j] /\ b = ends[k]
      BY <1>4
    <2>4. a - (size + 1) <= b - (size + 1)
      BY <2>1, <2>3
    <2> QED  BY <2>2, <2>3, <2>4
  <1>10. ASSUME NEW k \in ((taken + 1) + 1)..n
         PROVE  /\ k - 1 \in (taken + 1)..n /\ k \in (taken + 1)..n
                /\ less[k] = less[k - 1] + Length(asked[k]) + 1
                /\ less[k] = ends[k] - (size + 1) /\ less[k - 1] = ends[k - 1] - (size + 1)
    <2>1. k - 1 \in (taken + 1)..n /\ k \in (taken + 1)..n /\ k \in 1..n
      BY <1>a
    <2>2. ends[k] = ends[k - 1] + Length(asked[k]) + 1
      BY <1>a, <1>b, <2>1 DEF Fills
    <2>3. asked[k] \in Messages
      BY <1>a, <2>1, ElementOfSeq
    <2>4. Length(asked[k]) \in Nat
      BY <2>3, LengthIs
    <2>5. less[k] = ends[k] - (size + 1) /\ less[k - 1] = ends[k - 1] - (size + 1)
      BY <1>7, <2>1
    <2>6. ends[k] \in Nat /\ ends[k - 1] \in Nat
      BY <1>4, <2>1
    <2> QED  BY <2>1, <2>2, <2>4, <2>5, <2>6
  <1>11. ASSUME NEW k \in ((taken + 1) + 1)..n, NEW p \in (less[k - 1] + 1)..less[k]
         PROVE  rest[p].of = k /\ (rest[p].newline <=> p = less[k])
    <2>1. /\ k - 1 \in (taken + 1)..n /\ k \in (taken + 1)..n
          /\ less[k] = ends[k] - (size + 1) /\ less[k - 1] = ends[k - 1] - (size + 1)
      BY <1>10
    <2>2. ends[k] \in Nat /\ ends[k - 1] \in Nat /\ ends[k] <= old /\ ends[k - 1] >= size + 1
      BY <1>4, <2>1
    <2>3. PICK away \in Nat, from \in Nat, to \in Nat :
             away = size + 1 /\ from = ends[k - 1] /\ to = ends[k]
      BY <2>2
    <2>4. from >= away /\ to <= old /\ p \in ((from - away) + 1)..(to - away)
      BY <2>1, <2>2, <2>3
    <2>5. /\ p \in 1..(old - away) /\ p + away \in (from + 1)..to
          /\ p + away = to <=> p = to - away
      BY <2>4, Shifted
    <2>6. stream[p + away].of = k /\ (stream[p + away].newline <=> p + away = to)
      <3>1. PICK q : q = p + away
        OBVIOUS
      <3>2. k \in (taken + 1)..Len(asked) /\ q \in (ends[k - 1] + 1)..ends[k]
        BY <1>a, <2>1, <2>3, <2>5, <3>1
      <3>3. \A a \in (taken + 1)..Len(asked) : \A b \in (ends[a - 1] + 1)..ends[a] :
               stream[b].of = a /\ (stream[b].newline <=> b = ends[a])
        BY <1>b DEF Fills
      <3>4. stream[q].of = k /\ (stream[q].newline <=> q = ends[k])
        BY <3>2, <3>3
      <3> QED  BY <2>3, <3>1, <3>4
    <2>7. rest[p] = stream[p + away]
      BY <1>6, <2>3, <2>5
    <2> QED  BY <2>1, <2>3, <2>5, <2>6, <2>7
  <1>12. Fills(less, rest, taken + 1, asked)
    BY <1>a, <1>8, <1>9, <1>10, <1>11 DEF Fills
  <1>13. Holds(rest, taken + 1, asked)
    BY <1>a, <1>7, <1>12 DEF Holds
  <1> QED  BY <1>c, <1>d, <1>3, <1>5, <1>13 DEF FirstIs

\* A stream is empty when every request was taken, and only then.
LEMMA HoldsAll ==
    ASSUME NEW asked \in Seq(Messages), NEW stream \in Seq(Units), NEW taken \in Nat,
           taken <= Len(asked), Holds(stream, taken, asked)
    PROVE  stream = << >> <=> taken = Len(asked)
  <1>1. Len(asked) \in Nat
    BY LenProperties
  <1>2. CASE taken < Len(asked)
    <2>1. asked[taken + 1] \in Messages
      BY <1>1, <1>2, ElementOfSeq
    <2> PICK size \in Nat \ {0} : size = Length(asked[taken + 1])
      BY <2>1, LengthIs
    <2>2. size + 1 <= Len(stream)
      BY <1>2, HoldsFirst DEF FirstIs
    <2> QED  BY <1>2, <2>2, EmptySeq
  <1>3. CASE taken = Len(asked)
    <2>1. Len(stream) = 0
      BY <1>3 DEF Holds, Fills
    <2> QED  BY <1>3, <2>1, EmptySeq
  <1> QED  BY <1>1, <1>2, <1>3

-----------------------------------------------------------------------------
\* What the decoder makes of a stream of whole lines.

\* The rest of a buffer, and what is still to be read after it.
LEMMA RestOfBoth ==
    ASSUME NEW S, NEW s \in Seq(S), NEW t \in Seq(S), NEW away \in Nat, away <= Len(s)
    PROVE  SubSeq(s \o t, away + 1, Len(s \o t)) = SubSeq(s, away + 1, Len(s)) \o t
  <1>a. PICK n \in Nat, m \in Nat : n = Len(s) /\ m = Len(t)
    BY LenProperties
  <1>b. PICK both : both = s \o t
    OBVIOUS
  <1>c. PICK left : left = SubSeq(s, away + 1, Len(s))
    OBVIOUS
  <1>d. PICK right : right = SubSeq(both, away + 1, Len(both))
    OBVIOUS
  <1>1. /\ both \in Seq(S) /\ Len(both) = n + m
        /\ \A i \in 1..(n + m) : both[i] = IF i <= n THEN s[i] ELSE t[i - n]
    BY <1>a, <1>b, ConcatProperties
  <1>2. /\ left \in Seq(S) /\ Len(left) = n - away
        /\ \A p \in 1..(n - away) : left[p] = s[p + away]
    BY <1>a, <1>c, RestIs
  <1>3. away <= Len(both)
    BY <1>a, <1>1
  <1>4. /\ right \in Seq(S) /\ Len(right) = (n + m) - away
        /\ \A p \in 1..((n + m) - away) : right[p] = both[p + away]
    <2>1. /\ right \in Seq(S) /\ Len(right) = Len(both) - away
          /\ \A p \in 1..(Len(both) - away) : right[p] = both[p + away]
      BY <1>1, <1>3, <1>d, RestIs
    <2> QED  BY <1>1, <2>1
  <1>5. /\ left \o t \in Seq(S) /\ Len(left \o t) = (n - away) + m
        /\ \A i \in 1..((n - away) + m) :
              (left \o t)[i] = IF i <= n - away THEN left[i] ELSE t[i - (n - away)]
    <2>1. /\ left \o t \in Seq(S) /\ Len(left \o t) = Len(left) + Len(t)
          /\ \A i \in 1..(Len(left) + Len(t)) :
                (left \o t)[i] = IF i <= Len(left) THEN left[i] ELSE t[i - Len(left)]
      <3>1. left \in Seq(S)
        BY <1>2
      <3> QED  BY <3>1, ConcatProperties
    <2> QED  BY <1>a, <1>2, <2>1
  <1>6. Len(right) = Len(left \o t)
    BY <1>4, <1>5
  <1>7. ASSUME NEW i \in 1..Len(right)
        PROVE  right[i] = (left \o t)[i]
    <2>0. i \in 1..((n + m) - away) /\ i \in 1..((n - away) + m) /\ i + away \in 1..(n + m)
      BY <1>4
    <2>1. CASE i <= n - away
      <3>1. i \in 1..(n - away) /\ i + away <= n
        BY <2>0, <2>1
      <3>2. right[i] = s[i + away]
        BY <1>1, <1>4, <2>0, <3>1
      <3> QED  BY <1>2, <1>5, <2>0, <2>1, <3>1, <3>2
    <2>2. CASE i > n - away
      <3>1. ~(i + away <= n) /\ ~(i <= n - away)
        BY <2>0, <2>2
      <3>2. PICK place : place = (i + away) - n
        OBVIOUS
      <3>3. place = i - (n - away)
        BY <2>0, <3>2
      <3>4. right[i] = t[place]
        BY <1>1, <1>4, <2>0, <3>1, <3>2
      <3>5. (left \o t)[i] = t[place]
        BY <1>5, <2>0, <3>1, <3>3
      <3> QED  BY <3>4, <3>5
    <2>3. i <= n - away \/ i > n - away
      BY <2>0
    <2> QED  BY <2>1, <2>2, <2>3
  <1>8. right = left \o t
    BY <1>4, <1>5, <1>6, <1>7, SeqEqual
  <1> QED  BY <1>b, <1>c, <1>d, <1>8

LEMMA FirstNewline ==
    ASSUME NEW units, NEW first \in Newlines(units), \A i \in Newlines(units) : first <= i,
           Newlines(units) \subseteq Nat
    PROVE  FirstOf(Newlines(units)) = first
  <1>a. PICK all : all = Newlines(units)
    OBVIOUS
  <1>1. \A i \in all : (\A j \in all : i <= j) => i = first
    BY <1>a
  <1>2. \E i \in all : \A j \in all : i <= j
    BY <1>a
  <1> QED  BY <1>a, <1>1, <1>2 DEF FirstOf

\* The next line is the next request, whole; a line beyond the limit is of a
\* request that is too long.
FrameIs(next, units, rest, taken, asked) ==
    /\ next.status \in {"none", "frame", "too_large"}
    /\ next.payload \in Seq(Units) /\ next.rest \in Seq(Units)
    /\ next.status = "none" => next.rest = units
    /\ next.status = "frame" =>
           /\ taken < Len(asked) /\ asked[taken + 1].kind # "long"
           /\ next.payload # << >> /\ next.payload[1].of = taken + 1
           /\ Holds(next.rest \o rest, taken + 1, asked)
    /\ next.status = "too_large" =>
           taken < Len(asked) /\ asked[taken + 1].kind = "long"

LEMMA NextFrameIs ==
    ASSUME NEW asked \in Seq(Messages), NEW units \in Seq(Units), NEW rest \in Seq(Units),
           NEW taken \in Nat, taken <= Len(asked), Holds(units \o rest, taken, asked)
    PROVE  FrameIs(NextFrame(units), units, rest, taken, asked)
  <1>a. PICK n \in Nat, u \in Nat, r \in Nat : n = Len(asked) /\ u = Len(units) /\ r = Len(rest)
    BY LenProperties
  <1>b. PICK stream \in Seq(Units) : stream = units \o rest
    BY ConcatProperties
  <1>c. PICK all : all = Newlines(units)
    OBVIOUS
  <1>1. /\ Len(stream) = u + r /\ \A i \in 1..u : stream[i] = units[i]
    <2>1. /\ Len(units \o rest) = Len(units) + Len(rest)
          /\ \A i \in 1..(Len(units) + Len(rest)) :
                (units \o rest)[i] = IF i <= Len(units) THEN units[i] ELSE rest[i - Len(units)]
      BY ConcatProperties
    <2>2. \A i \in 1..u : i \in 1..(u + r) /\ i <= u
      OBVIOUS
    <2> QED  BY <1>a, <1>b, <2>1, <2>2
  <1>2. all \subseteq Nat /\ \A i \in all : i \in 1..u /\ units[i].newline
    BY <1>a, <1>c DEF Newlines
  <1>3. CASE taken = n
    <2>1. stream = << >>
      BY <1>a, <1>b, <1>3, HoldsAll
    <2>2. u = 0
      <3>1. Len(stream) = 0
        BY <2>1, EmptySeq
      <3> QED  BY <1>1, <3>1
    <2>3. all = {}
      BY <1>2, <2>2
    <2>4. ~(Len(units) > MAX_FRAME_BYTES)
      BY <1>a, <2>2, FrameAssumption DEF FrameAssumption
    <2>5. NextFrame(units) = Decoded(<< >>, units, "none")
      BY <1>c, <2>3, <2>4 DEF NextFrame
    <2>6. << >> \in Seq(Units)
      BY EmptySeq
    <2> QED  BY <2>5, <2>6 DEF Decoded, FrameIs
  <1>4. CASE taken < n
    <2>a. PICK request \in Messages : request = asked[taken + 1]
      <3>1. taken + 1 \in 1..Len(asked)
        BY <1>4, <1>a
      <3> QED  BY <3>1, ElementOfSeq
    <2>b. PICK size \in Nat \ {0} : size = Length(request)
      BY LengthIs
    <2>1. size > MAX_FRAME_BYTES <=> request.kind = "long"
      BY <2>b, LengthIs
    <2>2. /\ size + 1 <= Len(stream)
          /\ \A i \in 1..(size + 1) :
                stream[i].of = taken + 1 /\ (stream[i].newline <=> i = size + 1)
          /\ Holds(SubSeq(stream, size + 2, Len(stream)), taken + 1, asked)
      <3>1. taken < Len(asked) /\ Holds(stream, taken, asked) /\ size = Length(asked[taken + 1])
        BY <1>a, <1>b, <1>4, <2>a, <2>b
      <3>2. FirstIs(stream, size, taken, asked)
        BY <3>1, HoldsFirst
      <3> QED  BY <3>2 DEF FirstIs
    <2>3. \A i \in 1..u : i <= size + 1 =>
              units[i].of = taken + 1 /\ (units[i].newline <=> i = size + 1)
      <3>1. \A i \in 1..(size + 1) :
               stream[i].of = taken + 1 /\ (stream[i].newline <=> i = size + 1)
        BY <2>2
      <3>2. \A i \in 1..u : stream[i] = units[i]
        BY <1>1
      <3>3. PICK of \in Nat, end \in Nat : of = taken + 1 /\ end = size + 1
        OBVIOUS
      <3>4. \A i \in 1..end : stream[i].of = of /\ (stream[i].newline <=> i = end)
        BY <3>1, <3>3
      <3>5. ASSUME NEW i \in 1..u, i <= end
            PROVE  units[i].of = of /\ (units[i].newline <=> i = end)
        <4>1. i \in 1..end
          BY <3>5
        <4>2. stream[i] = units[i]
          BY <3>2
        <4>3. stream[i].of = of /\ (stream[i].newline <=> i = end)
          BY <3>4, <4>1
        <4> QED  BY <4>2, <4>3
      <3> QED  BY <3>3, <3>5
    <2>4. \A i \in all : size + 1 <= i
      <3> SUFFICES ASSUME NEW i \in all, i < size + 1
                   PROVE  FALSE
        BY <1>2
      <3>1. i \in 1..u /\ units[i].newline /\ i <= size + 1 /\ i # size + 1
        BY <1>2
      <3> QED  BY <2>3, <3>1
    <2>5. MAX_FRAME_BYTES \in Nat
      BY FrameAssumption DEF FrameAssumption
    <2>6. CASE u <= size
      <3>1. all = {}
        BY <1>2, <2>4, <2>6
      <3>2. u > MAX_FRAME_BYTES => request.kind = "long"
        BY <2>1, <2>5, <2>6
      <3>3. NextFrame(units) =
                Decoded(<< >>, units, IF u > MAX_FRAME_BYTES THEN "too_large" ELSE "none")
        BY <1>a, <1>c, <3>1 DEF NextFrame
      <3>4. << >> \in Seq(Units)
        BY EmptySeq
      <3> QED  BY <1>4, <1>a, <2>a, <3>2, <3>3, <3>4 DEF Decoded, FrameIs
    <2>7. CASE u > size
      <3>1. size + 1 \in 1..u
        BY <2>7
      <3>2. size + 1 \in all
        BY <1>a, <1>c, <2>3, <3>1 DEF Newlines
      <3>3. FirstOf(all) = size + 1
        BY <1>2, <1>c, <2>4, <3>2, FirstNewline
      <3>4. all # {}
        BY <3>2
      <3>5. NextFrame(units) =
                IF size > MAX_FRAME_BYTES THEN Decoded(<< >>, units, "too_large")
                ELSE Decoded(SubSeq(units, 1, size), SubSeq(units, size + 2, Len(units)), "frame")
        <4>1. (size + 1) - 1 = size
          OBVIOUS
        <4> QED  BY <1>c, <3>3, <3>4, <4>1 DEF NextFrame
      <3>6. CASE size > MAX_FRAME_BYTES
        <4>1. << >> \in Seq(Units)
          BY EmptySeq
        <4> QED  BY <1>4, <1>a, <2>1, <2>a, <3>5, <3>6, <4>1 DEF Decoded, FrameIs
      <3>7. CASE ~(size > MAX_FRAME_BYTES)
        <4>a. PICK payload : payload = SubSeq(units, 1, size)
          OBVIOUS
        <4>b. PICK left : left = SubSeq(units, size + 2, Len(units))
          OBVIOUS
        <4>1. NextFrame(units) = Decoded(payload, left, "frame")
          BY <3>5, <3>7, <4>a, <4>b
        <4>2. payload \in Seq(Units) /\ Len(payload) = size /\ payload[1] = units[1]
          <5>1. size \in 0..Len(units) /\ size <= Len(units)
            BY <1>a, <2>7
          <5>2. /\ SubSeq(units, 1, size) \in Seq(Units)
                /\ Len(SubSeq(units, 1, size)) = (IF 1 <= size THEN size - 1 + 1 ELSE 0)
                /\ \A i \in 1..(size - 1 + 1) : SubSeq(units, 1, size)[i] = units[1 + i - 1]
            BY <5>1, PartIs
          <5> QED  BY <4>a, <5>2
        <4>3. payload # << >>
          BY <4>2, EmptySeq
        <4>4. payload[1].of = taken + 1
          <5>1. 1 \in 1..u /\ 1 <= size + 1
            BY <2>7
          <5> QED  BY <2>3, <4>2, <5>1
        <4>5. left \in Seq(Units)
          <5>1. size + 1 \in Nat /\ size + 1 <= Len(units) /\ (size + 1) + 1 = size + 2
            BY <1>a, <2>7
          <5> QED  BY <4>b, <5>1, RestIs
        <4>6. SubSeq(stream, size + 2, Len(stream)) = left \o rest
          <5>1. PICK away \in Nat : away = size + 1
            OBVIOUS
          <5>2. away <= Len(units) /\ away + 1 = size + 2
            BY <1>a, <2>7, <5>1
          <5>3. SubSeq(units \o rest, away + 1, Len(units \o rest)) =
                    SubSeq(units, away + 1, Len(units)) \o rest
            BY <5>2, RestOfBoth
          <5> QED  BY <1>b, <4>b, <5>2, <5>3
        <4>7. Holds(left \o rest, taken + 1, asked)
          BY <2>2, <4>6
        <4>8. request.kind # "long"
          BY <2>1, <3>7
        <4>9. taken < Len(asked) /\ asked[taken + 1].kind # "long"
          BY <1>4, <1>a, <2>a, <4>8
        <4>10. /\ NextFrame(units).payload = payload /\ NextFrame(units).rest = left
               /\ NextFrame(units).status = "frame"
          BY <4>1 DEF Decoded
        <4> QED  BY <4>2, <4>3, <4>4, <4>5, <4>7, <4>9, <4>10 DEF FrameIs
      <3> QED  BY <3>6, <3>7
    <2> QED  BY <2>6, <2>7
  <1> QED  BY <1>3, <1>4, <1>a

-----------------------------------------------------------------------------
\* What a step leaves alone.

\* What a request is due hangs on it and on those before it.
LEMMA DueFixed ==
    ASSUME NEW i \in Nat \ {0}, \A j \in 1..i : sent'[j] = sent[j]
    PROVE  Due(i)' = Due(i)
  <1>1. sent'[i] = sent[i]
    OBVIOUS
  <1>2. \A j \in 1..(i - 1) : sent'[j] = sent[j]
    OBVIOUS
  <1>3. (\E j \in 1..(i - 1) : sent'[j].kind = "hello" /\ Negotiate(sent'[j].schema) # {})
            <=> (\E j \in 1..(i - 1) : sent[j].kind = "hello" /\ Negotiate(sent[j].schema) # {})
    BY <1>2
  <1> QED  BY <1>1, <1>3, Zenon DEF Due

LEMMA DueIs ==
    ASSUME NEW i \in Nat \ {0}
    PROVE  /\ Due(i) = ReplyFrame(Due(i).id, Due(i).verdict) /\ Due(i) \in Replies
           /\ Due(i).id \in {NoId, i} /\ NoId = 0 /\ Due(i).verdict \in {"ok", "bad"}
           /\ sent[i].kind \in {"garbage", "long"} => Due(i) = ReplyFrame(NoId, "bad")
           /\ sent[i].kind \notin {"garbage", "long"} => Due(i).id = i
           /\ Greets(sent[i]) => Due(i).verdict = "ok"
           /\ sent[i].kind # "do" /\ ~Greets(sent[i]) => Due(i).verdict = "bad"
           /\ sent[i].kind = "do" =>
                  (Due(i).verdict = "ok" <=> \E j \in 1..(i - 1) : Greets(sent[j]))
  <1>a. PICK greeted \in BOOLEAN : greeted <=> \E j \in 1..(i - 1) : Greets(sent[j])
    OBVIOUS
  <1>b. PICK good \in BOOLEAN : good <=> Greets(sent[i]) \/ (sent[i].kind = "do" /\ greeted)
    OBVIOUS
  <1>1. Due(i) = ReplyFrame(IF sent[i].kind \in {"garbage", "long"} THEN NoId ELSE i,
                       IF good THEN "ok" ELSE "bad")
    BY <1>a, <1>b, Zenon DEF Due, Greets
  <1>2. NoId = 0 /\ i \in Nat
    BY DEF NoId
  <1> QED  BY <1>a, <1>b, <1>1, <1>2 DEF ReplyFrame, Replies, Greets

\* What becomes of a reply too long for a frame still names its request or none,
\* and tells neither a success nor a refusal.
LEMMA EncodedIs ==
    ASSUME NEW i \in Nat \ {0}, NEW reply \in Encoded(Due(i))
    PROVE  /\ reply \in Replies /\ reply.id \in {NoId, i}
           /\ reply.verdict \in {"ok", "bad"} => reply.verdict = Due(i).verdict
  <1>1. Due(i) \in Replies /\ Due(i).id \in {NoId, i} /\ NoId = 0
    BY DueIs
  <1>2. CASE reply = Due(i)
    BY <1>1, <1>2
  <1>3. CASE reply = ReplyFrame(Due(i).id, "internal") \/ reply = ReplyFrame(NoId, "internal")
    BY <1>1, <1>3 DEF ReplyFrame, Replies
  <1> QED  BY <1>2, <1>3 DEF Encoded

LEMMA KeepsAnswers ==
    ASSUME ConnectionInv, UNCHANGED <<answers, applied>>,
           \A i \in 1..Len(answers) : sent'[i] = sent[i],
           serving' # "ended" => serving # "ended" /\ (handshaken' <=> handshaken)
    PROVE  AnswersHold'
  <1>1. Len(answers) \in Nat
    BY LenProperties DEF ConnectionInv, ConnectionTypes
  <1>2. ASSUME NEW i \in 1..Len(answers)
        PROVE  Due(i)' = Due(i)
    <2>1. i \in Nat \ {0} /\ \A j \in 1..i : sent'[j] = sent[j]
      BY <1>1
    <2> QED  BY <2>1, DueFixed
  <1>3. \A i \in 1..Len(answers') : answers'[i] \in Encoded(Due(i)')
    BY <1>2 DEF ConnectionInv, AnswersHold
  <1>4. \A i \in 1..(Len(answers') - 1) : sent'[i].kind # "long"
    BY <1>1 DEF ConnectionInv, AnswersHold
  <1>5. serving' # "ended" =>
            (handshaken' <=> \E j \in 1..Len(answers') : Greets(sent'[j]))
    BY DEF ConnectionInv, AnswersHold
  <1>6. applied' = {k \in 1..Len(answers') : Due(k)'.verdict = "ok"}
    BY <1>2 DEF ConnectionInv, AnswersHold
  <1> QED  BY <1>3, <1>4, <1>5, <1>6 DEF AnswersHold

LEMMA KeepsReplies ==
    ASSUME ConnectionInv, UNCHANGED <<line, replies, output, answers>>
    PROVE  RepliesHold'
  BY DEF ConnectionInv, RepliesHold, Made

LEMMA KeepsCalls ==
    ASSUME ConnectionInv, UNCHANGED <<calling, sent, results, answers>>
    PROVE  CallsHold'
  BY DEF ConnectionInv, CallsHold

LEMMA KeepsRequests ==
    ASSUME ConnectionInv, UNCHANGED <<sent, requests, answers, serving, buffer, current>>
    PROVE  RequestsHold'
  BY DEF ConnectionInv, RequestsHold, Taken, Closing

LEMMA TakenIs ==
    ASSUME ConnectionInv
    PROVE  /\ Taken \in Nat /\ Len(answers) \in Nat /\ Len(sent) \in Nat
           /\ Len(results) \in Nat /\ Taken <= Len(sent) /\ Len(answers) <= Taken
           /\ serving # "handling" => Taken = Len(answers)
           /\ serving = "handling" => Taken = Len(answers) + 1
  <1>1. Len(answers) \in Nat /\ Len(sent) \in Nat /\ Len(results) \in Nat
    BY LenProperties DEF ConnectionInv, ConnectionTypes
  <1>2. Taken <= Len(sent)
    BY DEF ConnectionInv, RequestsHold
  <1>3. Taken = IF serving = "handling" THEN Len(answers) + 1 ELSE Len(answers)
    BY DEF Taken
  <1> QED  BY <1>1, <1>2, <1>3

\* A part of the units on their way is of replies that were made.
LEMMA PartMade ==
    ASSUME ConnectionTypes, NEW units \in Seq(Units), Made(units),
           NEW m \in 1..(Len(units) + 1), NEW n \in Nat, n <= Len(units)
    PROVE  Made(SubSeq(units, m, n)) /\ SubSeq(units, m, n) \in Seq(Units)
  <1>1. m \in Nat \ {0}
    BY LenProperties
  <1>2. /\ SubSeq(units, m, n) \in Seq(Units)
        /\ Len(SubSeq(units, m, n)) = (IF m <= n THEN n - m + 1 ELSE 0)
        /\ \A i \in 1..(n - m + 1) : SubSeq(units, m, n)[i] = units[m + i - 1]
    BY <1>1, PartIs
  <1>3. ASSUME NEW i \in 1..Len(SubSeq(units, m, n))
        PROVE  SubSeq(units, m, n)[i].of \in 1..Len(answers)
    <2>1. i \in 1..(n - m + 1) /\ m + i - 1 \in 1..Len(units)
      BY <1>1, <1>2, LenProperties
    <2> QED  BY <1>2, <2>1 DEF Made
  <1> QED  BY <1>2, <1>3 DEF Made

LEMMA BothMade ==
    ASSUME NEW s \in Seq(Units), Made(s), NEW t \in Seq(Units), Made(t)
    PROVE  Made(s \o t) /\ s \o t \in Seq(Units)
  <1>a. PICK n \in Nat, m \in Nat : n = Len(s) /\ m = Len(t)
    BY LenProperties
  <1>1. /\ s \o t \in Seq(Units) /\ Len(s \o t) = Len(s) + Len(t)
        /\ \A i \in 1..(Len(s) + Len(t)) :
              (s \o t)[i] = IF i <= Len(s) THEN s[i] ELSE t[i - Len(s)]
    BY ConcatProperties
  <1>2. ASSUME NEW i \in 1..(n + m)
        PROVE  (s \o t)[i].of \in 1..Len(answers)
    <2>1. CASE i <= n
      <3>1. i \in 1..n
        BY <2>1
      <3> QED  BY <1>1, <1>a, <2>1, <3>1 DEF Made
    <2>2. CASE ~(i <= n)
      <3>1. i - n \in 1..m
        BY <2>2
      <3>2. (s \o t)[i] = t[i - n]
        BY <1>1, <1>a, <2>2
      <3>3. t[i - n].of \in 1..Len(answers)
        BY <1>a, <3>1 DEF Made
      <3> QED  BY <3>2, <3>3
    <2> QED  BY <2>1, <2>2
  <1> QED  BY <1>1, <1>a, <1>2 DEF Made

-----------------------------------------------------------------------------
\* The client.

LEMMA CallTypes ==
    ASSUME ConnectionTypes, NEW message \in Messages, Call(message)
    PROVE  ConnectionTypes'
  <1>1. sent' \in Seq(Messages) /\ Len(sent') \in Nat \ {0}
    BY AppendProperties, LenProperties DEF ConnectionTypes, Call
  <1>2. results' \in Seq(Results)
    <2>1. "io" \in Results
      BY DEF Results
    <2>2. results' = results \/ results' = Append(results, "io")
      BY DEF Call, Returns
    <2>3. results \in Seq(Results)
      BY DEF ConnectionTypes
    <2>4. Append(results, "io") \in Seq(Results)
      BY <2>1, <2>3, AppendProperties
    <2> QED  BY <2>2, <2>3, <2>4
  <1>3. requests' \in Seq(Units)
    <2>1. Length(message) \in Nat
      BY LengthIs
    <2>2. Line(Len(sent'), Length(message)) \in Seq(Units)
      BY <1>1, <2>1, LineIs DEF IsLine
    <2>3. requests' = requests \/ requests' = requests \o Line(Len(sent'), Length(message))
      BY DEF Call
    <2> QED  BY <2>2, <2>3, ConcatProperties DEF ConnectionTypes
  <1>4. line' \in Seq(Units)
    BY EmptySeq DEF Call, Returns, ConnectionTypes
  <1>5. calling' \in {"waiting", "idle"}
    BY DEF Call, Returns
  <1> QED  BY <1>1, <1>2, <1>3, <1>4, <1>5 DEF Call, ConnectionTypes, daemonVars

LEMMA CallKeeps ==
    ASSUME ConnectionInv, NEW message \in Messages, Call(message)
    PROVE  ConnectionInv'
  <1>1. ConnectionTypes'
    BY CallTypes DEF ConnectionInv
  <1>2. /\ Len(sent') = Len(sent) + 1
        /\ \A i \in 1..Len(sent) : sent'[i] = sent[i]
    BY AppendProperties DEF ConnectionInv, ConnectionTypes, Call
  <1>3. RequestsHold'
    <2>1. Taken' = Taken
      BY DEF Call, Taken, daemonVars
    <2>2. Taken' <= Len(sent')
      BY <1>2, <2>1, TakenIs
    <2>3. ASSUME serving \notin Closing
          PROVE  Holds(buffer' \o requests', Taken', sent')
      <3>1. requests' = requests \o Line(Len(sent'), Length(message)) /\ buffer' = buffer
        BY <2>3 DEF Call, Listening, Closing, daemonVars
      <3>2. Holds(buffer \o requests, Taken, sent)
        BY <2>3 DEF ConnectionInv, RequestsHold
      <3>3. sent \in Seq(Messages) /\ buffer \in Seq(Units) /\ requests \in Seq(Units)
        BY DEF ConnectionInv, ConnectionTypes
      <3>4. buffer \o requests \in Seq(Units)
        BY <3>3, ConcatProperties
      <3>5. Holds((buffer \o requests) \o Line(Len(sent) + 1, Length(message)), Taken,
                  Append(sent, message))
        <4>1. Taken \in Nat /\ Taken <= Len(sent)
          BY TakenIs
        <4> QED  BY <3>2, <3>3, <3>4, <4>1, HoldsMore
      <3>6. Line(Len(sent) + 1, Length(message)) \in Seq(Units)
        <4>1. Len(sent) + 1 \in Nat \ {0} /\ Length(message) \in Nat
          BY TakenIs, LengthIs
        <4> QED  BY <4>1, LineIs DEF IsLine
      <3>7. (buffer \o requests) \o Line(Len(sent) + 1, Length(message)) =
                buffer \o (requests \o Line(Len(sent) + 1, Length(message)))
        BY <3>3, <3>6, ConcatAssociative
      <3>8. sent' = Append(sent, message)
        BY DEF Call
      <3> QED  BY <1>2, <2>1, <3>1, <3>5, <3>7, <3>8
    <2>4. ASSUME serving \notin Closing, NEW i \in 1..Taken
          PROVE  sent'[i].kind # "long"
      <3>1. i \in 1..Len(sent)
        BY TakenIs
      <3> QED  BY <1>2, <2>4, <3>1 DEF ConnectionInv, RequestsHold
    <2>5. serving' = serving /\ current' = current /\ Closing' = Closing
      BY DEF Call, daemonVars, Closing
    <2>6. serving = "handling" => current # << >> /\ current[1].of = Taken
      BY DEF ConnectionInv, RequestsHold
    <2> QED  BY <2>1, <2>2, <2>3, <2>4, <2>5, <2>6 DEF RequestsHold
  <1>4. AnswersHold'
    <2>1. \A i \in 1..Len(answers) : i \in 1..Len(sent)
      BY TakenIs
    <2>2. \A i \in 1..Len(answers) : sent'[i] = sent[i]
      BY <1>2, <2>1
    <2>3. UNCHANGED <<answers, applied>> /\ serving' = serving /\ (handshaken' <=> handshaken)
      BY DEF Call, daemonVars
    <2> QED  BY <2>2, <2>3, KeepsAnswers
  <1>5. RepliesHold'
    <2>1. line' \in {line, << >>} /\ UNCHANGED <<replies, output, answers>>
      BY DEF Call, Returns, daemonVars
    <2>2. Made(<< >>)
      BY EmptySeq DEF Made
    <2>3. Made(line) /\ Made(replies) /\ Made(output)
      BY DEF ConnectionInv, RepliesHold
    <2>4. Made(line')
      BY <2>1, <2>2, <2>3
    <2> QED  BY <2>1, <2>3, <2>4 DEF RepliesHold, Made
  <1>6. CallsHold'
    <2>1. Len(sent) = Len(results)
      BY DEF Call, ConnectionInv, CallsHold
    <2>2. CASE calling' = "waiting" /\ UNCHANGED results
      BY <1>2, <2>1, <2>2 DEF Call, daemonVars, ConnectionInv, CallsHold
    <2>3. CASE Returns("io")
      <3>1. /\ Len(results') = Len(results) + 1 /\ results'[Len(results) + 1] = "io"
            /\ \A k \in 1..Len(results) : results'[k] = results[k]
        <4>1. "io" \in Results /\ results \in Seq(Results)
          BY DEF Results, ConnectionInv, ConnectionTypes
        <4> QED  BY <2>3, <4>1, AppendProperties DEF Returns
      <3>2. \A k \in 1..Len(results') : k = Len(results) + 1 \/ k \in 1..Len(results)
        BY <3>1, TakenIs
      <3>3. calling' = "idle" /\ answers' = answers
        BY <2>3 DEF Returns, Call, daemonVars
      <3> QED  BY <1>2, <2>1, <3>1, <3>2, <3>3 DEF ConnectionInv, CallsHold
    <2> QED  BY <2>2, <2>3 DEF Call
  <1> QED  BY <1>1, <1>3, <1>4, <1>5, <1>6 DEF ConnectionInv

LEMMA ReceiveKeeps ==
    ASSUME ConnectionInv, Receive
    PROVE  ConnectionInv'
  <1>a. PICK n \in 1..Len(replies) : /\ line' = line \o SubSeq(replies, 1, n)
                                     /\ replies' = SubSeq(replies, n + 1, Len(replies))
    BY DEF Receive
  <1>1. /\ line \in Seq(Units) /\ replies \in Seq(Units) /\ Len(replies) \in Nat
        /\ ConnectionTypes /\ Made(line) /\ Made(replies)
    BY LenProperties DEF ConnectionInv, ConnectionTypes, RepliesHold
  <1>2. Made(SubSeq(replies, 1, n)) /\ SubSeq(replies, 1, n) \in Seq(Units)
    <2>1. 1 \in 1..(Len(replies) + 1) /\ n \in Nat /\ n <= Len(replies)
      BY <1>1
    <2> QED  BY <1>1, <2>1, PartMade
  <1>3. /\ Made(SubSeq(replies, n + 1, Len(replies)))
        /\ SubSeq(replies, n + 1, Len(replies)) \in Seq(Units)
    <2>1. n + 1 \in 1..(Len(replies) + 1) /\ Len(replies) \in Nat /\ Len(replies) <= Len(replies)
      BY <1>1
    <2> QED  BY <1>1, <2>1, PartMade
  <1>4. Made(line \o SubSeq(replies, 1, n)) /\ line \o SubSeq(replies, 1, n) \in Seq(Units)
    BY <1>1, <1>2, BothMade
  <1>5. /\ UNCHANGED <<sent, calling, results, requests, answers, serving, buffer, current,
                       applied, output>>
        /\ handshaken' <=> handshaken
    BY DEF Receive, daemonVars
  <1>6. handshaken' \in BOOLEAN
    BY DEF Receive, daemonVars, ConnectionInv, ConnectionTypes
  <1>7. ConnectionTypes'
    BY <1>1, <1>a, <1>3, <1>4, <1>5, <1>6 DEF ConnectionTypes
  <1>8. Made(line)' /\ Made(replies)' /\ Made(output)'
    <2>1. Made(line') /\ Made(replies') /\ Made(output)
      BY <1>a, <1>3, <1>4 DEF ConnectionInv, RepliesHold
    <2> QED  BY <1>5, <2>1 DEF Made
  <1>9. RequestsHold' /\ CallsHold'
    BY <1>5, KeepsRequests, KeepsCalls
  <1>10. AnswersHold'
    BY <1>5, KeepsAnswers
  <1> QED  BY <1>7, <1>8, <1>9, <1>10 DEF ConnectionInv, RepliesHold

\* A reply that is taken is the reply to the last request.
LEMMA ReadingIs ==
    ASSUME ConnectionInv, calling = "waiting", NEW payload \in Seq(Units), Made(payload)
    PROVE  /\ Reading(payload) \in Results
           /\ Reading(payload) \in {"ok", "bad"} =>
                  Len(sent) <= Len(answers) /\ answers[Len(sent)].verdict = Reading(payload)
  <1>1. CASE ~Whole(payload, REPLY) \/ answers[payload[1].of].id # Len(sent)
    <2>1. Reading(payload) = "protocol"
      BY <1>1 DEF Reading
    <2> QED  BY <2>1 DEF Results
  <1>2. CASE Whole(payload, REPLY) /\ answers[payload[1].of].id = Len(sent)
    <2>a. PICK i : i = payload[1].of
      OBVIOUS
    <2>1. i \in 1..Len(answers) /\ Len(answers) \in Nat
      <3>1. Len(payload) \in Nat \ {0}
        BY <1>2, EmptySeq DEF Whole
      <3>2. 1 \in 1..Len(payload)
        BY <3>1
      <3> QED  BY <2>a, <3>2, TakenIs DEF Made
    <2>2. Reading(payload) = answers[i].verdict
      BY <1>2, <2>a DEF Reading
    <2>3. answers[i] \in Encoded(Due(i))
      BY <2>1 DEF ConnectionInv, AnswersHold
    <2>4. i \in Nat \ {0}
      BY <2>1
    <2>5. answers[i].id \in {0, i} /\ answers[i].verdict \in {"ok", "bad", "internal"}
      BY <2>3, <2>4, EncodedIs DEF Replies, NoId
    <2>6. Len(sent) = Len(results) + 1 /\ Len(results) \in Nat
      BY TakenIs DEF ConnectionInv, CallsHold
    <2>7. i = Len(sent)
      BY <1>2, <2>a, <2>4, <2>5, <2>6
    <2> QED  BY <2>1, <2>2, <2>5, <2>7 DEF Results
  <1> QED  BY <1>1, <1>2

LEMMA ReturnKeeps ==
    ASSUME ConnectionInv, calling = "waiting", NEW result \in Results, Returns(result),
           UNCHANGED <<sent, requests, replies, daemonVars>>,
           result \in {"ok", "bad"} =>
               Len(sent) <= Len(answers) /\ answers[Len(sent)].verdict = result
    PROVE  ConnectionInv'
  <1>1. /\ UNCHANGED <<sent, requests, answers, serving, buffer, current, applied, replies, output>>
        /\ line' = << >> /\ calling' = "idle" /\ (handshaken' <=> handshaken)
    BY DEF daemonVars, Returns
  <1>2. /\ results' \in Seq(Results)
        /\ Len(results') = Len(results) + 1 /\ results'[Len(results) + 1] = result
        /\ \A k \in 1..Len(results) : results'[k] = results[k]
    BY AppendProperties DEF Returns, ConnectionInv, ConnectionTypes
  <1>3. ConnectionTypes'
    BY <1>1, <1>2, EmptySeq DEF ConnectionInv, ConnectionTypes, daemonVars
  <1>4. Made(line)' /\ Made(replies)' /\ Made(output)'
    BY <1>1, EmptySeq DEF ConnectionInv, RepliesHold, Made
  <1>5. CallsHold'
    <2>1. Len(sent) = Len(results) + 1 /\ Len(results) \in Nat
      BY TakenIs DEF ConnectionInv, CallsHold
    <2>2. \A k \in 1..Len(results') : k = Len(results) + 1 \/ k \in 1..Len(results)
      BY <1>2, <2>1
    <2>3. \A k \in 1..Len(results) : results[k] \in {"ok", "bad"} =>
              k <= Len(answers) /\ answers[k].verdict = results[k]
      BY DEF ConnectionInv, CallsHold
    <2>4. Len(sent') = Len(results') /\ calling' = "idle" /\ answers' = answers
      BY <1>1, <1>2, <2>1
    <2>5. ASSUME NEW k \in 1..Len(results'), results'[k] \in {"ok", "bad"}
          PROVE  k <= Len(answers) /\ answers[k].verdict = results'[k]
      <3>1. CASE k = Len(results) + 1
        BY <1>2, <2>1, <2>5, <3>1
      <3>2. CASE k \in 1..Len(results)
        BY <1>2, <2>3, <2>5, <3>2
      <3> QED  BY <2>2, <3>1, <3>2
    <2> QED  BY <2>4, <2>5 DEF CallsHold
  <1>6. RequestsHold'
    BY <1>1, KeepsRequests
  <1>7. AnswersHold'
    BY <1>1, KeepsAnswers
  <1> QED  BY <1>3, <1>4, <1>5, <1>6, <1>7 DEF ConnectionInv, RepliesHold

LEMMA UnderstandKeeps ==
    ASSUME ConnectionInv, Understand
    PROVE  ConnectionInv'
  <1>a. PICK payload : payload = SubSeq(line, 1, Len(line) - 1)
    OBVIOUS
  <1>1. payload \in Seq(Units) /\ Made(payload)
    <2>1. line \in Seq(Units) /\ Made(line) /\ ConnectionTypes
      BY DEF ConnectionInv, ConnectionTypes, RepliesHold
    <2>2. Len(line) \in Nat \ {0}
      BY <2>1, EmptySeq DEF Understand
    <2>3. 1 \in 1..(Len(line) + 1) /\ Len(line) - 1 \in Nat /\ Len(line) - 1 <= Len(line)
      BY <2>2
    <2> QED  BY <1>a, <2>1, <2>3, PartMade
  <1>2. calling = "waiting" /\ Returns(Reading(payload))
        /\ UNCHANGED <<sent, requests, replies, daemonVars>>
    BY <1>a DEF Understand
  <1>b. PICK result : result = Reading(payload)
    OBVIOUS
  <1>3. /\ result \in Results
        /\ result \in {"ok", "bad"} =>
               Len(sent) <= Len(answers) /\ answers[Len(sent)].verdict = result
    BY <1>1, <1>2, <1>b, ReadingIs
  <1> QED  BY <1>2, <1>3, <1>b, ReturnKeeps

LEMMA TimeOutKeeps ==
    ASSUME ConnectionInv, TimeOut
    PROVE  ConnectionInv'
  <1>1. "io" \in Results /\ "io" \notin {"ok", "bad"}
    BY DEF Results
  <1> QED  BY <1>1, ReturnKeeps DEF TimeOut

LEMMA FindClosedKeeps ==
    ASSUME ConnectionInv, FindClosed
    PROVE  ConnectionInv'
  <1>1. line \in Seq(Units) /\ Made(line)
    BY DEF ConnectionInv, ConnectionTypes, RepliesHold
  <1>b. PICK result : result = IF line = << >> THEN "protocol" ELSE Reading(line)
    OBVIOUS
  <1>2. calling = "waiting" /\ Returns(result) /\ UNCHANGED <<sent, requests, replies, daemonVars>>
    BY <1>b DEF FindClosed
  <1>3. /\ result \in Results
        /\ result \in {"ok", "bad"} =>
               Len(sent) <= Len(answers) /\ answers[Len(sent)].verdict = result
    <2>1. CASE line = << >>
      BY <1>b, <2>1 DEF Results
    <2>2. CASE line # << >>
      BY <1>1, <1>2, <1>b, <2>2, ReadingIs
    <2> QED  BY <2>1, <2>2
  <1> QED  BY <1>2, <1>3, ReturnKeeps

LEMMA HangupKeeps ==
    ASSUME ConnectionInv, Hangup
    PROVE  ConnectionInv'
  <1>1. /\ UNCHANGED <<sent, line, results, requests, replies, answers, serving, buffer, current,
                       applied, output>>
        /\ calling' = "gone" /\ (handshaken' <=> handshaken)
    BY DEF Hangup, daemonVars
  <1>2. ConnectionTypes'
    BY DEF Hangup, daemonVars, ConnectionInv, ConnectionTypes
  <1>3. CallsHold'
    BY <1>1 DEF ConnectionInv, CallsHold
  <1>4. RequestsHold' /\ RepliesHold'
    BY <1>1, KeepsRequests, KeepsReplies
  <1>5. AnswersHold'
    BY <1>1, KeepsAnswers
  <1> QED  BY <1>2, <1>3, <1>4, <1>5 DEF ConnectionInv

-----------------------------------------------------------------------------
\* The daemon.

LEMMA AcceptKeeps ==
    ASSUME ConnectionInv, Accept
    PROVE  ConnectionInv'
  <1>1. /\ UNCHANGED <<sent, calling, line, results, requests, replies, answers, buffer, current,
                       applied, output>>
        /\ serving = "pending" /\ serving' \in {"reading", "ended"}
        /\ (handshaken' <=> handshaken)
    BY DEF Accept, clientVars
  <1>2. ConnectionTypes'
    BY DEF Accept, clientVars, ConnectionInv, ConnectionTypes
  <1>3. RequestsHold'
    BY <1>1 DEF ConnectionInv, RequestsHold, Taken, Closing
  <1>4. AnswersHold'
    BY <1>1, KeepsAnswers
  <1>5. RepliesHold' /\ CallsHold'
    BY <1>1, KeepsReplies, KeepsCalls
  <1> QED  BY <1>2, <1>3, <1>4, <1>5 DEF ConnectionInv

\* The connection ends between two reads, or because nobody reads the reply.
LEMMA FinishKeeps ==
    ASSUME ConnectionInv, serving # "handling", Finish, UNCHANGED <<clientVars, requests, replies>>
    PROVE  ConnectionInv'
  <1>1. /\ UNCHANGED <<sent, calling, line, results, requests, replies, answers, buffer, current,
                       applied, output>>
        /\ serving' = "ended" /\ (handshaken' <=> handshaken)
    BY DEF Finish, Close, clientVars
  <1>2. ConnectionTypes'
    BY DEF Finish, Close, clientVars, ConnectionInv, ConnectionTypes
  <1>3. RequestsHold'
    BY <1>1 DEF ConnectionInv, RequestsHold, Taken, Closing
  <1>4. AnswersHold'
    BY <1>1, KeepsAnswers
  <1>5. RepliesHold' /\ CallsHold'
    BY <1>1, KeepsReplies, KeepsCalls
  <1> QED  BY <1>2, <1>3, <1>4, <1>5 DEF ConnectionInv

LEMMA ReadKeeps ==
    ASSUME ConnectionInv, Read
    PROVE  ConnectionInv'
  <1>a. PICK n \in 1..Len(requests) : /\ buffer' = buffer \o SubSeq(requests, 1, n)
                                      /\ requests' = SubSeq(requests, n + 1, Len(requests))
    BY DEF Read
  <1>1. /\ UNCHANGED <<sent, calling, line, results, replies, answers, current, applied, output>>
        /\ serving = "reading" /\ serving' = "frames" /\ (handshaken' <=> handshaken)
    BY DEF Read, clientVars
  <1>2. buffer \in Seq(Units) /\ requests \in Seq(Units) /\ Len(requests) \in Nat
    BY LenProperties DEF ConnectionInv, ConnectionTypes
  <1>3. /\ SubSeq(requests, 1, n) \in Seq(Units)
        /\ SubSeq(requests, n + 1, Len(requests)) \in Seq(Units)
        /\ SubSeq(requests, 1, n) \o SubSeq(requests, n + 1, Len(requests)) = requests
    <2>1. n \in 0..Len(requests)
      BY <1>2
    <2> QED  BY <1>2, <2>1, TwoParts
  <1>4. buffer' \in Seq(Units) /\ requests' \in Seq(Units)
    BY <1>a, <1>2, <1>3, ConcatProperties
  <1>5. buffer' \o requests' = buffer \o requests
    <2>a. PICK head : head = SubSeq(requests, 1, n)
      OBVIOUS
    <2>b. PICK tail : tail = SubSeq(requests, n + 1, Len(requests))
      OBVIOUS
    <2>1. head \in Seq(Units) /\ tail \in Seq(Units) /\ head \o tail = requests
      BY <1>3, <2>a, <2>b
    <2>c. PICK old \in Seq(Units) : old = buffer
      BY <1>2
    <2>2. (old \o head) \o tail = old \o (head \o tail)
      <3>1. head \in Seq(Units) /\ tail \in Seq(Units)
        BY <2>1
      <3> QED  BY <3>1, ConcatAssociative
    <2> QED  BY <1>a, <2>1, <2>2, <2>a, <2>b, <2>c
  <1>6. ConnectionTypes'
    BY <1>1, <1>4 DEF ConnectionInv, ConnectionTypes
  <1>7. RequestsHold'
    BY <1>1, <1>5 DEF ConnectionInv, RequestsHold, Taken, Closing
  <1>8. AnswersHold'
    BY <1>1, KeepsAnswers
  <1>9. RepliesHold' /\ CallsHold'
    BY <1>1, KeepsReplies, KeepsCalls
  <1> QED  BY <1>6, <1>7, <1>8, <1>9 DEF ConnectionInv

\* One more answer, to the next request.
LEMMA AnswerMore ==
    ASSUME ConnectionInv, sent' = sent, Len(answers) < Len(sent),
           NEW reply \in Encoded(Due(Len(answers) + 1)), answers' = Append(answers, reply)
    PROVE  /\ Len(answers') = Len(answers) + 1 /\ answers' \in Seq(Replies)
           /\ \A i \in 1..Len(answers) : answers'[i] = answers[i]
           /\ \A i \in 1..Len(answers') : answers'[i] \in Encoded(Due(i)') /\ Due(i)' = Due(i)
  <1>1. answers \in Seq(Replies) /\ Len(answers) \in Nat
    BY LenProperties DEF ConnectionInv, ConnectionTypes
  <1>2. reply \in Replies
    <2>1. Len(answers) + 1 \in Nat \ {0}
      BY <1>1
    <2> QED  BY <2>1, EncodedIs
  <1>3. /\ Len(answers') = Len(answers) + 1 /\ answers' \in Seq(Replies)
        /\ answers'[Len(answers) + 1] = reply
        /\ \A i \in 1..Len(answers) : answers'[i] = answers[i]
    BY <1>1, <1>2, AppendProperties
  <1>4. ASSUME NEW i \in 1..Len(answers')
        PROVE  answers'[i] \in Encoded(Due(i)') /\ Due(i)' = Due(i)
    <2>1. i \in Nat \ {0}
      BY <1>1, <1>3
    <2>2. Due(i)' = Due(i)
      <3>1. \A j \in 1..i : sent'[j] = sent[j]
        OBVIOUS
      <3> QED  BY <2>1, <3>1, DueFixed
    <2>3. CASE i = Len(answers) + 1
      BY <1>3, <2>2, <2>3
    <2>4. CASE i \in 1..Len(answers)
      <3>1. answers[i] \in Encoded(Due(i))
        BY <2>4 DEF ConnectionInv, AnswersHold
      <3> QED  BY <1>3, <2>2, <2>4, <3>1
    <2>5. i = Len(answers) + 1 \/ i \in 1..Len(answers)
      BY <1>1, <1>3
    <2> QED  BY <2>2, <2>3, <2>4, <2>5
  <1> QED  BY <1>3, <1>4

\* The reply is on its way out; nobody was told anything by it yet.
LEMMA OutputMore ==
    ASSUME ConnectionInv, Len(answers') = Len(answers) + 1,
           \A i \in 1..Len(answers) : answers'[i] = answers[i],
           UNCHANGED <<sent, calling, line, results, replies>>,
           output' = Line(Len(answers'), REPLY)
    PROVE  output' \in Seq(Units) /\ RepliesHold' /\ CallsHold'
  <1>a. PICK n \in Nat : n = Len(answers)
    BY TakenIs
  <1>1. IsLine(output', n + 1, REPLY)
    <2>1. n + 1 \in Nat \ {0} /\ REPLY \in Nat
      BY DEF REPLY
    <2> QED  BY <1>a, <2>1, LineIs
  <1>2. \A i \in 1..Len(output') : output'[i].of \in 1..Len(answers')
    BY <1>a, <1>1 DEF IsLine
  <1>3. \A i \in 1..Len(answers) : i \in 1..Len(answers')
    BY <1>a
  <1>4. Made(line)' /\ Made(replies)'
    BY <1>3 DEF ConnectionInv, RepliesHold, Made
  <1>5. ASSUME NEW k \in 1..Len(results), results[k] \in {"ok", "bad"}
        PROVE  k <= Len(answers') /\ answers'[k].verdict = results[k]
    <2>1. k <= Len(answers) /\ answers[k].verdict = results[k]
      BY <1>5 DEF ConnectionInv, CallsHold
    <2>2. k \in 1..Len(answers)
      BY <2>1, TakenIs
    <2> QED  BY <1>a, <2>1, <2>2
  <1>6. CallsHold'
    BY <1>5 DEF ConnectionInv, CallsHold
  <1> QED  BY <1>1, <1>2, <1>4, <1>6 DEF RepliesHold, Made, IsLine

LEMMA CutKeeps ==
    ASSUME ConnectionInv, Cut
    PROVE  ConnectionInv'
  <1>a. PICK next : next = NextFrame(buffer)
    OBVIOUS
  <1>b. PICK taken \in Nat : taken = Len(answers) /\ taken = Taken
    BY TakenIs DEF Cut
  <1>1. /\ serving = "frames" /\ buffer' = next.rest
        /\ UNCHANGED <<sent, calling, line, results, requests, replies, applied>>
        /\ (handshaken' <=> handshaken)
    BY <1>a DEF Cut, clientVars
  <1>2. /\ sent \in Seq(Messages) /\ buffer \in Seq(Units) /\ requests \in Seq(Units)
        /\ taken <= Len(sent) /\ Holds(buffer \o requests, taken, sent)
        /\ \A i \in 1..taken : sent[i].kind # "long"
    BY <1>1, <1>b DEF ConnectionInv, ConnectionTypes, RequestsHold, Closing
  <1>3. FrameIs(next, buffer, requests, taken, sent)
    BY <1>a, <1>2, NextFrameIs
  <1>4. CASE next.status = "frame" /\ current' = next.payload /\ serving' = "handling"
             /\ UNCHANGED <<answers, output>>
    <2>1. /\ taken < Len(sent) /\ sent[taken + 1].kind # "long"
          /\ next.payload # << >> /\ next.payload[1].of = taken + 1
          /\ Holds(next.rest \o requests, taken + 1, sent)
          /\ next.payload \in Seq(Units) /\ next.rest \in Seq(Units)
      BY <1>3, <1>4 DEF FrameIs
    <2>2. Len(sent) \in Nat
      BY TakenIs
    <2>3. ConnectionTypes'
      BY <1>1, <1>4, <2>1 DEF ConnectionInv, ConnectionTypes
    <2>4. Taken' = taken + 1
      BY <1>4, <1>b DEF Taken
    <2>5. \A i \in 1..(taken + 1) : sent[i].kind # "long"
      <3>1. \A i \in 1..(taken + 1) : i = taken + 1 \/ i \in 1..taken
        OBVIOUS
      <3> QED  BY <1>2, <2>1, <3>1
    <2>6. taken + 1 <= Len(sent)
      BY <2>1, <2>2
    <2>7. RequestsHold'
      BY <1>1, <1>4, <2>1, <2>4, <2>5, <2>6 DEF RequestsHold
    <2>8. AnswersHold'
      BY <1>1, <1>4, KeepsAnswers
    <2>9. RepliesHold' /\ CallsHold'
      BY <1>1, <1>4, KeepsReplies, KeepsCalls
    <2> QED  BY <2>3, <2>7, <2>8, <2>9 DEF ConnectionInv
  <1>5. CASE next.status = "none" /\ serving' = "reading" /\ UNCHANGED <<answers, output, current>>
    <2>1. next.rest = buffer
      BY <1>3, <1>5 DEF FrameIs
    <2>2. ConnectionTypes'
      BY <1>1, <1>5, <2>1 DEF ConnectionInv, ConnectionTypes
    <2>3. RequestsHold'
      BY <1>1, <1>5, <2>1 DEF ConnectionInv, RequestsHold, Taken, Closing
    <2>4. AnswersHold'
      BY <1>1, <1>5, KeepsAnswers
    <2>5. RepliesHold' /\ CallsHold'
      BY <1>1, <1>5, KeepsReplies, KeepsCalls
    <2> QED  BY <2>2, <2>3, <2>4, <2>5 DEF ConnectionInv
  <1>6. CASE /\ next.status = "too_large"
             /\ answers' = Append(answers, ReplyFrame(NoId, "bad"))
             /\ output' = Line(Len(answers'), REPLY)
             /\ serving' = "closing" /\ UNCHANGED current
    <2>1. taken < Len(sent) /\ sent[taken + 1].kind = "long" /\ next.rest \in Seq(Units)
      BY <1>3, <1>6 DEF FrameIs
    <2>2. taken + 1 \in Nat \ {0} /\ Len(sent) \in Nat
      BY TakenIs
    <2>3. Due(taken + 1) = ReplyFrame(NoId, "bad") /\ ~Greets(sent[taken + 1])
      BY <2>1, <2>2, DueIs DEF Greets
    <2>c. Due(taken + 1) \in Encoded(Due(taken + 1))
      BY DEF Encoded
    <2>4. /\ Len(answers') = taken + 1 /\ answers' \in Seq(Replies)
          /\ \A i \in 1..taken : answers'[i] = answers[i]
          /\ \A i \in 1..Len(answers') : answers'[i] \in Encoded(Due(i)') /\ Due(i)' = Due(i)
      BY <1>1, <1>6, <1>b, <2>1, <2>3, <2>c, AnswerMore
    <2>5. output' \in Seq(Units) /\ RepliesHold' /\ CallsHold'
      BY <1>1, <1>6, <1>b, <2>4, OutputMore
    <2>6. ConnectionTypes'
      BY <1>1, <1>6, <2>1, <2>4, <2>5 DEF ConnectionInv, ConnectionTypes
    <2>7. RequestsHold'
      <3>1. Taken' = taken + 1
        BY <1>6, <2>4 DEF Taken
      <3>2. taken + 1 <= Len(sent)
        BY <2>1, <2>2
      <3> QED  BY <1>1, <1>6, <3>1, <3>2 DEF RequestsHold, Closing
    <2>8. AnswersHold'
      <3>1. \A i \in 1..(Len(answers') - 1) : sent'[i].kind # "long"
        BY <1>1, <1>2, <2>4
      <3>2. \A j \in 1..(taken + 1) : j = taken + 1 \/ j \in 1..taken
        OBVIOUS
      <3>3. \A j \in 1..taken : j \in 1..(taken + 1)
        OBVIOUS
      <3>4. handshaken' <=> \E j \in 1..Len(answers') : Greets(sent'[j])
        <4>1. handshaken <=> \E j \in 1..taken : Greets(sent[j])
          BY <1>1, <1>b DEF ConnectionInv, AnswersHold
        <4> QED  BY <1>1, <2>3, <2>4, <3>2, <3>3, <4>1
      <3>5. applied' = {k \in 1..Len(answers') : Due(k)'.verdict = "ok"}
        <4>1. applied = {k \in 1..taken : Due(k).verdict = "ok"}
          BY <1>b DEF ConnectionInv, AnswersHold
        <4>2. Due(taken + 1).verdict = "bad"
          BY <2>3 DEF ReplyFrame
        <4> QED  BY <1>1, <2>4, <3>2, <3>3, <4>1, <4>2
      <3> QED  BY <2>4, <3>1, <3>4, <3>5 DEF AnswersHold
    <2> QED  BY <2>5, <2>6, <2>7, <2>8 DEF ConnectionInv
  <1> QED  BY <1>a, <1>4, <1>5, <1>6 DEF Cut

\* handle_payload gives a request what it is due, and carries out those it accepts.
LEMMA HandledIs ==
    ASSUME ConnectionInv, serving = "handling", NEW id \in 1..Len(sent), id = Len(answers) + 1
    PROVE  /\ Handled(id).answer = Due(id)
           /\ Handled(id).hello <=> handshaken \/ Greets(sent[id])
           /\ Handled(id).done <=> Due(id).verdict = "ok"
           /\ Handled(id).hello \in BOOLEAN
  <1>a. PICK message \in Messages : message = sent[id]
    <2>1. sent \in Seq(Messages)
      BY DEF ConnectionInv, ConnectionTypes
    <2> QED  BY <2>1, ElementOfSeq
  <1>b. PICK good \in BOOLEAN : good <=> Greets(message) \/ (message.kind = "do" /\ handshaken)
    OBVIOUS
  <1>1. id \in Nat \ {0} /\ Len(answers) \in Nat /\ id - 1 = Len(answers)
    BY TakenIs
  <1>2. message.kind # "long"
    <2>1. id \in 1..Taken /\ serving \notin Closing
      BY <1>1, TakenIs DEF Closing
    <2> QED  BY <1>a, <2>1 DEF ConnectionInv, RequestsHold
  <1>3. handshaken \in BOOLEAN /\ (handshaken <=> \E j \in 1..(id - 1) : Greets(sent[j]))
    BY <1>1 DEF ConnectionInv, ConnectionTypes, AnswersHold
  <1>4. Due(id) = ReplyFrame(IF message.kind = "garbage" THEN NoId ELSE id,
                        IF good THEN "ok" ELSE "bad")
    <2>1. Due(id).verdict = IF good THEN "ok" ELSE "bad"
      BY <1>1, <1>3, <1>a, <1>b, DueIs DEF Replies
    <2>2. Due(id).id = IF message.kind = "garbage" THEN NoId ELSE id
      BY <1>1, <1>2, <1>a, DueIs DEF ReplyFrame
    <2>3. Due(id) = ReplyFrame(Due(id).id, Due(id).verdict)
      BY <1>1, DueIs
    <2> QED  BY <2>1, <2>2, <2>3
  <1>5. message.kind \in {"do", "refuse", "garbage", "major", "long", "hello"}
    BY DEF Messages
  <1>6. CASE message.kind = "garbage"
    <2>1. Handled(id) = [answer |-> ReplyFrame(NoId, "bad"), hello |-> handshaken, done |-> FALSE]
      BY <1>6, <1>a DEF Handled
    <2>2. Due(id) = ReplyFrame(NoId, "bad") /\ ~Greets(sent[id])
      BY <1>4, <1>6, <1>a, <1>b DEF Greets
    <2>3. Handled(id).hello = handshaken
      BY <2>1
    <2>4. Handled(id).answer = Due(id) /\ Handled(id).done = FALSE
      BY <2>1, <2>2
    <2>5. Due(id).verdict = "bad"
      BY <2>2 DEF ReplyFrame
    <2> QED  BY <1>3, <1>6, <2>2, <2>3, <2>4, <2>5
  <1>7. CASE message.kind = "major"
    <2>1. Handled(id) = [answer |-> ReplyFrame(id, "bad"), hello |-> handshaken, done |-> FALSE]
      BY <1>7, <1>a DEF Handled
    <2>2. Due(id) = ReplyFrame(id, "bad") /\ ~Greets(sent[id])
      BY <1>4, <1>7, <1>a, <1>b DEF Greets
    <2>3. Handled(id).hello = handshaken
      BY <2>1
    <2>4. Handled(id).answer = Due(id) /\ Handled(id).done = FALSE
      BY <2>1, <2>2
    <2>5. Due(id).verdict = "bad"
      BY <2>2 DEF ReplyFrame
    <2> QED  BY <1>3, <1>7, <2>2, <2>3, <2>4, <2>5
  <1>8. CASE Greets(message)
    <2>1. Handled(id) = [answer |-> ReplyFrame(id, "ok"), hello |-> TRUE, done |-> TRUE]
      BY <1>8, <1>a DEF Handled, Greets
    <2>2. Due(id) = ReplyFrame(id, "ok") /\ Greets(sent[id])
      BY <1>4, <1>8, <1>a, <1>b DEF Greets
    <2>3. Handled(id).hello = TRUE
      BY <2>1
    <2>4. Handled(id).answer = Due(id) /\ Handled(id).done = TRUE
      BY <2>1, <2>2
    <2>5. Due(id).verdict = "ok"
      BY <2>2 DEF ReplyFrame
    <2> QED  BY <1>3, <1>8, <2>2, <2>3, <2>4, <2>5
  <1>9. CASE message.kind = "hello" /\ ~Greets(message)
    <2>1. Handled(id) = [answer |-> ReplyFrame(id, "bad"), hello |-> handshaken, done |-> FALSE]
      BY <1>9, <1>a DEF Handled, Greets
    <2>2. Due(id) = ReplyFrame(id, "bad") /\ ~Greets(sent[id])
      BY <1>4, <1>9, <1>a, <1>b DEF Greets
    <2>3. Handled(id).hello = handshaken
      BY <2>1
    <2>4. Handled(id).answer = Due(id) /\ Handled(id).done = FALSE
      BY <2>1, <2>2
    <2>5. Due(id).verdict = "bad"
      BY <2>2 DEF ReplyFrame
    <2> QED  BY <1>3, <1>9, <2>2, <2>3, <2>4, <2>5
  <1>10. CASE message.kind = "do" /\ handshaken
    <2>1. Handled(id) = [answer |-> ReplyFrame(id, "ok"), hello |-> TRUE, done |-> TRUE]
      BY <1>10, <1>a DEF Handled
    <2>2. Due(id) = ReplyFrame(id, "ok") /\ ~Greets(sent[id])
      BY <1>4, <1>10, <1>a, <1>b DEF Greets
    <2>3. Handled(id).hello = TRUE
      BY <2>1
    <2>4. Handled(id).answer = Due(id) /\ Handled(id).done = TRUE
      BY <2>1, <2>2
    <2>5. Due(id).verdict = "ok"
      BY <2>2 DEF ReplyFrame
    <2> QED  BY <1>3, <1>10, <2>2, <2>3, <2>4, <2>5
  <1>11. CASE message.kind = "do" /\ ~handshaken
    <2>1. Handled(id) = [answer |-> ReplyFrame(id, "bad"), hello |-> handshaken, done |-> FALSE]
      BY <1>11, <1>a DEF Handled
    <2>2. Due(id) = ReplyFrame(id, "bad") /\ ~Greets(sent[id])
      BY <1>4, <1>11, <1>a, <1>b DEF Greets
    <2>3. Handled(id).hello = handshaken
      BY <2>1
    <2>4. Handled(id).answer = Due(id) /\ Handled(id).done = FALSE
      BY <2>1, <2>2
    <2>5. Due(id).verdict = "bad"
      BY <2>2 DEF ReplyFrame
    <2> QED  BY <1>3, <1>11, <2>2, <2>3, <2>4, <2>5
  <1>12. CASE message.kind = "refuse"
    <2>1. Handled(id) = [answer |-> ReplyFrame(id, "bad"), hello |-> handshaken, done |-> FALSE]
      BY <1>12, <1>a DEF Handled
    <2>2. Due(id) = ReplyFrame(id, "bad") /\ ~Greets(sent[id])
      BY <1>4, <1>12, <1>a, <1>b DEF Greets
    <2>3. Handled(id).hello = handshaken
      BY <2>1
    <2>4. Handled(id).answer = Due(id) /\ Handled(id).done = FALSE
      BY <2>1, <2>2
    <2>5. Due(id).verdict = "bad"
      BY <2>2 DEF ReplyFrame
    <2> QED  BY <1>3, <1>12, <2>2, <2>3, <2>4, <2>5
  <1> QED  BY <1>2, <1>5, <1>6, <1>7, <1>8, <1>9, <1>10, <1>11, <1>12

LEMMA HandleKeeps ==
    ASSUME ConnectionInv, Handle
    PROVE  ConnectionInv'
  <1>a. PICK n \in Nat : n = Len(answers)
    BY TakenIs
  <1>b. PICK id : id = current[1].of
    OBVIOUS
  <1>1. id = n + 1 /\ id = Taken /\ id \in 1..Len(sent) /\ id \in Nat \ {0} /\ n < Len(sent)
        /\ serving = "handling"
    <2>1. serving = "handling" /\ id = Taken
      BY <1>b DEF Handle, ConnectionInv, RequestsHold
    <2> QED  BY <1>a, <2>1, TakenIs
  <1>c. PICK reply \in Encoded(Handled(id).answer) : answers' = Append(answers, reply)
    BY <1>b DEF Handle
  <1>2. /\ handshaken' <=> Handled(id).hello
        /\ applied' = applied \cup (IF Handled(id).done THEN {id} ELSE {})
        /\ output' = Line(Len(answers'), REPLY) /\ serving' = "writing" /\ current' = << >>
        /\ UNCHANGED <<sent, calling, line, results, requests, replies, buffer>>
        /\ handshaken' = Handled(id).hello
    BY <1>b DEF Handle, clientVars
  <1>3. /\ Handled(id).answer = Due(id)
        /\ Handled(id).hello <=> handshaken \/ Greets(sent[id])
        /\ Handled(id).done <=> Due(id).verdict = "ok"
        /\ Handled(id).hello \in BOOLEAN
    BY <1>1, <1>a, HandledIs
  <1>d. reply \in Encoded(Due(Len(answers) + 1))
    BY <1>1, <1>3, <1>a, <1>c
  <1>4. /\ Len(answers') = n + 1 /\ answers' \in Seq(Replies)
        /\ \A i \in 1..n : answers'[i] = answers[i]
        /\ \A i \in 1..Len(answers') : answers'[i] \in Encoded(Due(i)') /\ Due(i)' = Due(i)
    BY <1>1, <1>2, <1>a, <1>c, <1>d, AnswerMore
  <1>5. output' \in Seq(Units) /\ RepliesHold' /\ CallsHold'
    BY <1>2, <1>4, <1>a, OutputMore
  <1>6. ConnectionTypes'
    <2>1. << >> \in Seq(Units) /\ handshaken' \in BOOLEAN
      BY <1>2, <1>3, EmptySeq
    <2> QED  BY <1>2, <1>4, <1>5, <2>1 DEF ConnectionInv, ConnectionTypes
  <1>7. RequestsHold'
    <2>1. Taken' = Taken
      BY <1>1, <1>2, <1>4 DEF Taken
    <2> QED  BY <1>1, <1>2, <2>1 DEF ConnectionInv, RequestsHold, Closing
  <1>8. \A j \in 1..(n + 1) : j = n + 1 \/ j \in 1..n
    OBVIOUS
  <1>9. \A j \in 1..n : j \in 1..(n + 1)
    OBVIOUS
  <1>10. AnswersHold'
    <2>1. \A i \in 1..n : sent[i].kind # "long"
      <3>1. \A i \in 1..Taken : sent[i].kind # "long"
        BY <1>1 DEF ConnectionInv, RequestsHold, Closing
      <3>2. \A i \in 1..n : i \in 1..Taken
        BY <1>1
      <3> QED  BY <3>1, <3>2
    <2>2. \A i \in 1..(Len(answers') - 1) : sent'[i].kind # "long"
      BY <1>2, <1>4, <2>1
    <2>3. handshaken' <=> \E j \in 1..Len(answers') : Greets(sent'[j])
      <3>1. handshaken <=> \E j \in 1..n : Greets(sent[j])
        BY <1>1, <1>a DEF ConnectionInv, AnswersHold
      <3>2. n + 1 \in 1..(n + 1)
        OBVIOUS
      <3> QED  BY <1>1, <1>2, <1>3, <1>4, <1>8, <1>9, <3>1, <3>2
    <2>4. applied' = {k \in 1..Len(answers') : Due(k)'.verdict = "ok"}
      <3>1. applied = {k \in 1..n : Due(k).verdict = "ok"}
        BY <1>a DEF ConnectionInv, AnswersHold
      <3>2. applied' = applied \cup (IF Due(n + 1).verdict = "ok" THEN {n + 1} ELSE {})
        BY <1>1, <1>2, <1>3
      <3> QED  BY <1>4, <1>8, <1>9, <3>1, <3>2
    <2> QED  BY <1>4, <2>2, <2>3, <2>4 DEF AnswersHold
  <1> QED  BY <1>5, <1>6, <1>7, <1>10 DEF ConnectionInv

LEMMA WriteReplyKeeps ==
    ASSUME ConnectionInv, WriteReply
    PROVE  ConnectionInv'
  <1>a. PICK n \in 1..Len(output) : /\ replies' = replies \o SubSeq(output, 1, n)
                                    /\ output' = SubSeq(output, n + 1, Len(output))
    BY DEF WriteReply
  <1>1. /\ UNCHANGED <<sent, calling, line, results, requests, answers, buffer, current, applied>>
        /\ (handshaken' <=> handshaken)
        /\ \/ serving = "writing" /\ serving' \in {"writing", "frames"}
           \/ serving = "closing" /\ serving' \in {"closing", "ended"}
    BY DEF WriteReply, clientVars, Close
  <1>2. /\ output \in Seq(Units) /\ replies \in Seq(Units) /\ Len(output) \in Nat
        /\ ConnectionTypes /\ Made(line) /\ Made(output) /\ Made(replies)
    BY LenProperties DEF ConnectionInv, ConnectionTypes, RepliesHold
  <1>3. Made(SubSeq(output, 1, n)) /\ SubSeq(output, 1, n) \in Seq(Units)
    <2>1. 1 \in 1..(Len(output) + 1) /\ n \in Nat /\ n <= Len(output)
      BY <1>2
    <2> QED  BY <1>2, <2>1, PartMade
  <1>4. /\ Made(SubSeq(output, n + 1, Len(output)))
        /\ SubSeq(output, n + 1, Len(output)) \in Seq(Units)
    <2>1. n + 1 \in 1..(Len(output) + 1) /\ Len(output) \in Nat /\ Len(output) <= Len(output)
      BY <1>2
    <2> QED  BY <1>2, <2>1, PartMade
  <1>5. Made(replies \o SubSeq(output, 1, n)) /\ replies \o SubSeq(output, 1, n) \in Seq(Units)
    BY <1>2, <1>3, BothMade
  <1>6. ConnectionTypes'
    <2>1. replies' \in Seq(Units) /\ output' \in Seq(Units)
      BY <1>a, <1>4, <1>5
    <2>2. serving' \in {"writing", "frames", "closing", "ended"}
      BY <1>1
    <2>3. handshaken' \in BOOLEAN
      BY DEF WriteReply, ConnectionInv, ConnectionTypes
    <2> QED  BY <1>1, <1>2, <2>1, <2>2, <2>3 DEF ConnectionTypes
  <1>7. Made(line)' /\ Made(replies)' /\ Made(output)'
    <2>1. Made(line) /\ Made(replies') /\ Made(output')
      BY <1>2, <1>a, <1>4, <1>5
    <2> QED  BY <1>1, <2>1 DEF Made
  <1>8. RequestsHold'
    BY <1>1 DEF ConnectionInv, RequestsHold, Taken, Closing
  <1>9. AnswersHold'
    BY <1>1, KeepsAnswers
  <1>10. CallsHold'
    BY <1>1, KeepsCalls
  <1> QED  BY <1>6, <1>7, <1>8, <1>9, <1>10 DEF ConnectionInv, RepliesHold

-----------------------------------------------------------------------------
\* The whole connection.

LEMMA InitConnectionInv ==
    ASSUME InitConnection
    PROVE  ConnectionInv
  <1>1. ConnectionTypes
    BY EmptySeq DEF InitConnection, ConnectionTypes
  <1>2. Len(answers) = 0 /\ Len(sent) = 0 /\ Len(results) = 0
    BY EmptySeq DEF InitConnection
  <1>3. RequestsHold
    <2>1. Taken = 0
      BY <1>2 DEF InitConnection, Taken
    <2>2. Holds(<< >>, 0, sent)
      BY <1>1, <1>2, HoldsNothing DEF ConnectionTypes
    <2>3. buffer \o requests = << >>
      BY ConcatEmptySeq, EmptySeq DEF InitConnection
    <2> QED  BY <1>2, <2>1, <2>2, <2>3 DEF InitConnection, RequestsHold
  <1>4. AnswersHold
    BY <1>2 DEF InitConnection, AnswersHold
  <1>5. RepliesHold
    BY EmptySeq DEF InitConnection, RepliesHold, Made
  <1>6. CallsHold
    BY <1>2 DEF InitConnection, CallsHold
  <1> QED  BY <1>1, <1>3, <1>4, <1>5, <1>6 DEF ConnectionInv

LEMMA NextConnectionInv ==
    ASSUME ConnectionInv, [NextConnection]_connectionVars
    PROVE  ConnectionInv'
  <1>1. CASE \E message \in Messages : Call(message)
    BY <1>1, CallKeeps
  <1>2. CASE Receive \/ Understand \/ TimeOut \/ FindClosed \/ Hangup
    BY <1>2, ReceiveKeeps, UnderstandKeeps, TimeOutKeeps, FindClosedKeeps, HangupKeeps
  <1>3. CASE Accept \/ Read \/ Cut \/ Handle \/ WriteReply
    BY <1>3, AcceptKeeps, ReadKeeps, CutKeeps, HandleKeeps, WriteReplyKeeps
  <1>4. CASE ReadEnds \/ WriteFails
    <2>1. serving # "handling" /\ Finish /\ UNCHANGED <<clientVars, requests, replies>>
      BY <1>4 DEF ReadEnds, WriteFails
    <2> QED  BY <2>1, FinishKeeps
  <1>5. CASE UNCHANGED connectionVars
    <2>1. /\ UNCHANGED <<sent, calling, line, results, requests, replies, answers, serving, buffer,
                         current, applied, output>>
          /\ (handshaken' <=> handshaken)
      BY <1>5 DEF connectionVars
    <2>2. ConnectionTypes'
      BY <1>5 DEF connectionVars, ConnectionInv, ConnectionTypes
    <2>3. RequestsHold' /\ RepliesHold' /\ CallsHold'
      BY <2>1, KeepsRequests, KeepsReplies, KeepsCalls
    <2>4. AnswersHold'
      BY <2>1, KeepsAnswers
    <2> QED  BY <2>2, <2>3, <2>4 DEF ConnectionInv
  <1> QED  BY <1>1, <1>2, <1>3, <1>4, <1>5 DEF NextConnection

\* At every state what is in the buffer and on its way is the requests not yet
\* taken, whole and in order; every answer is the one its request is due or
\* the error that it fits no frame, and every result the daemon's own.
\* (server::serve_connection, write_reply, client::call.)
THEOREM ConnectionInvariance == ConnectionSpec => []ConnectionInv
  BY InitConnectionInv, NextConnectionInv, PTL DEF ConnectionSpec

\* The daemon answers the requests in the order they were written, each by its
\* own merits or with an internal error, nothing after a line that is too long, and owes none while it
\* waits for more.  (server::serve_connection, FrameDecoder::next_frame.)
THEOREM AnswersFollowRequestsAlways == ConnectionSpec => []AnswersFollowRequests
  <1>1. ConnectionInv => AnswersFollowRequests
    <2> SUFFICES ASSUME ConnectionInv
                 PROVE  AnswersFollowRequests
      OBVIOUS
    <2>a. PICK n \in Nat, m \in Nat : n = Len(sent) /\ m = Len(answers)
      BY TakenIs
    <2>1. m <= n
      BY <2>a, TakenIs
    <2>2. 1..m \subseteq Answerable /\ Answerable \subseteq 1..n
      <3>1. \A j \in 1..(m - 1) : sent[j].kind # "long"
        BY <2>a DEF ConnectionInv, AnswersHold
      <3>2. \A k \in 1..m : k \in 1..n /\ \A j \in 1..(k - 1) : j \in 1..(m - 1)
        BY <2>1
      <3>3. \A k \in 1..m : k \in Answerable
        BY <2>a, <3>1, <3>2 DEF Answerable
      <3>4. \A k \in Answerable : k \in 1..n
        BY <2>a DEF Answerable
      <3> QED  BY <3>3, <3>4
    <2>3. m <= Cardinality(Answerable)
      <3>1. IsFiniteSet(1..n) /\ IsFiniteSet(1..m) /\ Cardinality(1..m) = m
        BY FS_Interval
      <3>2. IsFiniteSet(Answerable)
        BY <2>2, <3>1, FS_Subset
      <3>3. Cardinality(1..m) <= Cardinality(Answerable)
        BY <2>2, <3>2, FS_Subset
      <3> QED  BY <3>1, <3>3
    <2>4. \A i \in 1..Len(answers) : answers[i] \in Encoded(Due(i))
      BY DEF ConnectionInv, AnswersHold
    <2>5. ASSUME serving = "reading", requests = << >>, buffer = << >>, NEW k \in Answerable
          PROVE  k <= Len(answers)
      <3>1. Taken = m /\ Holds(buffer \o requests, Taken, sent)
        BY <2>5, <2>a, TakenIs DEF ConnectionInv, RequestsHold, Closing
      <3>2. buffer \o requests = << >>
        BY <2>5, EmptySeq, ConcatEmptySeq
      <3>3. << >> \in Seq(Units) /\ sent \in Seq(Messages)
        BY EmptySeq DEF ConnectionInv, ConnectionTypes
      <3>4. m = n
        BY <2>1, <2>a, <3>1, <3>2, <3>3, HoldsAll
      <3> QED  BY <2>2, <2>a, <3>4
    <2> QED  BY <2>3, <2>4, <2>5, <2>a DEF AnswersFollowRequests
  <1> QED  BY <1>1, ConnectionInvariance, PTL

\* A call that returns a success was carried out and one that returns a refusal
\* was not, however many calls were given up before it.  (client::call's check
\* of the reply's id.)
THEOREM CallsTellTheTruthAlways == ConnectionSpec => []CallsTellTheTruth
  <1>1. ConnectionInv => CallsTellTheTruth
    <2> SUFFICES ASSUME ConnectionInv
                 PROVE  CallsTellTheTruth
      OBVIOUS
    <2>1. \A k \in 1..Len(results) : results[k] \in {"ok", "bad"} =>
              k <= Len(answers) /\ answers[k].verdict = results[k]
      BY DEF ConnectionInv, CallsHold
    <2>2. applied = {k \in 1..Len(answers) : Due(k).verdict = "ok"}
      BY DEF ConnectionInv, AnswersHold
    <2>3. ASSUME NEW k \in 1..Len(results), results[k] \in {"ok", "bad"}
          PROVE  k \in 1..Len(answers) /\ Due(k).verdict = results[k]
      <3>1. k <= Len(answers) /\ answers[k].verdict = results[k]
        BY <2>1, <2>3
      <3>2. k \in Nat /\ k >= 1 /\ Len(answers) \in Nat
        BY TakenIs
      <3>3. k \in Nat \ {0} /\ k \in 1..Len(answers)
        BY <3>1, <3>2
      <3>4. answers[k] \in Encoded(Due(k))
        BY <3>3 DEF ConnectionInv, AnswersHold
      <3>5. answers[k].verdict = Due(k).verdict
        BY <2>3, <3>1, <3>3, <3>4, EncodedIs
      <3> QED  BY <3>1, <3>3, <3>5
    <2> QED  BY <2>2, <2>3 DEF CallsTellTheTruth
  <1> QED  BY <1>1, ConnectionInvariance, PTL
-----------------------------------------------------------------------------
\* Events: the inductive invariant.

\* What the listener has still to read of the shell's lines.
Flow == held \o (wire \o pending)

\* Newline is a string; the provers are told so.
Words == STRING \cup {Newline}
Piece == [text : Words, line : Nat]
Published == [event : {ParseLine(l) : l \in Seq(Words)}, line : Nat]
EventsTypes ==
    /\ held \in Seq(Piece) /\ wire \in Seq(Piece) /\ pending \in Seq(Piece)
    /\ link \in {"up", "closed", "down"}
    /\ wrote \in Seq(ShellLines) /\ cut \subseteq 1..Len(wrote)
    /\ published \in Seq(Published)
    /\ dropped \in Nat /\ listed \subseteq Subscriber
    /\ subs \in [Subscriber -> [queue : Seq(Nat), seen : Seq(Nat), since : Nat,
                                until : Nat, here : BOOLEAN]]

\* Pieces come line after line, each line's newline at its end.
InRows(f) ==
    /\ \A i, j \in 1..Len(f) : i <= j => f[i].line <= f[j].line
    /\ \A i, j \in 1..Len(f) : i < j =>
          (f[i].line = f[j].line <=> \A k \in i..(j - 1) : f[k].text # Newline)

\* All of line n is in f, from place b on, and no other piece belongs to it.
EntireAt(f, n, t, b) ==
    /\ b + Len(t) + 1 <= Len(f)
    /\ \A i \in 1..Len(f) : f[i].line = n <=> b < i /\ i <= b + Len(t) + 1
    /\ \A k \in 1..Len(t) : f[b + k].text = t[k]
    /\ f[b + Len(t) + 1].text = Newline
Entire(f, n, t) == \E b \in Nat : EntireAt(f, n, t, b)
Occurs(f, n) == \E i \in 1..Len(f) : f[i].line = n

FlowHolds ==
    /\ \A i \in 1..Len(Flow) : Flow[i].line \in 1..Len(wrote)
    /\ InRows(Flow)
    /\ \A i \in 1..Len(held) : held[i].text # Newline
    /\ link = "up" /\ Flow # << >> => Flow[Len(Flow)].text = Newline
    /\ link # "up" => pending = << >>
    /\ link = "down" => Flow = << >>
    /\ \A n \in (1..Len(wrote)) \ cut : Occurs(Flow, n) => Entire(Flow, n, wrote[n])

\* What was published came from lines read before.
TurnsHold ==
    /\ \A i \in 1..Len(published) : published[i].line \in 1..Len(wrote)
    /\ \A i \in 1..Len(published), j \in 1..Len(Flow) :
          \/ published[i].line < Flow[j].line
          \/ published[i].line = Flow[j].line /\ published[i].line \in cut

\* Of each subscriber.
SubscriberHolds(s) ==
    /\ subs[s].here => s \in listed
    /\ subs[s].since <= Len(published) /\ subs[s].until <= Len(published)
    /\ ToSet(Handed(s)) \subseteq Offered(s)
    /\ \A i, j \in 1..Len(Handed(s)) : i < j => Handed(s)[i] < Handed(s)[j]

EventsInv ==
    /\ EventsTypes /\ FlowHolds /\ TurnsHold
    /\ LinesBecomeEvents /\ LossesAreCounted
    /\ \A s \in Subscriber : SubscriberHolds(s)

-----------------------------------------------------------------------------
\* The flow of pieces.

LEMMA FlowIs ==
    ASSUME NEW h \in Seq(Piece), NEW w \in Seq(Piece), NEW p \in Seq(Piece)
    PROVE  LET f == h \o (w \o p) IN
           /\ f \in Seq(Piece) /\ Len(f) = Len(h) + Len(w) + Len(p) /\ Len(f) \in Nat
           /\ Len(h) \in Nat /\ Len(w) \in Nat /\ Len(p) \in Nat
           /\ \A i \in 1..Len(h) : f[i] = h[i]
           /\ \A i \in 1..Len(w) : f[Len(h) + i] = w[i]
           /\ \A i \in 1..Len(p) : f[Len(h) + Len(w) + i] = p[i]
  <1>1. Len(h) \in Nat /\ Len(w) \in Nat /\ Len(p) \in Nat
    BY LenProperties
  <1> DEFINE r == w \o p
  <1>2. /\ r \in Seq(Piece) /\ Len(r) = Len(w) + Len(p)
        /\ \A i \in 1..(Len(w) + Len(p)) : r[i] = IF i <= Len(w) THEN w[i] ELSE p[i - Len(w)]
    BY ConcatProperties
  <1> HIDE DEF r
  <1> DEFINE f == h \o r
  <1>3. /\ f \in Seq(Piece) /\ Len(f) = Len(h) + Len(r)
        /\ \A i \in 1..(Len(h) + Len(r)) : f[i] = IF i <= Len(h) THEN h[i] ELSE r[i - Len(h)]
    <2>1. r \in Seq(Piece)
      BY <1>2
    <2> QED  BY <2>1, ConcatProperties
  <1> HIDE DEF f
  <1>4. \A i \in 1..Len(h) : f[i] = h[i]
    BY <1>1, <1>2, <1>3
  <1>5. ASSUME NEW i \in 1..Len(w)
        PROVE  f[Len(h) + i] = w[i]
    <2>1. Len(h) + i \in 1..(Len(h) + Len(r)) /\ ~(Len(h) + i <= Len(h)) /\ (Len(h) + i) - Len(h) = i
      BY <1>1, <1>2
    <2>2. f[Len(h) + i] = r[i]
      BY <1>3, <2>1
    <2>3. r[i] = w[i]
      BY <1>1, <1>2
    <2> QED  BY <2>2, <2>3
  <1>6. ASSUME NEW i \in 1..Len(p)
        PROVE  f[Len(h) + Len(w) + i] = p[i]
    <2>1. /\ Len(h) + Len(w) + i \in 1..(Len(h) + Len(r)) /\ ~(Len(h) + Len(w) + i <= Len(h))
          /\ (Len(h) + Len(w) + i) - Len(h) = Len(w) + i
      BY <1>1, <1>2
    <2>2. Len(w) + i \in 1..(Len(w) + Len(p)) /\ ~(Len(w) + i <= Len(w)) /\ (Len(w) + i) - Len(w) = i
      BY <1>1
    <2>3. f[Len(h) + Len(w) + i] = r[Len(w) + i]
      BY <1>3, <2>1
    <2> QED  BY <1>2, <2>2, <2>3
  <1> QED  BY <1>1, <1>2, <1>3, <1>4, <1>5, <1>6 DEF f, r

\* The first element of the rest is taken to the end of what comes before.
LEMMA HandedOver ==
    ASSUME NEW S, NEW s \in Seq(S), NEW t \in Seq(S), t # << >>
    PROVE  /\ Append(s, Head(t)) \in Seq(S) /\ Tail(t) \in Seq(S)
           /\ Append(s, Head(t)) \o Tail(t) = s \o t
  <1> DEFINE a == Append(s, Head(t))
             b == Tail(t)
  <1>1. Len(s) \in Nat /\ Len(t) \in Nat /\ Len(t) # 0
    BY LenProperties, EmptySeq
  <1>2. Head(t) = t[1] /\ t[1] \in S
    BY <1>1, ElementOfSeq
  <1>3. /\ a \in Seq(S) /\ Len(a) = Len(s) + 1
        /\ \A i \in 1..Len(s) : a[i] = s[i]
        /\ a[Len(s) + 1] = t[1]
    BY <1>2, AppendProperties
  <1>4. b \in Seq(S) /\ Len(b) = Len(t) - 1 /\ \A i \in 1..Len(b) : b[i] = t[i + 1]
    BY HeadTailProperties
  <1> HIDE DEF a, b
  <1> DEFINE c == a \o b
             d == s \o t
  <1>5. /\ c \in Seq(S) /\ Len(c) = Len(a) + Len(b)
        /\ \A i \in 1..(Len(a) + Len(b)) : c[i] = IF i <= Len(a) THEN a[i] ELSE b[i - Len(a)]
    BY <1>3, <1>4, ConcatProperties
  <1>6. /\ d \in Seq(S) /\ Len(d) = Len(s) + Len(t)
        /\ \A i \in 1..(Len(s) + Len(t)) : d[i] = IF i <= Len(s) THEN s[i] ELSE t[i - Len(s)]
    BY ConcatProperties
  <1> HIDE DEF c, d
  <1>7. Len(c) = Len(d) /\ Len(c) = Len(s) + Len(t)
    BY <1>1, <1>3, <1>4, <1>5, <1>6
  <1>8. ASSUME NEW i \in 1..Len(c)
        PROVE  c[i] = d[i]
    <2>1. CASE i <= Len(s)
      BY <1>1, <1>3, <1>4, <1>5, <1>6, <1>7, <2>1
    <2>2. CASE i = Len(s) + 1
      BY <1>1, <1>3, <1>4, <1>5, <1>6, <1>7, <2>2
    <2>3. CASE i > Len(s) + 1
      <3>1. c[i] = b[i - (Len(s) + 1)]
        BY <1>1, <1>3, <1>4, <1>5, <1>7, <2>3
      <3>2. i - (Len(s) + 1) \in 1..Len(b)
        BY <1>1, <1>4, <1>7, <2>3
      <3>3. b[i - (Len(s) + 1)] = t[(i - (Len(s) + 1)) + 1]
        BY <1>4, <3>2
      <3>4. (i - (Len(s) + 1)) + 1 = i - Len(s) /\ d[i] = t[i - Len(s)]
        BY <1>1, <1>6, <1>7, <2>3
      <3> QED  BY <3>1, <3>3, <3>4
    <2> QED  BY <1>1, <1>7, <2>1, <2>2, <2>3
  <1>9. c = d
    BY <1>5, <1>6, <1>7, <1>8, SeqEqual
  <1> QED  BY <1>3, <1>4, <1>9 DEF a, b, c, d

LEMMA HeadOfBoth ==
    ASSUME NEW S, NEW s \in Seq(S), NEW t \in Seq(S), s # << >>
    PROVE  s \o t # << >> /\ Head(s \o t) = Head(s) /\ Tail(s \o t) = Tail(s) \o t
  <1>1. Len(s) \in Nat \ {0} /\ Len(t) \in Nat
    BY LenProperties, EmptySeq
  <1> DEFINE c == s \o t
  <1>2. /\ c \in Seq(S) /\ Len(c) = Len(s) + Len(t)
        /\ \A i \in 1..(Len(s) + Len(t)) : c[i] = IF i <= Len(s) THEN s[i] ELSE t[i - Len(s)]
    BY ConcatProperties
  <1> HIDE DEF c
  <1>3. c # << >>
    BY <1>1, <1>2, EmptySeq
  <1>4. Head(c) = c[1] /\ Head(s) = s[1] /\ c[1] = s[1]
    BY <1>1, <1>2
  <1>5. /\ Tail(s) \in Seq(S) /\ Len(Tail(s)) = Len(s) - 1
        /\ \A i \in 1..Len(Tail(s)) : Tail(s)[i] = s[i + 1]
    BY HeadTailProperties
  <1>6. /\ Tail(c) \in Seq(S) /\ Len(Tail(c)) = Len(c) - 1
        /\ \A i \in 1..Len(Tail(c)) : Tail(c)[i] = c[i + 1]
    BY <1>2, <1>3, HeadTailProperties
  <1> DEFINE d == Tail(s) \o t
             r == Tail(s)
  <1>7. /\ d \in Seq(S) /\ Len(d) = Len(r) + Len(t)
        /\ \A i \in 1..(Len(r) + Len(t)) : d[i] = IF i <= Len(r) THEN r[i] ELSE t[i - Len(r)]
    BY <1>5, ConcatProperties
  <1> HIDE DEF d, r
  <1>8. Len(r) = Len(s) - 1 /\ \A i \in 1..Len(r) : r[i] = s[i + 1]
    BY <1>5 DEF r
  <1>9. ASSUME NEW i \in 1..Len(d)
        PROVE  Tail(c)[i] = d[i]
    <2>1. Tail(c)[i] = c[i + 1]
      BY <1>1, <1>2, <1>6, <1>7, <1>8
    <2>2. CASE i <= Len(r)
      BY <1>1, <1>2, <1>7, <1>8, <2>1, <2>2
    <2>3. CASE i > Len(r)
      <3>1. i \in 1..(Len(r) + Len(t)) /\ i + 1 \in 1..(Len(s) + Len(t))
            /\ i + 1 > Len(s) /\ (i + 1) - Len(s) = i - Len(r)
        BY <1>1, <1>7, <1>8, <2>3
      <3>2. c[i + 1] = t[(i + 1) - Len(s)]
        BY <1>1, <1>2, <3>1
      <3>3. d[i] = t[i - Len(r)]
        BY <1>7, <2>3, <3>1
      <3> QED  BY <2>1, <3>1, <3>2, <3>3
    <2>4. i <= Len(r) \/ i > Len(r)
      BY <1>1, <1>7, <1>8
    <2> QED  BY <2>2, <2>3, <2>4
  <1>10. Tail(c) = d
    BY <1>1, <1>2, <1>6, <1>7, <1>8, <1>9, SeqEqual
  <1> QED  BY <1>3, <1>4, <1>10 DEF c, d

\* The shell's pieces reach the listener without a change of the flow.
LEMMA FlowFlows ==
    ASSUME EventsTypes
    PROVE  /\ pending # << >> =>
                  held \o (Append(wire, Head(pending)) \o Tail(pending)) = Flow
           /\ wire # << >> =>
                  Append(held, Head(wire)) \o (Tail(wire) \o pending) = Flow
  <1>1. held \in Seq(Piece) /\ wire \in Seq(Piece) /\ pending \in Seq(Piece)
    BY DEF EventsTypes
  <1>2. pending # << >> => Append(wire, Head(pending)) \o Tail(pending) = wire \o pending
    BY <1>1, HandedOver
  <1>3. ASSUME wire # << >>
        PROVE  Append(held, Head(wire)) \o (Tail(wire) \o pending) = Flow
    <2> DEFINE r == wire \o pending
    <2>1. r \in Seq(Piece)
      BY <1>1, ConcatProperties
    <2>2. r # << >> /\ Head(r) = Head(wire) /\ Tail(r) = Tail(wire) \o pending
      BY <1>1, <1>3, HeadOfBoth
    <2> HIDE DEF r
    <2>3. Append(held, Head(r)) \o Tail(r) = held \o r
      BY <1>1, <2>1, <2>2, HandedOver
    <2> QED  BY <2>2, <2>3 DEF Flow, r
  <1> QED  BY <1>2, <1>3 DEF Flow

\* The flow, its places and its lines.
LEMMA FlowKnown ==
    ASSUME EventsTypes
    PROVE  /\ Flow \in Seq(Piece) /\ Len(Flow) \in Nat
           /\ Len(Flow) = Len(held) + Len(wire) + Len(pending)
           /\ Len(held) \in Nat /\ Len(wire) \in Nat /\ Len(pending) \in Nat
           /\ Len(wrote) \in Nat /\ Len(published) \in Nat
           /\ \A i \in 1..Len(held) : Flow[i] = held[i]
           /\ \A i \in 1..Len(wire) : Flow[Len(held) + i] = wire[i]
           /\ \A i \in 1..Len(pending) : Flow[Len(held) + Len(wire) + i] = pending[i]
           /\ \A i \in 1..Len(Flow) : Flow[i].line \in Nat
  <1>1. held \in Seq(Piece) /\ wire \in Seq(Piece) /\ pending \in Seq(Piece)
    BY DEF EventsTypes
  <1>2. Len(wrote) \in Nat /\ Len(published) \in Nat
    BY LenProperties DEF EventsTypes
  <1>3. /\ Flow \in Seq(Piece) /\ Len(Flow) \in Nat
        /\ Len(Flow) = Len(held) + Len(wire) + Len(pending)
        /\ Len(held) \in Nat /\ Len(wire) \in Nat /\ Len(pending) \in Nat
        /\ \A i \in 1..Len(held) : Flow[i] = held[i]
        /\ \A i \in 1..Len(wire) : Flow[Len(held) + i] = wire[i]
        /\ \A i \in 1..Len(pending) : Flow[Len(held) + Len(wire) + i] = pending[i]
    BY <1>1, FlowIs DEF Flow
  <1>4. \A i \in 1..Len(Flow) : Flow[i] \in Piece
    BY <1>3, ElementOfSeq
  <1> QED  BY <1>2, <1>3, <1>4 DEF Piece

\* A line has a piece on its way if one is in the flow.
LEMMA LinesAre ==
    ASSUME NEW h \in Seq(Piece), NEW w \in Seq(Piece), NEW p \in Seq(Piece), NEW n
    PROVE  n \in LinesIn(p) \cup LinesIn(w) \cup LinesIn(h) <=> Occurs(h \o (w \o p), n)
  <1>1. DOMAIN h = 1..Len(h) /\ DOMAIN w = 1..Len(w) /\ DOMAIN p = 1..Len(p)
    BY LenProperties
  <1> DEFINE f == h \o (w \o p)
  <1>2. /\ Len(f) = Len(h) + Len(w) + Len(p) /\ Len(h) \in Nat /\ Len(w) \in Nat /\ Len(p) \in Nat
        /\ \A i \in 1..Len(h) : f[i] = h[i]
        /\ \A i \in 1..Len(w) : f[Len(h) + i] = w[i]
        /\ \A i \in 1..Len(p) : f[Len(h) + Len(w) + i] = p[i]
    BY FlowIs
  <1> HIDE DEF f
  <1>3. ASSUME n \in LinesIn(p) \cup LinesIn(w) \cup LinesIn(h)
        PROVE  Occurs(f, n)
    <2>1. CASE n \in LinesIn(h)
      <3>1. PICK i \in 1..Len(h) : h[i].line = n
        BY <1>1, <2>1 DEF LinesIn
      <3>2. i \in 1..Len(f) /\ f[i].line = n
        BY <1>2, <3>1
      <3> QED  BY <3>2 DEF Occurs
    <2>2. CASE n \in LinesIn(w)
      <3>1. PICK i \in 1..Len(w) : w[i].line = n
        BY <1>1, <2>2 DEF LinesIn
      <3>2. Len(h) + i \in 1..Len(f) /\ f[Len(h) + i].line = n
        BY <1>2, <3>1
      <3> QED  BY <3>2 DEF Occurs
    <2>3. CASE n \in LinesIn(p)
      <3>1. PICK i \in 1..Len(p) : p[i].line = n
        BY <1>1, <2>3 DEF LinesIn
      <3>2. Len(h) + Len(w) + i \in 1..Len(f) /\ f[Len(h) + Len(w) + i].line = n
        BY <1>2, <3>1
      <3> QED  BY <3>2 DEF Occurs
    <2> QED  BY <1>3, <2>1, <2>2, <2>3
  <1>4. ASSUME Occurs(f, n)
        PROVE  n \in LinesIn(p) \cup LinesIn(w) \cup LinesIn(h)
    <2>1. PICK i \in 1..Len(f) : f[i].line = n
      BY <1>4 DEF Occurs
    <2>2. CASE i <= Len(h)
      <3>1. i \in 1..Len(h) /\ h[i].line = n
        BY <1>2, <2>1, <2>2
      <3> QED  BY <1>1, <3>1 DEF LinesIn
    <2>3. CASE i > Len(h) /\ i <= Len(h) + Len(w)
      <3> DEFINE j == i - Len(h)
      <3>1. j \in 1..Len(w) /\ Len(h) + j = i
        BY <1>2, <2>3
      <3>2. w[j].line = n
        BY <1>2, <2>1, <3>1
      <3> QED  BY <1>1, <3>1, <3>2 DEF LinesIn
    <2>4. CASE i > Len(h) + Len(w)
      <3> DEFINE j == i - Len(h) - Len(w)
      <3>1. j \in 1..Len(p) /\ Len(h) + Len(w) + j = i
        BY <1>2, <2>4
      <3>2. p[j].line = n
        BY <1>2, <2>1, <3>1
      <3> QED  BY <1>1, <3>1, <3>2 DEF LinesIn
    <2>5. i <= Len(h) \/ (i > Len(h) /\ i <= Len(h) + Len(w)) \/ i > Len(h) + Len(w)
      BY <1>2
    <2> QED  BY <2>2, <2>3, <2>4, <2>5
  <1> QED  BY <1>3, <1>4 DEF f

LEMMA UnderwayIs ==
    ASSUME EventsTypes, EventsTypes', NEW n
    PROVE  /\ n \in Underway <=> Occurs(Flow, n)
           /\ n \in Underway' <=> Occurs(Flow', n)
  <1>1. held \in Seq(Piece) /\ wire \in Seq(Piece) /\ pending \in Seq(Piece)
    BY DEF EventsTypes
  <1>2. held' \in Seq(Piece) /\ wire' \in Seq(Piece) /\ pending' \in Seq(Piece)
    BY DEF EventsTypes
  <1>3. n \in Underway <=> Occurs(Flow, n)
    BY <1>1, LinesAre DEF Underway, Flow
  <1>4. n \in Underway' <=> Occurs(Flow', n)
    BY <1>2, LinesAre DEF Underway, Flow
  <1> QED  BY <1>3, <1>4

\* g is what is left of f from place a on.
Window(f, g, a) ==
    /\ a + Len(g) <= Len(f)
    /\ \A i \in 1..Len(g) : g[i] = f[a + i]

LEMMA RowsKept ==
    ASSUME NEW f \in Seq(Piece), NEW g \in Seq(Piece), NEW a \in Nat,
           Window(f, g, a), InRows(f)
    PROVE  InRows(g)
  <1>1. Len(f) \in Nat /\ Len(g) \in Nat
    BY LenProperties
  <1>2. \A i \in 1..Len(g) : a + i \in 1..Len(f) /\ g[i] = f[a + i]
    BY <1>1 DEF Window
  <1>3. ASSUME NEW i \in 1..Len(g), NEW j \in 1..Len(g), i <= j
        PROVE  g[i].line <= g[j].line
    <2>1. a + i <= a + j
      BY <1>3
    <2>2. f[a + i].line <= f[a + j].line
      BY <1>2, <2>1 DEF InRows
    <2> QED  BY <1>2, <2>2
  <1>4. ASSUME NEW i \in 1..Len(g), NEW j \in 1..Len(g), i < j
        PROVE  g[i].line = g[j].line <=> \A k \in i..(j - 1) : g[k].text # Newline
    <2>1. a + i < a + j
      BY <1>4
    <2>2. f[a + i].line = f[a + j].line <=> \A k \in (a + i)..(a + j - 1) : f[k].text # Newline
      <3>1. a + i \in 1..Len(f) /\ a + j \in 1..Len(f)
        BY <1>2
      <3>2. \A p, q \in 1..Len(f) : p < q =>
                (f[p].line = f[q].line <=> \A k \in p..(q - 1) : f[k].text # Newline)
        BY DEF InRows
      <3> QED  BY <2>1, <3>1, <3>2
    <2>3. ASSUME NEW k \in i..(j - 1)
          PROVE  a + k \in (a + i)..(a + j - 1) /\ g[k] = f[a + k]
      <3>1. k \in 1..Len(g)
        BY <1>1
      <3>2. a + k \in (a + i)..(a + j - 1)
        OBVIOUS
      <3> QED  BY <1>2, <3>1, <3>2
    <2>4. \A k \in (a + i)..(a + j - 1) : k - a \in i..(j - 1) /\ a + (k - a) = k
      OBVIOUS
    <2>5. ASSUME \A k \in (a + i)..(a + j - 1) : f[k].text # Newline, NEW k \in i..(j - 1)
          PROVE  g[k].text # Newline
      <3>1. a + k \in (a + i)..(a + j - 1) /\ g[k] = f[a + k]
        BY <2>3
      <3> QED  BY <2>5, <3>1
    <2>6. ASSUME \A k \in i..(j - 1) : g[k].text # Newline, NEW k \in (a + i)..(a + j - 1)
          PROVE  f[k].text # Newline
      <3>1. k - a \in i..(j - 1) /\ a + (k - a) = k
        BY <2>4
      <3>2. g[k - a] = f[a + (k - a)]
        BY <2>3, <3>1
      <3> QED  BY <2>6, <3>1, <3>2
    <2> QED  BY <1>2, <2>2, <2>5, <2>6
  <1> QED  BY <1>3, <1>4 DEF InRows

LEMMA EntireKept ==
    ASSUME NEW f \in Seq(Piece), NEW g \in Seq(Piece), NEW a \in Nat,
           NEW n \in Nat, NEW t \in Seq(STRING),
           Window(f, g, a), Entire(f, n, t),
           \A i \in 1..Len(f) : f[i].line = n => a < i /\ i <= a + Len(g)
    PROVE  Entire(g, n, t)
  <1>1. Len(f) \in Nat /\ Len(g) \in Nat /\ Len(t) \in Nat
    BY LenProperties
  <1>2. PICK b \in Nat : EntireAt(f, n, t, b)
    BY DEF Entire
  <1>3. /\ b + 1 \in 1..Len(f) /\ f[b + 1].line = n
        /\ b + Len(t) + 1 \in 1..Len(f) /\ f[b + Len(t) + 1].line = n
    BY <1>1, <1>2 DEF EntireAt
  <1>4. a < b + 1 /\ b + Len(t) + 1 <= a + Len(g)
    BY <1>3
  <1> DEFINE c == b - a
  <1>5. c \in Nat /\ c + Len(t) + 1 <= Len(g) /\ a + c = b
    BY <1>1, <1>4
  <1> HIDE DEF c
  <1>6. \A i \in 1..Len(g) : a + i \in 1..Len(f) /\ g[i] = f[a + i]
    BY <1>1 DEF Window
  <1>7. ASSUME NEW i \in 1..Len(g)
        PROVE  g[i].line = n <=> c < i /\ i <= c + Len(t) + 1
    <2>1. f[a + i].line = n <=> b < a + i /\ a + i <= b + Len(t) + 1
      BY <1>2, <1>6 DEF EntireAt
    <2>2. (b < a + i /\ a + i <= b + Len(t) + 1) <=> (c < i /\ i <= c + Len(t) + 1)
      BY <1>1, <1>5
    <2> QED  BY <1>6, <2>1, <2>2
  <1>8. ASSUME NEW k \in 1..Len(t)
        PROVE  g[c + k].text = t[k]
    <2>1. c + k \in 1..Len(g) /\ a + (c + k) = b + k
      BY <1>1, <1>5
    <2> QED  BY <1>2, <1>6, <2>1 DEF EntireAt
  <1>9. g[c + Len(t) + 1].text = Newline
    <2>1. c + Len(t) + 1 \in 1..Len(g) /\ a + (c + Len(t) + 1) = b + Len(t) + 1
      BY <1>1, <1>5
    <2> QED  BY <1>2, <1>6, <2>1 DEF EntireAt
  <1>10. EntireAt(g, n, t, c)
    BY <1>5, <1>7, <1>8, <1>9 DEF EntireAt
  <1> QED  BY <1>5, <1>10 DEF Entire

LEMMA FlowNext ==
    ASSUME EventsTypes'
    PROVE  /\ Flow' \in Seq(Piece) /\ Len(Flow') \in Nat
           /\ Len(Flow') = Len(held') + Len(wire') + Len(pending')
           /\ \A i \in 1..Len(held') : Flow'[i] = held'[i]
           /\ \A i \in 1..Len(wire') : Flow'[Len(held') + i] = wire'[i]
           /\ \A i \in 1..Len(pending') : Flow'[Len(held') + Len(wire') + i] = pending'[i]
  <1>1. held' \in Seq(Piece) /\ wire' \in Seq(Piece) /\ pending' \in Seq(Piece)
    BY DEF EventsTypes
  <1> QED  BY <1>1, FlowIs DEF Flow

\* What the listener holds is of one line, and so is the piece that comes next.
LEMMA HeldIsOneLine ==
    ASSUME EventsTypes, FlowHolds, held # << >>
    PROVE  /\ Len(held) >= 1 /\ Flow[1] = held[1] /\ held[1].line \in 1..Len(wrote)
           /\ \A i \in 1..Len(held) : held[i].line = held[1].line
           /\ Len(held) < Len(Flow) => Flow[Len(held) + 1].line = held[1].line
  <1> USE FlowKnown
  <1>1. Len(held) >= 1
    BY EmptySeq DEF EventsTypes
  <1>2. Flow[1] = held[1] /\ 1 \in 1..Len(Flow)
    BY <1>1
  <1>3. held[1].line \in 1..Len(wrote)
    BY <1>2 DEF FlowHolds
  <1>4. ASSUME NEW i \in 1..Len(Flow), 1 < i, i <= Len(held) + 1
        PROVE  Flow[i].line = Flow[1].line
    <2>1. ASSUME NEW k \in 1..(i - 1)
          PROVE  Flow[k].text # Newline
      <3>1. k \in 1..Len(held)
        BY <1>4
      <3> QED  BY <3>1 DEF FlowHolds
    <2> QED  BY <1>2, <1>4, <2>1 DEF FlowHolds, InRows
  <1>5. ASSUME NEW i \in 1..Len(held)
        PROVE  held[i].line = held[1].line
    <2>1. CASE i = 1
      BY <2>1
    <2>2. CASE i > 1
      <3>1. i \in 1..Len(Flow) /\ 1 < i /\ i <= Len(held) + 1 /\ Flow[i] = held[i]
        BY <2>2
      <3>2. Flow[i].line = Flow[1].line
        BY <1>4, <3>1
      <3> QED  BY <1>2, <3>1, <3>2
    <2> QED  BY <2>1, <2>2
  <1>6. ASSUME Len(held) < Len(Flow)
        PROVE  Flow[Len(held) + 1].line = held[1].line
    <2>1. Len(held) + 1 \in 1..Len(Flow) /\ 1 < Len(held) + 1
      BY <1>1, <1>6
    <2> QED  BY <1>2, <1>4, <2>1
  <1> QED  BY <1>1, <1>2, <1>3, <1>5, <1>6

\* A flow that loses pieces at its ends keeps its rows, and every line that is
\* not cut and loses none.
LEMMA FlowShrinks ==
    ASSUME EventsTypes, EventsTypes', FlowHolds, NEW a \in Nat, Window(Flow, Flow', a),
           wrote' = wrote, cut \subseteq cut',
           \A n \in (1..Len(wrote)) \ cut' : \A i \in 1..Len(Flow) :
              Occurs(Flow', n) /\ Flow[i].line = n => a < i /\ i <= a + Len(Flow')
    PROVE  /\ InRows(Flow')
           /\ \A i \in 1..Len(Flow') : Flow'[i].line \in 1..Len(wrote')
           /\ \A n \in (1..Len(wrote')) \ cut' : Occurs(Flow', n) => Entire(Flow', n, wrote'[n])
  <1>1. Flow \in Seq(Piece) /\ Len(Flow) \in Nat /\ Len(wrote) \in Nat
    BY FlowKnown
  <1>2. Flow' \in Seq(Piece) /\ Len(Flow') \in Nat
    BY FlowNext
  <1>3. InRows(Flow')
    BY <1>1, <1>2, RowsKept DEF FlowHolds
  <1>4. \A i \in 1..Len(Flow') : a + i \in 1..Len(Flow) /\ Flow'[i] = Flow[a + i]
    BY <1>1, <1>2 DEF Window
  <1>5. \A i \in 1..Len(Flow') : Flow'[i].line \in 1..Len(wrote')
    BY <1>4 DEF FlowHolds
  <1>6. ASSUME NEW n \in (1..Len(wrote)) \ cut', Occurs(Flow', n)
        PROVE  Entire(Flow', n, wrote[n])
    <2>1. PICK i \in 1..Len(Flow') : Flow'[i].line = n
      BY <1>6 DEF Occurs
    <2>2. Occurs(Flow, n)
      BY <1>4, <2>1 DEF Occurs
    <2>3. Entire(Flow, n, wrote[n])
      BY <2>2 DEF FlowHolds
    <2>4. wrote[n] \in Seq(STRING)
      <3>1. wrote[n] \in ShellLines
        BY ElementOfSeq DEF EventsTypes
      <3> QED  BY <3>1, ShellAssumption
    <2>5. \A k \in 1..Len(Flow) : Flow[k].line = n => a < k /\ k <= a + Len(Flow')
      BY <1>6
    <2> QED  BY <1>1, <1>2, <2>3, <2>4, <2>5, EntireKept
  <1> QED  BY <1>3, <1>5, <1>6

\* A step that publishes nothing keeps what was said of the published events, if
\* the lines that are no longer on their way are cut or noise.
LEMMA NothingNew ==
    ASSUME EventsTypes, EventsTypes', TurnsHold, LinesBecomeEvents, NEW a \in Nat,
           Window(Flow, Flow', a), wrote' = wrote, cut \subseteq cut', published' = published,
           \A n \in (1..Len(wrote)) \ cut' :
              Occurs(Flow, n) => Occurs(Flow', n) \/ Noise(wrote[n])
    PROVE  TurnsHold' /\ LinesBecomeEvents'
  <1>1. Len(Flow) \in Nat /\ Len(wrote) \in Nat /\ Len(published) \in Nat
    BY FlowKnown
  <1>2. Len(Flow') \in Nat
    BY FlowNext
  <1>3. DOMAIN published = 1..Len(published) /\ DOMAIN wrote = 1..Len(wrote)
    BY LenProperties DEF EventsTypes
  <1>4. \A i \in 1..Len(Flow') : a + i \in 1..Len(Flow) /\ Flow'[i] = Flow[a + i]
    BY <1>1, <1>2 DEF Window
  <1>5. TurnsHold'
    <2>1. ASSUME NEW i \in 1..Len(published), NEW j \in 1..Len(Flow')
          PROVE  \/ published[i].line < Flow'[j].line
                 \/ published[i].line = Flow'[j].line /\ published[i].line \in cut'
      <3>1. \/ published[i].line < Flow[a + j].line
            \/ published[i].line = Flow[a + j].line /\ published[i].line \in cut
        BY <1>4 DEF TurnsHold
      <3> QED  BY <1>4, <3>1
    <2>2. \A i \in 1..Len(published) : published[i].line \in 1..Len(wrote)
      BY DEF TurnsHold
    <2> QED  BY <2>1, <2>2 DEF TurnsHold
  <1>6. \A i \in DOMAIN published :
            published[i].line \in cut' \/ published[i].event = ParseLine(wrote[published[i].line])
    BY DEF LinesBecomeEvents
  <1>7. \A i, j \in DOMAIN published :
            i < j => \/ published[i].line < published[j].line
                     \/ published[i].line = published[j].line /\ published[i].line \in cut'
    BY DEF LinesBecomeEvents
  <1>8. ASSUME NEW n \in DOMAIN wrote, n \notin cut' \cup Underway'
        PROVE  ~Noise(wrote[n]) <=> (\E i \in DOMAIN published : published[i].line = n)
    <2>1. ~Occurs(Flow', n)
      BY <1>8, UnderwayIs
    <2>2. CASE ~Occurs(Flow, n)
      <3>1. n \notin cut \cup Underway
        BY <1>8, <2>2, UnderwayIs
      <3> QED  BY <3>1 DEF LinesBecomeEvents
    <2>3. CASE Occurs(Flow, n)
      <3>1. Noise(wrote[n])
        BY <1>3, <1>8, <2>1, <2>3
      <3>2. PICK j \in 1..Len(Flow) : Flow[j].line = n
        BY <2>3 DEF Occurs
      <3>3. ASSUME NEW i \in DOMAIN published, published[i].line = n
            PROVE  FALSE
        <4>1. published[i].line < Flow[j].line \/ published[i].line \in cut
          BY <1>3, <3>2 DEF TurnsHold
        <4>2. n \in Int /\ ~(n < n)
          BY <1>1, <1>3
        <4> QED  BY <1>8, <3>2, <3>3, <4>1, <4>2
      <3> QED  BY <3>1, <3>3
    <2> QED  BY <2>2, <2>3
  <1>9. LinesBecomeEvents'
    BY <1>6, <1>7, <1>8 DEF LinesBecomeEvents
  <1> QED  BY <1>5, <1>9

-----------------------------------------------------------------------------
\* The bus.

LEMMA BusKnown ==
    ASSUME EventsTypes, NEW s \in Subscriber
    PROVE  /\ subs[s].queue \in Seq(Nat) /\ subs[s].seen \in Seq(Nat)
           /\ subs[s].since \in Nat /\ subs[s].until \in Nat /\ subs[s].here \in BOOLEAN
           /\ Handed(s) \in Seq(Nat) /\ Len(Handed(s)) \in Nat
           /\ ToSet(Handed(s)) = {Handed(s)[i] : i \in 1..Len(Handed(s))}
           /\ Len(published) \in Nat /\ DOMAIN published = 1..Len(published)
  <1>1. subs[s] \in [queue : Seq(Nat), seen : Seq(Nat), since : Nat, until : Nat, here : BOOLEAN]
    BY DEF EventsTypes
  <1>2. subs[s].queue \in Seq(Nat) /\ subs[s].seen \in Seq(Nat)
    BY <1>1
  <1>3. Handed(s) \in Seq(Nat)
    BY <1>2, ConcatProperties DEF Handed
  <1>4. DOMAIN Handed(s) = 1..Len(Handed(s)) /\ Len(Handed(s)) \in Nat
    BY <1>3, LenProperties
  <1>5. ToSet(Handed(s)) = {Handed(s)[i] : i \in 1..Len(Handed(s))}
    BY <1>4 DEF ToSet
  <1>6. Len(published) \in Nat /\ DOMAIN published = 1..Len(published)
    BY LenProperties DEF EventsTypes
  <1> QED  BY <1>1, <1>3, <1>4, <1>5, <1>6

\* A step that changes no subscriber but s, and not what s has missed.
LEMMA OneSubscriber ==
    ASSUME EventsTypes, EventsTypes', LossesAreCounted, \A z \in Subscriber : SubscriberHolds(z),
           NEW s \in Subscriber, \A z \in Subscriber \ {s} : subs'[z] = subs[z],
           dropped' = dropped, published' = published, listed \subseteq listed',
           Offered(s)' = Offered(s), Handed(s)' = Handed(s),
           subs'[s].here => s \in listed',
           subs'[s].since <= Len(published), subs'[s].until <= Len(published)
    PROVE  LossesAreCounted' /\ \A z \in Subscriber : SubscriberHolds(z)'
  <1>1. ASSUME NEW z \in Subscriber
        PROVE  Offered(z)' = Offered(z) /\ Handed(z)' = Handed(z)
    <2>1. CASE z = s
      BY <2>1
    <2>2. CASE z # s
      <3>1. subs'[z] = subs[z]
        BY <2>2
      <3> QED  BY <3>1 DEF Offered, Handed
    <2> QED  BY <2>1, <2>2
  <1>2. \A z \in Subscriber : Missed(z)' = Missed(z)
    BY <1>1 DEF Missed
  <1>3. {m \in Subscriber \X DOMAIN published' : m[2] \in Missed(m[1])'} =
        {m \in Subscriber \X DOMAIN published : m[2] \in Missed(m[1])}
    BY <1>2
  <1>4. LossesAreCounted'
    BY <1>3 DEF LossesAreCounted
  <1>5. ASSUME NEW z \in Subscriber
        PROVE  SubscriberHolds(z)'
    <2>1. SubscriberHolds(z)
      OBVIOUS
    <2>2. /\ subs'[z].here => z \in listed'
          /\ subs'[z].since <= Len(published) /\ subs'[z].until <= Len(published)
      <3>1. CASE z = s
        BY <3>1
      <3>2. CASE z # s
        <4>1. subs'[z] = subs[z]
          BY <3>2
        <4> QED  BY <2>1, <4>1 DEF SubscriberHolds
      <3> QED  BY <3>1, <3>2
    <2>3. /\ ToSet(Handed(z)') \subseteq Offered(z)'
          /\ \A i, j \in 1..Len(Handed(z)') : i < j => Handed(z)'[i] < Handed(z)'[j]
      BY <1>1, <2>1 DEF SubscriberHolds
    <2> QED  BY <2>2, <2>3 DEF SubscriberHolds
  <1> QED  BY <1>4, <1>5

LEMMA SubscribeKeepsBus ==
    ASSUME EventsTypes, EventsTypes', LossesAreCounted, \A z \in Subscriber : SubscriberHolds(z),
           NEW s \in Subscriber, Subscribe(s)
    PROVE  LossesAreCounted' /\ \A z \in Subscriber : SubscriberHolds(z)'
  <1>1. /\ subs[s] = Absent
        /\ subs' = [subs EXCEPT ![s] = [Absent EXCEPT !.since = Len(published), !.here = TRUE]]
        /\ listed' = listed \cup {s} /\ dropped' = dropped /\ published' = published
    BY DEF Subscribe
  <1>2. subs'[s] = [Absent EXCEPT !.since = Len(published), !.here = TRUE]
    BY <1>1 DEF EventsTypes
  <1>3. \A z \in Subscriber \ {s} : subs'[z] = subs[z]
    BY <1>1 DEF EventsTypes
  <1>4. Len(published) \in Nat
    BY BusKnown
  <1>5. Handed(s)' = Handed(s)
    BY <1>1, <1>2 DEF Handed, Absent
  <1>6. Offered(s) = 1..0
    BY <1>1 DEF Offered, Absent
  <1>7. Offered(s)' = (Len(published) + 1)..Len(published)
    BY <1>1, <1>2 DEF Offered, Absent
  <1>8. 1..0 = (Len(published) + 1)..Len(published)
    BY <1>4
  <1>9. subs'[s].since <= Len(published) /\ subs'[s].until <= Len(published)
    BY <1>2, <1>4 DEF Absent
  <1>10. s \in listed' /\ listed \subseteq listed'
    BY <1>1
  <1>11. Offered(s)' = Offered(s)
    BY <1>6, <1>7, <1>8
  <1> QED  BY <1>1, <1>3, <1>5, <1>9, <1>10, <1>11, OneSubscriber

LEMMA TakeKeepsBus ==
    ASSUME EventsTypes, EventsTypes', LossesAreCounted, \A z \in Subscriber : SubscriberHolds(z),
           NEW s \in Subscriber, Take(s)
    PROVE  LossesAreCounted' /\ \A z \in Subscriber : SubscriberHolds(z)'
  <1>1. /\ subs[s].here /\ subs[s].queue # << >>
        /\ subs' = [subs EXCEPT ![s].queue = Tail(@), ![s].seen = Append(@, Head(subs[s].queue))]
        /\ listed' = listed /\ dropped' = dropped /\ published' = published
    BY DEF Take
  <1>2. \A z \in Subscriber \ {s} : subs'[z] = subs[z]
    BY <1>1 DEF EventsTypes
  <1>3. /\ subs'[s].queue = Tail(subs[s].queue)
        /\ subs'[s].seen = Append(subs[s].seen, Head(subs[s].queue))
        /\ subs'[s].since = subs[s].since /\ subs'[s].until = subs[s].until
        /\ subs'[s].here = subs[s].here
    BY <1>1 DEF EventsTypes
  <1>4. subs[s].queue \in Seq(Nat) /\ subs[s].seen \in Seq(Nat)
    BY BusKnown
  <1>5. Append(subs[s].seen, Head(subs[s].queue)) \o Tail(subs[s].queue) = subs[s].seen \o subs[s].queue
    BY <1>1, <1>4, HandedOver
  <1>6. Handed(s)' = Handed(s)
    BY <1>3, <1>5 DEF Handed
  <1>7. Offered(s)' = Offered(s)
    BY <1>1, <1>3 DEF Offered
  <1>8. SubscriberHolds(s)
    OBVIOUS
  <1>9. /\ subs'[s].here => s \in listed'
        /\ subs'[s].since <= Len(published) /\ subs'[s].until <= Len(published)
    BY <1>1, <1>3, <1>8 DEF SubscriberHolds
  <1> QED  BY <1>1, <1>2, <1>6, <1>7, <1>9, OneSubscriber

LEMMA LeaveKeepsBus ==
    ASSUME EventsTypes, EventsTypes', LossesAreCounted, \A z \in Subscriber : SubscriberHolds(z),
           NEW s \in Subscriber, Leave(s)
    PROVE  LossesAreCounted' /\ \A z \in Subscriber : SubscriberHolds(z)'
  <1>1. /\ subs[s].here
        /\ subs' = [subs EXCEPT ![s].here = FALSE, ![s].until = Len(published)]
        /\ listed' = listed /\ dropped' = dropped /\ published' = published
    BY DEF Leave
  <1>2. \A z \in Subscriber \ {s} : subs'[z] = subs[z]
    BY <1>1 DEF EventsTypes
  <1>3. /\ subs'[s].queue = subs[s].queue /\ subs'[s].seen = subs[s].seen
        /\ subs'[s].since = subs[s].since /\ subs'[s].until = Len(published)
        /\ ~subs'[s].here
    BY <1>1 DEF EventsTypes
  <1>4. Len(published) \in Nat
    BY BusKnown
  <1>5. Handed(s)' = Handed(s) /\ Offered(s)' = Offered(s)
    BY <1>1, <1>3 DEF Handed, Offered
  <1>6. SubscriberHolds(s)
    OBVIOUS
  <1>7. /\ subs'[s].here => s \in listed'
        /\ subs'[s].since <= Len(published) /\ subs'[s].until <= Len(published)
    BY <1>1, <1>3, <1>4, <1>6 DEF SubscriberHolds
  <1> QED  BY <1>1, <1>2, <1>5, <1>7, OneSubscriber


\* One more element at the end of the second of two sequences.
LEMMA AppendLast ==
    ASSUME NEW S, NEW s \in Seq(S), NEW t \in Seq(S), NEW e \in S
    PROVE  LET c == s \o Append(t, e) IN
           /\ c \in Seq(S) /\ Len(c) = Len(s \o t) + 1 /\ Len(s \o t) \in Nat
           /\ \A i \in 1..Len(s \o t) : c[i] = (s \o t)[i]
           /\ c[Len(s \o t) + 1] = e
  <1>1. Len(s) \in Nat /\ Len(t) \in Nat
    BY LenProperties
  <1> DEFINE r == Append(t, e)
             c == s \o r
             d == s \o t
  <1>2. /\ r \in Seq(S) /\ Len(r) = Len(t) + 1
        /\ \A i \in 1..Len(t) : r[i] = t[i]
        /\ r[Len(t) + 1] = e
    BY AppendProperties
  <1>3. /\ d \in Seq(S) /\ Len(d) = Len(s) + Len(t)
        /\ \A i \in 1..(Len(s) + Len(t)) : d[i] = IF i <= Len(s) THEN s[i] ELSE t[i - Len(s)]
    BY ConcatProperties
  <1> HIDE DEF r, d
  <1>4. /\ c \in Seq(S) /\ Len(c) = Len(s) + Len(r)
        /\ \A i \in 1..(Len(s) + Len(r)) : c[i] = IF i <= Len(s) THEN s[i] ELSE r[i - Len(s)]
    BY <1>2, ConcatProperties
  <1> HIDE DEF c
  <1>5. Len(c) = Len(d) + 1 /\ Len(d) \in Nat
    BY <1>1, <1>2, <1>3, <1>4
  <1>6. ASSUME NEW i \in 1..Len(d)
        PROVE  c[i] = d[i]
    <2>1. CASE i <= Len(s)
      BY <1>1, <1>2, <1>3, <1>4, <2>1
    <2>2. CASE i > Len(s)
      <3>1. i - Len(s) \in 1..Len(t)
        BY <1>1, <1>3, <2>2
      <3>2. c[i] = r[i - Len(s)] /\ d[i] = t[i - Len(s)]
        BY <1>1, <1>2, <1>3, <1>4, <2>2
      <3> QED  BY <1>2, <3>1, <3>2
    <2> QED  BY <1>1, <1>3, <2>1, <2>2
  <1>7. c[Len(d) + 1] = e
    <2>1. Len(d) + 1 \in 1..(Len(s) + Len(r)) /\ ~(Len(d) + 1 <= Len(s))
      BY <1>1, <1>2, <1>3
    <2>2. c[Len(d) + 1] = r[(Len(d) + 1) - Len(s)]
      BY <1>4, <2>1
    <2>3. (Len(d) + 1) - Len(s) = Len(t) + 1
      BY <1>1, <1>3
    <2> QED  BY <1>2, <2>2, <2>3
  <1> QED  BY <1>4, <1>5, <1>6, <1>7 DEF c, d, r

\* One event more: those with room are handed it, those without have missed it.
LEMMA OneEventMore ==
    ASSUME EventsTypes, NEW event, NEW num, Publish(event, num),
           NEW s \in Subscriber, SubscriberHolds(s)
    PROVE  /\ Len(published') = Len(published) + 1
           /\ Missed(s) \subseteq 1..Len(published)
           /\ Missed(s)' = Missed(s) \cup (IF subs[s].here /\ Full(s) THEN {Len(published) + 1} ELSE {})
           /\ SubscriberHolds(s)'
  <1> DEFINE P == Len(published)
             h == Handed(s)
             g == Handed(s)'
             here == {z \in listed : subs[z].here}
  <1>1. /\ published' = Append(published, [event |-> event, line |-> num])
        /\ subs' = [z \in Subscriber |->
                       IF z \in here /\ ~Full(z)
                       THEN [subs[z] EXCEPT !.queue = Append(@, P + 1)]
                       ELSE subs[z]]
        /\ listed' = here
    BY DEF Publish
  <1>2. P \in Nat
    BY BusKnown
  <1>3. Len(published') = P + 1
    <2>1. DOMAIN published = 1..P /\ P \in Nat
      BY BusKnown
    <2> QED  BY <1>1, <2>1, AppendProperties, LenProperties DEF EventsTypes
  <1>4. /\ subs[s].queue \in Seq(Nat) /\ subs[s].seen \in Seq(Nat)
        /\ subs[s].since \in Nat /\ subs[s].until \in Nat
        /\ subs[s].here \in BOOLEAN /\ h \in Seq(Nat) /\ Len(h) \in Nat
        /\ ToSet(h) = {h[i] : i \in 1..Len(h)}
    BY BusKnown
  <1>5. /\ subs[s].here => s \in listed
        /\ subs[s].since <= P /\ subs[s].until <= P
        /\ ToSet(h) \subseteq Offered(s)
        /\ \A i, j \in 1..Len(h) : i < j => h[i] < h[j]
    BY DEF SubscriberHolds
  <1>6. subs[s].here <=> s \in here
    BY <1>5
  <1>7. Offered(s) \subseteq 1..P
    BY <1>2, <1>4, <1>5 DEF Offered
  <1>8. Missed(s) \subseteq 1..P
    BY <1>7 DEF Missed
  <1>9. subs'[s] = IF s \in here /\ ~Full(s)
                   THEN [subs[s] EXCEPT !.queue = Append(@, P + 1)] ELSE subs[s]
    BY <1>1
  <1>10. subs[s] \in [queue : Seq(Nat), seen : Seq(Nat), since : Nat, until : Nat, here : BOOLEAN]
    BY DEF EventsTypes
  <1>11. /\ subs'[s].since = subs[s].since /\ subs'[s].until = subs[s].until
         /\ subs'[s].here = subs[s].here /\ subs'[s].seen = subs[s].seen
    BY <1>9, <1>10
  <1>12. subs'[s].queue = IF s \in here /\ ~Full(s) THEN Append(subs[s].queue, P + 1) ELSE subs[s].queue
    BY <1>9, <1>10
  <1>13. Offered(s)' = Offered(s) \cup (IF subs[s].here THEN {P + 1} ELSE {})
    <2>1. CASE subs[s].here
      <3>1. Offered(s) = (subs[s].since + 1)..P
        BY <2>1 DEF Offered
      <3>2. Offered(s)' = (subs[s].since + 1)..(P + 1)
        BY <1>3, <1>11, <2>1 DEF Offered
      <3>3. ASSUME NEW a \in Nat, NEW b \in Nat, a <= b
            PROVE  (a + 1)..(b + 1) = ((a + 1)..b) \cup {b + 1}
        BY <3>3
      <3>4. (subs[s].since + 1)..(P + 1) = ((subs[s].since + 1)..P) \cup {P + 1}
        BY <1>2, <1>4, <1>5, <3>3
      <3> QED  BY <2>1, <3>1, <3>2, <3>4
    <2>2. CASE ~subs[s].here
      BY <1>11, <2>2 DEF Offered
    <2> QED  BY <2>1, <2>2
  <1>14. /\ subs'[s].here => s \in listed'
         /\ subs'[s].since <= Len(published') /\ subs'[s].until <= Len(published')
    BY <1>1, <1>2, <1>3, <1>4, <1>5, <1>6, <1>11
  <1> HIDE DEF P
  <1>15. CASE s \in here /\ ~Full(s)
    <2>1. subs'[s].seen \o subs'[s].queue = subs[s].seen \o Append(subs[s].queue, P + 1)
      BY <1>11, <1>12, <1>15
    <2>2. g = subs[s].seen \o Append(subs[s].queue, P + 1) /\ h = subs[s].seen \o subs[s].queue
      BY <2>1 DEF Handed
    <2> HIDE DEF g, h
    <2>3. /\ g \in Seq(Nat) /\ Len(g) = Len(h) + 1
          /\ \A i \in 1..Len(h) : g[i] = h[i]
          /\ g[Len(h) + 1] = P + 1
      <3>1. P + 1 \in Nat
        BY <1>2
      <3> DEFINE q == subs[s].queue
                 e == subs[s].seen
      <3>2. q \in Seq(Nat) /\ e \in Seq(Nat)
        BY <1>4
      <3>3. g = e \o Append(q, P + 1) /\ h = e \o q
        BY <2>2
      <3> HIDE DEF q, e
      <3> QED  BY <3>1, <3>2, <3>3, AppendLast
    <2>4. DOMAIN g = 1..Len(g)
      BY <2>3, LenProperties
    <2>5. ToSet(g) = ToSet(h) \cup {P + 1}
      <3>1. ToSet(g) = {g[i] : i \in 1..Len(g)}
        BY <2>4 DEF ToSet
      <3>2. ASSUME NEW x \in ToSet(g)
            PROVE  x \in ToSet(h) \cup {P + 1}
        <4>1. PICK i \in 1..Len(g) : x = g[i]
          BY <3>1
        <4>2. i \in 1..Len(h) \/ i = Len(h) + 1
          BY <1>4, <2>3
        <4> QED  BY <1>4, <2>3, <4>1, <4>2
      <3>3. ASSUME NEW x \in ToSet(h)
            PROVE  x \in ToSet(g)
        <4>1. PICK i \in 1..Len(h) : x = h[i]
          BY <1>4
        <4>2. i \in 1..Len(g) /\ g[i] = x
          BY <1>4, <2>3, <4>1
        <4> QED  BY <3>1, <4>2
      <3>4. P + 1 \in ToSet(g)
        <4>1. Len(h) + 1 \in 1..Len(g)
          BY <1>4, <2>3
        <4> QED  BY <2>3, <3>1, <4>1
      <3> QED  BY <3>2, <3>3, <3>4
    <2>6. Offered(s)' = Offered(s) \cup {P + 1}
      BY <1>6, <1>13, <1>15
    <2>7. P + 1 \notin 1..P
      BY <1>2
    <2>8. Missed(s) = Offered(s) \ ToSet(h)
      BY DEF Missed, h
    <2>9. Missed(s)' = Offered(s)' \ ToSet(g)
      BY DEF Missed, g
    <2>10. Missed(s)' = Missed(s)
      BY <1>7, <2>5, <2>6, <2>7, <2>8, <2>9
    <2>11. ToSet(g) \subseteq Offered(s)'
      BY <1>5, <2>5, <2>6
    <2>12. ASSUME NEW i \in 1..Len(g), NEW j \in 1..Len(g), i < j
           PROVE  g[i] < g[j]
      <3>1. i \in 1..Len(h)
        BY <1>4, <2>3, <2>12
      <3>2. g[i] = h[i]
        BY <2>3, <3>1
      <3>3. CASE j = Len(h) + 1
        <4>1. h[i] \in 1..P
          BY <1>4, <1>5, <1>7, <3>1
        <4> QED  BY <1>2, <2>3, <3>2, <3>3, <4>1
      <3>4. CASE j # Len(h) + 1
        <4>1. j \in 1..Len(h)
          BY <1>4, <2>3, <3>4
        <4> QED  BY <1>5, <2>3, <2>12, <3>1, <3>2, <4>1
      <3> QED  BY <3>3, <3>4
    <2>13. SubscriberHolds(s)'
      BY <1>14, <2>11, <2>12 DEF SubscriberHolds, g
    <2> QED  BY <1>3, <1>8, <1>15, <2>10, <2>13 DEF P
  <1>16. CASE ~(s \in here /\ ~Full(s))
    <2>1. Handed(s)' = Handed(s)
      BY <1>11, <1>12, <1>16 DEF Handed
    <2>2. P + 1 \notin ToSet(Handed(s))
      <3>1. P + 1 \notin 1..P
        BY <1>2
      <3> QED  BY <1>5, <1>7, <3>1
    <2>3. Missed(s)' = Missed(s) \cup (IF subs[s].here /\ Full(s) THEN {P + 1} ELSE {})
      BY <1>6, <1>13, <1>16, <2>1, <2>2 DEF Missed
    <2>4. ToSet(Handed(s)') \subseteq Offered(s)'
      BY <1>5, <1>13, <2>1
    <2>5. \A i, j \in 1..Len(Handed(s)') : i < j => Handed(s)'[i] < Handed(s)'[j]
      BY <1>5, <2>1
    <2>6. SubscriberHolds(s)'
      BY <1>14, <2>4, <2>5 DEF SubscriberHolds
    <2> QED  BY <1>3, <1>8, <2>3, <2>6 DEF P
  <1> QED  BY <1>15, <1>16

LEMMA PublishKeepsBus ==
    ASSUME EventsTypes, NEW event, NEW num, Publish(event, num),
           DOMAIN published' = 1..Len(published'),
           LossesAreCounted, \A z \in Subscriber : SubscriberHolds(z)
    PROVE  LossesAreCounted' /\ \A z \in Subscriber : SubscriberHolds(z)'
  <1> DEFINE P == Len(published)
             full == {z \in Subscriber : subs[z].here /\ Full(z)}
             M == {m \in Subscriber \X DOMAIN published : m[2] \in Missed(m[1])}
             N == {<<z, P + 1>> : z \in full}
  <1>1. P \in Nat /\ DOMAIN published = 1..P
    BY LenProperties DEF EventsTypes
  <1>2. IsFiniteSet(Subscriber)
    BY EventsAssumption
  <1>3. IsFiniteSet(full) /\ Cardinality(full) \in Nat
    BY <1>2, FS_Subset, FS_CardinalityType
  <1>4. \A z \in Subscriber :
           /\ Len(published') = P + 1
           /\ Missed(z) \subseteq 1..P
           /\ Missed(z)' = Missed(z) \cup (IF subs[z].here /\ Full(z) THEN {P + 1} ELSE {})
           /\ SubscriberHolds(z)'
    BY OneEventMore
  <1>5. IsFiniteSet(M) /\ Cardinality(M) \in Nat
    <2>1. IsFiniteSet(1..P)
      BY <1>1, FS_Interval
    <2>2. IsFiniteSet(Subscriber \X DOMAIN published)
      BY <1>1, <1>2, <2>1, FS_Product
    <2>3. IsFiniteSet(M)
      BY <2>2, FS_Subset
    <2> QED  BY <2>3, FS_CardinalityType
  <1>6. IsFiniteSet(N) /\ Cardinality(N) = Cardinality(full)
    <2> DEFINE f == [z \in full |-> <<z, P + 1>>]
    <2>1. f \in Bijection(full, N)
      BY DEF Bijection, Injection, Surjection, IsInjective
    <2>2. ExistsBijection(full, N)
      BY <2>1 DEF ExistsBijection
    <2> HIDE DEF N, full
    <2> QED  BY <1>3, <2>2, FS_Bijection
  <1>7. M \cap N = {}
    BY <1>1
  <1>8. ASSUME Subscriber # {}
        PROVE  {m \in Subscriber \X DOMAIN published' : m[2] \in Missed(m[1])'} = M \cup N
    <2>1. DOMAIN published' = 1..(P + 1)
      BY <1>4, <1>8
    <2>2. ASSUME NEW z \in Subscriber, NEW k
          PROVE  (k \in 1..(P + 1) /\ k \in Missed(z)') <=> (<<z, k>> \in M \/ <<z, k>> \in N)
      <3>1. <<z, k>> \in M <=> (k \in 1..P /\ k \in Missed(z))
        BY <1>1
      <3>2. <<z, k>> \in N <=> (z \in full /\ k = P + 1)
        OBVIOUS
      <3>3. k \in Missed(z)' <=> (k \in Missed(z) \/ (z \in full /\ k = P + 1))
        BY <1>4
      <3>4. k \in Missed(z) => k \in 1..P
        BY <1>4
      <3>5. P + 1 \in 1..(P + 1) /\ 1..P \subseteq 1..(P + 1)
        BY <1>1
      <3> HIDE DEF M, N, full, P
      <3> QED  BY <3>1, <3>2, <3>3, <3>4, <3>5
    <2>3. ASSUME NEW m \in Subscriber \X DOMAIN published', m[2] \in Missed(m[1])'
          PROVE  m \in M \cup N
      <3>1. PICK z \in Subscriber, k \in 1..(P + 1) : m = <<z, k>>
        BY <2>1
      <3>2. k \in Missed(z)'
        BY <2>3, <3>1
      <3> HIDE DEF M, N
      <3> QED  BY <2>2, <3>1, <3>2
    <2>4. ASSUME NEW m \in M \cup N
          PROVE  m \in Subscriber \X DOMAIN published' /\ m[2] \in Missed(m[1])'
      <3>1. PICK z \in Subscriber, k \in 1..(P + 1) : m = <<z, k>>
        <4>1. CASE m \in M
          <5>1. PICK z \in Subscriber, k \in 1..P : m = <<z, k>>
            BY <1>1, <4>1
          <5>2. k \in 1..(P + 1)
            BY <1>1
          <5> QED  BY <5>1, <5>2
        <4>2. CASE m \in N
          <5>1. PICK z \in Subscriber : m = <<z, P + 1>>
            BY <4>2
          <5>2. P + 1 \in 1..(P + 1)
            BY <1>1
          <5> QED  BY <5>1, <5>2
        <4> QED  BY <4>1, <4>2
      <3> HIDE DEF M, N
      <3>2. k \in Missed(z)'
        BY <2>2, <2>4, <3>1
      <3> QED  BY <2>1, <3>1, <3>2
    <2> HIDE DEF M, N
    <2> QED  BY <2>3, <2>4
  <1>9. {z \in {y \in listed : subs[y].here} : Full(z)} = full
    BY DEF SubscriberHolds, EventsTypes
  <1>10. dropped' = dropped + Cardinality(full)
    <2>1. dropped' = dropped + Cardinality({z \in {y \in listed : subs[y].here} : Full(z)})
      BY DEF Publish
    <2> QED  BY <1>9, <2>1
  <1>11. dropped = Cardinality(M)
    BY DEF LossesAreCounted
  <1>12. Cardinality(M \cup N) = Cardinality(M) + Cardinality(full)
    <2> HIDE DEF M, N, full
    <2>1. Cardinality(M \cup N) = Cardinality(M) + Cardinality(N) - Cardinality(M \cap N)
      BY <1>5, <1>6, FS_Union
    <2>2. Cardinality(M \cap N) = 0
      BY <1>7, FS_EmptySet
    <2> QED  BY <1>3, <1>5, <1>6, <2>1, <2>2
  <1>13. LossesAreCounted'
    <2>1. CASE Subscriber # {}
      BY <1>8, <1>10, <1>11, <1>12, <2>1 DEF LossesAreCounted
    <2>2. CASE Subscriber = {}
      <3>1. {m \in Subscriber \X DOMAIN published' : m[2] \in Missed(m[1])'} = M /\ full = {}
        BY <2>2
      <3>2. Cardinality(full) = 0
        BY <3>1, FS_EmptySet
      <3>3. dropped' = Cardinality(M)
        <4> HIDE DEF M, full
        <4> QED  BY <1>5, <1>10, <1>11, <3>2
      <3> QED  BY <3>1, <3>3 DEF LossesAreCounted
    <2> QED  BY <2>1, <2>2
  <1> QED  BY <1>4, <1>13

-----------------------------------------------------------------------------
\* The types.

LEMMA SubsTypes ==
    ASSUME EventsTypes, NEW s \in Subscriber, Subscribe(s) \/ Take(s) \/ Leave(s)
    PROVE  EventsTypes'
  <1> DEFINE Row == [queue : Seq(Nat), seen : Seq(Nat), since : Nat, until : Nat, here : BOOLEAN]
  <1>1. subs \in [Subscriber -> Row] /\ listed \subseteq Subscriber
    BY DEF EventsTypes
  <1>2. /\ held' = held /\ wire' = wire /\ pending' = pending /\ link' = link
        /\ wrote' = wrote /\ cut' = cut /\ published' = published /\ dropped' = dropped
    BY DEF Subscribe, Take, Leave, reader
  <1>3. Len(published) \in Nat
    BY LenProperties DEF EventsTypes
  <1>4. CASE Subscribe(s)
    <2>1. [Absent EXCEPT !.since = Len(published), !.here = TRUE] \in Row
      <3>1. << >> \in Seq(Nat)
        BY EmptySeq
      <3> QED  BY <1>3, <3>1 DEF Absent
    <2>2. subs' \in [Subscriber -> Row] /\ listed' \subseteq Subscriber
      BY <1>1, <1>4, <2>1 DEF Subscribe
    <2> QED  BY <1>2, <2>2 DEF EventsTypes
  <1>5. CASE Take(s)
    <2>1. subs[s].queue \in Seq(Nat) /\ subs[s].seen \in Seq(Nat) /\ subs[s] \in Row
      BY <1>1
    <2>2. subs[s].queue # << >>
      BY <1>5 DEF Take
    <2>3. Tail(subs[s].queue) \in Seq(Nat) /\ Append(subs[s].seen, Head(subs[s].queue)) \in Seq(Nat)
      BY <2>1, <2>2, HandedOver
    <2>4. subs' = [subs EXCEPT ![s] =
                      [subs[s] EXCEPT !.queue = Tail(subs[s].queue),
                                      !.seen = Append(subs[s].seen, Head(subs[s].queue))]]
      BY <1>1, <1>5 DEF Take
    <2>5. [subs[s] EXCEPT !.queue = Tail(subs[s].queue),
                          !.seen = Append(subs[s].seen, Head(subs[s].queue))] \in Row
      BY <2>1, <2>3
    <2>6. subs' \in [Subscriber -> Row]
      <3> HIDE DEF Row
      <3> QED  BY <1>1, <2>4, <2>5
    <2>7. listed' \subseteq Subscriber
      BY <1>1, <1>5 DEF Take
    <2> QED  BY <1>2, <2>6, <2>7 DEF EventsTypes
  <1>6. CASE Leave(s)
    <2>1. subs' \in [Subscriber -> Row] /\ listed' \subseteq Subscriber
      BY <1>1, <1>3, <1>6 DEF Leave
    <2> QED  BY <1>2, <2>1 DEF EventsTypes
  <1> QED  BY <1>4, <1>5, <1>6

LEMMA PublishTypes ==
    ASSUME EventsTypes, NEW event, NEW num \in Nat, Publish(event, num),
           [event |-> event, line |-> num] \in Published
    PROVE  /\ published' \in Seq(Published) /\ Len(published') = Len(published) + 1
           /\ \A i \in 1..Len(published) : published'[i] = published[i]
           /\ published'[Len(published) + 1] = [event |-> event, line |-> num]
           /\ dropped' \in Nat /\ listed' \subseteq Subscriber
           /\ subs' \in [Subscriber -> [queue : Seq(Nat), seen : Seq(Nat), since : Nat,
                                        until : Nat, here : BOOLEAN]]
  <1> DEFINE Row == [queue : Seq(Nat), seen : Seq(Nat), since : Nat, until : Nat, here : BOOLEAN]
             here == {s \in listed : subs[s].here}
             full == {s \in here : Full(s)}
  <1>1. /\ published' = Append(published, [event |-> event, line |-> num])
        /\ subs' = [s \in Subscriber |->
                       IF s \in here /\ ~Full(s)
                       THEN [subs[s] EXCEPT !.queue = Append(@, Len(published) + 1)]
                       ELSE subs[s]]
        /\ dropped' = dropped + Cardinality(full)
        /\ listed' = here
    BY DEF Publish
  <1>2. /\ published \in Seq(Published) /\ Len(published) \in Nat
        /\ listed \subseteq Subscriber /\ dropped \in Nat
    BY LenProperties DEF EventsTypes
  <1>3. /\ published' \in Seq(Published) /\ Len(published') = Len(published) + 1
        /\ \A i \in 1..Len(published) : published'[i] = published[i]
        /\ published'[Len(published) + 1] = [event |-> event, line |-> num]
    BY <1>1, <1>2, AppendProperties
  <1>4. Cardinality(full) \in Nat
    <2>1. full \subseteq Subscriber
      BY <1>2
    <2>2. IsFiniteSet(full)
      BY <2>1, EventsAssumption, FS_Subset
    <2> QED  BY <2>2, FS_CardinalityType
  <1>5. ASSUME NEW s \in Subscriber
        PROVE  subs'[s] \in Row
    <2>1. subs[s] \in Row
      BY DEF EventsTypes
    <2>2. Append(subs[s].queue, Len(published) + 1) \in Seq(Nat)
      <3>1. subs[s].queue \in Seq(Nat) /\ Len(published) + 1 \in Nat
        BY <1>2, <2>1
      <3> QED  BY <3>1, AppendProperties
    <2> HIDE DEF here
    <2> QED  BY <1>1, <2>1, <2>2
  <1>6. subs' \in [Subscriber -> Row]
    BY <1>1, <1>5
  <1>7. listed' \subseteq Subscriber
    BY <1>1, <1>2
  <1>8. dropped' \in Nat
    <2> HIDE DEF full
    <2> QED  BY <1>1, <1>2, <1>4
  <1> QED  BY <1>3, <1>6, <1>7, <1>8

\* What a line becomes: nothing, or an event that is published.
LEMMA LineIsPublished ==
    ASSUME EventsTypes, held # << >>, PublishLine(held), wrote' = wrote, cut' = cut
    PROVE  LET event == ParseLine(Spelt(held))
           IN  /\ published' \in Seq(Published)
               /\ dropped' \in Nat /\ listed' \subseteq Subscriber
               /\ subs' \in [Subscriber -> [queue : Seq(Nat), seen : Seq(Nat), since : Nat,
                                            until : Nat, here : BOOLEAN]]
               /\ \/ event = NoEvent /\ UNCHANGED bus
                  \/ /\ event # NoEvent /\ Publish(event, held[1].line)
                     /\ Len(published') = Len(published) + 1
                     /\ \A i \in 1..Len(published) : published'[i] = published[i]
                     /\ published'[Len(published) + 1] = [event |-> event, line |-> held[1].line]
  <1> DEFINE event == ParseLine(Spelt(held))
  <1>1. \/ event = NoEvent /\ UNCHANGED bus
        \/ event # NoEvent /\ Publish(event, held[1].line)
    BY DEF PublishLine
  <1>2. DOMAIN held = 1..Len(held) /\ Len(held) \in Nat /\ Len(held) # 0
    BY LenProperties, EmptySeq DEF EventsTypes
  <1>3. \A i \in 1..Len(held) : held[i] \in Piece
    BY ElementOfSeq DEF EventsTypes
  <1>4. held[1].line \in Nat
    BY <1>2, <1>3 DEF Piece
  <1>5. Spelt(held) \in Seq(Words)
    <2>1. \A i \in 1..Len(held) : held[i].text \in Words
      BY <1>3 DEF Piece
    <2>2. Spelt(held) = [i \in 1..Len(held) |-> held[i].text]
      BY <1>2 DEF Spelt
    <2> QED  BY <1>2, <2>1, <2>2, IsASeq
  <1>6. [event |-> event, line |-> held[1].line] \in Published
    BY <1>4, <1>5 DEF Published
  <1> HIDE DEF event
  <1>7. CASE event = NoEvent /\ UNCHANGED bus
    BY <1>7 DEF bus, EventsTypes, event
  <1>8. CASE event # NoEvent /\ Publish(event, held[1].line)
    BY <1>4, <1>6, <1>8, PublishTypes DEF event
  <1> QED  BY <1>1, <1>7, <1>8

\* The line the listener has read to its end, and that nothing broke, is the
\* line the shell wrote.
LEMMA LineAsWritten ==
    ASSUME EventsTypes, FlowHolds, held # << >>, Len(held) < Len(Flow),
           Flow[Len(held) + 1].text = Newline, held[1].line \notin cut
    PROVE  Spelt(held) = wrote[held[1].line]
  <1> DEFINE n == held[1].line
             t == wrote[n]
             h == Len(held)
  <1>1. h >= 1 /\ Flow[1] = held[1] /\ n \in 1..Len(wrote)
    BY HeldIsOneLine
  <1>2. /\ h \in Nat /\ Len(Flow) \in Nat
        /\ \A i \in 1..h : Flow[i] = held[i]
    BY FlowKnown
  <1>3. t \in ShellLines
    BY <1>1, ElementOfSeq DEF EventsTypes
  <1>4. t \in Seq(STRING) /\ Newline \notin ToSet(t)
    BY <1>3, ShellAssumption
  <1>5. Len(t) \in Nat /\ DOMAIN t = 1..Len(t)
    BY <1>4, LenProperties
  <1>6. \A k \in 1..Len(t) : t[k] # Newline
    BY <1>4, <1>5 DEF ToSet
  <1>7. 1 \in 1..Len(Flow) /\ Flow[1].line = n
    BY <1>1, <1>2
  <1>8. PICK b \in Nat : EntireAt(Flow, n, t, b)
    BY <1>1, <1>7 DEF FlowHolds, Occurs, Entire
  <1>9. \A i \in 1..h : held[i].text # Newline
    BY DEF FlowHolds
  <1> HIDE DEF n, t, h
  <1>10. b = 0
    BY <1>7, <1>8 DEF EntireAt
  <1>11. /\ Len(t) + 1 <= Len(Flow)
         /\ \A k \in 1..Len(t) : Flow[k].text = t[k]
         /\ Flow[Len(t) + 1].text = Newline
    BY <1>5, <1>8, <1>10 DEF EntireAt
  <1>12. Flow[h + 1].text = Newline
    BY DEF h
  <1>13. ~(Len(t) < h)
    <2>1. ASSUME Len(t) < h
          PROVE  FALSE
      <3>1. Len(t) + 1 \in 1..h
        BY <1>2, <1>5, <2>1
      <3> QED  BY <1>2, <1>9, <1>11, <3>1
    <2> QED  BY <2>1
  <1>14. ~(h < Len(t))
    <2>1. ASSUME h < Len(t)
          PROVE  FALSE
      <3>1. h + 1 \in 1..Len(t)
        BY <1>2, <1>5, <2>1
      <3> QED  BY <1>6, <1>11, <1>12, <3>1
    <2> QED  BY <2>1
  <1>15. Len(t) = h
    <2>1. h \in Nat /\ Len(t) \in Nat
      BY <1>2, <1>5
    <2> QED  BY <1>13, <1>14, <2>1
  <1>16. DOMAIN held = 1..h
    BY LenProperties DEF EventsTypes, h
  <1>17. Spelt(held) = [i \in 1..h |-> held[i].text]
    BY <1>16 DEF Spelt
  <1>18. \A i \in 1..h : held[i].text = t[i]
    BY <1>2, <1>11, <1>15
  <1>19. t = [i \in 1..h |-> t[i]]
    BY <1>4, <1>5, <1>15, SeqDef
  <1>20. Spelt(held) = t
    BY <1>17, <1>18, <1>19
  <1> QED  BY <1>20 DEF n, t

-----------------------------------------------------------------------------
\* The reader's steps.

LEMMA BusIdle ==
    ASSUME EventsInv, UNCHANGED bus
    PROVE  LossesAreCounted' /\ \A s \in Subscriber : SubscriberHolds(s)'
  <1>1. /\ published' = published /\ dropped' = dropped
        /\ listed' = listed /\ subs' = subs
    BY DEF bus
  <1>2. \A s \in Subscriber : Offered(s)' = Offered(s) /\ Handed(s)' = Handed(s)
    BY <1>1 DEF Offered, Handed
  <1>3. \A s \in Subscriber : Missed(s)' = Missed(s)
    BY <1>2 DEF Missed
  <1>4. {m \in Subscriber \X DOMAIN published' : m[2] \in Missed(m[1])'} =
        {m \in Subscriber \X DOMAIN published : m[2] \in Missed(m[1])}
    BY <1>1, <1>3
  <1>5. LossesAreCounted'
    BY <1>1, <1>4 DEF LossesAreCounted, EventsInv
  <1>6. ASSUME NEW s \in Subscriber
        PROVE  SubscriberHolds(s)'
    <2>1. SubscriberHolds(s)
      BY DEF EventsInv
    <2> QED  BY <1>1, <1>2, <2>1 DEF SubscriberHolds
  <1> QED  BY <1>5, <1>6

\* Lines that have a piece on its way have been begun.
LEMMA BegunLines ==
    ASSUME EventsTypes, FlowHolds
    PROVE  LinesIn(held) \cup LinesIn(wire) \cup LinesIn(pending) \subseteq 1..Len(wrote)
  <1>1. ASSUME NEW n \in LinesIn(held) \cup LinesIn(wire) \cup LinesIn(pending)
        PROVE  n \in 1..Len(wrote)
    <2>1. held \in Seq(Piece) /\ wire \in Seq(Piece) /\ pending \in Seq(Piece)
      BY DEF EventsTypes
    <2>2. Occurs(Flow, n)
      BY <1>1, <2>1, LinesAre DEF Flow
    <2> QED  BY <2>2 DEF Occurs, FlowHolds
  <1> QED  BY <1>1

\* Pieces that move on leave the flow as it was.
LEMMA SameFlow ==
    ASSUME EventsTypes, EventsTypes', FlowHolds, TurnsHold, LinesBecomeEvents,
           Flow' = Flow, wrote' = wrote, cut' = cut, published' = published
    PROVE  /\ InRows(Flow')
           /\ \A i \in 1..Len(Flow') : Flow'[i].line \in 1..Len(wrote')
           /\ \A n \in (1..Len(wrote')) \ cut' : Occurs(Flow', n) => Entire(Flow', n, wrote'[n])
           /\ TurnsHold' /\ LinesBecomeEvents'
  <1>1. Len(Flow) \in Nat
    BY FlowKnown
  <1>2. Window(Flow, Flow', 0)
    BY <1>1 DEF Window
  <1>3. InRows(Flow') /\ \A i \in 1..Len(Flow') : Flow'[i].line \in 1..Len(wrote')
    BY DEF FlowHolds
  <1>4. \A n \in (1..Len(wrote')) \ cut' : Occurs(Flow', n) => Entire(Flow', n, wrote'[n])
    BY DEF FlowHolds
  <1>5. TurnsHold' /\ LinesBecomeEvents'
    BY <1>2, NothingNew
  <1> QED  BY <1>3, <1>4, <1>5

LEMMA PutKeeps ==
    ASSUME EventsInv, Put
    PROVE  EventsTypes' /\ FlowHolds' /\ TurnsHold' /\ LinesBecomeEvents'
  <1>1. EventsTypes /\ FlowHolds /\ TurnsHold /\ LinesBecomeEvents
    BY DEF EventsInv
  <1>2. /\ link = "up" /\ pending # << >>
        /\ wire' = Append(wire, Head(pending)) /\ pending' = Tail(pending)
        /\ held' = held /\ link' = link /\ wrote' = wrote /\ cut' = cut
        /\ published' = published /\ dropped' = dropped /\ listed' = listed /\ subs' = subs
    BY DEF Put, bus
  <1>3. wire \in Seq(Piece) /\ pending \in Seq(Piece)
    BY <1>1 DEF EventsTypes
  <1>4. wire' \in Seq(Piece) /\ pending' \in Seq(Piece)
    BY <1>2, <1>3, HandedOver
  <1>5. EventsTypes'
    BY <1>1, <1>2, <1>4 DEF EventsTypes
  <1>6. Flow' = Flow
    BY <1>1, <1>2, FlowFlows DEF Flow
  <1>7. /\ InRows(Flow')
        /\ \A i \in 1..Len(Flow') : Flow'[i].line \in 1..Len(wrote')
        /\ \A n \in (1..Len(wrote')) \ cut' : Occurs(Flow', n) => Entire(Flow', n, wrote'[n])
        /\ TurnsHold' /\ LinesBecomeEvents'
    BY <1>1, <1>2, <1>5, <1>6, SameFlow
  <1>8. \A i \in 1..Len(held') : held'[i].text # Newline
    BY <1>1, <1>2 DEF FlowHolds
  <1>9. /\ link' = "up" /\ Flow' # << >> => Flow'[Len(Flow')].text = Newline
        /\ link' # "up" => pending' = << >>
        /\ link' = "down" => Flow' = << >>
    BY <1>1, <1>2, <1>6 DEF FlowHolds
  <1>10. FlowHolds'
    BY <1>7, <1>8, <1>9 DEF FlowHolds
  <1> QED  BY <1>5, <1>7, <1>10

LEMMA ReadPieceKeeps ==
    ASSUME EventsInv, ReadPiece
    PROVE  EventsTypes' /\ FlowHolds' /\ TurnsHold' /\ LinesBecomeEvents'
  <1>1. EventsTypes /\ FlowHolds /\ TurnsHold /\ LinesBecomeEvents
    BY DEF EventsInv
  <1>2. /\ link # "down" /\ wire # << >> /\ Head(wire).text # Newline
        /\ held' = Append(held, Head(wire)) /\ wire' = Tail(wire)
        /\ pending' = pending /\ link' = link /\ wrote' = wrote /\ cut' = cut
        /\ published' = published /\ dropped' = dropped /\ listed' = listed /\ subs' = subs
    BY DEF ReadPiece, bus
  <1>3. held \in Seq(Piece) /\ wire \in Seq(Piece)
    BY <1>1 DEF EventsTypes
  <1>4. held' \in Seq(Piece) /\ wire' \in Seq(Piece)
    BY <1>2, <1>3, HandedOver
  <1>5. EventsTypes'
    BY <1>1, <1>2, <1>4 DEF EventsTypes
  <1>6. Flow' = Flow
    BY <1>1, <1>2, FlowFlows DEF Flow
  <1>7. /\ InRows(Flow')
        /\ \A i \in 1..Len(Flow') : Flow'[i].line \in 1..Len(wrote')
        /\ \A n \in (1..Len(wrote')) \ cut' : Occurs(Flow', n) => Entire(Flow', n, wrote'[n])
        /\ TurnsHold' /\ LinesBecomeEvents'
    BY <1>1, <1>2, <1>5, <1>6, SameFlow
  <1>8. ASSUME NEW i \in 1..Len(held')
        PROVE  held'[i].text # Newline
    <2>1. Head(wire) \in Piece
      <3>1. Len(wire) \in Nat \ {0}
        BY <1>2, <1>3, EmptySeq
      <3>2. 1 \in 1..Len(wire)
        BY <3>1
      <3>3. wire[1] \in Piece
        BY <1>3, <3>2, ElementOfSeq
      <3> QED  BY <1>2, <1>3, <3>3, HeadTailProperties
    <2>2. /\ Len(held') = Len(held) + 1 /\ Len(held) \in Nat
          /\ \A k \in 1..Len(held) : held'[k] = held[k]
          /\ held'[Len(held) + 1] = Head(wire)
      BY <1>2, <1>3, <2>1, AppendProperties, LenProperties
    <2>3. i \in 1..Len(held) \/ i = Len(held) + 1
      BY <2>2
    <2>4. \A k \in 1..Len(held) : held[k].text # Newline
      BY <1>1 DEF FlowHolds
    <2> QED  BY <1>2, <2>2, <2>3, <2>4
  <1>9. /\ link' = "up" /\ Flow' # << >> => Flow'[Len(Flow')].text = Newline
        /\ link' # "up" => pending' = << >>
        /\ link' = "down" => Flow' = << >>
    BY <1>1, <1>2, <1>6 DEF FlowHolds
  <1>10. FlowHolds'
    BY <1>7, <1>8, <1>9 DEF FlowHolds
  <1> QED  BY <1>5, <1>7, <1>10

LEMMA ConnectKeeps ==
    ASSUME EventsInv, Connect \/ ConnectFails
    PROVE  EventsTypes' /\ FlowHolds' /\ TurnsHold' /\ LinesBecomeEvents'
  <1>1. EventsTypes /\ FlowHolds /\ TurnsHold /\ LinesBecomeEvents
    BY DEF EventsInv
  <1>2. /\ link = "down" /\ link' \in {"up", "down"}
        /\ held' = held /\ wire' = wire /\ pending' = pending /\ wrote' = wrote /\ cut' = cut
        /\ published' = published /\ dropped' = dropped /\ listed' = listed /\ subs' = subs
    BY DEF Connect, ConnectFails, bus
  <1>3. EventsTypes'
    BY <1>1, <1>2 DEF EventsTypes
  <1>4. Flow' = Flow
    BY <1>2 DEF Flow
  <1>5. /\ InRows(Flow')
        /\ \A i \in 1..Len(Flow') : Flow'[i].line \in 1..Len(wrote')
        /\ \A n \in (1..Len(wrote')) \ cut' : Occurs(Flow', n) => Entire(Flow', n, wrote'[n])
        /\ TurnsHold' /\ LinesBecomeEvents'
    BY <1>1, <1>2, <1>3, <1>4, SameFlow
  <1>6. \A i \in 1..Len(held') : held'[i].text # Newline
    BY <1>1, <1>2 DEF FlowHolds
  <1>7. Flow = << >> /\ pending = << >>
    BY <1>1, <1>2 DEF FlowHolds
  <1>8. FlowHolds'
    BY <1>2, <1>4, <1>5, <1>6, <1>7 DEF FlowHolds
  <1> QED  BY <1>3, <1>5, <1>8


LEMMA ShellLeavesKeeps ==
    ASSUME EventsInv, ShellLeaves
    PROVE  EventsTypes' /\ FlowHolds' /\ TurnsHold' /\ LinesBecomeEvents'
  <1>1. EventsTypes /\ FlowHolds /\ TurnsHold /\ LinesBecomeEvents
    BY DEF EventsInv
  <1>2. /\ link = "up" /\ link' = "closed" /\ cut' = cut \cup LinesIn(pending) /\ pending' = << >>
        /\ held' = held /\ wire' = wire /\ wrote' = wrote
        /\ published' = published /\ dropped' = dropped /\ listed' = listed /\ subs' = subs
    BY DEF ShellLeaves, bus
  <1>3. pending' \in Seq(Piece) /\ Len(pending') = 0
    BY <1>2, EmptySeq
  <1>4. LinesIn(pending) \subseteq 1..Len(wrote)
    BY <1>1, BegunLines
  <1>5. EventsTypes'
    BY <1>1, <1>2, <1>3, <1>4 DEF EventsTypes
  <1>6. /\ Len(Flow) = Len(held) + Len(wire) + Len(pending) /\ Len(Flow) \in Nat
        /\ Len(held) \in Nat /\ Len(wire) \in Nat /\ Len(pending) \in Nat
        /\ \A i \in 1..Len(held) : Flow[i] = held[i]
        /\ \A i \in 1..Len(wire) : Flow[Len(held) + i] = wire[i]
        /\ \A i \in 1..Len(pending) : Flow[Len(held) + Len(wire) + i] = pending[i]
    BY <1>1, FlowKnown
  <1>7. /\ Len(Flow') = Len(held) + Len(wire)
        /\ \A i \in 1..Len(held) : Flow'[i] = held[i]
        /\ \A i \in 1..Len(wire) : Flow'[Len(held) + i] = wire[i]
    BY <1>2, <1>3, <1>5, <1>6, FlowNext
  <1>8. ASSUME NEW i \in 1..Len(Flow')
        PROVE  Flow'[i] = Flow[0 + i]
    <2>1. CASE i <= Len(held)
      <3>1. i \in 1..Len(held) /\ 0 + i = i
        BY <1>6, <2>1
      <3> QED  BY <1>6, <1>7, <3>1
    <2>2. CASE i > Len(held)
      <3> DEFINE k == i - Len(held)
      <3>1. k \in 1..Len(wire) /\ Len(held) + k = i /\ 0 + i = i
        BY <1>6, <1>7, <2>2
      <3>2. Flow'[Len(held) + k] = wire[k] /\ Flow[Len(held) + k] = wire[k]
        BY <1>6, <1>7, <3>1
      <3> HIDE DEF k
      <3> QED  BY <3>1, <3>2
    <2>3. i <= Len(held) \/ i > Len(held)
      BY <1>6
    <2> QED  BY <2>1, <2>2, <2>3
  <1>9. Window(Flow, Flow', 0)
    BY <1>6, <1>7, <1>8 DEF Window
  <1>10. DOMAIN pending = 1..Len(pending)
    BY <1>1, LenProperties DEF EventsTypes
  <1>11. ASSUME NEW i \in 1..Len(Flow), Flow[i].line \notin cut'
         PROVE  0 < i /\ i <= 0 + Len(Flow')
    <2>1. ASSUME i > Len(held) + Len(wire)
          PROVE  FALSE
      <3> DEFINE k == i - Len(held) - Len(wire)
      <3>1. k \in 1..Len(pending) /\ Len(held) + Len(wire) + k = i
        BY <1>6, <2>1
      <3>2. Flow[i] = pending[k]
        BY <1>6, <3>1
      <3> HIDE DEF k
      <3>3. pending[k].line \in LinesIn(pending)
        BY <1>10, <3>1 DEF LinesIn
      <3> QED  BY <1>2, <1>11, <3>2, <3>3
    <2> QED  BY <1>6, <1>7, <2>1
  <1>12. /\ InRows(Flow')
         /\ \A i \in 1..Len(Flow') : Flow'[i].line \in 1..Len(wrote')
         /\ \A n \in (1..Len(wrote')) \ cut' : Occurs(Flow', n) => Entire(Flow', n, wrote'[n])
    BY <1>1, <1>2, <1>5, <1>9, <1>11, FlowShrinks
  <1>13. ASSUME NEW n \in (1..Len(wrote)) \ cut', Occurs(Flow, n)
         PROVE  Occurs(Flow', n)
    <2>1. PICK i \in 1..Len(Flow) : Flow[i].line = n
      BY <1>13 DEF Occurs
    <2>2. i <= 0 + Len(Flow')
      BY <1>11, <1>13, <2>1
    <2>3. i \in 1..Len(Flow') /\ 0 + i = i
      BY <1>6, <1>7, <2>2
    <2>4. Flow'[i] = Flow[i]
      BY <1>8, <2>3
    <2> QED  BY <2>1, <2>3, <2>4 DEF Occurs
  <1>14. TurnsHold' /\ LinesBecomeEvents'
    BY <1>1, <1>2, <1>5, <1>9, <1>13, NothingNew
  <1>15. \A i \in 1..Len(held') : held'[i].text # Newline
    BY <1>1, <1>2 DEF FlowHolds
  <1>16. FlowHolds'
    BY <1>2, <1>12, <1>15 DEF FlowHolds
  <1> QED  BY <1>5, <1>14, <1>16

LEMMA DisconnectKeeps ==
    ASSUME EventsInv, Disconnect
    PROVE  EventsTypes' /\ FlowHolds' /\ TurnsHold' /\ LinesBecomeEvents'
  <1>1. EventsTypes /\ FlowHolds /\ TurnsHold /\ LinesBecomeEvents
    BY DEF EventsInv
  <1>2. /\ link' = "down" /\ wire' = << >> /\ held' = << >> /\ pending' = << >>
        /\ cut' = cut \cup LinesIn(wire) \cup LinesIn(held) \cup LinesIn(pending)
        /\ wrote' = wrote
        /\ published' = published /\ dropped' = dropped /\ listed' = listed /\ subs' = subs
    BY DEF Disconnect, bus
  <1>3. << >> \in Seq(Piece) /\ Len(<< >>) = 0
    BY EmptySeq
  <1>4. LinesIn(held) \cup LinesIn(wire) \cup LinesIn(pending) \subseteq 1..Len(wrote)
    BY <1>1, BegunLines
  <1>5. EventsTypes'
    BY <1>1, <1>2, <1>3, <1>4 DEF EventsTypes
  <1>6. Flow' \in Seq(Piece) /\ Len(Flow') = 0
    BY <1>2, <1>3, <1>5, FlowNext
  <1>7. Flow' = << >>
    BY <1>6, EmptySeq
  <1>8. Len(Flow) \in Nat
    BY <1>1, FlowKnown
  <1>9. Window(Flow, Flow', 0) /\ \A n : ~Occurs(Flow', n)
    BY <1>6, <1>8 DEF Window, Occurs
  <1>10. /\ InRows(Flow')
         /\ \A i \in 1..Len(Flow') : Flow'[i].line \in 1..Len(wrote')
         /\ \A n \in (1..Len(wrote')) \ cut' : Occurs(Flow', n) => Entire(Flow', n, wrote'[n])
    BY <1>1, <1>2, <1>5, <1>9, FlowShrinks
  <1>11. ASSUME NEW n \in (1..Len(wrote)) \ cut', Occurs(Flow, n)
         PROVE  FALSE
    <2>1. n \in Underway
      BY <1>1, <1>5, <1>11, UnderwayIs
    <2> QED  BY <1>2, <1>11, <2>1 DEF Underway
  <1>12. TurnsHold' /\ LinesBecomeEvents'
    BY <1>1, <1>2, <1>5, <1>9, <1>11, NothingNew
  <1>13. \A i \in 1..Len(held') : held'[i].text # Newline
    BY <1>2, <1>3
  <1>14. FlowHolds'
    BY <1>2, <1>7, <1>10, <1>13 DEF FlowHolds
  <1> QED  BY <1>5, <1>12, <1>14

\* What is read, or given up, leaves the rest of the flow.
LEMMA FlowDrops ==
    ASSUME EventsTypes, EventsTypes', held' = << >>, pending' = pending,
           NEW a \in Nat,
           \/ wire' = wire /\ a = Len(held)
           \/ wire # << >> /\ wire' = Tail(wire) /\ a = Len(held) + 1
    PROVE  Window(Flow, Flow', a) /\ a + Len(Flow') = Len(Flow)
  <1>1. /\ Len(Flow) = Len(held) + Len(wire) + Len(pending) /\ Len(Flow) \in Nat
        /\ Len(held) \in Nat /\ Len(wire) \in Nat /\ Len(pending) \in Nat
        /\ \A i \in 1..Len(wire) : Flow[Len(held) + i] = wire[i]
        /\ \A i \in 1..Len(pending) : Flow[Len(held) + Len(wire) + i] = pending[i]
    BY FlowKnown
  <1>2. Len(held') = 0
    BY EmptySeq
  <1>3. /\ Len(Flow') = Len(wire') + Len(pending)
        /\ \A i \in 1..Len(wire') : Flow'[0 + i] = wire'[i]
        /\ \A i \in 1..Len(pending) : Flow'[0 + Len(wire') + i] = pending[i]
    <2>1. /\ Len(Flow') = Len(held') + Len(wire') + Len(pending')
          /\ \A i \in 1..Len(wire') : Flow'[Len(held') + i] = wire'[i]
          /\ \A i \in 1..Len(pending') : Flow'[Len(held') + Len(wire') + i] = pending'[i]
      BY FlowNext
    <2>2. wire' \in Seq(Piece)
      BY DEF EventsTypes
    <2>3. Len(wire') \in Nat
      BY <2>2, LenProperties
    <2>4. Len(Flow') = Len(wire') + Len(pending)
      BY <1>1, <1>2, <2>1, <2>3
    <2> QED  BY <1>2, <2>1, <2>4
  <1>4. PICK b \in {0, 1} :
            /\ a = Len(held) + b /\ Len(wire') = Len(wire) - b /\ Len(wire') \in Nat
            /\ \A i \in 1..Len(wire') : wire'[i] = wire[b + i]
    <2>1. CASE wire' = wire /\ a = Len(held)
      <3>1. Len(wire) - 0 = Len(wire) /\ Len(held) + 0 = Len(held) /\ \A i \in 1..Len(wire) : 0 + i = i
        BY <1>1
      <3> QED  BY <1>1, <2>1, <3>1
    <2>2. CASE wire # << >> /\ wire' = Tail(wire) /\ a = Len(held) + 1
      <3>1. wire \in Seq(Piece)
        BY DEF EventsTypes
      <3>2. /\ Tail(wire) \in Seq(Piece) /\ Len(Tail(wire)) = Len(wire) - 1
            /\ \A i \in 1..Len(Tail(wire)) : Tail(wire)[i] = wire[i + 1]
        BY <2>2, <3>1, HeadTailProperties
      <3>3. Len(Tail(wire)) \in Nat
        BY <3>2, LenProperties
      <3>4. \A i \in 1..Len(wire') : i + 1 = 1 + i
        OBVIOUS
      <3>5. Len(wire') \in Nat /\ Len(wire') = Len(wire) - 1
        BY <2>2, <3>2, <3>3
      <3>6. \A i \in 1..Len(wire') : wire'[i] = wire[1 + i]
        BY <2>2, <3>2, <3>4
      <3> QED  BY <2>2, <3>5, <3>6
    <2> QED  BY <2>1, <2>2
  <1>5. Len(Flow') \in Nat /\ a + Len(Flow') = Len(Flow)
    BY <1>1, <1>3, <1>4
  <1>6. ASSUME NEW i \in 1..Len(Flow')
        PROVE  Flow'[i] = Flow[a + i]
    <2>1. CASE i <= Len(wire')
      <3>1. i \in 1..Len(wire') /\ b + i \in 1..Len(wire) /\ Len(held) + (b + i) = a + i /\ 0 + i = i
        BY <1>1, <1>4, <2>1
      <3>2. Flow'[i] = wire'[i] /\ wire'[i] = wire[b + i]
        BY <1>3, <1>4, <3>1
      <3>3. Flow[Len(held) + (b + i)] = wire[b + i]
        BY <1>1, <3>1
      <3> QED  BY <3>1, <3>2, <3>3
    <2>2. CASE i > Len(wire')
      <3> DEFINE k == i - Len(wire')
      <3>1. /\ k \in 1..Len(pending) /\ 0 + Len(wire') + k = i
            /\ Len(held) + Len(wire) + k = a + i
        BY <1>1, <1>3, <1>4, <2>2
      <3>2. Flow'[0 + Len(wire') + k] = pending[k] /\ Flow[Len(held) + Len(wire) + k] = pending[k]
        BY <1>1, <1>3, <3>1
      <3> HIDE DEF k
      <3> QED  BY <3>1, <3>2
    <2>3. i <= Len(wire') \/ i > Len(wire')
      BY <1>4
    <2> QED  BY <2>1, <2>2, <2>3
  <1>7. a + Len(Flow') <= Len(Flow)
    <2>1. Len(Flow) \in Nat
      BY <1>1
    <2> QED  BY <1>5, <2>1
  <1> QED  BY <1>5, <1>6, <1>7 DEF Window

\* The flow ends where it ended.
LEMMA FlowEnds ==
    ASSUME EventsTypes, EventsTypes', FlowHolds, NEW a \in Nat,
           Window(Flow, Flow', a), a + Len(Flow') = Len(Flow),
           held' = << >>, pending' = pending, link' = link, link # "down",
           InRows(Flow'),
           \A i \in 1..Len(Flow') : Flow'[i].line \in 1..Len(wrote'),
           \A n \in (1..Len(wrote')) \ cut' : Occurs(Flow', n) => Entire(Flow', n, wrote'[n])
    PROVE  FlowHolds'
  <1>1. Len(Flow) \in Nat
    BY FlowKnown
  <1>2. Flow' \in Seq(Piece) /\ Len(Flow') \in Nat
    BY FlowNext
  <1>3. ASSUME link = "up", Flow' # << >>
        PROVE  Flow'[Len(Flow')].text = Newline
    <2>1. Len(Flow') # 0
      BY <1>2, <1>3, EmptySeq
    <2>2. Len(Flow') \in 1..Len(Flow') /\ Len(Flow) # 0
      BY <1>1, <1>2, <2>1
    <2>3. Flow'[Len(Flow')] = Flow[Len(Flow)]
      BY <2>2 DEF Window
    <2>4. Flow # << >>
      BY <2>2, EmptySeq
    <2> QED  BY <1>3, <2>3, <2>4 DEF FlowHolds
  <1>4. \A i \in 1..Len(held') : held'[i].text # Newline
    BY EmptySeq
  <1>5. link # "up" => pending' = << >>
    BY DEF FlowHolds
  <1> QED  BY <1>3, <1>4, <1>5 DEF FlowHolds

LEMMA ReadTimesOutKeeps ==
    ASSUME EventsInv, ReadTimesOut
    PROVE  EventsTypes' /\ FlowHolds' /\ TurnsHold' /\ LinesBecomeEvents'
  <1>1. EventsTypes /\ FlowHolds /\ TurnsHold /\ LinesBecomeEvents
    BY DEF EventsInv
  <1>2. /\ link = "up" /\ wire = << >> /\ cut' = cut \cup LinesIn(held) /\ held' = << >>
        /\ pending' = pending /\ wire' = wire /\ link' = link /\ wrote' = wrote
        /\ published' = published /\ dropped' = dropped /\ listed' = listed /\ subs' = subs
    BY DEF ReadTimesOut, bus
  <1>3. << >> \in Seq(Piece) /\ Len(<< >>) = 0
    BY EmptySeq
  <1>4. LinesIn(held) \subseteq 1..Len(wrote)
    BY <1>1, BegunLines
  <1>5. EventsTypes'
    BY <1>1, <1>2, <1>3, <1>4 DEF EventsTypes
  <1> DEFINE a == Len(held)
  <1>6. /\ a \in Nat /\ Len(Flow) \in Nat /\ DOMAIN held = 1..a
        /\ \A i \in 1..a : Flow[i] = held[i]
    BY <1>1, FlowKnown, LenProperties DEF EventsTypes
  <1>7. Window(Flow, Flow', a) /\ a + Len(Flow') = Len(Flow)
    BY <1>1, <1>2, <1>5, <1>6, FlowDrops
  <1>8. Flow' \in Seq(Piece) /\ Len(Flow') \in Nat
    BY <1>5, FlowNext
  <1>9. ASSUME NEW i \in 1..Len(Flow), Flow[i].line \notin cut'
        PROVE  a < i /\ i <= a + Len(Flow')
    <2>1. ASSUME i <= a
          PROVE  FALSE
      <3>1. i \in 1..a /\ Flow[i] = held[i]
        BY <1>6, <2>1
      <3>2. held[i].line \in LinesIn(held)
        BY <1>6, <3>1 DEF LinesIn
      <3> QED  BY <1>2, <1>9, <3>1, <3>2
    <2> HIDE DEF a
    <2> QED  BY <1>6, <1>7, <2>1
  <1>10. /\ InRows(Flow')
         /\ \A i \in 1..Len(Flow') : Flow'[i].line \in 1..Len(wrote')
         /\ \A n \in (1..Len(wrote')) \ cut' : Occurs(Flow', n) => Entire(Flow', n, wrote'[n])
    BY <1>1, <1>2, <1>5, <1>6, <1>7, <1>9, FlowShrinks
  <1>11. ASSUME NEW n \in (1..Len(wrote)) \ cut', Occurs(Flow, n)
         PROVE  Occurs(Flow', n)
    <2>1. PICK i \in 1..Len(Flow) : Flow[i].line = n
      BY <1>11 DEF Occurs
    <2>2. a < i
      BY <1>9, <1>11, <2>1
    <2> DEFINE k == i - a
    <2>3. k \in 1..Len(Flow') /\ a + k = i
      BY <1>6, <1>7, <1>8, <2>2
    <2> HIDE DEF k, a
    <2>4. Flow'[k] = Flow[i]
      BY <1>7, <2>3 DEF Window
    <2> QED  BY <2>1, <2>3, <2>4 DEF Occurs
  <1>12. TurnsHold' /\ LinesBecomeEvents'
    BY <1>1, <1>2, <1>5, <1>6, <1>7, <1>11, NothingNew
  <1>13. FlowHolds'
    BY <1>1, <1>2, <1>5, <1>6, <1>7, <1>10, FlowEnds
  <1> QED  BY <1>5, <1>12, <1>13


\* The shell begins a line: all of it comes after what is on its way.
LEMMA BeginAppends ==
    ASSUME EventsInv, NEW said \in ShellLines, Begin(said)
    PROVE  LET n == Len(wrote) + 1
               L == Len(Flow)
               m == Len(said)
           IN  /\ EventsTypes' /\ L \in Nat /\ m \in Nat
               /\ link = "up" /\ link' = link /\ held' = held
               /\ published' = published /\ cut' = cut
               /\ Len(wrote') = n /\ wrote'[n] = said
               /\ \A k \in 1..Len(wrote) : wrote'[k] = wrote[k]
               /\ Len(Flow') = L + m + 1
               /\ \A i \in 1..L : Flow'[i] = Flow[i]
               /\ \A i \in 1..(m + 1) : Flow'[L + i].line = n
               /\ \A i \in 1..m : Flow'[L + i].text = said[i] /\ said[i] # Newline
               /\ Flow'[L + m + 1].text = Newline
  <1> DEFINE n == Len(wrote) + 1
             L == Len(Flow)
             m == Len(said)
             whole == Append(said, Newline)
  <1>1. EventsTypes
    BY DEF EventsInv
  <1>2. /\ link = "up" /\ pending = << >> /\ wrote' = Append(wrote, said)
        /\ pending' = [i \in 1..(m + 1) |-> [text |-> whole[i], line |-> n]]
        /\ wire' = wire /\ held' = held /\ link' = link /\ cut' = cut
        /\ published' = published /\ dropped' = dropped /\ listed' = listed /\ subs' = subs
    BY DEF Begin, bus
  <1>3. said \in Seq(STRING) /\ Newline \notin ToSet(said)
    BY ShellAssumption
  <1>4. m \in Nat /\ DOMAIN said = 1..m
    BY <1>3, LenProperties
  <1>5. said \in Seq(Words) /\ Newline \in Words
    <2>1. STRING \subseteq Words /\ Newline \in Words
      BY DEF Words
    <2> QED  BY <1>3, <2>1, SeqMonotonic
  <1>6. /\ whole \in Seq(Words) /\ Len(whole) = m + 1
        /\ \A i \in 1..m : whole[i] = said[i]
        /\ whole[m + 1] = Newline
    BY <1>5, AppendProperties
  <1>7. \A i \in 1..m : said[i] # Newline
    BY <1>3, <1>4 DEF ToSet
  <1>8. Len(wrote) \in Nat
    BY <1>1, FlowKnown
  <1>9. ASSUME NEW i \in 1..(m + 1)
        PROVE  [text |-> whole[i], line |-> n] \in Piece
    <2>1. whole[i] \in Words
      BY <1>6, ElementOfSeq
    <2> HIDE DEF whole
    <2> QED  BY <1>8, <2>1 DEF Piece
  <1> HIDE DEF whole, n, m
  <1>10. pending' \in [1..(m + 1) -> Piece]
    BY <1>2, <1>9
  <1>11. m + 1 \in Nat
    BY <1>4
  <1>12. pending' \in Seq(Piece)
    BY <1>10, <1>11, SeqDef
  <1>13. /\ wrote' \in Seq(ShellLines) /\ Len(wrote') = n /\ wrote'[n] = said
         /\ \A k \in 1..Len(wrote) : wrote'[k] = wrote[k]
    <2>1. wrote \in Seq(ShellLines)
      BY <1>1 DEF EventsTypes
    <2> QED  BY <1>2, <2>1, AppendProperties DEF n
  <1>14. cut' \subseteq 1..Len(wrote')
    <2>1. cut \subseteq 1..Len(wrote)
      BY <1>1 DEF EventsTypes
    <2>2. 1..Len(wrote) \subseteq 1..n
      BY <1>8 DEF n
    <2> QED  BY <1>2, <1>13, <2>1, <2>2
  <1>15. EventsTypes'
    BY <1>1, <1>2, <1>12, <1>13, <1>14 DEF EventsTypes
  <1>16. /\ L = Len(held) + Len(wire) + Len(pending) /\ L \in Nat
         /\ Len(held) \in Nat /\ Len(wire) \in Nat
         /\ \A i \in 1..Len(held) : Flow[i] = held[i]
         /\ \A i \in 1..Len(wire) : Flow[Len(held) + i] = wire[i]
    BY <1>1, FlowKnown
  <1>17. Len(pending) = 0
    BY <1>2, EmptySeq
  <1>18. Len(pending') = m + 1
    <2>1. DOMAIN pending' = 1..(m + 1) /\ DOMAIN pending' = 1..Len(pending') /\ Len(pending') \in Nat
      BY <1>10, <1>12, LenProperties
    <2>2. 1..Len(pending') = 1..(m + 1)
      BY <2>1
    <2> QED  BY <1>11, <2>1, <2>2
  <1>19. /\ Len(Flow') = Len(held) + Len(wire) + (m + 1)
         /\ \A i \in 1..Len(held) : Flow'[i] = held[i]
         /\ \A i \in 1..Len(wire) : Flow'[Len(held) + i] = wire[i]
         /\ \A i \in 1..(m + 1) : Flow'[Len(held) + Len(wire) + i] = pending'[i]
    BY <1>2, <1>15, <1>18, FlowNext
  <1>20. L = Len(held) + Len(wire)
    BY <1>16, <1>17
  <1>21. Len(Flow') = L + m + 1
    <2>1. Len(held) \in Nat /\ Len(wire) \in Nat /\ L \in Nat
      BY <1>16
    <2>2. Len(Flow') = Len(held) + Len(wire) + (m + 1)
      BY <1>19
    <2> HIDE DEF L
    <2> QED  BY <1>4, <1>20, <2>1, <2>2
  <1>22. ASSUME NEW i \in 1..L
         PROVE  Flow'[i] = Flow[i]
    <2>1. CASE i <= Len(held)
      <3>1. i \in 1..Len(held)
        BY <1>16, <2>1
      <3> QED  BY <1>16, <1>19, <3>1
    <2>2. CASE i > Len(held)
      <3> DEFINE k == i - Len(held)
      <3>1. k \in 1..Len(wire) /\ Len(held) + k = i
        BY <1>16, <1>20, <2>2
      <3>2. Flow'[Len(held) + k] = wire[k] /\ Flow[Len(held) + k] = wire[k]
        BY <1>16, <1>19, <3>1
      <3> HIDE DEF k
      <3> QED  BY <3>1, <3>2
    <2>3. i <= Len(held) \/ i > Len(held)
      BY <1>16
    <2> QED  BY <2>1, <2>2, <2>3
  <1> HIDE DEF L
  <1>23. ASSUME NEW i \in 1..(m + 1)
         PROVE  Flow'[L + i].text = whole[i] /\ Flow'[L + i].line = n
    <2>1. Flow'[L + i] = pending'[i]
      BY <1>19, <1>20
    <2>2. pending'[i] = [text |-> whole[i], line |-> n]
      BY <1>2
    <2> QED  BY <2>1, <2>2
  <1>24. \A i \in 1..(m + 1) : Flow'[L + i].line = n
    BY <1>23
  <1>25. \A i \in 1..m : Flow'[L + i].text = said[i] /\ said[i] # Newline
    <2>1. \A i \in 1..m : i \in 1..(m + 1)
      BY <1>4
    <2> QED  BY <1>6, <1>7, <1>23, <2>1
  <1>26. Flow'[L + m + 1].text = Newline
    <2>1. m + 1 \in 1..(m + 1) /\ L + (m + 1) = L + m + 1
      BY <1>4, <1>16
    <2> QED  BY <1>6, <1>23, <2>1
  <1> QED  BY <1>2, <1>4, <1>13, <1>15, <1>16, <1>21, <1>22, <1>24, <1>25, <1>26 DEF n, L, m

LEMMA BeginKeeps ==
    ASSUME EventsInv, NEW said \in ShellLines, Begin(said)
    PROVE  EventsTypes' /\ FlowHolds' /\ TurnsHold' /\ LinesBecomeEvents'
  <1> DEFINE n == Len(wrote) + 1
             L == Len(Flow)
             m == Len(said)
             g == Flow'
  <1>1. EventsTypes /\ FlowHolds /\ TurnsHold /\ LinesBecomeEvents
    BY DEF EventsInv
  <1>2. /\ EventsTypes' /\ L \in Nat /\ m \in Nat
        /\ link = "up" /\ link' = link /\ held' = held
        /\ published' = published /\ cut' = cut
        /\ Len(wrote') = n /\ wrote'[n] = said
        /\ \A k \in 1..Len(wrote) : wrote'[k] = wrote[k]
    BY BeginAppends
  <1>3. /\ Len(g) = L + m + 1
        /\ \A i \in 1..L : g[i] = Flow[i]
        /\ \A i \in 1..(m + 1) : g[L + i].line = n
        /\ \A i \in 1..m : g[L + i].text = said[i] /\ said[i] # Newline
        /\ g[L + m + 1].text = Newline
    BY BeginAppends
  <1>4. Len(wrote) \in Nat /\ Len(published) \in Nat
    BY <1>1, FlowKnown
  <1>5. n \in Nat /\ n > Len(wrote)
    BY <1>4
  <1>6. \A i \in 1..L : Flow[i].line \in 1..Len(wrote)
    BY <1>1 DEF FlowHolds
  <1>7. InRows(Flow) /\ (Flow # << >> => Flow[L].text = Newline)
    BY <1>1, <1>2 DEF FlowHolds
  <1>8. L > 0 => Flow[L].text = Newline
    <2>1. L > 0 => Flow # << >>
      BY EmptySeq
    <2> QED  BY <1>7, <2>1
  <1>9. Len(g) \in Nat
    BY <1>2, <1>3
  <1>10. \A i \in 1..Len(wrote) : i \in 1..n /\ i # n /\ i < n
    BY <1>4
  <1>11. n \in 1..n
    BY <1>5
  <1> HIDE DEF n, L, m, g
  <1>12. ASSUME NEW i \in 1..Len(g)
         PROVE  \/ i \in 1..L
                \/ i > L /\ i - L \in 1..(m + 1) /\ L + (i - L) = i
    BY <1>2, <1>3, <1>9
  <1>13. ASSUME NEW i \in 1..Len(g)
         PROVE  \/ i \in 1..L /\ g[i] = Flow[i] /\ g[i].line \in 1..Len(wrote)
                \/ i > L /\ g[i].line = n
    BY <1>3, <1>6, <1>12
  <1>14. ASSUME NEW i \in 1..Len(g), NEW j \in 1..Len(g), i <= j
         PROVE  g[i].line <= g[j].line
    <2>1. CASE j \in 1..L
      <3>1. i \in 1..L
        BY <1>2, <1>14, <2>1
      <3> QED  BY <1>3, <1>7, <1>14, <2>1, <3>1 DEF InRows, L
    <2>2. CASE j \notin 1..L
      <3>1. g[j].line = n
        BY <1>13, <2>2
      <3>2. g[i].line \in 1..Len(wrote) \/ g[i].line = n
        BY <1>13
      <3> QED  BY <1>4, <1>5, <3>1, <3>2
    <2> QED  BY <2>1, <2>2
  <1>15. ASSUME NEW i \in 1..Len(g), NEW j \in 1..Len(g), i < j
         PROVE  g[i].line = g[j].line <=> \A k \in i..(j - 1) : g[k].text # Newline
    <2>1. CASE j \in 1..L
      <3>1. i \in 1..L
        BY <1>2, <1>15, <2>1
      <3>2. \A k \in i..(j - 1) : k \in 1..L
        BY <1>2, <2>1, <3>1
      <3>3. g[i] = Flow[i] /\ g[j] = Flow[j] /\ \A k \in i..(j - 1) : g[k] = Flow[k]
        BY <1>3, <2>1, <3>1, <3>2
      <3>4. Flow[i].line = Flow[j].line <=> \A k \in i..(j - 1) : Flow[k].text # Newline
        BY <1>7, <1>15, <2>1, <3>1 DEF InRows, L
      <3> QED  BY <3>3, <3>4
    <2>2. CASE j \notin 1..L /\ i \in 1..L
      <3>1. g[j].line = n /\ g[i].line \in 1..Len(wrote)
        BY <1>2, <1>13, <2>2
      <3>2. g[i].line # g[j].line
        BY <1>10, <3>1
      <3>3. L \in i..(j - 1) /\ L \in 1..L /\ L > 0
        BY <1>2, <1>9, <1>15, <2>2
      <3>4. g[L].text = Newline
        BY <1>3, <1>8, <3>3
      <3> QED  BY <3>2, <3>3, <3>4
    <2>3. CASE j \notin 1..L /\ i \notin 1..L
      <3>1. g[j].line = n /\ g[i].line = n
        BY <1>13, <2>3
      <3>2. ASSUME NEW k \in i..(j - 1)
            PROVE  g[k].text # Newline
        <4>1. k - L \in 1..m /\ L + (k - L) = k
          BY <1>2, <1>3, <1>9, <2>3
        <4>2. g[L + (k - L)].text = said[k - L] /\ said[k - L] # Newline
          BY <1>3, <4>1
        <4> QED  BY <4>1, <4>2
      <3> QED  BY <3>1, <3>2
    <2> QED  BY <2>1, <2>2, <2>3
  <1>16. InRows(g)
    BY <1>14, <1>15 DEF InRows
  <1>17. \A i \in 1..Len(g) : g[i].line \in 1..n
    BY <1>10, <1>11, <1>13
  <1>18. ASSUME NEW k \in (1..n) \ cut, Occurs(g, k)
         PROVE  Entire(g, k, wrote'[k])
    <2>1. CASE k = n
      <3>1. L + m + 1 <= Len(g)
        BY <1>3, <1>9
      <3>2. ASSUME NEW i \in 1..Len(g)
            PROVE  g[i].line = n <=> L < i /\ i <= L + m + 1
        <4>1. CASE i \in 1..L
          <5>1. g[i].line # n
            BY <1>3, <1>6, <1>10, <4>1
          <5>2. ~(L < i)
            BY <1>2, <4>1
          <5> QED  BY <5>1, <5>2
        <4>2. CASE i \notin 1..L
          <5>1. g[i].line = n /\ L < i
            BY <1>13, <4>2
          <5>2. i <= L + m + 1
            BY <1>3
          <5> QED  BY <5>1, <5>2
        <4> QED  BY <4>1, <4>2
      <3>3. EntireAt(g, n, said, L)
        BY <1>3, <3>1, <3>2 DEF EntireAt, m
      <3> QED  BY <1>2, <2>1, <3>3 DEF Entire
    <2>2. CASE k # n
      <3>1. k \in (1..Len(wrote)) \ cut
        BY <1>4, <2>2 DEF n
      <3>2. Occurs(Flow, k)
        <4>1. PICK i \in 1..Len(g) : g[i].line = k
          BY <1>18 DEF Occurs
        <4>2. i \in 1..L /\ Flow[i].line = k
          BY <1>13, <2>2, <4>1
        <4> QED  BY <4>2 DEF Occurs, L
      <3>3. PICK b \in Nat : EntireAt(Flow, k, wrote[k], b)
        BY <1>1, <3>1, <3>2 DEF FlowHolds, Entire
      <3> DEFINE t == wrote[k]
      <3>4. t \in Seq(STRING)
        <4>1. t \in ShellLines
          BY <1>1, <3>1, ElementOfSeq DEF EventsTypes
        <4> QED  BY <4>1, ShellAssumption
      <3>5. Len(t) \in Nat
        BY <3>4, LenProperties
      <3>6. wrote'[k] = t
        BY <1>2, <3>1
      <3> HIDE DEF t
      <3>7. EntireAt(Flow, k, t, b)
        BY <3>3 DEF t
      <3>8. b + Len(t) + 1 <= L
        BY <3>7 DEF EntireAt, L
      <3>9. b + Len(t) + 1 <= Len(g)
        BY <1>2, <1>3, <1>9, <3>5, <3>8
      <3>10. ASSUME NEW i \in 1..Len(g)
             PROVE  g[i].line = k <=> b < i /\ i <= b + Len(t) + 1
        <4>1. CASE i \in 1..L
          BY <1>3, <3>7, <4>1 DEF EntireAt, L
        <4>2. CASE i \notin 1..L
          <5>1. g[i].line = n /\ i > L
            BY <1>13, <4>2
          <5>2. ~(i <= b + Len(t) + 1)
            BY <1>2, <3>5, <3>8, <5>1
          <5> QED  BY <2>2, <5>1, <5>2
        <4> QED  BY <4>1, <4>2
      <3>11. ASSUME NEW i \in 1..Len(t)
             PROVE  g[b + i].text = t[i]
        <4>1. b + i \in 1..L
          BY <1>2, <3>5, <3>8
        <4> QED  BY <1>3, <3>7, <4>1 DEF EntireAt
      <3>12. g[b + Len(t) + 1].text = Newline
        <4>1. b + Len(t) + 1 \in 1..L
          BY <1>2, <3>5, <3>8
        <4> QED  BY <1>3, <3>7, <4>1 DEF EntireAt
      <3>13. EntireAt(g, k, t, b)
        BY <3>9, <3>10, <3>11, <3>12 DEF EntireAt
      <3> QED  BY <3>6, <3>13 DEF Entire
    <2> QED  BY <2>1, <2>2
  <1>19. FlowHolds'
    <2>1. Len(g) = L + m + 1 /\ g[Len(g)].text = Newline
      BY <1>3
    <2>2. \A i \in 1..Len(held') : held'[i].text # Newline
      BY <1>1, <1>2 DEF FlowHolds
    <2> QED  BY <1>2, <1>16, <1>17, <1>18, <2>1, <2>2 DEF FlowHolds, g
  <1>20. TurnsHold'
    <2>1. \A i \in 1..Len(published) : published[i].line \in 1..Len(wrote)
      BY <1>1 DEF TurnsHold
    <2>2. \A i \in 1..Len(published) : published[i].line \in 1..n
      BY <1>10, <2>1
    <2>3. ASSUME NEW i \in 1..Len(published), NEW j \in 1..Len(g)
          PROVE  \/ published[i].line < g[j].line
                 \/ published[i].line = g[j].line /\ published[i].line \in cut
      <3>1. CASE j \in 1..L
        <4>1. g[j] = Flow[j]
          BY <1>3, <3>1
        <4> QED  BY <1>1, <3>1, <4>1 DEF TurnsHold, L
      <3>2. CASE j \notin 1..L
        BY <1>10, <1>13, <2>1, <3>2
      <3> QED  BY <3>1, <3>2
    <2> QED  BY <1>2, <2>2, <2>3 DEF TurnsHold, g
  <1>21. DOMAIN published = 1..Len(published) /\ DOMAIN wrote = 1..Len(wrote)
    BY <1>1, LenProperties DEF EventsTypes
  <1>22. DOMAIN wrote' = 1..n
    <2>1. wrote' \in Seq(ShellLines)
      BY <1>2 DEF EventsTypes
    <2> QED  BY <1>2, <2>1, LenProperties
  <1>23. LinesBecomeEvents'
    <2>1. \A i \in DOMAIN published :
              published[i].line \in cut \/ published[i].event = ParseLine(wrote'[published[i].line])
      <3>1. \A i \in DOMAIN published : published[i].line \in 1..Len(wrote)
        BY <1>1, <1>21 DEF TurnsHold
      <3> QED  BY <1>1, <1>2, <3>1 DEF LinesBecomeEvents
    <2>2. \A i, j \in DOMAIN published :
              i < j => \/ published[i].line < published[j].line
                       \/ published[i].line = published[j].line /\ published[i].line \in cut
      BY <1>1 DEF LinesBecomeEvents
    <2>3. ASSUME NEW k \in 1..n, k \notin cut \cup Underway'
          PROVE  ~Noise(wrote'[k]) <=> (\E i \in DOMAIN published : published[i].line = k)
      <3>1. ~Occurs(g, k)
        BY <1>1, <1>2, <2>3, UnderwayIs DEF g
      <3>2. k # n
        <4>1. L + 1 \in 1..Len(g) /\ 1 \in 1..(m + 1)
          BY <1>2, <1>3, <1>9
        <4>2. g[L + 1].line = n
          BY <1>3, <4>1
        <4> QED  BY <3>1, <4>1, <4>2 DEF Occurs
      <3>3. k \in 1..Len(wrote)
        BY <1>4, <3>2 DEF n
      <3>4. ASSUME Occurs(Flow, k)
            PROVE  FALSE
        <4>1. PICK i \in 1..L : Flow[i].line = k
          BY <3>4 DEF Occurs, L
        <4>2. i \in 1..Len(g)
          BY <1>2, <1>3, <1>9
        <4>3. g[i].line = k
          BY <1>3, <4>1
        <4> QED  BY <3>1, <4>2, <4>3 DEF Occurs
      <3>5. k \notin Underway
        BY <1>1, <1>2, <3>4, UnderwayIs
      <3>6. ~Noise(wrote[k]) <=> (\E i \in DOMAIN published : published[i].line = k)
        BY <1>1, <1>21, <2>3, <3>3, <3>5 DEF LinesBecomeEvents
      <3> QED  BY <1>2, <3>3, <3>6
    <2> QED  BY <1>2, <1>22, <2>1, <2>2, <2>3 DEF LinesBecomeEvents
  <1> QED  BY <1>1, <1>2, <1>19, <1>20, <1>23


\* A line that becomes an event is the first on its way; what it becomes is what
\* the shell wrote, unless it was cut.
LEMMA OnePublished ==
    ASSUME EventsTypes, EventsTypes', FlowHolds, TurnsHold, LinesBecomeEvents,
           NEW a \in Nat, Window(Flow, Flow', a), wrote' = wrote, cut' = cut,
           NEW event, NEW n \in 1..Len(wrote), 1 <= Len(Flow), Flow[1].line = n,
           Len(published') = Len(published) + 1,
           \A i \in 1..Len(published) : published'[i] = published[i],
           published'[Len(published) + 1] = [event |-> event, line |-> n],
           n \notin cut => /\ event = ParseLine(wrote[n]) /\ ~Noise(wrote[n])
                           /\ \A j \in 1..Len(Flow') : Flow'[j].line # n,
           \A m \in (1..Len(wrote)) \ (cut \cup {n}) : Occurs(Flow, m) => Occurs(Flow', m)
    PROVE  TurnsHold' /\ LinesBecomeEvents'
  <1> DEFINE P == Len(published)
  <1>1. Len(Flow) \in Nat /\ Len(wrote) \in Nat /\ P \in Nat
    BY FlowKnown
  <1>2. Len(Flow') \in Nat
    BY FlowNext
  <1>3. /\ DOMAIN published = 1..P /\ DOMAIN wrote = 1..Len(wrote)
        /\ DOMAIN published' = 1..Len(published')
    BY LenProperties DEF EventsTypes
  <1>4. DOMAIN published' = 1..(P + 1)
    BY <1>3
  <1>5. \A j \in 1..Len(Flow') : a + j \in 1..Len(Flow) /\ Flow'[j] = Flow[a + j]
    BY <1>1, <1>2 DEF Window
  <1>6. published'[P + 1].line = n /\ published'[P + 1].event = event
    OBVIOUS
  <1>7. ASSUME NEW i \in 1..P
        PROVE  /\ published[i].line \in 1..Len(wrote)
               /\ published[i].line < n \/ (published[i].line = n /\ n \in cut)
    <2>1. 1 \in 1..Len(Flow)
      BY <1>1
    <2>2. published[i].line < Flow[1].line \/ (published[i].line = Flow[1].line /\ published[i].line \in cut)
      BY <2>1 DEF TurnsHold
    <2>3. published[i].line \in 1..Len(wrote)
      BY DEF TurnsHold
    <2> QED  BY <2>2, <2>3
  <1>8. ASSUME NEW j \in 1..Len(Flow')
        PROVE  n < Flow'[j].line \/ (n = Flow'[j].line /\ n \in cut)
    <2>1. a + j \in 1..Len(Flow) /\ 1 \in 1..Len(Flow) /\ 1 <= a + j
      BY <1>1, <1>5
    <2>2. Flow[1].line <= Flow[a + j].line
      BY <2>1 DEF FlowHolds, InRows
    <2>3. Flow[a + j].line \in 1..Len(wrote)
      BY <2>1 DEF FlowHolds
    <2>4. n \in Nat /\ Flow'[j].line \in Nat /\ n <= Flow'[j].line
      BY <1>1, <1>5, <2>2, <2>3
    <2>5. CASE n \in cut
      BY <2>4, <2>5
    <2>6. CASE n \notin cut
      <3>1. Flow'[j].line # n
        BY <2>6
      <3> QED  BY <2>4, <3>1
    <2> QED  BY <2>5, <2>6
  <1> HIDE DEF P
  <1>9. ASSUME NEW i \in 1..(P + 1)
        PROVE  (i \in 1..P /\ published'[i] = published[i]) \/ i = P + 1
    <2>1. i \in 1..P \/ i = P + 1
      BY <1>1
    <2> QED  BY <2>1 DEF P
  <1>10. TurnsHold'
    <2>1. ASSUME NEW i \in 1..(P + 1)
          PROVE  published'[i].line \in 1..Len(wrote)
      BY <1>6, <1>7, <1>9
    <2>2. ASSUME NEW i \in 1..(P + 1), NEW j \in 1..Len(Flow')
          PROVE  \/ published'[i].line < Flow'[j].line
                 \/ published'[i].line = Flow'[j].line /\ published'[i].line \in cut
      <3>1. CASE i \in 1..P /\ published'[i] = published[i]
        <4>1. \/ published[i].line < Flow[a + j].line
              \/ published[i].line = Flow[a + j].line /\ published[i].line \in cut
          BY <1>5, <3>1 DEF TurnsHold, P
        <4> QED  BY <1>5, <3>1, <4>1
      <3>2. CASE i = P + 1
        BY <1>6, <1>8, <3>2
      <3> QED  BY <1>9, <3>1, <3>2
    <2> QED  BY <2>1, <2>2 DEF TurnsHold, P
  <1>11. ASSUME NEW i \in 1..(P + 1)
         PROVE  published'[i].line \in cut \/ published'[i].event = ParseLine(wrote[published'[i].line])
    <2>1. CASE i \in 1..P /\ published'[i] = published[i]
      BY <1>3, <2>1 DEF LinesBecomeEvents
    <2>2. CASE i = P + 1
      BY <1>6, <2>2
    <2> QED  BY <1>9, <2>1, <2>2
  <1>12. ASSUME NEW i \in 1..(P + 1), NEW j \in 1..(P + 1), i < j
         PROVE  \/ published'[i].line < published'[j].line
                \/ published'[i].line = published'[j].line /\ published'[i].line \in cut
    <2>1. i \in 1..P /\ published'[i] = published[i]
      <3>1. i # P + 1
        BY <1>1, <1>12
      <3> QED  BY <1>9, <3>1
    <2>2. CASE j \in 1..P /\ published'[j] = published[j]
      BY <1>3, <1>12, <2>1, <2>2 DEF LinesBecomeEvents
    <2>3. CASE j = P + 1
      BY <1>6, <1>7, <2>1, <2>3
    <2> QED  BY <1>9, <2>2, <2>3
  <1>13. ASSUME NEW m \in 1..Len(wrote), m \notin cut \cup Underway'
         PROVE  ~Noise(wrote[m]) <=> (\E i \in 1..(P + 1) : published'[i].line = m)
    <2>1. ~Occurs(Flow', m)
      BY <1>13, UnderwayIs
    <2>2. P + 1 \in 1..(P + 1) /\ 1..P \subseteq 1..(P + 1)
      BY <1>1
    <2>3. CASE m = n
      <3>1. ~Noise(wrote[m])
        BY <1>13, <2>3
      <3>2. \E i \in 1..(P + 1) : published'[i].line = m
        BY <1>6, <2>2, <2>3
      <3> QED  BY <3>1, <3>2
    <2>4. CASE m # n
      <3>1. ~Occurs(Flow, m)
        BY <1>13, <2>1, <2>4
      <3>2. m \notin cut \cup Underway
        BY <1>13, <3>1, UnderwayIs
      <3>3. ~Noise(wrote[m]) <=> (\E i \in 1..P : published[i].line = m)
        <4>1. DOMAIN published = 1..P /\ m \in DOMAIN wrote
          BY <1>3
        <4>2. ~Noise(wrote[m]) <=> (\E i \in DOMAIN published : published[i].line = m)
          BY <3>2, <4>1 DEF LinesBecomeEvents
        <4> QED  BY <4>1, <4>2
      <3>4. (\E i \in 1..P : published[i].line = m) => (\E i \in 1..(P + 1) : published'[i].line = m)
        BY <2>2 DEF P
      <3>5. (\E i \in 1..(P + 1) : published'[i].line = m) => (\E i \in 1..P : published[i].line = m)
        BY <1>6, <1>9, <2>4
      <3> QED  BY <3>3, <3>4, <3>5
    <2> QED  BY <2>3, <2>4
  <1>14. LinesBecomeEvents'
    <2>1. \A i \in DOMAIN published' :
             published'[i].line \in cut' \/ published'[i].event = ParseLine(wrote'[published'[i].line])
      BY <1>4, <1>11
    <2>2. \A i, j \in DOMAIN published' :
             i < j => \/ published'[i].line < published'[j].line
                      \/ published'[i].line = published'[j].line /\ published'[i].line \in cut'
      BY <1>4, <1>12
    <2>3. ASSUME NEW m \in DOMAIN wrote', m \notin cut' \cup Underway'
          PROVE  ~Noise(wrote'[m]) <=> (\E i \in DOMAIN published' : published'[i].line = m)
      <3>1. m \in 1..Len(wrote) /\ m \notin cut \cup Underway'
        BY <1>3, <2>3
      <3>2. ~Noise(wrote[m]) <=> (\E i \in 1..(P + 1) : published'[i].line = m)
        BY <1>13, <3>1
      <3> QED  BY <1>4, <3>2
    <2> QED  BY <2>1, <2>2, <2>3 DEF LinesBecomeEvents
  <1> QED  BY <1>10, <1>14

\* A blank line publishes nothing.
LEMMA BlankLine ==
    ASSUME held = << >>, PublishLine(held)
    PROVE  UNCHANGED bus
  <1>1. Spelt(<< >>) = << >>
    <2>1. DOMAIN << >> = {}
      BY EmptySeq
    <2>2. Spelt(<< >>) = [i \in {} |-> << >>[i].text]
      BY <2>1 DEF Spelt
    <2>3. << >> = [i \in {} |-> << >>[i].text]
      BY SeqDef
    <2> QED  BY <2>2, <2>3
  <1>2. ParseLine(<< >>) = NoEvent
    BY DEF ParseLine
  <1> QED  BY <1>1, <1>2 DEF PublishLine

LEMMA ReadLineTypes ==
    ASSUME EventsTypes, held' = << >>, wire' = wire \/ (wire # << >> /\ wire' = Tail(wire)),
           pending' = pending, link' = link, wrote' = wrote, cut' = cut,
           IF held = << >> THEN UNCHANGED bus ELSE PublishLine(held)
    PROVE  EventsTypes'
  <1>1. held' \in Seq(Piece)
    BY EmptySeq
  <1>2. wire' \in Seq(Piece)
    <2>1. wire \in Seq(Piece)
      BY DEF EventsTypes
    <2>2. wire # << >> => Tail(wire) \in Seq(Piece)
      BY <2>1, HeadTailProperties
    <2> QED  BY <2>1, <2>2
  <1>3. /\ published' \in Seq(Published)
        /\ dropped' \in Nat /\ listed' \subseteq Subscriber
        /\ subs' \in [Subscriber -> [queue : Seq(Nat), seen : Seq(Nat), since : Nat,
                                     until : Nat, here : BOOLEAN]]
    <2>1. CASE held = << >>
      BY <2>1 DEF bus, EventsTypes
    <2>2. CASE held # << >>
      BY <2>2, LineIsPublished
    <2> QED  BY <2>1, <2>2
  <1> QED  BY <1>1, <1>2, <1>3 DEF EventsTypes


\* A line that was read as it was written is an event if it is not noise.
LEMMA EventOfLine ==
    ASSUME EventsTypes, Utf8, NEW n \in 1..Len(wrote), Spelt(held) = wrote[n]
    PROVE  IF ParseLine(Spelt(held)) = NoEvent
           THEN Noise(wrote[n])
           ELSE ~Noise(wrote[n]) /\ ParseLine(Spelt(held)) = ParseLine(wrote[n])
  <1> DEFINE t == wrote[n]
  <1>4. Garbled \notin ToSet(t)
    <2>1. DOMAIN Spelt(held) = DOMAIN held /\ \A i \in DOMAIN held : Spelt(held)[i] = held[i].text
      BY DEF Spelt
    <2>2. ToSet(Spelt(held)) = {held[i].text : i \in DOMAIN held}
      BY <2>1 DEF ToSet
    <2> QED  BY <2>2 DEF Utf8
  <1> QED  BY <1>4 DEF Noise

\* A line nothing broke begins with a word, or is blank.
LEMMA BeginsWithWord ==
    ASSUME EventsTypes, FlowHolds, 1 <= Len(Flow), Flow[1].text = Newline
    PROVE  Flow[1].line \in cut \/ Noise(wrote[Flow[1].line])
  <1> DEFINE n == Flow[1].line
             t == wrote[n]
  <1>1. Len(Flow) \in Nat
    BY FlowKnown
  <1>2. 1 \in 1..Len(Flow)
    BY <1>1
  <1>3. n \in 1..Len(wrote) /\ Occurs(Flow, n)
    BY <1>2 DEF FlowHolds, Occurs
  <1>12. ParseLine(<< >>) = NoEvent
    BY DEF ParseLine
  <1>13. t = << >> => Noise(t)
    BY <1>12 DEF Noise
  <1>4. SUFFICES ASSUME n \notin cut, t # << >>
                 PROVE  FALSE
    BY <1>13
  <1>5. PICK b \in Nat : EntireAt(Flow, n, t, b)
    BY <1>3, <1>4 DEF FlowHolds, Entire
  <1>6. t \in ShellLines
    BY <1>3, ElementOfSeq DEF EventsTypes
  <1>7. t \in Seq(STRING) /\ Newline \notin ToSet(t)
    BY <1>6, ShellAssumption
  <1>8. Len(t) \in Nat \ {0} /\ DOMAIN t = 1..Len(t)
    BY <1>4, <1>7, EmptySeq, LenProperties
  <1>9. 1 \in 1..Len(t) /\ t[1] # Newline
    BY <1>7, <1>8 DEF ToSet
  <1> HIDE DEF t
  <1>10. b = 0
    BY <1>2, <1>5 DEF EntireAt
  <1>11. Flow[b + 1].text = t[1]
    BY <1>5, <1>9 DEF EntireAt
  <1> QED  BY <1>9, <1>10, <1>11

LEMMA ReadLineKeeps ==
    ASSUME EventsInv, ReadLine
    PROVE  EventsTypes' /\ FlowHolds' /\ TurnsHold' /\ LinesBecomeEvents'
  <1>1. EventsTypes /\ FlowHolds /\ TurnsHold /\ LinesBecomeEvents
    BY DEF EventsInv
  <1>2. /\ link # "down" /\ wire # << >> /\ Head(wire).text = Newline /\ Utf8
        /\ held' = << >> /\ wire' = Tail(wire)
        /\ pending' = pending /\ link' = link /\ wrote' = wrote /\ cut' = cut
        /\ IF held = << >> THEN UNCHANGED bus ELSE PublishLine(held)
    BY BlankLine DEF ReadLine
  <1>3. EventsTypes'
    BY <1>1, <1>2, ReadLineTypes
  <1> DEFINE h == Len(held)
             a == h + 1
  <1>4. /\ h \in Nat /\ Len(Flow) \in Nat /\ Len(wire) \in Nat /\ Len(pending) \in Nat
        /\ Len(Flow) = h + Len(wire) + Len(pending)
        /\ \A i \in 1..h : Flow[i] = held[i]
        /\ \A i \in 1..Len(wire) : Flow[h + i] = wire[i]
    BY <1>1, FlowKnown
  <1>5. a \in Nat
    BY <1>4
  <1>6. Window(Flow, Flow', a) /\ a + Len(Flow') = Len(Flow)
    BY <1>1, <1>2, <1>3, <1>5, FlowDrops
  <1>7. Len(Flow') \in Nat
    BY <1>3, FlowNext
  <1>8. a <= Len(Flow) /\ Flow[a].text = Newline
    <2>1. wire \in Seq(Piece)
      BY <1>1 DEF EventsTypes
    <2>2. Len(wire) \in Nat \ {0} /\ Head(wire) = wire[1]
      BY <1>2, <2>1, EmptySeq, HeadTailProperties
    <2>3. 1 \in 1..Len(wire)
      BY <2>2
    <2>4. Flow[h + 1] = wire[1]
      BY <1>4, <2>3
    <2> QED  BY <1>2, <1>4, <2>2, <2>4
  <1> HIDE DEF a, h
  \* What remains of the flow is of other lines than the one read.
  <1>9. ASSUME NEW i \in 1..Len(Flow), NEW k \in 1..Len(Flow), i <= a, a < k
        PROVE  Flow[i].line # Flow[k].line
    <2>1. i < k /\ a \in i..(k - 1)
      BY <1>4, <1>5, <1>9
    <2>2. Flow[i].line = Flow[k].line <=> \A z \in i..(k - 1) : Flow[z].text # Newline
      BY <1>1, <2>1 DEF FlowHolds, InRows
    <2> QED  BY <1>8, <2>1, <2>2
  <1>10. ASSUME NEW j \in 1..Len(Flow')
         PROVE  a + j \in 1..Len(Flow) /\ a < a + j /\ Flow'[j] = Flow[a + j]
    <2>1. a + j \in 1..Len(Flow) /\ a < a + j
      BY <1>4, <1>5, <1>6, <1>7
    <2> QED  BY <1>6, <2>1 DEF Window
  <1>11. ASSUME NEW n, Occurs(Flow', n), NEW i \in 1..Len(Flow), Flow[i].line = n
         PROVE  a < i /\ i <= a + Len(Flow')
    <2>1. PICK j \in 1..Len(Flow') : Flow'[j].line = n
      BY <1>11 DEF Occurs
    <2>2. ~(i <= a)
      BY <1>9, <1>10, <1>11, <2>1
    <2>3. i <= a + Len(Flow')
      BY <1>6
    <2> QED  BY <1>4, <1>5, <2>2, <2>3
  <1>12. /\ InRows(Flow')
         /\ \A i \in 1..Len(Flow') : Flow'[i].line \in 1..Len(wrote')
         /\ \A n \in (1..Len(wrote')) \ cut' : Occurs(Flow', n) => Entire(Flow', n, wrote'[n])
    BY <1>1, <1>2, <1>3, <1>5, <1>6, <1>11, FlowShrinks
  <1>13. FlowHolds'
    BY <1>1, <1>2, <1>3, <1>5, <1>6, <1>12, FlowEnds
  \* The pieces read are all of one line.
  <1>14. 1 <= Len(Flow) /\ 1 \in 1..Len(Flow)
    BY <1>4, <1>5, <1>8 DEF a
  <1> DEFINE n == Flow[1].line
  <1>15. n \in 1..Len(wrote)
    BY <1>1, <1>14 DEF FlowHolds
  <1>16. ASSUME NEW i \in 1..Len(Flow), i <= a
         PROVE  Flow[i].line = n
    <2>1. CASE held = << >>
      <3>1. a = 1
        BY <2>1, EmptySeq DEF a, h
      <3> QED  BY <1>16, <3>1
    <2>2. CASE held # << >>
      <3>1. /\ h >= 1 /\ Flow[1] = held[1]
            /\ \A k \in 1..h : held[k].line = held[1].line
            /\ h < Len(Flow) => Flow[h + 1].line = held[1].line
        BY <1>1, <2>2, HeldIsOneLine DEF h
      <3>2. CASE i = h + 1
        BY <1>4, <1>8, <3>1, <3>2 DEF a
      <3>3. CASE i # h + 1
        <4>1. i \in 1..h
          BY <1>4, <1>16, <3>3 DEF a
        <4> QED  BY <1>4, <3>1, <4>1
      <3> QED  BY <3>2, <3>3
    <2> QED  BY <2>1, <2>2
  <1> HIDE DEF n
  <1>17. ASSUME NEW m, m # n, Occurs(Flow, m)
         PROVE  Occurs(Flow', m)
    <2>1. PICK i \in 1..Len(Flow) : Flow[i].line = m
      BY <1>17 DEF Occurs
    <2>2. ~(i <= a)
      BY <1>16, <1>17, <2>1
    <2> DEFINE k == i - a
    <2>3. k \in 1..Len(Flow') /\ a + k = i
      BY <1>4, <1>5, <1>6, <1>7, <2>2
    <2> HIDE DEF k
    <2>4. Flow'[k] = Flow[i]
      BY <1>10, <2>3
    <2> QED  BY <2>1, <2>3, <2>4 DEF Occurs
  <1>18. ASSUME n \in cut \/ Noise(wrote[n]), UNCHANGED bus
         PROVE  TurnsHold' /\ LinesBecomeEvents'
    <2>1. published' = published
      BY <1>18 DEF bus
    <2>2. \A m \in (1..Len(wrote)) \ cut' :
              Occurs(Flow, m) => Occurs(Flow', m) \/ Noise(wrote[m])
      BY <1>2, <1>17, <1>18
    <2> QED  BY <1>1, <1>2, <1>3, <1>5, <1>6, <2>1, <2>2, NothingNew
  <1>19. CASE held = << >>
    <2>1. a = 1
      BY <1>19, EmptySeq DEF a, h
    <2>2. n \in cut \/ Noise(wrote[n])
      BY <1>1, <1>8, <1>14, <2>1, BeginsWithWord DEF n
    <2> QED  BY <1>2, <1>3, <1>13, <1>18, <1>19, <2>2
  <1>20. CASE held # << >>
    <2> DEFINE event == ParseLine(Spelt(held))
    <2>1. held[1].line = n
      BY <1>1, <1>20, HeldIsOneLine DEF n
    <2>2. PublishLine(held)
      BY <1>2, <1>20
    <2>3. n \notin cut => Spelt(held) = wrote[n]
      <3>1. Len(held) < Len(Flow) /\ Flow[Len(held) + 1].text = Newline
        BY <1>4, <1>8 DEF a, h
      <3> QED  BY <1>1, <1>20, <2>1, <3>1, LineAsWritten
    <2>4. n \notin cut => IF event = NoEvent THEN Noise(wrote[n])
                          ELSE ~Noise(wrote[n]) /\ event = ParseLine(wrote[n])
      BY <1>1, <1>2, <1>15, <2>3, EventOfLine
    <2>5. \/ event = NoEvent /\ UNCHANGED bus
          \/ /\ event # NoEvent
             /\ Len(published') = Len(published) + 1
             /\ \A i \in 1..Len(published) : published'[i] = published[i]
             /\ published'[Len(published) + 1] = [event |-> event, line |-> n]
      BY <1>1, <1>2, <1>20, <2>1, <2>2, LineIsPublished
    <2> HIDE DEF event
    <2>6. CASE event = NoEvent /\ UNCHANGED bus
      BY <1>3, <1>13, <1>18, <2>4, <2>6
    <2>7. CASE /\ event # NoEvent
               /\ Len(published') = Len(published) + 1
               /\ \A i \in 1..Len(published) : published'[i] = published[i]
               /\ published'[Len(published) + 1] = [event |-> event, line |-> n]
      <3>1. \A j \in 1..Len(Flow') : Flow'[j].line # n
        <4>1. 1 <= a
          BY <1>4 DEF a
        <4> QED  BY <1>9, <1>10, <1>14, <4>1 DEF n
      <3>2. n \notin cut => /\ event = ParseLine(wrote[n]) /\ ~Noise(wrote[n])
                            /\ \A j \in 1..Len(Flow') : Flow'[j].line # n
        BY <2>4, <2>7, <3>1
      <3>3. \A m \in (1..Len(wrote)) \ (cut \cup {n}) : Occurs(Flow, m) => Occurs(Flow', m)
        BY <1>17
      <3>4. Flow[1].line = n
        BY DEF n
      <3>5. TurnsHold' /\ LinesBecomeEvents'
        BY <1>1, <1>2, <1>3, <1>5, <1>6, <1>14, <1>15, <2>7, <3>2, <3>3, <3>4, OnePublished
      <3> QED  BY <1>3, <1>13, <3>5
    <2> QED  BY <2>5, <2>6, <2>7
  <1> QED  BY <1>19, <1>20


\* What ends without a newline was broken.
LEMMA ReadLastLineKeeps ==
    ASSUME EventsInv, ReadLastLine
    PROVE  EventsTypes' /\ FlowHolds' /\ TurnsHold' /\ LinesBecomeEvents'
  <1>1. EventsTypes /\ FlowHolds /\ TurnsHold /\ LinesBecomeEvents
    BY DEF EventsInv
  <1>2. /\ link = "closed" /\ wire = << >> /\ held # << >> /\ PublishLine(held)
        /\ held' = << >> /\ wire' = wire /\ pending' = pending /\ link' = link
        /\ wrote' = wrote /\ cut' = cut
    BY DEF ReadLastLine
  <1>3. EventsTypes'
    BY <1>1, <1>2, ReadLineTypes
  <1> DEFINE a == Len(held)
  <1>4. pending = << >>
    BY <1>1, <1>2 DEF FlowHolds
  <1>5. /\ a \in Nat /\ Len(Flow) = a /\ \A i \in 1..a : Flow[i] = held[i]
    <2>1. Len(wire) = 0 /\ Len(pending) = 0
      BY <1>2, <1>4, EmptySeq
    <2>2. /\ a \in Nat /\ Len(Flow) = a + Len(wire) + Len(pending)
          /\ \A i \in 1..a : Flow[i] = held[i]
      BY <1>1, FlowKnown
    <2> HIDE DEF a
    <2> QED  BY <2>1, <2>2
  <1>6. Window(Flow, Flow', a) /\ a + Len(Flow') = Len(Flow)
    BY <1>1, <1>2, <1>3, <1>5, FlowDrops
  <1>7. Len(Flow') \in Nat
    BY <1>3, FlowNext
  <1>8. Len(Flow') = 0
    <2> HIDE DEF a
    <2> QED  BY <1>5, <1>6, <1>7
  <1>9. \A n : ~Occurs(Flow', n)
    BY <1>8 DEF Occurs
  <1>10. ASSUME NEW n \in (1..Len(wrote)) \ cut, Occurs(Flow, n)
         PROVE  FALSE
    <2>1. PICK b \in Nat : EntireAt(Flow, n, wrote[n], b)
      BY <1>1, <1>10 DEF FlowHolds, Entire
    <2>2. wrote[n] \in ShellLines
      BY <1>1, ElementOfSeq DEF EventsTypes
    <2>3. wrote[n] \in Seq(STRING)
      BY <2>2, ShellAssumption
    <2>4. Len(wrote[n]) \in Nat
      BY <2>3, LenProperties
    <2> DEFINE e == b + Len(wrote[n]) + 1
    <2>5. e \in 1..a
      BY <1>5, <2>1, <2>4 DEF EntireAt
    <2>6. Flow[e].text = Newline
      BY <2>1 DEF EntireAt
    <2> HIDE DEF e
    <2>7. held[e].text = Newline
      BY <1>5, <2>5, <2>6
    <2> QED  BY <1>1, <2>5, <2>7 DEF FlowHolds
  <1>11. /\ InRows(Flow')
         /\ \A i \in 1..Len(Flow') : Flow'[i].line \in 1..Len(wrote')
         /\ \A n \in (1..Len(wrote')) \ cut' : Occurs(Flow', n) => Entire(Flow', n, wrote'[n])
    BY <1>1, <1>2, <1>3, <1>5, <1>6, <1>9, FlowShrinks
  <1>12. FlowHolds'
    BY <1>1, <1>2, <1>3, <1>5, <1>6, <1>11, FlowEnds
  <1> DEFINE n == held[1].line
             event == ParseLine(Spelt(held))
  <1>13. a >= 1 /\ Flow[1] = held[1] /\ n \in 1..Len(wrote)
    BY <1>1, <1>2, HeldIsOneLine
  <1>14. 1 <= Len(Flow) /\ 1 \in 1..Len(Flow)
    BY <1>5, <1>13
  <1>15. n \in cut
    <2>1. Occurs(Flow, n)
      BY <1>13, <1>14 DEF Occurs
    <2> QED  BY <1>10, <1>13, <2>1
  <1>16. \/ event = NoEvent /\ UNCHANGED bus
         \/ /\ Len(published') = Len(published) + 1
            /\ \A i \in 1..Len(published) : published'[i] = published[i]
            /\ published'[Len(published) + 1] = [event |-> event, line |-> n]
    BY <1>1, <1>2, LineIsPublished
  <1> HIDE DEF event
  <1>17. CASE event = NoEvent /\ UNCHANGED bus
    <2>1. published' = published
      BY <1>17 DEF bus
    <2>2. TurnsHold' /\ LinesBecomeEvents'
      BY <1>1, <1>2, <1>3, <1>5, <1>6, <1>10, <2>1, NothingNew
    <2> QED  BY <1>3, <1>12, <2>2
  <1>18. CASE /\ Len(published') = Len(published) + 1
              /\ \A i \in 1..Len(published) : published'[i] = published[i]
              /\ published'[Len(published) + 1] = [event |-> event, line |-> n]
    <2>1. Flow[1].line = n
      BY <1>13
    <2> HIDE DEF n, a
    <2>2. TurnsHold' /\ LinesBecomeEvents'
      BY <1>1, <1>2, <1>3, <1>5, <1>6, <1>10, <1>13, <1>14, <1>15, <1>18, <2>1, OnePublished
    <2> QED  BY <1>3, <1>12, <2>2
  <1> QED  BY <1>16, <1>17, <1>18

\* What a read publishes is counted.
LEMMA ReadKeepsBus ==
    ASSUME EventsInv, EventsTypes',
           UNCHANGED bus \/ PublishLine(held)
    PROVE  LossesAreCounted' /\ \A s \in Subscriber : SubscriberHolds(s)'
  <1>1. EventsTypes /\ LossesAreCounted /\ \A s \in Subscriber : SubscriberHolds(s)
    BY DEF EventsInv
  <1>2. DOMAIN published' = 1..Len(published')
    BY LenProperties DEF EventsTypes
  <1>3. CASE UNCHANGED bus
    BY <1>3, BusIdle
  <1>4. CASE Publish(ParseLine(Spelt(held)), held[1].line)
    BY <1>1, <1>2, <1>4, PublishKeepsBus
  <1> QED  BY <1>3, <1>4 DEF PublishLine

-----------------------------------------------------------------------------
\* The stream, and the bus.

LEMMA EventsInit == InitEvents => EventsInv
  <1> SUFFICES ASSUME InitEvents
               PROVE  EventsInv
    OBVIOUS
  <1>1. /\ pending = << >> /\ wire = << >> /\ held = << >> /\ link = "down"
        /\ wrote = << >> /\ cut = {} /\ published = << >>
        /\ dropped = 0 /\ listed = {} /\ subs = [s \in Subscriber |-> Absent]
    BY DEF InitEvents
  <1>2. Len(<< >>) = 0 /\ DOMAIN << >> = {}
    BY EmptySeq
  <1>3. EventsTypes
    <2>1. << >> \in Seq(Piece) /\ << >> \in Seq(ShellLines) /\ << >> \in Seq(Published) /\ << >> \in Seq(Nat)
      BY EmptySeq
    <2>2. Absent \in [queue : Seq(Nat), seen : Seq(Nat), since : Nat, until : Nat, here : BOOLEAN]
      BY <2>1 DEF Absent
    <2> QED  BY <1>1, <2>1, <2>2 DEF EventsTypes
  <1>4. Flow = << >>
    BY <1>1 DEF Flow
  <1>5. FlowHolds
    BY <1>1, <1>2, <1>4 DEF FlowHolds, InRows
  <1>6. TurnsHold
    BY <1>1, <1>2, <1>4 DEF TurnsHold
  <1>7. LinesBecomeEvents
    BY <1>1, <1>2 DEF LinesBecomeEvents
  <1>8. LossesAreCounted
    <2>1. {m \in Subscriber \X DOMAIN published : m[2] \in Missed(m[1])} = {}
      BY <1>1, <1>2
    <2> QED  BY <1>1, <2>1, FS_EmptySet DEF LossesAreCounted
  <1>9. ASSUME NEW s \in Subscriber
        PROVE  SubscriberHolds(s)
    <2>1. subs[s] = [queue |-> << >>, seen |-> << >>, since |-> 0, until |-> 0, here |-> FALSE]
      BY <1>1 DEF Absent
    <2>2. Handed(s) = << >>
      BY <2>1 DEF Handed
    <2>3. ToSet(Handed(s)) = {}
      BY <1>2, <2>2 DEF ToSet
    <2> QED  BY <1>1, <1>2, <2>1, <2>2, <2>3 DEF SubscriberHolds
  <1> QED  BY <1>3, <1>5, <1>6, <1>7, <1>8, <1>9 DEF EventsInv

LEMMA BusStep ==
    ASSUME EventsInv, NEW s \in Subscriber, Subscribe(s) \/ Take(s) \/ Leave(s)
    PROVE  EventsInv'
  <1>1. /\ EventsTypes /\ FlowHolds /\ TurnsHold /\ LinesBecomeEvents /\ LossesAreCounted
        /\ \A z \in Subscriber : SubscriberHolds(z)
    BY DEF EventsInv
  <1>2. EventsTypes'
    BY <1>1, SubsTypes
  <1>3. LossesAreCounted' /\ \A z \in Subscriber : SubscriberHolds(z)'
    BY <1>1, <1>2, SubscribeKeepsBus, TakeKeepsBus, LeaveKeepsBus
  <1>4. /\ held' = held /\ wire' = wire /\ pending' = pending /\ link' = link
        /\ wrote' = wrote /\ cut' = cut /\ published' = published
    BY DEF Subscribe, Take, Leave, reader
  <1>5. Flow' = Flow
    BY <1>4 DEF Flow
  <1>6. TurnsHold' /\ LinesBecomeEvents'
    BY <1>1, <1>2, <1>4, <1>5, SameFlow
  <1>7. FlowHolds'
    BY <1>1, <1>4, <1>5 DEF FlowHolds
  <1> QED  BY <1>2, <1>3, <1>6, <1>7 DEF EventsInv

LEMMA EventsNext == EventsInv /\ [NextEvents]_eventVars => EventsInv'
  <1> SUFFICES ASSUME EventsInv, [NextEvents]_eventVars
               PROVE  EventsInv'
    OBVIOUS
  <1> DEFINE Half == EventsTypes' /\ FlowHolds' /\ TurnsHold' /\ LinesBecomeEvents'
             Bus == LossesAreCounted' /\ \A s \in Subscriber : SubscriberHolds(s)'
  <1>1. ASSUME NEW s \in Subscriber, Subscribe(s) \/ Take(s) \/ Leave(s)
        PROVE  EventsInv'
    BY <1>1, BusStep
  <1>2. Half /\ Bus => EventsInv'
    BY DEF EventsInv
  <1> HIDE DEF Half, Bus
  <1>3. UNCHANGED bus => Bus
    BY BusIdle DEF Bus
  <1>4. ASSUME NEW said \in ShellLines, Begin(said)
        PROVE  EventsInv'
    <2>1. Half
      BY <1>4, BeginKeeps DEF Half
    <2>2. UNCHANGED bus
      BY <1>4 DEF Begin
    <2> QED  BY <1>2, <1>3, <2>1, <2>2
  <1>5. CASE Put
    <2>1. Half
      BY <1>5, PutKeeps DEF Half
    <2>2. UNCHANGED bus
      BY <1>5 DEF Put
    <2> QED  BY <1>2, <1>3, <2>1, <2>2
  <1>6. CASE ShellLeaves
    <2>1. Half
      BY <1>6, ShellLeavesKeeps DEF Half
    <2>2. UNCHANGED bus
      BY <1>6 DEF ShellLeaves
    <2> QED  BY <1>2, <1>3, <2>1, <2>2
  <1>7. CASE Connect \/ ConnectFails
    <2>1. Half
      BY <1>7, ConnectKeeps DEF Half
    <2>2. UNCHANGED bus
      BY <1>7 DEF Connect, ConnectFails
    <2> QED  BY <1>2, <1>3, <2>1, <2>2
  <1>8. CASE ReadPiece
    <2>1. Half
      BY <1>8, ReadPieceKeeps DEF Half
    <2>2. UNCHANGED bus
      BY <1>8 DEF ReadPiece
    <2> QED  BY <1>2, <1>3, <2>1, <2>2
  <1>9. CASE ReadLine
    <2>1. Half
      BY <1>9, ReadLineKeeps DEF Half
    <2>2. EventsTypes'
      BY <2>1 DEF Half
    <2>3. held = << >> => UNCHANGED bus
      BY <1>9, BlankLine DEF ReadLine
    <2>4. held # << >> => PublishLine(held)
      BY <1>9 DEF ReadLine
    <2>5. CASE held = << >>
      BY <1>2, <1>3, <2>1, <2>3, <2>5
    <2>6. CASE held # << >>
      <3>1. PublishLine(held)
        BY <2>4, <2>6
      <3>2. Bus
        BY <2>2, <3>1, ReadKeepsBus DEF Bus
      <3> QED  BY <1>2, <2>1, <3>2
    <2> QED  BY <2>5, <2>6
  <1>10. CASE ReadTimesOut
    <2>1. Half
      BY <1>10, ReadTimesOutKeeps DEF Half
    <2>2. UNCHANGED bus
      BY <1>10 DEF ReadTimesOut
    <2> QED  BY <1>2, <1>3, <2>1, <2>2
  <1>11. CASE ReadLastLine
    <2>1. Half
      BY <1>11, ReadLastLineKeeps DEF Half
    <2>2. EventsTypes'
      BY <2>1 DEF Half
    <2>3. Bus
      BY <1>11, <2>2, ReadKeepsBus DEF Bus, ReadLastLine
    <2> QED  BY <1>2, <2>1, <2>3
  <1>12. CASE StreamEnds \/ ReadFails
    <2>1. Disconnect
      BY <1>12 DEF StreamEnds, ReadFails
    <2>2. Half
      BY <2>1, DisconnectKeeps DEF Half
    <2>3. UNCHANGED bus
      BY <2>1 DEF Disconnect
    <2> QED  BY <1>2, <1>3, <2>2, <2>3
  <1>13. CASE UNCHANGED eventVars
    <2>1. /\ held' = held /\ wire' = wire /\ pending' = pending /\ link' = link
          /\ wrote' = wrote /\ cut' = cut /\ published' = published
          /\ dropped' = dropped /\ listed' = listed /\ subs' = subs /\ UNCHANGED bus
      BY <1>13 DEF eventVars, reader, bus
    <2>2. /\ EventsTypes /\ FlowHolds /\ TurnsHold /\ LinesBecomeEvents
      BY DEF EventsInv
    <2>3. EventsTypes'
      BY <2>1, <2>2 DEF EventsTypes
    <2>4. Flow' = Flow
      BY <2>1 DEF Flow
    <2>5. FlowHolds'
      BY <2>1, <2>2, <2>4 DEF FlowHolds
    <2>6. TurnsHold' /\ LinesBecomeEvents'
      BY <2>1, <2>2, <2>3, <2>4, SameFlow
    <2>7. Half
      BY <2>3, <2>5, <2>6 DEF Half
    <2> QED  BY <1>2, <1>3, <2>1, <2>7
  <1> QED  BY <1>1, <1>4, <1>5, <1>6, <1>7, <1>8, <1>9, <1>10, <1>11, <1>12, <1>13 DEF NextEvents

\* What the shell wrote is published once, in its turn and as it was written,
\* unless it is noise or a line that was cut; and every subscriber is handed, in
\* order, what was published while it was there, but for what the count of the
\* dropped says.  However many subscribers come and go, whatever their queues
\* hold, wherever the reads cut the lines.
THEOREM StreamIsSeen == EventsSpec => []SubscribersSeeTheStream
  <1>1. EventsInv => SubscribersSeeTheStream
    <2> SUFFICES ASSUME EventsInv
                 PROVE  SubscribersSeeTheStream
      OBVIOUS
    <2>1. EventsTypes /\ LinesBecomeEvents /\ LossesAreCounted
      BY DEF EventsInv
    <2>2. ASSUME NEW s \in Subscriber
          PROVE  /\ ToSet(Handed(s)) \subseteq Offered(s)
                 /\ \A i, j \in DOMAIN Handed(s) : i < j => Handed(s)[i] < Handed(s)[j]
      <3>1. SubscriberHolds(s)
        BY DEF EventsInv
      <3>2. Handed(s) \in Seq(Nat)
        BY <2>1, BusKnown
      <3>3. DOMAIN Handed(s) = 1..Len(Handed(s))
        BY <3>2, LenProperties
      <3> QED  BY <3>1, <3>3 DEF SubscriberHolds
    <2> QED  BY <2>1, <2>2 DEF SubscribersSeeTheStream
  <1> QED  BY <1>1, EventsInit, EventsNext, PTL DEF EventsSpec
=============================================================================
