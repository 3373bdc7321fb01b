------------------------------- MODULE Library -------------------------------
(***************************************************************************)
(* The wallpaper library: the index of owe-core/src/library.rs behind the  *)
(* lock of owed/src/library.rs, the requests of IPC clients that scan it   *)
(* and ask for thumbnails, and the thumbnail worker with the scheduler of  *)
(* owe-core/src/thumbs.rs.                                                 *)
(*                                                                         *)
(* People edit files, unmount and forbid directories and empty the cache   *)
(* at any time; the daemon may die at any time, and the database and the   *)
(* thumbnail cache outlive it.  A file is abstracted to its path and a     *)
(* version, which is also its FileStamp: an edit always changes the stamp. *)
(* Files are the ones a listing counts: neither hidden nor links.          *)
(***************************************************************************)
EXTENDS Integers, Sequences, FiniteSets

CONSTANTS
    Client,         \* IPC connections
    Path,           \* files
    Dir,            \* directories
    DirOf,          \* the directory of a file
    Parent,         \* the directory a directory is in, or NoDir
    NoDir,
    Roots,          \* library.paths
    MaxEdits, MaxRequests, MaxCrashes   \* bounds

\* Directories nest once: a directory that has others inside is in none.
ASSUME Layout == /\ DirOf \in [Path -> Dir]
                 /\ Parent \in [Dir -> Dir \cup {NoDir}]
                 /\ \A d \in Dir : Parent[d] # NoDir => Parent[Parent[d]] = NoDir
                 /\ NoDir \notin Dir
                 /\ Roots \subseteq Dir

ASSUME Bounds == MaxEdits \in Nat /\ MaxRequests \in Nat /\ MaxCrashes \in Nat

VARIABLES
    disk,       \* the version of every file, and whether it is there
    dirs,       \* state of every directory
    rows,       \* the table `items`
    library,    \* the client that holds LibraryService.library, or Free
    job,        \* what every client does
    queue,      \* thumbnail requests on their way to the worker
    worker,     \* the thread owe-thumbs
    known,      \* Scheduler.known: keys it has an answer for
    cache,      \* the thumbnail files: the version each shows, 0: no file
    cleared,    \* somebody emptied the cache directory
    edits, requests, crashes

people == <<disk, dirs, cleared>>
thumbs == <<queue, worker, known, cache>>
vars == <<people, rows, library, job, thumbs, edits, requests, crashes>>

Free == "free"
ASSUME NobodyIsFree == Free \notin Client

Version == 1..(MaxEdits + 1)
Key == Path \X Version

Idle == [pc |-> "idle"]
Asleep == [pc |-> "asleep"]

\* A directory that is ok, that is a link to one or has a hidden name, that nobody
\* may list, that is an empty mount point, or that is not there.  Links matter in
\* other directories only.
Trouble == {"denied", "unmounted", "gone"}
Sound(d) == IF Parent[d] = NoDir THEN {"ok"} ELSE {"ok", "linked"}
Ancestors(d) == IF Parent[d] = NoDir THEN {d} ELSE {d, Parent[d]}
Exists(d) == \A a \in Ancestors(d) : dirs[a] # "gone" /\ (a # d => dirs[a] # "unmounted")
Listable(d) == Exists(d) /\ dirs[d] # "denied"
There(p) == disk[p].there /\ Exists(DirOf[p]) /\ dirs[DirOf[p]] # "unmounted"

\* A directory the walk of a root around it passes over, itself a root or not.
PassedOver(d) == dirs[d] = "linked" /\ Parent[d] \in Roots

\* Its file was deleted, alone or with the directory it was in; a root that is
\* gone is not taken for deleted.
Lost(p) == ~disk[p].there \/ (DirOf[p] \notin Roots /\ dirs[DirOf[p]] = "gone")

\* cache_key: the path and the stamp; the configured size is constant.
CacheKeyByPath(path, stamp) == <<path, 1>> \* mutant
CacheKey(path, stamp) == <<path, stamp>>

-----------------------------------------------------------------------------
\* The table.

Row(id, p, v) == [id |-> id, path |-> p, stamp |-> v]
Indexed(table) == {r.path : r \in table}

\* An INTEGER PRIMARY KEY without AUTOINCREMENT: one more than the largest.
Largest(table) == IF table = {} THEN 0
                  ELSE CHOOSE i \in {r.id : r \in table} : \A r \in table : r.id <= i

\* under_any.
Within(p, roots) == Ancestors(DirOf[p]) \cap roots # {}

\* The transaction of Library::scan: rows are inserted, updated in place and
\* deleted; a row goes when its file was not seen under a readable root and no
\* missing root is above it.
GoneAnywhere(scan) == \* mutant
    {p \in Indexed(rows) : p \notin DOMAIN scan.seen /\ Within(p, scan.readable)}
GonePaths(scan) ==
    {p \in Indexed(rows) : /\ p \notin DOMAIN scan.seen
                           /\ Within(p, scan.readable)
                           /\ ~Within(p, scan.missing)}

\* Mutant: INSERT OR REPLACE.
UpdatedAnew(table, seen) ==
    {r \in table : r.path \notin DOMAIN seen \/ seen[r.path] = r.stamp}
      \cup {Row(Largest(table) + r.id, r.path, seen[r.path]) :
                r \in {q \in table : q.path \in DOMAIN seen /\ seen[q.path] # q.stamp}}
Updated(table, seen) ==
    {IF r.path \in DOMAIN seen THEN [r EXCEPT !.stamp = seen[r.path]] ELSE r : r \in table}

\* The order in which new rows are inserted is a hash map's.
Numberings(S) == {f \in [S -> 1..Cardinality(S)] : \A p, q \in S : f[p] = f[q] => p = q}
Commits(scan) ==
    LET new == DOMAIN scan.seen \ Indexed(rows)
        gone == GonePaths(scan)
    IN  {{r \in Updated(rows, scan.seen) : r.path \notin gone}
           \cup {Row(Largest(rows) + f[p], p, scan.seen[p]) : p \in new} :
             f \in Numberings(new)}

\* What an earlier run may have left in the database; an empty cache.
StoredTables == UNION {{{Row(f[p], p, 1) : p \in S} : f \in Numberings(S)} : S \in {{}, Path}}

Init ==
    /\ disk \in [Path -> [version : {1}, there : BOOLEAN]]
    /\ dirs \in [Dir -> {"ok", "linked"}] /\ \A d \in Dir : dirs[d] \in Sound(d)
    /\ rows \in StoredTables
    /\ library = Free
    /\ job = [c \in Client |-> Idle]
    /\ queue = << >> /\ worker = Asleep
    /\ known = [k \in {} |-> "cached"]
    /\ cache = [k \in Key |-> 0]
    /\ cleared = FALSE
    /\ edits = 0 /\ requests = 0 /\ crashes = 0

-----------------------------------------------------------------------------
\* Requests.

\* A client may ask; the library is looked at with its lock held.
Ask(c) == /\ job[c] = Idle /\ library = Free
          /\ requests < MaxRequests
          /\ requests' = requests + 1

At(c, pc) == job[c].pc = pc
Goes(c, j) == job' = [job EXCEPT ![c] = j]

-----------------------------------------------------------------------------
\* Library::scan, with the lock held throughout.

\* Which roots can be read is decided once; two that nest are walked once.
CheckRoots(c) ==
    /\ Ask(c)
    /\ library' = c
    /\ LET readable == {r \in Roots : Exists(r)} IN
       Goes(c, [pc |-> "walk", readable |-> readable, missing |-> Roots \ readable,
                stack |-> {r \in readable : (Ancestors(r) \ {r}) \cap readable = {}},
                seen |-> [p \in {} |-> 0], unreadable |-> {},
                absent |-> {p \in Path : Lost(p)},
                trouble |-> {d \in Dir : Exists(d) /\ dirs[d] \in Trouble}])
    /\ UNCHANGED <<people, rows, thumbs, edits, crashes>>

\* walk: one directory is listed, its subdirectories are for later.  Links and
\* hidden names are passed over, and so is, in silence, an entry that cannot be
\* read or looked at.
FilesIn(d) == {p \in Path : DirOf[p] = d /\ There(p)}
SubsOf(d) == {s \in Dir : Parent[s] = d /\ Exists(s) /\ dirs[s] # "linked"}

Listed(scan, d, failed) ==
    LET found == FilesIn(d) \ failed IN
    [scan EXCEPT !.stack = (@ \ {d}) \cup (SubsOf(d) \ failed),
                 !.seen = [p \in DOMAIN @ \cup found |->
                              IF p \in found THEN disk[p].version ELSE @[p]],
                 !.trouble = IF failed = {} THEN @ ELSE @ \cup {d}]

Walk(c) ==
    /\ At(c, "walk")
    /\ \E d \in job[c].stack :
          \/ /\ Listable(d)
             /\ \E failed \in SUBSET (FilesIn(d) \cup SubsOf(d)) :
                   Goes(c, Listed(job[c], d, failed))
          \/ /\ ~Listable(d)
             /\ Goes(c, [job[c] EXCEPT !.stack = @ \ {d}, !.unreadable = @ \cup {d}])
    /\ UNCHANGED <<people, rows, library, thumbs, edits, requests, crashes>>

Commit(c) ==
    /\ At(c, "walk") /\ job[c].stack = {}
    /\ rows' \in Commits(job[c])
    /\ library' = Free
    /\ Goes(c, Idle)
    /\ UNCHANGED <<people, thumbs, edits, requests, crashes>>

-----------------------------------------------------------------------------
\* LibraryService::thumbnail.

\* An item is read from the index, and the request goes to the worker.
Thumb(c) ==
    /\ Ask(c)
    /\ \E r \in rows :
          LET key == CacheKey(r.path, r.stamp) IN
          /\ Goes(c, [pc |-> "wait", key |-> key, stamp |-> r.stamp])
          /\ queue' = Append(queue, [client |-> c, key |-> key])
    /\ UNCHANGED <<people, rows, library, worker, known, cache, edits, crashes>>

\* The worker took more than THUMBNAIL_TIMEOUT.
TimeOut(c) ==
    /\ At(c, "wait")
    /\ Goes(c, Idle)
    /\ UNCHANGED <<people, rows, library, thumbs, edits, requests, crashes>>

\* The client has its answer.
Read(c) ==
    /\ At(c, "thumbed")
    /\ Goes(c, Idle)
    /\ UNCHANGED <<people, rows, library, thumbs, edits, requests, crashes>>

-----------------------------------------------------------------------------
\* The worker: ensure().

books == <<people, rows, library, edits, requests, crashes>>

\* Scheduler::request: an answer it knows, or a file in the cache, or a job.
Decide ==
    /\ worker = Asleep /\ queue # << >>
    /\ LET q == Head(queue) IN
       /\ queue' = Tail(queue)
       /\ IF q.key \in DOMAIN known
          THEN worker' = [pc |-> "reply", to |-> q] /\ UNCHANGED known
          ELSE IF cache[q.key] # 0
               THEN /\ known' = [k \in DOMAIN known \cup {q.key} |->
                                    IF k = q.key THEN "cached" ELSE known[k]]
                    /\ worker' = [pc |-> "reply", to |-> q]
               ELSE worker' = [pc |-> "decode", to |-> q] /\ UNCHANGED known
    /\ UNCHANGED <<books, job, cache>>

Finished(q, decision) ==
    /\ known' = [k \in DOMAIN known \cup {q.key} |-> IF k = q.key THEN decision ELSE known[k]]
    /\ worker' = [pc |-> "reply", to |-> q]

\* owe_media::thumbnail_png: the file as it is now.
Decode ==
    /\ worker.pc = "decode"
    /\ There(worker.to.key[1])
    /\ worker' = [pc |-> "write", to |-> worker.to, shows |-> disk[worker.to.key[1]].version]
    /\ UNCHANGED <<books, job, queue, known, cache>>

\* It cannot be read or decoded, or the thumbnail cannot be written; the
\* scheduler remembers the failure.
DecodeFails ==
    /\ worker.pc \in {"decode", "write"}
    /\ Finished(worker.to, "failed")
    /\ UNCHANGED <<books, job, queue, cache>>

\* write_thumbnail: a temporary file is renamed, so the file is whole or not there.
WriteThumb ==
    /\ worker.pc = "write"
    /\ cache' = [cache EXCEPT ![worker.to.key] = worker.shows]
    /\ Finished(worker.to, "cached")
    /\ UNCHANGED <<books, job, queue>>

\* The answer, to a client that may have given up.
Waits(q) == job[q.client].pc = "wait" /\ job[q.client].key = q.key
Reply ==
    /\ worker.pc = "reply"
    /\ worker' = Asleep
    /\ LET q == worker.to IN
       job' = IF ~Waits(q) THEN job
              ELSE [job EXCEPT ![q.client] =
                      IF known[q.key] = "cached"
                      THEN [pc |-> "thumbed", stamp |-> job[q.client].stamp,
                            shows |-> cache[q.key]]
                      ELSE Idle]
    /\ UNCHANGED <<books, queue, known, cache>>

-----------------------------------------------------------------------------
\* People and crashes.

\* What people did while a scan was under way.
Noted ==
    job' = [c \in Client |->
              IF job[c].pc # "walk" THEN job[c]
              ELSE [job[c] EXCEPT !.absent = @ \cup {p \in Path : Lost(p)'},
                                  !.trouble = @ \cup {d \in Dir : dirs'[d] # dirs[d]}]]

Edit == /\ edits < MaxEdits
        /\ edits' = edits + 1
        /\ UNCHANGED <<rows, library, queue, worker, known, requests, crashes>>

Write(p) == /\ Edit
            /\ disk' = [disk EXCEPT ![p] = [version |-> @.version + 1, there |-> TRUE]]
            /\ UNCHANGED <<dirs, cache, cleared>> /\ Noted
Delete(p) == /\ Edit
             /\ disk[p].there
             /\ disk' = [disk EXCEPT ![p].there = FALSE]
             /\ UNCHANGED <<dirs, cache, cleared>> /\ Noted
Turn(d, s) == /\ Edit
              /\ dirs[d] # s
              /\ dirs' = [dirs EXCEPT ![d] = s]
              /\ UNCHANGED <<disk, cache, cleared>> /\ Noted
EmptyCache == /\ Edit
              /\ cache' = [k \in Key |-> 0]
              /\ cleared' = TRUE
              /\ UNCHANGED <<disk, dirs>> /\ Noted

\* The daemon dies and is started again: a scan that was not committed leaves
\* no trace, the scheduler starts with nothing known.
Crash ==
    /\ crashes < MaxCrashes
    /\ crashes' = crashes + 1
    /\ library' = Free
    /\ job' = [c \in Client |-> Idle]
    /\ queue' = << >> /\ worker' = Asleep
    /\ known' = [k \in {} |-> "cached"]
    /\ UNCHANGED <<people, rows, cache, edits, requests>>

-----------------------------------------------------------------------------
Thumbnailer == Decide \/ Decode \/ DecodeFails \/ WriteThumb \/ Reply

Next ==
    \/ \E c \in Client : CheckRoots(c) \/ Walk(c) \/ Commit(c) \/ Thumb(c) \/ TimeOut(c) \/ Read(c)
    \/ Thumbnailer
    \/ \E p \in Path : Write(p) \/ Delete(p)
    \/ \E d \in Dir : \E s \in Trouble \cup Sound(d) : Turn(d, s)
    \/ EmptyCache \/ Crash

Spec == Init /\ [][Next]_vars

-----------------------------------------------------------------------------
\* Properties.

Partial(S, T) == UNION {[D -> T] : D \in SUBSET S}
Asked == [client : Client, key : Key]
Scan == [pc : {"walk"}, readable : SUBSET Roots, missing : SUBSET Roots, stack : SUBSET Dir,
         seen : Partial(Path, Version), unreadable : SUBSET Dir, absent : SUBSET Path,
         trouble : SUBSET Dir]
Wait == [pc : {"wait"}, key : Key, stamp : Version]
Shows == 0..(MaxEdits + 1)
Thumbed == [pc : {"thumbed"}, stamp : Version, shows : Shows]
Working == [pc : {"reply", "decode"}, to : Asked]
Writing == [pc : {"write"}, to : Asked, shows : Version]

TypeOK ==
    /\ disk \in [Path -> [version : Version, there : BOOLEAN]]
    /\ dirs \in [Dir -> Trouble \cup {"ok", "linked"}]
    /\ \A r \in rows : /\ r = Row(r.id, r.path, r.stamp)
                       /\ r.path \in Path /\ r.stamp \in Version
    /\ library \in Client \cup {Free}
    /\ job \in [Client -> {Idle} \cup Scan \cup Wait \cup Thumbed]
    /\ queue \in Seq(Asked) /\ worker \in {Asleep} \cup Working \cup Writing
    /\ known \in Partial(Key, {"cached", "failed"}) /\ cache \in [Key -> Shows]
    /\ cleared \in BOOLEAN
    /\ edits \in 0..MaxEdits /\ requests \in 0..MaxRequests /\ crashes \in 0..MaxCrashes

Committed(c) == At(c, "walk") /\ job[c].stack = {} /\ rows' # rows
Removed == Indexed(rows) \ Indexed(rows')

\* What the library promises never to do: a scan drops a row only when its file
\* was deleted.
RowsSurvive == [][\A c \in Client : Committed(c) => Removed \subseteq job[c].absent]_vars

\* The same, but for scans that met a directory that was forbidden or an empty
\* mount point, an entry they could not look at, or that changed under them; and
\* but for rows below a hidden or linked directory inside a root: neither a missing
\* root nor one inside another, neither edits behind the walk nor a crash lose any
\* other row.
RowsAreTrue ==
    [][\A c \in Client : Committed(c) /\ job[c].trouble = {}
          => Removed \subseteq job[c].absent \cup {p \in Path : PassedOver(DirOf[p])}]_vars

\* "Walking the outer root already covers the inner one" (scan): a row below a root
\* that was read is dropped only when its file was deleted.
OuterCoversInner ==
    [][\A c \in Client : Committed(c) /\ job[c].trouble = {}
          => \A p \in Removed : DirOf[p] \in Roots => p \in job[c].absent]_vars

\* A row that stays keeps its id: a reference a client holds does not change its
\* meaning because the file was edited or other rows came and went.
IdsAreStable ==
    [][\A r \in rows, s \in rows' : r.path = s.path => r.id = s.id]_vars

\* A thumbnail shows the file as it was when it was indexed, or later: never an
\* older picture, whatever was edited, cached, timed out or restarted meanwhile.
\* Only a cache emptied behind the daemon's back makes it answer a file that is
\* not there.
ThumbIsTrue ==
    \A c \in Client : At(c, "thumbed") => cleared \/ job[c].shows >= job[c].stamp
=============================================================================
