-------------------------------- MODULE Daemon --------------------------------
(***************************************************************************)
(* The life of a daemon process: the order of startup and shutdown in      *)
(* owed/src/main.rs, the socket of owe-ipc/src/server.rs and the session   *)
(* file of owe-core/src/state.rs.  Several processes of one user share the *)
(* socket path and the session file; each may be killed at any moment.     *)
(*                                                                         *)
(* A session is the wallpaper of one output.  Drawing it is the engine's.  *)
(***************************************************************************)
EXTENDS Integers, FiniteSets

CONSTANTS
    Process,        \* processes there may be at one time
    Wallpaper,
    EventSocket,    \* shell.hyprland.event_socket, and there is such a socket
    MaxStarts, MaxSets, MaxCrashes  \* bounds

ASSUME DaemonAssumption ==
    /\ IsFiniteSet(Process) /\ Process \cap {"nobody", "dead"} = {}
    /\ Wallpaper # {} /\ Wallpaper \cap {"nothing", "torn"} = {}
    /\ EventSocket \in BOOLEAN

VARIABLES
    main,       \* where run() is
    session,    \* Engine.session
    restoring,  \* the process is still in Engine::restore
    conn,       \* the connection thread and its request
    save,       \* SessionState::save under way
    presenter,  \* the presenter runs: the hotplug channel is open
    hotplug,    \* the thread owe-hotplug
    stopEvents, \* event_shutdown
    listener,   \* the shell event listener
    shutdown,   \* Shutdown, shared by the server and its handler
    path,       \* whose socket is at the socket path
    file, temp, \* the inodes of session.json and of its temporary
    content,    \* what the inodes hold
    hopes,      \* history: what a restart may put back
    meddled,    \* history: two processes wrote the session file at once, or one that
                \* another was about to write back
    raced,      \* history: a socket was bound between another's probe and removal
    starts, sets, crashes

threads == <<presenter, hotplug, stopEvents, listener>>
disk == <<file, temp, content>>
history == <<hopes, meddled, raced>>
bounds == <<starts, sets, crashes>>
vars == <<main, session, restoring, conn, save, threads, shutdown, path, disk, history, bounds>>

Nothing == "nothing"
Torn == "torn"
Nobody == "nobody"      \* there is no socket at the path
Dead == "dead"          \* there is one, and its process is gone
NoFile == 0
Inode == 1..(Cardinality(Process) + 2)

Quiet == [step |-> "none"]
NoRequest == [pc |-> "none"]

Alive(d) == main[d] # "off"
Serving(d) == main[d] = "serve"

\* A session file that was written, or none yet; which wallpaper it names makes no
\* difference to the rest.
Init ==
    /\ main = [d \in Process |-> "off"]
    /\ session = [d \in Process |-> Nothing]
    /\ restoring = [d \in Process |-> FALSE]
    /\ conn = [d \in Process |-> NoRequest]
    /\ save = [d \in Process |-> Quiet]
    /\ presenter = [d \in Process |-> FALSE]
    /\ hotplug = [d \in Process |-> "done"] /\ listener = [d \in Process |-> "done"]
    /\ stopEvents = [d \in Process |-> FALSE] /\ shutdown = [d \in Process |-> FALSE]
    /\ path \in {Nobody, Dead}
    /\ \E w \in {Nothing, CHOOSE w \in Wallpaper : TRUE} :
          /\ file = (IF w = Nothing THEN NoFile ELSE 1)
          /\ content = [i \in Inode |-> w]
          /\ hopes = {w}
    /\ temp = NoFile
    /\ meddled = FALSE /\ raced = FALSE
    /\ starts = 0 /\ sets = 0 /\ crashes = 0

Goes(d, where) == main' = [main EXCEPT ![d] = where]

-----------------------------------------------------------------------------
\* The session file.

\* SessionState::load: a file that is not there, or is damaged, is an empty session.
Loaded == IF file = NoFile \/ content[file] = Torn THEN Nothing ELSE content[file]

Opened == {save[d].inode : d \in {e \in Process : save[e].step \in {"write", "rename"}}}
Unused == CHOOSE i \in Inode : i \notin {file, temp} \cup Opened

\* Mutant: the file itself is written.
OpenInPlace(d) ==
    /\ save[d].step = "open"
    /\ LET i == IF file = NoFile THEN Unused ELSE file IN
       /\ file' = i /\ temp' = i
       /\ content' = [content EXCEPT ![i] = Torn]
       /\ save' = [save EXCEPT ![d] = [step |-> "write", what |-> @.what, inode |-> i]]
    /\ UNCHANGED <<main, session, restoring, conn, threads, shutdown, path, history, bounds>>

\* File::create truncates the temporary, whoever made it.
Open(d) ==
    /\ save[d].step = "open"
    /\ LET i == IF temp = NoFile THEN Unused ELSE temp IN
       /\ temp' = i
       /\ content' = [content EXCEPT ![i] = Torn]
       /\ save' = [save EXCEPT ![d] = [step |-> "write", what |-> @.what, inode |-> i]]
    /\ meddled' = (meddled \/ \E e \in Process \ {d} : save[e].step # "none")
    /\ UNCHANGED <<main, session, restoring, conn, threads, shutdown, path, file, hopes, raced, bounds>>

\* Of two that write to one file at once, either or a mixture is left.
Write(d) ==
    /\ save[d].step = "write"
    /\ \E left \in {save[d].what} \cup
                   (IF \E e \in Process \ {d} : save[e].step \in {"write", "rename"}
                                                   /\ save[e].inode = save[d].inode
                    THEN {Torn} ELSE {}) :
          content' = [content EXCEPT ![save[d].inode] = left]
    /\ save' = [save EXCEPT ![d].step = "rename"]
    /\ UNCHANGED <<main, session, restoring, conn, threads, shutdown, path, file, temp,
                   history, bounds>>

\* The session in memory follows the one on disk.  Restore goes on with the next
\* phase of run(), a request with its answer.
Recorded(d, ok) ==
    /\ session' = IF ok THEN [session EXCEPT ![d] = save[d].what] ELSE session
    /\ save' = [save EXCEPT ![d] = Quiet]
    /\ IF restoring[d] THEN Goes(d, "threads") /\ UNCHANGED conn
       ELSE /\ conn' = [conn EXCEPT ![d] = [pc |-> "reply", what |-> @.what, ok |-> ok]]
            /\ UNCHANGED main
    /\ restoring' = [restoring EXCEPT ![d] = FALSE]

Rename(d) ==
    /\ save[d].step = "rename"
    /\ IF temp = NoFile THEN Recorded(d, FALSE) /\ UNCHANGED <<file, temp, meddled>>
       ELSE /\ Recorded(d, TRUE)
            /\ file' = temp /\ temp' = NoFile
            /\ meddled' = (meddled \/ \E e \in Process \ {d} : restoring[e])
    /\ UNCHANGED <<threads, shutdown, path, content, hopes, raced, bounds>>

-----------------------------------------------------------------------------
\* Startup.

Start(d) ==
    /\ main[d] = "off" /\ starts < MaxStarts
    /\ starts' = starts + 1
    /\ session' = [session EXCEPT ![d] = Loaded]
    /\ presenter' = [presenter EXCEPT ![d] = TRUE]
    /\ restoring' = [restoring EXCEPT ![d] = TRUE]
    /\ Goes(d, "restore")
    /\ UNCHANGED <<conn, save, hotplug, stopEvents, listener, shutdown, path, disk, history,
                   sets, crashes>>

\* What is put back is recorded like any other wallpaper; it may fail to load.
Restore(d) ==
    /\ main[d] = "restore"
    /\ \/ /\ session[d] # Nothing
          /\ Goes(d, "restoring")
          /\ save' = [save EXCEPT ![d] = [step |-> "open", what |-> session[d]]]
          /\ UNCHANGED restoring
       \/ /\ Goes(d, "threads")
          /\ restoring' = [restoring EXCEPT ![d] = FALSE]
          /\ UNCHANGED save
    /\ UNCHANGED <<session, conn, threads, shutdown, path, disk, history, bounds>>

Threads(d) ==
    /\ main[d] = "threads"
    /\ hotplug' = [hotplug EXCEPT ![d] = "waiting"]
    /\ listener' = [listener EXCEPT ![d] = IF EventSocket THEN "reading" ELSE "done"]
    /\ Goes(d, "probe")
    /\ UNCHANGED <<session, restoring, conn, save, presenter, stopEvents, shutdown, path, disk,
                   history, bounds>>

\* What is left when a process is gone, and whose socket the path then shows.
Ends(d, where) ==
    /\ Goes(d, "off")
    /\ session' = [session EXCEPT ![d] = Nothing]
    /\ restoring' = [restoring EXCEPT ![d] = FALSE]
    /\ conn' = [conn EXCEPT ![d] = NoRequest]
    /\ save' = [save EXCEPT ![d] = Quiet]
    /\ presenter' = [presenter EXCEPT ![d] = FALSE]
    /\ hotplug' = [hotplug EXCEPT ![d] = "done"]
    /\ listener' = [listener EXCEPT ![d] = "done"]
    /\ stopEvents' = [stopEvents EXCEPT ![d] = FALSE]
    /\ shutdown' = [shutdown EXCEPT ![d] = FALSE]
    /\ path' = where
    /\ UNCHANGED <<disk, hopes, meddled, raced>>

\* Whether a connection to the path succeeds: a listener's backlog accepts it
\* even when nobody calls accept.
AnswersNot == FALSE \* mutant
Answers == path \in Process

\* Server::bind_with_shutdown: exists() and connect().
Free(d) ==
    /\ main[d] = "probe" /\ path = Nobody
    /\ Goes(d, "bind")
    /\ UNCHANGED <<session, restoring, conn, save, threads, shutdown, path, disk, history, bounds>>

Stale(d) ==
    /\ main[d] = "probe" /\ path # Nobody /\ ~Answers
    /\ Goes(d, "remove")
    /\ UNCHANGED <<session, restoring, conn, save, threads, shutdown, path, disk, history, bounds>>

AlreadyRunning(d) ==
    /\ main[d] = "probe" /\ path # Nobody /\ Answers
    /\ Ends(d, path)
    /\ UNCHANGED bounds

\* remove_file: the path, whatever is there by now; an error ends the process.
RemovePath(d) ==
    /\ main[d] = "remove"
    /\ IF path = Nobody THEN Ends(d, path)
       ELSE /\ path' = Nobody
            /\ Goes(d, "bind")
            /\ UNCHANGED <<session, restoring, conn, save, threads, shutdown, disk, history>>
    /\ UNCHANGED bounds

\* bind() fails when a file is there.
Bind(d) ==
    /\ main[d] = "bind"
    /\ IF path # Nobody THEN Ends(d, path)
       ELSE /\ path' = d
            /\ Goes(d, "serve")
            /\ raced' = (raced \/ \E e \in Process : main[e] = "remove")
            /\ UNCHANGED <<session, restoring, conn, save, threads, shutdown, disk, hopes, meddled>>
    /\ UNCHANGED bounds

-----------------------------------------------------------------------------
\* Requests, on a connection thread: it lives on while the daemon shuts down.

Asks(d, request) ==
    /\ Serving(d) /\ path = d /\ conn[d] = NoRequest
    /\ sets < MaxSets
    /\ sets' = sets + 1
    /\ conn' = [conn EXCEPT ![d] = request]
    /\ UNCHANGED <<main, session, restoring, save, threads, shutdown, path, disk, meddled, raced,
                   starts, crashes>>

AskSet(d) ==
    \E w \in Wallpaper : Asks(d, [pc |-> "set", what |-> w]) /\ hopes' = hopes \cup {w}
AskKill(d) == Asks(d, [pc |-> "kill"]) /\ UNCHANGED hopes

\* The wallpaper is on the screen and is to be recorded, or cannot be shown.
Set(d) ==
    /\ conn[d].pc = "set"
    /\ \/ /\ save' = [save EXCEPT ![d] = [step |-> "open", what |-> conn[d].what]]
          /\ conn' = [conn EXCEPT ![d].pc = "record"]
       \/ /\ conn' = [conn EXCEPT ![d] = [pc |-> "reply", what |-> @.what, ok |-> FALSE]]
          /\ UNCHANGED save
    /\ UNCHANGED <<main, session, restoring, threads, shutdown, path, disk, history, bounds>>

Kill(d) ==
    /\ conn[d].pc = "kill"
    /\ shutdown' = [shutdown EXCEPT ![d] = TRUE]
    /\ conn' = [conn EXCEPT ![d].pc = "killed"]
    /\ UNCHANGED <<main, session, restoring, save, threads, path, disk, history, bounds>>

\* The client is told.
Reply(d) ==
    /\ conn[d].pc \in {"reply", "killed"}
    /\ hopes' = IF conn[d].pc = "reply" /\ conn[d].ok THEN {conn[d].what} ELSE hopes
    /\ conn' = [conn EXCEPT ![d] = NoRequest]
    /\ UNCHANGED <<main, session, restoring, save, threads, shutdown, path, disk, meddled, raced,
                   bounds>>

-----------------------------------------------------------------------------
\* Threads that are joined.

tables == <<session, restoring, conn, save, presenter, stopEvents, shutdown, path, disk, history,
            bounds>>

\* recv(): a burst, or the end of a closed channel.
Burst(d) ==
    /\ hotplug[d] = "waiting" /\ presenter[d]
    /\ hotplug' = [hotplug EXCEPT ![d] = "working"]
    /\ UNCHANGED <<tables, main, listener>>
Reconciled(d) ==
    /\ hotplug[d] = "working"
    /\ hotplug' = [hotplug EXCEPT ![d] = "waiting"]
    /\ UNCHANGED <<tables, main, listener>>
Closed(d) ==
    /\ hotplug[d] = "waiting" /\ ~presenter[d] /\ Alive(d)
    /\ hotplug' = [hotplug EXCEPT ![d] = "done"]
    /\ UNCHANGED <<tables, main, listener>>

\* Lines, timeouts, a lost connection and the sleep before the next one (Events)
\* all come back to the check of the flag.
Listen(d) ==
    /\ listener[d] = "reading" /\ stopEvents[d]
    /\ listener' = [listener EXCEPT ![d] = "done"]
    /\ UNCHANGED <<tables, main, hotplug>>

-----------------------------------------------------------------------------
\* Shutdown.

StopServing(d) ==
    /\ Serving(d) /\ shutdown[d]
    /\ Goes(d, "presenter")
    /\ UNCHANGED <<session, restoring, conn, save, threads, shutdown, path, disk, history, bounds>>

\* stop_playback and stop_presenter: the sender of the hotplug channel is dropped.
StopPresenter(d) ==
    /\ main[d] = "presenter"
    /\ presenter' = [presenter EXCEPT ![d] = FALSE]
    /\ Goes(d, "hotplug")
    /\ UNCHANGED <<session, restoring, conn, save, hotplug, stopEvents, listener, shutdown, path,
                   disk, history, bounds>>

JoinHotplug(d) ==
    /\ main[d] = "hotplug" /\ hotplug[d] = "done"
    /\ Goes(d, "events")
    /\ UNCHANGED <<session, restoring, conn, save, threads, shutdown, path, disk, history, bounds>>

JoinListenerFirst(d) == \* mutant
    /\ main[d] = "events" /\ listener[d] = "done"
    /\ stopEvents' = [stopEvents EXCEPT ![d] = TRUE]
    /\ Goes(d, "listener")
    /\ UNCHANGED <<session, restoring, conn, save, presenter, hotplug, listener, shutdown, path,
                   disk, history, bounds>>
RequestEvents(d) ==
    /\ main[d] = "events"
    /\ stopEvents' = [stopEvents EXCEPT ![d] = TRUE]
    /\ Goes(d, "listener")
    /\ UNCHANGED <<session, restoring, conn, save, presenter, hotplug, listener, shutdown, path,
                   disk, history, bounds>>

JoinListener(d) ==
    /\ main[d] = "listener" /\ listener[d] = "done"
    /\ Goes(d, "socket")
    /\ UNCHANGED <<session, restoring, conn, save, threads, shutdown, path, disk, history, bounds>>

\* Server::drop removes the path, and the process ends, connection threads too.
Exit(d) ==
    /\ main[d] = "socket"
    /\ Ends(d, Nobody)
    /\ UNCHANGED bounds

\* The accept loop fails: run() returns at once.
ServeFails(d) ==
    /\ Serving(d) /\ crashes < MaxCrashes
    /\ crashes' = crashes + 1
    /\ Ends(d, Nobody)
    /\ UNCHANGED <<starts, sets>>

\* A signal, a panic, the end of the session.
Crash(d) ==
    /\ Alive(d) /\ crashes < MaxCrashes
    /\ crashes' = crashes + 1
    /\ Ends(d, IF path = d THEN Dead ELSE path)
    /\ UNCHANGED <<starts, sets>>

-----------------------------------------------------------------------------
Saves(d) == Open(d) \/ Write(d) \/ Rename(d)
Boot(d) == Restore(d) \/ Threads(d) \/ Free(d) \/ Stale(d) \/ AlreadyRunning(d)
             \/ RemovePath(d) \/ Bind(d)
Stops(d) == StopServing(d) \/ StopPresenter(d) \/ JoinHotplug(d) \/ RequestEvents(d)
              \/ JoinListener(d) \/ Exit(d)
Answer(d) == Set(d) \/ Kill(d) \/ Reply(d)

Next ==
    \E d \in Process :
        \/ Start(d) \/ Boot(d) \/ Saves(d)
        \/ AskSet(d) \/ AskKill(d) \/ Answer(d)
        \/ Burst(d) \/ Reconciled(d) \/ Closed(d) \/ Listen(d)
        \/ Stops(d) \/ ServeFails(d) \/ Crash(d)

\* Threads are scheduled; nobody owes a start, a request or a burst.
Fairness ==
    \A d \in Process :
        /\ WF_vars(Boot(d) \/ Stops(d)) /\ WF_vars(Saves(d)) /\ WF_vars(Answer(d))
        /\ WF_vars(Reconciled(d)) /\ WF_vars(Closed(d)) /\ WF_vars(Listen(d))

Spec == Init /\ [][Next]_vars /\ Fairness

-----------------------------------------------------------------------------
\* Properties.

Phase == {"off", "restore", "restoring", "threads", "probe", "remove", "bind", "serve",
          "presenter", "hotplug", "events", "listener", "socket"}
Request == {NoRequest} \cup [pc : {"set", "record"}, what : Wallpaper]
             \cup [pc : {"reply"}, what : Wallpaper, ok : BOOLEAN] \cup [pc : {"kill", "killed"}]
Save == {Quiet} \cup [step : {"open"}, what : Wallpaper]
          \cup [step : {"write", "rename"}, what : Wallpaper, inode : Inode]

\* Every variable has its type; there is always an inode for the next temporary.
TypeOK ==
    /\ main \in [Process -> Phase]
    /\ session \in [Process -> Wallpaper \cup {Nothing}]
    /\ conn \in [Process -> Request]
    /\ save \in [Process -> Save]
    /\ hotplug \in [Process -> {"waiting", "working", "done"}]
    /\ listener \in [Process -> {"reading", "done"}]
    /\ {restoring, presenter, stopEvents, shutdown} \subseteq [Process -> BOOLEAN]
    /\ path \in Process \cup {Nobody, Dead}
    /\ {file, temp} \subseteq Inode \cup {NoFile}
    /\ content \in [Inode -> Wallpaper \cup {Nothing, Torn}]
    /\ hopes \subseteq Wallpaper \cup {Nothing}
    /\ {meddled, raced} \subseteq BOOLEAN
    /\ {starts, sets, crashes} \subseteq Nat

\* A daemon that serves is the one clients reach, so two never serve at once.
\* Except after two starts raced over a socket left by a crash: one binds between
\* the other's probe and its removal of what it probed.
ServesAtPath == raced \/ \A d \in Process : Serving(d) => path = d

\* A start puts back the wallpaper whose set was answered last, or one whose set
\* was never answered, wherever the daemon before it was killed.  Except when two
\* processes wrote the session file: a second start saves the session it loaded
\* before it learns that another daemon runs.  And except when two served at once:
\* each answers for the session it wrote last.
RestartRestores ==
    [][\A d \in Process : Start(d) => meddled \/ raced \/ session'[d] \in hopes]_vars

\* A daemon that is asked to stop comes to its end: no join waits for a thread
\* that waits for the daemon.
StopsWhenAsked == \A d \in Process : shutdown[d] ~> main[d] = "off"

\* What a client that asked for the end might expect, and the code does not
\* promise: the process may be gone before the connection thread has written.
KillIsAnswered ==
    [][\A d \in Process : conn[d].pc = "killed" /\ main[d] = "socket" => main'[d] # "off"]_vars
=============================================================================
