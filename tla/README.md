# owe: a TLA+ verification project

owe is a live wallpaper daemon for Wayland. `owed` keeps the wallpapers of all
outputs, draws stills, transitions and moving wallpapers on layer-shell
surfaces (or asks the running shell to), follows hotplug events and answers
requests over a Unix socket; `owectl` and a small GUI are its clients. This
directory holds TLA+ modules that model the parts of it that are hard to get
right, TLC configurations that check them on small instances, and proofs that
hold for every value of the constants.

Paths below are relative to the repository; `engine.rs:1351` is
`src/crates/owed/src/engine.rs`, line 1351.

To check a run: `tlc -config OutputWorker.cfg OutputWorker`. To check proofs:
`tlapm M.tla` for each `M` in `OutputWorkerProofs`, `SupervisorProofs`, `EngineProofs`,
`DaemonProofs`, `RoutingProofs`, `LibraryProofs`, `PlaybackProofs`, `PresenterProofs`.

## 1. The system

### Components

| component | source | state it keeps | operations |
|---|---|---|---|
| per-output worker | `owe-core/worker.rs` | one state machine per output: Idle, Preparing, Presented, Reconfigured, Failed; the newest generation | apply, prepared, presented, configure, surface closed, failed, clear |
| supervisor | `owe-core/supervisor.rs` | a record per output: present, active, size, health, recent failures | observe a list (diff, events, expiry), record failure/success, forget |
| engine: applying | `owed/engine.rs` 1080-1700, 2190-2420 | outputs, workers, applied wallpapers, session, GPU lock, transition epoch and table, clock registry | set, clear, start, control of playback |
| engine: reconciling, hotplug thread | `owed/engine.rs` 2460-2760, `owed/hotplug.rs` | the daemon's output list; the event channel | reconcile, surface configured/closed, refresh, patch shell, restore |
| playback clock | `owed/playback.rs` | one thread per playing output: paused, speed, volume, loop range, position, pending seek | start, replace, stop, pause, seek, set speed and loop; the frame loop |
| presenter | `owe-render/surface.rs` | Wayland objects: a surface per output, parked presents, buffer slots, frame callbacks | present, clear, cancel, configure, closed, output added and removed |
| transition | `owe-render/transition.rs` | source and target picture, progress | render a frame, bake the current picture |
| IPC | `owe-ipc/{server,frame,protocol,client}.rs` | the socket, the connection count, the shutdown flag | bind, accept, read frame, answer, shut down |
| request handler | `owed/handler.rs` | shared references to the engine and the event bus | one method per request |
| session file | `owe-core/state.rs` | the JSON file and a temporary next to it | load, update, save |
| shell event bus | `owed/events.rs`, `owe-shell-hyprland/socket2.rs` | subscribers with bounded queues, a reconnecting reader | subscribe, publish, reconnect |
| shell backends | `owe-core/shell.rs`, `owe-shell-*/lib.rs` | the chosen backend and its draw mode | list outputs, set, patch |
| library, thumbnails | `owed/library.rs`, `owe-core/{library,thumbs}.rs` | the index of wallpapers, the thumbnail cache | scan, list, get, thumbnail |
| media | `owe-media/*.rs` | decoder processes, frame positions, the still cache | probe, decode, seek, evict |
| configuration and references | `owe-core/{config,outputs,output,model,path}.rs` | none | parse, match sections, resolve targets |
| coexistence | `owed/coexist.rs` | none | find and stop competing tools |
| GPU, golden images | `owe-render/{gpu,image,golden}.rs` | GPU objects | render, read back |
| startup and command lines | `owed/{main,cli}.rs`, `owectl/main.rs` | none | start in order, parse, print |
| GUI | `app/src-tauri/main.rs` | none of the wallpapers | a client of the IPC |

### Interactions

* Each IPC connection is a thread that calls `Engine` methods directly. There is
  no actor: requests meet in the engine's mutexes (`gpu`, `applied`,
  `session`, `outputs`, `workers`, `supervisor`, `transitions`, `clocks`),
  each held for part of a request. Only `gpu` spans several steps.
* The hotplug thread receives `PresenterEvent`s over a channel, drains a
  burst and calls the same engine methods.
* The presenter is a thread of its own; the engine sends it commands and
  waits for their answers under `Mutex<Presenter>`.
* A moving wallpaper has one thread per output, the clock, which takes the
  GPU and the presenter for every frame. The clock registry starts,
  replaces and stops clocks and waits for a stop 500 ms at most.
* Transition frames run on the request's thread, under the GPU lock, and are
  told to stop by an atomic epoch.
* The supervisor and the worker are pure state machines the engine drives.

### Hard behaviours and what makes each component correct

* **Worker.** Renders finish in any order, acknowledgements are late, surfaces
  are resized and closed in between. Correct: the newest generation wins, a
  worker that says Presented is right, one that works always stops.
* **Supervisor.** Output lists, failures and clock ticks in any order. Correct:
  records match the list, the budget is exact, failures stay with their output.
* **Applying.** Requests overtake each other at every lock; clocks draw late;
  any step fails. Correct: the session records only what was shown, the
  screen, table and session agree at rest, everybody is answered.
* **Reconciling.** The compositor changes while the daemon handles earlier
  changes, and two threads may reconcile at once. Correct: the daemon's list converges
  to the compositor's, wallpapers return, nothing is left of what went, and the
  daemon does not feed its own event queue.
* **Playback.** Commands race the frame loop, a stop races a frame, a seek races
  its timeout. Correct: a stopped clock draws no more, a seek is answered once and
  truthfully, a loop range never escapes.
* **Presenter.** A present parks on a first configure or a frame callback;
  clears, closes and removals meet it. Correct: every command is answered once,
  and an answer says what happened to that command's frame.
* **Startup and shutdown.** Two daemons start at once; one is killed at any
  moment; shutdown joins threads that wait for each other. Correct: one daemon
  serves per socket, what was answered survives a restart, a shutdown ends.
* **Session file.** The daemon stops between any two steps of a save. Correct: the
  next start puts back what a client was told, or what it was never told about.
* **Connections.** The socket cuts frames anywhere, calls time out, answers
  come late. Correct: answers follow requests, and a call tells what happened.
* **Event bus.** Lines are cut by timeouts and closes, subscribers are slow.
  Correct: nobody blocks the publisher, order is kept, losses are counted.
* **Media.** Decoders are processes that stall and die, animations are rewound with
  half their frames in a cache. Correct: a pass gives the file's frames once and
  in order, no process is left behind, a call returns when it is cancelled.
* **Library.** Scans, clients and a thumbnail worker share an index while people
  edit files and unmount folders. Correct: rows go only with their files, ids stay,
  a thumbnail is never older than its row.
* **Routing.** A mode is patched while OWE's own surfaces and clocks are there.
  Correct: what is recorded is what one sees.
* **Rules.** Sections, configuration, references, targets, requests and sizes
  are pure functions with many cases. Correct: what is accepted can be carried
  out, every front end means the same, pictures are placed as their mode says.

The list of single hazards, with lines, is `hazards` in `PROJECT.json`.

## 2. The modules

| module | models | state |
|---|---|---|
| `WorkerMachine` | `worker.rs`, one operator per event | none: an event maps a worker to a worker and an action |
| `ScreenSlot` | the promise: a screen moves to newer generations only | `newest`, `shown`, `floor` |
| `OutputWorker` | a worker with the drawing layer its documentation asks for | `worker`, requests, `jobs`, `wire`, `screen` |
| `OutputWorkerProofs` | proofs about `OutputWorker` | |
| `SupervisorOps` | `supervisor.rs`, pure | none: records, lists and actions as values |
| `Supervisor` | the supervisor under a caller that obeys it | `records`, `list`, `clock`, `drawn` |
| `SupervisorProofs` | proofs about `Supervisor` and `Hotplug` | |
| `Hotplug` | reconciliation with the hotplug thread, clients, the compositor | threads, tables, `events`, `gpu`, the compositor |
| `Engine` | set and clear with transitions and clocks | a `job` per request, tables, `gpu`, `epoch`, clocks |
| `EngineProofs` | proofs about `Engine` | |
| `MCEngine` | `Engine` from uniform starting states | |
| `Playback` | the frame clocks of one output and the requests that command them | the registry, what clocks and callers share, `clock`, `job`, the screen |
| `PlaybackProofs` | proofs about `Playback` | |
| `MCPlayback` | `Playback` with three frames, the last out of a seek's reach | |
| `Presenter` | the presenter thread, its callers and the compositor | `call`, `commands`; `surface`, `pending`, `waiter`; `layer`, `events` |
| `PresenterProofs` | proofs about `Presenter` | |
| `Routing` | who draws: OWE's surfaces or the shell, and the record of it | `mode`, `shell`, `surface`, clocks, tables, requests |
| `RoutingProofs` | proofs about `Routing` | |
| `AnimatedSource` | `animated.rs` with its frame cache, pure | none: the decoder's record as a value |
| `Media` | a decoder in the hands of the clock and of who cancels it, its processes | `source`, `video`, `child`, `helper`, `handle`, the reader |
| `Library`, `MCLibrary` | index, scans, thumbnail scheduler and worker, the people who edit files | `rows`, `job`, `queue`, `worker`, `cache`, the disk |
| `LibraryProofs` | proofs about `Library` and `Media` | |
| `Daemon` | startup, shutdown, socket and session file of several processes | where each `main` is, its threads, `path`, inodes |
| `DaemonProofs` | proofs about `Daemon`, `Connection` and `Events` | |
| `Protocol` | frames, versions, what a line is answered with, pure | none |
| `Connection` | one client and the thread that serves it | both ends, the bytes between them |
| `Events` | the shell's event stream, the listener, the bus | the wire, the pending read, queues |
| `MCStreams` | `Connection` and `Events` with small alphabets | |
| `Paths`, `Config`, `Outputs` | paths and references, what a configuration may say, sections and targets, pure | none |
| `Shells`, `Greeting` | shell backends; what the daemon tells of itself; pure | none |
| `Requests` | from a wish to requests to the engine's work or a refusal, pure | none |
| `Geometry` | where a picture goes, frames of a change, thumbnail sizes, pure | none |
| `MCRules` | questions to the pure modules and what the answers amount to | `question`, `answer` |

The pure modules build on each other: `Paths`, `Config`, `Outputs`, `Shells`,
`Greeting`, `Requests` extend one another in this order, as a request is read by
all of them. `Media` extends `AnimatedSource`, `Connection` extends `Protocol`,
`Hotplug` and `Supervisor` use `SupervisorOps`, `Presenter` and `OutputWorker`
refine `ScreenSlot`. `Engine` draws with an abstract presenter, `Routing` with an
abstract engine; each says in its head comment which steps it takes as one.

### WorkerMachine, OutputWorker, ScreenSlot

A worker is `[kind, gen, size, generation]`: the enum `WorkerState`, flattened,
and the newest generation. Every `on_*` method is one operator and returns the
new worker and the `WorkerAction`. `OutputWorker` is a drawing layer that obeys:
`Render` starts a job, `Present` puts a frame on the FIFO to the compositor.
Jobs finish or fail in any order, `Presented` and `PresentFailed` take the
next frame off the wire, `Clear` and `SurfaceClosed` blank the screen.
The layer is external to `worker.rs`: the engine of today drives its
workers synchronously, but the type promises more (worker.rs:21-26), and this
is what the model checks. `ScreenSlot` states it abstractly and
`NewestWins` is the refinement
(`newest <- worker.generation`, `shown <- screen.gen`).

### SupervisorOps, Supervisor

`Diff` is `diff_outputs` for one name; `OnEvent` is `on_event`; `Expire` is
`expire_window`; `ObserveSnapshot`, `RecordFailure` and `RecordSuccess` are the
methods of those names. Lists are keyed by name, as in the code, so a list is a
function and an entry that is not in it is `Unlisted`. `Supervisor` drives
them: lists arrive in order, each diffed against the last; failures are
reported only for outputs that are present and active, which is the code's own
guard; the caller spawns and tears down as told.

### Hotplug

Every thread (the hotplug thread and the clients') has a program counter and
the locals that live across locks: the burst, the list of before and after,
the jobs that are left (`todo`). `Receive` drains a burst; `HandleConfigured`,
`HandleClosed` and `PassOver` take up one event of it, as `handle_presenter_event`
and the loop of `hotplug.rs` do, and `Refresh` is the refresh at the end;
`Diffing`, `ObserveList`, `Republish` are `reconcile_outputs` cut at its locks;
`Present`/`Record` are `apply_with` cut at the GPU lock's ends; `BlankOutput`/`Drop`
and `BlankOutput`/`Unset` are a teardown and a clear. Jobs are a set: the code does
them in the order of the outputs' names, which says nothing about outputs, so any
order is allowed, but a half-done job is finished first (`Doing`). A change of
the compositor and the events it causes are one step. A failing step is `Fail` (an apply,
a record, a clear, a teardown's clear: only the teardown goes on) or, of a listing, part
of `Relist` and `HandleConfigured`. `Sectioned` are the outputs for which a section of the
configuration plans a wallpaper when the session does not. Which wallpaper an
output has plays no part, only whether it has one.

### Engine

A request is a thread and runs to an answer. A still image passes
`stop`, `halt`, `lock`, then for each output `change` and possibly
`animate`, then `record`; a moving one `stop`, then for each output `start` and
`await`, then `record`, and on failure `abandon`; a clear `stop`, `halt`,
`blank`, `unset`, `forget`. `StopTransition` moves the epoch; `Begin`,
`Blend`, `Complete`, `Superseded` are the loop of `animate`; `Due` and
`ShowFrame` are a clock past its stop check and its frame under the lock. A
picture is the set of wallpapers visible in it, so a blend is a set of two or more,
which is all that the properties tell apart.

### Playback

Every request is a thread with a program counter, every session (a start of a
clock) a clock thread with another. A request acquires the lifecycle lock, takes
the old session out of the registry, stops it and waits for it, but not for
longer than `STOP_TIMEOUT`; then it installs its own and waits for the first
frame. A command takes the lock of its session; a seek keeps it until it is
answered by a result of its own, by the end of the session or by its timeout.
A clock is cut where it lets go of the runtime lock: `TurnStop`, `TurnSeek`,
`TurnPull` are the order in which `wait_for_turn` looks at things, `Walk` is
one frame of `jump_to`, `Skip` and `Show` are `present_current` with its stop
check, `After` is the bookkeeping behind it. The session that plays before the
first request is `Boot`. A frame lasts a number of parts of a millisecond, `Milli` of
them to one (video.rs:541-546: a frame of video takes 1/fps seconds). `EndOf` is when it
ends, `Counted` is when the clock believes it does: `advance` and `jump_to` cut every
delay to whole milliseconds before they add it up (playback.rs:1240, 1327, 1344), and
`Wraps` and `PastTarget` look at that sum only. Wall-clock time is left out: a frame is due, a wait runs out, a decoder breaks or hangs at any moment,
which is why a wake-up that is lost (see the hazards) needs no modelling.

### Presenter

A call's number stands for its frame and for the surface it creates. `Ask` puts
a command on the channel, `GiveUp` is the end of a wait, which for a
`present_frame` is followed by a cancellation; `OneAtATime` is the engine's
`Mutex<Presenter>`. `HandlePresent`, `HandleClear` and `HandleCancel` are the
arms of `handle_command`, one step each with all they answer; the other `Handle*`
are the Wayland callbacks in the order the compositor sent their events.
`Outcomes` is `finish_present` with `upload` and `acquire_slot`: what may become of
a frame, from the surface as it is. A caller that still waits takes its answer in
the step that sends it: nothing else reads it, and no other call begins before.
The compositor is external. It sends a first configure for each layer, may close,
resize or unplug at any moment, repaints when it likes, and gives a buffer back
only after another one was committed. What `closed` takes off the screen is gone
before the presenter knows. `InOrder` is the refinement of `ScreenSlot`
(`newest` is the last call made, `shown` the frame of the live layer, `floor` the
last clear or end of a layer). Not modelled: connecting, a configure of zero size
(ignored by the code), the events to the daemon, which are `Hotplug`'s.

### Routing

With the Caelestia backend the draw mode decides who draws. A request is a
list of steps it still has to take: `apply_inner`'s routed branch calls the shell's
command line, records, stops the clocks and wipes OWE's surfaces, which lie above
the shell's; the daemon-drawn branch stops a clock, draws output by output and
records. `Patch` changes the mode at any time, `Restart` brings back the
configured mode and restores, an output may be unplugged and plugged in again at any
step of a request (the hotplug thread waits for the presenter only), the command line may
fail before or after it took effect, and so may clearing a surface, which ends a clear
(`Blank`) and is only logged by a routed request (`Wipe`). Drawing one output is one step here:
`Engine` and `Presenter` have its inside.

### AnimatedSource, Media

A frame is the index the decoder gives it and the container's frame whose
pixels it has; what can go wrong is that the two differ. `Opened` is the
pre-cache with the one frame over the cap kept aside, `Served`, `Pulled` and
`Rewound` are `next_frame` and `rewind`. `Media` adds `open_media`'s choice by
kind, `with_runtime` over the runtimes that are installed, the child process
with its pipe (it may write, end, die, or get stuck at any time), the probe with
a helper process that may keep a pipe open, and the second thread that cancels
through a handle taken once. Processes are external, as `video.rs` uses them.

### Library

A scan holds the service's lock from `CheckRoots` to `Commit`, but people do not
ask for it: they edit between the directories that `Walk` takes one at a time. A walk
passes over links and hidden names (`linked` is either) and, in silence, over an entry it
cannot read or look at (`failed` of `Listed`); a root's own name is not looked at, so a
linked root is walked unless it lies in another root. What could not be read is noted, and
the commit inserts, updates and deletes rows in one step. A directory is a root, or below one, or both, and directories nest once. `Lost`
is the reason a row may go: its file was deleted, or went with its directory; a root
that is gone is a mount that is missing. A file is a path and a version, which is also its stamp. `Thumb` reads a row
and puts a request on the channel; the worker takes the oldest, decides from `known`
and the cache, decodes and writes in separate steps, and answers a client that may
have given up. A crash empties what is in memory; the database and the
cache stay.

### Daemon

`main` walks through the order of `run()`: the engine with the session it loads,
restore (which saves), the event listener and hotplug threads, bind, serve, and the
joins of the shutdown; the scan and the other tools' end, which share nothing with
the rest, are left to `Library` and `Shells`. A save is a write to a
temporary and a rename, on inodes, so that two processes that write the same
temporary tear it as they would. `Serve`r's bind probes the path, removes what
does not answer and binds, in three steps. Every process may be killed between any
two steps. Session contents are one wallpaper.

### Protocol, Connection, Events

Bytes are units that know their message; `FrameDecoder` sees only newlines and
lengths. The client gives a call up when its read times out, and forgets what it
had read of the line; the server reads whatever has come. `Encoded` is what `write_reply`
may make of a reply: itself, or an internal error in its place. In `Events` a line is a
few pieces, and the reader may be cut between any two: a timeout drops what it
holds, a close ends it as a line. `MCStreams` runs the two one at a time, for they
share nothing.

### Paths to Requests, Geometry

Texts are words with a style (plain, spaced, in another case), JSON values are a
shape and a value, machines are the tools on PATH, a render node and the device
probe. `Requests` has `owectl`'s commands (`Ctl`), the application's (`Gui`) and a
request typed by hand (`Typed`), and the daemon's handler for each method: how it
reads parameters, what it refuses and with which code, and what it asks the
engine or the library to do. `MCRules` asks one question per step and states of
each answer what the documents promise: which section is in force, that an accepted
configuration can be carried out, that a wish ends in the same work whichever
front end carries it. A reference definition (`SectionsByTheBook`, the
intended fit of a picture) is written independently of the code's order of
steps. 2^32 is the constant `U32`, a thousand in the run, and a second
`MAX_PLAYBACK_SECONDS` of a thousand stands for a year.

History variables: `committed`, `answered` and `floor` in `Presenter`; `drawn`
and `landed` in `Playback` (sessions that showed a frame, seeks that were shown a frame
near their target), `overrun` (frames shown after a stop or a pause), `seen` (what was fully
shown on each screen) in `Engine`; `pass` in `Media` (frames given since the last
rewind); `hopes` in `Daemon` (what a restart may put back); `wrote`,
`cut` and `published` in `Events` (lines and the events made of them). `mishaps` in `Engine` and `Hotplug`,
`excused` in `Routing`, `meddled` and `raced` in `Daemon` and `cleared` in
`Library` are the adversities met so far. The daemon's steps are not atomic and
some overlaps do leave its tables in disagreement (section 6); a property about
agreement therefore says under which adversities it is claimed, instead of the
model leaving them out.

## 3. What the runs check

| run | question | bounds |
|---|---|---|
| `worker` | does the newest generation win, and does the worker stop? | 2 sizes, 2 generations, 1 job per generation and size, 2 frames on the wire |
| `supervisor` | are records, budget and isolation right? | 2 outputs, 2 sizes, budget 2, window 2 ticks, 3 ticks, 3 failures |
| `hotplug` | does the daemon's view converge, do wallpapers return, does it come to rest? | 2 outputs, 2 sizes, 1 client, 2 changes, 1 request, 2 of these and a failure together |
| `engine` | is what is recorded shown, is everybody answered? | 2 outputs, 2 stills and 1 moving wallpaper, 2 requests |
| `playback` | is a success true, is no clock lost hold of, does a stop stop? | 3 frames of one and a half milliseconds, a walk of 2, 2 seek targets, 2 loops, 2 requests besides a playing session |
| `presenter` | are answers single and true, do frames keep their order? | 1 output, 2 sizes, 2 buffers, 3 calls, 1 change by the compositor |
| `routing` | is what is recorded what one sees? | 2 outputs, 1 still, 1 moving wallpaper, 3 requests, 2 at a time, 3 faults |
| `media` | is a pass exact, is no process left, does a call end? | containers of 1 to 3 frames, caches of 0 to 3, 2 rewinds, all runtimes |
| `library` | do rows, ids and thumbnails say what the files said? | 2 files in nested roots, the inner one hidden or not, 2 clients, 2 edits, 3 requests, 1 crash |
| `daemon` | does one daemon serve, does a restart restore, does a shutdown end? | 2 processes, 2 wallpapers, 2 starts, 2 sets, 1 crash |
| `streams` | do answers follow requests, do subscribers see the stream? | 3 calls, frames of 3, reads of 4; 3 lines (events in either spelling, a blank one, one that is not UTF-8), a queue of 1, 1 reconnection |
| `rules` | sections, configurations, wishes, pictures | below |

Why the bounds are enough. *worker*: two generations and two sizes are what it
takes for a stale job, a stale acknowledgement and a resize in between, and
`requested` may deliver an old request again; the proofs lift the bounds.
*supervisor*: a budget of two and a window of two ticks within three put a
failure before, at and after the window's edge; two outputs are enough for
isolation, and there is nothing about one output that depends on a third.
*hotplug*: two changes are an unplug and a replug, or two changes in one burst;
a change and a patch are two threads that reconcile at the same time. One change or one
request beside any number of failing steps is what `MaxTogether` leaves of failures (they
count as one); with unlimited failures beside two changes the run has 2.1 million
states and its properties hold. *engine*: two
requests and two outputs are an interruption on the same output, on another and
on half of a request's target; with two stills and the wallpaper applied before
a blend of three is possible. `MCEngine` starts from the states where all outputs
have the same wallpaper, or none, and leaves the rest to symmetry of the daemon's
past: requests change outputs independently of what they showed, except for the
blend's source, which is per output.
*playback*: with a session that plays before, two requests are a replacement under a
command and two replacements that overtake a slow clock; with a walk of two
frames out of three a seek lands, or is refused, and a loop that begins at the
third frame ends its clock. Frames of 1.5 ms, counted as 1, are the smallest content on which
what the clock counts and when a frame ends part ways.
*presenter*: three calls are a parked present, one that takes its place or its buffer
and a clear; with two buffers the third frame reuses the first one's. Nothing in
the presenter relates two outputs. The run starts with the output there or not; a
second change (back to the old size, back from an unplug) is a larger instance of
the same cfg. `TypeOK NobodyWaitsInVain` and `NobodyParkedForever`, added to the
INVARIANTS and PROPERTIES of `Presenter.cfg`, hold as well: they are about callers that
wait and presents that stay parked. `InOrder` excepts a surface whose pool could
not be made: the code keeps its parked present, and draws it late (see the hazards).
`AnswersAreTrue` says that a frame was committed, not that it was on the screen: a
late frame callback answers whoever waits next.
*routing*: two requests at a time out of three are an overlap and one request
that nobody met, which takes an output out of doubt; three faults are a patch there,
a patch back and a restart or an unplug between.
*media*: caches below, at and above the file's length; a damaged frame in the cache,
just behind it or at the end; two rewinds show a pass after a pass that was
streamed.
*library*: a root inside a root, an edit before and after the walk passed, and
three requests: a scan, a thumbnail, and the same again after an edit.
*daemon*: two starts are two daemons at once, or a restart after a crash or a
shutdown; two sets are one that was answered and one that was not. A third start
would load what the second may have left, and the run starts with a file and
without one, and with the socket of a daemon that is gone and without.
*streams*: three frame lengths (fits, at the limit, over it) and reads that hold
more than a frame; a late answer under the next call; a line cut at each piece.
*rules*: all lists of up to three sections over four kinds of match and two lengths;
the default configuration with every one or two settings replaced, good or bad;
patches of up to two settings in all sessions; the wishes of either front end
against 6 daemons; 96 machines; pictures and screens of up to 4 by 4 in every
mode.

`TypeOK` (`HotplugTypes` in `Hotplug`) says more than types where there is more to say: of `Presenter` that the
compositor shows one surface of ours per output, of `Playback` who holds the
lifecycle lock and the command lock, of `Hotplug` and `Engine` who holds the GPU
lock, and when, of `OutputWorker` that only a worker with work or a picture has a
size. It is proved for every module whose properties are proved, and can be added to the cfg
of any other.

Deadlock is checked for `worker` and `supervisor`. The other systems stop when
their bounds are used up, and the cfg says so; that they do not stop before is what
`Settles`, `EveryRequestEnds`, `CallsEnd` and `StopsWhenAsked` check.

Every property of these runs is violated by at least one plausible mistake in
a definition it is about; the mistakes are operators beside the definitions
(`OnPreparedAnyGeneration`, `FreshAtWindow`, `SupersededIsDone`, ...), marked
as mutants, and listed in `PROJECT.json`.

The other cfgs, those of section 6, are run by hand and end with a counterexample.

## 4. Fairness

* `OutputWorker`: a started job ends, and the connection to the compositor is
  served. Weak fairness per job and for the wire. Clients and the compositor
  owe nothing.
* `Hotplug`: weak fairness for the steps of each thread: threads are scheduled
  by the operating system, and the GPU lock is held for a present
  and its record only. Nothing is assumed of the compositor or clients.
* `Engine`: weak fairness for the steps of each request's thread. Nothing is
  assumed of clocks, which may stall on a decoder; a request that waits for a first
  frame has a timeout in the code (playback.rs, `PlayFails`).
* `Presenter`: the thread takes what comes and the compositor configures a layer it
  keeps. It may never repaint, and callers need not stay.
* `Playback`: weak fairness for the steps of each request's thread: its waits all
  have timeouts. Nothing is assumed of clocks: a decoder or the sink may never
  return.
* `Media`: weak fairness for the reader's steps once they are possible, and for the
  decoder process: it goes on, ends, dies or gets stuck. A stuck process stays
  stuck, and a helper that holds a pipe may hold it for ever: `CallsEnd` names
  both.
* `Daemon`: weak fairness for each thread of each process. Nobody has to ask for
  anything; a process may be killed at any time.
* `Library`, `Routing`, `Connection`, `Events` and the rules have safety
  properties only, and no fairness.

## 5. What is proved

`OutputWorkerProofs`, for every set of sizes, every number of generations and
every bound, from `SizeAssumption` and `BoundAssumption`:

* `TypeCorrect`: `Spec => []TypeOK`.
* `WorkerTellsTruth`: `Spec => []PresentedIsOnScreen`.
* `WorkerNeverStranded`: `Spec => []BusyHasWork`.
* `NewestWinsAlways`: `Spec => NewestWins`, the refinement of `ScreenSlot`.

The inductive invariant `IInv` adds two facts to the checked ones.
`WireOrdered`: frames and blankings reach the compositor in the order of their
generations, and a frame behind a blanking is strictly newer. `WireInRange`:
nothing on the wire is older than the screen or than the last blanking, nor newer
than the worker, and while the worker is awake every blanking on the wire is older
than what it works on. Without the first, an acknowledgement could put an older
picture on the screen after a newer one; without the second, a clear still on the
wire could blank what the worker says is presented. The proof has a lemma per
event of the worker (what it returns), one per way to change the wire, and a
step per action.

`SupervisorProofs`, for every set of outputs and sizes, every budget, window and
bound, from `SupervisorAssumption` and `BoundAssumption`:

* `TypeCorrect`: `Spec => []TypeOK`.
* `HealthTellsTruth`: `Spec => []HealthMatchesHistory`.
* `NoGhosts`: `Spec => []NoGhostOutputs`.
* `FailuresStayHome`: `Spec => FailuresAreIsolated`.
* `BudgetExact`: `Spec => BudgetIsExact`.

Its `IInv` says of every output that its record matches its entry in the list
observed last (`Matches`), that a record that does not exist is blank, that its
health is right, and that the restarts it keeps are the end of what was reported
with nothing recent before it (`Dated`). The last is what the budget rests on:
the code counts what it kept, and drops from the front up to the first recent
one, so the count is right only because times are in order
(`KeptCountsRecent`). Three groups of lemmas lead there: what an end of a
sequence is and how a window shortens it, what an event, the window and a
failure do to one record, and what each method does to all of them.

It also holds the proofs about `Hotplug`, for every finite set of outputs, all sizes, any
number of clients, of the compositor's changes and of requests, from
`HotplugAssumption` and `SupervisorAssumption`:

* `HotplugTypesCorrect`: `HotplugSpec => []HotplugTypes`.
* `SnapshotSettlesAlways`: `HotplugSpec => []SnapshotSettles`.
* `DrawnAtSizeAlways`: `HotplugSpec => []DrawnAtSize`.
* `WallpaperReturnsAlways`: `HotplugSpec => []WallpaperReturns`.

`HotplugInv` argues about what the hotplug thread has still to take up, the rest of its
burst and the channel behind it (`Pending`), and about the list that will be in force
once it has published what it has in hand (`Believed`). Unless a refresh is owed that
list has the compositor's outputs (`ListsAgree`), and whoever begins with its sizes
and takes up what is pending ends with the sizes of the surfaces (`SizesAgree`,
`EndsWith`). At rest nothing is pending, so the lists are equal. A picture of the wrong
size is about to be drawn again or will be seen as a change of size, because the sizes
told for it differ (`PicturesHold`, `Mistaken`); that is so only if the list of
before is the list in force and the supervisor is in step with it, that is, if one
thread reconciles at a time (`ReconcilesAlone`). While nothing went wrong, an output
that waits for its wallpaper is named in a list to come, in a job, or in an event that
was not handled (`CalmHolds`, `Awaited`). The steps share what the four kinds of step
change: a thread's record, the events, the list in force, the screens.

The proof changed the model and two properties. The jobs of a reconciliation and the
first events came in one fixed order of the outputs, which says less than the code, where
any output may have any name; now every order is allowed. `DrawnAtSize` and `WallpaperReturns` had no exception for a
patch and the hotplug thread that reconcile at the same time and held on the
run's instance; the invariant could not be kept, and TLC, given a request
more, found why (section 6). Before it was proved, `HotplugInv` was checked with two
outputs, two sizes, two changes, two requests and three together, 8.2 million states.

`EngineProofs`, for every finite set of outputs, all sets of stills and moving
wallpapers and every number of requests, from `EngineAssumption`:

* `TypeCorrect`: `Spec => []TypeOK`, with who holds the GPU lock and when.
* `RecordedWasShownAlways`: `Spec => []RecordedWasShown`.
* `FactAtRestAlways`: `Spec => []FactAtRest`.

`Basics` is inductive by itself: the locals of a request have the form its place
says (`InForm`: which outputs are left, which are done), every clock that is used
belongs to the request that started it, and what is shown was seen. `Calm` says
more as long as `mishaps` is empty: who plays or clears has its outputs alone, a
clock has no frame of another clock in hand, and, for each output, either
it shows what is applied or one request is in charge of it and will see to that
(`Exact`, `InCharge`); tables and clocks agree but for what that request has left
(`Agreed`, `ClocksAgree`). The proof of a step follows one request through its
outputs: what is settled stays settled where nothing changes.

`DaemonProofs`, for every finite set of processes, all wallpapers and any number of
starts, sets and crashes, from `DaemonAssumption`:

* `TypeCorrect`: `Spec => []TypeOK`; that an unused inode exists is a counting argument.
* `ServesAtPathAlways`: `Spec => []ServesAtPath`.
* `RestartRestoresAlways`: `Spec => RestartRestores`.

`OneServes` says that unless two starts raced, a socket that is bound is its owner's,
and that who removes a stale one removes nobody's. `OneWrites` says that unless two
processes met, one process writes, to an inode that is not the session's, and what may
become the session is in `hopes`. The first form of `RestartRestores` had no exception
for `raced` and held on the run's instance; the proof failed, rightly: with more
requests, two daemons that serve at once each answer for their own writes.

It also holds the proofs about `Connection`, for any limit of a frame's length, any
requests and any way the bytes are cut, delayed or given up, from `FrameAssumption` and
`ConnectionAssumption`:

* `AnswersFollowRequestsAlways`: `ConnectionSpec => []AnswersFollowRequests`.
* `CallsTellTheTruthAlways`: `ConnectionSpec => []CallsTellTheTruth`.

What the server has read and what is on its way are together the lines of the requests
not yet taken, each with the place where it ends (`Holds`), so that the next newline
ends the next request (`NextFrameIs`) and every answer is what its request is due
(`DueFixed`: later requests do not change that) or, when that cannot be encoded, an
internal error, which tells the client nothing of what was done (`EncodedIs`). On the way back, whatever the client
has or is sent belongs to replies that were made, in order, and a whole reply whose id is
that of the last request is that request's (`ReadingIs`), so what a call that was given
up leaves behind is never taken for an answer. The proof stopped at `Handled`, whose CASE
had guards that overlap: such a CASE has an unspecified value in TLA+, though TLC takes
the first. It is a chain of IFs now, as the code's early returns are, and four
operators of the pure modules with the same weakness were put right.

And the proof about `Events`, for every finite set of subscribers, any capacity of their
queues, any number of lines and connections, from `EventsAssumption` and
`ShellAssumption`:

* `StreamIsSeen`: `EventsSpec => []SubscribersSeeTheStream`.

What the listener holds, what is on the wire and what the shell has still to write are
one sequence (`Flow`). Its pieces are in the order of their lines, and two of them are of
one line just when no newline lies between them (`InRows`); a line that was not cut and has
a piece there is there in full (`Entire`). So what is held when a newline comes next is what
the shell wrote (`LineAsWritten`), or was cut. What was published came from lines before
those on their way (`TurnsHold`). On the other side a subscriber's events, read and queued,
are among those published while it was there, and an event nobody had room for adds to the
count exactly those it was not handed to. `ShellAssumption` says no more than
that a line is text without a newline: what is published is what `ParseLine` makes of the
line as written, in whatever spelling, and `Noise` is what it makes nothing of. That an
event survives its own spelling (`ToWire`, which only socket2.rs's `replay` uses) is not needed;
`MCStreams` has TLC evaluate it on samples of every kind (`EventsSurvive`). Two things were changed for the proof. A line is cut by
the places of its commas, no longer by a recursive operator. And the losses were a sum of
differences of lengths, in which one subscriber's miss and another's event out of nowhere
would have cancelled; they are now counted event by event, and no subscriber is handed
what was not offered to it.

`RoutingProofs`, for every finite set of outputs, all wallpapers, any number of
requests at a time and of faults, from `RoutingAssumption`:

* `TypeCorrect`: `Spec => []TypeOK`.
* `RecordIsVisibleAlways`: `Spec => []RecordIsVisible`.

The invariant says what a request that met nobody has achieved when these are the
steps it has left (`Stage`, one disjunct per rest of a plan): outside its outputs, what
is recorded is visible; inside, what is drawn is its wallpaper, and what it will
clear has no clock that could draw again. Requests that met, and a request that met the going of one of its outputs, left every
output in doubt (`excused`), and a request that met nobody takes its outputs out of it.
An output that is away has no surface and no clock, and no record or one in doubt
(`Apart`); one that comes back during a routed request, which is for all that were there
when it was made, still is so when the request ends (`Fresh`).

`LibraryProofs`, for every layout of roots and directories that nest once, all sets
of clients and files, and every number of edits, requests and crashes, from `Layout`,
`Bounds` and `NobodyIsFree`:

* `TypeCorrect`: `Spec => []TypeOK`.
* `ThumbIsTrueAlways`: `Spec => []ThumbIsTrue`.
* `IdsAreStableAlways`: `Spec => IdsAreStable`.
* `RowsAreTrueAlways`: `Spec => RowsAreTrue`.

Two arguments are carried along. Nothing in the index, on the channel or in the cache
is newer than its file, and what is said to show a version shows that one or a later
one (`RowsHold`, `CacheHolds`, `QueueHolds`, `WorkerHolds`). A scan that met no trouble
has listed, or has on its stack, every directory below a readable root (`Surveyed`,
`Covered`) but for those it passes over (`PassedOver`), so that a file it did not see was
`Lost` at some time since it began, or lies in one of these. The
second argument showed that the run's property had to excuse files that went with
their directory, which its two directories, both roots, could not show.

It also holds the proofs about `Media`, for any container, cache and candidates, from
`MediaAssumption`:

* `PassIsExactAlways`: `MediaSpec => []PassIsExact`.
* `NoOrphansAlways`: `MediaSpec => []NoOrphans`.

For pictures the place of the decoder is the number of frames given, whatever mixture
of cache and container they came from; for video, what is not written yet, what is in
the pipe and what was given make up the container. A child that lives is in somebody's
hands, which is what a drop, a refusal and an end rely on. The passes after the first of an
animation that fits its cache in part are excepted, see section 6.

`PlaybackProofs`, for any content (frames and how long each is shown), any budget of a
walk, all seek targets and loops and every number of requests, from
`PlaybackAssumption`:

* `TypeCorrect`: `Spec => []TypeOK`, with who holds the two locks.
* `AnswersAreTrueAlways`: `Spec => []AnswersAreTrue`.
* `NoLeakedClockAlways`: `Spec => []NoLeakedClock`.
* `FreezesAtOnceAlways`: `Spec => []FreezesAtOnce`.

`SessionHolds` is about a clock and what it shares: a walk has pulled no frame that
ends after its target as the clock counts, so the one it stops at is `Near` the target
(`Walked`): what was counted of the frames before it is less than what they last by
less than a millisecond each (`Drift`), and by nothing when delays are whole; what the
session tells its callers has happened (`Told`); a frame too many was shown only by a
clock that is about to end, or has none in hand (`Overran`). `Rightly` is about a
request: while it waits for a seek, no result in its session is of a newer one
(`Within`), because a seek keeps the session's command lock, so the result it accepts
for being new enough is its own; and a start has no clock until its session is in the
registry. `lifecycle # Nobody => registered = Nobody` is why a replacement leaks nothing:
between taking a session out and installing the next, nothing runs unstopped. That
`EndOf` and `Counted`, recursive functions, satisfy their equations is shown with the least
frame for which it would not (`LeastMember`).

`PresenterProofs`, for every set of outputs and sizes, any number of buffers, calls and
changes of the compositor, from `PresenterAssumption`:

* `TypeCorrect`: `Spec => []TypeOK`, with one surface per output on the screen.
* `AnswersAreTrueAlways`: `Spec => []AnswersAreTrue`.
* `AnsweredOnceAlways`: `Spec => []AnsweredOnce`.
* `ReadIsNotWrittenAlways`: `Spec => ReadIsNotWritten`.
* `InOrderAlways`: `Spec => InOrder`, the refinement of `ScreenSlot` per output.

A call has one place after another: on the channel, parked or waiting, answered. That
is what `AnsweredOnce` needs: whoever is parked or waits is `Owed` its answer, and whoever
is on the channel has been given nothing (`CallHolds`). `Past` says that a call was taken
and everything that still waits on the channel is newer. It holds of every frame that
was committed, of the floor of an output and of its surface, and it is what the order of
frames rests on: a present that is taken is newer than what it replaces, and a parked one
meets a surface without a size, which shows nothing. That last fact fails for a surface
that lost its pool, and `InOrder` excuses it for that reason. A layer that lives is that
of our surface, so a surface that was lost or cleared cannot come back, and every buffer
it may read is in a slot marked busy (`LayerHolds`), which is `ReadIsNotWritten`.
The proof has a lemma per handler and per action of the compositor, on top of what an
outcome of a present is (`OutcomeFacts`) and what a step may do to one call (`Moves`).

What stays with TLC: liveness (`WorkEnds`, `Settles`, `EveryRequestEnds`, `CallsEnd`,
`StopsWhenAsked`, `NobodyParkedForever`), which rests on fairness and so on ENABLED;
and the properties of `MCRules`, which compare answers that are computed with folds over
lists and settings, so that their proofs are inductions over data.

## 6. Where the code and its documents disagree

Each of these has a cfg that TLC ends with a counterexample.

* `HotplugReplug.cfg` (`ReplugRestores`): an output unplugged and plugged in again
  within one burst is in the lists of before and after, so nothing is ordered and
  nothing is drawn on its new surface; PRD-F-08 says a replug restores.
* `HotplugBoot.cfg` (`UnpluggedIsTornDown`): an output present at startup has no
  supervision record, so its first unplug orders no teardown; supervisor.rs:13-15
  says it is torn down.
* `EngineIsolation.cfg` (`SupersededByItsOwn`): the transition epoch is shared, so
  a request for one output ends an animation on another; FR-CORE-3 says a set never
  disturbs others.
* `EngineSnap.cfg` (`NoSnap`): an interrupting change blends from the wallpaper
  applied before and not from the blend on the screen, because the entry it would
  take over is removed before it looks; BACKEND-DESIGN.md:208 says there is no
  snap.
* `PlaybackPosition.cfg` (`PositionIsOnScreen`): a seek out of reach is refused, but
  the clock starts over without showing anything: a paused clock reports the first
  frame while the screen has another; playback.rs:302 documents the position as
  "Index of the frame on screen".
  With `-continue` the same cfg shows `SeekIsExact` violated: jump_to's comments say
  that the walk ends at "the frame whose slot contains `target_ms`", and with delays that
  are no whole milliseconds it goes on to a later one; at 60 frames a second the
  position falls behind by 40 ms in every second. `AnswersAreTrue` claims what remains.
* `MediaRewind.cfg` (`FramesInOrder`): an animation that does not fit its cache,
  rewound, serves its cached head and then the container's first frames again under
  the next indices; `MediaSource::next_frame` promises "The next frame in
  presentation order" (owe-media/lib.rs).
* `DaemonKill.cfg` (`KillIsAnswered`): `daemon.kill` asks for the shutdown before its
  reply is written, and the process may be gone first.
* `LibraryUnmounted.cfg` (`RowsSurvive`): a folder below a root that cannot be read, or
  whose mount is missing, loses its rows at the next scan; library.rs:20-29 says
  "Rows are only removed when their directory was actually readable during this scan".
  With `OuterCoversInner` in the place of `RowsSurvive` it ends with another one: a root
  inside another that is hidden, or a link, is walked neither on its own nor from the outer
  root, and its rows go although the scan reports no trouble; the comment of `scan` says
  "Walking the outer root already covers the inner one" (library.rs:379). An entry that
  cannot be looked at loses its rows in silence (library.rs:475, 481).
* `RulesVideo.cfg` (`ListedCanBeSet`): `content_kinds` lists videos as soon as any
  runtime is there, while `media.backend` may name the other one or
  `hw_decode_required` may refuse; engine.rs:2725-2729 says "a kind advertised here
  is a kind `wallpaper.set` accepts".

The properties of the runs except the following by name.

* *Reconciling.* `patch_shell` reconciles under `shell_patch` only (engine.rs:907), the
  hotplug thread under no lock (2641, 2684), so one replaces the list the other
  compared with. A patch that listed a new output publishes it; before it draws there, a
  surface configured elsewhere makes the hotplug thread publish its older list, the
  patch's apply finds the output unlisted and fails, the patch publishes its list again,
  and the refresh finds no difference: the output stays without its wallpaper, though
  FR-LIB-4 says a new output receives its wallpaper. `ReturnsAnyway` of `Hotplug` states
  it; as an INVARIANT with two outputs, one size, one client, `MaxChanges = 1`,
  `MaxRequests = 2` and `MaxTogether = 3` it ends with the counterexample. A picture of the
  old size can stay in the same way, with one output, two sizes, three changes and
  four requests.
* *Engine.* A clear that overlaps a set, a request that fails after its first
  output and a clock that outlives its stop leave screen, table and session in
  disagreement (`mishaps` of `FactAtRest`).
* *Routing.* `clear_presented_outputs` only tries the presenter's lock: when it is
  taken, OWE's surface stays over the shell's new wallpaper and the answer is a
  success. In routed mode a target of one output among several is refused, so
  `restore` and hotplug, which apply output by output, fail with two outputs or
  more; the comment of `record_applied` (engine.rs:1680-1686) assumes they work.
  Nothing serialises two routed requests, and a record that cannot be saved
  leaves the shell changed. An output unplugged between `route_to_shell` and
  `record_applied`, or between its drawing and its record, is recorded again after its
  teardown forgot it; once another request has changed the shell and the output is back,
  the daemon tells of a wallpaper nobody sees. A surface that cannot be cleared stays
  over the shell's wallpaper (logged only, engine.rs:1549), and ends a clear after its
  clocks were stopped, with the records as they were (2389).
* *Daemon.* The bind's comment (server.rs:112) says "so two daemons cannot fight
  over one socket"; two starts over a socket a crash left can (`raced`). state.rs:14
  says writes are atomic; the temporary has one name, so two daemons can tear it
  (`meddled`), and the second daemon saves its session before it learns, at the
  bind, that another one runs.
* *Connection.* After a call timed out, its late reply makes the next calls fail, with
  an id that does not match: `CallsTellTheTruth` claims successes and refusals, not
  failures, and a call reported as failed may have been carried out. So may one whose reply is too
  long to be encoded, which is answered with an internal error. The decoder takes
  a line of the maximum plus its newline where the comment counts the newline in.
  The server's writes have no timeout.
* *Events.* A read that times out in a line drops its head; the tail is then read as a
  line, so a title that contains `fullscreen>>1` may become an event, although
  socket2.rs says of a broken line "It is never guessed at". A full queue drops the
  newest event, where `subscribe` says the oldest. A line that is not UTF-8 ends the
  connection.
* *Media.* The clock takes its cancellation handle once; a video's rewind makes a new
  process that the old handle does not reach (`Stale` in `CallsEnd`). `run_bounded`
  kills its child at the deadline, then joins pipe readers that a grandchild may
  hold open (`helper`).
* *Library.* Ids are reused after a deletion, `list` and its count are two
  acquisitions of the lock, a cached thumbnail is not looked at again and a failure
  is remembered for the daemon's life.
* *Rules.* Holding is daemon-wide, though `owectl pause` says per output; the page
  length is 50 from `owectl` and 100 where a request leaves it out; playback and
  statistics take an output's name literally where a set resolves it; rates of 2^32 and more are
  cut; a section's transition is not held against the allowed names; defaults are
  not validated when there is no file; without HOME `owectl` gives up where the
  application still finds the socket; "Every section that matched and lost is
  returned" (outputs.rs) does not cover keys that differ in letter case only;
  `Capabilities.transitions` is in the configuration's order, not the catalogue's;
  `governor.policy` is known and not implemented.
* *Transitions.* A change that is taken over uploads the new picture with the old
  picture's size before the size is updated (transition.rs `retarget`,
  `upload_image`): `PicturesKeepTheirPromise` claims pictures of one size. The
  engine gets there only when an entry is inserted after another request ended
  transitions.
* *Front ends*, seen while reading and not modelled: the application shows
  `buffer_bytes`, which is always 0, while the reply has `cache_bytes`; `owectl`'s
  rendering of a shell patch looks for a key the reply does not have.

## 7. What is not modelled, and the plan

Out of reach or without state: pixels and shaders, codecs, process scans, database
migrations, JSON's encoding, printing, the application's windows.

Abstracted in the modules above: the pacing of clocks and the numbers of their
statistics, decoding and validation that fail before anything changes,
powered-off outputs and scale, the connection count (it is reported only),
cancellation of a clock's frame wait. The composition is by abstraction: no run
puts two of the concurrent modules together in full.

Next, in this order:

1. More theorems where there are proofs: what `RowsAreTrue` needs of row ids, the
   abstract promise of a start in `Playback`.
2. Lemmas about the pure modules: `Protocol` (`Negotiate`), `Outputs` (the section in
   force), `Geometry`; that `ParseLine` undoes `ToWire`, which TLC checks on samples.
3. Larger instances: two clients in `Hotplug`, with `ReturnsAnyway`.
