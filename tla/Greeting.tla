------------------------------ MODULE Greeting -------------------------------
(***************************************************************************)
(* What the daemon tells of itself: the handshake with its capabilities    *)
(* (owed/src/handler.rs hello, owe_ipc::protocol), the shell's status, the *)
(* outputs and what is on them (engine.rs shell_status, output_views), and *)
(* what the machine can decode (owe_media::probe, video.rs vaapi_status).  *)
(*                                                                         *)
(* A machine is what the media layer looks at: the tools on PATH, whether  *)
(* there is a render node, and how the device probe ended.                 *)
(***************************************************************************)
EXTENDS Shells, SequencesExt

Wire == INSTANCE Protocol WITH MAX_FRAME_BYTES <- 1

(***************************************************************************)
(* Methods.                                                                *)
(***************************************************************************)
ALL ==
    {"hello", "outputs.list", "wallpaper.set", "wallpaper.clear", "playback.cmd",
     "library.scan", "library.list", "library.thumb", "governor.policy", "governor.override",
     "stats.get", "config.get", "config.patch", "shell.status", "daemon.kill"}
IMPLEMENTED_METHODS == ALL \ {"governor.policy"}
KNOWN_BUT_NOT_YET == {"shader", "avif"}

(***************************************************************************)
(* Decoding.  A runtime is available when every tool it needs is there;    *)
(* `auto` takes the first available one, a named one is taken or refused.  *)
(***************************************************************************)
RUNTIMES == <<"gstreamer", "ffmpeg">>
RequiredTools(runtime) ==
    IF runtime = "gstreamer" THEN {"gst-launch-1.0", "gst-discoverer-1.0"}
    ELSE {"ffmpeg", "ffprobe"}
EveryTool == UNION {RequiredTools(r) : r \in ToSet(RUNTIMES)}

FindOnPath(tool, machine) == tool \in machine.tools
RuntimeAvailable(runtime, machine) ==
    \A tool \in RequiredTools(runtime) : FindOnPath(tool, machine)

AnyVideoRuntime(machine) == \E r \in ToSet(RUNTIMES) : RuntimeAvailable(r, machine)
MediaBackends(machine) ==
    <<"image">> \o SelectSeq(RUNTIMES, LAMBDA r : RuntimeAvailable(r, machine))

\* At most one runtime.
SelectRuntime(backend, machine) ==
    LET wanted == IF Trim(backend).word \in {"", Auto} THEN RUNTIMES ELSE <<Trim(backend).word>>
        usable == SelectSeq(wanted, LAMBDA r : r \in ToSet(RUNTIMES) /\ RuntimeAvailable(r, machine))
    IN  IF usable = <<>> THEN {} ELSE {Head(usable)}

\* Hardware is claimed only when a device initialised without a complaint.
VaapiAvailable(machine) ==
    machine.node /\ FindOnPath("ffmpeg", machine) /\ machine.probe = "clean"

ContentKinds(machine) ==
    {"static-image", "animated-image"} \cup (IF AnyVideoRuntime(machine) THEN {"video"} ELSE {})

\* Whether a clock can be started for a sound video: VideoDecoder::open.
OpensVideo(config, machine) ==
    /\ SelectRuntime(config.media_backend, machine) # {}
    /\ config.hw_decode_required => VaapiAvailable(machine)

(***************************************************************************)
(* The handshake.                                                          *)
(***************************************************************************)
Unavailable(machine) ==
    KNOWN_BUT_NOT_YET \cup ({"video"} \ ContentKinds(machine))

Capabilities(daemon) ==
    [methods |-> IMPLEMENTED_METHODS, shell_backends |-> Registered,
     content_kinds |-> ContentKinds(daemon.machine), media_backends |-> MediaBackends(daemon.machine),
     transitions |-> daemon.config.allow_transitions, unavailable |-> Unavailable(daemon.machine)]

\* hello: none when no version is shared.
HelloReply(versions, daemon) ==
    {[schema |-> schema, capabilities |-> Capabilities(daemon)] : schema \in Wire!Negotiate(versions)}

\* What every client of this repository offers.
Current == {[major |-> Wire!SCHEMA_MAJOR, minor |-> Wire!SCHEMA_MINOR]}

(***************************************************************************)
(* The shell's status: the selection made anew, every registered backend's *)
(* own word in the order of the chain, and who draws.                      *)
(***************************************************************************)
BackendRow(id, shell, session, selected) ==
    [id |-> id, confidence |-> Detection(id, session), selected |-> id = selected,
     mode |-> DrawMode(id, shell)]

ShellStatus(shell, session, patched) ==
    LET backend == Select(shell, Registered, session)
        order == Detections(shell, Registered)
        mode == IF backend = Nobody THEN "daemon-drawn" ELSE DrawMode(backend, shell)
    IN  [backend |-> backend, mode |-> mode, routed |-> mode = "shell-routed",
         backends |-> [i \in DOMAIN order |-> BackendRow(order[i], shell, session, backend)],
         detect_order |-> DetectOrder(shell), patched |-> patched]

(***************************************************************************)
(* The outputs: what this run put on each, what the session file records   *)
(* and is not on it, and how its worker is.  What is not there is {}.      *)
(***************************************************************************)
OutputView(output, shown, recorded, worker) ==
    [name |-> output.name, focused |-> output.focused, wallpaper |-> shown,
     recorded |-> recorded \ shown,
     state |-> IF worker = {} THEN {"idle"} ELSE worker,
     error |-> worker \cap {"failed"}]

OutputViews(daemon) ==
    {<<i, OutputView(daemon.outputs[i], daemon.applied[i], daemon.recorded[i], daemon.workers[i])>> :
        i \in {j \in DOMAIN daemon.outputs : daemon.outputs[j].active}}
=============================================================================
