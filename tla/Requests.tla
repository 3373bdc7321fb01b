------------------------------ MODULE Requests ------------------------------
(***************************************************************************)
(* What a user's wish becomes: owectl's arguments and the graphical        *)
(* application's commands, the requests they send, and what the daemon's   *)
(* handler makes of each (owed/src/handler.rs).                            *)
(*                                                                         *)
(* A request's parameters are a function from the keys that are present;   *)
(* a JSON value is [shape, value].  A daemon is what the handler looks at: *)
(* its outputs and what is on them, the names that are playing, the rows   *)
(* of its index, the shell's settings and the machine.                     *)
(***************************************************************************)
EXTENDS Greeting, TLC

CONSTANT ENV                    \* the environment paths are read in

MAX_PAGE == 500
Nothing == <<>>                 \* no parameters
Request(method, params) == [method |-> method, params |-> params]
Given(params, key) == IF key \in DOMAIN params THEN {params[key]} ELSE {}
The(optional, default) == IF optional = {} THEN default ELSE CHOOSE v \in optional : TRUE
Key(key, optional) == IF optional = {} THEN Nothing ELSE key :> The(optional, Nothing)

Str(value) == [shape |-> "string", value |-> value]
Obj(value) == [shape |-> "object", value |-> value]
Null == [shape |-> "null"]

(***************************************************************************)
(* Reading the parameters.  A reading is a set of at most one value: none  *)
(* is BAD_REQUEST.                                                         *)
(***************************************************************************)
Stripped(ref) == [ref EXCEPT !.form = "stripped"]
Prefixed(key, value) ==
    CASE key = "library_id" -> [value EXCEPT !.form = "library:"]
      [] key = "name" -> [value EXCEPT !.form = "shader:"]
      [] OTHER -> value

SourceReference(source) ==
    IF source.shape = "string"
    THEN IF source.value.form = "blank" THEN {} ELSE {source.value}
    ELSE LET keys == DOMAIN source.value \cap {"path", "library_id", "name"}
         IN  IF Cardinality(keys) = 1 THEN {Prefixed(key, source.value[key]) : key \in keys}
             ELSE {}

DefaultTransition == [name |-> Plain("fade"), duration_ms |-> 300, fps |-> 60]

ParseTransition(value) ==
    IF value.shape = "string" THEN {[DefaultTransition EXCEPT !.name = value.value]}
    ELSE IF "name" \notin DOMAIN value.value \/ The(Given(value.value, "fps"), 0) >= U32 THEN {}
    ELSE {value.value @@ DefaultTransition}

\* What follows an optional transition: absent is fine, unreadable is not.
Transitions(params) ==
    IF "transition" \notin DOMAIN params THEN {{}}
    ELSE {{t} : t \in ParseTransition(params.transition)}

\* Mutant: a change that names no output goes to the focused one.
TargetedFocused(params) == The(Given(params, "output"), Plain("focused"))

Targeted(params) == The(Given(params, "output"), Plain("all"))

\* PlaybackCmd::parse with time_of and range_of, times in seconds.
MAX_PLAYBACK_SECONDS == 1000
ParsePlayback(cmd) ==
    IF cmd.shape = "string"
    THEN IF cmd.value \in {"play", "pause"} THEN {[verb |-> cmd.value, times |-> <<>>]} ELSE {}
    ELSE LET verb == CHOOSE key \in DOMAIN cmd.value : TRUE
             times == cmd.value[verb]
         IN  IF /\ Cardinality(DOMAIN cmd.value) = 1
                /\ \/ verb = "seek" /\ Len(times) = 1
                   \/ verb = "loop" /\ Len(times) = 2 /\ times[1] < times[2]
                /\ \A i \in DOMAIN times : times[i] \in 0..MAX_PLAYBACK_SECONDS
             THEN {[verb |-> verb, times |-> times]} ELSE {}

(***************************************************************************)
(* What a request did: its answer's code and the effects it had, each the  *)
(* verb, the outputs it reached (their positions) and with what.           *)
(***************************************************************************)
Did(verb, outputs, with) == [verb |-> verb, outputs |-> outputs, with |-> with]
Ok(effects) == [code |-> "ok", effects |-> effects]
Fails(code) == [code |-> code, effects |-> <<>>]

\* engine_error: the code a refusal is answered with.
EngineError(refusal) ==
    CASE refusal \in {"target"} -> "OUTPUT_UNKNOWN"
      [] refusal \in {"media_io", "library", "not_playing"} -> "NOT_FOUND"
      [] refusal \in {"media_kind", "unsupported", "refused"} -> "UNSUPPORTED"
      [] refusal \in {"media", "model", "transition", "decode"} -> "BAD_REQUEST"
      [] refusal \in {"config", "selection"} -> "CONFIG_INVALID"
      [] refusal \in {"busy", "superseded"} -> "BUSY"
      [] OTHER -> "INTERNAL"

Active(daemon) == {i \in DOMAIN daemon.outputs : daemon.outputs[i].active}
Backend(daemon) == Select(daemon.shell, Registered, daemon.session)

\* Where the shell is told the wallpaper is: a path that waits for its
\* variable is still relative.
Place(ref, daemon) ==
    IF ref.form # "path" THEN "itself"
    ELSE WallpaperPlace(Expanded(ref.path, ENV)[1], The(daemon.shell.wallpapers_dir, Nothing), ENV)

\* Engine::apply_inner up to the drawing, with route_to_shell: the request is
\* looked at before the session, the outputs before the file.
ApplyRefused(ref, transition, spec, daemon) ==
    LET reached == ResolveTarget(daemon.outputs, spec)
        routed == Routed(Backend(daemon), daemon.shell)
    IN  IF Parsed(ref, ENV).source = "error" THEN "model"
        ELSE IF ref.form = "library:" /\ ref.id \notin daemon.ids THEN "library"
        ELSE IF ref.form = "shader:" THEN "unsupported"
        ELSE IF \E t \in transition : ~EngineAllows(t, daemon.config) THEN "transition"
        ELSE IF Backend(daemon) = Nobody THEN "selection"
        ELSE IF reached = {} THEN "target"
        ELSE IF routed /\ ~ShellApplies(reached = Active(daemon), daemon.session,
                                        Place(ref, daemon), ref.exists) THEN "shell"
        ELSE IF ~routed /\ ~ref.exists THEN "media_io"
        ELSE IF ~routed /\ KindOf(ref.suffix) \notin ContentKinds(daemon.machine)
                        /\ ref.form = "path" THEN "unsupported"
        ELSE IF ~routed /\ KindOf(ref.suffix) = "video"
                        /\ ~OpensVideo(daemon.config, daemon.machine) THEN "decode"
        ELSE "none"

WallpaperSet(params, daemon) ==
    LET readings == {<<ref, t>> : ref \in SourceReference(params.source), t \in Transitions(params)}
        spec == Targeted(params)
    IN  IF readings = {} THEN Fails("BAD_REQUEST")
        ELSE LET reading == The(readings, Nothing)
                 refusal == ApplyRefused(reading[1], reading[2], spec, daemon)
             IN  IF refusal # "none" THEN Fails(EngineError(refusal))
                 ELSE Ok(<<Did("set", ResolveTarget(daemon.outputs, spec), reading)>>)

WallpaperClear(params, daemon) ==
    LET reached == ResolveTarget(daemon.outputs, Targeted(params))
    IN  IF Backend(daemon) = Nobody THEN Fails(EngineError("selection"))
        ELSE IF reached = {} THEN Fails(EngineError("target"))
        ELSE IF ~ShellClears(Backend(daemon), daemon.shell) THEN Fails(EngineError("shell"))
        ELSE Ok(<<Did("clear", reached, Nothing)>>)

\* The outputs a playback command is sent to, by name: "all" is what plays, a
\* name is taken literally.
Literal(daemon, spec) == {i \in DOMAIN daemon.outputs : daemon.outputs[i].name = Trim(spec)}
IsAll(spec) == Target(spec) = "all"

\* One output at a time, up to the first that refuses.
PlaybackCommand(params, daemon) ==
    LET spec == Targeted(params)
        cmds == ParsePlayback(params.cmd)
        reached == IF IsAll(spec) THEN daemon.playing ELSE Literal(daemon, spec) \cap daemon.playing
        cmd == The(cmds, Nothing)
        refusing == IF cmd.verb = "seek" THEN daemon.refuses \cap reached ELSE {}
        before == {i \in reached : \A j \in refusing : i < j}
    IN  IF cmds = {} THEN Fails("BAD_REQUEST")
        ELSE IF reached = {} THEN Fails(EngineError("not_playing"))
        ELSE [code |-> IF refusing = {} THEN "ok" ELSE EngineError("refused"),
              effects |-> IF before = {} THEN <<>> ELSE <<Did(cmd.verb, before, cmd.times)>>]

StatsGet(params, daemon) ==
    LET spec == Targeted(params)
        shown == IF IsAll(spec) THEN Active(daemon) ELSE Literal(daemon, spec) \cap Active(daemon)
    IN  IF Backend(daemon) = Nobody THEN Fails(EngineError("selection"))
        ELSE IF shown = {} /\ ~IsAll(spec) THEN Fails("OUTPUT_UNKNOWN")
        ELSE Ok(<<Did("stats", shown, Nothing)>>)

\* The override holds every clock: the output is only logged.
GovernorOverride(params, daemon) ==
    LET every == DOMAIN daemon.outputs
    IN  CASE params.policy \in {"pause", "paused"} -> Ok(<<Did("hold", every, Nothing)>>)
          [] params.policy \in {"auto", "resume", "running"} -> Ok(<<Did("release", every, Nothing)>>)
          [] OTHER -> Fails("BAD_REQUEST")

PathReads(path) == Expands(path, ENV)
LibraryScan(params, daemon) ==
    LET paths == The(Given(params, "paths"), <<>>)
    IN  IF \A i \in DOMAIN paths : PathReads(paths[i])
        THEN Ok(<<Did("scan", {}, Given(params, "paths"))>>) ELSE Fails("BAD_REQUEST")

\* The rows of a page, numbered from 1; the product saturates at 32 bits.
Clamped(n, low, high) == IF n < low THEN low ELSE IF n > high THEN high ELSE n
Offset(page, per_page) == Clamped((page - 1) * per_page, 0, U32 - 1)
Rows(offset, limit, total) == {r \in 1..total : offset < r /\ r <= offset + limit}
DivCeil(n, d) == (n + d - 1) \div d

\* The scan comes first: it is done even for a list that is then refused.
LibraryList(params, daemon) ==
    LET per_page == Clamped(The(Given(params, "per_page"), 100), 1, MAX_PAGE)
        page == Clamped(The(Given(params, "page"), 1), 1, U32 - 1)
        scans == The(Given(params, "scan_if_empty"), FALSE) /\ daemon.rows = 0
        scanned == IF scans THEN <<Did("scan", {}, {})>> ELSE <<>>
        total == IF scans THEN daemon.found ELSE daemon.rows
        shown == Did("page", {},
                     [rows |-> Rows(Offset(page, per_page), per_page, total),
                      pages |-> DivCeil(total, per_page),
                      where |-> [key \in {"filter", "dir", "kind"} |-> Given(params, key)]])
    IN  IF \/ \E kind \in Given(params, "kind") : kind \notin Kinds \cup {"plugin"}
           \/ \E dir \in Given(params, "dir") : ~PathReads(dir)
        THEN [code |-> "BAD_REQUEST", effects |-> scanned]
        ELSE Ok(Append(scanned, shown))

LibraryThumb(params, daemon) ==
    IF params.id \in daemon.ids THEN Ok(<<Did("thumb", {}, params.id)>>) ELSE Fails("NOT_FOUND")

\* A null setting is one that is not there.
ConfigPatch(params, daemon) ==
    LET named == {key \in DOMAIN params.patch : params.patch[key] # Null}
        patch == [key \in named |-> params.patch[key].value]
        refusal == PatchRefusal(daemon.shell, patch, daemon.config, Registered,
                                daemon.session, ENV)
    IN  CASE named = {} -> Fails("BAD_REQUEST")
          [] named # {} /\ refusal = "none" ->
                Ok(<<Did("patch", {}, Patched(daemon.shell, patch))>>)
          [] OTHER -> Fails(EngineError(refusal))

Hello(params, daemon) ==
    LET replies == HelloReply(params.schema, daemon)
    IN  IF replies = {} THEN Fails("UNSUPPORTED")
        ELSE Ok(<<Did("hello", {}, The(replies, Nothing))>>)

OutputsList(daemon) ==
    IF Backend(daemon) = Nobody THEN Fails(EngineError("selection"))
    ELSE Ok(<<Did("outputs", Active(daemon), OutputViews(daemon))>>)

GetShellStatus(daemon) ==
    Ok(<<Did("status", {}, ShellStatus(daemon.shell, daemon.session, daemon.patched))>>)

\* The settings in force: the file's, the shell's as patched.
ConfigGet(daemon) == Ok(<<Did("config", {}, daemon.shell @@ daemon.config)>>)

DaemonKill == Ok(<<Did("kill", {}, Nothing)>>)

Handle(request, daemon) ==
    LET params == request.params
    IN  CASE request.method = "wallpaper.set" -> WallpaperSet(params, daemon)
          [] request.method = "wallpaper.clear" -> WallpaperClear(params, daemon)
          [] request.method = "playback.cmd" -> PlaybackCommand(params, daemon)
          [] request.method = "stats.get" -> StatsGet(params, daemon)
          [] request.method = "governor.override" -> GovernorOverride(params, daemon)
          [] request.method = "library.list" -> LibraryList(params, daemon)
          [] request.method = "library.scan" -> LibraryScan(params, daemon)
          [] request.method = "library.thumb" -> LibraryThumb(params, daemon)
          [] request.method = "config.patch" -> ConfigPatch(params, daemon)
          [] request.method = "hello" -> Hello(params, daemon)
          [] request.method = "outputs.list" -> OutputsList(daemon)
          [] request.method = "shell.status" -> GetShellStatus(daemon)
          [] request.method = "config.get" -> ConfigGet(daemon)
          [] request.method = "daemon.kill" -> DaemonKill
          [] OTHER -> Fails("UNSUPPORTED")

(***************************************************************************)
(* The front ends.  A wish says what, on which outputs (none: all of them) *)
(* and with what: [what, outputs, reference, transition, times, query,     *)
(* paths, id, patch].  owectl names one output at most, and always says    *)
(* "all"; the application leaves out what the user did not set and sends   *)
(* one request per output; the third is a request typed by hand, in the    *)
(* short forms the handler takes.                                          *)
(***************************************************************************)
CONTROLS == {"play", "pause", "seek", "loop"}
QUERY == {"filter", "dir", "kind", "page", "per_page", "scan_if_empty"}

Output(wish) == IF wish.outputs = <<>> THEN {} ELSE {Head(wish.outputs)}
Chosen(wish) == Key("output", Output(wish))
Spelled(wish) == "output" :> The(Output(wish), Plain("all"))

Cmd(wish) ==
    IF wish.what \in {"play", "pause"} THEN Str(wish.what) ELSE Obj(wish.what :> wish.times)

Filters(query) == [key \in {k \in QUERY : query[k] # {}} |-> The(query[key], Nothing)]
Scan(wish) == Request("library.scan", IF wish.paths = <<>> THEN Nothing ELSE "paths" :> wish.paths)

\* Every connection begins with the handshake: owectl's run, the application's
\* with_daemon.
Handshake == Request("hello", "schema" :> Current)
WithDaemon(requests) == <<Handshake>> \o requests

\* owectl's dispatch, by its parts.
DispatchPlayback(wish) == <<Request("playback.cmd", Chosen(wish) @@ ("cmd" :> Cmd(wish)))>>

DispatchLibrary(wish) ==
    CASE wish.what = "list" ->
            <<Request("library.list",
                  Filters([wish.query EXCEPT !.scan_if_empty = {}])
                      @@ ("page" :> 1) @@ ("per_page" :> 50))>>
      [] wish.what = "scan" -> <<Scan(wish)>>
      [] OTHER -> <<Request("library.thumb", "id" :> wish.id)>>

DispatchShell(wish) ==
    IF wish.what = "status" THEN <<Request("shell.status", Nothing)>>
    ELSE <<Request("config.patch", "patch" :>
              [key \in DOMAIN wish.patch |-> Str(wish.patch[key])])>>

Dispatch(wish) ==
    CASE wish.what = "monitors" -> <<Request("outputs.list", Nothing)>>
      [] wish.what = "set" ->
            <<Request("wallpaper.set", Spelled(wish) @@ ("source" :> Str(wish.reference))
                  @@ Key("transition", {Obj(t) : t \in wish.transition}))>>
      [] wish.what = "clear" -> <<Request("wallpaper.clear", Spelled(wish))>>
      [] wish.what \in {"hold", "release"} ->
            <<Request("governor.override", Spelled(wish) @@
                  ("policy" :> IF wish.what = "hold" THEN "pause" ELSE "auto"))>>
      [] wish.what \in CONTROLS -> DispatchPlayback(wish)
      [] wish.what = "stats" -> <<Request("stats.get", Chosen(wish))>>
      [] wish.what \in {"list", "scan", "thumb"} -> DispatchLibrary(wish)
      [] wish.what \in {"status", "patch"} -> DispatchShell(wish)
      [] wish.what = "kill" -> <<Request("daemon.kill", Nothing)>>

\* run: an empty patch is refused before it is sent.
Ctl(wish) ==
    CASE wish.what = "hello" -> WithDaemon(<<>>)
      [] wish.what = "patch" /\ DOMAIN wish.patch = {} -> <<>>
      [] OTHER -> WithDaemon(Dispatch(wish))

\* source_params
SourceObject(ref) ==
    CASE ref.form = "library:" -> Obj("library_id" :> Stripped(ref))
      [] ref.form = "shader:" -> Obj("name" :> Stripped(ref))
      [] OTHER -> Obj("path" :> ref)

SetParams(wish, output) ==
    Key("output", output) @@ ("source" :> SourceObject(wish.reference))
        @@ Key("transition", {Obj(t) : t \in wish.transition})

PATCHED == {"backend", "caelestia_mode", "theme_hook", "detect_order"}

\* The application's commands.
AssignWallpaperTo(wish) ==
    IF wish.outputs = <<>> THEN WithDaemon(<<Request("wallpaper.set", SetParams(wish, {}))>>)
    ELSE WithDaemon([i \in DOMAIN wish.outputs |->
                        Request("wallpaper.set", SetParams(wish, {wish.outputs[i]}))])

ClearWallpaperOn(wish) == WithDaemon(<<Request("wallpaper.clear", Spelled(wish))>>)

PlaybackCommandFrom(wish) ==
    WithDaemon(<<Request("playback.cmd", Chosen(wish) @@ ("cmd" :> Cmd(wish)))>>)

StatsFrom(wish) == WithDaemon(<<Request("stats.get", Chosen(wish))>>)

ListOutputsFrom == WithDaemon(<<Request("outputs.list", Nothing)>>)

LibraryIndexFrom(wish) == WithDaemon(<<Request("library.list", Filters(wish.query))>>)

LibraryScanFrom(wish) == WithDaemon(<<Scan(wish)>>)

LibraryThumbFrom(wish) == WithDaemon(<<Request("library.thumb", "id" :> wish.id)>>)

ShellStatusFrom == WithDaemon(<<Request("shell.status", Nothing)>>)

\* Two connections: the patch, and the status it led to.
PatchShellFrom(wish) ==
    WithDaemon(<<Request("config.patch", "patch" :>
        [key \in PATCHED |-> IF key \in DOMAIN wish.patch THEN Str(wish.patch[key]) ELSE Null])>>)
      \o ShellStatusFrom

ProbeSocket == WithDaemon(<<>>)

\* It has no command that holds, releases or kills.
Gui(wish) ==
    CASE wish.what = "hello" -> ProbeSocket
      [] wish.what = "set" -> AssignWallpaperTo(wish)
      [] wish.what = "clear" -> ClearWallpaperOn(wish)
      [] wish.what \in CONTROLS -> PlaybackCommandFrom(wish)
      [] wish.what = "stats" -> StatsFrom(wish)
      [] wish.what = "monitors" -> ListOutputsFrom
      [] wish.what = "list" -> LibraryIndexFrom(wish)
      [] wish.what = "scan" -> LibraryScanFrom(wish)
      [] wish.what = "thumb" -> LibraryThumbFrom(wish)
      [] wish.what = "status" -> ShellStatusFrom
      [] wish.what = "patch" -> PatchShellFrom(wish)
      [] OTHER -> <<>>
GuiLacks == {"hold", "release", "kill"}

\* The short forms: a bare transition, other words for the overrides.
Typed(wish) ==
    CASE wish.what = "set" /\ \A t \in wish.transition : t = [DefaultTransition EXCEPT !.name = t.name] ->
            WithDaemon(<<Request("wallpaper.set", Chosen(wish) @@ ("source" :> Str(wish.reference))
                             @@ Key("transition", {Str(t.name) : t \in wish.transition}))>>)
      [] wish.what \in {"hold", "release"} ->
            WithDaemon(<<Request("governor.override",
                             "policy" :> IF wish.what = "hold" THEN "paused" ELSE "resume")>>)
      [] OTHER -> Ctl(wish)

\* Where each looks for the daemon: resolve_socket wants every directory,
\* socket_from_values the runtime directory only.
CtlSocket(env) == IF Resolves(env) THEN SocketPath(env) ELSE Nowhere
GuiSocket(env) ==
    IF Holds(env, "OWE_SOCKET") THEN "OWE_SOCKET" ELSE Base(env, "XDG_RUNTIME_DIR", Nowhere)

(***************************************************************************)
(* Requests go one after the other, up to the first that is refused; what  *)
(* was done before stays done.                                             *)
(***************************************************************************)
Outcome(answers) ==
    LET refused == {i \in DOMAIN answers : answers[i].code # "ok"}
        last == CHOOSE i \in DOMAIN answers :
                    IF refused = {} THEN i = Len(answers)
                    ELSE i \in refused /\ \A j \in refused : i <= j
    IN  IF answers = <<>> THEN Fails("UNSENT")
        ELSE [code |-> answers[last].code,
              effects |-> FlattenSeq([i \in 1..last |-> answers[i].effects])]

Carried(requests, daemon) == Outcome([i \in DOMAIN requests |-> Handle(requests[i], daemon)])

Reached(result) == UNION {result.effects[i].outputs : i \in DOMAIN result.effects}
\* What was done or told, but for what is told by the way.
Changes(result, wish) ==
    {result.effects[i] : i \in {j \in DOMAIN result.effects :
                                    result.effects[j].verb \notin {"hello", "status"} \ {wish.what}}}

(***************************************************************************)
(* What a wish says by itself: the nearest active output wears the name,   *)
(* by its spelling, then whatever the letter case, then by its description.*)
(***************************************************************************)
Nearness(output, text) ==
    CASE output.name = Trim(text) -> 1
      [] output.name # Trim(text) /\ output.name.word = text.word -> 2
      [] output.name.word # text.word /\ text.word \in output.description -> 3
      [] OTHER -> 4

Wished(wish, outputs) ==
    LET active == {i \in DOMAIN outputs : outputs[i].active}
        Nearer(i, j, text) == \/ Nearness(outputs[i], text) < Nearness(outputs[j], text)
                              \/ Nearness(outputs[i], text) = Nearness(outputs[j], text) /\ i <= j
        ByName(text) == {i \in active : /\ Nearness(outputs[i], text) < 4
                                        /\ \A j \in active : Nearer(i, j, text)}
        Of(text) == CASE Trim(text) = Plain("all") -> active
                      [] Trim(text) = Plain("focused") -> {i \in active : outputs[i].focused}
                      [] OTHER -> ByName(text)
    IN  IF wish.outputs = <<>> THEN <<active>>
        ELSE [k \in DOMAIN wish.outputs |-> Of(wish.outputs[k])]

Alike(wish, a, b) == (a.code = "ok") = (b.code = "ok") /\ Changes(a, wish) = Changes(b, wish)

NAMING == {"set", "clear", "stats", "monitors"} \cup CONTROLS
\* What was done, against the sets of outputs the wish names.
Kept(wish, daemon, names, result) ==
    LET clocks == IF wish.what \in CONTROLS THEN daemon.playing ELSE DOMAIN daemon.outputs
        meant == UNION {names[k] : k \in DOMAIN names} \cap clocks
    IN  /\ wish.what \in NAMING => Reached(result) \subseteq meant
        /\ result.code = "ok" /\ wish.what \in NAMING => Reached(result) = meant
        /\ result.code # "ok" /\ wish.what \in {"set", "clear"} =>
              \E k \in 0..(Len(names) - 1) : Reached(result) = UNION {names[j] : j \in 1..k}
        /\ result.code # "ok" /\ wish.what \notin {"set", "seek", "list"} => Changes(result, wish) = {}
        /\ wish.what \in {"hold", "release"} => Reached(result) = DOMAIN daemon.outputs

Agree(wish, daemon, names, ctl, gui, typed) ==
    /\ Len(wish.outputs) < 2 =>
          /\ Kept(wish, daemon, names, ctl) /\ Kept(wish, daemon, names, typed)
          /\ Alike(wish, ctl, typed)
    /\ wish.what \notin GuiLacks => Kept(wish, daemon, names, gui)
    /\ Len(wish.outputs) < 2 /\ wish.what \notin GuiLacks
          /\ (wish.what = "list" => wish.query.per_page # {} /\ wish.query.scan_if_empty = {})
       => Alike(wish, ctl, gui)

\* A wish means the same to whoever carries it out: the three front ends do
\* the same to the same outputs and agree on whether it worked; what is done
\* is done to outputs the wish names and to no other; when it worked it was
\* done to all of them, when it did not to those before the one refused.
\* Named exceptions: holding is daemon-wide; a page's length when the wish
\* does not say (50 by owectl, 100 by the handler) and the first scan, which
\* only the application asks for; playback and statistics
\* take a name literally, so they may refuse one that `set` would resolve.
\* (owectl dispatch, app source_params, set_params and assign_wallpaper_to,
\* handler.rs wallpaper_set, playback_cmd, source_reference)
RequestsMeanTheSame(wish, daemon) ==
    Agree(wish, daemon, Wished(wish, daemon.outputs),
          Carried(Ctl(wish), daemon), Carried(Gui(wish), daemon), Carried(Typed(wish), daemon))

(***************************************************************************)
(* What the daemon tells of itself is so: every listed transition is one   *)
(* the engine takes and no other is; a listed backend can be named, and is *)
(* taken when it is; every kind of wallpaper is either listed or explained,*)
(* and a file of a listed kind can be set; the status names the backend    *)
(* that draws or none when nothing can be drawn; each listed output wears  *)
(* a name that reaches it alone.  Named exception: video is listed when    *)
(* any runtime is there, though the settings may name the other one or     *)
(* demand a hardware decoder that is not.                                  *)
(* (handler.rs capabilities and unavailable_entries, engine.rs             *)
(* content_kinds, shell_status and output_views)                           *)
(***************************************************************************)
Listed(daemon, capabilities, reference) ==
    LET Takes(name) == EngineAllows([DefaultTransition EXCEPT !.name = name], daemon.config)
        Refusal(kind) == ApplyRefused(reference[kind], {}, Plain("all"), daemon)
        drawn == Backend(daemon) # Nobody /\ ~Routed(Backend(daemon), daemon.shell)
                    /\ Active(daemon) # {}
    IN  /\ \A word \in KNOWN_TRANSITIONS : Takes(Plain(word)) <=> Plain(word) \in capabilities.transitions
        /\ \A id \in ToSet(capabilities.shell_backends) :
              Select([daemon.shell EXCEPT !.backend = Plain(id)], Registered, daemon.session) = id
        /\ \A runtime \in ToSet(capabilities.media_backends) \ {"image"} :
              SelectRuntime(Plain(runtime), daemon.machine) = {runtime}
        /\ capabilities.content_kinds \cap capabilities.unavailable = {}
        /\ Kinds \subseteq capabilities.content_kinds \cup capabilities.unavailable
        /\ drawn => \A kind \in Kinds :
              \/ Refusal(kind) = "none" <=> kind \in capabilities.content_kinds
              \/ /\ kind = "video" /\ Refusal(kind) = "decode"
                 /\ \/ daemon.config.media_backend # Plain(Auto)
                    \/ daemon.config.hw_decode_required

Told(daemon, status, views) ==
    LET rows == status.backends
        named == {i \in DOMAIN rows : rows[i].selected}
    IN  /\ {rows[i].id : i \in DOMAIN rows} = ToSet(Registered) /\ Len(rows) = Len(Registered)
        /\ {rows[i].id : i \in named} = {status.backend} \ {Nobody}
        /\ \A i \in named : rows[i].mode = status.mode
        /\ status.routed <=> Routed(Backend(daemon), daemon.shell)
        /\ status.backend = Nobody <=> OutputsList(daemon).code = "CONFIG_INVALID"
        /\ \A view \in views :
              LET name == view[2].name IN
              /\ ResolveTarget(daemon.outputs, name) = {view[1]}
              /\ Backend(daemon) # Nobody =>
                    Reached(StatsGet("output" :> name, daemon)) = {view[1]}

\* What any front end sends is of a listed method.
MethodsListed(wish) ==
    \A request \in ToSet(Ctl(wish)) \cup ToSet(Gui(wish)) \cup ToSet(Typed(wish)) :
        request.method \in IMPLEMENTED_METHODS
=============================================================================
