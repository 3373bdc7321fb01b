------------------------------ MODULE MCRules -------------------------------
(***************************************************************************)
(* The rules of owe as questions and answers: which section is in force,   *)
(* which configuration and which patch are accepted, what a wish becomes,  *)
(* where a picture goes.  Each step asks one question; the answer is what  *)
(* the code computes, the invariants what it has to amount to.             *)
(***************************************************************************)
EXTENDS Requests, Geometry

VARIABLES question, answer
vars == <<question, answer>>
told == answer[2]               \* the answer itself, of a shape of its question's own

Env == [v \in Variables \cup {"XDG_PICTURES_DIR"} |->
            CASE v = "HOME" -> "/..." [] v = "OWE_DIR" -> "..." [] OTHER -> "unset"]

(***************************************************************************)
(* Sections: up to three keys.                                             *)
(***************************************************************************)
SectionKeys == [match : {"name", "any", "text", "other"}, length : 1..2]
SectionLists == UNION {[1..n -> SectionKeys] : n \in 0..3}

\* What "[outputs.*]" promises: the name, then the longest fragment (the
\* first of equals), then `any`; of keys that differ in letter case only, the
\* last stands for all.
Class(key) == CASE key.match = "name" -> 1 [] key.match = "text" -> 2
                [] key.match = "any" -> 3 [] OTHER -> 4
Beats(keys, i, j) ==
    \/ Class(keys[i]) < Class(keys[j])
    \/ /\ Class(keys[i]) = Class(keys[j])
       /\ IF keys[i].match = "text"
          THEN \/ keys[i].length > keys[j].length
               \/ keys[i].length = keys[j].length /\ i < j
          ELSE i > j

\* The section in force is the one the precedence names, and every section
\* that matched and lost to another kind of match is reported; a key hidden
\* by its own spelling in another letter case is not.
\* (owe-core/src/outputs.rs resolve)
SectionsByTheBook ==
    question.ask = "sections" =>
        LET keys == question.of
            fitting == {i \in DOMAIN keys : Class(keys[i]) < 4}
            hidden == {i \in fitting : keys[i].match # "text" /\
                          \E j \in fitting : j > i /\ keys[j].match = keys[i].match}
            lost == {i \in fitting : \E j \in fitting : Beats(keys, j, i)}
        IN  /\ fitting \ lost = {told.winner} \ {None}
            /\ told.conflicts = lost \ hidden

(***************************************************************************)
(* Configurations: the default with up to two settings replaced.           *)
(***************************************************************************)
Fade == [name |-> Plain("fade"), duration_ms |-> 300, fps |-> 60]
Wipe == [Fade EXCEPT !.name = Plain("wipe")]
Ref(form, path, suffix) ==
    [form |-> form, named |-> TRUE, path |-> path, suffix |-> suffix, id |-> 1, exists |-> TRUE]
Section(wallpaper, cap, transition) ==
    [match |-> "any", length |-> 1,
     config |-> [wallpaper |-> wallpaper, fps_cap |-> cap, transition |-> transition]]

Default ==
    [schema |-> 1, backend |-> Plain("auto"),
     detect_order |-> <<Plain("caelestia"), Plain("hyprland"), Plain("generic-layer-shell")>>,
     hyprpaper |-> Plain("warn"), caelestia_mode |-> Plain("daemon-drawn"), theme_hook |-> TRUE,
     wallpapers_dir |-> {}, fit |-> Plain("fill"),
     allow_transitions |-> {Plain("fade"), Plain("none")}, default_transition |-> Fade,
     max_in_flight |-> 2, shm_fallback |-> TRUE, media_backend |-> Plain("auto"),
     hw_decode_required |-> FALSE,
     animated_frame_cap_mb |-> 256, compression |-> Plain("zstd"), library_paths |-> {<<"~", "...">>},
     thumbnail_size |-> 256, rescan_interval_secs |-> 300,
     policies |-> [rule \in {"fullscreen", "battery"} |-> Act("pause")],
     below_pct |-> {}, fps_on_battery |-> {},
     idle |-> [action |-> "none", after_secs |-> 0],
     cpu_busy |-> [action |-> "none", pct |-> 0, for_secs |-> 0], outputs |-> <<>>]

Policy(action) == [rule \in {"fullscreen", "battery"} |->
                      IF rule = "battery" THEN action ELSE Act("ignore")]

Settings ==
    [schema |-> <<2>>,
     backend |-> <<Text("hyprland", "spaced"), Text("hyprland", "cased"), Plain("kde"), Plain("")>>,
     detect_order |-> <<<<>>, <<Text("hyprland", "spaced"), Plain("hyprland")>>, <<Plain("kde")>>,
                       <<Text("generic-layer-shell", "spaced"), Plain("hyprland")>>>>,
     hyprpaper |-> <<Text("stop", "spaced"), Text("stop", "cased")>>,
     caelestia_mode |-> <<Text("shell-routed", "spaced"), Text("shell-routed", "cased")>>,
     wallpapers_dir |-> <<{<<"~", "...">>}, {<<Deferrable, "...">>}, {<<"OWE_DIR">>}>>,
     fit |-> <<Plain("fit"), Text("fit", "spaced"), Plain("tile")>>,
     allow_transitions |-> <<{}, {Plain("wipe")}, {Text("fade", "cased"), Plain("fade")}>>,
     default_transition |-> <<Wipe, [Fade EXCEPT !.name = Text("fade", "cased")],
                             [Fade EXCEPT !.fps = 241], [Fade EXCEPT !.duration_ms = 60001]>>,
     max_in_flight |-> <<0, 8, 9>>, shm_fallback |-> <<FALSE>>,
     media_backend |-> <<Plain("ffmpeg"), Text("ffmpeg", "cased")>>,
     animated_frame_cap_mb |-> <<0, 4096, 4097>>, compression |-> <<Plain("none"), Plain("gz")>>,
     library_paths |-> <<{}, {<<"/...">>}, {<<"...">>}>>,
     thumbnail_size |-> <<31, 4096>>, rescan_interval_secs |-> <<0, 86401>>,
     policies |-> <<Policy(Fps(0)), Policy(Fps(240)), Policy(Fps(241)), Policy(Fps(U32 + 30)),
                   Policy(Fps(-1)), Policy(Act("stop"))>>,
     below_pct |-> <<{0}, {100}>>, fps_on_battery |-> <<{30}, {0}>>,
     idle |-> <<[action |-> "pause", after_secs |-> 0], [action |-> "pause", after_secs |-> 60]>>,
     cpu_busy |-> <<[action |-> "none", pct |-> 5, for_secs |-> 0],
                   [action |-> "dim", pct |-> 5, for_secs |-> 1]>>,
     outputs |-> <<<<Section({Ref("path", <<"~", "...">>, "png")}, {30}, {Wipe})>>,
                  <<Section({Ref("path", <<"...">>, "png")}, {}, {})>>,
                  <<Section({Ref("shader:", <<>>, "wgsl")}, {0}, {Fade})>>,
                  <<Section({}, {}, {[Fade EXCEPT !.fps = 0]})>>>>]

Replaced == {f \in SUBSET DOMAIN Settings : Cardinality(f) <= 2}
WithSettings(pick) ==
    [s \in DOMAIN Default |-> IF s \in DOMAIN pick THEN Settings[s][pick[s]] ELSE Default[s]]

Monitors(named, sized) ==
    <<[named |-> TRUE, sized |-> TRUE, disabled |-> FALSE, dpms |-> TRUE],
      [named |-> named, sized |-> sized, disabled |-> FALSE, dpms |-> FALSE]>>
Session(running, cli, signature, display, monitors) ==
    [running |-> running, cli |-> cli, signature |-> signature, display |-> display,
     monitors |-> monitors]
Sessions ==
    {Session(TRUE, TRUE, TRUE, TRUE, Monitors(TRUE, TRUE)),
     Session(FALSE, TRUE, TRUE, TRUE, Monitors(FALSE, TRUE)),
     Session(FALSE, TRUE, FALSE, TRUE, Monitors(TRUE, TRUE)),
     Session(FALSE, FALSE, FALSE, FALSE, <<>>)}

SHELL == {"backend", "detect_order", "caelestia_mode", "theme_hook", "wallpapers_dir", "hyprpaper"}
ShellOf(c) == [setting \in SHELL |-> c[setting]]

Tools == {[pid |-> 1, program |-> "hyprpaper"], [pid |-> 2, program |-> "swww-daemon"],
          [pid |-> 3, program |-> "owed"]}

\* What the daemon makes of its start: the settings, the shell, its outputs,
\* the tools it tells of and those it stops, and what an output begins with.
Start(file, session) ==
    LET c == Loaded(file, Default)
        shell == ShellOf(c)
        backend == Select(shell, Registered, session)
    IN  [config |-> c, backend |-> backend,
         detections |-> Detections(shell, Registered),
         outputs |-> {EffectiveOutputs(o) : o \in ListOutputs(backend, session)},
         mode |-> DrawMode(backend, shell),
         noticed |-> Noticed(Tools, ParsePolicy(c.hyprpaper)),
         stopped |-> Stopped(Tools, ParsePolicy(c.hyprpaper)),
         transition |-> ChosenTransition({}, c.outputs, c),
         cap |-> FpsCap(c.outputs),
         wallpaper |-> Planned({}, c.outputs)]

File(exists, asked, written) == [exists |-> exists, asked |-> asked, written |-> written]

\* What was accepted is understood: a daemon that starts has a backend its
\* settings name, or none because `auto` found none; it draws as it was told;
\* its frame rates are the written ones; it begins with wallpapers and
\* transitions the engine takes.  Named exceptions: a rate of 2^32 or more is
\* cut to 32 bits, and a section's transition is not held against the
\* allowed names until it is used.  (owe-core/src/config.rs validate,
\* shell.rs select, engine.rs validate_transition)
Understood(file, session, started) ==
    LET c == started.config
        wanted == Trim(c.backend)
    IN  /\ started.backend \in ({Nobody} \cup {Registered[i] : i \in DOMAIN Registered})
        /\ wanted # Plain(Auto) => started.backend = wanted.word
        /\ wanted = Plain(Auto) /\ started.backend = Nobody =>
              \A i \in DOMAIN c.detect_order :
                  Detection(Trim(c.detect_order[i]).word, session) # "strong"
        /\ {started.detections[i] : i \in DOMAIN started.detections}
              = {Registered[i] : i \in DOMAIN Registered}
        /\ Len(started.detections) = Len(Registered)
        /\ started.mode = "shell-routed" <=>
              started.backend = "caelestia" /\ Trim(c.caelestia_mode) = Plain("shell-routed")
        /\ \A o \in started.outputs : \A i \in DOMAIN o : o[i].active
        /\ started.stopped # {} => Trim(c.hyprpaper) = Plain("stop")
        /\ started.stopped \subseteq {p.pid : p \in started.noticed} \ {2, 3}
        /\ \/ EngineAllows(started.transition, c)
           \/ c.outputs # <<>> /\ started.transition.name \notin c.allow_transitions
        /\ \A rule \in DOMAIN c.policies :
              \/ file.exists /\ file.written.policies[rule].fps >= U32
              \/ c.policies[rule].action = "fps" => c.policies[rule].fps \in FPS_RANGE
        /\ \A ref \in started.wallpaper : Parsed(ref, Env).source # "error"
        /\ started.cap \subseteq FPS_RANGE

Samples ==
    [kind \in Kinds |->
        CASE kind = "static-image" -> Ref("path", <<"/...">>, "png")
          [] kind = "animated-image" -> Ref("path", <<"/...">>, "gif")
          [] kind = "video" -> Ref("path", <<"/...">>, "mp4")
          [] OTHER -> Ref("path", <<"/...">>, "wgsl")]

\* A patch is taken whole, and only with a backend that can list its outputs.
PatchUnderstood(shell, patch, session, refusal, next) ==
    /\ refusal = "none" =>
          LET backend == Select(next, Registered, session)
          IN  /\ backend # Nobody /\ ListOutputs(backend, session) # {}
              /\ \A setting \in SHELL : setting \notin DOMAIN patch => next[setting] = shell[setting]
              /\ DrawMode(backend, next) = "shell-routed" <=>
                    backend = "caelestia" /\ Trim(next.caelestia_mode) = Plain("shell-routed")
    /\ refusal # "none" => next = shell

AcceptedIsUsable ==
    /\ question.ask = "greeting" =>
          /\ told.replies = {} <=> \A v \in question.versions : v.major # 1
          /\ \A reply \in told.replies :
                /\ reply.schema.minor <= 2
                /\ Listed(question.of, reply.capabilities, Samples)
          /\ Told(question.of, told.status, told.views)
    /\ question.ask = "start" /\ told # {} =>
          \A started \in told : Understood(question.file, question.session, started)
    /\ question.ask = "patch" =>
          PatchUnderstood(ShellOf(question.config), question.of, question.session,
                          told.refusal, told.shell)

Patches ==
    {"backend" :> Plain("caelestia"), "backend" :> Text("hyprland", "spaced"),
     "backend" :> Plain("kde"), "backend" :> Plain("auto"),
     "caelestia_mode" :> Plain("shell-routed"), "caelestia_mode" :> Text("shell-routed", "cased"),
     "detect_order" :> <<Plain("generic-layer-shell")>>, "detect_order" :> <<Text("hyprland", "spaced")>>,
     "detect_order" :> <<Plain("hyprland"), Plain("hyprland")>>, "detect_order" :> <<>>,
     "hyprpaper" :> Plain("stop"), "hyprpaper" :> Plain("never"),
     "theme_hook" :> FALSE, Nothing}
PatchPairs == {p @@ q : p \in Patches, q \in Patches}

\* What engine.rs says of content_kinds ("a kind advertised here is a kind
\* wallpaper.set accepts"): with no exception.  RulesVideo.cfg shows it broken.
ListedCanBeSet ==
    question.ask = "greeting" /\ question.of.session.running =>
        \A reply \in told.replies, kind \in Kinds :
            kind \in reply.capabilities.content_kinds =>
                ApplyRefused(Samples[kind], {}, Plain("all"), question.of) \in {"none", "shell"}

(***************************************************************************)
(* Wishes.                                                                 *)
(***************************************************************************)
Names == {Plain("DP-1"), Text("DP-1", "cased"), Text("DP-1", "spaced"), Plain("HDMI-1"),
          Plain("Dell"), Plain("gone"), Plain("focused"), Text("all", "spaced")}
Targets == {<<>>} \cup [1..1 -> Names]
              \cup {<<Plain("HDMI-1"), Plain("DP-1")>>, <<Plain("DP-1"), Plain("gone")>>,
                    <<Text("DP-1", "cased"), Plain("Dell")>>}

Screen(name, active, focused, description) ==
    [name |-> Plain(name), active |-> active, focused |-> focused, description |-> description]
Screens == <<Screen("HDMI-1", TRUE, FALSE, {"Dell", "gone"}), Screen("DP-1", TRUE, TRUE, {"Dell"}),
             Screen("eDP-1", FALSE, FALSE, {"Laptop"})>>

Machine(tools, node, probe) == [tools |-> tools, node |-> node, probe |-> probe]
Machines == {Machine(tools, node, probe) : tools \in SUBSET EveryTool, node \in BOOLEAN,
                                           probe \in {"clean", "complains", "unfinished"}}
Equipped == Machine(EveryTool, TRUE, "clean")

Daemon(outputs, playing, refuses, rows, shell, session) ==
    [outputs |-> outputs, playing |-> playing, refuses |-> refuses, ids |-> {1}, rows |-> rows,
     found |-> 120, config |-> Default, shell |-> shell, session |-> session, patched |-> FALSE,
     machine |-> Equipped, applied |-> [i \in DOMAIN outputs |-> {}],
     recorded |-> [i \in DOMAIN outputs |-> {1}], workers |-> [i \in DOMAIN outputs |-> {}]]
Caelestia == CHOOSE s \in Sessions : s.running
Daemons ==
    LET drawn == ShellOf(Default)
        routed == [drawn EXCEPT !.caelestia_mode = Plain("shell-routed")]
        bare == Machine({"gst-launch-1.0"}, FALSE, "unfinished")
    IN  {Daemon(Screens, {1, 2}, {2}, 120, drawn, Caelestia),
         [Daemon(Screens, {2}, {}, 0, routed, Caelestia) EXCEPT !.machine = bare],
         [Daemon(SubSeq(Screens, 2, 3), {}, {}, 120, drawn, Caelestia) EXCEPT !.machine = bare],
         Daemon(<<>>, {}, {}, 7, drawn, Caelestia),
         Daemon(SubSeq(Screens, 2, 3), {}, {}, 120, routed, Caelestia),
         Daemon(Screens, {1}, {1}, 7, drawn, CHOOSE s \in Sessions : ~s.display)}

\* Two outputs whose names differ in letter case, and one that another's
\* description mentions.
Twins == <<[Screen("DP-1", TRUE, FALSE, {"HDMI-1"}) EXCEPT !.name = Text("DP-1", "cased")],
           Screen("DP-1", TRUE, TRUE, {"Dell"}), Screen("HDMI-1", TRUE, FALSE, {"Dell"})>>
Greeters ==
    LET daemon == Daemon(Screens, {1}, {}, 0, ShellOf(Default), Caelestia)
        With(shell, session, outputs, shown) ==
            [Daemon(outputs, {}, {}, 0, shell, session) EXCEPT
                !.applied = [i \in DOMAIN outputs |-> shown]]
    IN  {[daemon EXCEPT !.machine = machine,
                        !.config = [Default EXCEPT !.media_backend = Plain(backend),
                                                   !.hw_decode_required = required,
                                                   !.allow_transitions = {Plain(w) : w \in words}]] :
            machine \in Machines, backend \in KNOWN_MEDIA_BACKENDS, required \in BOOLEAN,
            words \in {{"fade", "none"}, {"wipe"}, {}}}
        \cup {With(Patched(ShellOf(Default), patch), session, outputs, shown) :
                 patch \in {q \in PatchPairs : Validate(Patched(ShellOf(Default), q) @@ Default, Env)},
                 session \in Sessions, outputs \in {Screens, Twins}, shown \in {{}, {1}, {2}}}
Offers == {{}, Current, {[major |-> 2, minor |-> 0]},
           {[major |-> 1, minor |-> 0], [major |-> 1, minor |-> 5], [major |-> 2, minor |-> 9]}}

Wish(what, outputs) ==
    [what |-> what, outputs |-> outputs, reference |-> Ref("path", <<"/...">>, "png"),
     transition |-> {}, times |-> <<>>, query |-> [key \in QUERY |-> {}], paths |-> <<>>,
     id |-> 1, patch |-> Nothing]

References ==
    {Ref("path", <<"/...">>, "png"), Ref("path", <<"~", "...">>, "mp4"), Ref("path", <<"...">>, "png"),
     Ref("path", <<Deferrable, "...">>, "gif"), Ref("path", <<"/...">>, "txt"),
     Ref("path", <<"/...">>, "wgsl"), [Ref("path", <<"/...">>, "png") EXCEPT !.exists = FALSE],
     Ref("library:", <<>>, "none"), [Ref("library:", <<>>, "none") EXCEPT !.id = 2],
     [Ref("library:", <<>>, "none") EXCEPT !.named = FALSE], Ref("shader:", <<>>, "wgsl"),
     Ref("blank", <<>>, "none")}
Asked == {{}, {Fade}, {[Fade EXCEPT !.duration_ms = 0]}, {Wipe},
          {[Fade EXCEPT !.name = Text("fade", "cased")]}}
Queries ==
    LET none == [key \in QUERY |-> {}]
        of == {none} \cup {[none EXCEPT !.kind = {k}] : k \in {"video", "movie"}}
                     \cup {[none EXCEPT !.dir = {d}] : d \in {<<"~">>, <<"...">>}}
                     \cup {[none EXCEPT !.page = {p}] : p \in {1, 2, 3, U32 - 1}}
    IN  UNION {{q, [q EXCEPT !.scan_if_empty = {TRUE}]}
                  \cup {[q EXCEPT !.per_page = {n}] : n \in {0, 50, 501}} : q \in of}

Wishes ==
    {[Wish("set", o) EXCEPT !.reference = r, !.transition = t] :
        o \in Targets, r \in References, t \in Asked}
    \cup {Wish(what, o) : what \in {"clear", "hold", "release", "play", "pause", "stats"},
                          o \in {t \in Targets : Len(t) < 2}}
    \cup {Wish(what, <<>>) : what \in {"hello", "monitors", "status", "kill"}}
    \cup {[Wish("seek", o) EXCEPT !.times = t] : o \in {u \in Targets : Len(u) < 2},
                                                 t \in {<<0>>, <<MAX_PLAYBACK_SECONDS + 1>>}}
    \cup {[Wish("loop", o) EXCEPT !.times = t] : o \in {u \in Targets : Len(u) < 2},
                                                 t \in {<<0, 1>>, <<1, 1>>, <<2, 1>>}}
    \cup {[Wish("list", <<>>) EXCEPT !.query = q] : q \in Queries}
    \cup {[Wish("scan", <<>>) EXCEPT !.paths = p] : p \in {<<>>, <<<<"~">>>>, <<<<"~">>, <<"...">>>>}}
    \cup {[Wish("thumb", <<>>) EXCEPT !.id = i] : i \in 1..2}
    \cup {[Wish("patch", <<>>) EXCEPT !.patch = p] :
             p \in {q \in PatchPairs : DOMAIN q \subseteq PATCHED}}

\* A wish means the same to whoever carries it out, and every front end
\* that finds a daemon finds the one of its own session.
\* (owectl dispatch and resolve_socket, the application's commands,
\* owed/src/handler.rs, owe-core/src/path.rs resolve_with)
WishesMeanTheSame ==
    /\ question.ask = "wish" =>
          /\ RequestsMeanTheSame(question.of, question.daemon)
          /\ MethodsListed(question.of)
    /\ question.ask = "where" /\ Resolves(question.env) =>
          /\ told.ctl = SocketPath(question.env)
          /\ told.gui # SocketPath(question.env) => told.gui = "OWE_SOCKET"
          /\ \A dir \in DOMAIN told.dirs :
                told.dirs[dir] = Nowhere \/ Holds(question.env, told.dirs[dir])

(***************************************************************************)
(* Pictures.                                                               *)
(***************************************************************************)
Sizes == (1..4) \X (1..4)
Picture(size, extra) == [size |-> size, length |-> 4 * size[1] * size[2] + extra]
Pictures == {Picture(size, 0) : size \in Sizes \cup {<<0, 2>>}} \cup {Picture(<<1, 2>>, 4)}

\* What a change shows: refused, or its frames, each with both pictures.
Shown(target, from, to, word, duration_ms, fps) ==
    IF Begins(target, from, to)
    THEN {[frames |-> n, interval |-> FrameInterval(duration_ms, n),
           last |-> Params(Progress(n - 1, n), target, from.size, to.size, Scaling(word))] :
              n \in Schedule(duration_ms, fps)}
    ELSE {}

Thumbnails(header, size, max_pixels, max_edge) ==
    IF Decodes(header, size, max_pixels) /\ max_edge # 0 THEN {ThumbnailSize(size, max_edge)} ELSE {}

\* Every picture that is shown is shown as its mode promises, old and new
\* alike; a change lasts as long as asked for and ends on the new picture
\* whole, and one that is taken over goes on from what it showed; a thumbnail
\* has its picture's shape and no edge longer than asked for.
\* (owe-render/src/image.rs plan, transition.rs Schedule, params and retarget,
\* owe-media/src/still.rs thumbnail_size)
PicturesKeepTheirPromise ==
    /\ question.ask = "change" =>
          \A shown \in told :
             LET mode == Scaling(question.word)
             IN  /\ EndsOnTheImage(shown.frames, question.duration_ms, question.fps)
                 /\ Same(shown.last.progress, One)
                 /\ KeepsItsPromise(shown.last.from, question.from.size, question.target, mode)
                 /\ KeepsItsPromise(shown.last.to, question.to.size, question.target, mode)
    /\ question.ask = "takeover" =>
          \A newer \in told :
             /\ TakesOver(question.of, newer, question.by, Scaling(question.word))
             /\ KeepsItsPromise(Plan(newer.to.size, newer.target, Scaling(question.word)),
                                newer.to.size, newer.target, Scaling(question.word))
    /\ question.ask = "thumbnail" =>
          \A thumb \in told : IsThumbnailOf(thumb, question.size, question.max_edge)

(***************************************************************************)
(* The questions.                                                          *)
(***************************************************************************)
Init == question = [ask |-> "nothing"] /\ answer = <<"nothing", {}>>

Unasked == question.ask = "nothing"
Ask(q, a) == question' = q /\ answer' = <<q.ask, a>>

AskSections ==
    /\ Unasked
    /\ \E keys \in SectionLists :
           Ask([ask |-> "sections", of |-> keys],
               [winner |-> Winner(keys), conflicts |-> Conflicts(keys)])

AskStart ==
    /\ Unasked
    /\ \E f \in Replaced : \E pick \in [f -> 1..6] :
           /\ \A s \in f : pick[s] \in DOMAIN Settings[s]
           /\ \E session \in Sessions :
                 LET file == File(TRUE, FALSE, WithSettings(pick))
                 IN  Ask([ask |-> "start", file |-> file, session |-> session],
                         IF Loads(file, Env) THEN {Start(file, session)} ELSE {})

AskDefaults ==
    /\ Unasked
    /\ \E asked \in BOOLEAN, session \in Sessions :
           LET file == File(FALSE, asked, Default)
           IN  Ask([ask |-> "start", file |-> file, session |-> session],
                   IF Loads(file, Env) THEN {Start(file, session)} ELSE {})

AskPatch ==
    /\ Unasked
    /\ \E patch \in PatchPairs, session \in Sessions, mode \in {"daemon-drawn", "shell-routed"} :
           LET c == [Default EXCEPT !.caelestia_mode = Plain(mode)]
               refusal == PatchRefusal(ShellOf(c), patch, c, Registered, session, Env)
           IN  Ask([ask |-> "patch", of |-> patch, session |-> session, config |-> c],
                   [refusal |-> refusal,
                    shell |-> IF refusal = "none" THEN Patched(ShellOf(c), patch) ELSE ShellOf(c)])

AskGreeting ==
    /\ Unasked
    /\ \E daemon \in Greeters, versions \in Offers :
           Ask([ask |-> "greeting", of |-> daemon, versions |-> versions],
               [replies |-> HelloReply(versions, daemon),
                status |-> ShellStatus(daemon.shell, daemon.session, daemon.patched),
                views |-> OutputViews(daemon)])

AskWish ==
    /\ Unasked
    /\ \E wish \in Wishes, daemon \in Daemons :
           Ask([ask |-> "wish", of |-> wish, daemon |-> daemon], {})

AskChange ==
    /\ Unasked
    /\ \E target \in Sizes \cup {<<2, 0>>}, to \in Pictures,
          word \in {"fill", "cover", "fit", "contain", "center", "stretch"} :
          \E from \in {Picture(<<2, 3>>, 0), Picture(<<4, 1>>, 0)},
             time \in {<<0, 60>>, <<300, 60>>, <<1, 1>>, <<100, 240>>} :
             Ask([ask |-> "change", target |-> target, from |-> from, to |-> to, word |-> word,
                  duration_ms |-> time[1], fps |-> time[2]],
                 Shown(target, from, to, word, time[1], time[2]))

\* Two newer pictures, one after the other.
AskTakeover ==
    /\ Unasked
    /\ \E target, old \in {<<2, 3>>, <<4, 1>>}, word \in {"fill", "fit", "center", "stretch"},
          first, second \in {Picture(<<2, 3>>, 0), Picture(<<3, 2>>, 0), Picture(<<4, 4>>, 0),
                             Picture(<<1, 2>>, 0), Picture(<<1, 2>>, 4)} :
          LET running == [target |-> target, from |-> GpuImage(target), to |-> GpuImage(old)]
          IN  \E of \in {running} \cup Retarget(running, first) :
                 Ask([ask |-> "takeover", of |-> of, by |-> second, word |-> word],
                     Retarget(of, second))

AskThumbnail ==
    /\ Unasked
    /\ \E size \in (0..9) \X (0..9), max_edge \in 0..5, header \in {"none", "true"} :
           Ask([ask |-> "thumbnail", size |-> size, max_edge |-> max_edge],
               Thumbnails(IF header = "none" THEN {} ELSE {size}, size, 60, max_edge))

AskWhere ==
    /\ Unasked
    /\ \E env \in [{"HOME", "XDG_CONFIG_HOME", "XDG_STATE_HOME", "OWE_STATE_DIR", "XDG_RUNTIME_DIR",
                   "OWE_SOCKET"} -> {"unset", "blank", "/..."}] :
          Ask([ask |-> "where", env |-> env],
              [dirs |-> XdgPaths(env), ctl |-> CtlSocket(env), gui |-> GuiSocket(env)])

Next == AskWhere \/ AskSections \/ AskStart \/ AskDefaults \/ AskPatch \/ AskGreeting \/ AskWish \/ AskChange
            \/ AskTakeover \/ AskThumbnail
Spec == Init /\ [][Next]_vars
=============================================================================
