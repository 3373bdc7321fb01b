------------------------------- MODULE Config -------------------------------
(***************************************************************************)
(* owe_core::config: what validate accepts, section by section, and how a  *)
(* policy's number is read.  A text is the word it spells and its style:   *)
(* "plain", "spaced" (blanks around it) or "cased" (other letter case).    *)
(* The configuration is a record of the settings a rule reads.             *)
(***************************************************************************)
EXTENDS Paths, FiniteSets

CONSTANT U32                    \* 2^32, the width a policy's fps is cut to

ASSUME U32Assumption == U32 \in Nat /\ U32 > 240

FPS_RANGE == 1..240
MAX_TRANSITION_MS == 60000
SUPPORTED_SCHEMA == 1
KNOWN_SHELL_BACKENDS == {"auto", "caelestia", "hyprland", "generic-layer-shell"}
KNOWN_DETECT_IDS == KNOWN_SHELL_BACKENDS \ {"auto"}
KNOWN_TRANSITIONS == {"none", "fade", "wipe", "slide", "grow", "wave", "outer"}
KNOWN_FIT_MODES == {"fill", "fit", "center", "stretch"}
KNOWN_CAELESTIA_MODES == {"shell-routed", "daemon-drawn"}
KNOWN_HYPRPAPER_POLICIES == {"warn", "stop", "ignore"}
KNOWN_MEDIA_BACKENDS == {"auto", "gstreamer", "ffmpeg"}
KNOWN_COMPRESSION == {"zstd", "lz4", "none"}

Text(word, style) == [word |-> word, style |-> style]
Plain(word) == Text(word, "plain")

\* str::trim, and the comparison that follows it or not.
Trim(text) == IF text.style = "spaced" THEN Plain(text.word) ELSE text
OneOf(text, allowed) == text.style = "plain" /\ text.word \in allowed
TrimmedIsOneOf(text, allowed) == OneOf(Trim(text), allowed)

(***************************************************************************)
(* PolicyAction's reading: a word, or a table whose integer fps is kept in *)
(* 32 bits before its range is looked at.  An optional setting is a set of *)
(* at most one value.                                                      *)
(***************************************************************************)
Act(word) == [action |-> word, fps |-> 0]
Fps(n) == [action |-> "fps", fps |-> n]
Policies == {"pause", "dim", "ignore"}

\* What serde can make a policy of.
IsPolicy(written) ==
    IF written.action = "fps" THEN written.fps >= 0 ELSE written.action \in Policies

ReadPolicy(written) == [written EXCEPT !.fps = @ % U32]

PolicyInRange(policy) == policy.action = "fps" => policy.fps \in FPS_RANGE

(***************************************************************************)
(* The sections.  Each rule is TRUE when the section keeps it.             *)
(***************************************************************************)
Distinct(texts) ==
    \A i, j \in 1..Len(texts) : Trim(texts[i]) = Trim(texts[j]) => i = j

ShellValid(c) ==
    /\ TrimmedIsOneOf(c.backend, KNOWN_SHELL_BACKENDS)
    /\ c.detect_order # <<>>
    /\ \A i \in 1..Len(c.detect_order) : TrimmedIsOneOf(c.detect_order[i], KNOWN_DETECT_IDS)
    /\ Distinct(c.detect_order)

HyprlandValid(c) == TrimmedIsOneOf(c.hyprpaper, KNOWN_HYPRPAPER_POLICIES)

CaelestiaValid(c, env) ==
    /\ TrimmedIsOneOf(c.caelestia_mode, KNOWN_CAELESTIA_MODES)
    /\ \A dir \in c.wallpapers_dir : Expands(dir, env)

TransitionValid(t) ==
    /\ OneOf(t.name, KNOWN_TRANSITIONS)
    /\ t.duration_ms <= MAX_TRANSITION_MS
    /\ t.fps \in FPS_RANGE

\* Mutant: the default transition need not be an allowed one.
RenderValidLoose(c) ==
    /\ OneOf(c.fit, KNOWN_FIT_MODES)
    /\ \A name \in c.allow_transitions : OneOf(name, KNOWN_TRANSITIONS)
    /\ TransitionValid(c.default_transition)

RenderValid(c) ==
    /\ OneOf(c.fit, KNOWN_FIT_MODES)
    /\ c.allow_transitions # {}
    /\ \A name \in c.allow_transitions : OneOf(name, KNOWN_TRANSITIONS)
    /\ TransitionValid(c.default_transition)
    /\ c.default_transition.name \in c.allow_transitions
    /\ c.max_in_flight \in 1..8
    /\ c.shm_fallback

MediaValid(c) ==
    /\ OneOf(c.media_backend, KNOWN_MEDIA_BACKENDS)
    /\ c.animated_frame_cap_mb \in 1..4096
    /\ OneOf(c.compression, KNOWN_COMPRESSION)

LibraryValid(c, env) ==
    /\ c.library_paths # {}
    /\ \A path \in c.library_paths : Expands(path, env)
    /\ c.thumbnail_size \in 32..4096
    /\ c.rescan_interval_secs <= 86400

GovernorValid(c) ==
    /\ \A rule \in DOMAIN c.policies : PolicyInRange(c.policies[rule])
    /\ c.below_pct \subseteq 1..100
    /\ c.fps_on_battery \subseteq FPS_RANGE
    /\ c.idle.action # "none" => c.idle.after_secs # 0
    /\ c.cpu_busy.action # "none" => c.cpu_busy.pct # 0 /\ c.cpu_busy.for_secs # 0
    /\ c.cpu_busy.action = "none" => c.cpu_busy.pct = 0

OutputValid(section, env) ==
    /\ \A ref \in section.wallpaper : Parsed(ref, env).source # "error"
    /\ section.fps_cap \subseteq FPS_RANGE
    /\ \A t \in section.transition : TransitionValid(t)

(***************************************************************************)
(* Config::validate: an unsupported schema ends it, else every section is  *)
(* looked at; from_toml_str refuses what serde cannot read before.         *)
(***************************************************************************)
Validate(c, env) ==
    /\ c.schema = SUPPORTED_SCHEMA
    /\ ShellValid(c) /\ HyprlandValid(c) /\ CaelestiaValid(c, env)
    /\ RenderValid(c) /\ MediaValid(c) /\ LibraryValid(c, env) /\ GovernorValid(c)
    /\ \A i \in 1..Len(c.outputs) : OutputValid(c.outputs[i].config, env)

\* What the file says becomes what the daemon keeps.
Read(written) ==
    [written EXCEPT !.policies = [rule \in DOMAIN written.policies |->
                                     ReadPolicy(written.policies[rule])]]

FromToml(written, env) ==
    /\ \A rule \in DOMAIN written.policies : IsPolicy(written.policies[rule])
    /\ Validate(Read(written), env)

\* Config::load and main.rs load_config: a missing file is an error only when
\* it was asked for; otherwise the defaults serve, unvalidated.
Loads(file, env) ==
    IF file.exists THEN FromToml(file.written, env) ELSE ~file.asked
Loaded(file, default) == IF file.exists THEN Read(file.written) ELSE default
=============================================================================
