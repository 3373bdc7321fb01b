------------------------------- MODULE Shells -------------------------------
(***************************************************************************)
(* The shell backends: owe_core::shell (detection, selection, coexistence),*)
(* what the Caelestia, Hyprland and generic backends answer, and the patch *)
(* of the live [shell] settings (engine.rs patch_shell).                   *)
(*                                                                         *)
(* A session is what the backends look at: whether Caelestia's shell is    *)
(* running and its command line installed, whether Hyprland's and          *)
(* Wayland's variables (signature, display) hold text, and what hyprctl    *)
(* prints (monitors).                                                      *)
(***************************************************************************)
EXTENDS Outputs

Registered == <<"caelestia", "hyprland", "generic-layer-shell">>
Auto == "auto"
Nobody == "nobody"

Known(backends, id) == \E i \in 1..Len(backends) : backends[i] = id

\* detect_from, hyprland::detect, generic detect.
Detection(id, session) ==
    CASE id = "caelestia" -> IF session.running THEN "strong"
                             ELSE IF session.cli THEN "weak" ELSE "none"
      [] id = "hyprland" -> IF session.signature THEN "strong" ELSE "none"
      [] OTHER -> IF session.display THEN "strong" ELSE "none"

\* effective_detect_order: the settings' chain, the built-in one when empty.
DetectOrder(shell) ==
    IF shell.detect_order = <<>> THEN Registered
    ELSE [i \in DOMAIN shell.detect_order |-> Trim(shell.detect_order[i]).word]

\* Registry::select: auto takes the first of the chain that is registered and
\* strongly detected; a named backend is taken whatever it detects.
SelectAuto(order, backends, session) ==
    LET fitting == {i \in 1..Len(order) : /\ Known(backends, order[i])
                                          /\ Detection(order[i], session) = "strong"}
    IN  IF fitting = {} THEN Nobody
        ELSE order[CHOOSE i \in fitting : \A j \in fitting : i <= j]

Select(shell, backends, session) ==
    LET requested == Trim(shell.backend)
    IN  IF requested.word \in {"", Auto} THEN SelectAuto(DetectOrder(shell), backends, session)
        ELSE IF Known(backends, requested.word) THEN requested.word ELSE Nobody

\* detections: the chain first, then the rest in registration order.
Detections(shell, backends) ==
    LET chain == SelectSeq(DetectOrder(shell), LAMBDA id : Known(backends, id))
        rest == SelectSeq(backends, LAMBDA id : ~Known(chain, id))
    IN  chain \o rest

(***************************************************************************)
(* Listing outputs.  hyprctl's list is refused whole when one entry has no *)
(* name or no size; Caelestia asks Hyprland, and needs its session.        *)
(***************************************************************************)
ParseMonitors(monitors) ==
    IF \A i \in 1..Len(monitors) : monitors[i].named /\ monitors[i].sized
    THEN {[i \in 1..Len(monitors) |->
             [name |-> i, active |-> ~monitors[i].disabled /\ monitors[i].dpms]]}
    ELSE {}

\* Nothing listed is an empty set: the call failed.
ListOutputs(id, session) ==
    CASE id \in {"caelestia", "hyprland"} ->
            IF session.signature THEN ParseMonitors(session.monitors) ELSE {}
      [] OTHER ->
            IF session.display /\ session.monitors # <<>>
            THEN {[i \in 1..Len(session.monitors) |-> [name |-> i, active |-> TRUE]]}
            ELSE {}

EffectiveOutputs(outputs) == SelectSeq(outputs, LAMBDA o : o.active)

(***************************************************************************)
(* Who draws, and what Caelestia does with a request.                      *)
(***************************************************************************)
ParseMode(text) ==
    IF TrimmedIsOneOf(text, KNOWN_CAELESTIA_MODES) THEN text.word ELSE "daemon-drawn"

DrawMode(id, shell) ==
    IF id = "caelestia" THEN ParseMode(shell.caelestia_mode) ELSE "daemon-drawn"
Routed(id, shell) == DrawMode(id, shell) = "shell-routed"

\* Caelestia's apply_wallpaper: only the whole session, only with the CLI,
\* only a file that exists; and its clear_wallpaper.
ShellApplies(whole, session, place, exists) ==
    whole /\ session.cli /\ place # Nowhere /\ exists
ShellClears(id, shell) == ~Routed(id, shell)

(***************************************************************************)
(* decide_coexistence with coexist.rs: hyprpaper may be stopped, the other *)
(* tools are only told of; an unreadable policy warns.                     *)
(***************************************************************************)
ParsePolicy(text) ==
    IF TrimmedIsOneOf(text, KNOWN_HYPRPAPER_POLICIES) THEN text.word ELSE "warn"

\* from_command: the program's own name, less a -daemon ending.
Tool(program) ==
    CASE program \in {"hyprpaper", "hyprpaper-daemon"} -> "hyprpaper"
      [] program \in {"swww", "swww-daemon"} -> "swww"
      [] program \in {"awww", "awww-daemon"} -> "awww"
      [] OTHER -> "other"

Competing(processes) == {p \in processes : Tool(p.program) # "other"}

Noticed(processes, policy) == IF policy = "ignore" THEN {} ELSE Competing(processes)
Stopped(processes, policy) ==
    {p.pid : p \in {q \in Noticed(processes, policy) :
                        policy = "stop" /\ Tool(q.program) = "hyprpaper"}}

(***************************************************************************)
(* Engine::patch_shell.  A patch holds, for each setting it changes, the   *)
(* new value.  Everything is looked at before anything is published: the   *)
(* patch's own checks, the whole configuration's with the backend and the  *)
(* chain replaced by known ones, the selection, and the list of outputs.   *)
(***************************************************************************)
Patched(shell, patch) ==
    [setting \in DOMAIN shell |->
        IF setting \in DOMAIN patch THEN
            IF setting \in {"backend", "caelestia_mode", "hyprpaper"}
            THEN Trim(patch[setting]) ELSE patch[setting]
        ELSE shell[setting]]

PatchValid(shell, c, env) ==
    Validate([setting \in DOMAIN c |->
                 CASE setting = "backend" -> Plain(Auto)
                   [] setting = "detect_order" -> <<Plain("hyprland")>>
                   [] setting \in DOMAIN shell \ {"backend", "detect_order"} -> shell[setting]
                   [] OTHER -> c[setting]], env)

KnownId(text, backends) == text.style = "plain" /\ Known(backends, text.word)

\* The order of the refusals is the order the settings are looked at; a chain
\* is refused at its first stranger or double, with the same code for either.
PatchRefusal(shell, patch, c, backends, session, env) ==
    LET next == Patched(shell, patch)
        Changed(setting, Wrong(_)) == setting \in DOMAIN patch /\ Wrong(patch[setting])
        Stranger(text) == Trim(text) # Plain(Auto) /\ ~KnownId(Trim(text), backends)
        NoMode(text) == ~TrimmedIsOneOf(text, KNOWN_CAELESTIA_MODES)
        NoPolicy(text) == ~TrimmedIsOneOf(text, KNOWN_HYPRPAPER_POLICIES)
        Strange(order) == \E i \in 1..Len(order) : ~KnownId(order[i], backends)
        NoChain(order) == order = <<>> \/ ~Distinct(order)
    IN  IF Changed("backend", Stranger) THEN "selection"
        ELSE IF Changed("caelestia_mode", NoMode) THEN "shell"
        ELSE IF Changed("detect_order", Strange) THEN "selection"
        ELSE IF Changed("detect_order", NoChain) THEN "config"
        ELSE IF Changed("hyprpaper", NoPolicy) THEN "shell"
        ELSE IF ~PatchValid(next, c, env) THEN "config"
        ELSE IF Select(next, backends, session) = Nobody THEN "selection"
        ELSE IF ListOutputs(Select(next, backends, session), session) = {} THEN "shell"
        ELSE "none"
=============================================================================
