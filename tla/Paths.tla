------------------------------- MODULE Paths --------------------------------
(***************************************************************************)
(* Paths and references as the user writes them: owe_core::path and        *)
(* owe_core::model, and how the Caelestia backend reads a path.            *)
(*                                                                         *)
(* A written path is the sequence of its pieces: "~" at the front, an      *)
(* absolute "/..." or relative "..." literal, or a variable's name.  An    *)
(* environment maps each variable to what it holds: an absolute or a       *)
(* relative path, blank text or nothing.  A path is known by its root, the *)
(* place the text leads to.                                                *)
(***************************************************************************)
EXTENDS Integers, Sequences

Deferrable == "CAELESTIA_WALLPAPERS_DIR"
Variables == {"HOME", "USERPROFILE", "OWE_DIR", Deferrable}
Nowhere == "nowhere"            \* the reading failed

Set(env, name) == env[name] # "unset"

\* The variable a leading ~ stands for.
Home(env) == IF Set(env, "HOME") THEN "HOME" ELSE "USERPROFILE"

\* expand_with: what one piece reads as, and whether the whole can be read.
Piece(piece, env) ==
    IF piece = "~" THEN env[Home(env)]
    ELSE IF piece \notin Variables THEN piece
    ELSE IF Set(env, piece) THEN env[piece] ELSE "$"

Readable(path, env) ==
    /\ path # <<>>
    /\ Head(path) = "~" => Set(env, Home(env))
    /\ \A i \in 1..Len(path) :
          path[i] \in Variables => Set(env, path[i]) \/ path[i] = Deferrable

Deferred(path, env) ==
    \E i \in 1..Len(path) : path[i] = Deferrable /\ ~Set(env, Deferrable)

Expands(path, env) ==
    Readable(path, env) /\ (Deferred(path, env) \/ Piece(Head(path), env) = "/...")

\* The text an expansion yields; a deferred one keeps its dollar sign.
Expanded(path, env) == [i \in DOMAIN path |-> Piece(path[i], env)]

(***************************************************************************)
(* WallpaperRef::parse.  A reference is [form, name, path, suffix]: the    *)
(* prefix it starts with, whether a name follows it, and for a path its    *)
(* pieces and its extension.                                               *)
(***************************************************************************)
Kinds == {"static-image", "animated-image", "video", "shader"}

\* ContentKind::from_extension, with or without a dot, in any case.
KindOf(suffix) ==
    CASE suffix \in {"png", "jpg", "webp"} -> "static-image"
      [] suffix \in {"gif", "apng"} -> "animated-image"
      [] suffix \in {"mp4", "mkv"} -> "video"
      [] suffix = "wgsl" -> "shader"
      [] OTHER -> "none"

\* A kind of "later" is the library row's to tell.
Parsed(ref, env) ==
    CASE ref.form = "blank" -> [source |-> "error", kind |-> "none"]
      [] ref.form \in {"library:", "shader:"} /\ ~ref.named ->
            [source |-> "error", kind |-> "none"]
      [] ref.form = "library:" /\ ref.named -> [source |-> "library", kind |-> "later"]
      [] ref.form = "shader:" /\ ref.named -> [source |-> "shader", kind |-> "shader"]
      [] ref.form = "path" /\ Expands(ref.path, env) /\ KindOf(ref.suffix) # "none" ->
            [source |-> "path", kind |-> KindOf(ref.suffix)]
      [] OTHER -> [source |-> "error", kind |-> "none"]

(***************************************************************************)
(* XdgPaths::resolve_with: each directory from its own variable when that  *)
(* holds text, else from the home directory; no session, no socket.        *)
(***************************************************************************)
Holds(env, name) == name \in DOMAIN env /\ env[name] \notin {"unset", "blank"}

Base(env, name, fallback) == IF Holds(env, name) THEN name ELSE fallback

XdgPaths(env) ==
    [config_file |-> Base(env, "XDG_CONFIG_HOME", "HOME"),
     state_dir   |-> Base(env, "OWE_STATE_DIR", Base(env, "XDG_STATE_HOME", "HOME")),
     cache_dir   |-> Base(env, "XDG_CACHE_HOME", "HOME"),
     data_dir    |-> Base(env, "XDG_DATA_HOME", "HOME"),
     runtime_dir |-> Base(env, "XDG_RUNTIME_DIR", Nowhere)]

Resolves(env) == Holds(env, "HOME")
SocketPath(env) == XdgPaths(env).runtime_dir

(***************************************************************************)
(* The Caelestia backend's wallpapers directory, by the variable or the    *)
(* setting it comes from, and the place a wallpaper it is given leads to.  *)
(***************************************************************************)
HasDollar(path, env) == \E i \in DOMAIN path : Expanded(path, env)[i] = "$"

WallpapersDir(setting, env) ==
    IF setting # <<>> /\ Expands(setting, env) /\ ~HasDollar(setting, env) THEN "setting"
    ELSE IF env[Deferrable] \notin {"unset", "blank"} THEN Deferrable
    ELSE IF Holds(env, "XDG_PICTURES_DIR") THEN "XDG_PICTURES_DIR"
    ELSE IF Set(env, "HOME") THEN "HOME"
    ELSE Nowhere

\* resolve_wallpaper: an absolute path is passed through.
WallpaperPlace(piece, setting, env) ==
    CASE piece = "blank" -> Nowhere
      [] piece = "/..." -> "itself"
      [] OTHER -> WallpapersDir(setting, env)
=============================================================================
