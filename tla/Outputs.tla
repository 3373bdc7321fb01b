------------------------------ MODULE Outputs -------------------------------
(***************************************************************************)
(* owe_core::outputs and owe_core::output: which [outputs.*] section is in *)
(* force for an output, which outputs a target names, and which transition *)
(* a change runs (engine.rs).                                              *)
(*                                                                         *)
(* The sections are a sequence in key order.  What a key has in common     *)
(* with the output is all a rule reads of it: match is "name" (equal up to *)
(* letter case), "any", "text" (a fragment of the description), or "other".*)
(***************************************************************************)
EXTENDS Config

None == 0                       \* no section: the keys are numbered from 1

Matching(sections, match) == {i \in 1..Len(sections) : sections[i].match = match}

LastOf(indices) == IF indices = {} THEN None
                 ELSE CHOOSE i \in indices : \A j \in indices : j <= i

\* The order of the description matches: longest first, then by key.
Before(sections, i, j) ==
    \/ sections[i].length > sections[j].length
    \/ sections[i].length = sections[j].length /\ i < j

\* Mutant: the description that was written first wins.
FirstText(sections) ==
    LET texts == Matching(sections, "text")
    IN  IF texts = {} THEN None ELSE CHOOSE i \in texts : \A j \in texts : i <= j

MostSpecific(sections) ==
    LET texts == Matching(sections, "text")
    IN  IF texts = {} THEN None
        ELSE CHOOSE i \in texts : \A j \in texts \ {i} : Before(sections, i, j)

\* resolve: of several keys that are the name, or `any`, in different letter
\* case the last one is kept.
Winner(sections) ==
    LET exact == LastOf(Matching(sections, "name"))
        any == LastOf(Matching(sections, "any"))
    IN  IF exact # None THEN exact
        ELSE IF MostSpecific(sections) # None THEN MostSpecific(sections)
        ELSE any

\* The sections reported as matched and lost.
Conflicts(sections) ==
    (Matching(sections, "text") \cup ({LastOf(Matching(sections, "any"))} \ {None}))
        \ {Winner(sections)}

(***************************************************************************)
(* OutputTarget::parse and output::resolve: names up to letter case, then  *)
(* descriptions; always the first of the list that fits.                   *)
(***************************************************************************)
Target(spec) ==
    CASE Trim(spec).word \in {"", "all", "*"} /\ Trim(spec).style = "plain" -> "all"
      [] Trim(spec).word \in {"focused", "current"} /\ Trim(spec).style = "plain" -> "focused"
      [] OTHER -> "named"

First(fitting) == {i \in fitting : \A j \in fitting : i <= j}
ActiveOf(outputs) == {i \in 1..Len(outputs) : outputs[i].active}

Named(outputs, wanted) ==
    LET same == {i \in ActiveOf(outputs) : outputs[i].name = wanted}
        alike == {i \in ActiveOf(outputs) : outputs[i].name.word = wanted.word}
        described == {i \in ActiveOf(outputs) : wanted.word \in outputs[i].description}
    IN  IF same # {} THEN First(same)
        ELSE IF alike # {} THEN First(alike)
        ELSE First(described)

\* The positions a target resolves to; none is an error the caller reports.
ResolveTarget(outputs, spec) ==
    CASE Target(spec) = "all" -> ActiveOf(outputs)
      [] Target(spec) = "focused" -> First({i \in ActiveOf(outputs) : outputs[i].focused})
      [] OTHER -> Named(outputs, Trim(spec))

(***************************************************************************)
(* The transition of a change: the request's, the section's, the default;  *)
(* the engine then holds it against the catalogue and the allowed names.   *)
(***************************************************************************)
SectionTransition(sections, default) ==
    IF Winner(sections) # None /\ sections[Winner(sections)].config.transition # {}
    THEN CHOOSE t \in sections[Winner(sections)].config.transition : TRUE
    ELSE default

FpsCap(sections) ==
    IF Winner(sections) = None THEN {} ELSE sections[Winner(sections)].config.fps_cap

\* TransitionKind::parse trims and ignores letter case; the allow-list does not.
IsTransition(name) == name.word \in KNOWN_TRANSITIONS

EngineAllows(t, c) ==
    /\ IsTransition(t.name)
    /\ t.name \in c.allow_transitions
    /\ t.duration_ms <= MAX_TRANSITION_MS
    /\ t.fps \in FPS_RANGE

ChosenTransition(requested, sections, c) ==
    IF requested # {} THEN CHOOSE t \in requested : TRUE
    ELSE SectionTransition(sections, c.default_transition)

\* Engine::planned_wallpaper: the session's entry, else the winning section's.
Planned(recorded, sections) ==
    IF recorded # {} THEN recorded
    ELSE IF Winner(sections) = None THEN {}
    ELSE sections[Winner(sections)].config.wallpaper
=============================================================================
