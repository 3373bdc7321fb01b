---------------------------- MODULE WorkerMachine ----------------------------
(***************************************************************************)
(* The per-output worker of owe-core/src/worker.rs as a pure machine: one  *)
(* operator per event, from a worker to the next worker and the action the *)
(* drawing layer is told to take.  Nothing here waits or draws; the        *)
(* modules that drive a worker (OutputWorker) decide when an event         *)
(* arrives.                                                                *)
(***************************************************************************)
EXTENDS Naturals

CONSTANTS
    Size,       \* pixel sizes a surface can be configured to
    NoSize      \* the size of a worker that has none

ASSUME SizeAssumption == NoSize \notin Size

Kind == {"Idle", "Preparing", "Presented", "Reconfigured", "Failed"}
Busy == {"Preparing", "Reconfigured"}

\* A worker remembers the highest generation applied apart from its state.
Worker == [kind : Kind, gen : Nat, size : Size \cup {NoSize}, generation : Nat]

\* Only a worker with something on its way to the screen, or on it, has a size,
\* and that is always of the newest generation.
WellFormed(w) ==
    /\ w \in Worker
    /\ IF w.kind \in Busy \cup {"Presented"}
       THEN w.gen = w.generation /\ w.size \in Size
       ELSE w.gen = 0 /\ w.size = NoSize

NewWorker == [kind |-> "Idle", gen |-> 0, size |-> NoSize, generation |-> 0]

IsSleeping(w) == w.kind \notin Busy

\* What an event returns: the worker after it and the action to obey.
Do(w, action, g, s) == [worker |-> w, action |-> action, gen |-> g, size |-> s]
Render(w, g, s)     == Do(w, "Render", g, s)
Present(w, g, s)    == Do(w, "Present", g, s)
DropPixels(w)       == Do(w, "DropPixels", 0, NoSize)
Nothing(w)          == Do(w, "Idle", 0, NoSize)

Become(w, kind, g, s) == [w EXCEPT !.kind = kind, !.gen = g, !.size = s]
Sleep(w, kind)        == Become(w, kind, 0, NoSize)

\* Whether the worker is still working on generation g.
Awaits(w, g) == w.kind \in Busy /\ w.gen = g

-----------------------------------------------------------------------------
OnApply(w, g, s) ==
    IF g <= w.generation THEN Nothing(w)
    ELSE Render([kind |-> "Preparing", gen |-> g, size |-> s, generation |-> g], g, s)

\* Mutant: pixels are shown whatever they were rendered for.
OnPreparedAnyGeneration(w, g) ==
    IF w.kind \in Busy THEN Present(w, g, w.size) ELSE Nothing(w)

OnPrepared(w, g) ==
    IF Awaits(w, g) THEN Present(w, g, w.size) ELSE Nothing(w)

\* Mutant: any acknowledgement ends the work.
OnPresentedAnyGeneration(w, g, s) ==
    IF w.kind \in Busy THEN Nothing(Become(w, "Presented", w.gen, s)) ELSE Nothing(w)

OnPresented(w, g, s) ==
    IF Awaits(w, g) THEN Nothing(Become(w, "Presented", g, s)) ELSE Nothing(w)

\* Mutant: a resize is noted and nothing is rendered for it.
OnConfigureWithoutRender(w, s) ==
    IF w.kind = "Presented" /\ w.size # s
    THEN Nothing(Become(w, "Reconfigured", w.gen, s)) ELSE Nothing(w)

OnConfigure(w, s) ==
    CASE w.kind = "Presented" /\ w.size # s ->
             Render(Become(w, "Reconfigured", w.gen, s), w.gen, s)
      [] w.kind \in Busy ->
             Render(Become(w, w.kind, w.gen, s), w.gen, s)
      [] w.kind = "Presented" /\ w.size = s -> Nothing(w)
      [] w.kind \in {"Idle", "Failed"} -> Nothing(Sleep(w, "Idle"))

OnSurfaceClosed(w) == DropPixels(Sleep(w, "Idle"))

\* Mutant: a failure of the current generation counts as stale.
OnFailedNewerOnly(w, g) ==
    IF g <= w.generation THEN Nothing(w) ELSE DropPixels(Sleep(w, "Failed"))

OnFailed(w, g) ==
    IF g < w.generation THEN Nothing(w) ELSE DropPixels(Sleep(w, "Failed"))

OnClear(w) == DropPixels(Sleep(w, "Idle"))
=============================================================================
