-------------------------------- MODULE Media --------------------------------
(***************************************************************************)
(* A decoder of owe-media in the hands of its two users: the thread that   *)
(* opens it, reads frames, rewinds and drops it, and the thread that stops *)
(* playback through the cancellation handle.  Still images and animations  *)
(* are decoded in the process; a video comes from a child process, opened  *)
(* through the runtime candidates of with_runtime.                         *)
(*                                                                         *)
(* Pixels are abstracted to the number of the container's frame they show. *)
(* The child process, its pipes and the helper processes it may start are  *)
(* external, as video.rs uses them.                                        *)
(***************************************************************************)
EXTENDS AnimatedSource, SequencesExt

CONSTANTS
    Lengths,        \* frames of a container
    Caps,           \* frames the cache has room for
    MaxRewinds      \* bound: rewinds of one decoder

\* A container that opens has a frame; a cache may have room for none.
ASSUME MediaAssumption ==
    Lengths \subseteq Nat \ {0} /\ Caps \subseteq Nat /\ MaxRewinds \in Nat

VARIABLES
    file,       \* what is being opened, and the [media] configuration
    pc,         \* what the reading thread does
    todo,       \* with_runtime: candidates not tried yet
    still,      \* ImageDecoder.frame is there
    source,     \* AnimatedImageDecoder
    video,      \* VideoDecoder: runtime, Arc of its child, next_index, finished
    child,      \* the process in VideoDecoder.child, and its pipe
    helper,     \* a process a probe started still has the probe's pipes open
    handle,     \* the Arc a DecoderCancellation was made from; 0: none was
    cancelled,
    answer,     \* what the last call returned
    pass        \* history: frames given and errors told since the last rewind

mediaVars == <<file, pc, todo, still, source, video, child, helper, handle,
          cancelled, answer, pass>>

Runtime == {"gstreamer", "ffmpeg"}
ALL == <<"gstreamer", "ffmpeg">>
Resting == {"new", "open", "refused", "dropped"}

Given(f) == [op |-> "frame", frame |-> f]
Plain(op) == [op |-> op, frame |-> NoFrame]

NoChild == [state |-> "none", left |-> 0, pipe |-> 0, torn |-> FALSE]
Spawned == [state |-> "running", left |-> file.length, pipe |-> 0, torn |-> FALSE]
Alive == {"running", "stuck", "closing"}
Closed == {"closing", "ended", "failed", "killed"}      \* its stdout is at the end

\* classify_path: an image is believed by its content, a name without an image
\* inside by its extension; a shader is not looked into.
Classify(named, sniffed) ==
    IF named = "shader" \/ sniffed = "none" THEN named ELSE sniffed

Image == {"static-image", "animated-image"}
AllFiles ==
    [named : Image \cup {"video", "shader", "none"}, sniffed : Image \cup {"none"},
     length : Lengths, damage : {0} \cup Lengths, cap : Caps,
     backend : {"auto"} \cup Runtime, installed : SUBSET Runtime,
     vaapi : BOOLEAN, hw_decode_required : BOOLEAN]
\* What does not matter to a kind of file has one value.
Files ==
    {f \in AllFiles : LET kind == Classify(f.named, f.sniffed) IN
        /\ f.damage <= f.length
        /\ kind # "animated-image" => f.cap = 0
        /\ kind # "video" => /\ f.backend = "auto" /\ f.installed = {}
                             /\ f.vaapi /\ ~f.hw_decode_required
        /\ kind = "video" => f.damage = f.length
        /\ kind \in {"static-image", "shader", "none"} => f.length = 1}
Kind == Classify(file.named, file.sniffed)

\* runtime_candidates: what is installed, in order of preference, or the one
\* that is asked for.
Candidates(backend, installed) ==
    IF backend = "auto" THEN SelectSeq(ALL, LAMBDA r : r \in installed)
    ELSE SelectSeq(<<backend>>, LAMBDA r : r \in installed)

NewPass == [given |-> 0, failed |-> FALSE, rewinds |-> 0, tried |-> << >>]
FreshSource == [cache |-> << >>, pending |-> NoFrame, produced |-> 0, at |-> 0,
                cursor |-> 0, exhausted |-> TRUE, streaming |-> FALSE]
FreshVideo == [runtime |-> "none", arc |-> 0, next_index |-> 0, finished |-> FALSE]

InitMedia ==
    /\ file \in Files
    /\ pc = "new" /\ todo = << >>
    /\ still = FALSE
    /\ source = FreshSource
    /\ video = FreshVideo
    /\ child = NoChild /\ helper = FALSE
    /\ handle = 0 /\ cancelled = FALSE
    /\ answer = Plain("none") /\ pass = NewPass

-----------------------------------------------------------------------------
\* What a call returns.

Gives(f) == /\ answer' = Given(f)
            /\ pass' = [pass EXCEPT !.given = @ + 1]
Ends == answer' = Plain("end") /\ UNCHANGED pass
Errs == /\ answer' = Plain("error")
        /\ pass' = [pass EXCEPT !.failed = TRUE]

decoders == <<still, source, video, child>>
outside == <<file, helper, handle, cancelled>>

-----------------------------------------------------------------------------
\* Opening: open_resolved_kind.

OpenStill ==
    /\ pc = "new" /\ Kind = "static-image"
    /\ IF file.damage = 0 THEN pc' = "refused" /\ still' = FALSE /\ Errs
       ELSE pc' = "open" /\ still' = TRUE /\ UNCHANGED <<answer, pass>>
    /\ UNCHANGED <<source, video, child, todo, outside>>

OpenUnsupported ==
    /\ pc = "new" /\ Kind \in {"shader", "none"}
    /\ pc' = "refused" /\ Errs
    /\ UNCHANGED <<decoders, todo, outside>>

OpenAnimated ==
    /\ pc = "new" /\ Kind = "animated-image"
    /\ IF Opens(file)
       THEN pc' = "open" /\ source' = Opened(file) /\ UNCHANGED <<answer, pass>>
       ELSE pc' = "refused" /\ Errs /\ UNCHANGED source
    /\ UNCHANGED <<still, video, child, todo, outside>>

\* VideoDecoder::open and with_runtime: the candidates, in their order.
OpenVideo ==
    /\ pc = "new" /\ Kind = "video"
    /\ LET c == Candidates(file.backend, file.installed) IN
       IF c = << >> THEN pc' = "refused" /\ todo' = c /\ Errs
       ELSE pc' = "trying" /\ todo' = c /\ UNCHANGED <<answer, pass>>
    /\ UNCHANGED <<decoders, outside>>

\* probe_with and run_bounded: a bounded child process is run; at its deadline
\* it is killed.  What it has started is not, and keeps the pipes open.
Probe ==
    /\ pc = "trying"
    /\ pc' = "draining"
    /\ helper' \in BOOLEAN
    /\ UNCHANGED <<decoders, todo, file, handle, cancelled, answer, pass>>

HelperEnds ==
    /\ helper
    /\ helper' = FALSE
    /\ UNCHANGED <<decoders, pc, todo, file, handle, cancelled, answer, pass>>

Untried == /\ todo' = Tail(todo)
           /\ pass' = [pass EXCEPT !.tried = Append(@, Head(todo)),
                                   !.failed = Len(todo) = 1]
           /\ IF Len(todo) = 1 THEN pc' = "refused" /\ answer' = Plain("error")
              ELSE pc' = "trying" /\ UNCHANGED answer

\* The readers of the pipes are joined, whatever the probe said.  It failed,
\* what it told is unusable, the device probe says software and the
\* configuration demands hardware, or the pipeline cannot be started: the next
\* candidate is tried.  The last one's error is the answer.
AttemptFails ==
    /\ pc = "draining" /\ ~helper
    /\ Untried
    /\ UNCHANGED <<decoders, outside>>

AttemptOpens ==
    /\ pc = "draining" /\ ~helper
    /\ file.vaapi \/ ~file.hw_decode_required
    /\ pc' = "open"
    /\ video' = [runtime |-> Head(todo), arc |-> 1, next_index |-> 0, finished |-> FALSE]
    /\ child' = Spawned
    /\ UNCHANGED <<still, source, todo, outside, answer, pass>>

-----------------------------------------------------------------------------
\* next_frame of a still image and of an animation.

NextStill ==
    /\ pc = "open" /\ Kind = "static-image"
    /\ IF still THEN Gives(Frame(0, 0)) ELSE Ends
    /\ still' = FALSE
    /\ UNCHANGED <<pc, source, video, child, todo, outside>>

NextAnimated ==
    /\ pc = "open" /\ Kind = "animated-image"
    /\ \/ /\ FromCache(source)
          /\ Gives(Cached(source.cache, source.cursor))
          /\ source' = Served(source)
       \/ /\ FromPending(source)
          /\ Gives(source.pending)
          /\ source' = ServedPending(source)
       \/ /\ FromStream(source, file)
          /\ Gives(Frame(source.produced, source.at))
          /\ source' = Pulled(source)
       \/ /\ ~FromCache(source) /\ ~FromPending(source) /\ ~Pulls(source, file)
          /\ IF Breaks(source, file) THEN Errs ELSE Ends
          /\ source' = Exhausted(source)
    /\ UNCHANGED <<pc, still, video, child, todo, outside>>

-----------------------------------------------------------------------------
\* next_frame of a video: a frame is read from the child's stdout.

\* stop_child: the process is killed and waited for, the decoder is finished.
KillResponsive(c) == IF c.state = "running" THEN [c EXCEPT !.state = "killed"] ELSE c \* mutant
Kill(c) == IF c.state \in Alive THEN [c EXCEPT !.state = "killed"] ELSE c
StopLeavingChild == \* mutant
    /\ UNCHANGED child
    /\ video' = [video EXCEPT !.finished = TRUE]
StopChild == /\ child' = NoChild
             /\ video' = [video EXCEPT !.finished = TRUE]

NextVideo ==
    /\ pc = "open" /\ Kind = "video"
    /\ IF video.finished THEN pc' = pc /\ Ends
       ELSE pc' = "reading" /\ UNCHANGED <<answer, pass>>
    /\ UNCHANGED <<decoders, todo, outside>>

ReadFrame ==
    /\ pc = "reading" /\ child.pipe > 0
    /\ Gives(Frame(video.next_index, video.next_index))
    /\ child' = [child EXCEPT !.pipe = @ - 1]
    /\ video' = [video EXCEPT !.next_index = @ + 1]
    /\ pc' = "open"
    /\ UNCHANGED <<still, source, todo, outside>>

\* No memory for the frame, or the pipe cannot be read.
ReadFails ==
    /\ pc = "reading"
    /\ StopChild /\ Errs
    /\ pc' = "open"
    /\ UNCHANGED <<still, source, todo, outside>>

\* The output is at its end, perhaps inside a frame.
ReadEnds ==
    /\ pc = "reading" /\ child.pipe = 0 /\ child.state \in Closed
    /\ pc' = "reaping"
    /\ video' = [video EXCEPT !.finished = TRUE]
    /\ UNCHANGED <<still, source, child, todo, outside, answer, pass>>

\* finish_child: the process has ended, or is killed a second later.
Reap ==
    /\ pc = "reaping"
    /\ IF child.state = "ended" /\ ~child.torn THEN Ends ELSE Errs
    /\ child' = NoChild
    /\ pc' = "open"
    /\ UNCHANGED <<still, source, video, todo, outside>>

-----------------------------------------------------------------------------
\* rewind and drop.

\* The file cannot be opened, or the pipeline cannot be started, any more.
Reopens == {TRUE, FALSE}

Rewind ==
    /\ pc = "open" /\ pass.rewinds < MaxRewinds
    /\ \E ok \in Reopens :
          /\ answer' = Plain(IF ok THEN "none" ELSE "error")
          /\ pass' = [pass EXCEPT !.rewinds = @ + 1, !.failed = ~ok,
                          !.given = IF ok \/ Kind = "video" THEN 0 ELSE @]
          /\ CASE Kind = "static-image" ->
                     /\ still' = (still \/ ok)
                     /\ UNCHANGED <<source, video, child>>
               [] Kind = "animated-image" ->
                     /\ source' = IF ok THEN Rewound(source) ELSE source
                     /\ UNCHANGED <<still, video, child>>
               [] Kind = "video" ->
                     /\ child' = IF ok THEN Spawned ELSE NoChild
                     /\ video' = [video EXCEPT !.next_index = 0, !.finished = ~ok,
                                               !.arc = IF ok THEN @ + 1 ELSE @]
                     /\ UNCHANGED <<still, source>>
    /\ UNCHANGED <<pc, todo, outside>>

Drop ==
    /\ pc = "open"
    /\ pc' = "dropped"
    /\ StopChild
    /\ UNCHANGED <<still, source, todo, outside, answer, pass>>

-----------------------------------------------------------------------------
\* The other thread.

\* Clock::run takes the handle once, when the decoder is open.
TakeHandle ==
    /\ pc = "open" /\ Kind = "video" /\ handle = 0 /\ pass.rewinds = 0
    /\ handle' = video.arc
    /\ UNCHANGED <<decoders, pc, todo, file, helper, cancelled, answer, pass>>

\* DecoderCancellation::cancel kills what is in the Arc the handle was made of.
Reached(arc, current) == arc = current
Cancel ==
    /\ handle # 0 /\ ~cancelled
    /\ cancelled' = TRUE
    /\ child' = IF Reached(handle, video.arc) THEN Kill(child) ELSE child
    /\ UNCHANGED <<still, source, video, pc, todo, file, helper, handle, answer, pass>>

-----------------------------------------------------------------------------
\* The child process.

Pipeline(c) == /\ child.state \in Alive
               /\ child' = c
               /\ UNCHANGED <<still, source, video, pc, todo, outside, answer, pass>>
WriteOut == /\ child.state = "running" /\ child.left > 0 /\ child.pipe = 0
            /\ Pipeline([child EXCEPT !.left = @ - 1, !.pipe = 1])
Exit == /\ child.state = "running" /\ child.left = 0
        /\ \E s \in {"ended", "closing"} : Pipeline([child EXCEPT !.state = s])
Die == /\ child.state = "running"
       /\ \E t \in BOOLEAN : Pipeline([child EXCEPT !.state = "failed", !.torn = t])
Stick == /\ child.state = "running"
         /\ Pipeline([child EXCEPT !.state = "stuck"])
Process == WriteOut \/ Exit \/ Die \/ Stick

-----------------------------------------------------------------------------
Reader ==
    \/ OpenStill \/ OpenUnsupported \/ OpenAnimated \/ OpenVideo
    \/ Probe \/ AttemptFails \/ AttemptOpens
    \/ NextStill \/ NextAnimated \/ NextVideo
    \/ ReadFrame \/ ReadFails \/ ReadEnds \/ Reap
    \/ Rewind \/ Drop

NextMedia == Reader \/ TakeHandle \/ Cancel \/ HelperEnds \/ Process

MediaSpec == InitMedia /\ [][NextMedia]_mediaVars

\* The reading thread goes on with a call it is in as far as it can, and the
\* process does something until it is stuck; nobody has to call, and a helper
\* need not end.
FairMediaSpec ==
    /\ MediaSpec
    /\ WF_mediaVars(ReadFrame \/ ReadEnds) /\ WF_mediaVars(Reap)
    /\ WF_mediaVars(Probe) /\ WF_mediaVars(AttemptFails \/ AttemptOpens)
    /\ WF_mediaVars(Process)

-----------------------------------------------------------------------------
\* Properties.

\* An animation with part of its frames in the cache that has been rewound.
Mixed == /\ Kind = "animated-image" /\ pass.rewinds > 0
         /\ source.streaming /\ source.cache # << >>

Exact == /\ answer.op = "frame" =>
                /\ answer.frame.index = pass.given - 1
                /\ answer.frame.picture = answer.frame.index
         /\ answer.op = "end" /\ ~pass.failed => pass.given = file.length

\* Every pass through a file gives its frames in the container's order, each
\* with its own picture, and says it is at the end only when all of them were
\* given or an error was told: whatever the cache holds, whenever the container
\* or the process breaks, and however often the decoder is rewound.  Excepted
\* are the later passes of a partly cached animation, see FramesInOrder.
PassIsExact == Mixed \/ Exact

\* What the trait promises of next_frame ("the next frame in presentation
\* order") and of an index ("in container order"), without the exception.
FramesInOrder == Exact

\* A process is left only in the hands of a decoder that still reads from it:
\* a failed attempt, an ended or refused stream and a drop leave none behind.
NoOrphans == child.state # "none" =>
                 /\ pc \in {"open", "reading", "reaping"}
                 /\ pc = "open" => ~video.finished

\* A cancelled handle is of no use once the decoder was rewound.
Stale == handle # video.arc

\* Every call returns: the only excuses are a process that is stuck and was not
\* cancelled by a handle that is up to date, and a probe's helper that keeps
\* the pipes open.
CallsEnd == (pc \notin Resting) ~>
                \/ pc \in Resting
                \/ helper
                \/ child.state = "stuck" /\ (~cancelled \/ Stale)
=============================================================================
