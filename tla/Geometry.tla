------------------------------ MODULE Geometry ------------------------------
(***************************************************************************)
(* The sizes of pictures: owe_render::image::plan (an image on an output), *)
(* owe_render::transition (how many frames a change takes, and what they   *)
(* blend) and owe_media::still (decoding and thumbnails).                  *)
(*                                                                         *)
(* A size is <<width, height>>; axis 1 is across, axis 2 down.  Clip and   *)
(* texture coordinates are exact fractions [n, d], the rounding to floats  *)
(* left out except where a frame count depends on it.                      *)
(***************************************************************************)
EXTENDS Integers, FiniteSets

Frac(n, d) == [n |-> n, d |-> d]
One == Frac(1, 1)
Less(a, b) == a.n * b.d < b.n * a.d
Same(a, b) == a.n * b.d = b.n * a.d
Smaller(a, b) == IF Less(b, a) THEN b ELSE a
Larger(a, b) == IF Less(a, b) THEN b ELSE a
Over(a, b) == Frac(a.n * b.d, a.d * b.n)

Axes == {1, 2}
Empty(size) == \E axis \in Axes : size[axis] = 0
BOTH(f) == [axis \in Axes |-> f]

\* Scaling::parse.
Scaling(word) ==
    CASE word \in {"fill", "cover"} -> "fill"
      [] word \in {"fit", "contain"} -> "fit"
      [] OTHER -> word

(***************************************************************************)
(* QuadPlan: how much of the screen the picture takes (clip), and how much *)
(* of the picture is seen (uv), both centred.                              *)
(***************************************************************************)
Ratio(source, target) == [axis \in Axes |-> Frac(target[axis], source[axis])]

\* Mutant: the whole picture is made to fit when it should fill.
PlanFitting(source, target, mode) ==
    LET ratio == Ratio(source, target)
        scale == Smaller(ratio[1], ratio[2])
    IN  [clip |-> BOTH(One), uv |-> [axis \in Axes |-> Over(ratio[axis], scale)]]

Plan(source, target, mode) ==
    LET ratio == Ratio(source, target)
    IN  IF Empty(source) \/ Empty(target) \/ mode = "stretch"
        THEN [clip |-> BOTH(One), uv |-> BOTH(One)]
        ELSE CASE mode = "fill" ->
                    LET scale == Larger(ratio[1], ratio[2])
                    IN  [clip |-> BOTH(One), uv |-> [axis \in Axes |-> Over(ratio[axis], scale)]]
               [] mode = "fit" ->
                    LET scale == Smaller(ratio[1], ratio[2])
                    IN  [clip |-> [axis \in Axes |-> Over(scale, ratio[axis])], uv |-> BOTH(One)]
               [] mode = "center" ->
                    [clip |-> [axis \in Axes |-> Smaller(Over(One, ratio[axis]), One)],
                     uv |-> [axis \in Axes |-> Smaller(ratio[axis], One)]]

(***************************************************************************)
(* Schedule: the frames of a transition.  The product in floats may come   *)
(* out just above a whole number, and the ceiling is then one more.        *)
(***************************************************************************)
CEIL(n, d) == (n + d - 1) \div d
Clamp(n, low, high) == IF n < low THEN low ELSE IF n > high THEN high ELSE n

Schedule(duration_ms, fps) ==
    LET product == duration_ms * Clamp(fps, 1, 240)
        exact == CEIL(product, 1000)
    IN  IF duration_ms = 0 THEN {1}
        ELSE IF product % 1000 = 0 THEN {exact, exact + 1} ELSE {exact}

Progress(frame, frames) == Frac(frame + 1, frames)
FrameInterval(duration_ms, frames) == Frac(duration_ms, frames)

\* params: both pictures of a frame, placed by one rule.
Params(progress, target, from, to, mode) ==
    [progress |-> progress, from |-> Plan(from, target, mode), to |-> Plan(to, target, mode)]

\* check_buffer and DecodedImage::new: a picture is refused unless its buffer
\* has the length its size asks for.
Accepted(size, length) == length = 4 * size[1] * size[2] /\ ~Empty(size)

\* TransitionRenderer::new.
Begins(target, from, to) == ~Empty(target) /\ Accepted(from.size, from.length)
                                           /\ Accepted(to.size, to.length)

(***************************************************************************)
(* retarget: a newer picture takes a running change over.  What is on the  *)
(* screen is frozen into a picture of the screen's size and becomes the    *)
(* old one; the new pixels are written over the old new picture, into its  *)
(* texture and by its size, and only then is that picture told its size.   *)
(* An image is [size, texture, pixels], the pixels whole, torn (rows of    *)
(* another length) or unwritten.                                           *)
(***************************************************************************)
GpuImage(size) == [size |-> size, texture |-> size, pixels |-> "whole"]

UploadImage(image, picture) ==
    LET size == image.size
        short == picture.size[1] * picture.size[2] < size[1] * size[2]
        outside == \E axis \in Axes : size[axis] > image.texture[axis]
    IN  IF short \/ outside THEN "unwritten"
        ELSE IF picture.size = image.texture THEN "whole" ELSE "torn"

Retarget(renderer, picture) ==
    IF ~Accepted(picture.size, picture.length) THEN {}
    ELSE {[target |-> renderer.target,
           from |-> GpuImage(renderer.target),
           to |-> [renderer.to EXCEPT !.size = picture.size,
                                      !.pixels = UploadImage(renderer.to, picture)]]}

(***************************************************************************)
(* Thumbnails: the longest edge is cut to max_edge, the other follows and  *)
(* never vanishes; and which images are decoded at all.                    *)
(***************************************************************************)
Longest(size) == IF size[1] < size[2] THEN size[2] ELSE size[1]
Round(n, d) == (2 * n + d) \div (2 * d)

ThumbnailSize(source, max_edge) ==
    IF Empty(source) \/ max_edge = 0 THEN [axis \in Axes |-> Clamp(source[axis], 1, source[axis] + 1)]
    ELSE IF Longest(source) <= max_edge THEN source
    ELSE [axis \in Axes |->
             LET edge == Round(source[axis] * max_edge, Longest(source))
             IN  IF edge = 0 THEN 1 ELSE edge]

\* decode_file_with_budget: a header that can be read decides.
Decodes(header, size, max_pixels) ==
    /\ header # {} => \A s \in header : s[1] * s[2] <= max_pixels
    /\ ~Empty(size)
-----------------------------------------------------------------------------
(***************************************************************************)
(* Every mode keeps its promise for every picture and output (image.rs,    *)
(* Scaling): fill leaves no bar and crops along one axis at most, fit      *)
(* crops nothing and leaves bars along one axis at most, center keeps the  *)
(* size, stretch shows the whole picture on the whole screen, and only     *)
(* stretch distorts.                                                       *)
(***************************************************************************)
Magnified(plan, source, target, axis) ==
    Over(Frac(plan.clip[axis].n * target[axis], plan.clip[axis].d),
         Frac(plan.uv[axis].n * source[axis], plan.uv[axis].d))

Sound(plan) ==
    \A axis \in Axes : /\ 0 < plan.clip[axis].n /\ ~Less(One, plan.clip[axis])
                       /\ 0 < plan.uv[axis].n /\ ~Less(One, plan.uv[axis])

KeepsItsPromise(plan, source, target, mode) ==
    LET Full(part) == {axis \in Axes : Same(part[axis], One)}
        magnified == [axis \in Axes |-> Magnified(plan, source, target, axis)]
    IN  /\ Sound(plan)
        /\ mode # "stretch" => Same(magnified[1], magnified[2])
        /\ mode \in {"fill", "stretch"} => Full(plan.clip) = Axes
        /\ mode \in {"fit", "stretch"} => Full(plan.uv) = Axes
        /\ mode = "fill" => Full(plan.uv) # {}
        /\ mode = "fit" => Full(plan.clip) # {}
        /\ mode = "center" => /\ Same(magnified[1], One)
                              /\ Full(plan.clip) \cup Full(plan.uv) = Axes

\* A transition is shown at the rate asked for or a little above it, and its
\* last frame, and no other, is the new picture.
EndsOnTheImage(frames, duration_ms, fps) ==
    /\ frames > 0
    /\ duration_ms * fps <= frames * 1000
    /\ (frames - 2) * 1000 < Clamp(duration_ms * fps, 1, duration_ms * fps + 1)
    /\ \A k \in 0..(frames - 1) : Same(Progress(k, frames), One) = (k = frames - 1)

\* A change that is taken over goes on from what was on the screen: the frozen
\* picture is shown as it is, in every mode, and the new one is whole.  Named
\* exception: a newer picture of another size than the one it replaces.
TakesOver(renderer, newer, picture, mode) ==
    LET frozen == Plan(newer.from.size, newer.target, mode)
    IN  /\ \A axis \in Axes : Same(frozen.clip[axis], One) /\ Same(frozen.uv[axis], One)
        /\ newer.to.size = picture.size
        /\ newer.to.pixels = "whole" \/ renderer.to.size # picture.size
                                     \/ renderer.to.texture # renderer.to.size

\* A thumbnail is no larger than asked for or than its picture,
\* and of the picture's shape to within the rounding of an edge.
IsThumbnailOf(thumb, source, max_edge) ==
    /\ \A axis \in Axes : thumb[axis] \in 1..source[axis]
    /\ Longest(thumb) = IF Longest(source) < max_edge THEN Longest(source) ELSE max_edge
    /\ \A axis \in Axes :
          LET error == thumb[axis] * Longest(source) - source[axis] * Longest(thumb)
          IN  error \in -Longest(source)..Longest(source)
=============================================================================
