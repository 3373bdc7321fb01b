--------------------------- MODULE AnimatedSource ---------------------------
(***************************************************************************)
(* owe_media::AnimatedImageDecoder (animated.rs) with its FrameCache       *)
(* (cache.rs), as operators on the decoder's record.  A frame is the index *)
(* the decoder gives it and the container's frame whose pixels it has; the *)
(* cache's cap is counted in frames that fit, compression left aside.      *)
(***************************************************************************)
EXTENDS Integers, Sequences

Frame(index, picture) == [index |-> index, picture |-> picture]
NoFrame == Frame(0, -1)

\* FrameCache::get, NoFrame when the index is not cached.
Cached(cache, index) ==
    IF \E i \in 1..Len(cache) : cache[i].index = index
    THEN cache[CHOOSE i \in 1..Len(cache) : cache[i].index = index]
    ELSE NoFrame

\* The first `count` frames of a container, as the pre-cache stores them.
Prefix(count) == [i \in 1..count |-> Frame(i - 1, i - 1)]

\* A container: its length and the frame that cannot be decoded (length: none).
\* Pre-caching a container with a damaged frame in reach fails the open.
Opens(file) == file.damage > file.cap \/ file.damage = file.length

\* Mutant: the frame that did not fit is dropped.
OpenedLosing(file) ==
    LET fits == IF file.cap < file.length THEN file.cap ELSE file.length
        streams == file.cap < file.length
        pulled == IF streams THEN fits + 1 ELSE fits
    IN  [cache |-> Prefix(fits), pending |-> NoFrame,
         produced |-> pulled, at |-> pulled, cursor |-> 0,
         exhausted |-> ~streams, streaming |-> streams]

\* AnimatedImageDecoder::open and pre_cache: the head is cached up to the cap;
\* the first frame over it is kept aside and makes the decoder stream.
Opened(file) ==
    LET fits == IF file.cap < file.length THEN file.cap ELSE file.length
        streams == file.cap < file.length
        pulled == IF streams THEN fits + 1 ELSE fits
    IN  [cache |-> Prefix(fits),
         pending |-> IF streams THEN Frame(fits, fits) ELSE NoFrame,
         produced |-> pulled, at |-> pulled, cursor |-> 0,
         exhausted |-> ~streams, streaming |-> streams]

\* pull: the container's next frame, labelled with the count of frames so far.
Pulls(d, file) == ~d.exhausted /\ d.at < file.length /\ d.at # file.damage
Pulled(d) == [d EXCEPT !.at = @ + 1, !.produced = @ + 1, !.cursor = d.produced + 1]
Breaks(d, file) == ~d.exhausted /\ d.at = file.damage /\ d.at < file.length
Exhausted(d) == [d EXCEPT !.exhausted = TRUE]

\* next_frame: the cached frame, else the one kept aside, else the container's.
FromCache(d) == Cached(d.cache, d.cursor) # NoFrame
FromPending(d) == ~FromCache(d) /\ d.pending # NoFrame /\ d.pending.index = d.cursor
FromStream(d, file) == ~FromCache(d) /\ ~FromPending(d) /\ Pulls(d, file)
Served(d) == [d EXCEPT !.cursor = @ + 1]
ServedPending(d) == [d EXCEPT !.cursor = @ + 1, !.pending = NoFrame]

\* rewind: the container is opened anew, before anything of the record changes.
Rewound(d) == [d EXCEPT !.at = 0, !.pending = NoFrame, !.produced = Len(d.cache),
                        !.cursor = 0, !.exhausted = ~d.streaming]
=============================================================================
