----------------------------- MODULE MCPlayback -----------------------------
(***************************************************************************)
(* Playback of three frames, the last out of a walk's reach.  A frame      *)
(* takes a millisecond and a half, which the clock counts as one.          *)
(***************************************************************************)
EXTENDS Playback

MCDelays == <<3, 3, 3>>
MCLoops == {<<0, 1>>, <<3, 4>>}
=============================================================================
