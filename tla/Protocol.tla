------------------------------ MODULE Protocol ------------------------------
(***************************************************************************)
(* owe_ipc::protocol and owe_ipc::frame: versions, the line decoder, and   *)
(* what one line is answered with.                                         *)
(*                                                                         *)
(* A stream is a sequence of units.  A unit is a record of the message it  *)
(* belongs to and of whether it is that message's newline.                 *)
(***************************************************************************)
EXTENDS Integers, Sequences, FiniteSets

CONSTANT MAX_FRAME_BYTES

ASSUME FrameAssumption == MAX_FRAME_BYTES \in Nat \ {0}

SCHEMA_MAJOR == 1
SCHEMA_MINOR == 2

\* negotiate: the same major, the lower of the two minors; none is {}.
Negotiate(versions) ==
    LET shared == {[major |-> SCHEMA_MAJOR,
                    minor |-> IF v.minor < SCHEMA_MINOR THEN v.minor ELSE SCHEMA_MINOR] :
                      v \in {w \in versions : w.major = SCHEMA_MAJOR}}
    IN  {v \in shared : \A w \in shared : w.minor <= v.minor}

Unit(message, newline) == [of |-> message, newline |-> newline]

\* A message of some length on the wire.
Line(message, length) ==
    [i \in 1..(length + 1) |-> Unit(message, i = length + 1)]

Newlines(buffer) == {i \in 1..Len(buffer) : buffer[i].newline}
FirstOf(indices) == CHOOSE i \in indices : \A j \in indices : i <= j

(***************************************************************************)
(* FrameDecoder::next_frame: the payload taken, what stays buffered, and   *)
(* whether the stream is beyond repair.                                    *)
(***************************************************************************)
Decoded(payload, rest, status) == [payload |-> payload, rest |-> rest, status |-> status]

\* Mutant: what follows a line in the same read is dropped with it.
NextFrameClearing(buffer) ==
    IF Newlines(buffer) = {} THEN Decoded(<<>>, buffer,
        IF Len(buffer) > MAX_FRAME_BYTES THEN "too_large" ELSE "none")
    ELSE Decoded(SubSeq(buffer, 1, FirstOf(Newlines(buffer)) - 1), <<>>,
        IF FirstOf(Newlines(buffer)) - 1 > MAX_FRAME_BYTES THEN "too_large" ELSE "frame")

NextFrame(buffer) ==
    IF Newlines(buffer) = {}
    THEN Decoded(<<>>, buffer, IF Len(buffer) > MAX_FRAME_BYTES THEN "too_large" ELSE "none")
    ELSE LET position == FirstOf(Newlines(buffer)) - 1
         IN  IF position > MAX_FRAME_BYTES THEN Decoded(<<>>, buffer, "too_large")
             ELSE Decoded(SubSeq(buffer, 1, position),
                          SubSeq(buffer, position + 2, Len(buffer)), "frame")

\* A payload is its message when nothing of it is missing.
Whole(payload, length) ==
    /\ payload # <<>>
    /\ Len(payload) = length
    /\ \A i \in 1..Len(payload) : payload[i].of = payload[1].of
=============================================================================
