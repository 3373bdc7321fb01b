----------------------------- MODULE Connection -----------------------------
(***************************************************************************)
(* One connection of the daemon's socket: owe_ipc::server's accept and     *)
(* serve_connection, and owe_ipc::client's call.                           *)
(*                                                                         *)
(* The client numbers its requests, writes one and reads one line; a read  *)
(* that waits too long ends the call with an error and forgets what it had *)
(* read of the line, but the connection stays usable.  The daemon's thread *)
(* reads whatever has arrived, cuts lines out of it, and answers each line *)
(* before it looks at the next one.                                        *)
(***************************************************************************)
EXTENDS Protocol

CONSTANTS
    MaxCalls,                   \* requests a client makes
    READ,                       \* units one read of the daemon takes at most
    Schemas                     \* the sets of versions a hello offers

\* The shortest request still has a unit before its newline.
ASSUME ConnectionAssumption ==
    MaxCalls \in Nat /\ READ \in Nat \ {0} /\ MAX_FRAME_BYTES > 1

VARIABLES
    sent,                       \* the requests, in order: the k-th has id k
    calling,                    \* the client: "idle", "waiting", "gone"
    line,                       \* what it has read of the reply
    results,                    \* what its calls returned
    requests,                   \* units on their way to the daemon
    replies,                    \* units on their way to the client
    serving,                    \* the daemon: "pending", "reading", "frames",
                                \* "handling", "writing", "closing" or "ended"
    connections,                \* Server.connections
    buffer,                     \* FrameDecoder.buffer
    handshaken,
    current,                    \* the payload handle_payload is given
    output,                     \* the rest of the reply in write_all
    answers,                    \* the replies made, in order
    applied                     \* the requests the handler carried out

connectionVars ==
    <<sent, calling, line, results, requests, replies, serving, connections,
      buffer, handshaken, current, output, answers, applied>>

clientVars == <<sent, calling, line, results>>
daemonVars == <<serving, connections, buffer, handshaken, current, output, answers, applied>>

(***************************************************************************)
(* Requests are a good call, one the handler refuses, a hello, and what a  *)
(* client of another make may write: text that is not a request, another   *)
(* major, and a line that is too long.                                     *)
(***************************************************************************)
Messages ==
    [kind : {"do", "refuse", "garbage", "major", "long"}, schema : {{}}]
        \cup [kind : {"hello"}, schema : Schemas]

NoId == 0                       \* the empty id of an unreadable request
REPLY == 2                      \* units of a reply

\* encode leaves room for the newline; what is written by hand may not.
Length(message) ==
    CASE message.kind = "long" -> MAX_FRAME_BYTES + 1
      [] message.kind = "garbage" -> MAX_FRAME_BYTES
      [] OTHER -> MAX_FRAME_BYTES - 1
ReplyFrame(id, verdict) == [id |-> id, verdict |-> verdict]

\* write_reply: a reply that is too long for a frame gives way to an internal error
\* that names the request, and that, if it is too long itself, to one that does not.
Encoded(reply) == {reply, ReplyFrame(reply.id, "internal"), ReplyFrame(NoId, "internal")}

InitConnection ==
    /\ sent = <<>> /\ results = <<>> /\ answers = <<>>
    /\ calling = "idle" /\ line = <<>>
    /\ requests = <<>> /\ replies = <<>>
    /\ serving = "pending" /\ connections = 0
    /\ buffer = <<>> /\ current = <<>> /\ output = <<>>
    /\ handshaken = FALSE /\ applied = {}

Listening == serving # "ended"

\* The connection is closed on the daemon's side; what it wrote can be read.
Close == serving' = "ended"

(***************************************************************************)
(* The client.                                                             *)
(***************************************************************************)
Returns(result) ==
    /\ results' = Append(results, result)
    /\ calling' = "idle" /\ line' = <<>>

\* call: the request is written, or the connection is found shut.
Call(message) ==
    /\ calling = "idle" /\ Len(sent) < MaxCalls
    /\ sent' = Append(sent, message)
    /\ \/ /\ Listening
          /\ calling' = "waiting"
          /\ requests' = requests \o Line(Len(sent'), Length(message))
          /\ UNCHANGED <<line, results>>
       \/ ~Listening /\ Returns("io") /\ UNCHANGED requests
    /\ UNCHANGED <<replies, daemonVars>>

\* One read of read_until.
Receive ==
    /\ calling = "waiting" /\ replies # <<>>
    /\ ~(\E i \in 1..Len(line) : line[i].newline)
    /\ \E n \in 1..Len(replies) :
          /\ \A i \in 1..(n - 1) : ~replies[i].newline
          /\ line' = line \o SubSeq(replies, 1, n)
          /\ replies' = SubSeq(replies, n + 1, Len(replies))
    /\ UNCHANGED <<sent, calling, results, requests, daemonVars>>

\* Mutant: whatever reply comes next is taken for the answer.
ReadingAny(payload) ==
    IF ~Whole(payload, REPLY) THEN "protocol"
    ELSE answers[payload[1].of].verdict

\* call, once it has a line: a reply that carries another id is refused.
Reading(payload) ==
    IF ~Whole(payload, REPLY) \/ answers[payload[1].of].id # Len(sent) THEN "protocol"
    ELSE answers[payload[1].of].verdict

Understand ==
    /\ calling = "waiting" /\ line # <<>> /\ line[Len(line)].newline
    /\ Returns(Reading(SubSeq(line, 1, Len(line) - 1)))
    /\ UNCHANGED <<sent, requests, replies, daemonVars>>

\* The read times out with part of the line in hand, or with none.
TimeOut ==
    /\ calling = "waiting" /\ replies = <<>> /\ Listening
    /\ ~(\E i \in 1..Len(line) : line[i].newline)
    /\ Returns("io")
    /\ UNCHANGED <<sent, requests, replies, daemonVars>>

\* The daemon has closed: what was read of a line is all there is of it.
FindClosed ==
    /\ calling = "waiting" /\ replies = <<>> /\ ~Listening
    /\ ~(\E i \in 1..Len(line) : line[i].newline)
    /\ Returns(IF line = <<>> THEN "protocol" ELSE Reading(line))
    /\ UNCHANGED <<sent, requests, replies, daemonVars>>

\* The client leaves, or is killed in the middle of a call.
Hangup ==
    /\ calling # "gone"
    /\ calling' = "gone"
    /\ UNCHANGED <<sent, line, results, requests, replies, daemonVars>>

(***************************************************************************)
(* The daemon.                                                             *)
(***************************************************************************)
\* accept_pending: counted first; a thread that cannot be started drops the
\* connection and leaves it counted.
Accept ==
    /\ serving = "pending"
    /\ connections' = connections + 1
    /\ serving' \in {"reading", "ended"}
    /\ UNCHANGED <<clientVars, requests, replies, buffer, handshaken, current, output,
                   answers, applied>>

Finish ==
    /\ Close /\ connections' = connections - 1
    /\ UNCHANGED <<buffer, handshaken, current, output, answers, applied>>

\* One read: some of what has arrived.
Read ==
    /\ serving = "reading" /\ requests # <<>>
    /\ \E n \in 1..Len(requests) :
          /\ n <= READ
          /\ buffer' = buffer \o SubSeq(requests, 1, n)
          /\ requests' = SubSeq(requests, n + 1, Len(requests))
    /\ serving' = "frames"
    /\ UNCHANGED <<clientVars, replies, connections, handshaken, current, output,
                   answers, applied>>

\* The client is gone, or has said nothing for thirty seconds.
ReadEnds ==
    /\ serving = "reading" /\ requests = <<>>
    /\ Finish
    /\ UNCHANGED <<clientVars, requests, replies>>

\* The next line, if there is one.
Cut ==
    /\ serving = "frames"
    /\ LET next == NextFrame(buffer)
       IN  /\ buffer' = next.rest
           /\ \/ /\ next.status = "frame"
                 /\ current' = next.payload /\ serving' = "handling"
                 /\ UNCHANGED <<answers, output>>
              \/ /\ next.status = "none"
                 /\ serving' = "reading"
                 /\ UNCHANGED <<answers, output, current>>
              \/ /\ next.status = "too_large"
                 /\ answers' = Append(answers, ReplyFrame(NoId, "bad"))
                 /\ output' = Line(Len(answers'), REPLY)
                 /\ serving' = "closing"
                 /\ UNCHANGED current
    /\ UNCHANGED <<clientVars, requests, replies, connections, handshaken, applied>>

\* handle_payload: [answer, handshake, done].
Handled(id) ==
    LET message == sent[id]
        Refuses(name) == [answer |-> ReplyFrame(name, "bad"), hello |-> handshaken, done |-> FALSE]
        accepts == [answer |-> ReplyFrame(id, "ok"), hello |-> TRUE, done |-> TRUE]
    IN  IF message.kind = "garbage" THEN Refuses(NoId)
        ELSE IF message.kind = "major" THEN Refuses(id)
        ELSE IF message.kind = "hello"
        THEN IF Negotiate(message.schema) # {} THEN accepts ELSE Refuses(id)
        ELSE IF handshaken /\ message.kind = "do" THEN accepts
        ELSE Refuses(id)

\* The reply is made and encoded; what the handler did stands whatever becomes of it.
Handle ==
    /\ serving = "handling"
    /\ LET outcome == Handled(current[1].of)
       IN  /\ \E reply \in Encoded(outcome.answer) : answers' = Append(answers, reply)
           /\ handshaken' = outcome.hello
           /\ applied' = applied \cup (IF outcome.done THEN {current[1].of} ELSE {})
    /\ output' = Line(Len(answers'), REPLY)
    /\ serving' = "writing" /\ current' = <<>>
    /\ UNCHANGED <<clientVars, requests, replies, connections, buffer>>

\* The encoded reply, as much as the socket takes; then the next line, or the end.
WriteReply ==
    /\ serving \in {"writing", "closing"} /\ calling # "gone"
    /\ \E n \in 1..Len(output) :
          /\ replies' = replies \o SubSeq(output, 1, n)
          /\ output' = SubSeq(output, n + 1, Len(output))
    /\ IF output' # <<>> THEN UNCHANGED <<serving, connections>>
       ELSE IF serving = "writing" THEN serving' = "frames" /\ UNCHANGED connections
       ELSE Close /\ connections' = connections - 1
    /\ UNCHANGED <<clientVars, requests, buffer, handshaken, current, answers, applied>>

\* Nobody is left to read the reply.
WriteFails ==
    /\ serving \in {"writing", "closing"} /\ calling = "gone"
    /\ Finish
    /\ UNCHANGED <<clientVars, requests, replies>>

NextConnection ==
    \/ \E message \in Messages : Call(message)
    \/ Receive \/ Understand \/ TimeOut \/ FindClosed \/ Hangup
    \/ Accept \/ Read \/ ReadEnds \/ Cut \/ Handle \/ WriteReply \/ WriteFails

ConnectionSpec == InitConnection /\ [][NextConnection]_connectionVars
-----------------------------------------------------------------------------
(***************************************************************************)
(* However the requests are cut into reads, the daemon answers them one by *)
(* one in the order they were written, each by its own merits or with the  *)
(* internal error that no answer fits a frame; a line that is too long     *)
(* gets one last answer and nothing after it is looked at.  A daemon       *)
(* waiting for more owes no answer.                                        *)
(***************************************************************************)
Due(id) ==
    LET greeted == \E j \in 1..(id - 1) : /\ sent[j].kind = "hello"
                                          /\ Negotiate(sent[j].schema) # {}
        good == \/ sent[id].kind = "hello" /\ Negotiate(sent[id].schema) # {}
                \/ sent[id].kind = "do" /\ greeted
    IN  ReplyFrame(IF sent[id].kind \in {"garbage", "long"} THEN NoId ELSE id,
               IF good THEN "ok" ELSE "bad")

Answerable ==
    {k \in 1..Len(sent) : \A j \in 1..(k - 1) : sent[j].kind # "long"}

AnswersFollowRequests ==
    /\ Len(answers) <= Cardinality(Answerable)
    /\ \A i \in 1..Len(answers) : answers[i] \in Encoded(Due(i))
    /\ serving = "reading" /\ requests = <<>> /\ buffer = <<>> =>
          \A k \in Answerable : k <= Len(answers)

(***************************************************************************)
(* A call that returns a success was carried out, and one that returns the *)
(* daemon's refusal was not (an internal error says neither): a late       *)
(* answer to a call that was given up is never taken for the answer to a   *)
(* later one, whole or in part.                                            *)
(***************************************************************************)
CallsTellTheTruth ==
    \A k \in 1..Len(results) :
        /\ results[k] = "ok" => k \in applied
        /\ results[k] = "bad" => k \notin applied
=============================================================================
