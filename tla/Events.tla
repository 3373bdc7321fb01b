------------------------------- MODULE Events -------------------------------
(***************************************************************************)
(* The shell's event stream: owe_shell_hyprland::socket2 (the lines and    *)
(* what they mean) and owed::events (the listener thread and the bus).     *)
(*                                                                         *)
(* A line is a sequence of pieces: words, ">>" and ",".  The shell writes  *)
(* it piece by piece, and the listener reads whatever has arrived: a read  *)
(* that waits too long in the middle of a line gives up what it holds, and *)
(* a connection may end anywhere.  A piece on the wire carries the number  *)
(* of its line, which the program does not see.                            *)
(***************************************************************************)
EXTENDS Integers, SequencesExt, FiniteSetsExt

CONSTANTS
    ShellLines,         \* what the shell may write
    Subscriber,
    SUBSCRIBER_CAPACITY,
    MaxLines,           \* bound: lines the shell writes
    MaxReconnects       \* bound: connections after the first

ASSUME EventsAssumption ==
    /\ SUBSCRIBER_CAPACITY \in Nat \ {0}
    /\ IsFiniteSet(Subscriber)

VARIABLES
    pending,            \* what the shell has still to write of its line
    wire,               \* written and unread
    held,               \* what the pending read_line holds
    link,               \* "up", "closed" (the shell left) or "down"
    backoff,            \* the next pause, in steps of RECONNECT_MIN
    reconnects,
    dropped,
    listed,             \* the subscribers on the bus
    subs,               \* each subscriber's queue, and what became of it
    wrote, cut,         \* history: the lines written, those broken or lost
    published           \* history: the events, with the line of each

reader == <<pending, wire, held, link, backoff, reconnects, wrote, cut>>
bus == <<dropped, listed, subs, published>>
eventVars == <<reader, bus>>

(***************************************************************************)
(* parse_line.                                                             *)
(***************************************************************************)
Numbers == {"0", "1", "2"}
Newline == "nl"
Garbled == "not UTF-8"
NoEvent == [kind |-> "none", fields |-> <<>>]

\* Split at the first n - 1 commas; the last field keeps the rest.
SplitN(payload, n) ==
    LET commas == {i \in DOMAIN payload : payload[i] = ","}
        first == {i \in commas : Cardinality({j \in commas : j < i}) < n - 1}
        ends == SetToSortSeq(first \cup {0, Len(payload) + 1}, <)
    IN  [k \in 1..(Len(ends) - 1) |-> SubSeq(payload, ends[k] + 1, ends[k + 1] - 1)]

\* How many fields a kind has: the fewest a line must hold, and the number it
\* is split into, the last of which keeps the rest.
Fields(kind) ==
    CASE kind \in {"activewindow", "focusedmon", "windowtitle", "activelayout"} -> <<2, 2>>
      [] kind \in {"workspace", "createworkspace", "destroyworkspace"} -> <<1, 2>>
      [] kind \in {"monitoraddedv2", "monitorremovedv2"} -> <<2, 3>>
      [] kind = "openwindow" -> <<4, 4>>
      [] OTHER -> <<1, 1>>

\* The second spelling of a kind whose first carries the same fields.
FirstSpelling(kind) ==
    CASE kind = "workspacev2" -> "workspace"
      [] kind = "createworkspacev2" -> "createworkspace"
      [] kind = "destroyworkspacev2" -> "destroyworkspace"
      [] kind = "focusedmonv2" -> "focusedmon"
      [] kind = "windowtitlev2" -> "windowtitle"
      [] OTHER -> kind

Numbered == {"workspace", "createworkspace", "destroyworkspace",
             "monitoraddedv2", "monitorremovedv2"}

Acceptable(kind, fields) ==
    /\ Len(fields) >= Fields(kind)[1]
    /\ kind \in Numbered => fields[1] \in {<<number>> : number \in Numbers}
    /\ kind = "fullscreen" => fields \in {<< <<"0">> >>, << <<"1">> >>}
    /\ kind = "configreloaded" => fields = << <<>> >>
    /\ kind = "monitorremoved" => fields[1] # <<>>
    /\ kind = "monitorremovedv2" => fields[2] # <<>>

\* An absent description and an empty one are the same.
Kept(kind, fields) ==
    IF kind \in {"monitoraddedv2", "monitorremovedv2"} /\ Len(fields) = 3 /\ fields[3] = <<>>
    THEN SubSeq(fields, 1, 2) ELSE fields

\* A blank line, a comment and what is malformed are no event; neither is a line
\* with nothing before ">>".  A name of several pieces is one no kind has: the line is kept whole.
ParseLine(line) ==
    LET arrow == SelectInSeq(line, LAMBDA piece : piece = ">>")
        kind == FirstSpelling(line[1])
        fields == SplitN(SubSeq(line, 3, Len(line)), Fields(kind)[2])
    IN  IF line = <<>> \/ line[1] = "#" \/ arrow < 2 THEN NoEvent
        ELSE IF arrow > 2 THEN [kind |-> "other", fields |-> <<line>>]
        ELSE IF Acceptable(kind, fields)
        THEN [kind |-> kind, fields |-> Kept(kind, fields)]
        ELSE NoEvent

\* A line that is no event, or no text.
Noise(line) == ParseLine(line) = NoEvent \/ Garbled \in ToSet(line)

\* to_wire, by which replay looks whether an event survives its own spelling: the
\* second spelling when the event has a name to carry.
Spelling(event) ==
    IF event.kind \in {"workspace", "createworkspace", "destroyworkspace"} /\ Len(event.fields) = 2
    THEN event.kind \o "v2" ELSE event.kind

ToWire(event) ==
    LET Join(text, field) == text \o <<",">> \o field
    IN  IF event.kind = "other" THEN event.fields[1]
        ELSE <<Spelling(event), ">>">> \o FoldLeft(Join, event.fields[1], Tail(event.fields))

\* The shell writes lines.
ASSUME ShellAssumption ==
    \A line \in ShellLines : line \in Seq(STRING) /\ Newline \notin ToSet(line)

(***************************************************************************)
(* The bus.  A queue holds the numbers of published events.                *)
(***************************************************************************)
Absent == [queue |-> <<>>, seen |-> <<>>, since |-> 0, until |-> 0, here |-> FALSE]

InitEvents ==
    /\ pending = <<>> /\ wire = <<>> /\ held = <<>>
    /\ link = "down" /\ backoff = 1 /\ reconnects = 0
    /\ wrote = <<>> /\ cut = {} /\ published = <<>>
    /\ dropped = 0 /\ listed = {} /\ subs = [s \in Subscriber |-> Absent]

Subscribe(s) ==
    /\ subs[s] = Absent
    /\ subs' = [subs EXCEPT ![s] = [Absent EXCEPT !.since = Len(published), !.here = TRUE]]
    /\ listed' = listed \cup {s}
    /\ UNCHANGED <<reader, dropped, published>>

Take(s) ==
    /\ subs[s].here /\ subs[s].queue # <<>>
    /\ subs' = [subs EXCEPT ![s].queue = Tail(@), ![s].seen = Append(@, Head(subs[s].queue))]
    /\ UNCHANGED <<reader, dropped, listed, published>>

\* The receiver is dropped; the bus finds out when it publishes.
Leave(s) ==
    /\ subs[s].here
    /\ subs' = [subs EXCEPT ![s].here = FALSE, ![s].until = Len(published)]
    /\ UNCHANGED <<reader, dropped, listed, published>>

Full(s) == Len(subs[s].queue) = SUBSCRIBER_CAPACITY

\* Mutant: a subscriber whose queue is full is taken off the bus.
PublishOnce(event, line) ==
    LET open == {s \in listed : subs[s].here /\ ~Full(s)}
    IN  /\ published' = Append(published, [event |-> event, line |-> line])
        /\ subs' = [s \in Subscriber |->
                       IF s \in open
                       THEN [subs[s] EXCEPT !.queue = Append(@, Len(published) + 1)]
                       ELSE subs[s]]
        /\ dropped' = dropped + Cardinality({s \in listed : subs[s].here /\ Full(s)})
        /\ listed' = open

Publish(event, line) ==
    LET here == {s \in listed : subs[s].here}
    IN  /\ published' = Append(published, [event |-> event, line |-> line])
        /\ subs' = [s \in Subscriber |->
                       IF s \in here /\ ~Full(s)
                       THEN [subs[s] EXCEPT !.queue = Append(@, Len(published) + 1)]
                       ELSE subs[s]]
        /\ dropped' = dropped + Cardinality({s \in here : Full(s)})
        /\ listed' = here

Spelt(pieces) == [i \in DOMAIN pieces |-> pieces[i].text]

PublishLine(pieces) ==
    LET event == ParseLine(Spelt(pieces))
    IN  IF event = NoEvent THEN UNCHANGED bus ELSE Publish(event, pieces[1].line)

(***************************************************************************)
(* The shell and the listener's thread.                                    *)
(***************************************************************************)
LinesIn(pieces) == {pieces[i].line : i \in DOMAIN pieces}

Begin(line) ==
    /\ link = "up" /\ pending = <<>> /\ Len(wrote) < MaxLines
    /\ wrote' = Append(wrote, line)
    /\ pending' = [i \in 1..(Len(line) + 1) |->
                      [text |-> Append(line, Newline)[i], line |-> Len(wrote) + 1]]
    /\ UNCHANGED <<wire, held, link, backoff, reconnects, cut, bus>>

Put ==
    /\ link = "up" /\ pending # <<>>
    /\ wire' = Append(wire, Head(pending))
    /\ pending' = Tail(pending)
    /\ UNCHANGED <<held, link, backoff, reconnects, wrote, cut, bus>>

\* The compositor exits, or replaces its socket.
ShellLeaves ==
    /\ link = "up"
    /\ link' = "closed"
    /\ cut' = cut \cup LinesIn(pending)
    /\ pending' = <<>>
    /\ UNCHANGED <<wire, held, backoff, reconnects, wrote, bus>>

Connect ==
    /\ link = "down" /\ reconnects <= MaxReconnects
    /\ link' = "up" /\ backoff' = 1
    /\ UNCHANGED <<pending, wire, held, reconnects, wrote, cut, bus>>

\* sleep_interruptibly, then the next attempt; each pause is the double of the
\* one before, up to RECONNECT_MAX.
Retry ==
    /\ reconnects' = reconnects + 1
    /\ backoff' = Min({2 * backoff, 20})

ConnectFails ==
    /\ link = "down" /\ reconnects < MaxReconnects
    /\ Retry
    /\ UNCHANGED <<pending, wire, held, link, wrote, cut, bus>>

\* next_line, piece by piece, up to the end of the line.
ReadPiece ==
    /\ link # "down" /\ wire # <<>> /\ Head(wire).text # Newline
    /\ held' = Append(held, Head(wire))
    /\ wire' = Tail(wire)
    /\ UNCHANGED <<pending, link, backoff, reconnects, wrote, cut, bus>>

Utf8 == Garbled \notin {held[i].text : i \in DOMAIN held}

ReadLine ==
    /\ link # "down" /\ wire # <<>> /\ Head(wire).text = Newline /\ Utf8
    /\ PublishLine(held)
    /\ held' = <<>>
    /\ wire' = Tail(wire)
    /\ UNCHANGED <<pending, link, backoff, reconnects, wrote, cut>>

\* The read times out with part of a line: what it held is gone.
ReadTimesOut ==
    /\ link = "up" /\ wire = <<>> /\ held # <<>>
    /\ cut' = cut \cup LinesIn(held)
    /\ held' = <<>>
    /\ UNCHANGED <<pending, wire, link, backoff, reconnects, wrote, bus>>

\* The stream ends in the middle of a line: what there is of it is a line.
ReadLastLine ==
    /\ link = "closed" /\ wire = <<>> /\ held # <<>> /\ Utf8
    /\ PublishLine(held)
    /\ held' = <<>>
    /\ UNCHANGED <<pending, wire, link, backoff, reconnects, wrote, cut>>

Disconnect ==
    /\ link' = "down" /\ wire' = <<>> /\ held' = <<>> /\ pending' = <<>>
    /\ cut' = cut \cup LinesIn(wire) \cup LinesIn(held) \cup LinesIn(pending)
    /\ Retry
    /\ UNCHANGED <<wrote, bus>>

StreamEnds == link = "closed" /\ wire = <<>> /\ held = <<>> /\ Disconnect

\* A line that is not UTF-8 ends the connection, not the line.
ReadFails ==
    /\ link # "down" /\ ~Utf8
    /\ IF wire = <<>> THEN link = "closed" ELSE Head(wire).text = Newline
    /\ Disconnect

NextEvents ==
    \/ \E s \in Subscriber : Subscribe(s) \/ Take(s) \/ Leave(s)
    \/ \E line \in ShellLines : Begin(line)
    \/ Put \/ ShellLeaves \/ Connect \/ ConnectFails
    \/ ReadPiece \/ ReadLine \/ ReadTimesOut \/ ReadLastLine \/ StreamEnds \/ ReadFails

EventsSpec == InitEvents /\ [][NextEvents]_eventVars

(***************************************************************************)
(* What the bus promises.                                                  *)
(***************************************************************************)
Underway == LinesIn(pending) \cup LinesIn(wire) \cup LinesIn(held)

\* A line that arrived whole is published once, in its turn and as the event the
\* shell wrote, unless it is noise.
LinesBecomeEvents ==
    /\ \A i \in DOMAIN published :
          published[i].line \in cut \/ published[i].event = ParseLine(wrote[published[i].line])
    /\ \A i, j \in DOMAIN published :
          i < j => \/ published[i].line < published[j].line
                   \/ published[i].line = published[j].line /\ published[i].line \in cut
    /\ \A n \in DOMAIN wrote :
          n \in cut \cup Underway
          \/ (Noise(wrote[n]) <=> ~(\E i \in DOMAIN published : published[i].line = n))

\* The events published while a subscriber was there, and those it was handed.
Offered(s) == (subs[s].since + 1)..(IF subs[s].here THEN Len(published) ELSE subs[s].until)
Handed(s) == subs[s].seen \o subs[s].queue
Missed(s) == Offered(s) \ ToSet(Handed(s))

LossesAreCounted ==
    dropped = Cardinality({m \in Subscriber \X DOMAIN published : m[2] \in Missed(m[1])})

\* Every subscriber is handed, in order, the events published while it was
\* there, and what it was not handed is counted as dropped; the events are the
\* lines the shell wrote, whatever the reads cut them into (events.rs, "the
\* dropped count is reported, so 'the governor missed something' is visible").
\* A line broken by a read that timed out or by a closing socket is exempt:
\* its remains are read as lines of their own.
SubscribersSeeTheStream ==
    /\ LinesBecomeEvents
    /\ LossesAreCounted
    /\ \A s \in Subscriber :
          /\ ToSet(Handed(s)) \subseteq Offered(s)
          /\ \A i, j \in DOMAIN Handed(s) : i < j => Handed(s)[i] < Handed(s)[j]
=============================================================================
