----------------------------- MODULE MCStreams ------------------------------
(* The two byte streams the daemon reads, one at a time: a client's, which *)
(* shares a schema with the daemon or does not, and the shell's.           *)
EXTENDS Connection, Events

McSchemas == {{[major |-> 1, minor |-> 0]}, {[major |-> 2, minor |-> 0]}}

\* A title may hold what looks like another event; a workspace's name comes with
\* either spelling; a line may be blank, malformed or no text.
McLines ==
    {<<>>,
     <<"fullscreen", ">>", Garbled>>,
     <<"activewindow", ">>", "foot", ",", "fullscreen", ">>", "1">>,
     <<"workspace", ">>", "2", ",", "web">>}

\* Every event survives its own spelling (replay's "Each event is parsed,
\* re-rendered and parsed again"), though not every line is spelt as its event is.
Samples ==
    McLines \cup
    {<<"#", "total">>, <<"web", "fullscreen", ">>", "1">>, <<">>", "1">>,
     <<"submap", ">>">>, <<"configreloaded", ">>">>,
     <<"activewindow", ">>", ",">>, <<"activewindow", ">>", "foot">>,
     <<"fullscreen", ">>", "1">>, <<"fullscreen", ">>", "2">>,
     <<"workspace", ">>", "1">>, <<"workspacev2", ">>", "2", ",", "web">>,
     <<"workspacev2", ">>", "web">>, <<"renameworkspace", ">>", "2", ",", "web">>,
     <<"focusedmonv2", ">>", "eDP-1", ",", "2">>, <<"destroyworkspacev2", ">>", "1", ",">>,
     <<"monitoradded", ">>", "HDMI-A-1">>,
     <<"monitoraddedv2", ">>", "1", ",", "HDMI-A-1", ",", "Dell", ",", "Inc">>,
     <<"monitoraddedv2", ">>", "1", ",", "HDMI-A-1", ",">>,
     <<"monitorremovedv2", ">>", "1", ",">>,
     <<"openwindow", ">>", "a", ",", "2", ",", "foot", ",", "~", ",", "vim">>,
     <<"openwindow", ">>", "a", ",", "2", ",", "foot">>}

ASSUME EventsSurvive ==
    \A text \in Samples :
       ParseLine(text) # NoEvent => ParseLine(ToWire(ParseLine(text))) = ParseLine(text)

StreamsInit == InitConnection /\ InitEvents
StreamsNext ==
    \/ InitEvents /\ NextConnection /\ UNCHANGED eventVars
    \/ InitConnection /\ NextEvents /\ UNCHANGED connectionVars
StreamsSpec == StreamsInit /\ [][StreamsNext]_<<connectionVars, eventVars>>
=============================================================================
