----------------------------- MODULE MCGameTime -----------------------------
(* The bridge for TLC, in two instances that share no state; the first state *)
(* chooses one.  The clock: one action, a timeline that presses it at the   *)
(* start and releases it a unit of time later, windows of one frame or one  *)
(* unit, which settle frames prolong and the wall budget cuts short.  The   *)
(* timeline: pairs of key combinations that share a modifier, three         *)
(* deflections of one axis, pairs of entries of every kind.                 *)
EXTENDS GameTime, BridgeTimeline

CONSTANT jump
VARIABLE kind

timeline == <<inputs, todo, keys, down, pointer, dropped, credit>>
all      == <<vars, kind, timeline>>

Keys == [kind : {"key"}, what : {"c", "s"}, mods : {{}, {"ctrl"}}, start : 0..1, dur : 0..1]
Axes == [kind : {"axis"}, what : {"x"}, start : 0..2, dur : 0..1]
Others ==
  [kind : {"action"}, what : {"jump"}, strong : BOOLEAN, start : {0}, dur : {1}]
    \cup [kind : {"joy_button"}, what : {"a"}, start : {0}, dur : {1}]
    \cup [kind : {"stick"}, what : {"left"}, start : {1}, dur : {0}]
    \cup [kind : {"look"}, what : {"view"}, start : {0}, dur : {0, 3}]
    \cup [kind : {"drag"}, what : {"left"}, start : {1}, dur : {0, 2}, way : {None, <<"one">>}]

MCCall == {<<a, b>> : a, b \in Keys} \cup {<<a, b, c>> : a, b, c \in Axes}
            \cup {<<a, b>> : a, b \in Others \cup {CHOOSE k \in Keys : k.dur = 1}}

MCKey == {"c", "s", "ctrl"}

BridgeInit == kind \in {"clock", "timeline"} /\ Init /\ Inputs!Init
Clock(A)   == kind = "clock" /\ A /\ UNCHANGED <<kind, timeline>>
BridgeNext ==
  \/ Clock(Next)
  \/ kind = "timeline" /\ Inputs!Next /\ UNCHANGED <<kind, vars>>

\* GameTime's Fairness, of its own instance.
BridgeSpec ==
  /\ BridgeInit /\ [][BridgeNext]_all
  /\ WF_all(Clock(TopOfFrame)) /\ WF_all(Clock(Bridge))
  /\ WF_all(Clock(\E drawn \in BOOLEAN : Scene(drawn))) /\ SF_all(Clock(Scene(TRUE)))

(* A timeline ends with everything released and credited once, and a key    *)
(* that several entries hold is down until the last lets go.                *)
TimelineExact == [][Inputs!EndsClean' /\ Inputs!KeyHeldByAll']_all

(* Windows end: a step whatever the game does to its clock or its pause, a  *)
(* sequence unless new ones replace it for ever (GameTime).                 *)
WindowsEnd == kind = "clock" => StepEnds /\ SequenceEnds
=============================================================================
