-------------------------- MODULE MCDragTimeline ---------------------------
(* Single drags for TLC, straight ones and with points on the way.          *)
EXTENDS InputTimeline

Drags == {<<[kind |-> "drag", what |-> "left", start |-> s, dur |-> d, way |-> w]>> :
            s \in 0..1, d \in 1..4, w \in {None, <<>>, <<"one">>, <<"one", "two">>}}
=============================================================================
