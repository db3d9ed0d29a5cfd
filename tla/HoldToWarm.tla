----------------------------- MODULE HoldToWarm -----------------------------
(***************************************************************************)
(* What the proxy promises a client while its editor starts: the comment   *)
(* in src/launch/proxy/warmup.mjs:80-87 (T1 to T4) as a specification.     *)
(* A call that arrives while the editor is warming is put on a queue.  The *)
(* queue leaves as a whole: forwarded when the editor is warm (T1),        *)
(* answered with an error when the warm-up window runs out (T2), when the  *)
(* editor comes back late (T3) or when the proxy gives up (T4).            *)
(*                                                                         *)
(* "Warm" is what the proxy last saw: it looks, pauses, and forwards the   *)
(* queue behind the pause without looking again, so an editor reported     *)
(* gone meanwhile may still be sent the queue, once for each look.         *)
(* ProxyWarmup implements this specification.                              *)
(***************************************************************************)
EXTENDS Naturals

VARIABLES phase,   \* "cold", "warming", "warm", "recovering" or "gone"
          queue,   \* how many calls are held
          sent,    \* how many calls are with the server
          seen     \* the editor was seen warm, and no more has been looked at

vars == <<phase, queue, sent, seen>>

Phases == {"cold", "warming", "warm", "recovering", "gone"}

Init == phase = "cold" /\ queue = 0 /\ sent = 0 /\ seen = FALSE

\* A look at the editor finds it warm, or what was seen stands or is dropped.
Looks == seen' \in {FALSE, seen \/ phase' = "warm"}

\* Time passes: a look and no more.
Wait == UNCHANGED <<phase, queue, sent>>

\* A call is held: while the editor is warming or to make it warm, and behind
\* no recovery.
Hold == /\ phase \in {"cold", "warming", "recovering"}
        /\ phase' = "warming"
        /\ queue' = queue + 1
        /\ UNCHANGED sent

\* A call is answered at once; it may have made the editor start.
TurnAway == /\ phase \in {"cold", "recovering"} /\ phase' = "warming"
            /\ UNCHANGED <<queue, sent>>

\* A call is passed on: only to a warm editor, whoever is still queued.
Pass == phase = "warm" /\ sent' = sent + 1 /\ UNCHANGED <<phase, queue>>

\* The editor is found warm; the queue may wait for the server's connection.
Warmed == /\ phase \in {"warming", "recovering"}
          /\ phase' = "warm" /\ UNCHANGED <<queue, sent>>

\* T1: the queue is forwarded, all of it, when the editor is found warm or on
\* the strength of the last look, and never while the proxy recovers.
Flush == /\ \/ phase \in {"cold", "warming"} /\ phase' = "warm"
            \/ seen /\ phase \in {"cold", "warming", "warm"} /\ phase' = phase
         /\ queue' = 0 /\ sent' = sent + queue /\ ~seen'

\* T2 to T4 and the failures of a spawn: the queue is answered, all of it.
Reject == /\ phase # "gone"
          /\ phase' \in Phases
          /\ queue' = 0 /\ UNCHANGED sent

\* The queue outlives only what does not end a warm-up window: the death of
\* the editor, and a restart of the episode.
Fall == /\ phase \in {"warming", "warm", "recovering"}
        /\ phase' \in {"cold", "warming"}
        /\ UNCHANGED <<queue, sent>>

\* The server answers a call; an answer may tell that the editor is gone.
Answer == /\ sent > 0 /\ sent' = sent - 1
          /\ phase' \in IF phase = "warm" THEN {"warm", "cold"} ELSE {phase}
          /\ UNCHANGED queue

Next == /\ \/ Wait \/ Hold \/ TurnAway \/ Pass \/ Warmed
           \/ Flush \/ Reject \/ Fall \/ Answer
        /\ Looks

Spec == Init /\ [][Next]_vars
=============================================================================
