----------------------------- MODULE CallRouter -----------------------------
(***************************************************************************)
(* What becomes of a tools/call in the proxy: router.mjs with the server's *)
(* process (npx.mjs, protocol.mjs), the takeover of the editor's single    *)
(* slot (takeover.mjs), the held restart (restart.mjs) and the calls that  *)
(* the proxy makes on its own behalf (screenshot.mjs, ui-inspect.mjs).     *)
(*                                                                         *)
(* The warm-up is ProxyWarmup's: here an editor gets warm, is lost, and    *)
(* the queue is answered or flushed, at any moment that module allows.     *)
(* Whether the warm-up ever releases its queue is for that module to say   *)
(* (HeldIsAnswered): nothing here relies on it.                            *)
(***************************************************************************)
EXTENDS Naturals

CONSTANTS Call,       \* the tools/calls of a client, by their ids
          Kind,       \* what each asks for
          MaxFaults,  \* bound: deaths of the server, losses of the editor
          None        \* no call

Kinds == {"plain", "restart", "ui", "shot"}

CallsAssumption == Kind \in [Call -> Kinds] /\ None \notin Call /\ MaxFaults \in Nat

VARIABLES
    todo,      \* calls still to come
    answers,   \* how many answers the client has got, for each call
    pending,   \* S.pendingCalls
    copies,    \* how often each call is in npxWriteBuffer or at the server
    inner,     \* calls that wait for an internal call (internalExecWaiters)
    takeover,  \* S.takeover
    hold,      \* S.restartHold: the restart it is for
    watch,     \* driveRestartRespawn, for each restart
    phase,     \* warm-up: "cold", "warm" with the queue still held, "stale" when warmth is
               \* lost while the loop pauses before it sends the queue, "served"
    npx,       \* the server's process
    cli,       \* S.npxCliConnected
    dropped,   \* S.npxReadyDropped
    hung,      \* a handler never returns to the event loop
    lost,      \* calls whose line was dropped or died with the server
    faults

callVars  == <<todo, answers, pending, copies, inner, lost>>
holdVars  == <<hold, watch>>
warmVars  == <<phase, dropped>>
npxVars   == <<npx, cli>>
vars == <<callVars, takeover, holdVars, warmVars, npxVars, hung, faults>>

NoTakeover == [waiters |-> {}, probe |-> None, timer |-> FALSE]

Init ==
    /\ todo = Call /\ answers = [c \in Call |-> 0] /\ pending = {}
    /\ copies = [c \in Call |-> 0] /\ inner = {} /\ lost = {}
    /\ takeover = NoTakeover /\ hold = None /\ watch = [c \in Call |-> "none"]
    /\ phase = "cold" /\ dropped = FALSE
    /\ npx = "starting" /\ cli = FALSE
    /\ hung = FALSE /\ faults = 0

\* The proxy handles events: it has not exited and no handler is stuck.
Alive == npx # "gone" /\ ~hung
Warm  == phase \in {"warm", "served"}
Fallen == IF phase = "warm" THEN {"cold", "stale"} ELSE {"cold"}
Ready(n) == n = "up"

Answer(cs) == answers' = [c \in Call |-> answers[c] + IF c \in cs THEN 1 ELSE 0]

(***************************************************************************)
(* forwardToNpx: to the server, to the write buffer while its pipe is not  *)
(* ready, and nowhere when there is no server.                             *)
(***************************************************************************)
Put(cs, n, from) ==
    IF n \in {"up", "starting"}
    THEN copies' = [c \in Call |-> from[c] + IF c \in cs THEN 1 ELSE 0] /\ UNCHANGED lost
    ELSE copies' = from /\ lost' = lost \cup cs
Forward(cs) == Put(cs, npx, copies)

\* Slip: a rejected call stays queued.
RejectPendingKept(also) == Answer(pending \cup also) /\ UNCHANGED pending

\* rejectQueue, and the rejection of finishRestartHold.
RejectPending(also) == Answer(pending \cup also) /\ pending' = {}

\* flushQueue.  A ui call goes through handleClaudeMessage again, which puts it
\* back while the server's pipe is not ready, and may put it back or turn it away
\* while the editor is not warm: the loop never ends when the call is put back.
FlushPending(n, also, from) ==
    LET uis == {c \in pending : Kind[c] = "ui"}
    IN  \/ /\ uis # {} /\ ~(Warm /\ Ready(n))
           /\ hung' = TRUE /\ Answer(also)
           /\ copies' = from /\ UNCHANGED <<pending, inner, lost>>
        \/ /\ uis = {} \/ ~Warm \/ Ready(n)
           /\ pending' = {} /\ UNCHANGED hung
           /\ Put(pending \ uis, n, from)
           /\ IF Warm THEN inner' = inner \cup uis /\ Answer(also)
                      ELSE UNCHANGED inner /\ Answer(also \cup uis)

(***************************************************************************)
(* A call arrives (handleClaudeMessage).                                   *)
(***************************************************************************)
Arrive(c) == Alive /\ c \in todo /\ todo' = todo \ {c}
Elsewhere == UNCHANGED <<takeover, warmVars, npxVars, hung, faults>>

\* Help, a snippet that fails its check, a drag that cannot be expanded.
CallAnswered(c) ==
    /\ Arrive(c) /\ Kind[c] = "plain" /\ Answer({c})
    /\ UNCHANGED <<pending, copies, inner, lost, holdVars>> /\ Elsewhere

\* A ui call, and a screenshot that first steps the game, make a call of
\* their own and wait for it.
CallInner(c) ==
    /\ Arrive(c) /\ Kind[c] \in {"ui", "shot"} /\ Warm /\ Ready(npx)
    /\ inner' = inner \cup {c}
    /\ UNCHANGED <<answers, pending, copies, lost, holdVars>> /\ Elsewhere

CallRestart(c) ==
    /\ Arrive(c) /\ Kind[c] = "restart" /\ Warm /\ hold = None
    /\ hold' = c /\ Forward({c})
    /\ UNCHANGED <<answers, pending, inner, watch>> /\ Elsewhere

CallForwarded(c) ==
    /\ Arrive(c) /\ Kind[c] = "plain" /\ Warm /\ hold = None /\ Ready(npx)
    /\ Forward({c})
    /\ UNCHANGED <<answers, pending, inner, holdVars>> /\ Elsewhere

\* Slip: the router looks at the connection to the editor, not at the pipe.
MustHoldCli(c) ==
    CASE Kind[c] = "restart" -> hold # None
      [] Kind[c] = "plain"   -> hold # None \/ ~Ready(npx) \/ ~cli
      [] OTHER               -> ~Ready(npx)

\* A warm proxy holds a call while the editor restarts or the server does.
MustHold(c) ==
    CASE Kind[c] = "restart" -> hold # None
      [] Kind[c] = "plain"   -> hold # None \/ ~Ready(npx)
      [] OTHER               -> ~Ready(npx)

CallHeld(c) ==
    /\ Arrive(c) /\ Warm /\ MustHold(c)
    /\ pending' = pending \cup {c}
    /\ UNCHANGED <<answers, copies, inner, lost, holdVars>> /\ Elsewhere

\* A cold proxy holds a call or turns it away, as ProxyWarmup has it.
CallCold(c) ==
    /\ Arrive(c) /\ ~Warm
    /\ \/ pending' = pending \cup {c} /\ UNCHANGED answers
       \/ hold = None /\ Answer({c}) /\ UNCHANGED pending
    /\ UNCHANGED <<copies, inner, lost, holdVars>> /\ Elsewhere

\* The internal call is answered or times out: a ui call is answered, a
\* screenshot is forwarded.
InnerEnds(c) ==
    /\ Alive /\ c \in inner /\ inner' = inner \ {c}
    /\ IF Kind[c] = "ui" THEN Answer({c}) /\ UNCHANGED <<copies, lost>>
                         ELSE Forward({c}) /\ UNCHANGED answers
    /\ UNCHANGED <<todo, pending, holdVars>> /\ Elsewhere

(***************************************************************************)
(* The takeover: calls that the addon refused because another client holds *)
(* its slot wait, and one of them at a time is sent again.                 *)
(***************************************************************************)
\* failTakeover, with the self-heal that may follow.
FailTakeover == /\ Answer(takeover.waiters) /\ takeover' = NoTakeover
                /\ phase' \in {phase} \cup Fallen

\* Slip: whoever is not the probe is forgotten when the slot is free.
DrainOnly(c, from) ==
    takeover' = NoTakeover /\ Put({}, npx, from)

\* drainTakeoverWaiters: the slot is ours, so the other waiters are sent again.
Drain(c, from) ==
    IF c \in takeover.waiters
    THEN takeover' = NoTakeover /\ Put(takeover.waiters \ {c}, npx, from)
    ELSE UNCHANGED takeover /\ Put({}, npx, from)

Took(c) == [copies EXCEPT ![c] = @ - 1]

\* A busy answer is kept from the client.
AnswerBusy(c) ==
    /\ Alive /\ npx = "up" /\ copies[c] > 0 /\ hold # c
    /\ copies' = Took(c)
    /\ IF takeover.probe = c
       THEN \/ takeover' = [takeover EXCEPT !.probe = None, !.timer = TRUE]
               /\ UNCHANGED <<answers, phase>>
            \/ FailTakeover
       ELSE /\ takeover' = [takeover EXCEPT !.waiters = @ \cup {c},
                               !.timer = @ \/ takeover.waiters = {}]
            /\ UNCHANGED <<answers, phase>>
    /\ UNCHANGED <<todo, pending, inner, lost, holdVars, dropped, npxVars, hung, faults>>

\* Slip: the timer runs on while the probe is away.
TakeoverProbesArmed ==
    /\ Alive /\ takeover.timer /\ takeover.probe = None
    /\ \E c \in takeover.waiters :
          takeover' = [takeover EXCEPT !.probe = c] /\ Forward({c})
    /\ UNCHANGED <<todo, answers, pending, inner, holdVars, warmVars, npxVars, hung, faults>>

\* attemptTakeoverProbe.  The timer is not armed again while the probe is away.
TakeoverProbes ==
    /\ Alive /\ takeover.timer
    /\ \E c \in takeover.waiters :
          /\ takeover' = [takeover EXCEPT !.probe = c, !.timer = FALSE]
          /\ Forward({c})
    /\ UNCHANGED <<todo, answers, pending, inner, holdVars, warmVars, npxVars, hung, faults>>

TakeoverExpires ==
    /\ Alive /\ takeover.timer /\ FailTakeover
    /\ UNCHANGED <<todo, pending, copies, inner, lost, holdVars, dropped, npxVars,
                   hung, faults>>

(***************************************************************************)
(* Any other answer goes to the client, unless it acknowledges the held    *)
(* restart.  It may tell that the editor is gone.                          *)
(***************************************************************************)
AnswerComes(c) ==
    /\ Alive /\ npx = "up" /\ copies[c] > 0 /\ hold # c
    /\ Answer({c}) /\ Drain(c, Took(c))
    /\ phase' \in {phase} \cup Fallen /\ (phase' = phase \/ faults < MaxFaults)
    /\ faults' = IF phase' = phase THEN faults ELSE faults + 1
    /\ UNCHANGED <<todo, pending, inner, holdVars, dropped, npxVars, hung>>

\* finishRestartHold: the restart is answered, what was held meanwhile is sent
\* or answered.
Finish(ok, from) ==
    /\ hold' = None
    /\ IF ok THEN FlushPending(npx, {hold}, from)
             ELSE /\ RejectPending({hold}) /\ copies' = from
                  /\ UNCHANGED <<inner, lost, hung>>

RestartAck(c) ==
    /\ Alive /\ npx = "up" /\ copies[c] > 0 /\ hold = c
    /\ copies' = Took(c) /\ watch' = [watch EXCEPT ![c] = "cold"]
    /\ UNCHANGED <<todo, answers, pending, inner, lost, hold>> /\ Elsewhere

RestartRefused(c) ==
    /\ Alive /\ npx = "up" /\ copies[c] > 0 /\ hold = c
    /\ Finish(FALSE, Took(c))
    /\ UNCHANGED <<todo, takeover, watch, warmVars, npxVars, faults>>

\* The hold's own timer; its watch, if any, has no time left either.
RestartTimeout ==
    /\ Alive /\ hold # None
    /\ watch' = [watch EXCEPT ![hold] = IF @ = "none" THEN @ ELSE "late"]
    /\ Finish(FALSE, copies)
    /\ UNCHANGED <<todo, takeover, warmVars, npxVars, faults>>

\* The relaunched editor answers a probe.
WatchSeesEditor(c) ==
    /\ Alive /\ watch[c] = "cold"
    /\ watch' = [watch EXCEPT ![c] = "up"]
    /\ phase' = IF Warm THEN phase ELSE "warm"
    /\ UNCHANGED <<callVars, takeover, hold, dropped, npxVars, hung, faults>>

\* The watch is over, and finishes whatever hold there is by then.
WatchEnds(c) ==
    /\ Alive /\ watch[c] # "none"
    /\ watch' = [watch EXCEPT ![c] = "none"]
    /\ IF hold = None THEN UNCHANGED <<callVars, hold, hung>>
       ELSE /\ \/ watch[c] = "up" /\ cli /\ Finish(TRUE, copies)
               \/ Finish(FALSE, copies)
            /\ UNCHANGED todo
    /\ UNCHANGED <<takeover, warmVars, npxVars, faults>>

(***************************************************************************)
(* The server's process.                                                   *)
(***************************************************************************)
\* Its exit clears the write buffer.  During a cold boot it is started again
\* without limit, after that a few times; then the proxy exits.
NpxDies ==
    /\ Alive /\ npx \in {"up", "starting"} /\ faults < MaxFaults
    /\ faults' = faults + 1
    /\ copies' = [c \in Call |-> 0] /\ lost' = lost \cup {c \in Call : copies[c] > 0}
    /\ npx' \in IF Warm THEN {"hot", "gone"} ELSE {"backoff"}
    /\ IF npx' = "gone" THEN RejectPending({}) ELSE UNCHANGED <<answers, pending>>
    /\ UNCHANGED <<todo, inner, takeover, holdVars, warmVars, cli, hung>>

\* The pipe of a new server may be writable at once (markNpxTransportReady).
Opened(n) ==
    /\ npx' = n
    /\ IF n = "up" /\ Warm THEN FlushPending(n, {}, copies)
                           ELSE UNCHANGED <<answers, pending, copies, inner, lost, hung>>

\* Slip: a server that dies while the editor is warm is not started again.
NpxStartsCold ==
    /\ Alive /\ npx \in {"hot", "backoff"}
    /\ IF npx = "backoff" /\ ~Warm THEN cli' = FALSE /\ \E n \in {"starting", "up"} : Opened(n)
       ELSE npx' = "abandoned" /\ UNCHANGED <<answers, pending, copies, inner, lost, hung, cli>>
    /\ UNCHANGED <<todo, takeover, holdVars, warmVars, faults>>

\* The backoff of a cold restart ends without a server if the editor has got
\* warm in the meantime.
NpxStarts ==
    /\ Alive /\ npx \in {"hot", "backoff"}
    /\ IF npx = "backoff" /\ Warm
       THEN npx' = "abandoned" /\ UNCHANGED <<answers, pending, copies, inner, lost, hung, cli>>
       ELSE cli' = FALSE /\ \E n \in {"starting", "up"} : Opened(n)
    /\ UNCHANGED <<todo, takeover, holdVars, warmVars, faults>>

NpxOpens ==
    /\ Alive /\ npx = "starting" /\ Opened("up")
    /\ UNCHANGED <<todo, takeover, holdVars, warmVars, cli, faults>>

CliReports ==
    /\ Alive /\ npx = "up" /\ cli' = ~cli /\ (cli => faults < MaxFaults)
    /\ faults' = IF cli THEN faults + 1 ELSE faults
    /\ UNCHANGED <<callVars, takeover, holdVars, warmVars, npx, hung>>

(***************************************************************************)
(* The warm-up, as far as the queue sees it.                               *)
(***************************************************************************)
GetsWarm ==
    /\ Alive /\ ~Warm /\ phase' = "warm"
    /\ UNCHANGED <<callVars, takeover, holdVars, dropped, npxVars, hung, faults>>

\* The queue is sent, but answered when the server's pipe never became ready
\* (once in the life of the proxy) or when the warm-up window was over.  The loop
\* looks at warmth before its pause, not after it.
WarmFlush ==
    /\ Alive /\ phase \in {"warm", "stale"}
    /\ phase' = IF Warm THEN "served" ELSE "cold"
    /\ \/ RejectPending({}) /\ dropped' \in {dropped, dropped \/ ~Ready(npx)}
          /\ UNCHANGED <<copies, inner, lost, hung>>
       \/ (Ready(npx) \/ dropped) /\ FlushPending(npx, {}, copies) /\ UNCHANGED dropped
    /\ UNCHANGED <<todo, takeover, holdVars, npxVars, faults>>

WindowEnds ==
    /\ Alive /\ phase # "served" /\ pending # {} /\ RejectPending({})
    /\ UNCHANGED <<todo, copies, inner, lost, takeover, holdVars, warmVars, npxVars,
                   hung, faults>>

LosesWarm ==
    /\ Alive /\ Warm /\ phase' \in Fallen /\ faults < MaxFaults /\ faults' = faults + 1
    /\ UNCHANGED <<callVars, takeover, holdVars, dropped, npxVars, hung>>

Next ==
    \/ \E c \in Call :
         \/ CallAnswered(c) \/ CallInner(c) \/ CallRestart(c) \/ CallForwarded(c)
         \/ CallHeld(c) \/ CallCold(c) \/ InnerEnds(c)
         \/ AnswerBusy(c) \/ AnswerComes(c)
         \/ RestartAck(c) \/ RestartRefused(c)
         \/ WatchSeesEditor(c) \/ WatchEnds(c)
    \/ TakeoverProbes \/ TakeoverExpires \/ RestartTimeout
    \/ NpxDies \/ NpxStarts \/ NpxOpens \/ CliReports
    \/ GetsWarm \/ WarmFlush \/ WindowEnds \/ LosesWarm

\* Timers fire, and a started server opens its pipe and answers each call in the
\* end (GodotConnection).  The warm-up is owed nothing: its loop may sleep with
\* calls in its queue, after a takeover's self-heal for one (takeover.mjs:181-183).
Fairness ==
    /\ \A c \in Call : /\ WF_vars(InnerEnds(c)) /\ WF_vars(WatchEnds(c))
                       /\ WF_vars(AnswerBusy(c) \/ AnswerComes(c) \/ RestartAck(c)
                                    \/ RestartRefused(c))
    /\ WF_vars(TakeoverProbes) /\ SF_vars(TakeoverExpires) /\ WF_vars(RestartTimeout)
    /\ WF_vars(NpxStarts) /\ WF_vars(NpxOpens)

Spec == Init /\ [][Next]_vars
FairSpec == Spec /\ Fairness

-----------------------------------------------------------------------------
TypeOK ==
    /\ todo \subseteq Call /\ answers \in [Call -> Nat] /\ pending \subseteq Call
    /\ copies \in [Call -> Nat] /\ inner \subseteq Call /\ lost \subseteq Call
    /\ takeover \in [waiters : SUBSET Call, probe : Call \cup {None}, timer : BOOLEAN]
    /\ hold \in Call \cup {None}
    /\ watch \in [Call -> {"none", "cold", "up", "late"}]
    /\ phase \in {"cold", "stale", "warm", "served"} /\ dropped \in BOOLEAN
    /\ npx \in {"starting", "up", "hot", "backoff", "abandoned", "gone"}
    /\ cli \in BOOLEAN /\ hung \in BOOLEAN /\ faults \in Nat

\* No call is answered twice, except a restart whose hold timed out before its
\* acknowledgement came (npx.mjs:368).
AnsweredOnce == \A c \in Call : answers[c] > 1 => Kind[c] = "restart"

\* A call is in one place: it waits in the queue, at the server, for an
\* internal call or for the editor's slot, and for nothing once it is answered.
Places == {"todo", "answered", "pending", "server", "inner", "waiter"}
IsAt(c, p) ==
    \/ p = "todo" /\ c \in todo
    \/ p = "answered" /\ answers[c] > 0
    \/ p = "pending" /\ c \in pending
    \/ p = "server" /\ copies[c] > 0
    \/ p = "inner" /\ c \in inner
    \/ p = "waiter" /\ c \in takeover.waiters /\ takeover.probe # c
InOnePlace == \A c \in Call : Kind[c] # "restart" =>
    \A p, q \in Places : IsAt(c, p) /\ IsAt(c, q) => p = q

\* No call is lost by the proxy's own doing, nor answered again.
OnceEach == AnsweredOnce /\ InOnePlace

\* While the queue has been released, a call is held only for a restart or for
\* the server's pipe, whose end releases it (router.mjs:349-369).
HeldHasAReleaser ==
    (pending # {} /\ phase = "served" /\ Alive) => (hold # None \/ ~Ready(npx))

\* The takeover waits for a probe that died with the server.
TakeoverStalled ==
    takeover.waiters # {} /\ ~takeover.timer
        /\ (takeover.probe # None => copies[takeover.probe] = 0)

\* A call is held by the warm-up, whose loop has to release it (ProxyWarmup).
HeldToWarm(c) == c \in pending /\ phase # "served"

\* Every call is answered, unless its line was lost with the server, or the
\* proxy has lost the server, its event loop or the takeover's probe; but for the
\* time that it is held for the editor to get warm, and however often it is.
EveryCallEnds == \A c \in Call :
    c \notin todo ~> (answers[c] > 0 \/ c \in lost \/ ~Alive \/ npx = "abandoned"
                        \/ TakeoverStalled \/ HeldToWarm(c))

\* What the code says without those exceptions.  The takeover is "bounded by
\* KOL_TAKEOVER_TIMEOUT_MS" (takeover.mjs:23-25).
WaitersEnd == takeover.waiters # {} ~> (takeover.waiters = {} \/ ~Alive)
\* The server comes back after "a transient npx death" (npx.mjs:178-180).
ServerComesBack == npx = "backoff" ~> (npx \in {"starting", "up"} \/ ~Alive)
\* A held ui call's "warm-branch answer path runs now" (router.mjs:53-55).
NeverHangs == ~hung
=============================================================================
