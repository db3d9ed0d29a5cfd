---------------------------- MODULE ProxyWarmup ----------------------------
(***************************************************************************)
(* The proxy's warm-up state machine: the resident loop of                 *)
(* src/launch/proxy/warmup.mjs, the spawn rounds of spawn.mjs, the         *)
(* embedded recovery round of heal.mjs and see1325-recovery.mjs, the       *)
(* render-stable monitor of probes.mjs, and the part of                    *)
(* router.mjs:handleClaudeMessage that decides what becomes of a tools/call*)
(* while the editor is not warm.                                           *)
(*                                                                         *)
(* Every function runs to its next await without interruption, so an       *)
(* action is the code between two awaits, and loc names the await at which *)
(* the loop rests.  What the loop has read before one may be stale behind  *)
(* it.  Clocks are not modelled: a window that the code measures may run   *)
(* out at any moment from its start.                                       *)
(***************************************************************************)
EXTENDS Naturals

CONSTANTS Configs,      \* the settings a proxy may be started with
          MaxAttempts,  \* SPAWN_MAX_ATTEMPTS
          MaxCalls,     \* bound: tools/calls that arrive
          MaxFaults     \* bound: deaths of the editor and of its connection

ASSUME WarmupAssumption ==
    /\ Configs \subseteq [fork : BOOLEAN, log : BOOLEAN, exitFirst : BOOLEAN,
                          rearm : BOOLEAN]
    /\ MaxAttempts \in Nat \ {0} /\ MaxCalls \in Nat /\ MaxFaults \in Nat

VARIABLES
    cfg,             \* the settings of this proxy
    loc,             \* where the resident loop is
    warm, recovering, renderStable, bindHold,
    monitor, tail,   \* S.renderStableTimer and S.leaseTimer are running
    editorDead,      \* S.warmEditorDead
    respawning,      \* S.warmRespawnInFlight
    spawnTriggered,
    spawning,        \* S.spawnInFlight is not null
    orphan,          \* a spawn whose promise was dropped is still going on
    lastFailed,      \* S.spawnLastFailed
    terminal,        \* S.spawnTerminal
    streak, forced, attempts, backoff, giveUp,
    reused, graceFired,
    calls, held, sent,                \* still to come, in pendingCalls, at npx
    port, booting, cli, handshake, bind, faults   \* the world

loopVars  == <<loc, warm, recovering, renderStable, bindHold, monitor, tail>>
flagVars  == <<editorDead, respawning>>
spawnVars == <<spawnTriggered, spawning, orphan, lastFailed, terminal>>
countVars == <<streak, forced, attempts, backoff, giveUp>>
roundVars == <<reused, graceFired>>
callVars  == <<calls, held, sent>>
worldVars == <<port, booting, cli, handshake, bind, faults>>
vars == <<cfg, loopVars, flagVars, spawnVars, countVars, roundVars, callVars,
          worldVars>>

\* "ask" is the await of the probe, "pause" that of a warm loop (PROBE_INTERVAL).
Locs  == {"coldEmpty", "probe", "ask", "pause", "evict", "force", "round", "idle",
          "ended", "gone"}
Ports == {"closed", "ours", "stale", "foreign"}

Init ==
    /\ cfg \in Configs
    /\ loc = "coldEmpty"
    /\ warm = FALSE /\ recovering = FALSE /\ bindHold = FALSE
    /\ renderStable = FALSE /\ monitor = TRUE /\ tail = cfg.log
    /\ editorDead = FALSE /\ respawning = FALSE
    /\ spawnTriggered = FALSE /\ spawning = FALSE /\ orphan = FALSE
    /\ lastFailed = FALSE /\ terminal = FALSE
    /\ streak = 0 /\ forced = 0 /\ attempts = 0
    /\ backoff = FALSE /\ giveUp = "none"
    /\ reused = FALSE /\ graceFired = FALSE
    /\ calls = MaxCalls /\ held = 0 /\ sent = 0
    /\ port \in Ports /\ booting = FALSE
    /\ cli = FALSE /\ handshake = FALSE /\ bind = "none" /\ faults = 0

(***************************************************************************)
(* Steps that several handlers share.                                      *)
(***************************************************************************)
RejectQueue == held' = 0 /\ UNCHANGED <<calls, sent>>
\* Slip: what was forwarded stays queued.
FlushQueueKept == held' = held /\ sent' = sent + held /\ UNCHANGED calls

FlushQueue == held' = 0 /\ sent' = sent + held /\ UNCHANGED calls

StartMonitor == renderStable' = FALSE /\ monitor' = TRUE

\* evictStaleHolder and waitForPortRelease, pinned to our own worktree: an
\* editor of this slot is stopped, a foreign holder is left alone.  Every
\* caller then forgets the milestones of the editor it stopped.
EvictOurs ==
    /\ port' = IF port \in {"ours", "stale"} THEN "closed" ELSE port
    /\ cli' = (cli /\ port' # "closed")
    /\ booting' = FALSE /\ handshake' = FALSE
    /\ UNCHANGED <<bind, faults>>

\* A spawn settles: its promise is forgotten (triggerEnsureEditor's finally),
\* even when another spawn has taken its place.
SpawnSettles == spawning' = FALSE /\ orphan' = (spawning /\ orphan)

\* A spawn that is under way when its promise is dropped goes on.
DropPromise == spawning' = FALSE /\ orphan' = (spawning \/ orphan)

\* giveUpAndRearm: the flags of the round, and the cooldown.
GiveUpAndRearm ==
    /\ giveUp' = "cooling" /\ forced' = 0 /\ backoff' = FALSE
    /\ lastFailed' = TRUE /\ spawnTriggered' = FALSE
    /\ recovering' = FALSE /\ StartMonitor
    /\ terminal' = FALSE
    /\ UNCHANGED attempts

\* beginWarmEditorRespawn: once until the resident loop has taken note.
BeginRespawn ==
    IF respawning
    THEN UNCHANGED <<flagVars, warm, recovering, renderStable, spawnTriggered>>
    ELSE /\ respawning' = TRUE /\ editorDead' = TRUE /\ warm' = FALSE
         /\ recovering' = FALSE /\ renderStable' = FALSE /\ spawnTriggered' = FALSE

\* Where the loop goes when the probe loop is left: warmupLoop returns to the
\* resident loop when warm, and waits for the next trigger otherwise.
Left(w, triggered) ==
    IF w THEN "idle" ELSE IF triggered THEN "probe" ELSE "coldEmpty"

(***************************************************************************)
(* A tools/call (handleClaudeMessage).  A warm proxy passes it on at once; *)
(* what CallRouter models of that case is left out here.                   *)
(***************************************************************************)
CallWarm ==
    /\ calls > 0 /\ loc # "gone" /\ warm
    /\ calls' = calls - 1 /\ sent' = sent + 1 /\ UNCHANGED held
    /\ UNCHANGED <<cfg, loopVars, flagVars, spawnVars, countVars, roundVars,
                   worldVars>>

CallInCooldown ==
    /\ calls > 0 /\ loc # "gone" /\ ~warm /\ (terminal \/ giveUp = "cooling")
    /\ calls' = calls - 1 /\ UNCHANGED <<held, sent>>
    /\ UNCHANGED <<cfg, loopVars, flagVars, spawnVars, countVars, roundVars,
                   worldVars>>

CallInBackoff ==
    /\ calls > 0 /\ loc # "gone" /\ ~warm /\ ~terminal /\ giveUp = "none"
    /\ ~spawnTriggered /\ ~recovering
    /\ backoff /\ ~lastFailed
    /\ calls' = calls - 1 /\ UNCHANGED <<held, sent>>
    /\ UNCHANGED <<cfg, loopVars, flagVars, spawnVars, countVars, roundVars,
                   worldVars>>

\* Slip: a call that comes while the proxy recovers is held.
DisposeHeld(failed, rec) ==
    /\ calls' = calls - 1 /\ UNCHANGED sent
    /\ held' = IF failed \/ (editorDead /\ ~bindHold) THEN held ELSE held + 1
    /\ lastFailed' = FALSE

\* What becomes of a call that is not warm, once any spawn is under way.
Dispose(failed, rec) ==
    /\ calls' = calls - 1 /\ UNCHANGED sent
    /\ held' = IF failed \/ (editorDead /\ ~bindHold) \/ rec THEN held ELSE held + 1
    /\ lastFailed' = FALSE

\* The call that starts a round: the first one, the next one after a failure,
\* or the first after a cooldown, which also clears the failure's record.
CallTriggers ==
    /\ calls > 0 /\ loc # "gone" /\ ~warm /\ ~terminal /\ giveUp # "cooling"
    /\ giveUp = "over" \/ (~spawnTriggered /\ ~recovering)
    /\ giveUp = "over" \/ ~backoff \/ lastFailed
    /\ spawnTriggered' = TRUE /\ spawning' = TRUE
    /\ backoff' = FALSE /\ giveUp' = "none"
    /\ LET base == IF giveUp = "over" THEN 0 ELSE attempts
       IN  attempts' = IF spawning \/ base = MaxAttempts THEN base ELSE base + 1
    /\ IF giveUp = "over" THEN streak' = 0 /\ recovering' = FALSE
                          ELSE UNCHANGED <<streak, recovering>>
    /\ Dispose(lastFailed /\ giveUp # "over", FALSE)
    /\ UNCHANGED <<cfg, loc, warm, renderStable, bindHold, monitor, tail, flagVars, orphan,
                   terminal, forced, roundVars, worldVars>>

CallWhileWarming ==
    /\ calls > 0 /\ loc # "gone" /\ ~warm /\ ~terminal /\ giveUp = "none"
    /\ spawnTriggered \/ recovering
    /\ Dispose(lastFailed, recovering)
    /\ UNCHANGED <<cfg, loopVars, flagVars, spawnTriggered, spawning, orphan, terminal,
                   countVars, roundVars, worldVars>>

(***************************************************************************)
(* A spawn round (ensureEditor under triggerEnsureEditor).  An editor that *)
(* serves this slot is adopted; one that nobody alive owns is evicted,     *)
(* unless our own CLI is already connected to it; a live holder is left    *)
(* alone and the round fails.                                              *)
(***************************************************************************)
InFlight == (spawning \/ orphan) /\ loc # "gone"

EnsureAdopt ==
    /\ InFlight /\ port \in IF cli THEN {"ours", "stale"} ELSE {"ours"}
    /\ reused' = TRUE /\ lastFailed' = FALSE /\ SpawnSettles
    /\ UNCHANGED <<cfg, loopVars, flagVars, spawnTriggered, terminal, countVars,
                   graceFired, callVars, worldVars>>

EnsureEvict ==
    /\ InFlight /\ port = "stale" /\ ~cli
    /\ port' = "closed"
    /\ UNCHANGED <<cfg, loopVars, flagVars, spawnVars, countVars, roundVars,
                   callVars, booting, cli, handshake, bind, faults>>

\* The start script returns while the editor boots; its log is a new file,
\* which drops what the tail had read of the last one.
Launch ==
    /\ port = "closed"
    /\ booting' = TRUE /\ reused' = FALSE /\ lastFailed' = FALSE
    /\ IF tail THEN bind' = "none" /\ handshake' = FALSE
               ELSE UNCHANGED <<bind, handshake>>
    /\ UNCHANGED <<port, cli, faults>>

EnsureStart ==
    /\ InFlight /\ Launch /\ SpawnSettles
    /\ UNCHANGED <<cfg, loopVars, flagVars, spawnTriggered, terminal, countVars,
                   graceFired, callVars>>

\* handleSpawnFailure: the streak counts failures of one kind in a row.  From
\* the second on, a dead holder's editor is evicted as well.
SpawnFailure ==
    /\ RejectQueue /\ SpawnSettles
    /\ streak' \in {1, streak + 1}
    /\ port' \in IF streak' >= 2 /\ port = "stale" THEN {"stale", "closed"} ELSE {port}
    /\ cli' = (cli /\ port' # "closed")
    /\ UNCHANGED <<booting, handshake, bind, faults>>
    /\ IF streak' < MaxAttempts
       THEN /\ backoff' = TRUE /\ lastFailed' = TRUE /\ spawnTriggered' = FALSE
            /\ UNCHANGED <<terminal, forced, attempts, giveUp, recovering,
                           renderStable, monitor>>
       ELSE IF cfg.rearm THEN GiveUpAndRearm
       ELSE /\ terminal' = TRUE /\ lastFailed' = TRUE
            /\ UNCHANGED <<spawnTriggered, backoff, forced, attempts, giveUp,
                           recovering, renderStable, monitor>>

EnsureFails ==
    /\ InFlight
    /\ SpawnFailure
    /\ UNCHANGED <<cfg, loc, warm, bindHold, tail, flagVars, roundVars>>

(***************************************************************************)
(* The resident loop (runWarmupLoop and warmupLoop).                       *)
(***************************************************************************)
LeaveColdEmpty ==
    /\ loc = "coldEmpty" /\ spawnTriggered /\ ~terminal
    /\ loc' = "probe"
    /\ UNCHANGED <<cfg, warm, recovering, renderStable, bindHold, monitor, tail,
                   flagVars, spawnVars, countVars, roundVars, callVars, worldVars>>

\* The editor's connection counts when there is a forked server to make one.
Connected == ~cfg.fork \/ cli

\* The head of the probe loop: on entry, after a cold turn, or after the pause
\* of a warm turn that found no connection.
AtHead == loc = "probe" \/ (loc = "pause" /\ ~Connected)

\* A cold turn that finds nothing to do goes round to the head, so the await
\* of its probe may be left for where the head would lead.
LeaveProbe ==
    /\ AtHead \/ loc = "ask"
    /\ ~spawnTriggered /\ ~terminal
    /\ loc' = Left(warm, FALSE)
    /\ UNCHANGED <<cfg, warm, recovering, renderStable, bindHold, monitor, tail,
                   flagVars, spawnVars, countVars, roundVars, callVars, worldVars>>

LoopEnds ==
    /\ AtHead \/ loc \in {"coldEmpty", "ask", "idle"}
    /\ terminal
    /\ loc' = "ended"
    /\ UNCHANGED <<cfg, warm, recovering, renderStable, bindHold, monitor, tail,
                   flagVars, spawnVars, countVars, roundVars, callVars, worldVars>>

Probing == AtHead /\ spawnTriggered /\ ~terminal

\* The lane without the forked server probes, and awaits the answer: the round
\* may have ended, failed or been given up when it comes.
Ask ==
    /\ Probing /\ ~warm /\ ~cfg.fork
    /\ loc' = "ask"
    /\ UNCHANGED <<cfg, warm, recovering, renderStable, bindHold, monitor, tail,
                   flagVars, spawnVars, countVars, roundVars, callVars, worldVars>>

\* A warm turn ends in a pause, behind which nothing but the connection is
\* looked at.
Pause ==
    /\ Probing /\ warm /\ loc = "probe"
    /\ loc' = "pause"
    /\ UNCHANGED <<cfg, warm, recovering, renderStable, bindHold, monitor, tail,
                   flagVars, spawnVars, countVars, roundVars, callVars, worldVars>>

\* A turn of the loop while the editor is not warm, and a turn of either kind.
ColdTurn == ~warm /\ IF cfg.fork THEN Probing ELSE loc = "ask"
Turn     == ColdTurn \/ (Probing /\ warm)

\* The forked server connects to the editor on its own, so its lane does not
\* probe: what it knows of the editor comes from the log and the connection.
Reachable == cfg.fork \/ port # "closed"
GateOpen ==
    \/ reused \/ (~cfg.log /\ ~cfg.fork) \/ (cfg.fork /\ cli)
    \/ bind # "none" \/ handshake
BindTooSlow ==
    ~reused /\ ~graceFired /\ attempts \in 1..(MaxAttempts - 1) /\ ~handshake /\ bind = "slow"

\* The first probe that succeeds waits a moment for the editor's bind event.
HoldForBind ==
    /\ ColdTurn /\ Reachable /\ renderStable /\ bind = "none" /\ ~bindHold
    /\ bindHold' = TRUE /\ loc' = "probe"
    /\ UNCHANGED <<cfg, warm, recovering, renderStable, monitor, tail, flagVars,
                   spawnVars, countVars, roundVars, callVars, worldVars>>

\* An editor that took so long to bind that it may stop before a client comes
\* is stopped, once, and started again (the grace-race guard, to its await).
GuardEvicts ==
    /\ ColdTurn /\ Reachable /\ renderStable /\ GateOpen /\ BindTooSlow
    /\ loc' = "evict" /\ graceFired' = TRUE /\ bindHold' = FALSE
    /\ reused' = FALSE /\ StartMonitor
    /\ UNCHANGED <<cfg, warm, recovering, tail, flagVars, spawnVars, countVars,
                   callVars, worldVars>>

\* What is held is forwarded, or answered when the server's pipe never opened
\* (maybeRejectUnreadyHeld) or the warm-up window is over.
Release == IF recovering THEN RejectQueue ELSE FlushQueue \/ RejectQueue

\* The editor is warm.  What is held goes out at once, or when the server has
\* connected.
GetWarm ==
    /\ ColdTurn /\ Reachable /\ renderStable /\ GateOpen /\ ~BindTooSlow
    /\ warm' = TRUE /\ editorDead' = FALSE /\ graceFired' = FALSE /\ bindHold' = FALSE
    /\ IF ~cfg.fork \/ (reused /\ cli)
       THEN Release /\ recovering' = FALSE /\ loc' = "idle"
       ELSE loc' = "probe" /\ UNCHANGED <<callVars, recovering>>
    /\ UNCHANGED <<cfg, renderStable, monitor, tail, respawning, spawnVars,
                   countVars, reused, worldVars>>

\* Behind the pause only the connection counts: the editor may have been
\* reported gone, and the round dropped, since the loop saw it warm.
WarmFlush ==
    /\ loc = "pause" /\ Connected
    /\ Release /\ recovering' = FALSE /\ loc' = Left(warm, spawnTriggered)
    /\ UNCHANGED <<cfg, warm, renderStable, bindHold, monitor, tail, flagVars,
                   spawnVars, countVars, roundVars, worldVars>>

\* Slip: the wait for the server's connection has no bound.
WindowMayEndCold == ColdTurn /\ ~recovering

WindowMayEnd == Turn /\ ~recovering

\* T2: the warm-up window is over, before the editor is warm or after.
WindowEnds ==
    /\ WindowMayEnd
    /\ recovering' = TRUE /\ RejectQueue
    /\ IF warm THEN loc' = "pause" /\ UNCHANGED <<renderStable, monitor>>
               ELSE loc' = "probe" /\ StartMonitor
    /\ UNCHANGED <<cfg, warm, bindHold, tail, flagVars, spawnVars, countVars,
                   roundVars, worldVars>>

\* Slip: only the cold branch has a cap.
CapReachedCold == ColdTurn /\ recovering /\ ~spawning /\ (~cfg.exitFirst \/ Reachable)

\* The hard cap on recovering.  A spawn round is shorter than the cap, so it
\* has ended by then.
CapReached ==
    Turn /\ recovering /\ ~spawning /\ (~cfg.exitFirst \/ (~warm /\ Reachable))

CapYields ==
    /\ CapReached /\ handshake /\ cli
    /\ recovering' = FALSE /\ loc' = Left(warm, spawnTriggered)
    /\ UNCHANGED <<cfg, warm, renderStable, bindHold, monitor, tail, flagVars,
                   spawnVars, countVars, roundVars, callVars, worldVars>>

\* forceColdRestart: nothing while a respawn is under way, else up to its
\* first await.
CapForces ==
    /\ CapReached /\ ~(handshake /\ cli) /\ forced < MaxAttempts
    /\ RejectQueue
    /\ IF respawning
       THEN loc' = Left(warm, spawnTriggered) /\ UNCHANGED <<respawning, forced>>
       ELSE loc' = "force" /\ respawning' = TRUE /\ forced' = forced + 1
    /\ UNCHANGED <<cfg, warm, recovering, renderStable, bindHold, monitor, tail,
                   editorDead, spawnVars, streak, attempts, backoff, giveUp,
                   roundVars, worldVars>>

CapGivesUp ==
    /\ CapReached /\ ~(handshake /\ cli) /\ forced = MaxAttempts
    /\ RejectQueue /\ GiveUpAndRearm /\ DropPromise /\ loc' = Left(warm, FALSE)
    /\ UNCHANGED <<cfg, warm, bindHold, tail, flagVars, streak, roundVars, worldVars>>

\* The rest of forceColdRestart, after its awaits.
ForceDone ==
    /\ loc = "force"
    /\ EvictOurs /\ StartMonitor
    /\ warm' = FALSE /\ recovering' = FALSE /\ editorDead' = FALSE
    /\ respawning' = FALSE /\ reused' = FALSE /\ spawning' = TRUE
    /\ attempts' = IF spawning THEN 0 ELSE 1
    /\ loc' = Left(FALSE, spawnTriggered)
    /\ UNCHANGED <<cfg, bindHold, tail, spawnTriggered, orphan, lastFailed, terminal,
                   streak, forced, backoff, giveUp, graceFired, callVars>>

\* The rest of the grace-race respawn.
EvictDone ==
    /\ loc = "evict"
    /\ EvictOurs /\ spawning' = TRUE /\ attempts' = IF spawning THEN 0 ELSE 1
    /\ loc' = Left(warm, spawnTriggered)
    /\ UNCHANGED <<cfg, warm, recovering, renderStable, bindHold, monitor, tail,
                   flagVars, spawnTriggered, orphan, lastFailed, terminal, streak,
                   forced, backoff, giveUp, roundVars, callVars>>

\* FAILED_EXIT, when it comes before the cap: the proxy gives up, or exits.
GivesUpOrExits ==
    /\ RejectQueue
    /\ IF cfg.rearm THEN GiveUpAndRearm /\ DropPromise /\ loc' = Left(FALSE, FALSE)
       ELSE /\ loc' = "gone"
            /\ UNCHANGED <<recovering, renderStable, monitor, spawnVars, forced,
                           attempts, backoff, giveUp>>

WarmExits ==
    /\ Probing /\ warm /\ recovering /\ ~spawning /\ cfg.exitFirst
    /\ GivesUpOrExits
    /\ IF respawning \/ ~cfg.rearm THEN UNCHANGED <<flagVars, warm>>
       ELSE respawning' = TRUE /\ editorDead' = TRUE /\ warm' = FALSE
    /\ UNCHANGED <<cfg, bindHold, tail, streak, roundVars, worldVars>>

\* Before it is warm, a recovery round is tried first (runRecoveryRound); it
\* is refused at once while a respawn is under way.
ColdExits ==
    /\ ColdTurn /\ recovering /\ ~spawning /\ cfg.exitFirst /\ ~Reachable
    /\ IF respawning THEN GivesUpOrExits /\ UNCHANGED respawning
       ELSE /\ respawning' = TRUE /\ loc' = "round"
            /\ UNCHANGED <<recovering, renderStable, monitor, spawnVars, forced,
                           attempts, backoff, giveUp, callVars>>
    /\ UNCHANGED <<cfg, warm, bindHold, tail, editorDead, streak, roundVars, worldVars>>

\* The round starts an editor, in the place of one that nobody owns, or
\* adopts one that serves this slot.
RoundHeals ==
    /\ loc = "round" /\ respawning' = FALSE /\ lastFailed' = FALSE
    /\ \/ /\ port \in {"ours", "stale", "closed"} /\ port' = "closed"
          /\ booting' = TRUE /\ reused' = FALSE /\ cli' = FALSE
       \/ port = "ours" /\ reused' = TRUE /\ UNCHANGED <<port, booting, cli>>
    /\ attempts' = IF attempts = MaxAttempts THEN attempts ELSE attempts + 1
    /\ loc' = Left(warm, spawnTriggered)
    /\ UNCHANGED <<cfg, warm, recovering, renderStable, bindHold, monitor, tail,
                   editorDead, spawnTriggered, spawning, orphan, terminal, streak,
                   forced, backoff, giveUp, graceFired, callVars, handshake, bind, faults>>

\* The round is refused (its budget, the holder) or its spawn fails.
RoundFails ==
    /\ loc = "round" /\ respawning' = FALSE
    /\ streak' \in {streak, 1, streak + 1} \cap 0..MaxAttempts
    /\ GivesUpOrExits
    /\ UNCHANGED <<cfg, warm, bindHold, tail, editorDead, roundVars, worldVars>>

\* Slip: the probe is left out while a spawn round is marked as under way.
LivenessFailsIdle == ~cli /\ port = "closed" /\ ~spawnTriggered

LivenessFails == ~cli /\ port = "closed"

\* The idle loop probes a warm editor that no server is connected to.
LivenessDeath ==
    /\ loc = "idle" /\ warm /\ ~editorDead /\ ~terminal /\ LivenessFails
    /\ BeginRespawn
    /\ UNCHANGED <<cfg, loc, bindHold, monitor, tail, spawning, orphan, lastFailed,
                   terminal, countVars, roundVars, callVars, worldVars>>

\* resetForRespawn, and the recovery round, which the flag refuses.
ReEnter ==
    /\ loc = "idle" /\ editorDead /\ ~terminal
    /\ StartMonitor /\ reused' = FALSE /\ handshake' = FALSE
    /\ IF respawning THEN respawning' = FALSE /\ loc' = Left(warm, spawnTriggered)
       ELSE respawning' = TRUE /\ loc' = "round"
    /\ UNCHANGED <<cfg, warm, recovering, bindHold, tail, editorDead, spawnVars,
                   countVars, graceFired, callVars, port, booting, cli, bind, faults>>

(***************************************************************************)
(* Timers, answers, the lease tail, shutdown.                              *)
(***************************************************************************)
RenderTick ==
    /\ monitor /\ loc # "gone"
    /\ monitor' = FALSE /\ renderStable' = (renderStable \/ ~warm)
    /\ UNCHANGED <<cfg, loc, warm, recovering, bindHold, tail, flagVars, spawnVars,
                   countVars, roundVars, callVars, worldVars>>

CooldownEnds ==
    /\ giveUp = "cooling" /\ loc # "gone" /\ giveUp' = "over"
    /\ UNCHANGED <<cfg, loopVars, flagVars, spawnVars, streak, forced, attempts,
                   backoff, roundVars, callVars, worldVars>>

BackoffEnds ==
    /\ backoff /\ loc # "gone" /\ backoff' = FALSE
    /\ UNCHANGED <<cfg, loopVars, flagVars, spawnVars, streak, forced, attempts,
                   giveUp, roundVars, callVars, worldVars>>

Answered == sent > 0 /\ loc # "gone" /\ sent' = sent - 1 /\ UNCHANGED <<calls, held>>

AnswerComes ==
    /\ Answered
    /\ UNCHANGED <<cfg, loopVars, flagVars, spawnVars, countVars, roundVars, worldVars>>

\* The server answers that the editor is gone.
EditorGone ==
    /\ Answered /\ warm /\ ~cli /\ BeginRespawn
    /\ UNCHANGED <<cfg, loc, bindHold, monitor, tail, spawning, orphan, lastFailed,
                   terminal, countVars, roundVars, worldVars>>

\* The editor writes that its lease is over and stops (checkLeaseTail).
LeaseExit ==
    /\ tail /\ loc # "gone" /\ port = "ours" /\ ~cli /\ faults < MaxFaults
    /\ tail' = FALSE /\ RejectQueue /\ port' = "closed" /\ faults' = faults + 1
    /\ IF cfg.rearm
       THEN /\ GiveUpAndRearm /\ DropPromise /\ UNCHANGED loc
            /\ IF respawning THEN UNCHANGED <<flagVars, warm>>
               ELSE respawning' = TRUE /\ editorDead' = TRUE /\ warm' = FALSE
       ELSE /\ loc' = "gone"
            /\ UNCHANGED <<flagVars, warm, recovering, renderStable, monitor,
                           spawnVars, forced, attempts, backoff, giveUp>>
    /\ UNCHANGED <<cfg, bindHold, streak, roundVars, booting, cli, handshake, bind>>

\* Takeovers of the editor's single slot have timed out often enough: its
\* holder is stopped and the warm-up armed again (failTakeover).
SelfHeal ==
    /\ sent > 0 /\ loc # "gone" /\ port # "closed" /\ ~cli /\ faults < MaxFaults
    /\ warm' = FALSE /\ editorDead' = FALSE /\ spawnTriggered' = FALSE
    /\ port' \in {port, "closed"} /\ faults' = faults + 1
    /\ UNCHANGED <<cfg, loc, recovering, renderStable, bindHold, monitor, tail,
                   respawning, spawning, orphan, lastFailed, terminal, countVars,
                   roundVars, callVars, booting, cli, handshake, bind>>

Shutdown ==
    /\ loc # "gone" /\ loc' = "gone" /\ tail' = FALSE /\ RejectQueue
    /\ UNCHANGED <<cfg, warm, recovering, renderStable, bindHold, monitor, flagVars,
                   spawnVars, countVars, roundVars, worldVars>>

(***************************************************************************)
(* The world: the editor on our port, its log, and the server's connection.*)
(***************************************************************************)
Proxy == <<cfg, loopVars, flagVars, spawnVars, countVars, roundVars, callVars>>

EditorBinds == /\ booting /\ port = "closed"
               /\ booting' = FALSE /\ port' = "ours"
               /\ UNCHANGED <<Proxy, cli, handshake, bind, faults>>
BootFails == /\ booting /\ faults < MaxFaults
             /\ booting' = FALSE /\ faults' = faults + 1
             /\ UNCHANGED <<Proxy, port, cli, handshake, bind>>
BindEvent == /\ tail /\ port = "ours" /\ bind = "none" /\ bind' \in {"fast", "slow"}
             /\ UNCHANGED <<Proxy, port, booting, cli, handshake, faults>>
CliConnects == /\ port \in {"ours", "stale"} /\ ~cli
               /\ cli' = TRUE /\ handshake' \in {handshake, handshake \/ tail}
               /\ UNCHANGED <<Proxy, port, booting, bind, faults>>
CliLost == /\ cli /\ faults < MaxFaults
           /\ cli' = FALSE /\ faults' = faults + 1
           /\ UNCHANGED <<Proxy, port, booting, handshake, bind>>
EditorDies == /\ port # "closed" /\ faults < MaxFaults
              /\ port' = "closed" /\ cli' = FALSE /\ faults' = faults + 1
              /\ UNCHANGED <<Proxy, booting, handshake, bind>>

Ensure == EnsureAdopt \/ EnsureEvict \/ EnsureStart \/ EnsureFails
Await  == Ask \/ Pause \/ WarmFlush
Cap    == CapYields \/ CapForces \/ CapGivesUp \/ WarmExits \/ ColdExits

Next ==
    \/ CallWarm \/ CallInCooldown \/ CallInBackoff \/ CallTriggers \/ CallWhileWarming
    \/ EnsureAdopt \/ EnsureEvict \/ EnsureStart \/ EnsureFails
    \/ LeaveColdEmpty \/ LeaveProbe \/ LoopEnds
    \/ Ask \/ Pause \/ HoldForBind \/ GuardEvicts \/ GetWarm \/ WarmFlush \/ WindowEnds
    \/ CapYields \/ CapForces \/ CapGivesUp \/ ForceDone \/ EvictDone
    \/ WarmExits \/ ColdExits \/ RoundHeals \/ RoundFails
    \/ LivenessDeath \/ ReEnter
    \/ RenderTick \/ CooldownEnds \/ BackoffEnds \/ AnswerComes \/ EditorGone
    \/ LeaseExit \/ SelfHeal \/ Shutdown
    \/ EditorBinds \/ BootFails \/ BindEvent \/ CliConnects \/ CliLost \/ EditorDies

\* The event loop runs what is due: the loop's steps, the timers and the end
\* of every child process.  Nothing is assumed of the editor or of the calls.
\* A recovery round is refused at last, when its budget is spent.
Fairness ==
    /\ WF_vars(LeaveColdEmpty) /\ WF_vars(LeaveProbe) /\ WF_vars(LoopEnds)
    /\ WF_vars(Ensure) /\ WF_vars(Await) /\ WF_vars(WindowEnds) /\ WF_vars(Cap)
    /\ WF_vars(ForceDone) /\ WF_vars(EvictDone) /\ SF_vars(RoundFails)
    /\ WF_vars(LivenessDeath) /\ WF_vars(ReEnter)

Spec == Init /\ [][Next]_vars
FairSpec == Spec /\ Fairness

-----------------------------------------------------------------------------
TypeOK ==
    /\ cfg \in Configs /\ loc \in Locs
    /\ warm \in BOOLEAN /\ recovering \in BOOLEAN /\ renderStable \in BOOLEAN
    /\ bindHold \in BOOLEAN /\ monitor \in BOOLEAN /\ tail \in BOOLEAN
    /\ editorDead \in BOOLEAN /\ respawning \in BOOLEAN
    /\ spawnTriggered \in BOOLEAN /\ spawning \in BOOLEAN /\ orphan \in BOOLEAN
    /\ lastFailed \in BOOLEAN /\ terminal \in BOOLEAN
    /\ streak \in Nat /\ forced \in 0..MaxAttempts /\ attempts \in 0..MaxAttempts
    /\ backoff \in BOOLEAN /\ giveUp \in {"none", "cooling", "over"}
    /\ reused \in BOOLEAN /\ graceFired \in BOOLEAN
    /\ calls \in Nat /\ held \in Nat /\ sent \in Nat
    /\ port \in Ports /\ booting \in BOOLEAN /\ cli \in BOOLEAN
    /\ handshake \in BOOLEAN /\ bind \in {"none", "fast", "slow"} /\ faults \in Nat

\* A call is never held while the proxy recovers: what was held has been
\* answered on entry and every new call is answered at once
\* (warmup.mjs:553-560, router.mjs:523-540).
RecoveringHoldsNothing == recovering => held = 0

\* The proxy as the specification of the hold queue sees it.
phase == IF loc = "gone" THEN "gone" ELSE IF warm THEN "warm"
         ELSE IF recovering THEN "recovering"
         ELSE IF spawnTriggered THEN "warming" ELSE "cold"
Promise == INSTANCE HoldToWarm WITH queue <- held, seen <- loc = "pause"

\* The queue is forwarded or answered as a whole, never after the warm-up
\* window, and forwarded only to an editor that is warm or was when the loop
\* last looked, one pause ago: T1 to T4 of warmup.mjs:80-87.
KeepsThePromise == Promise!Spec

\* A held call is answered or forwarded while a round is under way and the
\* loop is awake (warmup.mjs:549-572, "instead of hanging them").
HeldIsAnswered ==
    (held > 0 /\ spawnTriggered) ~> (held = 0 \/ ~spawnTriggered \/ loc = "idle")

\* Recovering ends while a round is under way, by warmth, by the cap or by
\* giving up (spawn.mjs:768-778), unless the respawn flag was left set or the
\* proxy has given up for good, which answers every call.
RecoveringEndsInARound ==
    (recovering /\ spawnTriggered)
        ~> (~recovering \/ ~spawnTriggered \/ respawning \/ terminal \/ loc = "gone")

\* A warm proxy without a server connection notices the death of its editor
\* (warmup.mjs:695-725), unless the respawn flag was left set or the loop has
\* ended for good.
DeathIsNoticed ==
    (loc = "idle" /\ warm /\ port = "closed" /\ ~cli)
        ~> (~warm \/ respawning \/ port # "closed" \/ cli \/ loc \in {"ended", "gone"})

\* What the code says of recovering without that condition: the cap "overrides
\* every self-heal window" and "can never loop an infinite RECOVERING
\* fake-retry" (warmup.mjs:172-175, spawn.mjs:768-778).
RecoveringEnds == recovering ~> (~recovering \/ loc = "gone")

\* What it says of a held call: it is rejected "instead of hanging forever"
\* (router.mjs:560-575).
HeldEnds == held > 0 ~> (held = 0 \/ loc = "gone")
=============================================================================
