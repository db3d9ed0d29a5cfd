------------------------- MODULE ProxyWarmupProofs -------------------------
(* What the proxy does with a call on its own account.                      *)
(*   - ProxyWarmup implements HoldToWarm: for every setting, number of       *)
(*     attempts, of calls and of faults the held queue leaves as the comment *)
(*     in warmup.mjs:80-87 promises;                                        *)
(*   - the capture contract (Frames): what an answer without a warning says  *)
(*     of the age of its frame.                                             *)
EXTENDS ProxyWarmup, ToldFrames, Sequences, SequenceTheorems, TLAPS

(* After giving up no round is under way until a call starts one.           *)
GivenUpRests == giveUp # "none" => ~spawnTriggered

IInv == RecoveringHoldsNothing /\ GivenUpRests

(* What the promise allows.                                                 *)
Kept == Promise!Next \/ UNCHANGED <<phase, held, sent, loc = "pause">>

(* The loop comes to its pause with an editor that is warm.                 *)
Looked == loc' # "gone" /\ (loc' = "pause" => loc = "pause" \/ warm')

LEMMA PhaseIsOne == phase \in Promise!Phases
BY DEF phase, Promise!Phases

LEMMA LookedLooks ==
  ASSUME Looked \/ loc' = "gone" \/ loc' = loc
  PROVE  Promise!Looks
<1>1. (loc' = "pause") \in BOOLEAN /\ (loc = "pause") \in BOOLEAN
  OBVIOUS
<1>2. loc' = "pause" => loc = "pause" \/ phase' = "warm"
  BY DEF Looked, phase
<1> QED BY <1>1, <1>2 DEF Promise!Looks

\* The three ways of leaving the queue as a whole.
LEMMA RejectIsKept ==
  ASSUME loc # "gone", held' = 0, UNCHANGED sent, Looked \/ loc' = "gone" \/ loc' = loc
  PROVE  Kept
<1>1. phase # "gone"
  BY DEF phase
<1>2. phase' \in Promise!Phases
  BY DEF phase, Promise!Phases
<1> QED BY <1>1, <1>2, LookedLooks DEF Kept, Promise!Next, Promise!Reject

\* Nothing that the promise speaks of has changed.
LEMMA StutterIsKept ==
  ASSUME UNCHANGED <<loc, warm, recovering, spawnTriggered, held, sent>>
  PROVE  Kept
BY DEF Kept, phase

LEMMA MoveIsKept ==
  ASSUME UNCHANGED <<warm, recovering, spawnTriggered, held, sent>>, loc # "gone", Looked
  PROVE  Kept
<1>1. phase' = phase
  BY DEF phase, Looked
<1> QED BY <1>1, LookedLooks DEF Kept, Promise!Next, Promise!Wait

LEMMA InvStutters ==
  ASSUME IInv, UNCHANGED <<recovering, spawnTriggered, held, giveUp>>
  PROVE  IInv'
BY DEF IInv, RecoveringHoldsNothing, GivenUpRests

-----------------------------------------------------------------------------
(* Calls.                                                                   *)
LEMMA CallsKeep ==
  ASSUME IInv, CallWarm \/ CallInCooldown \/ CallInBackoff \/ CallTriggers \/ CallWhileWarming
  PROVE  IInv' /\ Kept
<1>1. CASE CallWarm
  <2>1. phase = "warm" /\ phase' = "warm" /\ sent' = sent + 1 /\ held' = held /\ loc' = loc
    BY <1>1 DEF CallWarm, loopVars, phase
  <2>2. Kept
    BY <2>1, LookedLooks DEF Kept, Promise!Next, Promise!Pass
  <2>3. UNCHANGED <<recovering, spawnTriggered, held, giveUp>>
    BY <1>1 DEF CallWarm, loopVars, spawnVars, countVars
  <2> QED BY <2>2, <2>3, InvStutters
<1>2. CASE CallInCooldown
  <2>1. UNCHANGED <<loc, warm, recovering, spawnTriggered, held, sent, giveUp>>
    BY <1>2 DEF CallInCooldown, loopVars, spawnVars, countVars
  <2> QED BY <2>1, InvStutters, StutterIsKept
<1>3. CASE CallInBackoff
  <2>1. UNCHANGED <<loc, warm, recovering, spawnTriggered, held, sent, giveUp>>
    BY <1>3 DEF CallInBackoff, loopVars, spawnVars, countVars
  <2> QED BY <2>1, InvStutters, StutterIsKept
<1>4. CASE CallTriggers
  <2>1. /\ loc # "gone" /\ ~warm /\ UNCHANGED <<loc, warm, sent>>
        /\ spawnTriggered' = TRUE /\ giveUp' = "none"
        /\ held' = held \/ held' = held + 1
        /\ ~spawnTriggered /\ recovering' = FALSE
    BY <1>4 DEF CallTriggers, Dispose, IInv, GivenUpRests
  <2>2. phase \in {"cold", "recovering"} /\ phase' = "warming"
    BY <2>1 DEF phase
  <2>3. Kept
    BY <2>1, <2>2, LookedLooks DEF Kept, Promise!Next, Promise!Hold, Promise!TurnAway
  <2>4. IInv'
    BY <2>1 DEF IInv, RecoveringHoldsNothing, GivenUpRests
  <2> QED BY <2>3, <2>4
<1>5. CASE CallWhileWarming
  <2>1. /\ loc # "gone" /\ ~warm /\ (spawnTriggered \/ recovering)
        /\ UNCHANGED <<loc, warm, recovering, spawnTriggered, sent, giveUp>>
        /\ held' = held \/ (~recovering /\ held' = held + 1)
    BY <1>5 DEF CallWhileWarming, Dispose, loopVars, countVars
  <2>2. CASE held' = held
    BY <2>1, <2>2, InvStutters, StutterIsKept
  <2>3. CASE ~recovering /\ held' = held + 1
    <3>1. phase = "warming" /\ phase' = "warming"
      BY <2>1, <2>3 DEF phase
    <3>2. Kept
      BY <2>1, <2>3, <3>1, LookedLooks DEF Kept, Promise!Next, Promise!Hold
    <3>3. IInv'
      BY <2>1, <2>3 DEF IInv, RecoveringHoldsNothing, GivenUpRests
    <3> QED BY <3>2, <3>3
  <2> QED BY <2>1, <2>2, <2>3
<1> QED BY <1>1, <1>2, <1>3, <1>4, <1>5

-----------------------------------------------------------------------------
(* Rounds and the loop.                                                     *)

\* What giving up, or failing to, does to the flags of the invariant.
LEMMA RejectedInv ==
  ASSUME IInv, held' = 0,
         \/ UNCHANGED <<recovering, spawnTriggered, giveUp>>
         \/ recovering' = FALSE /\ spawnTriggered' = FALSE
         \/ UNCHANGED <<recovering, giveUp>> /\ spawnTriggered' = FALSE
         \/ UNCHANGED <<spawnTriggered, giveUp>> /\ (spawnTriggered \/ recovering' = FALSE)
         \/ UNCHANGED <<spawnTriggered, giveUp>> /\ recovering' = FALSE
  PROVE  IInv'
BY DEF IInv, RecoveringHoldsNothing, GivenUpRests

LEMMA EnsureKeeps ==
  ASSUME IInv, EnsureAdopt \/ EnsureEvict \/ EnsureStart \/ EnsureFails
  PROVE  IInv' /\ Kept
<1>1. CASE EnsureAdopt
  <2>1. UNCHANGED <<loc, warm, recovering, spawnTriggered, held, sent, giveUp>>
    BY <1>1 DEF EnsureAdopt, loopVars, countVars, callVars
  <2> QED BY <2>1, InvStutters, StutterIsKept
<1>2. CASE EnsureEvict
  <2>1. UNCHANGED <<loc, warm, recovering, spawnTriggered, held, sent, giveUp>>
    BY <1>2 DEF EnsureEvict, loopVars, spawnVars, countVars, callVars
  <2> QED BY <2>1, InvStutters, StutterIsKept
<1>3. CASE EnsureStart
  <2>1. UNCHANGED <<loc, warm, recovering, spawnTriggered, held, sent, giveUp>>
    BY <1>3 DEF EnsureStart, loopVars, countVars, callVars
  <2> QED BY <2>1, InvStutters, StutterIsKept
<1>4. CASE EnsureFails
  <2>1. loc # "gone" /\ held' = 0 /\ UNCHANGED <<sent, loc>>
    BY <1>4 DEF EnsureFails, InFlight, SpawnFailure, RejectQueue
  <2>2. \/ UNCHANGED <<recovering, giveUp>> /\ spawnTriggered' = FALSE
        \/ recovering' = FALSE /\ spawnTriggered' = FALSE
        \/ UNCHANGED <<recovering, spawnTriggered, giveUp>>
    BY <1>4 DEF EnsureFails, SpawnFailure, GiveUpAndRearm
  <2>3. Kept
    BY <2>1, RejectIsKept
  <2>4. IInv'
    BY <2>1, <2>2, RejectedInv
  <2> QED BY <2>3, <2>4
<1> QED BY <1>1, <1>2, <1>3, <1>4

LEMMA LoopKeeps ==
  ASSUME IInv, LeaveColdEmpty \/ LeaveProbe \/ LoopEnds \/ Ask \/ Pause \/ HoldForBind
               \/ GuardEvicts \/ EvictDone \/ RoundHeals \/ ReEnter
  PROVE  IInv' /\ Kept
<1>1. /\ UNCHANGED <<warm, recovering, spawnTriggered, held, sent, giveUp>>
      /\ loc # "gone" /\ Looked
  <2>1. CASE LeaveColdEmpty \/ LoopEnds
    BY <2>1 DEF LeaveColdEmpty, LoopEnds, AtHead, Looked, spawnVars, countVars, callVars
  <2>2. CASE LeaveProbe
    BY <2>2 DEF LeaveProbe, AtHead, Left, Looked, spawnVars, countVars, callVars
  <2>3. CASE Ask \/ Pause
    BY <2>3 DEF Ask, Pause, Probing, AtHead, Looked, spawnVars, countVars, callVars
  <2>4. CASE HoldForBind \/ GuardEvicts
    BY <2>4 DEF HoldForBind, GuardEvicts, ColdTurn, Probing, AtHead, Looked, spawnVars,
                countVars, callVars
  <2>5. CASE EvictDone
    BY <2>5 DEF EvictDone, Left, Looked, callVars
  <2>6. CASE RoundHeals
    BY <2>6 DEF RoundHeals, Left, Looked, callVars
  <2>7. CASE ReEnter
    BY <2>7 DEF ReEnter, Left, Looked, spawnVars, countVars, callVars
  <2> QED BY <2>1, <2>2, <2>3, <2>4, <2>5, <2>6, <2>7
<1> QED BY <1>1, InvStutters, MoveIsKept

LEMMA WarmKeeps ==
  ASSUME IInv, GetWarm \/ WarmFlush \/ WindowEnds
  PROVE  IInv' /\ Kept
<1>1. CASE GetWarm
  <2>1. /\ loc # "gone" /\ ~warm /\ warm' = TRUE /\ UNCHANGED <<spawnTriggered, giveUp>>
        /\ \/ Release /\ recovering' = FALSE /\ loc' = "idle"
           \/ /\ spawnTriggered /\ loc' = "probe"
              /\ UNCHANGED <<held, sent, recovering>>
    BY <1>1 DEF GetWarm, ColdTurn, Probing, AtHead, spawnVars, countVars, callVars
  <2>2. phase' = "warm" /\ Looked
    BY <2>1 DEF phase, Looked
  <2>3. CASE spawnTriggered /\ UNCHANGED <<held, sent, recovering>>
    <3>1. phase \in {"warming", "recovering"}
      BY <2>1, <2>3 DEF phase
    <3>2. Kept
      BY <2>2, <2>3, <3>1, LookedLooks DEF Kept, Promise!Next, Promise!Warmed
    <3> QED BY <3>2, <2>1, <2>3, InvStutters
  <2>4. CASE Release /\ recovering' = FALSE /\ loc' = "idle"
    <3>1. CASE ~recovering /\ FlushQueue
      <4>1. phase \in {"cold", "warming"}
        BY <2>1, <3>1 DEF phase
      <4>2. Kept
        BY <2>2, <2>4, <3>1, <4>1, LookedLooks DEF FlushQueue, Kept, Promise!Next, Promise!Flush
      <4>3. held' = 0
        BY <3>1 DEF FlushQueue
      <4> QED BY <2>1, <2>4, <4>2, <4>3, RejectedInv
    <3>2. CASE RejectQueue
      <4>1. held' = 0 /\ UNCHANGED sent
        BY <3>2 DEF RejectQueue
      <4> QED BY <2>1, <2>2, <2>4, <4>1, RejectIsKept, RejectedInv
    <3> QED BY <2>4, <3>1, <3>2 DEF Release
  <2> QED BY <2>1, <2>3, <2>4
<1>2. CASE WarmFlush
  <2>1. /\ loc = "pause" /\ loc' # "gone" /\ loc' # "pause"
        /\ recovering' = FALSE /\ Release /\ UNCHANGED <<warm, spawnTriggered, giveUp>>
    BY <1>2 DEF WarmFlush, Left, spawnVars, countVars
  <2>2. Looked
    BY <2>1 DEF Looked
  <2>3. CASE ~recovering /\ FlushQueue
    <3>1. phase \in {"cold", "warming", "warm"} /\ phase' = phase
      BY <2>1, <2>3 DEF phase
    <3>2. Kept
      BY <2>1, <2>2, <2>3, <3>1, LookedLooks DEF FlushQueue, Kept, Promise!Next, Promise!Flush
    <3>3. held' = 0
      BY <2>3 DEF FlushQueue
    <3> QED BY <2>1, <3>2, <3>3, RejectedInv
  <2>4. CASE RejectQueue
    <3>1. held' = 0 /\ UNCHANGED sent
      BY <2>4 DEF RejectQueue
    <3> QED BY <2>1, <2>2, <3>1, RejectIsKept, RejectedInv
  <2> QED BY <2>1, <2>3, <2>4 DEF Release
<1>3. CASE WindowEnds
  <2>1. /\ loc # "gone" /\ held' = 0 /\ UNCHANGED <<sent, warm, spawnTriggered, giveUp>>
        /\ loc' = IF warm THEN "pause" ELSE "probe"
    BY <1>3 DEF WindowEnds, WindowMayEnd, Turn, ColdTurn, Probing, AtHead, RejectQueue,
                spawnVars, countVars
  <2>2. Looked
    BY <2>1 DEF Looked
  <2>3. IInv'
    BY <2>1 DEF IInv, RecoveringHoldsNothing, GivenUpRests
  <2> QED BY <2>1, <2>2, <2>3, RejectIsKept
<1> QED BY <1>1, <1>2, <1>3

LEMMA CapKeeps ==
  ASSUME IInv, CapYields \/ CapForces \/ CapGivesUp \/ ForceDone
  PROVE  IInv' /\ Kept
<1>1. CASE CapYields
  <2>1. /\ loc # "gone" /\ recovering /\ recovering' = FALSE /\ Looked
        /\ UNCHANGED <<warm, spawnTriggered, giveUp, held, sent>>
    BY <1>1 DEF CapYields, CapReached, Turn, ColdTurn, Probing, AtHead, Left, Looked, spawnVars,
                countVars, callVars
  <2>2. (phase = "recovering" /\ phase' \in {"warming", "cold"}) \/ phase' = phase
    BY <2>1 DEF phase, Looked
  <2>3. Kept
    BY <2>1, <2>2, LookedLooks DEF Kept, Promise!Next, Promise!Fall, Promise!Wait
  <2>4. IInv'
    BY <2>1 DEF IInv, RecoveringHoldsNothing, GivenUpRests
  <2> QED BY <2>3, <2>4
<1>2. CASE CapForces
  <2>1. /\ loc # "gone" /\ held' = 0 /\ Looked
        /\ UNCHANGED <<sent, recovering, spawnTriggered, giveUp>>
    BY <1>2 DEF CapForces, CapReached, Turn, ColdTurn, Probing, AtHead, Left, Looked,
                RejectQueue, spawnVars
  <2> QED BY <2>1, RejectIsKept, RejectedInv
<1>3. CASE CapGivesUp
  <2>1. /\ loc # "gone" /\ held' = 0 /\ UNCHANGED sent /\ Looked
        /\ recovering' = FALSE /\ spawnTriggered' = FALSE
    BY <1>3 DEF CapGivesUp, CapReached, Turn, ColdTurn, Probing, AtHead, Left, Looked,
                RejectQueue, GiveUpAndRearm
  <2> QED BY <2>1, RejectIsKept, RejectedInv
<1>4. CASE ForceDone
  <2>1. /\ loc = "force" /\ Looked /\ warm' = FALSE /\ recovering' = FALSE
        /\ UNCHANGED <<spawnTriggered, giveUp, held, sent>>
    BY <1>4 DEF ForceDone, Left, Looked, callVars
  <2>2. \/ phase' = phase
        \/ phase \in {"warm", "recovering"} /\ phase' \in {"cold", "warming"}
    BY <2>1 DEF phase, Looked
  <2>3. Kept
    BY <2>1, <2>2, LookedLooks DEF Kept, Promise!Next, Promise!Fall, Promise!Wait
  <2>4. IInv'
    BY <2>1 DEF IInv, RecoveringHoldsNothing, GivenUpRests
  <2> QED BY <2>3, <2>4
<1> QED BY <1>1, <1>2, <1>3, <1>4

-----------------------------------------------------------------------------
(* Giving up and starting again.                                            *)
LEMMA GivesUpFacts ==
  ASSUME GivesUpOrExits
  PROVE  /\ held' = 0 /\ UNCHANGED sent
         /\ Looked \/ loc' = "gone"
         /\ \/ UNCHANGED <<recovering, spawnTriggered, giveUp>>
            \/ recovering' = FALSE /\ spawnTriggered' = FALSE
BY DEF GivesUpOrExits, RejectQueue, GiveUpAndRearm, Left, Looked, spawnVars

LEMMA ExitsKeep ==
  ASSUME IInv, WarmExits \/ ColdExits \/ RoundFails \/ LeaseExit \/ Shutdown
  PROVE  IInv' /\ Kept
<1>1. CASE WarmExits \/ RoundFails
  <2>1. loc # "gone" /\ GivesUpOrExits
    BY <1>1 DEF WarmExits, RoundFails, Probing, AtHead
  <2>2. held' = 0 /\ UNCHANGED sent
    BY <2>1, GivesUpFacts
  <2> QED BY <2>1, <2>2, GivesUpFacts, RejectIsKept, RejectedInv
<1>2. CASE ColdExits
  <2>1. CASE respawning
    <3>1. loc # "gone" /\ GivesUpOrExits
      BY <1>2, <2>1 DEF ColdExits, ColdTurn, Probing, AtHead
    <3>2. held' = 0 /\ UNCHANGED sent
      BY <3>1, GivesUpFacts
    <3> QED BY <3>1, <3>2, GivesUpFacts, RejectIsKept, RejectedInv
  <2>2. CASE ~respawning
    <3>1. /\ UNCHANGED <<warm, recovering, spawnTriggered, held, sent, giveUp>>
          /\ loc # "gone" /\ Looked
      BY <1>2, <2>2 DEF ColdExits, ColdTurn, Probing, AtHead, Looked, spawnVars, callVars
    <3> QED BY <3>1, InvStutters, MoveIsKept
  <2> QED BY <2>1, <2>2
<1>3. CASE LeaseExit
  <2>1. /\ loc # "gone" /\ held' = 0 /\ UNCHANGED sent /\ loc' \in {loc, "gone"}
        /\ \/ UNCHANGED <<recovering, spawnTriggered, giveUp>>
           \/ recovering' = FALSE /\ spawnTriggered' = FALSE
    BY <1>3 DEF LeaseExit, RejectQueue, GiveUpAndRearm, spawnVars
  <2> QED BY <2>1, RejectIsKept, RejectedInv
<1>4. CASE Shutdown
  <2>1. /\ loc # "gone" /\ loc' = "gone" /\ held' = 0
        /\ UNCHANGED <<sent, recovering, spawnTriggered, giveUp>>
    BY <1>4 DEF Shutdown, RejectQueue, spawnVars, countVars
  <2> QED BY <2>1, RejectIsKept, RejectedInv
<1> QED BY <1>1, <1>2, <1>3, <1>4

LEMMA DeathsKeep ==
  ASSUME IInv, LivenessDeath \/ EditorGone \/ SelfHeal
  PROVE  IInv' /\ Kept
<1>1. ASSUME BeginRespawn, UNCHANGED <<loc, giveUp, held>>, warm, loc # "gone"
      PROVE  IInv' /\ phase = "warm" /\ phase' \in {"warm", "cold"}
  <2>1. phase = "warm"
    BY <1>1 DEF phase
  <2>2. CASE respawning
    <3>1. UNCHANGED <<warm, recovering, spawnTriggered>>
      BY <1>1, <2>2 DEF BeginRespawn
    <3> QED BY <1>1, <2>1, <3>1, InvStutters DEF phase
  <2>3. CASE ~respawning
    <3>1. warm' = FALSE /\ recovering' = FALSE /\ spawnTriggered' = FALSE
      BY <1>1, <2>3 DEF BeginRespawn
    <3>2. phase' = "cold"
      BY <1>1, <3>1 DEF phase
    <3>3. IInv'
      BY <1>1, <3>1 DEF IInv, RecoveringHoldsNothing, GivenUpRests
    <3> QED BY <2>1, <3>2, <3>3
  <2> QED BY <2>2, <2>3
<1>2. CASE LivenessDeath
  <2>1. /\ loc # "gone" /\ warm /\ BeginRespawn /\ UNCHANGED <<loc, giveUp, held, sent>>
    BY <1>2 DEF LivenessDeath, countVars, callVars
  <2> QED BY <1>1, <2>1, LookedLooks DEF Kept, Promise!Next, Promise!Fall, Promise!Wait
<1>3. CASE EditorGone
  <2>1. /\ loc # "gone" /\ warm /\ BeginRespawn /\ UNCHANGED <<loc, giveUp, held>>
        /\ sent > 0 /\ sent' = sent - 1
    BY <1>3 DEF EditorGone, Answered, countVars
  <2> QED BY <1>1, <2>1, LookedLooks DEF Kept, Promise!Next, Promise!Answer
<1>4. CASE SelfHeal
  <2>1. /\ loc # "gone" /\ warm' = FALSE /\ spawnTriggered' = FALSE
        /\ UNCHANGED <<loc, recovering, giveUp, held, sent>>
    BY <1>4 DEF SelfHeal, countVars, callVars
  <2>2. IInv'
    BY <2>1 DEF IInv, RecoveringHoldsNothing, GivenUpRests
  <2>3. CASE recovering
    <3>1. held' = 0
      BY <2>1, <2>3 DEF IInv, RecoveringHoldsNothing
    <3> QED BY <2>1, <2>2, <3>1, RejectIsKept
  <2>4. CASE ~recovering
    <3>1. phase' = "cold" /\ phase \in {"warm", "warming", "cold"}
      BY <2>1, <2>4 DEF phase
    <3> QED BY <2>1, <2>2, <3>1, LookedLooks DEF Kept, Promise!Next, Promise!Fall, Promise!Wait
  <2> QED BY <2>3, <2>4
<1> QED BY <1>2, <1>3, <1>4

-----------------------------------------------------------------------------
(* The rest does not touch what the promise speaks of, except for answers.  *)
LEMMA RestKeeps ==
  ASSUME IInv, RenderTick \/ CooldownEnds \/ BackoffEnds \/ AnswerComes
  PROVE  IInv' /\ Kept
<1>1. CASE RenderTick \/ BackoffEnds
  <2>1. UNCHANGED <<loc, warm, recovering, spawnTriggered, held, sent, giveUp>>
    BY <1>1 DEF RenderTick, BackoffEnds, loopVars, spawnVars, countVars, callVars
  <2> QED BY <2>1, InvStutters, StutterIsKept
<1>2. CASE CooldownEnds
  <2>1. /\ UNCHANGED <<loc, warm, recovering, spawnTriggered, held, sent>>
        /\ giveUp = "cooling"
    BY <1>2 DEF CooldownEnds, loopVars, spawnVars, callVars
  <2>2. IInv'
    BY <2>1 DEF IInv, RecoveringHoldsNothing, GivenUpRests
  <2> QED BY <2>1, <2>2, StutterIsKept
<1>3. CASE AnswerComes
  <2>1. /\ UNCHANGED <<loc, warm, recovering, spawnTriggered, held, giveUp>>
        /\ sent > 0 /\ sent' = sent - 1
    BY <1>3 DEF AnswerComes, Answered, loopVars, spawnVars, countVars
  <2>2. phase' = phase
    BY <2>1 DEF phase
  <2>3. Kept
    BY <2>1, <2>2, LookedLooks DEF Kept, Promise!Next, Promise!Answer
  <2> QED BY <2>1, <2>3, InvStutters
<1> QED BY <1>1, <1>2, <1>3

LEMMA WorldKeeps ==
  ASSUME IInv, EditorBinds \/ BootFails \/ BindEvent \/ CliConnects \/ CliLost \/ EditorDies
               \/ UNCHANGED vars
  PROVE  IInv' /\ Kept
<1>1. UNCHANGED <<loc, warm, recovering, spawnTriggered, held, sent, giveUp>>
  BY DEF EditorBinds, BootFails, BindEvent, CliConnects, CliLost, EditorDies, Proxy, vars,
         loopVars, spawnVars, countVars, callVars
<1> QED BY <1>1, InvStutters, StutterIsKept

-----------------------------------------------------------------------------
LEMMA StepKeeps == IInv /\ [Next]_vars => IInv' /\ Kept
BY CallsKeep, EnsureKeeps, LoopKeeps, WarmKeeps, CapKeeps, ExitsKeep, DeathsKeep, RestKeeps,
   WorldKeeps DEF Next

LEMMA InitHolds == Init => IInv /\ Promise!Init
BY DEF Init, IInv, RecoveringHoldsNothing, GivenUpRests, Promise!Init, phase

(* Nothing is held while the proxy recovers (warmup.mjs:553-560), and after  *)
(* giving up no round is under way: the inductive invariant.                *)
THEOREM Invariance == Spec => []IInv
BY InitHolds, StepKeeps, PTL DEF Spec

(* The warm-up machine keeps what warmup.mjs:80-87 promises: every step of  *)
(* it is a step of HoldToWarm, or none.  What is forwarded goes to an editor *)
(* that is warm, or was when the loop last looked.                          *)
THEOREM PromiseKept == Spec => KeepsThePromise
<1>1. IInv /\ [Next]_vars => [Promise!Next]_<<phase, held, sent, loc = "pause">>
  BY StepKeeps DEF Kept
<1>2. IInv /\ [Next]_vars => [Promise!Next]_(Promise!vars)
  BY <1>1 DEF Promise!vars
<1> QED BY <1>2, InitHolds, Invariance, PTL DEF Spec, KeepsThePromise, Promise!Spec

-----------------------------------------------------------------------------
(* What the proxy says of the age of a frame, for any calls, any clock and   *)
(* any number of requests in one millisecond.                               *)

Came(c) == pc[c] # "new"

(* The order in which the calls were received: each once, none out of time. *)
Ordered ==
  /\ \A c \in Call : Came(c) <=> \E i \in 1 .. Len(past.order) : past.order[i] = c
  /\ \A a, b \in Call : Frames!Before(a, b) =>
       a # b /\ ~Frames!Before(b, a) /\ contract[a].at <= contract[b].at
  /\ \A a, b \in Call : Came(a) /\ Came(b) /\ a # b => Frames!Before(a, b) \/ Frames!Before(b, a)
  /\ \A c \in Call : Came(c) => 1 <= contract[c].at /\ contract[c].at <= now
  /\ \A c \in Call : past.kind[c] # None => Came(c)

(* The marks are those of the last mutation and of an advance.              *)
Marked ==
  /\ \A m \in Call : past.kind[m] = "mutate" => contract[m].at <= marks.mutation
  /\ marks.advance # 0 =>
       \E a \in Call : past.kind[a] = "advance" /\ contract[a].at = marks.advance

(* A line that went out when its call was received.                         *)
Direct(l) == \/ l.to \in {"mutate", "advance"}
             \/ l.to = "shot" /\ past.kind[l.call] = "capture"

(* The lines carry what was received, in its order; the line of a held      *)
(* capture comes when its step is over.                                     *)
Lined ==
  /\ \A i \in 1 .. Len(wire) :
       /\ wire[i].to # "step" => wire[i].call \in Call
       /\ wire[i].to \in {"mutate", "advance"} => past.kind[wire[i].call] = wire[i].to
       /\ wire[i].to = "shot" =>
            \/ past.kind[wire[i].call] = "capture"
            \/ past.kind[wire[i].call] = "stepped" /\ contract[wire[i].call].performed # None
  /\ \A i, j \in 1 .. Len(wire) : i < j /\ Direct(wire[i]) /\ Direct(wire[j]) =>
       Frames!Before(wire[i].call, wire[j].call)
  /\ \A i \in Frames!StepId : waiters[i] # None => past.kind[waiters[i]] = "stepped"
  /\ \A t \in timers : past.kind[t[2]] = "stepped"

OnWire(to, c) == \E i \in 1 .. Len(wire) : wire[i].to = to /\ wire[i].call = c

(* An advance that drew has drawn the mutations before it.                  *)
Drawn ==
  /\ \A m \in game.undrawn : past.kind[m] \in {"mutate", "stepped"}
  /\ \A m, a \in Call :
       /\ past.kind[m] = "mutate" /\ past.kind[a] = "advance" /\ Frames!Before(m, a)
       /\ ~OnWire("advance", a) /\ a \notin past.failed
       => ~OnWire("mutate", m) /\ m \notin game.undrawn

(* What a frame misses was hidden by no advance between, unless it failed.   *)
Shown ==
  \A c \in Call : shot[c] # None =>
    /\ \/ past.kind[c] = "capture" /\ ~OnWire("shot", c)
       \/ past.kind[c] = "stepped" /\ contract[c].performed # None
    /\ \A m \in shot[c] : m \in Call /\ past.kind[m] \in {"mutate", "stepped"}
    /\ past.kind[c] = "capture" =>
         \A m \in shot[c], a \in Call :
           past.kind[m] = "mutate" /\ past.kind[a] = "advance"
           /\ Frames!Before(m, a) /\ Frames!Before(a, c) => a \in past.failed

(* No warning: an advance was received that is not older than the mutation. *)
Judged ==
  \A c \in Call : verdict[c] = "ok" =>
    /\ past.kind[c] = "capture" /\ shot[c] # None
    /\ \A m \in shot[c] : past.kind[m] = "mutate" =>
         \E a \in Call : past.kind[a] = "advance" /\ contract[m].at <= contract[a].at

Lines == [to: {"mutate", "advance", "shot"}, call: Call] \cup [to: {"step"}, id: Frames!StepId]

FreshInv == Frames!TypeOK /\ Ordered /\ Marked /\ Lined /\ Drawn /\ Shown /\ Judged

-----------------------------------------------------------------------------
LEMMA FreshInit == ASSUME Frames!ContractAssumption, Frames!Init PROVE FreshInv
<1>1. Frames!TypeOK
  BY DEF Frames!ContractAssumption, Frames!Init, Frames!TypeOK, Frames!StepId, Frames!Capture
<1>2. Ordered
  BY DEF Frames!Init, Ordered, Came, Frames!Before
<1>3. Marked
  BY DEF Frames!ContractAssumption, Frames!Init, Marked
<1>4. Lined
  BY DEF Frames!Init, Lined
<1>5. Drawn /\ Shown
  BY DEF Frames!ContractAssumption, Frames!Init, Drawn, Shown
<1>6. Judged
  BY DEF Frames!ContractAssumption, Frames!Init, Judged
<1> QED BY <1>1, <1>2, <1>3, <1>4, <1>5, <1>6 DEF FreshInv

(* The capture without a warning: the claim follows.                        *)
LEMMA JudgedMeans == ASSUME Frames!ContractAssumption, FreshInv PROVE Frames!StaleIsHiddenByAdvance
<1> SUFFICES ASSUME NEW c \in Call, verdict[c] = "ok", NEW m \in shot[c], past.kind[m] = "mutate"
             PROVE  \E a \in Call : /\ past.kind[a] = "advance"
                       /\ \/ Frames!Before(m, a) /\ (a \in past.failed \/ Frames!Before(c, a))
                          \/ contract[a].at = contract[m].at
  BY DEF Frames!StaleIsHiddenByAdvance, Frames!HiddenByAdvance
<1>1. /\ past.kind[c] = "capture" /\ shot[c] # None /\ m \in Call /\ past.kind[m] = "mutate"
      /\ Came(c) /\ Came(m)
  BY DEF FreshInv, Judged, Shown, Ordered, Frames!ContractAssumption
<1>2. PICK a \in Call : past.kind[a] = "advance" /\ contract[m].at <= contract[a].at
  BY DEF FreshInv, Judged
<1>3. Came(a) /\ a # m /\ a # c
  BY <1>1, <1>2 DEF FreshInv, Ordered, Frames!ContractAssumption
<1>4. contract[a].at \in Nat /\ contract[m].at \in Nat
  BY <1>1 DEF FreshInv, Frames!TypeOK
<1>5. CASE Frames!Before(a, m)
  BY <1>1, <1>2, <1>4, <1>5 DEF FreshInv, Ordered
<1>6. CASE Frames!Before(m, a) /\ Frames!Before(a, c)
  BY <1>1, <1>2, <1>6 DEF FreshInv, Shown
<1>7. CASE Frames!Before(m, a) /\ Frames!Before(c, a)
  BY <1>2, <1>7
<1>8. (Frames!Before(a, m) \/ Frames!Before(m, a)) /\ (Frames!Before(a, c) \/ Frames!Before(c, a))
  BY <1>1, <1>3 DEF FreshInv, Ordered
<1> QED BY <1>5, <1>6, <1>7, <1>8

-----------------------------------------------------------------------------
(* The order of the calls, when one more comes and when none does.          *)
LEMMA BeforeSame ==
  ASSUME past'.order = past.order
  PROVE  \A a, b \in Call : Frames!Before(a, b)' <=> Frames!Before(a, b)
BY DEF Frames!Before

LEMMA BeforeGrows ==
  ASSUME NEW c \in Call, past.order \in Seq(Call), past'.order = Append(past.order, c), Ordered,
         ~Came(c)
  PROVE  /\ \A a, b \in Call :
              Frames!Before(a, b)' <=> \/ b # c /\ Frames!Before(a, b)
                                       \/ b = c /\ Came(a)
         /\ \A a, b \in Call : Frames!Before(a, b) => Came(a) /\ Came(b) /\ a # c /\ b # c
         /\ \A a \in Call : (\E i \in 1 .. Len(past'.order) : past'.order[i] = a) <=> Came(a) \/ a = c
<1> DEFINE o == past.order
           n == Len(past.order)
<1>1. /\ n \in Nat /\ Len(past'.order) = n + 1 /\ past'.order[n + 1] = c
      /\ \A i \in 1 .. n : past'.order[i] = o[i] /\ o[i] \in Call
  OBVIOUS
<1>2. \A a \in Call : Came(a) <=> \E i \in 1 .. n : o[i] = a
  BY DEF Ordered
<1>3. \A i \in 1 .. n : o[i] # c
  BY <1>2
<1>4. \A i \in 1 .. n + 1 : i \in 1 .. n \/ i = n + 1
  BY <1>1
<1>5. \A i \in 1 .. n : i \in 1 .. n + 1 /\ i < n + 1
  BY <1>1
<1>6. n + 1 \in 1 .. n + 1
  BY <1>1
<1>7. \A a, b \in Call : Frames!Before(a, b) <=> \E i, j \in 1 .. n : i < j /\ o[i] = a /\ o[j] = b
  BY DEF Frames!Before
<1>8. \A a, b \in Call : Frames!Before(a, b)'
        <=> \E i, j \in 1 .. n + 1 : i < j /\ past'.order[i] = a /\ past'.order[j] = b
  BY <1>1 DEF Frames!Before
<1> HIDE DEF o, n
<1>9. ASSUME NEW a \in Call, NEW b \in Call
      PROVE  Frames!Before(a, b)' <=> \/ b # c /\ Frames!Before(a, b)
                                      \/ b = c /\ Came(a)
  <2>1. CASE b # c
    <3>1. ASSUME NEW i \in 1 .. n + 1, NEW j \in 1 .. n + 1, i < j, past'.order[i] = a,
                 past'.order[j] = b
          PROVE  i \in 1 .. n /\ j \in 1 .. n
      BY <1>1, <1>4, <2>1, <3>1
    <3>2. Frames!Before(a, b)' => Frames!Before(a, b)
      <4> SUFFICES ASSUME NEW i \in 1 .. n + 1, NEW j \in 1 .. n + 1, i < j, past'.order[i] = a,
                          past'.order[j] = b
                   PROVE  Frames!Before(a, b)
        BY <1>8
      <4>1. i \in 1 .. n /\ j \in 1 .. n
        BY <3>1
      <4> QED BY <1>1, <1>7, <4>1
    <3>3. Frames!Before(a, b) => Frames!Before(a, b)'
      <4> SUFFICES ASSUME NEW i \in 1 .. n, NEW j \in 1 .. n, i < j, o[i] = a, o[j] = b
                   PROVE  Frames!Before(a, b)'
        BY <1>7
      <4> QED BY <1>1, <1>5, <1>8
    <3> QED BY <2>1, <3>2, <3>3
  <2>2. CASE b = c
    <3>1. ASSUME NEW i \in 1 .. n + 1, NEW j \in 1 .. n + 1, i < j, past'.order[i] = a,
                 past'.order[j] = b
          PROVE  i \in 1 .. n
      BY <1>1, <1>4, <3>1
    <3>2. Frames!Before(a, b)' => Came(a)
      <4> SUFFICES ASSUME NEW i \in 1 .. n + 1, NEW j \in 1 .. n + 1, i < j, past'.order[i] = a,
                          past'.order[j] = b
                   PROVE  Came(a)
        BY <1>8
      <4> QED BY <1>1, <1>2, <3>1
    <3>3. Came(a) => Frames!Before(a, b)'
      <4> SUFFICES ASSUME NEW i \in 1 .. n, o[i] = a PROVE Frames!Before(a, b)'
        BY <1>2
      <4> QED BY <1>1, <1>5, <1>6, <1>8, <2>2
    <3> QED BY <2>2, <3>2, <3>3
  <2> QED BY <2>1, <2>2
<1>10. \A a, b \in Call : Frames!Before(a, b) => Came(a) /\ Came(b) /\ a # c /\ b # c
  BY <1>2, <1>3, <1>7
<1>11. ASSUME NEW a \in Call
       PROVE  (\E i \in 1 .. n + 1 : past'.order[i] = a) <=> Came(a) \/ a = c
  BY <1>1, <1>2, <1>4, <1>5, <1>6
<1> QED BY <1>1, <1>9, <1>10, <1>11

LEMMA OrderedStays ==
  ASSUME Ordered, Frames!TypeOK, past'.order = past.order, past'.kind = past.kind,
         \A c \in Call : (Came(c)' <=> Came(c)) /\ contract'[c].at = contract[c].at,
         now' \in Nat, now <= now'
  PROVE  Ordered'
<1>1. now \in Nat /\ \A c \in Call : contract[c].at \in Nat
  BY DEF Frames!TypeOK
<1> QED BY <1>1, BeforeSame DEF Ordered

(* A call is received: its line goes out behind the lines of those that      *)
(* came before it.                                                          *)
LEMMA ReceivedKeeps ==
  ASSUME Frames!ContractAssumption, FreshInv, NEW c \in Call,
         NEW k \in {"mutate", "advance", "capture", "stepped"}, NEW l, NEW state \in {"held", "sent"},
         Frames!Received(c, k), pc' = [pc EXCEPT ![c] = state], wire' = Append(wire, l),
         k \in {"mutate", "advance"} => l = [to |-> k, call |-> c],
         k = "capture" => l = [to |-> "shot", call |-> c],
         k = "stepped" => l = [to |-> "step", id |-> now],
         marks' = [mutation |-> IF k = "mutate" THEN now ELSE marks.mutation,
                   advance |-> IF k = "advance" THEN now ELSE marks.advance],
         \/ UNCHANGED <<waiters, timers>>
         \/ /\ k = "stepped" /\ waiters' = [waiters EXCEPT ![now] = c]
            /\ timers' = timers \cup {<<now, c>>}
  PROVE  FreshInv'
<1>1. /\ ~Came(c) /\ past' = [past EXCEPT !.kind[c] = k, !.order = Append(@, c)]
      /\ contract' = [contract EXCEPT ![c].at = now] /\ UNCHANGED <<now, game, shot, verdict>>
  BY DEF Frames!Received, Came
<1>t. Frames!TypeOK /\ Ordered /\ Marked /\ Lined /\ Drawn /\ Shown /\ Judged
  BY DEF FreshInv
<1>2. /\ past'.order = Append(past.order, c) /\ past'.failed = past.failed
      /\ past'.kind = [past.kind EXCEPT ![c] = k]
      /\ past.order \in Seq(Call)
      /\ past' \in [kind: [Call -> {None, "mutate", "advance", "capture", "stepped"}],
                    order: Seq(Call), failed: SUBSET Call]
  <2>1. /\ past \in [kind: [Call -> {None, "mutate", "advance", "capture", "stepped"}],
                     order: Seq(Call), failed: SUBSET Call]
        /\ past' = [past EXCEPT !.kind = [past.kind EXCEPT ![c] = k], !.order = Append(past.order, c)]
    BY <1>1, <1>t DEF Frames!TypeOK, Frames!Capture
  <2>2. /\ [past.kind EXCEPT ![c] = k] \in [Call -> {None, "mutate", "advance", "capture", "stepped"}]
        /\ Append(past.order, c) \in Seq(Call)
    BY <2>1
  <2> QED BY <2>1, <2>2
<1>3. /\ past'.kind[c] = k /\ \A d \in Call : d # c => past'.kind[d] = past.kind[d]
      /\ contract'[c].at = now /\ contract'[c].performed = contract[c].performed
      /\ \A d \in Call : d # c => contract'[d] = contract[d]
      /\ now \in 1 .. MaxClock /\ \A d \in Call : contract[d].at \in Nat
      /\ MaxClock \in Nat
  BY <1>1, <1>2, <1>t DEF Frames!TypeOK, Frames!ContractAssumption
<1>4. Came(c)' /\ \A d \in Call : d # c => (Came(d)' <=> Came(d))
  BY <1>t DEF Came, Frames!TypeOK
<1>5. /\ \A a, b \in Call : Frames!Before(a, b)' <=> \/ b # c /\ Frames!Before(a, b)
                                                     \/ b = c /\ Came(a)
      /\ \A a, b \in Call : Frames!Before(a, b) => Came(a) /\ Came(b) /\ a # c /\ b # c
      /\ \A a \in Call : (\E i \in 1 .. Len(past'.order) : past'.order[i] = a) <=> Came(a) \/ a = c
  BY <1>1, <1>2, <1>t, BeforeGrows
<1>6. past.kind[c] = None /\ None \notin {"mutate", "advance", "capture", "stepped", "ok", "error"}
  BY <1>1, <1>t DEF Ordered, Frames!ContractAssumption
<1>7. Ordered'
  <2>1. \A a \in Call : Came(a)' <=> \E i \in 1 .. Len(past'.order) : past'.order[i] = a
    BY <1>4, <1>5
  <2>2. \A a, b \in Call : Frames!Before(a, b)' =>
          a # b /\ ~Frames!Before(b, a)' /\ contract'[a].at <= contract'[b].at
    BY <1>1, <1>3, <1>5, <1>t DEF Ordered
  <2>3. \A a, b \in Call : Came(a)' /\ Came(b)' /\ a # b
          => Frames!Before(a, b)' \/ Frames!Before(b, a)'
    BY <1>4, <1>5, <1>t DEF Ordered
  <2>4. \A a \in Call : Came(a)' => 1 <= contract'[a].at /\ contract'[a].at <= now'
    BY <1>1, <1>3, <1>4, <1>t DEF Ordered
  <2>5. \A a \in Call : past'.kind[a] # None => Came(a)'
    BY <1>3, <1>4, <1>t DEF Ordered
  <2> QED BY <2>1, <2>2, <2>3, <2>4, <2>5 DEF Ordered
<1>8. Marked'
  <2>1. \A m \in Call : past.kind[m] # None => contract[m].at <= now
    BY <1>t DEF Ordered
  <2>2. \A m \in Call : past'.kind[m] = "mutate" => contract'[m].at <= marks'.mutation
    BY <1>3, <1>6, <1>t, <2>1 DEF Marked
  <2>3. marks'.advance # 0 =>
          \E a \in Call : past'.kind[a] = "advance" /\ contract'[a].at = marks'.advance
    <3>1. CASE k = "advance"
      BY <1>3, <3>1
    <3>2. CASE k # "advance" /\ marks.advance # 0
      <4>1. PICK a \in Call : past.kind[a] = "advance" /\ contract[a].at = marks.advance
        BY <3>2, <1>t DEF Marked
      <4>2. a # c /\ marks'.advance = marks.advance
        BY <3>2, <4>1, <1>6
      <4> QED BY <1>3, <4>1, <4>2
    <3> QED BY <3>1, <3>2
  <2> QED BY <2>2, <2>3 DEF Marked
<1>9. /\ l \in Lines /\ wire \in Seq(Lines) /\ wire' \in Seq(Lines)
      /\ Len(wire) \in Nat /\ Len(wire') = Len(wire) + 1 /\ wire'[Len(wire) + 1] = l
      /\ \A i \in 1 .. Len(wire) : wire'[i] = wire[i]
  <2>1. l \in Lines /\ wire \in Seq(Lines)
    BY <1>3, <1>t DEF Lines, Frames!TypeOK, Frames!StepId
  <2> QED BY <2>1
<1>10. Frames!TypeOK'
  <2>1. pc' \in [Call -> {"new", "held", "sent", "answered"}]
        /\ marks' \in [mutation: 0 .. MaxClock, advance: 0 .. MaxClock]
        /\ contract' \in [Call -> [at: 0 .. MaxClock, performed: {None, "ok", "error"}]]
    <3>1. pc' \in [Call -> {"new", "held", "sent", "answered"}]
      BY <1>t DEF Frames!TypeOK
    <3>2. now \in 0 .. MaxClock
      BY <1>3
    <3>3. marks' \in [mutation: 0 .. MaxClock, advance: 0 .. MaxClock]
      BY <1>t, <3>2 DEF Frames!TypeOK
    <3>4. /\ contract \in [Call -> [at: 0 .. MaxClock, performed: {None, "ok", "error"}]]
          /\ contract' = [contract EXCEPT ![c] = [contract[c] EXCEPT !.at = now]]
      BY <1>1, <1>t DEF Frames!TypeOK
    <3>5. [contract[c] EXCEPT !.at = now] \in [at: 0 .. MaxClock, performed: {None, "ok", "error"}]
      BY <3>2, <3>4
    <3>6. contract' \in [Call -> [at: 0 .. MaxClock, performed: {None, "ok", "error"}]]
      BY <3>4, <3>5
    <3> QED BY <3>1, <3>3, <3>6
  <2>2. waiters' \in [Frames!StepId -> Call \cup {None}] /\ timers' \subseteq Frames!StepId \X Call
    <3>1. waiters \in [Frames!StepId -> Call \cup {None}] /\ timers \subseteq Frames!StepId \X Call
          /\ now \in Frames!StepId
      BY <1>3, <1>t DEF Frames!TypeOK, Frames!StepId
    <3>2. CASE UNCHANGED <<waiters, timers>>
      BY <3>1, <3>2
    <3>3. CASE waiters' = [waiters EXCEPT ![now] = c] /\ timers' = timers \cup {<<now, c>>}
      BY <3>1, <3>3
    <3> QED BY <3>2, <3>3
  <2> QED BY <1>1, <1>2, <1>9, <1>t, <2>1, <2>2 DEF Frames!TypeOK, Lines, Frames!Capture
<1>11. /\ \A i \in 1 .. Len(wire') : i \in 1 .. Len(wire) \/ i = Len(wire) + 1
       /\ \A i \in 1 .. Len(wire) : i \in 1 .. Len(wire') /\ i < Len(wire) + 1
       /\ Len(wire) + 1 \in 1 .. Len(wire')
  BY <1>9
<1>12. \A i \in 1 .. Len(wire) : wire[i].to # "step" => wire[i].call \in Call /\ wire[i].call # c
  <2> SUFFICES ASSUME NEW i \in 1 .. Len(wire), wire[i].to # "step"
               PROVE  wire[i].call \in Call /\ wire[i].call # c
    OBVIOUS
  <2>1. wire[i] \in Lines
    BY <1>9
  <2>2. past.kind[wire[i].call] # None /\ wire[i].call \in Call
    BY <1>6, <1>t, <2>1 DEF Lined, Lines
  <2> QED BY <1>6, <2>2
<1>13. Lined'
  <2>1. ASSUME NEW i \in 1 .. Len(wire')
        PROVE  /\ wire'[i].to # "step" => wire'[i].call \in Call
               /\ wire'[i].to \in {"mutate", "advance"} => past'.kind[wire'[i].call] = wire'[i].to
               /\ wire'[i].to = "shot" =>
                   \/ past'.kind[wire'[i].call] = "capture"
                   \/ past'.kind[wire'[i].call] = "stepped" /\ contract'[wire'[i].call].performed # None
    <3>1. CASE i = Len(wire) + 1
      BY <1>3, <1>9, <3>1
    <3>2. CASE i \in 1 .. Len(wire)
      <4>1. /\ wire[i].to # "step" => wire[i].call \in Call
            /\ wire[i].to \in {"mutate", "advance"} => past.kind[wire[i].call] = wire[i].to
            /\ wire[i].to = "shot" =>
                \/ past.kind[wire[i].call] = "capture"
                \/ past.kind[wire[i].call] = "stepped" /\ contract[wire[i].call].performed # None
        BY <3>2, <1>t DEF Lined
      <4> QED BY <1>3, <1>9, <1>12, <3>2, <4>1
    <3> QED BY <1>11, <3>1, <3>2
  <2>2. ASSUME NEW i \in 1 .. Len(wire'), NEW j \in 1 .. Len(wire'), i < j,
               Direct(wire[i])' , Direct(wire[j])'
        PROVE  Frames!Before(wire[i].call, wire[j].call)'
    <3>1. i \in 1 .. Len(wire)
      BY <1>9, <1>11, <2>2
    <3>2. wire[i].to # "step" /\ wire[i].call \in Call /\ wire[i].call # c
      BY <1>9, <1>12, <2>2, <3>1 DEF Direct
    <3>3. CASE j = Len(wire) + 1
      <4>1. wire'[j].call = c
        BY <1>9, <2>2, <3>3 DEF Direct
      <4>2. Came(wire[i].call)
        <5>1. wire[i].to \in {"mutate", "advance"} \/ past'.kind[wire[i].call] = "capture"
          BY <1>9, <2>2, <3>1 DEF Direct
        <5>2. past.kind[wire[i].call] # None
          BY <1>3, <1>6, <1>t, <3>1, <3>2, <5>1 DEF Lined
        <5> QED BY <1>t, <3>2, <5>2 DEF Ordered
      <4> QED BY <1>5, <1>9, <3>1, <3>2, <4>1, <4>2
    <3>4. CASE j \in 1 .. Len(wire)
      <4>1. wire[j].to # "step" /\ wire[j].call \in Call /\ wire[j].call # c
        BY <1>9, <1>12, <2>2, <3>4 DEF Direct
      <4>2. Direct(wire[i]) /\ Direct(wire[j])
        BY <1>3, <1>9, <2>2, <3>1, <3>2, <3>4, <4>1 DEF Direct
      <4>3. Frames!Before(wire[i].call, wire[j].call)
        BY <1>t, <2>2, <3>1, <3>4, <4>2 DEF Lined
      <4> QED BY <1>5, <1>9, <3>1, <3>2, <3>4, <4>1, <4>3
    <3> QED BY <1>11, <3>3, <3>4
  <2>w. /\ waiters \in [Frames!StepId -> Call \cup {None}] /\ timers \subseteq Frames!StepId \X Call
        /\ now \in Frames!StepId
    BY <1>3, <1>t DEF Frames!TypeOK, Frames!StepId
  <2>3. ASSUME NEW i \in Frames!StepId, waiters'[i] # None PROVE past'.kind[waiters'[i]] = "stepped"
    <3>1. CASE waiters'[i] = c /\ k = "stepped"
      BY <1>3, <3>1
    <3>2. CASE waiters'[i] = waiters[i]
      <4>1. waiters[i] \in Call /\ past.kind[waiters[i]] = "stepped"
        BY <1>t, <2>3, <2>w, <3>2 DEF Lined
      <4>2. waiters[i] # c
        BY <1>6, <4>1
      <4> QED BY <1>3, <3>2, <4>1, <4>2
    <3> QED BY <2>w, <3>1, <3>2
  <2>4. ASSUME NEW t \in timers' PROVE past'.kind[t[2]] = "stepped"
    <3>1. CASE t = <<now, c>> /\ k = "stepped"
      BY <1>3, <3>1
    <3>2. CASE t \in timers
      <4>1. t[2] \in Call /\ past.kind[t[2]] = "stepped"
        BY <1>t, <2>w, <3>2 DEF Lined
      <4>2. t[2] # c
        BY <1>6, <4>1
      <4> QED BY <1>3, <4>1, <4>2
    <3> QED BY <2>4, <3>1, <3>2
  <2> QED BY <2>1, <2>2, <2>3, <2>4 DEF Lined
<1>14. ASSUME NEW to \in {"mutate", "advance", "shot"}, NEW d \in Call, d # c
       PROVE  OnWire(to, d)' <=> OnWire(to, d)
  BY <1>9, <1>11, <1>14 DEF OnWire
<1>15. k \in {"mutate", "advance"} => OnWire(k, c)'
  BY <1>9, <1>11 DEF OnWire
<1>16. Drawn'
  <2>1. \A m \in game'.undrawn : past'.kind[m] \in {"mutate", "stepped"}
    BY <1>1, <1>3, <1>6, <1>t DEF Drawn, Frames!TypeOK
  <2>2. ASSUME NEW m \in Call, NEW a \in Call, past'.kind[m] = "mutate", past'.kind[a] = "advance",
               Frames!Before(m, a)', ~OnWire("advance", a)', a \notin past'.failed
        PROVE  ~OnWire("mutate", m)' /\ m \notin game'.undrawn
    <3>1. a # c
      BY <1>3, <1>15, <2>2
    <3>2. Frames!Before(m, a) /\ m # c
      BY <1>5, <2>2, <3>1
    <3> QED BY <1>1, <1>2, <1>3, <1>14, <1>t, <2>2, <3>1, <3>2 DEF Drawn
  <2> QED BY <2>1, <2>2 DEF Drawn
<1>17. Shown'
  <2> SUFFICES ASSUME NEW d \in Call, shot[d] # None
               PROVE  /\ \/ past'.kind[d] = "capture" /\ ~OnWire("shot", d)'
                         \/ past'.kind[d] = "stepped" /\ contract'[d].performed # None
                      /\ \A m \in shot[d] : m \in Call /\ past'.kind[m] \in {"mutate", "stepped"}
                      /\ past'.kind[d] = "capture" =>
                           \A m \in shot[d], a \in Call :
                             past'.kind[m] = "mutate" /\ past'.kind[a] = "advance"
                             /\ Frames!Before(m, a)' /\ Frames!Before(a, d)' => a \in past'.failed
    BY <1>1 DEF Shown
  <2>1. d # c
    BY <1>6, <1>t DEF Shown
  <2>2. \A m \in shot[d] : m \in Call /\ past.kind[m] \in {"mutate", "stepped"} /\ m # c
    BY <1>6, <1>t DEF Shown
  <2>3. \A a \in Call : Frames!Before(a, d)' => Frames!Before(a, d) /\ a # c
    BY <1>5, <2>1
  <2> QED BY <1>2, <1>3, <1>5, <1>14, <1>t, <2>1, <2>2, <2>3 DEF Shown
<1>18. Judged'
  <2> SUFFICES ASSUME NEW d \in Call, verdict[d] = "ok"
               PROVE  /\ past'.kind[d] = "capture" /\ shot[d] # None
                      /\ \A m \in shot[d] : past'.kind[m] = "mutate" =>
                           \E a \in Call : past'.kind[a] = "advance"
                                            /\ contract'[m].at <= contract'[a].at
    BY <1>1 DEF Judged
  <2>1. d # c /\ past.kind[d] = "capture" /\ shot[d] # None
    BY <1>6, <1>t DEF Judged
  <2>2. \A m \in shot[d] : m \in Call /\ m # c
    BY <1>6, <1>t, <2>1 DEF Shown
  <2>3. \A m \in shot[d] : past.kind[m] = "mutate" =>
          \E a \in Call : a # c /\ past.kind[a] = "advance" /\ contract[m].at <= contract[a].at
    BY <1>6, <1>t DEF Judged
  <2> QED BY <1>3, <2>1, <2>2, <2>3
<1> QED BY <1>7, <1>8, <1>10, <1>13, <1>16, <1>17, <1>18 DEF FreshInv

(* The chain handles its first line; what is left keeps its order.          *)
LEMMA HandledLeaves ==
  ASSUME FreshInv, wire # <<>>, wire' = Tail(wire), past'.kind = past.kind,
         past'.order = past.order, UNCHANGED <<contract, waiters, timers>>
  PROVE  /\ Lined' /\ wire' \in Seq(Lines) /\ Head(wire) \in Lines
         /\ \A to \in {"mutate", "advance", "shot"}, d \in Call :
              /\ OnWire(to, d)' => OnWire(to, d)
              /\ OnWire(to, d) => OnWire(to, d)' \/ (Head(wire).to = to /\ Head(wire).call = d)
         /\ OnWire(Head(wire).to, Head(wire).call)
         /\ Direct(Head(wire)) =>
              \A to \in {"mutate", "advance", "shot"}, d \in Call :
                OnWire(to, d)' /\ (to = "shot" => past.kind[d] = "capture")
                  => Frames!Before(Head(wire).call, d)
         /\ Head(wire).to # "step" =>
              /\ Head(wire).call \in Call
              /\ Head(wire).to \in {"mutate", "advance"} => past.kind[Head(wire).call] = Head(wire).to
              /\ Head(wire).to = "shot" =>
                   \/ past.kind[Head(wire).call] = "capture"
                   \/ past.kind[Head(wire).call] = "stepped" /\ contract[Head(wire).call].performed # None
<1>1. /\ wire \in Seq(Lines) /\ wire' \in Seq(Lines) /\ Head(wire) \in Lines /\ Head(wire) = wire[1]
      /\ Len(wire) \in Nat \ {0} /\ Len(wire') = Len(wire) - 1
      /\ \A i \in 1 .. Len(wire') : wire'[i] = wire[i + 1]
  <2>1. wire \in Seq(Lines)
    BY DEF FreshInv, Frames!TypeOK, Lines
  <2> QED BY <2>1
<1>2. /\ \A i \in 1 .. Len(wire') : i + 1 \in 1 .. Len(wire) /\ 1 < i + 1
      /\ \A i \in 1 .. Len(wire) : i = 1 \/ \E j \in 1 .. Len(wire') : i = j + 1
      /\ 1 \in 1 .. Len(wire)
  <2>1. \A i \in 1 .. Len(wire) : i = 1 \/ (i - 1 \in 1 .. Len(wire') /\ i = (i - 1) + 1)
    BY <1>1
  <2> QED BY <1>1, <2>1
<1>3. \A a, b \in Call : Frames!Before(a, b)' <=> Frames!Before(a, b)
  BY BeforeSame
<1>4. \A i \in 1 .. Len(wire') : Direct(wire[i])' <=> Direct(wire[i + 1])
  BY <1>1 DEF Direct
<1>5. Lined
  BY DEF FreshInv
<1>6. \A i \in 1 .. Len(wire) : Direct(wire[i]) => wire[i].call \in Call
  BY <1>5 DEF Lined, Direct
<1>7. Lined'
  <2>1. \A i, j \in 1 .. Len(wire') : i < j /\ Direct(wire[i])' /\ Direct(wire[j])'
          => Frames!Before(wire[i].call, wire[j].call)'
    <3> SUFFICES ASSUME NEW i \in 1 .. Len(wire'), NEW j \in 1 .. Len(wire'), i < j,
                        Direct(wire[i])', Direct(wire[j])'
                 PROVE  Frames!Before(wire[i].call, wire[j].call)'
      OBVIOUS
    <3>1. i + 1 < j + 1 /\ Direct(wire[i + 1]) /\ Direct(wire[j + 1])
      BY <1>4
    <3>2. Frames!Before(wire[i + 1].call, wire[j + 1].call)
      BY <1>2, <1>5, <3>1 DEF Lined
    <3> QED BY <1>1, <1>2, <1>3, <1>6, <3>1, <3>2
  <2> QED BY <1>1, <1>2, <1>5, <2>1 DEF Lined
<1>8. ASSUME NEW to \in {"mutate", "advance", "shot"}, NEW d \in Call
      PROVE  /\ OnWire(to, d)' => OnWire(to, d)
             /\ OnWire(to, d) => OnWire(to, d)' \/ (Head(wire).to = to /\ Head(wire).call = d)
  BY <1>1, <1>2 DEF OnWire
<1>9. OnWire(Head(wire).to, Head(wire).call)
  BY <1>1, <1>2 DEF OnWire
<1>10. ASSUME Direct(Head(wire)), NEW to \in {"mutate", "advance", "shot"}, NEW d \in Call,
              OnWire(to, d)', to = "shot" => past.kind[d] = "capture"
       PROVE  Frames!Before(Head(wire).call, d)
  <2>1. PICK j \in 1 .. Len(wire') : wire'[j].to = to /\ wire'[j].call = d
    BY <1>10 DEF OnWire
  <2>2. Direct(wire[j + 1]) /\ wire[j + 1].call = d /\ 1 < j + 1 /\ j + 1 \in 1 .. Len(wire)
    BY <1>1, <1>2, <1>10, <2>1 DEF Direct
  <2> QED BY <1>1, <1>2, <1>5, <1>10, <2>2 DEF Lined
<1>11. Head(wire).to # "step" =>
              /\ Head(wire).call \in Call
              /\ Head(wire).to \in {"mutate", "advance"} => past.kind[Head(wire).call] = Head(wire).to
              /\ Head(wire).to = "shot" =>
                   \/ past.kind[Head(wire).call] = "capture"
                   \/ past.kind[Head(wire).call] = "stepped" /\ contract[Head(wire).call].performed # None
  BY <1>1, <1>2, <1>5 DEF Lined
<1> QED BY <1>1, <1>7, <1>8, <1>9, <1>10, <1>11

(* What does not touch the calls and the frames.                            *)
LEMMA CallsStay ==
  ASSUME FreshInv, past'.order = past.order, past'.kind = past.kind,
         UNCHANGED <<marks, pc, contract, shot, verdict, now>>
  PROVE  Ordered' /\ Marked' /\ Judged'
<1>1. Ordered'
  BY OrderedStays DEF FreshInv, Came, Frames!TypeOK
<1> QED BY <1>1 DEF FreshInv, Marked, Judged

LEMMA GameKeeps ==
  ASSUME Frames!ContractAssumption, FreshInv,
         Frames!GameMutates \/ Frames!GameAdvances \/ Frames!GameSteps \/ Frames!GameDraws
  PROVE  FreshInv'
<1>t. Frames!TypeOK /\ Ordered /\ Marked /\ Lined /\ Drawn /\ Shown /\ Judged
  BY DEF FreshInv
<1>0. /\ UNCHANGED <<now, marks, pc, contract, waiters, timers, shot, verdict>>
      /\ past'.kind = past.kind /\ past'.order = past.order /\ past.failed \subseteq past'.failed
  BY <1>t DEF Frames!GameMutates, Frames!GameAdvances, Frames!GameSteps, Frames!GameDraws, Frames!TypeOK
<1>1. Ordered' /\ Marked' /\ Judged'
  BY <1>0, CallsStay
<1>2. \A a, b \in Call : Frames!Before(a, b)' <=> Frames!Before(a, b)
  BY <1>0, BeforeSame
<1>3. ASSUME Drawn', Lined', wire' \in Seq(Lines),
             game' \in [undrawn: SUBSET Call, answers: SUBSET Frames!StepId],
             past' \in [kind: [Call -> {None, "mutate", "advance"} \cup Frames!Capture],
                        order: Seq(Call), failed: SUBSET Call],
             \A d \in Call : OnWire("shot", d)' => OnWire("shot", d)
      PROVE  FreshInv'
  <2>1. Shown'
    BY <1>0, <1>2, <1>3, <1>t DEF Shown
  <2>2. Frames!TypeOK'
    BY <1>0, <1>3, <1>t DEF Frames!TypeOK, Lines
  <2> QED BY <1>1, <1>3, <2>1, <2>2 DEF FreshInv
<1>4. CASE Frames!GameDraws
  <2>1. game' = [game EXCEPT !.undrawn = {}] /\ UNCHANGED <<wire, past>>
    BY <1>4 DEF Frames!GameDraws
  <2>2. game' \in [undrawn: SUBSET Call, answers: SUBSET Frames!StepId] /\ game'.undrawn = {}
    BY <1>t, <2>1 DEF Frames!TypeOK
  <2>3. Drawn' /\ Lined'
    BY <1>0, <1>2, <1>t, <2>1, <2>2 DEF Drawn, Lined, OnWire, Direct
  <2> QED BY <1>3, <1>t, <2>1, <2>2, <2>3 DEF Frames!TypeOK, Lines, OnWire
<1>5. CASE Frames!GameMutates \/ Frames!GameAdvances \/ Frames!GameSteps
  <2>0. wire # <<>> /\ wire' = Tail(wire)
    BY <1>5 DEF Frames!GameMutates, Frames!GameAdvances, Frames!GameSteps, Frames!Handled
  <2>1. /\ Lined' /\ wire' \in Seq(Lines) /\ Head(wire) \in Lines
        /\ \A to \in {"mutate", "advance", "shot"}, d \in Call :
              /\ OnWire(to, d)' => OnWire(to, d)
              /\ OnWire(to, d) => OnWire(to, d)' \/ (Head(wire).to = to /\ Head(wire).call = d)
        /\ OnWire(Head(wire).to, Head(wire).call)
        /\ Direct(Head(wire)) =>
              \A to \in {"mutate", "advance", "shot"}, d \in Call :
                OnWire(to, d)' /\ (to = "shot" => past.kind[d] = "capture")
                  => Frames!Before(Head(wire).call, d)
        /\ Head(wire).to # "step" =>
              /\ Head(wire).call \in Call
              /\ Head(wire).to \in {"mutate", "advance"} => past.kind[Head(wire).call] = Head(wire).to
    BY <1>0, <2>0, HandledLeaves
  <2>2. CASE Frames!GameMutates
    <3> DEFINE h == Head(wire).call
    <3>1. /\ Head(wire).to = "mutate" /\ h \in Call /\ past.kind[h] = "mutate" /\ OnWire("mutate", h)
          /\ game' = [game EXCEPT !.undrawn = @ \cup {h}] /\ UNCHANGED past
      BY <2>1, <2>2 DEF Frames!GameMutates, Frames!Handled
    <3>2. game' \in [undrawn: SUBSET Call, answers: SUBSET Frames!StepId]
          /\ game'.undrawn = game.undrawn \cup {h}
      BY <1>t, <3>1 DEF Frames!TypeOK
    <3>3. Drawn'
      <4>1. \A m \in game'.undrawn : past'.kind[m] \in {"mutate", "stepped"}
        BY <1>t, <3>1, <3>2 DEF Drawn
      <4>2. ASSUME NEW m \in Call, NEW a \in Call, past.kind[m] = "mutate", past.kind[a] = "advance",
                   Frames!Before(m, a), ~OnWire("advance", a)', a \notin past.failed
            PROVE  ~OnWire("mutate", m)' /\ m \notin game'.undrawn
        <5>1. ~OnWire("advance", a)
          BY <2>1, <3>1, <4>2
        <5>2. ~OnWire("mutate", m) /\ m \notin game.undrawn
          BY <1>t, <4>2, <5>1 DEF Drawn
        <5> QED BY <2>1, <3>1, <3>2, <5>2
      <4> QED BY <1>0, <1>2, <3>1, <4>1, <4>2 DEF Drawn
    <3> QED BY <1>3, <1>t, <2>1, <3>1, <3>2, <3>3 DEF Frames!TypeOK
  <2>3. CASE Frames!GameSteps
    <3>1. PICK drawn \in {{}, game.undrawn} :
            game' = [undrawn |-> drawn, answers |-> game.answers \cup {Head(wire).id}]
      BY <2>3 DEF Frames!GameSteps
    <3>2. Head(wire).to = "step" /\ Head(wire).id \in Frames!StepId /\ UNCHANGED past
      BY <2>1, <2>3 DEF Frames!GameSteps, Frames!Handled, Lines
    <3>3. game' \in [undrawn: SUBSET Call, answers: SUBSET Frames!StepId]
          /\ game'.undrawn \subseteq game.undrawn
      BY <1>t, <3>1, <3>2 DEF Frames!TypeOK
    <3>4. \A to \in {"mutate", "advance", "shot"}, d \in Call : OnWire(to, d)' <=> OnWire(to, d)
      BY <2>1, <3>2
    <3>5. Drawn'
      BY <1>0, <1>2, <1>t, <3>2, <3>3, <3>4 DEF Drawn
    <3> QED BY <1>3, <1>t, <2>1, <3>2, <3>3, <3>5 DEF Frames!TypeOK
  <2>4. CASE Frames!GameAdvances
    <3> DEFINE h == Head(wire).call
    <3>1. /\ Head(wire).to = "advance" /\ h \in Call /\ past.kind[h] = "advance" /\ Direct(Head(wire))
          /\ \/ game' = [game EXCEPT !.undrawn = {}] /\ UNCHANGED past
             \/ past' = [past EXCEPT !.failed = @ \cup {h}] /\ UNCHANGED game
      BY <2>1, <2>4 DEF Frames!GameAdvances, Frames!Handled, Direct
    <3>2. /\ game' \in [undrawn: SUBSET Call, answers: SUBSET Frames!StepId]
          /\ game'.undrawn \subseteq game.undrawn
          /\ past' \in [kind: [Call -> {None, "mutate", "advance"} \cup Frames!Capture],
                        order: Seq(Call), failed: SUBSET Call]
          /\ game'.undrawn = {} \/ h \in past'.failed
      <4>1. /\ game \in [undrawn: SUBSET Call, answers: SUBSET Frames!StepId]
            /\ past \in [kind: [Call -> {None, "mutate", "advance"} \cup Frames!Capture],
                          order: Seq(Call), failed: SUBSET Call]
        BY <1>t DEF Frames!TypeOK
      <4>2. CASE game' = [game EXCEPT !.undrawn = {}] /\ UNCHANGED past
        BY <4>1, <4>2
      <4>3. CASE past' = [past EXCEPT !.failed = @ \cup {h}] /\ UNCHANGED game
        <5>1. past.failed \cup {h} \in SUBSET Call
          BY <3>1, <4>1
        <5> HIDE DEF h
        <5> QED BY <4>1, <4>3, <5>1
      <4> QED BY <3>1, <4>2, <4>3
    <3>3. Drawn'
      <4>1. \A m \in game'.undrawn : past'.kind[m] \in {"mutate", "stepped"}
        BY <1>0, <1>t, <3>2 DEF Drawn
      <4>2. ASSUME NEW m \in Call, NEW a \in Call, past.kind[m] = "mutate", past.kind[a] = "advance",
                   Frames!Before(m, a), ~OnWire("advance", a)', a \notin past'.failed
            PROVE  ~OnWire("mutate", m)' /\ m \notin game'.undrawn
        <5>1. CASE OnWire("advance", a)
          <6>1. a = h /\ game'.undrawn = {}
            BY <2>1, <3>2, <4>2, <5>1
          <6>2. OnWire("mutate", m)' => Frames!Before(h, m)
            BY <2>1, <3>1
          <6> QED BY <1>t, <4>2, <6>1, <6>2 DEF Ordered
        <5>2. CASE ~OnWire("advance", a)
          BY <1>0, <1>t, <2>1, <3>2, <4>2, <5>2 DEF Drawn
        <5> QED BY <5>1, <5>2
      <4> QED BY <1>0, <1>2, <4>1, <4>2 DEF Drawn
    <3> QED BY <1>3, <2>1, <3>2, <3>3
  <2> QED BY <1>5, <2>2, <2>3, <2>4
<1> QED BY <1>4, <1>5

(* A capture takes its frame: an advance between a mutation and the capture  *)
(* was handled in between, and drew unless it failed.                       *)
LEMMA ShootKeeps ==
  ASSUME Frames!ContractAssumption, FreshInv, Frames!Handled("shot"), NEW missed \in SUBSET Call,
         shot' = [shot EXCEPT ![Head(wire).call] = missed],
         past.kind[Head(wire).call] = "capture" => missed = game.undrawn,
         \A m \in missed : past.kind[m] \in {"mutate", "stepped"},
         game' \in [undrawn: SUBSET Call, answers: SUBSET Frames!StepId],
         \A m \in game'.undrawn : /\ past.kind[m] \in {"mutate", "stepped"}
                                  /\ past.kind[m] = "mutate" => m \in game.undrawn,
         UNCHANGED <<now, marks, pc, contract, waiters, timers, verdict, past>>
  PROVE  FreshInv'
<1> DEFINE h == Head(wire).call
<1>t. Frames!TypeOK /\ Ordered /\ Marked /\ Lined /\ Drawn /\ Shown /\ Judged
  BY DEF FreshInv
<1>1. /\ wire # <<>> /\ wire' = Tail(wire) /\ Head(wire).to = "shot"
      /\ shot' = [shot EXCEPT ![h] = missed]
      /\ past.kind[h] = "capture" => missed = game.undrawn
      /\ UNCHANGED <<now, marks, pc, contract, waiters, timers, verdict, past>>
  BY DEF Frames!Handled
<1>2. /\ Lined' /\ wire' \in Seq(Lines)
      /\ \A to \in {"mutate", "advance", "shot"}, d \in Call :
           /\ OnWire(to, d)' => OnWire(to, d)
           /\ OnWire(to, d) => OnWire(to, d)' \/ (Head(wire).to = to /\ h = d)
      /\ OnWire(Head(wire).to, h)
      /\ Direct(Head(wire)) =>
           \A to \in {"mutate", "advance", "shot"}, d \in Call :
             OnWire(to, d)' /\ (to = "shot" => past.kind[d] = "capture") => Frames!Before(h, d)
      /\ Head(wire).to # "step" =>
           /\ h \in Call
           /\ Head(wire).to = "shot" =>
                past.kind[h] = "capture" \/ (past.kind[h] = "stepped" /\ contract[h].performed # None)
  BY <1>1, HandledLeaves, FreshInv
<1>3. /\ h \in Call /\ OnWire("shot", h)
      /\ past.kind[h] = "capture" \/ (past.kind[h] = "stepped" /\ contract[h].performed # None)
      /\ past.kind[h] = "capture" => Direct(Head(wire))
  BY <1>1, <1>2 DEF Direct
<1>4. /\ shot \in [Call -> {None} \cup SUBSET Call]
      /\ shot'[h] = missed /\ \A d \in Call : d # h => shot'[d] = shot[d]
      /\ shot' \in [Call -> {None} \cup SUBSET Call]
  BY <1>1, <1>3, <1>t DEF Frames!TypeOK
<1> HIDE DEF h
<1>5. \A a, b \in Call : Frames!Before(a, b)' <=> Frames!Before(a, b)
  BY <1>1, BeforeSame
<1>6. Frames!TypeOK'
  BY <1>1, <1>2, <1>4, <1>t DEF Frames!TypeOK, Lines
<1>7. Ordered' /\ Marked' /\ Drawn'
  <2>1. Ordered'
    BY <1>1, <1>t, OrderedStays DEF Came, Frames!TypeOK
  <2>2. \A d \in Call : OnWire("advance", d) => OnWire("advance", d)'
    BY <1>1, <1>2
  <2>3. Drawn'
    BY <1>1, <1>2, <1>5, <1>t, <2>2 DEF Drawn
  <2> QED BY <1>1, <1>t, <2>1, <2>3 DEF Marked
<1>8. Shown'
  <2>1. ASSUME NEW d \in Call, d = h, past.kind[h] = "capture" PROVE ~OnWire("shot", d)'
    <3>1. OnWire("shot", d)' => Frames!Before(h, d)
      BY <1>2, <1>3, <2>1
    <3>2. ~Frames!Before(h, h)
      BY <1>3, <1>t DEF Ordered
    <3> QED BY <1>3, <2>1, <3>1, <3>2
  <2>2. ASSUME past.kind[h] = "capture", NEW m \in missed, past.kind[m] = "mutate", NEW a \in Call,
               past.kind[a] = "advance", Frames!Before(m, a), Frames!Before(a, h)
        PROVE  a \in past.failed
    <3>1. m \in game.undrawn
      BY <1>1, <2>2
    <3>2. SUFFICES ASSUME a \notin past.failed PROVE FALSE
      OBVIOUS
    <3>3. OnWire("advance", a)
      BY <1>t, <2>2, <3>1, <3>2 DEF Drawn
    <3>4. Frames!Before(h, a)
      BY <1>1, <1>2, <1>3, <2>2, <3>3
    <3> QED BY <1>3, <1>t, <2>2, <3>4 DEF Ordered
  <2>3. \A m \in missed : m \in Call /\ past.kind[m] \in {"mutate", "stepped"}
    OBVIOUS
  <2>4. ASSUME NEW d \in Call, shot'[d] # None
        PROVE  /\ \/ past.kind[d] = "capture" /\ ~OnWire("shot", d)'
                  \/ past.kind[d] = "stepped" /\ contract[d].performed # None
               /\ \A m \in shot'[d] : m \in Call /\ past.kind[m] \in {"mutate", "stepped"}
               /\ past.kind[d] = "capture" =>
                    \A m \in shot'[d], a \in Call :
                      past.kind[m] = "mutate" /\ past.kind[a] = "advance"
                      /\ Frames!Before(m, a) /\ Frames!Before(a, d) => a \in past.failed
    <3>1. CASE d = h
      <4>1. past.kind[d] = "capture" => ~OnWire("shot", d)'
        BY <2>1, <3>1
      <4>2. shot'[d] = missed
        BY <1>4, <3>1
      <4>3. past.kind[d] = "capture" =>
              \A m \in shot'[d], a \in Call :
                past.kind[m] = "mutate" /\ past.kind[a] = "advance"
                /\ Frames!Before(m, a) /\ Frames!Before(a, d) => a \in past.failed
        BY <2>2, <3>1, <4>2
      <4>4. past.kind[d] = "capture" \/ (past.kind[d] = "stepped" /\ contract[d].performed # None)
        BY <1>3, <3>1
      <4> QED BY <2>3, <4>1, <4>2, <4>3, <4>4
    <3>2. CASE d # h
      BY <1>2, <1>4, <1>t, <2>4, <3>2 DEF Shown
    <3> QED BY <3>1, <3>2
  <2>5. ASSUME NEW d \in Call, shot'[d] # None, past.kind[d] = "capture", NEW m \in shot'[d],
               past.kind[m] = "mutate", NEW a \in Call, past.kind[a] = "advance", Frames!Before(m, a)', Frames!Before(a, d)'
        PROVE  a \in past.failed
    <3>1. m \in Call
      BY <2>4, <2>5
    <3> QED BY <1>5, <2>4, <2>5, <3>1
  <2> QED BY <1>1, <2>4, <2>5 DEF Shown
<1>9. Judged'
  <2>1. verdict[h] # "ok"
    BY <1>3, <1>t DEF Judged, Shown
  <2> QED BY <1>1, <1>4, <1>t, <2>1 DEF Judged
<1> QED BY <1>2, <1>6, <1>7, <1>8, <1>9 DEF FreshInv

(* A held capture goes on behind everything that is on the wire.            *)
LEMMA GoOnKeeps ==
  ASSUME Frames!ContractAssumption, FreshInv, NEW c \in Call, NEW outcome \in {"ok", "error"},
         past.kind[c] = "stepped", Frames!GoOn(c, outcome),
         UNCHANGED <<now, marks, shot, verdict, past>>, game'.undrawn = game.undrawn,
         game' \in [undrawn: SUBSET Call, answers: SUBSET Frames!StepId],
         waiters' \in [Frames!StepId -> Call \cup {None}],
         \A i \in Frames!StepId : waiters'[i] # None => waiters'[i] = waiters[i],
         timers' \subseteq timers
  PROVE  FreshInv'
<1>t. Frames!TypeOK /\ Ordered /\ Marked /\ Lined /\ Drawn /\ Shown /\ Judged
  BY DEF FreshInv
<1>1. /\ contract' = [contract EXCEPT ![c].performed = outcome] /\ pc' = [pc EXCEPT ![c] = "sent"]
      /\ wire' = Append(wire, [to |-> "shot", call |-> c])
  BY DEF Frames!GoOn
<1>2. /\ contract' \in [Call -> [at: 0..MaxClock, performed: {None, "ok", "error"}]]
      /\ contract'[c].performed # None
      /\ \A d \in Call : contract'[d].at = contract[d].at
      /\ \A d \in Call : d # c => contract'[d] = contract[d]
  <2>1. /\ contract \in [Call -> [at: 0..MaxClock, performed: {None, "ok", "error"}]]
        /\ None \notin {"ok", "error"}
    BY <1>t DEF Frames!TypeOK, Frames!ContractAssumption
  <2> QED BY <1>1, <2>1
<1>3. /\ pc' \in [Call -> {"new", "held", "sent", "answered"}] /\ Came(c)
      /\ \A d \in Call : Came(d)' <=> Came(d)
  <2>1. pc \in [Call -> {"new", "held", "sent", "answered"}] /\ Came(c)
    BY <1>t DEF Frames!TypeOK, Ordered, Frames!ContractAssumption
  <2> QED BY <1>1, <2>1 DEF Came
<1>4. /\ wire \in Seq(Lines) /\ wire' \in Seq(Lines) /\ Len(wire) \in Nat
      /\ Len(wire') = Len(wire) + 1 /\ wire'[Len(wire) + 1] = [to |-> "shot", call |-> c]
      /\ \A i \in 1 .. Len(wire) : wire'[i] = wire[i]
  <2>1. wire \in Seq(Lines) /\ [to |-> "shot", call |-> c] \in Lines
    BY <1>t DEF Frames!TypeOK, Lines
  <2> QED BY <1>1, <2>1
<1>5. /\ \A i \in 1 .. Len(wire') : i \in 1 .. Len(wire) \/ i = Len(wire) + 1
      /\ \A i \in 1 .. Len(wire) : i \in 1 .. Len(wire')
  BY <1>4
<1>6. \A a, b \in Call : Frames!Before(a, b)' <=> Frames!Before(a, b)
  BY BeforeSame
<1>7. \A to \in {"mutate", "advance", "shot"}, d \in Call :
        to # "shot" \/ d # c => (OnWire(to, d)' <=> OnWire(to, d))
  BY <1>4, <1>5 DEF OnWire
<1>8. /\ \A i \in 1 .. Len(wire) : Direct(wire[i])' <=> Direct(wire[i])
      /\ \A i \in 1 .. Len(wire') : Direct(wire[i])' => i \in 1 .. Len(wire)
  BY <1>4, <1>5 DEF Direct
<1>9. Frames!TypeOK'
  BY <1>2, <1>3, <1>4, <1>t DEF Frames!TypeOK, Lines
<1>10. Ordered'
  BY <1>2, <1>3, <1>t, OrderedStays DEF Frames!TypeOK
<1>11. Marked' /\ Judged'
  <2>1. \A d \in Call : verdict[d] = "ok" => \A m \in shot[d] : m \in Call
    BY <1>t DEF Judged, Shown
  <2> QED BY <1>2, <1>t, <2>1 DEF Marked, Judged
<1>12. Lined'
  <2>1. ASSUME NEW i \in 1 .. Len(wire')
        PROVE  /\ wire'[i].to # "step" => wire'[i].call \in Call
               /\ wire'[i].to \in {"mutate", "advance"} => past.kind[wire'[i].call] = wire'[i].to
               /\ wire'[i].to = "shot" =>
                    \/ past.kind[wire'[i].call] = "capture"
                    \/ past.kind[wire'[i].call] = "stepped"
                       /\ contract'[wire'[i].call].performed # None
    <3>1. CASE i \in 1 .. Len(wire)
      <4>1. \A d \in Call : contract[d].performed # None => contract'[d].performed # None
        BY <1>2
      <4>2. /\ wire[i].to # "step" => wire[i].call \in Call
            /\ wire[i].to \in {"mutate", "advance"} => past.kind[wire[i].call] = wire[i].to
            /\ wire[i].to = "shot" =>
                 \/ past.kind[wire[i].call] = "capture"
                 \/ past.kind[wire[i].call] = "stepped" /\ contract[wire[i].call].performed # None
        BY <1>t, <3>1 DEF Lined
      <4> QED BY <1>4, <3>1, <4>1, <4>2
    <3>2. CASE i = Len(wire) + 1
      BY <1>2, <1>4, <3>2
    <3> QED BY <1>5, <3>1, <3>2
  <2>2. ASSUME NEW i \in 1 .. Len(wire'), NEW j \in 1 .. Len(wire'), i < j,
               Direct(wire[i])', Direct(wire[j])'
        PROVE  Frames!Before(wire[i].call, wire[j].call)'
    <3>1. /\ i \in 1 .. Len(wire) /\ j \in 1 .. Len(wire) /\ Direct(wire[i]) /\ Direct(wire[j])
          /\ wire[i].call \in Call /\ wire[j].call \in Call
      BY <1>8, <1>t, <2>2 DEF Lined, Direct
    <3>2. Frames!Before(wire[i].call, wire[j].call)
      BY <1>t, <2>2, <3>1 DEF Lined
    <3> QED BY <1>4, <1>6, <3>1, <3>2
  <2> QED BY <1>t, <2>1, <2>2 DEF Lined
<1>13. Drawn'
  BY <1>6, <1>7, <1>t DEF Drawn
<1>14. Shown'
  <2> SUFFICES ASSUME NEW d \in Call, shot[d] # None
               PROVE  /\ \/ past.kind[d] = "capture" /\ ~OnWire("shot", d)'
                         \/ past.kind[d] = "stepped" /\ contract'[d].performed # None
                      /\ \A m \in shot[d] : m \in Call /\ past.kind[m] \in {"mutate", "stepped"}
                      /\ past.kind[d] = "capture" =>
                           \A m \in shot[d], a \in Call :
                             past.kind[m] = "mutate" /\ past.kind[a] = "advance"
                             /\ Frames!Before(m, a)' /\ Frames!Before(a, d)' => a \in past.failed
    BY DEF Shown
  <2>1. past.kind[d] = "capture" => d # c
    OBVIOUS
  <2> QED BY <1>2, <1>6, <1>7, <1>t, <2>1 DEF Shown
<1> QED BY <1>9, <1>10, <1>11, <1>12, <1>13, <1>14 DEF FreshInv

(* The clock, and a step of the proxy's that nobody waits for any more.     *)
LEMMA QuietKeeps ==
  ASSUME Frames!ContractAssumption, FreshInv, UNCHANGED <<marks, pc, contract, wire, shot, verdict, past>>,
         now' \in 1 .. MaxClock, now <= now', game'.undrawn = game.undrawn,
         game' \in [undrawn: SUBSET Call, answers: SUBSET Frames!StepId],
         waiters' \in [Frames!StepId -> Call \cup {None}],
         \A i \in Frames!StepId : waiters'[i] # None => waiters'[i] = waiters[i],
         timers' \subseteq timers
  PROVE  FreshInv'
<1>t. Frames!TypeOK /\ Ordered /\ Marked /\ Lined /\ Drawn /\ Shown /\ Judged
  BY DEF FreshInv
<1>1. Frames!TypeOK'
  BY <1>t DEF Frames!TypeOK
<1>2. Ordered'
  BY <1>t, OrderedStays DEF Came, Frames!ContractAssumption
<1>3. \A a, b \in Call : Frames!Before(a, b)' <=> Frames!Before(a, b)
  BY BeforeSame
<1>4. \A to \in {"mutate", "advance", "shot"}, d \in Call : OnWire(to, d)' <=> OnWire(to, d)
  BY DEF OnWire
<1>5. Lined'
  <2>1. \A i \in 1 .. Len(wire) : Direct(wire[i]) => wire[i].call \in Call
    BY <1>t DEF Lined, Direct
  <2>2. \A i \in 1 .. Len(wire) : Direct(wire[i])' <=> Direct(wire[i])
    BY DEF Direct
  <2>3. ASSUME NEW i \in 1 .. Len(wire), NEW j \in 1 .. Len(wire), i < j,
               Direct(wire[i])', Direct(wire[j])'
        PROVE  Frames!Before(wire[i].call, wire[j].call)'
    <3>1. Direct(wire[i]) /\ Direct(wire[j]) /\ wire[i].call \in Call /\ wire[j].call \in Call
      BY <2>1, <2>2, <2>3
    <3> QED BY <1>3, <1>t, <2>3, <3>1 DEF Lined
  <2> QED BY <1>t, <2>3 DEF Lined
<1>6. Marked' /\ Judged'
  BY <1>t DEF Marked, Judged
<1>7. Drawn'
  BY <1>3, <1>4, <1>t DEF Drawn
<1>8. Shown'
  <2> SUFFICES ASSUME NEW d \in Call, shot[d] # None
               PROVE  /\ \/ past.kind[d] = "capture" /\ ~OnWire("shot", d)'
                         \/ past.kind[d] = "stepped" /\ contract[d].performed # None
                      /\ \A m \in shot[d] : m \in Call /\ past.kind[m] \in {"mutate", "stepped"}
                      /\ past.kind[d] = "capture" =>
                           \A m \in shot[d], a \in Call :
                             past.kind[m] = "mutate" /\ past.kind[a] = "advance"
                             /\ Frames!Before(m, a)' /\ Frames!Before(a, d)' => a \in past.failed
    BY DEF Shown
  <2> QED BY <1>3, <1>4, <1>t DEF Shown
<1> QED BY <1>1, <1>2, <1>5, <1>6, <1>7, <1>8 DEF FreshInv

(* The verdict is given on the marks of its moment.                         *)
LEMMA JudgeKeeps ==
  ASSUME Frames!ContractAssumption, FreshInv, NEW c \in Call, Frames!Judge(c)
  PROVE  FreshInv'
<1>t. Frames!TypeOK /\ Ordered /\ Marked /\ Lined /\ Drawn /\ Shown /\ Judged
  BY DEF FreshInv
<1>0. PICK v \in {Frames!FrameAgeVerdict(c), "untold"} : verdict' = [verdict EXCEPT ![c] = v]
  BY DEF Frames!Judge
<1>1. /\ pc[c] = "sent" /\ shot[c] # None /\ pc' = [pc EXCEPT ![c] = "answered"]
      /\ UNCHANGED <<now, marks, contract, waiters, timers, wire, game, shot, past>>
  BY DEF Frames!Judge
<1>2. /\ v \in {"verified", "no_step_after_mutation", "latency", "ok", "untold"}
      /\ v = "ok" => contract[c].performed = None /\ ~(marks.mutation > marks.advance)
  BY <1>0 DEF Frames!FrameAgeVerdict
<1>3. /\ verdict' \in [Call -> {None, "verified", "no_step_after_mutation", "latency", "ok", "untold"}]
      /\ verdict'[c] = v
      /\ \A d \in Call : d # c => verdict'[d] = verdict[d]
      /\ pc' \in [Call -> {"new", "held", "sent", "answered"}]
      /\ \A d \in Call : Came(d)' <=> Came(d)
  <2>1. /\ pc \in [Call -> {"new", "held", "sent", "answered"}]
        /\ verdict \in [Call -> {None, "verified", "no_step_after_mutation", "latency", "ok", "untold"}]
    BY <1>t DEF Frames!TypeOK
  <2> QED BY <1>0, <1>1, <1>2, <2>1 DEF Came
<1>4. Frames!TypeOK' /\ Ordered'
  BY <1>1, <1>3, <1>t, OrderedStays DEF Frames!TypeOK
<1>5. Marked' /\ Lined' /\ Drawn' /\ Shown'
  BY <1>1, <1>t DEF Marked, Lined, Direct, Drawn, Shown, OnWire, Frames!Before
<1>6. Judged'
  <2>1. ASSUME v = "ok"
        PROVE  /\ past.kind[c] = "capture"
               /\ \A m \in shot[c] : past.kind[m] = "mutate" =>
                    \E a \in Call : past.kind[a] = "advance" /\ contract[m].at <= contract[a].at
    <3>1. past.kind[c] = "capture" /\ \A m \in shot[c] : m \in Call
      BY <1>1, <1>2, <1>t, <2>1 DEF Shown
    <3>2. ASSUME NEW m \in shot[c], past.kind[m] = "mutate"
          PROVE  \E a \in Call : past.kind[a] = "advance" /\ contract[m].at <= contract[a].at
      <4>1. /\ m \in Call /\ past.kind[m] = "mutate" /\ contract[m].at <= marks.mutation
            /\ 1 <= contract[m].at
        BY <1>t, <3>1, <3>2 DEF Marked, Ordered, Frames!ContractAssumption
      <4>2. marks.mutation \in Nat /\ marks.advance \in Nat /\ contract[m].at \in Nat
        BY <1>t, <4>1 DEF Frames!TypeOK, Frames!ContractAssumption
      <4>3. marks.advance # 0 /\ contract[m].at <= marks.advance
        BY <1>2, <2>1, <4>1, <4>2
      <4>4. PICK a \in Call : past.kind[a] = "advance" /\ contract[a].at = marks.advance
        BY <1>t, <4>3 DEF Marked
      <4> QED BY <4>3, <4>4
    <3> QED BY <3>1, <3>2
  <2>2. ASSUME NEW d \in Call, verdict'[d] = "ok"
        PROVE  /\ past.kind[d] = "capture" /\ shot[d] # None
               /\ \A m \in shot[d] : past.kind[m] = "mutate" =>
                    \E a \in Call : past.kind[a] = "advance" /\ contract[m].at <= contract[a].at
    <3>1. CASE d = c
      BY <1>1, <1>3, <2>1, <2>2, <3>1
    <3>2. CASE d # c
      BY <1>3, <1>t, <2>2, <3>2 DEF Judged
    <3> QED BY <3>1, <3>2
  <2> QED BY <1>1, <2>2 DEF Judged
<1> QED BY <1>4, <1>5, <1>6 DEF FreshInv

LEMMA FreshNext ==
  ASSUME Frames!ContractAssumption, FreshInv, [Frames!Next]_(Frames!vars)
  PROVE  FreshInv'
<1>t. Frames!TypeOK /\ Ordered /\ Lined /\ Drawn
  BY DEF FreshInv
<1>0. /\ now \in 1 .. MaxClock /\ MaxClock \in Nat
      /\ marks \in [mutation: 0..MaxClock, advance: 0..MaxClock]
      /\ game \in [undrawn: SUBSET Call, answers: SUBSET Frames!StepId]
      /\ waiters \in [Frames!StepId -> Call \cup {None}] /\ timers \subseteq Frames!StepId \X Call
  BY <1>t DEF Frames!TypeOK, Frames!ContractAssumption
<1>1. ASSUME NEW c \in Call, Frames!Mutate(c) PROVE FreshInv'
  <2>1. marks' = [mutation |-> now, advance |-> marks.advance]
    BY <1>0, <1>1 DEF Frames!Mutate, Frames!MarkMutation
  <2> QED BY <1>1, <2>1, ReceivedKeeps DEF Frames!Mutate
<1>2. ASSUME NEW c \in Call, Frames!Advance(c) PROVE FreshInv'
  <2>1. marks' = [mutation |-> marks.mutation, advance |-> now]
    BY <1>0, <1>2 DEF Frames!Advance, Frames!MarkAdvance
  <2> QED BY <1>2, <2>1, ReceivedKeeps DEF Frames!Advance
<1>3. ASSUME NEW c \in Call, Frames!PlainCapture(c) PROVE FreshInv'
  <2>1. marks' = [mutation |-> marks.mutation, advance |-> marks.advance]
    BY <1>0, <1>3 DEF Frames!PlainCapture
  <2> QED BY <1>3, <2>1, ReceivedKeeps DEF Frames!PlainCapture
<1>4. ASSUME NEW c \in Call, Frames!SteppedCapture(c) PROVE FreshInv'
  <2>1. marks' = [mutation |-> marks.mutation, advance |-> marks.advance]
    BY <1>0, <1>4 DEF Frames!SteppedCapture
  <2> QED BY <1>4, <2>1, ReceivedKeeps DEF Frames!SteppedCapture
<1>5. ASSUME NEW i \in Frames!StepId, Frames!StepAnswered(i) PROVE FreshInv'
  <2>1. /\ game' = [game EXCEPT !.answers = @ \ {i}] /\ waiters' = [waiters EXCEPT ![i] = None]
        /\ UNCHANGED <<now, marks, shot, verdict, past>>
    BY <1>5 DEF Frames!StepAnswered
  <2>2. /\ game' \in [undrawn: SUBSET Call, answers: SUBSET Frames!StepId]
        /\ game'.undrawn = game.undrawn
        /\ waiters' \in [Frames!StepId -> Call \cup {None}]
        /\ \A j \in Frames!StepId : waiters'[j] # None => waiters'[j] = waiters[j]
    BY <1>0, <2>1
  <2>3. CASE waiters[i] = None
    <3>1. UNCHANGED <<pc, contract, timers, wire>>
      BY <1>5, <2>3 DEF Frames!StepAnswered
    <3> QED BY <1>0, <2>1, <2>2, <3>1, QuietKeeps
  <2>4. CASE waiters[i] # None
    <3>1. Frames!GoOn(waiters[i], "ok") /\ timers' \subseteq timers
      BY <1>5, <2>4 DEF Frames!StepAnswered
    <3>2. waiters[i] \in Call /\ past.kind[waiters[i]] = "stepped"
      BY <1>0, <1>t, <2>4 DEF Lined
    <3> QED BY <2>1, <2>2, <3>1, <3>2, GoOnKeeps
  <2> QED BY <2>3, <2>4
<1>6. ASSUME NEW i \in Frames!StepId, NEW c \in Call, Frames!StepTimer(i, c) PROVE FreshInv'
  <2>1. /\ <<i, c>> \in timers /\ timers' \subseteq timers
        /\ waiters' = [waiters EXCEPT ![i] = None]
        /\ UNCHANGED <<now, marks, game, shot, verdict, past>>
    BY <1>6 DEF Frames!StepTimer
  <2>2. /\ waiters' \in [Frames!StepId -> Call \cup {None}]
        /\ \A j \in Frames!StepId : waiters'[j] # None => waiters'[j] = waiters[j]
        /\ game' \in [undrawn: SUBSET Call, answers: SUBSET Frames!StepId]
    BY <1>0, <2>1
  <2>3. CASE waiters[i] = None
    <3>1. UNCHANGED <<pc, contract, wire>>
      BY <1>6, <2>3 DEF Frames!StepTimer
    <3> QED BY <1>0, <2>1, <2>2, <3>1, QuietKeeps
  <2>4. CASE waiters[i] # None
    <3>1. Frames!GoOn(c, "error")
      BY <1>6, <2>4 DEF Frames!StepTimer
    <3>2. past.kind[c] = "stepped"
      BY <1>t, <2>1 DEF Lined
    <3> QED BY <2>1, <2>2, <3>1, <3>2, GoOnKeeps
  <2> QED BY <2>3, <2>4
<1>7. ASSUME Frames!Tick PROVE FreshInv'
  <2>1. /\ now' \in 1 .. MaxClock /\ now <= now'
        /\ UNCHANGED <<marks, pc, contract, waiters, timers, wire, game, shot, verdict, past>>
    BY <1>0, <1>7 DEF Frames!Tick
  <2> QED BY <1>0, <2>1, QuietKeeps
<1>8. CASE UNCHANGED Frames!vars
  <2>1. UNCHANGED <<now, marks, pc, contract, waiters, timers, wire, game, shot, verdict, past>>
    BY <1>8 DEF Frames!vars
  <2> QED BY <1>0, <2>1, QuietKeeps
<1>9. CASE Frames!GameShoots
  <2>1. /\ Frames!Handled("shot") /\ shot' = [shot EXCEPT ![Head(wire).call] = game.undrawn]
        /\ UNCHANGED <<now, marks, pc, contract, waiters, timers, game, verdict, past>>
    BY <1>9 DEF Frames!GameShoots
  <2>2. game.undrawn \in SUBSET Call /\ \A m \in game.undrawn : past.kind[m] \in {"mutate", "stepped"}
    BY <1>0, <1>t DEF Drawn
  <2> QED BY <1>0, <2>1, <2>2, ShootKeeps
<1>10. CASE Frames!GamePlays
  <2> DEFINE h == Head(wire).call
  <2>1. PICK missed \in {{}, game.undrawn, game.undrawn \cup {h}} :
          /\ shot' = [shot EXCEPT ![h] = missed]
          /\ game' = [game EXCEPT !.undrawn = missed \cup {h}]
    BY <1>10 DEF Frames!GamePlays
  <2>2. /\ Frames!Handled("shot") /\ past.kind[h] = "stepped"
        /\ UNCHANGED <<now, marks, pc, contract, waiters, timers, verdict, past>>
    BY <1>10 DEF Frames!GamePlays
  <2>3. h \in Call
    <3>1. wire # <<>> /\ Head(wire).to = "shot" /\ wire \in Seq(Lines)
      BY <1>t, <2>2 DEF Frames!Handled, Frames!TypeOK, Lines
    <3>2. 1 \in 1 .. Len(wire) /\ Head(wire) = wire[1]
      BY <3>1
    <3> QED BY <1>t, <3>1, <3>2 DEF Lined
  <2> HIDE DEF h
  <2>4. missed \in SUBSET Call /\ \A m \in missed : m \in game.undrawn \/ m = h
    BY <1>0, <2>1, <2>3
  <2>5. \A m \in missed : past.kind[m] \in {"mutate", "stepped"}
    BY <1>t, <2>2, <2>4 DEF Drawn
  <2>6. /\ game' \in [undrawn: SUBSET Call, answers: SUBSET Frames!StepId]
        /\ game'.undrawn = missed \cup {h}
    BY <1>0, <2>1, <2>3, <2>4
  <2>7. \A m \in game'.undrawn : /\ past.kind[m] \in {"mutate", "stepped"}
                                 /\ past.kind[m] = "mutate" => m \in game.undrawn
    BY <2>2, <2>4, <2>5, <2>6
  <2> QED BY <2>1, <2>2, <2>4, <2>5, <2>6, <2>7, ShootKeeps DEF h
<1> QED BY <1>1, <1>2, <1>3, <1>4, <1>5, <1>6, <1>7, <1>8, <1>9, <1>10, GameKeeps, JudgeKeeps
        DEF Frames!Next

(* A capture that is called fresh although its frame misses a mutation the   *)
(* proxy took note of came behind an advance that drew nothing, or an        *)
(* advance was received after it or in the millisecond of the mutation: for  *)
(* any calls, any clock and any number of requests in a millisecond.        *)
THEOREM NoWarningMeansAdvance == Frames!Spec => []StaleIsHiddenByAdvance
<1>1. Frames!Init => FreshInv
  BY FreshInit, FreshnessAssumption
<1>2. FreshInv /\ [Frames!Next]_(Frames!vars) => FreshInv'
  BY FreshNext, FreshnessAssumption
<1>3. FreshInv => StaleIsHiddenByAdvance
  BY JudgedMeans, FreshnessAssumption DEF StaleIsHiddenByAdvance
<1> QED BY <1>1, <1>2, <1>3, PTL DEF Frames!Spec
=============================================================================
