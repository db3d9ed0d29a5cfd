-------------------------- MODULE GameTimeProofs --------------------------
(* The freeze holds, every counted frame is run, nothing stays held and the  *)
(* game's wish is known, for any inputs, timelines, targets and budgets.    *)
EXTENDS GameTime, BridgeTimeline, FiniteSetTheorems, TLAPS

(* Whoever needs the bridge's _process has it; a window is a freeze.         *)
Flags ==
  /\ frozen \/ step.active \/ seq.running => processing
  /\ step.active => frozen
  /\ step.finishing => step.active
  /\ ~step.active => step.events = {}
  /\ seq.draining => seq.events = {}

(* Every event and every capture is counted once.                           *)
Sizes ==
  /\ IsFiniteSet(step.events) /\ step.fired + Cardinality(step.events) <= 2
  /\ IsFiniteSet(seq.caps) /\ seq.pending + Cardinality(seq.caps) <= 1
  /\ seq.pending = shots.own

(* A frame is owed between the bridge and the scene, and only in a window.  *)
Owing == owed = IF at = "scene" /\ step.active /\ ~paused THEN 1 ELSE 0

(* A press that is to come has a later release to come.                     *)
Paired(E) == \A p \in E : p.down => \E r \in E : ~r.down /\ r.input = p.input /\ r.at > p.at
Releases(E) == {e.input : e \in {x \in E : ~x.down}}
Pairs ==
  /\ Paired(step.events) /\ Paired(seq.events)
  /\ held \ Mouse \subseteq Releases(seq.events \cup step.events)

(* In a window the tree has what the game wishes; under the freeze the bridge *)
(* has it, except for an unpause that it has not seen yet.                  *)
Wishes ==
  /\ step.active => gamePaused = step.last
  /\ at = "scene" /\ frozen /\ ~step.active => paused
  /\ intent = "kept" =>
       /\ ~frozen \/ step.active => paused = wish
       /\ at = "scene" /\ step.active => gamePaused = wish
       /\ frozen /\ ~step.active => IF paused THEN gamePaused = wish ELSE ~wish

(* The scene has had its frame when the window is about to end.             *)
Seen ==
  /\ at # "scene" => fresh.step <= 1
  /\ step.finishing => fresh.step <= IF at = "scene" THEN 1 ELSE 0

IInv == TypeOK /\ Flags /\ Sizes /\ Owing /\ Pairs /\ Wishes /\ Seen

-----------------------------------------------------------------------------
(* Timelines and what is due of them.                                       *)

(* A timeline is two events, a press and a strictly later release.           *)
LEMMA TimelineFacts ==
  ASSUME NEW tl \in Timeline
  PROVE  tl \subseteq Event /\ IsFiniteSet(tl) /\ Cardinality(tl) <= 2 /\ Paired(tl)
<1>1. PICK i \in Input, s \in 0..MaxStart, d \in 0..1 : tl = Entry(i, s, d)
  BY DEF Timeline
<1> DEFINE p == [at |-> s, input |-> i, down |-> TRUE]
           r == [at |-> EndOf(s, d), input |-> i, down |-> FALSE]
<1>2. tl = {p, r}
  BY <1>1 DEF Entry
<1>3. s \in Nat /\ EndOf(s, d) \in 1..MaxStart + 1 /\ EndOf(s, d) > s
  BY TimeAssumption DEF EndOf, Most
<1>4. tl \subseteq Event
  BY <1>2, <1>3, TimeAssumption DEF Event
<1>5. IsFiniteSet(tl) /\ Cardinality(tl) <= 2
  <2>1. IsFiniteSet({p}) /\ Cardinality({p}) = 1
    BY FS_Singleton
  <2> HIDE DEF p, r
  <2>2. /\ IsFiniteSet({p} \cup {r})
        /\ Cardinality({p} \cup {r}) = Cardinality({p}) \/ Cardinality({p} \cup {r}) = Cardinality({p}) + 1
    BY <2>1, FS_AddElement, Zenon
  <2>3. Cardinality({p} \cup {r}) <= 2
    BY <2>1, <2>2
  <2>4. tl = {p} \cup {r}
    BY <1>2
  <2> QED
    BY <2>2, <2>3, <2>4
<1>6. Paired(tl)
  BY <1>2, <1>3 DEF Paired
<1> QED
  BY <1>4, <1>5, <1>6

(* What is due leaves the timeline.                                          *)
LEMMA DueLeaves ==
  ASSUME NEW E, NEW D, D \subseteq E, IsFiniteSet(E)
  PROVE  /\ IsFiniteSet(E \ D) /\ IsFiniteSet(D)
         /\ Cardinality(E \ D) \in Nat /\ Cardinality(D) \in Nat /\ Cardinality(E) \in Nat
         /\ Cardinality(E \ D) + Cardinality(D) = Cardinality(E)
<1>1. IsFiniteSet(D) /\ IsFiniteSet(E \ D)
  BY FS_Subset, E \ D \subseteq E
<1>2. Cardinality(E \ D) = Cardinality(E) - Cardinality(E \cap D)
  BY FS_Difference
<1>3. E \cap D = D
  OBVIOUS
<1>4. Cardinality(E \ D) \in Nat /\ Cardinality(D) \in Nat /\ Cardinality(E) \in Nat
  BY <1>1, FS_CardinalityType
<1>5. Cardinality(E \ D) = Cardinality(E) - Cardinality(D)
  BY <1>2, <1>3
<1> QED
  BY <1>1, <1>4, <1>5

(* What is held after an injection has its release still in the timeline, or  *)
(* where it had it before.                                                 *)
LEMMA HeldHasRelease ==
  ASSUME NEW E \in SUBSET Event, NEW F \in SUBSET Event, NEW h, NEW t \in Int,
         Paired(E), h \ Mouse \subseteq Releases(E \cup F)
  PROVE  /\ HeldAfter(h, DueBy(E, t)) \ Mouse \subseteq Releases((E \ DueBy(E, t)) \cup F)
         /\ Paired(E \ DueBy(E, t))
<1> DEFINE D == DueBy(E, t)
<1>1. \A e \in E : e.at \in Int /\ (e \in D <=> e.at <= t)
  BY TimeAssumption DEF Event, DueBy
<1>2. Paired(E \ D)
  BY <1>1 DEF Paired
<1>3. ASSUME NEW i \in HeldAfter(h, D) \ Mouse
      PROVE  i \in Releases((E \ D) \cup F)
  <2>1. CASE i \in h /\ {e \in D : e.input = i /\ ~e.down} = {}
    BY <2>1 DEF Releases
  <2>2. CASE \E p \in {e \in D : e.input = i /\ e.down} :
               \A r \in {e \in D : e.input = i /\ ~e.down} : r.at <= p.at
    <3>1. PICK p \in D : /\ p.input = i /\ p.down
                         /\ \A r \in D : r.input = i /\ ~r.down => r.at <= p.at
      BY <2>2
    <3>2. PICK r \in E : ~r.down /\ r.input = i /\ r.at > p.at
      BY <3>1 DEF Paired, DueBy
    <3>3. r \notin D
      BY <3>1, <3>2, <1>1 DEF DueBy
    <3> QED
      BY <3>2, <3>3 DEF Releases
  <2> QED
    BY <1>3, <2>1, <2>2 DEF HeldAfter
<1> QED
  BY <1>2, <1>3

(* _sequence_process, whatever the clock left held: the sequence stays well   *)
(* formed and ends only when no capture is missing.                        *)
SequenceKept(h, G) ==
  /\ seq' \in SeqType /\ shots' \in [own : 0..1, stale : 0..1]
  /\ IsFiniteSet(seq'.caps) /\ seq'.pending + Cardinality(seq'.caps) <= 1
  /\ seq'.pending = shots'.own
  /\ Paired(seq'.events) /\ (seq'.draining => seq'.events = {})
  /\ held' \subseteq Input /\ held' \ Mouse \subseteq Releases(seq'.events \cup G)
  /\ seq'.running => seq.running
  /\ seq.running /\ ~seq'.running => shots'.own = 0

LEMMA EmitFacts ==
  ASSUME NEW s \in SeqType, s.events = {}, EmitOrWait(s),
         IsFiniteSet(s.caps), s.pending + Cardinality(s.caps) <= 1
  PROVE  /\ seq' \in SeqType /\ seq'.pending = s.pending /\ seq'.events = {}
         /\ IsFiniteSet(seq'.caps) /\ seq'.pending + Cardinality(seq'.caps) <= 1
         /\ seq' = s \/ (~seq'.running /\ seq'.pending = 0)
<1>1. CASE ~MayEmit(s)
  BY <1>1 DEF EmitOrWait
<1>2. CASE MayEmit(s)
  <2>1. seq' = [NoSequence EXCEPT !.pending = s.pending] /\ s.pending = 0
    BY <1>2 DEF EmitOrWait, MayEmit
  <2>2. seq' = NoSequence
    <3>1. NoSequence = [NoSequence EXCEPT !.pending = 0]
      BY DEF NoSequence
    <3> QED
      BY <2>1, <3>1
  <2>3. /\ NoSequence \in SeqType /\ NoSequence.pending = 0 /\ NoSequence.events = {}
        /\ NoSequence.caps = {} /\ ~NoSequence.running
    BY TimeAssumption DEF NoSequence, SeqType
  <2> QED
    BY <2>1, <2>2, <2>3, FS_EmptySet
<1> QED
  BY <1>1, <1>2

LEMMA SequenceFacts ==
  ASSUME TypeOK, Flags, Sizes, Paired(seq.events),
         NEW h \in SUBSET Input, NEW G \in SUBSET Event,
         h \ Mouse \subseteq Releases(seq.events \cup G),
         SequenceProcess(h)
  PROVE  SequenceKept(h, G)
<1>0. /\ seq \in SeqType /\ shots \in [own : 0..1, stale : 0..1]
      /\ IsFiniteSet(seq.caps) /\ seq.pending + Cardinality(seq.caps) <= 1
      /\ seq.pending = shots.own /\ (seq.draining => seq.events = {})
  BY DEF TypeOK, Sizes, Flags
<1>e. Paired({})
  BY DEF Paired
<1>1. CASE ~seq.running /\ held' = h /\ UNCHANGED <<seq, shots>>
  BY <1>0, <1>1 DEF SequenceKept
<1>2. CASE /\ seq.running /\ seq.draining /\ held' = h /\ UNCHANGED shots
           /\ EmitOrWait([seq EXCEPT !.settle = Most(@ - 1, 0)])
  <2> DEFINE s == [seq EXCEPT !.settle = Most(@ - 1, 0)]
  <2>1. /\ s \in SeqType /\ s.events = {} /\ s.pending = seq.pending /\ s.caps = seq.caps
        /\ s.running /\ s.draining
    BY <1>0, <1>2 DEF SeqType, Most
  <2> HIDE DEF s
  <2>2. /\ seq' \in SeqType /\ seq'.pending = s.pending /\ seq'.events = {}
        /\ IsFiniteSet(seq'.caps) /\ seq'.pending + Cardinality(seq'.caps) <= 1
        /\ seq' = s \/ (~seq'.running /\ seq'.pending = 0)
    BY <2>1, <1>0, <1>2, EmitFacts DEF s
  <2> QED
    BY <2>1, <2>2, <1>0, <1>2, <1>e DEF SequenceKept
<1>3. ASSUME seq.running, ~seq.draining, NEW d \in 1..2,
             TimelineFrame(h, Least(seq.clock + d, Horizon + 1))
      PROVE  SequenceKept(h, G)
  <2> DEFINE clock == Least(seq.clock + d, Horizon + 1)
             due   == DueBy(seq.events, clock - 1)
             taken == {c \in seq.caps : c <= clock - 1}
             s == [seq EXCEPT !.clock = clock, !.events = @ \ due, !.caps = @ \ taken,
                     !.pending = @ + Cardinality(taken)]
  <2>1. clock \in 0..Horizon + 1
    BY <1>0, TimeAssumption DEF SeqType, Least
  <2>2. /\ IsFiniteSet(seq.caps \ taken) /\ Cardinality(seq.caps \ taken) \in Nat
        /\ Cardinality(taken) \in Nat
        /\ Cardinality(seq.caps \ taken) + Cardinality(taken) = Cardinality(seq.caps)
    BY <1>0, DueLeaves
  <2>3. /\ HeldAfter(h, due) \ Mouse \subseteq Releases((seq.events \ due) \cup G)
        /\ Paired(seq.events \ due) /\ HeldAfter(h, due) \subseteq Input
    <3>1. clock - 1 \in Int /\ seq.events \in SUBSET Event
      BY <2>1, <1>0, TimeAssumption DEF SeqType
    <3> HIDE DEF clock
    <3>2. HeldAfter(h, due) \subseteq Input
      BY DEF HeldAfter
    <3> QED
      BY <3>1, <3>2, HeldHasRelease
  <2> HIDE DEF clock, due, taken
  <2>4. /\ s \in SeqType /\ s.events = seq.events \ due /\ s.caps = seq.caps \ taken
        /\ s.pending = seq.pending + Cardinality(taken) /\ s.running /\ ~s.draining
        /\ IsFiniteSet(s.caps) /\ s.pending + Cardinality(s.caps) <= 1
    <3>1. /\ seq.pending + Cardinality(taken) \in 0..1 /\ seq.events \ due \in SUBSET Event
          /\ seq.caps \ taken \in SUBSET {0} /\ seq.pending \in Nat
      BY <1>0, <2>2 DEF SeqType
    <3>2. s \in SeqType
      BY <3>1, <1>0, <2>1 DEF SeqType
    <3>3. /\ s.events = seq.events \ due /\ s.caps = seq.caps \ taken
          /\ s.pending = seq.pending + Cardinality(taken) /\ s.running /\ ~s.draining
      BY <1>0, <1>3 DEF SeqType
    <3> HIDE DEF s
    <3> QED
      BY <3>1, <3>2, <3>3, <1>0, <2>2
  <2>5. /\ held' = HeldAfter(h, due)
        /\ shots' = [shots EXCEPT !.own = @ + Cardinality(taken)]
        /\ IF s.events # {} \/ s.caps # {} THEN seq' = s
           ELSE IF s.probe THEN seq' = [s EXCEPT !.draining = TRUE, !.settle = SettleFrames]
           ELSE EmitOrWait([s EXCEPT !.draining = TRUE])
    BY <1>3 DEF TimelineFrame, clock, due, taken
  <2>6. shots' \in [own : 0..1, stale : 0..1] /\ shots'.own = s.pending
    BY <2>4, <2>5, <1>0, <2>2 DEF SeqType
  <2> HIDE DEF s
  <2>7. CASE s.events # {} \/ s.caps # {}
    BY <2>3, <2>4, <2>5, <2>6, <2>7, <1>3 DEF SequenceKept
  <2>8. CASE s.events = {} /\ s.caps = {} /\ s.probe
    <3>1. seq' = [s EXCEPT !.draining = TRUE, !.settle = SettleFrames]
      BY <2>5, <2>8
    <3>2. /\ seq' \in SeqType /\ seq'.events = s.events /\ seq'.caps = s.caps
          /\ seq'.pending = s.pending /\ seq'.running
      <4> DEFINE u == [s EXCEPT !.draining = TRUE]
      <4>1. seq' = [u EXCEPT !.settle = 2]
        BY <3>1 DEF SettleFrames
      <4>2. /\ u \in SeqType /\ u.events = s.events /\ u.caps = s.caps
            /\ u.pending = s.pending /\ u.running
        BY <2>4 DEF SeqType
      <4> HIDE DEF u
      <4> QED
        BY <4>1, <4>2 DEF SeqType
    <3> QED
      BY <3>2, <2>3, <2>4, <2>5, <2>6, <2>8, <1>3 DEF SequenceKept
  <2>9. CASE s.events = {} /\ s.caps = {} /\ ~s.probe
    <3> DEFINE t == [s EXCEPT !.draining = TRUE]
    <3>1. /\ t \in SeqType /\ t.events = {} /\ t.caps = s.caps
          /\ t.pending = s.pending /\ t.running
      BY <2>4, <2>9 DEF SeqType
    <3>2. EmitOrWait(t)
      BY <2>5, <2>9
    <3> HIDE DEF t
    <3>3. /\ seq' \in SeqType /\ seq'.pending = t.pending /\ seq'.events = {}
          /\ IsFiniteSet(seq'.caps) /\ seq'.pending + Cardinality(seq'.caps) <= 1
          /\ seq' = t \/ (~seq'.running /\ seq'.pending = 0)
      BY <3>1, <3>2, <2>4, EmitFacts
    <3>4. held' \ Mouse \subseteq Releases(seq'.events \cup G)
      BY <3>3, <2>3, <2>4, <2>5, <2>9
    <3> QED
      BY <3>1, <3>3, <3>4, <2>3, <2>5, <2>6, <1>3, <1>e DEF SequenceKept
  <2> QED
    BY <2>7, <2>8, <2>9
<1> QED
  BY <1>1, <1>2, <1>3 DEF SequenceProcess

-----------------------------------------------------------------------------
(* The invariant holds at the start and is kept by every action.             *)

(* A game that is launched, frozen or not, satisfies the invariant.          *)
LEMMA InitInv == Init => IInv
<1> SUFFICES ASSUME Init PROVE IInv
  OBVIOUS
<1>1. step \in StepType
  BY TimeAssumption DEF Init, NoStep, StepType, FrameCap
<1>2. seq \in SeqType
  BY TimeAssumption DEF Init, NoSequence, SeqType
<1>0. /\ at = "poll" /\ frozen \in BOOLEAN /\ paused = frozen /\ processing
      /\ ~gamePaused /\ ~wish /\ intent = "kept" /\ held = {} /\ owed = 0
      /\ gamePaused \in BOOLEAN /\ wish \in BOOLEAN /\ processing \in BOOLEAN
      /\ shots = [own |-> 0, stale |-> 0] /\ fresh = [step |-> 0, seq |-> 0]
  BY DEF Init
<1>3. TypeOK
  <2>1. paused \in BOOLEAN
    BY <1>0
  <2> QED
    BY <1>0, <1>1, <1>2, <2>1 DEF TypeOK
<1>4. Flags
  BY DEF Init, Flags, NoStep, NoSequence
<1>5. Sizes
  BY FS_EmptySet DEF Init, Sizes, NoStep, NoSequence
<1>6. Pairs
  BY DEF Init, Pairs, Paired, NoStep, NoSequence
<1>7. ~step.active /\ ~step.finishing
  BY DEF Init, NoStep
<1>8. Owing /\ Wishes /\ Seen
  BY <1>0, <1>3, <1>7 DEF TypeOK, Owing, Wishes, Seen
<1> QED
  BY <1>3, <1>8, <1>4, <1>5, <1>6, <1>7 DEF IInv

(* Freezing and thawing carry the game's wish over.                          *)
LEMMA FreezeThawInv == IInv /\ (Freeze \/ Thaw) => IInv'
<1> SUFFICES ASSUME IInv, Freeze \/ Thaw PROVE IInv'
  OBVIOUS
<1>0. /\ UNCHANGED <<at, step, seq, held, shots, wish, owed, fresh>>
      /\ at = "poll" /\ ~step.active
  BY DEF Freeze, Thaw
<1>1. TypeOK'
  BY <1>0 DEF IInv, TypeOK, Freeze, Thaw, WishAtFreeze, IntentOverwritten, SeqType
<1>2. Flags'
  BY <1>0 DEF IInv, Flags, Freeze, Thaw
<1>3. Sizes' /\ Owing' /\ Pairs' /\ Seen'
  BY <1>0 DEF IInv, Sizes, Owing, Pairs, Seen
<1>4. Wishes'
  BY <1>0 DEF IInv, TypeOK, Wishes, Freeze, Thaw, WishAtFreeze, IntentOverwritten
<1> QED
  BY <1>1, <1>2, <1>3, <1>4 DEF IInv

(* A window opens with the wish of the game and a timeline of its own.       *)
LEMMA WindowInv ==
  ASSUME IInv, NEW until \in BOOLEAN, NEW byFrames \in BOOLEAN, NEW target \in Target,
         NEW events \in Timeline \cup {{}}, OpenWindow(until, byFrames, target, events)
  PROVE  IInv'
<1>0. /\ UNCHANGED <<at, seq, held, shots, wish, owed>>
      /\ at = "poll" /\ ~step.active /\ frozen' /\ processing'
      /\ paused' = gamePaused' /\ gamePaused' = WishAtFreeze
      /\ intent' = IntentOverwritten
  BY DEF OpenWindow
<1>1. /\ events \in SUBSET Event /\ IsFiniteSet(events) /\ Cardinality(events) <= 2
      /\ Cardinality(events) \in Nat /\ Paired(events)
  <2>1. CASE events = {}
    BY <2>1, FS_EmptySet DEF Paired
  <2>2. CASE events \in Timeline
    BY <2>2, TimelineFacts, FS_CardinalityType
  <2> QED
    BY <2>1, <2>2
<1>2. gamePaused' \in BOOLEAN /\ paused' \in BOOLEAN
  BY <1>0 DEF IInv, TypeOK, WishAtFreeze
<1>3. /\ step'.active /\ ~step'.finishing /\ step'.last = paused'
      /\ step'.events = events /\ step'.fired = 0
  BY DEF OpenWindow, NoStep
<1>4. step' \in StepType
  <2>1. step' = [active |-> TRUE, finishing |-> FALSE, settle |-> FALSE,
                 until |-> until, byFrames |-> byFrames, cut |-> FALSE, last |-> paused',
                 target |-> target, fired |-> 0, frames |-> 0, elapsed |-> 0,
                 events |-> events]
    BY DEF OpenWindow, NoStep
  <2> QED
    BY <2>1, <1>1, <1>2, TimeAssumption DEF StepType, FrameCap
<1>5. fresh' \in [step : 0..2, seq : 0..2] /\ fresh'.step = 0
  BY DEF IInv, TypeOK, OpenWindow
<1>6. TypeOK'
  BY <1>0, <1>2, <1>4, <1>5 DEF IInv, TypeOK, SeqType, IntentOverwritten, OpenWindow
<1>7. Flags'
  BY <1>0, <1>3 DEF IInv, Flags
<1>8. Sizes'
  BY <1>0, <1>1, <1>3 DEF IInv, Sizes
<1>9. Owing' /\ Seen'
  BY <1>0, <1>3, <1>5 DEF IInv, Owing, Seen
<1>10. Pairs'
  BY <1>0, <1>1, <1>3 DEF IInv, Pairs, Flags, Releases
<1>11. Wishes'
  BY <1>0, <1>2, <1>3 DEF IInv, TypeOK, Wishes, WishAtFreeze, IntentOverwritten
<1> QED
  BY <1>6, <1>7, <1>8, <1>9, <1>10, <1>11 DEF IInv

(* A new sequence lets go of what the old one held.                          *)
LEMMA ExecuteInv == IInv /\ ExecuteInputSequence => IInv'
<1> SUFFICES ASSUME IInv, ExecuteInputSequence PROVE IInv'
  OBVIOUS
<1>0. /\ UNCHANGED <<at, paused, frozen, gamePaused, step, wish, intent, owed>>
      /\ at = "poll" /\ held' = ReleaseHeld(held)
      /\ shots' = [own |-> 0, stale |-> Least(shots.own + shots.stale, 1)]
      /\ fresh' = [fresh EXCEPT !.seq = 0]
  BY DEF ExecuteInputSequence
<1>1. /\ seq' \in SeqType /\ IsFiniteSet(seq'.caps) /\ Cardinality(seq'.caps) <= 1
      /\ seq'.pending = 0 /\ Paired(seq'.events) /\ ~seq'.draining
      /\ processing' \in BOOLEAN /\ (processing => processing')
      /\ (seq'.running => processing')
  <2>1. CASE /\ \E events \in Timeline, caps \in {{}, {0}}, probe \in BOOLEAN :
                  seq' = [NoSequence EXCEPT !.running = TRUE, !.events = events,
                                            !.caps = caps, !.probe = probe]
             /\ processing' = TRUE
    <3>1. PICK events \in Timeline, caps \in {{}, {0}}, probe \in BOOLEAN :
                  seq' = [NoSequence EXCEPT !.running = TRUE, !.events = events,
                                            !.caps = caps, !.probe = probe]
      BY <2>1
    <3>2. events \in SUBSET Event /\ Paired(events)
      BY TimelineFacts
    <3>3. caps \in SUBSET {0} /\ IsFiniteSet(caps) /\ Cardinality(caps) <= 1
      <4>1. IsFiniteSet({0}) /\ Cardinality({0}) = 1
        BY FS_Singleton, Zenon
      <4>2. IsFiniteSet({}) /\ Cardinality({}) = 0
        BY FS_EmptySet, Zenon
      <4> QED
        BY <4>1, <4>2
    <3>4. /\ seq'.events = events /\ seq'.caps = caps /\ seq'.pending = 0
          /\ ~seq'.draining
      BY <3>1 DEF NoSequence
    <3>5. seq' \in SeqType
      <4>1. seq' = [running |-> TRUE, draining |-> FALSE, probe |-> probe, settle |-> 0,
                    clock |-> 0, pending |-> 0, events |-> events, caps |-> caps]
        BY <3>1 DEF NoSequence
      <4> QED
        BY <4>1, <3>2, <3>3, TimeAssumption DEF SeqType
    <3> QED
      BY <2>1, <3>2, <3>3, <3>4, <3>5
  <2>2. CASE /\ seq' = [NoSequence EXCEPT !.running = seq.running, !.clock = seq.clock]
             /\ UNCHANGED processing
    <3>1. seq.running \in BOOLEAN /\ seq.clock \in 0..Horizon + 1
      BY DEF IInv, TypeOK, SeqType
    <3>2. /\ seq'.events = {} /\ seq'.caps = {} /\ seq'.pending = 0
          /\ ~seq'.draining /\ seq'.running = seq.running
      BY <2>2 DEF NoSequence
    <3>3. seq' \in SeqType
      <4>1. seq' = [running |-> seq.running, draining |-> FALSE, probe |-> FALSE,
                    settle |-> 0, clock |-> seq.clock, pending |-> 0, events |-> {},
                    caps |-> {}]
        BY <2>2 DEF NoSequence
      <4> QED
        BY <4>1, <3>1 DEF SeqType
    <3> QED
      BY <2>2, <3>2, <3>3, FS_EmptySet DEF IInv, TypeOK, Flags, Paired
  <2> QED
    BY <2>1, <2>2 DEF ExecuteInputSequence
<1>2. held' \subseteq Input /\ held' \ Mouse = {}
  BY <1>0 DEF IInv, TypeOK, ReleaseHeld
<1>3. shots' \in [own : 0..1, stale : 0..1] /\ shots'.own = 0
  BY <1>0 DEF IInv, TypeOK, Least
<1>4. fresh' \in [step : 0..2, seq : 0..2] /\ fresh'.step = fresh.step
  BY <1>0 DEF IInv, TypeOK
<1>5. TypeOK'
  BY <1>0, <1>1, <1>2, <1>3, <1>4 DEF IInv, TypeOK, StepType
<1>6. Flags'
  BY <1>0, <1>1 DEF IInv, Flags
<1>7. Sizes'
  <2>1. Cardinality(seq'.caps) \in Nat
    BY <1>1, FS_CardinalityType
  <2> QED
    BY <2>1, <1>0, <1>1, <1>3 DEF IInv, Sizes
<1>8. Owing' /\ Seen' /\ Pairs' /\ Wishes'
  BY <1>0, <1>1, <1>2, <1>4 DEF IInv, Owing, Seen, Pairs, Wishes
<1> QED
  BY <1>5, <1>6, <1>7, <1>8 DEF IInv

(* Whatever the game writes, the bridge knows it or the record says why not. *)
LEMMA GameCodeFacts ==
  ASSUME TypeOK, Wishes, GameCode, UNCHANGED <<frozen, gamePaused, step>>, at' # "scene"
  PROVE  /\ paused' \in BOOLEAN /\ wish' \in BOOLEAN
         /\ intent' \in {"kept", "masked", "lost"} /\ Wishes'
<1>1. CASE UNCHANGED <<paused, wish, intent>>
  BY <1>1 DEF TypeOK, Wishes
<1>2. ASSUME NEW w \in BOOLEAN, GameWrites(w)
      PROVE  /\ paused' \in BOOLEAN /\ wish' \in BOOLEAN
             /\ intent' \in {"kept", "masked", "lost"} /\ Wishes'
  <2>1. paused' = w /\ wish' = w
    BY <1>2 DEF GameWrites
  <2>2. intent' = IF frozen /\ ~step.active /\ w /\ ~gamePaused THEN "masked" ELSE "kept"
    BY <1>2 DEF GameWrites
  <2>3. intent' \in {"kept", "masked", "lost"}
    BY <2>2
  <2>4. Wishes'
    BY <2>1, <2>2 DEF TypeOK, Wishes
  <2> QED
    BY <2>1, <2>3, <2>4
<1> QED
  BY <1>1, <1>2 DEF GameCode

LEMMA TopInv == IInv /\ TopOfFrame => IInv'
<1> SUFFICES ASSUME IInv, TopOfFrame PROVE IInv'
  OBVIOUS
<1>0. /\ at = "poll" /\ at' = "bridge" /\ GameCode
      /\ UNCHANGED <<frozen, gamePaused, processing, step, seq, held, shots, owed, fresh>>
  BY DEF TopOfFrame
<1>1. /\ paused' \in BOOLEAN /\ wish' \in BOOLEAN
      /\ intent' \in {"kept", "masked", "lost"} /\ Wishes'
  BY <1>0, GameCodeFacts DEF IInv
<1>2. TypeOK'
  BY <1>0, <1>1 DEF IInv, TypeOK, StepType, SeqType
<1>3. Flags' /\ Sizes' /\ Pairs' /\ Owing' /\ Seen'
  BY <1>0 DEF IInv, Flags, Sizes, Pairs, Owing, Seen
<1> QED
  BY <1>1, <1>2, <1>3 DEF IInv

(* The scene runs the frame that is owed, and sees the last event.           *)
LEMMA SceneInv == ASSUME IInv, NEW drawn \in BOOLEAN, Scene(drawn) PROVE IInv'
<1>0. /\ at = "scene" /\ at' = "poll" /\ GameCode
      /\ UNCHANGED <<frozen, gamePaused, processing, step, held>>
      /\ owed' = IF step.active /\ ~paused THEN owed - 1 ELSE owed
      /\ fresh' = [step |-> Most(fresh.step - 1, 0), seq |-> Most(fresh.seq - 1, 0)]
  BY DEF Scene
<1>1. /\ paused' \in BOOLEAN /\ wish' \in BOOLEAN
      /\ intent' \in {"kept", "masked", "lost"} /\ Wishes'
  BY <1>0, GameCodeFacts DEF IInv
<1>2. owed' = 0 /\ Owing'
  BY <1>0 DEF IInv, Owing
<1>3. /\ fresh' \in [step : 0..2, seq : 0..2] /\ fresh'.step <= 1
      /\ step.finishing => fresh'.step <= 0
  BY <1>0 DEF IInv, TypeOK, Seen, Most
<1>4. /\ seq' \in SeqType /\ shots' \in [own : 0..1, stale : 0..1]
      /\ seq'.pending = shots'.own /\ seq'.pending <= seq.pending
      /\ seq'.caps = seq.caps /\ seq'.events = seq.events
      /\ seq'.running = seq.running /\ seq'.draining = seq.draining
  <2>1. CASE UNCHANGED <<shots, seq>>
    BY <2>1 DEF IInv, TypeOK, Sizes, SeqType
  <2>2. CASE /\ shots' = [own |-> 0, stale |-> 0]
             /\ seq' = [seq EXCEPT !.pending = SlotsLeft(shots.own + shots.stale)]
    <3>1. SlotsLeft(shots.own + shots.stale) = 0 /\ seq.pending \in Nat
      BY DEF IInv, TypeOK, Sizes, SeqType, SlotsLeft, Most
    <3> QED
      BY <2>2, <3>1 DEF IInv, TypeOK, SeqType
  <2> QED
    BY <2>1, <2>2 DEF Scene
<1>5. TypeOK'
  BY <1>0, <1>1, <1>2, <1>3, <1>4 DEF IInv, TypeOK, StepType
<1>6. Flags' /\ Pairs' /\ Seen'
  BY <1>0, <1>3, <1>4 DEF IInv, Flags, Pairs, Seen
<1>7. Sizes'
  <2>1. Cardinality(seq.caps) \in Nat /\ seq.pending \in Nat /\ seq'.pending \in Nat
    BY <1>4, FS_CardinalityType DEF IInv, Sizes, TypeOK, SeqType
  <2> QED
    BY <2>1, <1>0, <1>4 DEF IInv, Sizes
<1> QED
  BY <1>1, <1>2, <1>5, <1>6, <1>7 DEF IInv

(* A frame of the window: what is due of its timeline is injected, and the    *)
(* window does not end while an event has not had its frame.               *)
LEMMA WindowFacts ==
  ASSUME IInv, NEW d \in 0..2, WindowFrame(d)
  PROVE  /\ step' \in StepType /\ IsFiniteSet(step'.events)
         /\ step'.fired + Cardinality(step'.events) <= 2
         /\ step'.active /\ step.active /\ ~step.finishing
         /\ step'.last = paused /\ UNCHANGED <<paused, intent>>
         /\ gamePaused' = IF paused # step.last THEN paused ELSE gamePaused
         /\ step'.finishing => step'.fired = step.fired
         /\ Paired(step'.events)
         /\ \E h \in SUBSET Input :
              /\ SequenceProcess(h)
              /\ h \ Mouse \subseteq Releases(seq.events \cup step'.events)
<1> DEFINE due == DueBy(step.events, Least(step.elapsed + d, Horizon))
           s == [step EXCEPT !.last = paused, !.frames = Least(@ + 1, FrameCap),
                   !.elapsed = Least(@ + d, Horizon),
                   !.events = @ \ due, !.fired = @ + Cardinality(due),
                   !.settle = @ \/ due # {}]
<1>1. /\ step \in StepType /\ paused \in BOOLEAN /\ IsFiniteSet(step.events)
      /\ step.fired + Cardinality(step.events) <= 2 /\ step.fired \in 0..2
      /\ step.elapsed \in 0..Horizon /\ step.frames \in 0..FrameCap
      /\ step.events \in SUBSET Event
  BY DEF IInv, TypeOK, Sizes, StepType
<1>2. PICK met \in {step.until, FALSE}, late \in OverBudget(s) :
        step' = IF Reached(s) \/ met \/ late
                THEN EndOfWindow([s EXCEPT !.cut = @ \/ met \/ late])
                ELSE [s EXCEPT !.cut = @ \/ met \/ late]
  BY DEF WindowFrame
<1>3. /\ step.active /\ ~step.finishing /\ UNCHANGED <<paused, intent>>
      /\ gamePaused' = IF paused # step.last THEN paused ELSE gamePaused
      /\ SequenceProcess(HeldAfter(held, due))
  BY DEF WindowFrame
<1>4. /\ due \subseteq step.events /\ IsFiniteSet(step.events \ due)
      /\ Cardinality(step.events \ due) \in Nat /\ Cardinality(due) \in Nat
      /\ Cardinality(step.events \ due) + Cardinality(due) = Cardinality(step.events)
  <2>1. due \subseteq step.events
    BY DEF DueBy
  <2> QED
    BY <2>1, <1>1, DueLeaves
<1>5. due = {} => Cardinality(due) = 0
  BY FS_EmptySet
<1>6. /\ HeldAfter(held, due) \in SUBSET Input
      /\ HeldAfter(held, due) \ Mouse \subseteq Releases((step.events \ due) \cup seq.events)
      /\ Paired(step.events \ due)
  <2>1. Least(step.elapsed + d, Horizon) \in Int
    BY <1>1, TimeAssumption DEF Least
  <2>2. /\ Paired(step.events) /\ held \ Mouse \subseteq Releases(step.events \cup seq.events)
        /\ seq.events \in SUBSET Event
    BY DEF IInv, Pairs, Releases, TypeOK, SeqType
  <2>3. HeldAfter(held, due) \in SUBSET Input
    BY DEF HeldAfter
  <2> QED
    BY <2>1, <2>2, <2>3, <1>1, HeldHasRelease
<1>7. /\ Least(step.elapsed + d, Horizon) \in 0..Horizon
      /\ Least(step.frames + 1, FrameCap) \in 0..FrameCap
      /\ step.fired + Cardinality(due) \in 0..2
  BY <1>1, <1>4, TimeAssumption DEF Least, FrameCap
<1> HIDE DEF due
<1>8. /\ s.active /\ s.last = paused /\ s.events = step.events \ due
      /\ s.fired = step.fired + Cardinality(due) /\ ~s.finishing
      /\ s.settle \in BOOLEAN /\ (~s.settle => due = {})
  BY <1>1, <1>3 DEF StepType
<1>9. s \in StepType
  BY <1>1, <1>7 DEF StepType
<1> HIDE DEF s
<1> DEFINE t == [s EXCEPT !.cut = @ \/ met \/ late]
<1>10. /\ t \in StepType /\ t.active /\ t.last = paused /\ t.events = s.events
       /\ t.fired = s.fired /\ ~t.finishing /\ t.settle = s.settle
  <2>1. met \in BOOLEAN /\ late \in BOOLEAN
    BY <1>1 DEF StepType, OverBudget
  <2> QED
    BY <2>1, <1>8, <1>9 DEF StepType
<1>11. step' = t \/ step' = EndOfWindow(t)
  BY <1>2
<1> HIDE DEF t
<1>12. /\ step' \in StepType /\ step'.active /\ step'.last = paused
       /\ step'.events = t.events /\ step'.fired = t.fired
       /\ step'.finishing => ~t.settle
  BY <1>10, <1>11 DEF EndOfWindow, StepType
<1>13. SequenceProcess(HeldAfter(held, due))
  BY <1>3
<1> QED
  <2>1. /\ step'.fired + Cardinality(step'.events) <= 2 /\ IsFiniteSet(step'.events)
        /\ step'.finishing => step'.fired = step.fired
        /\ Paired(step'.events)
    BY <1>12, <1>10, <1>8, <1>5, <1>4, <1>1, <1>6
  <2>2. HeldAfter(held, due) \ Mouse \subseteq Releases(seq.events \cup step'.events)
    BY <1>6, <1>12, <1>10, <1>8 DEF Releases
  <2> QED
    BY <2>1, <2>2, <1>3, <1>6, <1>12, <1>13

(* What each way through the bridge's _process does.                         *)
BridgeKept ==
  /\ paused' \in BOOLEAN /\ gamePaused' \in BOOLEAN
  /\ intent' \in {"kept", "masked", "lost"}
  /\ step' \in StepType /\ IsFiniteSet(step'.events)
  /\ step'.fired + Cardinality(step'.events) <= 2
  /\ Paired(step'.events) /\ (~step'.active => step'.events = {})
  /\ step'.active => frozen
  /\ step'.finishing => step'.active /\ step'.fired = step.fired
  /\ Wishes' /\ Owing'
  /\ \E h : SequenceKept(h, step'.events)

LEMMA BridgeFacts == IInv /\ Bridge => BridgeKept
<1> SUFFICES ASSUME IInv, Bridge PROVE BridgeKept
  OBVIOUS
<1>0. /\ at = "bridge" /\ at' = "scene" /\ UNCHANGED <<frozen, wish>>
      /\ owed' = IF step.active /\ ~step.finishing /\ ~paused THEN owed + 1 ELSE owed
  BY DEF Bridge
<1>1. /\ owed = 0 /\ step.events \in SUBSET Event /\ seq.events \in SUBSET Event
      /\ held \in SUBSET Input /\ paused \in BOOLEAN /\ gamePaused \in BOOLEAN
      /\ step \in StepType /\ seq \in SeqType
      /\ intent \in {"kept", "masked", "lost"} /\ wish \in BOOLEAN
      /\ TypeOK /\ Flags /\ Sizes /\ Paired(seq.events) /\ Paired(step.events)
      /\ held \ Mouse \subseteq Releases(seq.events \cup step.events)
  BY <1>0 DEF IInv, TypeOK, Owing, Pairs, StepType, SeqType
<1>2. CASE Watch
  <2>1. SequenceKept(held, step.events)
    BY <1>1, <1>2, SequenceFacts DEF Watch
  <2>2. /\ frozen /\ ~step.active /\ gamePaused' = (gamePaused /\ paused)
        /\ paused' = TRUE /\ UNCHANGED <<step, intent>>
    BY <1>2 DEF Watch, Watched
  <2>3. Wishes'
    BY <1>0, <1>1, <2>2 DEF IInv, Wishes
  <2>4. Owing'
    BY <1>0, <1>1, <2>2 DEF Owing
  <2> QED
    BY <1>0, <1>1, <2>1, <2>2, <2>3, <2>4 DEF BridgeKept, Flags, Sizes
<1>3. CASE FinishStep
  <2>1. /\ step.active /\ step.finishing /\ step' = NoStep /\ paused' = TRUE
        /\ intent' = IF paused # step.last THEN "lost" ELSE intent
        /\ UNCHANGED gamePaused /\ SequenceProcess(ReleaseHeld(held))
    BY <1>3 DEF FinishStep
  <2>2. /\ ~step'.active /\ ~step'.finishing /\ step'.events = {} /\ step'.fired = 0
        /\ step' \in StepType
    <3>1. NoStep \in StepType
      BY TimeAssumption DEF NoStep, StepType, FrameCap
    <3> QED
      BY <2>1, <3>1 DEF NoStep
  <2>3. ReleaseHeld(held) \in SUBSET Input /\ ReleaseHeld(held) \ Mouse = {}
    BY <1>1 DEF ReleaseHeld
  <2>4. SequenceKept(ReleaseHeld(held), step'.events)
    BY <1>1, <2>1, <2>2, <2>3, SequenceFacts
  <2>5. Wishes'
    BY <1>0, <1>1, <2>1, <2>2 DEF IInv, Wishes, Flags
  <2>6. Owing'
    BY <1>0, <1>1, <2>1, <2>2 DEF Owing
  <2>7. /\ IsFiniteSet({}) /\ Cardinality({}) = 0 /\ Paired({})
    BY FS_EmptySet DEF Paired
  <2> QED
    BY <1>1, <2>1, <2>2, <2>4, <2>5, <2>6, <2>7 DEF BridgeKept, Flags
<1>4. ASSUME NEW d \in 0..2, WindowFrame(d) PROVE BridgeKept
  <2>1. PICK h \in SUBSET Input :
           /\ SequenceProcess(h)
           /\ h \ Mouse \subseteq Releases(seq.events \cup step'.events)
    BY <1>4, WindowFacts
  <2>2. /\ step' \in StepType /\ IsFiniteSet(step'.events)
        /\ step'.fired + Cardinality(step'.events) <= 2
        /\ step'.active /\ step.active /\ ~step.finishing
        /\ step'.last = paused /\ UNCHANGED <<paused, intent>>
        /\ gamePaused' = IF paused # step.last THEN paused ELSE gamePaused
        /\ step'.finishing => step'.fired = step.fired
        /\ Paired(step'.events)
    BY <1>4, WindowFacts
  <2>3. step'.events \in SUBSET Event
    BY <2>2 DEF StepType
  <2>4. SequenceKept(h, step'.events)
    BY <1>1, <2>1, <2>3, SequenceFacts
  <2>5. frozen /\ gamePaused' \in BOOLEAN
    BY <1>1, <2>2 DEF Flags
  <2>6. Wishes'
    BY <1>0, <1>1, <2>2, <2>5 DEF IInv, Wishes
  <2>7. Owing'
    BY <1>0, <1>1, <2>2 DEF Owing
  <2> QED
    BY <1>1, <2>2, <2>4, <2>5, <2>6, <2>7 DEF BridgeKept
<1>5. ASSUME UNCHANGED <<paused, gamePaused, step, intent>>, ~frozen, ~step.active,
             SequenceProcess(held) \/ (~processing /\ UNCHANGED <<seq, held, shots>>)
      PROVE  BridgeKept
  <2>1. SequenceProcess(held)
    <3>1. CASE ~processing /\ UNCHANGED <<seq, held, shots>>
      <4>1. ~seq.running /\ held' = held /\ UNCHANGED <<seq, shots>>
        BY <3>1, <1>1 DEF Flags
      <4> QED
        BY <4>1 DEF SequenceProcess
    <3> QED
      BY <3>1, <1>5
  <2>2. SequenceKept(held, step.events)
    BY <1>1, <2>1, SequenceFacts
  <2>3. Wishes'
    BY <1>0, <1>1, <1>5 DEF IInv, Wishes
  <2>4. Owing'
    BY <1>0, <1>1, <1>5 DEF Owing
  <2> QED
    BY <1>0, <1>1, <1>5, <2>2, <2>3, <2>4 DEF BridgeKept, Flags, Sizes
<1>6. ~processing => ~frozen /\ ~step.active
  BY <1>1 DEF Flags
<1> QED
  BY <1>2, <1>3, <1>4, <1>5, <1>6 DEF Bridge

LEMMA BridgeInv == IInv /\ Bridge => IInv'
<1> SUFFICES ASSUME IInv, Bridge PROVE IInv'
  OBVIOUS
<1>1. BridgeKept
  BY BridgeFacts
<1>2. PICK h : SequenceKept(h, step'.events)
  BY <1>1 DEF BridgeKept
<1>3. /\ at = "bridge" /\ at' = "scene" /\ UNCHANGED <<frozen, wish>>
      /\ processing' = IF seq.running /\ ~seq'.running THEN ProcessingAfterSequence ELSE processing
      /\ fresh' = [step |-> IF step'.fired > step.fired THEN 2 ELSE fresh.step,
                   seq  |-> IF seq.running /\ seq'.events # seq.events THEN 2 ELSE fresh.seq]
  BY DEF Bridge
<1>4. /\ fresh' \in [step : 0..2, seq : 0..2]
      /\ step'.fired = step.fired => fresh'.step <= 1
  BY <1>1, <1>3 DEF IInv, TypeOK, Seen, BridgeKept, StepType
<1>5. /\ processing' \in BOOLEAN /\ (frozen \/ step'.active \/ seq'.running => processing')
  BY <1>1, <1>2, <1>3 DEF IInv, TypeOK, Flags, BridgeKept, SequenceKept, ProcessingAfterSequence,
                          StepType
<1>6. owed' \in -1..1
  BY <1>1 DEF BridgeKept, Owing
<1>7. TypeOK'
  BY <1>1, <1>2, <1>3, <1>4, <1>5, <1>6 DEF IInv, TypeOK, BridgeKept, SequenceKept
<1>8. Flags'
  BY <1>1, <1>2, <1>3, <1>5 DEF Flags, BridgeKept, SequenceKept
<1>9. Sizes' /\ Pairs'
  BY <1>1, <1>2 DEF Sizes, Pairs, BridgeKept, SequenceKept
<1>10. Seen'
  BY <1>1, <1>3, <1>4 DEF Seen, BridgeKept
<1> QED
  BY <1>1, <1>7, <1>8, <1>9, <1>10 DEF IInv, BridgeKept

LEMMA StepInv == IInv /\ [Next]_vars => IInv'
<1> SUFFICES ASSUME IInv, [Next]_vars PROVE IInv'
  OBVIOUS
<1>1. CASE Freeze \/ Thaw
  BY <1>1, FreezeThawInv
<1>2. CASE Step
  BY <1>2, WindowInv DEF Step
<1>3. CASE StepUntil
  BY <1>3, WindowInv DEF StepUntil
<1>4. CASE ExecuteInputSequence
  BY <1>4, ExecuteInv
<1>5. CASE TopOfFrame
  BY <1>5, TopInv
<1>6. CASE Bridge
  BY <1>6, BridgeInv
<1>7. CASE \E drawn \in BOOLEAN : Scene(drawn)
  BY <1>7, SceneInv
<1>8. CASE UNCHANGED vars
  <2>1. TypeOK'
    BY <1>8 DEF vars, IInv, TypeOK, StepType, SeqType
  <2>2. Flags' /\ Sizes' /\ Owing' /\ Seen'
    BY <1>8 DEF vars, IInv, Flags, Sizes, Owing, Seen
  <2>3. Pairs' /\ Wishes'
    BY <1>8 DEF vars, IInv, Pairs, Wishes
  <2> QED
    BY <2>1, <2>2, <2>3 DEF IInv
<1> QED
  BY <1>1, <1>2, <1>3, <1>4, <1>5, <1>6, <1>7, <1>8 DEF Next

THEOREM Invariance == Spec => []IInv
<1> QED
  BY InitInv, StepInv, PTL DEF Spec

-----------------------------------------------------------------------------
(* The bridge's state stays well formed: TypeOK of the run, for every         *)
(* timeline, target and wall budget.                                       *)
THEOREM TypeCorrect == Spec => []TypeOK
<1>1. IInv => TypeOK
  BY DEF IInv
<1> QED
  BY <1>1, Invariance, PTL

(* A frozen game does not run, whatever sequences end or steps come and go    *)
(* under the freeze.                                                       *)
THEOREM FrozenIsPaused == Spec => []FreezeHolds
<1>1. IInv => FreezeHolds
  BY DEF IInv, Wishes, FreezeHolds
<1> QED
  BY <1>1, Invariance, PTL

(* A step counts the frames that ran: none is stolen by the freeze at its end. *)
THEOREM FramesAreHonest == Spec => []CountedFramesRan
<1>1. IInv => CountedFramesRan
  BY DEF IInv, Owing, CountedFramesRan
<1> QED
  BY <1>1, Invariance, PTL

(* Whatever is held down, but for mouse buttons, has its release to come.     *)
THEOREM NothingStuck == Spec => []NoStuckHold
<1>1. IInv => NoStuckHold
  BY DEF IInv, Pairs, Releases, NoStuckHold
<1> QED
  BY <1>1, Invariance, PTL

(* Freezing, stepping and thawing keep the game's own pause, except where the *)
(* freeze hid the write or the bridge wrote first.                         *)
THEOREM PauseIntentKept == Spec => []IntentKept
<1>1. IInv => IntentKept
  BY DEF IInv, TypeOK, Wishes, Flags, IntentKept
<1> QED
  BY <1>1, Invariance, PTL

(* A step is reported when the scene has seen its last input.                 *)
THEOREM InputSeenBeforeReport == Spec => StepInputSeen
<1>1. IInv /\ [Next]_vars => [step.active /\ ~step'.active => fresh.step = 0]_vars
  <2> SUFFICES ASSUME IInv, Next, step.active, ~step'.active PROVE fresh.step = 0
    OBVIOUS
  <2>1. Bridge
    BY DEF Next, Freeze, Thaw, Step, StepUntil, OpenWindow, ExecuteInputSequence,
           TopOfFrame, Scene
  <2>2. step.finishing
    <3>1. ASSUME NEW d \in 0..2, WindowFrame(d) PROVE FALSE
      BY <3>1, WindowFacts
    <3> QED
      BY <2>1, <3>1 DEF Bridge, Watch, FinishStep
  <2>3. at = "bridge" /\ fresh.step \in 0..2
    BY <2>1 DEF Bridge, IInv, TypeOK
  <2> QED
    BY <2>2, <2>3 DEF IInv, Seen
<1> QED
  BY <1>1, Invariance, PTL DEF Spec, StepInputSeen

(* The result of a sequence follows its captures.                             *)
THEOREM CapturesBeforeResult == Spec => CapturesFirst
<1>1. IInv /\ [Next]_vars => [seq.running /\ ~seq'.running => shots'.own = 0]_vars
  <2> SUFFICES ASSUME IInv, Next, seq.running, ~seq'.running PROVE shots'.own = 0
    OBVIOUS
  <2>1. CASE Bridge
    BY <2>1, BridgeFacts DEF BridgeKept, SequenceKept
  <2>2. ~ExecuteInputSequence
    BY DEF ExecuteInputSequence, NoSequence, IInv, TypeOK
  <2>3. ASSUME NEW drawn \in BOOLEAN, Scene(drawn) PROVE FALSE
    BY <2>3 DEF Scene, IInv, TypeOK, SeqType
  <2> QED
    BY <2>1, <2>2, <2>3 DEF Next, Freeze, Thaw, Step, StepUntil, OpenWindow, TopOfFrame
<1> QED
  BY <1>1, Invariance, PTL DEF Spec, CapturesFirst

-----------------------------------------------------------------------------
(* What a step was asked for, and what the probe of a sequence reads.        *)

(* A window that goes on has not come to its length, or it has beyond it only *)
(* frames that an injected event has taken, one each.                       *)
Length ==
  step.active /\ ~step.cut =>
    /\ step.settle => step.fired >= 1
    /\ IF step.finishing
       THEN IF step.byFrames THEN step.frames \in step.target .. (step.target + step.fired)
                             ELSE step.elapsed >= step.target
       ELSE /\ step.frames <= WallBudget
            /\ step.byFrames => \/ step.frames < step.target
                                \/ ~step.settle /\ step.frames < step.target + step.fired

LEMMA WindowCounts == ASSUME IInv, Length, NEW d \in 0..2, WindowFrame(d) PROVE Length'
<1> DEFINE due == DueBy(step.events, Least(step.elapsed + d, Horizon))
           s == [step EXCEPT !.last = paused, !.frames = Least(@ + 1, FrameCap),
                   !.elapsed = Least(@ + d, Horizon),
                   !.events = @ \ due, !.fired = @ + Cardinality(due),
                   !.settle = @ \/ due # {}]
<1>1. /\ step \in StepType /\ IsFiniteSet(step.events) /\ WallBudget \in Nat
      /\ step.active /\ ~step.finishing
  BY TimeAssumption DEF IInv, TypeOK, Sizes, WindowFrame
<1>2. PICK met \in {step.until, FALSE}, late \in OverBudget(s) :
        step' = IF Reached(s) \/ met \/ late
                THEN EndOfWindow([s EXCEPT !.cut = @ \/ met \/ late])
                ELSE [s EXCEPT !.cut = @ \/ met \/ late]
  BY DEF WindowFrame
<1>3. /\ Cardinality(due) \in Nat /\ (due # {} => Cardinality(due) >= 1)
  <2>1. due \subseteq step.events /\ IsFiniteSet(due)
    BY <1>1, FS_Subset DEF DueBy
  <2> QED BY <2>1, FS_CardinalityType, FS_EmptySet
<1> HIDE DEF due
<1>4. /\ s.active /\ ~s.finishing /\ s.frames = Least(step.frames + 1, FrameCap)
      /\ s.fired = step.fired + Cardinality(due) /\ s.settle = (step.settle \/ due # {})
      /\ s.byFrames = step.byFrames /\ s.target = step.target /\ s.cut = step.cut
      /\ s.elapsed = Least(step.elapsed + d, Horizon)
      /\ s = [s EXCEPT !.cut = s.cut]
  BY <1>1 DEF StepType
<1>5. /\ step.frames \in Nat /\ step.fired \in Nat /\ step.target \in Nat
      /\ step.settle \in BOOLEAN /\ step.byFrames \in BOOLEAN /\ step.cut \in BOOLEAN
      /\ met \in BOOLEAN /\ late \in BOOLEAN /\ step.elapsed \in Nat /\ Horizon \in Nat
  <2>1. /\ step.frames \in 0 .. WallBudget + 3 /\ step.fired \in 0 .. 2 /\ step.until \in BOOLEAN
        /\ step.target \in Target \cup {0} /\ step.elapsed \in 0 .. Horizon
        /\ step.settle \in BOOLEAN /\ step.byFrames \in BOOLEAN /\ step.cut \in BOOLEAN
    BY <1>1 DEF StepType, FrameCap
  <2>2. met \in BOOLEAN /\ late \in BOOLEAN
    BY <2>1 DEF OverBudget
  <2> QED BY <2>1, <2>2, TimeAssumption
<1>6. late \/ s.frames <= WallBudget
  <2>1. s.frames \in Nat
    BY <1>1, <1>4, <1>5 DEF Least, FrameCap
  <2> QED BY <1>1, <2>1 DEF OverBudget
<1> DEFINE t == [s EXCEPT !.cut = @ \/ met \/ late]
<1>7. /\ t.active /\ ~t.finishing /\ t.frames = s.frames /\ t.fired = s.fired
      /\ t.settle = s.settle /\ t.byFrames = s.byFrames /\ t.target = s.target
      /\ t.elapsed = s.elapsed /\ t.cut = (s.cut \/ met \/ late)
      /\ DOMAIN t = {"active", "finishing", "settle", "until", "byFrames", "cut", "last",
                     "target", "fired", "frames", "elapsed", "events"}
  BY <1>1, <1>4, <1>5 DEF StepType
<1>8. \/ step' = t /\ ~Reached(s) /\ ~met /\ ~late
      \/ step' = EndOfWindow(t) /\ (Reached(s) \/ met \/ late)
  BY <1>2
<1> HIDE DEF s, t
<1>9. /\ step'.cut = t.cut /\ step'.frames = t.frames /\ step'.fired = t.fired
      /\ step'.byFrames = t.byFrames /\ step'.target = t.target /\ step'.elapsed = t.elapsed
      /\ step'.active
      /\ \/ ~step'.finishing /\ step'.settle = t.settle /\ ~Reached(s)
         \/ ~step'.settle /\ step'.finishing = ~t.settle /\ (Reached(s) \/ met \/ late)
  BY <1>7, <1>8 DEF EndOfWindow
<1>10. ASSUME ~step'.cut
       PROVE  /\ ~step.cut /\ s.frames <= WallBudget /\ s.frames = step.frames + 1
              /\ ~met /\ ~late
  BY <1>4, <1>5, <1>6, <1>7, <1>9, <1>10, <1>1 DEF Least, FrameCap
<1>11. SUFFICES ASSUME ~step'.cut
                PROVE  /\ step'.settle => step'.fired >= 1
                       /\ IF step'.finishing
                          THEN IF step'.byFrames
                               THEN step'.frames \in step'.target .. (step'.target + step'.fired)
                               ELSE step'.elapsed >= step'.target
                          ELSE /\ step'.frames <= WallBudget
                               /\ step'.byFrames =>
                                    \/ step'.frames < step'.target
                                    \/ ~step'.settle /\ step'.frames < step'.target + step'.fired
  BY DEF Length
<1>12. /\ step.settle => step.fired >= 1
       /\ step.byFrames => \/ step.frames < step.target
                           \/ ~step.settle /\ step.frames < step.target + step.fired
  BY <1>1, <1>10, <1>11 DEF Length
<1>13. t.settle => t.fired >= 1
  BY <1>3, <1>4, <1>5, <1>7, <1>12
<1>14. step.byFrames /\ t.settle => t.frames < t.target + t.fired
  BY <1>3, <1>4, <1>5, <1>7, <1>10, <1>11, <1>12
<1>15. step.byFrames => t.frames <= t.target + t.fired
  BY <1>3, <1>4, <1>5, <1>7, <1>10, <1>11, <1>12
<1>16. CASE ~step'.finishing /\ step'.settle = t.settle /\ ~Reached(s)
  BY <1>4, <1>5, <1>7, <1>9, <1>10, <1>11, <1>13, <1>16 DEF Reached
<1>17. CASE ~step'.settle /\ step'.finishing = ~t.settle /\ (Reached(s) \/ met \/ late)
  <2>1. Reached(s)
    BY <1>10, <1>11, <1>17
  <2>2. CASE t.settle
    BY <1>4, <1>5, <1>7, <1>9, <1>10, <1>11, <1>14, <1>17, <2>2
  <2>3. CASE ~t.settle
    BY <1>3, <1>4, <1>5, <1>7, <1>9, <1>10, <1>11, <1>15, <1>17, <2>1, <2>3 DEF Reached
  <2>4. t.settle \in BOOLEAN
    BY <1>4, <1>5, <1>7
  <2> QED BY <2>2, <2>3, <2>4
<1> QED BY <1>9, <1>16, <1>17

LEMMA LengthKept == IInv /\ Length /\ [Next]_vars => Length'
<1> SUFFICES ASSUME IInv, Length, [Next]_vars PROVE Length'
  OBVIOUS
<1>1. CASE UNCHANGED step
  BY <1>1 DEF Length
<1>2. ASSUME NEW until \in BOOLEAN, NEW byFrames \in BOOLEAN, NEW target \in Target,
             NEW events, OpenWindow(until, byFrames, target, events)
      PROVE  Length'
  <2>1. /\ step'.active /\ ~step'.finishing /\ ~step'.settle /\ step'.frames = 0
        /\ step'.target = target /\ target >= 1
    BY <1>2, TimeAssumption DEF OpenWindow, NoStep
  <2> QED BY <2>1, TimeAssumption DEF Length
<1>3. CASE FinishStep
  BY <1>3 DEF FinishStep, NoStep, Length
<1>4. ASSUME NEW d \in 0..2, WindowFrame(d) PROVE Length'
  BY <1>4, WindowCounts
<1> QED
  BY <1>1, <1>2, <1>3, <1>4
  DEF Next, vars, Freeze, Thaw, Step, StepUntil, ExecuteInputSequence, TopOfFrame, Scene, Bridge, Watch

(* A step that neither its predicate nor the wall budget cuts short advances *)
(* what it was asked, and beyond it only a frame for each injected event: for *)
(* any targets, timelines and budget.                                       *)
THEOREM StepsAreExact == Spec => StepLength
<1>1. Init => Length
  BY DEF Init, NoStep, Length
<1>2. IInv /\ Length /\ [Next]_vars =>
        [step.active /\ ~step'.active /\ ~step.cut =>
           IF step.byFrames THEN step.frames \in step.target..(step.target + step.fired)
                            ELSE step.elapsed >= step.target]_vars
  <2> SUFFICES ASSUME Length, IInv, Next, step.active, ~step'.active, ~step.cut
               PROVE  IF step.byFrames
                      THEN step.frames \in step.target..(step.target + step.fired)
                      ELSE step.elapsed >= step.target
    OBVIOUS
  <2>1. step.finishing
    <3>1. Bridge
      BY DEF Next, Freeze, Thaw, Step, StepUntil, OpenWindow, ExecuteInputSequence,
             TopOfFrame, Scene
    <3>2. ASSUME NEW d \in 0..2, WindowFrame(d) PROVE FALSE
      BY <3>2, WindowFacts
    <3> QED BY <3>1, <3>2 DEF Bridge, Watch, FinishStep
  <2> QED BY <2>1 DEF Length
<1> QED BY <1>1, <1>2, LengthKept, Invariance, PTL DEF Spec, StepLength

(* The probe waits as many frames as the last input needs to be seen.       *)
ProbeWaits ==
  seq.draining /\ seq.probe =>
    fresh.seq <= IF at = "scene" THEN seq.settle ELSE Most(seq.settle - 1, 0)

LEMMA ProbeFacts ==
  ASSUME IInv, ProbeWaits, at = "bridge", NEW h, SequenceProcess(h)
  PROVE  /\ seq'.draining /\ seq'.probe =>
              IF seq.running /\ seq'.events # seq.events THEN seq'.settle = 2
                                                         ELSE fresh.seq <= seq'.settle
         /\ seq.running /\ ~seq'.running /\ seq.probe => fresh.seq = 0
<1>1. /\ seq \in SeqType /\ fresh.seq \in 0..2 /\ (seq.draining => seq.events = {})
  BY DEF IInv, TypeOK, Flags
<1>2. CASE ~seq.running /\ UNCHANGED seq
  BY <1>1, <1>2 DEF ProbeWaits, SeqType, Most
<1>3. CASE seq.running /\ seq.draining /\ EmitOrWait([seq EXCEPT !.settle = Most(@ - 1, 0)])
  <2> DEFINE s == [seq EXCEPT !.settle = Most(@ - 1, 0)]
  <2>1. /\ s.settle = Most(seq.settle - 1, 0) /\ s.events = {} /\ s.running /\ s.probe = seq.probe
        /\ s.draining /\ seq.events = {}
    BY <1>1, <1>3 DEF SeqType
  <2>2. \/ seq' = s
        \/ seq' = [NoSequence EXCEPT !.pending = s.pending] /\ s.settle = 0
    BY <1>3 DEF EmitOrWait, MayEmit
  <2> HIDE DEF s
  <2>3. seq.probe => fresh.seq <= s.settle
    BY <1>3, <2>1 DEF ProbeWaits
  <2> QED BY <1>1, <2>1, <2>2, <2>3 DEF NoSequence
<1>4. ASSUME seq.running, ~seq.draining, NEW clock, TimelineFrame(h, clock)
      PROVE  /\ seq'.draining /\ seq'.probe => seq'.settle = 2
             /\ seq'.running \/ ~seq.probe
  <2> DEFINE due   == DueBy(seq.events, clock - 1)
             taken == {c \in seq.caps : c <= clock - 1}
             s == [seq EXCEPT !.clock = clock, !.events = @ \ due, !.caps = @ \ taken,
                     !.pending = @ + Cardinality(taken)]
  <2>1. IF s.events # {} \/ s.caps # {} THEN seq' = s
        ELSE IF s.probe THEN seq' = [s EXCEPT !.draining = TRUE, !.settle = SettleFrames]
        ELSE EmitOrWait([s EXCEPT !.draining = TRUE])
    BY <1>4 DEF TimelineFrame
  <2>2. /\ s.running /\ ~s.draining /\ s.probe = seq.probe
        /\ DOMAIN s = {"running", "draining", "probe", "settle", "clock", "pending", "events", "caps"}
    BY <1>1, <1>4 DEF SeqType
  <2> HIDE DEF s
  <2>3. CASE s.probe
    <3>1. seq' = s \/ seq' = [s EXCEPT !.draining = TRUE, !.settle = 2]
      BY <2>1, <2>3 DEF SettleFrames
    <3>2. seq' = s => ~seq'.draining /\ seq'.running
      BY <2>2
    <3>3. seq' = [s EXCEPT !.draining = TRUE, !.settle = 2] => seq'.settle = 2 /\ seq'.running
      BY <2>2
    <3> QED BY <3>1, <3>2, <3>3
  <2>4. CASE ~s.probe
    <3>1. \/ seq' = s \/ seq' = [s EXCEPT !.draining = TRUE]
          \/ \E n : seq' = [NoSequence EXCEPT !.pending = n]
      BY <2>1, <2>4 DEF EmitOrWait
    <3> QED BY <2>2, <2>4, <3>1 DEF NoSequence
  <2> QED BY <2>3, <2>4
<1> QED BY <1>1, <1>2, <1>3, <1>4 DEF SequenceProcess

LEMMA ProbeWaitsKept == IInv /\ ProbeWaits /\ [Next]_vars => ProbeWaits'
<1> SUFFICES ASSUME IInv, ProbeWaits, [Next]_vars PROVE ProbeWaits'
  OBVIOUS
<1>0. seq \in SeqType /\ fresh \in [step : 0..2, seq : 0..2]
  BY DEF IInv, TypeOK
<1>1. ASSUME UNCHANGED <<seq, fresh>>, at' = at \/ (at = "poll" /\ at' = "bridge")
      PROVE  ProbeWaits'
  BY <1>1 DEF ProbeWaits
<1>2. ASSUME NEW until, NEW byFrames, NEW target, NEW events,
             OpenWindow(until, byFrames, target, events)
      PROVE  ProbeWaits'
  BY <1>0, <1>2 DEF OpenWindow, ProbeWaits
<1>3. CASE ExecuteInputSequence
  BY <1>3 DEF ExecuteInputSequence, NoSequence, ProbeWaits
<1>4. ASSUME NEW drawn \in BOOLEAN, Scene(drawn) PROVE ProbeWaits'
  <2>1. /\ at = "scene" /\ at' = "poll" /\ fresh'.seq = Most(fresh.seq - 1, 0)
        /\ seq'.draining = seq.draining /\ seq'.probe = seq.probe /\ seq'.settle = seq.settle
    BY <1>0, <1>4 DEF Scene, SeqType
  <2> QED BY <1>0, <2>1 DEF ProbeWaits, SeqType, Most
<1>5. CASE Bridge
  <2>1. /\ at = "bridge" /\ at' = "scene"
        /\ fresh'.seq = IF seq.running /\ seq'.events # seq.events THEN 2 ELSE fresh.seq
    BY <1>5 DEF Bridge
  <2>2. CASE \E h : SequenceProcess(h)
    BY <2>1, <2>2, ProbeFacts DEF ProbeWaits
  <2>3. CASE UNCHANGED seq
    BY <1>0, <2>1, <2>3 DEF ProbeWaits, SeqType, Most
  <2> QED BY <1>5, <2>2, <2>3 DEF Bridge, Watch, FinishStep, WindowFrame
<1> QED
  <2>1. CASE Freeze \/ Thaw \/ UNCHANGED vars
    <3>1. UNCHANGED <<seq, fresh>> /\ at' = at
      BY <2>1 DEF Freeze, Thaw, vars
    <3> QED BY <1>1, <3>1
  <2>2. CASE TopOfFrame
    BY <1>1, <2>2 DEF TopOfFrame
  <2>3. CASE Step \/ StepUntil
    BY <1>2, <2>3 DEF Step, StepUntil
  <2> QED BY <1>3, <1>4, <1>5, <2>1, <2>2, <2>3 DEF Next

(* The effect of a sequence is read when the scene has seen its last input.  *)
THEOREM EffectIsReadLate == Spec => ProbeSeesEffect
<1>1. Init => ProbeWaits
  BY DEF Init, NoSequence, ProbeWaits
<1>2. IInv /\ ProbeWaits /\ [Next]_vars =>
        [seq.running /\ ~seq'.running /\ seq.probe => fresh.seq = 0]_vars
  <2> SUFFICES ASSUME IInv, ProbeWaits, Next, seq.running, ~seq'.running, seq.probe
               PROVE  fresh.seq = 0
    OBVIOUS
  <2>1. ~ExecuteInputSequence
    BY DEF ExecuteInputSequence, NoSequence, IInv, TypeOK
  <2>2. ASSUME NEW drawn \in BOOLEAN, Scene(drawn) PROVE FALSE
    BY <2>2 DEF Scene, IInv, TypeOK, SeqType
  <2>3. Bridge
    BY <2>1, <2>2 DEF Next, Freeze, Thaw, Step, StepUntil, OpenWindow, TopOfFrame
  <2>4. at = "bridge" /\ \E h : SequenceProcess(h)
    BY <2>3 DEF Bridge, Watch, FinishStep, WindowFrame
  <2> QED BY <2>4, ProbeFacts
<1> QED BY <1>1, <1>2, ProbeWaitsKept, Invariance, PTL DEF Spec, ProbeSeesEffect

(* A step ran what it was asked to and what it counted, injected input was    *)
(* seen before its effect was told, captures came before the result.        *)
THEOREM HonestSteps == Spec => StepsAreHonest
<1> QED
  BY FramesAreHonest, StepsAreExact, InputSeenBeforeReport, EffectIsReadLate,
     CapturesBeforeResult, PTL DEF StepsAreHonest

-----------------------------------------------------------------------------
(* The warning that a bridge ignores an entry (InputTimeline).              *)
(* Whatever is under way passed the schema.                                 *)
Parsed == \A i \in DOMAIN inputs : Inputs!InputEntrySchema(inputs[i])

WireKinds == {"action", "key", "joy_button", "axis", "stick", "look", "mouse_move", "mouse_button"}

LEMMA OnlyWireKinds ==
  ASSUME Parsed
  PROVE  \A i \in DOMAIN inputs : inputs[i].kind \in WireKinds
BY DEF Parsed, Inputs!InputEntrySchema, WireKinds

LEMMA EraWarns ==
  ASSUME Inputs!EchoAssumption, \A i \in DOMAIN inputs : inputs[i].kind \in WireKinds,
         NEW era \in Inputs!Era
  PROVE  Inputs!InputSkewWarning(inputs, Inputs!Echoes(era))
           <=> \/ \E i \in DOMAIN inputs :
                    inputs[i].kind \notin Inputs!Knows(era) \cup (IF era = 0 THEN {} ELSE {"stick"})
               \/ Inputs!UsesStrength(inputs) /\ era = 0
<1> DEFINE Sent(kinds) == \E i \in DOMAIN inputs : inputs[i].kind \in kinds
<1>1. CASE era = 0
  <2>1. Inputs!Echoes(era) = None /\ Inputs!Knows(era) = {"action"}
    BY <1>1 DEF Inputs!Echoes, Inputs!Knows
  <2>2. Inputs!InputSkewWarning(inputs, None)
          <=> Sent(WireKinds \ {"action"}) \/ Inputs!UsesStrength(inputs)
    BY DEF Inputs!InputSkewWarning, Inputs!Uses, WireKinds
  <2> QED BY <1>1, <2>1, <2>2
<1>2. ASSUME era # 0 PROVE Inputs!Echoes(era) = Inputs!Knows(era) /\ Inputs!Knows(era) # None
  BY <1>2 DEF Inputs!Echoes, Inputs!EchoAssumption
<1>3. ASSUME NEW known, known # None, {"action", "joy_button", "axis"} \subseteq known
      PROVE  Inputs!InputSkewWarning(inputs, known)
               <=> \/ Sent({"mouse_move", "mouse_button"}) /\ ~({"mouse_move", "mouse_button"} \subseteq known)
                   \/ Sent({"look"}) /\ "look" \notin known
                   \/ Sent({"key"}) /\ "key" \notin known
  BY <1>3 DEF Inputs!InputSkewWarning, Inputs!Uses
<1>4. ASSUME era # 0
      PROVE  /\ {"action", "joy_button", "axis"} \subseteq Inputs!Knows(era)
             /\ Inputs!Knows(era) \subseteq WireKinds \ {"stick"}
             /\ "mouse_move" \in Inputs!Knows(era) <=> "mouse_button" \in Inputs!Knows(era)
  BY <1>4 DEF Inputs!Era, Inputs!Knows, WireKinds
<1>5. CASE era # 0
  <2> DEFINE known == Inputs!Knows(era)
  <2>1. (\E i \in DOMAIN inputs : inputs[i].kind \notin known \cup {"stick"})
          <=> \/ Sent({"mouse_move", "mouse_button"}) /\ ~({"mouse_move", "mouse_button"} \subseteq known)
              \/ Sent({"look"}) /\ "look" \notin known
              \/ Sent({"key"}) /\ "key" \notin known
    BY <1>4, <1>5 DEF WireKinds
  <2>2. Inputs!InputSkewWarning(inputs, known)
          <=> \E i \in DOMAIN inputs : inputs[i].kind \notin known \cup {"stick"}
    BY <1>2, <1>3, <1>4, <1>5, <2>1
  <2> QED BY <1>2, <1>5, <2>2
<1> QED BY <1>1, <1>5

(* A bridge of any version that ignores an entry, or the strength of one,   *)
(* is reported, and no other is: for every call that the schemas let pass.  *)
THEOREM IgnoredAlwaysSaid == Inputs!Spec => []IgnoredIsSaid
<1>1. Inputs!Init => Parsed
  BY DEF Inputs!Init, Parsed
<1>2. Parsed /\ [Inputs!Next]_(Inputs!vars) => Parsed'
  <2> SUFFICES ASSUME Parsed, [Inputs!Next]_(Inputs!vars) PROVE Parsed'
    OBVIOUS
  <2>1. CASE Inputs!Fire
    BY <2>1 DEF Inputs!Fire, Parsed, Inputs!InputEntrySchema
  <2>2. CASE Inputs!Answer
    BY <2>2 DEF Inputs!Answer, Parsed
  <2>3. ASSUME NEW tool \in Inputs!Tool, NEW call \in Call, Inputs!Execute(tool, call)
        PROVE  Parsed'
    BY <2>3 DEF Inputs!Execute, Parsed
  <2>4. CASE UNCHANGED Inputs!vars
    BY <2>4 DEF Inputs!vars, Parsed, Inputs!InputEntrySchema
  <2> QED BY <2>1, <2>2, <2>3, <2>4 DEF Inputs!Next
<1>3. Parsed => IgnoredIsSaid
  BY OnlyWireKinds, EraWarns, AnswersAssumption DEF IgnoredIsSaid, Inputs!IgnoredIsSaid
<1> QED BY <1>1, <1>2, <1>3, PTL DEF Inputs!Spec
=============================================================================
