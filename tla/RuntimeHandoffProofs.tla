------------------------ MODULE RuntimeHandoffProofs ------------------------
(* The lock and the record of a runtime for any number of proxies, up to the *)
(* first start that crosses another start or a release.                     *)
EXTENDS RuntimeHandoff, FollowedLog, FiniteSetTheorems, FunctionTheorems, SequenceTheorems, TLAPS

\* Where a proxy is once it has named itself as the owner of the directory.
Past == {"decide", "run", "leave", "remove", "dead"}

(* One proxy at a time is between its look at the directory and the owner's *)
(* name, and no one holds the lock meanwhile.                               *)
OneStarts ==
  /\ \A p, q \in Proxy : Starting(p) /\ Starting(q) => p = q
  /\ \A p \in Proxy : Starting(p) => locked = {}

(* What that proxy has seen of the directory still stands.                  *)
SeenStands ==
  \A p \in Proxy : /\ pc[p] = "steal" => dir \in Proxy /\ pc[dir] = "dead"
                   /\ pc[p] = "make" => dir = "none"
                   /\ pc[p] = "own" => dir = "bare"

HoldersPlaced ==
  /\ \A p \in locked : pc[p] \in {"decide", "run", "leave"} /\ dir = p
  /\ \A p \in Proxy : pc[p] = "decide" => p \in locked
  /\ dir \in Proxy => pc[dir] \in Past

(* A proxy whose name is on a document held the lock when it put it there;  *)
(* while it lives it holds it still or is about to remove its directory.    *)
Rightful(o) ==
  o \in Proxy => /\ pc[o] \in Past
                 /\ pc[o] # "dead" => o \in locked \/ (pc[o] = "remove" /\ dir = o)
OwnersRightful ==
  Rightful(rec.owner) /\ \A w \in Writers : buf[w] # None => Rightful(buf[w].owner)

Sound == OneStarts /\ SeenStands /\ HoldersPlaced /\ OwnersRightful

IInv == TypeOK /\ (~raced => Sound)

-----------------------------------------------------------------------------
(* Merging a patch into a document sets the fields of the patch.            *)
LEMMA RecIsDoc ==
  ASSUME NEW r \in Docs
  PROVE  /\ r = [state |-> r.state, owner |-> r.owner, editor |-> r.editor]
         /\ DOMAIN r = {"state", "owner", "editor"}
         /\ r.state \in States /\ r.owner \in Proxy \cup {None} /\ r.editor \in Pids
BY DEF Docs

LEMMA MergedDocs ==
  ASSUME rec \in Docs, NEW s \in States, NEW o \in Proxy \cup {None}, NEW e \in Pids
  PROVE  /\ Merged([state |-> s, owner |-> o, editor |-> e]) = [state |-> s, owner |-> o, editor |-> e]
         /\ Merged([state |-> s, editor |-> e]) = [state |-> s, owner |-> rec.owner, editor |-> e]
         /\ Merged([state |-> s]) = [state |-> s, owner |-> rec.owner, editor |-> rec.editor]
         /\ Merged([editor |-> e]) = [state |-> rec.state, owner |-> rec.owner, editor |-> e]
         /\ Merged([owner |-> o]) = [state |-> rec.state, owner |-> o, editor |-> rec.editor]
<1>1. DOMAIN rec = {"state", "owner", "editor"}
  BY RecIsDoc
<1> QED BY <1>1 DEF Merged

(* The documents of the writes are documents, with an owner on them that    *)
(* was there, or the one of the patch.                                      *)
LEMMA Documents ==
  ASSUME rec \in Docs, NEW s \in States, NEW o \in Proxy \cup {None}, NEW e \in Pids
  PROVE  /\ Merged([state |-> s, owner |-> o, editor |-> e]) \in Docs
         /\ Merged([state |-> s, owner |-> o, editor |-> e]).owner = o
         /\ Merged([state |-> s, editor |-> e]) \in Docs
         /\ Merged([state |-> s, editor |-> e]).owner = rec.owner
         /\ Merged([state |-> s]) \in Docs /\ Merged([state |-> s]).owner = rec.owner
         /\ Merged([editor |-> e]) \in Docs /\ Merged([editor |-> e]).owner = rec.owner
         /\ Merged([owner |-> o]) \in Docs /\ Merged([owner |-> o]).owner = o
<1>1. /\ rec.state \in States /\ rec.owner \in Proxy \cup {None} /\ rec.editor \in Pids
  BY RecIsDoc
<1>2. /\ Merged([state |-> s, owner |-> o, editor |-> e]) = [state |-> s, owner |-> o, editor |-> e]
      /\ Merged([state |-> s, editor |-> e]) = [state |-> s, owner |-> rec.owner, editor |-> e]
      /\ Merged([state |-> s]) = [state |-> s, owner |-> rec.owner, editor |-> rec.editor]
      /\ Merged([editor |-> e]) = [state |-> rec.state, owner |-> rec.owner, editor |-> e]
      /\ Merged([owner |-> o]) = [state |-> rec.state, owner |-> o, editor |-> rec.editor]
  BY MergedDocs
<1>3. /\ [state |-> s, owner |-> o, editor |-> e] \in Docs
      /\ [state |-> s, owner |-> rec.owner, editor |-> e] \in Docs
      /\ [state |-> s, owner |-> rec.owner, editor |-> rec.editor] \in Docs
      /\ [state |-> rec.state, owner |-> rec.owner, editor |-> e] \in Docs
      /\ [state |-> rec.state, owner |-> o, editor |-> rec.editor] \in Docs
  BY <1>1 DEF Docs
<1> QED BY <1>2, <1>3

LEMMA AgedDocs ==
  ASSUME NEW d \in Docs \cup {None}
  PROVE  /\ Aged(d) \in Docs \cup {None} /\ (d # None => Aged(d) \in Docs /\ Aged(d).owner = d.owner)
         /\ d = None => Aged(d) = None
<1>1. CASE d = None
  BY <1>1 DEF Aged
<1>2. CASE d # None
  <2>1. d \in Docs
    BY <1>2
  <2>2. d = [state |-> d.state, owner |-> d.owner, editor |-> d.editor]
    BY <2>1, RecIsDoc
  <2>3. [d EXCEPT !.editor = "old"] \in Docs /\ [d EXCEPT !.editor = "old"].owner = d.owner
    BY <2>1 DEF Docs, Pids
  <2> QED BY <1>2, <2>1, <2>3 DEF Aged
<1> QED BY <1>1, <1>2

-----------------------------------------------------------------------------
(* What the actions that only write have in common: proxies, directory and  *)
(* lock stay, and no new owner comes on a document.                         *)
Writes ==
  /\ UNCHANGED <<pc, locked, dir, raced>>
  /\ \/ rec' = rec
     \/ \E w \in Writers : buf[w] # None /\ rec' = buf[w]
     \/ rec' = Aged(rec)
  /\ buf' \in [Writers -> Docs \cup {None}]
  /\ \A w \in Writers : buf'[w] # None =>
       \/ buf'[w].owner \in {rec.owner, None}
       \/ buf[w] # None /\ buf'[w].owner = buf[w].owner

LEMMA WritesKeepType == ASSUME TypeOK, Writes PROVE rec' \in Docs /\ buf' \in [Writers -> Docs \cup {None}]
<1>1. rec \in Docs /\ (\A w \in Writers : buf[w] # None => buf[w] \in Docs)
  BY DEF TypeOK
<1>2. rec # None => Aged(rec) \in Docs
  BY <1>1, AgedDocs
<1>3. rec = None => Aged(rec) = rec
  BY DEF Aged
<1> QED BY <1>1, <1>2, <1>3 DEF Writes

LEMMA WritesKeepSound == ASSUME TypeOK, Sound, Writes PROVE Sound'
<1>1. OneStarts' /\ SeenStands' /\ HoldersPlaced'
  BY DEF Sound, OneStarts, SeenStands, HoldersPlaced, Writes, Starting
<1>2. \A o : Rightful(o)' <=> Rightful(o)
  BY DEF Rightful, Writes
<1>3. Rightful(None)
  BY HandoffAssumption DEF Rightful
<1>4. Rightful(rec'.owner)
  <2>1. rec \in Docs
    BY DEF TypeOK
  <2>2. Aged(rec).owner = rec.owner
    <3>1. CASE rec = None
      BY <3>1 DEF Aged
    <3>2. CASE rec # None
      BY <3>2, <2>1, AgedDocs
    <3> QED BY <3>1, <3>2
  <2> QED BY <2>2 DEF Sound, OwnersRightful, Writes
<1>5. ASSUME NEW w \in Writers, buf'[w] # None PROVE Rightful(buf'[w].owner)
  BY <1>3, <1>5 DEF Sound, OwnersRightful, Writes
<1> QED BY <1>1, <1>2, <1>4, <1>5 DEF Sound, OwnersRightful

LEMMA WriteFits ==
  ASSUME TypeOK, NEW w \in Writers, NEW d \in Docs, d.owner \in {rec.owner, None},
         buf' = [buf EXCEPT ![w] = d], rec' = rec, UNCHANGED <<pc, locked, dir, raced>>
  PROVE  Writes
<1>1. buf' \in [Writers -> Docs \cup {None}]
  BY DEF TypeOK
<1>2. ASSUME NEW v \in Writers
      PROVE  \/ buf'[v].owner \in {rec.owner, None}
             \/ buf'[v] = buf[v]
  BY DEF TypeOK
<1> QED BY <1>1, <1>2 DEF Writes

(* The rest of the state that the actions on the record change.             *)
WorldTyped ==
  /\ stage' \in [Proxy -> {"cold", "warming", "warm"}]
  /\ up' \in BOOLEAN /\ script' \in BOOLEAN /\ faults' \in Nat

LEMMA PublishWrites == ASSUME TypeOK, NEW w \in Writers, Publish(w) PROVE Writes /\ WorldTyped
<1>1. rec' = buf[w] /\ buf[w] # None /\ UNCHANGED <<pc, locked, dir, raced, stage, up, script, faults>>
  BY DEF Publish
<1>2. buf' = [buf EXCEPT ![w] = None] /\ buf \in [Writers -> Docs \cup {None}]
  BY DEF Publish, TypeOK
<1>3. buf' \in [Writers -> Docs \cup {None}] /\ (\A v \in Writers : buf'[v] \in {None, buf[v]})
  BY <1>2
<1>4. WorldTyped
  BY <1>1 DEF WorldTyped, TypeOK
<1> QED BY <1>1, <1>3, <1>4 DEF Writes

LEMMA EditorEndsWrites ==
  ASSUME TypeOK, EditorEnds, UNCHANGED <<pc, locked, dir, raced>>
  PROVE  Writes /\ up' \in BOOLEAN /\ script' \in BOOLEAN
<1>1. rec' = Aged(rec) /\ buf' = [w \in Writers |-> Aged(buf[w])] /\ up' = FALSE /\ script' = FALSE
  BY DEF EditorEnds
<1>2. ASSUME NEW w \in Writers
      PROVE  /\ buf'[w] \in Docs \cup {None}
             /\ buf'[w] # None => buf[w] # None /\ buf'[w].owner = buf[w].owner
  <2>1. buf'[w] = Aged(buf[w]) /\ buf[w] \in Docs \cup {None}
    BY <1>1 DEF TypeOK
  <2> QED BY <2>1, AgedDocs
<1>3. buf' \in [Writers -> Docs \cup {None}]
  BY <1>1, <1>2
<1> QED BY <1>1, <1>2, <1>3 DEF Writes

LEMMA EntersTyped ==
  ASSUME TypeOK, NEW p \in Proxy, NEW s \in {"cold", "warming", "warm"}, Enters(p, s)
  PROVE  stage' \in [Proxy -> {"cold", "warming", "warm"}]
BY DEF TypeOK, Enters

LEMMA BeatWrites == ASSUME TypeOK, NEW p \in Proxy, Beat(p) PROVE Writes /\ WorldTyped
<1>1. p \in Writers /\ rec \in Docs
  BY DEF Writers, TypeOK
<1>2. buf' = [buf EXCEPT ![p] = rec] /\ UNCHANGED <<pc, locked, dir, rec, raced, stage, up, script, faults>>
  BY DEF Beat
<1>3. WorldTyped
  BY <1>2 DEF WorldTyped, TypeOK
<1> QED BY <1>1, <1>2, <1>3, WriteFits

LEMMA StagedWrites ==
  ASSUME TypeOK, NEW p \in Proxy,
         Warms(p) \/ Recovers(p) \/ EditorGone(p) \/ GivesUp(p) \/ EnsureSpawns(p)
  PROVE  Writes /\ WorldTyped
<1>1. p \in Writers /\ rec \in Docs /\ rec.editor \in Pids /\ rec' = rec
  BY DEF Writers, TypeOK, Docs, Warms, Recovers, EditorGone, GivesUp, EnsureSpawns, Elsewhere
<1>2. UNCHANGED <<pc, locked, dir, raced>>
  BY DEF Warms, Recovers, EditorGone, GivesUp, EnsureSpawns, Elsewhere
<1>3. "none" \in Pids /\ {"COLD", "WARMING", "WARM"} \subseteq States
  BY DEF Pids, States
<1>4. \E d \in Docs : d.owner = rec.owner /\ buf' = [buf EXCEPT ![p] = d]
  <2>1. CASE \E s \in States : Write(p, [state |-> s])
    BY <2>1, <1>1, <1>3, Documents DEF Write
  <2>2. CASE \E s \in States, e \in Pids : Write(p, [state |-> s, editor |-> e])
    BY <2>2, <1>1, <1>3, Documents DEF Write
  <2> QED BY <2>1, <2>2, <1>1, <1>3 DEF Warms, Recovers, EditorGone, GivesUp, EnsureSpawns
<1>5. Writes
  BY <1>1, <1>2, <1>4, WriteFits
<1>6. \E s \in {"cold", "warming", "warm"} : Enters(p, s)
  BY DEF Warms, Recovers, EditorGone, GivesUp, EnsureSpawns
<1>7. up' \in BOOLEAN /\ script' \in BOOLEAN /\ faults' \in Nat
  BY DEF TypeOK, Warms, Recovers, EditorGone, GivesUp, EnsureSpawns
<1> QED BY <1>5, <1>6, <1>7, EntersTyped DEF WorldTyped

LEMMA PidWrites ==
  ASSUME TypeOK, (\E p \in Proxy : Backfill(p)) \/ ScriptRecords
  PROVE  Writes /\ WorldTyped
<1>1. PICK w \in Writers : Write(w, [editor |-> "this"])
  BY DEF Backfill, ScriptRecords, Writers
<1>2. rec \in Docs /\ "this" \in Pids /\ UNCHANGED <<pc, locked, dir, rec, raced, stage, up, faults>>
  BY DEF TypeOK, Pids, Backfill, ScriptRecords, Elsewhere
<1>3. Merged([editor |-> "this"]) \in Docs /\ Merged([editor |-> "this"]).owner = rec.owner
  <2>1. None \in Proxy \cup {None} /\ "COLD" \in States
    BY DEF States
  <2> QED BY <1>2, <2>1, Documents
<1>4. Writes
  BY <1>1, <1>2, <1>3, WriteFits DEF Write
<1>5. script' \in BOOLEAN
  BY DEF TypeOK, Backfill, ScriptRecords
<1> QED BY <1>2, <1>4, <1>5 DEF WorldTyped, TypeOK

LEMMA EditorWrites ==
  ASSUME TypeOK, (\E p \in Proxy : EnsureBound(p)) \/ EditorBinds \/ EditorDies
  PROVE  Writes /\ WorldTyped
<1>1. UNCHANGED <<pc, locked, dir, raced>>
  BY DEF EnsureBound, EditorBinds, EditorDies
<1>2. faults' \in Nat
  BY DEF TypeOK, EnsureBound, EditorBinds, EditorDies
<1>3. CASE EditorEnds /\ UNCHANGED stage
  BY <1>1, <1>2, <1>3, EditorEndsWrites DEF WorldTyped, TypeOK
<1>4. CASE UNCHANGED <<rec, buf, script>> /\ up' \in BOOLEAN 
           /\ (UNCHANGED stage \/ \E p \in Proxy : Enters(p, "warming"))
  <2>1. Writes
    BY <1>1, <1>4 DEF Writes, TypeOK
  <2>2. stage' \in [Proxy -> {"cold", "warming", "warm"}]
    BY <1>4, EntersTyped DEF TypeOK
  <2> QED BY <1>2, <1>4, <2>1, <2>2 DEF WorldTyped, TypeOK
<1> QED BY <1>3, <1>4 DEF EnsureBound, EditorBinds, EditorDies, TypeOK

-----------------------------------------------------------------------------
(* The actions that move one proxy.                                         *)
Places == {"new", "steal", "make", "own", "decide", "run", "leave", "remove", "dead"}

LEMMA Moved ==
  ASSUME TypeOK, NEW p \in Proxy, NEW l \in Places, Goes(p, l)
  PROVE  pc' \in [Proxy -> Places] /\ pc'[p] = l /\ \A q \in Proxy \ {p} : pc'[q] = pc[q]
BY DEF TypeOK, Goes, Places

(* The lock's actions leave the documents as they are.                      *)
LEMMA LockType ==
  ASSUME TypeOK, NEW p \in Proxy,
         \/ Look(p) \/ Steal(p) \/ Make(p) \/ Own(p) \/ ReleaseLooks(p) \/ ReleaseRemoves(p)
  PROVE  TypeOK'
<1>1. \E l \in Places : Goes(p, l)
  BY DEF Places, Look, LookTo, Steal, Make, Own, ReleaseLooks, ReleaseRemoves
<1>2. pc' \in [Proxy -> Places]
  BY <1>1, Moved
<1>3. locked' \subseteq Proxy /\ dir' \in Proxy \cup {"none", "bare"}
  BY DEF TypeOK, Look, LookTo, Steal, Make, Own, ReleaseLooks, ReleaseRemoves
<1>4. raced' \in BOOLEAN
  <2>1. CASE UNCHANGED raced
    BY <2>1 DEF TypeOK
  <2>2. CASE \E l : LookTo(p, l)
    BY <2>2 DEF LookTo, TypeOK
  <2>3. CASE ReleaseRemoves(p)
    BY <2>3 DEF ReleaseRemoves, TypeOK
  <2> QED BY <2>1, <2>2, <2>3 DEF Look, Steal, Make, Own, ReleaseLooks
<1>5. UNCHANGED <<rec, buf, stage, up, script, faults>>
  BY DEF DiskUnchanged, Look, LookTo, Steal, Make, Own, ReleaseLooks, ReleaseRemoves
<1> QED BY <1>2, <1>3, <1>4, <1>5 DEF TypeOK, Places

(* No start is under way but that of this look, and a directory that is     *)
(* absent, or whose owner is dead, is nobody's lock.                        *)
LEMMA LookSound == ASSUME TypeOK, Sound, NEW p \in Proxy, Look(p), ~raced' PROVE Sound'
<1>1. PICK l \in Places : LookTo(p, l) /\ l = CASE dir = "none" -> "make"
                                              [] dir \in Proxy /\ ~Alive(dir) -> "steal"
                                              [] OTHER -> "run"
  BY DEF Look, Places
<1>2. /\ pc[p] = "new" /\ (\A q \in Proxy : ~Starting(q)) /\ UNCHANGED <<locked, dir, rec, buf>>
      /\ pc' \in [Proxy -> Places] /\ pc'[p] = l /\ \A q \in Proxy \ {p} : pc'[q] = pc[q]
  BY <1>1, Moved DEF LookTo, DiskUnchanged
<1>3. l \in {"make", "steal", "run"} /\ (l = "make" => dir = "none")
      /\ (l = "steal" => dir \in Proxy /\ ~Alive(dir))
  BY <1>1, HandoffAssumption
<1>4. p \notin locked /\ dir # p /\ (dir \in Proxy => pc[dir] \in Past)
      /\ (\A q \in locked : q \in Proxy /\ dir = q /\ Alive(q))
  BY <1>2 DEF Sound, HoldersPlaced, Past, Alive, TypeOK
<1>5. OneStarts'
  <2>1. \A q \in Proxy : Starting(q)' => q = p
    BY <1>2 DEF Starting
  <2>2. Starting(p)' => locked = {}
    BY <1>2, <1>3, <1>4, HandoffAssumption DEF Starting
  <2> QED BY <1>2, <2>1, <2>2 DEF OneStarts
<1>6. SeenStands'
  <2>1. l = "steal" => dir \in Proxy /\ pc'[dir] = "dead"
    BY <1>2, <1>3, <1>4 DEF Alive, Past
  <2>2. ASSUME NEW q \in Proxy \ {p} PROVE pc'[q] \notin {"steal", "make", "own"}
    BY <1>2 DEF Starting
  <2> QED BY <1>2, <1>3, <2>1, <2>2 DEF SeenStands
<1>7. HoldersPlaced'
  BY <1>2, <1>3, <1>4 DEF Sound, HoldersPlaced, Past, TypeOK
<1>8. ASSUME NEW o, Rightful(o) PROVE Rightful(o)'
  BY <1>2, <1>8 DEF Rightful, Past
<1> QED BY <1>2, <1>5, <1>6, <1>7, <1>8 DEF Sound, OwnersRightful

(* While a proxy starts, whoever has its name on a document is dead.        *)
LEMMA StartersOwners ==
  ASSUME TypeOK, Sound, NEW p \in Proxy, Starting(p), NEW o \in Proxy, Rightful(o)
  PROVE  pc[o] = "dead" /\ o # p
<1>1. locked = {} /\ pc[p] \in {"steal", "make", "own"}
  BY DEF Sound, OneStarts, Starting
<1>2. dir \in Proxy => pc[dir] = "dead"
  BY <1>1, HandoffAssumption DEF Sound, SeenStands
<1> QED BY <1>1, <1>2 DEF Rightful, Past

LEMMA StartSound ==
  ASSUME TypeOK, Sound, NEW p \in Proxy, Steal(p) \/ Make(p) \/ Own(p)
  PROVE  Sound'
<1>1. /\ Starting(p) /\ locked = {} /\ (\A q \in Proxy \ {p} : ~Starting(q))
      /\ (\A q \in Proxy : pc[q] # "decide")
  BY DEF Sound, OneStarts, HoldersPlaced, Starting, Steal, Make, Own
<1>2. \E l \in Places : Goes(p, l)
  BY DEF Places, Steal, Make, Own
<1>3. \A q \in Proxy \ {p} : pc'[q] = pc[q]
  BY <1>2, Moved
<1>4. UNCHANGED <<rec, buf>>
  BY DEF Steal, Make, Own, DiskUnchanged
<1>5. \/ pc'[p] = "make" /\ dir' = "none" /\ locked' = {}
      \/ pc'[p] = "own" /\ dir' = "bare" /\ locked' = {}
      \/ pc'[p] = "decide" /\ dir' = p /\ locked' = {p}
  <2>1. CASE Steal(p)
    BY <1>1, <2>1 DEF Steal, Goes, TypeOK
  <2>2. CASE Make(p)
    BY <1>1, <2>2 DEF Make, Goes, TypeOK, Sound, SeenStands
  <2>3. CASE Own(p)
    BY <1>1, <2>3 DEF Own, Goes, TypeOK, Sound, SeenStands
  <2> QED BY <2>1, <2>2, <2>3
<1>6. OneStarts'
  BY <1>1, <1>3, <1>5 DEF OneStarts, Starting
<1>7. SeenStands'
  BY <1>1, <1>3, <1>5 DEF SeenStands, Starting
<1>8. HoldersPlaced'
  BY <1>1, <1>3, <1>5, HandoffAssumption DEF HoldersPlaced, Past
<1>9. ASSUME NEW o, Rightful(o) PROVE Rightful(o)'
  BY <1>1, <1>3, <1>9, StartersOwners DEF Rightful, Past
<1> QED BY <1>4, <1>6, <1>7, <1>8, <1>9 DEF Sound, OwnersRightful

(* The name of another proxy on the directory is that of the holder, which  *)
(* is then not the one that leaves.                                         *)
LEMMA ReleaseLooksSound == ASSUME TypeOK, Sound, NEW p \in Proxy, ReleaseLooks(p) PROVE Sound'
<1>1. PICK l \in {"dead", "remove"} : Goes(p, l) /\ (l = "dead" <=> dir \in Proxy \ {p})
  BY DEF ReleaseLooks
<1>2. /\ pc[p] = "leave" /\ locked' = locked \ {p} /\ UNCHANGED <<dir, rec, buf>>
      /\ pc'[p] = l /\ \A q \in Proxy \ {p} : pc'[q] = pc[q]
  BY <1>1, Moved DEF ReleaseLooks, DiskUnchanged, Places
<1>3. OneStarts' /\ SeenStands'
  BY <1>1, <1>2 DEF Sound, OneStarts, SeenStands, Starting
<1>4. HoldersPlaced'
  BY <1>1, <1>2 DEF Sound, HoldersPlaced, Past, TypeOK
<1>5. ASSUME NEW o, Rightful(o) PROVE Rightful(o)'
  BY <1>1, <1>2, <1>5 DEF Rightful, Past, Sound, HoldersPlaced
<1> QED BY <1>2, <1>3, <1>4, <1>5 DEF Sound, OwnersRightful

LEMMA ReleaseRemovesSound ==
  ASSUME TypeOK, Sound, NEW p \in Proxy, ReleaseRemoves(p), ~raced'
  PROVE  Sound'
<1>1. /\ pc[p] = "remove" /\ dir \in {"none", p} /\ dir' = "none" /\ UNCHANGED <<locked, rec, buf>>
      /\ pc'[p] = "dead" /\ \A q \in Proxy \ {p} : pc'[q] = pc[q]
  BY Moved DEF ReleaseRemoves, DiskUnchanged, Places
<1>2. locked = {} /\ (\A q \in Proxy : pc[q] \notin {"steal", "own", "decide"})
  BY <1>1, HandoffAssumption DEF Sound, HoldersPlaced, SeenStands, TypeOK
<1>3. OneStarts' /\ SeenStands' /\ HoldersPlaced'
  BY <1>1, <1>2, HandoffAssumption DEF Sound, OneStarts, SeenStands, HoldersPlaced, Starting
<1>4. ASSUME NEW o, Rightful(o) PROVE Rightful(o)'
  BY <1>1, <1>2, <1>4, HandoffAssumption DEF Rightful, Past
<1> QED BY <1>1, <1>3, <1>4 DEF Sound, OwnersRightful

(* The actions that move a proxy and write its document: an owner that was  *)
(* not on a document before is the proxy's own name, put there with the     *)
(* lock held.                                                               *)
MovesOn(p) ==
  /\ pc[p] \in {"decide", "run"} /\ pc'[p] \in {"run", "leave"}
  /\ (\A q \in Proxy \ {p} : pc'[q] = pc[q]) /\ UNCHANGED <<locked, dir, rec, raced>>
  /\ \A w \in Writers : buf'[w] # None =>
       \/ buf[w] # None /\ buf'[w].owner = buf[w].owner
       \/ buf'[w].owner = None
       \/ buf'[w].owner = p /\ pc[p] = "decide"

LEMMA MovesOnSound == ASSUME TypeOK, Sound, NEW p \in Proxy, MovesOn(p) PROVE Sound'
<1>1. OneStarts' /\ SeenStands'
  BY DEF Sound, OneStarts, SeenStands, Starting, MovesOn
<1>2. HoldersPlaced'
  BY DEF Sound, HoldersPlaced, Past, MovesOn, TypeOK
<1>3. ASSUME NEW o, Rightful(o) PROVE Rightful(o)'
  BY <1>3 DEF Rightful, Past, MovesOn
<1>4. pc[p] = "decide" => Rightful(p)
  BY DEF Sound, HoldersPlaced, Rightful, Past
<1>5. Rightful(None)
  BY HandoffAssumption DEF Rightful
<1>6. \A o : Rightful(o) => Rightful(o)'
  BY <1>3
<1>7. OwnersRightful'
  <2>1. \A w \in Writers : buf'[w] # None => Rightful(buf'[w].owner)
    BY <1>4, <1>5 DEF Sound, OwnersRightful, MovesOn
  <2>2. Rightful(rec'.owner)
    BY DEF Sound, OwnersRightful, MovesOn
  <2> QED BY <1>6, <2>1, <2>2 DEF OwnersRightful
<1> QED BY <1>1, <1>2, <1>7 DEF Sound

LEMMA ClaimWrites ==
  ASSUME TypeOK, NEW p \in Proxy, NEW o \in {p, None},
         \/ Write(p, [state |-> "COLD", owner |-> o, editor |-> "none"])
         \/ Write(p, [owner |-> o])
  PROVE  /\ buf' \in [Writers -> Docs \cup {None}]
         /\ \A w \in Writers : buf'[w] = buf[w] \/ buf'[w].owner = o
<1>1. p \in Writers /\ buf \in [Writers -> Docs \cup {None}] /\ rec \in Docs
  BY DEF TypeOK, Writers
<1>2. "COLD" \in States /\ "none" \in Pids /\ o \in Proxy \cup {None}
  BY DEF States, Pids
<1>3. PICK d \in Docs : d.owner = o /\ buf' = [buf EXCEPT ![p] = d]
  <2>1. Merged([owner |-> o]) \in Docs /\ Merged([owner |-> o]).owner = o
    BY <1>1, <1>2, Documents
  <2>2. LET m == Merged([state |-> "COLD", owner |-> o, editor |-> "none"])
        IN  m \in Docs /\ m.owner = o
    BY <1>1, <1>2, Documents
  <2>3. CASE Write(p, [owner |-> o])
    BY <2>1, <2>3 DEF Write
  <2>4. CASE Write(p, [state |-> "COLD", owner |-> o, editor |-> "none"])
    BY <2>2, <2>4 DEF Write
  <2> QED BY <2>3, <2>4
<1> QED BY <1>1, <1>3

LEMMA DecideMoves ==
  ASSUME TypeOK, NEW p \in Proxy, Decide(p) \/ Shutdown(p) \/ LegacyExit(p)
  PROVE  TypeOK' /\ MovesOn(p)
<1>1. PICK l \in {"run", "leave"} : Goes(p, l)
  BY DEF Decide, Shutdown, LegacyExit
<1>2. pc' \in [Proxy -> Places] /\ pc'[p] \in {"run", "leave"} /\ \A q \in Proxy \ {p} : pc'[q] = pc[q]
  BY <1>1, Moved DEF Places
<1>3. pc[p] \in {"decide", "run"} /\ UNCHANGED <<locked, dir, rec, up, script, raced, faults>>
  BY DEF Decide, Shutdown, LegacyExit, Running
<1>4. stage' \in [Proxy -> {"cold", "warming", "warm"}]
  <2>1. UNCHANGED stage \/ Enters(p, "cold")
    BY DEF Decide, Shutdown, LegacyExit
  <2> QED BY <2>1, EntersTyped DEF TypeOK
<1>5. /\ buf' \in [Writers -> Docs \cup {None}]
      /\ \A w \in Writers : buf'[w] = buf[w] \/ buf'[w].owner = None
                                \/ (buf'[w].owner = p /\ pc[p] = "decide")
  <2>1. CASE UNCHANGED buf
    BY <2>1 DEF TypeOK
  <2>2. CASE Decide(p) /\ Write(p, [state |-> "COLD", owner |-> p, editor |-> "none"])
    BY <2>2, ClaimWrites DEF Decide
  <2>3. CASE Write(p, [owner |-> None])
    BY <2>3, ClaimWrites
  <2> QED BY <2>1, <2>2, <2>3 DEF Decide, Shutdown, LegacyExit
<1>6. TypeOK'
  BY <1>2, <1>3, <1>4, <1>5 DEF TypeOK, Places
<1>7. MovesOn(p)
  BY <1>2, <1>3, <1>5 DEF MovesOn
<1> QED BY <1>6, <1>7

(* A death leaves the directory and the record to the next proxy.           *)
LEMMA CrashSound == ASSUME TypeOK, NEW p \in Proxy, Crash(p) PROVE TypeOK' /\ (Sound => Sound')
<1>1. /\ pc' \in [Proxy -> Places] /\ pc'[p] = "dead" /\ (\A q \in Proxy \ {p} : pc'[q] = pc[q])
      /\ locked' = locked \ {p} /\ UNCHANGED <<dir, rec, up, script, raced>> /\ faults' \in Nat
  BY Moved DEF Crash, Places, TypeOK
<1>2. buf' \in [Writers -> Docs \cup {None}] /\ \A w \in Writers : buf'[w] \in {buf[w], None}
  <2>1. p \in Writers
    BY DEF Writers
  <2> QED BY <2>1 DEF Crash, TypeOK
<1>3. stage' \in [Proxy -> {"cold", "warming", "warm"}]
  BY EntersTyped DEF Crash
<1>4. TypeOK'
  BY <1>1, <1>2, <1>3 DEF TypeOK, Places
<1>5. ASSUME Sound PROVE OneStarts' /\ SeenStands'
  BY <1>1, <1>5 DEF Sound, OneStarts, SeenStands, Starting
<1>6. ASSUME Sound PROVE HoldersPlaced'
  BY <1>1, <1>6 DEF Sound, HoldersPlaced, Past, TypeOK
<1>7. ASSUME NEW o, Rightful(o) PROVE Rightful(o)'
  BY <1>1, <1>7 DEF Rightful, Past
<1>8. ASSUME Sound PROVE OwnersRightful'
  BY <1>1, <1>2, <1>7, <1>8 DEF Sound, OwnersRightful
<1> QED BY <1>4, <1>5, <1>6, <1>8 DEF Sound

-----------------------------------------------------------------------------
LEMMA InitIInv == Init => IInv
<1>1. Init => TypeOK
  <2>1. NoRec \in Docs
    BY DEF NoRec, Docs, States, Pids
  <2>2. ASSUME Init
        PROVE  /\ pc \in [Proxy -> Places] /\ buf \in [Writers -> Docs \cup {None}]
               /\ stage \in [Proxy -> {"cold", "warming", "warm"}]
    BY <2>2 DEF Init, Places
  <2>3. ASSUME Init PROVE up \in BOOLEAN /\ script \in BOOLEAN /\ raced \in BOOLEAN
    BY <2>3, Zenon DEF Init
  <2>4. ASSUME Init
        PROVE  locked \subseteq Proxy /\ dir \in Proxy \cup {"none", "bare"}
               /\ rec \in Docs /\ faults \in Nat
    BY <2>1, <2>4 DEF Init
  <2> QED BY <2>2, <2>3, <2>4 DEF TypeOK, Places
<1>2. Init => OneStarts /\ SeenStands /\ HoldersPlaced
  BY HandoffAssumption DEF Init, OneStarts, SeenStands, HoldersPlaced, Starting
<1>3. Init => OwnersRightful
  BY HandoffAssumption DEF Init, OwnersRightful, Rightful, NoRec, Writers
<1> QED BY <1>1, <1>2, <1>3 DEF IInv, Sound

LEMMA WritesKeep == ASSUME IInv, Writes, WorldTyped PROVE IInv'
<1>1. TypeOK'
  BY WritesKeepType DEF IInv, Writes, WorldTyped, TypeOK
<1> QED BY <1>1, WritesKeepSound DEF IInv, Writes

LEMMA StepKeepsIInv == IInv /\ [Next]_vars => IInv'
<1> SUFFICES ASSUME IInv, [Next]_vars PROVE IInv'
  OBVIOUS
<1>0. TypeOK /\ (~raced => Sound)
  BY DEF IInv
<1>1. CASE UNCHANGED vars
  <2>1. UNCHANGED <<pc, locked, dir, rec, buf, raced>> /\ TypeOK'
    BY <1>0, <1>1 DEF vars, TypeOK
  <2>2. Sound => Sound'
    BY <2>1 DEF Sound, OneStarts, SeenStands, HoldersPlaced, OwnersRightful, Rightful, Starting
  <2> QED BY <1>0, <2>1, <2>2 DEF IInv
<1>2. ASSUME NEW p \in Proxy, Look(p) PROVE IInv'
  BY <1>0, <1>2, LockType, LookSound DEF IInv, Look, LookTo
<1>3. ASSUME NEW p \in Proxy, Steal(p) \/ Make(p) \/ Own(p) PROVE IInv'
  <2>1. UNCHANGED raced
    BY <1>3 DEF Steal, Make, Own
  <2> QED BY <1>0, <1>3, <2>1, LockType, StartSound DEF IInv
<1>4. ASSUME NEW p \in Proxy, ReleaseLooks(p) PROVE IInv'
  BY <1>0, <1>4, LockType, ReleaseLooksSound DEF IInv, ReleaseLooks
<1>5. ASSUME NEW p \in Proxy, ReleaseRemoves(p) PROVE IInv'
  BY <1>0, <1>5, LockType, ReleaseRemovesSound DEF IInv, ReleaseRemoves
<1>6. ASSUME NEW p \in Proxy, Decide(p) \/ Shutdown(p) \/ LegacyExit(p) PROVE IInv'
  <2>1. TypeOK' /\ MovesOn(p)
    BY <1>0, <1>6, DecideMoves
  <2> QED BY <1>0, <2>1, MovesOnSound DEF IInv, MovesOn
<1>7. ASSUME NEW p \in Proxy, Crash(p) PROVE IInv'
  <2>1. UNCHANGED raced
    BY <1>7 DEF Crash
  <2> QED BY <1>0, <1>7, <2>1, CrashSound DEF IInv
<1>8. ASSUME NEW p \in Proxy, Beat(p) PROVE IInv'
  BY <1>0, <1>8, BeatWrites, WritesKeep
<1>9. ASSUME NEW p \in Proxy,
             Warms(p) \/ Recovers(p) \/ EditorGone(p) \/ GivesUp(p) \/ EnsureSpawns(p)
      PROVE  IInv'
  BY <1>0, <1>9, StagedWrites, WritesKeep
<1>10. ASSUME NEW p \in Proxy, EnsureBound(p) PROVE IInv'
  BY <1>0, <1>10, EditorWrites, WritesKeep
<1>11. ASSUME NEW p \in Proxy, Backfill(p) PROVE IInv'
  BY <1>0, <1>11, PidWrites, WritesKeep
<1>12. CASE ScriptRecords
  BY <1>0, <1>12, PidWrites, WritesKeep
<1>13. CASE EditorBinds \/ EditorDies
  BY <1>0, <1>13, EditorWrites, WritesKeep
<1>14. ASSUME NEW w \in Writers, Publish(w) PROVE IInv'
  BY <1>0, <1>14, PublishWrites, WritesKeep
<1> QED BY <1>1, <1>2, <1>3, <1>4, <1>5, <1>6, <1>7, <1>8, <1>9, <1>10, <1>11, <1>12, <1>13, <1>14
        DEF Next

(* The inductive invariant: up to the first start that is crossed, one      *)
(* proxy starts at a time, what it saw of the directory stands, the name on *)
(* the directory is the holder's, and a living owner of a document is it.   *)
THEOREM Invariance == Spec => []IInv
BY InitIInv, StepKeepsIInv, PTL DEF Spec

(* The states are of their types, crossed or not.                           *)
THEOREM TypeCorrect == Spec => []TypeOK
<1>1. IInv => TypeOK BY DEF IInv
<1> QED BY <1>1, Invariance, PTL

(* Two living proxies hold a runtime's lock only after a start or a release *)
(* has crossed a start, and until then the holder's name is on it           *)
(* (state-file.mjs:72, :104), however many proxies start, die and leave.    *)
THEOREM OneOwner == Spec => []OneOwnerUnlessRaced
<1>1. IInv => OneOwnerUnlessRaced
  BY DEF IInv, Sound, HoldersPlaced, OneOwnerUnlessRaced
<1> QED BY <1>1, Invariance, PTL

(* Until starts have crossed, no write, not even one that undoes others,    *)
(* puts another living proxy on the record of a runtime whose lock is held  *)
(* (state-file.mjs:243, godot-mcp-proxy.mjs:124-149).                       *)
THEOREM OwnerStays == Spec => []OwnerStands
<1>1. ASSUME IInv, ~raced, NEW p \in locked, Alive(rec.owner) PROVE rec.owner = p
  <2>1. Sound /\ rec.owner \in Proxy /\ pc[rec.owner] # "dead"
    BY <1>1 DEF IInv, Alive
  <2>2. rec.owner \in locked \/ (pc[rec.owner] = "remove" /\ dir = rec.owner)
    BY <2>1 DEF Sound, OwnersRightful, Rightful
  <2>3. dir = p /\ pc[p] # "remove" /\ \A q \in locked : dir = q
    BY <1>1, <2>1 DEF Sound, HoldersPlaced
  <2> QED BY <2>2, <2>3
<1>2. IInv => OwnerStands
  BY <1>1 DEF OwnerStands
<1> QED BY <1>2, Invariance, PTL

-----------------------------------------------------------------------------
(* The editor's log as the proxy follows it, for any polls, boots and lines. *)

LogFile == [inode : Nat, lines : Seq(Log!Line), half : BOOLEAN]

LEMMA SameSize == \A S : Log!Cardinality(S) = Cardinality(S)
BY DEF Log!Cardinality, Cardinality, Log!IsFiniteSet, IsFiniteSet

(* What stands between two offsets.                                         *)
LEMMA HalfFacts ==
  \A x \in Nat : /\ x \div 2 \in Nat /\ 2 * (x \div 2) <= x /\ x < 2 * (x \div 2) + 2
                 /\ x % 2 = 0 => 2 * (x \div 2) = x /\ (x + 1) \div 2 = x \div 2
                 /\ x \div 2 <= (x + 1) \div 2
OBVIOUS

LEMMA HalfGrows == \A x, y \in Nat : x <= y => x \div 2 <= y \div 2
OBVIOUS

FirstOf(a) == (a + 1) \div 2 + 1
LinesWith(f, m, n, l) == {i \in m .. n : f.lines[i] = l}

\* B holds the lines m to n of the log f.
Copied(B, f, m, n) ==
  /\ B \in Seq(Log!Line) /\ Len(B) = IF m <= n THEN n - m + 1 ELSE 0
  /\ \A i \in 1 .. n - m + 1 : B[i] = f.lines[m + i - 1]

LEMMA BetweenFacts ==
  ASSUME NEW f \in LogFile, NEW a \in Nat, NEW b \in Nat, b <= Log!Size(f),
         NEW m \in Nat, m = FirstOf(a), NEW n \in Nat, n = b \div 2
  PROVE  /\ m \in Nat \ {0} /\ n \in 0 .. Len(f.lines)
         /\ Copied(Log!Between(f, a, b), f, m, n)
<1>1. Len(f.lines) \in Nat /\ f.lines \in Seq(Log!Line) /\ f.half \in BOOLEAN
  BY DEF LogFile
<1>2. FirstOf(a) \in Nat \ {0}
  BY HalfFacts DEF FirstOf
<1>3. b \div 2 \in Nat /\ b \div 2 <= Len(f.lines)
  <2>1. b <= 2 * Len(f.lines) + 1
    <3>1. CASE f.half
      BY <1>1, <3>1 DEF Log!Size
    <3>2. CASE ~f.half
      BY <1>1, <3>2 DEF Log!Size
    <3> QED BY <1>1, <3>1, <3>2
  <2>2. b \div 2 \in Nat /\ 2 * (b \div 2) <= b
    BY HalfFacts
  <2> QED BY <1>1, <2>1, <2>2
<1>4. Log!Between(f, a, b) = SubSeq(f.lines, m, n)
  BY DEF Log!Between, FirstOf
<1>5. \A i \in m .. n : f.lines[i] \in Log!Line
  BY <1>1, <1>2, <1>3
<1>6. m \in Int /\ n \in Int
  BY <1>2, <1>3
<1>7. /\ SubSeq(f.lines, m, n) \in Seq(Log!Line)
      /\ Len(SubSeq(f.lines, m, n)) = IF m <= n THEN n - m + 1 ELSE 0
      /\ \A i \in 1 .. n - m + 1 : SubSeq(f.lines, m, n)[i] = f.lines[m + i - 1]
  BY <1>5, <1>6, SubSeqProperties
<1> QED BY <1>1, <1>2, <1>3, <1>4, <1>7 DEF Copied

LEMMA BetweenSays ==
  ASSUME NEW f \in LogFile, NEW a \in Nat, NEW b \in Nat, b <= Log!Size(f), NEW l,
         NEW m \in Nat, m = FirstOf(a), NEW n \in Nat, n = b \div 2
  PROVE  /\ Log!Has(Log!Between(f, a, b), l) <=> LinesWith(f, m, n, l) # {}
         /\ Log!Count(Log!Between(f, a, b), l) = Cardinality(LinesWith(f, m, n, l))
<1> DEFINE B == Log!Between(f, a, b)
           S == LinesWith(f, m, n, l)
           T == {i \in DOMAIN B : B[i] = l}
           F == [i \in S |-> i - m + 1]
<1>1. /\ m \in Nat \ {0} /\ n \in Nat /\ B \in Seq(Log!Line)
      /\ Len(B) = IF m <= n THEN n - m + 1 ELSE 0
      /\ \A i \in 1 .. n - m + 1 : B[i] = f.lines[m + i - 1]
  <2>1. m \in Nat \ {0} /\ n \in 0 .. Len(f.lines) /\ Copied(B, f, m, n)
    BY BetweenFacts
  <2> HIDE DEF B
  <2> QED BY <2>1 DEF Copied, LogFile
<1>2. DOMAIN B = 1 .. n - m + 1
  <2>1. DOMAIN B = 1 .. Len(B)
    BY <1>1
  <2> HIDE DEF B
  <2> QED BY <1>1, <2>1
<1> HIDE DEF B
<1>3. ASSUME NEW i \in S PROVE i \in m .. n /\ i - m + 1 \in T
  <2>1. i \in m .. n /\ f.lines[i] = l
    BY DEF LinesWith
  <2>2. i - m + 1 \in 1 .. n - m + 1 /\ m + (i - m + 1) - 1 = i
    BY <1>1, <2>1
  <2> QED BY <1>1, <1>2, <2>1, <2>2
<1>4. ASSUME NEW j \in T PROVE m + j - 1 \in S /\ (m + j - 1) - m + 1 = j
  <2>1. j \in 1 .. n - m + 1 /\ f.lines[m + j - 1] = l
    BY <1>1, <1>2
  <2>2. m + j - 1 \in m .. n /\ (m + j - 1) - m + 1 = j
    BY <1>1, <2>1
  <2> QED BY <2>1, <2>2 DEF LinesWith
<1>5. F \in [S -> T]
  BY <1>3
<1>6. \A i, j \in S : F[i] = F[j] => i = j
  BY <1>1, <1>3
<1>7. \A t \in T : \E s \in S : F[s] = t
  BY <1>4
<1> HIDE DEF S, T, F
<1>8. F \in Bijection(S, T)
  BY <1>5, <1>6, <1>7, Fun_IsBij
<1>9. IsFiniteSet(S)
  <2>1. IsFiniteSet(m .. n)
    BY <1>1, FS_Interval
  <2> QED BY <2>1, FS_Subset DEF S, LinesWith
<1>10. Cardinality(T) = Cardinality(S)
  BY <1>8, <1>9, FS_Bijection, Fun_ExistsBij
<1>11. Log!Count(B, l) = Cardinality(T) /\ (Log!Has(B, l) <=> T # {})
  BY SameSize DEF Log!Count, Log!Has, T
<1>12. T # {} <=> S # {}
  BY <1>3, <1>4
<1> QED BY <1>10, <1>11, <1>12 DEF S, B

LEMMA BetweenTells ==
  ASSUME NEW f \in LogFile, NEW a \in Nat, NEW b \in Nat, b <= Log!Size(f), NEW l
  PROVE  /\ Log!Has(Log!Between(f, a, b), l) <=> LinesWith(f, FirstOf(a), b \div 2, l) # {}
         /\ Log!Count(Log!Between(f, a, b), l) = Cardinality(LinesWith(f, FirstOf(a), b \div 2, l))
<1>1. FirstOf(a) \in Nat /\ b \div 2 \in Nat
  BY HalfFacts DEF FirstOf
<1> QED BY <1>1, BetweenSays, SMTT(60)

(* What is read in two parts is what is read at once.                       *)
LEMMA Joined ==
  ASSUME NEW f \in LogFile, NEW a \in Nat, NEW b \in Nat, NEW c \in Nat, NEW l,
         a <= b, b <= c, c <= Log!Size(f), a = b \/ b % 2 = 0
  PROVE  /\ Log!Has(Log!Between(f, a, c), l)
              <=> Log!Has(Log!Between(f, a, b), l) \/ Log!Has(Log!Between(f, b, c), l)
         /\ Log!Count(Log!Between(f, a, c), l)
              = Log!Count(Log!Between(f, a, b), l) + Log!Count(Log!Between(f, b, c), l)
<1> DEFINE S == LinesWith(f, FirstOf(a), b \div 2, l)
           T == LinesWith(f, FirstOf(b), c \div 2, l)
           U == LinesWith(f, FirstOf(a), c \div 2, l)
<1>1. b <= Log!Size(f)
  BY DEF Log!Size, LogFile
<1>2. /\ FirstOf(a) \in Nat /\ FirstOf(b) \in Nat /\ b \div 2 \in Nat /\ c \div 2 \in Nat
      /\ b \div 2 <= c \div 2 /\ b \div 2 < FirstOf(b) /\ FirstOf(a) <= FirstOf(b)
      /\ (b \div 2 + 1 = FirstOf(b) \/ FirstOf(a) = FirstOf(b))
  BY HalfFacts, HalfGrows DEF FirstOf
<1>3. U = S \cup T /\ S \cap T = {}
  <2>1. CASE b \div 2 + 1 = FirstOf(b)
    BY <1>2, <2>1 DEF LinesWith
  <2>2. CASE FirstOf(a) = FirstOf(b)
    BY <1>2, <2>2 DEF LinesWith
  <2> QED BY <1>2, <2>1, <2>2
<1>4. IsFiniteSet(S) /\ IsFiniteSet(T)
  <2>1. IsFiniteSet(FirstOf(a) .. b \div 2) /\ IsFiniteSet(FirstOf(b) .. c \div 2)
    BY <1>2, FS_Interval
  <2> QED BY <2>1, FS_Subset DEF LinesWith
<1>5. Cardinality(U) = Cardinality(S) + Cardinality(T)
  <2>1. Cardinality(S) \in Nat /\ Cardinality(T) \in Nat
    BY <1>4, FS_CardinalityType
  <2>2. Cardinality(S \cap T) = 0
    BY <1>3, FS_EmptySet
  <2>3. Cardinality(S \cup T) = Cardinality(S) + Cardinality(T) - Cardinality(S \cap T)
    BY <1>4, FS_Union
  <2> HIDE DEF S, T, U
  <2> QED BY <1>3, <2>1, <2>2, <2>3
<1>6. /\ Log!Has(Log!Between(f, a, b), l) <=> S # {}
      /\ Log!Count(Log!Between(f, a, b), l) = Cardinality(S)
  BY <1>1, BetweenTells
<1>7. /\ Log!Has(Log!Between(f, b, c), l) <=> T # {}
      /\ Log!Count(Log!Between(f, b, c), l) = Cardinality(T)
  BY BetweenTells
<1>8. /\ Log!Has(Log!Between(f, a, c), l) <=> U # {}
      /\ Log!Count(Log!Between(f, a, c), l) = Cardinality(U)
  BY BetweenTells
<1> HIDE DEF S, T, U
<1> QED BY <1>3, <1>5, <1>6, <1>7, <1>8

(* A log that is written on still says what it has said.                     *)
LEMMA BetweenStays ==
  ASSUME NEW f \in LogFile, NEW g \in LogFile, NEW a \in Nat, NEW b \in Nat, b <= Log!Size(f),
         Len(f.lines) <= Len(g.lines), \A i \in 1 .. Len(f.lines) : g.lines[i] = f.lines[i],
         Log!Size(f) <= Log!Size(g),
         NEW m \in Nat, m = FirstOf(a), NEW n \in Nat, n = b \div 2
  PROVE  Log!Between(g, a, b) = Log!Between(f, a, b)
<1>1. Log!Size(f) \in Nat /\ Log!Size(g) \in Nat /\ b <= Log!Size(g)
  BY DEF Log!Size, LogFile
<1> DEFINE F == Log!Between(f, a, b)
           G == Log!Between(g, a, b)
<1>2. /\ m \in Nat \ {0} /\ n \in 0 .. Len(f.lines)
      /\ F \in Seq(Log!Line) /\ Len(F) = IF m <= n THEN n - m + 1 ELSE 0
      /\ \A i \in 1 .. n - m + 1 : F[i] = f.lines[m + i - 1]
      /\ G \in Seq(Log!Line) /\ Len(G) = IF m <= n THEN n - m + 1 ELSE 0
      /\ \A i \in 1 .. n - m + 1 : G[i] = g.lines[m + i - 1]
  <2>1. m \in Nat \ {0} /\ n \in 0 .. Len(f.lines) /\ Copied(F, f, m, n)
    BY BetweenFacts
  <2>2. Copied(G, g, m, n)
    BY <1>1, BetweenFacts
  <2> HIDE DEF F, G
  <2> QED BY <2>1, <2>2 DEF Copied
<1>3. Len(f.lines) \in Nat
  BY DEF LogFile
<1> HIDE DEF F, G
<1>4. \A i \in 1 .. Len(F) : F[i] = G[i]
  <2> SUFFICES ASSUME NEW i \in 1 .. Len(F) PROVE F[i] = G[i]
    OBVIOUS
  <2>1. m <= n /\ i \in 1 .. n - m + 1
    BY <1>2
  <2>2. m + i - 1 \in 1 .. Len(f.lines)
    BY <1>2, <1>3, <2>1
  <2> QED BY <1>2, <2>1, <2>2
<1> QED BY <1>2, <1>4, SeqEqual DEF F, G

\* A log that was written on.
Longer(f, g) ==
  /\ Len(f.lines) <= Len(g.lines) /\ \A i \in 1 .. Len(f.lines) : g.lines[i] = f.lines[i]
  /\ Log!Size(f) <= Log!Size(g)

LEMMA LogSize == \A f \in LogFile : Log!Size(f) \in Nat
BY DEF Log!Size, LogFile

LEMMA LongerSays ==
  ASSUME NEW f \in LogFile, NEW g \in LogFile, NEW a \in Nat, NEW b \in Nat,
         b <= Log!Size(f), Longer(f, g)
  PROVE  Log!Between(g, a, b) = Log!Between(f, a, b) /\ b <= Log!Size(g)
<1>1. FirstOf(a) \in Nat /\ b \div 2 \in Nat
  BY HalfFacts DEF FirstOf
<1> QED BY <1>1, BetweenStays, LogSize DEF Longer

LEMMA BetweenIsText ==
  ASSUME NEW f \in LogFile, NEW a \in Nat, NEW b \in Nat, b <= Log!Size(f)
  PROVE  Log!Between(f, a, b) \in Seq(Log!Line)
<1>1. FirstOf(a) \in Nat /\ b \div 2 \in Nat
  BY HalfFacts DEF FirstOf
<1>2. Copied(Log!Between(f, a, b), f, FirstOf(a), b \div 2)
  BY <1>1, BetweenFacts
<1> QED BY <1>2 DEF Copied

(* Nothing stands between an offset and itself.                              *)
LEMMA BetweenSame ==
  ASSUME NEW f \in LogFile, NEW a \in Nat, a <= Log!Size(f), NEW l
  PROVE  ~Log!Has(Log!Between(f, a, a), l) /\ Log!Count(Log!Between(f, a, a), l) = 0
<1>1. FirstOf(a) \in Nat /\ a \div 2 \in Nat /\ a \div 2 < FirstOf(a)
  BY HalfFacts DEF FirstOf
<1>2. LinesWith(f, FirstOf(a), a \div 2, l) = {}
  BY <1>1 DEF LinesWith
<1>3. /\ Log!Has(Log!Between(f, a, a), l) <=> LinesWith(f, FirstOf(a), a \div 2, l) # {}
      /\ Log!Count(Log!Between(f, a, a), l) = Cardinality(LinesWith(f, FirstOf(a), a \div 2, l))
  BY BetweenTells
<1> QED BY <1>2, <1>3, FS_EmptySet

(* Lines are counted.                                                       *)
LEMMA CountIsNat == \A r \in Seq(Log!Line) : \A l : Log!Count(r, l) \in Nat
<1> SUFFICES ASSUME NEW r \in Seq(Log!Line), NEW l PROVE Log!Count(r, l) \in Nat
  OBVIOUS
<1>1. IsFiniteSet(1 .. Len(r))
  BY FS_Interval
<1>2. {i \in DOMAIN r : r[i] = l} \subseteq 1 .. Len(r)
  OBVIOUS
<1>3. Cardinality({i \in DOMAIN r : r[i] = l}) \in Nat
  BY <1>1, <1>2, FS_Subset, FS_CardinalityType
<1> QED BY <1>3, SameSize DEF Log!Count

-----------------------------------------------------------------------------
(* What is known, s, is what the lines r of boot b say.                      *)
Known(s, r, b) ==
  /\ \A m \in Log!Milestone : s.at[m] = IF Log!Has(r, m) THEN b ELSE 0
  /\ s.received = Log!Count(r, "received")
  /\ s.bind # 0 <=> Log!Has(r, "bound")
  /\ \/ s.stage \in {0, 1, 6, 7}
     \/ \E m \in Log!Milestone : Log!Has(r, m) /\ s.stage = Log!Ordinal[m]
  /\ \A m \in Log!Milestone : Log!Has(r, m) => Log!Ordinal[m] <= s.stage

SeenType == [stage : Nat, at : [Log!Milestone -> Nat], received : Nat, bind : Nat]

LEMMA OrdinalIs ==
  /\ Log!Milestone = {"bound", "received", "client"}
  /\ Log!Ordinal["bound"] = 3 /\ Log!Ordinal["received"] = 4 /\ Log!Ordinal["client"] = 5
BY DEF Log!Milestone, Log!Ordinal

\* The highest stage is one of those there are.
LEMMA HighestIs ==
  ASSUME NEW k \in Nat, NEW R \in SUBSET {3, 4, 5},
         NEW h, h = CHOOSE r \in {k} \cup R : \A q \in {k} \cup R : q <= r
  PROVE  h \in {k} \cup R /\ \A q \in {k} \cup R : q <= h
<1>1. \E r \in {k} \cup R : \A q \in {k} \cup R : q <= r
  <2>1. CASE 5 \in R
    <3>1. CASE k <= 5
      BY <2>1, <3>1
    <3>2. CASE ~(k <= 5)
      BY <2>1, <3>2
    <3> QED BY <3>1, <3>2
  <2>2. CASE 5 \notin R /\ 4 \in R
    <3>1. CASE k <= 4
      BY <2>2, <3>1
    <3>2. CASE ~(k <= 4)
      BY <2>2, <3>2
    <3> QED BY <3>1, <3>2
  <2>3. CASE 5 \notin R /\ 4 \notin R /\ 3 \in R
    <3>1. CASE k <= 3
      BY <2>3, <3>1
    <3>2. CASE ~(k <= 3)
      BY <2>3, <3>2
    <3> QED BY <3>1, <3>2
  <2>4. CASE 5 \notin R /\ 4 \notin R /\ 3 \notin R
    BY <2>4
  <2> QED BY <2>1, <2>2, <2>3, <2>4
<1> QED BY <1>1

(* The scan of the next lines keeps what is known in step with what is said.  *)
LEMMA ScanTells ==
  ASSUME NEW s \in SeenType, NEW b \in Nat \ {0}, NEW r, NEW q, NEW t,
         \A l : Log!Has(t, l) <=> Log!Has(r, l) \/ Log!Has(q, l),
         Log!Count(t, "received") = Log!Count(r, "received") + Log!Count(q, "received"),
         Known(s, r, b)
  PROVE  Known(Log!Scanned(s, q, b), t, b)
<1> DEFINE new == {m \in Log!Milestone : s.at[m] = 0 /\ Log!Has(q, m)}
           R   == {Log!Ordinal[m] : m \in new}
           h   == CHOOSE x \in {s.stage} \cup R : \A y \in {s.stage} \cup R : y <= x
           w   == Log!Scanned(s, q, b)
<1>1. w = [stage |-> h, at |-> [m \in Log!Milestone |-> IF m \in new THEN b ELSE s.at[m]],
           received |-> s.received + Log!Count(q, "received"),
           bind |-> IF s.bind = 0 /\ Log!Has(q, "bound") THEN b ELSE s.bind]
  BY DEF Log!Scanned
<1>2. \A m \in Log!Milestone : m \in new <=> ~Log!Has(r, m) /\ Log!Has(q, m)
  BY DEF Known
<1>3. R \in SUBSET {3, 4, 5}
  BY OrdinalIs
<1>4. h \in {s.stage} \cup R /\ \A y \in {s.stage} \cup R : y <= h
  <2>1. s.stage \in Nat
    BY DEF SeenType
  <2> HIDE DEF R
  <2> QED BY <1>3, <2>1, HighestIs
<1>5. \A m \in new : Log!Ordinal[m] \in R
  OBVIOUS
<1>6. \A x \in R : \E m \in new : x = Log!Ordinal[m]
  OBVIOUS
<1>7. new \subseteq Log!Milestone
  OBVIOUS
<1> HIDE DEF new, R, h, w
<1>8. s.stage \in Nat /\ h \in Nat
  BY <1>3, <1>4 DEF SeenType
<1>9. \A m \in Log!Milestone : w.at[m] = IF Log!Has(t, m) THEN b ELSE 0
  BY <1>1, <1>2 DEF Known
<1>10. w.received = Log!Count(t, "received")
  BY <1>1 DEF Known
<1>11. w.bind # 0 <=> Log!Has(t, "bound")
  BY <1>1 DEF Known
<1>12. \/ w.stage \in {0, 1, 6, 7}
       \/ \E m \in Log!Milestone : Log!Has(t, m) /\ w.stage = Log!Ordinal[m]
  <2>1. CASE h = s.stage
    BY <1>1, <2>1 DEF Known
  <2>2. CASE h \in R
    BY <1>1, <1>2, <1>6, <1>7, <2>2
  <2> QED BY <1>4, <2>1, <2>2
<1>13. ASSUME NEW m \in Log!Milestone, Log!Has(t, m) PROVE Log!Ordinal[m] <= w.stage
  <2>1. w.stage = h /\ Log!Ordinal[m] \in Nat
    BY <1>1, OrdinalIs
  <2>2. CASE Log!Has(r, m)
    <3>1. Log!Ordinal[m] <= s.stage /\ s.stage <= h
      BY <1>4, <2>2 DEF Known
    <3> QED BY <1>8, <2>1, <3>1
  <2>3. CASE ~Log!Has(r, m)
    BY <1>2, <1>4, <1>5, <1>13, <2>1, <2>3
  <2> QED BY <2>2, <2>3
<1> QED BY <1>9, <1>10, <1>11, <1>12, <1>13 DEF Known, w

LEMMA ScanTyped ==
  ASSUME NEW s \in SeenType, NEW b \in Nat, NEW q \in Seq(Log!Line)
  PROVE  Log!Scanned(s, q, b) \in SeenType
<1> DEFINE new == {m \in Log!Milestone : s.at[m] = 0 /\ Log!Has(q, m)}
           R   == {Log!Ordinal[m] : m \in new}
           h   == CHOOSE x \in {s.stage} \cup R : \A y \in {s.stage} \cup R : y <= x
<1>1. R \in SUBSET {3, 4, 5}
  BY OrdinalIs
<1>2. h \in Nat
  <2>1. s.stage \in Nat
    BY DEF SeenType
  <2> HIDE DEF R
  <2>2. h \in {s.stage} \cup R
    BY <1>1, <2>1, HighestIs
  <2> HIDE DEF h
  <2>3. CASE h = s.stage
    BY <2>1, <2>3
  <2>4. CASE h \in R
    BY <1>1, <2>4
  <2> QED BY <2>2, <2>3, <2>4
<1>3. Log!Scanned(s, q, b) =
        [stage |-> h, at |-> [m \in Log!Milestone |-> IF m \in new THEN b ELSE s.at[m]],
         received |-> s.received + Log!Count(q, "received"),
         bind |-> IF s.bind = 0 /\ Log!Has(q, "bound") THEN b ELSE s.bind]
  BY DEF Log!Scanned
<1>4. Log!Count(q, "received") \in Nat
  BY CountIsNat
<1> HIDE DEF new, R, h
<1> QED BY <1>2, <1>3, <1>4 DEF SeenType

-----------------------------------------------------------------------------
(* The inductive invariant.                                                  *)

Telling == [pc : {"idle", "open", "read", "close"}, size : Nat, took : Nat,
            slice : Seq(Log!Line), of : Nat]

(* The log, what is known of it, and the polls are well formed.              *)
LogTyped ==
  /\ file \in LogFile /\ boot \in Nat
  /\ tail \in [timer : {"starting", "on", "off"}, offset : Nat, inode : Nat]
  /\ seen \in SeenType
  /\ polls \in [Poll -> Telling]
  /\ history \in [crossed : BOOLEAN, reused : BOOLEAN, seed : Nat, asked : BOOLEAN]

(* Unless an inode came back, the log of a boot has the boot's.              *)
Generations ==
  /\ file = Log!NoFile \/ file.inode # 0
  /\ file.inode <= boot /\ tail.inode <= boot
  /\ ~history.reused => file.inode \in {0, boot}

Free(p) == polls[p] = Log!Idle

(* Before the monitor starts nothing is known and nobody reads; and unless   *)
(* polls crossed, one at a time is under way.                               *)
Quiet ==
  /\ \A p \in Poll : polls[p].pc = "idle" => Free(p)
  /\ tail.timer = "starting" => /\ \A p \in Poll : Free(p)
                                /\ seen \in {Log!Unseen(0, 0), Log!Unseen(1, 0)}
  /\ ~history.crossed => \A p, q \in Poll : ~Free(p) /\ ~Free(q) => p = q

(* What is known is what the log says between the start of the tail and u.   *)
Told(u) == Known(seen, Log!Between(file, history.seed, u), boot)

\* An offset at which whole lines begin, or the first.
Edge(u) == u = history.seed \/ u % 2 = 0

(* What a poll under way has in hand follows what is known.                  *)
ToBeTaken(p) ==
  LET to == tail.offset + polls[p].took
  IN  to <= Log!Size(file) /\ to % 2 = 0 /\ polls[p].slice = Log!Between(file, tail.offset, to)
ToBeScanned(p) ==
  \E from \in Nat :
    /\ history.seed <= from /\ from <= tail.offset /\ Edge(from)
    /\ polls[p].slice = Log!Between(file, from, tail.offset) /\ Told(from)
InHand(p) ==
  /\ polls[p].pc \in {"read", "close"} => polls[p].of = boot
  /\ polls[p].pc = "read" => ToBeTaken(p)
  /\ polls[p].pc = "close" => tail.offset % 2 = 0 /\ ToBeScanned(p)

\* The tail is of this boot's log, and what is known is not thrown away.
Follows == Log!Trusted /\ tail.timer = "on" /\ tail.inode = file.inode /\ ~history.asked

Followed ==
  Follows =>
    /\ history.seed <= tail.offset /\ tail.offset <= Log!Size(file) /\ Edge(tail.offset)
    /\ \A p \in Poll : InHand(p)
    /\ (\A p \in Poll : polls[p].pc # "close") => Told(tail.offset)

LogInv == LogTyped /\ Generations /\ Quiet /\ Followed

LEMMA LogStarts == Log!Init => LogInv
<1> SUFFICES ASSUME Log!Init PROVE LogInv
  OBVIOUS
<1>1. LogTyped
  <2>1. <<>> \in Seq(Log!Line) /\ <<"bound", "client">> \in Seq(Log!Line) /\ <<"exiting">> \in Seq(Log!Line)
    BY DEF Log!Line, Log!Milestone
  <2>2. file \in LogFile /\ boot \in Nat
    <3>1. file = Log!NoFile \/ \E t \in Seq(Log!Line) : file = [inode |-> 1, lines |-> t, half |-> FALSE]
      BY <2>1 DEF Log!Init
    <3>2. Log!NoFile \in LogFile /\ Log!NoFile.inode = 0
      BY <2>1 DEF LogFile, Log!NoFile
    <3>3. \A t \in Seq(Log!Line) : /\ [inode |-> 1, lines |-> t, half |-> FALSE] \in LogFile
                                   /\ [inode |-> 1, lines |-> t, half |-> FALSE].inode = 1
      BY DEF LogFile
    <3>4. boot = file.inode
      BY DEF Log!Init
    <3> HIDE DEF LogFile
    <3> QED BY <3>1, <3>2, <3>3, <3>4
  <2>3. Log!Unseen(0, 0) \in SeenType
    BY DEF Log!Unseen, SeenType
  <2>4. Log!Idle \in Telling
    BY <2>1 DEF Log!Idle, Telling
  <2> QED BY <2>2, <2>3, <2>4 DEF Log!Init, LogTyped
<1>2. Generations
  BY DEF Log!Init, Generations, Log!NoFile
<1>3. Quiet
  BY DEF Log!Init, Quiet, Free
<1>4. Followed
  BY DEF Log!Init, Followed, Follows
<1> QED BY <1>1, <1>2, <1>3, <1>4 DEF LogInv

(* The tail starts at the end of what an earlier editor wrote.               *)
LEMMA LogAnchor == ASSUME LogInv, Log!Anchor PROVE LogInv'
<1> USE DEF LogInv, Log!Anchor
<1>1. LogTyped'
  BY LogSize DEF LogTyped, LogFile
<1>2. Generations'
  BY DEF Generations, LogTyped
<1>3. Quiet'
  BY DEF Quiet, Free, LogTyped
<1>4. Followed'
  <2> SUFFICES ASSUME Follows' PROVE Followed'
    BY DEF Followed
  <2>1. /\ tail'.offset = Log!Size(file) /\ history'.seed = Log!Size(file) /\ file' = file
        /\ seen' = seen /\ polls' = polls /\ boot' = boot /\ Log!Size(file) \in Nat
    BY LogSize DEF LogTyped
  <2>2. Told(tail.offset)'
    <3>1. Log!Between(file', history'.seed, tail'.offset) = Log!Between(file, Log!Size(file), Log!Size(file))
      BY <2>1
    <3>2. seen \in {Log!Unseen(0, 0), Log!Unseen(1, 0)}
      BY DEF Quiet
    <3>3. \A l : /\ ~Log!Has(Log!Between(file, Log!Size(file), Log!Size(file)), l)
                 /\ Log!Count(Log!Between(file, Log!Size(file), Log!Size(file)), l) = 0
      BY <2>1, BetweenSame DEF LogTyped
    <3>4. Known(seen', Log!Between(file', history'.seed, tail'.offset), boot')
      BY <2>1, <3>1, <3>2, <3>3 DEF Known, Log!Unseen
    <3> QED BY <3>4 DEF Told
  <2>3. \A p \in Poll : InHand(p)'
    BY <2>1 DEF Quiet, Free, InHand, Log!Idle
  <2> QED BY <2>1, <2>2, <2>3 DEF Followed, Edge
<1> QED BY <1>1, <1>2, <1>3, <1>4

LEMMA TellingIs ==
  /\ \A c \in {"idle", "open", "read", "close"}, n, t, o \in Nat, e \in Seq(Log!Line) :
       [pc |-> c, size |-> n, took |-> t, slice |-> e, of |-> o] \in Telling
  /\ \A w \in Telling : [w EXCEPT !.pc = "close"] \in Telling
BY DEF Telling

LEMMA OpenedIs ==
  ASSUME NEW n \in Nat, NEW w, w = [Log!Idle EXCEPT !.pc = "open", !.size = n]
  PROVE  w \in Telling /\ w.pc = "open"
<1>1. <<>> \in Seq(Log!Line)
  OBVIOUS
<1>2. w = [pc |-> "open", size |-> n, took |-> 0, slice |-> <<>>, of |-> 0]
  BY DEF Log!Idle
<1>3. ASSUME NEW e \in Seq(Log!Line)
      PROVE  [pc |-> "open", size |-> n, took |-> 0, slice |-> e, of |-> 0] \in Telling
  BY DEF Telling
<1>4. w \in Telling
  BY <1>1, <1>2, <1>3, Zenon
<1> QED BY <1>2, <1>4

(* A look that finds more to read, or a new log, whose tail starts anew.     *)
LEMMA LogStat == ASSUME LogInv, NEW p \in Poll, Log!Stat(p) PROVE LogInv'
<1> USE DEF LogInv
<1>1. CASE file.inode = 0
  <2>1. /\ tail' = [tail EXCEPT !.offset = 0] /\ tail.timer = "on"
        /\ UNCHANGED <<file, boot, seen, polls, history>>
    BY <1>1 DEF Log!Stat
  <2>2. LogTyped' /\ Generations' /\ Quiet'
    BY <2>1 DEF LogTyped, Generations, Quiet, Free
  <2>3. ~Follows'
    BY <1>1, <2>1 DEF Follows, Log!Trusted, LogTyped
  <2> QED BY <2>2, <2>3 DEF Followed
<1>2. CASE file.inode # 0 /\ Log!NewGeneration
  <2>1. /\ tail.timer = "on" /\ Free(p) /\ UNCHANGED <<file, boot>>
        /\ tail' = [tail EXCEPT !.inode = file.inode, !.offset = 0]
        /\ seen' = Log!Unseen(1, 0)
        /\ history' = [history EXCEPT !.seed = 0, !.crossed = history.crossed \/ \E q \in Poll : ~Free(q)]
        /\ \/ polls' = polls
           \/ \E w \in Telling : w.pc = "open" /\ polls' = [polls EXCEPT ![p] = w]
    <3>1. [Log!Idle EXCEPT !.pc = "open", !.size = Log!Size(file)] \in Telling
          /\ [Log!Idle EXCEPT !.pc = "open", !.size = Log!Size(file)].pc = "open"
      BY LogSize, OpenedIs DEF LogTyped
    <3> DEFINE w == [Log!Idle EXCEPT !.pc = "open", !.size = Log!Size(file)]
    <3>2. polls' = polls \/ polls' = [polls EXCEPT ![p] = w]
      BY <1>2 DEF Log!Stat
    <3> HIDE DEF w
    <3>3. polls' = polls \/ \E v \in Telling : v.pc = "open" /\ polls' = [polls EXCEPT ![p] = v]
      BY <3>1, <3>2 DEF w
    <3> QED BY <1>2, <3>3, LogSize DEF Log!Stat, Log!Rebind, Log!Forget, Free, LogTyped
  <2>2. LogTyped'
    <3>1. Log!Unseen(1, 0) \in SeenType
      BY DEF Log!Unseen, SeenType
    <3>2. polls' \in [Poll -> Telling]
      BY <2>1 DEF LogTyped
    <3>3. file.inode \in Nat
      BY DEF LogTyped, LogFile
    <3> QED BY <2>1, <3>1, <3>2, <3>3 DEF LogTyped
  <2>3. Generations'
    BY <2>1 DEF Generations, LogTyped
  <2>4. Quiet'
    BY <2>1 DEF Quiet, Free, LogTyped, Log!Idle
  <2>5. Followed'
    <3> SUFFICES ASSUME Follows' PROVE Followed'
      BY DEF Followed
    <3>1. history'.seed = 0 /\ tail'.offset = 0 /\ file' = file /\ boot' = boot /\ 0 <= Log!Size(file)
      BY <2>1, LogSize DEF LogTyped
    <3>2. \A q \in Poll : polls[q] = Log!Idle
      BY <2>1 DEF Follows, Log!Trusted, LogTyped, Free
    <3>3. \A q \in Poll : polls'[q].pc \in {"idle", "open"}
      BY <2>1, <3>2 DEF Log!Idle, LogTyped
    <3>4. Told(tail.offset)'
      <4>1. \A l : /\ ~Log!Has(Log!Between(file, 0, 0), l)
                   /\ Log!Count(Log!Between(file, 0, 0), l) = 0
        BY <3>1, BetweenSame DEF LogTyped
      <4>2. Known(Log!Unseen(1, 0), Log!Between(file, 0, 0), boot)
        BY <4>1 DEF Known, Log!Unseen
      <4> QED BY <2>1, <3>1, <4>2 DEF Told
    <3> QED BY <3>1, <3>3, <3>4 DEF Followed, Edge, InHand
  <2> QED BY <2>2, <2>3, <2>4, <2>5
<1>3. CASE file.inode # 0 /\ ~Log!NewGeneration
  <2> DEFINE o == IF Log!Size(file) < tail.offset THEN 0 ELSE tail.offset
  <2>1. /\ tail.timer = "on" /\ Free(p) /\ UNCHANGED <<file, boot, seen>>
        /\ tail' = [tail EXCEPT !.offset = o]
        /\ history' = [history EXCEPT !.crossed = history.crossed \/ \E q \in Poll : ~Free(q)]
        /\ \/ polls' = polls
           \/ \E w \in Telling : w.pc = "open" /\ polls' = [polls EXCEPT ![p] = w]
    <3>1. [Log!Idle EXCEPT !.pc = "open", !.size = Log!Size(file)] \in Telling
          /\ [Log!Idle EXCEPT !.pc = "open", !.size = Log!Size(file)].pc = "open"
      BY LogSize, OpenedIs DEF LogTyped
    <3> DEFINE w == [Log!Idle EXCEPT !.pc = "open", !.size = Log!Size(file)]
    <3>2. polls' = polls \/ polls' = [polls EXCEPT ![p] = w]
      BY <1>3 DEF Log!Stat
    <3> HIDE DEF w
    <3>3. polls' = polls \/ \E v \in Telling : v.pc = "open" /\ polls' = [polls EXCEPT ![p] = v]
      BY <3>1, <3>2 DEF w
    <3> QED BY <1>3, <3>3, LogSize DEF Log!Stat, Log!Rebind, Log!Forget, Free, LogTyped
  <2>2. LogTyped'
    <3>1. polls' \in [Poll -> Telling]
      BY <2>1 DEF LogTyped
    <3> QED BY <2>1, <3>1 DEF LogTyped
  <2>3. Generations'
    BY <2>1 DEF Generations, LogTyped
  <2>4. Quiet'
    BY <2>1 DEF Quiet, Free, LogTyped, Log!Idle
  <2>5. Followed'
    <3> SUFFICES ASSUME Follows' PROVE Followed'
      BY DEF Followed
    <3>1. Follows /\ \A q \in Poll : polls[q] = Log!Idle
      BY <1>3, <2>1 DEF Follows, Log!Trusted, Log!NewGeneration, LogTyped, Free
    <3>2. /\ history.seed <= tail.offset /\ tail.offset <= Log!Size(file) /\ Edge(tail.offset)
          /\ Told(tail.offset)
      BY <3>1 DEF Followed, Log!Idle
    <3>3. /\ tail'.offset = tail.offset /\ history'.seed = history.seed
          /\ file' = file /\ boot' = boot /\ seen' = seen
      BY <2>1, <3>2, LogSize DEF LogTyped
    <3>4. \A q \in Poll : polls'[q].pc \in {"idle", "open"}
      BY <2>1, <3>1 DEF Log!Idle, LogTyped
    <3> QED BY <3>2, <3>3, <3>4 DEF Followed, Edge, InHand, Told
  <2> QED BY <2>2, <2>3, <2>4, <2>5
<1> QED BY <1>1, <1>2, <1>3

(* A read takes whole lines that follow what is known.                       *)
LEMMA LogRead == ASSUME LogInv, NEW p \in Poll, Log!Read(p) PROVE LogInv'
<1> USE DEF LogInv
<1> DEFINE to  == IF Log!Size(file) < polls[p].size THEN Log!Size(file) ELSE polls[p].size
           end == 2 * (to \div 2)
<1>1. polls[p].pc = "open" /\ UNCHANGED <<file, boot, tail, seen, history>>
  BY DEF Log!Read
<1>2. to \in Nat /\ to <= Log!Size(file)
  BY LogSize DEF LogTyped, Telling
<1>3. end \in Nat /\ end <= Log!Size(file) /\ end % 2 = 0
  <2> HIDE DEF to
  <2> QED BY <1>2, LogSize DEF LogTyped
<1>4. \/ polls' = [polls EXCEPT ![p] = Log!Idle]
      \/ /\ tail.offset < end
         /\ polls' = [polls EXCEPT ![p] =
              [pc |-> "read", size |-> 0, took |-> end - tail.offset,
               slice |-> Log!Between(file, tail.offset, end), of |-> boot]]
  <2>1. /\ tail.offset \in Nat
        /\ polls' = [polls EXCEPT ![p] =
             IF file.inode = 0 \/ end <= tail.offset THEN Log!Idle
             ELSE [pc |-> "read", size |-> 0, took |-> end - tail.offset,
                   slice |-> Log!Between(file, tail.offset, end), of |-> boot]]
    BY DEF Log!Read, Log!Taken, LogTyped
  <2> DEFINE r == [pc |-> "read", size |-> 0, took |-> end - tail.offset,
                   slice |-> Log!Between(file, tail.offset, end), of |-> boot]
  <2>2. polls' = [polls EXCEPT ![p] = IF file.inode = 0 \/ end <= tail.offset THEN Log!Idle ELSE r]
    BY <2>1
  <2> HIDE DEF r, end
  <2>3. polls' = [polls EXCEPT ![p] = Log!Idle] \/ (tail.offset < end /\ polls' = [polls EXCEPT ![p] = r])
    <3>1. CASE file.inode = 0 \/ end <= tail.offset
      BY <2>2, <3>1
    <3>2. CASE ~(file.inode = 0 \/ end <= tail.offset)
      <4>1. polls' = [polls EXCEPT ![p] = r]
        BY <2>2, <3>2
      <4>2. tail.offset \in Nat /\ end \in Nat /\ ~(end <= tail.offset)
        BY <1>3, <2>1, <3>2
      <4> QED BY <4>1, <4>2
    <3> QED BY <3>1, <3>2
  <2> QED BY <2>3 DEF r
<1> HIDE DEF to, end
<1>5. LogTyped'
  <2>1. Log!Idle \in Telling
    BY DEF Log!Idle, Telling
  <2>2. Log!Between(file, tail.offset, end) \in Seq(Log!Line)
    BY <1>3, BetweenIsText DEF LogTyped
  <2>3. tail.offset < end => end - tail.offset \in Nat
    BY <1>3 DEF LogTyped
  <2>4. ASSUME tail.offset < end
        PROVE  [pc |-> "read", size |-> 0, took |-> end - tail.offset,
                slice |-> Log!Between(file, tail.offset, end), of |-> boot] \in Telling
    BY <2>2, <2>3, <2>4 DEF Telling, LogTyped
  <2>5. polls' \in [Poll -> Telling]
    BY <1>4, <2>1, <2>4 DEF LogTyped
  <2> QED BY <1>1, <2>5 DEF LogTyped
<1>6. Generations'
  BY <1>1 DEF Generations
<1>7. Quiet'
  BY <1>1, <1>4 DEF Quiet, Free, LogTyped, Log!Idle
<1>8. Followed'
  <2> SUFFICES ASSUME Follows' PROVE Followed'
    BY DEF Followed
  <2>1. Follows /\ \A q \in Poll \ {p} : polls[q] = Log!Idle
    BY <1>1 DEF Follows, Log!Trusted, Quiet, Free, Log!Idle
  <2>2. /\ history.seed <= tail.offset /\ tail.offset <= Log!Size(file) /\ Edge(tail.offset)
        /\ Told(tail.offset)
    BY <1>1, <2>1 DEF Followed, Log!Idle
  <2>3. Told(tail.offset)'
    BY <1>1, <2>2 DEF Told
  <2>4. ASSUME NEW q \in Poll PROVE InHand(q)'
    <3>1. CASE q # p \/ polls' = [polls EXCEPT ![p] = Log!Idle]
      BY <1>4, <2>1, <3>1 DEF InHand, Log!Idle, LogTyped
    <3>2. CASE q = p /\ polls' # [polls EXCEPT ![p] = Log!Idle]
      <4>1. /\ polls'[p].pc = "read" /\ polls'[p].of = boot /\ tail.offset + polls'[p].took = end
            /\ polls'[p].slice = Log!Between(file, tail.offset, end)
        BY <1>3, <1>4, <3>2 DEF LogTyped
      <4> QED BY <1>1, <1>3, <3>2, <4>1 DEF InHand, ToBeTaken
    <3> QED BY <3>1, <3>2
  <2> QED BY <1>1, <2>2, <2>3, <2>4 DEF Followed, Edge
<1> QED BY <1>5, <1>6, <1>7, <1>8

(* The offset moves behind what was taken; it is not known yet.              *)
LEMMA LogTake == ASSUME LogInv, NEW p \in Poll, Log!Take(p) PROVE LogInv'
<1> USE DEF LogInv
<1>1. /\ polls[p].pc = "read" /\ polls' = [polls EXCEPT ![p].pc = "close"]
      /\ tail' = [tail EXCEPT !.offset = tail.offset + polls[p].took]
      /\ UNCHANGED <<file, boot, seen, history>>
  BY DEF Log!Take, LogTyped
<1>2. polls[p] \in Telling /\ polls[p].took \in Nat
  BY DEF LogTyped, Telling
<1>3. LogTyped'
  <2>1. polls' \in [Poll -> Telling]
    BY <1>1, <1>2, TellingIs DEF LogTyped
  <2> QED BY <1>1, <1>2, <2>1 DEF LogTyped
<1>4. Generations'
  BY <1>1 DEF Generations, LogTyped
<1>5. Quiet'
  BY <1>1 DEF Quiet, Free, LogTyped, Telling, Log!Idle
<1>6. Followed'
  <2> SUFFICES ASSUME Follows' PROVE Followed'
    BY DEF Followed
  <2>1. Follows /\ \A q \in Poll \ {p} : polls[q] = Log!Idle
    BY <1>1 DEF Follows, Log!Trusted, Quiet, Free, Log!Idle, LogTyped
  <2>2. /\ history.seed <= tail.offset /\ tail.offset <= Log!Size(file) /\ Edge(tail.offset)
        /\ Told(tail.offset) /\ polls[p].of = boot /\ ToBeTaken(p)
    BY <1>1, <2>1 DEF Followed, Log!Idle, InHand
  <2> DEFINE u == tail.offset + polls[p].took
  <2>3. /\ u \in Nat /\ tail.offset <= u /\ u <= Log!Size(file) /\ u % 2 = 0
        /\ polls[p].slice = Log!Between(file, tail.offset, u)
    BY <1>2, <2>2 DEF ToBeTaken, LogTyped
  <2>4. /\ tail'.offset = u /\ polls'[p].pc = "close" /\ polls'[p].of = boot
        /\ polls'[p].slice = Log!Between(file, tail.offset, u)
    BY <1>1, <2>2, <2>3 DEF LogTyped, Telling
  <2>5. tail.offset \in Nat /\ history.seed \in Nat
    BY DEF LogTyped
  <2> HIDE DEF u
  <2>6. ToBeScanned(p)'
    <3>1. Told(tail.offset) /\ Edge(tail.offset) /\ history.seed <= tail.offset
      BY <2>2
    <3>2. /\ history'.seed <= tail.offset /\ tail.offset <= tail'.offset
          /\ (tail.offset = history'.seed \/ tail.offset % 2 = 0)
          /\ polls'[p].slice = Log!Between(file', tail.offset, tail'.offset)
          /\ Known(seen', Log!Between(file', history'.seed, tail.offset), boot')
      BY <1>1, <2>3, <2>4, <3>1 DEF Told, Edge
    <3> QED BY <2>5, <3>2 DEF ToBeScanned, Edge, Told
  <2>7. InHand(p)'
    BY <1>1, <2>3, <2>4, <2>6 DEF InHand
  <2>8. \A q \in Poll : q # p => InHand(q)'
    BY <1>1, <2>1 DEF InHand, Log!Idle, LogTyped
  <2>9. history'.seed <= tail'.offset /\ tail'.offset <= Log!Size(file') /\ Edge(tail.offset)'
    BY <1>1, <2>2, <2>3, <2>4, <2>5 DEF Edge
  <2> QED BY <2>4, <2>7, <2>8, <2>9 DEF Followed
<1> QED BY <1>3, <1>4, <1>5, <1>6

(* The scan makes it known.                                                 *)
LEMMA LogScan == ASSUME LogInv, NEW p \in Poll, Log!Scan(p) PROVE LogInv'
<1> USE DEF LogInv
<1>1. /\ polls[p].pc = "close" /\ polls' = [polls EXCEPT ![p] = Log!Idle]
      /\ seen' = Log!Scanned(seen, polls[p].slice, polls[p].of)
      /\ tail' = tail \/ tail' = [tail EXCEPT !.timer = "off"]
      /\ UNCHANGED <<file, boot, history>>
  BY DEF Log!Scan
<1>2. LogTyped'
  <2>1. seen' \in SeenType
    BY <1>1, ScanTyped DEF LogTyped, Telling
  <2>2. polls' \in [Poll -> Telling]
    BY <1>1 DEF LogTyped, Log!Idle, Telling
  <2> QED BY <1>1, <2>1, <2>2 DEF LogTyped
<1>3. Generations'
  BY <1>1 DEF Generations, LogTyped
<1>4. Quiet'
  <2>1. tail'.timer # "starting"
    BY <1>1 DEF Quiet, Free, LogTyped, Log!Idle
  <2>2. \A q \in Poll : polls'[q] = IF q = p THEN Log!Idle ELSE polls[q]
    BY <1>1 DEF LogTyped
  <2> QED BY <1>1, <2>1, <2>2 DEF Quiet, Free
<1>5. Followed'
  <2> SUFFICES ASSUME Follows' PROVE Followed'
    BY DEF Followed
  <2>1. Follows /\ tail' = tail /\ \A q \in Poll \ {p} : polls[q] = Log!Idle
    BY <1>1 DEF Follows, Log!Trusted, Quiet, Free, Log!Idle, LogTyped
  <2>2. /\ history.seed <= tail.offset /\ tail.offset <= Log!Size(file) /\ Edge(tail.offset)
        /\ polls[p].of = boot /\ tail.offset % 2 = 0 /\ ToBeScanned(p)
    BY <1>1, <2>1 DEF Followed, InHand
  <2>3. PICK from \in Nat :
          /\ history.seed <= from /\ from <= tail.offset /\ Edge(from)
          /\ polls[p].slice = Log!Between(file, from, tail.offset) /\ Told(from)
    BY <2>2 DEF ToBeScanned
  <2>4. boot \in Nat \ {0} /\ tail.offset \in Nat /\ history.seed \in Nat /\ file \in LogFile /\ seen \in SeenType
    BY <2>1 DEF Follows, Log!Trusted, Generations, LogTyped
  <2>5. Told(tail.offset)'
    <3>1. history.seed = from \/ from % 2 = 0
      BY <2>3 DEF Edge
    <3>2. \A l : /\ Log!Has(Log!Between(file, history.seed, tail.offset), l)
                      <=> \/ Log!Has(Log!Between(file, history.seed, from), l)
                          \/ Log!Has(Log!Between(file, from, tail.offset), l)
                 /\ Log!Count(Log!Between(file, history.seed, tail.offset), l)
                      = Log!Count(Log!Between(file, history.seed, from), l)
                        + Log!Count(Log!Between(file, from, tail.offset), l)
      BY <2>2, <2>3, <2>4, <3>1, Joined
    <3>3. Known(seen, Log!Between(file, history.seed, from), boot)
      BY <2>3 DEF Told
    <3>4. Known(Log!Scanned(seen, polls[p].slice, boot), Log!Between(file, history.seed, tail.offset), boot)
      BY <2>3, <2>4, <3>2, <3>3, ScanTells
    <3> QED BY <1>1, <2>1, <2>2, <3>4 DEF Told
  <2>6. \A q \in Poll : InHand(q)'
    BY <1>1, <2>1 DEF InHand, Log!Idle, LogTyped
  <2> QED BY <1>1, <2>1, <2>2, <2>5, <2>6 DEF Followed, Edge
<1> QED BY <1>2, <1>3, <1>4, <1>5

(* A round throws away what was known, and says so.                          *)
LEMMA LogRounds == ASSUME LogInv, Log!RespawnRound \/ Log!EvictRound PROVE LogInv'
<1> USE DEF LogInv
<1>1. /\ seen' = Log!Unseen(seen.stage, seen.bind) \/ seen' = Log!Unseen(1, seen.bind)
      /\ history' = [history EXCEPT !.asked = TRUE] /\ UNCHANGED <<file, boot, tail, polls>>
  BY DEF Log!RespawnRound, Log!EvictRound, Log!Rounds
<1>2. LogTyped'
  <2>1. \A k, n \in Nat : Log!Unseen(k, n) \in SeenType
    BY DEF Log!Unseen, SeenType
  <2>2. seen.stage \in Nat /\ seen.bind \in Nat
    BY DEF LogTyped, SeenType
  <2>3. seen' \in SeenType
    BY <1>1, <2>1, <2>2
  <2> QED BY <1>1, <2>3 DEF LogTyped
<1>3. Generations'
  BY <1>1 DEF Generations, LogTyped
<1>4. Quiet'
  <2>1. tail.timer = "starting" => seen' \in {Log!Unseen(0, 0), Log!Unseen(1, 0)}
    BY <1>1 DEF Quiet, Log!Unseen
  <2> QED BY <1>1, <2>1 DEF Quiet, Free, LogTyped
<1>5. Followed'
  BY <1>1 DEF Followed, Follows, LogTyped
<1> QED BY <1>2, <1>3, <1>4, <1>5

(* What the handshake and the gate add is above what the log can say.         *)
LEMMA LogHigher == ASSUME LogInv, Log!Initialized \/ Log!Warms PROVE LogInv'
<1> USE DEF LogInv
<1>1. PICK k \in {6, 7} : seen' = [seen EXCEPT !.stage = k]
  BY DEF Log!Initialized, Log!Warms
<1>2. UNCHANGED <<file, boot, tail, polls, history>>
  BY DEF Log!Initialized, Log!Warms
<1>3. tail.timer # "starting"
  BY DEF Log!Initialized, Log!Warms, Log!Gate, Quiet, Log!Unseen, Log!Milestone
<1>4. LogTyped'
  BY <1>1, <1>2 DEF LogTyped, SeenType
<1>5. Generations'
  BY <1>2 DEF Generations
<1>6. Quiet'
  BY <1>2, <1>3 DEF Quiet, Free
<1>7. Followed'
  <2> SUFFICES ASSUME Follows' PROVE Followed'
    BY DEF Followed
  <2>1. Follows
    BY <1>2 DEF Follows, Log!Trusted
  <2>2. ASSUME NEW u, Told(u) PROVE Known(seen', Log!Between(file, history.seed, u), boot)
    <3>1. /\ seen'.at = seen.at /\ seen'.received = seen.received /\ seen'.bind = seen.bind
          /\ seen'.stage = k
      BY <1>1 DEF LogTyped, SeenType
    <3> QED BY <2>2, <3>1, OrdinalIs DEF Told, Known
  <2>3. \A p \in Poll : InHand(p)'
    <3> SUFFICES ASSUME NEW p \in Poll PROVE InHand(p)'
      OBVIOUS
    <3>1. InHand(p)
      BY <2>1 DEF Followed
    <3>2. ToBeTaken(p) => ToBeTaken(p)'
      BY <1>2 DEF ToBeTaken
    <3>3. ToBeScanned(p) => ToBeScanned(p)'
      <4> SUFFICES ASSUME ToBeScanned(p) PROVE ToBeScanned(p)'
        OBVIOUS
      <4>1. PICK from \in Nat :
              /\ history.seed <= from /\ from <= tail.offset /\ Edge(from)
              /\ polls[p].slice = Log!Between(file, from, tail.offset) /\ Told(from)
        BY DEF ToBeScanned
      <4>2. Told(from)' /\ Edge(from)'
        BY <1>2, <2>2, <4>1 DEF Told, Edge
      <4> QED BY <1>2, <4>1, <4>2 DEF ToBeScanned
    <3> QED BY <1>2, <3>1, <3>2, <3>3 DEF InHand
  <2>4. (\A p \in Poll : polls'[p].pc # "close") => Told(tail.offset)'
    BY <1>2, <2>1, <2>2 DEF Followed, Told
  <2>5. (history.seed <= tail.offset /\ tail.offset <= Log!Size(file) /\ Edge(tail.offset))'
    BY <1>2, <2>1 DEF Followed, Edge
  <2> QED BY <2>3, <2>4, <2>5 DEF Followed
<1> QED BY <1>4, <1>5, <1>6, <1>7

(* The log goes, or a new boot's comes: the tail is another log's.            *)
LEMMA LogReplaced == ASSUME LogInv, Log!Remove \/ Log!Create PROVE LogInv'
<1> USE DEF LogInv
<1>1. CASE Log!Remove
  <2>1. file' = Log!NoFile /\ UNCHANGED <<boot, history, tail, seen, polls>>
    BY <1>1 DEF Log!Remove, Log!Others
  <2>2. file'.inode = 0 /\ file' \in LogFile
    BY <2>1 DEF Log!NoFile, LogFile
  <2>3. LogTyped'
    BY <2>1, <2>2 DEF LogTyped
  <2>4. Generations'
    BY <2>1, <2>2 DEF Generations, LogTyped
  <2>5. Quiet'
    BY <2>1 DEF Quiet, Free
  <2>6. Followed'
    BY <2>1, <2>2 DEF Followed, Follows, Log!Trusted
  <2> QED BY <2>3, <2>4, <2>5, <2>6
<1>2. CASE Log!Create
  <2>1. PICK i \in {boot + 1} \cup ({boot} \ {0}) :
          /\ file' = [Log!NoFile EXCEPT !.inode = i] /\ boot' = boot + 1
          /\ history' = [history EXCEPT !.asked = FALSE, !.reused = history.reused \/ i = boot]
          /\ UNCHANGED <<tail, seen, polls>>
    BY <1>2 DEF Log!Create, Log!Others
  <2>2. /\ i \in Nat /\ i # 0 /\ boot \in Nat /\ boot' = boot + 1
        /\ i = boot + 1 \/ (i = boot /\ history'.reused)
    <3>1. boot \in Nat /\ boot' = boot + 1 /\ history'.reused = (history.reused \/ i = boot)
      BY <2>1 DEF LogTyped
    <3>2. i = boot + 1 \/ (i = boot /\ boot # 0)
      OBVIOUS
    <3>3. i = boot => history'.reused
      BY <3>1, Zenon
    <3>4. i \in Nat /\ i # 0
      BY <3>1, <3>2
    <3> QED BY <3>1, <3>2, <3>3, <3>4
  <2>3. file' = [inode |-> i, lines |-> <<>>, half |-> FALSE]
    BY <2>1 DEF Log!NoFile
  <2> HIDE <2>1
  <2>4. file'.inode = i
    BY <2>3
  <2>5. file' \in LogFile
    <3>1. ASSUME NEW e \in Seq(Log!Line) PROVE [inode |-> i, lines |-> e, half |-> FALSE] \in LogFile
      BY <2>2 DEF LogFile
    <3>2. <<>> \in Seq(Log!Line)
      OBVIOUS
    <3> QED BY <2>3, <3>1, <3>2, Zenon
  <2>6. history' \in [crossed : BOOLEAN, reused : BOOLEAN, seed : Nat, asked : BOOLEAN]
    BY <2>1 DEF LogTyped
  <2>7. LogTyped'
    BY <2>1, <2>2, <2>5, <2>6 DEF LogTyped
  <2>8. Generations'
    BY <2>1, <2>2, <2>4 DEF Generations, LogTyped, LogFile
  <2>9. Quiet'
    BY <2>1 DEF Quiet, Free, LogTyped
  <2>10. Followed'
    <3>1. tail' = tail /\ tail.inode \in Nat /\ tail.inode <= boot
      BY <2>1 DEF Generations, LogTyped
    <3>2. ~Follows'
      BY <2>2, <2>4, <3>1 DEF Follows, Log!Trusted
    <3> QED BY <3>2 DEF Followed
  <2> QED BY <2>7, <2>8, <2>9, <2>10
<1> QED BY <1>1, <1>2

(* The editor writes on.                                                    *)
LEMMA LogWritten ==
  ASSUME LogInv, file' \in LogFile, Longer(file, file'), file'.inode = file.inode,
         file.inode # 0, UNCHANGED <<boot, history, tail, seen, polls>>
  PROVE  LogInv'
<1> USE DEF LogInv
<1>1. LogTyped'
  BY DEF LogTyped
<1>2. Generations'
  BY DEF Generations
<1>3. Quiet'
  BY DEF Quiet, Free
<1>4. Followed'
  <2> SUFFICES ASSUME Follows' PROVE Followed'
    BY DEF Followed
  <2>1. Follows
    BY DEF Follows, Log!Trusted
  <2>2. \A a, b \in Nat : b <= Log!Size(file) =>
          Log!Between(file', a, b) = Log!Between(file, a, b) /\ b <= Log!Size(file')
    BY LongerSays DEF LogTyped
  <2>3. /\ history.seed \in Nat /\ tail.offset \in Nat /\ Log!Size(file) \in Nat
        /\ history.seed <= tail.offset /\ tail.offset <= Log!Size(file) /\ Edge(tail.offset)
    BY <2>1, LogSize DEF Followed, LogTyped
  <2>4. ASSUME NEW u \in Nat, u <= Log!Size(file), Told(u) PROVE Told(u)'
    BY <2>2, <2>3, <2>4 DEF Told
  <2>5. \A p \in Poll : InHand(p)'
    <3> SUFFICES ASSUME NEW p \in Poll PROVE InHand(p)'
      OBVIOUS
    <3>1. InHand(p)
      BY <2>1 DEF Followed
    <3>2. ToBeTaken(p) => ToBeTaken(p)'
      <4>1. tail.offset + polls[p].took \in Nat
        BY DEF LogTyped, Telling
      <4> QED BY <2>2, <2>3, <4>1 DEF ToBeTaken
    <3>3. ToBeScanned(p) => ToBeScanned(p)'
      <4> SUFFICES ASSUME ToBeScanned(p) PROVE ToBeScanned(p)'
        OBVIOUS
      <4>1. PICK from \in Nat :
              /\ history.seed <= from /\ from <= tail.offset /\ Edge(from)
              /\ polls[p].slice = Log!Between(file, from, tail.offset) /\ Told(from)
        BY DEF ToBeScanned
      <4>2. from <= Log!Size(file)
        BY <2>3, <4>1
      <4>3. Told(from)' /\ Edge(from)'
        BY <2>4, <4>1, <4>2 DEF Edge
      <4>4. Log!Between(file', from, tail.offset) = Log!Between(file, from, tail.offset)
        BY <2>2, <2>3
      <4> QED BY <4>1, <4>3, <4>4 DEF ToBeScanned
    <3> QED BY <3>1, <3>2, <3>3 DEF InHand
  <2>6. (\A p \in Poll : polls'[p].pc # "close") => Told(tail.offset)'
    BY <2>1, <2>3, <2>4 DEF Followed
  <2>7. (history.seed <= tail.offset /\ tail.offset <= Log!Size(file) /\ Edge(tail.offset))'
    BY <2>2, <2>3 DEF Edge
  <2> QED BY <2>5, <2>6, <2>7 DEF Followed
<1> QED BY <1>1, <1>2, <1>3, <1>4

LEMMA LogWrites == ASSUME LogInv, Log!Begin \/ Log!End PROVE LogInv'
<1>1. /\ file \in LogFile /\ file.lines \in Seq(Log!Line) /\ Len(file.lines) \in Nat
      /\ file.half \in BOOLEAN /\ file.inode \in Nat
  BY DEF LogInv, LogTyped, LogFile
<1>2. CASE Log!Begin
  <2>1. /\ file.inode # 0 /\ ~file.half /\ file' = [file EXCEPT !.half = TRUE]
        /\ UNCHANGED <<boot, history, tail, seen, polls>>
    BY <1>2 DEF Log!Begin, Log!Others
  <2>2. file'.inode = file.inode /\ file'.lines = file.lines /\ file'.half /\ file' \in LogFile
    BY <1>1, <2>1 DEF LogFile
  <2>3. Log!Size(file) = 2 * Len(file.lines) /\ Log!Size(file') = 2 * Len(file.lines) + 1
    BY <1>1, <2>1, <2>2 DEF Log!Size
  <2>4. Longer(file, file')
    BY <1>1, <2>2, <2>3 DEF Longer
  <2> QED BY <2>1, <2>2, <2>4, LogWritten
<1>3. CASE Log!End
  <2>1. PICK l \in Log!Line :
          /\ file.half /\ file' = [file EXCEPT !.lines = Append(file.lines, l), !.half = FALSE]
          /\ UNCHANGED <<boot, history, tail, seen, polls>>
    BY <1>3 DEF Log!End, Log!Others
  <2>2. file.inode # 0
    BY <2>1 DEF LogInv, Generations, Log!NoFile
  <2>3. /\ Append(file.lines, l) \in Seq(Log!Line)
        /\ Len(Append(file.lines, l)) = Len(file.lines) + 1
        /\ \A i \in 1 .. Len(file.lines) : Append(file.lines, l)[i] = file.lines[i]
    BY <1>1
  <2>4. /\ file'.inode = file.inode /\ file'.lines = Append(file.lines, l) /\ ~file'.half
        /\ file' \in LogFile
    BY <1>1, <2>1, <2>3 DEF LogFile
  <2>5. Log!Size(file) = 2 * Len(file.lines) + 1 /\ Log!Size(file') = 2 * (Len(file.lines) + 1)
    BY <1>1, <2>1, <2>3, <2>4 DEF Log!Size
  <2>6. Longer(file, file')
    BY <1>1, <2>3, <2>4, <2>5 DEF Longer
  <2> QED BY <2>1, <2>2, <2>4, <2>6, LogWritten
<1> QED BY <1>2, <1>3

LEMMA LogSteps == LogInv /\ [Log!Next]_Log!logvars => LogInv'
<1> SUFFICES ASSUME LogInv, [Log!Next]_Log!logvars PROVE LogInv'
  OBVIOUS
<1>1. CASE Log!Anchor
  BY <1>1, LogAnchor
<1>2. CASE Log!RespawnRound \/ Log!EvictRound
  BY <1>2, LogRounds
<1>3. CASE Log!Initialized \/ Log!Warms
  BY <1>3, LogHigher
<1>4. ASSUME NEW p \in Poll, Log!Stat(p) \/ Log!Read(p) \/ Log!Take(p) \/ Log!Scan(p) PROVE LogInv'
  BY <1>4, LogStat, LogRead, LogTake, LogScan
<1>5. CASE Log!Remove \/ Log!Create
  BY <1>5, LogReplaced
<1>6. CASE Log!Begin \/ Log!End
  BY <1>6, LogWrites
<1>7. CASE UNCHANGED Log!logvars
  BY <1>7 DEF Log!logvars, LogInv, LogTyped, Generations, Quiet, Free, Followed, Follows, Log!Trusted,
       Edge, InHand, ToBeTaken, ToBeScanned, Told
<1> QED BY <1>1, <1>2, <1>3, <1>4, <1>5, <1>6, <1>7 DEF Log!Next

LEMMA LogTells == LogInv => Log!EvidenceIsOurs
<1> SUFFICES ASSUME LogInv, Log!Trusted /\ Log!Current PROVE Log!EvidenceIsOurs
  BY DEF Log!EvidenceIsOurs
<1> DEFINE read == Log!Between(file, history.seed, tail.offset)
           told == {m \in Log!Milestone : Log!Has(read, m)}
<1>1. Follows /\ \A p \in Poll : polls[p].pc # "close"
  BY DEF Log!Current, Follows, Log!Idle
<1>2. tail.offset <= Log!Size(file) /\ Known(seen, read, boot)
  BY <1>1 DEF LogInv, Followed, Told
<1>3. boot \in Nat \ {0} /\ seen \in SeenType
  BY <1>1 DEF LogInv, LogTyped, Generations, Follows, Log!Trusted
<1>4. \A m \in Log!Milestone : m \in told <=> Log!Has(read, m)
  OBVIOUS
<1>5. told \subseteq Log!Milestone
  OBVIOUS
<1> HIDE DEF read, told
<1>6. seen.at = [m \in Log!Milestone |-> IF m \in told THEN boot ELSE 0]
  BY <1>2, <1>3, <1>4 DEF Known, SeenType
<1>7. Log!Gate <=> "bound" \in told
  BY <1>2, <1>3, <1>4, <1>6, OrdinalIs DEF Log!Gate, Known
<1>8. seen.stage \in {0, 1} \cup {Log!Ordinal[m] : m \in told} \cup {6, 7}
  BY <1>2, <1>4 DEF Known
<1>9. \A m \in told : Log!Ordinal[m] <= seen.stage
  BY <1>2, <1>4, <1>5 DEF Known
<1>10. \A late \in BOOLEAN : Log!Hint(late) = "slot" => "received" \in told /\ "client" \notin told
  <2> SUFFICES ASSUME NEW late \in BOOLEAN, Log!Hint(late) = "slot"
               PROVE  "received" \in told /\ "client" \notin told
    OBVIOUS
  <2>1. Log!Substate(late) \in {"stalled", "pending"} /\ seen.at["received"] # 0
    BY DEF Log!Hint
  <2>2. seen.at["client"] = 0
    BY <2>1 DEF Log!Substate
  <2> QED BY <1>3, <1>6, <2>1, <2>2, OrdinalIs
<1> QED BY <1>2, <1>6, <1>7, <1>8, <1>9, <1>10 DEF Log!EvidenceIsOurs, Known, read, told

(* Unless polls crossed, an inode came back or the log was not there when    *)
(* the monitor started: what the gate of the warm-up and the hints know of   *)
(* the editor is what the log of its boot has said so far (checkLeaseTail,   *)
(* scanStageLines), for any number of polls, boots and lines.                *)
THEOREM EvidenceIsOfThisBoot == Log!Init /\ [][Log!Next]_Log!logvars => []EvidenceIsOurs
<1>1. Log!Init /\ [][Log!Next]_Log!logvars => []LogInv
  BY LogStarts, LogSteps, PTL
<1>2. LogInv => EvidenceIsOurs
  BY LogTells DEF EvidenceIsOurs
<1> QED BY <1>1, <1>2, PTL
=============================================================================
