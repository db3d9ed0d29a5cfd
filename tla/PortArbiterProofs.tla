-------------------------- MODULE PortArbiterProofs --------------------------
(* Ports are exclusive for any number of launchers, runtimes and ports, up   *)
(* to the first step that removes the directory of a living process, and no  *)
(* grant is used by two proxies that live.                                   *)
EXTENDS PortArbiter, TLAPS, WellFoundedInduction

AtPort == {"try", "look", "rm", "remk", "meta", "pid", "granted"}
BeforeLock == {"idle", "lockMk", "lockLook", "lockRm"}

Locked(p)  == Living(p) /\ at[p].pc \notin BeforeLock
Holding(p) == Living(p) /\ at[p].pc \in {"meta", "pid", "granted"}

(* Where a process can be, by what it is; directories are made by processes  *)
(* that were started.                                                      *)
Places ==
  /\ \A p \in Launcher : /\ exe[p] = "node" => at[p].pc = "granted"
                         /\ Living(p) => at[p].pc # "idle"
                         /\ Living(p) /\ at[p].pc \in AtPort => at[p].port \in Port
  /\ \A r \in Runtime, p \in Launcher : lock[r].by = p => exe[p] # "none"
  /\ \A n \in Port, p \in Launcher : grant[n].by = p => exe[p] # "none"

(* The lock of a runtime is the directory of the one launcher past it.       *)
LocksOwned == \A p \in Launcher : Locked(p) => lock[RuntimeOf[p]].by = p
LocksLive ==
  \A r \in Runtime, p \in Launcher : lock[r].by = p /\ Living(p) => Locked(p) /\ RuntimeOf[p] = r

(* A process past the mkdir of a port has that directory and what it has     *)
(* written into it, and no other; while it is bash the directory is young.   *)
GrantsOwned ==
  \A p \in Launcher : Holding(p) =>
    /\ grant[at[p].port].by = p
    /\ at[p].pc # "meta" => grant[at[p].port].meta = RuntimeOf[p]
    /\ at[p].pc = "granted" => grant[at[p].port].pid = p
    /\ exe[p] = "bash" => grant[at[p].port].young
GrantsLive ==
  \A n \in Port, p \in Launcher : grant[n].by = p /\ Living(p) => Holding(p) /\ at[p].port = n
Metas ==
  \A n \in Port, p \in Launcher : grant[n].by = p /\ grant[n].meta # None => grant[n].meta = RuntimeOf[p]

(* What a launcher is about to remove was made by a process that is gone.    *)
Condemned ==
  \A p \in Launcher : Living(p) /\ at[p].pc = "rm" /\ at[p].seen # None => exe[at[p].seen] = "gone"

Sound == LocksOwned /\ LocksLive /\ GrantsOwned /\ GrantsLive /\ Metas /\ Condemned

IInv == TypeOK /\ Places /\ (broken = "no" => Sound)

-----------------------------------------------------------------------------
LEMMA NoneIsNobody == None \notin Launcher /\ None \notin Runtime /\ RuntimeOf \in [Launcher -> Runtime]
BY ArbiterAssumption

(* The least port of a set of ports.                                        *)
LEMMA LeastPort ==
  ASSUME NEW S, S \subseteq Port, S # {}
  PROVE  Min(S) \in S
<1>1. S \subseteq Nat
  BY ArbiterAssumption DEF Port
<1>2. PICK x \in S : \A y \in S : ~ (<<y, x>> \in OpToRel(<, Nat))
  <2>1. IsWellFoundedOn(OpToRel(<, Nat), Nat)
    BY NatLessThanWellFounded
  <2> HIDE DEF Port
  <2> QED BY <2>1, <1>1, WFMin
<1>3. ASSUME NEW y \in S PROVE x <= y
  <2>1. x \in Nat /\ y \in Nat
    BY <1>1
  <2>2. ~ (y < x)
    BY <2>1, <1>2 DEF OpToRel
  <2> QED BY <2>1, <2>2, SMT
<1> QED BY <1>3 DEF Min

(* Where the search for a port goes from a port n.                          *)
LEMMA NextTry ==
  ASSUME TypeOK, NEW p \in Launcher, NEW n \in Nat \ {0}, NEW own \in BOOLEAN
  PROVE  /\ ToPort(p, n, own) \in Position
         /\ ToPort(p, n, own).pc \in {"try", "die"}
         /\ ToPort(p, n, own).pc = "try" => ToPort(p, n, own).port \in Port
<1>1. at[p] \in Position
  BY DEF TypeOK
<1>2. Port \subseteq 0..NPorts /\ 1 \in Port /\ (n <= NPorts => n \in Port) /\ 0 \in 0..NPorts
  BY ArbiterAssumption DEF Port
<1>3. OwnPortsFrom(p, n) # {} => Min(OwnPortsFrom(p, n)) \in Port
  BY LeastPort DEF OwnPortsFrom
<1> QED BY <1>1, <1>2, <1>3 DEF ToPort, Position

-----------------------------------------------------------------------------
(* The directories and positions the steps write are well-typed.             *)

LEMMA Directories ==
  ASSUME NEW p \in Launcher, NEW r \in Runtime, NEW d \in Dir
  PROVE  /\ Absent \in Dir /\ Absent.by = None /\ Absent.meta = None
         /\ Fresh(p) \in Dir /\ Fresh(p).by = p /\ Fresh(p).meta = None /\ Fresh(p).young
         /\ WithMeta(d, r) \in Dir /\ WithMeta(d, r).by = d.by /\ WithMeta(d, r).pid = d.pid
         /\ d.by # None => WithMeta(d, r).meta = r /\ WithMeta(d, r).young
         /\ d.by = None => WithMeta(d, r) = d /\ WithPid(d, p) = d
         /\ WithPid(d, p) \in Dir /\ WithPid(d, p).by = d.by /\ WithPid(d, p).meta = d.meta
         /\ d.by # None => WithPid(d, p).pid = p /\ WithPid(d, p).young
BY NoneIsNobody DEF Dir, Absent, Fresh, WithMeta, WithPid

LEMMA Positions ==
  ASSUME TypeOK, NEW p \in Launcher,
         NEW pc \in {"lockMk", "lockLook", "lockRm", "lockPid", "scan", "try", "look", "rm", "remk",
                     "meta", "pid", "granted", "die"}
  PROVE  /\ Nowhere \in Position /\ Nowhere.pc = "idle"
         /\ [at[p] EXCEPT !.pc = pc] \in Position
         /\ [at[p] EXCEPT !.pc = pc].pc = pc /\ [at[p] EXCEPT !.pc = pc].port = at[p].port
         /\ [at[p] EXCEPT !.pc = pc, !.waited = 0] \in Position
         /\ [at[p] EXCEPT !.pc = pc, !.waited = 0].pc = pc
<1>1. at[p] \in Position /\ 0 \in 0..MaxWait /\ 0 \in 0..NPorts
  BY ArbiterAssumption DEF TypeOK
<1> QED BY <1>1 DEF Position, Nowhere

LEMMA SeenPositions ==
  ASSUME TypeOK, NEW p \in Launcher, NEW pc \in {"lockMk", "lockRm", "rm", "remk"},
         NEW s \in Launcher \cup {None}
  PROVE  /\ [at[p] EXCEPT !.pc = pc, !.seen = s] \in Position
         /\ [at[p] EXCEPT !.pc = pc, !.seen = s].pc = pc
         /\ [at[p] EXCEPT !.pc = pc, !.seen = s].port = at[p].port
         /\ [at[p] EXCEPT !.pc = pc, !.seen = s].seen = s
<1>1. at[p] \in Position
  BY DEF TypeOK
<1> QED BY <1>1 DEF Position

-----------------------------------------------------------------------------
(* The steps that share a shape.                                           *)

(* A launcher moves on without touching a directory.                        *)
LEMMA Move ==
  ASSUME IInv, NEW p \in Launcher, NEW x \in Position, exe[p] = "bash",
         at' = [at EXCEPT ![p] = x], UNCHANGED <<exe, lock, grant, reaper, broken>>,
         at[p].pc \notin {"meta", "pid", "granted"}, x.pc \notin {"idle", "meta", "pid", "granted"},
         x.pc \in BeforeLock <=> at[p].pc \in BeforeLock,
         x.pc \in AtPort => x.port \in Port,
         broken = "no" /\ x.pc = "rm" /\ x.seen # None => exe[x.seen] = "gone"
  PROVE  IInv'
<1>1. TypeOK'
  BY DEF IInv, TypeOK
<1>2. at'[p] = x /\ \A q \in Launcher \ {p} : at'[q] = at[q]
  BY DEF IInv, TypeOK
<1>3. Places'
  BY <1>2 DEF IInv, Places, Living, AtPort
<1>4. ASSUME broken' = "no" PROVE Sound'
  <2>1. broken = "no" /\ Sound
    BY <1>4 DEF IInv
  <2>2. LocksOwned' /\ LocksLive'
    BY <1>2, <2>1 DEF Sound, LocksOwned, LocksLive, Locked, Living
  <2>3. GrantsOwned' /\ GrantsLive' /\ Metas'
    BY <1>2, <2>1 DEF Sound, GrantsOwned, GrantsLive, Metas, Holding, Living
  <2>4. Condemned'
    BY <1>2, <2>1 DEF Sound, Condemned, Living
  <2> QED BY <2>2, <2>3, <2>4 DEF Sound
<1> QED BY <1>1, <1>3, <1>4 DEF IInv

(* A process ends and removes no directory but its own.                     *)
LEMMA End ==
  ASSUME IInv, NEW p \in Launcher, Living(p), Ends(p), UNCHANGED <<reaper, broken>>,
         lock' \in [Runtime -> Dir], grant' \in [Port -> Dir],
         \A r \in Runtime : lock'[r] = lock[r] \/ (lock'[r].by = None /\ (broken = "no" => lock[r].by = p)),
         \A n \in Port : grant'[n] = grant[n] \/ (grant'[n].by = None /\ (broken = "no" => grant[n].by = p))
  PROVE  IInv'
<1> USE NoneIsNobody
<1>1. /\ at' = [at EXCEPT ![p] = Nowhere] /\ exe' = [exe EXCEPT ![p] = "gone"]
      /\ Nowhere \in Position /\ Nowhere.pc = "idle"
  BY Positions DEF IInv, Ends
<1>2. TypeOK'
  BY <1>1 DEF IInv, TypeOK
<1>3. /\ at'[p].pc = "idle" /\ exe'[p] = "gone"
      /\ \A q \in Launcher \ {p} : at'[q] = at[q] /\ exe'[q] = exe[q]
  BY <1>1 DEF IInv, TypeOK
<1>4. Places'
  BY <1>3 DEF IInv, Places, Living, AtPort
<1>5. ASSUME broken' = "no" PROVE Sound'
  <2>1. broken = "no" /\ Sound
    BY <1>5 DEF IInv
  <2>2. \A q \in Launcher : Living(q)' => q # p /\ Living(q) /\ at'[q] = at[q] /\ exe'[q] = exe[q]
    BY <1>3 DEF Living
  <2>3. \A q \in Launcher : RuntimeOf[q] \in Runtime
    OBVIOUS
  <2>4. LocksOwned' /\ LocksLive'
    BY <2>1, <2>2, <2>3 DEF Sound, LocksOwned, LocksLive, Locked
  <2>5. \A q \in Launcher : Holding(q)' => /\ q # p /\ Holding(q) /\ at'[q] = at[q] /\ exe'[q] = exe[q]
                                          /\ at[q].port \in Port
    BY <2>2 DEF Holding, IInv, Places, AtPort
  <2>6. GrantsOwned'
    BY <2>1, <2>5 DEF Sound, GrantsOwned
  <2>7. GrantsLive'
    BY <2>1, <2>2 DEF Sound, GrantsLive, Holding
  <2>8. Metas'
    BY <2>1 DEF Sound, Metas
  <2>9. Condemned'
    <3>1. \A q \in Launcher : exe[q] = "gone" => exe'[q] = "gone"
      BY <1>3
    <3>2. \A q \in Launcher : at[q].seen \in Launcher \cup {None}
      BY DEF IInv, TypeOK, Position
    <3> QED BY <2>1, <2>2, <3>1, <3>2 DEF Sound, Condemned
  <2> QED BY <2>4, <2>6, <2>7, <2>8, <2>9 DEF Sound
<1> QED BY <1>2, <1>4, <1>5 DEF IInv

-----------------------------------------------------------------------------
(* The lock.                                                                *)

LEMMA StartStep == ASSUME IInv, NEW p \in Launcher, Start(p) PROVE IInv'
<1> DEFINE x == [at[p] EXCEPT !.pc = "lockMk"]
<1>1. /\ at' = [at EXCEPT ![p] = x] /\ exe' = [exe EXCEPT ![p] = "bash"] /\ exe[p] = "none"
      /\ UNCHANGED <<lock, grant, reaper, broken>>
  BY DEF Start, GoTo
<1>2. x \in Position /\ x.pc = "lockMk"
  BY Positions DEF IInv
<1>3. TypeOK'
  BY <1>1, <1>2 DEF IInv, TypeOK
<1>4. /\ at'[p].pc = "lockMk" /\ exe'[p] = "bash"
      /\ \A q \in Launcher \ {p} : at'[q] = at[q] /\ exe'[q] = exe[q]
  BY <1>1, <1>2 DEF IInv, TypeOK
<1>5. Places'
  BY <1>1, <1>4 DEF IInv, Places, Living, AtPort
<1>6. ASSUME broken' = "no" PROVE Sound'
  <2>1. broken = "no" /\ Sound /\ Places
    BY <1>1, <1>6 DEF IInv
  <2>2. LocksOwned' /\ LocksLive'
    BY <1>1, <1>4, <2>1, NoneIsNobody DEF Sound, LocksOwned, LocksLive, Locked, Living, Places, BeforeLock
  <2>3. GrantsOwned' /\ GrantsLive' /\ Metas'
    BY <1>1, <1>4, <2>1, NoneIsNobody DEF Sound, GrantsOwned, GrantsLive, Metas, Holding, Living, Places
  <2>4. Condemned'
    <3>1. \A q \in Launcher : exe[q] = "gone" => exe'[q] = "gone"
      BY <1>1, <1>4
    <3>2. \A q \in Launcher : at[q].seen \in Launcher \cup {None}
      BY DEF IInv, TypeOK, Position
    <3> QED BY <1>4, <2>1, <3>1, <3>2 DEF Sound, Condemned, Living
  <2> QED BY <2>2, <2>3, <2>4 DEF Sound
<1> QED BY <1>3, <1>5, <1>6 DEF IInv

(* A launcher at the lock makes, removes or fills in its directory.          *)
LEMMA LockStep ==
  ASSUME IInv, NEW p \in Launcher, NEW x \in Position, NEW d \in Dir, exe[p] = "bash",
         at' = [at EXCEPT ![p] = x], lock' = [lock EXCEPT ![RuntimeOf[p]] = d],
         UNCHANGED <<exe, grant, reaper>>, broken' \in {"no", "steal", "race", "sweep"},
         at[p].pc \in {"lockMk", "lockRm", "lockPid"}, x.pc \in {"lockMk", "lockPid", "scan"},
         d.by = None \/ d.by = p \/ d.by = MyLock(p).by,
         broken' = "no" => /\ broken = "no" /\ (x.pc # "lockMk" => d.by = p)
                           /\ d.by = MyLock(p).by \/ MyLock(p).by = None \/ ~Living(MyLock(p).by)
                           /\ x.pc = "lockMk" => d.by = None
  PROVE  IInv'
<1> USE NoneIsNobody
<1>1. RuntimeOf[p] \in Runtime /\ MyLock(p) = lock[RuntimeOf[p]]
  BY DEF MyLock
<1>2. TypeOK'
  BY <1>1 DEF IInv, TypeOK
<1>3. /\ at'[p] = x /\ \A q \in Launcher \ {p} : at'[q] = at[q]
      /\ lock'[RuntimeOf[p]] = d /\ \A r \in Runtime \ {RuntimeOf[p]} : lock'[r] = lock[r]
  BY <1>1 DEF IInv, TypeOK
<1>4. Places'
  BY <1>1, <1>3 DEF IInv, Places, Living, AtPort
<1>5. ASSUME broken' = "no" PROVE Sound'
  <2>1. broken = "no" /\ Sound
    BY <1>5 DEF IInv
  <2>2. \A q \in Launcher : RuntimeOf[q] \in Runtime
    OBVIOUS
  <2>3. LocksOwned'
    <3> SUFFICES ASSUME NEW q \in Launcher, Locked(q)' PROVE lock'[RuntimeOf[q]].by = q
      BY DEF LocksOwned
    <3>1. CASE q = p
      BY <1>3, <1>5, <3>1 DEF Locked, BeforeLock
    <3>2. CASE q # p
      <4>1. Locked(q) /\ lock[RuntimeOf[q]].by = q
        BY <1>3, <2>1, <3>2 DEF Sound, LocksOwned, Locked, Living
      <4>2. CASE RuntimeOf[q] = RuntimeOf[p]
        <5>1. MyLock(p).by = q /\ Living(q)
          BY <1>1, <4>1, <4>2 DEF Locked
        <5>2. d.by = q
          BY <5>1, <1>5
        <5> QED BY <5>2, <4>2, <1>3
      <4> QED BY <4>1, <4>2, <1>3, <2>2
    <3> QED BY <3>1, <3>2
  <2>4. LocksLive'
    <3> SUFFICES ASSUME NEW r \in Runtime, NEW q \in Launcher, lock'[r].by = q, Living(q)'
                 PROVE  Locked(q)' /\ RuntimeOf[q] = r
      BY DEF LocksLive
    <3>1. Living(q)
      BY DEF Living
    <3>2. CASE q = p
      <4>1. r = RuntimeOf[p]
        BY <2>1, <3>1, <3>2, <1>3 DEF Sound, LocksLive
      <4>2. x.pc # "lockMk"
        BY <4>1, <3>2, <1>3, <1>5
      <4> QED BY <4>1, <4>2, <3>1, <3>2, <1>3 DEF Locked, Living, BeforeLock
    <3>3. CASE q # p
      <4>1. lock[r].by = q
        BY <1>3, <1>1, <1>5, <3>3
      <4> QED BY <4>1, <3>1, <2>1, <1>3, <3>3 DEF Sound, LocksLive, Locked, Living
    <3> QED BY <3>2, <3>3
  <2>5. GrantsOwned' /\ GrantsLive' /\ Metas'
    BY <1>3, <2>1 DEF Sound, GrantsOwned, GrantsLive, Metas, Holding, Living
  <2>6. Condemned'
    BY <1>3, <2>1 DEF Sound, Condemned, Living
  <2> QED BY <2>3, <2>4, <2>5, <2>6 DEF Sound
<1> QED BY <1>2, <1>4, <1>5 DEF IInv

LEMMA MakeLockStep == ASSUME IInv, NEW p \in Launcher, MakeLock(p) PROVE IInv'
<1>1. exe[p] = "bash" /\ at[p].pc = "lockMk" /\ UNCHANGED <<exe, grant, reaper, broken>>
  BY DEF MakeLock, At
<1>2. CASE MyLock(p).by = None
  <2> DEFINE x == [at[p] EXCEPT !.pc = "lockPid"]
  <2>1. at' = [at EXCEPT ![p] = x] /\ lock' = [lock EXCEPT ![RuntimeOf[p]] = Fresh(p)]
    BY <1>2 DEF MakeLock, GoTo
  <2>2. x \in Position /\ x.pc = "lockPid"
    BY Positions DEF IInv
  <2>3. Fresh(p) \in Dir /\ Fresh(p).by = p
    BY NoneIsNobody DEF Fresh, Dir
  <2> HIDE DEF x
  <2> QED BY <1>1, <1>2, <2>1, <2>2, <2>3, LockStep DEF IInv, TypeOK
<1>3. CASE MyLock(p).by # None
  <2> DEFINE x == [at[p] EXCEPT !.pc = "lockLook"]
  <2>1. at' = [at EXCEPT ![p] = x] /\ UNCHANGED lock
    BY <1>3 DEF MakeLock, GoTo
  <2>2. x \in Position /\ x.pc = "lockLook"
    BY Positions DEF IInv
  <2> HIDE DEF x
  <2> QED BY <1>1, <2>1, <2>2, Move DEF BeforeLock, AtPort
<1> QED BY <1>2, <1>3

LEMMA LookAtLockStep == ASSUME IInv, NEW p \in Launcher, LookAtLock(p) PROVE IInv'
<1>1. exe[p] = "bash" /\ at[p].pc = "lockLook" /\ UNCHANGED <<lock, grant, reaper, broken>>
  BY DEF LookAtLock, At
<1>2. CASE at' = [at EXCEPT ![p].pc = "lockRm", ![p].seen = MyLock(p).by] /\ UNCHANGED exe
  <2> DEFINE x == [at[p] EXCEPT !.pc = "lockRm", !.seen = MyLock(p).by]
  <2>1. MyLock(p).by \in Launcher \cup {None}
    BY NoneIsNobody DEF IInv, TypeOK, MyLock, Dir
  <2>2. at' = [at EXCEPT ![p] = x]
    BY <1>2 DEF IInv, TypeOK
  <2>3. x \in Position /\ x.pc = "lockRm"
    BY <2>1, SeenPositions DEF IInv
  <2> HIDE DEF x
  <2> QED BY <1>1, <1>2, <2>2, <2>3, Move DEF BeforeLock, AtPort
<1>3. CASE at[p].waited < MaxWait /\ at' = [at EXCEPT ![p].waited = @ + 1] /\ UNCHANGED exe
  <2> DEFINE x == [at[p] EXCEPT !.waited = @ + 1]
  <2>1. at' = [at EXCEPT ![p] = x]
    BY <1>3 DEF IInv, TypeOK
  <2>2. at[p] \in Position /\ at[p].waited + 1 \in 0..MaxWait
    BY <1>3, ArbiterAssumption DEF IInv, TypeOK, Position
  <2>3. x \in Position /\ x.pc = "lockLook"
    BY <1>1, <2>2 DEF Position
  <2> HIDE DEF x
  <2> QED BY <1>1, <1>3, <2>1, <2>3, Move DEF BeforeLock, AtPort
<1>4. CASE Ends(p)
  <2>1. Living(p) /\ lock' \in [Runtime -> Dir] /\ grant' \in [Port -> Dir]
    BY <1>1, NoneIsNobody DEF Living, IInv, TypeOK
  <2>2. lock' = lock /\ grant' = grant /\ UNCHANGED <<reaper, broken>>
    BY <1>1
  <2>3. /\ \A r \in Runtime : lock'[r] = lock[r] \/ (lock'[r].by = None /\ (broken = "no" => lock[r].by = p))
        /\ \A n \in Port : grant'[n] = grant[n] \/ (grant'[n].by = None /\ (broken = "no" => grant[n].by = p))
    BY <2>2
  <2> QED BY <1>4, <2>1, <2>2, <2>3, End
<1> QED BY <1>2, <1>3, <1>4 DEF LookAtLock

LEMMA RemoveLockStep == ASSUME IInv, NEW p \in Launcher, RemoveLock(p) PROVE IInv'
<1> DEFINE x == [at[p] EXCEPT !.pc = "lockMk", !.seen = None]
<1>1. /\ exe[p] = "bash" /\ at[p].pc = "lockRm" /\ UNCHANGED <<exe, grant, reaper>>
      /\ lock' = [lock EXCEPT ![RuntimeOf[p]] = Absent]
  BY DEF RemoveLock, At
<1>2. at' = [at EXCEPT ![p] = x]
  BY DEF RemoveLock, IInv, TypeOK
<1>3. x \in Position /\ x.pc = "lockMk"
  BY SeenPositions DEF IInv
<1>4. Absent \in Dir /\ Absent.by = None
  BY DEF Absent, Dir
<1>5. /\ broken' \in {"no", "steal", "race", "sweep"}
      /\ broken' = "no" => broken = "no" /\ (MyLock(p).by = p \/ ~Living(MyLock(p).by))
  BY DEF RemoveLock, Breaks, IInv, TypeOK
<1>6. ASSUME broken' = "no" PROVE ~Living(MyLock(p).by)
  <2>1. LocksLive /\ RuntimeOf[p] \in Runtime
    BY <1>5, <1>6, NoneIsNobody DEF IInv, Sound
  <2>2. ~Locked(p)
    BY <1>1 DEF Locked, BeforeLock
  <2> QED BY <1>5, <1>6, <2>1, <2>2 DEF LocksLive, MyLock
<1> HIDE DEF x
<1> QED BY <1>1, <1>2, <1>3, <1>4, <1>5, <1>6, LockStep

LEMMA WriteLockPidStep == ASSUME IInv, NEW p \in Launcher, WriteLockPid(p) PROVE IInv'
<1>1. /\ exe[p] = "bash" /\ at[p].pc = "lockPid" /\ UNCHANGED <<grant, reaper, broken>>
      /\ lock' = [lock EXCEPT ![RuntimeOf[p]] = WithPid(MyLock(p), p)]
      /\ RuntimeOf[p] \in Runtime /\ MyLock(p) \in Dir /\ MyLock(p) = lock[RuntimeOf[p]]
  BY NoneIsNobody DEF WriteLockPid, At, MyLock, IInv, TypeOK
<1>2. CASE MyLock(p).by = None
  <2>1. Ends(p) /\ WithPid(MyLock(p), p) = MyLock(p)
    BY <1>2 DEF WriteLockPid, WithPid
  <2>2. lock' = lock
    <3>1. lock' = [lock EXCEPT ![RuntimeOf[p]] = lock[RuntimeOf[p]]] /\ lock \in [Runtime -> Dir]
      BY <1>1, <2>1 DEF IInv, TypeOK
    <3> QED BY <3>1
  <2>3. Living(p) /\ lock' \in [Runtime -> Dir] /\ grant' \in [Port -> Dir]
    BY <1>1, <2>2, NoneIsNobody DEF Living, IInv, TypeOK
  <2>4. /\ \A r \in Runtime : lock'[r] = lock[r] \/ (lock'[r].by = None /\ (broken = "no" => lock[r].by = p))
        /\ \A n \in Port : grant'[n] = grant[n] \/ (grant'[n].by = None /\ (broken = "no" => grant[n].by = p))
    BY <1>1, <2>2
  <2> QED BY <1>1, <2>1, <2>3, <2>4, End
<1>3. CASE MyLock(p).by # None
  <2> DEFINE x == [at[p] EXCEPT !.pc = "scan", !.waited = 0]
             d == WithPid(MyLock(p), p)
  <2>1. at' = [at EXCEPT ![p] = x] /\ UNCHANGED exe
    BY <1>3 DEF WriteLockPid, IInv, TypeOK
  <2>2. x \in Position /\ x.pc = "scan"
    BY Positions DEF IInv
  <2>3. d \in Dir /\ d.by = MyLock(p).by
    BY <1>1, <1>3, NoneIsNobody DEF WithPid, Dir
  <2>4. broken = "no" => d.by = p
    <3>1. Locked(p)
      BY <1>1, NoneIsNobody DEF Locked, Living, BeforeLock
    <3> QED BY <1>1, <2>3, <3>1 DEF IInv, Sound, LocksOwned
  <2>5. lock' = [lock EXCEPT ![RuntimeOf[p]] = d] /\ broken' = broken /\ broken \in {"no", "steal", "race", "sweep"}
    BY <1>1 DEF IInv, TypeOK
  <2> HIDE DEF x, d
  <2> QED BY <1>1, <2>1, <2>2, <2>3, <2>4, <2>5, LockStep
<1> QED BY <1>2, <1>3

-----------------------------------------------------------------------------
(* The ports.                                                               *)

LEMMA ScanStep == ASSUME IInv, NEW p \in Launcher, Scan(p) PROVE IInv'
<1> DEFINE x == ToPort(p, 1, TRUE)
<1>1. /\ exe[p] = "bash" /\ at[p].pc = "scan" /\ at' = [at EXCEPT ![p] = x]
      /\ UNCHANGED <<exe, lock, grant, reaper, broken>>
  BY DEF Scan, At
<1>2. x \in Position /\ x.pc \in {"try", "die"} /\ (x.pc = "try" => x.port \in Port)
  <2>1. TypeOK /\ 1 \in Nat \ {0} /\ TRUE \in BOOLEAN
    BY DEF IInv
  <2> QED BY <2>1, NextTry, Zenon
<1> HIDE DEF x
<1> QED BY <1>1, <1>2, Move DEF BeforeLock, AtPort

(* The candidate failed; the next one.                                      *)
LEMMA MoveOnStep ==
  ASSUME IInv, NEW p \in Launcher, MoveOn(p), exe[p] = "bash", at[p].pc \in {"try", "look", "remk"},
         UNCHANGED <<exe, lock, grant, reaper, broken>>
  PROVE  IInv'
<1> DEFINE x == ToPort(p, at[p].port + 1, at[p].own)
<1>1. at' = [at EXCEPT ![p] = x]
  BY DEF MoveOn
<1>2. at[p].port + 1 \in Nat \ {0} /\ at[p].own \in BOOLEAN
  BY ArbiterAssumption DEF IInv, TypeOK, Position
<1>3. x \in Position /\ x.pc \in {"try", "die"} /\ (x.pc = "try" => x.port \in Port)
  BY <1>2, NextTry DEF IInv
<1> HIDE DEF x
<1> QED BY <1>1, <1>3, Move DEF BeforeLock, AtPort

LEMMA SkipBoundStep == ASSUME IInv, NEW p \in Launcher, SkipBound(p) PROVE IInv'
BY MoveOnStep DEF SkipBound, At

(* A directory for a port that had none.                                    *)
LEMMA GrantMade ==
  ASSUME IInv, NEW p \in Launcher, exe[p] = "bash", at[p].pc \in {"try", "remk"}, MyGrant(p).by = None,
         grant' = [grant EXCEPT ![at[p].port] = Fresh(p)], GoTo(p, "meta"),
         UNCHANGED <<exe, lock, reaper, broken>>
  PROVE  IInv'
<1> USE NoneIsNobody
<1> DEFINE x == [at[p] EXCEPT !.pc = "meta"]
           n == at[p].port
<1>1. x \in Position /\ x.pc = "meta" /\ x.port = n
  BY Positions DEF IInv
<1>2. n \in Port
  BY DEF IInv, Places, AtPort, Living
<1>3. Fresh(p) \in Dir /\ Fresh(p).by = p /\ Fresh(p).meta = None /\ Fresh(p).young
  BY DEF Fresh, Dir
<1>4. at' = [at EXCEPT ![p] = x] /\ grant' = [grant EXCEPT ![n] = Fresh(p)] /\ grant[n].by = None
  BY DEF GoTo, MyGrant
<1> HIDE DEF x, n
<1>5. TypeOK'
  BY <1>1, <1>2, <1>3, <1>4 DEF IInv, TypeOK
<1>6. /\ at'[p] = x /\ \A q \in Launcher \ {p} : at'[q] = at[q]
      /\ grant'[n] = Fresh(p) /\ \A m \in Port \ {n} : grant'[m] = grant[m]
  BY <1>2, <1>4 DEF IInv, TypeOK
<1>7. Places'
  BY <1>1, <1>2, <1>3, <1>6 DEF IInv, Places, AtPort, Living
<1>8. ASSUME broken' = "no" PROVE Sound'
  <2>1. broken = "no" /\ Sound
    BY <1>8 DEF IInv
  <2>2. LocksOwned' /\ LocksLive'
    BY <1>1, <1>6, <2>1 DEF Sound, LocksOwned, LocksLive, Locked, Living, BeforeLock
  <2>3. \A q \in Launcher : Living(q) /\ at[q].pc \in AtPort => at[q].port \in Port
    BY DEF IInv, Places
  <2>4. GrantsOwned'
    BY <1>1, <1>3, <1>4, <1>6, <2>1, <2>3 DEF Sound, GrantsOwned, Holding, Living, AtPort
  <2>5. GrantsLive'
    BY <1>1, <1>3, <1>6, <2>1 DEF Sound, GrantsLive, Holding, Living
  <2>6. Metas'
    BY <1>3, <1>6, <2>1 DEF Sound, Metas
  <2>7. Condemned'
    BY <1>1, <1>6, <2>1 DEF Sound, Condemned, Living
  <2> QED BY <2>2, <2>4, <2>5, <2>6, <2>7 DEF Sound
<1> QED BY <1>5, <1>7, <1>8 DEF IInv

LEMMA MakeGrantStep == ASSUME IInv, NEW p \in Launcher, MakeGrant(p) PROVE IInv'
<1>1. exe[p] = "bash" /\ at[p].pc = "try" /\ UNCHANGED <<exe, lock, reaper, broken>>
  BY DEF MakeGrant, At
<1>2. CASE MyGrant(p).by = None
  BY <1>1, <1>2, GrantMade DEF MakeGrant
<1>3. CASE MyGrant(p).by # None
  <2> DEFINE x == [at[p] EXCEPT !.pc = "look"]
  <2>1. at' = [at EXCEPT ![p] = x] /\ UNCHANGED grant
    BY <1>3 DEF MakeGrant, GoTo
  <2>2. x \in Position /\ x.pc = "look" /\ x.port = at[p].port
    BY Positions DEF IInv
  <2>3. at[p].port \in Port
    BY <1>1, NoneIsNobody DEF IInv, Places, AtPort, Living
  <2> HIDE DEF x
  <2> QED BY <1>1, <2>1, <2>2, <2>3, Move DEF BeforeLock
<1> QED BY <1>2, <1>3

LEMMA RemakeGrantStep == ASSUME IInv, NEW p \in Launcher, RemakeGrant(p) PROVE IInv'
<1>1. exe[p] = "bash" /\ at[p].pc = "remk" /\ UNCHANGED <<exe, lock, reaper, broken>>
  BY DEF RemakeGrant, At
<1>2. CASE MyGrant(p).by = None
  BY <1>1, <1>2, GrantMade DEF RemakeGrant
<1>3. CASE MyGrant(p).by # None
  BY <1>1, <1>3, MoveOnStep DEF RemakeGrant
<1> QED BY <1>2, <1>3

(* What may be reclaimed was made by a process that is gone: the cooldown    *)
(* protects a launcher, the liveness check a proxy, and the lock keeps two   *)
(* launchers of one runtime apart.                                          *)
LEMMA ReclaimsTheDead ==
  ASSUME IInv, broken = "no", NEW p \in Launcher, At(p, "look"), MayReclaim(p), MyGrant(p).by # None
  PROVE  exe[MyGrant(p).by] = "gone"
<1> USE NoneIsNobody
<1> DEFINE n == at[p].port
           s == grant[n].by
<1>1. n \in Port /\ Sound /\ Living(p)
  BY DEF IInv, Places, AtPort, At, Living
<1>2. grant[n] \in Dir /\ s \in Launcher /\ MyGrant(p) = grant[n]
  BY <1>1 DEF IInv, TypeOK, Dir, MyGrant
<1>3. exe[s] # "none" /\ exe[s] \in {"none", "bash", "node", "gone"}
  BY <1>1, <1>2 DEF IInv, TypeOK, Places
<1>4. ~Living(s)
  <2> SUFFICES ASSUME Living(s) PROVE FALSE
    OBVIOUS
  <2>1. Holding(s) /\ at[s].port = n
    BY <1>1, <1>2 DEF Sound, GrantsLive
  <2>2. s # p
    BY <2>1 DEF Holding, At
  <2>3. CASE grant[n].meta = RuntimeOf[p]
    <3>1. RuntimeOf[s] = RuntimeOf[p]
      <4>1. grant[n].meta # None
        BY <2>3
      <4> QED BY <4>1, <2>3, <1>1, <1>2 DEF Sound, Metas
    <3>2. Locked(s) /\ Locked(p)
      BY <1>1, <2>1 DEF Locked, Holding, BeforeLock, At
    <3> QED BY <3>1, <3>2, <2>2, <1>1, <1>2 DEF Sound, LocksOwned
  <2>4. CASE ~grant[n].young /\ ~PidAlive(grant[n].pid)
    <3>1. exe[s] = "node"
      BY <2>1, <2>4, <1>1, <1>2 DEF Sound, GrantsOwned, Living
    <3>2. at[s].pc = "granted"
      BY <3>1, <1>2 DEF IInv, Places
    <3>3. grant[n].pid = s
      BY <2>1, <3>2, <1>1, <1>2 DEF Sound, GrantsOwned
    <3> QED BY <3>1, <3>3, <2>4, <1>2 DEF PidAlive
  <2> QED BY <2>3, <2>4, <1>2 DEF MayReclaim
<1> QED BY <1>2, <1>3, <1>4 DEF Living

LEMMA LookAtGrantStep == ASSUME IInv, NEW p \in Launcher, LookAtGrant(p) PROVE IInv'
<1>1. exe[p] = "bash" /\ at[p].pc = "look" /\ UNCHANGED <<exe, lock, grant, reaper, broken>> /\ At(p, "look")
  BY DEF LookAtGrant, At
<1>2. CASE MayReclaim(p)
  <2> DEFINE x == [at[p] EXCEPT !.pc = "rm", !.seen = MyGrant(p).by]
  <2>1. at[p].port \in Port
    BY <1>1, NoneIsNobody DEF IInv, Places, AtPort, Living
  <2>2. MyGrant(p).by \in Launcher \cup {None}
    BY <2>1 DEF IInv, TypeOK, MyGrant, Dir
  <2>3. at' = [at EXCEPT ![p] = x]
    BY <1>2 DEF LookAtGrant, IInv, TypeOK
  <2>4. x \in Position /\ x.pc = "rm" /\ x.port = at[p].port /\ x.seen = MyGrant(p).by
    <3>1. at[p] \in Position
      BY DEF IInv, TypeOK
    <3> QED BY <2>2, <3>1 DEF Position
  <2>5. broken = "no" /\ x.seen # None => exe[x.seen] = "gone"
    BY <1>1, <1>2, <2>4, ReclaimsTheDead
  <2> HIDE DEF x
  <2> QED BY <1>1, <2>1, <2>3, <2>4, <2>5, Move DEF BeforeLock
<1>3. CASE ~MayReclaim(p)
  BY <1>1, <1>3, MoveOnStep DEF LookAtGrant
<1> QED BY <1>2, <1>3

(* A directory of the pool is removed that no living process has made, and   *)
(* perhaps one launcher moves on.                                          *)
LEMMA GrantRemoved ==
  ASSUME IInv, NEW n \in Port, grant' = [grant EXCEPT ![n] = Absent],
         UNCHANGED <<exe, lock>>, reaper' = reaper \/ reaper' = <<>>,
         broken' \in {"no", "steal", "race", "sweep"},
         broken' = "no" => broken = "no" /\ ~Living(grant[n].by),
         at' \in [Launcher -> Position],
         \A q \in Launcher : \/ at'[q] = at[q]
                             \/ /\ exe[q] = "bash" /\ at[q].pc = "rm" /\ at'[q].pc = "remk"
                                /\ at'[q].port = at[q].port
  PROVE  IInv'
<1> USE NoneIsNobody
<1>1. Absent \in Dir /\ Absent.by = None /\ Absent.meta = None
  BY DEF Absent, Dir
<1>2. TypeOK'
  BY <1>1 DEF IInv, TypeOK
<1>3. grant'[n] = Absent /\ \A m \in Port \ {n} : grant'[m] = grant[m]
  BY DEF IInv, TypeOK
<1>4. Places'
  BY <1>1, <1>3 DEF IInv, Places, AtPort, Living
<1>5. ASSUME broken' = "no" PROVE Sound'
  <2>1. broken = "no" /\ Sound
    BY <1>5 DEF IInv
  <2>2. LocksOwned' /\ LocksLive'
    BY <1>3, <2>1 DEF Sound, LocksOwned, LocksLive, Locked, Living, BeforeLock
  <2>3. \A q \in Launcher : Holding(q)' => Holding(q) /\ at'[q] = at[q]
    BY <1>3 DEF Holding, Living
  <2>4. GrantsOwned'
    BY <1>3, <1>5, <2>1, <2>3 DEF Sound, GrantsOwned, Holding, IInv, Places, AtPort
  <2>5. GrantsLive'
    BY <1>1, <1>3, <2>1 DEF Sound, GrantsLive, Holding, Living
  <2>6. Metas'
    BY <1>1, <1>3, <2>1 DEF Sound, Metas
  <2>7. Condemned'
    BY <1>3, <2>1 DEF Sound, Condemned, Living
  <2> QED BY <2>2, <2>4, <2>5, <2>6, <2>7 DEF Sound
<1> QED BY <1>2, <1>4, <1>5 DEF IInv

LEMMA RemoveGrantStep == ASSUME IInv, NEW p \in Launcher, RemoveGrant(p) PROVE IInv'
<1> USE NoneIsNobody
<1> DEFINE x == [at[p] EXCEPT !.pc = "remk", !.seen = None]
           n == at[p].port
<1>1. /\ exe[p] = "bash" /\ at[p].pc = "rm" /\ UNCHANGED <<exe, lock, reaper>>
      /\ grant' = [grant EXCEPT ![n] = Absent] /\ MyGrant(p) = grant[n]
  BY DEF RemoveGrant, At, MyGrant
<1>2. at' = [at EXCEPT ![p] = x] /\ at[p] \in Position
  BY DEF RemoveGrant, IInv, TypeOK
<1>3. x \in Position /\ x.pc = "remk" /\ x.port = at[p].port
  BY <1>2 DEF Position
<1>4. n \in Port /\ Living(p)
  BY <1>1 DEF IInv, Places, AtPort, Living
<1>5. broken' \in {"no", "steal", "race", "sweep"}
  BY DEF RemoveGrant, Breaks, IInv, TypeOK
<1>6. ASSUME broken' = "no" PROVE broken = "no" /\ ~Living(grant[n].by)
  <2>1. /\ broken = "no"
        /\ grant[n].by = at[p].seen \/ ~Living(grant[n].by) \/ grant[n].by = p
    BY <1>1, <1>6 DEF RemoveGrant, Breaks
  <2>2. Sound
    BY <2>1 DEF IInv
  <2>3. grant[n].by # p
    BY <1>1, <1>4, <2>2 DEF Sound, GrantsLive, Holding
  <2>4. at[p].seen # None => exe[at[p].seen] = "gone"
    BY <1>1, <1>4, <2>2 DEF Sound, Condemned
  <2> QED BY <2>1, <2>3, <2>4 DEF Living
<1>7. /\ at' \in [Launcher -> Position]
      /\ \A q \in Launcher : \/ at'[q] = at[q]
                             \/ /\ exe[q] = "bash" /\ at[q].pc = "rm" /\ at'[q].pc = "remk"
                                /\ at'[q].port = at[q].port
  <2>1. at'[p] = x /\ \A q \in Launcher \ {p} : at'[q] = at[q]
    BY <1>2 DEF IInv, TypeOK
  <2>2. at' \in [Launcher -> Position]
    BY <1>2, <1>3 DEF IInv, TypeOK
  <2> QED BY <1>1, <1>3, <2>1, <2>2
<1> HIDE DEF x, n
<1> QED BY <1>1, <1>4, <1>5, <1>6, <1>7, GrantRemoved

(* What a launcher writes into the directory of its port.                   *)
LEMMA GrantWritten ==
  ASSUME IInv, NEW p \in Launcher, NEW x \in Position, NEW d \in Dir, exe[p] = "bash",
         at' = [at EXCEPT ![p] = x], x.port = at[p].port,
         grant' = [grant EXCEPT ![at[p].port] = d], UNCHANGED <<exe, lock, reaper, broken>>,
         \/ at[p].pc = "meta" /\ x.pc = "pid"
         \/ at[p].pc = "pid" /\ x.pc = "granted",
         d.by = MyGrant(p).by,
         d.by # None =>
           /\ d.young
           /\ at[p].pc = "meta" => d.meta = RuntimeOf[p]
           /\ at[p].pc = "pid" => d.meta = MyGrant(p).meta /\ d.pid = p
  PROVE  IInv'
<1> USE NoneIsNobody
<1> DEFINE n == at[p].port
<1>1. n \in Port /\ MyGrant(p) = grant[n] /\ Holding(p)
  BY DEF IInv, Places, AtPort, Living, MyGrant, Holding
<1>2. TypeOK'
  BY DEF IInv, TypeOK
<1>3. /\ grant'[n] = d /\ \A m \in Port \ {n} : grant'[m] = grant[m]
      /\ at'[p] = x /\ \A q \in Launcher \ {p} : at'[q] = at[q]
  BY <1>1 DEF IInv, TypeOK
<1>4. Places'
  BY <1>1, <1>3 DEF IInv, Places, AtPort, Living
<1>5. ASSUME broken' = "no" PROVE Sound'
  <2>1. broken = "no" /\ Sound
    BY <1>5 DEF IInv
  <2>2. grant[n].by = p
    BY <1>1, <2>1 DEF Sound, GrantsOwned
  <2>3. LocksOwned' /\ LocksLive'
    BY <1>3, <2>1 DEF Sound, LocksOwned, LocksLive, Locked, Living, BeforeLock
  <2>4. \A q \in Launcher \ {p} : Holding(q)' => Holding(q) /\ at'[q] = at[q] /\ at[q].port \in Port \ {n}
    BY <1>1, <1>3, <2>1, <2>2 DEF Holding, Living, Sound, GrantsOwned, IInv, Places, AtPort
  <2>5. GrantsOwned'
    <3>1. grant[n].meta = RuntimeOf[p] \/ at[p].pc = "meta"
      BY <1>1, <2>1 DEF Sound, GrantsOwned
    <3> QED BY <1>1, <1>3, <2>1, <2>2, <2>4, <3>1 DEF Sound, GrantsOwned
  <2>6. GrantsLive'
    BY <1>1, <1>3, <2>1, <2>2 DEF Sound, GrantsLive, Holding, Living
  <2>7. Metas'
    BY <1>1, <1>3, <2>1, <2>2 DEF Sound, Metas
  <2>8. Condemned'
    BY <1>3, <2>1 DEF Sound, Condemned, Living
  <2> QED BY <2>3, <2>5, <2>6, <2>7, <2>8 DEF Sound
<1> QED BY <1>2, <1>4, <1>5 DEF IInv

LEMMA WriteMetaStep == ASSUME IInv, NEW p \in Launcher, WriteMeta(p) PROVE IInv'
<1> DEFINE x == [at[p] EXCEPT !.pc = "pid"]
           d == WithMeta(MyGrant(p), RuntimeOf[p])
<1>1. /\ exe[p] = "bash" /\ at[p].pc = "meta" /\ UNCHANGED <<exe, lock, reaper, broken>>
      /\ at' = [at EXCEPT ![p] = x]
  BY DEF WriteMeta, At, GoTo
<1>2. at[p].port \in Port /\ MyGrant(p) \in Dir /\ RuntimeOf[p] \in Runtime
  BY <1>1, NoneIsNobody DEF IInv, TypeOK, Places, AtPort, Living, MyGrant
<1>3. grant' = [grant EXCEPT ![at[p].port] = d]
  BY <1>2 DEF WriteMeta, MyGrant, IInv, TypeOK
<1>4. x \in Position /\ x.pc = "pid" /\ x.port = at[p].port
  BY Positions DEF IInv
<1>5. d \in Dir /\ d.by = MyGrant(p).by /\ (d.by # None => d.young /\ d.meta = RuntimeOf[p])
  BY <1>2, NoneIsNobody DEF WithMeta, Dir
<1> HIDE DEF x, d
<1> QED BY <1>1, <1>3, <1>4, <1>5, GrantWritten

LEMMA WritePidStep == ASSUME IInv, NEW p \in Launcher, WritePid(p) PROVE IInv'
<1> DEFINE x == [at[p] EXCEPT !.pc = "granted"]
           d == WithPid(MyGrant(p), p)
<1>1. /\ exe[p] = "bash" /\ at[p].pc = "pid" /\ UNCHANGED <<exe, lock, reaper, broken>>
      /\ at' = [at EXCEPT ![p] = x]
  BY DEF WritePid, At, GoTo
<1>2. at[p].port \in Port /\ MyGrant(p) \in Dir
  BY <1>1, NoneIsNobody DEF IInv, TypeOK, Places, AtPort, Living, MyGrant
<1>3. grant' = [grant EXCEPT ![at[p].port] = d]
  BY <1>2 DEF WritePid, MyGrant, IInv, TypeOK
<1>4. x \in Position /\ x.pc = "granted" /\ x.port = at[p].port
  BY Positions DEF IInv
<1>5. d \in Dir /\ d.by = MyGrant(p).by /\ (d.by # None => d.young /\ d.meta = MyGrant(p).meta /\ d.pid = p)
  BY <1>2, NoneIsNobody DEF WithPid, Dir
<1> HIDE DEF x, d
<1> QED BY <1>1, <1>3, <1>4, <1>5, GrantWritten

-----------------------------------------------------------------------------
(* The ends, the exec, the clock and the reaper.                            *)

LEMMA DieStep == ASSUME IInv, NEW p \in Launcher, Die(p) PROVE IInv'
<1> USE NoneIsNobody
<1>1. /\ exe[p] = "bash" /\ at[p].pc \in {"die", "granted"} /\ Ends(p) /\ UNCHANGED <<grant, reaper, broken>>
      /\ lock' = [lock EXCEPT ![RuntimeOf[p]] = Absent] /\ UNCHANGED <<reaper, broken>>
  BY DEF Die, At
<1>2. Living(p) /\ Locked(p) /\ RuntimeOf[p] \in Runtime
  BY <1>1 DEF Living, Locked, BeforeLock
<1>3. Absent \in Dir /\ Absent.by = None
  BY DEF Absent, Dir
<1>4. lock' \in [Runtime -> Dir] /\ grant' \in [Port -> Dir]
  BY <1>1, <1>3 DEF IInv, TypeOK
<1>5. broken = "no" => lock[RuntimeOf[p]].by = p
  BY <1>2 DEF IInv, Sound, LocksOwned
<1>6. \A r \in Runtime : lock'[r] = lock[r] \/ (lock'[r].by = None /\ (broken = "no" => lock[r].by = p))
  BY <1>1, <1>3, <1>5 DEF IInv, TypeOK
<1>7. \A n \in Port : grant'[n] = grant[n] \/ (grant'[n].by = None /\ (broken = "no" => grant[n].by = p))
  BY <1>1
<1> QED BY <1>1, <1>2, <1>4, <1>6, <1>7, End

LEMMA ShutdownStep == ASSUME IInv, NEW p \in Launcher, Shutdown(p) PROVE IInv'
<1> USE NoneIsNobody
<1>1. /\ exe[p] = "node" /\ Ends(p) /\ UNCHANGED <<lock, reaper, broken>>
      /\ grant' = [grant EXCEPT ![at[p].port] = Absent] /\ UNCHANGED <<reaper, broken>>
  BY DEF Shutdown
<1>2. Living(p) /\ Holding(p) /\ at[p].port \in Port
  BY <1>1 DEF Living, Holding, IInv, Places, AtPort
<1>3. Absent \in Dir /\ Absent.by = None
  BY DEF Absent, Dir
<1>4. lock' \in [Runtime -> Dir] /\ grant' \in [Port -> Dir]
  BY <1>1, <1>3 DEF IInv, TypeOK
<1>5. broken = "no" => grant[at[p].port].by = p
  BY <1>2 DEF IInv, Sound, GrantsOwned
<1>6. \A n \in Port : grant'[n] = grant[n] \/ (grant'[n].by = None /\ (broken = "no" => grant[n].by = p))
  BY <1>1, <1>3, <1>5 DEF IInv, TypeOK
<1>7. \A r \in Runtime : lock'[r] = lock[r] \/ (lock'[r].by = None /\ (broken = "no" => lock[r].by = p))
  BY <1>1
<1> QED BY <1>1, <1>2, <1>4, <1>6, <1>7, End

LEMMA CrashStep == ASSUME IInv, NEW p \in Launcher, Crash(p) PROVE IInv'
<1>1. Living(p) /\ Ends(p) /\ UNCHANGED <<lock, grant>> /\ UNCHANGED <<reaper, broken>>
  BY DEF Crash
<1>2. lock' \in [Runtime -> Dir] /\ grant' \in [Port -> Dir]
  BY <1>1 DEF IInv, TypeOK
<1>3. /\ \A r \in Runtime : lock'[r] = lock[r] \/ (lock'[r].by = None /\ (broken = "no" => lock[r].by = p))
      /\ \A n \in Port : grant'[n] = grant[n] \/ (grant'[n].by = None /\ (broken = "no" => grant[n].by = p))
  BY <1>1
<1> QED BY <1>1, <1>2, <1>3, End

LEMMA ExecStep == ASSUME IInv, NEW p \in Launcher, Exec(p) PROVE IInv'
<1> USE NoneIsNobody
<1>1. /\ exe[p] = "bash" /\ at[p].pc = "granted" /\ exe' = [exe EXCEPT ![p] = "node"]
      /\ UNCHANGED <<at, lock, grant, reaper, broken>>
  BY DEF Exec, At
<1>2. TypeOK'
  BY <1>1 DEF IInv, TypeOK
<1>3. exe'[p] = "node" /\ \A q \in Launcher \ {p} : exe'[q] = exe[q]
  BY <1>1 DEF IInv, TypeOK
<1>4. \A q \in Launcher : Living(q)' <=> Living(q)
  BY <1>1, <1>3 DEF Living
<1>5. Places'
  BY <1>1, <1>3, <1>4 DEF IInv, Places
<1>6. ASSUME broken' = "no" PROVE Sound'
  <2>1. broken = "no" /\ Sound
    BY <1>1, <1>6 DEF IInv
  <2>2. \A q \in Launcher : (Locked(q)' <=> Locked(q)) /\ (Holding(q)' <=> Holding(q))
    BY <1>1, <1>4 DEF Locked, Holding
  <2>3. LocksOwned' /\ LocksLive'
    BY <1>1, <1>4, <2>1, <2>2 DEF Sound, LocksOwned, LocksLive
  <2>4. GrantsOwned'
    BY <1>1, <1>3, <2>1, <2>2 DEF Sound, GrantsOwned
  <2>5. GrantsLive' /\ Metas'
    BY <1>1, <1>4, <2>1, <2>2 DEF Sound, GrantsLive, Metas
  <2>6. Condemned'
    <3>1. \A q \in Launcher : exe[q] = "gone" => exe'[q] = "gone"
      BY <1>1, <1>3
    <3>2. \A q \in Launcher : at[q].seen \in Launcher \cup {None}
      BY DEF IInv, TypeOK, Position
    <3> QED BY <1>1, <1>4, <2>1, <3>1, <3>2 DEF Sound, Condemned
  <2> QED BY <2>3, <2>4, <2>5, <2>6 DEF Sound
<1> QED BY <1>2, <1>5, <1>6 DEF IInv

LEMMA AgeStep == ASSUME IInv, NEW n \in Port, Age(n) PROVE IInv'
<1> USE NoneIsNobody
<1> DEFINE d == [grant[n] EXCEPT !.young = FALSE]
<1>1. /\ grant' = [grant EXCEPT ![n] = d] /\ UNCHANGED <<exe, at, lock, reaper, broken>>
      /\ grant[n].by # None => exe[grant[n].by] # "bash"
  BY DEF Age, IInv, TypeOK
<1>2. grant[n] \in Dir
  BY DEF IInv, TypeOK
<1>3. d \in Dir /\ d.by = grant[n].by /\ d.meta = grant[n].meta /\ d.pid = grant[n].pid
  BY <1>2 DEF Dir
<1> HIDE DEF d
<1>4. TypeOK'
  BY <1>1, <1>3 DEF IInv, TypeOK
<1>5. grant'[n] = d /\ \A m \in Port \ {n} : grant'[m] = grant[m]
  BY <1>1 DEF IInv, TypeOK
<1>6. \A m \in Port : /\ grant'[m].by = grant[m].by /\ grant'[m].meta = grant[m].meta
                      /\ grant'[m].pid = grant[m].pid
                      /\ grant[m].by # None /\ exe[grant[m].by] = "bash" => grant'[m] = grant[m]
  BY <1>1, <1>3, <1>5
<1>7. Places'
  BY <1>1, <1>6 DEF IInv, Places, AtPort, Living
<1>8. ASSUME broken' = "no" PROVE Sound'
  <2>1. broken = "no" /\ Sound
    BY <1>1, <1>8 DEF IInv
  <2>2. LocksOwned' /\ LocksLive' /\ Condemned'
    BY <1>1, <2>1 DEF Sound, LocksOwned, LocksLive, Condemned, Locked, Living
  <2>3. \A q \in Launcher : Holding(q) => at[q].port \in Port
    BY DEF Holding, IInv, Places, AtPort
  <2>4. GrantsOwned'
    BY <1>1, <1>6, <2>1, <2>3 DEF Sound, GrantsOwned, Holding, Living
  <2>5. GrantsLive' /\ Metas'
    BY <1>1, <1>6, <2>1 DEF Sound, GrantsLive, Metas, Holding, Living
  <2> QED BY <2>2, <2>4, <2>5 DEF Sound
<1> QED BY <1>4, <1>7, <1>8 DEF IInv

LEMMA SweepLooksStep == ASSUME IInv, SweepLooks PROVE IInv'
<1>1. UNCHANGED <<exe, at, lock, grant, broken>>
  BY DEF SweepLooks
<1>2. reaper' \in {<<>>} \cup ({"lock"} \X Runtime) \cup ({"grant"} \X Port)
  BY DEF SweepLooks
<1>3. TypeOK'
  BY <1>1, <1>2 DEF IInv, TypeOK
<1>4. Places'
  BY <1>1 DEF IInv, Places, AtPort, Living
<1>5. broken' = "no" => Sound'
  BY <1>1 DEF IInv, Sound, LocksOwned, LocksLive, GrantsOwned, GrantsLive, Metas, Condemned,
              Locked, Holding, Living, BeforeLock
<1> QED BY <1>3, <1>4, <1>5 DEF IInv

LEMMA SweepRemovesStep == ASSUME IInv, SweepRemoves PROVE IInv'
<1> USE NoneIsNobody
<1>1. UNCHANGED <<exe, at>> /\ reaper' = <<>> /\ reaper # <<>>
  BY DEF SweepRemoves
<1>2. CASE reaper[1] = "lock"
  <2> DEFINE r == reaper[2]
  <2>1. r \in Runtime
    BY <1>1, <1>2 DEF IInv, TypeOK
  <2>2. lock' = [lock EXCEPT ![r] = Absent] /\ UNCHANGED grant /\ broken' = Breaks(None, lock[r], "sweep")
    BY <1>2 DEF SweepRemoves
  <2> HIDE DEF r
  <2>3. Absent \in Dir /\ Absent.by = None
    BY DEF Absent, Dir
  <2>4. TypeOK'
    BY <1>1, <2>1, <2>2, <2>3 DEF IInv, TypeOK, Breaks
  <2>5. lock'[r].by = None /\ \A s \in Runtime \ {r} : lock'[s] = lock[s]
    BY <2>1, <2>2, <2>3 DEF IInv, TypeOK
  <2>6. Places'
    BY <1>1, <2>1, <2>2, <2>5 DEF IInv, Places, AtPort, Living
  <2>7. ASSUME broken' = "no" PROVE Sound'
    <3>1. broken = "no" /\ Sound /\ ~Living(lock[r].by)
      BY <2>2, <2>7 DEF Breaks, IInv, Living
    <3>2. LocksOwned' /\ LocksLive'
      BY <1>1, <2>1, <2>5, <3>1 DEF Sound, LocksOwned, LocksLive, Locked, Living
    <3>3. GrantsOwned' /\ GrantsLive' /\ Metas' /\ Condemned'
      BY <1>1, <2>2, <3>1 DEF Sound, GrantsOwned, GrantsLive, Metas, Condemned, Holding, Living
    <3> QED BY <3>2, <3>3 DEF Sound
  <2> QED BY <2>4, <2>6, <2>7 DEF IInv
<1>3. CASE reaper[1] # "lock"
  <2> DEFINE n == reaper[2]
  <2>1. n \in Port
    BY <1>1, <1>3 DEF IInv, TypeOK
  <2>2. grant' = [grant EXCEPT ![n] = Absent] /\ UNCHANGED lock /\ broken' = Breaks(None, grant[n], "sweep")
    BY <1>3 DEF SweepRemoves
  <2> HIDE DEF n
  <2>3. broken' \in {"no", "steal", "race", "sweep"}
    BY <2>2 DEF Breaks, IInv, TypeOK
  <2>4. broken' = "no" => broken = "no" /\ ~Living(grant[n].by)
    BY <2>2 DEF Breaks, Living
  <2>5. at' \in [Launcher -> Position] /\ \A q \in Launcher : at'[q] = at[q]
    BY <1>1 DEF IInv, TypeOK
  <2> QED BY <1>1, <2>1, <2>2, <2>3, <2>4, <2>5, GrantRemoved
<1> QED BY <1>2, <1>3

-----------------------------------------------------------------------------
(* The invariant and what follows from it.                                  *)

LEMMA InitIInv == Init => IInv
<1> SUFFICES ASSUME Init PROVE IInv
  OBVIOUS
<1> USE NoneIsNobody
<1>1. Nowhere \in Position /\ Nowhere.pc = "idle" /\ Absent \in Dir /\ Absent.by = None
  BY ArbiterAssumption DEF Nowhere, Position, Absent, Dir
<1>2. TypeOK
  BY <1>1 DEF Init, TypeOK
<1>3. \A p \in Launcher : ~Living(p) /\ exe[p] = "none"
  BY DEF Init, Living
<1>4. Places
  BY <1>1, <1>3 DEF Init, Places
<1>5. Sound
  BY <1>1, <1>3 DEF Init, Sound, LocksOwned, LocksLive, GrantsOwned, GrantsLive, Metas, Condemned, Locked, Holding
<1> QED BY <1>2, <1>4, <1>5 DEF IInv

LEMMA Invariance == IInv /\ [Next]_vars => IInv'
<1> SUFFICES ASSUME IInv, [Next]_vars PROVE IInv'
  OBVIOUS
<1>1. ASSUME NEW p \in Launcher, LaunchStep(p) PROVE IInv'
  BY <1>1, MakeLockStep, LookAtLockStep, RemoveLockStep, WriteLockPidStep, ScanStep, SkipBoundStep,
     MakeGrantStep, LookAtGrantStep, RemoveGrantStep, RemakeGrantStep, WriteMetaStep, WritePidStep,
     DieStep, ExecStep DEF LaunchStep
<1>2. ASSUME NEW p \in Launcher, Start(p) \/ Shutdown(p) \/ Crash(p) PROVE IInv'
  BY <1>2, StartStep, ShutdownStep, CrashStep
<1>3. CASE UNCHANGED vars
  BY <1>3 DEF vars, IInv, TypeOK, Places, Sound, LocksOwned, LocksLive, GrantsOwned, GrantsLive, Metas,
              Condemned, Locked, Holding, Living
<1> QED BY <1>1, <1>2, <1>3, AgeStep, SweepLooksStep, SweepRemovesStep DEF Next

LEMMA Exclusive == IInv => ExclusiveUnlessBroken
<1> SUFFICES ASSUME IInv, broken = "no", NEW p \in Launcher, NEW q \in Launcher,
                    Granted(p), Granted(q), at[p].port = at[q].port
             PROVE  p = q
  BY DEF ExclusiveUnlessBroken
<1>1. Holding(p) /\ Holding(q) /\ GrantsOwned
  BY DEF Granted, Holding, IInv, Sound
<1> QED BY <1>1 DEF GrantsOwned

(* Type correctness for any number of launchers, runtimes and ports.         *)
THEOREM TypesHold == Spec => []TypeOK
<1>1. IInv => TypeOK
  BY DEF IInv
<1> QED BY <1>1, InitIInv, Invariance, PTL DEF Spec

(* Until a directory of a living process is removed, no two live processes   *)
(* were granted one port: for any number of launchers, runtimes and ports,   *)
(* with crashes at any step.                                               *)
THEOREM PortsExclusive == Spec => []ExclusiveUnlessBroken
BY InitIInv, Invariance, Exclusive, PTL DEF Spec

(* Until then the launchers of one runtime do not both become proxies.       *)
THEOREM ProxiesAlone == Spec => [](broken = "no" => OneProxyPerRuntime)
<1>1. IInv => (broken = "no" => OneProxyPerRuntime)
  <2> SUFFICES ASSUME IInv, broken = "no", NEW p \in Launcher, NEW q \in Launcher,
                      RuntimeOf[p] = RuntimeOf[q], exe[p] = "node", exe[q] = "node"
               PROVE  p = q
    BY DEF OneProxyPerRuntime
  <2>1. Locked(p) /\ Locked(q) /\ LocksOwned
    BY NoneIsNobody DEF Locked, Living, BeforeLock, IInv, Places, Sound
  <2> QED BY <2>1 DEF LocksOwned
<1> QED BY <1>1, InitIInv, Invariance, PTL DEF Spec

-----------------------------------------------------------------------------
(* One directory of the pool for a runtime.                                 *)

(* p is on the way to the one directory of its runtime, or has it.          *)
Finds(p) == at[p].pc \in {"pid", "granted"} \/ (at[p].own /\ at[p].pc \in {"try", "look", "rm"})

OneMeta ==
  \A m, n \in Port : grant[m].meta = grant[n].meta /\ grant[m].meta # None => m = n

(* A runtime's directory is the one its launcher is at, once it looks for a  *)
(* port: it has no other when it makes one.                                 *)
OwnSeen ==
  \A p \in Launcher : Living(p) /\ at[p].pc \in AtPort =>
    \A n \in Port : grant[n].meta = RuntimeOf[p] => n = at[p].port /\ Finds(p)

Unique == OneMeta /\ OwnSeen

\* What a step that names no directory does: a process stays at its port, or its
\* runtime has no directory.
Stays(p) ==
  /\ Living(p) /\ at[p].pc \in AtPort /\ at'[p].port = at[p].port /\ (Finds(p) => Finds(p)')
Ownless(p) == \A n \in Port : grant'[n].meta # RuntimeOf[p]

LEMMA NothingNamed ==
  ASSUME Unique, \A n \in Port : grant'[n].meta \in {None, grant[n].meta},
         \A p \in Launcher : Living(p)' /\ at'[p].pc \in AtPort => Stays(p) \/ Ownless(p)
  PROVE  Unique'
<1>1. OneMeta'
  BY DEF Unique, OneMeta
<1>2. ASSUME NEW p \in Launcher, Living(p)', at'[p].pc \in AtPort,
             NEW n \in Port, grant'[n].meta = RuntimeOf[p]
      PROVE  n = at'[p].port /\ Finds(p)'
  <2>1. Stays(p) /\ grant[n].meta = RuntimeOf[p]
    BY <1>2, NoneIsNobody DEF Ownless
  <2> QED BY <2>1 DEF Unique, OwnSeen, Stays
<1>3. OwnSeen'
  BY <1>2 DEF OwnSeen
<1> QED BY <1>1, <1>3 DEF Unique

(* The launchers that a step leaves alone stay.                             *)
LEMMA OthersStay ==
  ASSUME NEW p \in Launcher, Living(p)', at'[p].pc \in AtPort, at'[p] = at[p],
         exe[p] = exe'[p] \/ Living(p)
  PROVE  Stays(p)
BY DEF Stays, Living, Finds

(* A launcher whose search moves on has left no directory of its runtime     *)
(* behind.                                                                 *)
LEMMA MovesOnOwnless ==
  ASSUME TypeOK, Unique, NEW p \in Launcher, exe[p] = "bash", at[p].pc \in AtPort, MoveOn(p),
         UNCHANGED <<exe, grant>>, \A n \in Port : grant[n].meta # RuntimeOf[p]
  PROVE  Unique'
<1>1. Ownless(p)
  BY DEF Ownless
<1>2. \A q \in Launcher \ {p} : at'[q] = at[q]
  BY DEF MoveOn, TypeOK
<1> QED BY <1>1, <1>2, OthersStay, NothingNamed DEF Living

LEMMA ScanFinds ==
  ASSUME TypeOK, Unique, NEW p \in Launcher, Scan(p)
  PROVE  Unique'
<1> DEFINE x == ToPort(p, 1, TRUE)
<1>1. /\ at' = [at EXCEPT ![p] = x] /\ UNCHANGED <<exe, grant>>
      /\ \A q \in Launcher \ {p} : at'[q] = at[q]
  BY DEF Scan, TypeOK
<1>2. at'[p] = x
  BY <1>1 DEF TypeOK
<1>3. ASSUME NEW n \in Port, grant[n].meta = RuntimeOf[p]
      PROVE  x.pc = "try" /\ x.own /\ x.port = n
  <2>1. n \in OwnPortsFrom(p, 1) /\ OwnPortsFrom(p, 1) \subseteq Port
    BY <1>3 DEF OwnPortsFrom, Port
  <2>2. Min(OwnPortsFrom(p, 1)) \in OwnPortsFrom(p, 1)
    BY <2>1, LeastPort
  <2>3. grant[Min(OwnPortsFrom(p, 1))].meta = RuntimeOf[p] /\ Min(OwnPortsFrom(p, 1)) \in Port
    BY <2>2 DEF OwnPortsFrom
  <2>4. Min(OwnPortsFrom(p, 1)) = n
    BY <1>3, <2>3, NoneIsNobody DEF Unique, OneMeta
  <2>5. x = [at[p] EXCEPT !.pc = "try", !.own = TRUE, !.port = n]
    BY <2>1, <2>4 DEF ToPort
  <2>6. at[p] \in Position
    BY DEF TypeOK
  <2> QED BY <2>5, <2>6 DEF Position
<1> HIDE DEF x
<1>4. OneMeta'
  BY <1>1 DEF Unique, OneMeta
<1>5. ASSUME NEW q \in Launcher, Living(q)', at'[q].pc \in AtPort,
             NEW n \in Port, grant'[n].meta = RuntimeOf[q]
      PROVE  n = at'[q].port /\ Finds(q)'
  <2>1. CASE q = p
    BY <1>1, <1>2, <1>3, <1>5, <2>1 DEF Finds
  <2>2. CASE q # p
    BY <1>1, <1>5, <2>2 DEF Unique, OwnSeen, Living, Finds
  <2> QED BY <2>1, <2>2
<1> QED BY <1>4, <1>5 DEF Unique, OwnSeen

(* The name goes on a directory when the runtime has none, and the lock has  *)
(* no other launcher of the runtime look for one.                           *)
LEMMA WriteMetaNames ==
  ASSUME IInv, broken = "no", Unique, NEW p \in Launcher, WriteMeta(p)
  PROVE  Unique'
<1> DEFINE n == at[p].port
<1>1. /\ exe[p] = "bash" /\ at[p].pc = "meta" /\ UNCHANGED <<exe, lock>>
      /\ at' = [at EXCEPT ![p].pc = "pid"]
      /\ grant' = [grant EXCEPT ![n] = WithMeta(@, RuntimeOf[p])]
  BY DEF WriteMeta, At, GoTo
<1>2. Living(p) /\ Locked(p) /\ at[p].pc \in AtPort /\ n \in Port
  BY <1>1, NoneIsNobody DEF Living, Locked, BeforeLock, AtPort, IInv, Places
<1>3. \A m \in Port : grant[m].meta # RuntimeOf[p]
  BY <1>1, <1>2 DEF Unique, OwnSeen, Finds
<1>4. /\ at'[p].pc = "pid" /\ at'[p].port = n
      /\ \A q \in Launcher \ {p} : at'[q] = at[q]
  BY <1>1 DEF IInv, TypeOK, Position
<1>5. \A m \in Port \ {n} : grant'[m] = grant[m]
  BY <1>1 DEF IInv, TypeOK
<1>6. grant'[n].meta = RuntimeOf[p]
  <2>1. grant[n] \in Dir /\ RuntimeOf[p] \in Runtime
    BY <1>2, NoneIsNobody DEF IInv, TypeOK
  <2>2. grant[n].by = p
    BY <1>1, <1>2 DEF IInv, Sound, GrantsOwned, Holding
  <2>3. grant'[n] = WithMeta(grant[n], RuntimeOf[p])
    BY <1>1, <1>2 DEF IInv, TypeOK
  <2> QED BY <2>1, <2>2, <2>3, Directories, NoneIsNobody
<1> HIDE DEF n
<1>7. OneMeta'
  BY <1>3, <1>5, <1>6 DEF Unique, OneMeta
<1>8. ASSUME NEW q \in Launcher, Living(q)', at'[q].pc \in AtPort,
             NEW m \in Port, grant'[m].meta = RuntimeOf[q]
      PROVE  m = at'[q].port /\ Finds(q)'
  <2>1. CASE q = p
    BY <1>3, <1>4, <1>5, <1>8, <2>1 DEF Finds
  <2>2. CASE q # p
    <3>1. Living(q) /\ Locked(q) /\ at[q].pc \in AtPort
      BY <1>1, <1>4, <1>8, <2>2 DEF Living, Locked, AtPort, BeforeLock
    <3>2. RuntimeOf[q] # RuntimeOf[p]
      BY <1>2, <2>2, <3>1 DEF IInv, Sound, LocksOwned
    <3>3. grant[m].meta = RuntimeOf[q]
      BY <1>5, <1>6, <1>8, <3>2
    <3> QED BY <1>4, <2>2, <3>1, <3>3 DEF Unique, OwnSeen, Finds
  <2> QED BY <2>1, <2>2
<1> QED BY <1>7, <1>8 DEF Unique, OwnSeen

(* The steps of a launcher at a port that name no directory.                *)
LEMMA PortSteps ==
  ASSUME IInv, Unique, NEW p \in Launcher,
         \/ SkipBound(p) \/ MakeGrant(p) \/ LookAtGrant(p) \/ RemoveGrant(p) \/ RemakeGrant(p)
         \/ WritePid(p)
  PROVE  Unique'
<1> USE NoneIsNobody
<1>1. exe[p] = "bash" /\ at[p].pc \in AtPort /\ UNCHANGED exe
  BY DEF SkipBound, MakeGrant, LookAtGrant, RemoveGrant, RemakeGrant, WritePid, At, AtPort
<1>2. TypeOK /\ Living(p) /\ at[p] \in Position /\ at[p].port \in Port
  BY <1>1 DEF IInv, TypeOK, Places, Living
<1>3. CASE MoveOn(p) /\ UNCHANGED grant
  <2>1. \A n \in Port : grant[n].meta # RuntimeOf[p]
    <3>1. at[p].pc = "remk" \/ (at[p].pc = "try" /\ ~at[p].own) \/ MyGrant(p).meta # RuntimeOf[p]
      <4>1. CASE SkipBound(p) \/ RemakeGrant(p)
        BY <4>1 DEF SkipBound, RemakeGrant, At
      <4>2. CASE LookAtGrant(p)
        <5>1. CASE MayReclaim(p)
          <6>1. at'[p].pc = "rm"
            BY <1>2, <4>2, <5>1 DEF LookAtGrant, TypeOK, Position
          <6>2. ToPort(p, at[p].port + 1, at[p].own).pc \in {"try", "die"}
            <7>1. at[p].port + 1 \in Nat \ {0} /\ at[p].own \in BOOLEAN
              BY <1>2, ArbiterAssumption DEF Position
            <7> QED BY <7>1, <1>2, NextTry
          <6> QED BY <1>2, <1>3, <6>1, <6>2 DEF MoveOn, TypeOK
        <5>2. CASE ~MayReclaim(p)
          BY <5>2 DEF MayReclaim
        <5> QED BY <5>1, <5>2
      <4>3. CASE MakeGrant(p) \/ RemoveGrant(p) \/ WritePid(p)
        <5>1. at'[p].pc \in {"meta", "look", "remk", "granted"}
          BY <1>2, <4>3 DEF MakeGrant, RemoveGrant, WritePid, GoTo, TypeOK, Position
        <5>2. ToPort(p, at[p].port + 1, at[p].own).pc \in {"try", "die"}
          <6>1. at[p].port + 1 \in Nat \ {0} /\ at[p].own \in BOOLEAN
            BY <1>2, ArbiterAssumption DEF Position
          <6> QED BY <6>1, <1>2, NextTry
        <5> QED BY <1>2, <1>3, <5>1, <5>2 DEF MoveOn, TypeOK
      <4> QED BY <4>1, <4>2, <4>3
    <3> QED BY <1>1, <1>2, <3>1 DEF Unique, OwnSeen, Finds, MyGrant
  <2> QED BY <1>1, <1>2, <1>3, <2>1, MovesOnOwnless
<1>4. CASE \/ GoTo(p, "look") /\ at[p].pc = "try" /\ UNCHANGED grant
           \/ at[p].pc = "look" /\ at' = [at EXCEPT ![p].pc = "rm", ![p].seen = MyGrant(p).by]
              /\ UNCHANGED grant
           \/ WritePid(p)
  <2>1. \A n \in Port : grant'[n].meta = grant[n].meta
    <3>1. CASE WritePid(p)
      <4>1. grant' = [grant EXCEPT ![at[p].port] = WithPid(@, p)]
        BY <3>1 DEF WritePid
      <4>2. grant[at[p].port] \in Dir /\ RuntimeOf[p] \in Runtime
        BY <1>2 DEF TypeOK
      <4>3. WithPid(grant[at[p].port], p).meta = grant[at[p].port].meta
        BY <4>2, Directories
      <4> QED BY <1>2, <4>1, <4>3 DEF TypeOK
    <3> QED BY <1>4, <3>1
  <2>2. /\ \A q \in Launcher \ {p} : at'[q] = at[q]
        /\ at'[p].port = at[p].port /\ at'[p].own = at[p].own
        /\ \/ at[p].pc = "try" /\ at'[p].pc = "look"
           \/ at[p].pc = "look" /\ at'[p].pc = "rm"
           \/ at[p].pc = "pid" /\ at'[p].pc = "granted"
    BY <1>2, <1>4 DEF GoTo, WritePid, At, TypeOK, Position
  <2>3. Stays(p)
    BY <1>1, <1>2, <2>2 DEF Stays, Finds
  <2> QED BY <1>1, <2>1, <2>2, <2>3, OthersStay, NothingNamed
<1>5. CASE \/ at[p].pc \in {"try", "remk"} /\ grant' = [grant EXCEPT ![at[p].port] = Fresh(p)]
              /\ GoTo(p, "meta")
           \/ RemoveGrant(p)
  <2>1. \E d \in Dir : d.meta = None /\ grant' = [grant EXCEPT ![at[p].port] = d]
    BY <1>5 DEF RemoveGrant, Absent, Fresh, Dir
  <2>2. \A n \in Port : grant'[n].meta = IF n = at[p].port THEN None ELSE grant[n].meta
    BY <1>2, <2>1 DEF TypeOK
  <2>3. Ownless(p)
    BY <1>1, <1>2, <2>2 DEF Unique, OwnSeen, Ownless
  <2>4. \A q \in Launcher \ {p} : at'[q] = at[q]
    BY <1>2, <1>5 DEF GoTo, RemoveGrant, TypeOK
  <2> QED BY <1>1, <2>2, <2>3, <2>4, OthersStay, NothingNamed
<1> QED BY <1>3, <1>4, <1>5 DEF SkipBound, MakeGrant, LookAtGrant, RemakeGrant, At

(* The other steps: processes end or are not at a port, directories go.      *)
LEMMA OtherSteps ==
  ASSUME IInv, Unique, NEW p \in Launcher,
         \/ Start(p) \/ MakeLock(p) \/ LookAtLock(p) \/ RemoveLock(p) \/ WriteLockPid(p)
         \/ Die(p) \/ Exec(p) \/ Shutdown(p) \/ Crash(p)
  PROVE  Unique'
<1> USE NoneIsNobody
<1>1. TypeOK
  BY DEF IInv
<1>2. \A n \in Port : grant'[n].meta \in {None, grant[n].meta}
  BY <1>1 DEF TypeOK, Start, MakeLock, LookAtLock, RemoveLock, WriteLockPid, Die, Exec, Shutdown, Crash,
              Absent
<1>3. \A q \in Launcher \ {p} : at'[q] = at[q] /\ exe'[q] = exe[q]
  BY <1>1 DEF TypeOK, Start, MakeLock, LookAtLock, RemoveLock, WriteLockPid, Die, Exec, Shutdown, Crash,
              Ends, GoTo
<1>4. at'[p].pc \in AtPort => Exec(p)
  BY <1>1 DEF TypeOK, Position, Start, MakeLock, LookAtLock, RemoveLock, WriteLockPid, Die, Shutdown,
              Crash, Ends, GoTo, At, AtPort, Nowhere
<1>5. Exec(p) => at'[p] = at[p] /\ Living(p)
  BY DEF Exec, At, Living
<1> QED BY <1>2, <1>3, <1>4, <1>5, OthersStay, NothingNamed

LEMMA WorldSteps ==
  ASSUME IInv, Unique, (\E n \in Port : Age(n)) \/ SweepLooks \/ SweepRemoves \/ UNCHANGED vars
  PROVE  Unique'
<1>1. UNCHANGED <<exe, at>>
  BY DEF Age, SweepLooks, SweepRemoves, vars
<1>2. \A n \in Port : grant'[n].meta \in {None, grant[n].meta}
  BY DEF IInv, TypeOK, Dir, Age, SweepLooks, SweepRemoves, vars, Absent
<1> QED BY <1>1, <1>2, OthersStay, NothingNamed

LEMMA UniqueStep ==
  ASSUME IInv, broken = "no" => Unique, [Next]_vars, broken' = "no"
  PROVE  Unique'
<1>1. broken = "no"
  BY DEF Next, LaunchStep, Start, MakeLock, LookAtLock, RemoveLock, WriteLockPid, Scan, SkipBound,
         MakeGrant, LookAtGrant, RemoveGrant, RemakeGrant, WriteMeta, WritePid, Die, Exec, Shutdown,
         Crash, Age, SweepLooks, SweepRemoves, Breaks, vars
<1>2. TypeOK /\ Unique
  BY <1>1 DEF IInv
<1>3. ASSUME NEW p \in Launcher, LaunchStep(p) \/ Start(p) \/ Shutdown(p) \/ Crash(p) PROVE Unique'
  BY <1>1, <1>2, <1>3, ScanFinds, WriteMetaNames, PortSteps, OtherSteps DEF LaunchStep
<1> QED BY <1>2, <1>3, WorldSteps DEF Next

(* Until a directory of a living process is removed, a runtime owns one      *)
(* directory of the pool: a restart takes its own port back, whatever the   *)
(* reaper, crashes and the other runtimes do in between.                    *)
THEOREM GrantsUnique == Spec => []OneGrantPerRuntime
<1>1. Init => (broken = "no" => Unique)
  BY NoneIsNobody DEF Init, Unique, OneMeta, OwnSeen, Living, Absent
<1>2. IInv /\ (broken = "no" => Unique) /\ [Next]_vars => (broken = "no" => Unique)'
  BY UniqueStep
<1>3. (broken = "no" => Unique) => OneGrantPerRuntime
  BY DEF Unique, OneMeta, OneGrantPerRuntime
<1> QED BY InitIInv, Invariance, <1>1, <1>2, <1>3, PTL DEF Spec
=============================================================================
