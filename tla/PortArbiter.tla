----------------------------- MODULE PortArbiter -----------------------------
(* How launchers of several agents' runtimes get a port each: the runtime    *)
(* lock and the hand-over to the proxy of godot-mcp-launcher.sh, the grants   *)
(* of port-arbiter.lib.sh, the release in the proxy's shutdown and the held-  *)
(* directory sweep of reap-stale-leases.sh.  Every process works on the same  *)
(* file system, one step at a time; mkdir, rm -rf, the reading and the        *)
(* writing of one file are atomic.                                           *)
EXTENDS Integers, FiniteSets, FiniteSetsExt

CONSTANTS
  Launcher,      \* launcher processes; each becomes a proxy (same pid) by exec
  Runtime,       \* runtime ids
  RuntimeOf,     \* the runtime id of a launcher
  NPorts,        \* the dynamic pool: ports 1..NPorts
  MaxWait,       \* turns of waiting for a live holder of the runtime lock
  None           \* no process, no runtime

ASSUME ArbiterAssumption ==
  /\ RuntimeOf \in [Launcher -> Runtime]
  /\ NPorts \in Nat \ {0} /\ MaxWait \in Nat
  /\ None \notin Launcher \cup Runtime

Port == 1..NPorts

VARIABLES
  exe,     \* what /proc/<pid>/exe says of each launcher: "none", "bash", "node", "gone"
  at,      \* where its script is: [pc, port, own, seen, waited]
  lock,    \* held/<runtime_id>/
  grant,   \* godot-mcp-held/<port>/
  reaper,  \* the directory the reaper has judged dead and is about to remove
  broken   \* history: what a process first did to a directory of another, living one

vars == <<exe, at, lock, grant, reaper, broken>>

-----------------------------------------------------------------------------
(* Directories.                                                             *)

\* by: whose mkdir made it, i.e. its identity; None if there is no directory.
Absent == [by |-> None, meta |-> None, pid |-> None, young |-> FALSE]
Fresh(p) == [by |-> p, meta |-> None, pid |-> None, young |-> TRUE]

\* Writing a file into the directory at that path, whoever made it.
WithMeta(d, r) == IF d.by = None THEN d ELSE [d EXCEPT !.meta = r, !.young = TRUE]
WithPid(d, p)  == IF d.by = None THEN d ELSE [d EXCEPT !.pid = p, !.young = TRUE]

\* kill -0 and the exe is node.
PidAlive(pid) == pid # None /\ exe[pid] = "node"

Living(p) == p # None /\ exe[p] \in {"bash", "node"}

\* p ends; its position is of no interest any more.
Nowhere == [pc |-> "idle", port |-> 0, own |-> FALSE, seen |-> None, waited |-> 0]
Ends(p) == exe' = [exe EXCEPT ![p] = "gone"] /\ at' = [at EXCEPT ![p] = Nowhere]

Init ==
  /\ exe = [p \in Launcher |-> "none"]
  /\ at = [p \in Launcher |-> Nowhere]
  /\ lock = [r \in Runtime |-> Absent]
  /\ grant = [n \in Port |-> Absent]
  /\ reaper = <<>>
  /\ broken = "no"

At(p, pc) == exe[p] = "bash" /\ at[p].pc = pc
GoTo(p, pc) == at' = [at EXCEPT ![p].pc = pc]

-----------------------------------------------------------------------------
(* The runtime lock.                                                        *)

MyLock(p) == lock[RuntimeOf[p]]

Start(p) ==
  /\ exe[p] = "none"
  /\ exe' = [exe EXCEPT ![p] = "bash"] /\ GoTo(p, "lockMk")
  /\ UNCHANGED <<lock, grant, reaper, broken>>

MakeLock(p) ==
  /\ At(p, "lockMk")
  /\ IF MyLock(p).by = None
     THEN lock' = [lock EXCEPT ![RuntimeOf[p]] = Fresh(p)] /\ GoTo(p, "lockPid")
     ELSE GoTo(p, "lockLook") /\ UNCHANGED lock
  /\ UNCHANGED <<exe, grant, reaper, broken>>

\* The holder's pid, read and judged: wait for a live proxy, give up in the
\* end, take the lock of anything else.
LookAtLock(p) ==
  /\ At(p, "lockLook")
  /\ \/ /\ ~PidAlive(MyLock(p).pid)
        /\ at' = [at EXCEPT ![p].pc = "lockRm", ![p].seen = MyLock(p).by]
        /\ UNCHANGED exe
     \/ /\ PidAlive(MyLock(p).pid) /\ at[p].waited < MaxWait
        /\ at' = [at EXCEPT ![p].waited = @ + 1] /\ UNCHANGED exe
     \/ /\ PidAlive(MyLock(p).pid) /\ at[p].waited = MaxWait
        /\ Ends(p)
  /\ UNCHANGED <<lock, grant, reaper, broken>>

\* What the removal of directory d of a living process means.
Breaks(p, d, how) == IF Living(d.by) /\ d.by # p /\ broken = "no" THEN how ELSE broken

RemoveLock(p) ==
  /\ At(p, "lockRm")
  /\ broken' = Breaks(p, MyLock(p), IF MyLock(p).by = at[p].seen THEN "steal" ELSE "race")
  /\ lock' = [lock EXCEPT ![RuntimeOf[p]] = Absent]
  /\ at' = [at EXCEPT ![p].pc = "lockMk", ![p].seen = None] /\ UNCHANGED <<exe, grant, reaper>>

\* Without the directory the write fails and, under set -e, the script ends;
\* the EXIT trap is only set afterwards.
WriteLockPid(p) ==
  /\ At(p, "lockPid")
  /\ lock' = [lock EXCEPT ![RuntimeOf[p]] = WithPid(@, p)]
  /\ IF MyLock(p).by = None
     THEN Ends(p)
     ELSE at' = [at EXCEPT ![p].pc = "scan", ![p].waited = 0] /\ UNCHANGED exe
  /\ UNCHANGED <<grant, reaper, broken>>

-----------------------------------------------------------------------------
(* port_arbiter_ensure: the runtime's own ports first, then the pool.        *)

OwnPortsFrom(p, n) == {m \in Port : m >= n /\ grant[m].meta = RuntimeOf[p]}

\* Slip: the pool is scanned one port too far.
ToPortPast(p, n, own) ==
  IF own /\ OwnPortsFrom(p, n) # {}
  THEN [at[p] EXCEPT !.pc = "try", !.own = TRUE, !.port = Min(OwnPortsFrom(p, n))]
  ELSE IF own THEN [at[p] EXCEPT !.pc = "try", !.own = FALSE, !.port = 1]
  ELSE IF n <= NPorts + 1 THEN [at[p] EXCEPT !.pc = "try", !.port = n]
  ELSE [at[p] EXCEPT !.pc = "die", !.port = 0]

\* The next port to try from n on: an own one, then the whole pool, then none.
ToPort(p, n, own) ==
  IF own /\ OwnPortsFrom(p, n) # {}
  THEN [at[p] EXCEPT !.pc = "try", !.own = TRUE, !.port = Min(OwnPortsFrom(p, n))]
  ELSE IF own THEN [at[p] EXCEPT !.pc = "try", !.own = FALSE, !.port = 1]
  ELSE IF n <= NPorts THEN [at[p] EXCEPT !.pc = "try", !.port = n]
  ELSE [at[p] EXCEPT !.pc = "die", !.port = 0]

MoveOn(p) == at' = [at EXCEPT ![p] = ToPort(p, at[p].port + 1, at[p].own)]

\* Slip: a restart goes straight to the pool.
ScanPool(p) ==
  /\ At(p, "scan") /\ at' = [at EXCEPT ![p].pc = "try", ![p].port = 1]
  /\ UNCHANGED <<exe, lock, grant, reaper, broken>>

Scan(p) ==
  /\ At(p, "scan") /\ at' = [at EXCEPT ![p] = ToPort(p, 1, TRUE)]
  /\ UNCHANGED <<exe, lock, grant, reaper, broken>>

\* A port of the pool that is bound is skipped; anything may be bound to it,
\* and a probe that cannot be made reads as free.
SkipBound(p) ==
  /\ At(p, "try") /\ ~at[p].own /\ MoveOn(p)
  /\ UNCHANGED <<exe, lock, grant, reaper, broken>>

(* port_arbiter_try_acquire.                                               *)

MyGrant(p) == grant[at[p].port]

MakeGrant(p) ==
  /\ At(p, "try")
  /\ IF MyGrant(p).by = None
     THEN grant' = [grant EXCEPT ![at[p].port] = Fresh(p)] /\ GoTo(p, "meta")
     ELSE GoTo(p, "look") /\ UNCHANGED grant
  /\ UNCHANGED <<exe, lock, reaper, broken>>

\* Slip: the cooldown is not looked at.
MayReclaimYoung(p) ==
  \/ MyGrant(p).meta = RuntimeOf[p]
  \/ ~PidAlive(MyGrant(p).pid)

\* Slip: a holder that went through the cooldown counts as dead.
MayReclaimOld(p) ==
  \/ MyGrant(p).meta = RuntimeOf[p]
  \/ ~MyGrant(p).young

\* One's own runtime's directory, or one that is old and whose pid is dead.
MayReclaim(p) ==
  \/ MyGrant(p).meta = RuntimeOf[p]
  \/ ~MyGrant(p).young /\ ~PidAlive(MyGrant(p).pid)

LookAtGrant(p) ==
  /\ At(p, "look")
  /\ IF MayReclaim(p)
     THEN at' = [at EXCEPT ![p].pc = "rm", ![p].seen = MyGrant(p).by]
     ELSE MoveOn(p)
  /\ UNCHANGED <<exe, lock, grant, reaper, broken>>

RemoveGrant(p) ==
  /\ At(p, "rm")
  /\ broken' = IF MyGrant(p).by = at[p].seen THEN broken ELSE Breaks(p, MyGrant(p), "race")
  /\ grant' = [grant EXCEPT ![at[p].port] = Absent]
  /\ at' = [at EXCEPT ![p].pc = "remk", ![p].seen = None] /\ UNCHANGED <<exe, lock, reaper>>

RemakeGrant(p) ==
  /\ At(p, "remk")
  /\ IF MyGrant(p).by = None
     THEN grant' = [grant EXCEPT ![at[p].port] = Fresh(p)] /\ GoTo(p, "meta")
     ELSE MoveOn(p) /\ UNCHANGED grant
  /\ UNCHANGED <<exe, lock, reaper, broken>>

WriteMeta(p) ==
  /\ At(p, "meta") /\ GoTo(p, "pid")
  /\ grant' = [grant EXCEPT ![at[p].port] = WithMeta(@, RuntimeOf[p])]
  /\ UNCHANGED <<exe, lock, reaper, broken>>

WritePid(p) ==
  /\ At(p, "pid") /\ GoTo(p, "granted")
  /\ grant' = [grant EXCEPT ![at[p].port] = WithPid(@, p)]
  /\ UNCHANGED <<exe, lock, reaper, broken>>

-----------------------------------------------------------------------------
(* The rest of a launcher's life.                                           *)

\* die after the trap was set: no port left, or the worktree is served by
\* another runtime.  The trap removes the lock, the grant stays.
Die(p) ==
  /\ At(p, "die") \/ At(p, "granted")
  /\ Ends(p) /\ lock' = [lock EXCEPT ![RuntimeOf[p]] = Absent]
  /\ UNCHANGED <<grant, reaper, broken>>

Exec(p) ==
  /\ At(p, "granted")
  /\ exe' = [exe EXCEPT ![p] = "node"]
  /\ UNCHANGED <<at, lock, grant, reaper, broken>>

\* The proxy's clean exit: port_arbiter_release of its port; the runtime lock
\* stays behind with a dead pid.
Shutdown(p) ==
  /\ exe[p] = "node"
  /\ Ends(p) /\ grant' = [grant EXCEPT ![at[p].port] = Absent]
  /\ UNCHANGED <<lock, reaper, broken>>

\* SIGKILL, at any point.
Crash(p) ==
  /\ Living(p)
  /\ Ends(p) /\ UNCHANGED <<lock, grant, reaper, broken>>

\* PORT_COOLDOWN_SEC go by.  A launcher reaches exec sooner than that.
Age(n) ==
  /\ grant[n].young
  /\ grant[n].by # None => exe[grant[n].by] # "bash"
  /\ grant' = [grant EXCEPT ![n].young = FALSE]
  /\ UNCHANGED <<exe, at, lock, reaper, broken>>

-----------------------------------------------------------------------------
(* The reaper's sweep of both kinds of directory.                           *)

SweepLooks ==
  /\ reaper = <<>>
  /\ \/ \E r \in Runtime : /\ lock[r].by # None /\ ~PidAlive(lock[r].pid)
                           /\ reaper' = <<"lock", r>>
     \/ \E n \in Port : /\ grant[n].by # None /\ ~PidAlive(grant[n].pid)
                        /\ reaper' = <<"grant", n>>
  /\ UNCHANGED <<exe, at, lock, grant, broken>>

SweepRemoves ==
  /\ reaper # <<>> /\ reaper' = <<>>
  /\ IF reaper[1] = "lock"
     THEN /\ broken' = Breaks(None, lock[reaper[2]], "sweep")
          /\ lock' = [lock EXCEPT ![reaper[2]] = Absent] /\ UNCHANGED grant
     ELSE /\ broken' = Breaks(None, grant[reaper[2]], "sweep")
          /\ grant' = [grant EXCEPT ![reaper[2]] = Absent] /\ UNCHANGED lock
  /\ UNCHANGED <<exe, at>>

-----------------------------------------------------------------------------
LaunchStep(p) ==
  \/ MakeLock(p) \/ LookAtLock(p) \/ RemoveLock(p) \/ WriteLockPid(p)
  \/ Scan(p) \/ SkipBound(p) \/ MakeGrant(p) \/ LookAtGrant(p) \/ RemoveGrant(p) \/ RemakeGrant(p)
  \/ WriteMeta(p) \/ WritePid(p) \/ Die(p) \/ Exec(p)

Next ==
  \/ \E p \in Launcher : Start(p) \/ LaunchStep(p) \/ Shutdown(p) \/ Crash(p)
  \/ \E n \in Port : Age(n)
  \/ SweepLooks \/ SweepRemoves

Spec == Init /\ [][Next]_vars

-----------------------------------------------------------------------------
(* Properties.                                                              *)

Dir == [by : Launcher \cup {None}, meta : Runtime \cup {None}, pid : Launcher \cup {None}, young : BOOLEAN]

Position ==
  [pc : {"idle", "lockMk", "lockLook", "lockRm", "lockPid", "scan", "try", "look", "rm", "remk",
         "meta", "pid", "granted", "die"},
   port : 0..NPorts, own : BOOLEAN, seen : Launcher \cup {None}, waited : 0..MaxWait]

TypeOK ==
  /\ exe \in [Launcher -> {"none", "bash", "node", "gone"}]
  /\ at \in [Launcher -> Position]
  /\ lock \in [Runtime -> Dir] /\ grant \in [Port -> Dir]
  /\ reaper \in {<<>>} \cup ({"lock"} \X Runtime) \cup ({"grant"} \X Port)
  /\ broken \in {"no", "steal", "race", "sweep"}

Granted(p) == Living(p) /\ at[p].pc = "granted"

(* Two live runtimes have the same port only after one of them lost its       *)
(* directory in one of three ways: the reaper swept a launcher that had not   *)
(* become node yet, a second launcher of the runtime took such a launcher's   *)
(* lock, or a directory was replaced between the look at it and its removal.  *)
(* The cooldown, the liveness check, the release and the same-runtime         *)
(* take-over never give a port away.                                        *)
ExclusiveUnlessBroken ==
  broken = "no" => \A p, q \in Launcher : Granted(p) /\ Granted(q) /\ p # q => at[p].port # at[q].port

(* Under the same conditions a runtime owns one directory of the pool: a     *)
(* restart takes its own port back instead of a second one.                 *)
OneGrantPerRuntime ==
  broken = "no" => \A m, n \in Port : grant[m].meta = grant[n].meta /\ grant[m].meta # None => m = n

(* Two runs of one runtime do not both become live proxies.                 *)
OneProxyPerRuntime ==
  \A p, q \in Launcher : RuntimeOf[p] = RuntimeOf[q] /\ exe[p] = "node" /\ exe[q] = "node" => p = q

=============================================================================
