--------------------------- MODULE RuntimeHandoff ---------------------------
(***************************************************************************)
(* The proxies of one runtime, their lock and their record on disk: the    *)
(* lock and the record of state-file.mjs, the hand-off at the start        *)
(* (godot-mcp-proxy.mjs, see1338-handoff.mjs), what a proxy writes as its  *)
(* editor comes and goes (spawn.mjs, warmup.mjs, lifecycle.mjs), and the   *)
(* start script's own write (state-cli.mjs).                               *)
(*                                                                         *)
(* File operations are the steps: a proxy is one thread, and between two   *)
(* of its operations those of another process come.                        *)
(***************************************************************************)
EXTENDS Naturals

CONSTANTS Proxy,      \* the proxies that start for the runtime, by their pids
          Script,     \* the start script, a writer of the record
          None,
          MaxFaults   \* bound: deaths of proxies and of editors

ASSUME HandoffAssumption ==
    /\ None \notin Proxy /\ Script \notin Proxy /\ None # Script /\ MaxFaults \in Nat
    /\ "none" \notin Proxy /\ "bare" \notin Proxy

VARIABLES
    pc,       \* where each proxy is
    locked,   \* living proxies that were told {locked: true}
    dir,      \* the held-runtime directory: "none", "bare" or its owner
    rec,      \* the .state record
    buf,      \* a document merged by a process and not yet renamed
    stage,    \* each proxy's own view of its editor
    up,       \* an editor is bound to the port
    script,   \* the start script has a pid to record
    raced,    \* (history) a start or a release has crossed another start
    faults

vars == <<pc, locked, dir, rec, buf, stage, up, script, raced, faults>>

\* The states that the decisions tell apart: RECOVERING counts as WARMING, and
\* FAILED_CLEAN and a record that cannot be read as COLD.
States == {"COLD", "WARMING", "WARM"}
\* A pid on record is that of the editor that is up or of an earlier one.
Pids   == {"none", "this", "old"}
NoRec  == [state |-> "COLD", owner |-> None, editor |-> "none"]
Writers == Proxy \cup {Script}

Init ==
    /\ pc = [p \in Proxy |-> "new"] /\ locked = {} /\ dir = "none"
    /\ rec = NoRec /\ buf = [w \in Writers |-> None]
    /\ stage = [p \in Proxy |-> "cold"] /\ up = FALSE
    /\ script = FALSE /\ raced = FALSE /\ faults = 0

Alive(p) == p \in Proxy /\ pc[p] \notin {"new", "dead"}
Starting(p) == pc[p] \in {"steal", "make", "own"}
Running(p) == pc[p] = "run" /\ buf[p] = None

(***************************************************************************)
(* The held-runtime lock.                                                  *)
(***************************************************************************)
Goes(p, l) == pc' = [pc EXCEPT ![p] = l]
DiskUnchanged == UNCHANGED <<rec, buf, stage, up, script, faults>>

LookTo(p, l) ==
    /\ pc[p] = "new" /\ Goes(p, l)
    /\ raced' = (raced \/ \E q \in Proxy : Starting(q))
    /\ UNCHANGED <<locked, dir>> /\ DiskUnchanged

\* Slip: the owner's pid is not probed.
LookPid(p) ==
    LookTo(p, IF dir = "none" THEN "make" ELSE IF dir # "bare" THEN "steal" ELSE "run")

\* Slip: a proxy without the lock does not leave the hand-off.
LookDecides(p) ==
    LookTo(p, IF dir = "none" THEN "make" ELSE IF dir # "bare" THEN "decide" ELSE "run")

\* resolveLockContention: a directory without an owner is taken for a live
\* holder's, and the proxy goes on without the lock.
Look(p) == LookTo(p,
    CASE dir = "none" -> "make"
      [] dir \in Proxy /\ ~Alive(dir) -> "steal"
      [] OTHER -> "run")

Steal(p) ==
    /\ pc[p] = "steal" /\ dir' = "none" /\ Goes(p, "make")
    /\ UNCHANGED <<locked, raced>> /\ DiskUnchanged

\* mkdir with recursive: true, which does not fail on a directory.
Make(p) ==
    /\ pc[p] = "make" /\ dir' = (IF dir = "none" THEN "bare" ELSE dir) /\ Goes(p, "own")
    /\ UNCHANGED <<locked, raced>> /\ DiskUnchanged

\* The owner file is written on a best-effort basis.
Own(p) ==
    /\ pc[p] = "own" /\ dir' = (IF dir = "none" THEN dir ELSE p)
    /\ locked' = locked \cup {p} /\ Goes(p, "decide")
    /\ UNCHANGED raced /\ DiskUnchanged

\* releaseRuntimeLock: another's directory stays, one without an owner goes.
ReleaseLooks(p) ==
    /\ pc[p] = "leave" /\ buf[p] = None
    /\ Goes(p, IF dir \in Proxy \ {p} THEN "dead" ELSE "remove")
    /\ locked' = locked \ {p} /\ UNCHANGED <<dir, raced>> /\ DiskUnchanged

ReleaseRemoves(p) ==
    /\ pc[p] = "remove" /\ dir' = "none" /\ Goes(p, "dead")
    /\ raced' = (raced \/ dir \notin {"none", p})
    /\ UNCHANGED locked /\ DiskUnchanged

(***************************************************************************)
(* The record.  A write reads the document, merges its fields and renames  *)
(* a file of its own over it.                                              *)
(***************************************************************************)
Merged(patch) == [f \in DOMAIN rec |-> IF f \in DOMAIN patch THEN patch[f] ELSE rec[f]]
Write(w, patch) == buf' = [buf EXCEPT ![w] = Merged(patch)]

Publish(w) ==
    /\ buf[w] # None /\ rec' = buf[w] /\ buf' = [buf EXCEPT ![w] = None]
    /\ UNCHANGED <<pc, locked, dir, stage, up, script, raced, faults>>

\* decideHandoffAction, with a heartbeat that is fresh or not.
Decision(r, fresh) ==
    IF r.state = "COLD" THEN "cold_start"
    ELSE IF ~Alive(r.owner) THEN "reclaim_dead"
    ELSE IF r.state = "WARM" THEN IF fresh THEN "handoff_warm" ELSE "editor_busy"
    ELSE IF fresh THEN "join_wait" ELSE "reclaim_dead"

\* startupHandoff: the record is claimed, as COLD whatever it said.
Decide(p) ==
    /\ pc[p] = "decide"
    /\ \E fresh \in BOOLEAN :
         LET d == Decision(rec, fresh)
         IN  /\ Goes(p, IF d = "editor_busy" THEN "leave" ELSE "run")
             /\ IF d \in {"editor_busy", "join_wait"} THEN UNCHANGED buf
                ELSE Write(p, [state |-> "COLD", owner |-> p, editor |-> "none"])
    /\ UNCHANGED <<locked, dir, rec, stage, up, script, raced, faults>>

\* A call or the steady-state heartbeat: the same document, with a new time.
Beat(p) ==
    /\ Running(p) /\ (stage[p] = "warm" \/ rec.state = "WARM")
    /\ buf' = [buf EXCEPT ![p] = rec]
    /\ UNCHANGED <<pc, locked, dir, rec, stage, up, script, raced, faults>>

\* The editor's process ends: its pid on record is a dead one now.
Aged(d) == IF d # None /\ d.editor = "this" THEN [d EXCEPT !.editor = "old"] ELSE d
EditorEnds ==
    /\ up' = FALSE /\ script' = FALSE
    /\ rec' = Aged(rec) /\ buf' = [w \in Writers |-> Aged(buf[w])]

Enters(p, s) == stage' = [stage EXCEPT ![p] = s]
Elsewhere == UNCHANGED <<pc, locked, dir, rec, raced>>

\* decideReuseSingleSource, for a proxy of the same worktree and port.
ReuseDecision(r) ==
    CASE r.state = "COLD" -> "cold_start"
      [] r.editor = "old" -> "cold_start"
      [] r.state = "WARM" /\ Alive(r.owner) -> "editor_busy"
      [] OTHER -> "handoff_reuse"

\* ensureEditor on a port that answers.  A cold start, or no record, leaves it
\* to the older rules, which adopt or evict.
EnsureBound(p) ==
    /\ Running(p) /\ stage[p] = "cold" /\ up /\ ReuseDecision(rec) # "editor_busy"
    /\ \/ Enters(p, "warming") /\ UNCHANGED <<up, rec, buf, script>>
       \/ ReuseDecision(rec) = "cold_start" /\ EditorEnds /\ UNCHANGED stage
    /\ UNCHANGED <<pc, locked, dir, raced, faults>>

\* The start script, whose pid comes later from a child left behind; one lane
\* of it clears the record's pid first.
EnsureSpawns(p) ==
    /\ Running(p) /\ stage[p] = "cold" /\ ~up
    /\ Enters(p, "warming") /\ script' = TRUE
    /\ \E e \in {rec.editor, "none"} : Write(p, [state |-> "WARMING", editor |-> e])
    /\ UNCHANGED <<up, faults>> /\ Elsewhere

Warms(p) ==
    /\ Running(p) /\ stage[p] = "warming" /\ up
    /\ Enters(p, "warm") /\ Write(p, [state |-> "WARM"])
    /\ UNCHANGED <<up, script, faults>> /\ Elsewhere

\* The window ends while the server has not connected.
Recovers(p) ==
    /\ Running(p) /\ stage[p] = "warm"
    /\ Enters(p, "warming") /\ Write(p, [state |-> "WARMING"])
    /\ UNCHANGED <<up, script, faults>> /\ Elsewhere

\* beginWarmEditorRespawn
EditorGone(p) ==
    /\ Running(p) /\ stage[p] = "warm" /\ ~up
    /\ Enters(p, "cold") /\ Write(p, [state |-> "COLD", editor |-> "none"])
    /\ UNCHANGED <<up, script, faults>> /\ Elsewhere

\* giveUpAndRearm
GivesUp(p) ==
    /\ Running(p) /\ stage[p] = "warming" /\ ~up
    /\ Enters(p, "cold") /\ Write(p, [state |-> "COLD"])
    /\ UNCHANGED <<up, script, faults>> /\ Elsewhere

\* backfillEditorPid, which lands a living pid only.
Backfill(p) ==
    /\ Running(p) /\ stage[p] = "warm" /\ up /\ rec.state = "WARM" /\ rec.editor = "none"
    /\ Write(p, [editor |-> "this"])
    /\ UNCHANGED <<stage, up, script, faults>> /\ Elsewhere

\* state-cli.mjs; it never replaces the pid of another living editor.
ScriptRecords ==
    /\ script /\ up /\ buf[Script] = None /\ script' = FALSE
    /\ Write(Script, [editor |-> "this"])
    /\ UNCHANGED <<stage, up, faults>> /\ Elsewhere

(***************************************************************************)
(* The end of a proxy, and the world.                                      *)
(***************************************************************************)
Shutdown(p) ==
    /\ Running(p) /\ Goes(p, "leave") /\ Enters(p, "cold")
    /\ Write(p, [owner |-> None])
    /\ UNCHANGED <<locked, dir, rec, up, script, raced, faults>>

\* exitAuditAndReleaseLock: the record keeps its owner.
LegacyExit(p) ==
    /\ Running(p) /\ Goes(p, "leave") /\ stage[p] = "warming" /\ Enters(p, "cold")
    /\ UNCHANGED <<locked, dir, rec, buf, up, script, raced, faults>>

\* A signal, or one of the exits that release nothing.
Crash(p) ==
    /\ Alive(p) /\ faults < MaxFaults /\ faults' = faults + 1
    /\ Goes(p, "dead") /\ Enters(p, "cold") /\ locked' = locked \ {p}
    /\ buf' = [buf EXCEPT ![p] = None]
    /\ UNCHANGED <<dir, rec, up, script, raced>>

EditorBinds ==
    /\ ~up /\ (script \/ \E p \in Proxy : stage[p] = "warming")
    /\ up' = TRUE
    /\ UNCHANGED <<pc, locked, dir, rec, buf, stage, script, raced, faults>>

EditorDies ==
    /\ up /\ faults < MaxFaults /\ faults' = faults + 1 /\ EditorEnds
    /\ UNCHANGED <<pc, locked, dir, stage, raced>>

Next ==
    \/ \E p \in Proxy :
         \/ Look(p) \/ Steal(p) \/ Make(p) \/ Own(p) \/ Decide(p)
         \/ ReleaseLooks(p) \/ ReleaseRemoves(p)
         \/ Beat(p) \/ EnsureBound(p) \/ EnsureSpawns(p) \/ Warms(p) \/ Recovers(p)
         \/ EditorGone(p) \/ GivesUp(p) \/ Backfill(p)
         \/ Shutdown(p) \/ LegacyExit(p) \/ Crash(p)
    \/ \E w \in Writers : Publish(w)
    \/ ScriptRecords \/ EditorBinds \/ EditorDies

Spec == Init /\ [][Next]_vars

-----------------------------------------------------------------------------
Docs == [state : States, owner : Proxy \cup {None}, editor : Pids]

TypeOK ==
    /\ pc \in [Proxy -> {"new", "steal", "make", "own", "decide", "run", "leave",
                         "remove", "dead"}]
    /\ locked \subseteq Proxy /\ dir \in Proxy \cup {"none", "bare"}
    /\ rec \in Docs /\ buf \in [Writers -> Docs \cup {None}]
    /\ stage \in [Proxy -> {"cold", "warming", "warm"}]
    /\ up \in BOOLEAN /\ script \in BOOLEAN /\ raced \in BOOLEAN
    /\ faults \in Nat

\* "mkdir is the atomic primitive" (state-file.mjs:72): two living proxies
\* hold the runtime's lock only after a start or a release has crossed a
\* start (state-file.mjs:104), and until then the holder's name is on it.
OneOwnerUnlessRaced == raced \/ \A p \in locked : dir = p

\* The hand-off never takes the record from a living proxy that claimed it
\* (godot-mcp-proxy.mjs:124-149): unless starts have crossed, no write, not even
\* one that undoes others (state-file.mjs:243), puts the pid of another living
\* proxy on it while the lock is held.
OwnerStands == raced \/ \A p \in locked : rec.owner = p \/ ~Alive(rec.owner)

\* Does not hold: the script's write, whose document is older, undoes WARM.
\* "The record of a warm editor says so" (warmup.mjs:488-490): while one proxy
\* lives and nothing is being written.
RecordTellsWarm == \A p \in Proxy :
    (Running(p) /\ stage[p] = "warm" /\ p \in locked
        /\ (\A w \in Writers : buf[w] = None) /\ \A q \in Proxy \ {p} : pc[q] = "new")
    => rec.state = "WARM"

\* Does not hold: a proxy without the lock goes on, and spawns or adopts.
\* At most one living proxy serves the editor (godot-mcp-proxy.mjs:133-138).
OneManager == \A p, q \in Proxy :
    p # q /\ pc[p] = "run" /\ pc[q] = "run"
        => stage[p] = "cold" \/ stage[q] = "cold"
=============================================================================
