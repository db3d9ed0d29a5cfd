------------------------------ MODULE LogTail ------------------------------
(***************************************************************************)
(* How the proxy follows the editor's log: the monitor of proxy/lease.mjs, *)
(* the scan of warmup-stage-parser.mjs, and what the gate of the warm-up   *)
(* and the hints (proxy/diagnostics.mjs) make of the milestones.           *)
(*                                                                         *)
(* Every boot of an editor makes a new log.  A poll awaits stat, then the  *)
(* read, then the close of the file; the interval starts the next poll     *)
(* whether this one has ended or not.                                      *)
(***************************************************************************)
EXTENDS Naturals, Sequences, FiniteSets

CONSTANTS Poll,      \* polls that can be under way at a time
          MaxBoots,  \* bound: logs that are made
          MaxLines   \* bound: lines of a log

\* "bound" stands for the lines of the plugin's start, the last of which has
\* the delay of the bind.  Only the first three are milestones.
Milestone == {"bound", "received", "client"}
Line      == Milestone \cup {"exiting"}
Ordinal   == [bound |-> 3, received |-> 4, client |-> 5]

VARIABLES
  file,    \* the log: inode (0: no file), lines, and whether a last one is half written
  boot,    \* logs made so far: the number of the last is its boot's
  tail,    \* S.leaseTimer, S.leaseOffset, S.leaseInode (0: null)
  seen,    \* S.stage, the milestones, S.tcpReceivedCount, S.wsBindOkDelayMs
  polls,   \* the polls under way
  history  \* polls crossed, an inode came back, where the tail began, a round is asked for

logvars == <<file, boot, tail, seen, polls, history>>

NoFile == [inode |-> 0, lines |-> <<>>, half |-> FALSE]
Idle   == [pc |-> "idle", size |-> 0, took |-> 0, slice |-> <<>>, of |-> 0]

\* A line is two units long, a half-written one has one of them.
Size(f) == 2 * Len(f.lines) + (IF f.half THEN 1 ELSE 0)
\* The whole lines between two offsets; what is left of a line that was cut
\* by the first matches nothing.
Between(f, from, to) == SubSeq(f.lines, (from + 1) \div 2 + 1, to \div 2)
Has(ls, l)   == \E i \in DOMAIN ls : ls[i] = l
Count(ls, l) == Cardinality({i \in DOMAIN ls : ls[i] = l})

\* A milestone is marked with the boot whose line it was, 0 for null.
Unseen(stage, bind) ==
  [stage |-> stage, at |-> [m \in Milestone |-> 0], received |-> 0, bind |-> bind]

Init ==
  /\ file \in {NoFile} \cup {[inode |-> 1, lines |-> ls, half |-> FALSE] :
                               ls \in {<<>>, <<"bound", "client">>, <<"exiting">>}}
  /\ boot = file.inode
  /\ tail = [timer |-> "starting", offset |-> 0, inode |-> 0]
  /\ seen = Unseen(0, 0) /\ polls = [p \in Poll |-> Idle]
  /\ history = [crossed |-> FALSE, reused |-> FALSE, seed |-> 0, asked |-> FALSE]

-----------------------------------------------------------------------------
(* The monitor.                                                            *)

\* startLeaseMonitor: what is in the log already is an earlier editor's.
Anchor ==
  /\ tail.timer = "starting"
  /\ tail' = [timer |-> "on", offset |-> Size(file), inode |-> file.inode]
  /\ history' = [history EXCEPT !.seed = Size(file)]
  /\ UNCHANGED <<file, boot, seen, polls>>

\* Without an anchor no inode is another one.
NewGeneration == tail.inode # 0 /\ file.inode # tail.inode

\* applyLogGenerationBinding
Rebind(t) ==
  IF NewGeneration THEN [t EXCEPT !.inode = file.inode, !.offset = 0] ELSE t
\* Slip: what the previous boot has shown stays.
ForgetNothing(s) == s
Forget(s) == IF NewGeneration THEN Unseen(1, 0) ELSE s

\* checkLeaseTail up to its second await.  A log that shrank is read again
\* from its beginning.
Stat(p) ==
  /\ tail.timer = "on" /\ polls[p] = Idle
  /\ IF file.inode = 0
     THEN tail' = [tail EXCEPT !.offset = 0] /\ UNCHANGED <<seen, polls, history>>
     ELSE LET t == Rebind(tail)
              o == IF Size(file) < t.offset THEN 0 ELSE t.offset
          IN  /\ tail' = [t EXCEPT !.offset = o]
              /\ seen' = Forget(seen)
              /\ history' = [history EXCEPT !.seed = IF NewGeneration THEN 0 ELSE @,
                               !.crossed = @ \/ \E q \in Poll : polls[q] # Idle]
              /\ polls' = IF Size(file) = o THEN polls
                          ELSE [polls EXCEPT ![p] = [Idle EXCEPT !.pc = "open", !.size = Size(file)]]
  /\ UNCHANGED <<file, boot>>

\* Slip: as much as there is.
TakenRaw(to) == to
\* Whole lines only.
Taken(to) == 2 * (to \div 2)

\* The file that is there now, from the offset of now, up to the size seen.
Read(p) ==
  /\ polls[p].pc = "open"
  /\ LET to  == IF Size(file) < polls[p].size THEN Size(file) ELSE polls[p].size
         end == Taken(to)
     IN  polls' = [polls EXCEPT ![p] =
           IF file.inode = 0 \/ end <= tail.offset THEN Idle
           ELSE [pc |-> "read", size |-> 0, took |-> end - tail.offset,
                 slice |-> Between(file, tail.offset, end), of |-> boot]]
  /\ UNCHANGED <<file, boot, tail, seen, history>>

Take(p) ==
  /\ polls[p].pc = "read" /\ polls' = [polls EXCEPT ![p].pc = "close"]
  /\ tail' = [tail EXCEPT !.offset = @ + polls[p].took]
  /\ UNCHANGED <<file, boot, seen, history>>

\* scanStageLines, absorbMilestones
Scanned(s, ls, b) ==
  LET new == {m \in Milestone : s.at[m] = 0 /\ Has(ls, m)}
      ranks == {s.stage} \cup {Ordinal[m] : m \in new}
  IN  [stage    |-> CHOOSE r \in ranks : \A q \in ranks : q <= r,
       at       |-> [m \in Milestone |-> IF m \in new THEN b ELSE s.at[m]],
       received |-> s.received + Count(ls, "received"),
       bind     |-> IF s.bind = 0 /\ Has(ls, "bound") THEN b ELSE s.bind]

\* The line of the lease's end stops the monitor for good; the calls are
\* rejected and the proxy re-arms (ProxyWarmup).
Scan(p) ==
  /\ polls[p].pc = "close" /\ polls' = [polls EXCEPT ![p] = Idle]
  /\ seen' = Scanned(seen, polls[p].slice, polls[p].of)
  /\ tail' = IF Has(polls[p].slice, "exiting") THEN [tail EXCEPT !.timer = "off"] ELSE tail
  /\ UNCHANGED <<file, boot, history>>

-----------------------------------------------------------------------------
(* The rest of the proxy.                                                  *)

Rounds(s) ==
  /\ seen' = s /\ history' = [history EXCEPT !.asked = TRUE]
  /\ UNCHANGED <<file, boot, tail, polls>>

\* resetForRespawn leaves the stage, and the delay of the bind, as they are.
RespawnRound == Rounds(Unseen(seen.stage, seen.bind))
\* The cold restart in place, and the round behind an eviction.
EvictRound   == Rounds(Unseen(1, seen.bind))

\* The answer to a call, behind the handshake.
Initialized ==
  /\ seen.at["client"] # 0 /\ seen.stage < 6 /\ seen' = [seen EXCEPT !.stage = 6]
  /\ UNCHANGED <<file, boot, tail, polls, history>>

\* What the log contributes to the gate of the warm-up.
Gate == seen.bind # 0 \/ (seen.at["bound"] # 0 /\ seen.at["client"] # 0)

Warms ==
  /\ Gate /\ seen.stage # 7 /\ seen' = [seen EXCEPT !.stage = 7]
  /\ UNCHANGED <<file, boot, tail, polls, history>>

-----------------------------------------------------------------------------
(* Editors and the start script.                                           *)

Others == UNCHANGED <<tail, seen, polls>>

Remove ==
  /\ file # NoFile /\ boot < MaxBoots /\ file' = NoFile
  /\ UNCHANGED <<boot, history>> /\ Others

\* The file system may give the inode of a removed log again.
Create ==
  /\ file = NoFile /\ boot < MaxBoots /\ boot' = boot + 1
  /\ \E i \in {boot + 1} \cup ({boot} \ {0}) :
       /\ file' = [NoFile EXCEPT !.inode = i]
       /\ history' = [history EXCEPT !.asked = FALSE, !.reused = @ \/ i = boot]
  /\ Others

Begin ==
  /\ file.inode # 0 /\ ~file.half /\ Len(file.lines) < MaxLines
  /\ ~Has(file.lines, "exiting") /\ file' = [file EXCEPT !.half = TRUE]
  /\ UNCHANGED <<boot, history>> /\ Others

End ==
  /\ file.half
  /\ \E l \in Line : file' = [file EXCEPT !.lines = Append(@, l), !.half = FALSE]
  /\ UNCHANGED <<boot, history>> /\ Others

Next ==
  \/ Anchor \/ RespawnRound \/ EvictRound \/ Initialized \/ Warms
  \/ \E p \in Poll : Stat(p) \/ Read(p) \/ Take(p) \/ Scan(p)
  \/ Remove \/ Create \/ Begin \/ End

-----------------------------------------------------------------------------
(* What is told.                                                           *)

\* handshakeSubstate; a time that is null is longer ago than any threshold.
Substate(late) ==
  IF seen.stage < 4 THEN "n/a"
  ELSE IF seen.at["client"] # 0 THEN "complete"
  ELSE IF seen.received > 1 \/ late \/ seen.at["received"] = 0 THEN "stalled" ELSE "pending"

\* buildHint, while the editor warms up.
Hint(late) ==
  IF tail.timer = "off" THEN "lease"
  ELSE IF Substate(late) \in {"stalled", "pending"} /\ seen.at["received"] # 0 THEN "slot"
  ELSE "booting"

(* Properties. *)

Trusted == tail.inode # 0 /\ ~history.crossed /\ ~history.reused
Current == /\ tail.timer = "on" /\ tail.inode = file.inode /\ ~history.asked
           /\ \A p \in Poll : polls[p] = Idle

\* Unless polls crossed, an inode came back or the log was not there at the
\* start: what the proxy knows is what the log of this boot has said so far.
EvidenceIsOurs ==
  Trusted /\ Current =>
    LET read == Between(file, history.seed, tail.offset)
        told == {m \in Milestone : Has(read, m)}
    IN  /\ tail.offset <= Size(file)
        /\ seen.at = [m \in Milestone |-> IF m \in told THEN boot ELSE 0]
        /\ seen.received = Count(read, "received")
        /\ Gate <=> "bound" \in told
        /\ seen.stage \in {0, 1} \cup {Ordinal[m] : m \in told} \cup {6, 7}
        /\ \A m \in told : Ordinal[m] <= seen.stage
        /\ \A late \in BOOLEAN :
             Hint(late) = "slot" => "received" \in told /\ "client" \notin told

\* The line of the lease's end is acted upon, if nothing replaces its log.
ExitStands(b) ==
  /\ Trusted /\ boot = b /\ file # NoFile
  /\ \E i \in DOMAIN file.lines : /\ file.lines[i] = "exiting"
                                  /\ tail.inode = file.inode => 2 * i - 2 >= history.seed
ExitIsSeen == \A b \in 1..MaxBoots : ExitStands(b) ~> tail.timer = "off" \/ ~ExitStands(b)

\* Does not hold: a round that follows a warm one keeps its stage.
\* A handshake is stalled only if a connection was received
\* (warmup-stage-parser.mjs:126-129).
StalledIsTrue == \A late \in BOOLEAN :
  Substate(late) = "stalled" => seen.at["received"] # 0
=============================================================================
