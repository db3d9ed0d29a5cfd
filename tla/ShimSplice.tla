----------------------------- MODULE ShimSplice -----------------------------
(***************************************************************************)
(* The registration shim (godot-mcp-shim.mjs): it answers the client alone *)
(* while the chain behind it starts (the launcher, then the proxy in the   *)
(* same process), and from the hand-off on it passes lines both ways.      *)
(*                                                                         *)
(* One event of the shim is one step.  The lines on a chain's stdout and   *)
(* stderr and the event of its end come in any order: a dead chain's lines *)
(* are still read after its end and after the start of the next one.       *)
(***************************************************************************)
EXTENDS Naturals, Sequences

CONSTANTS Call,       \* the requests of the client
          RechainMax, \* RECHAIN_MAX
          MaxFrames   \* bound: the frames a proxy sends

ASSUME SpliceAssumption == RechainMax \in Nat /\ MaxFrames \in Nat

Gens == 1 .. RechainMax + 1    \* the chains, in the order they are started

VARIABLES
    stage,     \* each chain: "none", "launcher", "proxy" or "dead"
    ran,       \* the chains whose launcher has executed the proxy
    err,       \* the stage lines on each chain's stderr
    out,       \* the frames each proxy has sent
    got,       \* how many of them the shim has read
    buried,    \* the chains whose end the shim has seen
    gen,       \* the chains started so far
    chain,     \* chainProc, chainLive: the chain attached, or 0
    execed,    \* chainExeced, and chainStdoutOpen, which implies it
    attempts, timer, said,  \* rechainAttempts, rechainTimer, chainState
    buffer,    \* chainStdoutBufferedLines, as <<chain, frame>>
    handed,    \* handedOff, handoffTriggered
    eof, alive,
    fate,      \* what became of each request
    inbox,     \* the requests written to each chain
    seen       \* the frames written to the client

chains == <<stage, ran, err, out>>
link   == <<chain, execed, attempts, timer, said>>
client == <<fate, inbox, seen, buffer, handed>>
vars   == <<chains, got, buried, gen, link, client, eof, alive>>

Spawned(g) == stage' = [stage EXCEPT ![g] = "launcher"] /\ chain' = g /\ gen' = g

\* The first chain is started at once; a missing launcher is final.
Init ==
    /\ \E there \in BOOLEAN :
         /\ stage = [g \in Gens |-> IF g = 1 /\ there THEN "launcher" ELSE "none"]
         /\ chain = (IF there THEN 1 ELSE 0) /\ gen = chain
         /\ said = (IF there THEN "proxy_warming" ELSE "chain_exhausted")
    /\ ran = {} /\ err = [g \in Gens |-> <<>>] /\ out = [g \in Gens |-> 0]
    /\ got = [g \in Gens |-> 0] /\ buried = {} /\ execed = FALSE
    /\ attempts = 0 /\ timer = FALSE /\ buffer = <<>> /\ handed = FALSE
    /\ eof = FALSE /\ alive = TRUE /\ fate = [c \in Call |-> "none"]
    /\ inbox = [g \in Gens |-> <<>>] /\ seen = <<>>

Exhausted == gen = 0 \/ attempts > RechainMax

(***************************************************************************)
(* The chain's own steps.                                                  *)
(***************************************************************************)
Tells(g, line) == err' = [err EXCEPT ![g] = Append(@, line)]
ShimUnchanged == UNCHANGED <<got, buried, gen, link, client, eof, alive>>

LauncherWaits(g) ==
    /\ stage[g] = "launcher" /\ err[g] = <<>> /\ Tells(g, "wait")
    /\ UNCHANGED <<stage, ran, out>> /\ ShimUnchanged

\* stage=LAUNCHER_EXEC; only now is the chain's stdin the proxy's.
LauncherExecs(g) ==
    /\ stage[g] = "launcher" /\ Tells(g, "exec")
    /\ stage' = [stage EXCEPT ![g] = "proxy"] /\ ran' = ran \cup {g}
    /\ UNCHANGED out /\ ShimUnchanged

ProxySends(g) ==
    /\ stage[g] = "proxy" /\ out[g] < MaxFrames /\ out' = [out EXCEPT ![g] = @ + 1]
    /\ UNCHANGED <<stage, ran, err>> /\ ShimUnchanged

\* The launcher gives up, the proxy ends, the start fails, or a signal comes.
ChainDies(g) ==
    /\ stage[g] \in {"launcher", "proxy"} /\ stage' = [stage EXCEPT ![g] = "dead"]
    /\ UNCHANGED <<ran, err, out>> /\ ShimUnchanged

(***************************************************************************)
(* The hand-off.                                                           *)
(***************************************************************************)
\* triggerHandoff's gate: a chain attached, and proof that it executed.
MayHandOff(ex) == chain # 0 /\ ex

\* What it does with the request that triggers it, if there is one, and with
\* the frames that wait.
HandOff(cs, frames) ==
    /\ handed' = TRUE /\ buffer' = <<>> /\ seen' = seen \o frames
    /\ fate' = [c \in Call |-> IF c \in cs THEN "sent" ELSE fate[c]]
    /\ \E s \in [1 .. (IF cs = {} THEN 0 ELSE 1) -> cs] :
         inbox' = [inbox EXCEPT ![chain] = @ \o s]

Arrives(c) ==
    /\ alive /\ ~eof /\ fate[c] = "none"
    /\ UNCHANGED <<chains, got, buried, gen, link, eof, alive>>

\* tools/call, and what the shim cannot answer: held and, in the same tick,
\* flushed to the chain or answered with an error to retry that says why.
CallHeld(c) ==
    /\ Arrives(c) /\ ~handed
    /\ IF MayHandOff(execed) THEN HandOff({c}, buffer)
       ELSE /\ fate' = [fate EXCEPT ![c] = said]
            /\ UNCHANGED <<inbox, seen, buffer, handed>>

\* initialize, tools/list, ping.
CallAnswered(c) ==
    /\ Arrives(c) /\ ~handed /\ fate' = [fate EXCEPT ![c] = "answered"]
    /\ UNCHANGED <<inbox, seen, buffer, handed>>

CallForwarded(c) ==
    /\ Arrives(c) /\ handed
    /\ fate' = [fate EXCEPT ![c] = "sent"]
    /\ inbox' = [inbox EXCEPT ![chain] = Append(@, c)]
    /\ UNCHANGED <<seen, buffer, handed>>

(***************************************************************************)
(* The shim reads from a chain.                                            *)
(***************************************************************************)
\* The guard of every handler: another chain has replaced this one.
Stale(g) == chain # 0 /\ chain # g

ReadErr(g) ==
    /\ alive /\ err[g] # <<>> /\ err' = [err EXCEPT ![g] = Tail(@)]
    /\ IF Stale(g) THEN UNCHANGED <<said, execed>>
       ELSE /\ said' = (IF Head(err[g]) = "wait" THEN "worktree_wait" ELSE "proxy_warming")
            /\ execed' = (execed \/ Head(err[g]) = "exec")
    /\ UNCHANGED <<stage, ran, out, got, buried, gen, chain, attempts, timer, client,
                   eof, alive>>

Read(g) == alive /\ got[g] < out[g] /\ got' = [got EXCEPT ![g] = @ + 1]
OutUnchanged == UNCHANGED <<chains, buried, gen, chain, attempts, timer, said, eof, alive>>

\* Slip: a line of a chain that was replaced is taken like any other.
ReadFrameOfAny(g) ==
    /\ Read(g) /\ execed' = TRUE /\ OutUnchanged
    /\ LET f == <<g, got[g] + 1>>
       IN  IF handed THEN seen' = Append(seen, f) /\ UNCHANGED <<fate, inbox, buffer, handed>>
           ELSE \/ MayHandOff(TRUE) /\ HandOff({}, Append(buffer, f))
                \/ buffer' = Append(buffer, f) /\ UNCHANGED <<fate, inbox, seen, handed>>

\* The first frame hands off too, if its chain is still attached and the line
\* can be parsed.
ReadFrame(g) ==
    /\ Read(g) /\ OutUnchanged
    /\ LET f == <<g, got[g] + 1>>
       IN  IF Stale(g) THEN UNCHANGED <<execed, client>>
           ELSE /\ execed' = TRUE
                /\ IF handed THEN seen' = Append(seen, f) /\ UNCHANGED <<fate, inbox, buffer, handed>>
                   ELSE \/ MayHandOff(TRUE) /\ HandOff({}, Append(buffer, f))
                        \/ /\ buffer' = Append(buffer, f)
                           /\ UNCHANGED <<fate, inbox, seen, handed>>

\* Slip: the last attempt is not made.
RechainsLess ==
    /\ attempts' = attempts + 1
    /\ timer' = (attempts + 1 < RechainMax)
    /\ said' = (IF attempts + 1 < RechainMax THEN "chain_restarting" ELSE "chain_exhausted")

\* scheduleRechain
Rechains ==
    /\ attempts' = attempts + 1
    /\ timer' = (attempts < RechainMax)
    /\ said' = (IF attempts < RechainMax THEN "chain_restarting" ELSE "chain_exhausted")

\* The event of a chain's end.
ChainExits(g) ==
    /\ alive /\ stage[g] = "dead" /\ g \notin buried /\ buried' = buried \cup {g}
    /\ \/ handed /\ alive' = FALSE /\ UNCHANGED link
       \/ /\ ~handed /\ UNCHANGED <<alive, execed>>
          /\ IF Stale(g) THEN UNCHANGED <<chain, attempts, timer, said>>
             ELSE /\ chain' = 0
                  /\ IF eof THEN UNCHANGED <<attempts, timer, said>> ELSE Rechains
    /\ UNCHANGED <<chains, got, gen, client, eof>>

\* Slip: what is known of the last chain is kept.
RechainTimerKept ==
    /\ alive /\ timer /\ timer' = FALSE /\ buffer' = <<>> /\ Spawned(gen + 1)
    /\ said' = "proxy_warming"
    /\ UNCHANGED <<ran, err, out, got, buried, execed, attempts, fate, inbox, seen, handed,
                   eof, alive>>

RechainTimer ==
    /\ alive /\ timer /\ timer' = FALSE /\ buffer' = <<>> /\ Spawned(gen + 1)
    /\ said' = "proxy_warming" /\ execed' = FALSE
    /\ UNCHANGED <<ran, err, out, got, buried, attempts, fate, inbox, seen, handed,
                   eof, alive>>

(***************************************************************************)
(* The end of the client's stream.                                         *)
(***************************************************************************)
\* A chain that is not handed off to gets a SIGTERM and half a second.
Eof ==
    /\ alive /\ ~eof /\ eof' = TRUE /\ alive' = (chain # 0 /\ ~handed)
    /\ UNCHANGED <<chains, got, buried, gen, link, client>>

EofEnds ==
    /\ alive /\ eof /\ alive' = FALSE
    /\ UNCHANGED <<chains, got, buried, gen, link, client, eof>>

Next ==
    \/ \E g \in Gens : LauncherWaits(g) \/ LauncherExecs(g) \/ ProxySends(g) \/ ChainDies(g)
    \/ \E c \in Call : CallHeld(c) \/ CallAnswered(c) \/ CallForwarded(c)
    \/ \E g \in Gens : ReadErr(g) \/ ReadFrame(g) \/ ChainExits(g)
    \/ RechainTimer \/ Eof \/ EofEnds

\* The shim's events are handled and its timer fires.
Fairness ==
    /\ \A g \in Gens : WF_vars(ReadErr(g)) /\ WF_vars(ReadFrame(g)) /\ WF_vars(ChainExits(g))
    /\ WF_vars(RechainTimer) /\ WF_vars(EofEnds)

Spec == Init /\ [][Next]_vars
FairSpec == Spec /\ Fairness

-----------------------------------------------------------------------------
TypeOK ==
    /\ stage \in [Gens -> {"none", "launcher", "proxy", "dead"}] /\ ran \subseteq Gens
    /\ err \in [Gens -> Seq({"wait", "exec"})]
    /\ out \in [Gens -> Nat] /\ got \in [Gens -> Nat] /\ buried \subseteq Gens
    /\ gen \in 0 .. RechainMax + 1 /\ chain \in 0 .. gen /\ execed \in BOOLEAN
    /\ attempts \in 0 .. RechainMax + 1 /\ timer \in BOOLEAN
    /\ said \in {"worktree_wait", "proxy_warming", "chain_restarting", "chain_exhausted"}
    /\ buffer \in Seq(Gens \X Nat) /\ seen \in Seq(Gens \X Nat)
    /\ handed \in BOOLEAN /\ eof \in BOOLEAN /\ alive \in BOOLEAN
    /\ fate \in [Call -> {"none", "answered", "sent", "worktree_wait", "proxy_warming",
                          "chain_restarting", "chain_exhausted"}]
    /\ inbox \in [Gens -> Seq(Call)]

\* "handoff requires PROOF the proxy is exec'd" (godot-mcp-shim.mjs:432): no
\* request is written to a launcher that still waits and may give up, whatever
\* an earlier chain has proved.
NeverToALauncher == \A g \in Gens : inbox[g] # <<>> => g \in ran

\* What the client reads is the stream of one chain from its first frame on,
\* each frame once and in order, and that chain is the one that is written to
\* (godot-mcp-shim.mjs:353-371, 465-479).
OneStream ==
    /\ \A i \in 1 .. Len(seen) : seen[i] = <<chain, i>>
    /\ \A g \in Gens : inbox[g] # <<>> => g = chain

\* A chain that is lost before the hand-off is followed by another one, until
\* the attempts are spent (godot-mcp-shim.mjs:384-407).
ChainReturns ==
    (chain = 0 /\ ~Exhausted) ~> (chain # 0 \/ Exhausted \/ ~alive)

\* Does not hold: a line of the last chain, read after its end, replaces it.
\* "terminal; answers carry retryable:false" (godot-mcp-shim.mjs:187-188).
ExhaustedIsSaid == Exhausted => said = "chain_exhausted"
=============================================================================
