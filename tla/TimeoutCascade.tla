--------------------------- MODULE TimeoutCascade ---------------------------
(***************************************************************************)
(* The timeout cascade (server connection/timeouts.ts, the tools that size *)
(* a budget, and the waits of the addon's command scripts).  A call is     *)
(* given up by the game, the editor and the server's socket, each on a     *)
(* clock of its own; an inner layer must answer before the one around it   *)
(* gives up, or the caller learns nothing of what happened.                *)
(*                                                                         *)
(* All numbers are milliseconds from the moment the editor has the call.   *)
(* A loop of the addon looks at the clock once a frame, so it ends up to a *)
(* frame late.                                                             *)
(***************************************************************************)
EXTENDS Integers

CONSTANTS Argument,       \* the numbers a caller passes
          FrameMs,        \* longest frame of the editor
          QuickTimeoutMs  \* GODOT_MCP_QUICK_TIMEOUT_MS, or 30000

\* A step call waits twice, a frame over each time: they share what its readiness
\* wait (1500) leaves of the server's margin (2000).
ASSUME FrameAssumption == FrameMs \in 0..249
ASSUME QuickAssumption == QuickTimeoutMs \in Nat
ASSUME ArgumentAssumption == Argument \subseteq Nat

VARIABLE asked  \* what the caller waits for: a tool, its argument and how long the bridge took to be
                \* ready for it; or a command without a budget; or nothing

Smaller(a, b) == IF a < b THEN a ELSE b
Larger(a, b)  == IF a > b THEN a ELSE b

-----------------------------------------------------------------------------
(* timeouts.ts *)

AbsoluteCeiling == 60000
ReadyWait       == 10000
BridgeWallSlop  == 5000
RelayMargin     == 2000
ServerMargin    == 2000

StepBudgetCap  == 50000
InputBudgetCap == 40000
ExecBudgetCap  == 30000

MaxInGameBudget(ready) == AbsoluteCeiling - (BridgeWallSlop + RelayMargin + ServerMargin) - ready

DeriveTimeouts(budget, ready) ==
  LET clamped == Smaller(Larger(budget, 0), MaxInGameBudget(ready))
      game    == clamped + BridgeWallSlop
      relay   == ready + game + RelayMargin
  IN  [budget |-> clamped, game |-> game, relay |-> relay, server |-> relay + ServerMargin]

-----------------------------------------------------------------------------
(* The tools: what their schema lets pass and the budget they declare.      *)

Tool == {"step", "step_frames", "step_until", "sequence", "type_text", "exec", "qa_wait", "qa_shot"}

StepTool  == {"step", "step_frames", "step_until"}
InputTool == {"sequence", "type_text"}

Within(low, high)   == {n \in Argument : low <= n /\ n <= high}
StepArguments(tool) == Within(1, IF tool = "step_frames" THEN 1200 ELSE StepBudgetCap)
SequenceSpans       == Within(0, InputBudgetCap)
TypingSpans         == Within(0, InputBudgetCap)
ExecArguments       == Within(1, ExecBudgetCap)
WaitArguments       == Within(100, 30000)

Accepts(tool) ==
  CASE tool \in StepTool    -> StepArguments(tool)
    [] tool = "sequence"    -> SequenceSpans
    [] tool = "type_text"   -> TypingSpans
    [] tool = "exec"        -> ExecArguments
    [] tool = "qa_wait"     -> WaitArguments
    [] tool = "qa_shot"     -> {5000}

\* Frames are counted at 60 a second, rounded up.
DeclaredBudget(tool, n) == IF tool = "step_frames" THEN (n * 1000 + 59) \div 60 ELSE n

StepLadder(tool, n) == DeriveTimeouts(DeclaredBudget(tool, n), 0)
InputLadder(n)      == DeriveTimeouts(n, ReadyWait)
ExecLadder(n)       == DeriveTimeouts(n, 0)
ShotLadder(n)       == DeriveTimeouts(n, 0)
\* The ladder of a wait is built by hand; its game ends with the budget.
WaitLadder(n) == [budget |-> n, game |-> n, relay |-> n + 4000, server |-> n + 6000]

Ladder(tool, n) ==
  CASE tool \in StepTool  -> StepLadder(tool, n)
    [] tool \in InputTool -> InputLadder(n)
    [] tool = "exec"      -> ExecLadder(n)
    [] tool = "qa_wait"   -> WaitLadder(n)
    [] tool = "qa_shot"   -> ShotLadder(n)

-----------------------------------------------------------------------------
(* The addon: how long a command waits before it sends, and when it gives   *)
(* up at the latest.                                                        *)

\* An input call waits this long for the bridge, or up to its deadline.
ReadyTimeout == 30000

\* Slip: the ready wait of a step before its cap (half of the relay's time).
EditorReadyUncapped(relay) == relay \div 2

\* The readiness wait of a step.
EditorReadyMs(relay) == Smaller(relay \div 2, 1500)

\* How long a call that is sent to the game may have waited for the bridge.
LongestWait(tool, relay) ==
  CASE tool \in StepTool  -> EditorReadyMs(relay)
    [] tool \in InputTool -> Smaller(ReadyTimeout, relay)
    [] OTHER               -> 0

\* A step waits for its answer after its readiness wait; an input call has one
\* deadline for both waits.
EditorGivesUpBy(tool, relay, waited) ==
  IF tool \in StepTool THEN waited + relay + 2 * FrameMs ELSE relay + FrameMs

\* What a call that waited leaves the game of its relay's time.
RelayLeft(tool, relay, waited) == relay - IF tool \in InputTool THEN waited ELSE 0

\* Commands without a budget: the fixed waits of their scripts.
Quick == {"freeze", "exec_list", "assert", "sample", "metrics", "screenshot", "input_map", "run"}
QuickGivesUpBy(command) ==
  CASE command = "freeze"                -> EditorGivesUpBy("step", 10000, EditorReadyMs(10000))
    [] command \in {"exec_list", "assert"} -> 10000 + FrameMs
    [] command \in {"sample", "metrics", "screenshot"} -> 5000 + FrameMs
    [] command = "input_map"             -> 30000 + FrameMs
    [] command = "run"                   -> 60000 + FrameMs

-----------------------------------------------------------------------------
(* One call after the other.                                                *)

Waits(tool, n) == {w \in Argument \cup {0} : w <= LongestWait(tool, Ladder(tool, n).relay)}

ToolCalls  == UNION {UNION {{[tool |-> t, n |-> k, waited |-> w] : w \in Waits(t, k)} :
                             k \in Accepts(t)} : t \in Tool}
QuickCalls == {[quick |-> c] : c \in Quick}
Nothing    == [quick |-> "none"]

CascadeInit == asked = Nothing
Ask         == asked = Nothing /\ asked' \in ToolCalls \cup QuickCalls
Answer      == asked # Nothing /\ asked' = Nothing
CascadeNext == Ask \/ Answer
CascadeSpec == CascadeInit /\ [][CascadeNext]_asked

-----------------------------------------------------------------------------
(* Properties. *)

LadderHolds(tool, n, waited) ==
  LET l == Ladder(tool, n)
  IN  /\ l.budget = DeclaredBudget(tool, n) /\ l.budget <= l.game
      /\ waited <= ReadyWait => l.game + RelayMargin <= RelayLeft(tool, l.relay, waited)
      /\ EditorGivesUpBy(tool, l.relay, waited) < l.server
      /\ l.server <= AbsoluteCeiling

(* Whatever argument a schema lets pass, its budget is kept whole; the      *)
(* editor answers before the socket does, whatever its readiness wait cost; *)
(* the socket never waits longer than the ceiling; and the game has its     *)
(* budget and ends before the editor gives up, unless the bridge took       *)
(* longer to be ready than the 10 s the server counts on (timeouts.ts:49):  *)
(* the addon waits up to 30 s for an input call.  With the quick timeout of *)
(* 90 s the addon names for this deployment (debug_commands.gd:12) no       *)
(* command without a budget outlasts its socket either.                     *)
InnerAnswersFirst ==
  /\ asked \in ToolCalls => LadderHolds(asked.tool, asked.n, asked.waited)
  /\ asked \in QuickCalls /\ QuickTimeoutMs >= 90000 => QuickGivesUpBy(asked.quick) < QuickTimeoutMs

(* What input_commands.gd:53-54 says of its readiness wait: that it "can    *)
(* never eat the budget the command itself needs".  It is not so: the wait  *)
(* may last 30 s (input_commands.gd:18) and the deadline has room for 10.   *)
ReadyWaitSparesBudget ==
  asked \in ToolCalls =>
    DeclaredBudget(asked.tool, asked.n)
      <= RelayLeft(asked.tool, Ladder(asked.tool, asked.n).relay, asked.waited)
=============================================================================
