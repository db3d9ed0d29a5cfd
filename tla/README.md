# godot-mcp: formal models

TLA+ models of godot-mcp, the TLC runs that check them on small instances and
the TLAPS proofs that hold for every value of the constants. The reference is
the code; each definition names, in PROJECT.json's `map`, the lines it models.

Contents: [the system](#the-system) · [components](#components) ·
[modules](#modules) · [runs](#runs) · [bounds](#bounds) · [fairness](#fairness) ·
[proofs](#proofs) · [disagreements](#where-the-code-and-its-words-disagree) ·
[limits](#what-is-not-modelled) · [plan](#plan)

## The system

```
MCP client ⇄ stdio ⇄ shim ─ launcher ─exec→ proxy ⇄ stdio ⇄ npx server
                                                         ⇅ WebSocket
                               game bridge ⇄ debugger ⇄ Godot editor + addon
```

An MCP client starts the shim, which answers the registration itself and starts
the launcher. The launcher takes a lock for its runtime id, is granted a port,
and replaces itself by the proxy. The proxy masks the editor's cold start: it
holds tool calls while it spawns an editor and waits for it to bind, and it
keeps the npx server alive. The npx server turns a tool call into one command on
a WebSocket to the addon; the addon runs it in the editor or relays it over the
debugger channel to the game. A reaper, run from a timer, cleans up what dead
sessions have left.

Every arrow is asynchronous, every box can die alone, and nothing is
authoritative for all of them. What is hard to test is what happens between two
boxes: callbacks of a socket that are overtaken by others, answers later than
their deadlines, files that were read before and written after a lock changed
hands, flags that one asynchronous handler leaves set for another.

## Components

| Component | State it keeps | Operations | What makes it correct | Module |
|---|---|---|---|---|
| npx server, WebSocket client (server/src/connection/websocket.ts) | socket, pending requests, three timers, retry and rejection counters, diagnostics | connect, disconnect, sendCommand, the socket's callbacks, the timers' | one live socket; never dead without a retry; a pending command settles and is told how the connection ended; back-off under rejection | GodotConnection |
| npx server, host resolution (server/src/utils/*) | the cached host | detect, ask | what is reported is what is dialled | HostResolution |
| npx server, timeout cascade (server/src/connection/timeouts.ts and the tools that size a budget) | none; the call asked for | deriveTimeouts, the waits of the addon's scripts | each layer gives up before the one around it | TimeoutCascade |
| addon, WebSocket server and lease (websocket_server.gd, plugin.gd, lease_controller.gd) | listener, one client slot, peers being turned away, activity stamp, quit timer, restart timer and idle gate | the three parts of a frame, rebind, lease callbacks | one place per connection; a live client keeps the slot; a silent one does not; the editor quits when unserved and only then | AddonServer |
| addon, debugger relay (core/mcp_debugger_plugin.gd, the relaying commands/*.gd) | session, bridge_ready, one response slot per message type, pending flags and one-shot signal connections, a mutex | send, poll once a frame, time out, run_project's gate | an answer reaches its own call; no call outlives its budget; nothing is sent to a game that is not ready | DebuggerRelay |
| game bridge: clock (game_bridge/mcp_game_bridge.gd) | freeze and pause intent, the step's window, the sequence's timeline and captures, held-input registries | freeze, thaw, step, step_until, input sequence, the bridge's part of a frame | the game advances by what was asked and is then frozen again; every input is seen before the report; nothing stays held; the game's own pause survives | GameTime |
| game bridge: timelines (the same file, tools/input.ts, see1240-ui-tools.mjs) | compiled events, press counts, axes, pointer, credit | expand, compile, sort, inject | entries end released and credited once; an ignored entry is told | InputTimeline |
| launch, runtime lock and port arbiter (godot-mcp-launcher.sh, port-arbiter.lib.sh, proxy/lifecycle.mjs, reap-stale-leases.sh) | two kinds of lock directory, each with who and since when | acquire, judge, reclaim, hand over by exec, release, sweep | a port has one owner; a runtime has one port and one proxy; nothing dead blocks for ever | PortArbiter |
| proxy: warm-up (proxy/warmup.mjs, spawn.mjs, heal.mjs, see1325-recovery.mjs, probes.mjs) | the warm, recovering, dead and in-flight flags, streaks, attempts, back-off, cooldown | the resident loop, spawn rounds, heal, forced restart, recovery, give up, rearm, the lease's end | the held queue leaves as a whole and in time; no state without a trigger out of it | ProxyWarmup, which implements HoldToWarm |
| proxy: calls (proxy/router.mjs, npx.mjs, protocol.mjs, takeover.mjs, restart.mjs) | held calls, waiters, the takeover, the restart window, the child and its write buffer | route, hold, flush, reject, take over, restart, answer, the child's death and return | a call is answered once | CallRouter |
| proxy: runtime lock and record (proxy/state-file.mjs, see1338-handoff.mjs, godot-mcp-proxy.mjs, state-cli.mjs, stale-proxy.mjs) | the .state document, its directory | acquire, steal, decide, adopt, claim, write, release | one owner; the record of a living owner stands | RuntimeHandoff |
| proxy: captures (proxy/screenshot.mjs, exec.mjs, see1240-screenshot-contract.mjs) | times of the last mutation and advance, waiters of auto_step | note, hold, step, send, judge | a stale frame is flagged | FrameFreshness |
| proxy: the editor's log (proxy/lease.mjs, warmup-stage-parser.mjs, diagnostics.mjs) | offset, inode, milestones, stage | anchor, poll, scan, forget, tell | what is told is of this boot | LogTail |
| shim (godot-mcp-shim.mjs) | chains and their proofs, waiting frames, attempts, the hand-off | answer, hold, hand over, read, restart, end | nothing is written to a launcher; one stream of frames | ShimSplice |
| launch: sidecar lease, port registry, the reaper's other passes (mcp-sidecar.lib.sh, port-registry.lib.sh, ...) | lease file, registry file | activate, release, reap | a release never undoes another runtime's lease | not begun |
| tools, schemas, editor commands, installer, logs, status, user interface | none, or the editor's own | one editor call per command | sequential | not planned |

PROJECT.json lists all of them with their files and how far each is modelled,
and under `hazards`, line by line, what a test would hardly reach.

## Modules

Each module describes its component and the environment it cannot control (the
network, the game, the operating system's scheduling). MC modules and .cfg
files give the constants; some hold two or three instances of different modules
that share no state, and the first state chooses one (`part` in
MCGodotConnection, `kind` in MCGameTime and MCFrameFreshness). DialledHost,
BridgeTimeline, RoutedCalls, ToldFrames and FollowedLog hold an instance each of
HostResolution, InputTimeline, CallRouter, FrameFreshness and LogTail, for a
module that already has an Init and a Next: the proofs and the MC module extend
the same instance, so that what is proved is what is checked. A definition called *a slip* in its comment is a plausible wrong version of the
definition after it, used to confirm that the property it would break really
depends on those lines; no specification uses one. A property whose comment
says *does not hold* is kept for what its counterexample tells
([below](#where-the-code-and-its-words-disagree)).

### GodotConnection

`ws`, `sock`, `timer`, `rejections` ... are the fields of the class. Each
callback is an action: `OnOpen` and `OpenContinues` are the two halves of the
`open` callback around its `await`, with `hs` saying where each socket's
callback stands, so that `OnClose`, `PongTimeout` and `Disconnect` can come
between them; a settled promise's continuation runs before any other task
(`Quiet`). A close carries a kind (4001, 4002, 4003, anything else), which
determines the typed code, the reason and the delay. Delays are indices into
the delay table: jitter and milliseconds do not matter to any property. `cause`
and `announced` are history.

### HostResolution

`env` is what a server cannot see change (platform, override, the three signs of
WSL, of which `IsWSL` and `DetectWSLVersion` read different ones); the route
table and resolv.conf change under it. The connection is made once and asks
once; the startup log and the diagnostics ask again each time. The property is
what the module-level cache is for: both are told the same.

### TimeoutCascade

`DeriveTimeouts` and the constants are timeouts.ts; `Accepts`, `DeclaredBudget`
and their like are the tools' schemas and sizings; `EditorGivesUpBy` and its like
are the addon's loops, which look at the clock once a frame and so end up to
`FrameMs` late. `asked` is the call: any tool with any number its schema takes
and, for those that may wait for the game's bridge, any wait the addon allows
(`LongestWait`: 1.5 s for a step, 30 s for an input call); or a command without a
budget.

### AddonServer

One frame is `AcceptConnection`, `ProcessWebsocket` and `ProcessRejectingPeers`,
in the order in which the network feeds them. `_do_restart_server()` is split at
the idle gate: `gate` holds the address resolved before it. `Tick` passes time
for the reject cap, the stale timeout and the lease together; with `SteadyFrames`
it may not pass while a frame's work is undone. `heard` and `unserved` are
history: how long the client was really silent, and how long the editor had no
client. An editor that quits is started again by `Relaunch`.

### DebuggerRelay

All relaying commands have one of six loops, of which `style` is one from `Styles`: `plain` (a slot
per message type), `gameTime` (the same behind the ready gate), `exec` and
`qaWait` (call ids compared; the latter also exclusive), `signal` and `input` (a
shared member and a one-shot signal; the latter behind the gate). Calls of
different types share nothing but the session, so a behaviour has one style.
`Frame` starts a frame, in which the suspended coroutines resume in the order
they suspended (`toPoll`). `RunProject` and `PollRun` are run_project's gate.
The engine is external: it opens one debug session per launch, after it has
forgotten the last one's, as the plugin's comments assume; answers arrive in any
order, also after the game has ended. Launches from the editor's own play button
and overlapping run_project calls are left out.

### PortArbiter

Each step of the launcher on the file system is an action, between which any
other launcher, proxy or reaper may run and after which the process may be
killed (`Crash`). A directory is its maker `by`, what was written into it, and
whether it is `young`, i.e. within the cooldown. mkdir, rm -rf and reading or
writing one file are atomic; a verdict reads a directory in one step and the
removal that follows is another, so that a directory can be replaced between
them. Whether something else has bound a port is free. `Exec` keeps the pid and
turns bash into node. `Age` ends the cooldown only for a grant whose maker has
left the script: a launcher is assumed to reach its exec within 60 s of writing
its pid, which nothing in the code enforces.

`broken` is history: the first time a process removes the directory of another
that is still alive, and by which of three ways: `steal` (a second launcher of
the runtime judges a bash holder dead), `sweep` (the reaper does), `race` (the
directory was replaced after the look). The code has no defence against any of
them, so the invariants speak of what holds before one.

### GameTime

A frame is three actions: `TopOfFrame` (the engine delivers injected events and
runs physics), `Bridge` (the autoload's `_process`, before the scene's) and
`Scene` (the scene's `_process`, the drawing of the frame, and with it
`_send_sequence_capture`). The debugger's messages (`Freeze`, `Thaw`, `Step`,
`StepUntil`, `ExecuteInputSequence`) come between frames. Game code may write
`tree.paused` at the top and in the scene, and is modelled by those writes
alone. `step` and `seq` are the `_step_` and `_sequence_` members; a timeline is
a press and its release, and `held` stands for all the held-state registries and
the Input singleton, which agree as long as only the bridge presses. A finished
step's members are set back to their initial values, since the next step resets
them before anything reads them.

`OpenWindow` is the common part of step and step_until; the predicate and the
wall clock are free, except that a frame past the wall budget ends the window.
`wish` (what the game last wrote), `intent` (whether the freeze hid or overwrote
it), `owed` and `fresh` are history: unpaused frames that were counted and have
not run, and scenes still to run before an injected event has been seen.

### InputTimeline

One call's way through three programs: the proxy spells a drag out
(`DragExpanded`), the server a stick, and the bridge compiles every kind of entry into
pairs of events, sorts them by time and phase and injects them. What GameTime
has as `held` is here told apart: keys count their presses, axes drop a zero
that a later entry of the same time would undo, the rest just end. `Echoes` is
what bridges of earlier versions say of the entries they took, from which the
server infers that one was ignored.

### HoldToWarm and ProxyWarmup

HoldToWarm is the promise of warmup.mjs:80-87 as a specification: a call that
comes while the editor is warming is held; the queue leaves as a whole, forwarded
when the last look found the editor warm (T1) or answered when the window ends (T2), when the editor comes back
late (T3) or when the proxy gives up (T4).

ProxyWarmup is the resident loop. A JavaScript function runs to its next await
undisturbed, so an action is the code between two awaits: `loc` says which
await the loop is at (waiting for a trigger, the probe's answer, the pause of a
warm turn, evicting, the forced restart, a recovery round, idle behind a warm
editor), and what was read before an await may be stale behind it: `WarmFlush`
comes after the pause and looks at the connection alone, as the code does. A
spawn whose promise a give-up drops goes on (`orphan`) and may still be the one
that brings the editor. The flags are those of
`S`; windows and caps may run out at any moment from their start; the start and
stop scripts are their outcomes. `cfg` has the settings that change the control
flow: the forked server with its handshake, the log to follow, exit instead of
re-arming. Its refinement of HoldToWarm maps the flags to a phase, the queue's
length to `queue`, and the pause of a warm turn to `seen` (`Promise`).

### CallRouter

The proxy's paths of a call: `pending` (held), `copies` (at the server or in its
write buffer), `inner` (waiting for a call of the proxy's own), `takeover` (waiting
for the probe of the editor's single slot). `hold` and `watch` are the held
restart and the watcher of its respawn, which outlives it. The server starts,
opens its pipe, dies, backs off and is abandoned; its connection to the editor
comes and goes; the editor gets warm, is lost, and its queue is flushed or
answered as ProxyWarmup may do it, also after warmth was lost in the pause before
the flush (phase "stale"). A `ui` call in the queue goes through the router again
when the queue is flushed: a cold proxy turns it away, or holds it again and the
flush does not end (`hung`). A `shot` makes a call of its own first.

### RuntimeHandoff

File operations are the steps. `pc` is where a starting proxy is: its look at
the directory, the steal, mkdir, the owner's file; the decision on the record;
running; leaving; removing. A record is merged in memory (`buf`) and renamed in another
step, so that a write of another process is undone by the older document. `raced`
is history: a start has crossed another start or a release, against which
state-file.mjs has no defence (mkdir is recursive and succeeds on an existing
directory).

### ShimSplice

Chains are numbered in the order they are started. `stage`, `err` and `out` are
the process and what it wrote to its streams, `got` and `buried` what the shim
has read of the frames and noticed of the ends; a chain's stderr, stdout and end
are noticed in any order, also after the next chain has started. `inbox` is what each chain was sent, `seen` what the client
reads.

### FrameFreshness

`marks` are the two times the contract compares, `wire` and `game` what is on
its way to the game and what no drawn frame shows yet, `shot` what the frame of a
capture misses: what the proxy says is compared with what is true. Calls come
at most `Burst` in a millisecond. A godot_input sequence with screenshot_at_ms is
two calls here, a `Mutate` and a `PlainCapture` of one millisecond; with auto_step
it is a `SteppedCapture` that moves the game when it is sent (`GamePlays`). An
answer whose worktree is not found or whose enrichment throws is passed on as it
came ("untold").

### LogTail

A boot of the editor makes a new log; a poll awaits stat, read and close, and
the offset moves after the second. Milestones are marked with the boot whose
line they were. `history` says whether polls have crossed, an inode came back or
a round has been asked for, which the code cannot tell.

## Runs

| Run | States | Shows |
|---|---|---|
| conn | 84,745 | the client with two sockets, a command and three delays: one live socket, never dead without a timer, nothing pending without a socket, typed close codes, back-off; every command settles and a waiting client tries again. The host over changing networks: what is told is dialled. Every call at and around every limit of the schemas: and after every readiness wait: the layers end from the inside outwards |
| addon | 148,968 | incumbent, newcomer, a rebind, steady frames: one place per connection, a live incumbent keeps the slot, the lease quits an unserved editor within the grace time and no other, a silent client and every rejected one are let go |
| relay_calls | 603,898 | two calls over two games, beside run_project: exec calls with script errors, exclusive QA waits, or gated input calls. Right answers, no answer in time is lost to a timeout, the paused game continues, nothing is sent early, ready means announced, every call returns |
| arbiter | 2,102,057 | two launchers each of two runtimes on two ports with crashes, failures, cooldown and reaper: exclusive ports and one directory per runtime until a living process loses its directory |
| clock | 112,896 | freezes, thaws, steps and input sequences under a game that pauses itself: a frozen game does not run, a step's frames have run and it is as long as was asked, inputs are seen before reports and captures sent before results, nothing stays held, the pause intent survives, every window and sequence ends. Pairs and triples of entries of every kind: released and credited once, a shared key is down until the last lets go, bridges of five ages are told apart |
| inputs_drag | | a drag's button is released before the motion to its target (violation of DropsAtTarget) |
| warmup | 324,684 | three configurations, two calls, editors that die, do not boot or were already there: the queue leaves as HoldToWarm says; a held call, a recovery and a death behind a warm editor do not wait for ever |
| warmup_recovering | | a failed spawn leaves the recovering state with nothing to end it (violation of RecoveringEnds) |
| calls | 122,590 | a plain call, a restart, a screenshot and a ui inspection with one fault: none is answered twice, lost by the proxy itself or in two places; what is held has something that releases it; every call that the warm-up does not hold ends |
| handoff | 3,223,711 | two proxies of one runtime and the start script, two deaths: one owner of the lock, and the record names no other living proxy, until starts cross |
| splice | 396,224 | two requests, two chains, two frames each, lines read late: no request reaches a launcher, the client reads one chain's frames in order, a lost chain is followed by another |
| frames | 283,458 | three calls, two of them in a millisecond, over a chain that answers in any order or never: an unflagged stale frame hides behind an advance that drew nothing, came later or came in the mutation's millisecond, and of the captures held in a millisecond one at least goes on. A log over two boots: the gate and the hints rest on this boot's lines, and the lease's end is noticed |

Each property of a passing run has a mutant in PROJECT.json that it catches.

Several properties carry a condition, and each condition is a place where the
code gives no more:

- UnservedIsBounded without its `applies = 0` fails: a rebind drops the
  client without telling the lease, so the quit timer never starts.
- IncumbentProtected fails with SteadyFrames = FALSE: an editor blocked for 45 s
  judges its client by what it has not read yet.
- RightAnswer fails with Styles = {"gameTime"} and NoStarvation with
  Styles = {"exec"} (no ids, respectively no mutex). Hence the two are asked, and
  proved, of the styles that have them: CorrelatedIsRight, WaitNotStarved.
- RunReadyMeansAnnounced fails in the second launch: `_bridge_ready` of the last game
  answers for the next one, because nothing resets it when a game stops
  (`_session_stopped` has no caller). Hence *first* in FirstLaunchGated.
- NoStuckHold without its exception fails with Mouse = Input: when only a mouse
  button is held, `_release_held_actions` returns before it releases it
  (mcp_game_bridge.gd:467, against the comment at 458).
- HeldIsAnswered, RecoveringEndsInARound and DeathIsNoticed name the states in
  which the machine stops listening to itself: the loop idles, no round is under
  way, `warmRespawnInFlight` was left set, the loop has ended.
- InnerAnswersFirst promises the game its budget only when the bridge was ready
  within the 10 s the server counts on (timeouts.ts:49); the addon waits up to 30 s
  for an input call (input_commands.gd:18). ReadyWaitSparesBudget is the stronger
  form, and does not hold.
- KeepsThePromise promises a flush behind a look that found the editor warm, not a
  flush while it is: the loop looks, pauses and forwards (warmup.mjs:130-131, 229,
  241-251), and in the pause an editor_gone answer, a self-heal or a give-up may
  have dropped the warmth. A HoldToWarm that flushes only while warm is violated.
- EveryCallEnds excepts a line that died with the server, a proxy whose event loop
  hangs, an abandoned server, a takeover whose probe was lost, and a call that the
  warm-up holds. When that one ends is HeldIsAnswered's question.
- OneOwnerUnlessRaced and OwnerStands except crossed starts: `mkdir` is recursive
  and so does not fail on a directory another start has just made.
- HeldGoesOn speaks of the captures held in one millisecond and promises that one
  of them goes on: their steps share an id, and the other may be held for ever
  (EveryHeldGoesOn does not hold).
- StaleIsHiddenByAdvance counts the mutations the proxy takes note of. A sequence
  that was held for its auto_step is none (EverySequenceCounts does not hold).
- EvidenceIsOurs excepts polls that cross, an inode that comes
  back, and a log that did not exist when the monitor started.

## Bounds

- Two sockets, two connections, two calls or two proxies are enough for one to
  overtake another: no operation of the modelled code relates three of them, except
  calls that mutate, advance and capture (frames: three). Closed sockets, dropped
  connections and freed directories are used again, so histories are not bounded
  by these numbers.
- NDelays = 3: first, middle and last entry of the delay table; counters are
  capped where the code's min() makes them indistinguishable.
- Argument has both sides of every limit a schema names; FrameMs is 100 in the
  run and anything below 250 in the theorem; the quick timeout is the 90 s that
  debug_commands.gd:12 names for this deployment, without which two quick
  commands outlast their socket.
- RejectTicks < StaleTicks < QuitTicks < GraceTicks are in the order of 5, 45,
  120 and 300 s; only the order is used. MaxApplies bounds saved settings.
- Budget, ReadyBudget, RampGrace and RunTimeout are in frames, each large enough
  for an answer in time, at the deadline, and after it. MaxRuns bounds launches:
  two, for what one game leaves to the next.
- Four launchers, two of each runtime (a restart and a duplicate), on two ports:
  every port can be free, one's own, or the other's. MaxWait bounds the waiting
  for a live lock holder. `Calm` cuts behaviours at the first break, after
  which the invariants say nothing.
- In clock, one action with a timeline that presses it at once and releases it
  one unit of time later, windows of one frame or one unit, frames of 0, 1 or
  more units and a wall budget of two frames: a window can end by length,
  predicate or budget, with each event before, in or after its last frame.
  Horizon caps clocks whose further values change nothing. Timelines have pairs of
  entries whose starts and ends coincide or differ by one.
- MaxAttempts = 2 and MaxFaults = 1 or 2: the first spawn fails and the second is
  the last; a death before, in and after each state of the loop. In
  warmup_recovering one call and no fault suffice.
- MaxFaults = 2 in handoff: both proxies may die, or one and the editor. The proxies
  are symmetric (no liveness is checked there).
- RechainMax = 1: the last chain is also the first that follows another; the
  theorems hold for any number.
- MaxClock = 3, two calls a millisecond (Burst) and StaleMs = 1: marks before, at
  and after each other, answers before and after the threshold, and two auto_steps
  with one id. Two calls with an auto_step come without a third (`Alone`): whether
  their captures go on is a matter between them, and what a third call could be
  told wrongly is covered with one of them. The invariant was also run without
  `Alone` (2,414,621 states). The calls come in the order of their names, since
  nothing tells them apart but what they ask for, which is free. MaxBoots = 2, MaxLines = 2 and one poll at a time:
  crossing polls are excepted by the property, and two of them were run by hand.

## Fairness

Only what the schedulers give.

- GodotConnection: timers fire, a settled promise continues, and a socket told to
  close reports it (ws terminates it after 30 s); nothing about the addon answering.
- AddonServer: frames run, timers fire, time passes, TCP gives up on a peer that
  never answers a close. Time is strongly fair because a newcomer in each frame
  could otherwise stop it for ever in the model, which it cannot in reality.
- GameTime: frames keep coming, and the window is drawn again and again (a
  minimised window may skip drawing, not for ever; captures wait for it); nothing
  about the game.
- DebuggerRelay: frames come and their coroutines resume; nothing about the game.
- ProxyWarmup: the loop continues after each await, scripts return, the windows of
  a round end, the caps are reached, the liveness probe runs; a recovery round
  that may be refused again and again is refused (strongly: its budget is spent in
  between). Nothing about editors.
- CallRouter: timers fire; a server that is up answers what it was forwarded
  (each of its calls has the timeout of TimeoutCascade) and a started one opens its
  pipe; a takeover expires. The warm-up is owed nothing: ProxyWarmup shows that it
  may sleep with a call in its queue.
- ShimSplice: what was written is read, an exit is reported, the restart's timer
  fires.
- FrameFreshness: the step's answer, if it comes, and its timer. LogTail: the
  interval polls again and the file system answers.

PortArbiter and RuntimeHandoff state no liveness; a waiting launcher or a
second proxy gives up, it is not promised the lock.

Deadlock is checked in GodotConnection, AddonServer and GameTime, which never
stop. In the others calls, games, faults and launchers are used up.

## Proofs

TLAPS checks, for every value of the constants:

**GodotConnectionProofs**: TypeOK, OneLiveSocket, NeverLatchedDead, ClosedIsClean
and RejectionBackoff. The inductive invariant adds that the live socket is the
current one, that a running timer means there is none, and that an open callback
is suspended only on the current socket. Without the last, a continuation of an
old socket could cancel the timer of the new.

GodotConnectionProofs also holds InnerAnswersFirst of TimeoutCascade, for every set
of arguments, every quick timeout and every frame below 250 ms. The cascade has no
steps worth the name; the argument is that no budget a schema lets pass needs
clamping (`DerivedLadder`), that a step's own readiness wait, which no budget
counts, fits into the server's margin, and that an input call's wait of up to 10 s
fits into its deadline.

Its third part is ToldIsDialled of HostResolution, for any
networks, nameservers and overrides. A detection that found nothing is remembered
too, so that once the connection was made the target is a constant of the process
(`HostInv`); what has to be shown is that every reader of the cache has filled it
by then.

**AddonServerProofs**: TypeOK, OnePlace, QuitOnlyWhenUnserved and, assuming
SteadyFrames, ServedIsLeftAlone and UnservedIsBounded. `Counting`: a connected client has stopped
the quit timer, and time left on a running one plus time unserved is at least the
quit delay. `Timely`: what the addon believes of the client's silence does not
exceed the truth unless the packet that ends it is waiting. It is only kept
because a listener never comes back under a client left in the slot, which is
`Binding`: at most two binds are pending, and none once one has failed.

**DebuggerRelayProofs**: a relay that compares ids returns only its own answers
(CorrelatedIsRight); a gated one sends only to an announced bridge, in every
launch, and run_project says so of a first launch only when it is true
(FirstLaunchGated); a wait behind the mutex times out on an answer that came only
if another that timed out left one behind (WaitNotStarved). The first two need no
more than what a session's announcements say of its run. The third follows an
answer from the game to the slot: one call waits and every other whose answer is
on its way or in the slot has timed out (`OneWaits`), so that whatever takes the
place of the waiting call's answer names a call that timed out (`AnswerKept`).

**PortArbiterProofs**: TypeOK; ExclusiveUnlessBroken; OneGrantPerRuntime; and, while
nothing is broken, OneProxyPerRuntime. The invariant says whose each directory is:
a process past the lock owns its runtime's, one past mkdir its port's, a
directory of a living process has that process at the place in the script that
matches it, and what a launcher is about to remove belongs to a dead one. Each
part only holds while `broken = "no"`; the step that would break another part
sets it. That a runtime has one grant needs more: once a launcher looks for a
port, the only directory its runtime can have is the one it is at (`OwnSeen`).

**GameTimeProofs**: TypeOK, FreezeHolds, NoStuckHold, IntentKept and all of
StepsAreHonest (CountedFramesRan, StepLength, StepInputSeen, ProbeSeesEffect,
CapturesFirst), for every set of inputs, target, timeline and budget. The invariant
adds: whoever needs the bridge's `_process` has it (`Flags`); an event or capture
is either still scheduled or counted (`Sizes`); a frame is owed only between bridge
and scene (`Owing`); a scheduled press has a later release scheduled (`Paired`), so
whatever part of a timeline is injected leaves held only what it will release; and
in a window the tree has what the game wishes (`Wishes`). Each is kept by the whole
`_process`, in which a step and a sequence may both inject, because the sequence's
part is proved once for any input left held by the clock's part (`SequenceFacts`).
The length of a step and the probe of a sequence have invariants of their own: a
window that goes on has not come to its length, or is beyond it only by frames that
an injected event has taken, one each (`Length`), and the probe waits as many frames
as the last input needs to be seen (`ProbeWaits`).

It also holds IgnoredIsSaid of InputTimeline, for any entries that pass the schema:
the server's cascade of checks, newest kind first, warns exactly when the bridge,
of whichever version, skipped an entry. The kinds were added in one order, so that
what an answer counts is one of five nested sets (`EraWarns`).

**RuntimeHandoffProofs**: TypeOK, OneOwnerUnlessRaced and OwnerStands for any number
of proxies and faults. While no starts have crossed, one proxy at a time is
between its look at the directory and the owner's name, nobody holds the lock
meanwhile (`OneStarts`), and what it has seen still stands (`SeenStands`). The
record needs the strengthening over every document that is about to be renamed,
the start script's too: whoever it names held the lock when it was named, and
holds it while it lives (`OwnersRightful`). A write that undoes others can
therefore bring back a dead owner, never a living wrong one.

It also holds EvidenceIsOurs of LogTail, for any number of
polls, boots and lines (`LogInv`). Offsets lie at or within lines, and what has been
read is what lies between the seed and the offset: two reads that meet, in the
middle of a line or not, say together what one read over both would say (`Joined`,
with `Between`). A slice on its way to the scanner begins where the milestones
end (`InHand`), and an inode the monitor knows is of this boot unless it came
back (`Generations`). This is where the half line at the end of a read matters: a
reader that took it would lose the milestone to both reads.

**ShimSpliceProofs**: NeverToALauncher and OneStream for any number of requests,
frames and attempts. Chains come one after the other (`InOrder`); what the shim
takes for a proof of the exec is one (`Proofs`): the flag outlives its chain, but
a chain is attached only by an action that clears it; and the frames passed on
are those of the attached chain, as many as were read (`Waiting`, `Spliced`).

It also holds OnceEach and HeldHasAReleaser of CallRouter, the router behind the
splice, for any calls, kinds and faults. Where a call is excludes every other place
(`Apart`), which each of flush, reject, take-over, restart and the server's death
has to keep for all calls at once; the exception is a restart, which is answered
when its hold times out and may still be at the server. `SlotFit` keeps the
takeover's probe one of its waiters. HeldHasAReleaser is inductive as it stands.

**ProxyWarmupProofs**: KeepsThePromise, that ProxyWarmup implements HoldToWarm, for
any settings, attempts, calls and faults. Two facts are inductive and tell the
mapping which phase it is in: nothing is held while recovering, and after giving up
no round is under way until a call starts one (`GivenUpRests`). The loop comes to
its pause only with a warm editor (`Looked`), which is what a flush behind the
pause rests on. With them each action maps to one of the promise's or to a look
that changes nothing else: every way out of the queue is one of "forward all",
"answer all" and "the client is gone", and has a lemma of its own.

It also holds StaleIsHiddenByAdvance of FrameFreshness, for any calls, any clock
and any number of calls in a millisecond. `FreshInv` relates three accounts of the
same calls: the order in which they were received (`Ordered`), the two marks the
contract compares (`Marked`), and what the lines and the game hold of them (`Lined`,
`Drawn`). From these follows what a frame can miss: no advance between the mutation
and the capture has drawn it, so each that came there failed (`Shown`); and what "no
warning" means: some advance is not older, by the clock, than the mutation
(`Judged`). The property joins the two. The run has two calls a millisecond, the
theorem any number.

The arguments are inductive: Init establishes IInv, each action keeps it (one
step per action, one sub-step per conjunct), IInv implies the property. TLC has
checked each IInv first.

Only model-checked:

- everything temporal with fairness, because liveness and ENABLED are out of the
  prover's reach here (as are induction over data and RECURSIVE operators, which
  no module needs);
- TimelineExact, the rest of InputTimeline: its events are counted, compiled from
  sequences and sorted, and what a sort or a fold does to every sequence is
  induction over data.

The assumptions on constants are named in the modules (or, for the five hosted
ones, in the module that holds the instance), cited by the proofs and evaluated
by TLC in the run of that module. They say of what kind the constants are, that the value for "nothing" is none of
the others, in which order the addon's delays are, and that a frame of the editor
is shorter than 250 ms; none limits how many there are of anything.

## Where the code and its words disagree

Two runs end in a violation, and PROJECT.json's `findings` quote the lines:

- **RecoveringEnds** (warmup_recovering). A failed spawn resets `spawnTriggered`
  and leaves `S.recovering` (spawn.mjs:752); the router triggers a round only when
  not recovering (router.mjs:453), and the cap on the state is only looked at inside
  a round. Every later call is told to retry, for as long as the proxy lives.
- **DropsAtTarget** (inputs_drag). The bridge sorts a release before a motion of
  the same time, so a drag is dropped at its last waypoint, before the pointer
  goes to the target (see1240-ui-tools.mjs:92).

Further properties are stated, say what the code or a doc says, and do not hold;
TLC finds these behaviours in a few seconds when they are asked for, in the
runs' instances unless something else is said:

- ConnectedMeansOpen: a close that overtakes the handshake is reported first and
  "connected" after it (websocket.ts:242), which the proxy reads as an open
  connection (npx.mjs:84).
- BoundToLatestConfig (two addresses, two applies): an address captured before the idle gate is bound after a
  newer one was saved (plugin.gd:467 against the comment at 426).
- OneProxyPerRuntime (without the constraint Calm): a launcher, still bash, is judged dead by
  the next launcher of its runtime or by the reaper (godot-mcp-launcher.sh:945,
  reap-stale-leases.sh:920).
- StepKeepsIntent: a pause the game writes in the last frame of a step is
  overwritten unseen (mcp_game_bridge.gd:2885 against docs/tools/game-time.md:13).
- SuccessHasAnswer (Styles = {"input"}): the time-out of one input call ends the
  other with an empty success (input_commands.gd:229, input.ts:462).
- WaitersEnd: the takeover's timer is stopped while the probe is away and nothing
  restarts it when the probe's line is lost (takeover.mjs:108 against 23-25).
- ServerComesBack: the back-off timer of a server that died cold returns when the
  editor has become warm, and the server is not started again (npx.mjs:178-180).
- NeverHangs: flushing a queue with a ui_inspect in it holds that call again and
  flushes again, in one turn of the event loop (router.mjs:59).
- RecordTellsWarm: the start script merges an older document and undoes WARM
  (warmup.mjs:488-490).
- OneManager: a proxy that did not get the lock is called read-only, but spawns and
  adopts, writes the record and clears the owner at its end
  (godot-mcp-proxy.mjs:97, lifecycle.mjs:40).
- ExhaustedIsSaid: a line of the last chain read after its end replaces the final
  diagnosis (godot-mcp-shim.mjs:187-188).
- ReadyWaitSparesBudget (with `asked` alone): the readiness wait of an input call
  "can never eat the budget the command itself needs" (input_commands.gd:52-54), but
  it may last 30 s and the one deadline has room for 10. A sequence of 29,999 ms whose
  bridge is ready after 29,999 ms goes to the game with 17 s left, and the editor
  gives it up while the game plays it.
- EveryHeldGoesOn: "failure → the capture still proceeds" (screenshot.mjs:81-84),
  but a step's id is made of Date.now() (line 92). Two captures with auto_step come
  in one millisecond, the second takes the first one's waiter, the answer or the
  first timer finds it, and the other one's timer finds nothing (lines 98-104).
- EverySequenceCounts: an input sequence is to be tracked as a mutation
  (router.mjs:320-322), but one with screenshot_at_ms and auto_step returns before
  that (line 249). It is held for its step, sent, and moves the game; a plain capture
  after it misses what it did and is called fresh.
- VerifiedIsFresh: an auto_step that failed counts as a verified frame
  (see1240-screenshot-contract.mjs:146 against screenshot.mjs:82-84).
- StalledIsTrue: a respawn round clears the handshake's times and keeps the stage,
  and a handshake nobody began is "stalled" since 1970 (warmup-stage-parser.mjs:126-134).

Met while modelling, without a definition of their own:

- warm-up: the embedded recovery round never runs on the warm branch and T4 never
  fires with the forked server, because by default the cap is the give-up time;
  a call between "warm" and the flush overtakes the held ones; the takeover's
  self-heal clears `warm` while the loop idles, which then is never woken, so that
  a call held afterwards waits until something else warms the proxy; an editor
  that is reported gone sets `warmRespawnInFlight` for the idle loop to clear
  (spawn.mjs:109, warmup.mjs:795), and while the loop does not idle the forced
  restart, the recovery round and the heal, which share the flag, return at once
  (spawn.mjs:780); the
  lease monitor is not restarted after it has ended; the second recovery may evict a
  connected editor.
- calls: the death of the server clears the write buffer, and a hot restart replays
  nothing; an acknowledgement that comes after the restart's time-out is forwarded,
  a second answer to a call; a watcher finishes a newer restart (npx.mjs:384); a
  queued second restart is not intercepted.
- runtime lock: a bare directory is never stolen; the release removes what it can
  not read; adoption is decided for WARMING and RECOVERING though their owner lives.
- shim: the end of the client's stream drops frames that are still to be read; the
  chain never gets the client's own initialize.
- captures: marks are read when the answer comes; ties are not flagged.
- log: a log that is not there when the monitor starts is never anchored
  (lease.mjs:67), so its generations are not told apart; polls that cross count a
  line twice or skip it, also the one of the lease's end.
- cascade: timeouts.ts:63 says game_time has no readiness wait;
  game_time_commands.gd waits up to 1.5 s, which the server's margin absorbs for
  frames below 250 ms. With the default quick timeout of 30 s get_input_map
  and run_project outlast their socket.
- host: architecture.md:58 says resolv.conf is asked first in WSL2; the route table
  always is. A detection that failed is cached for life.
- arbiter: the port release stamps released_at for a 60 s cooldown and then
  removes the directory that holds it (port-arbiter.lib.sh:278).
- clock: a predicate of step_until that is true only in the frame of an injection
  sets `done` once, for the settle frame, and the window then goes on, although
  "a truthy result stops the window early" (mcp_game_bridge.gd:2916). An input
  sequence that is refused for an unknown action leaves the interrupted one
  running without events, which then reports "completed". Actions, pad and mouse
  buttons do not count their presses, as keys do; the zero of a hold that overlaps
  another ends both.

## What is not modelled

Payloads, tool schemas beyond their limits, log texts and file formats; how
project, worktree and port are configured; scripts that only start or stop a
process; the status panel. They are sequential, or keep no state of their own, or
are pure input and output.

Inside modelled components:

- PortArbiter: the legacy port table and the registry as an accelerator; the ageing
  of a grant whose maker is still in the script after 60 s (`Age`), in npm ci, a
  build or a blocking flock, after which the port may be given away.
- AddonServer: the sidecar's worktree check and the order in which the bind address
  is resolved (any configured address).
- DebuggerRelay: find_nodes' editor fallback and frame captures.
- GameTime and InputTimeline: type_text's own steps and the status report.
- ProxyWarmup: progress notifications and what a diagnostic says; clocks, which may
  run out at any time.
- CallRouter: the handshake and its replay; the hints added to errors.
- RuntimeHandoff: the comparison of worktrees and ports, which decides only between
  reuse and a fresh start; stale-proxy's reading of the arbiter's directory.
- ShimSplice: the list of tools it answers from its cache; the search for the
  server's command and the configuration check, which ends the process.
- FrameFreshness: the exported picture. LogTail: progress notifications.

## Plan

Done: the modules above with their runs; theorems for every safety property the
passing runs check except TimelineExact, and for ProxyWarmup's refinement of
HoldToWarm.

Left, in this order:

1. SidecarLease: the lease file's writers under flock, its readers outside it, the
   reaper and the release, which reads before it locks and never compares the
   runtime id (the hazard at mcp-sidecar.lib.sh:219).
2. Bridge: GodotConnection and AddonServer over one network, implementing "at most
   one server drives the editor, and a command's result comes from the connection
   it was sent on".
3. ProxyWarmup with CallRouter in one state space; today each takes the other's
   steps as free. The refinement of HoldToWarm would then be CallRouter's as well.
4. PortArbiter and RuntimeHandoff: liveness, and the launcher's own runtime
   directory beside the proxy's.
