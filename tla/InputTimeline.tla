--------------------------- MODULE InputTimeline ---------------------------
(***************************************************************************)
(* One timeline of input, from the call's entries to the engine: the proxy *)
(* spells a drag out (launch/see1240-ui-tools.mjs), the server a stick     *)
(* (server tools/input.ts), and the bridge compiles entries into pairs of  *)
(* events, sorts them and injects them one after the other.                *)
(***************************************************************************)
EXTENDS Integers, FiniteSets, Sequences, SequencesExt

CONSTANTS Call,     \* the lists of entries a caller may send
          Key,      \* the keys that occur in them
          ChunkMs,  \* a sweep of the view has an event for each so many ms
          None

VARIABLES
  inputs,   \* the entries of the call under way, drags spelled out
  todo,     \* events that are not injected yet
  keys,     \* _held_keys: how many entries hold a key
  down,     \* actions that are held, axes off zero, mouse buttons
  pointer,  \* where the last motion of the mouse went
  dropped,  \* where it was when the last mouse button was released
  credit    \* _actions_completed

vars == <<inputs, todo, keys, down, pointer, dropped, credit>>

Smaller(a, b) == IF a < b THEN a ELSE b
Larger(a, b)  == IF a > b THEN a ELSE b

-----------------------------------------------------------------------------
(* see1240-ui-tools.mjs *)

Move(p, t)    == [kind |-> "mouse_move", what |-> p, start |-> t, dur |-> 0]
Hold(p, t, d) == [kind |-> "mouse_button", what |-> "left", start |-> t, dur |-> d]

Rounded(a, b) == (2 * a + b) \div (2 * b)

\* Points are "from", "to" and those on the way; without any, the middle.
Waypoints(e) ==
  IF e.way # None THEN e.way ELSE IF e.dur > 0 THEN <<"middle">> ELSE <<>>

ExpandDragEntry(e) ==
  LET way  == Waypoints(e)
      end  == e.start + e.dur
      last == Larger(end - 1, e.start)
      At(i) == Smaller(e.start + Rounded(e.dur * i, Len(way) + 1), last)
  IN  <<Move("from", e.start), Hold("from", e.start, Larger(e.dur, 1))>>
      \o [i \in DOMAIN way |-> Move(way[i], At(i))] \o <<Move("to", end)>>

ExpandDrags(call) ==
  FlattenSeq([i \in DOMAIN call |->
    IF call[i].kind = "drag" THEN ExpandDragEntry(call[i]) ELSE <<call[i]>>])

\* expandDragInToolsCall looks at two of the three tools that take inputs.
Tool == {"sequence", "step", "step_until"}
ExpandDragInToolsCall(tool, call) == IF tool \in {"sequence", "step"} THEN ExpandDrags(call) ELSE call

-----------------------------------------------------------------------------
(* input.ts *)

\* The union of the entries' schemas, told apart by their key.
InputEntrySchema(e) ==
  /\ e.start \in Nat /\ e.dur \in Nat
  /\ \/ e.kind = "action" /\ e.strong \in BOOLEAN
     \/ e.kind = "key" /\ {e.what} \cup e.mods \subseteq Key
     \/ e.kind \in {"joy_button", "axis", "stick", "look", "mouse_move", "mouse_button"}

CompileInputEntries(entries) ==
  FlattenSeq([i \in DOMAIN entries |->
    IF entries[i].kind = "stick"
    THEN <<[entries[i] EXCEPT !.kind = "axis", !.what = "x"],
           [entries[i] EXCEPT !.kind = "axis", !.what = "y"]>>
    ELSE <<entries[i]>>])

Uses(entries, kinds) == \E i \in DOMAIN entries : entries[i].kind \in kinds
UsesStrength(entries) == \E i \in DOMAIN entries : entries[i].kind = "action" /\ entries[i].strong

\* Slip: whatever echoes its kinds is taken to know them all.
WarnsOfSilence(entries, echo) ==
  /\ echo = None
  /\ \/ Uses(entries, {"mouse_move", "mouse_button", "look", "key", "joy_button", "axis", "stick"})
     \/ UsesStrength(entries)

\* echo: the kinds that the answer counts, None when it counts none.
InputSkewWarning(entries, echo) ==
  LET Unknown(kinds) == echo = None \/ ~(kinds \subseteq echo)
  IN  \/ Uses(entries, {"mouse_move", "mouse_button"}) /\ Unknown({"mouse_move", "mouse_button"})
      \/ Uses(entries, {"look"}) /\ Unknown({"look"})
      \/ Uses(entries, {"key"}) /\ Unknown({"key"})
      \/ (Uses(entries, {"joy_button", "axis", "stick"}) \/ UsesStrength(entries)) /\ echo = None

\* The bridges of earlier versions: what they knew, in the order it came.
Era == 0..4
Knows(era) ==
  {"action"} \cup (IF era >= 1 THEN {"joy_button", "axis"} ELSE {})
             \cup (IF era >= 2 THEN {"key"} ELSE {}) \cup (IF era >= 3 THEN {"look"} ELSE {})
             \cup (IF era >= 4 THEN {"mouse_move", "mouse_button"} ELSE {})
Echoes(era) == IF era = 0 THEN None ELSE Knows(era)

\* An answer that counts nothing is told from one that counts some kinds.
EchoAssumption == \A era \in Era : None # Knows(era)

-----------------------------------------------------------------------------
(* _compile_input_events *)

\* Slip: a tap ends when it starts.
EndOfTap(e) == e.start + e.dur
EndOf(e)    == e.start + Larger(e.dur, 1)

Event(i, e, what, t, phase, complete) ==
  [entry |-> i, kind |-> e.kind, what |-> what, time |-> t, phase |-> phase, complete |-> complete]

\* A combination presses its modifiers as keys of their own.
Controls(e) == IF e.kind = "key" THEN {e.what} \cup e.mods ELSE {e.what}

HeldEvents(i, e) ==
  {Event(i, e, c, e.start, 1, 0) : c \in Controls(e)}
    \cup {Event(i, e, c, EndOf(e), 0, IF c = e.what THEN 1 ELSE 0) : c \in Controls(e)}

LookEvents(i, e) ==
  LET n == Larger((e.dur + ChunkMs - 1) \div ChunkMs, 1)
  IN  {Event(i, e, k, e.start + (k * e.dur) \div n, 1, IF k = n - 1 THEN 1 ELSE 0) : k \in 0..n - 1}

EntryEvents(i, e) ==
  CASE e.kind = "look"       -> LookEvents(i, e)
    [] e.kind = "mouse_move" -> {Event(i, e, e.what, e.start, 1, 1)}
    [] OTHER                 -> HeldEvents(i, e)

\* The sets of an axis at the moment some event zeroes it.
FollowOn(z, events) ==
  {s \in events : /\ z.kind = "axis" /\ z.phase = 0 /\ s.kind = "axis"
                  /\ s.phase = 1 /\ s.what = z.what /\ s.time = z.time}

\* Slip: the zero goes and takes its credit with it.
ZeroesDropped(events) == {e \in events : FollowOn(e, events) = {}}

\* Slip: every zero is injected.
ZeroesKept(events) == events

CancelRedundantAxisZeroes(events) ==
  LET gone    == {z \in events : FollowOn(z, events) # {}}
      Heir(z) == CHOOSE s \in FollowOn(z, events) : TRUE
  IN  {[e EXCEPT !.complete = @ + Cardinality({z \in gone : Heir(z) = e})] : e \in events \ gone}

Timeline(entries) ==
  LET wire == CompileInputEntries(entries)
  IN  CancelRedundantAxisZeroes(UNION {EntryEvents(i, wire[i]) : i \in DOMAIN wire})

-----------------------------------------------------------------------------
Init ==
  /\ inputs = <<>> /\ todo = {} /\ keys = [k \in Key |-> 0] /\ down = {}
  /\ pointer = None /\ dropped = None /\ credit = 0

\* A call of godot_input or a step of godot_game_time.
Execute(tool, call) ==
  /\ inputs = <<>>
  /\ inputs' = ExpandDragInToolsCall(tool, call)
  /\ \A i \in DOMAIN inputs' : InputEntrySchema(inputs'[i])
  /\ todo' = Timeline(inputs')
  /\ UNCHANGED <<keys, down, pointer, dropped, credit>>

\* _emit_sequence_result, _finish_step
Answer ==
  /\ inputs # <<>> /\ todo = {}
  /\ inputs' = <<>> /\ credit' = 0 /\ dropped' = None
  /\ UNCHANGED <<todo, keys, down, pointer>>

\* Sorted by time, releases first; sort_custom leaves the order of equals open.
Earliest(e) == \A o \in todo : e.time < o.time \/ (e.time = o.time /\ e.phase <= o.phase)

\* Slip: keys have no count, the first release ends the hold.
KeyUncounted(n, phase) == phase

KeyCount(n, phase) == IF phase = 1 THEN n + 1 ELSE Larger(n - 1, 0)

Inject(e) ==
  /\ keys' = IF e.kind = "key" THEN [keys EXCEPT ![e.what] = KeyCount(@, e.phase)] ELSE keys
  /\ down' = IF e.kind \notin {"action", "joy_button", "axis", "mouse_button"} THEN down
             ELSE IF e.phase = 1 THEN down \cup {e.what} ELSE down \ {e.what}
  /\ pointer' = IF e.kind = "mouse_move" THEN e.what ELSE pointer
  /\ dropped' = IF e.kind = "mouse_button" /\ e.phase = 0 THEN pointer ELSE dropped
  /\ credit' = credit + e.complete

Fire ==
  \E e \in todo : /\ Earliest(e) /\ Inject(e)
                  /\ todo' = todo \ {e} /\ UNCHANGED inputs

Next == Fire \/ Answer \/ \E tool \in Tool, call \in Call : Execute(tool, call)
Spec == Init /\ [][Next]_vars

-----------------------------------------------------------------------------
(* Properties. *)

(* A timeline that ran to its end has completed every entry it was sent and *)
(* leaves nothing held: taps of no length, combinations that share a        *)
(* modifier and merged zeroes included (end_ms, _cancel_redundant_...).     *)
EndsClean ==
  todo = {} => /\ credit = Len(CompileInputEntries(inputs))
               /\ down = {} /\ \A k \in Key : keys[k] = 0

(* A key is down exactly while an entry that was pressed has not been       *)
(* released ("an inner release never turns a still-held key off").          *)
KeyHeldByAll ==
  \A k \in Key :
    keys[k] = Cardinality({e \in todo : e.kind = "key" /\ e.what = k /\ e.phase = 0})
              - Cardinality({e \in todo : e.kind = "key" /\ e.what = k /\ e.phase = 1})

(* Abutting entries of one axis do not bounce through zero: an axis returns *)
(* to zero only when no entry sets it at that moment.                       *)
SweepNeverBounces ==
  [][\A e \in todo \ todo' :
       e.kind = "axis" /\ e.phase = 0 => ~\E s \in todo : s.kind = "axis" /\ s.what = e.what
                                                          /\ s.phase = 1 /\ s.time = e.time]_vars

(* A bridge of any version that ignores an entry, or the strength of one,   *)
(* is reported, and one that does not is not (inputSkewWarning).            *)
IgnoredIsSaid ==
  \A era \in Era :
    InputSkewWarning(inputs, Echoes(era))
      <=> \/ \E i \in DOMAIN inputs : inputs[i].kind \notin Knows(era) \cup (IF era = 0 THEN {} ELSE {"stick"})
          \/ UsesStrength(inputs) /\ era = 0

(* A drag ends where it was to end: the button is released after the motion *)
(* to its target ("put the drop position in the LAST mouse_move before the  *)
(* release", input.ts:175; "the final cursor position is where the release  *)
(* happened", see1240-ui-tools.mjs:94).                                     *)
DropsAtTarget == dropped \in {None, "to"}
=============================================================================
