-------------------------- MODULE KeyboardController --------------------------
(***************************************************************************)
(* The receiver's KeyboardController: presses, holds with their repeat     *)
(* timers, releases and shortcuts.  Frame handlers start a call and do not *)
(* wait for it, so calls overlap at every await.                           *)
(*                                                                         *)
(* A provider presses the keys of one call one after the other, and calls  *)
(* of different operations in any order (each may be a process of its      *)
(* own); any key can fail.  A press leaves the key down, as nut.js does.   *)
(*                                                                         *)
(* typeText and mediaKey keep no state: they pass on what they are given.  *)
(***************************************************************************)
EXTENDS Naturals, Sequences

CONSTANTS Keys,       \* legal key identifiers
          Modifiers,  \* MODIFIER_KEYS
          Calls,      \* calls under way at a time (bound)
          Timers,     \* intervals at a time (bound)
          None

ASSUME ModifiersAssumption == Modifiers \subseteq Keys
ASSUME NoneAssumption == None \notin Keys \cup Timers

VARIABLES
  call,           \* what each call is doing
  activeRepeats,  \* the interval remembered for each key
  interval,       \* the key that each live interval presses
  ticking,        \* keys with an interval's press in flight
  down,           \* keys that the operating system has down
  stray,          \* history: keys something other than a shortcut that ended well has pressed
  held,           \* history: keys held since they were last released
  robbed          \* history: presses and shortcuts under way of which something other than
                  \* the call itself has let a key go, or that have not held one down

repeatVars == <<activeRepeats, interval>>
osVars == <<ticking, down, stray>>
vars == <<call, repeatVars, osVars, held, robbed>>

\* What a frame may carry: the keys of a combination, in any order.
Inputs == UNION {{s \in [1..n -> Keys] : \A i, j \in 1..n : s[i] = s[j] => i = j} : n \in 1..2}

\* A call that runs has pressed, and not released, the first n of its keys.
Free == [op |-> "none", keys |-> <<>>, phase |-> "free", n |-> 0]
CallType == [op : {"none", "press", "hold", "release", "shortcut"}, keys : Inputs \cup {<<>>},
             phase : {"free", "pressing", "sleeping", "releasing"}, n : 0..2]

TypeOK ==
  /\ call \in [Calls -> CallType]
  /\ \A i \in Calls : /\ call[i].n <= Len(call[i].keys)
                      /\ call[i].op = "shortcut" => Len(call[i].keys) >= 2
  /\ activeRepeats \in [Keys -> Timers \cup {None}]
  /\ interval \in [Timers -> Keys \cup {None}]
  /\ {ticking, down, stray, held} \subseteq SUBSET Keys
  /\ robbed \subseteq Calls

Init ==
  /\ call = [i \in Calls |-> Free]
  /\ activeRepeats = [k \in Keys |-> None]
  /\ interval = [t \in Timers |-> None]
  /\ ticking = {}
  /\ down = {}
  /\ stray = {}
  /\ held = {}
  /\ robbed = {}

KeysOf(s) == {s[i] : i \in 1..Len(s)}

-----------------------------------------------------------------------------
(* What a frame starts.                                                    *)

\* Faulty variant: the keys stay in the order of the frame.
OrderedAsGiven(s) == s

ModifiersFirst(s) == \A i, j \in 1..Len(s) : (i < j /\ s[j] \in Modifiers) => s[i] \in Modifiers

\* The sort by keyOrder: one order of the keys, whatever the frame's, modifiers first.
Ordered(s) == CHOOSE r \in Inputs : KeysOf(r) = KeysOf(s) /\ ModifiersFirst(r)

Start(i, op, keys, phase) ==
  /\ call[i] = Free
  /\ call' = [call EXCEPT ![i] = [op |-> op, keys |-> keys, phase |-> phase,
                                  n |-> IF phase = "releasing" THEN Len(keys) ELSE 0]]

PressKeys(i, s) ==
  /\ Start(i, "press", Ordered(s), "pressing")
  /\ stray' = stray \cup KeysOf(s)
  /\ UNCHANGED <<repeatVars, ticking, down, held, robbed>>

\* A key that repeats is already held; one that is plainly held, or whose repeat is
\* not armed yet, may be held again.
HoldKey(i, k) ==
  /\ activeRepeats[k] = None
  /\ Start(i, "hold", <<k>>, "pressing")
  /\ stray' = stray \cup {k}
  /\ held' = held \cup {k}
  /\ UNCHANGED <<repeatVars, ticking, down, robbed>>

\* Faulty variant: the interval is cleared and still remembered.
ReleaseKeyForgetsDelete(i, k) ==
  /\ Start(i, "release", <<k>>, "releasing")
  /\ interval' = IF activeRepeats[k] = None THEN interval
                 ELSE [interval EXCEPT ![activeRepeats[k]] = None]
  /\ held' = held \ {k}
  /\ UNCHANGED <<activeRepeats, osVars, robbed>>

\* The interval that is remembered ends, and the key is released, held or not.
ReleaseKey(i, k) ==
  /\ Start(i, "release", <<k>>, "releasing")
  /\ interval' = IF activeRepeats[k] = None THEN interval
                 ELSE [interval EXCEPT ![activeRepeats[k]] = None]
  /\ activeRepeats' = [activeRepeats EXCEPT ![k] = None]
  /\ held' = held \ {k}
  /\ UNCHANGED <<osVars, robbed>>

\* Faulty variant: one key is enough.
ShortcutOfAny(i, s) ==
  /\ Start(i, "shortcut", Ordered(s), "pressing")
  /\ UNCHANGED <<repeatVars, osVars, held, robbed>>

Shortcut(i, s) ==
  /\ Len(s) >= 2
  /\ Start(i, "shortcut", Ordered(s), "pressing")
  /\ UNCHANGED <<repeatVars, osVars, held, robbed>>

-----------------------------------------------------------------------------
(* What becomes of it.                                                     *)

Combination(i) == call[i].op \in {"press", "shortcut"}

\* The combinations under way that have a key pressed.
Having(k) == {i \in Calls : Combination(i) /\ \E j \in 1..call[i].n : call[i].keys[j] = k}

\* The provider presses the next key of a call.
PressOne(i) ==
  LET c == call[i]
  IN  /\ c.phase = "pressing" /\ c.n < Len(c.keys)
      /\ call' = [call EXCEPT ![i].n = @ + 1]
      /\ down' = down \cup {c.keys[c.n + 1]}
      /\ UNCHANGED <<repeatVars, ticking, stray, held, robbed>>

\* The provider's press has ended well: a press is done, and so is a plain hold (an
\* interval or a start delay that is too short); others sleep.
Pressed(i, plain) ==
  LET c == call[i]
      done == c.op = "press" \/ (c.op = "hold" /\ plain)
  IN  /\ c.phase = "pressing" /\ c.n = Len(c.keys)
      /\ call' = [call EXCEPT ![i] = IF done THEN Free ELSE [c EXCEPT !.phase = "sleeping"]]
      /\ robbed' = IF done THEN robbed \ {i} ELSE robbed
      /\ UNCHANGED <<repeatVars, osVars, held>>

\* The start delay of a hold ends: an interval is armed and remembered, whatever has
\* been done to the key meanwhile.
ArmRepeat(i, t) ==
  /\ call[i].op = "hold" /\ call[i].phase = "sleeping"
  /\ interval[t] = None
  /\ interval' = [interval EXCEPT ![t] = call[i].keys[1]]
  /\ activeRepeats' = [activeRepeats EXCEPT ![call[i].keys[1]] = t]
  /\ call' = [call EXCEPT ![i] = Free]
  /\ UNCHANGED <<osVars, held, robbed>>

ShortcutHeld(i) ==
  /\ call[i].op = "shortcut" /\ call[i].phase = "sleeping"
  /\ call' = [call EXCEPT ![i].phase = "releasing"]
  /\ UNCHANGED <<repeatVars, osVars, held, robbed>>

\* Faulty variant: the loop stops at its last index but one.
ReleaseOneShort(i) ==
  LET c == call[i]
  IN  /\ c.phase = "releasing"
      /\ call' = [call EXCEPT ![i] = IF c.n <= 2 THEN Free ELSE [c EXCEPT !.n = @ - 1]]
      /\ down' = down \ {c.keys[c.n]}
      /\ robbed' = (IF c.n <= 2 THEN robbed \ {i} ELSE robbed) \cup (Having(c.keys[c.n]) \ {i})
      /\ UNCHANGED <<repeatVars, ticking, stray, held>>

\* The provider releases the last key that a call has down.
ReleaseOne(i) ==
  LET c == call[i]
  IN  /\ c.phase = "releasing"
      /\ call' = [call EXCEPT ![i] = IF c.n = 1 THEN Free ELSE [c EXCEPT !.n = @ - 1]]
      /\ down' = down \ {c.keys[c.n]}
      /\ robbed' = (IF c.n = 1 THEN robbed \ {i} ELSE robbed) \cup (Having(c.keys[c.n]) \ {i})
      /\ UNCHANGED <<repeatVars, ticking, stray, held>>

\* The provider throws: the call ends, and what it has pressed stays down.
ProviderThrows(i) ==
  /\ call[i].phase \in {"pressing", "releasing"}
  /\ call' = [call EXCEPT ![i] = Free]
  /\ stray' = stray \cup {call[i].keys[j] : j \in 1..call[i].n}
  /\ robbed' = robbed \ {i}
  /\ UNCHANGED <<repeatVars, ticking, down, held>>

\* An interval's callback does not wait for its press, nor mind its failure.
Tick(t) ==
  /\ interval[t] # None
  /\ ticking' = ticking \cup {interval[t]}
  /\ UNCHANGED <<call, repeatVars, down, stray, held, robbed>>

TickEnds(k, presses) ==
  /\ k \in ticking
  /\ ticking' = ticking \ {k}
  /\ down' = IF presses THEN down \cup {k} ELSE down
  /\ UNCHANGED <<call, repeatVars, stray, held, robbed>>

-----------------------------------------------------------------------------
Next ==
  \/ \E i \in Calls :
       \/ \E s \in Inputs : PressKeys(i, s) \/ Shortcut(i, s)
       \/ \E k \in Keys : HoldKey(i, k) \/ ReleaseKey(i, k)
       \/ \E plain \in BOOLEAN : Pressed(i, plain)
       \/ \E t \in Timers : ArmRepeat(i, t)
       \/ PressOne(i) \/ ShortcutHeld(i) \/ ReleaseOne(i) \/ ProviderThrows(i)
  \/ \E t \in Timers : Tick(t)
  \/ \E k \in Keys, presses \in BOOLEAN : TickEnds(k, presses)

Spec == Init /\ [][Next]_vars

-----------------------------------------------------------------------------
(* Properties.                                                             *)

\* A remembered repeat is a live interval of that key: a release can always stop it,
\* and no key is refused as "already held" that nothing repeats.
RepeatsAreStoppable ==
  \A k \in Keys : activeRepeats[k] # None => interval[activeRepeats[k]] = k

\* "modifiers first down, modifiers last up": while a combination has its base key pressed,
\* its modifiers are down in the operating system, whether it is pressed, held or let go,
\* and whatever other calls press meanwhile.  A combination of which another call lets a
\* key go is excepted (the controller has nothing that would keep the key down for it), and
\* so is one whose keys the provider strikes, so that none is down.
ModifiersLast ==
  \A i \in Calls \ robbed :
    Combination(i) /\ (\E j \in 1..call[i].n : call[i].keys[j] \notin Modifiers) =>
      KeysOf(call[i].keys) \cap Modifiers \subseteq down

\* Once no call is under way, only keys that were held, pressed or failed are down:
\* shortcuts let go of all their keys, however they overlap with each other.
ShortcutsLetGo == (\A i \in Calls : call[i] = Free) => (down \subseteq stray)

\* "the controller re-presses the key on the interval until the matching KeyRelease
\* arrives" (Keyboard-Subsystem-M3b 3.3): no interval is live for a released key.
ReleaseEndsHold == \A t \in Timers : interval[t] # None => (interval[t] \in held)
=============================================================================
