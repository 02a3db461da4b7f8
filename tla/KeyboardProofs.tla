--------------------------- MODULE KeyboardProofs ---------------------------
(***************************************************************************)
(* Theorems about the keyboard, for any keys, any number of overlapping    *)
(* calls and intervals, any text and any bounds: what the controller       *)
(* remembers and has pressed, the order of combinations, and that typed    *)
(* text leaves the screen once and in order.                               *)
(***************************************************************************)
EXTENDS KeyboardPath, SequenceTheorems, TLAPS

-----------------------------------------------------------------------------
(* Combinations.                                                           *)

\* A combination of the model has one key or two.
LEMMA InputsAreShort ==
  ASSUME NEW s \in Inputs
  PROVE  /\ Len(s) \in 1..2
         /\ s \in [1..Len(s) -> Keys]
         /\ KeysOf(s) \subseteq Keys
  <1>1. PICK n \in 1..2 : s \in [1..n -> Keys]
    BY DEF Inputs
  <1>2. Len(s) = n
    BY <1>1
  <1> QED
    BY <1>1, <1>2 DEF KeysOf

\* A single key is one.
LEMMA SingleKey ==
  ASSUME NEW k \in Keys
  PROVE  /\ <<k>> \in Inputs
         /\ Len(<<k>>) = 1
         /\ KeysOf(<<k>>) = {k}
  <1>1. <<k>> \in [1..1 -> Keys]
    OBVIOUS
  <1>2. Len(<<k>>) = 1 /\ <<k>>[1] = k
    OBVIOUS
  <1>3. \A i, j \in 1..1 : i = j
    OBVIOUS
  <1>4. <<k>> \in {s \in [1..1 -> Keys] : \A i, j \in 1..1 : s[i] = s[j] => i = j}
    BY <1>1, <1>3
  <1>5. <<k>> \in Inputs
    BY <1>4 DEF Inputs
  <1> QED
    BY <1>2, <1>5 DEF KeysOf

\* Any combination can be put in order.
LEMMA OrderExists ==
  ASSUME NEW s \in Inputs
  PROVE  \E r \in Inputs : KeysOf(r) = KeysOf(s) /\ ModifiersFirst(r)
  <1>1. CASE ModifiersFirst(s)
    BY <1>1
  <1>2. CASE ~ModifiersFirst(s)
    <2>1. PICK n \in 1..2 : s \in [1..n -> Keys] /\ \A i, j \in 1..n : s[i] = s[j] => i = j
      BY DEF Inputs
    <2>2. n = 2 /\ Len(s) = 2 /\ s[1] \notin Modifiers /\ s[2] \in Modifiers
      BY <1>2, <2>1 DEF ModifiersFirst
    <2> DEFINE r == [i \in 1..2 |-> IF i = 1 THEN s[2] ELSE s[1]]
    <2>3. r \in [1..2 -> Keys] /\ \A i, j \in 1..2 : r[i] = r[j] => i = j
      BY <2>1, <2>2
    <2>4. r \in Inputs
      BY <2>3 DEF Inputs
    <2>5. Len(r) = 2 /\ r[1] = s[2] /\ r[2] = s[1]
      BY <2>3
    <2> HIDE DEF r
    <2>6. KeysOf(r) = {r[1], r[2]} /\ KeysOf(s) = {s[1], s[2]}
      BY <2>2, <2>5 DEF KeysOf
    <2>7. ModifiersFirst(r)
      BY <2>2, <2>5 DEF ModifiersFirst
    <2> QED
      BY <2>4, <2>5, <2>6, <2>7
  <1> QED
    BY <1>1, <1>2

\* What the sort gives: the same keys, in an order that has the modifiers first.
LEMMA SortProperties ==
  ASSUME NEW s \in Inputs
  PROVE  /\ Ordered(s) \in Inputs
         /\ KeysOf(Ordered(s)) = KeysOf(s)
         /\ ModifiersFirst(Ordered(s))
  BY OrderExists DEF Ordered

\* Nor does it lose one of them.
LEMMA SortKeepsLength ==
  ASSUME NEW s \in Inputs, Len(s) >= 2
  PROVE  Len(Ordered(s)) >= 2
  <1>1. PICK n \in 1..2 : s \in [1..n -> Keys] /\ \A i, j \in 1..n : s[i] = s[j] => i = j
    BY DEF Inputs
  <1>2. s[1] # s[2] /\ {s[1], s[2]} \subseteq KeysOf(s)
    BY <1>1 DEF KeysOf
  <1>3. Ordered(s) \in Inputs /\ {s[1], s[2]} \subseteq KeysOf(Ordered(s))
    BY <1>2, SortProperties
  <1>4. CASE Len(Ordered(s)) = 1
    BY <1>2, <1>3, <1>4 DEF KeysOf
  <1> QED
    BY <1>3, <1>4, InputsAreShort

-----------------------------------------------------------------------------
(* The invariant of the controller.                                        *)

\* What every call is, whatever it is doing.
WellFormed(c) ==
  /\ c \in CallType
  /\ c.n <= Len(c.keys)
  /\ c.op = "none" => c = Free
  /\ c.op # "none" => c.keys \in Inputs
  /\ c.op = "shortcut" => Len(c.keys) >= 2
  /\ c.op \in {"press", "shortcut"} => ModifiersFirst(c.keys)
  /\ c.op = "press" => c.phase = "pressing"
  /\ c.op = "release" => c.phase = "releasing"
  /\ c.phase = "sleeping" => c.n = Len(c.keys)
  /\ c.phase = "releasing" => c.n >= 1

CallsOK == call = [i \in Calls |-> call[i]] /\ \A i \in Calls : WellFormed(call[i])

RepeatsTyped ==
  /\ activeRepeats \in [Keys -> Timers \cup {None}]
  /\ interval \in [Timers -> Keys \cup {None}]

SetsTyped == {ticking, down, stray, held} \subseteq SUBSET Keys

\* What a combination has pressed is down, unless something else has let go of it.
PressedStays ==
  /\ robbed \subseteq Calls
  /\ \A i \in Calls \ robbed :
       Combination(i) => \A j \in 1..call[i].n : call[i].keys[j] \in down

\* A shortcut under way has pressed the key and not let go of it.
Covers(c, k) == c.op = "shortcut" /\ \E j \in 1..c.n : c.keys[j] = k

OfShortcut(k) == \E i \in Calls : Covers(call[i], k)

\* Everything but a shortcut presses only keys that are noted as stray, and so every key
\* that is down is noted or belongs to a shortcut that has yet to let go of it.
StrayNoted ==
  /\ \A i \in Calls : call[i].op \in {"press", "hold"} => KeysOf(call[i].keys) \subseteq stray
  /\ \A t \in Timers : interval[t] # None => interval[t] \in stray
  /\ ticking \subseteq stray

DownAccounted == \A k \in down : k \in stray \/ OfShortcut(k)

CInv == CallsOK /\ RepeatsTyped /\ SetsTyped /\ RepeatsAreStoppable /\ StrayNoted /\ DownAccounted

-----------------------------------------------------------------------------
(* What a step makes of a call is well formed.                             *)

\* A call that starts.
LEMMA StartWellFormed ==
  ASSUME NEW op \in {"press", "hold", "release", "shortcut"}, NEW keys \in Inputs,
         NEW phase \in {"pressing", "releasing"},
         op = "shortcut" => Len(keys) >= 2,
         op \in {"press", "shortcut"} => ModifiersFirst(keys),
         op = "release" <=> phase = "releasing"
  PROVE  WellFormed([op |-> op, keys |-> keys, phase |-> phase,
                     n |-> IF phase = "releasing" THEN Len(keys) ELSE 0])
  <1>1. Len(keys) \in 1..2
    BY InputsAreShort
  <1> QED
    BY <1>1 DEF WellFormed, CallType

\* A call that ends.
LEMMA FreeWellFormed == WellFormed(Free)
  <1>1. Len(<<>>) = 0
    OBVIOUS
  <1> QED
    BY <1>1 DEF WellFormed, Free, CallType

\* The keys of a call under way.
LEMMA UnderWay ==
  ASSUME NEW c, WellFormed(c), c.phase # "free" \/ c.op # "none"
  PROVE  /\ c.op # "none" /\ c.keys \in Inputs /\ Len(c.keys) \in 1..2 /\ c.n \in 0..2
         /\ \A j \in 1..Len(c.keys) : c.keys[j] \in KeysOf(c.keys)
         /\ KeysOf(c.keys) \subseteq Keys
  <1>1. c.op # "none"
    BY DEF WellFormed, Free
  <1>2. c.keys \in Inputs /\ c.n \in 0..2
    BY <1>1 DEF WellFormed, CallType
  <1> QED
    BY <1>1, <1>2, InputsAreShort DEF KeysOf

\* A call that moves on, to a phase and a count.
Moves(c, phase, n) ==
  \/ c.phase = "pressing" /\ phase = "pressing" /\ n = c.n + 1 /\ c.n < Len(c.keys)
  \/ c.phase = "pressing" /\ phase = "sleeping" /\ n = c.n /\ c.n = Len(c.keys) /\ c.op # "press"
  \/ c.phase = "sleeping" /\ phase = "releasing" /\ n = c.n /\ c.op = "shortcut"
  \/ c.phase = "releasing" /\ phase = "releasing" /\ n = c.n - 1 /\ c.n # 1

LEMMA MoveWellFormed ==
  ASSUME NEW c, WellFormed(c), NEW phase, NEW n, Moves(c, phase, n)
  PROVE  WellFormed([op |-> c.op, keys |-> c.keys, phase |-> phase, n |-> n])
  <1> DEFINE new == [op |-> c.op, keys |-> c.keys, phase |-> phase, n |-> n]
             length == Len(c.keys)
  <1>1. c.op # "none" /\ c.keys \in Inputs /\ length \in 1..2 /\ c.n \in 0..2
    BY UnderWay DEF WellFormed, Free, Moves
  <1>2. c.n <= length /\ (c.phase = "releasing" => c.n >= 1)
    BY DEF WellFormed
  <1>3. \/ c.phase = "pressing" /\ phase = "pressing" /\ n = c.n + 1 /\ c.n < length
        \/ phase \in {"sleeping", "releasing"} /\ n = c.n /\ c.n = length /\ c.op # "press"
        \/ c.phase = "releasing" /\ phase = "releasing" /\ n = c.n - 1 /\ c.n # 1
    BY DEF Moves, WellFormed
  <1>4. phase = "sleeping" => n = length
    BY DEF Moves
  <1> HIDE DEF length
  <1>5. /\ n \in 0..2 /\ n <= length
        /\ phase = "releasing" => n >= 1
        /\ phase \in {"pressing", "sleeping", "releasing"}
    BY <1>1, <1>2, <1>3
  <1>6. (c.op = "press" => phase = "pressing") /\ (c.op = "release" => phase = "releasing")
    BY DEF WellFormed, Moves
  <1>7. new \in CallType
    BY <1>1, <1>5 DEF WellFormed, CallType
  <1> QED
    BY <1>1, <1>4, <1>5, <1>6, <1>7 DEF WellFormed, length

\* A step that gives one call a new value, and the rest their old ones.
Becomes(i, c) == WellFormed(c) /\ call' = [call EXCEPT ![i] = c]

LEMMA BecomesKeeps ==
  ASSUME CallsOK, NEW i \in Calls, NEW c, Becomes(i, c)
  PROVE  CallsOK' /\ \A j \in Calls : call'[j] = IF j = i THEN c ELSE call[j]
  BY DEF CallsOK, Becomes

LEMMA StartBecomes ==
  ASSUME CallsOK, NEW i \in Calls, NEW op \in {"press", "hold", "release", "shortcut"},
         NEW keys \in Inputs, NEW phase \in {"pressing", "releasing"},
         op = "shortcut" => Len(keys) >= 2,
         op \in {"press", "shortcut"} => ModifiersFirst(keys),
         op = "release" <=> phase = "releasing",
         Start(i, op, keys, phase)
  PROVE  Becomes(i, [op |-> op, keys |-> keys, phase |-> phase,
                     n |-> IF phase = "releasing" THEN Len(keys) ELSE 0])
  BY StartWellFormed DEF Start, Becomes

\* A call is the record of its fields.
LEMMA NewPhase ==
  ASSUME NEW c, WellFormed(c), NEW phase
  PROVE  [c EXCEPT !.phase = phase] = [op |-> c.op, keys |-> c.keys, phase |-> phase, n |-> c.n]
  BY DEF WellFormed, CallType

LEMMA NewCount ==
  ASSUME NEW c, WellFormed(c), NEW n
  PROVE  [c EXCEPT !.n = n] = [op |-> c.op, keys |-> c.keys, phase |-> c.phase, n |-> n]
  BY DEF WellFormed, CallType

-----------------------------------------------------------------------------
(* Every step keeps the invariant.                                         *)

LEMMA InitCInv == Init => CInv
  <1> SUFFICES ASSUME Init PROVE CInv
    OBVIOUS
  <1>1. CallsOK
    BY FreeWellFormed DEF Init, CallsOK
  <1>2. \A i \in Calls : call[i].op = "none"
    BY DEF Init, Free
  <1>3. RepeatsTyped /\ SetsTyped /\ RepeatsAreStoppable /\ DownAccounted
    BY DEF Init, RepeatsTyped, SetsTyped, RepeatsAreStoppable, DownAccounted
  <1>4. StrayNoted
    BY <1>2 DEF Init, StrayNoted
  <1> QED
    BY <1>1, <1>3, <1>4 DEF CInv

\* A step of one call that touches no repeat: what it presses or holds is noted, and a
\* key that it leaves down without covering it was down and not covered before.
LEMMA CallOnlyKeeps ==
  ASSUME CInv, NEW i \in Calls, NEW c, Becomes(i, c),
         UNCHANGED <<repeatVars, ticking>>,
         {down', stray', held'} \subseteq SUBSET Keys, stray \subseteq stray',
         c.op \in {"press", "hold"} => KeysOf(c.keys) \subseteq stray',
         \A k \in down' : k \in stray' \/ Covers(c, k) \/ (k \in down /\ ~Covers(call[i], k))
  PROVE  CInv'
  <1>1. CallsOK' /\ \A j \in Calls : call'[j] = IF j = i THEN c ELSE call[j]
    BY BecomesKeeps DEF CInv
  <1>2. RepeatsTyped' /\ SetsTyped' /\ RepeatsAreStoppable'
    BY DEF CInv, repeatVars, RepeatsTyped, SetsTyped, RepeatsAreStoppable
  <1>3. StrayNoted'
    <2>1. \A j \in Calls : call'[j].op \in {"press", "hold"} => KeysOf(call'[j].keys) \subseteq stray'
      BY <1>1 DEF CInv, StrayNoted
    <2> QED
      BY <2>1 DEF CInv, StrayNoted, repeatVars
  <1>4. ASSUME NEW k \in down' PROVE k \in stray' \/ OfShortcut(k)'
    <2>1. CASE k \in stray' \/ Covers(c, k)
      <3>1. Covers(c, k) => Covers(call[i], k)'
        BY <1>1 DEF Covers
      <3> QED
        BY <2>1, <3>1 DEF OfShortcut
    <2>2. CASE k \in down /\ ~Covers(call[i], k) /\ k \notin stray'
      <3>1. PICK j \in Calls : Covers(call[j], k)
        BY <2>2 DEF CInv, DownAccounted, OfShortcut
      <3>2. call'[j] = call[j]
        BY <1>1, <2>2, <3>1
      <3>3. Covers(call[j], k)'
        BY <3>1, <3>2 DEF Covers
      <3> QED
        BY <3>3 DEF OfShortcut
    <2> QED
      BY <2>1, <2>2
  <1> QED
    BY <1>1, <1>2, <1>3, <1>4 DEF CInv, DownAccounted

\* The keys of a call of the invariant.
LEMMA OfCInv ==
  ASSUME CInv, NEW i \in Calls
  PROVE  /\ WellFormed(call[i])
         /\ call[i].op \in {"press", "hold"} => KeysOf(call[i].keys) \subseteq stray
         /\ {ticking, down, stray, held} \subseteq SUBSET Keys
  BY DEF CInv, CallsOK, StrayNoted, SetsTyped

LEMMA PressKeysKeeps ==
  ASSUME CInv, NEW i \in Calls, NEW s \in Inputs, PressKeys(i, s)
  PROVE  CInv'
  <1> DEFINE c == [op |-> "press", keys |-> Ordered(s), phase |-> "pressing", n |-> 0]
  <1>1. /\ Ordered(s) \in Inputs /\ KeysOf(Ordered(s)) = KeysOf(s) /\ KeysOf(s) \subseteq Keys
        /\ ModifiersFirst(Ordered(s))
    BY SortProperties, InputsAreShort
  <1>2. Start(i, "press", Ordered(s), "pressing")
    BY DEF PressKeys
  <1>3. CallsOK
    BY DEF CInv
  <1>4. Becomes(i, c)
    BY <1>1, <1>2, <1>3, StartBecomes
  <1>5. stray' = stray \cup KeysOf(s) /\ UNCHANGED <<repeatVars, ticking, down, held>>
    BY DEF PressKeys
  <1>6. call[i].op = "none"
    BY <1>2 DEF Start, Free
  <1>7. \A k : ~Covers(call[i], k)
    BY <1>6 DEF Covers
  <1>8. c.op = "press" /\ KeysOf(c.keys) = KeysOf(s)
    BY <1>1
  <1> HIDE DEF c
  <1> QED
    BY <1>1, <1>4, <1>5, <1>7, <1>8, OfCInv, CallOnlyKeeps

LEMMA ShortcutKeeps ==
  ASSUME CInv, NEW i \in Calls, NEW s \in Inputs, Shortcut(i, s)
  PROVE  CInv'
  <1> DEFINE c == [op |-> "shortcut", keys |-> Ordered(s), phase |-> "pressing", n |-> 0]
  <1>1. Ordered(s) \in Inputs /\ ModifiersFirst(Ordered(s)) /\ Len(Ordered(s)) >= 2
    BY SortProperties, SortKeepsLength DEF Shortcut
  <1>2. Start(i, "shortcut", Ordered(s), "pressing") /\ UNCHANGED <<repeatVars, osVars, held>>
    BY DEF Shortcut
  <1>3. CallsOK
    BY DEF CInv
  <1>4. Becomes(i, c)
    BY <1>1, <1>2, <1>3, StartBecomes
  <1>5. call[i].op = "none"
    BY <1>2 DEF Start, Free
  <1>6. \A k : ~Covers(call[i], k)
    BY <1>5 DEF Covers
  <1>7. c.op = "shortcut"
    OBVIOUS
  <1> HIDE DEF c
  <1> QED
    BY <1>2, <1>4, <1>6, <1>7, OfCInv, CallOnlyKeeps DEF osVars

LEMMA HoldKeyKeeps ==
  ASSUME CInv, NEW i \in Calls, NEW k \in Keys, HoldKey(i, k)
  PROVE  CInv'
  <1> DEFINE c == [op |-> "hold", keys |-> <<k>>, phase |-> "pressing", n |-> 0]
  <1>1. <<k>> \in Inputs /\ KeysOf(<<k>>) = {k}
    BY SingleKey
  <1>2. /\ Start(i, "hold", <<k>>, "pressing")
        /\ stray' = stray \cup {k} /\ held' = held \cup {k}
        /\ UNCHANGED <<repeatVars, ticking, down>>
    BY DEF HoldKey
  <1>3. CallsOK
    BY DEF CInv
  <1>4. Becomes(i, c)
    BY <1>1, <1>2, <1>3, StartBecomes
  <1>5. call[i].op = "none"
    BY <1>2 DEF Start, Free
  <1>6. \A x : ~Covers(call[i], x)
    BY <1>5 DEF Covers
  <1>7. c.op = "hold" /\ KeysOf(c.keys) = {k}
    BY <1>1
  <1> HIDE DEF c
  <1> QED
    BY <1>2, <1>4, <1>6, <1>7, OfCInv, CallOnlyKeeps

\* A call that moves on.
Moved(i, phase, n) == [op |-> call[i].op, keys |-> call[i].keys, phase |-> phase, n |-> n]

LEMMA MoveKeeps ==
  ASSUME CInv, NEW i \in Calls, NEW phase, NEW n, Moves(call[i], phase, n),
         call' = [call EXCEPT ![i] = Moved(i, phase, n)],
         UNCHANGED <<repeatVars, ticking, stray, held>>,
         \A k \in down' : \/ k \in down /\ (Covers(call[i], k) => Covers(Moved(i, phase, n), k))
                          \/ k \in stray /\ k \in Keys
                          \/ k \in Keys /\ Covers(Moved(i, phase, n), k)
  PROVE  CInv'
  <1> DEFINE c == Moved(i, phase, n)
  <1>1. Becomes(i, c)
    BY OfCInv, MoveWellFormed DEF Becomes, Moved
  <1>2. c.op = call[i].op /\ c.keys = call[i].keys
    BY DEF Moved
  <1> HIDE DEF c
  <1>3. \A k \in down' : k \in stray \/ Covers(c, k) \/ (k \in down /\ ~Covers(call[i], k))
    BY DEF c
  <1>4. {down', stray', held'} \subseteq SUBSET Keys
    BY OfCInv
  <1> QED
    BY <1>1, <1>2, <1>3, <1>4, OfCInv, CallOnlyKeeps

LEMMA PressOneKeeps ==
  ASSUME CInv, NEW i \in Calls, PressOne(i) \/ StrikeOne(i)
  PROVE  CInv'
  <1> DEFINE c == call[i]
             key == c.keys[c.n + 1]
             new == Moved(i, "pressing", c.n + 1)
  <1>1. WellFormed(c) /\ c.phase = "pressing" /\ c.n < Len(c.keys)
    BY OfCInv DEF PressOne, StrikeOne
  <1>2. c.n \in 0..2 /\ Len(c.keys) \in 1..2 /\ key \in KeysOf(c.keys) /\ key \in Keys
    BY <1>1, UnderWay
  <1>3. call' = [call EXCEPT ![i] = new] /\ UNCHANGED <<repeatVars, ticking, stray, held>>
    <2>1. call' = [call EXCEPT ![i] = [c EXCEPT !.n = c.n + 1]]
      BY DEF PressOne, StrikeOne
    <2>2. [c EXCEPT !.n = c.n + 1] = Moved(i, c.phase, c.n + 1)
      BY <1>1, NewCount DEF Moved
    <2> QED
      BY <1>1, <2>1, <2>2 DEF PressOne, StrikeOne, osVars
  <1>4. Moves(c, "pressing", c.n + 1)
    BY <1>1 DEF Moves
  <1>5. down' = down \/ down' = down \cup {key}
    BY DEF PressOne, StrikeOne, osVars
  <1>6. new.op = c.op /\ new.keys = c.keys /\ new.n = c.n + 1
    BY DEF Moved
  <1>7. ASSUME NEW k, Covers(c, k) PROVE Covers(new, k)
    BY <1>2, <1>6, <1>7 DEF Covers
  <1>8. key \in stray \/ Covers(new, key)
    <2>1. CASE c.op \in {"press", "hold"}
      BY <1>2, <2>1, OfCInv
    <2>2. CASE c.op = "shortcut"
      <3>1. c.n + 1 \in 1..new.n
        BY <1>2, <1>6
      <3> QED
        BY <1>6, <2>2, <3>1 DEF Covers
    <2>3. c.op \in {"press", "hold", "shortcut"}
      BY <1>1 DEF WellFormed, CallType, Free
    <2> QED
      BY <2>1, <2>2, <2>3
  <1>9. \A k \in down' : \/ k \in down /\ (Covers(c, k) => Covers(new, k))
                         \/ k \in stray /\ k \in Keys
                         \/ k \in Keys /\ Covers(new, k)
    BY <1>2, <1>5, <1>7, <1>8
  <1> HIDE DEF key
  <1> QED
    BY <1>3, <1>4, <1>9, MoveKeeps

LEMMA PressedKeeps ==
  ASSUME CInv, NEW i \in Calls, NEW plain, Pressed(i, plain)
  PROVE  CInv'
  <1> DEFINE c == call[i]
  <1>1. /\ WellFormed(c) /\ c.phase = "pressing" /\ c.n = Len(c.keys)
        /\ UNCHANGED <<repeatVars, ticking, down, stray, held>>
    BY OfCInv DEF Pressed, osVars
  <1>2. CASE c.op = "press" \/ (c.op = "hold" /\ plain)
    <2>1. Becomes(i, Free) /\ Free.op = "none"
      BY <1>2, FreeWellFormed DEF Pressed, Becomes, Free
    <2>2. \A k : ~Covers(c, k)
      BY <1>2 DEF Covers
    <2> QED
      BY <1>1, <2>1, <2>2, OfCInv, CallOnlyKeeps
  <1>3. CASE ~(c.op = "press" \/ (c.op = "hold" /\ plain))
    <2> DEFINE new == Moved(i, "sleeping", c.n)
    <2>1. call' = [call EXCEPT ![i] = new]
      <3>1. [c EXCEPT !.phase = "sleeping"] = new
        BY <1>1, NewPhase DEF Moved
      <3> QED
        BY <1>3, <3>1 DEF Pressed
    <2>2. Moves(c, "sleeping", c.n)
      BY <1>1, <1>3 DEF Moves
    <2>3. \A k : Covers(c, k) => Covers(new, k)
      BY DEF Covers, Moved
    <2> QED
      BY <1>1, <2>1, <2>2, <2>3, MoveKeeps
  <1> QED
    BY <1>2, <1>3

LEMMA ShortcutHeldKeeps ==
  ASSUME CInv, NEW i \in Calls, ShortcutHeld(i)
  PROVE  CInv'
  <1> DEFINE c == call[i]
             new == Moved(i, "releasing", c.n)
  <1>1. /\ WellFormed(c) /\ c.phase = "sleeping" /\ c.op = "shortcut"
        /\ UNCHANGED <<repeatVars, ticking, down, stray, held>>
    BY OfCInv DEF ShortcutHeld, osVars
  <1>2. call' = [call EXCEPT ![i] = new]
    <2>1. [c EXCEPT !.phase = "releasing"] = new
      BY <1>1, NewPhase DEF Moved
    <2> QED
      BY <2>1 DEF ShortcutHeld
  <1>3. Moves(c, "releasing", c.n)
    BY <1>1 DEF Moves
  <1>4. \A k : Covers(c, k) => Covers(new, k)
    BY DEF Covers, Moved
  <1> QED
    BY <1>1, <1>2, <1>3, <1>4, MoveKeeps

LEMMA ReleaseOneKeeps ==
  ASSUME CInv, NEW i \in Calls, ReleaseOne(i)
  PROVE  CInv'
  <1> DEFINE c == call[i]
             key == c.keys[c.n]
  <1>1. /\ WellFormed(c) /\ c.phase = "releasing" /\ down' = down \ {key}
        /\ UNCHANGED <<repeatVars, ticking, stray, held>>
    BY OfCInv DEF ReleaseOne
  <1>2. c.n \in 0..2 /\ c.n >= 1
    BY <1>1, UnderWay DEF WellFormed
  <1>3. CASE c.n = 1
    <2>1. Becomes(i, Free) /\ Free.op = "none"
      BY <1>3, FreeWellFormed DEF ReleaseOne, Becomes, Free
    <2>2. \A k \in down' : ~Covers(c, k)
      BY <1>1, <1>3 DEF Covers
    <2> QED
      BY <1>1, <2>1, <2>2, OfCInv, CallOnlyKeeps
  <1>4. CASE c.n # 1
    <2> DEFINE new == Moved(i, "releasing", c.n - 1)
    <2>1. call' = [call EXCEPT ![i] = new]
      <3>1. [c EXCEPT !.n = c.n - 1] = Moved(i, c.phase, c.n - 1)
        BY <1>1, NewCount DEF Moved
      <3> QED
        BY <1>1, <1>4, <3>1 DEF ReleaseOne
    <2>2. Moves(c, "releasing", c.n - 1)
      BY <1>1, <1>4 DEF Moves
    <2>3. new.op = c.op /\ new.keys = c.keys /\ new.n = c.n - 1
      BY DEF Moved
    \* What is still down of it is one of the keys before the last.
    <2>4. ASSUME NEW k \in down', Covers(c, k) PROVE Covers(new, k)
      <3>1. PICK j \in 1..c.n : c.keys[j] = k
        BY <2>4 DEF Covers
      <3>2. j # c.n
        BY <1>1, <3>1
      <3>3. j \in 1..new.n
        BY <1>2, <2>3, <3>1, <3>2
      <3> QED
        BY <2>3, <2>4, <3>1, <3>3 DEF Covers
    <2>5. \A k \in down' : k \in down /\ (Covers(c, k) => Covers(new, k))
      BY <1>1, <2>4
    <2> HIDE DEF new, key
    <2> QED
      BY <1>1, <2>1, <2>2, <2>5, MoveKeeps DEF new
  <1> QED
    BY <1>3, <1>4

LEMMA ProviderThrowsKeeps ==
  ASSUME CInv, NEW i \in Calls, ProviderThrows(i)
  PROVE  CInv'
  <1> DEFINE c == call[i]
  <1>1. /\ WellFormed(c) /\ c.phase # "free" /\ stray' = stray \cup {c.keys[j] : j \in 1..c.n}
        /\ UNCHANGED <<repeatVars, ticking, down, held>>
    BY OfCInv DEF ProviderThrows
  <1>2. Becomes(i, Free) /\ Free.op = "none"
    BY FreeWellFormed DEF ProviderThrows, Becomes, Free
  <1>3. KeysOf(c.keys) \subseteq Keys /\ c.n \in 0..2 /\ Len(c.keys) \in 1..2
    BY <1>1, UnderWay
  <1>4. {c.keys[j] : j \in 1..c.n} \subseteq KeysOf(c.keys)
    <2>1. c.n <= Len(c.keys)
      BY <1>1 DEF WellFormed
    <2> QED
      BY <1>3, <2>1 DEF KeysOf
  <1>5. \A k \in down' : k \in stray' \/ (k \in down /\ ~Covers(c, k))
    BY <1>1 DEF Covers
  <1> QED
    BY <1>1, <1>2, <1>3, <1>4, <1>5, OfCInv, CallOnlyKeeps

\* A release ends the interval of its key and of no other.
LEMMA ReleaseKeyKeeps ==
  ASSUME CInv, NEW i \in Calls, NEW k \in Keys, ReleaseKey(i, k)
  PROVE  CInv'
  <1> USE NoneAssumption
  <1> DEFINE c == [op |-> "release", keys |-> <<k>>, phase |-> "releasing", n |-> Len(<<k>>)]
  <1>1. <<k>> \in Inputs
    BY SingleKey
  <1>2. /\ Start(i, "release", <<k>>, "releasing")
        /\ activeRepeats' = [activeRepeats EXCEPT ![k] = None]
        /\ held' = held \ {k}
        /\ UNCHANGED osVars
    BY DEF ReleaseKey
  <1>3. CallsOK
    BY DEF CInv
  <1>4. Becomes(i, c)
    BY <1>1, <1>2, <1>3, StartBecomes
  <1>5. CallsOK' /\ \A j \in Calls : call'[j] = IF j = i THEN c ELSE call[j]
    BY <1>3, <1>4, BecomesKeeps
  <1>6. c.op = "release" /\ call[i].op = "none"
    BY <1>2 DEF Start, Free
  <1>7. SetsTyped'
    BY <1>2, OfCInv DEF SetsTyped, osVars
  <1>8. RepeatsTyped' /\ RepeatsAreStoppable' /\ \A t \in Timers : interval'[t] \in {interval[t], None}
    <2>1. CASE activeRepeats[k] = None
      <3>1. interval' = interval
        BY <2>1 DEF ReleaseKey
      <3> QED
        BY <1>2, <3>1 DEF CInv, RepeatsTyped, RepeatsAreStoppable
    <2>2. CASE activeRepeats[k] # None
      <3>1. interval' = [interval EXCEPT ![activeRepeats[k]] = None]
        BY <2>2 DEF ReleaseKey
      <3>2. interval[activeRepeats[k]] = k
        BY <2>2 DEF CInv, RepeatsAreStoppable
      <3>3. RepeatsTyped'
        BY <1>2, <3>1 DEF CInv, RepeatsTyped
      \* An interval remembered for another key is another interval.
      <3>4. ASSUME NEW x \in Keys, activeRepeats'[x] # None
            PROVE  interval'[activeRepeats'[x]] = x
        <4>1. x # k /\ activeRepeats'[x] = activeRepeats[x]
          BY <1>2, <3>4 DEF CInv, RepeatsTyped
        <4>2. interval[activeRepeats[x]] = x /\ activeRepeats[x] \in Timers
          BY <3>4, <4>1 DEF CInv, RepeatsTyped, RepeatsAreStoppable
        <4>3. activeRepeats[x] # activeRepeats[k]
          BY <3>2, <4>1, <4>2
        <4> QED
          BY <3>1, <4>1, <4>2, <4>3 DEF CInv, RepeatsTyped
      <3>5. \A t \in Timers : interval'[t] \in {interval[t], None}
        BY <3>1 DEF CInv, RepeatsTyped
      <3> QED
        BY <3>3, <3>4, <3>5 DEF RepeatsAreStoppable
    <2> QED
      BY <2>1, <2>2
  <1>9. StrayNoted'
    <2>1. \A j \in Calls : call'[j].op \in {"press", "hold"} => KeysOf(call'[j].keys) \subseteq stray
      BY <1>5, <1>6, OfCInv
    <2> QED
      BY <1>2, <1>8, <2>1 DEF CInv, StrayNoted, osVars
  <1>10. ASSUME NEW x \in down' PROVE x \in stray' \/ OfShortcut(x)'
    <2>1. CASE x \in stray
      BY <1>2, <2>1 DEF osVars
    <2>2. CASE x \notin stray
      <3>1. PICK j \in Calls : Covers(call[j], x)
        BY <1>2, <2>2 DEF CInv, DownAccounted, OfShortcut, osVars
      <3>2. call'[j] = call[j]
        BY <1>5, <1>6, <3>1 DEF Covers
      <3>3. Covers(call[j], x)'
        BY <3>1, <3>2 DEF Covers
      <3> QED
        BY <3>3 DEF OfShortcut
    <2> QED
      BY <2>1, <2>2
  <1> QED
    BY <1>5, <1>7, <1>8, <1>9, <1>10 DEF CInv, DownAccounted

\* The interval that is armed was not live, so nothing remembered it.
LEMMA ArmRepeatKeeps ==
  ASSUME CInv, NEW i \in Calls, NEW t \in Timers, ArmRepeat(i, t)
  PROVE  CInv'
  <1> USE NoneAssumption
  <1> DEFINE k == call[i].keys[1]
  <1>1. WellFormed(call[i]) /\ call[i].op = "hold" /\ KeysOf(call[i].keys) \subseteq stray
    BY OfCInv DEF ArmRepeat
  <1>2. k \in KeysOf(call[i].keys) /\ k \in Keys
    BY <1>1, UnderWay
  <1>3. k \in stray
    BY <1>1, <1>2
  <1> HIDE DEF k
  <1>4. /\ interval[t] = None
        /\ interval' = [interval EXCEPT ![t] = k]
        /\ activeRepeats' = [activeRepeats EXCEPT ![k] = t]
        /\ UNCHANGED <<osVars, held>>
    BY DEF ArmRepeat, k
  <1>5. Becomes(i, Free) /\ Free.op = "none"
    BY FreeWellFormed DEF ArmRepeat, Becomes, Free
  <1>6. CallsOK' /\ \A j \in Calls : call'[j] = IF j = i THEN Free ELSE call[j]
    BY <1>5, BecomesKeeps DEF CInv
  <1>7. RepeatsTyped' /\ SetsTyped'
    BY <1>2, <1>4 DEF CInv, RepeatsTyped, SetsTyped, osVars
  <1>8. ASSUME NEW x \in Keys, activeRepeats'[x] # None
        PROVE  interval'[activeRepeats'[x]] = x
    BY <1>2, <1>4, <1>8 DEF CInv, RepeatsTyped, RepeatsAreStoppable
  <1>9. StrayNoted'
    <2>1. \A j \in Calls : call'[j].op \in {"press", "hold"} => KeysOf(call'[j].keys) \subseteq stray
      BY <1>5, <1>6, OfCInv
    <2>2. \A u \in Timers : interval'[u] # None => interval'[u] \in stray
      BY <1>3, <1>4 DEF CInv, StrayNoted, RepeatsTyped
    <2> QED
      BY <1>4, <2>1, <2>2 DEF CInv, StrayNoted, osVars
  <1>10. ASSUME NEW x \in down' PROVE x \in stray' \/ OfShortcut(x)'
    <2>1. CASE x \in stray
      BY <1>4, <2>1 DEF osVars
    <2>2. CASE x \notin stray
      <3>1. PICK j \in Calls : Covers(call[j], x)
        BY <1>4, <2>2 DEF CInv, DownAccounted, OfShortcut, osVars
      <3>2. call'[j] = call[j]
        BY <1>1, <1>6, <3>1 DEF Covers
      <3>3. Covers(call[j], x)'
        BY <3>1, <3>2 DEF Covers
      <3> QED
        BY <3>3 DEF OfShortcut
    <2> QED
      BY <2>1, <2>2
  <1> QED
    BY <1>6, <1>7, <1>8, <1>9, <1>10 DEF CInv, DownAccounted, RepeatsAreStoppable

\* The presses of an interval, which are noted already.
LEMMA TickKeeps ==
  ASSUME CInv,
         \/ \E t \in Timers : Tick(t)
         \/ \E k \in Keys, presses \in BOOLEAN : TickEnds(k, presses)
  PROVE  CInv'
  <1>1. UNCHANGED <<call, repeatVars, stray, held>>
    BY DEF Tick, TickEnds
  <1>2. ticking' \subseteq stray
    BY DEF CInv, StrayNoted, Tick, TickEnds
  <1>3. \A k \in down' : k \in down \/ k \in stray
    BY DEF CInv, StrayNoted, Tick, TickEnds
  <1>4. SetsTyped'
    BY <1>1, <1>2, <1>3 DEF CInv, SetsTyped
  <1>5. CallsOK' /\ RepeatsTyped' /\ RepeatsAreStoppable' /\ StrayNoted'
    BY <1>1, <1>2 DEF CInv, CallsOK, RepeatsTyped, RepeatsAreStoppable, StrayNoted, repeatVars
  <1>6. DownAccounted'
    BY <1>1, <1>3 DEF CInv, DownAccounted, OfShortcut, Covers
  <1> QED
    BY <1>4, <1>5, <1>6 DEF CInv

\* A step of the controller, on a provider that leaves its keys down or strikes them.
ControllerNext == Next \/ \E i \in Calls : StrikeOne(i)

LEMMA ControllerKeeps == CInv /\ [ControllerNext]_vars => CInv'
  <1> SUFFICES ASSUME CInv, [ControllerNext]_vars PROVE CInv'
    OBVIOUS
  <1>1. CASE UNCHANGED vars
    BY <1>1 DEF vars, repeatVars, osVars, CInv, CallsOK, RepeatsTyped, SetsTyped,
                RepeatsAreStoppable, StrayNoted, DownAccounted, OfShortcut, Covers
  <1>2. ASSUME NEW i \in Calls, NEW s \in Inputs, PressKeys(i, s) \/ Shortcut(i, s) PROVE CInv'
    BY <1>2, PressKeysKeeps, ShortcutKeeps
  <1>3. ASSUME NEW i \in Calls, NEW k \in Keys, HoldKey(i, k) \/ ReleaseKey(i, k) PROVE CInv'
    BY <1>3, HoldKeyKeeps, ReleaseKeyKeeps
  <1>4. ASSUME NEW i \in Calls, NEW plain \in BOOLEAN, Pressed(i, plain) PROVE CInv'
    BY <1>4, PressedKeeps
  <1>5. ASSUME NEW i \in Calls, NEW t \in Timers, ArmRepeat(i, t) PROVE CInv'
    BY <1>5, ArmRepeatKeeps
  <1>6. ASSUME NEW i \in Calls, PressOne(i) \/ StrikeOne(i) PROVE CInv'
    BY <1>6, PressOneKeeps
  <1>7. ASSUME NEW i \in Calls, ShortcutHeld(i) \/ ReleaseOne(i) \/ ProviderThrows(i) PROVE CInv'
    BY <1>7, ShortcutHeldKeeps, ReleaseOneKeeps, ProviderThrowsKeeps
  <1>8. CASE \/ \E t \in Timers : Tick(t)
             \/ \E k \in Keys, presses \in BOOLEAN : TickEnds(k, presses)
    BY <1>8, TickKeeps
  <1> QED
    BY <1>1, <1>2, <1>3, <1>4, <1>5, <1>6, <1>7, <1>8 DEF ControllerNext, Next

\* The keys of a combination that is left alone stay down: whatever the other calls do.
LEMMA PressedStaysKept == CInv /\ PressedStays /\ [ControllerNext]_vars => PressedStays'
  <1> SUFFICES ASSUME CInv, PressedStays, [ControllerNext]_vars PROVE PressedStays'
    OBVIOUS
  <1>0. \A i \in Calls : WellFormed(call[i]) /\ call[i].n \in 0..2
    BY OfCInv DEF WellFormed, CallType
  <1>1. ASSUME UNCHANGED <<call, robbed>>, down \subseteq down' PROVE PressedStays'
    BY <1>1 DEF PressedStays, Combination
  \* A call that starts has pressed nothing.
  <1>2. ASSUME NEW i \in Calls, NEW op, NEW keys, NEW phase, Start(i, op, keys, phase),
               op \in {"press", "shortcut"} => phase = "pressing", UNCHANGED <<down, robbed>>
        PROVE  PressedStays'
    <2> DEFINE c == [op |-> op, keys |-> keys, phase |-> phase,
                     n |-> IF phase = "releasing" THEN Len(keys) ELSE 0]
    <2>1. \A j \in Calls : call'[j] = IF j = i THEN c ELSE call[j]
      BY <1>2 DEF Start, CInv, CallsOK
    <2>2. c.op \in {"press", "shortcut"} => c.n = 0
      BY <1>2
    <2> HIDE DEF c
    <2> QED
      BY <1>2, <2>1, <2>2 DEF PressedStays, Combination
  \* A call that ends.
  <1>3. ASSUME NEW i \in Calls, call' = [call EXCEPT ![i] = Free], robbed' = robbed \ {i}, down' = down
        PROVE  PressedStays'
    <2>1. \A j \in Calls : call'[j] = IF j = i THEN Free ELSE call[j]
      BY <1>3 DEF CInv, CallsOK
    <2>2. Free.op = "none"
      BY DEF Free
    <2> QED
      BY <1>3, <2>1, <2>2 DEF PressedStays, Combination
  \* One that changes its phase.
  <1>4. ASSUME NEW i \in Calls, NEW phase, call' = [call EXCEPT ![i].phase = phase], UNCHANGED <<down, robbed>>
        PROVE  PressedStays'
    <2>1. \A j \in Calls : /\ call'[j].op = call[j].op /\ call'[j].keys = call[j].keys
                           /\ call'[j].n = call[j].n
      BY <1>0, <1>4 DEF CInv, CallsOK, WellFormed, CallType
    <2> QED
      BY <1>4, <2>1 DEF PressedStays, Combination
  <1>5. ASSUME NEW i \in Calls, PressOne(i) \/ StrikeOne(i) PROVE PressedStays'
    <2>1. /\ call' = [call EXCEPT ![i].n = call[i].n + 1]
          /\ \/ down' = down \cup {call[i].keys[call[i].n + 1]} /\ robbed' = robbed
             \/ down' = down /\ robbed' = IF Combination(i) THEN robbed \cup {i} ELSE robbed
      BY <1>5 DEF PressOne, StrikeOne, osVars
    <2>2. \A j \in Calls : /\ call'[j].op = call[j].op /\ call'[j].keys = call[j].keys
                           /\ call'[j].n = IF j = i THEN call[i].n + 1 ELSE call[j].n
      BY <1>0, <2>1 DEF CInv, CallsOK, WellFormed, CallType
    <2>3. robbed' \subseteq Calls
      BY <2>1 DEF PressedStays
    <2>4. ASSUME NEW x \in Calls \ robbed', Combination(x)', NEW j \in 1..call'[x].n
          PROVE  call'[x].keys[j] \in down'
      <3>1. x \notin robbed /\ Combination(x)
        BY <2>1, <2>2, <2>4 DEF Combination
      <3>2. CASE j \in 1..call[x].n
        BY <2>1, <2>2, <3>1, <3>2 DEF PressedStays
      <3>3. CASE j \notin 1..call[x].n
        <4>1. x = i /\ j = call[i].n + 1
          BY <1>0, <2>2, <2>4, <3>3
        <4>2. down' = down \cup {call[i].keys[call[i].n + 1]}
          BY <2>1, <2>4, <3>1, <4>1
        <4> QED
          BY <2>2, <4>1, <4>2
      <3> QED
        BY <3>2, <3>3
    <2> QED
      BY <2>3, <2>4 DEF PressedStays
  <1>6. ASSUME NEW i \in Calls, ReleaseOne(i) PROVE PressedStays'
    <2> DEFINE c == call[i]
               key == c.keys[c.n]
    <2>1. /\ c.phase = "releasing"
          /\ call' = [call EXCEPT ![i] = IF c.n = 1 THEN Free ELSE [c EXCEPT !.n = c.n - 1]]
          /\ down' = down \ {key}
          /\ robbed' = (IF c.n = 1 THEN robbed \ {i} ELSE robbed) \cup (Having(key) \ {i})
      BY <1>6 DEF ReleaseOne
    <2>2. /\ \A x \in Calls \ {i} : call'[x] = call[x]
          /\ c.n = 1 => call'[i].op = "none"
          /\ c.n # 1 => call'[i].op = c.op /\ call'[i].keys = c.keys /\ call'[i].n = c.n - 1
      BY <1>0, <2>1 DEF CInv, CallsOK, WellFormed, CallType, Free
    <2>3. robbed' \subseteq Calls
      BY <2>1 DEF PressedStays, Having
    <2>4. ASSUME NEW x \in Calls \ robbed', Combination(x)', NEW j \in 1..call'[x].n
          PROVE  call'[x].keys[j] \in down'
      <3>1. CASE x # i
        <4>1. call'[x] = call[x] /\ Combination(x) /\ x \notin robbed /\ x \notin Having(key)
          BY <2>1, <2>2, <2>4, <3>1 DEF Combination
        <4>2. call[x].keys[j] \in down /\ call[x].keys[j] # key
          BY <2>4, <4>1 DEF PressedStays, Having
        <4> QED
          BY <2>1, <4>1, <4>2
      <3>2. CASE x = i
        <4>1. c.n # 1 /\ Combination(i) /\ i \notin robbed
          BY <2>1, <2>2, <2>4, <3>2 DEF Combination
        <4>2. c.n \in 0..2 /\ c.n >= 1 /\ c.n <= Len(c.keys) /\ c.keys \in Inputs /\ Len(c.keys) \in 1..2
          BY <1>0, <2>1, UnderWay DEF WellFormed
        <4>3. j \in 1..c.n - 1 /\ j \in 1..c.n /\ call'[i].keys[j] = c.keys[j]
          BY <2>2, <2>4, <3>2, <4>1, <4>2
        <4>4. c.keys[j] # key
          <5>1. PICK m \in 1..2 : /\ c.keys \in [1..m -> Keys]
                                  /\ \A a, b \in 1..m : c.keys[a] = c.keys[b] => a = b
            BY <4>2 DEF Inputs
          <5>2. m = Len(c.keys)
            BY <5>1
          <5>3. j \in 1..m /\ c.n \in 1..m /\ j # c.n
            BY <4>2, <4>3, <5>2
          <5> QED
            BY <5>1, <5>3
        <4>5. c.keys[j] \in down
          BY <4>1, <4>3 DEF PressedStays
        <4> QED
          BY <2>1, <3>2, <4>3, <4>4, <4>5
      <3> QED
        BY <3>1, <3>2
    <2> QED
      BY <2>3, <2>4 DEF PressedStays
  <1>7. ASSUME NEW i \in Calls, NEW s \in Inputs, PressKeys(i, s) \/ Shortcut(i, s) PROVE PressedStays'
    <2>1. PICK op : Start(i, op, Ordered(s), "pressing") /\ UNCHANGED <<down, robbed>>
      BY <1>7 DEF PressKeys, Shortcut, osVars
    <2> QED
      BY <1>2, <2>1
  <1>8. ASSUME NEW i \in Calls, NEW k \in Keys, HoldKey(i, k) \/ ReleaseKey(i, k) PROVE PressedStays'
    <2>1. \/ Start(i, "hold", <<k>>, "pressing") /\ UNCHANGED <<down, robbed>>
          \/ Start(i, "release", <<k>>, "releasing") /\ UNCHANGED <<down, robbed>>
      BY <1>8 DEF HoldKey, ReleaseKey, osVars
    <2> QED
      BY <1>2, <2>1
  <1>9. ASSUME NEW i \in Calls, NEW plain, Pressed(i, plain) PROVE PressedStays'
    <2> DEFINE done == call[i].op = "press" \/ (call[i].op = "hold" /\ plain)
    <2>1. /\ call' = [call EXCEPT ![i] = IF done THEN Free ELSE [call[i] EXCEPT !.phase = "sleeping"]]
          /\ robbed' = IF done THEN robbed \ {i} ELSE robbed
          /\ down' = down
      BY <1>9 DEF Pressed, osVars
    <2>2. CASE done
      BY <1>3, <2>1, <2>2
    <2>3. CASE ~done
      <3>1. call' = [call EXCEPT ![i].phase = "sleeping"] /\ UNCHANGED <<down, robbed>>
        BY <2>1, <2>3
      <3> QED
        BY <1>4, <3>1
    <2> QED
      BY <2>2, <2>3
  <1>10. ASSUME NEW i \in Calls, NEW t \in Timers, ArmRepeat(i, t) PROVE PressedStays'
    <2>1. /\ call[i].op = "hold" /\ call' = [call EXCEPT ![i] = Free] /\ UNCHANGED <<down, robbed>>
      BY <1>10 DEF ArmRepeat, osVars
    <2>2. \A j \in Calls : call'[j] = IF j = i THEN Free ELSE call[j]
      BY <2>1 DEF CInv, CallsOK
    <2>3. Free.op = "none"
      BY DEF Free
    <2> QED
      BY <2>1, <2>2, <2>3 DEF PressedStays, Combination
  <1>11. ASSUME NEW i \in Calls, ShortcutHeld(i) PROVE PressedStays'
    BY <1>4, <1>11 DEF ShortcutHeld, osVars
  <1>12. ASSUME NEW i \in Calls, ProviderThrows(i) PROVE PressedStays'
    BY <1>3, <1>12 DEF ProviderThrows
  <1>13. CASE \/ \E t \in Timers : Tick(t)
              \/ \E k \in Keys, presses \in BOOLEAN : TickEnds(k, presses)
              \/ UNCHANGED vars
    <2>1. UNCHANGED <<call, robbed>> /\ down \subseteq down'
      BY <1>13 DEF Tick, TickEnds, vars, osVars
    <2> QED
      BY <1>1, <2>1
  <1> QED
    BY <1>5, <1>6, <1>7, <1>8, <1>9, <1>10, <1>11, <1>12, <1>13 DEF ControllerNext, Next

\* The type of the controller and its three properties.
LEMMA CInvImplies ==
  CInv /\ PressedStays => TypeOK /\ RepeatsAreStoppable /\ ModifiersLast /\ ShortcutsLetGo
  <1> SUFFICES ASSUME CInv, PressedStays
               PROVE  TypeOK /\ RepeatsAreStoppable /\ ModifiersLast /\ ShortcutsLetGo
    OBVIOUS
  <1>1. TypeOK
    BY DEF TypeOK, CInv, CallsOK, WellFormed, RepeatsTyped, SetsTyped, PressedStays
  <1>2. ASSUME NEW i \in Calls \ robbed, Combination(i),
               NEW j \in 1..call[i].n, call[i].keys[j] \notin Modifiers
        PROVE  KeysOf(call[i].keys) \cap Modifiers \subseteq down
    <2> DEFINE s == call[i].keys
    <2>1. call[i].op \in {"press", "shortcut"}
      BY <1>2 DEF Combination
    <2>2. ModifiersFirst(s) /\ call[i].n \in 0..2 /\ Len(s) \in 1..2 /\ call[i].n <= Len(s)
      BY <2>1, OfCInv, UnderWay DEF WellFormed
    <2>3. ASSUME NEW k \in KeysOf(s), k \in Modifiers PROVE \E m \in 1..call[i].n : s[m] = k
      <3>1. PICK m \in 1..Len(s) : s[m] = k
        BY <2>3 DEF KeysOf
      <3>2. ~(j < m)
        BY <1>2, <2>2, <2>3, <3>1 DEF ModifiersFirst
      <3> QED
        BY <2>2, <3>1, <3>2
    <2>4. \A m \in 1..call[i].n : s[m] \in down
      BY <1>2 DEF PressedStays
    <2> QED
      BY <2>3, <2>4
  <1>3. ModifiersLast
    BY <1>2 DEF ModifiersLast
  <1>4. ASSUME \A i \in Calls : call[i] = Free PROVE down \subseteq stray
    <2>1. \A i \in Calls : call[i].op # "shortcut"
      BY <1>4 DEF Free
    <2> QED
      BY <2>1 DEF CInv, DownAccounted, OfShortcut, Covers
  <1> QED
    BY <1>1, <1>3, <1>4 DEF CInv, ShortcutsLetGo

-----------------------------------------------------------------------------
(* The text of the screen.                                                 *)

\* To drop the last character of a text is to drop it from what follows any other text.
LEMMA FrontOfConcat ==
  ASSUME NEW S, NEW g \in Seq(S), NEW f \in Seq(S), f # <<>>
  PROVE  /\ Front(f) \in Seq(S)
         /\ Front(g \o f) = g \o Front(f)
  <1>1. PICK h \in Seq(S), c \in S : f = Append(h, c)
    BY SequenceEmptyOrAppend
  <1>2. ASSUME NEW s \in Seq(S) PROVE Front(Append(s, c)) = s
    <2>1. /\ Append(s, c) = s \o <<c>> /\ Len(Append(s, c)) = Len(s) + 1 /\ <<c>> \in Seq(S)
          /\ Len(s) \in Nat
      BY AppendIsConcat, AppendProperties, LenProperties
    <2>2. Front(Append(s, c)) = SubSeq(Append(s, c), 1, Len(s))
      BY <2>1 DEF Front
    <2>3. \A i \in 1..Len(s) : Append(s, c)[i] = s[i] /\ s[i] \in S
      BY AppendProperties, ElementOfSeq
    <2>4. SubSeq(Append(s, c), 1, Len(s)) = s
      <3> DEFINE a == Append(s, c)
                 m == Len(s)
      <3>1. \A i \in 1..m : a[i] \in S
        BY <2>3
      <3> HIDE DEF a, m
      <3>2. m \in Nat
        BY <2>1 DEF m
      <3>3. /\ SubSeq(a, 1, m) \in Seq(S)
            /\ Len(SubSeq(a, 1, m)) = IF 1 <= m THEN m - 1 + 1 ELSE 0
            /\ \A i \in 1..(m - 1 + 1) : SubSeq(a, 1, m)[i] = a[1 + i - 1]
        BY <3>1, <3>2, SubSeqProperties
      <3>4. Len(SubSeq(a, 1, m)) = m
        BY <3>2, <3>3
      <3>5. \A i \in 1..m : SubSeq(a, 1, m)[i] = s[i]
        BY <2>3, <3>2, <3>3 DEF a, m
      <3> QED
        BY <3>3, <3>4, <3>5, SeqEqual DEF a, m
    <2> QED
      BY <2>2, <2>4
  <1>3. g \o f = Append(g \o h, c) /\ g \o h \in Seq(S)
    <2>1. g \o h \in Seq(S) /\ <<c>> \in Seq(S) /\ f = h \o <<c>>
      BY <1>1, ConcatProperties, AppendIsConcat
    <2>2. g \o f = (g \o h) \o <<c>>
      BY <2>1, ConcatAssociative
    <2> QED
      BY <2>1, <2>2, AppendIsConcat
  <1>4. Front(f) = h /\ Front(g \o f) = g \o h
    BY <1>1, <1>2, <1>3
  <1> QED
    BY <1>4

\* And to add one.
LEMMA ConcatAppend ==
  ASSUME NEW S, NEW g \in Seq(S), NEW f \in Seq(S), NEW c \in S
  PROVE  g \o Append(f, c) = Append(g \o f, c)
  <1>1. Append(f, c) = f \o <<c>> /\ <<c>> \in Seq(S) /\ g \o f \in Seq(S)
    BY AppendIsConcat, ConcatProperties
  <1>2. g \o (f \o <<c>>) = (g \o f) \o <<c>>
    BY <1>1, ConcatAssociative
  <1> QED
    BY <1>1, <1>2, AppendIsConcat

\* The last report stays the last when an earlier one is handled.
LEMMA LastOfTail ==
  ASSUME NEW S, NEW r \in Seq(S), r # <<>>
  PROVE  /\ Tail(r) \in Seq(S) /\ Head(r) \in S
         /\ Tail(r) = <<>> => Head(r) = r[Len(r)]
         /\ Tail(r) # <<>> => Tail(r)[Len(Tail(r))] = r[Len(r)]
  <1>1. /\ Tail(r) \in Seq(S) /\ Head(r) \in S /\ Len(Tail(r)) = Len(r) - 1
        /\ \A i \in 1..Len(Tail(r)) : Tail(r)[i] = r[i + 1]
    BY HeadTailProperties
  <1>2. Len(r) \in Nat \ {0} /\ Len(<<>>) = 0
    BY EmptySeq
  <1>3. Tail(r) # <<>> => Len(Tail(r)) \in Nat \ {0}
    BY <1>1, EmptySeq
  <1>4. Tail(r) = <<>> => Head(r) = r[Len(r)]
    <2>1. Tail(r) = <<>> => Len(r) = 1
      BY <1>1, <1>2
    <2> QED
      BY <2>1
  <1>5. Tail(r) # <<>> => Tail(r)[Len(Tail(r))] = r[Len(r)]
    <2> DEFINE n == Len(Tail(r))
    <2>1. Tail(r) # <<>> => n \in 1..n
      BY <1>3
    <2>2. n + 1 = Len(r)
      BY <1>1, <1>2
    <2> QED
      BY <1>1, <2>1, <2>2
  <1> QED
    BY <1>1, <1>4, <1>5

-----------------------------------------------------------------------------
(* The invariant of the screen.                                            *)

\* What a screen hands to the socket.
ScreenFrames ==
  {Frame("TextInput", size, <<>>) : size \in {"small", "large"}}
    \cup {Frame("KeyPress", "small", <<name>>) : name \in GridKeys}
    \cup {Frame("Shortcut", "small", <<"Shift", name>>) : name \in GridKeys}
    \cup {Frame("Shortcut", "small", <<name>>) : name \in StripKeys \cup {"Backspace"}}
    \cup {Frame("MediaKey", "small", <<name>>) : name \in MediaButtons}

ScreenTyped ==
  /\ field \in Typed /\ buffer \in Typed /\ wanted \in Typed /\ given \in Typed
  /\ reports \in Seq(Typed)
  /\ shifted \in BOOLEAN /\ seen \in BOOLEAN /\ hurried \in BOOLEAN
  /\ link \in {"connected", "authenticated", "down"}
  /\ outbox \in Seq(ScreenFrames) /\ Len(outbox) <= MaxFrames

\* Until an edit meets a text that is being sent, nothing typed is lost or doubled; the
\* screen's copy is the field's text, or will be once the last report is handled.
TextKept ==
  ~hurried => /\ given \o field = wanted
              /\ reports = <<>> => field = buffer
              /\ reports # <<>> => reports[Len(reports)] = field

SInv == ScreenTyped /\ TextKept

LEMMA ScreenInitSInv == ScreenInit => SInv
  <1> SUFFICES ASSUME ScreenInit PROVE SInv
    OBVIOUS
  <1>1. \A S : <<>> \in Seq(S) /\ Len(<<>>) = 0
    BY EmptySeq
  <1>2. <<>> \o <<>> = <<>>
    BY ConcatEmptySeq, <1>1
  <1>3. Len(outbox) <= MaxFrames
    BY <1>1, BoundsAssumption DEF ScreenInit
  <1>4. ScreenTyped
    BY <1>1, <1>3 DEF ScreenInit, ScreenTyped, Typed
  <1>5. TextKept
    BY <1>2 DEF ScreenInit, TextKept
  <1> QED
    BY <1>4, <1>5 DEF SInv

\* Frames that are sent are queued, or lost.
LEMMA SendsKeeps ==
  ASSUME ScreenTyped, NEW frames \in Seq(ScreenFrames), Sends(frames)
  PROVE  /\ outbox' \in Seq(ScreenFrames) /\ Len(outbox') <= MaxFrames
         /\ link' \in {"connected", "authenticated", "down"}
  <1>1. /\ outbox \o frames \in Seq(ScreenFrames)
        /\ Len(outbox \o frames) = Len(outbox) + Len(frames)
    BY ConcatProperties DEF ScreenTyped
  <1> QED
    BY <1>1 DEF Sends, ScreenTyped

LEMMA TextInputFrames ==
  ASSUME NEW text, NEW tap \in Seq(ScreenFrames)
  PROVE  TextInput(text) \in Seq(ScreenFrames) /\ TextInput(text) \o tap \in Seq(ScreenFrames)
  <1>1. SizeOf(text) \in {"small", "large"}
    BY DEF SizeOf
  <1>2. Frame("TextInput", SizeOf(text), <<>>) \in ScreenFrames
    BY <1>1 DEF ScreenFrames
  <1>3. TextInput(text) \in Seq(ScreenFrames)
    BY <1>2, EmptySeq DEF TextInput
  <1> QED
    BY <1>3, ConcatProperties

LEMMA KeystrokeKeeps == SInv /\ Keystroke => SInv'
  <1> SUFFICES ASSUME SInv, Keystroke PROVE SInv'
    OBVIOUS
  <1> DEFINE c == Len(wanted) + 1
  <1>1. c \in 1..MaxTyped
    BY BoundsAssumption, LenProperties DEF SInv, ScreenTyped, Typed, Keystroke
  <1>2. /\ field' = Append(field, c) /\ reports' = Append(reports, field')
        /\ wanted' = Append(wanted, c)
        /\ UNCHANGED <<buffer, shiftVars, linkVars, given, hurried>>
    BY DEF Keystroke
  <1> HIDE DEF c
  <1>3. field' \in Typed /\ wanted' \in Typed
    BY <1>1, <1>2, AppendProperties DEF SInv, ScreenTyped, Typed
  <1>4. /\ reports' \in Seq(Typed) /\ reports' # <<>>
        /\ Len(reports') = Len(reports) + 1
        /\ reports'[Len(reports) + 1] = field'
    BY <1>2, <1>3, AppendProperties DEF SInv, ScreenTyped
  <1>5. ScreenTyped'
    BY <1>2, <1>3, <1>4 DEF SInv, ScreenTyped, shiftVars, linkVars
  <1>6. given \o Append(field, c) = Append(given \o field, c)
    BY <1>1, ConcatAppend DEF SInv, ScreenTyped, Typed
  <1>7. TextKept'
    BY <1>2, <1>4, <1>6 DEF SInv, TextKept
  <1> QED
    BY <1>5, <1>7 DEF SInv

LEMMA EraseKeeps == SInv /\ Erase => SInv'
  <1> SUFFICES ASSUME SInv, Erase PROVE SInv'
    OBVIOUS
  <1>1. /\ field # <<>> /\ field' = Front(field) /\ reports' = Append(reports, field')
        /\ wanted' = IF hurried THEN wanted ELSE Front(wanted)
        /\ UNCHANGED <<buffer, shiftVars, linkVars, given, hurried>>
    BY DEF Erase
  <1>2. Front(field) \in Typed /\ Front(given \o field) = given \o Front(field)
    BY <1>1, FrontOfConcat DEF SInv, ScreenTyped, Typed
  <1>3. ~hurried => wanted' = given \o Front(field)
    BY <1>1, <1>2 DEF SInv, TextKept
  <1>4. given \o Front(field) \in Typed
    BY <1>2, ConcatProperties DEF SInv, ScreenTyped, Typed
  <1>5. field' \in Typed /\ wanted' \in Typed
    BY <1>1, <1>2, <1>3, <1>4 DEF SInv, ScreenTyped
  <1>6. /\ reports' \in Seq(Typed) /\ reports' # <<>>
        /\ Len(reports') = Len(reports) + 1
        /\ reports'[Len(reports) + 1] = field'
    BY <1>1, <1>5, AppendProperties DEF SInv, ScreenTyped
  <1>7. ScreenTyped'
    BY <1>1, <1>5, <1>6 DEF SInv, ScreenTyped, shiftVars, linkVars
  <1>8. TextKept'
    BY <1>1, <1>3, <1>6 DEF SInv, TextKept
  <1> QED
    BY <1>7, <1>8 DEF SInv

\* An edit that the screen handles is the field's text if it is the last; a text that is
\* sent then leaves the field empty.
LEMMA HandleTextChangeKeeps == SInv /\ HandleTextChange => SInv'
  <1> SUFFICES ASSUME SInv, HandleTextChange PROVE SInv'
    OBVIOUS
  <1> DEFINE text == Head(reports)
  <1>1. /\ reports # <<>> /\ reports' = Tail(reports)
        /\ field' = Drawn(buffer', reports')
        /\ hurried' = (hurried \/ (Complete(text) /\ reports' # <<>>))
        /\ UNCHANGED <<shifted, wanted>>
        /\ Remembers
    BY DEF HandleTextChange
  <1>2. /\ reports' \in Seq(Typed) /\ text \in Typed
        /\ reports' = <<>> => text = reports[Len(reports)]
        /\ reports' # <<>> => reports'[Len(reports')] = reports[Len(reports)]
    BY <1>1, LastOfTail DEF SInv, ScreenTyped
  <1>3. <<>> \in Typed /\ \A s \in Typed : s \o <<>> = s
    BY EmptySeq, ConcatEmptySeq DEF Typed
  <1>4. \/ Complete(text) /\ Flush(text)
        \/ ~Complete(text) /\ buffer' = text /\ UNCHANGED <<linkVars, given>>
    BY DEF HandleTextChange
  <1>5. buffer' \in Typed /\ given' \in Typed
    <2>1. given \o text \in Typed /\ given \in Typed
      BY <1>2, ConcatProperties DEF SInv, ScreenTyped, Typed
    <2> QED
      BY <1>2, <1>3, <1>4, <2>1 DEF Flush
  <1>6. /\ outbox' \in Seq(ScreenFrames) /\ Len(outbox') <= MaxFrames
        /\ link' \in {"connected", "authenticated", "down"}
    <2>1. TextInput(text) \in Seq(ScreenFrames)
      BY TextInputFrames, EmptySeq
    <2> QED
      BY <1>4, <2>1, SendsKeeps DEF SInv, ScreenTyped, Flush, linkVars
  <1> HIDE DEF text
  <1>7. field' \in Typed /\ seen' \in BOOLEAN /\ hurried' \in BOOLEAN
    BY <1>1, <1>5 DEF SInv, ScreenTyped, Drawn, Remembers
  <1>8. ScreenTyped'
    BY <1>1, <1>2, <1>5, <1>6, <1>7 DEF SInv, ScreenTyped
  <1>9. ASSUME ~hurried' PROVE TextKept'
    <2>1. ~hurried /\ given \o field = wanted /\ reports[Len(reports)] = field
      BY <1>1, <1>9 DEF SInv, TextKept
    <2>2. CASE reports' # <<>>
      <3>1. ~Complete(text) /\ given' = given /\ field' = field
        BY <1>1, <1>4, <1>9, <2>2 DEF Drawn
      <3> QED
        BY <1>1, <1>2, <2>1, <2>2, <3>1 DEF TextKept
    <2>3. CASE reports' = <<>>
      <3>1. text = field /\ field' = buffer'
        BY <1>1, <1>2, <2>1, <2>3 DEF Drawn
      <3>2. given' \o field' = wanted
        <4>1. CASE Complete(text) /\ Flush(text)
          BY <1>3, <1>5, <2>1, <3>1, <4>1 DEF Flush
        <4>2. CASE buffer' = text /\ UNCHANGED <<linkVars, given>>
          BY <2>1, <3>1, <4>2
        <4> QED
          BY <1>4, <4>1, <4>2
      <3> QED
        BY <1>1, <2>3, <3>1, <3>2 DEF TextKept
    <2> QED
      BY <2>2, <2>3
  <1> QED
    BY <1>8, <1>9 DEF SInv, TextKept

\* The keys of the grid commit the buffer first, and so keep the order.
LEMMA CommitKeeps ==
  ASSUME SInv, NEW tap \in Seq(ScreenFrames), NEW taps \in Typed, wanted \o taps \in Typed,
         Commit(tap, taps), shifted' \in BOOLEAN, Remembers
  PROVE  SInv'
  <1>1. /\ Sends(TextInput(buffer) \o tap)
        /\ given' = given \o buffer \o taps
        /\ wanted' = wanted \o taps
        /\ buffer' = <<>>
        /\ field' = Drawn(<<>>, reports)
        /\ hurried' = (hurried \/ ((buffer # <<>> \/ taps # <<>>) /\ reports # <<>>))
        /\ UNCHANGED reports
    BY DEF Commit
  <1>2. given \o buffer \in Typed /\ (given \o buffer) \o taps \in Typed
    BY ConcatProperties DEF SInv, ScreenTyped, Typed
  <1>3. <<>> \in Typed /\ \A s \in Typed : s \o <<>> = s
    BY EmptySeq, ConcatEmptySeq DEF Typed
  <1>4. /\ outbox' \in Seq(ScreenFrames) /\ Len(outbox') <= MaxFrames
        /\ link' \in {"connected", "authenticated", "down"}
    BY <1>1, TextInputFrames, SendsKeeps DEF SInv
  <1>5. field' \in Typed /\ seen' \in BOOLEAN
    BY <1>1, <1>3 DEF SInv, ScreenTyped, Drawn, Remembers
  <1>6. hurried' \in BOOLEAN
    BY <1>1 DEF SInv, ScreenTyped
  <1>7. ScreenTyped'
    BY <1>1, <1>2, <1>3, <1>4, <1>5, <1>6 DEF SInv, ScreenTyped
  <1>8. ASSUME ~hurried' PROVE TextKept'
    <2>1. ~hurried /\ given \o field = wanted
      BY <1>1, <1>8 DEF SInv, TextKept
    <2>2. CASE reports = <<>>
      <3>1. field = buffer /\ field' = <<>>
        BY <1>1, <2>1, <2>2 DEF SInv, TextKept, Drawn
      <3>2. given' \o field' = (given \o buffer) \o taps
        BY <1>1, <1>2, <1>3, <3>1
      <3> QED
        BY <1>1, <2>1, <2>2, <3>1, <3>2 DEF TextKept
    <2>3. CASE reports # <<>>
      <3>1. buffer = <<>> /\ taps = <<>> /\ field' = field
        BY <1>1, <1>8, <2>3 DEF Drawn
      <3>2. given' = given /\ wanted' = wanted
        BY <1>1, <1>3, <3>1 DEF SInv, ScreenTyped
      <3> QED
        BY <1>1, <2>1, <2>3, <3>1, <3>2 DEF SInv, TextKept
    <2> QED
      BY <2>2, <2>3
  <1> QED
    BY <1>7, <1>8 DEF SInv, TextKept

\* The keys that leave the text alone.
LEMMA SendsOnlyKeeps ==
  ASSUME SInv, NEW frames \in Seq(ScreenFrames), Sends(frames),
         UNCHANGED <<fieldVars, shiftVars, historyVars>>
  PROVE  SInv'
  <1>1. /\ outbox' \in Seq(ScreenFrames) /\ Len(outbox') <= MaxFrames
        /\ link' \in {"connected", "authenticated", "down"}
    BY SendsKeeps DEF SInv
  <1> QED
    BY <1>1 DEF SInv, ScreenTyped, TextKept, fieldVars, shiftVars, historyVars

LEMMA ScreenKeeps == SInv /\ ScreenNext => SInv'
  <1> SUFFICES ASSUME SInv, ScreenNext PROVE SInv'
    OBVIOUS
  <1>1. <<>> \in Typed /\ <<>> \in Seq(ScreenFrames) /\ \A s \in Typed : s \o <<>> = s
    BY EmptySeq, ConcatEmptySeq DEF Typed
  <1>2. wanted \in Typed /\ wanted \o <<>> \in Typed
    BY <1>1 DEF SInv, ScreenTyped
  <1>3. shifted \in BOOLEAN /\ seen \in BOOLEAN
    BY DEF SInv, ScreenTyped
  <1>4. ASSUME Len(wanted) < MaxTyped
        PROVE  <<Len(wanted) + 1>> \in Typed /\ wanted \o <<Len(wanted) + 1>> \in Typed
    <2>1. Len(wanted) + 1 \in 1..MaxTyped
      BY <1>2, <1>4, BoundsAssumption, LenProperties DEF Typed
    <2>2. <<Len(wanted) + 1>> \in Typed
      BY <2>1 DEF Typed
    <2> QED
      BY <1>2, <2>2, ConcatProperties DEF Typed
  <1>5. CASE Keystroke \/ Erase \/ HandleTextChange
    BY <1>5, KeystrokeKeeps, EraseKeeps, HandleTextChangeKeeps
  <1>6. CASE SendChip
    <2>1. Commit(<<>>, <<>>) /\ shifted' \in BOOLEAN /\ Remembers
      BY <1>3, <1>6 DEF SendChip
    <2> QED
      BY <1>1, <1>2, <2>1, CommitKeeps
  <1>7. CASE TapSpace
    <2>1. <<Frame("TextInput", "small", <<>>)>> \in Seq(ScreenFrames)
      BY DEF ScreenFrames
    <2>2. /\ Len(wanted) < MaxTyped /\ shifted' \in BOOLEAN /\ Remembers
          /\ Commit(<<Frame("TextInput", "small", <<>>)>>, <<Len(wanted) + 1>>)
      BY <1>3, <1>7 DEF TapSpace
    <2> QED
      BY <1>4, <2>1, <2>2, CommitKeeps
  <1>8. CASE TapShift
    <2>1. Commit(<<>>, <<>>) /\ shifted' \in BOOLEAN /\ Remembers
      BY <1>3, <1>8 DEF TapShift
    <2> QED
      BY <1>1, <1>2, <2>1, CommitKeeps
  <1>9. CASE TapBackspace
    <2>1. Frame("Shortcut", "small", <<"Backspace">>) \in ScreenFrames
      BY DEF ScreenFrames
    <2>3. <<Frame("Shortcut", "small", <<"Backspace">>)>> \in Seq(ScreenFrames)
      BY <2>1
    <2>2. /\ shifted' \in BOOLEAN /\ Remembers
          /\ Commit(<<Frame("Shortcut", "small", <<"Backspace">>)>>, <<>>)
      BY <1>3, <1>9 DEF TapBackspace
    <2> QED
      BY <1>1, <1>2, <2>2, <2>3, CommitKeeps
  <1>10. ASSUME NEW name \in GridKeys, TapKey(name) PROVE SInv'
    <2> DEFINE tap == IF seen THEN <<Frame("Shortcut", "small", <<"Shift", name>>)>>
                      ELSE <<Frame("KeyPress", "small", <<name>>)>>
    <2>1. Frame("Shortcut", "small", <<"Shift", name>>) \in ScreenFrames
      BY DEF ScreenFrames
    <2>2. Frame("KeyPress", "small", <<name>>) \in ScreenFrames
      BY DEF ScreenFrames
    <2>3. tap \in Seq(ScreenFrames)
      BY <2>1, <2>2
    <2>4. Len(wanted) < MaxTyped /\ Commit(tap, <<Len(wanted) + 1>>) /\ Remembers
      BY <1>10 DEF TapKey
    <2>5. shifted' \in BOOLEAN
      BY <1>10 DEF TapKey
    <2> HIDE DEF tap
    <2> QED
      BY <1>4, <2>3, <2>4, <2>5, CommitKeeps
  <1>11. ASSUME NEW name \in StripKeys, TapFunction(name) PROVE SInv'
    <2>1. <<Frame("Shortcut", "small", <<name>>)>> \in Seq(ScreenFrames)
      BY DEF ScreenFrames
    <2> QED
      BY <1>11, <2>1, SendsOnlyKeeps DEF TapFunction
  <1>12. ASSUME NEW name \in MediaButtons, TapMedia(name) PROVE SInv'
    <2>1. <<Frame("MediaKey", "small", <<name>>)>> \in Seq(ScreenFrames)
      BY DEF ScreenFrames
    <2> QED
      BY <1>12, <2>1, SendsOnlyKeeps DEF TapMedia
  <1> QED
    BY <1>5, <1>6, <1>7, <1>8, <1>9, <1>10, <1>11, <1>12 DEF ScreenNext

-----------------------------------------------------------------------------
(* The path.                                                               *)

\* What the link's steps may do to the screen.
LEMMA LinkKeeps ==
  ASSUME SInv, UNCHANGED <<fieldVars, shiftVars, historyVars>>,
         link' \in {"connected", "authenticated", "down"},
         outbox' = outbox \/ outbox' = <<>> \/ (outbox # <<>> /\ outbox' = Tail(outbox))
  PROVE  SInv'
  <1>1. outbox \in Seq(ScreenFrames) /\ Len(outbox) <= MaxFrames
    BY DEF SInv, ScreenTyped
  <1>2. outbox' \in Seq(ScreenFrames) /\ Len(outbox') <= MaxFrames
    <2>1. CASE outbox' = outbox
      BY <1>1, <2>1
    <2>2. CASE outbox' = <<>>
      <3>1. <<>> \in Seq(ScreenFrames) /\ Len(<<>>) = 0
        BY EmptySeq
      <3> QED
        BY <2>2, <3>1, BoundsAssumption
    <2>3. CASE outbox # <<>> /\ outbox' = Tail(outbox)
      <3>1. Tail(outbox) \in Seq(ScreenFrames) /\ Len(Tail(outbox)) = Len(outbox) - 1
        BY <1>1, <2>3, HeadTailProperties
      <3>2. Len(outbox) \in Nat
        BY <1>1, LenProperties
      <3>3. ASSUME NEW m, NEW n \in Nat, n <= MaxFrames, m = n - 1 PROVE m <= MaxFrames
        BY <3>3, BoundsAssumption
      <3> QED
        BY <1>1, <2>3, <3>1, <3>2, <3>3
    <2> QED
      BY <2>1, <2>2, <2>3
  <1> QED
    BY <1>2 DEF SInv, ScreenTyped, TextKept, fieldVars, shiftVars, historyVars

SettingsTyped ==
  /\ subject \in {"screens", "client"}
  /\ backend \in {"nutjs", "linux", "darwin", "win32", "unavailable"}
  /\ authenticated \in BOOLEAN
  /\ permissions \in Grants \cup {{}}

IInv == CInv /\ PressedStays /\ SInv /\ SettingsTyped

LEMMA InitIInv == PathInit => IInv
  <1> SUFFICES ASSUME PathInit PROVE IInv
    OBVIOUS
  <1>1. CInv /\ SInv
    BY InitCInv, ScreenInitSInv DEF PathInit
  <1>2. SettingsTyped
    BY DEF PathInit, SettingsTyped, CreateKeyboardProvider
  <1>3. PressedStays
    BY DEF PathInit, Init, PressedStays, Combination, Free
  <1> QED
    BY <1>1, <1>2, <1>3 DEF IInv

\* The name that a key press of the screen carries is a combination for the controller.
LEMMA PressedNames ==
  ASSUME SInv, NEW frame, Arrives(frame), frame.t = "KeyPress", ~RefusedNames(frame)
  PROVE  Normalized(frame.names) \in Inputs
  <1>1. frame \in ScreenFrames
    BY HeadTailProperties DEF SInv, ScreenTyped, Arrives
  <1>2. PICK name \in GridKeys : frame = Frame("KeyPress", "small", <<name>>)
    BY <1>1 DEF ScreenFrames, Frame
  <1>3. frame.names = <<name>>
    BY <1>2 DEF Frame
  <1>4. AllLegal(<<name>>)
    BY <1>3 DEF RefusedNames
  <1>5. IsKeyId(name)
    BY <1>4 DEF AllLegal
  <1>6. NormalKeyId(name) \in Keys
    BY <1>5, GridAssumption
  <1>7. Normalized(<<name>>) = [i \in 1..1 |-> NormalKeyId(name)]
    BY DEF Normalized
  <1>8. [i \in 1..1 |-> NormalKeyId(name)] \in
          {s \in [1..1 -> Keys] : \A i, j \in 1..1 : s[i] = s[j] => i = j}
    BY <1>6
  <1> QED
    BY <1>3, <1>7, <1>8 DEF Inputs

\* Whatever happens on the path, the controller takes one of its steps or none.
LEMMA ControllerSteps == SInv /\ PathNext => [ControllerNext]_vars
  <1> SUFFICES ASSUME SInv, PathNext PROVE [ControllerNext]_vars
    OBVIOUS
  <1>1. ASSUME UNCHANGED controllerVars PROVE UNCHANGED vars
    BY <1>1 DEF controllerVars, vars
  <1>2. CASE ControllerStep
    BY <1>2 DEF ControllerStep, ProviderPresses, ProviderReleases, RepeatEnds, ControllerNext, Next
  <1>3. CASE ClientFrame
    BY <1>3 DEF ClientFrame, ControllerNext, Next
  <1>4. CASE Pressing
    <2>1. PICK frame \in ToSet(outbox), i \in Calls :
                                  /\ Arrives(frame) /\ frame.t = "KeyPress" /\ ~RefusedNames(frame)
                                  /\ PressKeys(i, Normalized(frame.names))
      BY <1>4 DEF Pressing
    <2>2. Normalized(frame.names) \in Inputs
      BY <2>1, PressedNames
    <2> QED
      BY <2>1, <2>2 DEF ControllerNext, Next
  <1>5. CASE \/ UNCHANGED controllerVars
             \/ Authenticates \/ AuthOkArrives \/ ConnectionEnds \/ Reconnected
             \/ Undelivered \/ Forbidden \/ PassedOn \/ Rejected
    BY <1>1, <1>5 DEF Authenticates, AuthOkArrives, ConnectionEnds, Reconnected, Undelivered,
                      Forbidden, PassedOn, Rejected
  <1> QED
    BY <1>2, <1>3, <1>4, <1>5 DEF PathNext

LEMMA NextIInv == IInv /\ [PathNext]_pathVars => IInv'
  <1> SUFFICES ASSUME IInv, [PathNext]_pathVars PROVE IInv'
    OBVIOUS
  <1>1. CInv' /\ PressedStays'
    BY ControllerSteps, ControllerKeeps, PressedStaysKept DEF IInv, pathVars, controllerVars, vars
  <1>2. ASSUME UNCHANGED screenVars PROVE SInv'
    BY <1>2 DEF IInv, SInv, ScreenTyped, TextKept, screenVars, fieldVars, shiftVars, linkVars,
                historyVars
  <1>3. ASSUME UNCHANGED <<settings, receiverVars>> PROVE SettingsTyped'
    BY <1>3 DEF IInv, SettingsTyped, settings, receiverVars
  <1>4. CASE UNCHANGED pathVars
    BY <1>1, <1>2, <1>3, <1>4 DEF pathVars, IInv
  <1>5. CASE UNCHANGED <<screenVars, settings, receiverVars>>
    BY <1>1, <1>2, <1>3, <1>5 DEF IInv
  <1>6. CASE ScreenNext /\ UNCHANGED <<controllerVars, settings, receiverVars>>
    BY <1>1, <1>3, <1>6, ScreenKeeps DEF IInv
  <1>7. CASE Authenticates
    BY <1>1, <1>2, <1>7 DEF Authenticates, IInv, SettingsTyped, settings
  <1>8. CASE AuthOkArrives \/ Reconnected
    <2>1. SInv'
      BY <1>8, LinkKeeps DEF AuthOkArrives, Reconnected, IInv
    <2> QED
      BY <1>1, <1>3, <1>8, <2>1 DEF AuthOkArrives, Reconnected, IInv
  <1>9. CASE ConnectionEnds \/ Forbidden
    <2>1. ConnectionEnds
      BY <1>9 DEF Forbidden
    <2>2. SInv'
      BY <2>1, LinkKeeps DEF ConnectionEnds, IInv
    <2> QED
      BY <1>1, <2>1, <2>2 DEF ConnectionEnds, IInv, SettingsTyped, settings
  <1>10. CASE Undelivered \/ PassedOn \/ Rejected \/ Pressing
    <2>1. \E frame : Arrives(frame)
      BY <1>10 DEF Undelivered, PassedOn, Rejected, Pressing
    <2>2. /\ outbox # <<>> /\ outbox' = Tail(outbox)
          /\ UNCHANGED <<fieldVars, shiftVars, link, historyVars, settings, receiverVars>>
      BY <2>1 DEF Arrives
    <2>3. SInv'
      BY <2>2, LinkKeeps DEF IInv, SInv, ScreenTyped
    <2> QED
      BY <1>1, <1>3, <2>2, <2>3 DEF IInv
  <1> QED
    BY <1>4, <1>5, <1>6, <1>7, <1>8, <1>9, <1>10 DEF PathNext

LEMMA Invariance == PathSpec => []IInv
  BY InitIInv, NextIInv, PTL DEF PathSpec

-----------------------------------------------------------------------------
(* The theorems.                                                           *)

\* Every variable of the path keeps its type: no combination outgrows its keys, and the
\* field shows what the screen has, once the screen has handled every edit.
THEOREM PathTypes == PathSpec => []PathTypeOK
  <1>1. IInv => PathTypeOK
    <2> SUFFICES ASSUME IInv PROVE PathTypeOK
      OBVIOUS
    <2>1. TypeOK
      BY CInvImplies DEF IInv
    <2>2. ScreenTypeOK
      <3>1. \A i \in 1..Len(reports) : reports[i] \in Typed
        BY ElementOfSeq DEF IInv, SInv, ScreenTyped
      <3> QED
        BY <3>1 DEF IInv, SInv, ScreenTyped, TextKept, ScreenTypeOK
    <2> QED
      BY <2>1, <2>2 DEF PathTypeOK, IInv, SettingsTyped
  <1> QED
    BY <1>1, Invariance, PTL

\* A remembered repeat is always a live interval of its key, so that the next release
\* of the key stops it and no key is refused as "already held" for nothing.
THEOREM RepeatsStayStoppable == PathSpec => []RepeatsAreStoppable
  <1>1. IInv => RepeatsAreStoppable
    BY CInvImplies DEF IInv
  <1> QED
    BY <1>1, Invariance, PTL

\* However calls overlap and wherever a provider fails, a press or a shortcut that has its
\* base key pressed finds its modifiers down in the operating system, unless something
\* other than that call has let go of one of its keys.
THEOREM ModifiersGoLast == PathSpec => []ModifiersLast
  <1>1. IInv => ModifiersLast
    BY CInvImplies DEF IInv
  <1> QED
    BY <1>1, Invariance, PTL

\* When no call is under way, no key is down that only shortcuts have pressed.
THEOREM ShortcutsEndClean == PathSpec => []ShortcutsLetGo
  <1>1. IInv => ShortcutsLetGo
    BY CInvImplies DEF IInv
  <1> QED
    BY <1>1, Invariance, PTL

\* Typed text is handed over once and in order, whatever the connection does and however
\* reports, keys and drawings interleave, until an edit meets a text that is being sent.
THEOREM TextIsTypedOnce == PathSpec => []TypedOnce
  <1>1. IInv => TypedOnce
    BY DEF IInv, SInv, TextKept, TypedOnce
  <1> QED
    BY <1>1, Invariance, PTL
=============================================================================
