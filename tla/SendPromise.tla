---------------------------- MODULE SendPromise ----------------------------
(***************************************************************************)
(* What ClientConnection.sendReliable promises its caller, with nothing of *)
(* how it is done: a send is submitted once, its promise settles exactly   *)
(* once, and it settles "ok" only for a frame the receiver has applied.    *)
(* Nothing is promised the other way round: a send whose promise settles   *)
(* with a reason may have been applied, before or after.                   *)
(***************************************************************************)
CONSTANTS Mids,      \* message ids, one for each reliable send
          Reasons    \* the reasons a promise can settle with, beside "ok"

VARIABLES outcome,   \* outcome[m]: "unsent", "waiting", "ok" or a reason
          effects    \* the frames the receiver has applied at least once

vars == <<outcome, effects>>

Init ==
  /\ outcome = [m \in Mids |-> "unsent"]
  /\ effects = {}

\* The caller submits a frame and holds a pending promise.
Submit(m) ==
  /\ outcome[m] = "unsent"
  /\ outcome' = [outcome EXCEPT ![m] = "waiting"]
  /\ UNCHANGED effects

\* The receiver applies a submitted frame, whatever its promise has become.
TakeEffect(m) ==
  /\ outcome[m] # "unsent"
  /\ effects' = effects \cup {m}
  /\ UNCHANGED outcome

\* One event settles one promise, or all those the client still keeps.
Settle(S, r) ==
  /\ \A m \in S : outcome[m] = "waiting"
  /\ r = "ok" => S \subseteq effects
  /\ outcome' = [m \in Mids |-> IF m \in S THEN r ELSE outcome[m]]
  /\ UNCHANGED effects

Next ==
  \/ \E m \in Mids : Submit(m) \/ TakeEffect(m)
  \/ \E S \in SUBSET Mids, r \in Reasons \cup {"ok"} : Settle(S, r)

Safety == Init /\ [][Next]_vars

\* No caller is left holding a promise that never settles.
SettleEventually == \A m \in Mids : (outcome[m] = "waiting") ~> (outcome[m] # "waiting")

Spec == Safety /\ SettleEventually
=============================================================================
