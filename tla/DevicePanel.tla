------------------------------ MODULE DevicePanel ------------------------------
(***************************************************************************)
(* The dashboard's list of trusted devices against the registry.  The      *)
(* store takes the list that an answer carries as the whole list: at once, *)
(* or (approveDevice) after one more call.  Calls reach the main process   *)
(* in order and its answers come back in order, but a change is answered   *)
(* when it is persisted.  The main process's window is a constant null, so *)
(* that devicesChanged and settingsChanged reach nobody: the list is read  *)
(* once, when the dashboard mounts.  The five calls of a hydration are     *)
(* made and handled together, and stand as one.                            *)
(***************************************************************************)
EXTENDS Naturals, SequencesExt

CONSTANTS Devices, Scopes,
          MaxCalls,  \* calls, changes and answers under way when the user acts (bound)
          Nobody

ASSUME MaxCallsAssumption == MaxCalls \in Nat

VARIABLES
  registry,   \* device -> the permissions of its entry
  devices,    \* the store's copy
  hydrated,
  calls,      \* calls on their way to the main process
  persisting, \* changes that wait for registry.persist, per handler
  answers,    \* answers on their way to the dashboard
  busy,       \* the device whose switches are disabled
  overtaken   \* history: the last list that was taken at once came while another was held

panelVars == <<registry, devices, hydrated, calls, persisting, answers, busy, overtaken>>

Changes == {"setPermissions", "revoke"}
Reads == {"hydrate", "pending"}

Lists == UNION {[D -> SUBSET Scopes] : D \in SUBSET Devices}
CallType == [op : Changes \cup Reads \cup {"approve"}, device : Devices \cup {Nobody},
             permissions : SUBSET Scopes, list : Lists]
AnswerType == [op : Changes \cup Reads \cup {"approve"}, list : Lists]

PanelTypeOK ==
  /\ {registry, devices} \subseteq Lists
  /\ {hydrated, overtaken} \subseteq BOOLEAN
  /\ Range(calls) \subseteq CallType
  /\ persisting \in [Changes -> Nat]
  /\ Range(answers) \subseteq AnswerType
  /\ busy \in Devices \cup {Nobody}

NoEntries == [d \in {} |-> {}]
NoneUnderWay ==
  calls = <<>> /\ answers = <<>> /\ persisting = [op \in Changes |-> 0]

\* What registry.load found: devices are trusted from earlier runs.
PanelInit ==
  /\ registry \in Lists
  /\ devices = NoEntries /\ hydrated = FALSE
  /\ NoneUnderWay /\ busy = Nobody
  /\ overtaken = FALSE

-----------------------------------------------------------------------------
(* The dashboard.                                                          *)

Invoke(op, d, permissions) ==
  /\ Len(calls) + Len(answers) + persisting["setPermissions"] + persisting["revoke"] < MaxCalls
  /\ calls' = Append(calls, [op |-> op, device |-> d, permissions |-> permissions,
                             list |-> NoEntries])
  /\ UNCHANGED <<registry, devices, hydrated, persisting, answers, overtaken>>

\* The dashboard mounts.
Mounts ==
  /\ ~hydrated /\ NoneUnderWay
  /\ Invoke("hydrate", Nobody, {})
  /\ UNCHANGED busy

\* A switch sends the whole set, from the store's copy.
ToggleSwitch(d, scope) ==
  /\ d \in DOMAIN devices /\ d # busy
  /\ Invoke("setPermissions", d,
            IF scope \in devices[d] THEN devices[d] \ {scope} ELSE devices[d] \cup {scope})
  /\ busy' = d

RevokeDevice(d) ==
  /\ d \in DOMAIN devices
  /\ Invoke("revoke", d, {})
  /\ UNCHANGED busy

\* Approve and Deny on the pairing screen send the deviceId of a request, which has none:
\* the registry finds nothing to approve or to revoke.  (There is a request to decide once
\* something calls requestPair, which nothing in the program does.)
Decide(op) ==
  /\ hydrated /\ op \in {"approve", "revoke"}
  /\ Invoke(op, Nobody, {})
  /\ UNCHANGED busy

\* approveDevice holds the list while it asks for the pending requests.
Held == {c \in Range(calls) \cup Range(answers) : c.op = "pending"}

TakeApproved ==
  /\ answers # <<>> /\ Head(answers).op = "approve"
  /\ answers' = Tail(answers)
  /\ calls' = Append(calls, [op |-> "pending", device |-> Nobody, permissions |-> {},
                             list |-> Head(answers).list])
  /\ UNCHANGED <<registry, devices, hydrated, persisting, busy, overtaken>>

\* Faulty variant: revokeDevice leaves the list as it was.
TakeListUnlessRevoked ==
  /\ answers # <<>> /\ Head(answers).op \in Changes \cup Reads
  /\ answers' = Tail(answers)
  /\ devices' = IF Head(answers).op = "revoke" THEN devices ELSE Head(answers).list
  /\ hydrated' = (hydrated \/ Head(answers).op = "hydrate")
  /\ busy' = IF Head(answers).op = "setPermissions" THEN Nobody ELSE busy
  /\ overtaken' = IF Head(answers).op = "pending" THEN overtaken ELSE Held # {}
  /\ UNCHANGED <<registry, calls, persisting>>

\* The list of an answer, or the one that was held, becomes the store's.
TakeList ==
  /\ answers # <<>> /\ Head(answers).op \in Changes \cup Reads
  /\ answers' = Tail(answers)
  /\ devices' = Head(answers).list
  /\ hydrated' = (hydrated \/ Head(answers).op = "hydrate")
  /\ busy' = IF Head(answers).op = "setPermissions" THEN Nobody ELSE busy
  /\ overtaken' = IF Head(answers).op = "pending" THEN overtaken ELSE Held # {}
  /\ UNCHANGED <<registry, calls, persisting>>

-----------------------------------------------------------------------------
(* The main process, which takes the calls in order.                       *)

\* The registry after a change; a device that is not trusted any more is left out.
Applied(call) ==
  IF call.device \notin DOMAIN registry THEN registry
  ELSE IF call.op = "revoke" THEN [d \in DOMAIN registry \ {call.device} |-> registry[d]]
  ELSE [registry EXCEPT ![call.device] = call.permissions]

HandleChange ==
  /\ calls # <<>> /\ Head(calls).op \in Changes
  /\ calls' = Tail(calls)
  /\ registry' = Applied(Head(calls))
  /\ persisting' = [persisting EXCEPT ![Head(calls).op] = @ + 1]
  /\ UNCHANGED <<devices, hydrated, answers, busy, overtaken>>

\* registry.persist is over, in any order: the answer is the list as it now is.
Persisted(op) ==
  /\ persisting[op] > 0
  /\ persisting' = [persisting EXCEPT ![op] = @ - 1]
  /\ answers' = Append(answers, [op |-> op, list |-> registry])
  /\ UNCHANGED <<registry, devices, hydrated, calls, busy, overtaken>>

\* A hydration and an approval are answered with the list; with the pending requests, the
\* list that is held comes back to the store.
Answer ==
  /\ calls # <<>> /\ Head(calls).op \in {"hydrate", "approve", "pending"}
  /\ calls' = Tail(calls)
  /\ answers' = Append(answers, [op |-> Head(calls).op,
                                 list |-> IF Head(calls).op = "pending" THEN Head(calls).list
                                          ELSE registry])
  /\ UNCHANGED <<registry, devices, hydrated, persisting, busy, overtaken>>

PanelNext ==
  \/ Mounts \/ TakeApproved \/ TakeList
  \/ HandleChange \/ Answer
  \/ \E op \in Changes : Persisted(op)
  \/ \E d \in Devices : RevokeDevice(d) \/ \E scope \in Scopes : ToggleSwitch(d, scope)
  \/ \E op \in {"approve", "revoke"} : Decide(op)
=============================================================================
