------------------------------- MODULE DeviceStore -------------------------------
(***************************************************************************)
(* The sender's list of paired devices and its copy in AsyncStorage, which *)
(* serves its calls one after the other.  The list is loaded when the      *)
(* connection manager is made, at the first connect of a process, and not  *)
(* when the app starts.                                                    *)
(***************************************************************************)
EXTENDS Naturals, Sequences

CONSTANTS Devices,   \* identities host:port
          NoDevice,
          MaxCalls   \* storage calls under way (bound)

ASSUME NoDeviceAssumption == NoDevice \notin Devices
ASSUME MaxCallsAssumption == MaxCalls \in Nat

VARIABLES
  devices,   \* the list in memory
  stored,    \* the list in storage
  calls,     \* calls of AsyncStorage that have not been answered in JavaScript
  unsure     \* history: the list changed while it was being loaded, or a call failed

storeVars == <<devices, stored, calls, unsure>>

\* A write carries the list and, from the pairing screen, the device to connect to next.
Write(list, next) == [op |-> "set", list |-> list, next |-> next, done |-> FALSE]
Read == [op |-> "get", list |-> {}, next |-> NoDevice, done |-> FALSE]

CallType == [op : {"set", "get"}, list : SUBSET Devices, next : Devices \cup {NoDevice},
             done : BOOLEAN]

StoreTypeOK ==
  /\ {devices, stored} \subseteq SUBSET Devices
  /\ Len(calls) <= MaxCalls
  /\ \A i \in 1..Len(calls) : /\ calls[i] \in CallType
                              /\ (i > 1 /\ calls[i].done) => calls[i - 1].done
  /\ unsure \in BOOLEAN

StoreInit ==
  /\ devices = {} /\ calls = <<>>
  /\ stored \in SUBSET Devices
  /\ unsure = FALSE

-----------------------------------------------------------------------------
Loading == \E i \in 1..Len(calls) : calls[i].op = "get"

Calls(call) ==
  /\ Len(calls) < MaxCalls
  /\ calls' = Append(calls, call)

\* Faulty variant: the list is written as it was before the change.
SaveListStale(list, next) ==
  /\ Calls(Write(devices, next))
  /\ devices' = list
  /\ unsure' = (unsure \/ Loading)
  /\ UNCHANGED stored

\* set({ devices }), and its persistence.
SaveList(list, next) ==
  /\ Calls(Write(list, next))
  /\ devices' = list
  /\ unsure' = (unsure \/ Loading)
  /\ UNCHANGED stored

SaveDevice(d) == SaveList(devices \cup {d}, d)

RemoveDevice(d) == SaveList(devices \ {d}, NoDevice)

-----------------------------------------------------------------------------
\* The storage serves its oldest call; a write may fail, which persistDevices ignores,
\* and so may a read, which then finds nothing.
StorageServes(i, succeeds) ==
  LET c == calls[i]
  IN  /\ ~c.done /\ (i > 1 => calls[i - 1].done)
      /\ stored' = IF c.op = "set" /\ succeeds THEN c.list ELSE stored
      /\ calls' = [calls EXCEPT ![i].done = TRUE,
                                ![i].list = IF c.op = "set" THEN c.list
                                            ELSE IF succeeds THEN stored ELSE {}]
      /\ unsure' = (unsure \/ ~succeeds)
      /\ UNCHANGED devices

Answered == Len(calls) > 0 /\ Head(calls).done

\* loadDevices has its answer.
Loaded ==
  /\ Answered /\ Head(calls).op = "get"
  /\ devices' = Head(calls).list
  /\ calls' = Tail(calls)
  /\ UNCHANGED <<stored, unsure>>

\* persistDevices returns.
Persisted ==
  /\ Answered /\ Head(calls).op = "set"
  /\ calls' = Tail(calls)
  /\ UNCHANGED <<devices, stored, unsure>>

\* The process ends and starts again: only the storage is left.
StoreRestarts ==
  /\ devices' = {} /\ calls' = <<>>
  /\ unsure' = FALSE
  /\ UNCHANGED stored

-----------------------------------------------------------------------------
(* Properties.                                                             *)

\* "Paired devices are persisted to AsyncStorage": the write of a pairing takes no other
\* device out of the storage.
PairingOnlyAdds ==
  [][\A i \in 1..Len(calls) :
       (calls[i].next # NoDevice /\ ~calls[i].done /\ Len(calls') >= i /\ calls'[i].done /\ ~unsure)
         => (stored \subseteq stored')]_storeVars
=============================================================================
