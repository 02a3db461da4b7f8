--------------------------- MODULE DeviceRegistry ---------------------------
(***************************************************************************)
(* The receiver's registry of devices: pairing requests and their codes,   *)
(* approval, revocation, permissions, and what of it a restart finds on    *)
(* disk.  registry.persist is asynchronous, the process can end between a  *)
(* change and its write, and a write can fail or be cut short.             *)
(*                                                                         *)
(* A request's id is random and becomes the device's and the session's id. *)
(* Its code stands for the request (codes are taken to differ); OwnCode is *)
(* one that the pairing screen had drawn for itself, with no request.  A   *)
(* token is the number of times that it was hashed since the device        *)
(* received it.                                                            *)
(* The registry file is the one that the next start loads, and set.        *)
(***************************************************************************)
EXTENDS Naturals, Sequences, FiniteSets

CONSTANTS Requests,     \* ids of pairing requests, each drawn once (bound)
          OwnCode,      \* a code that belongs to no request
          Permissions,  \* PERMISSIONS
          Defaults,     \* the permissions that an approval grants
          MaxPending,   \* pairing requests kept at a time
          MaxWrites,    \* persist calls under way at a time (bound)
          MaxDigests    \* hashings of a token that are told apart (bound)

ASSUME OwnCodeAssumption == OwnCode \notin Requests
ASSUME DefaultsAssumption == Defaults \subseteq Permissions
ASSUME BoundsAssumption == MaxPending \in Nat \ {0} /\ MaxWrites \in Nat /\ MaxDigests \in Nat \ {0}

VARIABLES
  trusted,          \* device id -> its entry
  pending,          \* pairing requests, in the Map's order
  stale,            \* requests whose expiresAt has passed
  pairingTokens,    \* requests with a token
  revokedSessions,
  lastCode,         \* {}, or {the code that the pairing screen shows}
  drawn,            \* request ids that have been drawn
  disk,             \* the registry file
  writes,           \* persist calls that have not written yet
  settled           \* devices revoked before a write that succeeded

processVars == <<trusted, pending, pairingTokens, revokedSessions, lastCode>>
regVars == <<processVars, stale, drawn, disk, writes, settled>>

Entry == [token : 0..MaxDigests, permissions : SUBSET Permissions]
Registries == UNION {[D -> Entry] : D \in SUBSET Requests}
NoDevices == [r \in {} |-> [token |-> 0, permissions |-> {}]]

Elems(s) == {s[i] : i \in 1..Len(s)}

RegTypeOK ==
  /\ trusted \in Registries
  /\ Elems(pending) \subseteq Requests
  /\ Len(pending) <= MaxPending
  /\ Cardinality(Elems(pending)) = Len(pending)
  /\ stale \subseteq Requests
  /\ pairingTokens \subseteq Requests
  /\ revokedSessions \subseteq Requests
  /\ lastCode \in {{}} \cup {{x} : x \in Requests \cup {OwnCode}}
  /\ drawn \subseteq Requests
  /\ disk \in Registries
  /\ writes \in 0..MaxWrites
  /\ settled \subseteq Requests

RegInit ==
  /\ trusted = NoDevices
  /\ pending = <<>>
  /\ stale = {}
  /\ pairingTokens = {}
  /\ revokedSessions = {}
  /\ lastCode = {}
  /\ drawn = {}
  /\ disk = NoDevices
  /\ writes = 0
  /\ settled = {}

\* Of the pending requests those in kept stay, in their order; at[i] is the place of the
\* i-th of them.
Leaves(kept) ==
  \E n \in 0..Len(pending) : \E at \in [1..n -> 1..Len(pending)] :
    /\ \A i, j \in 1..n : i < j => at[i] < at[j]
    /\ Elems(at) = {i \in 1..Len(pending) : pending[i] \in kept}
    /\ pending' = [i \in 1..n |-> pending[at[i]]]

Without(f, r) == [x \in DOMAIN f \ {r} |-> f[x]]

-----------------------------------------------------------------------------
(* Pairing.                                                                *)

\* Faulty variant: off by one.
EvictLate == IF Len(pending) > MaxPending THEN Tail(pending) ELSE pending

\* At the cap the oldest request makes room.
Evict == IF Len(pending) >= MaxPending THEN Tail(pending) ELSE pending

\* Faulty variant: at the cap the new request is the one dropped, its code is shown.
RequestPairDropsNew(r) ==
  /\ r \notin drawn
  /\ drawn' = drawn \cup {r}
  /\ pending' = IF Len(pending) < MaxPending THEN Append(pending, r) ELSE pending
  /\ pairingTokens' = pairingTokens \cup {r}
  /\ lastCode' = {r}
  /\ UNCHANGED <<trusted, stale, revokedSessions, disk, writes, settled>>

RequestPair(r) ==
  /\ r \notin drawn
  /\ drawn' = drawn \cup {r}
  /\ pending' = Append(Evict, r)
  /\ pairingTokens' = (pairingTokens \ (Elems(pending) \ Elems(Evict))) \cup {r}
  /\ lastCode' = {r}
  /\ UNCHANGED <<trusted, stale, revokedSessions, disk, writes, settled>>

\* The pairing screen (pairing:code) gets the code there is, else one of its own.
IssuePairingCode ==
  /\ lastCode = {}
  /\ lastCode' = {OwnCode}
  /\ UNCHANGED <<trusted, pending, pairingTokens, revokedSessions, stale, drawn, disk, writes,
                 settled>>

Expires(r) ==
  /\ r \in drawn \ stale
  /\ stale' = stale \cup {r}
  /\ UNCHANGED <<processVars, drawn, disk, writes, settled>>

\* pending() and verifyPairingCode() forget the stale requests, not their tokens.
PrunePending ==
  /\ Elems(pending) \cap stale # {}
  /\ Leaves(Elems(pending) \ stale)
  /\ UNCHANGED <<trusted, pairingTokens, revokedSessions, lastCode, stale, drawn, disk,
                 writes, settled>>

\* Faulty variant: the request stays.
ApproveKeepsRequest(r) ==
  /\ r \in Elems(pending)
  /\ trusted' = [x \in DOMAIN trusted \cup {r} |->
                   IF x = r THEN [token |-> 0, permissions |-> Defaults] ELSE trusted[x]]
  /\ pairingTokens' = pairingTokens \ {r}
  /\ UNCHANGED <<pending, revokedSessions, lastCode, stale, drawn, disk, writes, settled>>

\* Nothing is pruned first, and nothing is written to disk.
Approve(r) ==
  /\ r \in Elems(pending)
  /\ trusted' = [x \in DOMAIN trusted \cup {r} |->
                   IF x = r THEN [token |-> 0, permissions |-> Defaults] ELSE trusted[x]]
  /\ Leaves(Elems(pending) \ {r})
  /\ pairingTokens' = pairingTokens \ {r}
  /\ UNCHANGED <<revokedSessions, lastCode, stale, drawn, disk, writes, settled>>

-----------------------------------------------------------------------------
(* Trusted devices.                                                        *)

\* The handlers devices:revoke and devices:setPermissions then call persist, which
\* first awaits an import.
Revoke(r) ==
  /\ writes < MaxWrites
  /\ writes' = writes + 1
  /\ IF r \in DOMAIN trusted
       THEN /\ revokedSessions' = revokedSessions \cup {r}
            /\ trusted' = Without(trusted, r)
            /\ pairingTokens' = pairingTokens \ {r}
       ELSE UNCHANGED <<revokedSessions, trusted, pairingTokens>>
  /\ UNCHANGED <<pending, lastCode, stale, drawn, disk, settled>>

SetPermissions(r, P) ==
  /\ writes < MaxWrites
  /\ writes' = writes + 1
  /\ trusted' = IF r \in DOMAIN trusted THEN [trusted EXCEPT ![r].permissions = P]
                ELSE trusted
  /\ UNCHANGED <<pending, pairingTokens, revokedSessions, lastCode, stale, drawn, disk,
                 settled>>

\* verifyToken, of the token that device r received.
Verifies(r) == /\ r \notin revokedSessions
               /\ r \in DOMAIN trusted
               /\ trusted[r].token = 0

-----------------------------------------------------------------------------
(* Persistence and restarts.                                               *)

Digest(n) == IF n < MaxDigests THEN n + 1 ELSE n

\* What is written of an entry has the digest of its token in the token's place.
Digested == [r \in DOMAIN trusted |-> [trusted[r] EXCEPT !.token = Digest(@)]]

\* The whole registry is written, as it is at that moment.
Write ==
  /\ writes > 0
  /\ writes' = writes - 1
  /\ disk' = Digested
  /\ settled' = settled \cup revokedSessions
  /\ UNCHANGED <<processVars, stale, drawn>>

\* Errors are swallowed.
WriteFails ==
  /\ writes > 0
  /\ writes' = writes - 1
  /\ UNCHANGED <<processVars, stale, drawn, disk, settled>>

\* The process ends and starts again.  The token is taken from the file as it stands.
Loads(file) ==
  /\ trusted' = file
  /\ pending' = <<>>
  /\ pairingTokens' = {}
  /\ revokedSessions' = {}
  /\ lastCode' = {}
  /\ writes' = 0
  /\ UNCHANGED <<stale, drawn>>

Restart == Loads(disk) /\ UNCHANGED <<disk, settled>>

\* before-quit persists; the quit may or may not wait for it.
QuitWritten ==
  /\ disk' = Digested
  /\ settled' = settled \cup revokedSessions
  /\ Loads(Digested)

\* A write is cut short: a file that does not parse is loaded as no devices.
TornWrite ==
  /\ writes > 0
  /\ disk' = NoDevices
  /\ Loads(NoDevices)
  /\ UNCHANGED settled

RegNext ==
  \/ IssuePairingCode
  \/ PrunePending \/ Write \/ WriteFails \/ Restart \/ QuitWritten \/ TornWrite
  \/ \E r \in Requests : \/ RequestPair(r) \/ Expires(r) \/ Approve(r) \/ Revoke(r)
                         \/ \E P \in SUBSET Permissions : SetPermissions(r, P)

-----------------------------------------------------------------------------
(* Properties.                                                             *)

\* A revoked device is out for good: not trusted again in this process, by a second
\* approval of its request or otherwise, and, once its revocation has been written,
\* not after any restart.
RevokedStayOut ==
  /\ revokedSessions \cap DOMAIN trusted = {}
  /\ settled \cap (DOMAIN trusted \cup DOMAIN disk) = {}

\* No request is lost to the others: whatever codes the screen asks for and however many
\* requests come, the newest one can still be approved unless it is stale or decided, and
\* every request that can be approved still has the token that its device was given.
NewestRequestWaits ==
  /\ lastCode \ ({OwnCode} \cup stale \cup DOMAIN trusted \cup revokedSessions)
       \subseteq Elems(pending)
  /\ Elems(pending) \subseteq pairingTokens

\* "A 6-digit code is always valid for the current pairing window" (PairingScreen): the
\* code that the pairing screen shows is that of a pending request, unless the request is
\* stale or decided.
CodeOnScreenWorks ==
  lastCode \ (stale \cup DOMAIN trusted \cup revokedSessions) \subseteq Elems(pending)

\* "Persist session identity for token-based re-authentication so users do not have to
\* re-pair after the receiver restarts" (connectionManager): the token a device
\* received is the one that its entry is checked against.
TokenSurvivesRestart == \A r \in DOMAIN trusted : trusted[r].token = 0
=============================================================================
