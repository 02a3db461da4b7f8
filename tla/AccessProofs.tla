---------------------------- MODULE AccessProofs ----------------------------
(***************************************************************************)
(* Proofs about the handshake and the registry, for any connections,       *)
(* requests, permissions and bounds.  The theorems about the handshake     *)
(* rest on the state of the connections alone, and those about the         *)
(* registry on its own.                                                    *)
(***************************************************************************)
EXTENDS Access, FiniteSetTheorems, TLAPS

-----------------------------------------------------------------------------
(* The handshake.                                                          *)

ConnTyped ==
  /\ session \in [Conns -> {"none", "open", "closing"}]
  /\ challenge \in [Conns -> {"fresh", "spent"}]
  /\ answer \in [Conns -> Answers]
  /\ nonces \in [Conns -> Nat]

\* A challenge that is still there has been told by no HelloAck.
FreshUntold == \A c \in Conns : challenge[c] = "fresh" => nonces[c] = 0

\* A connection begins without the answer of the one before it.
NothingLeft == \A c \in Conns : session[c] = "none" => answer[c] = "none"

IInv == ConnTyped /\ FreshUntold /\ NothingLeft /\ ToldOnce /\ RefusalEnds

LEMMA InitHolds == Init => IInv
<1> SUFFICES ASSUME Init PROVE IInv
  OBVIOUS
<1>1. ConnTyped
  BY DEF Init, ConnTyped, Answers
<1>2. FreshUntold /\ NothingLeft
  BY DEF Init, FreshUntold, NothingLeft
<1>3. ToldOnce /\ RefusalEnds
  BY DEF Init, ToldOnce, RefusalEnds
<1> QED
  BY <1>1, <1>2, <1>3 DEF IInv

\* Whatever a device presents, it gets an answer.
LEMMA AnswerTyped ==
  ASSUME NEW c, NEW r
  PROVE  Answer(c, r) \in Answers \ {"none"}
BY DEF Answer, Answers

LEMMA StepKeeps == IInv /\ [Next]_vars => IInv'
<1> SUFFICES ASSUME IInv, [Next]_vars PROVE IInv'
  OBVIOUS
<1> USE DEF IInv, ConnTyped, FreshUntold, NothingLeft, ToldOnce, RefusalEnds
<1>1. CASE UNCHANGED vars
  BY <1>1 DEF vars, connVars
<1>2. CASE RegistryStep
  BY <1>2 DEF RegistryStep, connVars
<1>3. ASSUME NEW c \in Conns, Connects(c) PROVE IInv'
  BY <1>3 DEF Connects
<1>4. ASSUME NEW c \in Conns, Hello(c) PROVE IInv'
  <2>1. /\ challenge' = [challenge EXCEPT ![c] = "spent"]
        /\ nonces' = [nonces EXCEPT ![c] = IF challenge[c] = "fresh" THEN @ + 1 ELSE @]
        /\ UNCHANGED <<session, answer>>
    BY <1>4 DEF Hello
  <2>2. nonces'[c] \in Nat /\ nonces'[c] <= 1
    BY <2>1
  <2>3. \A d \in Conns \ {c} : nonces'[d] = nonces[d] /\ challenge'[d] = challenge[d]
    BY <2>1
  <2>4. ConnTyped'
    BY <2>1
  <2>5. FreshUntold' /\ ToldOnce'
    BY <2>1, <2>2, <2>3
  <2> QED
    BY <2>1, <2>4, <2>5
<1>5. ASSUME NEW c \in Conns, NEW r \in Requests, Authenticate(c, r) PROVE IInv'
  <2>1. /\ challenge' = [challenge EXCEPT ![c] = "spent"]
        /\ answer' = [answer EXCEPT ![c] = Answer(c, r)]
        /\ session[c] # "none"
        /\ session' = IF Answer(c, r) = "AuthOk" THEN session
                      ELSE [session EXCEPT ![c] = "closing"]
        /\ UNCHANGED nonces
    BY <1>5 DEF Authenticate
  <2>2. ConnTyped'
    BY <2>1, AnswerTyped
  <2>3. FreshUntold' /\ ToldOnce'
    BY <2>1
  <2>4. NothingLeft' /\ RefusalEnds'
    BY <2>1, AnswerTyped
  <2> QED
    BY <2>2, <2>3, <2>4
<1>6. ASSUME NEW c \in Conns, Disconnects(c) PROVE IInv'
  <2>1. /\ session' = [session EXCEPT ![c] = "none"]
        /\ challenge' = [challenge EXCEPT ![c] = "fresh"]
        /\ answer' = [answer EXCEPT ![c] = "none"]
        /\ nonces' = [nonces EXCEPT ![c] = 0]
    BY <1>6 DEF Disconnects
  <2>2. ConnTyped'
    BY <2>1 DEF Answers
  <2>3. FreshUntold' /\ ToldOnce'
    BY <2>1
  <2>4. NothingLeft' /\ RefusalEnds'
    BY <2>1
  <2> QED
    BY <2>2, <2>3, <2>4
<1> QED
  BY <1>1, <1>2, <1>3, <1>4, <1>5, <1>6 DEF Next

\* However often a sender says Hello on a connection, the challenge is told once: telling
\* it consumes it, and only the end of the connection draws another.
THEOREM ChallengeToldOnce == Spec => []ToldOnce
<1>1. IInv => ToldOnce
  BY DEF IInv
<1> QED
  BY <1>1, InitHolds, StepKeeps, PTL DEF Spec

\* A connection that was refused never goes back to open, whatever it says while its close
\* waits; its successor starts without the refusal.
THEOREM RefusalIsFinal == Spec => []RefusalEnds
<1>1. IInv => RefusalEnds
  BY DEF IInv
<1> QED
  BY <1>1, InitHolds, StepKeeps, PTL DEF Spec

-----------------------------------------------------------------------------
(* The registry.                                                           *)

\* Every id the registry knows was drawn, so that a new request has none of them.
AllDrawn ==
  Elems(pending) \cup DOMAIN trusted \cup DOMAIN disk \cup revokedSessions \cup settled
    \subseteq drawn

\* A request that can still be approved has not been decided: without it a second
\* approval could bring a revoked device back.
Undecided == Elems(pending) \cap (DOMAIN trusted \cup revokedSessions \cup settled) = {}

RegInv ==
  /\ pending \in Seq(Requests)
  /\ AllDrawn /\ Undecided
  /\ RevokedStayOut /\ NewestRequestWaits

\* Requests that leave the sequence take no other with them, and the rest keeps its type.
LEMMA LeavesKeeps ==
  ASSUME pending \in Seq(Requests), NEW kept \in SUBSET Elems(pending), Leaves(kept)
  PROVE  pending' \in Seq(Requests) /\ Elems(pending') = kept
<1>0. PICK n \in 0..Len(pending) : \E at \in [1..n -> 1..Len(pending)] :
        /\ Elems(at) = {i \in 1..Len(pending) : pending[i] \in kept}
        /\ pending' = [i \in 1..n |-> pending[at[i]]]
  BY DEF Leaves
<1>1. PICK at \in [1..n -> 1..Len(pending)] :
        /\ Elems(at) = {i \in 1..Len(pending) : pending[i] \in kept}
        /\ pending' = [i \in 1..n |-> pending[at[i]]]
  BY <1>0
<1>2. n \in Nat /\ at \in Seq(1..Len(pending)) /\ Len(at) = n
  BY <1>1
<1>3. \A i \in 1..n : pending[at[i]] \in Requests
  BY <1>1
<1>4. pending' \in Seq(Requests) /\ Len(pending') = n
  BY <1>1, <1>2, <1>3
<1>5. Elems(pending') = {pending[i] : i \in Elems(at)}
  BY <1>1, <1>2, <1>4 DEF Elems
<1>6. {pending[i] : i \in Elems(at)} = kept
  BY <1>1 DEF Elems
<1> QED
  BY <1>4, <1>5, <1>6

\* A new request joins the pending ones that are left when one has made room for it.
LEMMA RequestPairKeeps ==
  ASSUME pending \in Seq(Requests), NEW r \in Requests, pending' = Append(Evict, r)
  PROVE  /\ pending' \in Seq(Requests)
         /\ Elems(pending') = Elems(Evict) \cup {r}
         /\ Elems(Evict) \subseteq Elems(pending)
<1>1. Evict \in Seq(Requests) /\ Elems(Evict) \subseteq Elems(pending)
  <2>1. CASE Len(pending) >= MaxPending
    <3>1. Evict = Tail(pending) /\ Len(pending) > 0
      BY <2>1, BoundsAssumption DEF Evict
    <3>2. /\ Tail(pending) \in Seq(Requests) /\ Len(Tail(pending)) = Len(pending) - 1
          /\ \A i \in 1..(Len(pending) - 1) : Tail(pending)[i] = pending[i + 1]
      BY <3>1
    <3> QED
      BY <3>1, <3>2 DEF Elems
  <2>2. CASE ~(Len(pending) >= MaxPending)
    BY <2>2 DEF Evict
  <2> QED
    BY <2>1, <2>2
<1> DEFINE s == Evict
<1>2. s \in Seq(Requests) /\ Elems(s) \subseteq Elems(pending) /\ pending' = Append(s, r)
  BY <1>1
<1> HIDE DEF s
<1>3. /\ pending' \in Seq(Requests) /\ Len(pending') = Len(s) + 1
      /\ pending'[Len(s) + 1] = r
      /\ \A i \in 1..Len(s) : pending'[i] = s[i]
  BY <1>2
<1>4. r \in Elems(pending')
  BY <1>2, <1>3 DEF Elems
<1>5. Elems(pending') \subseteq Elems(s) \cup {r}
  BY <1>2, <1>3 DEF Elems
<1>6. Elems(s) \subseteq Elems(pending')
  BY <1>2, <1>3 DEF Elems
<1> QED
  BY <1>1, <1>3, <1>4, <1>5, <1>6 DEF s

LEMMA NoneElems == Elems(<<>>) = {}
BY DEF Elems

LEMMA RegInitHolds == Init => RegInv
BY NoneElems DEF Init, RegInit, NoDevices, RegInv, AllDrawn, Undecided, RevokedStayOut,
                 NewestRequestWaits

\* A process that starts has no requests, no memory of revocations, and the devices of the file.
LEMMA LoadsKeeps ==
  ASSUME RegInv, NEW file, Loads(file), UNCHANGED drawn,
         DOMAIN file \subseteq drawn, settled' \subseteq drawn, DOMAIN disk' \subseteq DOMAIN file,
         settled' \cap DOMAIN file = {}
  PROVE  RegInv'
BY NoneElems DEF Loads, RegInv, AllDrawn, Undecided, RevokedStayOut, NewestRequestWaits

LEMMA RegStepKeeps == RegInv /\ RegNext => RegInv'
<1> SUFFICES ASSUME RegInv, RegNext PROVE RegInv'
  OBVIOUS
<1> USE DEF RegInv, AllDrawn, Undecided, RevokedStayOut, NewestRequestWaits
<1>1. ASSUME NEW r \in Requests, RequestPair(r) PROVE RegInv'
  <2>1. /\ pending' \in Seq(Requests) /\ Elems(pending') = Elems(Evict) \cup {r}
        /\ Elems(Evict) \subseteq Elems(pending)
    BY <1>1, RequestPairKeeps DEF RequestPair
  <2>2. Elems(pending') \subseteq pairingTokens'
    BY <1>1, <2>1 DEF RequestPair
  <2> QED
    BY <1>1, <2>1, <2>2 DEF RequestPair
<1>2. ASSUME NEW r \in Requests, Expires(r) PROVE RegInv'
  BY <1>2 DEF Expires, processVars
<1>3. CASE PrunePending
  <2>1. pending' \in Seq(Requests) /\ Elems(pending') = Elems(pending) \ stale
    BY <1>3, LeavesKeeps DEF PrunePending
  <2> QED
    BY <1>3, <2>1 DEF PrunePending
<1>4. ASSUME NEW r \in Requests, Approve(r) PROVE RegInv'
  <2>1. pending' \in Seq(Requests) /\ Elems(pending') = Elems(pending) \ {r}
    BY <1>4, LeavesKeeps DEF Approve
  <2>2. r \in Elems(pending) /\ DOMAIN trusted' = DOMAIN trusted \cup {r}
    BY <1>4 DEF Approve
  <2> QED
    BY <1>4, <2>1, <2>2 DEF Approve
<1>5. ASSUME NEW r \in Requests, Revoke(r) PROVE RegInv'
  <2>1. CASE r \in DOMAIN trusted
    <3>1. DOMAIN trusted' = DOMAIN trusted \ {r} /\ revokedSessions' = revokedSessions \cup {r}
      BY <1>5, <2>1 DEF Revoke, Without
    <3> QED
      BY <1>5, <2>1, <3>1 DEF Revoke
  <2>2. CASE r \notin DOMAIN trusted
    BY <1>5, <2>2 DEF Revoke
  <2> QED
    BY <2>1, <2>2
<1>6. ASSUME NEW r \in Requests, NEW P \in SUBSET Permissions, SetPermissions(r, P)
      PROVE  RegInv'
  <2>1. DOMAIN trusted' = DOMAIN trusted
    BY <1>6 DEF SetPermissions
  <2> QED
    BY <1>6, <2>1 DEF SetPermissions
<1>7. CASE Write
  <2>1. DOMAIN disk' = DOMAIN trusted /\ settled' = settled \cup revokedSessions
    BY <1>7 DEF Write, Digested
  <2> QED
    BY <1>7, <2>1 DEF Write, processVars
<1>8. CASE WriteFails
  BY <1>8 DEF WriteFails, processVars
<1>9. CASE Restart
  BY <1>9, LoadsKeeps DEF Restart, Loads
<1>10. CASE QuitWritten
  <2>1. DOMAIN Digested = DOMAIN trusted
    BY DEF Digested
  <2> QED
    BY <1>10, <2>1, LoadsKeeps DEF QuitWritten, Loads
<1>11. CASE IssuePairingCode
  BY <1>11 DEF IssuePairingCode
<1>12. CASE TornWrite
  <2>1. DOMAIN NoDevices = {}
    BY DEF NoDevices
  <2> QED
    BY <1>12, <2>1, LoadsKeeps DEF TornWrite, Loads
<1> QED
  BY <1>1, <1>2, <1>3, <1>4, <1>5, <1>6, <1>7, <1>8, <1>9, <1>10, <1>11, <1>12 DEF RegNext

LEMMA RegistryKeeps == RegInv /\ [Next]_vars => RegInv'
<1> SUFFICES ASSUME RegInv, [Next]_vars PROVE RegInv'
  OBVIOUS
<1>1. ASSUME UNCHANGED regVars PROVE RegInv'
  BY <1>1 DEF regVars, processVars, RegInv, AllDrawn, Undecided, RevokedStayOut,
              NewestRequestWaits
<1>2. CASE UNCHANGED vars
  BY <1>1, <1>2 DEF vars
<1>3. CASE RegistryStep
  BY <1>3, RegStepKeeps DEF RegistryStep
<1>4. ASSUME NEW c \in Conns,
             \/ Connects(c) \/ Hello(c) \/ Disconnects(c)
             \/ \E r \in Requests : Authenticate(c, r)
      PROVE  RegInv'
  BY <1>1, <1>4 DEF Connects, Hello, Disconnects, Authenticate
<1> QED
  BY <1>2, <1>3, <1>4 DEF Next

\* A revoked device stays out: no second approval brings it back in this process and, once a
\* write has succeeded after its revocation, no restart does, whatever fails or is cut short.
THEOREM RevocationIsFinal == Spec => []RevokedStayOut
<1>1. RegInv => RevokedStayOut
  BY DEF RegInv
<1> QED
  BY <1>1, RegInitHolds, RegistryKeeps, PTL DEF Spec

\* No request is lost to the others: the newest one is still there to be approved, whatever
\* the cap and the codes that the screen asks for, and no eviction takes another's token.
THEOREM NoRequestIsLost == Spec => []NewestRequestWaits
<1>1. RegInv => NewestRequestWaits
  BY DEF RegInv
<1> QED
  BY <1>1, RegInitHolds, RegistryKeeps, PTL DEF Spec
-----------------------------------------------------------------------------
(* Types.                                                                  *)

\* No request is pending twice: an id is drawn once.
Distinct(s) == \A i, j \in 1..Len(s) : s[i] = s[j] => i = j

RegTyped ==
  /\ trusted \in Registries /\ disk \in Registries
  /\ Len(pending) <= MaxPending /\ Distinct(pending)
  /\ stale \subseteq Requests /\ pairingTokens \subseteq Requests
  /\ revokedSessions \subseteq Requests /\ drawn \subseteq Requests
  /\ lastCode \in {{}} \cup {{x} : x \in Requests \cup {OwnCode}}
  /\ writes \in 0..MaxWrites
  /\ settled \subseteq Requests

SessionTyped ==
  /\ authChallenge \in [Conns -> Held]
  /\ echoed \in [Conns -> Held]
  /\ authenticated \subseteq Conns
  /\ granted \in [Conns -> SUBSET Permissions]
  /\ nonces \in [Conns -> 0..MaxHellos]

\* Elements that differ are as many as their places.
LEMMA DistinctCount ==
  ASSUME NEW s \in Seq(Requests), Distinct(s)
  PROVE  Cardinality(Elems(s)) = Len(s)
<1>1. Len(s) \in Nat /\ \A i \in 1..Len(s) : s[i] \in Elems(s)
  BY DEF Elems
<1> DEFINE f == [i \in 1..Len(s) |-> s[i]]
<1>2. f \in [1..Len(s) -> Elems(s)]
  BY <1>1
<1>3. \A i, j \in 1..Len(s) : f[i] = f[j] => i = j
  BY DEF Distinct
<1>4. \A e \in Elems(s) : \E i \in 1..Len(s) : f[i] = e
  BY DEF Elems
<1> HIDE DEF f
<1>5. f \in Bijection(1..Len(s), Elems(s))
  BY <1>2, <1>3, <1>4 DEF Bijection, Injection, Surjection, IsInjective
<1>6. ExistsBijection(1..Len(s), Elems(s))
  BY <1>5 DEF ExistsBijection
<1>7. IsFiniteSet(1..Len(s)) /\ Cardinality(1..Len(s)) = Len(s)
  <2>1. 1 \in Int /\ Len(s) \in Int /\ Len(s) >= 0
    BY <1>1
  <2>2. IsFiniteSet(1..Len(s)) /\ Cardinality(1..Len(s)) = IF 1 > Len(s) THEN 0 ELSE Len(s) - 1 + 1
    BY <2>1, FS_Interval
  <2> QED
    BY <1>1, <2>2
<1> QED
  BY <1>6, <1>7, FS_Bijection

\* The requests that stay keep their order, so that they still differ.
LEMMA LeavesDistinct ==
  ASSUME pending \in Seq(Requests), Distinct(pending), NEW kept, Leaves(kept)
  PROVE  Distinct(pending') /\ Len(pending') <= Len(pending)
<1>0. PICK n \in 0..Len(pending) : \E at \in [1..n -> 1..Len(pending)] :
        /\ \A i, j \in 1..n : i < j => at[i] < at[j]
        /\ pending' = [i \in 1..n |-> pending[at[i]]]
  BY DEF Leaves
<1>1. PICK at \in [1..n -> 1..Len(pending)] :
        /\ \A i, j \in 1..n : i < j => at[i] < at[j]
        /\ pending' = [i \in 1..n |-> pending[at[i]]]
  BY <1>0
<1>2. n \in Nat /\ Len(pending) \in Nat /\ n <= Len(pending)
  OBVIOUS
<1>3. Len(pending') = n
  BY <1>1, <1>2
<1>4. ASSUME NEW i \in 1..n, NEW j \in 1..n, pending'[i] = pending'[j] PROVE i = j
  <2>1. at[i] = at[j]
    BY <1>1, <1>4 DEF Distinct
  <2>2. at[i] \in Nat /\ at[j] \in Nat /\ i \in Nat /\ j \in Nat
    BY <1>1, <1>2
  <2> QED
    BY <1>1, <2>1, <2>2
<1> QED
  BY <1>2, <1>3, <1>4 DEF Distinct

\* A request that was not pending joins the others, one of which made room at the cap.
LEMMA RequestPairDistinct ==
  ASSUME pending \in Seq(Requests), Distinct(pending), Len(pending) <= MaxPending,
         NEW r \in Requests, r \notin Elems(pending), pending' = Append(Evict, r)
  PROVE  Distinct(pending') /\ Len(pending') <= MaxPending
<1> DEFINE s == Evict
<1>1. /\ s \in Seq(Requests) /\ Len(s) < MaxPending /\ Len(s) \in Nat
      /\ Distinct(s) /\ r \notin Elems(s)
  <2>0. Len(pending) \in Nat
    OBVIOUS
  <2>1. CASE Len(pending) >= MaxPending
    <3>1. s = Tail(pending) /\ Len(pending) > 0
      BY <2>1, BoundsAssumption DEF Evict
    <3>2. /\ Tail(pending) \in Seq(Requests) /\ Len(Tail(pending)) = Len(pending) - 1
          /\ \A i \in 1..(Len(pending) - 1) : Tail(pending)[i] = pending[i + 1]
      BY <3>1
    <3> HIDE DEF s
    <3>3. Len(s) < MaxPending /\ Len(s) \in Nat
      BY <2>0, <3>1, <3>2, BoundsAssumption
    <3>4. \A i \in 1..Len(s) : s[i] = pending[i + 1] /\ i + 1 \in 1..Len(pending)
      BY <2>0, <3>1, <3>2
    <3>5. Distinct(s)
      <4> SUFFICES ASSUME NEW i \in 1..Len(s), NEW j \in 1..Len(s), s[i] = s[j] PROVE i = j
        BY DEF Distinct
      <4>1. i + 1 = j + 1
        BY <3>4 DEF Distinct
      <4> QED
        BY <3>3, <4>1
    <3>6. r \notin Elems(s)
      BY <3>4 DEF Elems
    <3> QED
      BY <3>1, <3>2, <3>3, <3>5, <3>6
  <2>2. CASE ~(Len(pending) >= MaxPending)
    BY <2>0, <2>2, BoundsAssumption DEF Evict
  <2> QED
    BY <2>1, <2>2
<1>2. pending' = Append(s, r)
  OBVIOUS
<1> HIDE DEF s
<1>3. /\ Len(pending') = Len(s) + 1 /\ pending'[Len(s) + 1] = r
      /\ \A i \in 1..Len(s) : pending'[i] = s[i]
  BY <1>1, <1>2
<1>4. \A i \in 1..Len(s) : s[i] # r
  BY <1>1 DEF Elems
<1>5. \A i \in 1..Len(pending') : i = Len(s) + 1 \/ i \in 1..Len(s)
  BY <1>1, <1>3
<1>6. Distinct(pending')
  BY <1>1, <1>3, <1>4, <1>5 DEF Distinct
<1> QED
  BY <1>1, <1>3, <1>6, BoundsAssumption

LEMMA RegistryTypes ==
  /\ NoDevices \in Registries
  /\ \A f \in Registries : DOMAIN f \subseteq Requests /\ \A r \in DOMAIN f : f[r] \in Entry
  /\ \A D \in SUBSET Requests : \A f \in [D -> Entry] : f \in Registries
<1>1. NoDevices \in [{} -> Entry]
  BY DEF NoDevices
<1> QED
  BY <1>1 DEF Registries

LEMMA DigestedTyped ==
  ASSUME trusted \in Registries
  PROVE  Digested \in Registries
<1>1. DOMAIN trusted \in SUBSET Requests /\ \A r \in DOMAIN trusted : trusted[r] \in Entry
  BY RegistryTypes
<1>2. ASSUME NEW e \in Entry PROVE [e EXCEPT !.token = Digest(@)] \in Entry
  BY <1>2, BoundsAssumption DEF Entry, Digest
<1>3. Digested \in [DOMAIN trusted -> Entry]
  BY <1>1, <1>2 DEF Digested
<1> QED
  BY <1>1, <1>3, RegistryTypes

LEMMA RegTypedInit == Init => RegTyped
BY RegistryTypes, BoundsAssumption DEF Init, RegInit, RegTyped, Distinct

LEMMA LoadsTyped ==
  ASSUME RegTyped, NEW file \in Registries, Loads(file), disk' \in Registries,
         settled' \subseteq Requests
  PROVE  RegTyped'
<1>1. Len(pending') = 0 /\ Distinct(pending')
  BY DEF Loads, Distinct
<1> QED
  BY <1>1, BoundsAssumption DEF RegTyped, Loads

LEMMA RegTypedStep == RegInv /\ RegTyped /\ RegNext => RegTyped'
<1> SUFFICES ASSUME RegInv, RegTyped, RegNext PROVE RegTyped'
  OBVIOUS
<1>0. /\ pending \in Seq(Requests) /\ Distinct(pending) /\ Len(pending) <= MaxPending
      /\ trusted \in Registries /\ DOMAIN trusted \in SUBSET Requests
      /\ \A r \in DOMAIN trusted : trusted[r] \in Entry
  BY RegistryTypes DEF RegInv, RegTyped
<1> USE BoundsAssumption DEF RegTyped
<1>1. ASSUME NEW r \in Requests, RequestPair(r) PROVE RegTyped'
  <2>1. r \notin Elems(pending)
    BY <1>1 DEF RequestPair, RegInv, AllDrawn
  <2>2. Distinct(pending') /\ Len(pending') <= MaxPending
    BY <1>0, <1>1, <2>1, RequestPairDistinct DEF RequestPair
  <2> QED
    BY <1>1, <2>2 DEF RequestPair
<1>2. ASSUME NEW r \in Requests, Expires(r) PROVE RegTyped'
  BY <1>2 DEF Expires, processVars
<1>3. CASE PrunePending
  <2>1. Distinct(pending') /\ Len(pending') <= Len(pending) /\ Len(pending') \in Nat
    BY <1>0, <1>3, LeavesDistinct, LeavesKeeps DEF PrunePending
  <2>2. Len(pending') <= MaxPending
    BY <1>0, <2>1
  <2> QED
    BY <1>3, <2>1, <2>2 DEF PrunePending
<1>4. ASSUME NEW r \in Requests, Approve(r) PROVE RegTyped'
  <2>1. Distinct(pending') /\ Len(pending') <= Len(pending) /\ Len(pending') \in Nat
    BY <1>0, <1>4, LeavesDistinct, LeavesKeeps DEF Approve
  <2>2. Len(pending') <= MaxPending
    BY <1>0, <2>1
  <2>3. [token |-> 0, permissions |-> Defaults] \in Entry
    BY DefaultsAssumption DEF Entry
  <2>4. trusted' \in [DOMAIN trusted \cup {r} -> Entry]
    BY <1>0, <1>4, <2>3 DEF Approve
  <2>5. trusted' \in Registries
    BY <1>0, <2>4, RegistryTypes
  <2> QED
    BY <1>4, <2>1, <2>2, <2>5 DEF Approve
<1>5. ASSUME NEW r \in Requests, Revoke(r) PROVE RegTyped'
  <2>1. Without(trusted, r) \in [DOMAIN trusted \ {r} -> Entry]
    BY <1>0 DEF Without
  <2>2. Without(trusted, r) \in Registries
    BY <1>0, <2>1, RegistryTypes
  <2> QED
    BY <1>5, <2>2 DEF Revoke
<1>6. ASSUME NEW r \in Requests, NEW P \in SUBSET Permissions, SetPermissions(r, P)
      PROVE  RegTyped'
  <2>1. ASSUME NEW e \in Entry PROVE [e EXCEPT !.permissions = P] \in Entry
    BY <2>1 DEF Entry
  <2>2. trusted \in [DOMAIN trusted -> Entry]
    BY <1>0 DEF Registries
  <2>3. CASE r \in DOMAIN trusted
    <3>1. trusted' = [trusted EXCEPT ![r] = [trusted[r] EXCEPT !.permissions = P]]
      BY <1>6, <2>3 DEF SetPermissions
    <3>2. trusted' \in [DOMAIN trusted -> Entry]
      BY <1>0, <2>1, <2>2, <2>3, <3>1
    <3>3. trusted' \in Registries
      BY <1>0, <3>2, RegistryTypes
    <3>4. writes' \in 0..MaxWrites /\ UNCHANGED <<disk, pending>>
      BY <1>6 DEF SetPermissions
    <3>5. UNCHANGED <<stale, pairingTokens, revokedSessions, drawn, lastCode, settled>>
      BY <1>6 DEF SetPermissions
    <3> QED
      BY <3>3, <3>4, <3>5 DEF Distinct
  <2>4. CASE r \notin DOMAIN trusted
    BY <1>6, <2>4 DEF SetPermissions
  <2> QED
    BY <2>3, <2>4
<1>7. CASE Write
  BY <1>0, <1>7, DigestedTyped DEF Write, processVars
<1>8. CASE WriteFails
  BY <1>8 DEF WriteFails, processVars
<1>9. CASE Restart
  BY <1>9, LoadsTyped DEF Restart
<1>10. CASE QuitWritten
  BY <1>0, <1>10, DigestedTyped, LoadsTyped DEF QuitWritten
<1>11. CASE TornWrite
  BY <1>11, RegistryTypes, LoadsTyped DEF TornWrite
<1>12. CASE IssuePairingCode
  BY <1>12 DEF IssuePairingCode
<1> QED
  BY <1>1, <1>2, <1>3, <1>4, <1>5, <1>6, <1>7, <1>8, <1>9, <1>10, <1>11, <1>12 DEF RegNext

TypeInv == IInv /\ RegInv /\ RegTyped /\ SessionTyped

LEMMA TypeInit == Init => TypeInv
<1> SUFFICES ASSUME Init PROVE TypeInv
  OBVIOUS
<1>1. SessionTyped
  BY HellosAssumption DEF Init, SessionTyped, Held
<1> QED
  BY <1>1, InitHolds, RegInitHolds, RegTypedInit DEF TypeInv

LEMMA SessionTypedStep == IInv /\ RegTyped /\ SessionTyped /\ [Next]_vars => SessionTyped'
<1> SUFFICES ASSUME IInv, RegTyped, SessionTyped, [Next]_vars PROVE SessionTyped'
  OBVIOUS
<1> USE HellosAssumption DEF SessionTyped, Held
<1>1. CASE UNCHANGED vars \/ RegistryStep
  BY <1>1 DEF vars, connVars, RegistryStep
<1>2. ASSUME NEW c \in Conns, Connects(c) PROVE SessionTyped'
  BY <1>2 DEF Connects
<1>3. ASSUME NEW c \in Conns, Hello(c) PROVE SessionTyped'
  BY <1>3 DEF Hello
<1>4. ASSUME NEW c \in Conns, Disconnects(c) PROVE SessionTyped'
  BY <1>4 DEF Disconnects
<1>5. ASSUME NEW c \in Conns, NEW r \in Requests, Authenticate(c, r) PROVE SessionTyped'
  <2>1. CASE Answer(c, r) = "AuthOk"
    <3>1. r \in DOMAIN trusted /\ trusted[r].permissions \in SUBSET Permissions
      BY <2>1, RegistryTypes DEF Answer, VerifyAuthenticate, Verifies, RegTyped, Entry
    <3> QED
      BY <1>5, <2>1, <3>1 DEF Authenticate
  <2>2. CASE Answer(c, r) # "AuthOk"
    BY <1>5, <2>2 DEF Authenticate
  <2> QED
    BY <2>1, <2>2
<1> QED
  BY <1>1, <1>2, <1>3, <1>4, <1>5 DEF Next

LEMMA TypeStep == TypeInv /\ [Next]_vars => TypeInv'
<1> SUFFICES ASSUME TypeInv, [Next]_vars PROVE TypeInv'
  OBVIOUS
<1>1. IInv' /\ RegInv' /\ SessionTyped'
  BY StepKeeps, RegistryKeeps, SessionTypedStep DEF TypeInv
<1>2. ASSUME UNCHANGED regVars PROVE RegTyped'
  BY <1>2 DEF TypeInv, RegTyped, Distinct, regVars, processVars
<1>3. RegTyped'
  BY <1>2, RegTypedStep DEF TypeInv, Next, RegistryStep, Connects, Hello, Disconnects,
     Authenticate, vars
<1> QED
  BY <1>1, <1>3 DEF TypeInv

\* The registry and the connections keep their types, for any bounds: no more requests
\* are pending than the cap allows, none of them twice.
THEOREM TypeCorrect == Spec => []TypeOK
<1>1. TypeInv => TypeOK
  <2> SUFFICES ASSUME TypeInv PROVE TypeOK
    OBVIOUS
  <2>1. Elems(pending) \subseteq Requests
    BY DEF TypeInv, RegInv, Elems
  <2>2. Cardinality(Elems(pending)) = Len(pending)
    BY DistinctCount DEF TypeInv, RegInv, RegTyped
  <2>3. RegTypeOK
    BY <2>1, <2>2 DEF TypeInv, RegTyped, RegTypeOK
  <2> QED
    BY <2>3 DEF TypeInv, IInv, ConnTyped, SessionTyped, TypeOK
<1> QED
  BY <1>1, TypeInit, TypeStep, PTL DEF Spec
=============================================================================
