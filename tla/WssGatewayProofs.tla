-------------------------- MODULE WssGatewayProofs --------------------------
(***************************************************************************)
(* Theorems about WssGateway, for any finite set of connections, any       *)
(* addresses and any limits.                                               *)
(***************************************************************************)
EXTENDS WssGateway, FiniteSetTheorems, TLAPS

SocketTyped == socket \in [Conns -> {"closed", "open", "closing", "failed"}]

\* SessionPerSocket is inductive: each way in and out of "open" keeps its half.
IInv == SocketTyped /\ SessionPerSocket

-----------------------------------------------------------------------------
LEMMA InitIInv == Init => IInv
  BY DEF Init, IInv, SocketTyped, SessionPerSocket

\* close() of one socket: an open one keeps its session, another one loses it.
LEMMA CloseIInv ==
  ASSUME IInv, NEW c \in Conns, Close(c), UNCHANGED socket
  PROVE  IInv'
  <1>1. CASE socket[c] = "open"
    BY <1>1 DEF Close, IInv, SocketTyped, SessionPerSocket
  <1>2. CASE socket[c] # "open"
    BY <1>2 DEF Close, IInv, SocketTyped, SessionPerSocket
  <1> QED
    BY <1>1, <1>2

LEMMA NextIInv == IInv /\ [Next]_vars => IInv'
  <1> SUFFICES ASSUME IInv, [Next]_vars PROVE IInv'
    OBVIOUS
  <1>1. ASSUME UNCHANGED <<socket, sessions>> PROVE IInv'
    BY <1>1 DEF IInv, SocketTyped, SessionPerSocket
  <1>2. CASE UNCHANGED vars
    BY <1>1, <1>2 DEF vars
  <1>3. CASE StartFinishes \/ Stop \/ StopEnds
    BY <1>1, <1>3 DEF StartFinishes, Stop, StopEnds
  <1>4. ASSUME NEW a \in Addresses, FailuresExpire(a) \/ BanExpires(a) PROVE IInv'
    BY <1>1, <1>4 DEF FailuresExpire, BanExpires
  <1>5. ASSUME NEW c \in Conns, NEW a \in Addresses, Accept(c, a) PROVE IInv'
    <2>1. socket' = [socket EXCEPT ![c] = "open"] /\ sessions' = sessions \cup {c}
      BY <1>5 DEF Accept
    <2> QED
      BY <2>1 DEF IInv, SocketTyped, SessionPerSocket
  <1>6. ASSUME NEW c \in Conns,
               Authenticate(c) \/ RecordAuthFailure(c) \/ Frame(c) \/ Ping(c)
        PROVE  IInv'
    BY <1>1, <1>6 DEF Authenticate, RecordAuthFailure, Frame, Ping
  <1>7. ASSUME NEW c \in Conns, CloseRequested(c) PROVE IInv'
    BY <1>7, CloseIInv DEF CloseRequested
  <1>8. ASSUME NEW c \in Conns, PeerCloses(c) PROVE IInv'
    <2>1. /\ socket[c] = "open"
          /\ socket' = [socket EXCEPT ![c] = "closing"]
          /\ sessions' = sessions
      BY <1>8 DEF PeerCloses
    <2> QED
      BY <2>1 DEF IInv, SocketTyped, SessionPerSocket
  <1>9. ASSUME NEW c \in Conns, SocketClosed(c) PROVE IInv'
    <2>1. socket' = [socket EXCEPT ![c] = "closed"] /\ sessions' = sessions \ {c}
      BY <1>9 DEF SocketClosed
    <2> QED
      BY <2>1 DEF IInv, SocketTyped, SessionPerSocket
  <1>10. ASSUME NEW c \in Conns, SocketError(c) PROVE IInv'
    <2>1. socket' = [socket EXCEPT ![c] = "failed"] /\ sessions' = sessions \ {c}
      BY <1>10 DEF SocketError
    <2> QED
      BY <2>1 DEF IInv, SocketTyped, SessionPerSocket
  <1>11. ASSUME NEW c \in Conns, Watchdog(c) PROVE IInv'
    <2>1. UNCHANGED socket /\ (Close(c) \/ UNCHANGED sessions)
      BY <1>11 DEF Watchdog
    <2> QED
      BY <1>1, <2>1, CloseIInv
  <1>12. ASSUME NEW c \in Conns, Flush(c) PROVE IInv'
    <2>1. sessions' = sessions \ {c}
      BY <1>12 DEF Flush
    <2>2. CASE socket[c] = "open"
      <3>1. socket' = [socket EXCEPT ![c] = "closing"]
        BY <1>12, <2>2 DEF Flush
      <3> QED
        BY <2>1, <3>1 DEF IInv, SocketTyped, SessionPerSocket
    <2>3. CASE socket[c] # "open"
      <3>1. socket' = socket
        BY <1>12, <2>3 DEF Flush
      <3> QED
        BY <2>1, <2>3, <3>1 DEF IInv, SocketTyped, SessionPerSocket
    <2> QED
      BY <2>2, <2>3
  <1>13. ASSUME NEW c \in Conns, ScheduledClose(c) PROVE IInv'
    BY <1>13, CloseIInv DEF ScheduledClose
  <1> QED
    BY <1>2, <1>3, <1>4, <1>5, <1>6, <1>7, <1>8, <1>9, <1>10, <1>11, <1>12, <1>13 DEF Next

\* However errors, closes, watchdogs, revocations and shutdown interleave, an open
\* socket has its session and a session has a socket that is not gone.
THEOREM SessionsMatchSockets == Spec => []SessionPerSocket
  <1>1. IInv => SessionPerSocket
    BY DEF IInv
  <1> QED
    BY <1>1, InitIInv, NextIInv, PTL DEF Spec

-----------------------------------------------------------------------------
(* The count of an address.                                                *)

\* The sockets that an address has and that have not closed.
Held(a) == {c \in Conns : socket[c] # "closed" /\ address[c] = a}

CountInv ==
  /\ SocketTyped
  /\ address \in [Conns -> Addresses]
  /\ connectionsPerIp \in [Addresses -> Nat]
  /\ \A a \in Addresses : connectionsPerIp[a] <= Cardinality(Held(a))

LEMMA HeldIsFinite ==
  ASSUME NEW a
  PROVE  IsFiniteSet(Held(a)) /\ Cardinality(Held(a)) \in Nat
  <1>1. Held(a) \in SUBSET Conns
    BY DEF Held
  <1> QED
    BY <1>1, ConnsAssumption, FS_Subset, FS_CardinalityType

LEMMA InitCountInv == Init => CountInv
  <1> SUFFICES ASSUME Init PROVE CountInv
    OBVIOUS
  <1>1. SocketTyped /\ address \in [Conns -> Addresses]
    BY DEF Init, SocketTyped
  <1>2. connectionsPerIp \in [Addresses -> Nat] /\ \A a \in Addresses : connectionsPerIp[a] = 0
    BY DEF Init
  <1>3. \A a \in Addresses : connectionsPerIp[a] <= Cardinality(Held(a))
    BY <1>2, HeldIsFinite
  <1> QED
    BY <1>1, <1>2, <1>3 DEF CountInv

\* A step that closes no socket may lower the counts, as a ban or an error event does.
LEMMA CountMayFall ==
  ASSUME CountInv, SocketTyped', UNCHANGED address,
         \A c \in Conns : socket'[c] = "closed" <=> socket[c] = "closed",
         connectionsPerIp' \in [Addresses -> Nat],
         \A a \in Addresses : connectionsPerIp'[a] <= connectionsPerIp[a]
  PROVE  CountInv'
  <1>1. \A a \in Addresses : Held(a)' = Held(a)
    BY DEF Held
  <1>2. ASSUME NEW a \in Addresses PROVE connectionsPerIp'[a] <= Cardinality(Held(a)')
    <2>1. Cardinality(Held(a)') \in Nat /\ connectionsPerIp[a] <= Cardinality(Held(a)')
      BY <1>1, HeldIsFinite DEF CountInv
    <2> QED
      BY <2>1 DEF CountInv
  <1> QED
    BY <1>2 DEF CountInv

\* What one event takes off a count, and that it stays a number.
LEMMA DecrementTakesOne ==
  ASSUME CountInv, NEW c \in Conns, DecrementIpCount(c)
  PROVE  /\ connectionsPerIp' \in [Addresses -> Nat]
         /\ \A a \in Addresses : connectionsPerIp'[a] <= connectionsPerIp[a]
         /\ \/ connectionsPerIp'[address[c]] = 0
            \/ connectionsPerIp'[address[c]] = connectionsPerIp[address[c]] - 1
  <1> DEFINE n == IF connectionsPerIp[address[c]] <= 1 THEN 0
                  ELSE connectionsPerIp[address[c]] - 1
  <1>1. address[c] \in Addresses /\ connectionsPerIp[address[c]] \in Nat
    BY DEF CountInv
  <1>2. n \in Nat /\ n <= connectionsPerIp[address[c]]
        /\ (n = 0 \/ n = connectionsPerIp[address[c]] - 1)
    BY <1>1
  <1>3. connectionsPerIp' = [connectionsPerIp EXCEPT ![address[c]] = n]
    BY DEF DecrementIpCount
  <1> HIDE DEF n
  <1> QED
    BY <1>1, <1>2, <1>3 DEF CountInv

\* A socket that closes leaves one socket less, and at least one less in the count.
LEMMA CloseCounts == ASSUME CountInv, NEW c \in Conns, SocketClosed(c) PROVE CountInv'
  <1>1. /\ socket[c] # "closed" /\ socket' = [socket EXCEPT ![c] = "closed"]
        /\ UNCHANGED address /\ DecrementIpCount(c)
    BY DEF SocketClosed
  <1>2. /\ connectionsPerIp' \in [Addresses -> Nat]
        /\ \A a \in Addresses : connectionsPerIp'[a] <= connectionsPerIp[a]
        /\ \/ connectionsPerIp'[address[c]] = 0
           \/ connectionsPerIp'[address[c]] = connectionsPerIp[address[c]] - 1
    BY <1>1, DecrementTakesOne
  <1>3. ASSUME NEW a \in Addresses PROVE connectionsPerIp'[a] <= Cardinality(Held(a)')
    <2>1. CASE a = address[c]
      <3>1. Held(a)' = Held(a) \ {c} /\ c \in Held(a)
        BY <1>1, <2>1 DEF Held, CountInv, SocketTyped
      <3>2. /\ Cardinality(Held(a)') = Cardinality(Held(a)) - 1
            /\ Cardinality(Held(a)') \in Nat /\ Cardinality(Held(a)) \in Nat
        BY <3>1, HeldIsFinite, FS_RemoveElement, FS_CardinalityType
      <3> QED
        BY <1>2, <2>1, <3>2 DEF CountInv
    <2>2. CASE a # address[c]
      <3>1. Held(a)' = Held(a)
        BY <1>1, <2>2 DEF Held, CountInv, SocketTyped
      <3>2. Cardinality(Held(a)) \in Nat
        BY HeldIsFinite
      <3> QED
        BY <1>2, <3>1, <3>2 DEF CountInv
    <2> QED
      BY <2>1, <2>2
  <1>4. SocketTyped'
    BY <1>1 DEF CountInv, SocketTyped
  <1> QED
    BY <1>1, <1>2, <1>3, <1>4 DEF CountInv

\* A socket that is admitted is one more on both sides.
LEMMA AcceptCounts ==
  ASSUME CountInv, NEW c \in Conns, NEW a \in Addresses, Accept(c, a)
  PROVE  CountInv'
  <1>1. /\ socket[c] = "closed" /\ socket' = [socket EXCEPT ![c] = "open"]
        /\ address' = [address EXCEPT ![c] = a]
        /\ connectionsPerIp' = [connectionsPerIp EXCEPT ![a] = @ + 1]
    BY DEF Accept
  <1>2. ASSUME NEW b \in Addresses PROVE connectionsPerIp'[b] <= Cardinality(Held(b)')
    <2>1. CASE b = a
      <3>1. Held(b)' = Held(b) \cup {c} /\ c \notin Held(b)
        BY <1>1, <2>1 DEF Held, CountInv, SocketTyped
      <3>2. /\ Cardinality(Held(b)') = Cardinality(Held(b)) + 1
            /\ Cardinality(Held(b)) \in Nat
        BY <3>1, HeldIsFinite, FS_AddElement
      <3> QED
        BY <1>1, <2>1, <3>2 DEF CountInv
    <2>2. CASE b # a
      <3>1. Held(b)' = Held(b)
        BY <1>1, <2>2 DEF Held, CountInv, SocketTyped
      <3> QED
        BY <1>1, <2>2, <3>1 DEF CountInv
    <2> QED
      BY <2>1, <2>2
  <1>3. SocketTyped' /\ address' \in [Conns -> Addresses]
        /\ connectionsPerIp' \in [Addresses -> Nat]
    BY <1>1 DEF CountInv, SocketTyped
  <1> QED
    BY <1>2, <1>3 DEF CountInv

LEMMA NextCountInv == CountInv /\ [Next]_vars => CountInv'
  <1> SUFFICES ASSUME CountInv, [Next]_vars PROVE CountInv'
    OBVIOUS
  <1>1. ASSUME UNCHANGED <<socket, address, connectionsPerIp>> PROVE CountInv'
    BY <1>1 DEF CountInv, SocketTyped, Held
  <1>2. CASE UNCHANGED vars
    BY <1>1, <1>2 DEF vars, ipVars
  <1>3. CASE StartFinishes \/ Stop \/ StopEnds
    BY <1>1, <1>3 DEF StartFinishes, Stop, StopEnds, ipVars
  <1>4. ASSUME NEW a \in Addresses, FailuresExpire(a) \/ BanExpires(a) PROVE CountInv'
    BY <1>1, <1>4 DEF FailuresExpire, BanExpires
  <1>5. ASSUME NEW c \in Conns, NEW a \in Addresses, Accept(c, a) PROVE CountInv'
    BY <1>5, AcceptCounts
  <1>6. ASSUME NEW c \in Conns,
               \/ Authenticate(c) \/ Frame(c) \/ Ping(c) \/ Watchdog(c)
               \/ CloseRequested(c) \/ ScheduledClose(c)
        PROVE  CountInv'
    BY <1>1, <1>6 DEF Authenticate, Frame, Ping, Watchdog, CloseRequested, ScheduledClose, ipVars
  <1>7. ASSUME NEW c \in Conns, RecordAuthFailure(c) PROVE CountInv'
    <2>1. UNCHANGED <<socket, address>> /\ address[c] \in Addresses
      BY <1>7 DEF RecordAuthFailure, CountInv
    <2>2. CASE UNCHANGED connectionsPerIp
      BY <1>1, <2>1, <2>2
    <2>3. CASE connectionsPerIp' = [connectionsPerIp EXCEPT ![address[c]] = 0]
      <3>1. /\ connectionsPerIp' \in [Addresses -> Nat]
            /\ \A a \in Addresses : connectionsPerIp'[a] <= connectionsPerIp[a]
        BY <2>1, <2>3 DEF CountInv
      <3> QED
        BY <2>1, <3>1, CountMayFall DEF CountInv, SocketTyped
    <2> QED
      BY <1>7, <2>2, <2>3 DEF RecordAuthFailure
  <1>8. ASSUME NEW c \in Conns, PeerCloses(c) \/ Flush(c) PROVE CountInv'
    <2>1. /\ UNCHANGED <<address, connectionsPerIp>>
          /\ socket' = socket \/ (socket[c] = "open" /\ socket' = [socket EXCEPT ![c] = "closing"])
      BY <1>8 DEF PeerCloses, Flush, ipVars
    <2>2. SocketTyped' /\ \A d \in Conns : socket'[d] = "closed" <=> socket[d] = "closed"
      BY <2>1 DEF CountInv, SocketTyped
    <2> QED
      BY <2>1, <2>2, CountMayFall DEF CountInv
  <1>9. ASSUME NEW c \in Conns, SocketClosed(c) PROVE CountInv'
    BY <1>9, CloseCounts
  <1>10. ASSUME NEW c \in Conns, SocketError(c) PROVE CountInv'
    <2>1. /\ UNCHANGED address /\ DecrementIpCount(c)
          /\ socket[c] # "closed" /\ socket' = [socket EXCEPT ![c] = "failed"]
      BY <1>10 DEF SocketError
    <2>2. SocketTyped' /\ \A d \in Conns : socket'[d] = "closed" <=> socket[d] = "closed"
      BY <2>1 DEF CountInv, SocketTyped
    <2> QED
      BY <2>1, <2>2, DecrementTakesOne, CountMayFall
  <1> QED
    BY <1>2, <1>3, <1>4, <1>5, <1>6, <1>7, <1>8, <1>9, <1>10 DEF Next

\* Errors and closes count a socket down twice, and a ban forgets a count: all of it errs
\* to the side of admitting, so that no address is refused for sockets it does not hold.
THEOREM CountIsModest == Spec => []CountNeverOverstates
  <1>1. CountInv => CountNeverOverstates
    BY DEF CountInv, CountNeverOverstates, Held
  <1> QED
    BY <1>1, InitCountInv, NextCountInv, PTL DEF Spec

-----------------------------------------------------------------------------
LEMMA InitTypes == Init => TypeOK
  <1> SUFFICES ASSUME Init PROVE TypeOK
    OBVIOUS
  <1>1. /\ gateway = "starting" /\ wired = FALSE /\ serving = TRUE /\ stopTimers \in 0..MaxStops
        /\ socket \in [Conns -> {"closed", "open", "closing", "failed"}]
        /\ address \in [Conns -> Addresses]
    BY LimitAssumption DEF Init
  <1>2. /\ sessions = {} /\ authenticated = {} /\ closing = {} /\ doomed = {} /\ ipAuthBans = {}
        /\ connectionsPerIp \in [Addresses -> 0..MaxPerIp]
        /\ ipAuthFailures \in [Addresses -> 0..BanThreshold]
    BY LimitAssumption DEF Init
  <1>3. /\ age \in [Conns -> 0..AuthTicks] /\ idle \in [Conns -> 0..SilenceTicks]
        /\ missedPongs \in [Conns -> 0..(MaxMissed + 1)]
    BY LimitAssumption DEF Init
  <1> QED
    BY <1>1, <1>2, <1>3 DEF TypeOK

LEMMA DecrementTypes ==
  ASSUME TypeOK, NEW c \in Conns, DecrementIpCount(c)
  PROVE  connectionsPerIp' \in [Addresses -> 0..MaxPerIp]
  BY LimitAssumption DEF DecrementIpCount, TypeOK

LEMMA ForgetTypes ==
  ASSUME TypeOK, NEW c \in Conns, Forget(c)
  PROVE  /\ authenticated' \subseteq Conns
         /\ age' \in [Conns -> 0..AuthTicks]
         /\ idle' \in [Conns -> 0..SilenceTicks]
         /\ missedPongs' \in [Conns -> 0..(MaxMissed + 1)]
  BY LimitAssumption DEF Forget, TypeOK

LEMMA CloseTypes ==
  ASSUME TypeOK, NEW c \in Conns, Close(c)
  PROVE  sessions' \subseteq Conns /\ closing' \subseteq Conns
  BY DEF Close, TypeOK

LEMMA WatchdogTypes ==
  ASSUME TypeOK, NEW c \in Conns, Watchdog(c)
  PROVE  TypeOK'
  <1>1. \A m, n \in Nat : Least(m, n) \in 0..n
    BY DEF Least
  <1>2. /\ age[c] + 1 \in Nat /\ idle[c] + 1 \in Nat /\ missedPongs[c] + 1 \in Nat
        /\ AuthTicks \in Nat /\ SilenceTicks \in Nat /\ MaxMissed + 1 \in Nat
    BY LimitAssumption DEF TypeOK
  <1>3. age' \in [Conns -> 0..AuthTicks] /\ idle' \in [Conns -> 0..SilenceTicks]
    BY <1>1, <1>2 DEF Watchdog, TypeOK
  <1>4. missedPongs' \in [Conns -> 0..(MaxMissed + 1)]
    <2> DEFINE missed == Least(missedPongs[c] + 1, MaxMissed + 1)
    <2>1. missed \in 0..(MaxMissed + 1)
      BY <1>1, <1>2
    <2>2. missedPongs' = missedPongs \/ missedPongs' = [missedPongs EXCEPT ![c] = missed]
      BY DEF Watchdog
    <2> HIDE DEF missed
    <2> QED
      BY <2>1, <2>2 DEF TypeOK
  <1>5. sessions' \subseteq Conns /\ closing' \subseteq Conns
    BY CloseTypes DEF Watchdog, TypeOK
  <1> QED
    BY <1>3, <1>4, <1>5 DEF Watchdog, TypeOK, hostVars, ipVars

LEMMA NextTypes == TypeOK /\ [Next]_vars => TypeOK'
  <1> SUFFICES ASSUME TypeOK, [Next]_vars PROVE TypeOK'
    OBVIOUS
  <1>1. CASE UNCHANGED vars
    BY <1>1 DEF vars, TypeOK, hostVars, ipVars, healthVars
  <1>2. CASE StartFinishes \/ Stop \/ StopEnds
    <2>1. stopTimers' \in 0..MaxStops
      BY <1>2, LimitAssumption DEF StartFinishes, Stop, StopEnds, TypeOK
    <2>2. /\ gateway' \in {"starting", "listening", "draining", "stopped"}
          /\ {wired', serving'} \subseteq BOOLEAN
          /\ doomed' \subseteq Conns
      BY <1>2 DEF StartFinishes, Stop, StopEnds, TypeOK
    <2>3. UNCHANGED <<ipVars, healthVars, socket, address, sessions, authenticated, closing>>
      BY <1>2 DEF StartFinishes, Stop, StopEnds
    <2> QED
      BY <2>1, <2>2, <2>3 DEF TypeOK, ipVars, healthVars
  <1>3. ASSUME NEW a \in Addresses, FailuresExpire(a) \/ BanExpires(a) PROVE TypeOK'
    BY <1>3, LimitAssumption DEF FailuresExpire, BanExpires, TypeOK, hostVars, healthVars
  <1>4. ASSUME NEW c \in Conns, NEW a \in Addresses, Accept(c, a) PROVE TypeOK'
    <2>1. connectionsPerIp' \in [Addresses -> 0..MaxPerIp]
      BY <1>4, LimitAssumption DEF Accept, TypeOK
    <2> QED
      BY <1>4, <2>1, LimitAssumption DEF Accept, TypeOK, hostVars
  <1>5. ASSUME NEW c \in Conns, Authenticate(c) \/ Frame(c) \/ Ping(c) PROVE TypeOK'
    BY <1>5, LimitAssumption DEF Authenticate, Frame, Ping, TypeOK, hostVars, ipVars, healthVars
  <1>6. ASSUME NEW c \in Conns, RecordAuthFailure(c) PROVE TypeOK'
    <2>1. ipAuthFailures' \in [Addresses -> 0..BanThreshold]
      BY <1>6, LimitAssumption DEF RecordAuthFailure, TypeOK
    <2>2. connectionsPerIp' \in [Addresses -> 0..MaxPerIp] /\ ipAuthBans' \subseteq Addresses
      BY <1>6, LimitAssumption DEF RecordAuthFailure, TypeOK
    <2> QED
      BY <1>6, <2>1, <2>2 DEF RecordAuthFailure, TypeOK, hostVars, healthVars
  <1>7. ASSUME NEW c \in Conns, CloseRequested(c) \/ ScheduledClose(c) PROVE TypeOK'
    BY <1>7, CloseTypes DEF CloseRequested, ScheduledClose, TypeOK, hostVars, ipVars, healthVars
  <1>8. ASSUME NEW c \in Conns, PeerCloses(c) \/ Flush(c) PROVE TypeOK'
    BY <1>8 DEF PeerCloses, Flush, TypeOK, hostVars, ipVars, healthVars
  <1>9. ASSUME NEW c \in Conns, SocketClosed(c) PROVE TypeOK'
    BY <1>9, DecrementTypes, ForgetTypes DEF SocketClosed, TypeOK, hostVars
  <1>10. ASSUME NEW c \in Conns, SocketError(c) PROVE TypeOK'
    BY <1>10, DecrementTypes DEF SocketError, TypeOK, hostVars, healthVars
  <1>11. ASSUME NEW c \in Conns, Watchdog(c) PROVE TypeOK'
    BY <1>11, WatchdogTypes
  <1> QED
    BY <1>1, <1>2, <1>3, <1>4, <1>5, <1>6, <1>7, <1>8, <1>9, <1>10, <1>11 DEF Next

\* The variables of the gateway keep their types and their counters their limits.
THEOREM TypeCorrect == Spec => []TypeOK
  BY InitTypes, NextTypes, PTL DEF Spec
=============================================================================
