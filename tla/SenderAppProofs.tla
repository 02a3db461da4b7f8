-------------------------- MODULE SenderAppProofs --------------------------
(***************************************************************************)
(* Proofs about the sender's connection, for any sockets, any limit of     *)
(* missed Pongs and any options, and about the application around it, for  *)
(* any devices and any number of storage calls under way.                  *)
(***************************************************************************)
EXTENDS SenderApp, SequenceTheorems, TLAPS

-----------------------------------------------------------------------------
(* The connection.                                                         *)

\* dispose() clears the backoff timer and nothing arms it again: it is the one timer
\* that opens a socket, and its callback does not look at disposed.
DisposedIsIdle == disposed => ~reconnectTimer

ClientInv == TypeOK /\ KeepsTrying /\ DisposedIsIdle

LEMMA ClientInit == Init => ClientInv
<1> SUFFICES ASSUME Init PROVE ClientInv
  OBVIOUS
<1>1. missedPongs \in 0..(MissedPongLimit + 1) /\ unanswered \in 0..MissedPongLimit
  BY LimitAssumption DEF Init
<1>2. /\ ready \in [Conns -> {"connecting", "open", "closing", "closed"}]
      /\ inbound \in [Conns -> SUBSET Answers]
  BY DEF Init
<1>3. TypeOK
  BY <1>1, <1>2 DEF Init, TypeOK, States
<1> QED
  BY <1>3 DEF Init, ClientInv, KeepsTrying, DisposedIsIdle

\* What counts pings stays within its limit.
LEMMA UpToBounds ==
  ASSUME NEW limit \in Nat, NEW n \in Nat
  PROVE  UpTo(n, limit) \in 0..limit
BY DEF UpTo

LEMMA UserKeeps == ClientInv /\ UserStep => ClientInv'
<1> SUFFICES ASSUME ClientInv, UserStep PROVE ClientInv'
  OBVIOUS
<1> USE SocketAssumption, LimitAssumption DEF ClientInv, TypeOK, States, KeepsTrying, DisposedIsIdle
<1>1. CASE ConnectThrows
  BY <1>1 DEF ConnectThrows, socketVars, Live
<1>2. CASE DisconnectGracefully
  BY <1>2 DEF DisconnectGracefully, socketVars, Live
<1>3. CASE Dispose
  BY <1>3 DEF Dispose, CloseSocket
<1>4. ASSUME NEW c \in Conns, Connect(c) PROVE ClientInv'
  BY <1>4 DEF Connect, OpenSocket
<1> QED
  BY <1>1, <1>2, <1>3, <1>4 DEF UserStep

LEMMA NetworkKeeps == ClientInv /\ NetworkStep => ClientInv'
<1> SUFFICES ASSUME ClientInv, NEW c \in Conns,
                    \/ SocketOpens(c) \/ PinMismatch(c)
                    \/ \E fatal \in BOOLEAN : SocketCloses(c, fatal)
             PROVE  ClientInv'
  BY DEF NetworkStep
<1> USE SocketAssumption, LimitAssumption DEF ClientInv, TypeOK, States, KeepsTrying, DisposedIsIdle
<1>1. CASE SocketOpens(c)
  BY <1>1 DEF SocketOpens, Live, IsOpen, Answers
<1>2. CASE PinMismatch(c)
  BY <1>2 DEF PinMismatch, Live, timerVars
<1>3. ASSUME NEW fatal \in BOOLEAN, SocketCloses(c, fatal) PROVE ClientInv'
  BY <1>3 DEF SocketCloses, ScheduleReconnect
<1> QED
  BY <1>1, <1>2, <1>3

LEMMA HandlerKeeps ==
  ASSUME ClientInv, NEW c \in Conns, Handle(c)
  PROVE  ClientInv'
<1> USE SocketAssumption, LimitAssumption DEF ClientInv, TypeOK, States, KeepsTrying, DisposedIsIdle
<1>1. CASE HandleAuthOk(c)
  BY <1>1 DEF HandleAuthOk, Decoded, timerVars
<1>2. CASE HandleAuthFailed(c)
  BY <1>2 DEF HandleAuthFailed, Decoded, timerVars, CloseSocket, Live
<1>3. CASE HandlePong(c)
  BY <1>3 DEF HandlePong, Decoded, Live
<1>4. ASSUME NEW authRequired \in BOOLEAN, HandleHelloAck(c, authRequired) PROVE ClientInv'
  BY <1>4 DEF HandleHelloAck, SendAuthenticate, IsOpen, Answers
<1> QED
  BY <1>1, <1>2, <1>3, <1>4 DEF Handle

LEMMA TimerKeeps == ClientInv /\ TimerStep => ClientInv'
<1> SUFFICES ASSUME ClientInv, TimerStep PROVE ClientInv'
  OBVIOUS
<1> USE SocketAssumption, LimitAssumption DEF ClientInv, TypeOK, States, KeepsTrying, DisposedIsIdle
<1>1. CASE ReconnectThrows
  BY <1>1 DEF ReconnectThrows, ScheduleReconnect, socketVars
<1>2. CASE HelloTimer
  BY <1>2 DEF HelloTimer, SendHello, Send, IsOpen, Answers
<1>3. CASE EchoTimer
  BY <1>3 DEF EchoTimer, CloseSocket, Live
<1>4. CASE TickPing
  <2>1. unanswered' \in 0..MissedPongLimit /\ missedPongs' \in 0..(MissedPongLimit + 1)
    BY <1>4, UpToBounds DEF TickPing
  <2>2. inbound' \in [Conns -> SUBSET Answers]
    BY <1>4 DEF TickPing, Send, IsOpen, Answers
  <2>3. /\ ready' \in [Conns -> {"connecting", "open", "closing", "closed"}]
        /\ socket # NoSocket => socket \in Conns /\ ready'[socket] # "closed"
    BY <1>4 DEF TickPing, CloseSocket
  <2> QED
    BY <1>4, <2>1, <2>2, <2>3 DEF TickPing, Live
<1>5. ASSUME NEW c \in Conns, ReconnectTimer(c) PROVE ClientInv'
  <2>1. TypeOK'
    <3>1. /\ ready' \in [Conns -> {"connecting", "open", "closing", "closed"}]
          /\ socket' \in Conns /\ ready'[socket'] # "closed"
      BY <1>5 DEF ReconnectTimer, OpenSocket
    <3>2. inbound' \in [Conns -> SUBSET Answers]
      BY <1>5 DEF ReconnectTimer, OpenSocket
    <3>3. unanswered' \in 0..MissedPongLimit
      BY <1>5 DEF ReconnectTimer, OpenSocket
    <3> QED
      BY <1>5, <3>1, <3>2, <3>3 DEF ReconnectTimer
  <2>2. Live(socket)'
    BY <1>5 DEF ReconnectTimer, OpenSocket, Live
  <2>3. DisposedIsIdle'
    BY <1>5 DEF ReconnectTimer
  <2> QED
    BY <2>1, <2>2, <2>3
<1> QED
  BY <1>1, <1>2, <1>3, <1>4, <1>5 DEF TimerStep

LEMMA ClientKeeps == ClientInv /\ [Next]_vars => ClientInv'
<1>1. ClientInv /\ UNCHANGED vars => ClientInv'
  BY DEF ClientInv, TypeOK, KeepsTrying, DisposedIsIdle, Live, vars, timerVars, socketVars
<1> QED
  BY <1>1, UserKeeps, NetworkKeeps, HandlerKeeps, TimerKeeps DEF Next

\* The fields of a client keep their types, and the current socket is never one that has
\* closed.
THEOREM TypeCorrect == Spec => []TypeOK
<1>1. ClientInv => TypeOK
  BY DEF ClientInv
<1> QED
  BY <1>1, ClientInit, ClientKeeps, PTL DEF Spec

\* A client that shows "reconnecting" is never stuck: a backoff timer is armed, or a
\* socket is there whose end will arm one.
THEOREM NeverStuck == Spec => []KeepsTrying
<1>1. ClientInv => KeepsTrying
  BY DEF ClientInv
<1> QED
  BY <1>1, ClientInit, ClientKeeps, PTL DEF Spec

\* After dispose() no step creates a socket: connect() refuses, and the backoff timer, which
\* would not look, is disarmed for good.
LEMMA DisposedOpensNothing ==
  ASSUME ClientInv, [Next]_vars, disposed, NEW c \in Conns, ready'[c] = "connecting"
  PROVE  ready[c] = "connecting"
<1> USE DEF ClientInv, TypeOK, DisposedIsIdle
<1>1. CASE UNCHANGED vars
  BY <1>1 DEF vars, socketVars
<1>2. CASE UserStep
  BY <1>2 DEF UserStep, Connect, ConnectThrows, DisconnectGracefully, Dispose, CloseSocket, socketVars
<1>3. CASE NetworkStep
  BY <1>3 DEF NetworkStep, SocketOpens, PinMismatch, SocketCloses
<1>4. CASE TimerStep
  BY <1>4 DEF TimerStep, ReconnectThrows, ReconnectTimer, HelloTimer, EchoTimer, TickPing,
                 CloseSocket, socketVars
<1>5. CASE \E d \in Conns : Handle(d)
  BY <1>5 DEF Handle, HandleAuthOk, HandleAuthFailed, HandlePong, HandleHelloAck, CloseSocket
<1> QED
  BY <1>1, <1>2, <1>3, <1>4, <1>5 DEF Next

THEOREM DisposeIsFinal == Spec => NoSocketAfterDispose
<1>1. ClientInv /\ [Next]_vars =>
        [disposed => \A c \in Conns : ready'[c] = "connecting" => ready[c] = "connecting"]_vars
  BY DisposedOpensNothing
<1> QED
  BY <1>1, ClientInit, ClientKeeps, PTL DEF Spec, NoSocketAfterDispose

-----------------------------------------------------------------------------
(* The application: where input goes.                                      *)

\* The connection has the address of the target, so that a backoff timer, whenever it
\* fires, opens its socket to no other device.
UrlOfTarget == target # NoDevice => url = target

IInv == InputReachesTarget /\ UrlOfTarget

LEMMA InitHolds == AppInit => IInv
BY DEF AppInit, IInv, InputReachesTarget, UrlOfTarget

\* A screen that connects moves target, address and socket together.
LEMMA ConnectKeeps ==
  ASSUME NEW d, NEW c \in Conns, NEW waiting, ConnectTo(d, c, waiting)
  PROVE  IInv'
BY DEF ConnectTo, IInv, InputReachesTarget, UrlOfTarget

\* No other step of the connection points it at another socket.
LEMMA ConnectionKeepsSocket ==
  ASSUME ConnectionStep
  PROVE  peer' = peer /\ socket' \in {socket, NoSocket}
BY DEF ConnectionStep, SocketOpens, SocketCloses, HandleHelloAck, HelloTimer, EchoTimer

LEMMA StepKeeps == IInv /\ [AppNext]_senderVars => IInv'
<1> SUFFICES ASSUME IInv, [AppNext]_senderVars PROVE IInv'
  OBVIOUS
<1>1. ASSUME UNCHANGED <<socketVars, appVars>> PROVE IInv'
  BY <1>1 DEF IInv, InputReachesTarget, UrlOfTarget, socketVars, appVars
<1>2. CASE UNCHANGED senderVars
  BY <1>1, <1>2 DEF senderVars, vars
<1>3. ASSUME NEW d \in Devices, HandlePair(d) \/ Forget(d) PROVE IInv'
  BY <1>1, <1>3 DEF HandlePair, Forget, vars
<1>4. ASSUME NEW d \in Devices, NEW c \in Conns, HomeConnect(d, c) PROVE IInv'
  BY <1>4, ConnectKeeps DEF HomeConnect
<1>5. ASSUME NEW c \in Conns, PairConnects(c) PROVE IInv'
  BY <1>5, ConnectKeeps DEF PairConnects
<1>6. CASE Disconnect
  BY <1>6 DEF Disconnect, IInv, InputReachesTarget, UrlOfTarget
<1>7. CASE ConnectionStep /\ UNCHANGED <<storeVars, manager, target, url>>
  BY <1>7, ConnectionKeepsSocket DEF IInv, InputReachesTarget, UrlOfTarget
<1>8. ASSUME NEW c \in Conns, Reconnects(c), UNCHANGED <<storeVars, manager, target, url>>
      PROVE  IInv'
  BY <1>8 DEF Reconnects, IInv, InputReachesTarget, UrlOfTarget
<1>9. CASE StorageStep /\ UNCHANGED <<vars, appVars>>
  BY <1>1, <1>9 DEF vars
<1>10. CASE Restart
  BY <1>10 DEF Restart, IInv, InputReachesTarget, UrlOfTarget
<1> QED
  BY <1>2, <1>3, <1>4, <1>5, <1>6, <1>7, <1>8, <1>9, <1>10 DEF AppNext

\* Whatever devices were tried before, and in whatever order sockets end, timers fire and
\* the process restarts, the current socket was opened to the device that is shown.
THEOREM InputGoesToTarget == AppSpec => []InputReachesTarget
<1>1. IInv => InputReachesTarget
  BY DEF IInv
<1> QED
  BY <1>1, InitHolds, StepKeeps, PTL DEF AppSpec

-----------------------------------------------------------------------------
(* The application: its list and the storage.                              *)

\* The calls are served in order.
ServedInOrder(q) == \A i, j \in 1..Len(q) : (i < j /\ q[j].done) => q[i].done

StoreTyped ==
  /\ devices \in SUBSET Devices /\ stored \in SUBSET Devices /\ unsure \in BOOLEAN
  /\ calls \in Seq(CallType) /\ Len(calls) <= MaxCalls
  /\ ServedInOrder(calls)

HasLoad(q) == \E i \in 1..Len(q) : q[i].op = "get"

\* A load that nothing has disturbed is the last call, and has read what is stored.
LoadIsLast(q) ==
  \A i \in 1..Len(q) : q[i].op = "get" => i = Len(q) /\ (q[i].done => q[i].list = stored)

\* With no load under way, the last write leaves the list of the screen in storage.
LastWrite(q) ==
  IF q = <<>> THEN devices = stored
  ELSE q[Len(q)].list = devices /\ (q[Len(q)].done => stored = devices)

InSync(q, m) == ~unsure => LoadIsLast(q) /\ ((m /\ ~HasLoad(q)) => LastWrite(q))

\* Without a manager there is nothing that could connect or load.
Asleep ==
  ~manager => /\ state = "idle" /\ target = NoDevice /\ ~HasLoad(calls)
              /\ ~reconnectTimer /\ ~helloTimer /\ ~echoTimer
              /\ \A c \in Conns : ready[c] = "closed" /\ inbound[c] = {}

AppTyped ==
  /\ manager \in BOOLEAN /\ ~disposed
  /\ {target, url, peer} \subseteq Devices \cup {NoDevice}

StoreInv == StoreTyped /\ InSync(calls, manager)

LEMMA LengthOfCalls ==
  ASSUME StoreTyped
  PROVE  /\ Len(calls) \in Nat
         /\ \A i \in 1..Len(calls) : calls[i] \in CallType
         /\ calls # <<>> <=> Len(calls) \in Nat \ {0}
  BY LenProperties, ElementOfSeq, EmptySeq DEF StoreTyped

\* A call that is queued.
LEMMA Queued ==
  ASSUME NEW waiting \in Seq(CallType), NEW call \in CallType, ~call.done, ServedInOrder(waiting)
  PROVE  LET q == Append(waiting, call)
         IN  /\ q \in Seq(CallType) /\ ServedInOrder(q)
             /\ Len(waiting) \in Nat /\ Len(q) = Len(waiting) + 1
             /\ q # <<>> /\ q[Len(q)] = call
             /\ \A i \in 1..Len(waiting) : q[i] = waiting[i]
             /\ \A i \in 1..Len(q) : i = Len(q) \/ i \in 1..Len(waiting)
  <1> DEFINE q == Append(waiting, call)
  <1>1. /\ q \in Seq(CallType) /\ q # <<>>
        /\ Len(q) = Len(waiting) + 1 /\ Len(waiting) \in Nat
        /\ \A i \in 1..Len(waiting) : q[i] = waiting[i]
        /\ q[Len(waiting) + 1] = call
    BY AppendProperties, LenProperties
  <1> HIDE DEF q
  <1>2. \A i \in 1..Len(q) : i = Len(q) \/ i \in 1..Len(waiting)
    BY <1>1
  <1>3. ServedInOrder(q)
    <2> SUFFICES ASSUME NEW i \in 1..Len(q), NEW j \in 1..Len(q), i < j, q[j].done PROVE q[i].done
      BY DEF ServedInOrder
    <2>1. j # Len(waiting) + 1
      BY <1>1
    <2>2. j \in 1..Len(waiting) /\ i \in 1..Len(waiting)
      BY <1>1, <2>1
    <2> QED
      BY <1>1, <2>2 DEF ServedInOrder
  <1> QED
    BY <1>1, <1>2, <1>3 DEF q

\* The answer of the first call is taken.
LEMMA Taken ==
  ASSUME StoreTyped, Answered
  PROVE  /\ Tail(calls) \in Seq(CallType) /\ Len(Tail(calls)) = Len(calls) - 1
         /\ Len(Tail(calls)) <= MaxCalls
         /\ \A i \in 1..Len(Tail(calls)) : Tail(calls)[i] = calls[i + 1] /\ i + 1 \in 1..Len(calls)
         /\ ServedInOrder(Tail(calls))
         /\ calls # <<>> /\ Len(calls) \in Nat \ {0} /\ Head(calls) = calls[1]
         /\ Head(calls) \in CallType /\ Head(calls).done
         /\ Tail(calls) = <<>> => Len(calls) = 1
  <1>1. calls # <<>> /\ Len(calls) \in Nat \ {0} /\ calls \in Seq(CallType) /\ Head(calls).done
    BY LengthOfCalls DEF Answered, StoreTyped
  <1>2. /\ Tail(calls) \in Seq(CallType) /\ Len(Tail(calls)) = Len(calls) - 1
        /\ \A i \in 1..Len(Tail(calls)) : Tail(calls)[i] = calls[i + 1]
        /\ Head(calls) \in CallType
    BY <1>1, HeadTailProperties
  <1>3. Head(calls) = calls[1]
    BY <1>1
  <1>4. ASSUME NEW i \in 1..Len(Tail(calls)), NEW j \in 1..Len(Tail(calls)), i < j, Tail(calls)[j].done
        PROVE  Tail(calls)[i].done
    <2>1. i + 1 \in 1..Len(calls) /\ j + 1 \in 1..Len(calls) /\ i + 1 < j + 1
      BY <1>1, <1>2, <1>4
    <2>2. calls[j + 1].done
      BY <1>2, <1>4
    <2>3. calls[i + 1].done
      BY <2>1, <2>2 DEF StoreTyped, ServedInOrder
    <2> QED
      BY <1>2, <2>3
  <1>5. ServedInOrder(Tail(calls))
    BY <1>4 DEF ServedInOrder
  <1>6. Tail(calls) = <<>> => Len(calls) = 1
    <2>1. ASSUME NEW q, NEW n \in Nat, Len(q) = n - 1, q = <<>> PROVE n = 1
      BY <2>1
    <2> QED
      BY <1>1, <1>2, <2>1
  <1>7. \A i \in 1..Len(Tail(calls)) : i + 1 \in 1..Len(calls)
    BY <1>1, <1>2
  <1>8. Len(Tail(calls)) <= MaxCalls
    <2>1. ASSUME NEW m, NEW n \in Nat, n <= MaxCalls, m = n - 1 PROVE m <= MaxCalls
      BY <2>1, MaxCallsAssumption
    <2> QED
      BY <1>1, <1>2, <2>1 DEF StoreTyped
  <1> QED
    BY <1>1, <1>2, <1>3, <1>5, <1>6, <1>7, <1>8

\* Once a write has been answered, what was said of the calls is true of the rest.
LEMMA WriteTaken ==
  ASSUME StoreTyped, Answered, Head(calls).op = "set", NEW m, InSync(calls, m)
  PROVE  InSync(Tail(calls), m) /\ (HasLoad(Tail(calls)) => HasLoad(calls))
  <1> DEFINE q == Tail(calls)
  <1>1. /\ q \in Seq(CallType) /\ Len(q) = Len(calls) - 1 /\ Len(calls) \in Nat \ {0}
        /\ \A i \in 1..Len(q) : q[i] = calls[i + 1] /\ i + 1 \in 1..Len(calls)
        /\ calls # <<>> /\ calls[1].op = "set" /\ calls[1].done
        /\ q = <<>> => Len(calls) = 1
    BY Taken
  <1>2. q # <<>> => Len(q) \in Nat \ {0}
    BY <1>1, EmptySeq
  <1> HIDE DEF q
  <1>3. HasLoad(q) => HasLoad(calls)
    BY <1>1 DEF HasLoad
  <1>4. ASSUME HasLoad(calls) PROVE HasLoad(q)
    <2>1. PICK i \in 1..Len(calls) : calls[i].op = "get"
      BY <1>4 DEF HasLoad
    <2>2. i # 1
      BY <1>1, <2>1
    <2>3. i - 1 \in 1..Len(q) /\ (i - 1) + 1 = i
      BY <1>1, <2>2
    <2>4. q[i - 1] = calls[(i - 1) + 1]
      BY <1>1, <2>3
    <2> QED
      BY <2>1, <2>3, <2>4 DEF HasLoad
  <1>5. ASSUME LoadIsLast(calls) PROVE LoadIsLast(q)
    <2> SUFFICES ASSUME NEW i \in 1..Len(q), q[i].op = "get"
                 PROVE  i = Len(q) /\ (q[i].done => q[i].list = stored)
      BY DEF LoadIsLast
    <2>1. i + 1 \in 1..Len(calls) /\ q[i] = calls[i + 1]
      BY <1>1
    <2>2. i + 1 = Len(calls) /\ (q[i].done => q[i].list = stored)
      BY <1>5, <2>1 DEF LoadIsLast
    <2> QED
      BY <1>1, <2>2
  <1>6. ASSUME LastWrite(calls) PROVE LastWrite(q)
    <2>1. CASE q = <<>>
      BY <1>1, <1>6, <2>1 DEF LastWrite
    <2>2. CASE q # <<>>
      <3>1. Len(q) \in 1..Len(q) /\ Len(q) + 1 = Len(calls)
        BY <1>1, <1>2, <2>2
      <3>2. q[Len(q)] = calls[Len(calls)]
        BY <1>1, <3>1
      <3> QED
        BY <1>1, <1>6, <2>2, <3>2 DEF LastWrite
    <2> QED
      BY <2>1, <2>2
  <1>7. InSync(q, m)
    BY <1>3, <1>4, <1>5, <1>6 DEF InSync
  <1> QED
    BY <1>3, <1>7 DEF q

\* The list is changed and its write queued.
LEMMA SaveListKeeps ==
  ASSUME StoreInv, NEW list \in SUBSET Devices, NEW next \in Devices \cup {NoDevice},
         SaveList(list, next), UNCHANGED manager
  PROVE  StoreInv' /\ (HasLoad(calls') => HasLoad(calls))
  <1> DEFINE call == Write(list, next)
  <1>1. call \in CallType /\ ~call.done /\ call.op = "set" /\ call.list = list
    BY DEF Write, CallType
  <1>2. /\ calls' = Append(calls, call) /\ Len(calls) < MaxCalls /\ devices' = list
        /\ unsure' = (unsure \/ HasLoad(calls)) /\ stored' = stored
    BY DEF SaveList, Calls, Loading, HasLoad
  <1>3. StoreTyped /\ Len(calls) \in Nat /\ calls \in Seq(CallType) /\ ServedInOrder(calls)
    BY LengthOfCalls DEF StoreInv, StoreTyped
  <1> HIDE DEF call
  <1>4. /\ calls' \in Seq(CallType) /\ ServedInOrder(calls') /\ Len(calls') = Len(calls) + 1
        /\ calls' # <<>> /\ calls'[Len(calls')] = call
        /\ \A i \in 1..Len(calls) : calls'[i] = calls[i]
        /\ \A i \in 1..Len(calls') : i = Len(calls') \/ i \in 1..Len(calls)
    BY <1>1, <1>2, <1>3, Queued
  <1>5. Len(calls') <= MaxCalls
    BY <1>2, <1>3, <1>4, MaxCallsAssumption
  <1>6. StoreTyped'
    BY <1>2, <1>3, <1>4, <1>5 DEF StoreTyped
  <1>7. HasLoad(calls') => HasLoad(calls)
    BY <1>1, <1>4 DEF HasLoad
  <1>8. ASSUME ~unsure' PROVE LoadIsLast(calls)' /\ LastWrite(calls)'
    <2>1. ~HasLoad(calls)
      BY <1>2, <1>8
    <2>2. \A i \in 1..Len(calls') : calls'[i].op # "get"
      BY <1>7, <2>1 DEF HasLoad
    <2>3. LoadIsLast(calls)'
      BY <2>2 DEF LoadIsLast
    <2>4. LastWrite(calls)'
      BY <1>1, <1>2, <1>4 DEF LastWrite
    <2> QED
      BY <2>3, <2>4
  <1> QED
    BY <1>6, <1>7, <1>8 DEF StoreInv, InSync

\* A screen connects: the first time, the list is loaded.
LEMMA EnsureKeeps ==
  ASSUME StoreTyped, NEW waiting \in Seq(CallType), ServedInOrder(waiting),
         InSync(waiting, manager), ~manager => ~HasLoad(waiting),
         EnsureManager(waiting), UNCHANGED <<devices, stored, unsure>>, manager \in BOOLEAN
  PROVE  StoreInv' /\ manager'
  <1>1. /\ manager' = TRUE /\ Len(calls') <= MaxCalls
        /\ calls' = IF manager THEN waiting ELSE Append(waiting, Read)
        /\ devices' = devices /\ stored' = stored /\ unsure' = unsure
    BY DEF EnsureManager
  <1>2. Read \in CallType /\ ~Read.done /\ Read.op = "get"
    BY DEF Read, CallType
  <1>3. CASE manager
    <2>1. calls' = waiting /\ manager' = manager
      BY <1>1, <1>3
    <2>2. StoreTyped'
      BY <1>1, <2>1 DEF StoreTyped
    <2>3. InSync(calls, manager)'
      BY <1>1, <2>1 DEF InSync, LoadIsLast, LastWrite
    <2> QED
      BY <1>1, <2>2, <2>3 DEF StoreInv
  <1>4. CASE ~manager
    <2>1. calls' = Append(waiting, Read)
      BY <1>1, <1>4
    <2>2. /\ calls' \in Seq(CallType) /\ ServedInOrder(calls') /\ Len(calls') = Len(waiting) + 1
          /\ calls'[Len(calls')] = Read /\ Len(waiting) \in Nat
          /\ \A i \in 1..Len(waiting) : calls'[i] = waiting[i]
          /\ \A i \in 1..Len(calls') : i = Len(calls') \/ i \in 1..Len(waiting)
      BY <1>2, <2>1, Queued
    <2>3. StoreTyped'
      BY <1>1, <2>2 DEF StoreTyped
    <2>4. \A i \in 1..Len(calls') : calls'[i].op = "get" => i = Len(calls') /\ ~calls'[i].done
      BY <1>2, <1>4, <2>2 DEF HasLoad
    <2>5. LoadIsLast(calls)'
      BY <2>4 DEF LoadIsLast
    <2>6. HasLoad(calls')
      <3>1. Len(calls') \in 1..Len(calls')
        BY <2>2
      <3> QED
        BY <1>2, <2>2, <3>1 DEF HasLoad
    <2> QED
      BY <1>1, <2>3, <2>5, <2>6 DEF StoreInv, InSync
  <1> QED
    BY <1>3, <1>4

\* The storage serves one call: a write that is the last one leaves its list.
LEMMA ServesKeeps ==
  ASSUME StoreInv, NEW i \in 1..Len(calls), NEW succeeds \in BOOLEAN,
         StorageServes(i, succeeds), UNCHANGED manager
  PROVE  StoreInv' /\ (HasLoad(calls') => HasLoad(calls))
  <1> DEFINE c == calls[i]
             list == IF c.op = "set" THEN c.list ELSE IF succeeds THEN stored ELSE {}
             new == [op |-> c.op, list |-> list, next |-> c.next, done |-> TRUE]
  <1>1. /\ StoreTyped /\ Len(calls) \in Nat /\ calls \in Seq(CallType) /\ ServedInOrder(calls)
        /\ \A j \in 1..Len(calls) : calls[j] \in CallType
        /\ c \in CallType /\ stored \in SUBSET Devices
    BY LengthOfCalls DEF StoreInv, StoreTyped
  <1>2. /\ ~c.done /\ (i > 1 => calls[i - 1].done)
        /\ stored' = IF c.op = "set" /\ succeeds THEN c.list ELSE stored
        /\ unsure' = (unsure \/ ~succeeds)
        /\ devices' = devices
    BY DEF StorageServes
  <1>3. new \in CallType /\ new.op = c.op /\ new.done /\ new.list = list
    BY <1>1 DEF CallType
  <1>4. calls' = [calls EXCEPT ![i] = new]
    <2>1. calls' = [calls EXCEPT ![i] = [[c EXCEPT !.done = TRUE] EXCEPT !.list = list]]
      BY <1>1, LenProperties DEF StorageServes
    <2>2. ASSUME NEW l, NEW b
          PROVE  [[c EXCEPT !.done = b] EXCEPT !.list = l] =
                   [op |-> c.op, list |-> l, next |-> c.next, done |-> b]
      <3>1. [c EXCEPT !.done = b] = [op |-> c.op, list |-> c.list, next |-> c.next, done |-> b]
        BY <1>1 DEF CallType
      <3>2. ASSUME NEW r, NEW a1, NEW a2, NEW a3,
                   r = [op |-> a1, list |-> a2, next |-> a3, done |-> b]
            PROVE  [r EXCEPT !.list = l] = [op |-> a1, list |-> l, next |-> a3, done |-> b]
        BY <3>2
      <3> QED
        BY <3>1, <3>2, Zenon
    <2> HIDE DEF list
    <2>3. [[c EXCEPT !.done = TRUE] EXCEPT !.list = list] = new
      BY <2>2, Zenon
    <2> QED
      BY <2>1, <2>3
  <1>5. c.list \in SUBSET Devices
    BY <1>1 DEF CallType
  <1> HIDE DEF new
  <1>6. /\ calls' \in Seq(CallType) /\ Len(calls') = Len(calls)
        /\ \A j \in 1..Len(calls) : calls'[j] = IF j = i THEN new ELSE calls[j]
    BY <1>1, <1>3, <1>4, ExceptSeq
  <1>7. ServedInOrder(calls')
    <2> SUFFICES ASSUME NEW j \in 1..Len(calls), NEW k \in 1..Len(calls), j < k, calls'[k].done
                 PROVE  calls'[j].done
      BY <1>6 DEF ServedInOrder
    <2>1. calls[j].done => calls'[j].done
      BY <1>3, <1>6
    <2>2. CASE k # i
      BY <1>1, <1>6, <2>1, <2>2 DEF ServedInOrder
    <2>3. CASE k = i /\ j = i - 1
      BY <1>2, <2>1, <2>3
    <2>4. CASE k = i /\ j # i - 1
      <3>1. i - 1 \in 1..Len(calls) /\ j < i - 1 /\ calls[i - 1].done
        BY <1>1, <1>2, <2>4
      <3> QED
        BY <1>1, <2>1, <3>1 DEF ServedInOrder
    <2> QED
      BY <2>2, <2>3, <2>4
  <1>8. StoreTyped'
    BY <1>1, <1>2, <1>5, <1>6, <1>7 DEF StoreTyped
  <1>9. HasLoad(calls') <=> HasLoad(calls)
    BY <1>3, <1>6 DEF HasLoad
  <1>10. ASSUME ~unsure' PROVE LoadIsLast(calls)'
    <2>1. ~unsure /\ succeeds /\ LoadIsLast(calls)
      BY <1>2, <1>10 DEF StoreInv, InSync
    <2> SUFFICES ASSUME NEW j \in 1..Len(calls), calls'[j].op = "get"
                 PROVE  j = Len(calls) /\ (calls'[j].done => calls'[j].list = stored')
      BY <1>6 DEF LoadIsLast
    <2>2. calls[j].op = "get" /\ j = Len(calls) /\ (calls[j].done => calls[j].list = stored)
      BY <1>3, <1>6, <2>1 DEF LoadIsLast
    <2>3. CASE j = i
      BY <1>2, <1>3, <1>6, <2>1, <2>2, <2>3
    \* While an earlier call is served, the load has not been.
    <2>4. CASE j # i
      <3>1. ~calls[j].done
        BY <1>1, <1>2, <2>2, <2>4 DEF ServedInOrder
      <3> QED
        BY <1>6, <2>2, <2>4, <3>1
    <2> QED
      BY <2>3, <2>4
  <1>11. ASSUME ~unsure', manager, ~HasLoad(calls') PROVE LastWrite(calls)'
    <2>1. ~unsure /\ succeeds /\ LastWrite(calls)
      BY <1>2, <1>9, <1>11 DEF StoreInv, InSync
    <2>2. calls # <<>> /\ calls' # <<>> /\ Len(calls) \in 1..Len(calls)
      BY <1>1, <1>6, EmptySeq
    <2>3. c.op = "set"
      <3>1. c.op \in {"set", "get"}
        BY <1>1 DEF CallType
      <3> QED
        BY <1>9, <1>11, <3>1 DEF HasLoad
    <2>4. CASE i = Len(calls)
      BY <1>2, <1>3, <1>6, <2>1, <2>2, <2>3, <2>4 DEF LastWrite
    <2>5. CASE i # Len(calls)
      <3>1. ~calls[Len(calls)].done
        BY <1>1, <1>2, <2>2, <2>5 DEF ServedInOrder
      <3> QED
        BY <1>2, <1>6, <2>1, <2>2, <2>5, <3>1 DEF LastWrite
    <2> QED
      BY <2>4, <2>5
  <1> QED
    BY <1>8, <1>9, <1>10, <1>11 DEF StoreInv, InSync

\* The list is loaded: the load was the last call, so that no write follows it.
LEMMA LoadedKeeps ==
  ASSUME StoreInv, Loaded, UNCHANGED manager
  PROVE  StoreInv' /\ (HasLoad(calls') => HasLoad(calls))
  <1>1. StoreTyped /\ Answered /\ Head(calls).op = "get"
    BY DEF Loaded, StoreInv
  <1>2. /\ calls' = Tail(calls) /\ devices' = Head(calls).list
        /\ stored' = stored /\ unsure' = unsure
    BY DEF Loaded
  <1>3. /\ Tail(calls) \in Seq(CallType) /\ Len(Tail(calls)) <= MaxCalls
        /\ \A i \in 1..Len(Tail(calls)) : Tail(calls)[i] = calls[i + 1] /\ i + 1 \in 1..Len(calls)
        /\ ServedInOrder(Tail(calls)) /\ Head(calls) = calls[1] /\ Head(calls) \in CallType
        /\ Head(calls).done /\ Len(Tail(calls)) = Len(calls) - 1 /\ Len(calls) \in Nat \ {0}
    BY <1>1, Taken
  <1>4. Head(calls).list \in SUBSET Devices
    BY <1>3 DEF CallType
  <1>5. StoreTyped'
    BY <1>1, <1>2, <1>3, <1>4 DEF StoreTyped
  <1>6. HasLoad(calls') => HasLoad(calls)
    BY <1>2, <1>3 DEF HasLoad
  <1>7. ASSUME ~unsure' PROVE LoadIsLast(calls)' /\ LastWrite(calls)'
    <2>1. LoadIsLast(calls) /\ 1 \in 1..Len(calls)
      BY <1>2, <1>3, <1>7 DEF StoreInv, InSync
    <2>2. 1 = Len(calls) /\ Head(calls).list = stored
      BY <1>1, <1>3, <2>1 DEF LoadIsLast
    <2>3. Len(calls') = 0 /\ calls' = <<>>
      BY <1>2, <1>3, <2>2, EmptySeq
    <2>4. LoadIsLast(calls)'
      BY <2>3 DEF LoadIsLast
    <2>5. LastWrite(calls)'
      BY <1>2, <2>2, <2>3 DEF LastWrite
    <2> QED
      BY <2>4, <2>5
  <1> QED
    BY <1>5, <1>6, <1>7 DEF StoreInv, InSync

\* The answer to a write is taken.
LEMMA PersistedKeeps ==
  ASSUME StoreInv, Persisted, UNCHANGED manager
  PROVE  StoreInv' /\ (HasLoad(calls') => HasLoad(calls))
  <1>1. /\ StoreTyped /\ Answered /\ Head(calls).op = "set" /\ InSync(calls, manager)
        /\ calls' = Tail(calls) /\ devices' = devices /\ stored' = stored /\ unsure' = unsure
        /\ manager' = manager
    BY DEF Persisted, StoreInv
  <1>2. StoreTyped'
    BY <1>1, Taken DEF StoreTyped
  <1>3. InSync(calls', manager) /\ (HasLoad(calls') => HasLoad(calls))
    BY <1>1, WriteTaken
  <1>4. InSync(calls, manager)'
    BY <1>1, <1>3 DEF InSync, LoadIsLast, LastWrite
  <1> QED
    BY <1>2, <1>3, <1>4 DEF StoreInv

LEMMA StorageKeeps ==
  ASSUME StoreInv, calls # <<>>, StorageStep, UNCHANGED manager
  PROVE  StoreInv' /\ (HasLoad(calls') => HasLoad(calls))
BY ServesKeeps, LoadedKeeps, PersistedKeeps DEF StorageStep

-----------------------------------------------------------------------------
(* The application: its invariant.                                         *)

AppInv == ClientInv /\ AppTyped /\ Asleep /\ StoreInv

LEMMA NothingQueued ==
  /\ <<>> \in Seq(CallType) /\ Len(<<>>) = 0 /\ Len(<<>>) <= MaxCalls
  /\ ServedInOrder(<<>>) /\ ~HasLoad(<<>>) /\ LoadIsLast(<<>>)
  <1>1. <<>> \in Seq(CallType) /\ Len(<<>>) = 0
    BY EmptySeq
  <1>2. \A i \in 1..Len(<<>>) : FALSE
    BY <1>1
  <1>3. Len(<<>>) <= MaxCalls
    BY <1>1, MaxCallsAssumption
  <1> QED
    BY <1>1, <1>2, <1>3 DEF ServedInOrder, HasLoad, LoadIsLast

LEMMA AppInitHolds == AppInit => AppInv
  <1> SUFFICES ASSUME AppInit PROVE AppInv
    OBVIOUS
  <1>1. ClientInv
    BY ClientInit DEF AppInit
  <1>2. /\ calls = <<>> /\ devices = {} /\ stored \in SUBSET Devices /\ unsure = FALSE
        /\ manager = FALSE
    BY DEF AppInit, StoreInit
  <1>3. StoreTyped
    BY <1>2, NothingQueued DEF StoreTyped
  <1>4. InSync(calls, manager)
    BY <1>2, NothingQueued DEF InSync
  <1>5. Asleep
    BY <1>2, NothingQueued DEF AppInit, Init, Asleep
  <1> QED
    BY <1>1, <1>3, <1>4, <1>5 DEF AppInit, Init, AppInv, AppTyped, StoreInv

\* A screen that changes the list, whatever the connection is doing.
LEMMA ListStepKeeps ==
  ASSUME AppInv, NEW d \in Devices, HandlePair(d) \/ Forget(d)
  PROVE  AppInv'
  <1>1. UNCHANGED <<vars, appVars>>
    BY DEF HandlePair, Forget
  <1>2. ClientInv'
    BY <1>1, ClientKeeps DEF AppInv
  <1>3. StoreInv /\ StoreTyped /\ UNCHANGED manager
    BY <1>1 DEF AppInv, StoreInv, appVars
  <1>4. devices \cup {d} \in SUBSET Devices /\ devices \ {d} \in SUBSET Devices
    BY <1>3 DEF StoreTyped
  <1>5. StoreInv' /\ (HasLoad(calls') => HasLoad(calls))
    BY <1>3, <1>4, SaveListKeeps DEF HandlePair, Forget, SaveDevice, RemoveDevice
  <1>6. AppTyped' /\ Asleep'
    BY <1>1, <1>5 DEF AppInv, AppTyped, Asleep, vars, appVars, timerVars, socketVars
  <1> QED
    BY <1>2, <1>5, <1>6 DEF AppInv

\* A screen that connects.
LEMMA ConnectToKeeps ==
  ASSUME AppInv, NEW d \in Devices, NEW c \in Conns, NEW waiting \in Seq(CallType),
         ServedInOrder(waiting), InSync(waiting, manager), HasLoad(waiting) => HasLoad(calls),
         ConnectTo(d, c, waiting)
  PROVE  AppInv'
  <1>1. /\ EnsureManager(waiting) /\ Connect(c) /\ UNCHANGED <<devices, stored, unsure>>
        /\ target' = d /\ url' = d /\ peer' = d
    BY DEF ConnectTo
  <1>2. ClientInv'
    BY <1>1, ClientKeeps DEF AppInv, Next, UserStep
  <1>3. StoreTyped /\ (~manager => ~HasLoad(waiting)) /\ manager \in BOOLEAN
    BY DEF AppInv, StoreInv, AppTyped, Asleep
  <1>4. StoreInv' /\ manager'
    BY <1>1, <1>3, EnsureKeeps
  <1>5. manager' \in BOOLEAN /\ ~disposed'
    BY <1>1 DEF EnsureManager, Connect
  <1> QED
    BY <1>1, <1>2, <1>4, <1>5 DEF AppInv, AppTyped, Asleep

\* A step of the connection: with no manager there is nothing that could take one.
LEMMA ConnectionKeeps ==
  ASSUME AppInv, ConnectionStep \/ \E c \in Conns : Reconnects(c),
         UNCHANGED <<storeVars, manager, target, url>>
  PROVE  AppInv'
  <1>1. Next /\ disposed' = disposed
    BY DEF ConnectionStep, Reconnects, Next, NetworkStep, TimerStep, Handle,
           SocketOpens, SocketCloses, HandleHelloAck, HelloTimer, EchoTimer, ReconnectTimer
  <1>2. ClientInv'
    BY <1>1, ClientKeeps DEF AppInv
  <1>3. manager
    BY DEF AppInv, Asleep, ConnectionStep, Reconnects,
           SocketOpens, SocketCloses, HandleHelloAck, HelloTimer, EchoTimer, ReconnectTimer
  <1>4. peer' \in {peer, url}
    BY DEF ConnectionStep, Reconnects
  <1>5. AppTyped' /\ Asleep'
    BY <1>1, <1>3, <1>4 DEF AppInv, AppTyped, Asleep
  <1>6. StoreInv'
    BY DEF AppInv, StoreInv, StoreTyped, InSync, LoadIsLast, LastWrite, storeVars
  <1> QED
    BY <1>2, <1>5, <1>6 DEF AppInv

LEMMA RestartKeeps ==
  ASSUME AppInv, Restart
  PROVE  AppInv'
  <1>1. ClientInv'
    <2>1. /\ ready' \in [Conns -> {"connecting", "open", "closing", "closed"}]
          /\ inbound' \in [Conns -> SUBSET Answers]
      BY DEF Restart
    <2>2. TypeOK'
      BY <2>1 DEF Restart, AppInv, ClientInv, TypeOK, States
    <2> QED
      BY <2>2 DEF Restart, AppInv, ClientInv, KeepsTrying, DisposedIsIdle
  <1>2. /\ calls' = <<>> /\ devices' = {} /\ stored' = stored /\ unsure' = FALSE
        /\ manager' = FALSE
    BY DEF Restart, StoreRestarts
  <1>3. ServedInOrder(calls') /\ ~HasLoad(calls') /\ calls' \in Seq(CallType) /\ Len(calls') <= MaxCalls
    BY <1>2, NothingQueued
  <1>4. StoreTyped'
    BY <1>2, <1>3 DEF AppInv, StoreInv, StoreTyped
  <1>5. InSync(calls, manager)'
    <2>1. LoadIsLast(calls)'
      BY <1>3 DEF LoadIsLast, HasLoad
    <2> QED
      BY <1>2, <2>1 DEF InSync
  <1>6. AppTyped' /\ Asleep'
    <2>1. ~HasLoad(calls)'
      BY <1>3
    <2> QED
      BY <2>1 DEF Restart, AppInv, AppTyped, Asleep
  <1> QED
    BY <1>1, <1>4, <1>5, <1>6 DEF AppInv, StoreInv

LEMMA AppStepKeeps == AppInv /\ [AppNext]_senderVars => AppInv'
  <1> SUFFICES ASSUME AppInv, [AppNext]_senderVars PROVE AppInv'
    OBVIOUS
  <1>1. CASE UNCHANGED senderVars
    <2>1. ClientInv'
      BY <1>1, ClientKeeps DEF AppInv, senderVars
    <2>2. AppTyped' /\ Asleep'
      BY <1>1 DEF AppInv, AppTyped, Asleep, HasLoad,
                  senderVars, vars, storeVars, appVars, timerVars, socketVars
    <2>3. StoreInv'
      BY <1>1 DEF AppInv, StoreInv, StoreTyped, InSync, LoadIsLast, LastWrite,
                  senderVars, storeVars, appVars
    <2> QED
      BY <2>1, <2>2, <2>3 DEF AppInv
  <1>2. ASSUME NEW d \in Devices, NEW c \in Conns, HomeConnect(d, c) PROVE AppInv'
    <2>1. ConnectTo(d, c, calls)
      BY <1>2 DEF HomeConnect
    <2>2. calls \in Seq(CallType) /\ ServedInOrder(calls) /\ InSync(calls, manager)
      BY DEF AppInv, StoreInv, StoreTyped
    <2> QED
      BY <2>1, <2>2, ConnectToKeeps
  <1>3. ASSUME NEW c \in Conns, PairConnects(c) PROVE AppInv'
    <2> DEFINE d == Head(calls).next
    <2>1. Answered /\ Head(calls).op = "set" /\ d # NoDevice /\ ConnectTo(d, c, Tail(calls))
      BY <1>3 DEF PairConnects
    <2>2. StoreTyped /\ InSync(calls, manager)
      BY DEF AppInv, StoreInv
    <2>3. Tail(calls) \in Seq(CallType) /\ ServedInOrder(Tail(calls)) /\ Head(calls) \in CallType
      BY <2>1, <2>2, Taken
    <2>4. d \in Devices
      BY <2>1, <2>3 DEF CallType
    <2>5. InSync(Tail(calls), manager) /\ (HasLoad(Tail(calls)) => HasLoad(calls))
      BY <2>1, <2>2, WriteTaken
    <2> HIDE DEF d
    <2> QED
      BY <2>1, <2>3, <2>4, <2>5, ConnectToKeeps
  <1>4. CASE Disconnect
    <2>1. DisconnectGracefully /\ state = "connected" /\ target' = NoDevice
          /\ UNCHANGED <<storeVars, manager, url, peer>>
      BY <1>4 DEF Disconnect
    <2>2. ClientInv'
      BY <2>1, ClientKeeps DEF AppInv, Next, UserStep
    <2>3. manager
      BY <2>1 DEF AppInv, Asleep
    <2>4. AppTyped' /\ Asleep'
      BY <2>1, <2>3 DEF AppInv, AppTyped, Asleep, DisconnectGracefully
    <2>5. StoreInv'
      BY <2>1 DEF AppInv, StoreInv, StoreTyped, InSync, LoadIsLast, LastWrite, storeVars
    <2> QED
      BY <2>2, <2>4, <2>5 DEF AppInv
  <1>5. CASE calls # <<>> /\ StorageStep /\ UNCHANGED <<vars, appVars>>
    <2>1. ClientInv'
      BY <1>5, ClientKeeps DEF AppInv
    <2>2. StoreInv' /\ (HasLoad(calls') => HasLoad(calls))
      BY <1>5, StorageKeeps DEF AppInv, appVars
    <2>3. AppTyped' /\ Asleep'
      BY <1>5, <2>2 DEF AppInv, AppTyped, Asleep, vars, appVars, timerVars, socketVars
    <2> QED
      BY <2>1, <2>2, <2>3 DEF AppInv
  <1> QED
    BY <1>1, <1>2, <1>3, <1>4, <1>5, ListStepKeeps, ConnectionKeeps, RestartKeeps DEF AppNext

\* The fields of the store keep their types, the storage serves its calls in order, and
\* before the first connect of a process there is no socket, no target and no load.
THEOREM AppTypes == AppSpec => []AppTypeOK
  <1>1. ASSUME AppInv PROVE AppTypeOK
    <2>1. StoreTyped
      BY <1>1 DEF AppInv, StoreInv
    <2>2. \A i \in 1..Len(calls) : calls[i] \in CallType
      BY <2>1, LengthOfCalls
    <2>3. ASSUME NEW i \in 1..Len(calls), i > 1, calls[i].done PROVE calls[i - 1].done
      <3>1. i - 1 \in 1..Len(calls) /\ i - 1 < i
        BY <2>1, <2>3, LengthOfCalls
      <3> QED
        BY <2>1, <2>3, <3>1 DEF StoreTyped, ServedInOrder
    <2>4. StoreTypeOK
      BY <2>1, <2>2, <2>3 DEF StoreTyped, StoreTypeOK
    <2> QED
      BY <1>1, <2>4 DEF AppInv, ClientInv, AppTyped, Asleep, HasLoad, Loading, AppTypeOK
  <1> QED
    BY <1>1, AppInitHolds, AppStepKeeps, PTL DEF AppSpec

\* In whatever order pairings, removals, the load and the answers of the storage come,
\* the list in storage ends as the list on the screen, unless a call failed or the list
\* was changed while it was being loaded.
THEOREM ListStaysStored == AppSpec => []ListIsStored
  <1>1. ASSUME AppInv PROVE ListIsStored
    <2> SUFFICES ASSUME manager, ~unsure, calls = <<>> PROVE devices = stored
      BY DEF ListIsStored
    <2>1. ~HasLoad(calls)
      BY EmptySeq DEF HasLoad
    <2> QED
      BY <1>1, <2>1 DEF AppInv, StoreInv, InSync, LastWrite
  <1> QED
    BY <1>1, AppInitHolds, AppStepKeeps, PTL DEF AppSpec
=============================================================================
