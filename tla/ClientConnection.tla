-------------------------- MODULE ClientConnection --------------------------
(***************************************************************************)
(* The life of a ClientConnection: its state, its sockets, its timers, and *)
(* what the user, the network and the gateway do to it.  The outbox is the *)
(* subject of ReliableDelivery.                                            *)
(*                                                                         *)
(* The client replaces its socket without detaching the old one, so the    *)
(* events of several sockets arrive at the same handlers.  A message is    *)
(* decoded asynchronously: it may be handled when its socket has closed,   *)
(* when another one has taken its place, or after dispose().  An answer    *)
(* stays in inbound from the moment the gateway owes it until it is        *)
(* handled, or forever when it is lost or never given.                     *)
(*                                                                         *)
(* Timers fire at any moment: the heartbeat's cadence, and the backoff     *)
(* with the reconnectAttempts it is computed from, are abstracted.         *)
(***************************************************************************)
EXTENDS Naturals, FiniteSets

CONSTANTS Conns,           \* sockets that may exist at the same time (bound)
          NoSocket,        \* this.socket = null
          MissedPongLimit, \* ticks without a Pong that tickPing tolerates
          Resume,          \* options.resume is given
          PinCheck         \* options.checkServerCertificate is given

ASSUME SocketAssumption == NoSocket \notin Conns
ASSUME LimitAssumption == MissedPongLimit \in Nat
ASSUME OptionAssumption == Resume \in BOOLEAN /\ PinCheck \in BOOLEAN

\* What the gateway may answer: a Hello, an Authenticate, a Ping.
Answers == {"HelloAck", "AuthReply", "Pong"}

VARIABLES
  state,             \* ClientConnection.state
  disposed,
  socket,            \* this.socket
  ready,             \* readyState of each socket
  inbound,           \* answers due, travelling or being decoded on each socket
  pingTimer,         \* the heartbeat interval is armed
  missedPongs,       \* stops counting above the limit
  reconnectTimer,    \* the backoff timer is armed
  helloTimer,        \* sendHello has armed its 30 s timer, which nothing clears
  echoTimer,         \* one or more of disconnectGracefully's 2 s timers are armed
  unanswered         \* history: pings sent on the current socket since its last Pong

timerVars  == <<pingTimer, missedPongs, reconnectTimer,
                helloTimer, echoTimer>>
socketVars == <<socket, ready, inbound, unanswered>>
vars == <<state, disposed, timerVars, socketVars>>

States == {"idle", "connecting", "connected", "authenticated", "reconnecting",
           "disconnected"}

TypeOK ==
  /\ state \in States
  /\ disposed \in BOOLEAN
  /\ ready \in [Conns -> {"connecting", "open", "closing", "closed"}]
  /\ socket # NoSocket => socket \in Conns /\ ready[socket] # "closed"
  /\ inbound \in [Conns -> SUBSET Answers]
  /\ pingTimer \in BOOLEAN
  /\ missedPongs \in 0..(MissedPongLimit + 1)
  /\ reconnectTimer \in BOOLEAN
  /\ helloTimer \in BOOLEAN
  /\ echoTimer \in BOOLEAN
  /\ unanswered \in 0..MissedPongLimit

Init ==
  /\ state = "idle"
  /\ disposed = FALSE
  /\ socket = NoSocket
  /\ ready = [c \in Conns |-> "closed"]
  /\ inbound = [c \in Conns |-> {}]
  /\ pingTimer = FALSE
  /\ missedPongs = 0
  /\ reconnectTimer = FALSE
  /\ helloTimer = FALSE
  /\ echoTimer = FALSE
  /\ unanswered = 0

UpTo(n, limit) == IF n > limit THEN limit ELSE n

-----------------------------------------------------------------------------
(* The current socket.                                                     *)

IsOpen(s) == s # NoSocket /\ ready[s] = "open"

\* A socket that is neither closed nor about to be.
Live(s) == s # NoSocket /\ ready[s] # "closed"

\* this.socket?.close(...)
CloseSocket ==
  ready' = IF socket # NoSocket /\ ready[socket] \in {"connecting", "open"}
             THEN [ready EXCEPT ![socket] = "closing"]
             ELSE ready

\* send: a frame is dropped unless the current socket, whichever it is, is open.
Send(answer) ==
  inbound' = IF IsOpen(socket) THEN [inbound EXCEPT ![socket] = @ \cup {answer}] ELSE inbound

SendHello == /\ Send("HelloAck")
             /\ helloTimer' = TRUE

\* openSocket: a new socket takes the place of the current one, which keeps
\* its handlers; or the socket factory throws.
OpenSocket(c) ==
  /\ ready[c] = "closed"
  /\ socket' = c
  /\ ready' = [ready EXCEPT ![c] = "connecting"]
  /\ inbound' = [inbound EXCEPT ![c] = {}]
  /\ unanswered' = 0

\* Faulty variant: nothing is armed while a reconnection is under way.
ScheduleReconnectOnce ==
  IF disposed \/ state = "reconnecting"
    THEN UNCHANGED <<state, reconnectTimer>>
    ELSE /\ state' = "reconnecting"
         /\ reconnectTimer' = TRUE

\* scheduleReconnect.  Its guard on this.reconnecting never holds, because
\* clearReconnectTimer resets the flag it has just set: every call replaces the
\* timer.
ScheduleReconnect ==
  IF disposed
    THEN UNCHANGED <<state, reconnectTimer>>
    ELSE /\ state' = "reconnecting"
         /\ reconnectTimer' = TRUE

-----------------------------------------------------------------------------
(* The user.                                                               *)

\* connect: a pending reconnection stays armed.
Connect(c) ==
  /\ ~disposed
  /\ state' = "connecting"
  /\ OpenSocket(c)
  /\ UNCHANGED <<disposed, pingTimer, missedPongs, reconnectTimer, helloTimer,
                 echoTimer>>

ConnectThrows ==
  /\ ~disposed
  /\ state' = "connecting"
  /\ UNCHANGED <<disposed, pingTimer, missedPongs, reconnectTimer, helloTimer,
                 echoTimer, socketVars>>

\* disconnectGracefully: the timer will close whatever socket is current.
DisconnectGracefully ==
  /\ echoTimer' = TRUE
  /\ UNCHANGED <<state, disposed, pingTimer, missedPongs, reconnectTimer, helloTimer, socketVars>>

\* Faulty variant: the backoff timer survives.
DisposeKeepsReconnectTimer ==
  /\ disposed' = TRUE
  /\ pingTimer' = FALSE
  /\ reconnectTimer' = reconnectTimer
  /\ CloseSocket
  /\ socket' = NoSocket
  /\ state' = "disconnected"
  /\ UNCHANGED <<missedPongs, helloTimer, echoTimer,
                 inbound, unanswered>>

Dispose ==
  /\ disposed' = TRUE
  /\ pingTimer' = FALSE
  /\ reconnectTimer' = FALSE
  /\ CloseSocket
  /\ socket' = NoSocket
  /\ state' = "disconnected"
  /\ UNCHANGED <<missedPongs, helloTimer, echoTimer,
                 inbound, unanswered>>

-----------------------------------------------------------------------------
(* The network.                                                            *)

\* Faulty variant: Hello is sent on the first connection only.
SocketOpensSilently(c) ==
  /\ ready[c] = "connecting"
  /\ ready' = [ready EXCEPT ![c] = "open"]
  /\ helloTimer' = TRUE
  /\ inbound' = IF state = "connecting" /\ (socket = c \/ IsOpen(socket))
               THEN [inbound EXCEPT ![socket] = @ \cup {"HelloAck"}]
               ELSE inbound
  /\ UNCHANGED <<state, disposed, pingTimer, missedPongs, reconnectTimer, echoTimer,
                 socket, unanswered>>

\* onopen.  Hello goes out on the current socket, which need not be c.
SocketOpens(c) ==
  /\ ready[c] = "connecting"
  /\ ready' = [ready EXCEPT ![c] = "open"]
  /\ helloTimer' = TRUE
  /\ inbound' = IF socket = c \/ IsOpen(socket)
               THEN [inbound EXCEPT ![socket] = @ \cup {"HelloAck"}]
               ELSE inbound
  /\ UNCHANGED <<state, disposed, pingTimer, missedPongs, reconnectTimer, echoTimer,
                 socket, unanswered>>

\* onopen with a certificate that is not the pinned one: the client says
\* "disconnected" and closes, and the close event makes it reconnect.
PinMismatch(c) ==
  /\ PinCheck
  /\ ready[c] = "connecting"
  /\ state' = "disconnected"
  /\ ready' = IF Live(socket)
                THEN [ready EXCEPT ![c] = "open", ![socket] = "closing"]
                ELSE [ready EXCEPT ![c] = "open"]
  /\ UNCHANGED <<disposed, timerVars, socket, inbound, unanswered>>

\* Faulty variant: this.socket keeps pointing at the socket that has closed.
SocketClosesKeepsSocket(c, fatal) ==
  /\ ready[c] # "closed"
  /\ ready' = [ready EXCEPT ![c] = "closed"]
  /\ pingTimer' = FALSE
  /\ IF fatal \/ disposed
       THEN state' = "disconnected" /\ UNCHANGED reconnectTimer
       ELSE ScheduleReconnect
  /\ UNCHANGED <<disposed, missedPongs, helloTimer, echoTimer, socket, inbound, unanswered>>

\* onSocketClose, of whichever socket.  The codes 4003 and 4004 are fatal.
SocketCloses(c, fatal) ==
  /\ ready[c] # "closed"
  /\ ready' = [ready EXCEPT ![c] = "closed"]
  /\ pingTimer' = FALSE
  /\ socket' = NoSocket
  /\ IF fatal \/ disposed
       THEN state' = "disconnected" /\ UNCHANGED reconnectTimer
       ELSE ScheduleReconnect
  /\ UNCHANGED <<disposed, missedPongs, helloTimer, echoTimer,
                 inbound, unanswered>>

-----------------------------------------------------------------------------
(* handleMessage, once the frame is decoded.  It asks neither which socket *)
(* the frame came from nor whether the client has been disposed of.        *)

Decoded(c, answer) ==
  /\ answer \in inbound[c]
  /\ inbound' = [inbound EXCEPT ![c] = @ \ {answer}]

\* sendAuthenticate, with the answers that are still due: like any frame, it goes out on
\* the current socket or not at all.
SendAuthenticate(due) ==
  inbound' = IF IsOpen(socket) THEN [due EXCEPT ![socket] = @ \cup {"AuthReply"}] ELSE due

HandleHelloAck(c, authRequired) ==
  /\ "HelloAck" \in inbound[c]
  /\ LET due == [inbound EXCEPT ![c] = @ \ {"HelloAck"}]
     IN  IF Resume THEN SendAuthenticate(due) ELSE inbound' = due
  /\ state' = IF authRequired THEN "connected" ELSE "authenticated"
  /\ pingTimer' = TRUE
  /\ UNCHANGED <<disposed, missedPongs, reconnectTimer, helloTimer,
                 echoTimer, socket, ready, unanswered>>

HandleAuthOk(c) ==
  /\ Decoded(c, "AuthReply")
  /\ state' = "authenticated"
  /\ UNCHANGED <<disposed, timerVars, socket, ready, unanswered>>

HandleAuthFailed(c) ==
  /\ Decoded(c, "AuthReply")
  /\ CloseSocket
  /\ UNCHANGED <<state, disposed, timerVars, socket, unanswered>>

HandlePong(c) ==
  /\ Decoded(c, "Pong")
  /\ missedPongs' = 0
  /\ unanswered' = IF c = socket THEN 0 ELSE unanswered
  /\ UNCHANGED <<state, disposed, pingTimer, reconnectTimer,
                 helloTimer, echoTimer, socket, ready>>

-----------------------------------------------------------------------------
(* Timers.                                                                 *)

\* The backoff timer fires.  The callback does not look at disposed.
ReconnectTimer(c) ==
  /\ reconnectTimer
  /\ reconnectTimer' = FALSE
  /\ OpenSocket(c)
  /\ UNCHANGED <<state, disposed, pingTimer, missedPongs, helloTimer, echoTimer>>

ReconnectThrows ==
  /\ reconnectTimer
  /\ ScheduleReconnect
  /\ UNCHANGED <<disposed, pingTimer, missedPongs, helloTimer, echoTimer, socketVars>>

\* "Hearing nothing for 30 s" is acted upon, by another Hello and another timer, in
\* the first connection only: a client that reconnects is not "connecting".
HelloTimer ==
  /\ helloTimer
  /\ state = "connecting"
  /\ SendHello
  /\ UNCHANGED <<state, disposed, pingTimer, missedPongs, reconnectTimer, echoTimer,
                 socket, ready, unanswered>>

EchoTimer ==
  /\ echoTimer
  /\ echoTimer' \in BOOLEAN
  /\ CloseSocket
  /\ UNCHANGED <<state, disposed, pingTimer, missedPongs, reconnectTimer, helloTimer, socket, inbound, unanswered>>

\* Faulty variant: the missed pongs are never acted upon.
TickPingForever ==
  /\ pingTimer
  /\ Send("Pong")
  /\ unanswered' = IF IsOpen(socket) THEN UpTo(unanswered + 1, MissedPongLimit) ELSE unanswered
  /\ missedPongs' = UpTo(missedPongs + 1, MissedPongLimit + 1)
  /\ UNCHANGED ready
  /\ UNCHANGED <<state, disposed, pingTimer, reconnectTimer,
                 helloTimer, echoTimer, socket>>

\* tickPing: missedPongs is of no connection in particular, and nothing but a Pong
\* resets it.
TickPing ==
  /\ pingTimer
  /\ Send("Pong")
  /\ unanswered' = IF IsOpen(socket) THEN UpTo(unanswered + 1, MissedPongLimit) ELSE unanswered
  /\ missedPongs' = UpTo(missedPongs + 1, MissedPongLimit + 1)
  /\ IF missedPongs' > MissedPongLimit THEN CloseSocket ELSE UNCHANGED ready
  /\ UNCHANGED <<state, disposed, pingTimer, reconnectTimer,
                 helloTimer, echoTimer, socket>>

-----------------------------------------------------------------------------
UserStep == \/ ConnectThrows \/ DisconnectGracefully \/ Dispose
            \/ \E c \in Conns : Connect(c)

NetworkStep ==
  \E c \in Conns :
    \/ SocketOpens(c) \/ PinMismatch(c)
    \/ \E fatal \in BOOLEAN : SocketCloses(c, fatal)

Handle(c) == \/ HandleAuthOk(c) \/ HandleAuthFailed(c) \/ HandlePong(c)
             \/ \E authRequired \in BOOLEAN : HandleHelloAck(c, authRequired)

TimerStep == \/ ReconnectThrows \/ HelloTimer \/ EchoTimer \/ TickPing
             \/ \E c \in Conns : ReconnectTimer(c)

Next == UserStep \/ NetworkStep \/ TimerStep \/ \E c \in Conns : Handle(c)

\* A socket the client has abandoned is closed by the gateway's silence watchdog, and
\* one it is closing by the closing handshake.
LetGo(c) == (c # socket \/ ready[c] = "closing") /\ \E fatal \in BOOLEAN : SocketCloses(c, fatal)

\* The event loop fires armed timers.  The network is not always down: a socket factory
\* that is asked again and again succeeds, an attempt does not stay pending, and not all
\* of infinitely many attempts and handshakes are cut short.
Fairness ==
  /\ WF_vars(TickPing)
  /\ WF_vars(\E c \in Conns : LetGo(c))
  /\ SF_vars(\E c \in Conns : ReconnectTimer(c))
  /\ SF_vars(\E c \in Conns : c = socket /\ SocketOpens(c))
  /\ SF_vars(\E c \in Conns, authRequired \in BOOLEAN :
               c = socket /\ IsOpen(c) /\ HandleHelloAck(c, authRequired))

Spec == Init /\ [][Next]_vars /\ Fairness

-----------------------------------------------------------------------------
(* Properties.                                                             *)

\* A client that shows "reconnecting" has a backoff timer armed or a socket whose
\* events will move it on: it is never stuck waiting for nothing, in whatever
\* order the ends of old and new sockets, timers and user calls come.
KeepsTrying == state = "reconnecting" => reconnectTimer \/ Live(socket)

\* "Tear down permanently - no further reconnects" (dispose): no socket is created
\* afterwards, by any timer or by the late end of any socket.
NoSocketAfterDispose ==
  [][disposed => \A c \in Conns : ready'[c] = "connecting" => ready[c] = "connecting"]_vars

\* A dead link is noticed: an open socket with a heartbeat is abandoned, or a Pong
\* comes.
DeadLinkNoticed ==
  (IsOpen(socket) /\ pingTimer /\ missedPongs > 0) ~> (~IsOpen(socket) \/ missedPongs = 0)

\* A client does not stay in "reconnecting" when the network lets handshakes through.
Recovers == state = "reconnecting" ~> state # "reconnecting"

\* "3 consecutive missed pongs transition the sender to the reconnect state"
\* (Protocol-Documentation 5.1): tickPing does not give up a socket with the very
\* first ping it sends on it, before any Pong could be missed there.
HeartbeatPatience ==
  [][(TickPing /\ \E c \in Conns : ready[c] = "open" /\ ready'[c] = "closing")
       => unanswered > 0]_vars
=============================================================================
