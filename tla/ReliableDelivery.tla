-------------------------- MODULE ReliableDelivery --------------------------
(***************************************************************************)
(* Reliable frames (mid > 0): ClientConnection's outbox with its retry     *)
(* timers and reconnections at one end, the gateway's replay guard, router *)
(* and handlers at the other, and the successive WebSockets between them.  *)
(*                                                                         *)
(* Both ends encode and decode asynchronously (inflating a compressed      *)
(* frame takes several turns of the event loop), so the frames of one      *)
(* connection overtake each other although TCP keeps their order: each     *)
(* direction is a bag.  A frame of a broken connection need never arrive,  *)
(* and one that was already received may still be handled afterwards.      *)
(*                                                                         *)
(* A handler is whatever the host application registered: it runs for a    *)
(* while and then reports success or a reason.  Authentication decides     *)
(* which frames reach one and is left open here (RefuseUnrouted).          *)
(*                                                                         *)
(* How the client decides to open, close and abandon sockets is the        *)
(* subject of ClientConnection; here there is at most one live socket.     *)
(***************************************************************************)
EXTENDS Naturals, FiniteSets

CONSTANTS MaxMid,          \* bound: reliable sends the application makes
          MaxConn,         \* bound: sockets opened one after the other
          MaxAckAttempts   \* MAX_ACK_ATTEMPTS

ASSUME MaxMidAssumption == MaxMid \in Nat
ASSUME MaxConnAssumption == MaxConn \in Nat
ASSUME AttemptsAssumption == MaxAckAttempts \in Nat /\ MaxAckAttempts >= 2

Mids  == 1..MaxMid
Conns == 1..MaxConn
NoSocket == 0

\* What the gateway answers for a frame it could decode, as far as the client
\* tells the answers apart: an Ack, a Nack it takes as final (permissionDenied,
\* malformed), and a Nack it retries (notAuthenticated, unknownType, replay).
Answers == {"ack", "refused", "transient"}
Replies == [mid : Mids, answer : Answers]

\* The reasons a reliable send fails with; "abandoned" stands for authFailed,
\* disposed, revoked and fatal, the reasons of failAllPending.
Reasons  == {"refused", "retryExhausted", "abandoned"}
Outcomes == {"unsent", "waiting", "ok"} \cup Reasons

VARIABLES
  midCounter,  \* the next message id
  outbox,      \* keys of the pending Map
  attempts,    \* PendingFrame.attempts
  timers,      \* sends with a live retry timer
  result,      \* what each send's promise settled with
  disposed,    \* dispose() has run
  encoding,    \* copies of each frame in the encodeFrame promise chain
  socket,      \* this.socket: a connection, or NoSocket
  cli,         \* readyState of each connection's client end
  up,          \* copies of each frame travelling to the gateway
  down,        \* answers travelling to the client
  seen,        \* GatewaySession.seenMids
  running,     \* frames whose handler has started and not finished
  invoked,     \* history: handler invocations of each frame
  applied      \* history: frames whose handler finished successfully

clientVars  == <<midCounter, outbox, attempts, timers, result, disposed>>
linkVars    == <<socket, cli>>
gatewayVars == <<seen, running, invoked, applied>>
vars == <<clientVars, linkVars, gatewayVars, encoding, up, down>>

TypeOK ==
  /\ midCounter \in 1..(MaxMid + 1)
  /\ outbox \subseteq Mids
  /\ attempts \in [Mids -> 0..MaxAckAttempts]
  /\ timers \subseteq Mids
  /\ result \in [Mids -> Outcomes]
  /\ disposed \in BOOLEAN
  /\ encoding \in [Mids -> Nat]
  /\ socket \in Conns \cup {NoSocket}
  /\ cli \in [Conns -> {"none", "open", "closing", "closed"}]
  /\ up \in [Conns -> [Mids -> Nat]]
  /\ down \in [Conns -> SUBSET Replies]
  /\ seen \in [Conns -> SUBSET Mids]
  /\ running \in [Conns -> SUBSET Mids]
  /\ invoked \in [Conns -> [Mids -> Nat]]
  /\ applied \in [Conns -> SUBSET Mids]

Init ==
  /\ midCounter = 1
  /\ outbox = {}
  /\ attempts = [m \in Mids |-> 0]
  /\ timers = {}
  /\ result = [m \in Mids |-> "unsent"]
  /\ disposed = FALSE
  /\ encoding = [m \in Mids |-> 0]
  /\ socket = NoSocket
  /\ cli = [c \in Conns |-> "none"]
  /\ up = [c \in Conns |-> [m \in Mids |-> 0]]
  /\ down = [c \in Conns |-> {}]
  /\ seen = [c \in Conns |-> {}]
  /\ running = [c \in Conns |-> {}]
  /\ invoked = [c \in Conns |-> [m \in Mids |-> 0]]
  /\ applied = [c \in Conns |-> {}]

-----------------------------------------------------------------------------
(* The client's outbox.                                                    *)

\* sendFrame: a frame is dropped when the socket is not open, and otherwise
\* enters the asynchronous encoder.
SendFrame(m) ==
  encoding' = IF socket # NoSocket /\ cli[socket] = "open"
                THEN [encoding EXCEPT ![m] = @ + 1]
                ELSE encoding

\* Faulty variant: one attempt more than the budget.
ScheduleRetryOffByOne(m, n, entries) ==
  /\ attempts' = [attempts EXCEPT ![m] = n]
  /\ IF n > MaxAckAttempts
       THEN /\ outbox' = entries \ {m}
            /\ timers' = timers \ {m}
            /\ result' = [result EXCEPT ![m] = "retryExhausted"]
       ELSE /\ outbox' = entries
            /\ timers' = timers \cup {m}
            /\ result' = [result EXCEPT ![m] = "waiting"]

\* scheduleRetry once attempts has become n: another timer, or the budget is
\* spent and the send fails.  Entries is the outbox it works on.
ScheduleRetry(m, n, entries) ==
  /\ attempts' = [attempts EXCEPT ![m] = n]
  /\ IF n >= MaxAckAttempts
       THEN /\ outbox' = entries \ {m}
            /\ timers' = timers \ {m}
            /\ result' = [result EXCEPT ![m] = "retryExhausted"]
       ELSE /\ outbox' = entries
            /\ timers' = timers \cup {m}
            /\ result' = [result EXCEPT ![m] = "waiting"]

SendReliable ==
  /\ midCounter \in Mids
  /\ midCounter' = midCounter + 1
  /\ SendFrame(midCounter)
  /\ ScheduleRetry(midCounter, 1, outbox \cup {midCounter})
  /\ UNCHANGED <<disposed, linkVars, gatewayVars, up, down>>

\* The retry timer fires: send again, count the attempt.
RetryTimer(m) ==
  /\ m \in timers
  /\ SendFrame(m)
  /\ ScheduleRetry(m, attempts[m] + 1, outbox)
  /\ UNCHANGED <<midCounter, disposed, linkVars, gatewayVars, up, down>>

\* Faulty variant: the retry timers are not cleared.
FailAllPendingKeepsTimers ==
  /\ result' = [m \in Mids |-> IF m \in outbox THEN "abandoned" ELSE result[m]]
  /\ timers' = timers
  /\ outbox' = {}

\* failAllPending: every send still in the Map fails, and only those.
FailAllPending ==
  /\ result' = [m \in Mids |-> IF m \in outbox THEN "abandoned" ELSE result[m]]
  /\ timers' = timers \ outbox
  /\ outbox' = {}

\* An encoded frame goes to whatever socket is current by then.
Transmit(m) ==
  /\ encoding[m] > 0
  /\ encoding' = [encoding EXCEPT ![m] = @ - 1]
  /\ up' = IF socket # NoSocket /\ cli[socket] = "open"
             THEN [up EXCEPT ![socket][m] = @ + 1]
             ELSE up
  /\ UNCHANGED <<clientVars, linkVars, gatewayVars, down>>

-----------------------------------------------------------------------------
(* Answers reaching handleMessage.                                         *)

Take(c, reply) == /\ reply \in down[c]
                  /\ down' = [down EXCEPT ![c] = @ \ {reply}]

ReceiveAck(c, m) ==
  /\ Take(c, [mid |-> m, answer |-> "ack"])
  /\ m \in outbox
  /\ outbox' = outbox \ {m}
  /\ timers' = timers \ {m}
  /\ result' = [result EXCEPT ![m] = "ok"]
  /\ UNCHANGED <<midCounter, attempts, disposed, linkVars, gatewayVars,
                 encoding, up>>

ReceiveFinalNack(c, m) ==
  /\ Take(c, [mid |-> m, answer |-> "refused"])
  /\ m \in outbox
  /\ outbox' = outbox \ {m}
  /\ timers' = timers \ {m}
  /\ result' = [result EXCEPT ![m] = "refused"]
  /\ UNCHANGED <<midCounter, attempts, disposed, linkVars, gatewayVars,
                 encoding, up>>

\* Faulty variant: a Nack gives the send a new retry budget.
ReceiveTransientNackForgetful(c, m) ==
  /\ Take(c, [mid |-> m, answer |-> "transient"])
  /\ m \in outbox
  /\ ScheduleRetry(m, 0, outbox \ {m})
  /\ UNCHANGED <<midCounter, disposed, linkVars, gatewayVars,
                 encoding, up>>

\* The send leaves the Map, and is rescheduled without being put back: no
\* later answer and no failAllPending finds it again.
ReceiveTransientNack(c, m) ==
  /\ Take(c, [mid |-> m, answer |-> "transient"])
  /\ m \in outbox
  /\ ScheduleRetry(m, attempts[m], outbox \ {m})
  /\ UNCHANGED <<midCounter, disposed, linkVars, gatewayVars, encoding, up>>

\* An answer for a send that is not in the Map is ignored.
ReceiveStaleAnswer(c, m, answer) ==
  /\ Take(c, [mid |-> m, answer |-> answer])
  /\ m \notin outbox
  /\ UNCHANGED <<clientVars, linkVars, gatewayVars, encoding, up>>

\* AuthFailed: every kept send fails and the client closes the socket.
ReceiveAuthFailed ==
  /\ socket # NoSocket
  /\ cli[socket] = "open"
  /\ cli' = [cli EXCEPT ![socket] = "closing"]
  /\ FailAllPending
  /\ UNCHANGED <<midCounter, attempts, disposed, socket, gatewayVars,
                 encoding, up, down>>

-----------------------------------------------------------------------------
(* Sockets.                                                                *)

\* openSocket up to onopen.  Until then sendFrame drops what it is given, as it
\* does without a socket.
SocketOpened(c) ==
  /\ ~disposed
  /\ socket = NoSocket
  /\ cli[c] = "none"
  /\ \A d \in 1..(c - 1) : cli[d] # "none"
  /\ socket' = c
  /\ cli' = [cli EXCEPT ![c] = "open"]
  /\ UNCHANGED <<clientVars, gatewayVars, encoding, up, down>>

\* onSocketClose.  A fatal close code, or one after dispose(), fails what is
\* in the Map; any other leaves it to the retry timers.
SocketClosed(c, fatal) ==
  /\ cli[c] \in {"open", "closing"}
  /\ cli' = [cli EXCEPT ![c] = "closed"]
  /\ socket' = NoSocket
  /\ IF fatal \/ disposed
       THEN FailAllPending
       ELSE UNCHANGED <<outbox, timers, result>>
  /\ UNCHANGED <<midCounter, attempts, disposed, gatewayVars, encoding,
                 up, down>>

Dispose ==
  /\ ~disposed
  /\ disposed' = TRUE
  /\ FailAllPending
  /\ cli' = IF socket = NoSocket THEN cli ELSE [cli EXCEPT ![socket] = "closing"]
  /\ socket' = NoSocket
  /\ UNCHANGED <<midCounter, attempts, gatewayVars, encoding, up,
                 down>>

-----------------------------------------------------------------------------
(* The gateway: onMessage, the router and applyOutcome.                    *)

Arrive(c, m) == /\ up[c][m] > 0
                /\ up' = [up EXCEPT ![c][m] = @ - 1]

\* sendTo.  An answer it drops, because the socket is not open any more, is one that
\* never arrives.
Answer(c, m, answer) == down' = [down EXCEPT ![c] = @ \cup {[mid |-> m, answer |-> answer]}]

\* Too large, or not decodable: the Nack carries mid 0, which is no send's.  Which
\* frames those are is left open.
RejectUndecodable(c, m) ==
  /\ Arrive(c, m)
  /\ UNCHANGED <<clientVars, linkVars, gatewayVars, encoding, down>>

\* Faulty variant: only frames still being handled count as replays.
IsReplayOfRunning(c, m) == m \in running[c]

\* The replay guard, before anything else looks at the frame.
IsReplay(c, m) == m \in seen[c]

RejectReplay(c, m) ==
  /\ Arrive(c, m)
  /\ IsReplay(c, m)
  /\ Answer(c, m, "transient")
  /\ UNCHANGED <<clientVars, linkVars, gatewayVars, encoding>>

FirstArrival(c, m) ==
  /\ Arrive(c, m)
  /\ ~IsReplay(c, m)
  /\ seen' = [seen EXCEPT ![c] = @ \cup {m}]

\* The router's own Nacks, notAuthenticated and unknownType.  The frame is in
\* seenMids already, so its retries on this connection are replays.
RefuseUnrouted(c, m) ==
  /\ FirstArrival(c, m)
  /\ Answer(c, m, "transient")
  /\ UNCHANGED <<clientVars, linkVars, running, invoked, applied, encoding>>

StartHandler(c, m) ==
  /\ FirstArrival(c, m)
  /\ running' = [running EXCEPT ![c] = @ \cup {m}]
  /\ invoked' = [invoked EXCEPT ![c][m] = @ + 1]
  /\ UNCHANGED <<clientVars, linkVars, applied, encoding, down>>

\* Faulty variant: the gateway acks whatever the handler answered.
FinishHandlerAlwaysAcks(c, m, answer) ==
  /\ m \in running[c]
  /\ running' = [running EXCEPT ![c] = @ \ {m}]
  /\ applied' = IF answer = "ack" THEN [applied EXCEPT ![c] = @ \cup {m}] ELSE applied
  /\ Answer(c, m, "ack")
  /\ UNCHANGED <<clientVars, linkVars, seen, invoked, encoding, up>>

\* The handler's promise settles: an Ack when it reports success, and a Nack with
\* the reason it returned or threw.
FinishHandler(c, m, answer) ==
  /\ m \in running[c]
  /\ running' = [running EXCEPT ![c] = @ \ {m}]
  /\ applied' = IF answer = "ack" THEN [applied EXCEPT ![c] = @ \cup {m}] ELSE applied
  /\ Answer(c, m, answer)
  /\ UNCHANGED <<clientVars, linkVars, seen, invoked, encoding, up>>

-----------------------------------------------------------------------------
ClientStep ==
  \/ SendReliable \/ Dispose \/ ReceiveAuthFailed
  \/ \E m \in Mids : RetryTimer(m) \/ Transmit(m)
  \/ \E c \in Conns, m \in Mids :
       \/ ReceiveAck(c, m)
       \/ ReceiveFinalNack(c, m)
       \/ ReceiveTransientNack(c, m)
       \/ \E answer \in Answers : ReceiveStaleAnswer(c, m, answer)

LinkStep ==
  \E c \in Conns :
    \/ SocketOpened(c)
    \/ \E fatal \in BOOLEAN : SocketClosed(c, fatal)

GatewayStep ==
  \E c \in Conns, m \in Mids :
    \/ RejectUndecodable(c, m) \/ RejectReplay(c, m)
    \/ RefuseUnrouted(c, m) \/ StartHandler(c, m)
    \/ \E answer \in Answers : FinishHandler(c, m, answer)

Next == ClientStep \/ LinkStep \/ GatewayStep

\* The host's event loop fires every armed timer.
Spec == Init /\ [][Next]_vars /\ \A m \in Mids : WF_vars(RetryTimer(m))

-----------------------------------------------------------------------------
(* Properties.                                                             *)

\* A promise is pending exactly while a retry timer is armed for it: no send is
\* orphaned without a timer (it would never settle) and no timer survives its
\* promise (it would retransmit a settled send).
TimerIffWaiting == \A m \in Mids : result[m] = "waiting" <=> m \in timers

\* A frame's handler is invoked at most once on one connection, however its
\* copies, retries and answers interleave (the replay guard of onMessage).
OneRunPerConnection == \A c \in Conns, m \in Mids : invoked[c][m] <= 1

\* The sum over the connections.
OverConns(f) == LET Sum[c \in 0..MaxConn] == IF c = 0 THEN 0 ELSE Sum[c - 1] + f[c]
                IN  Sum[MaxConn]

\* The handler runs of a frame and the copies still under way, on all sockets.
Deliveries(m) == encoding[m] + OverConns([c \in Conns |-> up[c][m] + invoked[c][m]])

\* They never exceed the attempts made, nor those MAX_ACK_ATTEMPTS, across reconnections,
\* Nacks and late timers.
RetryBudget ==
  \A m \in Mids : Deliveries(m) <= attempts[m] /\ attempts[m] <= MaxAckAttempts

\* The outbox implements what sendReliable promises: each promise settles once,
\* eventually, and with ok only for a frame some connection's handler applied.
Effects == {m \in Mids : \E c \in Conns : m \in applied[c]}
Promise == INSTANCE SendPromise WITH outcome <- result, effects <- Effects
KeepsPromise == Promise!Spec

\* "a network that delivers both the original and the retry cannot produce double
\* side effects" (Protocol-Documentation 5.2): a frame is applied once in all.
NoDoubleSideEffects ==
  \A m \in Mids : Cardinality({c \in Conns : m \in applied[c]}) <= 1
=============================================================================
