----------------------- MODULE ReliableDeliveryProofs -----------------------
(***************************************************************************)
(* Theorems about ReliableDelivery, for any number of sends, connections   *)
(* and attempts.  The inductive invariant has three parts, one for each    *)
(* party: what the client's bookkeeping keeps together, what the replay    *)
(* guard remembers, and what the messages in flight witness.               *)
(***************************************************************************)
EXTENDS ReliableDelivery, WellFoundedInduction, TLAPS

\* The outbox never holds a settled send, a settled send has no timer, and a
\* timer still has an attempt left to make.
Bookkeeping ==
  /\ TimerIffWaiting
  /\ outbox \subseteq timers
  /\ \A m \in timers : attempts[m] < MaxAckAttempts
  /\ \A m \in Mids : result[m] = "unsent" <=> m >= midCounter

\* A handler that ran left its frame in seenMids.
Guarded ==
  \A c \in Conns, m \in Mids :
    /\ invoked[c][m] <= 1
    /\ invoked[c][m] > 0 => m \in seen[c]

\* Nothing is under way for a send that was not made; an Ack under way, and a
\* send settled with ok, witness a handler that succeeded.
Witnessed ==
  /\ \A m \in Mids : encoding[m] > 0 => m < midCounter
  /\ \A c \in Conns, m \in Mids : up[c][m] > 0 => m < midCounter
  /\ \A c \in Conns : \A m \in running[c] : m < midCounter
  /\ \A c \in Conns, m \in Mids :
       [mid |-> m, answer |-> "ack"] \in down[c] => m \in applied[c]
  /\ \A m \in Mids : result[m] = "ok" => \E c \in Conns : m \in applied[c]

IInv == TypeOK /\ Bookkeeping /\ Guarded /\ Witnessed
-----------------------------------------------------------------------------
LEMMA CountUpdate ==
  ASSUME NEW f \in [Conns -> [Mids -> Nat]], NEW c \in Conns, NEW m \in Mids,
         NEW n \in Nat
  PROVE  [f EXCEPT ![c][m] = n] \in [Conns -> [Mids -> Nat]]
  OBVIOUS

\* What scheduleRetry leaves behind, timer armed or budget spent.
LEMMA ScheduleRetryType ==
  ASSUME TypeOK, NEW m \in Mids, NEW n \in 0..MaxAckAttempts,
         NEW entries \in SUBSET Mids, ScheduleRetry(m, n, entries)
  PROVE  /\ attempts' \in [Mids -> 0..MaxAckAttempts]
         /\ outbox' \subseteq Mids
         /\ timers' \subseteq Mids
         /\ result' \in [Mids -> Outcomes]
<1>1. attempts' \in [Mids -> 0..MaxAckAttempts]
  BY DEF TypeOK, ScheduleRetry
<1>2. CASE n >= MaxAckAttempts
  BY <1>1, <1>2 DEF TypeOK, ScheduleRetry, Outcomes, Reasons
<1>3. CASE ~(n >= MaxAckAttempts)
  BY <1>1, <1>3 DEF TypeOK, ScheduleRetry, Outcomes
<1> QED
  BY <1>2, <1>3

\* Which sends scheduleRetry touches, and that a timer it leaves armed is for a
\* send that still waits and still has an attempt.
LEMMA ScheduleRetryEffect ==
  ASSUME TypeOK, NEW m \in Mids, NEW n \in 0..MaxAckAttempts,
         NEW entries \in SUBSET (timers \cup {m}), ScheduleRetry(m, n, entries)
  PROVE  /\ \A k \in Mids : k # m => result'[k] = result[k]
         /\ \A k \in Mids : k # m => attempts'[k] = attempts[k]
         /\ \A k \in Mids : k # m => (k \in timers' <=> k \in timers)
         /\ result'[m] \in {"waiting", "retryExhausted"}
         /\ result'[m] = "waiting" <=> m \in timers'
         /\ m \in timers' => attempts'[m] < MaxAckAttempts
         /\ outbox' \subseteq timers'
<1>1. attempts' = [attempts EXCEPT ![m] = n] /\ n \in Nat
  BY DEF ScheduleRetry
<1>2. CASE n >= MaxAckAttempts
  <2>1. /\ outbox' = entries \ {m}
        /\ timers' = timers \ {m}
        /\ result' = [result EXCEPT ![m] = "retryExhausted"]
    BY <1>2 DEF ScheduleRetry
  <2> QED
    BY <1>1, <2>1 DEF TypeOK
<1>3. CASE ~(n >= MaxAckAttempts)
  <2>1. /\ outbox' = entries
        /\ timers' = timers \cup {m}
        /\ result' = [result EXCEPT ![m] = "waiting"]
    BY <1>3 DEF ScheduleRetry
  <2>2. attempts'[m] < MaxAckAttempts
    BY <1>1, <1>3, AttemptsAssumption DEF TypeOK
  <2> QED
    BY <1>1, <2>1, <2>2 DEF TypeOK
<1> QED
  BY <1>2, <1>3

LEMMA SendFrameType ==
  ASSUME TypeOK, NEW m \in Mids, SendFrame(m)
  PROVE  encoding' \in [Mids -> Nat]
  BY DEF TypeOK, SendFrame

LEMMA TypeStep == IInv /\ [Next]_vars => TypeOK'
<1> SUFFICES ASSUME IInv, [Next]_vars PROVE TypeOK'
  OBVIOUS
<1> USE DEF IInv
<1>1. CASE SendReliable
  <2>1. /\ midCounter \in Mids
        /\ midCounter' \in 1..(MaxMid + 1)
    <3>1. midCounter \in Mids /\ midCounter' = midCounter + 1
      BY <1>1 DEF SendReliable
    <3>2. midCounter' \in 1..(MaxMid + 1)
      BY <3>1, MaxMidAssumption DEF Mids
    <3> QED
      BY <3>1, <3>2
  <2>2. SendFrame(midCounter) /\ ScheduleRetry(midCounter, 1, outbox \cup {midCounter})
    BY <1>1 DEF SendReliable
  <2>3. 1 \in 0..MaxAckAttempts /\ outbox \cup {midCounter} \in SUBSET Mids
    BY <2>1, AttemptsAssumption DEF TypeOK
  <2> QED
    BY <1>1, <2>1, <2>2, <2>3, SendFrameType, ScheduleRetryType
    DEF SendReliable, TypeOK, linkVars, gatewayVars
<1>2. CASE Dispose
  BY <1>2
  DEF Dispose, FailAllPending, TypeOK, Outcomes, Reasons,
      clientVars, linkVars, gatewayVars
<1>3. CASE ReceiveAuthFailed
  BY <1>3
  DEF ReceiveAuthFailed, FailAllPending, TypeOK, Outcomes, Reasons,
      clientVars, linkVars, gatewayVars
<1>4. ASSUME NEW m \in Mids,
            RetryTimer(m)
     PROVE  TypeOK'
  <2>1. SendFrame(m) /\ ScheduleRetry(m, attempts[m] + 1, outbox)
    BY <1>4 DEF RetryTimer
  <2>2. attempts[m] + 1 \in 0..MaxAckAttempts /\ outbox \in SUBSET Mids
    BY <1>4, AttemptsAssumption DEF RetryTimer, TypeOK, Bookkeeping
  <2> QED
    BY <1>4, <2>1, <2>2, SendFrameType, ScheduleRetryType
    DEF RetryTimer, TypeOK, linkVars, gatewayVars
<1>5. ASSUME NEW m \in Mids,
            Transmit(m)
     PROVE  TypeOK'
  <2>1. encoding' \in [Mids -> Nat]
    BY <1>5 DEF Transmit, TypeOK
  <2>2. up' \in [Conns -> [Mids -> Nat]]
    <3>1. CASE socket # NoSocket /\ cli[socket] = "open"
      <4>1. socket \in Conns
        BY <3>1 DEF TypeOK
      <4>2. up[socket][m] + 1 \in Nat
        BY <4>1 DEF TypeOK
      <4> QED
        BY <1>5, <3>1, <4>1, <4>2, CountUpdate DEF Transmit, TypeOK
    <3> QED
      BY <1>5, <3>1 DEF Transmit, TypeOK
  <2> QED
    BY <1>5, <2>1, <2>2 DEF Transmit, TypeOK, clientVars, linkVars, gatewayVars
<1>6. ASSUME NEW c \in Conns, NEW m \in Mids,
            ReceiveAck(c, m)
     PROVE  TypeOK'
  BY <1>6
  DEF ReceiveAck, Take, TypeOK, Outcomes, Reasons,
      clientVars, linkVars, gatewayVars
<1>7. ASSUME NEW c \in Conns, NEW m \in Mids,
            ReceiveFinalNack(c, m)
     PROVE  TypeOK'
  BY <1>7
  DEF ReceiveFinalNack, Take, TypeOK, Outcomes, Reasons,
      clientVars, linkVars, gatewayVars
<1>8. ASSUME NEW c \in Conns, NEW m \in Mids,
            ReceiveTransientNack(c, m)
     PROVE  TypeOK'
  <2>1. ScheduleRetry(m, attempts[m], outbox \ {m})
    BY <1>8 DEF ReceiveTransientNack
  <2>2. attempts[m] \in 0..MaxAckAttempts /\ outbox \ {m} \in SUBSET Mids
    BY DEF TypeOK
  <2> QED
    BY <1>8, <2>1, <2>2, ScheduleRetryType
    DEF ReceiveTransientNack, Take, TypeOK, linkVars, gatewayVars
<1>9. ASSUME NEW c \in Conns, NEW m \in Mids, NEW a \in Answers,
            ReceiveStaleAnswer(c, m, a)
     PROVE  TypeOK'
  BY <1>9
  DEF ReceiveStaleAnswer, Take, TypeOK, Outcomes, Reasons,
      clientVars, linkVars, gatewayVars
<1>10. ASSUME NEW c \in Conns,
            SocketOpened(c)
     PROVE  TypeOK'
  BY <1>10
  DEF SocketOpened, TypeOK, Outcomes, Reasons,
      clientVars, linkVars, gatewayVars
<1>11. ASSUME NEW c \in Conns, NEW f \in BOOLEAN,
            SocketClosed(c, f)
     PROVE  TypeOK'
  BY <1>11
  DEF SocketClosed, FailAllPending, TypeOK, Outcomes, Reasons,
      clientVars, linkVars, gatewayVars
<1>13. ASSUME NEW c \in Conns, NEW m \in Mids,
            RejectUndecodable(c, m)
     PROVE  TypeOK'
  <2>1. up' \in [Conns -> [Mids -> Nat]]
    <3>1. up[c][m] - 1 \in Nat /\ up' = [up EXCEPT ![c][m] = up[c][m] - 1]
      BY <1>13 DEF RejectUndecodable, Arrive, TypeOK
    <3> QED
      BY <3>1, CountUpdate DEF TypeOK
  <2> QED
    BY <1>13, <2>1 DEF RejectUndecodable, Arrive, TypeOK, clientVars, linkVars, gatewayVars
<1>14. ASSUME NEW c \in Conns, NEW m \in Mids,
            RejectReplay(c, m)
     PROVE  TypeOK'
  <2>1. up' \in [Conns -> [Mids -> Nat]]
    <3>1. up[c][m] - 1 \in Nat /\ up' = [up EXCEPT ![c][m] = up[c][m] - 1]
      BY <1>14 DEF RejectReplay, Arrive, Answer, TypeOK
    <3> QED
      BY <3>1, CountUpdate DEF TypeOK
  <2>2. down' \in [Conns -> SUBSET Replies]
    BY <1>14 DEF RejectReplay, Arrive, Answer, TypeOK, Replies, Answers
  <2> QED
    BY <1>14, <2>1, <2>2 DEF RejectReplay, Arrive, Answer, TypeOK, clientVars, linkVars, gatewayVars
<1>15. ASSUME NEW c \in Conns, NEW m \in Mids,
            RefuseUnrouted(c, m)
     PROVE  TypeOK'
  <2>1. up' \in [Conns -> [Mids -> Nat]]
    <3>1. up[c][m] - 1 \in Nat /\ up' = [up EXCEPT ![c][m] = up[c][m] - 1]
      BY <1>15 DEF RefuseUnrouted, FirstArrival, Arrive, IsReplay, Answer, TypeOK
    <3> QED
      BY <3>1, CountUpdate DEF TypeOK
  <2>2. down' \in [Conns -> SUBSET Replies]
    BY <1>15 DEF RefuseUnrouted, FirstArrival, Arrive, IsReplay, Answer, TypeOK, Replies, Answers
  <2> QED
    BY <1>15, <2>1, <2>2 DEF RefuseUnrouted, FirstArrival, Arrive, IsReplay, Answer, TypeOK, clientVars, linkVars, gatewayVars
<1>16. ASSUME NEW c \in Conns, NEW m \in Mids,
            StartHandler(c, m)
     PROVE  TypeOK'
  <2>1. up' \in [Conns -> [Mids -> Nat]]
    <3>1. up[c][m] - 1 \in Nat /\ up' = [up EXCEPT ![c][m] = up[c][m] - 1]
      BY <1>16 DEF StartHandler, FirstArrival, Arrive, IsReplay, TypeOK
    <3> QED
      BY <3>1, CountUpdate DEF TypeOK
  <2>2. invoked' \in [Conns -> [Mids -> Nat]]
    <3>1. invoked[c][m] + 1 \in Nat /\ invoked' = [invoked EXCEPT ![c][m] = invoked[c][m] + 1]
      BY <1>16 DEF StartHandler, FirstArrival, Arrive, IsReplay, TypeOK
    <3> QED
      BY <3>1, CountUpdate DEF TypeOK
  <2> QED
    BY <1>16, <2>1, <2>2 DEF StartHandler, FirstArrival, Arrive, IsReplay, TypeOK, clientVars, linkVars
<1>17. ASSUME NEW c \in Conns, NEW m \in Mids, NEW a \in Answers,
            FinishHandler(c, m, a)
     PROVE  TypeOK'
  <2>1. down' \in [Conns -> SUBSET Replies]
    BY <1>17 DEF FinishHandler, Answer, TypeOK, Replies
  <2> QED
    BY <1>17, <2>1 DEF FinishHandler, TypeOK, clientVars, linkVars
<1>18. CASE UNCHANGED vars
  BY <1>18 DEF vars, TypeOK, clientVars, linkVars, gatewayVars
<1> QED
  BY <1>1, <1>2, <1>3, <1>4, <1>5, <1>6, <1>7, <1>8, <1>9, <1>10, <1>11, <1>13, <1>14, <1>15, <1>16, <1>17, <1>18
  DEF Next, ClientStep, LinkStep, GatewayStep

LEMMA BookkeepingStep == IInv /\ [Next]_vars => Bookkeeping'
<1> SUFFICES ASSUME IInv, [Next]_vars PROVE Bookkeeping'
  OBVIOUS
<1>1. CASE SendReliable
  <2>1. /\ midCounter \in Mids
        /\ midCounter' = midCounter + 1
        /\ ScheduleRetry(midCounter, 1, outbox \cup {midCounter})
    BY <1>1 DEF SendReliable
  <2>2. 1 \in 0..MaxAckAttempts /\ outbox \cup {midCounter} \in SUBSET (timers \cup {midCounter})
    BY AttemptsAssumption DEF IInv, Bookkeeping
  <2>3. /\ \A k \in Mids : k # midCounter => result'[k] = result[k]
        /\ \A k \in Mids : k # midCounter => attempts'[k] = attempts[k]
        /\ \A k \in Mids : k # midCounter => (k \in timers' <=> k \in timers)
        /\ result'[midCounter] \in {"waiting", "retryExhausted"}
        /\ result'[midCounter] = "waiting" <=> midCounter \in timers'
        /\ midCounter \in timers' => attempts'[midCounter] < MaxAckAttempts
        /\ outbox' \subseteq timers'
    BY <2>1, <2>2, ScheduleRetryEffect DEF IInv
  <2>4. TimerIffWaiting'
    BY <2>1, <2>3 DEF IInv, Bookkeeping, TimerIffWaiting
  <2>5. \A k \in timers' : attempts'[k] < MaxAckAttempts
    BY <2>1, <2>3, TypeStep DEF IInv, Bookkeeping, TypeOK
  <2>6. \A k \in Mids : result'[k] = "unsent" <=> k >= midCounter'
    <3>1. \A k \in Mids : k # midCounter => (k >= midCounter <=> k >= midCounter')
      BY <2>1 DEF Mids
    <3>2. ~(midCounter >= midCounter')
      BY <2>1 DEF Mids
    <3> QED
      BY <2>1, <2>3, <3>1, <3>2 DEF IInv, Bookkeeping
  <2> QED
    BY <2>3, <2>4, <2>5, <2>6 DEF Bookkeeping
<1>4. ASSUME NEW m \in Mids,
            RetryTimer(m)
     PROVE  Bookkeeping'
  <2>1. /\ m \in timers
        /\ midCounter' = midCounter
        /\ ScheduleRetry(m, attempts[m] + 1, outbox)
    BY <1>4 DEF RetryTimer
  <2>2. attempts[m] + 1 \in 0..MaxAckAttempts /\ outbox \in SUBSET (timers \cup {m})
    BY <2>1, AttemptsAssumption DEF IInv, TypeOK, Bookkeeping
  <2>3. /\ \A k \in Mids : k # m => result'[k] = result[k]
        /\ \A k \in Mids : k # m => attempts'[k] = attempts[k]
        /\ \A k \in Mids : k # m => (k \in timers' <=> k \in timers)
        /\ result'[m] \in {"waiting", "retryExhausted"}
        /\ result'[m] = "waiting" <=> m \in timers'
        /\ m \in timers' => attempts'[m] < MaxAckAttempts
        /\ outbox' \subseteq timers'
    BY <2>1, <2>2, ScheduleRetryEffect DEF IInv
  <2>4. TimerIffWaiting'
    BY <2>3 DEF IInv, Bookkeeping, TimerIffWaiting
  <2>5. \A k \in timers' : attempts'[k] < MaxAckAttempts
    BY <2>3, TypeStep DEF IInv, Bookkeeping, TypeOK
  <2>6. \A k \in Mids : result'[k] = "unsent" <=> k >= midCounter'
    BY <2>1, <2>3 DEF IInv, TypeOK, Bookkeeping, TimerIffWaiting
  <2> QED
    BY <2>3, <2>4, <2>5, <2>6 DEF Bookkeeping
<1>8. ASSUME NEW c \in Conns, NEW m \in Mids,
            ReceiveTransientNack(c, m)
     PROVE  Bookkeeping'
  <2>1. /\ m \in timers
        /\ midCounter' = midCounter
        /\ ScheduleRetry(m, attempts[m], outbox \ {m})
    BY <1>8 DEF ReceiveTransientNack, IInv, Bookkeeping
  <2>2. attempts[m] \in 0..MaxAckAttempts /\ outbox \ {m} \in SUBSET (timers \cup {m})
    BY <2>1 DEF IInv, TypeOK, Bookkeeping
  <2>3. /\ \A k \in Mids : k # m => result'[k] = result[k]
        /\ \A k \in Mids : k # m => attempts'[k] = attempts[k]
        /\ \A k \in Mids : k # m => (k \in timers' <=> k \in timers)
        /\ result'[m] \in {"waiting", "retryExhausted"}
        /\ result'[m] = "waiting" <=> m \in timers'
        /\ m \in timers' => attempts'[m] < MaxAckAttempts
        /\ outbox' \subseteq timers'
    BY <2>1, <2>2, ScheduleRetryEffect DEF IInv
  <2>4. TimerIffWaiting'
    BY <2>3 DEF IInv, Bookkeeping, TimerIffWaiting
  <2>5. \A k \in timers' : attempts'[k] < MaxAckAttempts
    BY <2>3, TypeStep DEF IInv, Bookkeeping, TypeOK
  <2>6. \A k \in Mids : result'[k] = "unsent" <=> k >= midCounter'
    BY <2>1, <2>3 DEF IInv, TypeOK, Bookkeeping, TimerIffWaiting
  <2> QED
    BY <2>3, <2>4, <2>5, <2>6 DEF Bookkeeping
<1> USE AttemptsAssumption, MaxMidAssumption DEF IInv, TypeOK, Bookkeeping, TimerIffWaiting, clientVars, linkVars, gatewayVars, Mids
<1>2. CASE Dispose
  BY <1>2 DEF Dispose, FailAllPending
<1>3. CASE ReceiveAuthFailed
  BY <1>3 DEF ReceiveAuthFailed, FailAllPending
<1>5. ASSUME NEW m \in Mids,
            Transmit(m)
     PROVE  Bookkeeping'
  BY <1>5 DEF Transmit
<1>6. ASSUME NEW c \in Conns, NEW m \in Mids,
            ReceiveAck(c, m)
     PROVE  Bookkeeping'
  BY <1>6 DEF ReceiveAck, Take
<1>7. ASSUME NEW c \in Conns, NEW m \in Mids,
            ReceiveFinalNack(c, m)
     PROVE  Bookkeeping'
  BY <1>7 DEF ReceiveFinalNack, Take
<1>9. ASSUME NEW c \in Conns, NEW m \in Mids, NEW a \in Answers,
            ReceiveStaleAnswer(c, m, a)
     PROVE  Bookkeeping'
  BY <1>9 DEF ReceiveStaleAnswer, Take
<1>10. ASSUME NEW c \in Conns,
            SocketOpened(c)
     PROVE  Bookkeeping'
  BY <1>10 DEF SocketOpened
<1>11. ASSUME NEW c \in Conns, NEW f \in BOOLEAN,
            SocketClosed(c, f)
     PROVE  Bookkeeping'
  BY <1>11 DEF SocketClosed, FailAllPending
<1>13. ASSUME NEW c \in Conns, NEW m \in Mids,
            RejectUndecodable(c, m)
     PROVE  Bookkeeping'
  BY <1>13 DEF RejectUndecodable, Arrive
<1>14. ASSUME NEW c \in Conns, NEW m \in Mids,
            RejectReplay(c, m)
     PROVE  Bookkeeping'
  BY <1>14 DEF RejectReplay, Arrive, Answer
<1>15. ASSUME NEW c \in Conns, NEW m \in Mids,
            RefuseUnrouted(c, m)
     PROVE  Bookkeeping'
  BY <1>15 DEF RefuseUnrouted, FirstArrival, Arrive, IsReplay, Answer
<1>16. ASSUME NEW c \in Conns, NEW m \in Mids,
            StartHandler(c, m)
     PROVE  Bookkeeping'
  BY <1>16 DEF StartHandler, FirstArrival, Arrive, IsReplay
<1>17. ASSUME NEW c \in Conns, NEW m \in Mids, NEW a \in Answers,
            FinishHandler(c, m, a)
     PROVE  Bookkeeping'
  BY <1>17 DEF FinishHandler, Answer
<1>18. CASE UNCHANGED vars
  BY <1>18 DEF vars
<1> QED
  BY <1>1, <1>2, <1>3, <1>4, <1>5, <1>6, <1>7, <1>8, <1>9, <1>10, <1>11, <1>13, <1>14, <1>15, <1>16, <1>17, <1>18
  DEF Next, ClientStep, LinkStep, GatewayStep

LEMMA GuardedStep == IInv /\ [Next]_vars => Guarded'
<1> SUFFICES ASSUME IInv, [Next]_vars PROVE Guarded'
  OBVIOUS
<1> USE DEF IInv, TypeOK, Guarded, clientVars, linkVars, gatewayVars
<1>1. CASE SendReliable
  BY <1>1 DEF SendReliable, SendFrame, ScheduleRetry
<1>2. CASE Dispose
  BY <1>2 DEF Dispose, FailAllPending
<1>3. CASE ReceiveAuthFailed
  BY <1>3 DEF ReceiveAuthFailed, FailAllPending
<1>4. ASSUME NEW m \in Mids,
            RetryTimer(m)
     PROVE  Guarded'
  BY <1>4 DEF RetryTimer, SendFrame, ScheduleRetry
<1>5. ASSUME NEW m \in Mids,
            Transmit(m)
     PROVE  Guarded'
  BY <1>5 DEF Transmit
<1>6. ASSUME NEW c \in Conns, NEW m \in Mids,
            ReceiveAck(c, m)
     PROVE  Guarded'
  BY <1>6 DEF ReceiveAck, Take
<1>7. ASSUME NEW c \in Conns, NEW m \in Mids,
            ReceiveFinalNack(c, m)
     PROVE  Guarded'
  BY <1>7 DEF ReceiveFinalNack, Take
<1>8. ASSUME NEW c \in Conns, NEW m \in Mids,
            ReceiveTransientNack(c, m)
     PROVE  Guarded'
  BY <1>8 DEF ReceiveTransientNack, Take, ScheduleRetry
<1>9. ASSUME NEW c \in Conns, NEW m \in Mids, NEW a \in Answers,
            ReceiveStaleAnswer(c, m, a)
     PROVE  Guarded'
  BY <1>9 DEF ReceiveStaleAnswer, Take
<1>10. ASSUME NEW c \in Conns,
            SocketOpened(c)
     PROVE  Guarded'
  BY <1>10 DEF SocketOpened
<1>11. ASSUME NEW c \in Conns, NEW f \in BOOLEAN,
            SocketClosed(c, f)
     PROVE  Guarded'
  BY <1>11 DEF SocketClosed, FailAllPending
<1>13. ASSUME NEW c \in Conns, NEW m \in Mids,
            RejectUndecodable(c, m)
     PROVE  Guarded'
  BY <1>13 DEF RejectUndecodable, Arrive
<1>14. ASSUME NEW c \in Conns, NEW m \in Mids,
            RejectReplay(c, m)
     PROVE  Guarded'
  BY <1>14 DEF RejectReplay, Arrive, Answer
<1>15. ASSUME NEW c \in Conns, NEW m \in Mids,
            RefuseUnrouted(c, m)
     PROVE  Guarded'
  BY <1>15 DEF RefuseUnrouted, FirstArrival, Arrive, IsReplay, Answer
<1>16. ASSUME NEW c \in Conns, NEW m \in Mids,
            StartHandler(c, m)
     PROVE  Guarded'
  BY <1>16 DEF StartHandler, FirstArrival, Arrive, IsReplay
<1>17. ASSUME NEW c \in Conns, NEW m \in Mids, NEW a \in Answers,
            FinishHandler(c, m, a)
     PROVE  Guarded'
  BY <1>17 DEF FinishHandler, Answer
<1>18. CASE UNCHANGED vars
  BY <1>18 DEF vars
<1> QED
  BY <1>1, <1>2, <1>3, <1>4, <1>5, <1>6, <1>7, <1>8, <1>9, <1>10, <1>11, <1>13, <1>14, <1>15, <1>16, <1>17, <1>18
  DEF Next, ClientStep, LinkStep, GatewayStep

LEMMA WitnessedStep == IInv /\ [Next]_vars => Witnessed'
<1> SUFFICES ASSUME IInv, [Next]_vars PROVE Witnessed'
  OBVIOUS
<1>1. CASE SendReliable
  <2>1. /\ midCounter \in Mids
        /\ midCounter' = midCounter + 1
        /\ SendFrame(midCounter)
        /\ ScheduleRetry(midCounter, 1, outbox \cup {midCounter})
        /\ UNCHANGED <<up, down, running, applied>>
    BY <1>1 DEF SendReliable, gatewayVars
  <2>2. 1 \in 0..MaxAckAttempts /\ outbox \cup {midCounter} \in SUBSET (timers \cup {midCounter})
    BY AttemptsAssumption DEF IInv, Bookkeeping
  <2>3. \A k \in Mids : k # midCounter => (result'[k] = result[k])
    BY <2>1, <2>2, ScheduleRetryEffect DEF IInv
  <2>4. result'[midCounter] # "ok"
    BY <2>1, <2>2, ScheduleRetryEffect DEF IInv
  <2>5. \A k \in Mids : encoding'[k] > 0 => k < midCounter'
    BY <2>1 DEF SendFrame, IInv, TypeOK, Witnessed, Mids
  <2>6. \A k \in Mids : k < midCounter => k < midCounter'
    BY <2>1 DEF Mids
  <2> QED
    BY <2>1, <2>3, <2>4, <2>5, <2>6 DEF IInv, TypeOK, Witnessed
<1>4. ASSUME NEW m \in Mids,
            RetryTimer(m)
     PROVE  Witnessed'
  <2>1. /\ m \in timers
        /\ SendFrame(m)
        /\ ScheduleRetry(m, attempts[m] + 1, outbox)
        /\ UNCHANGED <<midCounter, up, down, running, applied>>
    BY <1>4 DEF RetryTimer, gatewayVars
  <2>2. attempts[m] + 1 \in 0..MaxAckAttempts /\ outbox \in SUBSET (timers \cup {m})
    BY <2>1, AttemptsAssumption DEF IInv, TypeOK, Bookkeeping
  <2>3. \A k \in Mids : k # m => (result'[k] = result[k])
    BY <2>1, <2>2, ScheduleRetryEffect DEF IInv
  <2>4. result'[m] # "ok"
    BY <2>1, <2>2, ScheduleRetryEffect DEF IInv
  <2>5. m < midCounter
    BY <2>1 DEF IInv, TypeOK, Bookkeeping, TimerIffWaiting, Mids
  <2>6. \A k \in Mids : encoding'[k] > 0 => k < midCounter'
    BY <2>1, <2>5 DEF SendFrame, IInv, TypeOK, Witnessed, Mids
  <2> QED
    BY <2>1, <2>3, <2>4, <2>6 DEF IInv, TypeOK, Witnessed
<1> USE MaxMidAssumption DEF IInv, TypeOK, Bookkeeping, Witnessed, clientVars, linkVars, gatewayVars, Mids, Conns, Replies
<1>2. CASE Dispose
  BY <1>2 DEF Dispose, FailAllPending
<1>3. CASE ReceiveAuthFailed
  BY <1>3 DEF ReceiveAuthFailed, FailAllPending
<1>5. ASSUME NEW m \in Mids,
            Transmit(m)
     PROVE  Witnessed'
  BY <1>5 DEF Transmit
<1>6. ASSUME NEW c \in Conns, NEW m \in Mids,
            ReceiveAck(c, m)
     PROVE  Witnessed'
  BY <1>6 DEF ReceiveAck, Take
<1>7. ASSUME NEW c \in Conns, NEW m \in Mids,
            ReceiveFinalNack(c, m)
     PROVE  Witnessed'
  BY <1>7 DEF ReceiveFinalNack, Take
<1>8. ASSUME NEW c \in Conns, NEW m \in Mids,
            ReceiveTransientNack(c, m)
     PROVE  Witnessed'
  BY <1>8 DEF ReceiveTransientNack, Take, ScheduleRetry
<1>9. ASSUME NEW c \in Conns, NEW m \in Mids, NEW a \in Answers,
            ReceiveStaleAnswer(c, m, a)
     PROVE  Witnessed'
  BY <1>9 DEF ReceiveStaleAnswer, Take
<1>10. ASSUME NEW c \in Conns,
            SocketOpened(c)
     PROVE  Witnessed'
  BY <1>10 DEF SocketOpened
<1>11. ASSUME NEW c \in Conns, NEW f \in BOOLEAN,
            SocketClosed(c, f)
     PROVE  Witnessed'
  BY <1>11 DEF SocketClosed, FailAllPending
<1>13. ASSUME NEW c \in Conns, NEW m \in Mids,
            RejectUndecodable(c, m)
     PROVE  Witnessed'
  BY <1>13 DEF RejectUndecodable, Arrive
<1>14. ASSUME NEW c \in Conns, NEW m \in Mids,
            RejectReplay(c, m)
     PROVE  Witnessed'
  BY <1>14 DEF RejectReplay, Arrive, Answer
<1>15. ASSUME NEW c \in Conns, NEW m \in Mids,
            RefuseUnrouted(c, m)
     PROVE  Witnessed'
  BY <1>15 DEF RefuseUnrouted, FirstArrival, Arrive, IsReplay, Answer
<1>16. ASSUME NEW c \in Conns, NEW m \in Mids,
            StartHandler(c, m)
     PROVE  Witnessed'
  BY <1>16 DEF StartHandler, FirstArrival, Arrive, IsReplay
<1>17. ASSUME NEW c \in Conns, NEW m \in Mids, NEW a \in Answers,
            FinishHandler(c, m, a)
     PROVE  Witnessed'
  BY <1>17 DEF FinishHandler, Answer
<1>18. CASE UNCHANGED vars
  BY <1>18 DEF vars
<1> QED
  BY <1>1, <1>2, <1>3, <1>4, <1>5, <1>6, <1>7, <1>8, <1>9, <1>10, <1>11, <1>13, <1>14, <1>15, <1>16, <1>17, <1>18
  DEF Next, ClientStep, LinkStep, GatewayStep

-----------------------------------------------------------------------------
LEMMA InitInv == Init => IInv
<1> SUFFICES ASSUME Init PROVE IInv
  OBVIOUS
<1> USE MaxMidAssumption, AttemptsAssumption DEF Init
<1>1. TypeOK
  <2>1. midCounter \in 1..(MaxMid + 1) /\ attempts \in [Mids -> 0..MaxAckAttempts]
    OBVIOUS
  <2>2. /\ socket \in Conns \cup {NoSocket}
        /\ cli \in [Conns -> {"none", "open", "closing", "closed"}]
    OBVIOUS
  <2>3. /\ encoding \in [Mids -> Nat]
        /\ up \in [Conns -> [Mids -> Nat]]
        /\ invoked \in [Conns -> [Mids -> Nat]]
    OBVIOUS
  <2>4. /\ down \in [Conns -> SUBSET Replies]
        /\ seen \in [Conns -> SUBSET Mids]
        /\ running \in [Conns -> SUBSET Mids]
        /\ applied \in [Conns -> SUBSET Mids]
    OBVIOUS
  <2> QED
    BY <2>1, <2>2, <2>3, <2>4 DEF TypeOK, Outcomes
<1>2. Bookkeeping
  BY DEF Bookkeeping, TimerIffWaiting, Mids
<1>3. Guarded
  BY DEF Guarded
<1>4. Witnessed
  BY DEF Witnessed
<1> QED
  BY <1>1, <1>2, <1>3, <1>4 DEF IInv

LEMMA Invariance == Spec => []IInv
<1>1. IInv /\ [Next]_vars => IInv'
  BY TypeStep, BookkeepingStep, GuardedStep, WitnessedStep DEF IInv
<1> QED
  BY InitInv, <1>1, PTL DEF Spec

\* The variables of client, link and gateway keep their types whatever the bounds.
THEOREM TypeCorrect == Spec => []TypeOK
<1>1. IInv => TypeOK
  BY DEF IInv
<1> QED
  BY <1>1, Invariance, PTL

\* No promise of sendReliable is ever left without the timer that settles it, and
\* no timer outlives its promise, for any number of sends and reconnections.
THEOREM NoOrphanedPromise == Spec => []TimerIffWaiting
<1>1. IInv => TimerIffWaiting
  BY DEF IInv, Bookkeeping
<1> QED
  BY <1>1, Invariance, PTL

\* The replay guard lets a frame reach its handler at most once on one connection,
\* for any number of copies and retries.
THEOREM ReplayGuardHolds == Spec => []OneRunPerConnection
<1>1. IInv => OneRunPerConnection
  BY DEF IInv, Guarded, OneRunPerConnection
<1> QED
  BY <1>1, Invariance, PTL
-----------------------------------------------------------------------------
(* The retry budget.  What the recursive function of OverConns computes is  *)
(* not seen by the provers: its equation has a solution on 0..MaxConn and   *)
(* the sum follows each of its terms, by induction on the connections.      *)

\* Induction over a set of numbers, by its least counterexample.
LEMMA Induction ==
  ASSUME NEW T, 0 \in T, \A n \in Nat : n \in T => n + 1 \in T
  PROVE  \A n \in Nat : n \in T
<1> SUFFICES ASSUME Nat \ T # {} PROVE FALSE
  OBVIOUS
<1>1. IsWellFoundedOn(OpToRel(<, Nat), Nat)
  BY NatLessThanWellFounded
<1>2. PICK n \in Nat \ T : \A m \in Nat \ T : <<m, n>> \notin OpToRel(<, Nat)
  BY <1>1, WFMin
<1>3. ASSUME NEW m \in Nat \ T PROVE n <= m
  <2>1. m < n => <<m, n>> \in OpToRel(<, Nat)
    BY DEF OpToRel
  <2>2. <<m, n>> \notin OpToRel(<, Nat)
    BY <1>2, Zenon
  <2>3. ~(m < n) /\ m \in Nat /\ n \in Nat
    BY <2>1, <2>2
  <2> QED
    BY <2>3
<1>4. n - 1 \in Nat /\ n - 1 \in T
  BY <1>3
<1> QED
  BY <1>4

\* A running total: what the recursive function of OverConns is for f.
Totals(f) == {S \in [0..MaxConn -> Nat] :
                S[0] = 0 /\ \A c \in Conns : S[c] = S[c - 1] + f[c]}

LEMMA TotalsExist ==
  ASSUME NEW f \in [Conns -> Nat]
  PROVE  Totals(f) # {}
<1> DEFINE Upto(n) == {S \in [0..n -> Nat] : S[0] = 0 /\ \A c \in 1..n : S[c] = S[c - 1] + f[c]}
           T == {n \in Nat : n <= MaxConn => Upto(n) # {}}
<1>1. 0 \in T
  <2>1. [x \in 0..0 |-> 0] \in Upto(0)
    OBVIOUS
  <2> QED
    BY <2>1
<1>2. ASSUME NEW n \in Nat, n \in T, n + 1 <= MaxConn PROVE Upto(n + 1) # {}
  <2>1. PICK S \in [0..n -> Nat] : S[0] = 0 /\ \A c \in 1..n : S[c] = S[c - 1] + f[c]
    BY <1>2, MaxConnAssumption
  <2>2. f[n + 1] \in Nat /\ S[n] \in Nat
    BY <1>2, MaxConnAssumption DEF Conns
  <2> DEFINE R == [x \in 0..(n + 1) |-> IF x = n + 1 THEN S[n] + f[n + 1] ELSE S[x]]
  <2>3. R \in [0..(n + 1) -> Nat] /\ R[0] = 0
    BY <2>1, <2>2
  <2>4. ASSUME NEW c \in 1..(n + 1) PROVE R[c] = R[c - 1] + f[c]
    <3>1. c - 1 \in 0..n /\ c - 1 # n + 1 /\ c \in 0..(n + 1)
      BY <1>2
    <3>2. CASE c = n + 1
      BY <3>1, <3>2
    <3>3. CASE c # n + 1
      <4>1. c \in 1..n
        BY <1>2, <3>3
      <4> QED
        BY <2>1, <3>1, <3>3, <4>1
    <3> QED
      BY <3>2, <3>3
  <2> QED
    BY <2>3, <2>4
<1>3. \A n \in Nat : n \in T
  <2>1. ASSUME NEW n \in Nat, n \in T PROVE n + 1 \in T
    <3> HIDE DEF Upto
    <3>1. n + 1 \in Nat /\ (n + 1 <= MaxConn => Upto(n + 1) # {})
      BY <1>2, <2>1
    <3> QED
      BY <3>1
  <2> HIDE DEF T
  <2> QED
    BY <1>1, <2>1, Induction
<1>4. Upto(MaxConn) # {}
  <2> HIDE DEF Upto
  <2>1. MaxConn \in T
    BY <1>3, MaxConnAssumption
  <2> QED
    BY <2>1, MaxConnAssumption
<1> QED
  BY <1>4 DEF Totals, Conns

LEMMA TotalIsLast ==
  ASSUME NEW f \in [Conns -> Nat]
  PROVE  \E S \in Totals(f) : OverConns(f) = S[MaxConn]
<1> DEFINE Body(S) == [c \in 0..MaxConn |-> IF c = 0 THEN 0 ELSE S[c - 1] + f[c]]
           Sum == CHOOSE S : S = Body(S)
<1>1. OverConns(f) = Sum[MaxConn]
  BY DEF OverConns
<1>2. \E S : S = Body(S)
  <2>1. PICK S \in Totals(f) : TRUE
    BY TotalsExist
  <2>2. \A c \in 0..MaxConn : S[c] = Body(S)[c]
    BY <2>1, MaxConnAssumption DEF Totals, Conns
  <2>3. S = Body(S)
    BY <2>1, <2>2 DEF Totals
  <2> QED
    BY <2>3
<1>3. Sum = Body(Sum)
  BY <1>2, Zenon
<1> HIDE DEF Sum
<1>4. /\ DOMAIN Sum = 0..MaxConn /\ Sum = [c \in 0..MaxConn |-> Sum[c]]
      /\ Sum[0] = 0 /\ \A c \in Conns : Sum[c] = Sum[c - 1] + f[c]
  BY <1>3, MaxConnAssumption DEF Conns
<1>5. \A n \in Nat : n \in {k \in Nat : k <= MaxConn => Sum[k] \in Nat}
  <2> DEFINE T == {k \in Nat : k <= MaxConn => Sum[k] \in Nat}
  <2>1. 0 \in T
    BY <1>4
  <2>2. ASSUME NEW n \in Nat, n \in T PROVE n + 1 \in T
    <3> SUFFICES ASSUME n + 1 <= MaxConn PROVE Sum[n + 1] \in Nat
      OBVIOUS
    <3>1. n + 1 \in Conns /\ Sum[n] \in Nat
      BY <2>2, MaxConnAssumption DEF Conns
    <3>2. Sum[n + 1] = Sum[n] + f[n + 1]
      <4>1. Sum[n + 1] = Sum[(n + 1) - 1] + f[n + 1]
        BY <1>4, <3>1
      <4> QED
        BY <4>1
    <3> QED
      BY <3>1, <3>2
  <2> HIDE DEF T
  <2>3. \A n \in Nat : n \in T
    BY <2>1, <2>2, Induction
  <2> QED
    BY <2>3 DEF T
<1>6. Sum \in Totals(f)
  <2>1. \A c \in 0..MaxConn : Sum[c] \in Nat
    BY <1>5, MaxConnAssumption
  <2>2. Sum \in [0..MaxConn -> Nat]
    BY <1>4, <2>1
  <2> QED
    BY <1>4, <2>2 DEF Totals
<1> QED
  BY <1>1, <1>6

\* When one entry changes, the sum changes with it.
LEMMA SumMoves ==
  ASSUME NEW f \in [Conns -> Nat], NEW g \in [Conns -> Nat], NEW k \in Conns,
         \A c \in Conns \ {k} : g[c] = f[c]
  PROVE  /\ OverConns(f) \in Nat /\ OverConns(g) \in Nat
         /\ OverConns(g) + f[k] = OverConns(f) + g[k]
<1>1. PICK S \in Totals(f) : OverConns(f) = S[MaxConn]
  BY TotalIsLast
<1>2. PICK R \in Totals(g) : OverConns(g) = R[MaxConn]
  BY TotalIsLast
<1>3. /\ S \in [0..MaxConn -> Nat] /\ R \in [0..MaxConn -> Nat]
      /\ S[0] = 0 /\ R[0] = 0
      /\ \A c \in Conns : S[c] = S[c - 1] + f[c]
      /\ \A c \in Conns : R[c] = R[c - 1] + g[c]
  BY DEF Totals
<1> DEFINE T == {n \in Nat : n <= MaxConn => IF n < k THEN R[n] = S[n]
                                             ELSE R[n] + f[k] = S[n] + g[k]}
<1>4. 0 \in T
  BY <1>3 DEF Conns
<1>5. ASSUME NEW n \in Nat, n \in T PROVE n + 1 \in T
  <2> SUFFICES ASSUME n + 1 <= MaxConn
               PROVE  IF n + 1 < k THEN R[n + 1] = S[n + 1] ELSE R[n + 1] + f[k] = S[n + 1] + g[k]
    OBVIOUS
  <2>1. n + 1 \in Conns /\ n \in 0..MaxConn /\ n <= MaxConn /\ k \in Nat
    BY MaxConnAssumption DEF Conns
  <2>2. /\ S[n + 1] = S[n] + f[n + 1] /\ R[n + 1] = R[n] + g[n + 1]
        /\ S[n] \in Nat /\ R[n] \in Nat /\ f[n + 1] \in Nat /\ g[n + 1] \in Nat
        /\ f[k] \in Nat /\ g[k] \in Nat
    BY <1>3, <2>1
  <2>3. IF n < k THEN R[n] = S[n] ELSE R[n] + f[k] = S[n] + g[k]
    BY <1>5, <2>1
  <2>4. CASE n + 1 = k
    BY <2>1, <2>2, <2>3, <2>4
  <2>5. CASE n + 1 # k
    <3>1. g[n + 1] = f[n + 1]
      BY <2>1, <2>5
    <3> QED
      BY <2>1, <2>2, <2>3, <2>5, <3>1
  <2> QED
    BY <2>4, <2>5
<1>6. MaxConn \in T
  <2> HIDE DEF T
  <2> QED
    BY <1>4, <1>5, MaxConnAssumption, Induction
<1>7. ~(MaxConn < k) /\ MaxConn \in 0..MaxConn
  BY MaxConnAssumption DEF Conns
<1> QED
  BY <1>1, <1>2, <1>3, <1>6, <1>7

LEMMA SumOfNothing ==
  ASSUME NEW f \in [Conns -> Nat], \A c \in Conns : f[c] = 0
  PROVE  OverConns(f) = 0
<1>1. PICK S \in Totals(f) : OverConns(f) = S[MaxConn]
  BY TotalIsLast
<1> DEFINE T == {n \in Nat : n <= MaxConn => S[n] = 0}
<1>2. 0 \in T
  BY DEF Totals
<1>3. ASSUME NEW n \in Nat, n \in T PROVE n + 1 \in T
  BY <1>3, MaxConnAssumption DEF Totals, Conns
<1>4. MaxConn \in T
  <2> HIDE DEF T
  <2> QED
    BY <1>2, <1>3, MaxConnAssumption, Induction
<1> QED
  BY <1>1, <1>4

LEMMA SumIsNat ==
  ASSUME NEW f \in [Conns -> Nat]
  PROVE  OverConns(f) \in Nat
BY TotalIsLast, MaxConnAssumption DEF Totals

\* What connection c has carried of frame m.
Load(m) == [c \in Conns |-> up[c][m] + invoked[c][m]]

LEMMA DeliveriesAre ==
  ASSUME TypeOK, NEW m \in Mids
  PROVE  /\ Load(m) \in [Conns -> Nat] /\ OverConns(Load(m)) \in Nat
         /\ encoding[m] \in Nat /\ attempts[m] \in Nat
         /\ \A c \in Conns : up[c][m] \in Nat /\ invoked[c][m] \in Nat
         /\ Deliveries(m) = encoding[m] + OverConns(Load(m))
<1>1. encoding[m] \in Nat /\ attempts[m] \in Nat
  BY AttemptsAssumption DEF TypeOK
<1>2. \A c \in Conns : up[c][m] \in Nat /\ invoked[c][m] \in Nat
  BY DEF TypeOK
<1>3. Load(m) \in [Conns -> Nat]
  BY <1>2 DEF Load
<1>4. OverConns(Load(m)) \in Nat
  BY <1>3, SumIsNat
<1> QED
  BY <1>1, <1>2, <1>3, <1>4 DEF Deliveries, Load

LEMMA DeliveriesWillBe ==
  ASSUME TypeOK', NEW m \in Mids
  PROVE  /\ Load(m)' \in [Conns -> Nat] /\ OverConns(Load(m)') \in Nat
         /\ encoding'[m] \in Nat /\ attempts'[m] \in Nat
         /\ \A c \in Conns : up'[c][m] \in Nat /\ invoked'[c][m] \in Nat
         /\ Deliveries(m)' = encoding'[m] + OverConns(Load(m)')
<1>1. encoding'[m] \in Nat /\ attempts'[m] \in Nat
  BY AttemptsAssumption DEF TypeOK
<1>2. \A c \in Conns : up'[c][m] \in Nat /\ invoked'[c][m] \in Nat
  BY DEF TypeOK
<1>3. Load(m)' \in [Conns -> Nat]
  BY <1>2 DEF Load
<1>4. OverConns(Load(m)') \in Nat
  BY <1>3, SumIsNat
<1> QED
  BY <1>1, <1>2, <1>3, <1>4 DEF Deliveries, Load

\* Nothing arrives and nothing is transmitted.
LEMMA OnlyEncoding ==
  ASSUME TypeOK, TypeOK', UNCHANGED <<up, invoked>>, NEW m \in Mids
  PROVE  /\ Deliveries(m) \in Nat /\ Deliveries(m)' \in Nat
         /\ encoding[m] \in Nat /\ encoding'[m] \in Nat
         /\ Deliveries(m)' + encoding[m] = Deliveries(m) + encoding'[m]
<1>1. Load(m)' = Load(m)
  BY DEF Load
<1> QED
  BY <1>1, DeliveriesAre, DeliveriesWillBe

\* The frames of one connection change.
LEMMA OneConnection ==
  ASSUME TypeOK, TypeOK', NEW m \in Mids, NEW c \in Conns,
         \A d \in Conns \ {c} : up'[d][m] = up[d][m] /\ invoked'[d][m] = invoked[d][m]
  PROVE  /\ Deliveries(m) \in Nat /\ Deliveries(m)' \in Nat
         /\ {encoding[m], encoding'[m], up[c][m], up'[c][m], invoked[c][m], invoked'[c][m]} \subseteq Nat
         /\ Deliveries(m)' + encoding[m] + up[c][m] + invoked[c][m] =
              Deliveries(m) + encoding'[m] + up'[c][m] + invoked'[c][m]
<1>1. \A d \in Conns \ {c} : Load(m)'[d] = Load(m)[d]
  BY DEF Load
<1>2. OverConns(Load(m)') + Load(m)[c] = OverConns(Load(m)) + Load(m)'[c]
  BY <1>1, SumMoves, DeliveriesAre, DeliveriesWillBe
<1>3. /\ Load(m)[c] = up[c][m] + invoked[c][m]
      /\ Load(m)'[c] = up'[c][m] + invoked'[c][m]
  BY DEF Load
<1>4. /\ {encoding[m], up[c][m], invoked[c][m], OverConns(Load(m))} \subseteq Nat
      /\ Deliveries(m) = encoding[m] + OverConns(Load(m))
  BY DeliveriesAre
<1>5. /\ {encoding'[m], up'[c][m], invoked'[c][m], OverConns(Load(m)')} \subseteq Nat
      /\ Deliveries(m)' = encoding'[m] + OverConns(Load(m)')
  BY DeliveriesWillBe
<1>6. OverConns(Load(m)') + (up[c][m] + invoked[c][m]) = OverConns(Load(m)) + (up'[c][m] + invoked'[c][m])
  BY <1>2, <1>3
<1>7. ASSUME NEW e \in Nat, NEW e2 \in Nat, NEW o \in Nat, NEW o2 \in Nat, NEW u \in Nat,
             NEW u2 \in Nat, NEW i \in Nat, NEW i2 \in Nat, o2 + (u + i) = o + (u2 + i2)
      PROVE  /\ e + o \in Nat /\ e2 + o2 \in Nat
             /\ (e2 + o2) + e + u + i = (e + o) + e2 + u2 + i2
  BY <1>7
<1> QED
  BY <1>4, <1>5, <1>6, <1>7

\* No attempt is counted for a send that was not made.
Fresh == \A m \in Mids : m >= midCounter => attempts[m] = 0

LEMMA FreshStep == IInv /\ Fresh /\ [Next]_vars => Fresh'
<1> SUFFICES ASSUME IInv, Fresh, [Next]_vars, NEW k \in Mids, k >= midCounter'
             PROVE  attempts'[k] = 0
  BY DEF Fresh
<1> USE DEF Fresh, IInv, TypeOK, Mids
<1>1. CASE SendReliable
  BY <1>1 DEF SendReliable, ScheduleRetry
<1>2. ASSUME NEW m \in Mids, RetryTimer(m) PROVE attempts'[k] = 0
  <2>1. m < midCounter /\ m # k /\ midCounter' = midCounter
    BY <1>2 DEF RetryTimer, Bookkeeping, TimerIffWaiting
  <2> QED
    BY <1>2, <2>1 DEF RetryTimer, ScheduleRetry
<1>3. ASSUME NEW c \in Conns, NEW m \in Mids, ReceiveTransientNack(c, m) PROVE attempts'[k] = 0
  BY <1>3 DEF ReceiveTransientNack, ScheduleRetry
<1>4. CASE UNCHANGED <<midCounter, attempts>>
  BY <1>4
<1>5. CASE LinkStep \/ GatewayStep \/ UNCHANGED vars
  BY <1>4, <1>5 DEF LinkStep, SocketOpened, SocketClosed, GatewayStep, RejectUndecodable,
     RejectReplay, RefuseUnrouted, StartHandler, FinishHandler, clientVars, vars
<1>6. CASE \/ Dispose \/ ReceiveAuthFailed \/ \E m \in Mids : Transmit(m)
           \/ \E c \in Conns, m \in Mids :
                \/ ReceiveAck(c, m) \/ ReceiveFinalNack(c, m)
                \/ \E answer \in Answers : ReceiveStaleAnswer(c, m, answer)
  BY <1>4, <1>6 DEF Dispose, ReceiveAuthFailed, Transmit, ReceiveAck, ReceiveFinalNack,
     ReceiveStaleAnswer, clientVars
<1> QED
  BY <1>1, <1>2, <1>3, <1>5, <1>6 DEF Next, ClientStep

LEMMA BudgetStep == IInv /\ IInv' /\ Fresh /\ RetryBudget /\ [Next]_vars => RetryBudget'
<1> SUFFICES ASSUME IInv, IInv', Fresh, RetryBudget, [Next]_vars, NEW k \in Mids
             PROVE  Deliveries(k)' <= attempts'[k] /\ attempts'[k] <= MaxAckAttempts
  BY DEF RetryBudget
<1>1. /\ TypeOK /\ TypeOK' /\ attempts[k] \in Nat /\ attempts'[k] \in Nat
      /\ attempts'[k] <= MaxAckAttempts /\ Deliveries(k) <= attempts[k]
  BY AttemptsAssumption DEF IInv, TypeOK, RetryBudget
<1>2. ASSUME UNCHANGED <<up, invoked>>,
             \/ encoding'[k] <= encoding[k] /\ attempts'[k] = attempts[k]
             \/ encoding'[k] <= encoding[k] + 1 /\ attempts'[k] = attempts[k] + 1
      PROVE  Deliveries(k)' <= attempts'[k]
  BY <1>1, <1>2, OnlyEncoding
<1>3. ASSUME NEW c \in Conns, UNCHANGED attempts,
             \A d \in Conns \ {c} : up'[d][k] = up[d][k] /\ invoked'[d][k] = invoked[d][k],
             encoding'[k] + up'[c][k] + invoked'[c][k] <= encoding[k] + up[c][k] + invoked[c][k]
      PROVE  Deliveries(k)' <= attempts'[k]
  BY <1>1, <1>3, OneConnection
<1>4. ASSUME NEW m \in Mids, SendFrame(m)
      PROVE  /\ encoding'[k] <= encoding[k] + 1
             /\ k # m => encoding'[k] <= encoding[k]
  BY <1>1, <1>4, DeliveriesAre DEF SendFrame, TypeOK
<1>5. CASE SendReliable
  <2>1. midCounter \in Mids /\ SendFrame(midCounter) /\ UNCHANGED <<up, invoked>>
        /\ attempts' = [attempts EXCEPT ![midCounter] = 1]
    BY <1>5 DEF SendReliable, ScheduleRetry, gatewayVars
  <2>2. attempts[midCounter] = 0
    BY <2>1 DEF Fresh, Mids
  <2>3. attempts'[k] = IF k = midCounter THEN attempts[k] + 1 ELSE attempts[k]
    BY <1>1, <2>1, <2>2 DEF TypeOK
  <2> QED
    BY <1>1, <1>2, <1>4, <2>1, <2>3
<1>6. ASSUME NEW m \in Mids, RetryTimer(m) PROVE Deliveries(k)' <= attempts'[k]
  <2>1. /\ SendFrame(m) /\ UNCHANGED <<up, invoked>>
        /\ attempts' = [attempts EXCEPT ![m] = attempts[m] + 1]
    BY <1>6 DEF RetryTimer, ScheduleRetry, gatewayVars
  <2>2. attempts'[k] = IF k = m THEN attempts[k] + 1 ELSE attempts[k]
    BY <1>1, <2>1 DEF TypeOK
  <2> QED
    BY <1>1, <1>2, <1>4, <2>1, <2>2
<1>7. ASSUME UNCHANGED <<encoding, up, invoked, attempts>> PROVE Deliveries(k)' <= attempts'[k]
  BY <1>1, <1>2, <1>7, DeliveriesAre
<1>8. ASSUME NEW c \in Conns, NEW m \in Mids, ReceiveTransientNack(c, m)
      PROVE  Deliveries(k)' <= attempts'[k]
  <2>1. attempts' = attempts
    BY <1>1, <1>8 DEF ReceiveTransientNack, ScheduleRetry, TypeOK
  <2> QED
    BY <1>7, <1>8, <2>1 DEF ReceiveTransientNack, gatewayVars
<1>9. CASE \/ Dispose \/ ReceiveAuthFailed \/ LinkStep \/ UNCHANGED vars
           \/ \E c \in Conns, m \in Mids :
                \/ ReceiveAck(c, m) \/ ReceiveFinalNack(c, m)
                \/ \E answer \in Answers : ReceiveStaleAnswer(c, m, answer)
                                           \/ FinishHandler(c, m, answer)
  <2>1. CASE Dispose \/ ReceiveAuthFailed \/ LinkStep \/ UNCHANGED vars
    BY <1>1, <1>7, <2>1 DEF Dispose, ReceiveAuthFailed, LinkStep, SocketOpened, SocketClosed,
       clientVars, gatewayVars, vars
  <2>2. ASSUME NEW c \in Conns, NEW m \in Mids, ReceiveAck(c, m) \/ ReceiveFinalNack(c, m)
        PROVE  Deliveries(k)' <= attempts'[k]
    BY <1>7, <2>2 DEF ReceiveAck, ReceiveFinalNack, gatewayVars
  <2>3. ASSUME NEW c \in Conns, NEW m \in Mids, NEW answer \in Answers,
               ReceiveStaleAnswer(c, m, answer) \/ FinishHandler(c, m, answer)
        PROVE  Deliveries(k)' <= attempts'[k]
    BY <1>7, <2>3 DEF ReceiveStaleAnswer, FinishHandler, clientVars, gatewayVars
  <2> QED
    BY <1>1, <1>9, <2>1, <2>2, <2>3
<1>10. ASSUME NEW m \in Mids, Transmit(m) PROVE Deliveries(k)' <= attempts'[k]
  <2>1. /\ encoding[m] > 0 /\ encoding' = [encoding EXCEPT ![m] = @ - 1]
        /\ UNCHANGED <<attempts, invoked>>
    BY <1>10 DEF Transmit, clientVars, gatewayVars
  <2>2. CASE up' = up
    <3>1. encoding'[k] <= encoding[k]
      BY <1>1, <2>1, DeliveriesAre DEF TypeOK
    <3> QED
      BY <1>1, <1>2, <2>1, <2>2, <3>1
  <2>3. CASE up' # up
    <3>1. socket \in Conns /\ up' = [up EXCEPT ![socket][m] = @ + 1]
      BY <1>1, <1>10, <2>3 DEF Transmit, TypeOK
    <3>2. \A d \in Conns \ {socket} : up'[d][k] = up[d][k]
      BY <1>1, <3>1 DEF TypeOK
    <3>3. /\ encoding[k] \in Nat /\ up[socket][k] \in Nat /\ invoked[socket][k] \in Nat
      BY <1>1, <3>1, DeliveriesAre
    <3>4. encoding'[k] + up'[socket][k] + invoked'[socket][k] <=
            encoding[k] + up[socket][k] + invoked[socket][k]
      BY <1>1, <2>1, <3>1, <3>3 DEF TypeOK
    <3> QED
      BY <1>3, <2>1, <3>1, <3>2, <3>4
  <2> QED
    BY <2>2, <2>3
<1>11. ASSUME NEW c \in Conns, NEW m \in Mids, Arrive(c, m), UNCHANGED <<encoding, attempts>>,
              invoked' = invoked \/ invoked' = [invoked EXCEPT ![c][m] = @ + 1]
       PROVE  Deliveries(k)' <= attempts'[k]
  <2>1. up[c][m] > 0 /\ up' = [up EXCEPT ![c][m] = @ - 1]
    BY <1>11 DEF Arrive
  <2>2. \A d \in Conns \ {c} : up'[d][k] = up[d][k] /\ invoked'[d][k] = invoked[d][k]
    BY <1>1, <1>11, <2>1 DEF TypeOK
  <2>3. /\ encoding[k] \in Nat /\ up[c][k] \in Nat /\ invoked[c][k] \in Nat
    BY <1>1, DeliveriesAre
  <2>4. encoding'[k] + up'[c][k] + invoked'[c][k] <= encoding[k] + up[c][k] + invoked[c][k]
    BY <1>1, <1>11, <2>1, <2>3 DEF TypeOK
  <2> QED
    BY <1>3, <1>11, <2>2, <2>4
<1>12. ASSUME NEW c \in Conns, NEW m \in Mids,
              \/ RejectUndecodable(c, m) \/ RejectReplay(c, m)
              \/ RefuseUnrouted(c, m) \/ StartHandler(c, m)
       PROVE  Deliveries(k)' <= attempts'[k]
  BY <1>11, <1>12 DEF RejectUndecodable, RejectReplay, RefuseUnrouted, StartHandler,
     FirstArrival, clientVars, gatewayVars
<1> QED
  BY <1>1, <1>5, <1>6, <1>8, <1>9, <1>10, <1>12 DEF Next, ClientStep, GatewayStep

LEMMA BudgetInit == Init => Fresh /\ RetryBudget
<1> SUFFICES ASSUME Init, NEW m \in Mids
             PROVE  attempts[m] = 0 /\ Deliveries(m) <= attempts[m] /\ attempts[m] <= MaxAckAttempts
  BY DEF Fresh, RetryBudget
<1>1. TypeOK
  BY InitInv DEF IInv
<1>2. \A c \in Conns : Load(m)[c] = 0
  BY DEF Init, Load
<1>3. OverConns(Load(m)) = 0
  BY <1>1, <1>2, SumOfNothing, DeliveriesAre
<1> QED
  BY <1>1, <1>3, DeliveriesAre, AttemptsAssumption DEF Init

\* The handler runs of a frame and the copies still under way, summed over any number of
\* connections, stay within the attempts that were made for it.
THEOREM RetriesStayInBudget == Spec => []RetryBudget
<1>1. IInv /\ [Next]_vars => IInv'
  BY TypeStep, BookkeepingStep, GuardedStep, WitnessedStep DEF IInv
<1> QED
  BY <1>1, InitInv, BudgetInit, FreshStep, BudgetStep, PTL DEF Spec

-----------------------------------------------------------------------------
(* The outbox implements SendPromise: every step is one of its steps, or   *)
(* changes neither what promises settled with nor what was applied.        *)

Silent == result' = result /\ Effects' = Effects

LEMMA FailAllPendingSettles ==
  ASSUME IInv, FailAllPending, UNCHANGED applied
  PROVE  Promise!Settle(outbox, "abandoned")
<1>1. \A m \in outbox : m \in Mids /\ result[m] = "waiting"
  BY DEF IInv, TypeOK, Bookkeeping, TimerIffWaiting
<1>2. Effects' = Effects
  BY DEF Effects
<1> QED
  BY <1>1, <1>2 DEF FailAllPending, Promise!Settle

LEMMA AbandonIsStep ==
  ASSUME IInv, FailAllPending, UNCHANGED applied
  PROVE  Promise!Next
<1>1. outbox \in SUBSET Mids /\ "abandoned" \in Reasons \cup {"ok"}
  BY DEF IInv, TypeOK, Reasons
<1> QED
  BY <1>1, FailAllPendingSettles DEF Promise!Next

\* One send settles with r.
LEMMA SettleOne ==
  ASSUME IInv, NEW m \in Mids, m \in timers, NEW r \in Reasons \cup {"ok"},
         r = "ok" => m \in Effects,
         result' = [result EXCEPT ![m] = r], UNCHANGED applied
  PROVE  Promise!Next
<1>1. result[m] = "waiting"
  BY DEF IInv, Bookkeeping, TimerIffWaiting
<1>2. Effects' = Effects
  BY DEF Effects
<1>3. result' = [k \in Mids |-> IF k \in {m} THEN r ELSE result[k]]
  BY DEF IInv, TypeOK
<1>4. Promise!Settle({m}, r)
  BY <1>1, <1>2, <1>3 DEF Promise!Settle
<1> QED
  BY <1>4 DEF Promise!Next

LEMMA StepSimulation == IInv /\ [Next]_vars => [Promise!Next]_(Promise!vars)
<1> SUFFICES ASSUME IInv, [Next]_vars PROVE Promise!Next \/ Silent
  BY DEF Promise!vars, Silent
<1>1. CASE SendReliable
  <2>1. /\ midCounter \in Mids
        /\ result' = [result EXCEPT ![midCounter] = "waiting"]
        /\ applied' = applied
    BY <1>1, AttemptsAssumption DEF SendReliable, ScheduleRetry, gatewayVars
  <2>2. result[midCounter] = "unsent"
    BY <2>1 DEF IInv, Bookkeeping, Mids
  <2>3. Effects' = Effects
    BY <2>1 DEF Effects
  <2>4. Promise!Submit(midCounter)
    BY <2>1, <2>2, <2>3 DEF Promise!Submit
  <2> QED
    BY <2>1, <2>4 DEF Promise!Next
<1>2. CASE Dispose
  BY <1>2, AbandonIsStep DEF Dispose, gatewayVars
<1>3. CASE ReceiveAuthFailed
  BY <1>3, AbandonIsStep DEF ReceiveAuthFailed, gatewayVars
<1>4. ASSUME NEW m \in Mids, RetryTimer(m)
     PROVE  Promise!Next \/ Silent
  <2>1. m \in timers /\ applied' = applied /\ ScheduleRetry(m, attempts[m] + 1, outbox)
    BY <1>4 DEF RetryTimer, gatewayVars
  <2>2. CASE attempts[m] + 1 >= MaxAckAttempts
    <3>1. result' = [result EXCEPT ![m] = "retryExhausted"]
      BY <2>1, <2>2 DEF ScheduleRetry
    <3> QED
      BY <2>1, <3>1, SettleOne DEF Reasons
  <2>3. CASE ~(attempts[m] + 1 >= MaxAckAttempts)
    <3>1. result' = [result EXCEPT ![m] = "waiting"]
      BY <2>1, <2>3 DEF ScheduleRetry
    <3>2. result[m] = "waiting"
      BY <2>1 DEF IInv, Bookkeeping, TimerIffWaiting
    <3> QED
      BY <2>1, <3>1, <3>2 DEF Silent, Effects, IInv, TypeOK
  <2> QED
    BY <2>2, <2>3
<1>5. ASSUME NEW m \in Mids, Transmit(m)
     PROVE  Silent
  BY <1>5 DEF Transmit, clientVars, gatewayVars, Silent, Effects
<1>6. ASSUME NEW c \in Conns, NEW m \in Mids, ReceiveAck(c, m)
     PROVE  Promise!Next
  <2>1. /\ [mid |-> m, answer |-> "ack"] \in down[c]
        /\ m \in outbox
        /\ result' = [result EXCEPT ![m] = "ok"]
        /\ applied' = applied
    BY <1>6 DEF ReceiveAck, Take, gatewayVars
  <2>2. m \in timers /\ m \in Effects
    BY <2>1 DEF IInv, Bookkeeping, Witnessed, Effects
  <2> QED
    BY <2>1, <2>2, SettleOne
<1>7. ASSUME NEW c \in Conns, NEW m \in Mids, ReceiveFinalNack(c, m)
     PROVE  Promise!Next
  <2>1. /\ m \in timers
        /\ result' = [result EXCEPT ![m] = "refused"]
        /\ applied' = applied
    BY <1>7 DEF ReceiveFinalNack, gatewayVars, IInv, Bookkeeping
  <2> QED
    BY <2>1, SettleOne DEF Reasons
<1>8. ASSUME NEW c \in Conns, NEW m \in Mids, ReceiveTransientNack(c, m)
     PROVE  Silent
  <2>1. /\ m \in timers
        /\ ScheduleRetry(m, attempts[m], outbox \ {m})
        /\ applied' = applied
    BY <1>8 DEF ReceiveTransientNack, gatewayVars, IInv, Bookkeeping
  <2>2. ~(attempts[m] >= MaxAckAttempts)
    BY <2>1, AttemptsAssumption DEF IInv, TypeOK, Bookkeeping
  <2>3. result' = [result EXCEPT ![m] = "waiting"] /\ result[m] = "waiting"
    BY <2>1, <2>2 DEF ScheduleRetry, IInv, Bookkeeping, TimerIffWaiting
  <2> QED
    BY <2>1, <2>3 DEF Silent, Effects, IInv, TypeOK
<1>9. ASSUME NEW c \in Conns, NEW m \in Mids, NEW a \in Answers,
            ReceiveStaleAnswer(c, m, a)
     PROVE  Silent
  BY <1>9 DEF ReceiveStaleAnswer, clientVars, gatewayVars, Silent, Effects
<1>10. ASSUME NEW c \in Conns, SocketOpened(c)
     PROVE  Silent
  BY <1>10 DEF SocketOpened, clientVars, gatewayVars, Silent, Effects
<1>11. ASSUME NEW c \in Conns, NEW f \in BOOLEAN, SocketClosed(c, f)
     PROVE  Promise!Next \/ Silent
  <2>1. applied' = applied
    BY <1>11 DEF SocketClosed, gatewayVars
  <2>2. CASE f \/ disposed
    BY <1>11, <2>1, <2>2, AbandonIsStep DEF SocketClosed
  <2>3. CASE ~(f \/ disposed)
    BY <1>11, <2>1, <2>3 DEF SocketClosed, Silent, Effects
  <2> QED
    BY <2>2, <2>3
<1>13. ASSUME NEW c \in Conns, NEW m \in Mids,
             \/ RejectUndecodable(c, m) \/ RejectReplay(c, m)
             \/ RefuseUnrouted(c, m) \/ StartHandler(c, m)
     PROVE  Silent
  BY <1>13
  DEF RejectUndecodable, RejectReplay, RefuseUnrouted, StartHandler,
      clientVars, gatewayVars, Silent, Effects
<1>14. ASSUME NEW c \in Conns, NEW m \in Mids, NEW a \in Answers,
             FinishHandler(c, m, a)
     PROVE  Promise!Next \/ Silent
  <2>1. m \in running[c] /\ result' = result
    BY <1>14 DEF FinishHandler, clientVars
  <2>2. CASE a = "ack"
    <3>1. applied' = [applied EXCEPT ![c] = @ \cup {m}]
      BY <1>14, <2>2 DEF FinishHandler
    <3>2. Effects' = Effects \cup {m}
      BY <3>1 DEF Effects, IInv, TypeOK
    <3>3. result[m] # "unsent"
      BY <2>1 DEF IInv, TypeOK, Bookkeeping, Witnessed, Mids
    <3>4. Promise!TakeEffect(m)
      BY <2>1, <3>2, <3>3 DEF Promise!TakeEffect
    <3> QED
      BY <3>4 DEF Promise!Next
  <2>3. CASE a # "ack"
    BY <1>14, <2>1, <2>3 DEF FinishHandler, Silent, Effects
  <2> QED
    BY <2>2, <2>3
<1>15. CASE UNCHANGED vars
  BY <1>15 DEF vars, clientVars, gatewayVars, Silent, Effects
<1> QED
  BY <1>1, <1>2, <1>3, <1>4, <1>5, <1>6, <1>7, <1>8, <1>9, <1>10, <1>11,
     <1>13, <1>14, <1>15
  DEF Next, ClientStep, LinkStep, GatewayStep

\* What sendReliable promises, in its safety part: a promise settles at most once
\* and with ok only for a frame that some handler applied, across any number of
\* connections.  (That it settles at all is KeepsPromise, left to TLC.)
THEOREM ImplementsPromise == Spec => Promise!Safety
<1>1. Init => Promise!Init
  BY DEF Init, Promise!Init, Effects
<1> QED
  BY <1>1, StepSimulation, Invariance, PTL DEF Spec, Promise!Safety
=============================================================================
