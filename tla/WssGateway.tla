----------------------------- MODULE WssGateway -----------------------------
(***************************************************************************)
(* The gateway's bookkeeping of connections: admission and the count of    *)
(* sockets by address, bans, sessions, the watchdog of each socket, the    *)
(* close that waits for queued frames, and shutdown.  What the frames say  *)
(* is the subject of ReliableDelivery and Access.                          *)
(*                                                                         *)
(* Time is counted in watchdog ticks (SILENCE_WATCHDOG_MS / 2); the other  *)
(* timers fire at any moment.  A connection's name is used again once      *)
(* nothing of the old one is left but its watchdog, which does nothing.    *)
(***************************************************************************)
EXTENDS Integers, FiniteSets

CONSTANTS Conns,         \* sockets at a time (bound)
          Addresses,     \* remote addresses
          MaxPerIp,      \* MAX_CONNECTIONS_PER_IP
          BanThreshold,  \* IP_AUTH_BAN_THRESHOLD
          AuthTicks,     \* AUTH_TIMEOUT_MS, in ticks
          SilenceTicks,  \* SILENCE_WATCHDOG_MS, in ticks
          MaxMissed,     \* MAX_MISSED_PONGS
          MaxStops       \* calls of stop() that wait at a time (bound)

ASSUME ConnsAssumption == IsFiniteSet(Conns)
ASSUME LimitAssumption == {MaxPerIp, BanThreshold, AuthTicks, SilenceTicks, MaxMissed,
                          MaxStops} \subseteq Nat

VARIABLES
  gateway,       \* GatewayState
  wired,         \* start() has attached the WebSocket server
  serving,       \* the TLS server has not been closed
  stopTimers,    \* calls of stop() that wait
  socket,        \* readyState of each socket; "failed" after its error event
  address,       \* its remote address
  sessions,      \* keys of the sessions Map
  authenticated, \* sessions with authenticated = true
  connectionsPerIp,
  ipAuthBans,    \* addresses whose ban has not expired
  ipAuthFailures,\* failures of each address inside the window, short of the threshold
  age,           \* ticks since a socket connected, up to AuthTicks
  idle,          \* ticks since its last frame, up to SilenceTicks
  missedPongs,   \* ticks since its last Ping, up to MaxMissed + 1
  closing,       \* sockets whose close() waits for queued frames
  doomed         \* sockets with a scheduleClose timer

hostVars   == <<gateway, wired, serving, stopTimers>>
ipVars     == <<connectionsPerIp, ipAuthBans, ipAuthFailures>>
healthVars == <<age, idle, missedPongs>>
vars == <<hostVars, ipVars, healthVars, socket, address, sessions, authenticated,
          closing, doomed>>

TypeOK ==
  /\ gateway \in {"starting", "listening", "draining", "stopped"}
  /\ {wired, serving} \subseteq BOOLEAN
  /\ stopTimers \in 0..MaxStops
  /\ socket \in [Conns -> {"closed", "open", "closing", "failed"}]
  /\ address \in [Conns -> Addresses]
  /\ sessions \subseteq Conns
  /\ authenticated \subseteq Conns
  /\ connectionsPerIp \in [Addresses -> 0..MaxPerIp]
  /\ ipAuthBans \subseteq Addresses
  /\ ipAuthFailures \in [Addresses -> 0..BanThreshold]
  /\ age \in [Conns -> 0..AuthTicks]
  /\ idle \in [Conns -> 0..SilenceTicks]
  /\ missedPongs \in [Conns -> 0..(MaxMissed + 1)]
  /\ closing \subseteq Conns
  /\ doomed \subseteq Conns

Init ==
  /\ gateway = "starting"
  /\ wired = FALSE
  /\ serving = TRUE
  /\ stopTimers = 0
  /\ socket = [c \in Conns |-> "closed"]
  /\ address \in [Conns -> Addresses]
  /\ sessions = {}
  /\ authenticated = {}
  /\ connectionsPerIp = [a \in Addresses |-> 0]
  /\ ipAuthBans = {}
  /\ ipAuthFailures = [a \in Addresses |-> 0]
  /\ age = [c \in Conns |-> 0]
  /\ idle = [c \in Conns |-> 0]
  /\ missedPongs = [c \in Conns |-> 0]
  /\ closing = {}
  /\ doomed = {}

Least(m, n) == IF m < n THEN m ELSE n

-----------------------------------------------------------------------------
(* Admission.                                                              *)

\* start() has finished importing the ws package; it does not look at the state.
StartFinishes ==
  /\ ~wired
  /\ wired' = TRUE
  /\ gateway' = "listening"
  /\ UNCHANGED <<serving, stopTimers, ipVars, healthVars, socket, address, sessions,
                 authenticated, closing, doomed>>

\* onConnection, of an address neither banned nor at its cap (others are closed at
\* once).  Nothing depends on the gateway's state.
Accept(c, a) ==
  /\ wired /\ serving
  /\ socket[c] = "closed" /\ c \notin closing \cup doomed
  /\ a \notin ipAuthBans
  /\ connectionsPerIp[a] < MaxPerIp
  /\ connectionsPerIp' = [connectionsPerIp EXCEPT ![a] = @ + 1]
  /\ socket' = [socket EXCEPT ![c] = "open"]
  /\ address' = [address EXCEPT ![c] = a]
  /\ sessions' = sessions \cup {c}
  /\ authenticated' = authenticated \ {c}
  /\ age' = [age EXCEPT ![c] = 0]
  /\ idle' = [idle EXCEPT ![c] = 0]
  /\ missedPongs' = [missedPongs EXCEPT ![c] = 0]
  /\ UNCHANGED <<hostVars, ipAuthBans, ipAuthFailures, closing, doomed>>

\* Faulty variant: the count may go below nothing.
DecrementUnclamped(c) ==
  connectionsPerIp' = [connectionsPerIp EXCEPT ![address[c]] = @ - 1]

DecrementIpCount(c) ==
  connectionsPerIp' = [connectionsPerIp EXCEPT ![address[c]] = IF @ <= 1 THEN 0 ELSE @ - 1]

\* Once the threshold is reached each further failure bans anew.  The ban also forgets
\* the sockets that the address holds, which stay open.
RecordAuthFailure(c) ==
  /\ c \in sessions
  /\ LET a == address[c]
     IN  IF ipAuthFailures[a] + 1 < BanThreshold
           THEN /\ ipAuthFailures' = [ipAuthFailures EXCEPT ![a] = @ + 1]
                /\ UNCHANGED <<ipAuthBans, connectionsPerIp>>
           ELSE /\ ipAuthBans' = ipAuthBans \cup {a}
                /\ connectionsPerIp' = [connectionsPerIp EXCEPT ![a] = 0]
                /\ UNCHANGED ipAuthFailures
  /\ UNCHANGED <<hostVars, healthVars, socket, address, sessions, authenticated,
                 closing, doomed>>

\* The window slides past the older failures of an address.
FailuresExpire(a) ==
  /\ ipAuthFailures[a] > 0
  /\ \E n \in 0..(ipAuthFailures[a] - 1) : ipAuthFailures' = [ipAuthFailures EXCEPT ![a] = n]
  /\ UNCHANGED <<hostVars, connectionsPerIp, ipAuthBans, healthVars, socket, address,
                 sessions, authenticated, closing, doomed>>

BanExpires(a) ==
  /\ a \in ipAuthBans
  /\ ipAuthBans' = ipAuthBans \ {a}
  /\ UNCHANGED <<hostVars, connectionsPerIp, ipAuthFailures, healthVars, socket, address,
                 sessions, authenticated, closing, doomed>>

-----------------------------------------------------------------------------
(* Closing.                                                                *)

\* Faulty variant: the session goes before the queued frames.
CloseForgetsAtOnce(c) ==
  /\ closing' = IF socket[c] = "open" THEN closing \cup {c} ELSE closing
  /\ sessions' = sessions \ {c}

\* close(): an open socket first waits for its queued frames, still with its session.
Close(c) ==
  IF socket[c] = "open"
    THEN closing' = closing \cup {c} /\ UNCHANGED sessions
    ELSE sessions' = sessions \ {c} /\ UNCHANGED closing

\* The queued frames are sent, or a second has passed.
Flush(c) ==
  /\ c \in closing
  /\ closing' = closing \ {c}
  /\ socket' = IF socket[c] = "open" THEN [socket EXCEPT ![c] = "closing"] ELSE socket
  /\ sessions' = sessions \ {c}
  /\ UNCHANGED <<hostVars, ipVars, healthVars, address, authenticated, doomed>>

\* A handler, or a frame of another protocol version, has the socket closed.
CloseRequested(c) ==
  /\ socket[c] # "closed"
  /\ Close(c)
  /\ UNCHANGED <<hostVars, ipVars, healthVars, socket, address, authenticated, doomed>>

PeerCloses(c) ==
  /\ socket[c] = "open"
  /\ socket' = [socket EXCEPT ![c] = "closing"]
  /\ UNCHANGED <<hostVars, ipVars, healthVars, address, sessions, authenticated,
                 closing, doomed>>

\* Nothing reads a session once its socket has closed.
Forget(c) ==
  /\ authenticated' = authenticated \ {c}
  /\ age' = [age EXCEPT ![c] = 0]
  /\ idle' = [idle EXCEPT ![c] = 0]
  /\ missedPongs' = [missedPongs EXCEPT ![c] = 0]

\* Faulty variant: only a socket that still has its session is counted down.
SocketClosedIfKnown(c) ==
  /\ socket[c] # "closed"
  /\ socket' = [socket EXCEPT ![c] = "closed"]
  /\ sessions' = sessions \ {c}
  /\ IF c \in sessions THEN DecrementIpCount(c) ELSE UNCHANGED connectionsPerIp
  /\ Forget(c)
  /\ UNCHANGED <<hostVars, ipAuthBans, ipAuthFailures, address, closing, doomed>>

\* The close event.
SocketClosed(c) ==
  /\ socket[c] # "closed"
  /\ socket' = [socket EXCEPT ![c] = "closed"]
  /\ sessions' = sessions \ {c}
  /\ DecrementIpCount(c)
  /\ Forget(c)
  /\ UNCHANGED <<hostVars, ipAuthBans, ipAuthFailures, address, closing, doomed>>

\* The error event, which the close event follows: both count the socket down.
SocketError(c) ==
  /\ socket[c] \in {"open", "closing"}
  /\ socket' = [socket EXCEPT ![c] = "failed"]
  /\ sessions' = sessions \ {c}
  /\ DecrementIpCount(c)
  /\ UNCHANGED <<hostVars, ipAuthBans, ipAuthFailures, healthVars, address,
                 authenticated, closing, doomed>>

-----------------------------------------------------------------------------
(* Frames and the watchdog.                                                *)

\* authenticate(), called by a handler with the session's id.
Authenticate(c) ==
  /\ c \in sessions \ authenticated
  /\ authenticated' = authenticated \cup {c}
  /\ UNCHANGED <<hostVars, ipVars, healthVars, socket, address, sessions, closing, doomed>>

Frame(c) ==
  /\ socket[c] \in {"open", "closing"}
  /\ idle' = [idle EXCEPT ![c] = 0]
  /\ UNCHANGED <<hostVars, ipVars, age, missedPongs, socket, address, sessions,
                 authenticated, closing, doomed>>

\* Faulty variant: a Ping puts the authentication deadline off.
PingKeepsAlive(c) ==
  /\ socket[c] \in {"open", "closing"}
  /\ idle' = [idle EXCEPT ![c] = 0]
  /\ missedPongs' = [missedPongs EXCEPT ![c] = 0]
  /\ age' = [age EXCEPT ![c] = 0]
  /\ UNCHANGED <<hostVars, ipVars, socket, address, sessions, authenticated,
                 closing, doomed>>

Ping(c) ==
  /\ socket[c] \in {"open", "closing"}
  /\ idle' = [idle EXCEPT ![c] = 0]
  /\ missedPongs' = [missedPongs EXCEPT ![c] = 0]
  /\ UNCHANGED <<hostVars, ipVars, age, socket, address, sessions, authenticated,
                 closing, doomed>>

\* Faulty variant: silence is the only reason to close.
WatchdogLenient(c) ==
  /\ socket[c] # "closed"
  /\ age' = [age EXCEPT ![c] = Least(@ + 1, AuthTicks)]
  /\ idle' = [idle EXCEPT ![c] = Least(@ + 1, SilenceTicks)]
  /\ missedPongs' = IF c \in authenticated
                      THEN [missedPongs EXCEPT ![c] = Least(@ + 1, MaxMissed + 1)]
                      ELSE missedPongs
  /\ IF IF c \in authenticated THEN idle[c] >= SilenceTicks ELSE age[c] >= AuthTicks
       THEN Close(c)
       ELSE UNCHANGED <<closing, sessions>>
  /\ UNCHANGED <<hostVars, ipVars, socket, address, authenticated, doomed>>

\* The interval that startWatchdog arms and nothing clears.  A socket that stays
\* anonymous too long is closed; an authenticated one, when it is silent or sends
\* other frames than Pings.
Watchdog(c) ==
  /\ socket[c] # "closed"
  /\ age' = [age EXCEPT ![c] = Least(@ + 1, AuthTicks)]
  /\ idle' = [idle EXCEPT ![c] = Least(@ + 1, SilenceTicks)]
  /\ LET silent == idle[c] >= SilenceTicks
         missed == Least(missedPongs[c] + 1, MaxMissed + 1)
     IN  IF c \in authenticated
           THEN /\ missedPongs' = IF silent THEN missedPongs
                                  ELSE [missedPongs EXCEPT ![c] = missed]
                /\ IF silent \/ missed > MaxMissed THEN Close(c)
                   ELSE UNCHANGED <<closing, sessions>>
           ELSE /\ UNCHANGED missedPongs
                /\ IF age[c] >= AuthTicks THEN Close(c) ELSE UNCHANGED <<closing, sessions>>
  /\ UNCHANGED <<hostVars, ipVars, socket, address, authenticated, doomed>>

-----------------------------------------------------------------------------
(* Shutdown.                                                               *)

\* stop() says Disconnect to the sessions of this moment and has each closed in 2 s;
\* called again while it waits, it does so again.
Stop ==
  /\ gateway # "stopped"
  /\ gateway' = "draining"
  /\ doomed' = doomed \cup sessions
  /\ stopTimers < MaxStops
  /\ stopTimers' = stopTimers + 1
  /\ UNCHANGED <<wired, serving, ipVars, healthVars, socket, address, sessions,
                 authenticated, closing>>

\* Faulty variant: the timer only acts on a gateway that is still draining.
ScheduledCloseWhileDraining(c) ==
  /\ c \in doomed
  /\ doomed' = doomed \ {c}
  /\ IF gateway = "draining" THEN Close(c) ELSE UNCHANGED <<closing, sessions>>
  /\ UNCHANGED <<hostVars, ipVars, healthVars, socket, address, authenticated>>

ScheduledClose(c) ==
  /\ c \in doomed
  /\ doomed' = doomed \ {c}
  /\ Close(c)
  /\ UNCHANGED <<hostVars, ipVars, healthVars, socket, address, authenticated>>

StopEnds ==
  /\ stopTimers > 0
  /\ stopTimers' = stopTimers - 1
  /\ serving' = FALSE
  /\ gateway' = "stopped"
  /\ UNCHANGED <<wired, ipVars, healthVars, socket, address, sessions, authenticated,
                 closing, doomed>>

-----------------------------------------------------------------------------
Next ==
  \/ StartFinishes \/ Stop \/ StopEnds
  \/ \E a \in Addresses : FailuresExpire(a) \/ BanExpires(a)
  \/ \E c \in Conns :
       \/ \E a \in Addresses : Accept(c, a)
       \/ Authenticate(c) \/ RecordAuthFailure(c) \/ Frame(c) \/ Ping(c)
       \/ CloseRequested(c) \/ PeerCloses(c) \/ SocketClosed(c) \/ SocketError(c)
       \/ Watchdog(c) \/ Flush(c) \/ ScheduledClose(c)

\* Timers fire, and close() waits a second at most.
Fairness == \A c \in Conns : /\ WF_vars(Watchdog(c))
                             /\ WF_vars(Flush(c))
                             /\ WF_vars(ScheduledClose(c))

Spec == Init /\ [][Next]_vars /\ Fairness

-----------------------------------------------------------------------------
(* Properties.                                                             *)

\* Every open socket has its session, so that the watchdog's close, a revocation and
\* shutdown reach it; and no session outlives its socket.
SessionPerSocket ==
  \A c \in Conns : /\ socket[c] = "open" => c \in sessions
                   /\ c \in sessions => socket[c] \in {"open", "closing"}

\* An address is never refused for sockets it does not hold: the count, whatever the
\* order of errors, closes and bans, does not exceed the sockets not yet closed.
CountNeverOverstates ==
  \A a \in Addresses :
    connectionsPerIp[a] <= Cardinality({c \in Conns : socket[c] # "closed" /\ address[c] = a})

\* A socket that never authenticates is closed (AUTH_TIMEOUT_MS), Pings or not.
AnonymousGo ==
  \A c \in Conns : (socket[c] = "open" /\ c \notin authenticated) ~>
                     (socket[c] # "open" \/ c \in authenticated)

\* An authenticated socket that stops sending Pings is closed, other frames or not.
SilentGo ==
  \A c \in Conns : (socket[c] = "open" /\ c \in authenticated /\ missedPongs[c] > 0) ~>
                     (socket[c] # "open" \/ missedPongs[c] = 0)

\* A socket that stop() has found is closed, though the gateway may by then have
\* stopped, and whatever its peer does.
DoomedGo == \A c \in Conns : c \in doomed ~> socket[c] # "open"

\* "Stop accepting connections" (stop): once it is called no socket is admitted.
StopAcceptsNobody ==
  [][(gateway \in {"draining", "stopped"}) => (sessions' \subseteq sessions)]_vars
=============================================================================
