-------------------------------- MODULE SenderApp --------------------------------
(***************************************************************************)
(* The sender's application: its screens, its connection store, and the    *)
(* one connection that its manager keeps for all devices.                  *)
(*                                                                         *)
(* The store gives the connection neither resume credentials nor a pin     *)
(* check, so no Authenticate is sent and no certificate is compared; no    *)
(* screen disposes of the manager, and an address that passed the pairing  *)
(* screen's check makes a socket.  The heartbeat is left out: what it does  *)
(* is close the current socket, which the network may do at any moment.    *)
(***************************************************************************)
EXTENDS ClientConnection, DeviceStore

VARIABLES
  manager,  \* the connection manager has been made
  target,   \* the device that the store connects to
  url,      \* the device in the connection's url
  peer      \* the device that the current socket was opened to

appVars == <<manager, target, url, peer>>
senderVars == <<vars, storeVars, appVars>>

AppTypeOK ==
  /\ TypeOK /\ StoreTypeOK
  /\ manager \in BOOLEAN
  /\ {target, url, peer} \subseteq Devices \cup {NoDevice}
  \* Without a manager there is no socket, no target and no load.
  /\ ~manager => (state = "idle" /\ target = NoDevice /\ ~Loading)
  /\ ~disposed

AppInit ==
  /\ Init /\ StoreInit
  /\ manager = FALSE /\ target = NoDevice
  /\ url = NoDevice /\ peer = NoDevice

-----------------------------------------------------------------------------
(* The store.                                                              *)

\* Faulty variant: the manager is made again at each call, set({ manager }) being lost.
EnsureManagerUnset(waiting) ==
  /\ manager' = manager
  /\ calls' = Append(waiting, Read)
  /\ Len(calls') <= MaxCalls

\* ensureManager: the first call makes the manager and loads the list.
EnsureManager(waiting) ==
  /\ manager' = TRUE
  /\ calls' = IF manager THEN waiting ELSE Append(waiting, Read)
  /\ Len(calls') <= MaxCalls

\* Faulty variant: the url is set when the manager is made, and then kept.
ConnectToKeepsUrl(d, c, waiting) ==
  /\ EnsureManager(waiting)
  /\ target' = d
  /\ url' = IF manager THEN url ELSE d
  /\ Connect(c)
  /\ peer' = url'
  /\ UNCHANGED <<devices, stored, unsure>>

\* connect: the same connection takes the new address and opens another socket.
ConnectTo(d, c, waiting) ==
  /\ EnsureManager(waiting)
  /\ target' = d
  /\ url' = d
  /\ Connect(c)
  /\ peer' = d
  /\ UNCHANGED <<devices, stored, unsure>>

-----------------------------------------------------------------------------
(* The screens.                                                            *)

\* "Pair & connect" with fields that pass the check; the code that was typed goes nowhere.
HandlePair(d) == SaveDevice(d) /\ UNCHANGED <<vars, appVars>>

\* When the device has been saved, or could not be, the screen connects to it.
PairConnects(c) ==
  /\ Answered /\ Head(calls).op = "set" /\ Head(calls).next # NoDevice
  /\ ConnectTo(Head(calls).next, c, Tail(calls))

Connecting == state \in {"connecting", "reconnecting"}

\* The button of a device's card; it has no state of its own.
HomeConnect(d, c) ==
  /\ d \in devices
  /\ ~Connecting /\ ~(state = "connected" /\ target = d)
  /\ ConnectTo(d, c, calls)

\* The card of the target and the header's chip: only in the state "connected".
Disconnect ==
  /\ state = "connected"
  /\ DisconnectGracefully
  /\ target' = NoDevice
  /\ UNCHANGED <<storeVars, manager, url, peer>>

\* "Forget device" leaves the connection alone.
Forget(d) ==
  /\ d \in devices
  /\ RemoveDevice(d)
  /\ UNCHANGED <<vars, appVars>>

-----------------------------------------------------------------------------
(* The connection, the storage and the process.                            *)

Reconnects(c) ==
  /\ ReconnectTimer(c)
  /\ peer' = url

ConnectionStep ==
  /\ \/ \E c \in Conns : \/ SocketOpens(c)
                         \/ \E fatal \in BOOLEAN : SocketCloses(c, fatal)
                         \/ \E authRequired \in BOOLEAN : HandleHelloAck(c, authRequired)
     \/ HelloTimer \/ EchoTimer
  /\ UNCHANGED peer

StorageStep ==
  \/ \E i \in 1..Len(calls), succeeds \in BOOLEAN : StorageServes(i, succeeds)
  \/ Loaded
  \/ Head(calls).next = NoDevice /\ Persisted

\* The process ends, and its sockets and timers with it.
Restart ==
  /\ StoreRestarts
  /\ state' = "idle" /\ socket' = NoSocket /\ ready' = [c \in Conns |-> "closed"]
  /\ inbound' = [c \in Conns |-> {}]
  /\ pingTimer' = FALSE /\ reconnectTimer' = FALSE /\ helloTimer' = FALSE /\ echoTimer' = FALSE
  /\ manager' = FALSE /\ target' = NoDevice /\ url' = NoDevice
  /\ peer' = NoDevice
  /\ UNCHANGED <<disposed, missedPongs, unanswered>>

AppNext ==
  \/ \E d \in Devices : HandlePair(d) \/ Forget(d) \/ \E c \in Conns : HomeConnect(d, c)
  \/ \E c \in Conns : PairConnects(c)
  \/ Disconnect
  \/ /\ ConnectionStep \/ \E c \in Conns : Reconnects(c)
     /\ UNCHANGED <<storeVars, manager, target, url>>
  \/ calls # <<>> /\ StorageStep /\ UNCHANGED <<vars, appVars>>
  \/ Restart

AppSpec == AppInit /\ [][AppNext]_senderVars

-----------------------------------------------------------------------------
(* Properties.                                                             *)

\* Input goes out on the current socket: it was opened to the device that the screens
\* show as connected, whichever devices were tried before and however their sockets and
\* timers end.
InputReachesTarget ==
  (socket # NoSocket /\ target # NoDevice) => (peer = target)
\* Once the storage has nothing left to do after the first connect, the list in memory
\* is the one in storage, in whatever order pairings, removals and the load come;
\* unless a call failed, or the user changed the list while it was being loaded.
ListIsStored == (manager /\ ~unsure /\ calls = <<>>) => (devices = stored)
=============================================================================
