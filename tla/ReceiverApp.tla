------------------------------ MODULE ReceiverApp ------------------------------
(***************************************************************************)
(* The receiver as an application: the main process with its services, and *)
(* the dashboard that starts, stops and restarts them, or the dashboard's  *)
(* list of devices.  The two share no state, and a behaviour is about one  *)
(* of them: all that is left out is how their steps interleave.            *)
(*                                                                         *)
(* A call over IPC is made and answered at once, but for what it awaits.   *)
(***************************************************************************)
EXTENDS ReceiverService, DevicePanel

VARIABLES
  subject,    \* what the behaviour is about
  shown,      \* the store's service.running, or None
  startCalls, \* services that the dashboard waits for
  newPort     \* the port that "Apply & restart" still has to apply, or None

appVars == <<shown, startCalls, newPort>>
vars == <<serviceVars, panelVars, subject, appVars>>

TypeOK ==
  /\ ServiceTypeOK
  /\ PanelTypeOK
  /\ subject \in {"service", "devices"}
  /\ shown \in BOOLEAN \cup {None}
  /\ startCalls \subseteq Services
  /\ newPort \in Ports \cup {None}

Init ==
  /\ ServiceInit
  /\ subject \in {"service", "devices"}
  /\ IF subject = "devices" THEN PanelInit
     ELSE PanelInit /\ registry = NoEntries
  /\ shown = None /\ startCalls = {} /\ newPort = None

\* The dashboard can be used: its window is there, and it has hydrated.
Usable == running /\ window = "shown" /\ shown # None

-----------------------------------------------------------------------------
(* The dashboard's service calls.                                          *)

\* serviceStatus().running: there is a handle.
StatusRunning == networkService # None

HydrateService ==
  /\ running /\ window = "shown" /\ shown = None
  /\ shown' = StatusRunning
  /\ UNCHANGED <<serviceVars, startCalls, newPort>>

\* service:start answers at once when there is a handle, whatever the service does.
CallStart(port) ==
  /\ StartService(port)
  /\ IF networkService # None
       THEN shown' = TRUE /\ UNCHANGED startCalls
       ELSE startCalls' = startCalls \cup {networkService'} /\ UNCHANGED shown

StartButton ==
  /\ Usable /\ ~shown
  /\ CallStart(settings.port)
  /\ UNCHANGED <<stops, fileVars, settings, shellVars, overlapped, newPort>>

\* service:stop, of the handle that is there or of none.
CallStop(by) ==
  IF networkService # None
    THEN Stop(services, stops, networkService, by) /\ UNCHANGED shown
    ELSE shown' = FALSE /\ UNCHANGED <<services, stops, overlapped>>

StopButton ==
  /\ Usable /\ shown
  /\ CallStop("dashboard")
  /\ UNCHANGED <<networkService, fileVars, settings, shellVars, startCalls, newPort>>

\* "Apply & restart": stop, then update the port, then start.
ApplyAndRestart(port) ==
  /\ Usable /\ newPort = None /\ port # settings.port
  /\ newPort' = port
  /\ CallStop("restart")
  /\ UNCHANGED <<networkService, fileVars, settings, shellVars, startCalls>>

\* Faulty variant: the port is cleared before it is applied.
RestartClearsFirst ==
  /\ running /\ newPort # None
  /\ \A k \in 1..Len(stops) : stops[k].by # "restart"
  /\ newPort' = None
  /\ settings' = [settings EXCEPT !.port = newPort']
  /\ CallStart(settings'.port)
  /\ UNCHANGED <<stops, fileVars, shellVars, overlapped>>

\* The stop is answered: the port is updated, and the start reads it.
RestartGoesOn ==
  /\ running /\ newPort # None
  /\ \A k \in 1..Len(stops) : stops[k].by # "restart"
  /\ settings' = [settings EXCEPT !.port = newPort]
  /\ newPort' = None
  /\ CallStart(newPort)
  /\ UNCHANGED <<stops, fileVars, shellVars, overlapped>>

SetCloseToTray ==
  /\ Usable
  /\ settings' = [settings EXCEPT !.closeToTray = ~@]
  /\ UNCHANGED <<services, networkService, stops, fileVars, shellVars, overlapped, appVars>>

-----------------------------------------------------------------------------
(* Steps of the main process, with the answers the dashboard waits for.    *)

ServiceUp(i) ==
  /\ Bind(i)
  /\ shown' = IF i \in startCalls THEN StatusRunning ELSE shown
  /\ startCalls' = startCalls \ {i}
  /\ UNCHANGED newPort

\* The call is rejected, and the store left as it is.
ServiceFails(i) ==
  /\ BindFails(i)
  /\ startCalls' = startCalls \ {i}
  /\ UNCHANGED <<shown, newPort>>

IdentityRead(i) ==
  /\ LoadIdentity(i)
  /\ startCalls' = IF services'[i].phase = "failed" THEN startCalls \ {i} ELSE startCalls
  /\ UNCHANGED <<shown, newPort>>

ServiceStopped(k) ==
  /\ StopServiceEnds(k)
  /\ shown' = IF stops[k].by = "beforeQuit" THEN shown ELSE FALSE
  /\ UNCHANGED <<settings, startCalls, newPort>>

\* The dashboard goes with the process.
AppEnds ==
  IF running' THEN UNCHANGED appVars
  ELSE shown' = None /\ startCalls' = {} /\ newPort' = None

ServiceNext ==
  \/ HydrateService \/ StartButton \/ StopButton \/ RestartGoesOn \/ SetCloseToTray
  \/ \E port \in Ports : ApplyAndRestart(port)
  \/ \E i \in Services : ServiceUp(i) \/ ServiceFails(i)
  \/ \E i \in Services : IdentityRead(i) \/ (GenerateIdentity(i) /\ UNCHANGED appVars)
  \/ \E k \in 1..Len(stops) : ServiceStopped(k)
  \/ \E k \in 1..Len(stops) : TrayStopEnds(k) /\ UNCHANGED appVars
  \/ (TrayToggle \/ Boot) /\ UNCHANGED appVars
  \/ (Crash \/ TrayQuit \/ CloseWindow) /\ AppEnds
  \/ \E i \in Services : CrashWriting(i) /\ AppEnds
  \/ \E k \in 1..Len(stops) : QuitStopEnds(k) /\ AppEnds

Next ==
  \/ subject = "service" /\ ServiceNext /\ UNCHANGED <<panelVars, subject>>
  \/ subject = "devices" /\ PanelNext /\ UNCHANGED <<serviceVars, appVars, subject>>

Spec == Init /\ [][Next]_vars

-----------------------------------------------------------------------------
(* Properties.                                                             *)

\* Unless starts and stops ever overlapped, a certificate on disk that parses is beside its
\* own key, whatever crashed while the two files were written, and a service that listens
\* serves it ("stable across restarts", networkService.ts:266).
IdentityOnDiskServes ==
  ~overlapped =>
    /\ certFile \in Identities => keyFile = certFile
    /\ \A i \in Services : services[i].listens => services[i].identity = certFile

\* Unless a stop overlapped with another one or with a start, the service that listens is
\* the one with the handle, so that Stop can reach it.
NoOrphanService ==
  ~overlapped => \A i \in Services : services[i].listens => networkService = i

\* When nothing is under way, the dashboard lists the devices of the registry, with their
\* permissions, in whatever order calls were made and their changes persisted.  The list
\* that approveDevice holds while it asks for the pending requests (store.ts:112) is set
\* over a change's that was taken meanwhile: that case is excepted, until the next list.
ListShowsRegistry == hydrated /\ NoneUnderWay /\ ~overtaken => devices = registry
=============================================================================
