---------------------------- MODULE ReceiverService ----------------------------
(***************************************************************************)
(* The receiver's main process: its network services and the one handle to *)
(* them, the identity on disk, the window, the tray and the ways to quit.  *)
(*                                                                         *)
(* A start loads or makes the identity, then binds the port; a stop closes *)
(* the server, waits two seconds and closes what the gateway has by then.  *)
(* Starts and stops from the dashboard, the tray and the quit overlap.     *)
(***************************************************************************)
EXTENDS Naturals, FiniteSetsExt, SequencesExt

CONSTANTS Services,    \* NetworkService objects, numbered (bound)
          Ports,
          Identities,  \* key pairs that can be generated (bound)
          MaxStops,    \* stops under way at a time (bound)
          MaxBoots,    \* starts of the process (bound)
          None

ASSUME ServicesAssumption == 1 \in Services /\ Services \subseteq Nat
ASSUME FilesAssumption == Identities \cap {"missing", "empty", "cut"} = {}
ASSUME BoundsAssumption == MaxStops \in Nat /\ MaxBoots \in Nat
ASSUME NoneAssumption == None \notin Services \cup Ports \cup Identities

VARIABLES
  services,       \* number -> the NetworkService
  networkService, \* the handle
  stops,          \* stop calls that wait
  keyFile, certFile,
  generated,      \* key pairs made so far
  settings,       \* port and closeToTray, as persisted
  boots, running, \* the process
  bootstrapped,   \* main() has come to its end, with its handlers for quitting
  window,         \* "shown", "hidden" or "closed"
  overlapped      \* history: a stop began while another one or a start was under way

fileVars == <<keyFile, certFile, generated>>
shellVars == <<boots, running, bootstrapped, window>>
serviceVars == <<services, networkService, stops, fileVars, settings, shellVars, overlapped>>

Unused == [phase |-> "unused", port |-> None, identity |-> None, listens |-> FALSE, gateway |-> "idle"]
ServiceType ==
  [phase : {"unused", "loading", "generating", "binding", "failed", "up"},
   port : Ports \cup {None}, identity : Identities \cup {None},
   listens : BOOLEAN, gateway : {"idle", "listening", "draining", "stopped"}]
StopType == [of : Services, by : {"tray", "dashboard", "restart", "quitItem", "beforeQuit"}]

\* A file is missing, empty, cut short, or holds (its half of) a key pair.
FileType == {"missing", "empty", "cut"} \cup Identities
SettingsType == [port : Ports, closeToTray : BOOLEAN]

ServiceTypeOK ==
  /\ services \in [Services -> ServiceType]
  /\ networkService \in Services \cup {None}
  /\ Range(stops) \subseteq StopType /\ Len(stops) <= MaxStops
  /\ {keyFile, certFile} \subseteq FileType
  /\ generated \subseteq Identities
  /\ settings \in SettingsType
  /\ boots \in 0..MaxBoots
  /\ {running, bootstrapped, overlapped} \subseteq BOOLEAN
  /\ window \in {"shown", "hidden", "closed"}
  /\ \A i, j \in Services : services[i].listens /\ services[j].listens /\ i # j =>
       services[i].port # services[j].port

ServiceInit ==
  /\ services = [i \in Services |-> Unused]
  /\ networkService = None /\ stops = <<>>
  /\ keyFile = "missing" /\ certFile = "missing" /\ generated = {}
  /\ settings \in SettingsType
  /\ boots = 0 /\ running = FALSE /\ bootstrapped = FALSE /\ window = "closed"
  /\ overlapped = FALSE

Starting(i) == services[i].phase \in {"loading", "generating", "binding"}

-----------------------------------------------------------------------------
(* Starting.                                                               *)

\* A start takes the next number.
Fresh == {i \in Services : services[i] = Unused}

\* The handle is set before anything is awaited.
NewService(port) ==
  /\ Fresh # {}
  /\ services' = [services EXCEPT ![Min(Fresh)] = [Unused EXCEPT !.phase = "loading", !.port = port]]
  /\ networkService' = Min(Fresh)

\* startNetworkService: nothing happens when there is a handle.
StartService(port) ==
  IF networkService # None THEN UNCHANGED <<services, networkService>> ELSE NewService(port)

\* A certificate that parses is trusted with the key beside it, if there is one; with a key
\* that is not its own, no server can be made.
StoredIdentity == certFile \in Identities /\ keyFile \notin {"missing", "empty"}

LoadIdentity(i) ==
  /\ services[i].phase = "loading"
  /\ services' = IF ~StoredIdentity THEN [services EXCEPT ![i].phase = "generating"]
                 ELSE IF keyFile # certFile THEN [services EXCEPT ![i].phase = "failed"]
                 ELSE [services EXCEPT ![i].phase = "binding", ![i].identity = certFile]
  /\ UNCHANGED <<networkService, stops, fileVars, settings, shellVars, overlapped>>

\* The key pair is made, and its two files are written one after the other.
GenerateIdentity(i) ==
  /\ services[i].phase = "generating"
  /\ \E n \in Identities \ generated :
       /\ generated' = generated \cup {n}
       /\ keyFile' = n /\ certFile' = n
       /\ services' = [services EXCEPT ![i].phase = "binding", ![i].identity = n]
  /\ UNCHANGED <<networkService, stops, settings, shellVars, overlapped>>

\* The port is bound and the gateway attached.
\* The first start is main()'s, which then comes to its end.
Bind(i) ==
  /\ services[i].phase = "binding"
  /\ \A j \in Services : services[j].listens => services[j].port # services[i].port
  /\ services' = [services EXCEPT ![i].phase = "up", ![i].listens = TRUE, ![i].gateway = "listening"]
  /\ bootstrapped' = (bootstrapped \/ i = 1)
  /\ UNCHANGED <<networkService, stops, fileVars, settings, boots, running, window, overlapped>>

\* Another service, or another program, has the port: the handle stays.  When it is main()
\* that fails, its handlers for quitting are never installed.
BindFails(i) ==
  /\ services[i].phase = "binding"
  /\ services' = [services EXCEPT ![i].phase = "failed"]
  /\ UNCHANGED <<networkService, stops, fileVars, settings, shellVars, overlapped>>

-----------------------------------------------------------------------------
(* Stopping.                                                               *)

\* NetworkService.stop, up to its wait, and what is closed after the wait.
Draining(f, i) ==
  [f EXCEPT ![i].listens = FALSE, ![i].gateway = IF @ = "stopped" THEN @ ELSE "draining"]
Destroyed(f, i) == [f EXCEPT ![i].listens = FALSE, ![i].gateway = "stopped"]

\* A stop on top of the stops "others", of the services "f".
Stop(f, others, i, by) ==
  /\ Len(others) < MaxStops
  /\ services' = Draining(f, i)
  /\ stops' = Append(others, [of |-> i, by |-> by])
  /\ overlapped' = (overlapped \/ others # <<>> \/ \E j \in Services : Starting(j))

StopEnds(k) ==
  /\ stops' = RemoveAt(stops, k)
  /\ services' = Destroyed(services, stops[k].of)

\* stopNetworkService: the handle is cleared, whatever it has become.
StopServiceEnds(k) ==
  /\ stops[k].by \in {"dashboard", "restart", "beforeQuit"}
  /\ StopEnds(k)
  /\ networkService' = None
  /\ UNCHANGED <<fileVars, shellVars, overlapped>>

\* The tray's toggle stops the service, and keeps the handle.
TrayStopEnds(k) ==
  /\ stops[k].by = "tray"
  /\ StopEnds(k)
  /\ UNCHANGED <<networkService, fileVars, settings, shellVars, overlapped>>

\* Faulty variant: the toggle starts a service unless one listens.
TrayTogglesListening ==
  /\ running
  /\ IF networkService # None /\ services[networkService].listens
       THEN Stop(services, stops, networkService, "tray") /\ UNCHANGED networkService
       ELSE NewService(settings.port) /\ UNCHANGED <<stops, overlapped>>
  /\ UNCHANGED <<fileVars, settings, shellVars>>

\* What the tray's toggle does is decided by the handle, whatever its label says.
TrayToggle ==
  /\ running
  /\ IF networkService # None
       THEN Stop(services, stops, networkService, "tray") /\ UNCHANGED networkService
       ELSE StartService(settings.port) /\ UNCHANGED <<stops, overlapped>>
  /\ UNCHANGED <<fileVars, settings, shellVars>>

-----------------------------------------------------------------------------
(* The process.                                                            *)

\* main(): IPC, the window and the tray come first, then the service is started.
Boot ==
  /\ ~running /\ boots < MaxBoots
  /\ running' = TRUE /\ boots' = boots + 1
  /\ window' = "shown"
  /\ StartService(settings.port)
  /\ UNCHANGED <<stops, fileVars, settings, bootstrapped, overlapped>>

\* The end of the process, and with it of all that is not in a file.
ProcessEnds ==
  /\ services' = [i \in Services |-> Unused] /\ networkService' = None /\ stops' = <<>>
  /\ running' = FALSE /\ bootstrapped' = FALSE
  /\ window' = "closed"
  /\ UNCHANGED <<boots, settings, overlapped>>

Crash ==
  /\ running
  /\ ProcessEnds
  /\ UNCHANGED fileVars

\* Faulty variant: the certificate is written before the key.
CutShortSwapped(n) == {<<keyFile, c>> : c \in {"empty", "cut"}} \cup {<<k, n>> : k \in {keyFile, "empty", "cut"}}

\* The key and the certificate that a crash can leave while the pair n is written.
CutShort(n) == {<<k, certFile>> : k \in {"empty", "cut"}} \cup {<<n, c>> : c \in {certFile, "empty", "cut"}}

CrashWriting(i) ==
  /\ services[i].phase = "generating"
  /\ \E n \in Identities \ generated :
       /\ generated' = generated \cup {n}
       /\ \E left \in CutShort(n) : keyFile' = left[1] /\ certFile' = left[2]
  /\ ProcessEnds

\* app.quit(): the handler for "before-quit" begins to stop the service, and is not
\* awaited; a window that closes to the tray hides instead, which calls the quit off.
AppQuit(f, others) ==
  IF settings.closeToTray
    THEN /\ window' = "hidden"
         /\ IF bootstrapped /\ networkService # None
              THEN Stop(f, others, networkService, "beforeQuit")
              ELSE services' = f /\ stops' = others /\ UNCHANGED overlapped
         /\ UNCHANGED <<networkService, settings, boots, running, bootstrapped>>
    ELSE ProcessEnds

\* "Quit" of the tray menu stops the service first.
TrayQuit ==
  /\ running
  /\ IF networkService # None
       THEN /\ Stop(services, stops, networkService, "quitItem")
            /\ UNCHANGED <<networkService, settings, shellVars>>
       ELSE AppQuit(services, stops)
  /\ UNCHANGED fileVars

QuitStopEnds(k) ==
  /\ stops[k].by = "quitItem"
  /\ AppQuit(Destroyed(services, stops[k].of), RemoveAt(stops, k))
  /\ UNCHANGED fileVars

\* The user closes the window: it hides, or the last window takes the app with it.
\* Nothing shows it again: the tray's "Show Dashboard" has no window to show.
CloseWindow ==
  /\ running /\ window = "shown"
  /\ IF settings.closeToTray
       THEN /\ window' = "hidden"
            /\ UNCHANGED <<services, networkService, stops, settings, boots, running, bootstrapped,
                           overlapped>>
       ELSE ProcessEnds
  /\ UNCHANGED fileVars
=============================================================================
