-------------------------- MODULE ReceiverAppProofs --------------------------
(***************************************************************************)
(* Proofs about the receiver's main process, for any number of services,   *)
(* ports, identities, stops and starts of the process, and about the       *)
(* dashboard's list of devices, for any number of devices and calls.       *)
(***************************************************************************)
EXTENDS ReceiverApp, SequenceTheorems, WellFoundedInduction, TLAPS

\* The fields of the services in f.
Shape(f) ==
  /\ f = [i \in Services |-> f[i]]
  /\ \A i \in Services :
       /\ f[i] = [phase |-> f[i].phase, port |-> f[i].port, identity |-> f[i].identity,
                  listens |-> f[i].listens, gateway |-> f[i].gateway]
       /\ f[i].listens \in BOOLEAN
       /\ f[i].listens => f[i].phase = "up"

Phases == {"loading", "generating", "binding"}
Busy(f, i) == f[i].phase \in Phases \/ f[i].listens

\* One handle: a service that starts or listens has it, and while a stop waits there is none.
OneHandle(f, handle, waiting) ==
  /\ waiting = <<>> \/ \E e : waiting = <<e>>
  /\ \A i \in Services : Busy(f, i) => handle = i /\ waiting = <<>>
  /\ waiting # <<>> => handle # None

\* The identity on disk is whole, and it is the one that a service has taken.
WholeIdentity(f) ==
  /\ certFile \in Identities => keyFile = certFile
  /\ \A i \in Services :
       /\ f[i].phase = "binding" \/ f[i].listens => f[i].identity = certFile
       /\ f[i].phase = "generating" => certFile \notin Identities

IInv ==
  /\ Shape(services)
  /\ ~overlapped => OneHandle(services, networkService, stops) /\ WholeIdentity(services)

Blank(f) == f = [i \in Services |-> Unused]

LEMMA BlankShape ==
  ASSUME NEW f, Blank(f)
  PROVE  Shape(f) /\ \A i \in Services : f[i].phase = "unused" /\ ~f[i].listens
<1>1. \A i \in Services : f[i] = Unused
  BY DEF Blank
<1>2. /\ Unused.phase = "unused" /\ Unused.listens = FALSE
      /\ Unused = [phase |-> Unused.phase, port |-> Unused.port, identity |-> Unused.identity,
                   listens |-> Unused.listens, gateway |-> Unused.gateway]
  BY DEF Unused
<1>3. f = [i \in Services |-> f[i]]
  BY DEF Blank
<1> QED
  BY <1>1, <1>2, <1>3 DEF Shape

LEMMA InitHolds == Init => IInv
<1> SUFFICES ASSUME Init PROVE IInv
  OBVIOUS
<1>1. Blank(services) /\ stops = <<>> /\ certFile = "missing"
  BY DEF Init, ServiceInit, Blank
<1> QED
  BY <1>1, BlankShape, FilesAssumption DEF IInv, OneHandle, WholeIdentity, Busy, Phases

\* g is f, but for service i, which has another gateway and does not listen.
Closes(f, g, i) ==
  /\ g = [j \in Services |-> g[j]]
  /\ \A j \in Services \ {i} : g[j] = f[j]
  /\ i \in Services =>
       \E gateway : g[i] = [phase |-> f[i].phase, port |-> f[i].port, identity |-> f[i].identity,
                           listens |-> FALSE, gateway |-> gateway]

LEMMA DrainingCloses == ASSUME NEW f, Shape(f), NEW i PROVE Closes(f, Draining(f, i), i)
<1> DEFINE g == Draining(f, i)
<1>1. g = [j \in Services |-> g[j]]
  BY DEF Shape, Draining
<1>2. \A j \in Services \ {i} : g[j] = f[j]
  BY DEF Shape, Draining
<1>3. ASSUME i \in Services
      PROVE  g[i] = [phase |-> f[i].phase, port |-> f[i].port, identity |-> f[i].identity,
                     listens |-> FALSE,
                     gateway |-> IF f[i].gateway = "stopped" THEN f[i].gateway ELSE "draining"]
  <2>1. g[i] = [f[i] EXCEPT !.listens = FALSE,
                            !.gateway = IF f[i].gateway = "stopped" THEN f[i].gateway ELSE "draining"]
    BY <1>3 DEF Shape, Draining
  <2>2. f[i] = [phase |-> f[i].phase, port |-> f[i].port, identity |-> f[i].identity,
                listens |-> f[i].listens, gateway |-> f[i].gateway]
    BY <1>3 DEF Shape
  <2> QED
    BY <2>1, <2>2
<1> QED
  BY <1>1, <1>2, <1>3 DEF Closes

LEMMA DestroyedCloses == ASSUME NEW f, Shape(f), NEW i PROVE Closes(f, Destroyed(f, i), i)
<1> DEFINE g == Destroyed(f, i)
<1>1. g = [j \in Services |-> g[j]]
  BY DEF Shape, Destroyed
<1>2. \A j \in Services \ {i} : g[j] = f[j]
  BY DEF Shape, Destroyed
<1>3. ASSUME i \in Services
      PROVE  g[i] = [phase |-> f[i].phase, port |-> f[i].port, identity |-> f[i].identity,
                     listens |-> FALSE,
                     gateway |-> "stopped"]
  <2>1. g[i] = [f[i] EXCEPT !.listens = FALSE,
                            !.gateway = "stopped"]
    BY <1>3 DEF Shape, Destroyed
  <2>2. f[i] = [phase |-> f[i].phase, port |-> f[i].port, identity |-> f[i].identity,
                listens |-> f[i].listens, gateway |-> f[i].gateway]
    BY <1>3 DEF Shape
  <2> QED
    BY <2>1, <2>2
<1> QED
  BY <1>1, <1>2, <1>3 DEF Closes

LEMMA ClosedShape ==
  ASSUME NEW f, Shape(f), NEW g, NEW i, Closes(f, g, i)
  PROVE  /\ Shape(g)
         /\ \A j \in Services :
              /\ g[j].phase = f[j].phase /\ g[j].identity = f[j].identity
              /\ g[j].listens => f[j].listens /\ j # i
<1>1. ASSUME NEW j \in Services
      PROVE  /\ g[j] = [phase |-> g[j].phase, port |-> g[j].port, identity |-> g[j].identity,
                        listens |-> g[j].listens, gateway |-> g[j].gateway]
             /\ g[j].listens \in BOOLEAN
             /\ g[j].listens => g[j].phase = "up"
             /\ g[j].phase = f[j].phase /\ g[j].identity = f[j].identity
             /\ g[j].listens => f[j].listens /\ j # i
  <2>1. CASE j = i
    <3>1. PICK gateway :
            g[j] = [phase |-> f[j].phase, port |-> f[j].port, identity |-> f[j].identity,
                    listens |-> FALSE, gateway |-> gateway]
      BY <2>1 DEF Closes
    <3>2. /\ g[j].phase = f[j].phase /\ g[j].identity = f[j].identity /\ g[j].port = f[j].port
          /\ g[j].listens = FALSE /\ g[j].gateway = gateway
      BY <3>1
    <3> QED
      BY <3>1, <3>2
  <2>2. CASE j # i
    BY <2>2 DEF Closes, Shape
  <2> QED
    BY <2>1, <2>2
<1> QED
  BY <1>1 DEF Shape, Closes

LEMMA RemoveOnly ==
  ASSUME NEW e, NEW k \in 1..Len(<<e>>)
  PROVE  RemoveAt(<<e>>, k) = <<>>
<1>1. k = 1
  OBVIOUS
<1>2. SubSeq(<<e>>, 1, 0) = <<>> /\ SubSeq(<<e>>, 2, 1) = <<>>
  OBVIOUS
<1> QED
  BY <1>1, <1>2 DEF RemoveAt
-----------------------------------------------------------------------------
\* What becomes of the services, and of what is on disk with them.
Kept(f, handle, waiting) == OneHandle(f, handle, waiting) /\ WholeIdentity(f)

LEMMA NoChange ==
  ASSUME IInv, UNCHANGED <<services, networkService, stops, overlapped, keyFile, certFile>>
  PROVE  IInv'
BY DEF IInv, Shape, OneHandle, WholeIdentity, Busy

\* A stop begins: what listened with the handle does not any more.
LEMMA StopKeeps ==
  ASSUME NEW f, Shape(f), NEW others, NEW by,
         ~overlapped => Kept(f, networkService, others),
         \A i \in Services : f[i].phase = services[i].phase,
         networkService # None, Stop(f, others, networkService, by),
         UNCHANGED <<networkService, keyFile, certFile>>
  PROVE  IInv'
<1>1. services' = Draining(f, networkService)
  BY DEF Stop
<1>2. /\ Shape(services')
      /\ \A j \in Services :
           /\ services'[j].phase = f[j].phase /\ services'[j].identity = f[j].identity
           /\ services'[j].listens => f[j].listens /\ j # networkService
  BY <1>1, DrainingCloses, ClosedShape
<1>3. ASSUME ~overlapped' PROVE (OneHandle(services, networkService, stops))'
  <2>1. ~overlapped /\ others = <<>> /\ \A j \in Services : f[j].phase \notin Phases
    BY <1>3 DEF Stop, Starting, Phases
  <2>2. \A j \in Services : ~Busy(services', j)
    BY <1>2, <2>1 DEF Busy, Kept, OneHandle
  <2>3. \E e : stops' = <<e>>
    BY <2>1 DEF Stop
  <2> QED
    BY <2>2, <2>3 DEF OneHandle, Busy
<1>4. ASSUME ~overlapped' PROVE WholeIdentity(services)'
  BY <1>2, <1>3, <1>4 DEF Stop, Kept, WholeIdentity
<1> QED
  BY <1>2, <1>3, <1>4 DEF IInv, Shape

\* A stop ends: there was no other, and nothing is busy.
LEMMA EndsKeep ==
  ASSUME IInv, NEW k \in 1..Len(stops)
  PROVE  LET f == Destroyed(services, stops[k].of)
         IN  /\ Shape(f)
             /\ \A j \in Services : f[j].phase = services[j].phase
             /\ ~overlapped => /\ \A j \in Services : ~Busy(f, j)
                             /\ RemoveAt(stops, k) = <<>>
                             /\ WholeIdentity(f)
<1> DEFINE f == Destroyed(services, stops[k].of)
<1>1. /\ Shape(f)
      /\ \A j \in Services :
           /\ f[j].phase = services[j].phase /\ f[j].identity = services[j].identity
           /\ f[j].listens => services[j].listens /\ j # stops[k].of
  BY DestroyedCloses, ClosedShape DEF IInv
<1> HIDE DEF f
<1>2. ASSUME ~overlapped
      PROVE  /\ \A j \in Services : ~Busy(f, j)
             /\ RemoveAt(stops, k) = <<>>
             /\ WholeIdentity(f)
  <2>1. PICK e : stops = <<e>>
    BY <1>2 DEF IInv, OneHandle
  <2>2. stops # <<>> /\ RemoveAt(stops, k) = <<>>
    BY <2>1, RemoveOnly
  <2> QED
    BY <1>1, <1>2, <2>2 DEF IInv, OneHandle, WholeIdentity, Busy
<1> QED
  BY <1>1, <1>2 DEF f

-----------------------------------------------------------------------------
\* Service i becomes another, and the others stay as they are.
Becomes(i, phase, port, identity, listens, gateway) ==
  /\ services' = [j \in Services |-> services'[j]]
  /\ \A j \in Services \ {i} : services'[j] = services[j]
  /\ i \in Services =>
       services'[i] = [phase |-> phase, port |-> port, identity |-> identity,
                       listens |-> listens, gateway |-> gateway]

LEMMA BecomesShape ==
  ASSUME Shape(services), NEW i, NEW phase, NEW port, NEW identity, NEW listens \in BOOLEAN,
         NEW gateway, Becomes(i, phase, port, identity, listens, gateway),
         listens => phase = "up"
  PROVE  /\ Shape(services)'
         /\ i \in Services => /\ services'[i].phase = phase /\ services'[i].identity = identity
                              /\ services'[i].listens = listens
<1>1. i \in Services => /\ services'[i].phase = phase /\ services'[i].identity = identity
                       /\ services'[i].listens = listens /\ services'[i].port = port
                       /\ services'[i].gateway = gateway
  BY DEF Becomes
<1>2. ASSUME NEW j \in Services
      PROVE  /\ services'[j] = [phase |-> services'[j].phase, port |-> services'[j].port,
                                identity |-> services'[j].identity,
                                listens |-> services'[j].listens,
                                gateway |-> services'[j].gateway]
             /\ services'[j].listens \in BOOLEAN
             /\ services'[j].listens => services'[j].phase = "up"
  <2>1. CASE j = i
    BY <1>1, <2>1 DEF Becomes
  <2>2. CASE j # i
    BY <2>2 DEF Becomes, Shape
  <2> QED
    BY <2>1, <2>2
<1> QED
  BY <1>1, <1>2 DEF Shape, Becomes

\* A service is made: there is no handle, so nothing is busy and no stop waits.
LEMMA NewServiceKeeps ==
  ASSUME IInv, NEW port, NewService(port), networkService = None,
         UNCHANGED <<stops, overlapped, keyFile, certFile>>
  PROVE  IInv'
<1> DEFINE i == Min(Fresh)
<1>1. Becomes(i, "loading", port, None, FALSE, "idle") /\ networkService' = i
  BY DEF NewService, Becomes, IInv, Shape, Unused
<1> HIDE DEF i
<1>2. /\ Shape(services)'
      /\ i \in Services => /\ services'[i].phase = "loading" /\ services'[i].identity = None
                           /\ services'[i].listens = FALSE
  BY <1>1, BecomesShape DEF IInv
<1>3. ASSUME ~overlapped'
      PROVE  (OneHandle(services, networkService, stops) /\ WholeIdentity(services))'
  <2>1. ~overlapped /\ stops = <<>> /\ \A j \in Services : Busy(services, j) => None = j
    BY <1>3 DEF IInv, OneHandle
  <2>2. \A j \in Services : ~Busy(services, j)
    BY <2>1, NoneAssumption
  <2>3. \A j \in Services \ {i} : services'[j] = services[j] /\ ~Busy(services', j)
    BY <1>1, <2>2 DEF Becomes, Busy
  <2>4. (OneHandle(services, networkService, stops))'
    BY <1>1, <2>1, <2>3 DEF OneHandle, Busy
  <2>5. WholeIdentity(services)'
    BY <1>2, <1>3, <2>1, <2>3 DEF IInv, WholeIdentity
  <2> QED
    BY <2>4, <2>5
<1> QED
  BY <1>2, <1>3 DEF IInv, Shape

LEMMA StartKeeps ==
  ASSUME IInv, NEW port, StartService(port), UNCHANGED <<stops, overlapped, keyFile, certFile>>
  PROVE  IInv'
BY NewServiceKeeps, NoChange DEF StartService

\* The process ends: what is on disk is left.
LEMMA ProcessEndsKeeps ==
  ASSUME ProcessEnds, ~overlapped => (certFile' \in Identities => keyFile' = certFile')
  PROVE  IInv'
<1>1. Blank(services)' /\ stops' = <<>> /\ overlapped' = overlapped
  BY DEF ProcessEnds, Blank
<1>2. Shape(services)' /\ \A i \in Services : services'[i].phase = "unused" /\ ~services'[i].listens
  BY <1>1, BlankShape DEF Blank, Shape
<1> QED
  BY <1>1, <1>2 DEF IInv, OneHandle, WholeIdentity, Busy, Phases

LEMMA AppQuitKeeps ==
  ASSUME NEW f, NEW others, Shape(f), ~overlapped => Kept(f, networkService, others),
         \A i \in Services : f[i].phase = services[i].phase,
         AppQuit(f, others), UNCHANGED <<keyFile, certFile>>
  PROVE  IInv'
<1>1. CASE ~settings.closeToTray
  BY <1>1, ProcessEndsKeeps DEF AppQuit, Kept, WholeIdentity
<1>2. CASE settings.closeToTray /\ bootstrapped /\ networkService # None
  BY <1>2, StopKeeps DEF AppQuit
<1>3. CASE settings.closeToTray /\ ~(bootstrapped /\ networkService # None)
  <2>1. services' = f /\ stops' = others /\ UNCHANGED <<networkService, overlapped>>
    BY <1>3 DEF AppQuit
  <2> QED
    BY <2>1 DEF IInv, Kept, OneHandle, WholeIdentity, Shape, Busy
<1> QED
  BY <1>1, <1>2, <1>3

LEMMA CallStopKeeps ==
  ASSUME IInv, NEW by, CallStop(by), UNCHANGED <<networkService, keyFile, certFile>>
  PROVE  IInv'
BY StopKeeps, NoChange DEF CallStop, IInv, Kept

-----------------------------------------------------------------------------
\* A service goes on that starts: it has the handle, and no stop waits.
LEMMA OnlyOneStarts ==
  ASSUME IInv, NEW i \in Services, services[i].phase \in Phases, ~overlapped
  PROVE  /\ networkService = i /\ stops = <<>> /\ ~services[i].listens
         /\ \A j \in Services \ {i} : ~Busy(services, j)
BY DEF IInv, OneHandle, Busy, Shape, Phases

\* It goes on with the identity that is on disk by then, or not at all.
LEMMA GoesOnKeeps ==
  ASSUME IInv, NEW i \in Services, services[i].phase \in Phases,
         NEW phase, NEW port, NEW identity, NEW listens \in BOOLEAN, NEW gateway,
         Becomes(i, phase, port, identity, listens, gateway), listens => phase = "up",
         UNCHANGED <<networkService, stops, overlapped>>,
         ~overlapped => /\ certFile' \in Identities => keyFile' = certFile'
                        /\ phase = "binding" \/ listens => identity = certFile'
                        /\ phase = "generating" => certFile' \notin Identities
  PROVE  IInv'
<1>1. /\ Shape(services)'
      /\ services'[i].phase = phase /\ services'[i].identity = identity
      /\ services'[i].listens = listens
  BY BecomesShape DEF IInv
<1>2. ASSUME ~overlapped'
      PROVE  (OneHandle(services, networkService, stops) /\ WholeIdentity(services))'
  <2>1. /\ networkService' = i /\ stops' = <<>>
        /\ \A j \in Services \ {i} : services'[j] = services[j] /\ ~Busy(services, j)
    BY <1>2, OnlyOneStarts DEF Becomes
  <2>2. (OneHandle(services, networkService, stops))'
    BY <2>1 DEF OneHandle, Busy
  <2>3. \A j \in Services \ {i} : services'[j].phase \notin Phases /\ ~services'[j].listens
    BY <2>1 DEF Busy
  <2>4. WholeIdentity(services)'
    BY <1>1, <1>2, <2>3 DEF WholeIdentity, Phases
  <2> QED
    BY <2>2, <2>4
<1> QED
  BY <1>1, <1>2 DEF IInv, Shape

LEMMA StartingServiceKeeps ==
  ASSUME IInv, NEW i \in Services,
         LoadIdentity(i) \/ GenerateIdentity(i) \/ Bind(i) \/ BindFails(i)
  PROVE  IInv'
<1> DEFINE s == services[i]
<1>1. /\ s = [phase |-> s.phase, port |-> s.port, identity |-> s.identity,
             listens |-> s.listens, gateway |-> s.gateway]
      /\ s.listens \in BOOLEAN /\ (s.listens => s.phase = "up")
      /\ services = [j \in Services |-> services[j]]
  BY DEF IInv, Shape
<1>2. CASE LoadIdentity(i)
  <2>1. /\ s.phase = "loading"
        /\ UNCHANGED <<networkService, stops, overlapped, keyFile, certFile>>
    BY <1>2 DEF LoadIdentity, fileVars
  <2>2. ~overlapped => (certFile \in Identities => keyFile = certFile)
    BY DEF IInv, WholeIdentity
  <2>3. CASE ~StoredIdentity
    <3>1. services' = [services EXCEPT ![i].phase = "generating"]
      BY <1>2, <2>3 DEF LoadIdentity
    <3>2. Becomes(i, "generating", s.port, s.identity, s.listens, s.gateway)
      BY <1>1, <3>1 DEF Becomes
    <3>3. ~overlapped => certFile \notin Identities
      BY <2>2, <2>3, FilesAssumption DEF StoredIdentity
    <3> QED
      BY <1>1, <2>1, <2>2, <3>2, <3>3, GoesOnKeeps DEF Phases
  <2>4. CASE StoredIdentity /\ keyFile # certFile
    <3>1. services' = [services EXCEPT ![i].phase = "failed"]
      BY <1>2, <2>4 DEF LoadIdentity
    <3>2. Becomes(i, "failed", s.port, s.identity, s.listens, s.gateway)
      BY <1>1, <3>1 DEF Becomes
    <3> QED
      BY <1>1, <2>1, <2>2, <3>2, GoesOnKeeps DEF Phases
  <2>5. CASE StoredIdentity /\ keyFile = certFile
    <3>1. services' = [services EXCEPT ![i].phase = "binding", ![i].identity = certFile]
      BY <1>2, <2>5 DEF LoadIdentity
    <3>2. Becomes(i, "binding", s.port, certFile, s.listens, s.gateway)
      BY <1>1, <3>1 DEF Becomes
    <3> QED
      BY <1>1, <2>1, <2>2, <3>2, GoesOnKeeps DEF Phases
  <2> QED
    BY <2>3, <2>4, <2>5
<1>3. CASE GenerateIdentity(i)
  <2>1. /\ s.phase = "generating"
        /\ UNCHANGED <<networkService, stops, overlapped>>
    BY <1>3 DEF GenerateIdentity
  <2>2. PICK n \in Identities :
          /\ keyFile' = n /\ certFile' = n
          /\ services' = [services EXCEPT ![i].phase = "binding", ![i].identity = n]
    BY <1>3 DEF GenerateIdentity
  <2>3. Becomes(i, "binding", s.port, n, s.listens, s.gateway)
    BY <1>1, <2>2 DEF Becomes
  <2> QED
    BY <1>1, <2>1, <2>2, <2>3, GoesOnKeeps DEF Phases
<1>4. CASE Bind(i)
  <2>1. /\ s.phase = "binding"
        /\ UNCHANGED <<networkService, stops, overlapped, keyFile, certFile>>
        /\ services' = [services EXCEPT ![i].phase = "up", ![i].listens = TRUE,
                                       ![i].gateway = "listening"]
    BY <1>4 DEF Bind, fileVars
  <2>2. Becomes(i, "up", s.port, s.identity, TRUE, "listening")
    BY <1>1, <2>1 DEF Becomes
  <2>3. ~overlapped => /\ certFile \in Identities => keyFile = certFile
                       /\ s.identity = certFile
    BY <2>1 DEF IInv, WholeIdentity
  <2> QED
    BY <1>1, <2>1, <2>2, <2>3, GoesOnKeeps DEF Phases
<1>5. CASE BindFails(i)
  <2>1. /\ s.phase = "binding"
        /\ UNCHANGED <<networkService, stops, overlapped, keyFile, certFile>>
        /\ services' = [services EXCEPT ![i].phase = "failed"]
    BY <1>5 DEF BindFails, fileVars
  <2>2. Becomes(i, "failed", s.port, s.identity, s.listens, s.gateway)
    BY <1>1, <2>1 DEF Becomes
  <2>3. ~overlapped => (certFile \in Identities => keyFile = certFile)
    BY DEF IInv, WholeIdentity
  <2> QED
    BY <1>1, <2>1, <2>2, <2>3, GoesOnKeeps DEF Phases
<1> QED
  BY <1>2, <1>3, <1>4, <1>5

LEMMA StopEndsKeeps ==
  ASSUME IInv, NEW k \in 1..Len(stops), StopEnds(k),
         UNCHANGED <<overlapped, keyFile, certFile>>
  PROVE  IInv'
BY EndsKeep DEF StopEnds, IInv, OneHandle, WholeIdentity, Busy, Shape

LEMMA StopStepKeeps ==
  ASSUME IInv, NEW k \in 1..Len(stops), StopServiceEnds(k) \/ TrayStopEnds(k) \/ QuitStopEnds(k)
  PROVE  IInv'
<1>1. CASE StopServiceEnds(k) \/ TrayStopEnds(k)
  BY <1>1, StopEndsKeeps DEF StopServiceEnds, TrayStopEnds, fileVars
<1>2. CASE QuitStopEnds(k)
  <2> DEFINE f == Destroyed(services, stops[k].of)
             others == RemoveAt(stops, k)
  <2>1. AppQuit(f, others) /\ UNCHANGED <<keyFile, certFile>>
    BY <1>2 DEF QuitStopEnds, fileVars
  <2>2. /\ Shape(f)
        /\ \A j \in Services : f[j].phase = services[j].phase
        /\ ~overlapped => (\A j \in Services : ~Busy(f, j)) /\ others = <<>> /\ WholeIdentity(f)
    BY EndsKeep
  <2> HIDE DEF f, others
  <2>3. ~overlapped => Kept(f, networkService, others)
    BY <2>2 DEF Kept, OneHandle
  <2> QED
    BY <2>1, <2>2, <2>3, AppQuitKeeps
<1> QED
  BY <1>1, <1>2

\* A crash while the two files are written leaves no certificate that parses, unless both are.
LEMMA CrashKeeps ==
  ASSUME IInv, Crash \/ \E i \in Services : CrashWriting(i)
  PROVE  IInv'
<1>1. CASE Crash
  BY <1>1, ProcessEndsKeeps DEF Crash, fileVars, IInv, WholeIdentity
<1>2. ASSUME NEW i \in Services, CrashWriting(i) PROVE IInv'
  <2>1. services[i].phase = "generating" /\ ProcessEnds
    BY <1>2 DEF CrashWriting
  <2>2. ~overlapped => certFile \notin Identities
    BY <2>1 DEF IInv, WholeIdentity
  <2>3. PICK n \in Identities : \E left \in CutShort(n) : keyFile' = left[1] /\ certFile' = left[2]
    BY <1>2 DEF CrashWriting
  <2>4. certFile' \in {certFile, "empty", "cut"}
    BY <2>3 DEF CutShort
  <2>5. ~overlapped => certFile' \notin Identities
    BY <2>2, <2>4, FilesAssumption
  <2> QED
    BY <2>1, <2>5, ProcessEndsKeeps
<1> QED
  BY <1>1, <1>2

LEMMA ShellKeeps ==
  ASSUME IInv, TrayToggle \/ Boot \/ TrayQuit \/ CloseWindow
  PROVE  IInv'
<1>1. ~overlapped => Kept(services, networkService, stops)
  BY DEF IInv, Kept
<1>2. CASE TrayToggle
  BY <1>1, <1>2, StopKeeps, StartKeeps DEF TrayToggle, IInv, fileVars
<1>3. CASE Boot
  BY <1>3, StartKeeps DEF Boot, fileVars
<1>4. CASE TrayQuit
  BY <1>1, <1>4, StopKeeps, AppQuitKeeps DEF TrayQuit, IInv, fileVars
<1>5. CASE CloseWindow
  BY <1>5, NoChange, ProcessEndsKeeps DEF CloseWindow, fileVars, IInv, WholeIdentity
<1> QED
  BY <1>2, <1>3, <1>4, <1>5

LEMMA DashboardKeeps ==
  ASSUME IInv,
         \/ HydrateService \/ StartButton \/ StopButton \/ RestartGoesOn \/ SetCloseToTray
         \/ \E port \in Ports : ApplyAndRestart(port)
  PROVE  IInv'
<1>1. CASE HydrateService
  BY <1>1, NoChange DEF HydrateService, serviceVars, fileVars
<1>2. CASE StartButton
  BY <1>2, StartKeeps DEF StartButton, CallStart, fileVars
<1>3. CASE StopButton
  BY <1>3, CallStopKeeps DEF StopButton, fileVars
<1>4. CASE RestartGoesOn
  BY <1>4, StartKeeps DEF RestartGoesOn, CallStart, fileVars
<1>5. CASE SetCloseToTray
  BY <1>5, NoChange DEF SetCloseToTray, fileVars
<1>6. CASE \E port \in Ports : ApplyAndRestart(port)
  BY <1>6, CallStopKeeps DEF ApplyAndRestart, fileVars
<1> QED
  BY <1>1, <1>2, <1>3, <1>4, <1>5, <1>6

LEMMA StepKeeps ==
  ASSUME IInv, [Next]_vars
  PROVE  IInv'
<1>1. CASE ServiceNext
  <2>1. CASE \/ HydrateService \/ StartButton \/ StopButton \/ RestartGoesOn \/ SetCloseToTray
             \/ \E port \in Ports : ApplyAndRestart(port)
    BY <2>1, DashboardKeeps
  <2>2. ASSUME NEW i \in Services,
               ServiceUp(i) \/ ServiceFails(i) \/ IdentityRead(i) \/ GenerateIdentity(i)
        PROVE  IInv'
    BY <2>2, StartingServiceKeeps DEF ServiceUp, ServiceFails, IdentityRead
  <2>3. ASSUME NEW k \in 1..Len(stops), ServiceStopped(k) \/ TrayStopEnds(k) \/ QuitStopEnds(k)
        PROVE  IInv'
    BY <2>3, StopStepKeeps DEF ServiceStopped
  <2>4. CASE TrayToggle \/ Boot \/ TrayQuit \/ CloseWindow
    BY <2>4, ShellKeeps
  <2>5. CASE Crash \/ \E i \in Services : CrashWriting(i)
    BY <2>5, CrashKeeps
  <2> QED
    BY <1>1, <2>1, <2>2, <2>3, <2>4, <2>5 DEF ServiceNext
<1>2. CASE UNCHANGED serviceVars
  BY <1>2, NoChange DEF serviceVars, fileVars
<1> QED
  BY <1>1, <1>2 DEF Next, vars

LEMMA Holds == Spec => []IInv
<1>1. IInv /\ [Next]_vars => IInv'
  BY StepKeeps
<1> QED
  BY InitHolds, <1>1, PTL DEF Spec

\* The identity "stable across restarts" (networkService.ts:266): unless starts and stops
\* overlapped, a certificate on disk that parses is beside its own key, whatever crash cut
\* the writing of the two short, and a service that listens serves it.
THEOREM IdentityIsWhole == Spec => []IdentityOnDiskServes
<1>1. IInv => IdentityOnDiskServes
  BY DEF IInv, WholeIdentity, IdentityOnDiskServes
<1> QED
  BY <1>1, Holds, PTL

\* Unless starts and stops overlapped, whatever listens can be stopped by the handle.
THEOREM HandleReachesService == Spec => []NoOrphanService
<1>1. IInv => NoOrphanService
  BY DEF IInv, OneHandle, Busy, NoOrphanService
<1> QED
  BY <1>1, Holds, PTL

-----------------------------------------------------------------------------
(* The dashboard's list of devices.                                        *)

PanelTyped ==
  /\ registry \in Lists /\ devices \in Lists
  /\ {hydrated, overtaken} \subseteq BOOLEAN /\ busy \in Devices \cup {Nobody}
  /\ calls \in Seq(CallType) /\ answers \in Seq(AnswerType)
  /\ persisting \in [Changes -> Nat]

\* Behind place p of s, a list that is carried for one of ops is that of the registry r.
Current(s, p, ops, r) == \A q \in 1..Len(s) : q > p /\ s[q].op \in ops => s[q].list = r

\* Answers whose list the store takes at once, and those that carry a list of their time.
AtOnce == Changes \cup {"hydrate"}
OfTheirTime == AtOnce \cup {"approve"}
Pending == {"pending"}

\* An answer that is taken at once carries the registry, and what is behind it as well.
FreshComes ==
  \E p \in 1..Len(answers) : /\ answers[p].op \in AtOnce /\ answers[p].list = registry
                             /\ Current(answers, p, OfTheirTime, registry)
AnswersCurrent == Current(answers, 0, OfTheirTime, registry)
NothingOldHeld == Current(calls, 0, Pending, registry) /\ Current(answers, 0, Pending, registry)

Persisting == \E op \in Changes : persisting[op] > 0

\* The dashboard has not read the list yet, though it may have asked for it.
NotRead ==
  /\ ~hydrated /\ devices = NoEntries /\ answers = <<>>
  /\ calls # <<>> => Len(calls) = 1 /\ calls[1].op = "hydrate"

\* The last answers are those of the registry as it is.
LastAnswers == Persisting \/ FreshComes \/ AnswersCurrent

\* So are the store's list, once they are taken, and every list that is still held.
LastWord == Persisting \/ FreshComes \/ NotRead \/ (devices = registry /\ AnswersCurrent /\ NothingOldHeld)

PanelInv == PanelTyped /\ LastAnswers /\ (~overtaken => LastWord)

LEMMA ListFacts ==
  ASSUME NEW f \in Lists
  PROVE  f \in [DOMAIN f -> SUBSET Scopes] /\ DOMAIN f \subseteq Devices
BY DEF Lists

LEMMA IsList ==
  ASSUME NEW D \in SUBSET Devices, NEW f \in [D -> SUBSET Scopes]
  PROVE  f \in Lists
BY DEF Lists

LEMMA NoEntriesList == NoEntries \in Lists
<1>1. NoEntries \in [{} -> SUBSET Scopes]
  BY DEF NoEntries
<1> QED
  BY <1>1, IsList

LEMMA InitPanel == Init => PanelInv
<1> SUFFICES ASSUME Init PROVE PanelInv
  OBVIOUS
<1>1. /\ registry \in Lists /\ devices = NoEntries /\ ~hydrated /\ NoneUnderWay /\ busy = Nobody
      /\ hydrated \in BOOLEAN /\ overtaken = FALSE
  BY NoEntriesList DEF Init, PanelInit
<1>2. PanelTyped
  <2>1. /\ calls \in Seq(CallType) /\ answers \in Seq(AnswerType)
        /\ persisting \in [Changes -> Nat]
    BY <1>1 DEF NoneUnderWay
  <2>2. {hydrated, overtaken} \subseteq BOOLEAN
    BY <1>1, Zenon
  <2> QED
    BY <1>1, <2>1, <2>2, NoEntriesList DEF PanelTyped
<1>3. NotRead /\ AnswersCurrent
  BY <1>1 DEF NotRead, NoneUnderWay, AnswersCurrent, Current
<1> QED
  BY <1>2, <1>3 DEF PanelInv, LastWord, LastAnswers

\* What is put at the end comes after everything else, and what is taken leaves the rest.
LEMMA AppendFacts ==
  ASSUME NEW S, NEW s \in Seq(S), NEW e \in S
  PROVE  /\ Append(s, e) \in Seq(S) /\ Len(Append(s, e)) = Len(s) + 1
         /\ Append(s, e)[Len(s) + 1] = e
         /\ \A q \in 1..Len(s) : Append(s, e)[q] = s[q]
OBVIOUS

LEMMA TailFacts ==
  ASSUME NEW S, NEW s \in Seq(S), s # <<>>
  PROVE  /\ Tail(s) \in Seq(S) /\ Len(Tail(s)) = Len(s) - 1 /\ Len(s) \in Nat \ {0}
         /\ Head(s) = s[1] /\ Head(s) \in S
         /\ \A q \in 1..Len(s) - 1 : Tail(s)[q] = s[q + 1]
OBVIOUS

LEMMA AppendFresh ==
  ASSUME NEW S, NEW s \in Seq(S), NEW e \in S, NEW p \in Nat, NEW ops, NEW r,
         Current(s, p, ops, r), e.op \in ops => e.list = r
  PROVE  Current(Append(s, e), p, ops, r)
<1> DEFINE t == Append(s, e)
<1>1. /\ Len(t) = Len(s) + 1 /\ t[Len(s) + 1] = e /\ Len(s) \in Nat
      /\ \A q \in 1..Len(s) : t[q] = s[q]
  BY AppendFacts
<1> HIDE DEF t
<1> SUFFICES ASSUME NEW q \in 1..Len(t), q > p, t[q].op \in ops PROVE t[q].list = r
  BY DEF Current, t
<1>2. CASE q = Len(s) + 1
  BY <1>1, <1>2
<1>3. CASE q \in 1..Len(s)
  BY <1>1, <1>3 DEF Current
<1> QED
  BY <1>1, <1>2, <1>3

LEMMA TailFresh ==
  ASSUME NEW S, NEW s \in Seq(S), s # <<>>, NEW p \in Nat, NEW ops, NEW r,
         Current(s, p, ops, r)
  PROVE  /\ p > 0 => Current(Tail(s), p - 1, ops, r)
         /\ p = 0 => Current(Tail(s), 0, ops, r)
<1>1. /\ Len(Tail(s)) = Len(s) - 1 /\ Len(s) \in Nat \ {0}
      /\ \A q \in 1..Len(s) - 1 : Tail(s)[q] = s[q + 1]
  BY TailFacts
<1>2. ASSUME NEW q \in 1..Len(Tail(s)), q + 1 > p, Tail(s)[q].op \in ops
      PROVE  Tail(s)[q].list = r
  <2>1. q + 1 \in 1..Len(s) /\ Tail(s)[q] = s[q + 1]
    BY <1>1
  <2> QED
    BY <1>2, <2>1 DEF Current
<1> QED
  BY <1>1, <1>2 DEF Current

\* Place p of s moves up when the head leaves, unless it is the head.
LEMMA TailPlace ==
  ASSUME NEW S, NEW s \in Seq(S), s # <<>>, NEW p \in 1..Len(s), p # 1
  PROVE  p - 1 \in 1..Len(Tail(s)) /\ Tail(s)[p - 1] = s[p] /\ p \in Nat /\ p - 1 \in Nat /\ p > 0
<1>1. /\ Len(Tail(s)) = Len(s) - 1 /\ Len(s) \in Nat \ {0}
      /\ \A q \in 1..Len(s) - 1 : Tail(s)[q] = s[q + 1]
  BY TailFacts
<1>2. p - 1 \in 1..Len(s) - 1 /\ (p - 1) + 1 = p
  BY <1>1
<1> QED
  BY <1>1, <1>2

LEMMA InvokeKeeps ==
  ASSUME PanelInv, NEW op \in {"hydrate", "setPermissions", "revoke", "approve"},
         NEW d \in Devices \cup {Nobody}, NEW permissions \in SUBSET Scopes,
         Invoke(op, d, permissions), (op = "hydrate" /\ NoneUnderWay) \/ ~NotRead,
         busy' \in Devices \cup {Nobody}
  PROVE  PanelInv'
<1> DEFINE c == [op |-> op, device |-> d, permissions |-> permissions, list |-> NoEntries]
<1>1. c \in CallType /\ c.op = op
  BY NoEntriesList DEF CallType, Changes, Reads
<1>2. /\ calls' = Append(calls, c)
      /\ UNCHANGED <<registry, devices, hydrated, persisting, answers, overtaken>>
  BY DEF Invoke
<1> HIDE DEF c
<1>3. calls \in Seq(CallType)
  BY DEF PanelInv, PanelTyped
<1>4. PanelTyped'
  BY <1>1, <1>2, <1>3, AppendFacts DEF PanelInv, PanelTyped
<1>5. NothingOldHeld => NothingOldHeld'
  <2>1. c.op \notin Pending
    BY <1>1 DEF Pending
  <2>2. Current(calls, 0, Pending, registry) => Current(calls', 0, Pending, registry)
    BY <1>1, <1>2, <1>3, <2>1, AppendFresh, 0 \in Nat
  <2> QED
    BY <1>2, <2>2 DEF NothingOldHeld
<1>6. LastAnswers'
  BY <1>2 DEF PanelInv, LastAnswers, Persisting, FreshComes, AnswersCurrent
<1>7. ASSUME LastWord PROVE LastWord'
  <2>1. CASE NotRead
    <3>1. op = "hydrate" /\ calls = <<>> /\ answers = <<>>
      BY <2>1 DEF NoneUnderWay
    <3>2. Len(calls') = 1 /\ calls'[1] = c
      BY <1>2, <3>1
    <3>3. NotRead'
      BY <1>1, <1>2, <2>1, <3>1, <3>2 DEF NotRead
    <3> QED
      BY <3>3 DEF LastWord
  <2>2. CASE ~NotRead
    BY <1>2, <1>5, <1>7, <2>2 DEF LastWord, Persisting, FreshComes, AnswersCurrent
  <2> QED
    BY <2>1, <2>2
<1> QED
  BY <1>2, <1>4, <1>6, <1>7 DEF PanelInv

LEMMA AppliedList ==
  ASSUME registry \in Lists, NEW call \in CallType, call.op \in Changes
  PROVE  Applied(call) \in Lists
<1>1. registry \in [DOMAIN registry -> SUBSET Scopes] /\ DOMAIN registry \subseteq Devices
  BY ListFacts
<1>2. CASE call.device \notin DOMAIN registry
  BY <1>2 DEF Applied
<1>3. CASE call.device \in DOMAIN registry /\ call.op = "revoke"
  <2> DEFINE D == DOMAIN registry \ {call.device}
  <2>1. Applied(call) = [d \in D |-> registry[d]]
    BY <1>3 DEF Applied
  <2>2. [d \in D |-> registry[d]] \in [D -> SUBSET Scopes]
    BY <1>1
  <2> QED
    BY <1>1, <2>1, <2>2, IsList
<1>4. CASE call.device \in DOMAIN registry /\ call.op = "setPermissions"
  <2>1. Applied(call) = [registry EXCEPT ![call.device] = call.permissions]
    BY <1>4 DEF Applied
  <2>2. call.permissions \in SUBSET Scopes
    BY DEF CallType
  <2>3. Applied(call) \in [DOMAIN registry -> SUBSET Scopes]
    BY <1>1, <1>4, <2>1, <2>2
  <2> QED
    BY <1>1, <2>3, IsList
<1> QED
  BY <1>2, <1>3, <1>4 DEF Changes

LEMMA HandleChangeKeeps ==
  ASSUME PanelInv, HandleChange
  PROVE  PanelInv'
<1> DEFINE c == Head(calls)
<1>1. calls \in Seq(CallType) /\ calls # <<>> /\ c \in CallType /\ c.op \in Changes
  BY TailFacts DEF PanelInv, PanelTyped, HandleChange
<1>2. /\ calls' = Tail(calls) /\ registry' = Applied(c)
      /\ persisting' = [persisting EXCEPT ![c.op] = @ + 1]
      /\ UNCHANGED <<devices, hydrated, answers, busy, overtaken>>
  BY DEF HandleChange
<1> HIDE DEF c
<1>3. calls' \in Seq(CallType) /\ registry' \in Lists
  BY <1>1, <1>2, TailFacts, AppliedList DEF PanelInv, PanelTyped
<1>4. persisting' \in [Changes -> Nat] /\ persisting'[c.op] > 0
  BY <1>1, <1>2 DEF PanelInv, PanelTyped
<1>5. Persisting'
  BY <1>1, <1>4 DEF Persisting
<1> QED
  BY <1>2, <1>3, <1>4, <1>5 DEF PanelInv, PanelTyped, LastWord, LastAnswers

\* An answer comes with the registry of its time: it joins those that are current.
LEMMA AnswerKeeps ==
  ASSUME PanelInv, NEW a \in AnswerType, answers' = Append(answers, a), UNCHANGED registry,
         a.op \in OfTheirTime => a.list = registry
  PROVE  /\ answers' \in Seq(AnswerType)
         /\ FreshComes => FreshComes'
         /\ AnswersCurrent => AnswersCurrent'
         /\ a.op \in AtOnce => FreshComes'
<1>1. answers \in Seq(AnswerType)
  BY DEF PanelInv, PanelTyped
<1>2. \A p \in Nat : Current(answers, p, OfTheirTime, registry) => Current(answers', p, OfTheirTime, registry)
  BY <1>1, AppendFresh
<1>3. /\ answers' \in Seq(AnswerType) /\ Len(answers') = Len(answers) + 1 /\ Len(answers) \in Nat
      /\ answers'[Len(answers) + 1] = a
      /\ \A p \in 1..Len(answers) : answers'[p] = answers[p] /\ p \in 1..Len(answers') /\ p \in Nat
  BY <1>1, AppendFacts
<1>4. FreshComes => FreshComes'
  BY <1>2, <1>3 DEF FreshComes
<1>5. AnswersCurrent => AnswersCurrent'
  BY <1>2, 0 \in Nat DEF AnswersCurrent
<1>6. ASSUME a.op \in AtOnce PROVE FreshComes'
  <2> DEFINE n == Len(answers')
  <2>1. n \in 1..Len(answers') /\ answers'[n] = a /\ a.list = registry'
    BY <1>3, <1>6 DEF OfTheirTime
  <2>2. Current(answers', n, OfTheirTime, registry')
    BY <1>3 DEF Current
  <2> HIDE DEF n
  <2> QED
    BY <1>6, <2>1, <2>2 DEF FreshComes
<1> QED
  BY <1>3, <1>4, <1>5, <1>6

LEMMA PersistedKeeps ==
  ASSUME PanelInv, NEW op \in Changes, Persisted(op)
  PROVE  PanelInv'
<1> DEFINE a == [op |-> op, list |-> registry]
<1>1. a \in AnswerType /\ a.op \in AtOnce /\ a.list = registry
  BY DEF AnswerType, Changes, AtOnce, PanelInv, PanelTyped
<1>2. /\ answers' = Append(answers, a) /\ persisting[op] > 0
      /\ persisting' = [persisting EXCEPT ![op] = @ - 1]
      /\ UNCHANGED <<registry, devices, hydrated, calls, busy, overtaken>>
  BY DEF Persisted
<1> HIDE DEF a
<1>3. FreshComes' /\ answers' \in Seq(AnswerType)
  BY <1>1, <1>2, AnswerKeeps
<1>4. persisting' \in [Changes -> Nat]
  BY <1>2 DEF PanelInv, PanelTyped
<1> QED
  BY <1>2, <1>3, <1>4 DEF PanelInv, PanelTyped, LastWord, LastAnswers

LEMMA CallAnswered ==
  ASSUME PanelInv, Answer
  PROVE  PanelInv'
<1> DEFINE c == Head(calls)
           a == [op |-> c.op, list |-> IF c.op = "pending" THEN c.list ELSE registry]
<1>0. /\ calls \in Seq(CallType) /\ calls # <<>> /\ c.op \in {"hydrate", "approve", "pending"}
      /\ answers \in Seq(AnswerType) /\ registry \in Lists
  BY DEF PanelInv, PanelTyped, Answer
<1>1. c \in CallType /\ c = calls[1] /\ c.list \in Lists
  <2>1. c \in CallType /\ c = calls[1]
    BY <1>0, TailFacts
  <2> QED
    BY <2>1 DEF CallType
<1>2. /\ a \in AnswerType /\ a.op = c.op
      /\ c.op # "pending" => a.list = registry
      /\ c.op = "pending" => a.list = c.list
  BY <1>0, <1>1 DEF AnswerType, Reads
<1>3. /\ calls' = Tail(calls) /\ answers' = Append(answers, a)
      /\ UNCHANGED <<registry, devices, hydrated, persisting, busy, overtaken>>
  BY DEF Answer
<1> HIDE DEF c, a
<1>4. a.op \in OfTheirTime => a.list = registry
  BY <1>2 DEF OfTheirTime, AtOnce, Changes
<1>5. /\ answers' \in Seq(AnswerType)
      /\ FreshComes => FreshComes'
      /\ AnswersCurrent => AnswersCurrent'
      /\ a.op \in AtOnce => FreshComes'
  BY <1>2, <1>3, <1>4, AnswerKeeps
<1>6. calls' \in Seq(CallType) /\ Len(calls) \in Nat \ {0}
  BY <1>0, <1>3, TailFacts
<1>7. NothingOldHeld => NothingOldHeld'
  <2> SUFFICES ASSUME NothingOldHeld PROVE NothingOldHeld'
    OBVIOUS
  <2>1. Current(calls', 0, Pending, registry)
    BY <1>0, <1>3, TailFresh, 0 \in Nat DEF NothingOldHeld
  <2>2. c.op \in Pending => c.list = registry
    BY <1>1, <1>6 DEF NothingOldHeld, Current
  <2>3. a.op \in Pending => a.list = registry
    BY <1>2, <2>2 DEF Pending
  <2>4. Current(answers', 0, Pending, registry)
    BY <1>0, <1>2, <1>3, <2>3, AppendFresh, 0 \in Nat DEF NothingOldHeld
  <2> QED
    BY <1>3, <2>1, <2>4 DEF NothingOldHeld
<1>8. Persisting => Persisting'
  BY <1>3 DEF Persisting
<1>9. NotRead => FreshComes'
  <2> SUFFICES ASSUME NotRead PROVE FreshComes'
    OBVIOUS
  <2>1. c.op = "hydrate"
    BY <1>0, <1>1 DEF NotRead
  <2> QED
    BY <1>2, <1>5, <2>1 DEF AtOnce
<1>10. LastWord => LastWord'
  BY <1>3, <1>5, <1>7, <1>8, <1>9 DEF LastWord
<1>11. LastAnswers'
  BY <1>5, <1>8 DEF PanelInv, LastAnswers
<1>12. PanelTyped'
  BY <1>3, <1>5, <1>6 DEF PanelInv, PanelTyped
<1> QED
  BY <1>3, <1>10, <1>11, <1>12 DEF PanelInv

\* What leaves the head of the answers leaves what is behind it as it was.
LEMMA AnswerTaken ==
  ASSUME PanelInv, answers # <<>>, answers' = Tail(answers), UNCHANGED <<registry, persisting>>
  PROVE  /\ answers' \in Seq(AnswerType) /\ Head(answers) = answers[1] /\ Head(answers) \in AnswerType
         /\ Len(answers) \in Nat \ {0}
         /\ \A ops : Current(answers, 0, ops, registry) => Current(answers', 0, ops, registry)
         /\ FreshComes => \/ FreshComes'
                          \/ /\ Head(answers).op \in AtOnce /\ Head(answers).list = registry
                             /\ AnswersCurrent'
         /\ AnswersCurrent => AnswersCurrent'
         /\ Persisting => Persisting'
         /\ ~NotRead
<1>1. answers \in Seq(AnswerType)
  BY DEF PanelInv, PanelTyped
<1>2. \A p \in Nat : \A ops : Current(answers, p, ops, registry) =>
        (p > 0 => Current(answers', p - 1, ops, registry)) /\ (p = 0 => Current(answers', 0, ops, registry))
  BY <1>1, TailFresh
<1>3. ASSUME FreshComes
      PROVE  FreshComes' \/ (/\ Head(answers).op \in AtOnce /\ Head(answers).list = registry
                             /\ AnswersCurrent')
  <2>1. PICK p \in 1..Len(answers) : /\ answers[p].op \in AtOnce /\ answers[p].list = registry
                                     /\ Current(answers, p, OfTheirTime, registry)
    BY <1>3 DEF FreshComes
  <2>2. CASE p = 1
    <3>1. 1 \in Nat /\ 1 > 0 /\ 1 - 1 = 0 /\ Head(answers) = answers[1]
      BY <1>1, TailFacts
    <3> QED
      BY <1>2, <2>1, <2>2, <3>1 DEF AnswersCurrent
  <2>3. CASE p # 1
    <3>1. p - 1 \in 1..Len(answers') /\ answers'[p - 1] = answers[p] /\ p \in Nat /\ p > 0
      BY <1>1, <2>3, TailPlace
    <3> QED
      BY <1>2, <2>1, <3>1 DEF FreshComes
  <2> QED
    BY <2>2, <2>3
<1>4. \A ops : Current(answers, 0, ops, registry) => Current(answers', 0, ops, registry)
  BY <1>2, 0 \in Nat
<1> QED
  BY <1>1, <1>3, <1>4, TailFacts DEF NotRead, AnswersCurrent, Persisting

LEMMA TakeApprovedKeeps ==
  ASSUME PanelInv, TakeApproved
  PROVE  PanelInv'
<1> DEFINE e == Head(answers)
           c == [op |-> "pending", device |-> Nobody, permissions |-> {}, list |-> e.list]
<1>1. /\ answers # <<>> /\ answers' = Tail(answers) /\ e.op = "approve"
      /\ calls' = Append(calls, c)
      /\ UNCHANGED <<registry, devices, hydrated, persisting, busy, overtaken>>
  BY DEF TakeApproved
<1>2. /\ answers' \in Seq(AnswerType) /\ e = answers[1] /\ e \in AnswerType /\ Len(answers) \in Nat \ {0}
      /\ \A ops : Current(answers, 0, ops, registry) => Current(answers', 0, ops, registry)
      /\ FreshComes => FreshComes' \/ (e.op \in AtOnce /\ e.list = registry /\ AnswersCurrent')
      /\ AnswersCurrent => AnswersCurrent'
      /\ Persisting => Persisting'
      /\ ~NotRead
  BY <1>1, AnswerTaken
<1>3. c \in CallType /\ c.op = "pending" /\ c.list = e.list /\ calls \in Seq(CallType)
  BY <1>2 DEF CallType, AnswerType, Reads, PanelInv, PanelTyped
<1> HIDE DEF c, e
<1>4. e.op \notin AtOnce
  BY <1>1 DEF AtOnce, Changes
<1>5. PanelTyped'
  BY <1>1, <1>2, <1>3, AppendFacts DEF PanelInv, PanelTyped
<1>6. LastAnswers'
  BY <1>2, <1>4 DEF PanelInv, LastAnswers
<1>7. ASSUME AnswersCurrent, NothingOldHeld PROVE NothingOldHeld'
  <2>1. e.list = registry
    BY <1>1, <1>2, <1>7 DEF AnswersCurrent, Current, OfTheirTime
  <2>2. Current(calls', 0, Pending, registry)
    BY <1>1, <1>3, <1>7, <2>1, AppendFresh, 0 \in Nat DEF NothingOldHeld
  <2> QED
    BY <1>1, <1>2, <1>7, <2>2 DEF NothingOldHeld
<1>8. LastWord => LastWord'
  BY <1>1, <1>2, <1>4, <1>7 DEF LastWord
<1> QED
  BY <1>1, <1>5, <1>6, <1>8 DEF PanelInv

\* A list that is taken at once while none is held is the last word; one that is held was
\* current, unless another was taken meanwhile.
LEMMA TakeListKeeps ==
  ASSUME PanelInv, TakeList
  PROVE  PanelInv'
<1> DEFINE e == Head(answers)
<1>1. /\ answers # <<>> /\ answers' = Tail(answers) /\ e.op \in Changes \cup Reads
      /\ devices' = e.list /\ UNCHANGED <<registry, calls, persisting>>
      /\ busy' \in {busy, Nobody} /\ hydrated' \in BOOLEAN /\ overtaken' \in BOOLEAN
      /\ e.op = "pending" => overtaken' = overtaken
      /\ e.op # "pending" => overtaken' = (Held # {})
  BY DEF TakeList, PanelInv, PanelTyped
<1>2. /\ answers' \in Seq(AnswerType) /\ e = answers[1] /\ e \in AnswerType /\ Len(answers) \in Nat \ {0}
      /\ \A ops : Current(answers, 0, ops, registry) => Current(answers', 0, ops, registry)
      /\ FreshComes => FreshComes' \/ (e.op \in AtOnce /\ e.list = registry /\ AnswersCurrent')
      /\ AnswersCurrent => AnswersCurrent'
      /\ Persisting => Persisting'
      /\ ~NotRead
  BY <1>1, AnswerTaken
<1> HIDE DEF e
<1>3. PanelTyped'
  BY <1>1, <1>2 DEF PanelInv, PanelTyped, AnswerType
<1>4. LastAnswers'
  BY <1>2 DEF PanelInv, LastAnswers
<1>5. ASSUME e.op = "pending", ~overtaken PROVE LastWord'
  <2>1. e.op \notin AtOnce
    BY <1>5 DEF AtOnce, Changes
  <2>2. NothingOldHeld => e.list = registry /\ NothingOldHeld'
    BY <1>1, <1>2, <1>5 DEF NothingOldHeld, Current, Pending
  <2> QED
    BY <1>1, <1>2, <1>5, <2>1, <2>2 DEF PanelInv, LastWord
<1>6. ASSUME e.op # "pending", Held = {} PROVE LastWord'
  <2>1. e.op \in AtOnce
    BY <1>1, <1>6 DEF AtOnce, Reads
  <2>2. NothingOldHeld
    BY <1>6 DEF Held, NothingOldHeld, Current, Pending, Range
  <2>3. NothingOldHeld'
    BY <1>1, <1>2, <2>2 DEF NothingOldHeld
  <2>4. AnswersCurrent => e.list = registry
    BY <1>2, <2>1 DEF AnswersCurrent, Current, OfTheirTime
  <2> QED
    BY <1>1, <1>2, <2>3, <2>4 DEF PanelInv, LastWord, LastAnswers
<1> QED
  BY <1>1, <1>3, <1>4, <1>5, <1>6 DEF PanelInv

LEMMA PanelKeeps ==
  ASSUME PanelInv, [Next]_vars
  PROVE  PanelInv'
<1>0. busy \in Devices \cup {Nobody} /\ devices \in Lists
  BY DEF PanelInv, PanelTyped
<1>1. CASE Mounts
  BY <1>0, <1>1, InvokeKeeps DEF Mounts
<1>2. ASSUME NEW d \in Devices, RevokeDevice(d) PROVE PanelInv'
  BY <1>0, <1>2, InvokeKeeps DEF RevokeDevice, NotRead, NoEntries
<1>3. ASSUME NEW d \in Devices, NEW scope \in Scopes, ToggleSwitch(d, scope) PROVE PanelInv'
  <2> DEFINE p == IF scope \in devices[d] THEN devices[d] \ {scope} ELSE devices[d] \cup {scope}
  <2>1. d \in DOMAIN devices /\ Invoke("setPermissions", d, p) /\ busy' = d
    BY <1>3 DEF ToggleSwitch
  <2>2. devices[d] \in SUBSET Scopes /\ ~NotRead
    BY <1>0, <2>1, ListFacts DEF NotRead, NoEntries
  <2>3. p \in SUBSET Scopes
    BY <2>2
  <2> HIDE DEF p
  <2> QED
    BY <2>1, <2>2, <2>3, InvokeKeeps
<1>4. ASSUME NEW op \in {"approve", "revoke"}, Decide(op) PROVE PanelInv'
  BY <1>0, <1>4, InvokeKeeps DEF Decide, NotRead
<1>5. ASSUME NEW op \in Changes, Persisted(op) PROVE PanelInv'
  BY <1>5, PersistedKeeps
<1>6. CASE TakeApproved \/ TakeList \/ HandleChange \/ Answer
  BY <1>6, TakeApprovedKeeps, TakeListKeeps, HandleChangeKeeps, CallAnswered
<1>7. CASE UNCHANGED panelVars
  BY <1>7 DEF panelVars, PanelInv, PanelTyped, LastWord, LastAnswers, Persisting, FreshComes,
              AnswersCurrent, NothingOldHeld, NotRead
<1> QED
  BY <1>1, <1>2, <1>3, <1>4, <1>5, <1>6, <1>7 DEF Next, vars, PanelNext

\* When nothing is under way the dashboard lists what the registry holds, however its calls
\* overlap and in whatever order their changes are persisted (devices:setPermissions and
\* devices:revoke answer with the list as it is after the await), unless the list that
\* approveDevice held (store.ts:112) was set over one that was taken meanwhile.
THEOREM ListIsRegistry == Spec => []ListShowsRegistry
<1>1. PanelInv /\ [Next]_vars => PanelInv'
  BY PanelKeeps
<1>2. PanelInv => ListShowsRegistry
  <2> SUFFICES ASSUME PanelInv, hydrated, NoneUnderWay, ~overtaken PROVE devices = registry
    BY DEF ListShowsRegistry
  <2>1. Len(answers) = 0 /\ \A op \in Changes : persisting[op] = 0
    BY DEF NoneUnderWay
  <2> QED
    BY <2>1 DEF PanelInv, LastWord, Persisting, FreshComes, NotRead
<1> QED
  BY InitPanel, <1>1, <1>2, PTL DEF Spec

-----------------------------------------------------------------------------
(* Types.                                                                  *)

\* Listeners have ports of their own.
ServicesTyped(f) ==
  /\ f \in [Services -> ServiceType]
  /\ \A i, j \in Services : f[i].listens /\ f[j].listens /\ i # j => f[i].port # f[j].port

StopsTyped(waiting) == waiting \in Seq(StopType) /\ Len(waiting) <= MaxStops

ProcessTyped ==
  /\ ServicesTyped(services) /\ StopsTyped(stops)
  /\ networkService \in Services \cup {None}
  /\ settings \in SettingsType
  /\ boots \in 0..MaxBoots
  /\ {running, bootstrapped, overlapped} \subseteq BOOLEAN
  /\ window \in {"shown", "hidden", "closed"}

FilesTyped == {keyFile, certFile} \subseteq FileType /\ generated \subseteq Identities

DashboardTyped ==
  /\ subject \in {"service", "devices"}
  /\ shown \in BOOLEAN \cup {None}
  /\ startCalls \subseteq Services
  /\ newPort \in Ports \cup {None}

\* One service changes: if it listens, then on a port that no other one has.
LEMMA OneService ==
  ASSUME NEW f, ServicesTyped(f), NEW i \in Services, NEW s \in ServiceType,
         s.listens => \A j \in Services : f[j].listens => f[j].port # s.port \/ j = i
  PROVE  ServicesTyped([f EXCEPT ![i] = s])
<1> DEFINE g == [f EXCEPT ![i] = s]
<1>1. g \in [Services -> ServiceType] /\ g[i] = s /\ \A j \in Services \ {i} : g[j] = f[j]
  BY DEF ServicesTyped
<1> HIDE DEF g
<1>2. ASSUME NEW j \in Services, NEW k \in Services, g[j].listens, g[k].listens, j # k
      PROVE  g[j].port # g[k].port
  BY <1>1, <1>2 DEF ServicesTyped
<1> QED
  BY <1>1, <1>2 DEF ServicesTyped, g

PhaseNames == {"unused", "loading", "generating", "binding", "failed", "up"}

\* One field of a service changes.
LEMMA PhaseField ==
  ASSUME NEW s \in ServiceType, NEW p \in PhaseNames
  PROVE  LET t == [s EXCEPT !.phase = p]
         IN  t \in ServiceType /\ t.listens = s.listens /\ t.port = s.port
BY DEF ServiceType, PhaseNames

LEMMA IdentityField ==
  ASSUME NEW s \in ServiceType, NEW n \in Identities
  PROVE  LET t == [s EXCEPT !.identity = n]
         IN  t \in ServiceType /\ t.listens = s.listens /\ t.port = s.port
BY DEF ServiceType

LEMMA ListensField ==
  ASSUME NEW s \in ServiceType, NEW b \in BOOLEAN
  PROVE  LET t == [s EXCEPT !.listens = b]
         IN  t \in ServiceType /\ t.listens = b /\ t.port = s.port
BY DEF ServiceType

LEMMA GatewayField ==
  ASSUME NEW s \in ServiceType, NEW w \in {"idle", "listening", "draining", "stopped"}
  PROVE  LET t == [s EXCEPT !.gateway = w]
         IN  t \in ServiceType /\ t.listens = s.listens /\ t.port = s.port
BY DEF ServiceType

\* What does not listen needs no port of its own, and what keeps its port keeps it apart.
LEMMA DrainingTyped ==
  ASSUME NEW f, ServicesTyped(f), NEW i \in Services
  PROVE  ServicesTyped(Draining(f, i)) /\ ServicesTyped(Destroyed(f, i))
<1>1. f \in [Services -> ServiceType] /\ f[i] \in ServiceType
  BY DEF ServicesTyped
<1>2. ASSUME NEW w \in {"idle", "listening", "draining", "stopped"}
      PROVE  ServicesTyped([f EXCEPT ![i] = [[f[i] EXCEPT !.listens = FALSE] EXCEPT !.gateway = w]])
  <2> DEFINE s1 == [f[i] EXCEPT !.listens = FALSE]
             s == [s1 EXCEPT !.gateway = w]
  <2>1. s1 \in ServiceType /\ s1.listens = FALSE
    BY <1>1, ListensField
  <2> HIDE DEF s1
  <2>2. s \in ServiceType /\ s.listens = s1.listens
    BY <2>1, GatewayField
  <2> HIDE DEF s
  <2>3. ServicesTyped([f EXCEPT ![i] = s])
    BY <2>1, <2>2, OneService
  <2> QED
    BY <2>3 DEF s, s1
<1>3. Destroyed(f, i) = [f EXCEPT ![i] = [[f[i] EXCEPT !.listens = FALSE] EXCEPT !.gateway = "stopped"]]
  BY <1>1 DEF Destroyed
<1> DEFINE w == IF f[i].gateway = "stopped" THEN f[i].gateway ELSE "draining"
<1>4. Draining(f, i) = [f EXCEPT ![i] = [[f[i] EXCEPT !.listens = FALSE] EXCEPT !.gateway = w]]
  BY <1>1 DEF Draining
<1>5. w \in {"idle", "listening", "draining", "stopped"}
  OBVIOUS
<1> HIDE DEF w
<1> QED
  BY <1>2, <1>3, <1>4, <1>5

LEMMA StopTyped ==
  ASSUME NEW f, ServicesTyped(f), NEW others, StopsTyped(others), NEW i \in Services,
         NEW by \in {"tray", "dashboard", "restart", "quitItem", "beforeQuit"},
         Stop(f, others, i, by)
  PROVE  ServicesTyped(services') /\ StopsTyped(stops') /\ overlapped' \in BOOLEAN
<1>1. ServicesTyped(services')
  BY DrainingTyped DEF Stop
<1>2. [of |-> i, by |-> by] \in StopType
  BY DEF StopType
<1>3. Len(others) \in Nat /\ Len(others) < MaxStops
  BY LenProperties DEF Stop, StopsTyped
<1>4. stops' \in Seq(StopType) /\ Len(stops') = Len(others) + 1
  BY <1>2, AppendProperties DEF Stop, StopsTyped
<1>5. Len(stops') <= MaxStops
  BY <1>3, <1>4, BoundsAssumption
<1> QED
  BY <1>1, <1>4, <1>5 DEF Stop, StopsTyped

\* The least of the numbers that are free.
LEMMA MinIsIn ==
  ASSUME NEW T \in SUBSET Nat, T # {}
  PROVE  Min(T) \in T
<1>1. IsWellFoundedOn(OpToRel(<, Nat), Nat)
  BY NatLessThanWellFounded
<1>2. PICK n \in T : \A m \in T : <<m, n>> \notin OpToRel(<, Nat)
  BY <1>1, WFMin
<1>3. \A m, k \in Nat : <<m, k>> \notin OpToRel(<, Nat) => k <= m
  BY DEF OpToRel
<1>4. \A m \in T : n <= m
  BY <1>2, <1>3
<1> QED
  BY <1>4 DEF Min

\* A service's port changes.
LEMMA PortField ==
  ASSUME NEW s \in ServiceType, NEW p \in Ports
  PROVE  LET t == [s EXCEPT !.port = p]
         IN  t \in ServiceType /\ t.listens = s.listens
BY DEF ServiceType

LEMMA UnusedTyped == Unused \in ServiceType /\ Unused.listens = FALSE
BY DEF Unused, ServiceType

LEMMA NewServiceTyped ==
  ASSUME ServicesTyped(services), NEW port \in Ports, NewService(port)
  PROVE  ServicesTyped(services') /\ networkService' \in Services
<1> DEFINE i == Min(Fresh)
           u == [Unused EXCEPT !.phase = "loading"]
           s == [u EXCEPT !.port = port]
<1>1. i \in Services
  BY MinIsIn, ServicesAssumption DEF NewService, Fresh
<1>2. services' = [services EXCEPT ![i] = s] /\ networkService' = i
  BY DEF NewService
<1>3. u \in ServiceType /\ u.listens = FALSE
  BY UnusedTyped, PhaseField DEF PhaseNames
<1> HIDE DEF i, u
<1>4. s \in ServiceType /\ s.listens = FALSE
  BY <1>3, PortField
<1> HIDE DEF s
<1> QED
  BY <1>1, <1>2, <1>4, OneService

LEMMA StartTyped ==
  ASSUME ServicesTyped(services), networkService \in Services \cup {None},
         NEW port \in Ports, StartService(port)
  PROVE  ServicesTyped(services') /\ networkService' \in Services \cup {None}
BY NewServiceTyped DEF StartService

\* A stop that ends leaves the others.
LEMMA RemainingTyped ==
  ASSUME StopsTyped(stops), NEW k \in 1..Len(stops)
  PROVE  stops[k] \in StopType /\ stops[k].of \in Services /\ StopsTyped(RemoveAt(stops, k))
<1>1. stops \in Seq(StopType) /\ Len(stops) \in Nat /\ Len(stops) <= MaxStops /\ stops[k] \in StopType
  BY ElementOfSeq, LenProperties DEF StopsTyped
<1> DEFINE a == SubSeq(stops, 1, k - 1)
           b == SubSeq(stops, k + 1, Len(stops))
<1>2. a \in Seq(StopType) /\ Len(a) = k - 1 /\ b \in Seq(StopType) /\ Len(b) = Len(stops) - k
  BY <1>1
<1>3. RemoveAt(stops, k) = a \o b
  BY DEF RemoveAt
<1> HIDE DEF a, b
<1>4. RemoveAt(stops, k) \in Seq(StopType) /\ Len(RemoveAt(stops, k)) = Len(a) + Len(b)
  BY <1>2, <1>3, ConcatProperties
<1>5. Len(RemoveAt(stops, k)) <= MaxStops
  BY <1>1, <1>2, <1>4, BoundsAssumption
<1> QED
  BY <1>1, <1>4, <1>5 DEF StopsTyped, StopType

LEMMA BlankTyped == ServicesTyped([i \in Services |-> Unused]) /\ StopsTyped(<<>>)
<1>1. Unused \in ServiceType /\ Unused.listens = FALSE
  BY DEF Unused, ServiceType
<1>2. <<>> \in Seq(StopType) /\ Len(<<>>) = 0
  BY EmptySeq
<1>3. StopsTyped(<<>>)
  BY <1>2, BoundsAssumption DEF StopsTyped
<1> QED
  BY <1>1, <1>3 DEF ServicesTyped

LEMMA ProcessEndsTyped ==
  ASSUME ProcessTyped, ProcessEnds
  PROVE  ProcessTyped'
BY BlankTyped DEF ProcessEnds, ProcessTyped, ServicesTyped, StopsTyped

LEMMA AppQuitTyped ==
  ASSUME ProcessTyped, NEW f, ServicesTyped(f), NEW others, StopsTyped(others), AppQuit(f, others)
  PROVE  ProcessTyped'
<1>1. CASE ~settings.closeToTray
  BY <1>1, ProcessEndsTyped DEF AppQuit
<1>2. CASE settings.closeToTray /\ bootstrapped /\ networkService # None
  <2>1. Stop(f, others, networkService, "beforeQuit") /\ networkService \in Services
    BY <1>2 DEF AppQuit, ProcessTyped
  <2>2. ServicesTyped(services') /\ StopsTyped(stops') /\ overlapped' \in BOOLEAN
    BY <2>1, StopTyped
  <2> QED
    BY <1>2, <2>2 DEF AppQuit, ProcessTyped, ServicesTyped, StopsTyped
<1>3. CASE settings.closeToTray /\ ~(bootstrapped /\ networkService # None)
  BY <1>3 DEF AppQuit, ProcessTyped, ServicesTyped, StopsTyped
<1> QED
  BY <1>1, <1>2, <1>3

LEMMA CallStopTyped ==
  ASSUME ProcessTyped, DashboardTyped, NEW by \in {"dashboard", "restart"}, CallStop(by)
  PROVE  /\ ServicesTyped(services') /\ StopsTyped(stops') /\ overlapped' \in BOOLEAN
         /\ shown' \in BOOLEAN \cup {None}
<1>1. CASE networkService # None
  <2>1. Stop(services, stops, networkService, by) /\ networkService \in Services /\ shown' = shown
    BY <1>1 DEF CallStop, ProcessTyped
  <2> QED
    BY <2>1, StopTyped DEF ProcessTyped, DashboardTyped
<1>2. CASE networkService = None
  BY <1>2 DEF CallStop, ProcessTyped, ServicesTyped, StopsTyped
<1> QED
  BY <1>1, <1>2

LEMMA CallStartTyped ==
  ASSUME ProcessTyped, DashboardTyped, NEW port \in Ports, CallStart(port)
  PROVE  /\ ServicesTyped(services') /\ networkService' \in Services \cup {None}
         /\ shown' \in BOOLEAN \cup {None} /\ startCalls' \subseteq Services
<1>1. ServicesTyped(services') /\ networkService' \in Services \cup {None}
  BY StartTyped DEF CallStart, ProcessTyped
<1>2. networkService = None => networkService' \in Services
  BY NewServiceTyped DEF CallStart, StartService, ProcessTyped
<1> QED
  BY <1>1, <1>2 DEF CallStart, DashboardTyped

\* A service that starts goes on.
LEMMA StartingTyped ==
  ASSUME ProcessTyped, FilesTyped, NEW i \in Services,
         LoadIdentity(i) \/ GenerateIdentity(i) \/ Bind(i) \/ BindFails(i)
  PROVE  ProcessTyped' /\ FilesTyped'
<1> DEFINE s == services[i]
<1>0. services \in [Services -> ServiceType] /\ s \in ServiceType /\ ServicesTyped(services)
  BY DEF ProcessTyped, ServicesTyped
<1>1. ASSUME NEW p \in {"generating", "failed"}
      PROVE  ServicesTyped([services EXCEPT ![i].phase = p])
  <2> DEFINE t == [s EXCEPT !.phase = p]
  <2>1. t \in ServiceType /\ t.listens = s.listens /\ t.port = s.port
    BY <1>0, PhaseField DEF PhaseNames
  <2>2. [services EXCEPT ![i].phase = p] = [services EXCEPT ![i] = t]
    BY <1>0
  <2> HIDE DEF t
  <2>3. t.listens => \A j \in Services : services[j].listens => services[j].port # t.port \/ j = i
    BY <2>1 DEF ProcessTyped, ServicesTyped
  <2> QED
    BY <1>0, <2>1, <2>2, <2>3, OneService
<1>2. ASSUME NEW n \in Identities
      PROVE  ServicesTyped([services EXCEPT ![i].phase = "binding", ![i].identity = n])
  <2> DEFINE u == [s EXCEPT !.phase = "binding"]
             t == [u EXCEPT !.identity = n]
  <2>1. u \in ServiceType /\ u.listens = s.listens /\ u.port = s.port
    BY <1>0, PhaseField DEF PhaseNames
  <2>2. [services EXCEPT ![i].phase = "binding", ![i].identity = n] = [services EXCEPT ![i] = t]
    BY <1>0
  <2> HIDE DEF u
  <2>3. t \in ServiceType /\ t.listens = s.listens /\ t.port = s.port
    BY <2>1, IdentityField
  <2> HIDE DEF t
  <2>4. t.listens => \A j \in Services : services[j].listens => services[j].port # t.port \/ j = i
    BY <2>3 DEF ProcessTyped, ServicesTyped
  <2> QED
    BY <1>0, <2>2, <2>3, <2>4, OneService
<1>3. CASE LoadIdentity(i)
  <2>1. \/ services' = [services EXCEPT ![i].phase = "generating"]
        \/ services' = [services EXCEPT ![i].phase = "failed"]
        \/ certFile \in Identities
           /\ services' = [services EXCEPT ![i].phase = "binding", ![i].identity = certFile]
    BY <1>3 DEF LoadIdentity, StoredIdentity
  <2>2. ServicesTyped(services')
    BY <1>1, <1>2, <2>1
  <2> QED
    BY <1>3, <2>2 DEF LoadIdentity, ProcessTyped, FilesTyped, StopsTyped, ServicesTyped, fileVars, shellVars
<1>4. CASE GenerateIdentity(i)
  <2>1. PICK n \in Identities : /\ generated' = generated \cup {n} /\ keyFile' = n /\ certFile' = n
                                /\ services' = [services EXCEPT ![i].phase = "binding", ![i].identity = n]
    BY <1>4 DEF GenerateIdentity
  <2>2. ServicesTyped(services')
    BY <1>2, <2>1
  <2> QED
    BY <1>4, <2>1, <2>2 DEF GenerateIdentity, ProcessTyped, FilesTyped, FileType, StopsTyped, ServicesTyped, shellVars
<1>5. CASE Bind(i)
  <2> DEFINE u == [s EXCEPT !.phase = "up"]
             v == [u EXCEPT !.listens = TRUE]
             t == [v EXCEPT !.gateway = "listening"]
  <2>1. u \in ServiceType /\ u.port = s.port
    BY <1>0, PhaseField DEF PhaseNames
  <2>2. services' = [services EXCEPT ![i] = t]
    BY <1>0, <1>5 DEF Bind
  <2> HIDE DEF u
  <2>3. v \in ServiceType /\ v.port = s.port
    BY <2>1, ListensField
  <2> HIDE DEF v
  <2>4. t \in ServiceType /\ t.port = s.port
    BY <2>3, GatewayField
  <2> HIDE DEF t
  <2>5. \A j \in Services : services[j].listens => services[j].port # t.port
    BY <1>5, <2>4 DEF Bind
  <2>6. ServicesTyped(services')
    BY <1>0, <2>2, <2>4, <2>5, OneService
  <2> QED
    BY <1>5, <2>6 DEF Bind, ProcessTyped, FilesTyped, StopsTyped, ServicesTyped, fileVars
<1>6. CASE BindFails(i)
  <2>1. ServicesTyped(services')
    BY <1>1, <1>6 DEF BindFails
  <2> QED
    BY <1>6, <2>1 DEF BindFails, ProcessTyped, FilesTyped, StopsTyped, ServicesTyped, fileVars, shellVars
<1> QED
  BY <1>3, <1>4, <1>5, <1>6

LEMMA StopEndTyped ==
  ASSUME ProcessTyped, NEW k \in 1..Len(stops)
  PROVE  /\ ServicesTyped(Destroyed(services, stops[k].of)) /\ StopsTyped(RemoveAt(stops, k))
         /\ stops[k].of \in Services
BY DrainingTyped, RemainingTyped DEF ProcessTyped

LEMMA StopStepTyped ==
  ASSUME ProcessTyped, FilesTyped, DashboardTyped, NEW k \in 1..Len(stops),
         \/ ServiceStopped(k)
         \/ TrayStopEnds(k) /\ UNCHANGED appVars
         \/ QuitStopEnds(k) /\ AppEnds
  PROVE  ProcessTyped' /\ FilesTyped' /\ shown' \in BOOLEAN \cup {None}
         /\ startCalls' \subseteq Services /\ newPort' \in Ports \cup {None}
<1>0. ServicesTyped(Destroyed(services, stops[k].of)) /\ StopsTyped(RemoveAt(stops, k))
  BY StopEndTyped
<1>1. CASE ServiceStopped(k)
  <2>1. /\ ServicesTyped(services') /\ StopsTyped(stops') /\ networkService' = None
        /\ UNCHANGED <<settings, boots, running, bootstrapped, window, overlapped>>
    BY <1>0, <1>1 DEF ServiceStopped, StopServiceEnds, StopEnds, shellVars
  <2>2. UNCHANGED <<keyFile, certFile, generated, startCalls, newPort>> /\ shown' \in {shown, FALSE}
    BY <1>1 DEF ServiceStopped, StopServiceEnds, fileVars
  <2> QED
    BY <2>1, <2>2 DEF ProcessTyped, FilesTyped, DashboardTyped, ServicesTyped, StopsTyped
<1>2. CASE TrayStopEnds(k) /\ UNCHANGED appVars
  <2>1. /\ ServicesTyped(services') /\ StopsTyped(stops')
        /\ UNCHANGED <<networkService, settings, boots, running, bootstrapped, window, overlapped>>
    BY <1>0, <1>2 DEF TrayStopEnds, StopEnds, shellVars
  <2> QED
    BY <1>2, <2>1 DEF TrayStopEnds, fileVars, ProcessTyped, FilesTyped, DashboardTyped, ServicesTyped, StopsTyped, appVars
<1>3. CASE QuitStopEnds(k) /\ AppEnds
  <2>1. AppQuit(Destroyed(services, stops[k].of), RemoveAt(stops, k)) /\ UNCHANGED fileVars
    BY <1>3 DEF QuitStopEnds
  <2>2. ProcessTyped'
    BY <1>0, <2>1, AppQuitTyped
  <2> QED
    BY <1>3, <2>1, <2>2 DEF fileVars, FilesTyped, DashboardTyped, AppEnds, appVars
<1> QED
  BY <1>1, <1>2, <1>3

AppTyped == ProcessTyped /\ FilesTyped /\ DashboardTyped

LEMMA EndsTyped ==
  ASSUME AppTyped, AppEnds, ProcessTyped', FilesTyped', UNCHANGED subject
  PROVE  AppTyped'
BY DEF AppTyped, AppEnds, appVars, DashboardTyped

LEMMA StayTyped ==
  ASSUME AppTyped, UNCHANGED appVars, ProcessTyped', FilesTyped', UNCHANGED subject
  PROVE  AppTyped'
BY DEF AppTyped, appVars, DashboardTyped

LEMMA CrashTyped ==
  ASSUME AppTyped, Crash \/ \E i \in Services : CrashWriting(i)
  PROVE  ProcessTyped' /\ FilesTyped'
<1>1. CASE Crash
  BY <1>1, ProcessEndsTyped DEF Crash, fileVars, FilesTyped, AppTyped
<1>2. ASSUME NEW i \in Services, CrashWriting(i) PROVE ProcessTyped' /\ FilesTyped'
  <2>1. PICK n \in Identities : /\ generated' = generated \cup {n}
                                /\ \E left \in CutShort(n) : keyFile' = left[1] /\ certFile' = left[2]
    BY <1>2 DEF CrashWriting
  <2>2. \A left \in CutShort(n) : {left[1], left[2]} \subseteq {n, certFile, "empty", "cut"}
    BY DEF CutShort
  <2>3. FilesTyped'
    BY <2>1, <2>2 DEF AppTyped, FilesTyped, FileType
  <2>4. ProcessEnds
    BY <1>2 DEF CrashWriting
  <2> QED
    BY <2>3, <2>4, ProcessEndsTyped DEF AppTyped
<1> QED
  BY <1>1, <1>2

LEMMA ShellTyped ==
  ASSUME AppTyped, TrayToggle \/ Boot \/ TrayQuit \/ CloseWindow
  PROVE  ProcessTyped' /\ FilesTyped'
<1>0. /\ ServicesTyped(services) /\ StopsTyped(stops) /\ settings.port \in Ports
      /\ networkService \in Services \cup {None}
  BY DEF AppTyped, ProcessTyped, SettingsType
<1>1. CASE TrayToggle
  <2>1. CASE networkService # None
    <3>1. ServicesTyped(services') /\ StopsTyped(stops') /\ overlapped' \in BOOLEAN
      BY <1>0, <1>1, <2>1, StopTyped DEF TrayToggle
    <3> QED
      BY <1>1, <2>1, <3>1 DEF TrayToggle, AppTyped, ProcessTyped, FilesTyped, ServicesTyped, StopsTyped, fileVars, shellVars
  <2>2. CASE networkService = None
    <3>1. ServicesTyped(services') /\ networkService' \in Services \cup {None}
      BY <1>0, <1>1, <2>2, StartTyped DEF TrayToggle
    <3> QED
      BY <1>1, <2>2, <3>1 DEF TrayToggle, AppTyped, ProcessTyped, FilesTyped, ServicesTyped, StopsTyped, fileVars, shellVars
  <2> QED
    BY <2>1, <2>2
<1>2. CASE Boot
  <2>1. ServicesTyped(services') /\ networkService' \in Services \cup {None}
    BY <1>0, <1>2, StartTyped DEF Boot
  <2>2. boots' \in 0..MaxBoots
    BY <1>2, BoundsAssumption DEF Boot, AppTyped, ProcessTyped
  <2> QED
    BY <1>2, <2>1, <2>2 DEF Boot, AppTyped, ProcessTyped, FilesTyped, ServicesTyped, StopsTyped, fileVars
<1>3. CASE TrayQuit
  <2>1. CASE networkService # None
    <3>1. ServicesTyped(services') /\ StopsTyped(stops') /\ overlapped' \in BOOLEAN
      BY <1>0, <1>3, <2>1, StopTyped DEF TrayQuit
    <3> QED
      BY <1>3, <2>1, <3>1 DEF TrayQuit, AppTyped, ProcessTyped, FilesTyped, ServicesTyped, StopsTyped, fileVars, shellVars
  <2>2. CASE networkService = None
    BY <1>0, <1>3, <2>2, AppQuitTyped DEF TrayQuit, AppTyped, FilesTyped, fileVars
  <2> QED
    BY <2>1, <2>2
<1>4. CASE CloseWindow
  <2>1. CASE settings.closeToTray
    BY <1>4, <2>1 DEF CloseWindow, AppTyped, ProcessTyped, FilesTyped, ServicesTyped, StopsTyped, fileVars
  <2>2. CASE ~settings.closeToTray
    BY <1>4, <2>2, ProcessEndsTyped DEF CloseWindow, AppTyped, FilesTyped, fileVars
  <2> QED
    BY <2>1, <2>2
<1> QED
  BY <1>1, <1>2, <1>3, <1>4

LEMMA DashboardStepTyped ==
  ASSUME AppTyped, UNCHANGED subject,
         \/ HydrateService \/ StartButton \/ StopButton \/ RestartGoesOn \/ SetCloseToTray
         \/ \E port \in Ports : ApplyAndRestart(port)
  PROVE  AppTyped'
<1>0. ProcessTyped /\ FilesTyped /\ DashboardTyped /\ settings \in SettingsType /\ settings.port \in Ports
  BY DEF AppTyped, ProcessTyped, SettingsType
<1>1. CASE HydrateService
  BY <1>1 DEF HydrateService, serviceVars, fileVars, shellVars, AppTyped, ProcessTyped, FilesTyped, DashboardTyped,
              ServicesTyped, StopsTyped, StatusRunning
<1>2. CASE StartButton
  <2>1. /\ ServicesTyped(services') /\ networkService' \in Services \cup {None}
        /\ shown' \in BOOLEAN \cup {None} /\ startCalls' \subseteq Services
    BY <1>0, <1>2, CallStartTyped DEF StartButton
  <2> QED
    BY <1>2, <2>1 DEF StartButton, AppTyped, ProcessTyped, FilesTyped, DashboardTyped, StopsTyped, ServicesTyped, fileVars, shellVars
<1>3. CASE StopButton
  <2>1. /\ ServicesTyped(services') /\ StopsTyped(stops') /\ overlapped' \in BOOLEAN
        /\ shown' \in BOOLEAN \cup {None}
    BY <1>0, <1>3, CallStopTyped DEF StopButton
  <2> QED
    BY <1>3, <2>1 DEF StopButton, AppTyped, ProcessTyped, FilesTyped, DashboardTyped, StopsTyped, ServicesTyped, fileVars, shellVars
<1>4. CASE RestartGoesOn
  <2>1. newPort \in Ports
    BY <1>4 DEF RestartGoesOn, AppTyped, DashboardTyped
  <2>2. /\ ServicesTyped(services') /\ networkService' \in Services \cup {None}
        /\ shown' \in BOOLEAN \cup {None} /\ startCalls' \subseteq Services
    BY <1>0, <1>4, <2>1, CallStartTyped DEF RestartGoesOn
  <2>3. settings' \in SettingsType
    BY <1>0, <1>4, <2>1 DEF RestartGoesOn, SettingsType
  <2> QED
    BY <1>4, <2>2, <2>3 DEF RestartGoesOn, AppTyped, ProcessTyped, FilesTyped, DashboardTyped, StopsTyped, ServicesTyped, fileVars, shellVars
<1>5. CASE SetCloseToTray
  <2>1. settings' \in SettingsType
    BY <1>0, <1>5 DEF SetCloseToTray, SettingsType
  <2> QED
    BY <1>5, <2>1 DEF SetCloseToTray, AppTyped, ProcessTyped, FilesTyped, DashboardTyped, StopsTyped, ServicesTyped, fileVars, shellVars, appVars
<1>6. ASSUME NEW port \in Ports, ApplyAndRestart(port) PROVE AppTyped'
  <2>1. /\ ServicesTyped(services') /\ StopsTyped(stops') /\ overlapped' \in BOOLEAN
        /\ shown' \in BOOLEAN \cup {None}
    BY <1>0, <1>6, CallStopTyped DEF ApplyAndRestart
  <2> QED
    BY <1>6, <2>1 DEF ApplyAndRestart, AppTyped, ProcessTyped, FilesTyped, DashboardTyped, StopsTyped, ServicesTyped, fileVars, shellVars
<1> QED
  BY <1>1, <1>2, <1>3, <1>4, <1>5, <1>6

LEMMA StartingStepTyped ==
  ASSUME AppTyped, UNCHANGED subject, NEW i \in Services,
         \/ ServiceUp(i) \/ ServiceFails(i) \/ IdentityRead(i)
         \/ GenerateIdentity(i) /\ UNCHANGED appVars
  PROVE  AppTyped'
<1>1. ProcessTyped' /\ FilesTyped'
  BY StartingTyped DEF AppTyped, ServiceUp, ServiceFails, IdentityRead
<1>2. DashboardTyped'
  BY DEF AppTyped, ServiceUp, ServiceFails, IdentityRead, DashboardTyped, StatusRunning, appVars
<1> QED
  BY <1>1, <1>2 DEF AppTyped

LEMMA ServiceStepTyped ==
  ASSUME AppTyped, ServiceNext, UNCHANGED subject
  PROVE  AppTyped'
<1>1. CASE \/ HydrateService \/ StartButton \/ StopButton \/ RestartGoesOn \/ SetCloseToTray
           \/ \E port \in Ports : ApplyAndRestart(port)
  BY <1>1, DashboardStepTyped
<1>2. ASSUME NEW i \in Services,
             \/ ServiceUp(i) \/ ServiceFails(i) \/ IdentityRead(i)
             \/ GenerateIdentity(i) /\ UNCHANGED appVars
      PROVE  AppTyped'
  BY <1>2, StartingStepTyped
<1>3. ASSUME NEW k \in 1..Len(stops),
             \/ ServiceStopped(k)
             \/ TrayStopEnds(k) /\ UNCHANGED appVars
             \/ QuitStopEnds(k) /\ AppEnds
      PROVE  AppTyped'
  BY <1>3, StopStepTyped DEF AppTyped, DashboardTyped
<1>4. CASE (TrayToggle \/ Boot) /\ UNCHANGED appVars
  BY <1>4, ShellTyped, StayTyped
<1>5. CASE (TrayQuit \/ CloseWindow) /\ AppEnds
  BY <1>5, ShellTyped, EndsTyped
<1>6. CASE (Crash \/ \E i \in Services : CrashWriting(i)) /\ AppEnds
  BY <1>6, CrashTyped, EndsTyped
<1> QED
  BY <1>1, <1>2, <1>3, <1>4, <1>5, <1>6 DEF ServiceNext

TypedInv == AppTyped /\ PanelInv

LEMMA InitTyped == Init => TypedInv
<1> SUFFICES ASSUME Init PROVE TypedInv
  OBVIOUS
<1>1. ProcessTyped
  <2>1. ServicesTyped(services) /\ StopsTyped(stops)
    BY BlankTyped DEF Init, ServiceInit, ServicesTyped, StopsTyped
  <2>2. /\ networkService = None /\ settings \in SettingsType /\ boots = 0
        /\ running = FALSE /\ bootstrapped = FALSE /\ overlapped = FALSE /\ window = "closed"
    BY DEF Init, ServiceInit
  <2>3. boots \in 0..MaxBoots
    BY <2>2, BoundsAssumption
  <2> QED
    BY <2>1, <2>2, <2>3 DEF ProcessTyped
<1>2. FilesTyped /\ DashboardTyped
  BY DEF Init, ServiceInit, FilesTyped, FileType, DashboardTyped
<1> QED
  BY <1>1, <1>2, InitPanel DEF TypedInv, AppTyped

LEMMA StepTyped ==
  ASSUME TypedInv, [Next]_vars
  PROVE  TypedInv'
<1>0. PanelInv'
  BY PanelKeeps DEF TypedInv
<1>1. CASE ServiceNext /\ UNCHANGED <<panelVars, subject>>
  BY <1>0, <1>1, ServiceStepTyped DEF TypedInv
<1>2. ASSUME UNCHANGED <<serviceVars, appVars, subject>> PROVE AppTyped'
  BY <1>2 DEF TypedInv, AppTyped, ProcessTyped, FilesTyped, DashboardTyped, ServicesTyped, StopsTyped,
              serviceVars, fileVars, shellVars, appVars
<1>3. CASE PanelNext /\ UNCHANGED <<serviceVars, appVars, subject>>
  BY <1>0, <1>2, <1>3 DEF TypedInv
<1>4. CASE UNCHANGED vars
  BY <1>0, <1>2, <1>4 DEF vars, TypedInv
<1> QED
  BY <1>1, <1>3, <1>4 DEF Next

\* For any number of services, stops and calls: the main process, its files, the dashboard
\* and its list keep their types, no two services listen on one port, and no more stops are
\* under way than the bound allows.
THEOREM TypeCorrect == Spec => []TypeOK
<1>1. TypedInv => TypeOK
  <2> SUFFICES ASSUME TypedInv PROVE TypeOK
    OBVIOUS
  <2>1. ServiceTypeOK
    <3>1. Range(stops) \subseteq StopType
      BY RangeOfSeq DEF TypedInv, AppTyped, ProcessTyped, StopsTyped
    <3> QED
      BY <3>1 DEF TypedInv, AppTyped, ProcessTyped, FilesTyped, ServicesTyped, StopsTyped, ServiceTypeOK
  <2>2. PanelTypeOK
    <3>1. Range(calls) \subseteq CallType /\ Range(answers) \subseteq AnswerType
      BY RangeOfSeq DEF TypedInv, PanelInv, PanelTyped
    <3> QED
      BY <3>1 DEF TypedInv, PanelInv, PanelTyped, PanelTypeOK
  <2> QED
    BY <2>1, <2>2 DEF TypedInv, AppTyped, DashboardTyped, TypeOK
<1>2. TypedInv /\ [Next]_vars => TypedInv'
  BY StepTyped
<1> QED
  BY InitTyped, <1>1, <1>2, PTL DEF Spec
=============================================================================
