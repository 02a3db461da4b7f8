------------------------------ MODULE PointerPath ------------------------------
(***************************************************************************)
(* The pointer from the finger to the operating system: the touchpad and   *)
(* the mouse controller, and the session that carries the frames.          *)
(***************************************************************************)
EXTENDS Touchpad, MouseController

vars == <<padVars, mouseVars>>

TypeOK == PadTypeOK /\ MouseTypeOK

Init == PadInit /\ MouseInit

\* The gesture, the flush, or the start of a connection: the sender alone.
SenderStep == (PadNext \/ Connected) /\ UNCHANGED mouseVars

ReceiverStep == MouseNext /\ UNCHANGED padVars

ProviderFailure ==
  /\ \E i \in 1..Len(calls) :
       /\ ProviderFails(i)
       /\ excused' = (excused \/ "up" \in Range(calls[i]))
  /\ UNCHANGED <<gestureVars, link, conn, coalescerVars, wire>>

\* The receiver authenticates the session, and the sender learns of it later.
Authenticates ==
  /\ link = "connected" /\ ~authenticated
  /\ authenticated' = TRUE
  /\ permitted' \in BOOLEAN
  /\ UNCHANGED <<padVars, controllerVars, osVars>>

AuthOkArrives ==
  /\ authenticated
  /\ LearnsAuthOk
  /\ UNCHANGED mouseVars

\* The connection ends; the controller, which all sessions share, is told nothing.
ConnectionEnds(renewed) ==
  /\ Drops(renewed)
  /\ authenticated' = FALSE
  /\ permitted' = FALSE
  /\ UNCHANGED <<controllerVars, osVars>>

\* A client of the protocol other than these screens sends absolute positions.
OtherClient ==
  /\ link = "connected" /\ Len(wire) < MaxWire
  /\ wire' = Append(wire, OnWire(Frame("MouseMove", 1, "absolute"), owed))
  /\ UNCHANGED <<gestureVars, link, conn, coalescerVars, excused, mouseVars>>

\* A frame of a session that may not send it is refused by the router.
Refused ==
  /\ wire # <<>> /\ ~authenticated
  /\ wire' = Tail(wire)
  /\ excused' = (excused \/ Head(wire).t = "MouseDragEnd")
  /\ UNCHANGED <<gestureVars, link, conn, coalescerVars, mouseVars>>

\* One that lacks the permission has its connection closed.
Forbidden ==
  /\ wire # <<>> /\ authenticated /\ ~permitted
  /\ ConnectionEnds(FALSE)

\* A drag ends, and no other one is on its way.
DragEndsWell ==
  /\ Head(wire).t = "MouseDragEnd" /\ dragInProgress
  /\ \A i \in 1..Len(wire) : wire[i].t # "MouseDragStart"

Delivered(passes) ==
  /\ wire # <<>> /\ authenticated /\ permitted
  /\ Handle(Head(wire), passes)
  /\ wire' = Tail(wire)
  /\ excused' = (excused /\ ~DragEndsWell)
  /\ UNCHANGED <<gestureVars, link, conn, coalescerVars, sessionVars, osVars>>

Next ==
  \/ SenderStep \/ ReceiverStep \/ ProviderFailure
  \/ Authenticates \/ AuthOkArrives \/ OtherClient \/ Refused \/ Forbidden
  \/ \E passes \in BOOLEAN : Delivered(passes)
  \/ \E renewed \in BOOLEAN : ConnectionEnds(renewed)

\* A scheduled animation frame or microtask runs.
Fairness == WF_vars(FlushCallback /\ UNCHANGED mouseVars)

Spec == Init /\ [][Next]_vars /\ Fairness

-----------------------------------------------------------------------------
(* Properties.                                                             *)

\* "move -> click must never swap": when a click, a drag's start or its end leaves, the
\* connection has been handed all the motion that was dispatched before it.
ClickInPlace ==
  \A i \in 1..Len(wire) : wire[i].inPlace

\* A drag has the left button down only while it is under way: unless the end of the last
\* drag was lost or the provider failed in it, the finger is still down or the end is on
\* its way.  That a click frame's "down" holds the button is what its sender asked for.
\* (cliclick never holds a button; calls of xdotool and of SendInput overtake each other,
\* and leave it down.)
ButtonHeldForADrag ==
  /\ backend = "cliclick" => button = "up"
  /\ backend = "nutjs" /\ button = "drag" =>
       \/ excused \/ dragActive \/ EndOnWire
       \/ \E i \in 1..Len(calls) : "up" \in Range(calls[i])

\* "a final MouseMove is never stranded": what is batched leaves the coalescer, even
\* when no further gesture follows.
MovesNotStranded == (batch # NoBatch) ~> (batch = NoBatch)
=============================================================================
