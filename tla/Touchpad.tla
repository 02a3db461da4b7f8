------------------------------- MODULE Touchpad -------------------------------
(***************************************************************************)
(* The sender's half of the pointer path: the touchpad's gestures, the     *)
(* dispatch of their frames and the coalescer in front of the connection.  *)
(*                                                                         *)
(* A finger moves along one axis, in units beyond the dead zone.           *)
(* The 16 and 64 ms windows are a free choice: a sample passes or not.     *)
(***************************************************************************)
EXTENDS FrameCoalescer, SequencesExt

CONSTANTS Distances,     \* where a finger may be, measured from where it came down
          ApiFrames,     \* frames of the buttons, and of dispatch functions no screen calls
          MaxAmount,     \* size of a sum in a batch (bound)
          MaxCallbacks,  \* scheduled flushes (bound)
          MaxWire,       \* frames on the wire before another is dispatched (bound)
          MaxConns       \* connection objects, one after the other (bound)

\* The argument of a click: a left button with its action, or another button with any.
ClickArgs == {"left", "leftDouble", "leftDown", "leftUp", "right", "middle"}

\* The pad alone starts and ends drags.
ASSUME FramesAssumption ==
  /\ Distances \subseteq Int
  /\ ApiFrames \subseteq
       [t : {"MouseMove", "MouseDragMove"}, n : Int, arg : {""}]
         \cup [t : {"MouseScroll"}, n : Int, arg : {"vertical", "horizontal"}]
         \cup [t : {"MouseClick"}, n : Int, arg : ClickArgs]
ASSUME BoundsAssumption == {MaxAmount, MaxCallbacks, MaxWire, MaxConns} \subseteq Nat /\ MaxConns > 0

VARIABLES
  touching,    \* a gesture is under way (panStart is set)
  dragState,   \* idle, move or drag
  dragActive,  \* the gesture has begun a drag
  dragTimer,   \* the long-press timer is armed
  link,        \* state of the connection: down, connected or authenticated
  conn,        \* the manager's connection object
  owner,       \* the connection of the current coalescer, 0 for none
  batch,       \* its pending batch
  callbacks,   \* its scheduled flushes
  wire,        \* frames on their way, each with whether it left in its place
  owed,        \* history: motion dispatched and not yet handed to a connection
  excused      \* history: since a drag ended well with none behind it, the end of one was
               \* lost, or the provider failed to carry it out

gestureVars == <<touching, dragState, dragActive, dragTimer>>
coalescerVars == <<owner, batch, callbacks, owed>>
padVars == <<gestureVars, link, conn, coalescerVars, wire, excused>>

Amounts == -MaxAmount..MaxAmount
Nothing == [move |-> 0, vertical |-> 0, horizontal |-> 0]

PadTypeOK ==
  /\ dragState \in {"idle", "move", "drag"}
  /\ {touching, dragActive, dragTimer, excused} \subseteq BOOLEAN
  /\ link \in {"down", "connected", "authenticated"}
  /\ conn \in 1..MaxConns /\ owner \in 0..conn
  /\ batch \in [type : Coalesceable \cup {"none"}, n : Amounts, h : Amounts]
  /\ callbacks \in 0..MaxCallbacks
  /\ Len(wire) <= MaxWire + 2

PadInit ==
  /\ touching = FALSE /\ dragState = "idle" /\ dragActive = FALSE /\ dragTimer = FALSE
  /\ link = "down" /\ conn = 1
  /\ owner = 0 /\ batch = NoBatch /\ callbacks = 0
  /\ wire = <<>>
  /\ owed = Nothing /\ excused = FALSE

-----------------------------------------------------------------------------
(* Dispatch: sendInput, the coalescer of the connection, and its send.     *)

\* What a frame moves, by kind of motion.
Motion(f) ==
  [Nothing EXCEPT !.move = IF f.t = "MouseMove" THEN f.n ELSE 0,
                  !.vertical = IF f.t = "MouseScroll" /\ f.arg = "vertical" THEN f.n ELSE 0,
                  !.horizontal = IF f.t = "MouseScroll" /\ f.arg = "horizontal" THEN f.n ELSE 0]
Plus(a, b) == [k \in DOMAIN Nothing |-> a[k] + b[k]]
Minus(a, b) == [k \in DOMAIN Nothing |-> a[k] - b[k]]

\* What is still owed after the first i frames of out have been handed over.
OwedAfter(debt, out, i) ==
  LET left[j \in 0..Len(out)] == IF j = 0 THEN debt ELSE Minus(left[j - 1], Motion(out[j]))
  IN  left[i]

\* A frame on the wire: its amount has done its work, and what may be out of place is
\* an event that leaves before motion that was dispatched earlier.
OnWire(f, debt) == [t |-> f.t, arg |-> f.arg, inPlace |-> f.t \in Coalesceable \/ debt = Nothing]

\* Frames handed to a connection are dropped unless its socket is open.
HandOver(out, debt, open) ==
  /\ owed' = OwedAfter(debt, out, Len(out))
  /\ wire' = IF open THEN wire \o [i \in 1..Len(out) |-> OnWire(out[i], OwedAfter(debt, out, i))]
             ELSE wire

\* Faulty variant: the handle of the first flush is kept, so that no other is scheduled.
DispatchOneFlush(f) ==
  LET mine == owner = conn
      sent == Sent(IF mine THEN batch ELSE NoBatch, f)
      debt == Plus(IF mine THEN owed ELSE Nothing, Motion(f))
  IN  /\ batch' = sent.batch
      /\ {batch'.n, batch'.h} \subseteq Amounts
      /\ HandOver(sent.out, debt, TRUE)
      /\ owner' = conn
      /\ callbacks' = IF mine THEN callbacks ELSE 1

\* sendInput on a connection that is "connected": the coalescer of another connection
\* flushes into that one, which is closed, and goes; every coalesceable frame schedules
\* a flush, since no handle of an earlier one is kept.
Dispatch(f) ==
  LET mine == owner = conn
      sent == Sent(IF mine THEN batch ELSE NoBatch, f)
      debt == Plus(IF mine THEN owed ELSE Nothing, Motion(f))
  IN  /\ batch' = sent.batch
      /\ {batch'.n, batch'.h} \subseteq Amounts
      /\ HandOver(sent.out, debt, TRUE)
      /\ owner' = conn
      /\ callbacks' = (IF mine THEN callbacks ELSE 0) + IF f.t \in Coalesceable THEN 1 ELSE 0
      /\ callbacks' <= MaxCallbacks

\* Without a connection in the state "connected" the frame is dropped.
SendInput(f) ==
  IF link = "connected" THEN Len(wire) < MaxWire /\ Dispatch(f)
  ELSE UNCHANGED <<coalescerVars, wire>>

\* A frame that the callers send on a drag's end, and what becomes of the drag if it is
\* dropped.
SendDragEnd ==
  /\ SendInput(Frame("MouseDragEnd", 0, "left"))
  /\ excused' = (excused \/ link # "connected")

FlushCallback ==
  /\ callbacks > 0
  /\ callbacks' = callbacks - 1
  /\ batch' = NoBatch
  /\ HandOver(Flushed(batch), owed, owner = conn /\ link # "down")
  /\ UNCHANGED <<gestureVars, link, conn, owner, excused>>

EndOnWire == \E i \in 1..Len(wire) : wire[i].t = "MouseDragEnd"

-----------------------------------------------------------------------------
(* The gestures of the pad and its buttons.                                *)

Grant ==
  /\ ~touching
  /\ touching' = TRUE
  /\ dragState' = "idle"
  /\ dragTimer' = TRUE
  /\ UNCHANGED <<dragActive, link, conn, coalescerVars, wire, excused>>

\* The finger has rested: a drag begins, unless the gesture has become a move.
LongPress ==
  /\ dragTimer
  /\ dragTimer' = FALSE
  /\ IF ~touching \/ dragState # "idle"
       THEN UNCHANGED <<dragActive, coalescerVars, wire>>
       ELSE /\ dragActive' = TRUE
            /\ SendInput(Frame("MouseDragStart", 0, "left"))
  /\ UNCHANGED <<touching, dragState, link, conn, excused>>

DispatchMove(d, passes) ==
  IF passes THEN SendInput(Frame("MouseMove", d, ""))
  ELSE UNCHANGED <<coalescerVars, wire>>

\* At least one tick, whatever the distance: the sign is what is left of it.
DispatchScroll(d, passes) ==
  LET sign == IF d > 0 THEN 1 ELSE IF d < 0 THEN -1 ELSE 0
  IN  IF passes THEN SendInput(Frame("MouseScroll", sign, "vertical"))
      ELSE UNCHANGED <<coalescerVars, wire>>

\* A move in the scroll strip scrolls and leaves the gesture as it is.  (Its branch that
\* ends a drag needs dragState "move" in a drag, which no gesture has.)
Scroll(d, passes) ==
  /\ touching
  /\ DispatchScroll(d, passes)
  /\ UNCHANGED <<gestureVars, link, conn, excused>>

\* A move elsewhere, always measured from where the gesture began.
Move(d, passes) ==
  /\ touching
  /\ dragActive \/ d # 0
  /\ dragState' = IF dragActive THEN "drag" ELSE "move"
  /\ DispatchMove(d, passes)
  /\ UNCHANGED <<touching, dragActive, dragTimer, link, conn, excused>>

\* Faulty variant: the drag is forgotten without its end.
TerminateForgets ==
  /\ touching
  /\ UNCHANGED <<coalescerVars, wire, excused>>
  /\ dragActive' = FALSE
  /\ dragTimer' = FALSE
  /\ touching' = FALSE
  /\ UNCHANGED <<dragState, link, conn>>

Terminate ==
  /\ touching
  /\ IF dragActive THEN SendDragEnd ELSE UNCHANGED <<coalescerVars, wire, excused>>
  /\ dragActive' = FALSE
  /\ dragTimer' = FALSE
  /\ touching' = FALSE
  /\ UNCHANGED <<dragState, link, conn>>

\* The end of a drag is sent; a gesture that has not moved and was quick is a tap, left
\* or right by its place.  One whose timer has fired is never quick.
Release(quick, button) ==
  /\ touching
  /\ quick => dragTimer
  /\ IF dragActive THEN SendDragEnd
     ELSE /\ IF dragState # "move" /\ quick THEN SendInput(Frame("MouseClick", 0, button))
             ELSE UNCHANGED <<coalescerVars, wire>>
          /\ UNCHANGED excused
  /\ dragActive' = FALSE
  /\ dragTimer' = FALSE
  /\ touching' = FALSE
  /\ UNCHANGED <<dragState, link, conn>>

\* A button below the pad, or another caller of the dispatch functions.
Press(f) ==
  /\ SendInput(f)
  /\ UNCHANGED <<gestureVars, link, conn, excused>>

-----------------------------------------------------------------------------
(* The connection under them.                                              *)

Connected ==
  /\ link = "down"
  /\ link' = "connected"
  /\ UNCHANGED <<gestureVars, conn, coalescerVars, wire, excused>>

LearnsAuthOk ==
  /\ link = "connected"
  /\ link' = "authenticated"
  /\ UNCHANGED <<gestureVars, conn, coalescerVars, wire, excused>>

\* The socket is lost with what was on it: a reconnection keeps the object and its
\* coalescer, a new manager has a connection of its own.
Drops(renewed) ==
  /\ link # "down" \/ renewed
  /\ link' = "down"
  /\ conn' = IF renewed THEN conn + 1 ELSE conn
  /\ conn' <= MaxConns
  /\ wire' = <<>>
  /\ excused' = (excused \/ EndOnWire)
  /\ UNCHANGED <<gestureVars, coalescerVars>>

PadNext ==
  \/ \E d \in Distances, passes \in BOOLEAN : Scroll(d, passes) \/ Move(d, passes)
  \/ Grant \/ LongPress \/ Terminate \/ FlushCallback
  \/ \E quick \in BOOLEAN, button \in {"left", "right"} : Release(quick, button)
  \/ \E f \in ApiFrames : Press(f)
=============================================================================
