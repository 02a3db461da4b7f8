---------------------------- MODULE FrameCoalescer ----------------------------
(***************************************************************************)
(* The sender's FrameCoalescer as operators: a pending batch, and what     *)
(* queueing a frame or a flush makes of it.  A frame is its type t, a      *)
(* number n (one coordinate stands for x and y) and an argument (an axis,  *)
(* a button or an action).                                                 *)
(***************************************************************************)
EXTENDS Integers, Sequences

Coalesceable == {"MouseMove", "MouseDragMove", "MouseScroll"}

Frame(t, n, arg) == [t |-> t, n |-> n, arg |-> arg]

\* n: summed deltas, the last drag position or the vertical amount; h: the horizontal one.
NoBatch == [type |-> "none", n |-> 0, h |-> 0]

\* The frames that a flush hands to the connection: an amount of zero is none.
Flushed(b) ==
  LET Axis(amount, axis) == IF amount = 0 THEN <<>> ELSE <<Frame("MouseScroll", amount, axis)>>
  IN  CASE b.type = "none" -> <<>>
        [] b.type = "MouseScroll" -> Axis(b.n, "vertical") \o Axis(b.h, "horizontal")
        [] OTHER -> <<Frame(b.type, b.n, "")>>

\* A frame of the pending type is added, and one of another type starts a batch.
Accumulated(b, f) ==
  LET old == IF b.type = f.t THEN b ELSE [NoBatch EXCEPT !.type = f.t]
  IN  CASE f.t = "MouseDragMove" -> [old EXCEPT !.n = f.n]
        [] f.t = "MouseScroll" /\ f.arg = "horizontal" -> [old EXCEPT !.h = @ + f.n]
        [] OTHER -> [old EXCEPT !.n = @ + f.n]

\* Faulty variant: a distinct frame overtakes the batch.
SentOvertaking(b, f) ==
  IF f.t \in Coalesceable
    THEN [batch |-> Accumulated(b, f), out |-> IF b.type = f.t THEN <<>> ELSE Flushed(b)]
    ELSE [batch |-> NoBatch, out |-> <<f>> \o Flushed(b)]

\* sendFrame: the batch it leaves and the frames it hands over at once.
Sent(b, f) ==
  IF f.t \in Coalesceable
    THEN [batch |-> Accumulated(b, f), out |-> IF b.type = f.t THEN <<>> ELSE Flushed(b)]
    ELSE [batch |-> NoBatch, out |-> Flushed(b) \o <<f>>]
=============================================================================
