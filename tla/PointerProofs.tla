---------------------------- MODULE PointerProofs ----------------------------
(***************************************************************************)
(* Proofs about the pointer path, for any distances, frames of the other   *)
(* callers, sums, flushes, connections and provider calls.                 *)
(***************************************************************************)
EXTENDS PointerPath, SequenceTheorems, WellFoundedInduction, TLAPS

-----------------------------------------------------------------------------
(* What is owed.                                                           *)

\* Induction on a set of numbers, from the well-foundedness of their order.
LEMMA Induction ==
  ASSUME NEW T, 0 \in T, \A n \in Nat : n \in T => n + 1 \in T
  PROVE  \A n \in Nat : n \in T
<1> SUFFICES ASSUME Nat \ T # {} PROVE FALSE
  OBVIOUS
<1>1. IsWellFoundedOn(OpToRel(<, Nat), Nat)
  BY NatLessThanWellFounded
<1>2. PICK n \in Nat \ T : \A m \in Nat \ T : <<m, n>> \notin OpToRel(<, Nat)
  BY <1>1, WFMin
<1>3. ASSUME NEW m \in Nat \ T PROVE n <= m
  <2>1. m < n => <<m, n>> \in OpToRel(<, Nat)
    BY DEF OpToRel
  <2>2. <<m, n>> \notin OpToRel(<, Nat)
    BY <1>2, Zenon
  <2>3. ~(m < n) /\ m \in Nat /\ n \in Nat
    BY <2>1, <2>2
  <2> QED
    BY <2>3
<1>4. n - 1 \in Nat /\ n - 1 \in T
  BY <1>3
<1> QED
  BY <1>4

\* The debt is paid frame by frame.
LEMMA DebtSteps ==
  ASSUME NEW debt, NEW out, Len(out) \in Nat
  PROVE  /\ OwedAfter(debt, out, 0) = debt
         /\ \A j \in 1..Len(out) :
              OwedAfter(debt, out, j) = Minus(OwedAfter(debt, out, j - 1), Motion(out[j]))
<1> DEFINE Body(n, S) == [j \in 0..n |-> IF j = 0 THEN debt ELSE Minus(S[j - 1], Motion(out[j]))]
           T == {n \in Nat : \E S : S = Body(n, S)}
           Left == CHOOSE S : S = Body(Len(out), S)
<1>1. 0 \in T
  <2> DEFINE S == [j \in 0..0 |-> debt]
  <2>1. S = Body(0, S)
    OBVIOUS
  <2> QED
    BY <2>1
<1>2. ASSUME NEW n \in Nat, n \in T PROVE n + 1 \in T
  <2>1. PICK S : S = Body(n, S)
    BY <1>2
  <2> DEFINE R == [j \in 0..(n + 1) |-> IF j = n + 1 THEN Minus(S[n], Motion(out[n + 1])) ELSE S[j]]
  <2>2. ASSUME NEW j \in 0..(n + 1) PROVE R[j] = Body(n + 1, R)[j]
    <3>1. CASE j = 0
      <4>1. R[j] = S[0] /\ S[0] = debt
        BY <2>1, <3>1
      <4> QED
        BY <3>1, <4>1
    <3>2. CASE j = n + 1
      <4>1. R[j - 1] = S[n] /\ j # 0
        BY <3>2
      <4> QED
        BY <3>2, <4>1
    <3>3. CASE j # 0 /\ j # n + 1
      <4>1. j \in 0..n /\ j - 1 \in 0..n /\ j - 1 # n + 1
        BY <3>3
      <4>2. R[j] = S[j] /\ R[j - 1] = S[j - 1] /\ S[j] = Minus(S[j - 1], Motion(out[j]))
        BY <2>1, <3>3, <4>1
      <4> QED
        BY <3>3, <4>2
    <3> QED
      BY <3>1, <3>2, <3>3
  <2>3. R = Body(n + 1, R)
    BY <2>2
  <2> HIDE DEF R
  <2>4. \E S1 : S1 = Body(n + 1, S1)
    BY <2>3
  <2> QED
    BY <2>4
<1>3. Len(out) \in T
  <2> HIDE DEF T
  <2> QED
    BY <1>1, <1>2, Induction
<1>4. Left = Body(Len(out), Left)
  BY <1>3, Zenon
<1>5. \A i : OwedAfter(debt, out, i) = Left[i]
  BY DEF OwedAfter
<1> HIDE DEF Left
<1>6. Left[0] = debt /\ \A j \in 1..Len(out) : Left[j] = Minus(Left[j - 1], Motion(out[j]))
  BY <1>4
<1> QED
  BY <1>5, <1>6

\* Sums of three kinds of motion.
Debt(a, b, c) == [move |-> a, vertical |-> b, horizontal |-> c]
Debts == [move : Int, vertical : Int, horizontal : Int]
Kinds == {"move", "vertical", "horizontal"}

LEMMA DebtParts ==
  /\ Nothing = Debt(0, 0, 0)
  /\ DOMAIN Nothing = Kinds
  /\ \A a, b, c : /\ Debt(a, b, c) = [k \in Kinds |-> IF k = "move" THEN a ELSE IF k = "vertical" THEN b ELSE c]
                  /\ Debt(a, b, c)["move"] = a /\ Debt(a, b, c)["vertical"] = b
                  /\ Debt(a, b, c)["horizontal"] = c
BY DEF Debt, Nothing, Kinds

LEMMA Sums ==
  ASSUME NEW a, NEW b, NEW c, NEW x, NEW y, NEW z
  PROVE  /\ Plus(Debt(a, b, c), Debt(x, y, z)) = Debt(a + x, b + y, c + z)
         /\ Minus(Debt(a, b, c), Debt(x, y, z)) = Debt(a - x, b - y, c - z)
<1> DEFINE d == Debt(a, b, c)
           e == Debt(x, y, z)
<1>1. /\ d["move"] = a /\ d["vertical"] = b /\ d["horizontal"] = c
      /\ e["move"] = x /\ e["vertical"] = y /\ e["horizontal"] = z
  BY DebtParts
<1> HIDE DEF d, e
<1>2. [k \in Kinds |-> d[k] + e[k]] = [k \in Kinds |-> IF k = "move" THEN a + x ELSE IF k = "vertical" THEN b + y ELSE c + z]
  BY <1>1 DEF Kinds
<1>3. [k \in Kinds |-> d[k] - e[k]] = [k \in Kinds |-> IF k = "move" THEN a - x ELSE IF k = "vertical" THEN b - y ELSE c - z]
  BY <1>1 DEF Kinds
<1> QED
  BY <1>2, <1>3, DebtParts DEF Plus, Minus, d, e

LEMMA DebtsAre ==
  ASSUME NEW d \in Debts
  PROVE  \E a, b, c \in Int : d = Debt(a, b, c)
BY DEF Debts, Debt

\* What a frame moves.
LEMMA MotionIs ==
  ASSUME NEW t, NEW n, NEW arg
  PROVE  Motion(Frame(t, n, arg)) =
           Debt(IF t = "MouseMove" THEN n ELSE 0,
                IF t = "MouseScroll" /\ arg = "vertical" THEN n ELSE 0,
                IF t = "MouseScroll" /\ arg = "horizontal" THEN n ELSE 0)
<1> DEFINE f == Frame(t, n, arg)
           a == IF f.t = "MouseMove" THEN f.n ELSE 0
           b == IF f.t = "MouseScroll" /\ f.arg = "vertical" THEN f.n ELSE 0
           c == IF f.t = "MouseScroll" /\ f.arg = "horizontal" THEN f.n ELSE 0
<1>1. f.t = t /\ f.n = n /\ f.arg = arg
  BY DEF Frame
<1>2. Motion(f) = [Nothing EXCEPT !.move = a, !.vertical = b, !.horizontal = c]
  BY DEF Motion
<1> HIDE DEF a, b, c, f
<1>3. [Nothing EXCEPT !.move = a, !.vertical = b, !.horizontal = c] = Debt(a, b, c)
  <2>1. /\ [Debt(0, 0, 0) EXCEPT !.move = a] = Debt(a, 0, 0)
        /\ [Debt(a, 0, 0) EXCEPT !.vertical = b] = Debt(a, b, 0)
        /\ [Debt(a, b, 0) EXCEPT !.horizontal = c] = Debt(a, b, c)
    BY DEF Debt
  <2>2. [Nothing EXCEPT !.move = a, !.vertical = b, !.horizontal = c] =
          [[[Nothing EXCEPT !.move = a] EXCEPT !.vertical = b] EXCEPT !.horizontal = c]
    OBVIOUS
  <2> QED
    BY <2>1, <2>2, DebtParts
<1> QED
  BY <1>1, <1>2, <1>3 DEF a, b, c, f

BatchMotion(b) ==
  Debt(IF b.type = "MouseMove" THEN b.n ELSE 0,
       IF b.type = "MouseScroll" THEN b.n ELSE 0,
       IF b.type = "MouseScroll" THEN b.h ELSE 0)

BatchType == [type : Coalesceable \cup {"none"}, n : Int, h : Int]

LEMMA HandedNone ==
  ASSUME NEW debt
  PROVE  OwedAfter(debt, <<>>, 0) = debt
BY DebtSteps

LEMMA HandedOne ==
  ASSUME NEW debt, NEW f
  PROVE  OwedAfter(debt, <<f>>, 1) = Minus(debt, Motion(f))
<1> DEFINE out == <<f>>
<1>1. Len(out) = 1 /\ out[1] = f
  OBVIOUS
<1> HIDE DEF out
<1>2. OwedAfter(debt, out, 1) = Minus(OwedAfter(debt, out, 1 - 1), Motion(out[1]))
  BY <1>1, DebtSteps
<1> QED
  BY <1>1, <1>2, DebtSteps DEF out

LEMMA HandedTwo ==
  ASSUME NEW debt, NEW f, NEW g
  PROVE  OwedAfter(debt, <<f, g>>, 2) = Minus(Minus(debt, Motion(f)), Motion(g))
<1> DEFINE out == <<f, g>>
<1>1. Len(out) = 2 /\ out[1] = f /\ out[2] = g
  OBVIOUS
<1> HIDE DEF out
<1>2. \A j \in 1..Len(out) : OwedAfter(debt, out, j) = Minus(OwedAfter(debt, out, j - 1), Motion(out[j]))
  <2>1. Len(out) \in Nat
    BY <1>1
  <2> QED
    BY <2>1, DebtSteps, Zenon
<1>3. OwedAfter(debt, out, 0) = debt
  BY <1>1, DebtSteps
<1>4. /\ OwedAfter(debt, out, 1) = Minus(OwedAfter(debt, out, 0), Motion(out[1]))
      /\ OwedAfter(debt, out, 2) = Minus(OwedAfter(debt, out, 1), Motion(out[2]))
  BY <1>1, <1>2
<1> QED
  BY <1>1, <1>3, <1>4 DEF out

LEMMA HandedThree ==
  ASSUME NEW debt, NEW f, NEW g, NEW h
  PROVE  OwedAfter(debt, <<f, g, h>>, 3) = Minus(Minus(Minus(debt, Motion(f)), Motion(g)), Motion(h))
<1> DEFINE out == <<f, g, h>>
<1>1. Len(out) = 3 /\ out[1] = f /\ out[2] = g /\ out[3] = h
  OBVIOUS
<1> HIDE DEF out
<1>2. \A j \in 1..Len(out) : OwedAfter(debt, out, j) = Minus(OwedAfter(debt, out, j - 1), Motion(out[j]))
  <2>1. Len(out) \in Nat
    BY <1>1
  <2> QED
    BY <2>1, DebtSteps, Zenon
<1>3. OwedAfter(debt, out, 0) = debt
  BY <1>1, DebtSteps
<1>4. /\ OwedAfter(debt, out, 1) = Minus(OwedAfter(debt, out, 0), Motion(out[1]))
      /\ OwedAfter(debt, out, 2) = Minus(OwedAfter(debt, out, 1), Motion(out[2]))
      /\ OwedAfter(debt, out, 3) = Minus(OwedAfter(debt, out, 2), Motion(out[3]))
  BY <1>1, <1>2
<1> QED
  BY <1>1, <1>3, <1>4 DEF out

-----------------------------------------------------------------------------
(* What a flush and a dispatch hand over.                                  *)

FrameNames == {"MouseMove", "MouseDragMove", "MouseScroll", "MouseClick", "MouseDragStart", "MouseDragEnd"}
Args == ClickArgs \cup {"", "vertical", "horizontal", "absolute"}
FrameType == [t : FrameNames, n : Int, arg : Args]
Motions == [t : Coalesceable, n : Int, arg : Args]

LEMMA FrameIs ==
  ASSUME NEW t, NEW n, NEW arg
  PROVE  Frame(t, n, arg).t = t /\ Frame(t, n, arg).n = n /\ Frame(t, n, arg).arg = arg
BY DEF Frame

LEMMA Tuples ==
  ASSUME NEW e, NEW f, NEW g
  PROVE  /\ <<>> \o <<>> = <<>> /\ <<e>> \o <<>> = <<e>> /\ <<>> \o <<e>> = <<e>>
         /\ <<e>> \o <<f>> = <<e, f>> /\ <<e, f>> \o <<g>> = <<e, f, g>>
         /\ Len(<<>>) = 0 /\ Len(<<e>>) = 1 /\ Len(<<e, f>>) = 2
<1>1. /\ <<>> \in Seq({e, f, g}) /\ <<e>> \in Seq({e, f, g}) /\ <<f>> \in Seq({e, f, g})
      /\ <<g>> \in Seq({e, f, g}) /\ <<e, f>> \in Seq({e, f, g}) /\ <<e, f, g>> \in Seq({e, f, g})
  OBVIOUS
<1>2. <<>> \o <<>> = <<>> /\ <<e>> \o <<>> = <<e>> /\ <<>> \o <<e>> = <<e>>
  BY <1>1, ConcatEmptySeq
<1>3. <<e>> \o <<f>> = <<e, f>>
  <2> DEFINE a == <<e>>
             b == <<f>>
             c == <<e, f>>
  <2>1. /\ Len(a) = 1 /\ a[1] = e /\ Len(b) = 1 /\ b[1] = f /\ Len(c) = 2 /\ c[1] = e /\ c[2] = f
        /\ a \in Seq({e, f, g}) /\ b \in Seq({e, f, g}) /\ c \in Seq({e, f, g})
    BY <1>1
  <2> HIDE DEF a, b, c
  <2>2. /\ a \o b \in Seq({e, f, g}) /\ Len(a \o b) = 2
        /\ \A i \in 1..2 : (a \o b)[i] = IF i <= 1 THEN a[i] ELSE b[i - 1]
    <3>1. /\ a \o b \in Seq({e, f, g}) /\ Len(a \o b) = Len(a) + Len(b)
          /\ \A i \in 1..Len(a) + Len(b) : (a \o b)[i] = IF i <= Len(a) THEN a[i] ELSE b[i - Len(a)]
      BY <2>1, ConcatProperties, Zenon
    <3> QED
      BY <2>1, <3>1
  <2>3. \A i \in 1..2 : (a \o b)[i] = c[i]
    BY <2>1, <2>2
  <2>4. a \o b = c
    BY <2>1, <2>2, <2>3, SeqEqual
  <2> QED
    BY <2>4 DEF a, b, c
<1>4. <<e, f>> \o <<g>> = <<e, f, g>>
  <2> DEFINE a == <<e, f>>
             b == <<g>>
             c == <<e, f, g>>
  <2>1. /\ Len(a) = 2 /\ a[1] = e /\ a[2] = f /\ Len(b) = 1 /\ b[1] = g
        /\ Len(c) = 3 /\ c[1] = e /\ c[2] = f /\ c[3] = g
        /\ a \in Seq({e, f, g}) /\ b \in Seq({e, f, g}) /\ c \in Seq({e, f, g})
    BY <1>1
  <2> HIDE DEF a, b, c
  <2>2. /\ a \o b \in Seq({e, f, g}) /\ Len(a \o b) = 3
        /\ \A i \in 1..3 : (a \o b)[i] = IF i <= 2 THEN a[i] ELSE b[i - 2]
    <3>1. /\ a \o b \in Seq({e, f, g}) /\ Len(a \o b) = Len(a) + Len(b)
          /\ \A i \in 1..Len(a) + Len(b) : (a \o b)[i] = IF i <= Len(a) THEN a[i] ELSE b[i - Len(a)]
      BY <2>1, ConcatProperties, Zenon
    <3> QED
      BY <2>1, <3>1
  <2>3. \A i \in 1..3 : (a \o b)[i] = c[i]
    BY <2>1, <2>2
  <2>4. a \o b = c
    BY <2>1, <2>2, <2>3, SeqEqual
  <2> QED
    BY <2>4 DEF a, b, c
<1> QED
  BY <1>2, <1>3, <1>4

LEMMA TuplesIn ==
  ASSUME NEW S, NEW e \in S, NEW f \in S
  PROVE  <<>> \in Seq(S) /\ <<e>> \in Seq(S) /\ <<e, f>> \in Seq(S)
OBVIOUS

\* Nothing, one frame, or the two of a scroll along both axes.
LEMMA FlushedIs ==
  ASSUME NEW b \in BatchType
  PROVE  \/ b.type = "none" /\ Flushed(b) = <<>>
         \/ b.type \in {"MouseMove", "MouseDragMove"} /\ Flushed(b) = <<Frame(b.type, b.n, "")>>
         \/ b.type = "MouseScroll" /\ b.n = 0 /\ b.h = 0 /\ Flushed(b) = <<>>
         \/ /\ b.type = "MouseScroll" /\ b.n # 0 /\ b.h = 0
            /\ Flushed(b) = <<Frame("MouseScroll", b.n, "vertical")>>
         \/ /\ b.type = "MouseScroll" /\ b.n = 0 /\ b.h # 0
            /\ Flushed(b) = <<Frame("MouseScroll", b.h, "horizontal")>>
         \/ /\ b.type = "MouseScroll" /\ b.n # 0 /\ b.h # 0
            /\ Flushed(b) = <<Frame("MouseScroll", b.n, "vertical"), Frame("MouseScroll", b.h, "horizontal")>>
<1> DEFINE v == Frame("MouseScroll", b.n, "vertical")
           w == Frame("MouseScroll", b.h, "horizontal")
<1>1. CASE b.type = "none"
  BY <1>1 DEF Flushed
<1>2. CASE b.type \in {"MouseMove", "MouseDragMove"}
  BY <1>2 DEF Flushed
<1>3. CASE b.type = "MouseScroll"
  <2>1. Flushed(b) = (IF b.n = 0 THEN <<>> ELSE <<v>>) \o (IF b.h = 0 THEN <<>> ELSE <<w>>)
    BY <1>3 DEF Flushed
  <2> HIDE DEF v, w
  <2>2. /\ <<>> \o <<>> = <<>> /\ <<v>> \o <<>> = <<v>> /\ <<>> \o <<w>> = <<w>>
        /\ <<v>> \o <<w>> = <<v, w>>
    BY Tuples
  <2>3. \/ b.n = 0 /\ b.h = 0 /\ Flushed(b) = <<>>
        \/ b.n # 0 /\ b.h = 0 /\ Flushed(b) = <<v>>
        \/ b.n = 0 /\ b.h # 0 /\ Flushed(b) = <<w>>
        \/ b.n # 0 /\ b.h # 0 /\ Flushed(b) = <<v, w>>
    BY <2>1, <2>2
  <2> QED
    BY <1>3, <2>3 DEF v, w
<1> QED
  BY <1>1, <1>2, <1>3 DEF BatchType, Coalesceable

\* A flush is of motions, and pays what its batch owes.
LEMMA FlushPays ==
  ASSUME NEW b \in BatchType, NEW d \in Debts, NEW f
  PROVE  LET out  == Flushed(b)
             debt == Plus(BatchMotion(b), d)
         IN  /\ out \in Seq(Motions) /\ Len(out) \in 0..2
             /\ b.n = 0 \/ b.h = 0 => Len(out) <= 1
             /\ OwedAfter(debt, out, Len(out)) = d
             /\ OwedAfter(debt, out \o <<f>>, Len(out) + 1) = Minus(d, Motion(f))
<1> DEFINE out  == Flushed(b)
           debt == Plus(BatchMotion(b), d)
<1>1. PICK x, y, z \in Int : d = Debt(x, y, z)
  BY DebtsAre
<1>0. b.n \in Int /\ b.h \in Int /\ x - 0 = x /\ y - 0 = y /\ z - 0 = z
  BY DEF BatchType
<1>2. CASE /\ Flushed(b) = <<>>
           /\ b.type = "none" \/ (b.type = "MouseScroll" /\ b.n = 0 /\ b.h = 0)
  <2>1. BatchMotion(b) = Debt(0, 0, 0)
    BY <1>2 DEF BatchMotion
  <2>2. debt = d
    BY <1>1, <2>1, Sums
  <2>3. Len(<<>>) = 0 /\ <<>> \in Seq(Motions) /\ <<>> \o <<f>> = <<f>>
    BY Tuples, TuplesIn
  <2> HIDE DEF debt
  <2>4. OwedAfter(debt, <<>>, 0) = d /\ OwedAfter(debt, <<f>>, 1) = Minus(d, Motion(f))
    BY <2>2, HandedNone, HandedOne
  <2> QED
    BY <1>2, <2>3, <2>4 DEF debt
<1>3. CASE b.type \in {"MouseMove", "MouseDragMove"} /\ Flushed(b) = <<Frame(b.type, b.n, "")>>
  <2> DEFINE g == Frame(b.type, b.n, "")
  <2>1. g \in Motions
    BY <1>0, <1>3 DEF Frame, Motions, Coalesceable, Args
  <2>2. Motion(g) = BatchMotion(b)
    BY <1>3, MotionIs DEF BatchMotion
  <2>3. \E m \in Int : BatchMotion(b) = Debt(m, 0, 0)
    <3>1. BatchMotion(b) = Debt(IF b.type = "MouseMove" THEN b.n ELSE 0, 0, 0)
      BY <1>3 DEF BatchMotion
    <3> QED
      BY <1>0, <3>1
  <2> HIDE DEF g
  <2>4. Minus(debt, Motion(g)) = d
    <3>1. PICK m \in Int : BatchMotion(b) = Debt(m, 0, 0)
      BY <2>3
    <3>2. debt = Debt(m + x, 0 + y, 0 + z)
      BY <1>1, <3>1, Sums
    <3>3. Minus(debt, Motion(g)) = Debt((m + x) - m, (0 + y) - 0, (0 + z) - 0)
      BY <2>2, <3>1, <3>2, Sums
    <3>4. (m + x) - m = x /\ (0 + y) - 0 = y /\ (0 + z) - 0 = z
      OBVIOUS
    <3> QED
      BY <1>1, <3>3, <3>4
  <2> HIDE DEF debt
  <2>5. out = <<g>>
    BY <1>3 DEF g
  <2>6. Len(<<g>>) = 1 /\ <<g>> \in Seq(Motions) /\ <<g>> \o <<f>> = <<g, f>>
    BY <2>1, Tuples, TuplesIn
  <2>7. /\ OwedAfter(debt, <<g>>, 1) = d
        /\ OwedAfter(debt, <<g, f>>, 2) = Minus(d, Motion(f))
    <3>1. OwedAfter(debt, <<g>>, 1) = Minus(debt, Motion(g))
      BY HandedOne, HandedTwo, HandedThree
    <3>2. OwedAfter(debt, <<g, f>>, 2) = Minus(Minus(debt, Motion(g)), Motion(f))
      BY HandedOne, HandedTwo, HandedThree
    <3> QED
      BY <2>4, <3>1, <3>2
  <2>8. /\ out \in Seq(Motions) /\ Len(out) = 1 /\ out \o <<f>> = <<g, f>>
        /\ OwedAfter(debt, out, 1) = d
        /\ OwedAfter(debt, out \o <<f>>, 2) = Minus(d, Motion(f))
    <3> HIDE DEF out
    <3> QED
      BY <2>5, <2>6, <2>7
  <2>9. /\ Len(out) \in 0..2 /\ (b.n = 0 \/ b.h = 0 => Len(out) <= 1)
        /\ OwedAfter(debt, out, Len(out)) = d
        /\ OwedAfter(debt, out \o <<f>>, Len(out) + 1) = Minus(d, Motion(f))
    <3> HIDE DEF out
    <3> QED
      BY <2>8
  <2> QED
    BY <2>8, <2>9 DEF debt
<1>4. CASE b.type = "MouseScroll" /\ (b.n = 0) # (b.h = 0)
  <2> DEFINE g == IF b.n # 0 THEN Frame("MouseScroll", b.n, "vertical")
                  ELSE Frame("MouseScroll", b.h, "horizontal")
  <2>1. g \in Motions
    BY <1>0 DEF Frame, Motions, Coalesceable, Args
  <2>2. Motion(g) = BatchMotion(b) /\ \E v, w \in Int : BatchMotion(b) = Debt(0, v, w)
    BY <1>0, <1>4, MotionIs DEF BatchMotion
  <2>3. out = <<g>>
    BY <1>4, FlushedIs
  <2> HIDE DEF g
  <2>4. Minus(debt, Motion(g)) = d
    <3>1. PICK v, w \in Int : BatchMotion(b) = Debt(0, v, w)
      BY <2>2
    <3>2. debt = Debt(0 + x, v + y, w + z)
      BY <1>1, <3>1, Sums
    <3>3. Minus(debt, Motion(g)) = Debt((0 + x) - 0, (v + y) - v, (w + z) - w)
      BY <2>2, <3>1, <3>2, Sums
    <3>4. (0 + x) - 0 = x /\ (v + y) - v = y /\ (w + z) - w = z
      OBVIOUS
    <3> QED
      BY <1>1, <3>3, <3>4
  <2> HIDE DEF debt
  <2>6. Len(<<g>>) = 1 /\ <<g>> \in Seq(Motions) /\ <<g>> \o <<f>> = <<g, f>>
    BY <2>1, Tuples, TuplesIn
  <2>7. /\ OwedAfter(debt, <<g>>, 1) = d
        /\ OwedAfter(debt, <<g, f>>, 2) = Minus(d, Motion(f))
    <3>1. OwedAfter(debt, <<g>>, 1) = Minus(debt, Motion(g))
      BY HandedOne, HandedTwo, HandedThree
    <3>2. OwedAfter(debt, <<g, f>>, 2) = Minus(Minus(debt, Motion(g)), Motion(f))
      BY HandedOne, HandedTwo, HandedThree
    <3> QED
      BY <2>4, <3>1, <3>2
  <2>8. /\ out \in Seq(Motions) /\ Len(out) = 1 /\ out \o <<f>> = <<g, f>>
        /\ OwedAfter(debt, out, 1) = d
        /\ OwedAfter(debt, out \o <<f>>, 2) = Minus(d, Motion(f))
    <3> HIDE DEF out
    <3> QED
      BY <2>3, <2>6, <2>7
  <2>9. /\ Len(out) \in 0..2 /\ (b.n = 0 \/ b.h = 0 => Len(out) <= 1)
        /\ OwedAfter(debt, out, Len(out)) = d
        /\ OwedAfter(debt, out \o <<f>>, Len(out) + 1) = Minus(d, Motion(f))
    <3> HIDE DEF out
    <3> QED
      BY <1>4, <2>8
  <2> QED
    BY <2>8, <2>9 DEF debt
<1>5. CASE /\ b.type = "MouseScroll" /\ b.n # 0 /\ b.h # 0
           /\ Flushed(b) = <<Frame("MouseScroll", b.n, "vertical"), Frame("MouseScroll", b.h, "horizontal")>>
  <2> DEFINE g == Frame("MouseScroll", b.n, "vertical")
             h == Frame("MouseScroll", b.h, "horizontal")
  <2>1. g \in Motions /\ h \in Motions
    BY <1>0 DEF Frame, Motions, Coalesceable, Args
  <2>2. /\ Motion(g) = Debt(0, b.n, 0) /\ Motion(h) = Debt(0, 0, b.h)
        /\ BatchMotion(b) = Debt(0, b.n, b.h)
    BY <1>5, MotionIs DEF BatchMotion
  <2>3. out = <<g, h>>
    BY <1>5
  <2> HIDE DEF g, h
  <2>4. Minus(Minus(debt, Motion(g)), Motion(h)) = d
    <3>1. PICK v, w \in Int : /\ Motion(g) = Debt(0, v, 0) /\ Motion(h) = Debt(0, 0, w)
                             /\ BatchMotion(b) = Debt(0, v, w)
      BY <1>0, <2>2
    <3>2. debt = Debt(0 + x, v + y, w + z)
      BY <1>1, <3>1, Sums
    <3>3. Minus(debt, Motion(g)) = Debt((0 + x) - 0, (v + y) - v, (w + z) - 0)
      BY <3>1, <3>2, Sums
    <3>4. Minus(Minus(debt, Motion(g)), Motion(h)) =
            Debt(((0 + x) - 0) - 0, ((v + y) - v) - 0, ((w + z) - 0) - w)
      BY <3>1, <3>3, Sums
    <3>5. ((0 + x) - 0) - 0 = x /\ ((v + y) - v) - 0 = y /\ ((w + z) - 0) - w = z
      OBVIOUS
    <3> QED
      BY <1>1, <3>4, <3>5
  <2> HIDE DEF debt
  <2>6. Len(<<g, h>>) = 2 /\ <<g, h>> \in Seq(Motions) /\ <<g, h>> \o <<f>> = <<g, h, f>>
    BY <2>1, Tuples, TuplesIn
  <2>7. OwedAfter(debt, <<g, h>>, 2) = d /\ OwedAfter(debt, <<g, h, f>>, 3) = Minus(d, Motion(f))
    <3>1. OwedAfter(debt, <<g, h>>, 2) = Minus(Minus(debt, Motion(g)), Motion(h))
      BY HandedOne, HandedTwo, HandedThree
    <3>2. OwedAfter(debt, <<g, h, f>>, 3) = Minus(Minus(Minus(debt, Motion(g)), Motion(h)), Motion(f))
      BY HandedOne, HandedTwo, HandedThree
    <3> QED
      BY <2>4, <3>1, <3>2
  <2>8. /\ out \in Seq(Motions) /\ Len(out) = 2 /\ out \o <<f>> = <<g, h, f>>
        /\ OwedAfter(debt, out, 2) = d
        /\ OwedAfter(debt, out \o <<f>>, 3) = Minus(d, Motion(f))
    <3> HIDE DEF out
    <3> QED
      BY <2>3, <2>6, <2>7
  <2>9. /\ Len(out) \in 0..2 /\ (b.n = 0 \/ b.h = 0 => Len(out) <= 1)
        /\ OwedAfter(debt, out, Len(out)) = d
        /\ OwedAfter(debt, out \o <<f>>, Len(out) + 1) = Minus(d, Motion(f))
    <3> HIDE DEF out
    <3> QED
      BY <1>5, <2>8
  <2> QED
    BY <2>8, <2>9 DEF debt
<1> QED
  BY <1>2, <1>3, <1>4, <1>5, FlushedIs

\* The frames that are dispatched: a scroll has an axis.
Dispatched == {f \in FrameType : f.t = "MouseScroll" => f.arg \in {"vertical", "horizontal"}}

Batch(t, n, h) == [type |-> t, n |-> n, h |-> h]

LEMMA BatchFields ==
  ASSUME NEW t, NEW n, NEW h, NEW x
  PROVE  /\ Batch(t, n, h).type = t /\ Batch(t, n, h).n = n /\ Batch(t, n, h).h = h
         /\ [Batch(t, n, h) EXCEPT !.type = x] = Batch(x, n, h)
         /\ [Batch(t, n, h) EXCEPT !.n = x] = Batch(t, x, h)
         /\ [Batch(t, n, h) EXCEPT !.h = x] = Batch(t, n, x)
BY DEF Batch

LEMMA BatchesAre ==
  ASSUME NEW b \in BatchType
  PROVE  b = Batch(b.type, b.n, b.h)
BY DEF BatchType, Batch

LEMMA BatchIn ==
  ASSUME NEW t \in Coalesceable \cup {"none"}, NEW n \in Int, NEW h \in Int
  PROVE  Batch(t, n, h) \in BatchType
BY DEF BatchType, Batch

LEMMA NoBatchIs == NoBatch = Batch("none", 0, 0) /\ NoBatch \in BatchType /\ BatchMotion(NoBatch) = Nothing
<1>1. NoBatch = Batch("none", 0, 0)
  BY DEF NoBatch, Batch
<1>2. NoBatch.type = "none"
  BY DEF NoBatch
<1>3. BatchMotion(NoBatch) = Debt(0, 0, 0)
  BY <1>2 DEF BatchMotion
<1>4. Batch("none", 0, 0) \in BatchType
  BY BatchIn
<1> QED
  BY <1>1, <1>3, <1>4, DebtParts

LEMMA MotionOfFrame ==
  ASSUME NEW f \in FrameType
  PROVE  /\ Motion(f) = Debt(IF f.t = "MouseMove" THEN f.n ELSE 0,
                             IF f.t = "MouseScroll" /\ f.arg = "vertical" THEN f.n ELSE 0,
                             IF f.t = "MouseScroll" /\ f.arg = "horizontal" THEN f.n ELSE 0)
         /\ Motion(f) \in Debts
<1>1. f = Frame(f.t, f.n, f.arg) /\ f.n \in Int
  BY DEF FrameType, Frame
<1>2. Motion(f) = Debt(IF f.t = "MouseMove" THEN f.n ELSE 0,
                       IF f.t = "MouseScroll" /\ f.arg = "vertical" THEN f.n ELSE 0,
                       IF f.t = "MouseScroll" /\ f.arg = "horizontal" THEN f.n ELSE 0)
  BY <1>1, MotionIs
<1>3. ASSUME NEW a \in Int, NEW b \in Int, NEW c \in Int PROVE Debt(a, b, c) \in Debts
  BY DEF Debt, Debts
<1> QED
  BY <1>1, <1>2, <1>3

\* A batch owes what is added to it.
LEMMA AccumulatedOwes ==
  ASSUME NEW b \in BatchType, NEW f \in Dispatched, f.t \in Coalesceable
  PROVE  LET new == Accumulated(b, f)
         IN  /\ new \in BatchType
             /\ b.type = f.t => BatchMotion(new) = Plus(BatchMotion(b), Motion(f))
             /\ b.type # f.t => BatchMotion(new) = Motion(f) /\ (new.n = 0 \/ new.h = 0)
<1> DEFINE old == IF b.type = f.t THEN b ELSE [NoBatch EXCEPT !.type = f.t]
           new == Accumulated(b, f)
<1>0. f \in FrameType /\ f.n \in Int /\ b.n \in Int /\ b.h \in Int
  BY DEF Dispatched, FrameType, BatchType
<1>1. PICK n, h \in Int : /\ old = Batch(f.t, n, h)
                          /\ b.type = f.t => n = b.n /\ h = b.h
                          /\ b.type # f.t => n = 0 /\ h = 0
  <2>1. CASE b.type = f.t
    BY <1>0, <2>1, BatchesAre
  <2>2. CASE b.type # f.t
    BY <2>2, NoBatchIs, BatchFields
  <2> QED
    BY <2>1, <2>2
<1> DEFINE shown == Debt(IF f.t = "MouseMove" THEN n ELSE 0,
                         IF f.t = "MouseScroll" THEN n ELSE 0,
                         IF f.t = "MouseScroll" THEN h ELSE 0)
<1>2. /\ b.type = f.t => BatchMotion(b) = shown
      /\ b.type # f.t => shown = Debt(0, 0, 0)
  BY <1>1 DEF BatchMotion
<1>3. new \in BatchType /\ BatchMotion(new) = Plus(shown, Motion(f)) /\ (b.type # f.t => new.n = 0 \/ new.h = 0)
  <2>1. CASE f.t = "MouseDragMove"
    <3>1. new = Batch(f.t, f.n, h)
      BY <1>1, <2>1, BatchFields DEF Accumulated
    <3>2. BatchMotion(new) = Debt(0, 0, 0) /\ shown = Debt(0, 0, 0) /\ Motion(f) = Debt(0, 0, 0)
      BY <1>0, <2>1, <3>1, BatchFields, MotionOfFrame DEF BatchMotion
    <3>3. Plus(Debt(0, 0, 0), Debt(0, 0, 0)) = Debt(0 + 0, 0 + 0, 0 + 0)
      BY Sums
    <3>5. 0 + 0 = 0
      OBVIOUS
    <3>4. new \in BatchType /\ (b.type # f.t => new.h = 0)
      <4>1. new \in BatchType
        BY <1>0, <3>1, BatchIn
      <4>2. new.h = h
        BY <3>1, BatchFields
      <4> QED
        BY <1>1, <4>1, <4>2
    <3> QED
      BY <1>0, <3>2, <3>3, <3>4, <3>5
  <2>2. CASE f.t = "MouseMove"
    <3>1. new = Batch(f.t, n + f.n, h)
      BY <1>1, <2>2, BatchFields DEF Accumulated
    <3>2. BatchMotion(new) = Debt(n + f.n, 0, 0) /\ shown = Debt(n, 0, 0) /\ Motion(f) = Debt(f.n, 0, 0)
      BY <1>0, <2>2, <3>1, BatchFields, MotionOfFrame DEF BatchMotion
    <3>3. \A m \in Int : Plus(Debt(n, 0, 0), Debt(m, 0, 0)) = Debt(n + m, 0 + 0, 0 + 0)
      BY Sums
    <3>5. 0 + 0 = 0
      OBVIOUS
    <3>4. new \in BatchType /\ (b.type # f.t => new.h = 0)
      <4>1. new \in BatchType
        BY <1>0, <3>1, BatchIn
      <4>2. new.h = h
        BY <3>1, BatchFields
      <4> QED
        BY <1>1, <4>1, <4>2
    <3> QED
      BY <1>0, <3>2, <3>3, <3>4, <3>5
  <2>3. CASE f.t = "MouseScroll" /\ f.arg = "vertical"
    <3>1. new = Batch(f.t, n + f.n, h)
      BY <1>1, <2>3, BatchFields DEF Accumulated
    <3>2. BatchMotion(new) = Debt(0, n + f.n, h) /\ shown = Debt(0, n, h) /\ Motion(f) = Debt(0, f.n, 0)
      BY <1>0, <2>3, <3>1, BatchFields, MotionOfFrame DEF BatchMotion
    <3>3. \A m \in Int : Plus(Debt(0, n, h), Debt(0, m, 0)) = Debt(0 + 0, n + m, h + 0)
      BY Sums
    <3>5. 0 + 0 = 0 /\ h + 0 = h
      OBVIOUS
    <3>4. new \in BatchType /\ (b.type # f.t => new.h = 0)
      <4>1. new \in BatchType
        BY <1>0, <3>1, BatchIn
      <4>2. new.h = h
        BY <3>1, BatchFields
      <4> QED
        BY <1>1, <4>1, <4>2
    <3> QED
      BY <1>0, <3>2, <3>3, <3>4, <3>5
  <2>4. CASE f.t = "MouseScroll" /\ f.arg = "horizontal"
    <3>1. new = Batch(f.t, n, h + f.n)
      BY <1>1, <2>4, BatchFields DEF Accumulated
    <3>2. BatchMotion(new) = Debt(0, n, h + f.n) /\ shown = Debt(0, n, h) /\ Motion(f) = Debt(0, 0, f.n)
      BY <1>0, <2>4, <3>1, BatchFields, MotionOfFrame DEF BatchMotion
    <3>3. \A m \in Int : Plus(Debt(0, n, h), Debt(0, 0, m)) = Debt(0 + 0, n + 0, h + m)
      BY Sums
    <3>5. 0 + 0 = 0 /\ n + 0 = n
      OBVIOUS
    <3>4. new \in BatchType /\ (b.type # f.t => new.n = 0)
      <4>1. new \in BatchType
        BY <1>0, <3>1, BatchIn
      <4>2. new.n = n
        BY <3>1, BatchFields
      <4> QED
        BY <1>1, <4>1, <4>2
    <3> QED
      BY <1>0, <3>2, <3>3, <3>4, <3>5
  <2> QED
    BY <2>1, <2>2, <2>3, <2>4 DEF Dispatched, Coalesceable
<1>4. Plus(Debt(0, 0, 0), Motion(f)) = Motion(f)
  <2>1. PICK x, y, z \in Int : Motion(f) = Debt(x, y, z)
    BY <1>0, MotionOfFrame, DebtsAre
  <2>2. Plus(Debt(0, 0, 0), Debt(x, y, z)) = Debt(0 + x, 0 + y, 0 + z) /\ 0 + x = x /\ 0 + y = y /\ 0 + z = z
    BY Sums
  <2> QED
    BY <2>1, <2>2
<1> HIDE DEF shown, new
<1> QED
  BY <1>2, <1>3, <1>4 DEF new

-----------------------------------------------------------------------------
(* The batch, what it owes, and the wire.                                  *)

\* Frames on the wire that are in their place.
Placed == [t : FrameNames, arg : Args, inPlace : {TRUE}]

\* Nothing is owed but what is in the batch, and there is room for it on the wire.
CoalescerInv ==
  /\ batch \in BatchType /\ {batch.n, batch.h} \subseteq Amounts
  /\ owed = BatchMotion(batch)
  /\ wire \in Seq(Placed)
  /\ Len(wire) + Len(Flushed(batch)) <= MaxWire + 2

\* The wire keeps what it has, and takes the frames of out.
Takes(out) ==
  /\ Len(wire') = Len(wire) + Len(out)
  /\ \A i \in 1..Len(wire) : wire'[i] = wire[i]
  /\ \A i \in 1..Len(out) : wire'[Len(wire) + i].t = out[i].t

LEMMA OnWirePlaced ==
  ASSUME NEW f \in FrameType, NEW debt, f.t \in Coalesceable \/ debt = Nothing
  PROVE  OnWire(f, debt) \in Placed /\ OnWire(f, debt).t = f.t
<1> DEFINE place == f.t \in Coalesceable \/ debt = Nothing
<1>1. place = TRUE
  OBVIOUS
<1>2. OnWire(f, debt) = [t |-> f.t, arg |-> f.arg, inPlace |-> place]
  BY DEF OnWire
<1> HIDE DEF place
<1> QED
  BY <1>1, <1>2 DEF Placed, FrameType

LEMMA HandOverPlaces ==
  ASSUME wire \in Seq(Placed), NEW out \in Seq(FrameType), NEW debt, NEW open \in BOOLEAN,
         \A i \in 1..Len(out) : out[i].t \in Coalesceable \/ OwedAfter(debt, out, i) = Nothing,
         HandOver(out, debt, open)
  PROVE  /\ owed' = OwedAfter(debt, out, Len(out))
         /\ wire' \in Seq(Placed)
         /\ IF open THEN Takes(out) ELSE wire' = wire
<1> DEFINE more == [i \in 1..Len(out) |-> OnWire(out[i], OwedAfter(debt, out, i))]
<1>1. Len(out) \in Nat /\ Len(wire) \in Nat
  OBVIOUS
<1>2. \A i \in 1..Len(out) : out[i] \in FrameType
  BY ElementOfSeq
<1>3. \A i \in 1..Len(out) : more[i] \in Placed /\ more[i].t = out[i].t
  BY <1>2, OnWirePlaced
<1>4. more \in Seq(Placed) /\ Len(more) = Len(out)
  BY <1>1, <1>3
<1>5. owed' = OwedAfter(debt, out, Len(out)) /\ wire' = IF open THEN wire \o more ELSE wire
  BY DEF HandOver
<1> HIDE DEF more
<1>6. ASSUME open PROVE wire' \in Seq(Placed) /\ Takes(out)
  <2>1. /\ wire' \in Seq(Placed) /\ Len(wire') = Len(wire) + Len(more)
        /\ \A i \in 1..Len(wire) + Len(more) : wire'[i] = IF i <= Len(wire) THEN wire[i] ELSE more[i - Len(wire)]
    BY <1>4, <1>5, <1>6, ConcatProperties
  <2>2. \A i \in 1..Len(wire) : wire'[i] = wire[i]
    BY <1>1, <1>4, <2>1
  <2>3. ASSUME NEW i \in 1..Len(out) PROVE wire'[Len(wire) + i].t = out[i].t
    <3>1. Len(wire) + i \in 1..Len(wire) + Len(more) /\ ~(Len(wire) + i <= Len(wire)) /\ (Len(wire) + i) - Len(wire) = i
      BY <1>1, <1>4
    <3>2. wire'[Len(wire) + i] = more[i]
      BY <2>1, <3>1
    <3> QED
      BY <1>3, <3>2
  <2> QED
    BY <1>4, <2>1, <2>2, <2>3 DEF Takes
<1> QED
  BY <1>5, <1>6

\* What a dispatch of f leaves on the wire: motions, and then f, unless f is one of them.
Added(f) ==
  /\ Len(wire') \in Nat /\ Len(wire') >= Len(wire)
  /\ \A i \in 1..Len(wire) : wire'[i] = wire[i]
  /\ \A i \in Len(wire) + 1..Len(wire') :
       wire'[i].t \in Coalesceable \/ (i = Len(wire') /\ wire'[i].t = f.t)
  /\ f.t \notin Coalesceable => Len(wire') > Len(wire) /\ wire'[Len(wire')].t = f.t

LEMMA MotionsAre ==
  ASSUME NEW out \in Seq(Motions)
  PROVE  /\ Len(out) \in Nat /\ \A i \in 1..Len(out) : out[i].t \in Coalesceable
         /\ out \in Seq(FrameType)
<1>1. Len(out) \in Nat
  BY LenProperties
<1>2. \A i \in 1..Len(out) : out[i] \in Motions
  BY ElementOfSeq
<1>3. \A f \in Motions : f.t \in Coalesceable
  BY DEF Motions
<1>4. Motions \subseteq FrameType
  BY DEF Motions, FrameType, Coalesceable, FrameNames
<1>5. out \in Seq(FrameType)
  BY <1>4, SeqMonotonic
<1> QED
  BY <1>1, <1>2, <1>3, <1>5

LEMMA TakesMotions ==
  ASSUME NEW out \in Seq(Motions), Takes(out), Len(wire) \in Nat, NEW f, f.t \in Coalesceable
  PROVE  Added(f)
<1>1. Len(out) \in Nat /\ \A i \in 1..Len(out) : out[i].t \in Coalesceable
  BY MotionsAre
<1>2. ASSUME NEW i \in Len(wire) + 1..Len(wire') PROVE wire'[i].t \in Coalesceable
  <2>1. i - Len(wire) \in 1..Len(out) /\ Len(wire) + (i - Len(wire)) = i
    BY <1>1 DEF Takes
  <2> QED
    BY <1>1, <2>1 DEF Takes
<1> QED
  BY <1>1, <1>2 DEF Takes, Added

LEMMA TakesLast ==
  ASSUME NEW out \in Seq(Motions), NEW f \in FrameType, Takes(out \o <<f>>), Len(wire) \in Nat
  PROVE  Added(f)
<1> DEFINE all == out \o <<f>>
<1>1. Len(out) \in Nat /\ \A i \in 1..Len(out) : out[i].t \in Coalesceable
  BY MotionsAre
<1>2. out \in Seq(FrameType) /\ <<f>> \in Seq(FrameType)
  BY MotionsAre
<1>3. /\ Len(all) = Len(out) + Len(<<f>>)
      /\ \A i \in 1..Len(out) + Len(<<f>>) : all[i] = IF i <= Len(out) THEN out[i] ELSE <<f>>[i - Len(out)]
  BY <1>2, ConcatProperties
<1>4. Len(<<f>>) = 1 /\ <<f>>[1] = f
  OBVIOUS
<1>5. Len(all) = Len(out) + 1 /\ \A i \in 1..Len(out) : all[i] = out[i]
  BY <1>1, <1>3, <1>4
<1>6. all[Len(out) + 1] = f
  <2>1. Len(out) + 1 \in 1..Len(out) + 1 /\ ~(Len(out) + 1 <= Len(out)) /\ (Len(out) + 1) - Len(out) = 1
    BY <1>1
  <2> QED
    BY <1>3, <1>4, <2>1
<1> HIDE DEF all
<1>7. Takes(all)
  BY DEF all
<1>8. Len(wire') = Len(wire) + Len(out) + 1 /\ wire'[Len(wire')].t = f.t
  <2>1. Len(out) + 1 \in 1..Len(all) /\ Len(wire') = Len(wire) + (Len(out) + 1)
    BY <1>1, <1>5, <1>7 DEF Takes
  <2> QED
    BY <1>1, <1>6, <1>7, <2>1 DEF Takes
<1>9. ASSUME NEW i \in Len(wire) + 1..Len(wire'), i # Len(wire') PROVE wire'[i].t \in Coalesceable
  <2>1. i - Len(wire) \in 1..Len(out) /\ i - Len(wire) \in 1..Len(all) /\ Len(wire) + (i - Len(wire)) = i
    BY <1>1, <1>5, <1>8, <1>9
  <2> QED
    BY <1>1, <1>5, <1>7, <2>1 DEF Takes
<1> QED
  BY <1>1, <1>7, <1>8, <1>9 DEF Takes, Added

LEMMA NothingAdded ==
  /\ Nothing \in Debts /\ Minus(Nothing, Nothing) = Nothing
  /\ \A b \in BatchType : Plus(BatchMotion(b), Nothing) = BatchMotion(b)
<1>1. Nothing \in Debts
  BY DEF Nothing, Debts
<1>2. Minus(Debt(0, 0, 0), Debt(0, 0, 0)) = Debt(0 - 0, 0 - 0, 0 - 0)
  BY Sums
<1>3. 0 - 0 = 0
  OBVIOUS
<1>4. ASSUME NEW b \in BatchType PROVE Plus(BatchMotion(b), Nothing) = BatchMotion(b)
  <2>1. b.n \in Int /\ b.h \in Int
    BY DEF BatchType
  <2>2. PICK x, y, z \in Int : BatchMotion(b) = Debt(x, y, z)
    BY <2>1 DEF BatchMotion
  <2>3. Plus(Debt(x, y, z), Debt(0, 0, 0)) = Debt(x + 0, y + 0, z + 0)
    BY Sums
  <2>4. x + 0 = x /\ y + 0 = y /\ z + 0 = z
    OBVIOUS
  <2> QED
    BY <2>2, <2>3, <2>4, DebtParts
<1> QED
  BY <1>1, <1>2, <1>3, <1>4, DebtParts

LEMMA FlushLength ==
  ASSUME NEW b \in BatchType
  PROVE  /\ Flushed(b) \in Seq(Motions) /\ Flushed(b) \in Seq(FrameType) /\ Len(Flushed(b)) \in 0..2
         /\ b.n = 0 \/ b.h = 0 => Len(Flushed(b)) <= 1
BY FlushPays, NothingAdded, MotionsAre

LEMMA EmptyFlush == Len(Flushed(NoBatch)) = 0
<1>1. Flushed(NoBatch) = <<>>
  BY DEF Flushed, NoBatch
<1> QED
  BY <1>1

\* There is room for what a dispatch and a flush add.
LEMMA Room ==
  ASSUME NEW m \in Nat, NEW w \in Nat, w < m, NEW n \in 0..2, NEW k \in 0..2, n + k <= 3
  PROVE  (w + n) + k <= m + 2
OBVIOUS

\* What is dispatched keeps the books.
LEMMA DispatchKeeps ==
  ASSUME CoalescerInv, NEW f \in Dispatched, Len(wire) < MaxWire, Dispatch(f)
  PROVE  CoalescerInv' /\ Added(f)
<1> DEFINE b == IF owner = conn THEN batch ELSE NoBatch
           debt == Plus(BatchMotion(b), Motion(f))
           out == Sent(b, f).out
<1>0. /\ f \in FrameType /\ Len(wire) \in Nat /\ wire \in Seq(Placed) /\ MaxWire \in Nat
      /\ batch \in BatchType
  BY LenProperties, BoundsAssumption DEF CoalescerInv, Dispatched
<1>1. b \in BatchType /\ (IF owner = conn THEN owed ELSE Nothing) = BatchMotion(b)
  BY <1>0, NoBatchIs DEF CoalescerInv
<1>2. /\ batch' = Sent(b, f).batch /\ {batch'.n, batch'.h} \subseteq Amounts
      /\ HandOver(out, debt, TRUE)
  BY <1>1 DEF Dispatch
<1>3. Motion(f) \in Debts
  BY <1>0, MotionOfFrame
<1> HIDE DEF b, debt
<1>4. CASE f.t \in Coalesceable /\ b.type = f.t
  <2>1. batch' = Accumulated(b, f) /\ out = <<>>
    BY <1>2, <1>4 DEF Sent
  <2>2. batch' \in BatchType /\ BatchMotion(batch') = debt
    BY <1>1, <1>4, <2>1, AccumulatedOwes DEF debt
  <2>3. <<>> \in Seq(FrameType) /\ <<>> \in Seq(Motions) /\ Len(<<>>) = 0
    OBVIOUS
  <2>4. HandOver(<<>>, debt, TRUE)
    BY <1>2, <2>1
  <2>5. owed' = OwedAfter(debt, <<>>, Len(<<>>)) /\ wire' \in Seq(Placed) /\ Takes(<<>>)
    <3> DEFINE none == <<>>
    <3>1. none \in Seq(FrameType) /\ \A i \in 1..Len(none) : FALSE
      BY <2>3
    <3>2. HandOver(none, debt, TRUE)
      BY <2>4
    <3> HIDE DEF none
    <3>3. \A i \in 1..Len(none) : none[i].t \in Coalesceable \/ OwedAfter(debt, none, i) = Nothing
      BY <3>1
    <3>4. owed' = OwedAfter(debt, none, Len(none)) /\ wire' \in Seq(Placed) /\ Takes(none)
      BY <1>0, <3>1, <3>2, <3>3, HandOverPlaces
    <3> QED
      BY <3>4 DEF none
  <2>6. owed' = BatchMotion(batch')
    BY <2>2, <2>3, <2>5, HandedNone
  <2>7. Len(wire') + Len(Flushed(batch')) <= MaxWire + 2
    <3>1. Len(wire') = Len(wire) + 0
      BY <2>3, <2>5 DEF Takes
    <3>2. Len(Flushed(batch')) \in 0..2
      BY <2>2, FlushLength
    <3>3. (Len(wire) + 0) + Len(Flushed(batch')) <= MaxWire + 2
      <4>1. \A k \in 0..2 : 0 + k <= 3 /\ 0 \in 0..2
        OBVIOUS
      <4> QED
        BY <1>0, <3>2, <4>1, Room
    <3> QED
      BY <3>1, <3>3
  <2> QED
    BY <1>0, <1>2, <1>4, <2>2, <2>3, <2>5, <2>6, <2>7, TakesMotions DEF CoalescerInv
<1>5. CASE f.t \in Coalesceable /\ b.type # f.t
  <2>1. batch' = Accumulated(b, f) /\ out = Flushed(b)
    BY <1>2, <1>5 DEF Sent
  <2>2. batch' \in BatchType /\ BatchMotion(batch') = Motion(f) /\ (batch'.n = 0 \/ batch'.h = 0)
    BY <1>1, <1>5, <2>1, AccumulatedOwes
  <2>3. /\ out \in Seq(Motions) /\ out \in Seq(FrameType) /\ Len(out) \in 0..2
        /\ OwedAfter(debt, out, Len(out)) = Motion(f)
    BY <1>1, <1>3, <2>1, FlushPays, MotionsAre DEF debt
  <2> HIDE DEF out
  <2>4. \A i \in 1..Len(out) : out[i].t \in Coalesceable
    BY <2>3, MotionsAre
  <2>5. owed' = OwedAfter(debt, out, Len(out)) /\ wire' \in Seq(Placed) /\ Takes(out)
    BY <1>0, <1>2, <2>3, <2>4, HandOverPlaces
  <2>6. Len(wire') + Len(Flushed(batch')) <= MaxWire + 2
    <3>1. Len(wire') = Len(wire) + Len(out)
      BY <2>5 DEF Takes
    <3>2. Len(Flushed(batch')) \in 0..2 /\ Len(Flushed(batch')) <= 1
      BY <2>2, FlushLength
    <3>3. (Len(wire) + Len(out)) + Len(Flushed(batch')) <= MaxWire + 2
      <4>1. \A n, k \in 0..2 : k <= 1 => n + k <= 3
        OBVIOUS
      <4> QED
        BY <1>0, <2>3, <3>2, <4>1, Room
    <3> QED
      BY <3>1, <3>3
  <2> QED
    BY <1>0, <1>2, <1>5, <2>2, <2>3, <2>5, <2>6, TakesMotions DEF CoalescerInv
<1>6. CASE f.t \notin Coalesceable
  <2>1. batch' = NoBatch /\ out = Flushed(b) \o <<f>>
    BY <1>2, <1>6 DEF Sent
  <2>2. Motion(f) = Nothing
    BY <1>0, <1>6, MotionOfFrame, DebtParts DEF Coalesceable
  <2>3. /\ Flushed(b) \in Seq(Motions) /\ Flushed(b) \in Seq(FrameType) /\ Len(Flushed(b)) \in 0..2
        /\ \A i \in 1..Len(Flushed(b)) : Flushed(b)[i].t \in Coalesceable
    BY <1>1, FlushLength, MotionsAre
  <2>4. OwedAfter(debt, out, Len(Flushed(b)) + 1) = Nothing
    BY <1>1, <1>3, <2>1, <2>2, FlushPays, NothingAdded DEF debt
  <2> DEFINE a == Flushed(b)
  <2> HIDE DEF a
  <2>5. /\ out \in Seq(FrameType) /\ Len(out) = Len(a) + 1 /\ out[Len(a) + 1] = f
        /\ \A i \in 1..Len(a) : out[i] = a[i]
    <3>1. <<f>> \in Seq(FrameType) /\ Len(<<f>>) = 1 /\ <<f>>[1] = f
      BY <1>0
    <3>2. out = a \o <<f>> /\ a \in Seq(FrameType) /\ Len(a) \in Nat
      BY <2>1, <2>3 DEF a
    <3> HIDE DEF out
    <3>3. /\ out \in Seq(FrameType) /\ Len(out) = Len(a) + Len(<<f>>)
          /\ \A i \in 1..Len(a) + Len(<<f>>) : out[i] = IF i <= Len(a) THEN a[i] ELSE <<f>>[i - Len(a)]
      BY <3>1, <3>2, ConcatProperties
    <3>4. Len(a) + 1 \in 1..Len(a) + 1 /\ ~(Len(a) + 1 <= Len(a)) /\ (Len(a) + 1) - Len(a) = 1
      BY <3>2
    <3>5. out[Len(a) + 1] = f
      BY <3>1, <3>3, <3>4
    <3> QED
      BY <3>1, <3>2, <3>3, <3>5
  <2> HIDE DEF out
  <2>6. Len(a) \in 0..2 /\ a \in Seq(Motions) /\ \A i \in 1..Len(a) : a[i].t \in Coalesceable
    BY <2>3 DEF a
  <2>7. OwedAfter(debt, out, Len(a) + 1) = Nothing
    BY <2>4 DEF a
  <2>8. ASSUME NEW i \in 1..Len(out) PROVE out[i].t \in Coalesceable \/ OwedAfter(debt, out, i) = Nothing
    <3>1. CASE i = Len(a) + 1
      BY <2>7, <3>1
    <3>2. CASE i # Len(a) + 1
      <4>1. i \in 1..Len(a)
        BY <2>5, <2>6, <3>2
      <4> QED
        BY <2>5, <2>6, <4>1
    <3> QED
      BY <3>1, <3>2
  <2>9. owed' = OwedAfter(debt, out, Len(out)) /\ wire' \in Seq(Placed) /\ Takes(out)
    BY <1>0, <1>2, <2>5, <2>8, HandOverPlaces
  <2>10. owed' = BatchMotion(batch') /\ batch' \in BatchType
    BY <2>1, <2>5, <2>7, <2>9, NoBatchIs
  <2>11. Len(wire') + Len(Flushed(batch')) <= MaxWire + 2
    <3>1. Len(wire') = Len(wire) + (Len(a) + 1)
      BY <2>5, <2>9 DEF Takes
    <3>2. Len(Flushed(batch')) = 0
      BY <2>1, EmptyFlush
    <3> QED
      BY <1>0, <2>6, <3>1, <3>2
  <2>12. Added(f)
    <3>1. out = a \o <<f>>
      BY <2>1 DEF a
    <3> QED
      BY <1>0, <2>6, <2>9, <3>1, TakesLast
  <2> QED
    BY <1>2, <2>9, <2>10, <2>11, <2>12 DEF CoalescerInv
<1> QED
  BY <1>4, <1>5, <1>6

LEMMA FlushKeeps ==
  ASSUME CoalescerInv, NEW open \in BOOLEAN, batch' = NoBatch, HandOver(Flushed(batch), owed, open)
  PROVE  /\ CoalescerInv'
         /\ wire' = wire \/ Added(Frame("MouseMove", 0, ""))
<1> DEFINE out == Flushed(batch)
<1>0. /\ Len(wire) \in Nat /\ wire \in Seq(Placed) /\ MaxWire \in Nat /\ batch \in BatchType
      /\ owed = Plus(BatchMotion(batch), Nothing)
  BY LenProperties, BoundsAssumption, NothingAdded DEF CoalescerInv
<1>1. /\ out \in Seq(Motions) /\ out \in Seq(FrameType) /\ Len(out) \in 0..2
      /\ OwedAfter(owed, out, Len(out)) = Nothing
      /\ Len(wire) + Len(out) <= MaxWire + 2
  BY <1>0, FlushPays, FlushLength, NothingAdded DEF CoalescerInv
<1> HIDE DEF out
<1>2. \A i \in 1..Len(out) : out[i].t \in Coalesceable
  BY <1>1, MotionsAre
<1>3. HandOver(out, owed, open)
  BY DEF out
<1>4. /\ owed' = OwedAfter(owed, out, Len(out)) /\ wire' \in Seq(Placed)
      /\ IF open THEN Takes(out) ELSE wire' = wire
  BY <1>0, <1>1, <1>2, <1>3, HandOverPlaces
<1>5. owed' = BatchMotion(batch') /\ batch' \in BatchType
  BY <1>1, <1>4, NoBatchIs
<1>6. {batch'.n, batch'.h} \subseteq Amounts
  <2>1. NoBatch.n = 0 /\ NoBatch.h = 0
    BY DEF NoBatch
  <2> QED
    BY <2>1, BoundsAssumption DEF Amounts
<1>7. Len(wire') + Len(Flushed(batch')) <= MaxWire + 2
  <2>1. Len(Flushed(batch')) = 0
    BY EmptyFlush
  <2>2. CASE open
    <3>1. Len(wire') = Len(wire) + Len(out)
      BY <1>4, <2>2 DEF Takes
    <3> QED
      BY <1>0, <1>1, <2>1, <3>1
  <2>3. CASE ~open
    BY <1>0, <1>1, <1>4, <2>1, <2>3
  <2> QED
    BY <2>2, <2>3
<1>8. Takes(out) => Added(Frame("MouseMove", 0, ""))
  <2>1. Frame("MouseMove", 0, "").t \in Coalesceable
    BY DEF Frame, Coalesceable
  <2> QED
    BY <1>0, <1>1, <2>1, TakesMotions
<1> QED
  BY <1>4, <1>5, <1>6, <1>7, <1>8 DEF CoalescerInv

-----------------------------------------------------------------------------
(* The sender.                                                             *)

PadTyped ==
  /\ dragState \in {"idle", "move", "drag"}
  /\ {touching, dragActive, dragTimer, excused} \subseteq BOOLEAN
  /\ link \in {"down", "connected", "authenticated"}
  /\ conn \in 1..MaxConns /\ owner \in 0..conn
  /\ callbacks \in 0..MaxCallbacks

EndBehind(w, i) == \E j \in i + 1..Len(w) : w[j].t = "MouseDragEnd"

\* Unless the end of a drag was lost, the finger is down or an end is on its way behind every
\* start, and behind the drag that is under way on the receiver.
DragInv ==
  ~excused =>
    /\ \A i \in 1..Len(wire) : wire[i].t = "MouseDragStart" => dragActive \/ EndBehind(wire, i)
    /\ dragInProgress => dragActive \/ EndBehind(wire, 0)

LEMMA SendKeeps ==
  ASSUME CoalescerInv, PadTyped, NEW f \in Dispatched, SendInput(f), UNCHANGED conn
  PROVE  /\ CoalescerInv' /\ owner' \in 0..conn' /\ callbacks' \in 0..MaxCallbacks
         /\ IF link = "connected" THEN Added(f) ELSE wire' = wire
<1>1. CASE link = "connected"
  <2>1. Len(wire) < MaxWire /\ Dispatch(f)
    BY <1>1 DEF SendInput
  <2>2. CoalescerInv' /\ Added(f)
    BY <2>1, DispatchKeeps
  <2>3. owner' \in 0..conn'
    BY <2>1, BoundsAssumption DEF Dispatch, PadTyped
  <2>4. callbacks' \in 0..MaxCallbacks
    BY <2>1, BoundsAssumption DEF Dispatch, PadTyped
  <2> QED
    BY <1>1, <2>2, <2>3, <2>4
<1>2. CASE link # "connected"
  BY <1>2 DEF SendInput, coalescerVars, CoalescerInv, PadTyped
<1> QED
  BY <1>1, <1>2

\* Frames are added to the wire: what is behind stays behind.
LEMMA AddedDrags ==
  ASSUME Len(wire) \in Nat, NEW f, Added(f)
  PROVE  /\ \A i \in 0..Len(wire) : EndBehind(wire, i) => EndBehind(wire', i)
         /\ f.t # "MouseDragStart" =>
              \A i \in 1..Len(wire') : wire'[i].t = "MouseDragStart" =>
                 i \in 1..Len(wire) /\ wire[i].t = "MouseDragStart"
         /\ f.t = "MouseDragEnd" =>
              /\ EndBehind(wire', 0)
              /\ \A i \in 1..Len(wire') : wire'[i].t = "MouseDragStart" => EndBehind(wire', i)
<1>1. /\ Len(wire') \in Nat /\ Len(wire') >= Len(wire)
      /\ \A i \in 1..Len(wire) : wire'[i] = wire[i]
  BY DEF Added
<1>2. ASSUME NEW i \in 0..Len(wire), EndBehind(wire, i) PROVE EndBehind(wire', i)
  <2>1. PICK j \in i + 1..Len(wire) : wire[j].t = "MouseDragEnd"
    BY <1>2 DEF EndBehind
  <2>2. j \in 1..Len(wire) /\ j \in i + 1..Len(wire')
    BY <1>1
  <2> QED
    BY <1>1, <2>1, <2>2 DEF EndBehind
<1>3. ASSUME f.t # "MouseDragStart", NEW i \in 1..Len(wire'), wire'[i].t = "MouseDragStart"
      PROVE  i \in 1..Len(wire) /\ wire[i].t = "MouseDragStart"
  <2>1. CASE i \in 1..Len(wire)
    BY <1>1, <1>3, <2>1
  <2>2. CASE i \notin 1..Len(wire)
    <3>1. i \in Len(wire) + 1..Len(wire')
      BY <1>1, <2>2
    <3> QED
      BY <1>3, <3>1 DEF Added, Coalesceable
  <2> QED
    BY <2>1, <2>2
<1>4. ASSUME f.t = "MouseDragEnd"
      PROVE  /\ EndBehind(wire', 0)
             /\ \A i \in 1..Len(wire') : wire'[i].t = "MouseDragStart" => EndBehind(wire', i)
  <2>1. Len(wire') > Len(wire) /\ wire'[Len(wire')].t = "MouseDragEnd"
    BY <1>4 DEF Added, Coalesceable
  <2>2. ASSUME NEW i \in 0..Len(wire'), i # Len(wire') PROVE EndBehind(wire', i)
    <3>1. Len(wire') \in i + 1..Len(wire')
      BY <1>1, <2>2
    <3> QED
      BY <2>1, <3>1 DEF EndBehind
  <2>3. 0 \in 0..Len(wire') /\ 0 # Len(wire')
    BY <1>1, <2>1
  <2> QED
    BY <1>1, <2>1, <2>2, <2>3
<1> QED
  BY <1>2, <1>3, <1>4

LEMMA WireLength == ASSUME CoalescerInv PROVE Len(wire) \in Nat
BY LenProperties DEF CoalescerInv

\* What is sent without a drag's start leaves the drags as they were.
LEMMA SentKeepsDrags ==
  ASSUME CoalescerInv, DragInv, NEW f, f.t # "MouseDragStart", wire' = wire \/ Added(f),
         UNCHANGED <<dragInProgress, dragActive>>, excused => excused'
  PROVE  DragInv'
<1>0. Len(wire) \in Nat
  BY WireLength
<1>1. CASE wire' = wire
  BY <1>1 DEF DragInv, EndBehind
<1>2. CASE Added(f)
  <2>1. /\ \A i \in 0..Len(wire) : EndBehind(wire, i) => EndBehind(wire', i)
        /\ \A i \in 1..Len(wire') : wire'[i].t = "MouseDragStart" =>
             i \in 1..Len(wire) /\ wire[i].t = "MouseDragStart"
    BY <1>0, <1>2, AddedDrags
  <2>2. \A i \in 1..Len(wire) : i \in 0..Len(wire)
    BY <1>0
  <2>3. 0 \in 0..Len(wire)
    BY <1>0
  <2> QED
    BY <2>1, <2>2, <2>3 DEF DragInv, EndBehind
<1> QED
  BY <1>1, <1>2

LEMMA FramesDispatched ==
  /\ ApiFrames \subseteq {f \in Dispatched : f.t # "MouseDragStart"}
  /\ \A t \in {"MouseMove", "MouseDragStart", "MouseDragEnd", "MouseClick"}, n \in Int, arg \in {"", "left", "right"} :
       Frame(t, n, arg) \in Dispatched /\ Frame(t, n, arg).t = t
  /\ \A n \in Int : Frame("MouseScroll", n, "vertical") \in Dispatched /\ Frame("MouseScroll", n, "vertical").t = "MouseScroll"
<1>1. ASSUME NEW f \in ApiFrames PROVE f \in Dispatched /\ f.t # "MouseDragStart"
  <2>1. CASE f \in [t : {"MouseMove", "MouseDragMove"}, n : Int, arg : {""}]
    BY <2>1 DEF Dispatched, FrameType, FrameNames, Args, ClickArgs
  <2>2. CASE f \in [t : {"MouseScroll"}, n : Int, arg : {"vertical", "horizontal"}]
    BY <2>2 DEF Dispatched, FrameType, FrameNames, Args, ClickArgs
  <2>3. CASE f \in [t : {"MouseClick"}, n : Int, arg : ClickArgs]
    BY <2>3 DEF Dispatched, FrameType, FrameNames, Args, ClickArgs
  <2> QED
    BY <2>1, <2>2, <2>3, FramesAssumption
<1>2. ASSUME NEW t \in {"MouseMove", "MouseDragStart", "MouseDragEnd", "MouseClick"}, NEW n \in Int, NEW arg \in {"", "left", "right"}
      PROVE  Frame(t, n, arg) \in Dispatched /\ Frame(t, n, arg).t = t
  BY DEF Dispatched, FrameType, FrameNames, Args, ClickArgs, Frame
<1>3. ASSUME NEW n \in Int PROVE Frame("MouseScroll", n, "vertical") \in Dispatched /\ Frame("MouseScroll", n, "vertical").t = "MouseScroll"
  BY DEF Dispatched, FrameType, FrameNames, Args, ClickArgs, Frame
<1> QED
  BY <1>1, <1>2, <1>3

LEMMA Clicks ==
  ASSUME NEW arg \in {"left", "right"}
  PROVE  Frame("MouseClick", 0, arg) \in Dispatched /\ Frame("MouseClick", 0, arg).t = "MouseClick"
<1>1. 0 \in Int
  OBVIOUS
<1>2. arg \in {"", "left", "right"}
  OBVIOUS
<1>3. "MouseClick" \in {"MouseMove", "MouseDragStart", "MouseDragEnd", "MouseClick"}
  OBVIOUS
<1> QED
  BY <1>1, <1>2, <1>3, FramesDispatched, Zenon

PathInv == CoalescerInv /\ PadTyped /\ DragInv

\* A frame that is no drag's start is sent, and the rest stays.
LEMMA QuietSend ==
  ASSUME PathInv, NEW f \in Dispatched, f.t # "MouseDragStart",
         SendInput(f) \/ UNCHANGED <<coalescerVars, wire>>,
         UNCHANGED <<conn, link, dragActive, excused, dragInProgress>>
  PROVE  /\ CoalescerInv' /\ DragInv' /\ owner' \in 0..conn' /\ callbacks' \in 0..MaxCallbacks
<1>1. CASE SendInput(f)
  <2>1. /\ CoalescerInv' /\ owner' \in 0..conn' /\ callbacks' \in 0..MaxCallbacks
        /\ wire' = wire \/ Added(f)
    BY <1>1, SendKeeps DEF PathInv
  <2>2. DragInv'
    BY <2>1, SentKeepsDrags DEF PathInv
  <2> QED
    BY <2>1, <2>2
<1>2. CASE UNCHANGED <<coalescerVars, wire>>
  BY <1>2 DEF PathInv, CoalescerInv, DragInv, EndBehind, PadTyped, coalescerVars
<1> QED
  BY <1>1, <1>2

\* A drag's end is sent, or it is lost.
LEMMA SendDragEndKeeps ==
  ASSUME PathInv, SendDragEnd, UNCHANGED <<conn, link, dragInProgress>>
  PROVE  /\ CoalescerInv' /\ DragInv' /\ owner' \in 0..conn' /\ callbacks' \in 0..MaxCallbacks
         /\ excused' \in BOOLEAN
<1> DEFINE f == Frame("MouseDragEnd", 0, "left")
<1>1. f \in Dispatched /\ f.t = "MouseDragEnd"
  BY DEF Dispatched, FrameType, FrameNames, Args, ClickArgs, Frame
<1>2. SendInput(f) /\ excused' = (excused \/ link # "connected")
  BY DEF SendDragEnd
<1> HIDE DEF f
<1>3. /\ CoalescerInv' /\ owner' \in 0..conn' /\ callbacks' \in 0..MaxCallbacks
      /\ link = "connected" => Added(f)
  BY <1>1, <1>2, SendKeeps DEF PathInv
<1>4. ASSUME ~excused' PROVE DragInv'
  <2>1. Added(f) /\ Len(wire) \in Nat
    BY <1>2, <1>3, <1>4, WireLength DEF PathInv
  <2>2. /\ EndBehind(wire', 0)
        /\ \A i \in 1..Len(wire') : wire'[i].t = "MouseDragStart" => EndBehind(wire', i)
    BY <1>1, <2>1, AddedDrags
  <2> QED
    BY <2>2 DEF DragInv, EndBehind
<1>5. excused' \in BOOLEAN
  BY <1>2
<1> QED
  BY <1>3, <1>4, <1>5 DEF DragInv

\* A step of the pad: a gesture, a flush, or another caller's frame.
LEMMA PadKeeps ==
  ASSUME PathInv, PadNext, UNCHANGED dragInProgress
  PROVE  PathInv'
<1>0. CoalescerInv /\ PadTyped /\ DragInv
  BY DEF PathInv
<1>1. CASE Grant
  <2>1. UNCHANGED <<dragActive, link, conn, owner, batch, callbacks, owed, wire, excused>>
    BY <1>1 DEF Grant, coalescerVars
  <2>2. PadTyped'
    BY <1>0, <1>1, <2>1 DEF Grant, PadTyped
  <2> QED
    BY <1>0, <2>1, <2>2 DEF PathInv, CoalescerInv, DragInv, EndBehind
<1>2. CASE LongPress
  <2> DEFINE f == Frame("MouseDragStart", 0, "left")
  <2>1. CASE ~touching \/ dragState # "idle"
    <3>1. UNCHANGED <<touching, dragState, dragActive, link, conn, owner, batch, callbacks, owed, wire, excused>>
      BY <1>2, <2>1 DEF LongPress, coalescerVars
    <3>2. PadTyped'
      BY <1>0, <1>2, <3>1 DEF LongPress, PadTyped
    <3> QED
      BY <1>0, <3>1, <3>2 DEF PathInv, CoalescerInv, DragInv, EndBehind
  <2>2. CASE ~(~touching \/ dragState # "idle")
    <3>1. /\ dragActive' = TRUE /\ SendInput(f) /\ dragTimer' = FALSE
          /\ UNCHANGED <<touching, dragState, link, conn, excused>>
      BY <1>2, <2>2 DEF LongPress
    <3>2. f \in Dispatched
      BY DEF Dispatched, FrameType, FrameNames, Args, ClickArgs, Frame
    <3> HIDE DEF f
    <3>3. CoalescerInv' /\ owner' \in 0..conn' /\ callbacks' \in 0..MaxCallbacks
      BY <1>0, <3>1, <3>2, SendKeeps
    <3>4. PadTyped'
      BY <1>0, <3>1, <3>3 DEF PadTyped
    \* The finger is down.
    <3>5. DragInv'
      BY <3>1 DEF DragInv
    <3> QED
      BY <3>3, <3>4, <3>5 DEF PathInv
  <2> QED
    BY <2>1, <2>2
<1>3. ASSUME NEW d \in Distances, NEW passes \in BOOLEAN, Scroll(d, passes) PROVE PathInv'
  <2> DEFINE sign == IF d > 0 THEN 1 ELSE IF d < 0 THEN -1 ELSE 0
             f == Frame("MouseScroll", sign, "vertical")
  <2>1. sign \in Int
    OBVIOUS
  <2>2. SendInput(f) \/ UNCHANGED <<coalescerVars, wire>>
    BY <1>3 DEF Scroll, DispatchScroll
  <2> HIDE DEF sign
  <2>3. f \in Dispatched /\ f.t # "MouseDragStart"
    BY <2>1 DEF Dispatched, FrameType, FrameNames, Args, ClickArgs, Frame
  <2>4. UNCHANGED <<touching, dragState, dragActive, dragTimer, link, conn, excused>>
    BY <1>3 DEF Scroll, gestureVars
  <2> HIDE DEF f
  <2>5. CoalescerInv' /\ DragInv' /\ owner' \in 0..conn' /\ callbacks' \in 0..MaxCallbacks
    BY <2>2, <2>3, <2>4, QuietSend
  <2> QED
    BY <1>0, <2>4, <2>5 DEF PathInv, PadTyped
<1>4. ASSUME NEW d \in Distances, NEW passes \in BOOLEAN, Move(d, passes) PROVE PathInv'
  <2> DEFINE f == Frame("MouseMove", d, "")
  <2>1. SendInput(f) \/ UNCHANGED <<coalescerVars, wire>>
    BY <1>4 DEF Move, DispatchMove
  <2>2. d \in Int
    BY FramesAssumption
  <2>3. f \in Dispatched /\ f.t # "MouseDragStart"
    BY <2>2 DEF Dispatched, FrameType, FrameNames, Args, ClickArgs, Frame
  <2>4. /\ UNCHANGED <<touching, dragActive, dragTimer, link, conn, excused>>
        /\ dragState' \in {"drag", "move"}
    BY <1>4 DEF Move
  <2> HIDE DEF f
  <2>5. CoalescerInv' /\ DragInv' /\ owner' \in 0..conn' /\ callbacks' \in 0..MaxCallbacks
    BY <2>1, <2>3, <2>4, QuietSend
  <2> QED
    BY <1>0, <2>4, <2>5 DEF PathInv, PadTyped
<1>5. CASE FlushCallback
  <2>1. /\ callbacks > 0 /\ callbacks' = callbacks - 1 /\ batch' = NoBatch
        /\ HandOver(Flushed(batch), owed, owner = conn /\ link # "down")
        /\ UNCHANGED <<touching, dragState, dragActive, dragTimer, link, conn, owner, excused>>
    BY <1>5 DEF FlushCallback, gestureVars
  <2>2. (owner = conn /\ link # "down") \in BOOLEAN
    OBVIOUS
  <2>3. CoalescerInv' /\ (wire' = wire \/ Added(Frame("MouseMove", 0, "")))
    BY <1>0, <2>1, <2>2, FlushKeeps
  <2>4. Frame("MouseMove", 0, "").t # "MouseDragStart"
    BY DEF Frame
  <2>5. DragInv'
    BY <1>0, <2>1, <2>3, <2>4, SentKeepsDrags
  <2>6. callbacks' \in 0..MaxCallbacks
    <3>1. callbacks \in 0..MaxCallbacks /\ MaxCallbacks \in Nat
      BY <1>0, BoundsAssumption DEF PadTyped
    <3> QED
      BY <2>1, <3>1
  <2>7. PadTyped'
    BY <1>0, <2>1, <2>6 DEF PadTyped
  <2> QED
    BY <2>3, <2>5, <2>7 DEF PathInv
<1>6. CASE Terminate
  <2>1. CASE dragActive
    <3>1. /\ SendDragEnd /\ UNCHANGED <<link, conn, dragState>>
          /\ dragActive' = FALSE /\ dragTimer' = FALSE /\ touching' = FALSE
      BY <1>6, <2>1 DEF Terminate
    <3>2. CoalescerInv' /\ DragInv' /\ owner' \in 0..conn' /\ callbacks' \in 0..MaxCallbacks /\ excused' \in BOOLEAN
      BY <3>1, SendDragEndKeeps
    <3> QED
      BY <1>0, <3>1, <3>2 DEF PathInv, PadTyped
  <2>2. CASE ~dragActive
    <3>1. /\ UNCHANGED <<link, conn, dragState, owner, batch, callbacks, owed, wire, excused>>
          /\ dragActive' = FALSE /\ dragTimer' = FALSE /\ touching' = FALSE
      BY <1>6, <2>2 DEF Terminate, coalescerVars
    <3>2. PadTyped'
      BY <1>0, <3>1 DEF PadTyped
    <3> QED
      BY <1>0, <2>2, <3>1, <3>2 DEF PathInv, CoalescerInv, DragInv, EndBehind
  <2> QED
    BY <2>1, <2>2
<1>7. ASSUME NEW quick \in BOOLEAN, NEW side \in {"left", "right"}, Release(quick, side) PROVE PathInv'
  <2>0. /\ UNCHANGED <<link, conn, dragState>>
        /\ dragActive' = FALSE /\ dragTimer' = FALSE /\ touching' = FALSE
    BY <1>7 DEF Release
  <2>1. CASE dragActive
    <3>1. SendDragEnd
      BY <1>7, <2>1 DEF Release
    <3>2. CoalescerInv' /\ DragInv' /\ owner' \in 0..conn' /\ callbacks' \in 0..MaxCallbacks /\ excused' \in BOOLEAN
      BY <2>0, <3>1, SendDragEndKeeps
    <3> QED
      BY <1>0, <2>0, <3>2 DEF PathInv, PadTyped
  <2>2. CASE ~dragActive
    <3> DEFINE f == Frame("MouseClick", 0, side)
    <3>1. /\ SendInput(f) \/ UNCHANGED <<coalescerVars, wire>>
          /\ UNCHANGED excused /\ dragActive' = dragActive
      BY <1>0, <1>7, <2>0, <2>2 DEF Release, PadTyped
    <3>2. f \in Dispatched /\ f.t = "MouseClick"
      BY <1>7, Clicks
    <3> HIDE DEF f
    <3>3. CoalescerInv' /\ DragInv' /\ owner' \in 0..conn' /\ callbacks' \in 0..MaxCallbacks
      BY <2>0, <3>1, <3>2, QuietSend
    <3> QED
      BY <1>0, <2>0, <3>1, <3>3 DEF PathInv, PadTyped
  <2> QED
    BY <2>1, <2>2
<1>8. ASSUME NEW f \in ApiFrames, Press(f) PROVE PathInv'
  <2>1. f \in Dispatched /\ f.t # "MouseDragStart"
    BY FramesDispatched
  <2>2. SendInput(f) /\ UNCHANGED <<touching, dragState, dragActive, dragTimer, link, conn, excused>>
    BY <1>8 DEF Press, gestureVars
  <2>3. CoalescerInv' /\ DragInv' /\ owner' \in 0..conn' /\ callbacks' \in 0..MaxCallbacks
    BY <2>1, <2>2, QuietSend
  <2> QED
    BY <1>0, <2>2, <2>3 DEF PathInv, PadTyped
<1> QED
  BY <1>1, <1>2, <1>3, <1>4, <1>5, <1>6, <1>7, <1>8 DEF PadNext
-----------------------------------------------------------------------------
(* The connection and the wire.                                            *)

\* A frame leaves the wire at its head.
LEMMA HeadTaken ==
  ASSUME CoalescerInv, wire # <<>>, wire' = Tail(wire), UNCHANGED <<batch, owed>>
  PROVE  /\ CoalescerInv'
         /\ Head(wire) = wire[1] /\ wire[1] \in Placed
         /\ \A i \in 1..Len(wire') : i + 1 \in 1..Len(wire) /\ wire'[i] = wire[i + 1]
         /\ \A i \in 0..Len(wire') : EndBehind(wire, i + 1) => EndBehind(wire', i)
         /\ EndBehind(wire, 0) => wire[1].t = "MouseDragEnd" \/ EndBehind(wire', 0)
<1>0. /\ wire \in Seq(Placed) /\ Len(wire) \in Nat \ {0} /\ MaxWire \in Nat
      /\ Len(Flushed(batch)) \in 0..2 /\ Len(wire) + Len(Flushed(batch)) <= MaxWire + 2
  BY EmptySeq, FlushLength, BoundsAssumption DEF CoalescerInv
<1>1. /\ wire' \in Seq(Placed) /\ Len(wire') = Len(wire) - 1
      /\ \A i \in 1..Len(wire') : wire'[i] = wire[i + 1]
  BY <1>0, HeadTailProperties
<1>2. Head(wire) = wire[1]
  BY <1>0
<1>3. wire[1] \in Placed
  <2>1. 1 \in 1..Len(wire)
    BY <1>0
  <2> QED
    BY <1>0, <2>1, ElementOfSeq
<1>4. CoalescerInv'
  <2> DEFINE k == Len(Flushed(batch))
  <2>1. UNCHANGED k
    OBVIOUS
  <2>2. k \in 0..2 /\ Len(wire) + k <= MaxWire + 2
    BY <1>0
  <2> HIDE DEF k
  <2>3. Len(wire') + k' <= MaxWire + 2
    BY <1>0, <1>1, <2>1, <2>2
  <2> QED
    BY <1>1, <2>3 DEF CoalescerInv, k
<1>5. \A i \in 1..Len(wire') : i + 1 \in 1..Len(wire)
  BY <1>0, <1>1
<1>6. ASSUME NEW i \in 0..Len(wire'), EndBehind(wire, i + 1) PROVE EndBehind(wire', i)
  <2>1. PICK j \in (i + 1) + 1..Len(wire) : wire[j].t = "MouseDragEnd"
    BY <1>6 DEF EndBehind
  <2>2. j - 1 \in i + 1..Len(wire') /\ j - 1 \in 1..Len(wire') /\ (j - 1) + 1 = j
    BY <1>0, <1>1
  <2>3. wire'[j - 1] = wire[j]
    BY <1>1, <2>2
  <2> QED
    BY <2>1, <2>2, <2>3 DEF EndBehind
<1>7. ASSUME EndBehind(wire, 0), wire[1].t # "MouseDragEnd" PROVE EndBehind(wire', 0)
  <2>1. PICK j \in 0 + 1..Len(wire) : wire[j].t = "MouseDragEnd"
    BY <1>7 DEF EndBehind
  <2>2. j \in (0 + 1) + 1..Len(wire) /\ 0 \in 0..Len(wire')
    BY <1>0, <1>1, <1>7, <2>1
  <2>3. EndBehind(wire, 0 + 1)
    BY <2>1, <2>2 DEF EndBehind
  <2> QED
    BY <1>6, <2>2, <2>3
<1> QED
  BY <1>1, <1>2, <1>3, <1>4, <1>5, <1>6, <1>7

\* A frame is refused.
LEMMA RefusedKeeps ==
  ASSUME PathInv, Refused
  PROVE  PathInv'
<1>1. /\ wire # <<>> /\ wire' = Tail(wire) /\ excused' = (excused \/ Head(wire).t = "MouseDragEnd")
      /\ UNCHANGED <<touching, dragState, dragActive, dragTimer, link, conn, owner, batch, callbacks, owed, dragInProgress>>
  BY DEF Refused, gestureVars, coalescerVars, mouseVars, controllerVars
<1>2. /\ CoalescerInv'
      /\ Head(wire) = wire[1]
      /\ \A i \in 1..Len(wire') : i + 1 \in 1..Len(wire) /\ wire'[i] = wire[i + 1]
      /\ \A i \in 0..Len(wire') : EndBehind(wire, i + 1) => EndBehind(wire', i)
      /\ EndBehind(wire, 0) => wire[1].t = "MouseDragEnd" \/ EndBehind(wire', 0)
  BY <1>1, HeadTaken DEF PathInv
<1>3. PadTyped'
  BY <1>1 DEF PathInv, PadTyped
<1>4. DragInv'
  <2> SUFFICES ASSUME ~excused'
               PROVE  /\ \A i \in 1..Len(wire') : wire'[i].t = "MouseDragStart" => dragActive' \/ EndBehind(wire', i)
                      /\ dragInProgress' => dragActive' \/ EndBehind(wire', 0)
    BY DEF DragInv
  <2>1. ~excused /\ wire[1].t # "MouseDragEnd" /\ dragActive' = dragActive /\ dragInProgress' = dragInProgress
    BY <1>1, <1>2
  <2>2. \A i \in 1..Len(wire') : i \in 0..Len(wire')
    OBVIOUS
  <2> QED
    BY <1>2, <2>1, <2>2 DEF PathInv, DragInv
<1> QED
  BY <1>2, <1>3, <1>4 DEF PathInv

\* The connection ends, with what was on its way.
LEMMA DropKeeps ==
  ASSUME PathInv, NEW renewed \in BOOLEAN, ConnectionEnds(renewed)
  PROVE  PathInv'
<1>1. /\ link' = "down" /\ conn' = (IF renewed THEN conn + 1 ELSE conn) /\ conn' <= MaxConns
      /\ wire' = <<>> /\ excused' = (excused \/ EndOnWire)
      /\ UNCHANGED <<touching, dragState, dragActive, dragTimer, owner, batch, callbacks, owed, dragInProgress>>
  BY DEF ConnectionEnds, Drops, gestureVars, coalescerVars, controllerVars
<1>2. CoalescerInv'
  <2>1. wire' \in Seq(Placed) /\ Len(wire') = 0
    BY <1>1
  <2>2. Len(Flushed(batch')) \in 0..2 /\ MaxWire \in Nat
    BY <1>1, FlushLength, BoundsAssumption DEF PathInv, CoalescerInv
  <2>3. Len(wire') + Len(Flushed(batch')) <= MaxWire + 2
    <3> DEFINE k == Len(Flushed(batch'))
    <3>1. k \in 0..2
      BY <2>2
    <3> HIDE DEF k
    <3>2. 0 + k <= MaxWire + 2
      BY <2>2, <3>1
    <3> QED
      BY <2>1, <3>2 DEF k
  <2> QED
    BY <1>1, <2>1, <2>3 DEF PathInv, CoalescerInv
<1>3. PadTyped'
  <2>1. conn \in 1..MaxConns /\ owner \in 0..conn /\ MaxConns \in Nat
    BY BoundsAssumption DEF PathInv, PadTyped
  <2>2. conn' \in 1..MaxConns /\ owner' \in 0..conn'
    BY <1>1, <2>1
  <2> QED
    BY <1>1, <2>2 DEF PathInv, PadTyped
<1>4. DragInv'
  <2> SUFFICES ASSUME ~excused'
               PROVE  /\ \A i \in 1..Len(wire') : wire'[i].t = "MouseDragStart" => dragActive' \/ EndBehind(wire', i)
                      /\ dragInProgress' => dragActive'
    BY DEF DragInv
  <2>1. \A i \in 1..Len(wire') : FALSE
    BY <1>1
  <2>2. ~excused /\ ~EndBehind(wire, 0)
    <3>1. ~excused /\ ~EndOnWire
      BY <1>1
    <3>2. 0 + 1 = 1
      OBVIOUS
    <3>3. EndBehind(wire, 0) => EndOnWire
      BY <3>2 DEF EndBehind, EndOnWire
    <3> QED
      BY <3>1, <3>3
  <2>3. dragInProgress => dragActive
    BY <2>2 DEF PathInv, DragInv
  <2> QED
    BY <1>1, <2>1, <2>3
<1> QED
  BY <1>2, <1>3, <1>4 DEF PathInv

\* Another client adds an absolute position to the wire.
LEMMA OtherKeeps ==
  ASSUME PathInv, OtherClient
  PROVE  PathInv'
<1> DEFINE f == Frame("MouseMove", 1, "absolute")
           w == OnWire(f, owed)
<1>0. /\ wire \in Seq(Placed) /\ Len(wire) \in Nat /\ MaxWire \in Nat
      /\ Len(Flushed(batch)) \in 0..2
  BY LenProperties, FlushLength, BoundsAssumption DEF PathInv, CoalescerInv
<1>1. /\ Len(wire) < MaxWire /\ wire' = Append(wire, w)
      /\ UNCHANGED <<touching, dragState, dragActive, dragTimer, link, conn, owner, batch, callbacks, owed, excused, dragInProgress>>
  BY DEF OtherClient, gestureVars, coalescerVars, mouseVars, controllerVars
<1>2. f \in FrameType /\ f.t = "MouseMove" /\ f.t \in Coalesceable
  BY DEF FrameType, FrameNames, Args, ClickArgs, Frame, Coalesceable
<1> HIDE DEF f
<1>3. w \in Placed /\ w.t = "MouseMove"
  BY <1>2, OnWirePlaced
<1> HIDE DEF w
<1>4. /\ wire' \in Seq(Placed) /\ Len(wire') = Len(wire) + 1
      /\ \A i \in 1..Len(wire) : wire'[i] = wire[i]
      /\ wire'[Len(wire) + 1] = w
  BY <1>0, <1>1, <1>3, AppendProperties
<1>5. CoalescerInv'
  <2> DEFINE k == Len(Flushed(batch))
  <2>1. UNCHANGED k
    BY <1>1
  <2>2. k \in 0..2
    BY <1>0
  <2> HIDE DEF k
  <2>3. Len(wire') + k' <= MaxWire + 2
    BY <1>0, <1>1, <1>4, <2>1, <2>2
  <2> QED
    BY <1>1, <1>4, <2>3 DEF PathInv, CoalescerInv, k
<1>6. Added(f)
  <2>1. ASSUME NEW i \in Len(wire) + 1..Len(wire') PROVE wire'[i].t \in Coalesceable
    <3>1. i = Len(wire) + 1
      BY <1>0, <1>4
    <3> QED
      BY <1>2, <1>3, <1>4, <3>1
  <2> QED
    BY <1>0, <1>2, <1>4, <2>1 DEF Added
<1>7. DragInv'
  BY <1>1, <1>2, <1>6, SentKeepsDrags DEF PathInv
<1>8. PadTyped'
  BY <1>1 DEF PathInv, PadTyped
<1> QED
  BY <1>5, <1>7, <1>8 DEF PathInv
-----------------------------------------------------------------------------
(* The controller and the provider.                                        *)

CallType == Seq(Events) \ {<<>>}

UpBehind(c, i) == \E j \in i + 1..Len(c) : c[j][1] = "up"

MouseTyped ==
  /\ {authenticated, permitted, dragInProgress} \subseteq BOOLEAN
  /\ button \in {"up", "drag", "click"}
  /\ backend \in Backends
  /\ backend = "cliclick" => button = "up"
  /\ resolving \in Nat /\ Len(calls) + resolving <= MaxCalls
  /\ calls \in Seq(CallType)

\* A call of one event, or a double click.
Short(c) == Len(c) = 1 \/ (Len(c) = 2 /\ c[1] = "click" /\ c[2] = "click")

\* nut.js: a call is one event or a double click, and unless the end of a drag was lost or
\* the provider has failed in it, the button comes up when no drag is under way.
ButtonInv ==
  backend = "nutjs" =>
    /\ \A i \in 1..Len(calls) : Short(calls[i])
    /\ ~excused /\ ~dragInProgress =>
         /\ \A i \in 1..Len(calls) : calls[i][1] = "down" => UpBehind(calls, i)
         /\ button = "drag" => UpBehind(calls, 0)

\* What nut.js takes as a call.
Single(c) == c \in CallType /\ (backend = "nutjs" => Short(c))

Queued(c) == Single(c) /\ calls' = Append(calls, c) /\ resolving' = resolving /\ Len(calls) + resolving < MaxCalls

Waits == calls' = calls /\ resolving' \in Nat /\ Len(calls) + resolving' <= MaxCalls

LEMMA CallSteps ==
  ASSUME NEW e \in Events
  PROVE  <<e>> \in CallType /\ Single(<<e>>) /\ <<e>>[1] = e
<1>1. <<e>> \in Seq(Events) /\ <<e>> # <<>> /\ Len(<<e>>) = 1 /\ <<e>>[1] = e
  OBVIOUS
<1> QED
  BY <1>1 DEF CallType, Single, Short

\* What a click frame asks of the provider.
LEMMA ClickCalls ==
  ASSUME NEW arg
  PROVE  Single(ClickEvents(arg)) /\ (backend = "nutjs" => ClickEvents(arg)[1] # "down")
<1> DEFINE c == ClickEvents(arg)
           double == <<"click", "click">>
<1> SUFFICES Single(c) /\ (backend = "nutjs" => c[1] # "down")
  OBVIOUS
<1>1. ASSUME NEW e \in Events \ {"down"}, c = <<e>>
      PROVE  Single(c) /\ (backend = "nutjs" => c[1] # "down")
  BY <1>1, CallSteps
<1>2. {"press", "lift", "click", "other"} \subseteq Events \ {"down"}
  BY DEF Events
<1>3. CASE arg = "leftDouble" /\ backend = "nutjs"
  <2>1. c = <<"click">> \o <<"click">>
    BY <1>3 DEF ClickEvents
  <2>2. c = double
    BY <2>1, Tuples, Zenon
  <2>3. double \in Seq(Events) /\ double # <<>> /\ Len(double) = 2 /\ double[1] = "click" /\ double[2] = "click"
    BY DEF Events
  <2> HIDE DEF c, double
  <2> QED
    BY <2>2, <2>3 DEF Single, Short, CallType
<1>4. CASE arg = "leftDouble" /\ backend # "nutjs"
  <2> DEFINE two == <<"press", "lift">>
  <2>1. c = two \o two
    BY <1>4 DEF ClickEvents
  <2>2. two \in Seq(Events) /\ Len(two) = 2
    BY DEF Events
  <2> HIDE DEF c, two
  <2>3. c \in Seq(Events) /\ Len(c) = Len(two) + Len(two)
    BY <2>1, <2>2, ConcatProperties, Zenon
  <2>4. Len(c) = 4
    BY <2>2, <2>3
  <2>5. c # <<>>
    BY <2>4
  <2> QED
    BY <1>4, <2>3, <2>5 DEF Single, CallType
<1>5. CASE arg = "left" /\ backend # "nutjs"
  <2> DEFINE two == <<"press", "lift">>
  <2>1. c = two
    BY <1>5 DEF ClickEvents
  <2>2. two \in Seq(Events) /\ two # <<>>
    BY DEF Events
  <2> HIDE DEF c, two
  <2> QED
    BY <1>5, <2>1, <2>2 DEF Single, CallType
<1>6. CASE arg # "leftDouble" /\ (arg = "left" => backend = "nutjs")
  <2>1. c \in {<<"click">>, <<"press">>, <<"lift">>, <<"other">>}
    BY <1>6 DEF ClickEvents
  <2> HIDE DEF c
  <2> QED
    BY <1>1, <1>2, <2>1
<1> QED
  BY <1>3, <1>4, <1>5, <1>6

LEMMA MouseNumbers ==
  ASSUME MouseTyped
  PROVE  Len(calls) \in Nat /\ resolving \in Nat /\ MaxCalls \in Nat /\ Len(calls) + resolving <= MaxCalls
<1>1. calls \in Seq(CallType)
  BY DEF MouseTyped
<1>2. Len(calls) \in Nat
  BY <1>1, LenProperties
<1> QED
  BY <1>2, MaxCallsAssumption DEF MouseTyped

\* What the handling of a frame comes to.
Outcome(f) ==
  \/ /\ f.t \notin {"MouseDragStart", "MouseDragEnd"} /\ dragInProgress' = dragInProgress
     /\ Waits \/ \E c : Queued(c) /\ (backend = "nutjs" => c[1] # "down")
  \/ /\ f.t = "MouseDragStart" /\ dragInProgress' = TRUE
     /\ Waits \/ \E c : Queued(c)
  \/ /\ f.t = "MouseDragEnd" /\ dragInProgress' = FALSE
     /\ IF dragInProgress THEN \E c : Queued(c) /\ c[1] = "up" ELSE Waits

LEMMA Handled ==
  ASSUME MouseTyped, NEW f \in Placed, NEW passes \in BOOLEAN, Handle(f, passes)
  PROVE  Outcome(f)
<1>0. Len(calls) \in Nat /\ resolving \in Nat /\ MaxCalls \in Nat /\ Len(calls) + resolving <= MaxCalls
  BY MouseNumbers
<1>1. UNCHANGED <<calls, resolving>> => Waits
  BY <1>0 DEF Waits
<1>2. ASSUME MoveAbsolute(passes) PROVE Waits /\ dragInProgress' = dragInProgress
  BY <1>0, <1>2 DEF MoveAbsolute, Waits
<1>3. ASSUME NEW e \in Events, Calls(<<e>>), resolving' = resolving
      PROVE  Queued(<<e>>) /\ <<e>>[1] = e
  BY <1>3, CallSteps DEF Calls, Queued
<1>4. CASE f.t = "MouseMove"
  <2>1. CASE f.arg = "absolute"
    <3>1. MoveAbsolute(passes)
      BY <1>4, <2>1 DEF Handle
    <3> QED
      BY <1>2, <1>4, <3>1 DEF Outcome
  <2>2. CASE f.arg # "absolute"
    <3>1. MoveRelative(passes)
      BY <1>4, <2>2 DEF Handle
    <3>2. CASE passes
      <4>1. Calls(<<"move">>) /\ resolving' = resolving /\ dragInProgress' = dragInProgress /\ "move" \in Events
        BY <3>1, <3>2 DEF MoveRelative, Events
      <4>2. Queued(<<"move">>) /\ <<"move">>[1] # "down"
        BY <1>3, <4>1
      <4> QED
        BY <1>4, <4>1, <4>2 DEF Outcome
    <3>3. CASE ~passes
      <4>1. UNCHANGED <<calls, resolving, dragInProgress>>
        BY <3>1, <3>3 DEF MoveRelative
      <4> QED
        BY <1>1, <1>4, <4>1 DEF Outcome
    <3> QED
      BY <3>2, <3>3
  <2> QED
    BY <2>1, <2>2
<1>5. CASE f.t = "MouseDragMove"
  <2>1. DragMove(passes)
    BY <1>5 DEF Handle
  <2>2. Waits /\ dragInProgress' = dragInProgress
    BY <1>1, <1>2, <2>1 DEF DragMove, controllerVars
  <2> QED
    BY <1>5, <2>2 DEF Outcome
<1>6. CASE f.t = "MouseScroll"
  <2>1. Calls(<<"other">>) /\ resolving' = resolving /\ dragInProgress' = dragInProgress /\ "other" \in Events
    BY <1>6 DEF Handle, Scrolls, Events
  <2>2. Queued(<<"other">>) /\ <<"other">>[1] # "down"
    BY <1>3, <2>1
  <2> QED
    BY <1>6, <2>1, <2>2 DEF Outcome
<1>7. CASE f.t = "MouseClick"
  <2> DEFINE c == ClickEvents(f.arg)
  <2>1. Calls(c) /\ resolving' = resolving /\ dragInProgress' = dragInProgress
    BY <1>7 DEF Handle, Click
  <2>2. Single(c) /\ (backend = "nutjs" => c[1] # "down")
    BY ClickCalls
  <2> HIDE DEF c
  <2>3. Queued(c)
    BY <2>1, <2>2 DEF Calls, Queued
  <2> QED
    BY <1>7, <2>1, <2>2, <2>3 DEF Outcome
<1>8. CASE f.t = "MouseDragStart"
  <2>1. /\ IF dragInProgress THEN UNCHANGED calls ELSE Calls(<<"down">>)
        /\ resolving' = resolving /\ dragInProgress' = TRUE
    BY <1>8 DEF Handle, DragStart
  <2>2. "down" \in Events
    BY DEF Events
  <2>3. Waits \/ Queued(<<"down">>)
    BY <1>1, <1>3, <2>1, <2>2
  <2> QED
    BY <1>8, <2>1, <2>3 DEF Outcome
<1>9. CASE f.t = "MouseDragEnd"
  <2>1. /\ IF dragInProgress THEN Calls(<<"up">>) ELSE UNCHANGED calls
        /\ resolving' = resolving /\ dragInProgress' = FALSE
    BY <1>9 DEF Handle, DragEnd
  <2>2. "up" \in Events
    BY DEF Events
  <2>3. IF dragInProgress THEN Queued(<<"up">>) /\ <<"up">>[1] = "up" ELSE Waits
    BY <1>1, <1>3, <2>1, <2>2
  <2> QED
    BY <1>9, <2>1, <2>3 DEF Outcome
<1> QED
  BY <1>4, <1>5, <1>6, <1>7, <1>8, <1>9 DEF Placed, FrameNames

\* A call is added behind the others.
LEMMA QueueGrows ==
  ASSUME NEW c \in CallType, NEW q \in Seq(CallType)
  PROVE  /\ Append(q, c) \in Seq(CallType) /\ Len(Append(q, c)) = Len(q) + 1
         /\ \A i \in 1..Len(q) : Append(q, c)[i] = q[i]
         /\ Append(q, c)[Len(q) + 1] = c
         /\ \A i \in 0..Len(q) : /\ UpBehind(q, i) => UpBehind(Append(q, c), i)
                                /\ c[1] = "up" => UpBehind(Append(q, c), i)
<1> DEFINE a == Append(q, c)
<1>1. /\ a \in Seq(CallType) /\ Len(a) = Len(q) + 1
      /\ \A i \in 1..Len(q) : a[i] = q[i]
      /\ a[Len(q) + 1] = c /\ Len(q) \in Nat
  BY AppendProperties, LenProperties
<1> HIDE DEF a
<1>2. ASSUME NEW i \in 0..Len(q), UpBehind(q, i) PROVE UpBehind(a, i)
  <2>1. PICK j \in i + 1..Len(q) : q[j][1] = "up"
    BY <1>2 DEF UpBehind
  <2>2. j \in 1..Len(q) /\ j \in i + 1..Len(a)
    BY <1>1
  <2> QED
    BY <1>1, <2>1, <2>2 DEF UpBehind
<1>3. ASSUME NEW i \in 0..Len(q), c[1] = "up" PROVE UpBehind(a, i)
  <2>1. Len(q) + 1 \in i + 1..Len(a)
    BY <1>1
  <2> QED
    BY <1>1, <1>3, <2>1 DEF UpBehind
<1> QED
  BY <1>1, <1>2, <1>3 DEF a

\* One call goes, and the others close up.
LEMMA CallGone ==
  ASSUME NEW q \in Seq(CallType), NEW k \in 1..Len(q)
  PROVE  /\ RemoveAt(q, k) \in Seq(CallType) /\ Len(RemoveAt(q, k)) = Len(q) - 1
         /\ \A j \in 1..Len(q) - 1 : RemoveAt(q, k)[j] = IF j < k THEN q[j] ELSE q[j + 1]
<1> DEFINE a == SubSeq(q, 1, k - 1)
           b == SubSeq(q, k + 1, Len(q))
           r == RemoveAt(q, k)
<1>0. Len(q) \in Nat /\ k \in Nat /\ 1 <= k /\ k <= Len(q) /\ \A i \in 1..Len(q) : q[i] \in CallType
  BY ElementOfSeq, LenProperties
<1>1. /\ a \in Seq(CallType) /\ Len(a) = IF 1 <= k - 1 THEN (k - 1) - 1 + 1 ELSE 0
      /\ \A i \in 1..(k - 1) - 1 + 1 : a[i] = q[1 + i - 1]
  <2>1. 1 \in Int /\ k - 1 \in Int /\ \A i \in 1..k - 1 : q[i] \in CallType
    BY <1>0
  <2> QED
    BY <2>1, SubSeqProperties
<1>2. /\ b \in Seq(CallType) /\ Len(b) = IF k + 1 <= Len(q) THEN Len(q) - (k + 1) + 1 ELSE 0
      /\ \A i \in 1..Len(q) - (k + 1) + 1 : b[i] = q[(k + 1) + i - 1]
  <2>1. k + 1 \in Int /\ Len(q) \in Int /\ \A i \in k + 1..Len(q) : q[i] \in CallType
    BY <1>0
  <2> QED
    BY <2>1, SubSeqProperties
<1>3. r = a \o b
  BY DEF RemoveAt
<1> HIDE DEF a, b, r
<1>4. /\ r \in Seq(CallType) /\ Len(r) = Len(a) + Len(b)
      /\ \A i \in 1..Len(a) + Len(b) : r[i] = IF i <= Len(a) THEN a[i] ELSE b[i - Len(a)]
  BY <1>1, <1>2, <1>3, ConcatProperties, Zenon
<1>5. Len(a) = k - 1 /\ Len(b) = Len(q) - k
  BY <1>0, <1>1, <1>2
<1>6. ASSUME NEW j \in 1..Len(q) - 1 PROVE r[j] = IF j < k THEN q[j] ELSE q[j + 1]
  <2>1. j \in 1..Len(a) + Len(b)
    BY <1>0, <1>5
  <2>2. CASE j < k
    <3>1. j <= Len(a) /\ j \in 1..(k - 1) - 1 + 1 /\ 1 + j - 1 = j
      BY <1>0, <1>5, <2>2
    <3> QED
      BY <1>1, <1>4, <2>1, <2>2, <3>1
  <2>3. CASE ~(j < k)
    <3>1. ~(j <= Len(a)) /\ j - Len(a) \in 1..Len(q) - (k + 1) + 1 /\ (k + 1) + (j - Len(a)) - 1 = j + 1
      BY <1>0, <1>5, <2>3
    <3> QED
      BY <1>2, <1>4, <2>1, <2>3, <3>1
  <2> QED
    BY <2>2, <2>3
<1>7. Len(r) = Len(q) - 1
  BY <1>0, <1>4, <1>5
<1> QED
  BY <1>4, <1>6, <1>7 DEF r

\* The first call of nut.js goes.
LEMMA FirstGone ==
  ASSUME NEW q \in Seq(CallType), 1 \in 1..Len(q), NEW r, r = RemoveAt(q, 1)
  PROVE  /\ Len(r) \in Nat /\ \A i \in 1..Len(r) : i + 1 \in 1..Len(q) /\ r[i] = q[i + 1]
         /\ \A i \in 0..Len(r) : UpBehind(q, i + 1) => UpBehind(r, i)
         /\ UpBehind(q, 0) => q[1][1] = "up" \/ UpBehind(r, 0)
<1>0. Len(q) \in Nat /\ 1 <= Len(q)
  BY LenProperties
<1>1. /\ Len(r) = Len(q) - 1
      /\ \A j \in 1..Len(q) - 1 : r[j] = IF j < 1 THEN q[j] ELSE q[j + 1]
  BY CallGone
<1>2. /\ Len(r) \in Nat /\ \A i \in 1..Len(r) : i + 1 \in 1..Len(q) /\ r[i] = q[i + 1]
  BY <1>0, <1>1
<1>3. ASSUME NEW i \in 0..Len(r), UpBehind(q, i + 1) PROVE UpBehind(r, i)
  <2>1. PICK j \in (i + 1) + 1..Len(q) : q[j][1] = "up"
    BY <1>3 DEF UpBehind
  <2>2. j - 1 \in i + 1..Len(r) /\ j - 1 \in 1..Len(r) /\ (j - 1) + 1 = j
    BY <1>0, <1>1
  <2>3. r[j - 1] = q[j]
    BY <1>2, <2>2
  <2> QED
    BY <2>1, <2>2, <2>3 DEF UpBehind
<1>4. ASSUME UpBehind(q, 0), q[1][1] # "up" PROVE UpBehind(r, 0)
  <2>1. PICK j \in 0 + 1..Len(q) : q[j][1] = "up"
    BY <1>4 DEF UpBehind
  <2>2. j \in (0 + 1) + 1..Len(q) /\ 0 \in 0..Len(r)
    BY <1>0, <1>1, <1>4, <2>1
  <2>3. UpBehind(q, 0 + 1)
    BY <2>1, <2>2 DEF UpBehind
  <2> QED
    BY <1>3, <2>2, <2>3
<1> QED
  BY <1>2, <1>3, <1>4

MouseInv == MouseTyped /\ ButtonInv

\* A call is added, as the frame asks.
LEMMA QueuedKeeps ==
  ASSUME MouseInv, NEW c, Queued(c) \/ Waits,
         UNCHANGED <<backend, button>>, {authenticated', permitted', dragInProgress'} \subseteq BOOLEAN,
         \/ dragInProgress'
         \/ excused'
         \/ ~excused /\ ~dragInProgress /\ (Queued(c) /\ backend = "nutjs" => c[1] # "down")
         \/ Queued(c) /\ c[1] = "up"
  PROVE  MouseInv'
<1>0. MouseTyped /\ ButtonInv /\ Len(calls) \in Nat /\ resolving \in Nat /\ calls \in Seq(CallType)
  BY MouseNumbers DEF MouseInv, MouseTyped
<1>1. CASE Queued(c)
  <2>1. /\ c \in CallType /\ (backend = "nutjs" => Short(c)) /\ calls' = Append(calls, c) /\ resolving' = resolving
        /\ Len(calls) + resolving < MaxCalls
    BY <1>1 DEF Queued, Single
  <2>2. /\ calls' \in Seq(CallType) /\ Len(calls') = Len(calls) + 1
        /\ \A i \in 1..Len(calls) : calls'[i] = calls[i]
        /\ calls'[Len(calls) + 1] = c
        /\ \A i \in 0..Len(calls) : /\ UpBehind(calls, i) => UpBehind(calls', i)
                                   /\ c[1] = "up" => UpBehind(calls', i)
    BY <1>0, <2>1, QueueGrows
  <2>3. MouseTyped'
    <3>1. Len(calls') + resolving' <= MaxCalls
      BY <1>0, <2>1, <2>2, MaxCallsAssumption
    <3> QED
      BY <1>0, <2>1, <2>2, <3>1 DEF MouseTyped
  <2>4. \A i \in 1..Len(calls') : i \in 1..Len(calls) \/ i = Len(calls) + 1
    BY <1>0, <2>2
  <2>5. \A i \in 1..Len(calls) : i \in 0..Len(calls)
    BY <1>0
  <2>6. 0 \in 0..Len(calls)
    BY <1>0
  <2>7. ASSUME backend = "nutjs" PROVE \A i \in 1..Len(calls') : Short(calls'[i])
    BY <1>0, <2>1, <2>2, <2>4, <2>7 DEF ButtonInv
  <2>8. ASSUME backend = "nutjs", ~excused', ~dragInProgress'
        PROVE  /\ \A i \in 1..Len(calls') : calls'[i][1] = "down" => UpBehind(calls', i)
               /\ button = "drag" => UpBehind(calls', 0)
    <3>1. CASE ~excused /\ ~dragInProgress /\ c[1] # "down"
      <4>1. /\ \A i \in 1..Len(calls) : calls[i][1] = "down" => UpBehind(calls, i)
            /\ button = "drag" => UpBehind(calls, 0)
        BY <1>0, <2>8, <3>1 DEF ButtonInv
      <4>2. button = "drag" => UpBehind(calls', 0)
        BY <2>2, <2>6, <4>1 DEF UpBehind
      <4>3. ASSUME NEW i \in 1..Len(calls'), calls'[i][1] = "down" PROVE UpBehind(calls', i)
        <5>1. i # Len(calls) + 1
          BY <2>2, <3>1, <4>3
        <5>2. i \in 1..Len(calls) /\ i \in 0..Len(calls) /\ calls[i][1] = "down"
          BY <2>2, <2>4, <2>5, <4>3, <5>1
        <5> QED
          BY <2>2, <4>1, <5>2 DEF UpBehind
      <4> QED
        BY <4>2, <4>3
    <3>2. CASE c[1] = "up"
      <4>1. UpBehind(calls', 0)
        BY <2>2, <2>6, <3>2 DEF UpBehind
      <4>2. ASSUME NEW i \in 1..Len(calls'), calls'[i][1] = "down" PROVE UpBehind(calls', i)
        <5>1. i # Len(calls) + 1
          BY <2>2, <3>2, <4>2
        <5>2. i \in 0..Len(calls)
          BY <2>4, <2>5, <5>1
        <5> QED
          BY <2>2, <3>2, <5>2 DEF UpBehind
      <4> QED
        BY <4>1, <4>2
    <3> QED
      BY <1>1, <2>8, <3>1, <3>2
  <2> QED
    BY <2>3, <2>7, <2>8 DEF MouseInv, ButtonInv
<1>2. CASE Waits /\ ~Queued(c)
  <2>1. calls' = calls /\ resolving' \in Nat /\ Len(calls) + resolving' <= MaxCalls
    BY <1>2 DEF Waits
  <2>2. MouseTyped'
    BY <1>0, <2>1 DEF MouseTyped
  <2>3. ButtonInv'
    BY <1>0, <1>2, <2>1 DEF ButtonInv, UpBehind
  <2> QED
    BY <2>2, <2>3 DEF MouseInv
<1> QED
  BY <1>1, <1>2

\* What is left of a call of several events is a call.
LEMMA RestIsCall ==
  ASSUME NEW c \in Seq(Events), c # <<>>, Len(c) # 1
  PROVE  Tail(c) \in CallType
<1> DEFINE t == Tail(c)
           n == Len(c)
<1>1. t \in Seq(Events) /\ Len(t) = n - 1 /\ n \in Nat \ {0}
  BY EmptySeq, HeadTailProperties, LenProperties
<1> HIDE DEF t, n
<1>2. n # 1
  BY DEF n
<1>3. Len(t) # 0
  BY <1>1, <1>2
<1>4. t # <<>>
  BY <1>3
<1> QED
  BY <1>1, <1>4 DEF t, CallType

\* An event of a call happens.
LEMMA EventKeeps ==
  ASSUME MouseInv, NEW i \in 1..Len(calls), ProviderEvent(i), excused' = excused
  PROVE  MouseInv'
<1>0. MouseTyped /\ ButtonInv /\ Len(calls) \in Nat /\ resolving \in Nat /\ calls \in Seq(CallType)
      /\ Len(calls) + resolving <= MaxCalls
  BY MouseNumbers DEF MouseInv, MouseTyped
<1>1. /\ backend = "nutjs" => i = 1
      /\ button' = ButtonAfter(Head(calls[i]))
      /\ calls' = CallsAfter(i)
      /\ UNCHANGED <<authenticated, permitted, backend, dragInProgress, resolving>>
  BY DEF ProviderEvent, sessionVars
<1>2. calls[i] \in Seq(Events) /\ calls[i] # <<>>
  BY <1>0, ElementOfSeq DEF CallType
<1>3. Head(calls[i]) = calls[i][1] /\ Len(calls[i]) \in Nat \ {0} /\ Head(calls[i]) \in Events
  BY <1>2, EmptySeq, HeadTailProperties
<1>4. button' \in {"up", "drag", "click"} /\ (backend = "cliclick" => button' = "up")
  <2>1. button \in {"up", "drag", "click"} /\ (backend = "cliclick" => button = "up")
    BY <1>0 DEF MouseTyped
  <2> QED
    BY <1>1, <1>3, <2>1 DEF ButtonAfter, HoldsButton, Events
<1>5. calls' \in Seq(CallType) /\ Len(calls') \in Nat /\ Len(calls') <= Len(calls)
  <2>0. RemoveAt(calls, i) \in Seq(CallType) /\ Len(RemoveAt(calls, i)) = Len(calls) - 1
    BY <1>0, CallGone
  <2>1. CASE Len(calls[i]) = 1
    BY <1>0, <1>1, <2>0, <2>1 DEF CallsAfter
  <2>2. CASE Len(calls[i]) # 1
    <3>1. Tail(calls[i]) \in CallType
      BY <1>2, <1>3, <2>2, RestIsCall
    <3>2. CASE backend = "nutjs"
      <4>1. calls' = Append(RemoveAt(calls, i), Tail(calls[i]))
        BY <1>1, <2>2, <3>2 DEF CallsAfter
      <4>2. calls' \in Seq(CallType) /\ Len(calls') = (Len(calls) - 1) + 1
        BY <2>0, <3>1, <4>1, AppendProperties
      <4> QED
        BY <1>0, <4>2
    <3>3. CASE backend # "nutjs"
      <4>1. calls' = [calls EXCEPT ![i] = Tail(@)]
        BY <1>1, <2>2, <3>3 DEF CallsAfter
      <4>2. calls' \in Seq(CallType) /\ Len(calls') = Len(calls)
        BY <1>0, <3>1, <4>1, ExceptSeq
      <4> QED
        BY <1>0, <4>2
    <3> QED
      BY <3>2, <3>3
  <2> QED
    BY <2>1, <2>2
<1>6. MouseTyped'
  <2>1. Len(calls') + resolving' <= MaxCalls
    BY <1>0, <1>1, <1>5, MaxCallsAssumption
  <2> QED
    BY <1>0, <1>1, <1>4, <1>5, <2>1 DEF MouseTyped
<1>7. ASSUME backend = "nutjs"
      PROVE  /\ \A j \in 1..Len(calls') : Short(calls'[j])
             /\ ~excused /\ ~dragInProgress =>
                  /\ \A j \in 1..Len(calls') : calls'[j][1] = "down" => UpBehind(calls', j)
                  /\ button' = "drag" => UpBehind(calls', 0)
  <2> DEFINE r == RemoveAt(calls, 1)
  <2>1. i = 1 /\ 1 \in 1..Len(calls) /\ \A j \in 1..Len(calls) : Short(calls[j])
    BY <1>0, <1>1, <1>7 DEF ButtonInv
  <2>2. r \in Seq(CallType)
    BY <1>0, <2>1, CallGone
  <2>3. /\ Len(r) \in Nat /\ \A j \in 1..Len(r) : j + 1 \in 1..Len(calls) /\ r[j] = calls[j + 1]
        /\ \A j \in 0..Len(r) : UpBehind(calls, j + 1) => UpBehind(r, j)
        /\ UpBehind(calls, 0) => calls[1][1] = "up" \/ UpBehind(r, 0)
    BY <1>0, <2>1, FirstGone
  <2>4. /\ 0 \in 0..Len(calls') /\ \A j \in 0..Len(r) : UpBehind(r, j) => UpBehind(calls', j)
        /\ \A j \in 1..Len(calls') : \/ (j \in 1..Len(r) /\ calls'[j] = r[j])
                                      \/ (calls'[j][1] = "click" /\ Short(calls'[j]))
    <3>1. CASE Len(calls[1]) = 1
      <4>1. calls' = r
        BY <1>1, <2>1, <3>1 DEF CallsAfter
      <4> HIDE DEF r
      <4> QED
        BY <2>3, <4>1 DEF UpBehind
    <3>2. CASE Len(calls[1]) # 1
      <4> DEFINE t == Tail(calls[1])
      <4>1. Len(calls[1]) = 2 /\ calls[1][2] = "click"
        BY <2>1, <3>2 DEF Short
      <4>2. t \in CallType
        BY <1>2, <1>3, <2>1, <3>2, RestIsCall
      <4>3. Len(t) = 1 /\ t[1] = "click"
        <5>1. /\ Len(t) = Len(calls[1]) - 1
              /\ \A j \in 1..Len(calls[1]) - 1 : t[j] = calls[1][j + 1]
          BY <1>2, <2>1, HeadTailProperties
        <5>2. 2 - 1 = 1 /\ 1 \in 1..2 - 1 /\ 1 + 1 = 2
          OBVIOUS
        <5> HIDE DEF t
        <5> QED
          BY <4>1, <5>1, <5>2
      <4>4. calls' = Append(r, t)
        BY <1>1, <1>7, <2>1, <3>2 DEF CallsAfter
      <4> HIDE DEF r, t
      <4>5. /\ Len(calls') = Len(r) + 1
            /\ \A j \in 1..Len(r) : calls'[j] = r[j]
            /\ calls'[Len(r) + 1] = t
            /\ \A j \in 0..Len(r) : UpBehind(r, j) => UpBehind(calls', j)
        <5>1. /\ Len(Append(r, t)) = Len(r) + 1
              /\ \A j \in 1..Len(r) : Append(r, t)[j] = r[j]
              /\ Append(r, t)[Len(r) + 1] = t
              /\ \A j \in 0..Len(r) : UpBehind(r, j) => UpBehind(Append(r, t), j)
          <6>1. \A q \in Seq(CallType) :
                  /\ Len(Append(q, t)) = Len(q) + 1
                  /\ \A j \in 1..Len(q) : Append(q, t)[j] = q[j]
                  /\ Append(q, t)[Len(q) + 1] = t
                  /\ \A j \in 0..Len(q) : UpBehind(q, j) => UpBehind(Append(q, t), j)
            BY <4>2, QueueGrows DEF UpBehind
          <6> QED
            BY <2>2, <6>1, Zenon
        <5> QED
          BY <4>4, <5>1 DEF UpBehind
      <4>6. ASSUME NEW j \in 1..Len(calls')
            PROVE  \/ (j \in 1..Len(r) /\ calls'[j] = r[j])
                   \/ (calls'[j][1] = "click" /\ Short(calls'[j]))
        <5>1. j \in 1..Len(r) \/ j = Len(r) + 1
          BY <2>3, <4>5
        <5> QED
          BY <4>3, <4>5, <5>1 DEF Short
      <4> QED
        BY <2>3, <4>5, <4>6
    <3> QED
      BY <3>1, <3>2
  <2> HIDE DEF r
  <2>5. \A j \in 1..Len(calls') : Short(calls'[j])
    BY <2>1, <2>3, <2>4
  <2>6. ASSUME ~excused, ~dragInProgress
        PROVE  /\ \A j \in 1..Len(calls') : calls'[j][1] = "down" => UpBehind(calls', j)
               /\ button' = "drag" => UpBehind(calls', 0)
    <3>1. /\ \A j \in 1..Len(calls) : calls[j][1] = "down" => UpBehind(calls, j)
          /\ button = "drag" => UpBehind(calls, 0)
      BY <1>0, <1>7, <2>6 DEF ButtonInv
    <3>2. ASSUME NEW j \in 1..Len(calls'), calls'[j][1] = "down" PROVE UpBehind(calls', j)
      <4>1. j \in 1..Len(r) /\ calls'[j] = r[j] /\ j \in 0..Len(r)
        BY <2>3, <2>4, <3>2
      <4>2. j + 1 \in 1..Len(calls) /\ calls[j + 1][1] = "down"
        BY <2>3, <3>2, <4>1
      <4>3. UpBehind(calls, j + 1)
        BY <3>1, <4>2
      <4> QED
        BY <2>3, <2>4, <4>1, <4>3
    <3>3. ASSUME button' = "drag" PROVE UpBehind(calls', 0)
      <4>0. 0 \in 0..Len(r) /\ 0 + 1 = 1
        BY <2>3
      <4>1. button' = ButtonAfter(calls[1][1]) /\ calls[1][1] \in Events
        BY <1>1, <1>3, <2>1
      <4>2. CASE calls[1][1] = "down"
        <5>1. UpBehind(calls, 0 + 1)
          BY <2>1, <3>1, <4>0, <4>2
        <5> QED
          BY <2>3, <2>4, <4>0, <5>1
      <4>3. CASE calls[1][1] # "down"
        <5>1. button = "drag" /\ calls[1][1] # "up"
          BY <3>3, <4>1, <4>3 DEF ButtonAfter, Events
        <5> QED
          BY <2>3, <2>4, <3>1, <4>0, <5>1
      <4> QED
        BY <4>2, <4>3
    <3> QED
      BY <3>2, <3>3
  <2> QED
    BY <2>5, <2>6
<1>8. ButtonInv'
  BY <1>1, <1>7 DEF ButtonInv
<1> QED
  BY <1>6, <1>8 DEF MouseInv

\* A call fails: what counts is the end of a drag.
LEMMA FailureKeeps ==
  ASSUME MouseInv, NEW i \in 1..Len(calls), ProviderFails(i), excused \in BOOLEAN,
         excused' = (excused \/ "up" \in Range(calls[i]))
  PROVE  MouseInv'
<1>0. MouseTyped /\ ButtonInv /\ Len(calls) \in Nat /\ resolving \in Nat /\ calls \in Seq(CallType)
      /\ Len(calls) + resolving <= MaxCalls
  BY MouseNumbers DEF MouseInv, MouseTyped
<1>1. /\ backend = "nutjs" => i = 1
      /\ calls' = RemoveAt(calls, i)
      /\ UNCHANGED <<authenticated, permitted, backend, dragInProgress, resolving, button>>
  BY DEF ProviderFails, sessionVars
<1>2. calls' \in Seq(CallType) /\ Len(calls') = Len(calls) - 1
  BY <1>0, <1>1, CallGone
<1>3. Len(calls') + resolving' <= MaxCalls
  BY <1>0, <1>1, <1>2, MaxCallsAssumption
<1>4. MouseTyped'
  BY <1>0, <1>1, <1>2, <1>3 DEF MouseTyped
<1>5. ASSUME backend = "nutjs"
      PROVE  /\ \A j \in 1..Len(calls') : Short(calls'[j])
             /\ ~excused' /\ ~dragInProgress =>
                  /\ \A j \in 1..Len(calls') : calls'[j][1] = "down" => UpBehind(calls', j)
                  /\ button = "drag" => UpBehind(calls', 0)
  <2>1. i = 1 /\ 1 \in 1..Len(calls) /\ \A j \in 1..Len(calls) : Short(calls[j])
    BY <1>0, <1>1, <1>5 DEF ButtonInv
  <2>2. /\ Len(calls') \in Nat /\ \A j \in 1..Len(calls') : j + 1 \in 1..Len(calls) /\ calls'[j] = calls[j + 1]
        /\ \A j \in 0..Len(calls') : UpBehind(calls, j + 1) => UpBehind(calls', j)
        /\ UpBehind(calls, 0) => calls[1][1] = "up" \/ UpBehind(calls', 0)
    BY <1>0, <1>1, <2>1, FirstGone
  <2>3. ASSUME ~excused', ~dragInProgress
        PROVE  /\ \A j \in 1..Len(calls') : calls'[j][1] = "down" => UpBehind(calls', j)
               /\ button = "drag" => UpBehind(calls', 0)
    <3>1. ~excused /\ "up" \notin Range(calls[1])
      BY <2>1, <2>3
    <3>2. /\ \A j \in 1..Len(calls) : calls[j][1] = "down" => UpBehind(calls, j)
          /\ button = "drag" => UpBehind(calls, 0)
      BY <1>0, <1>5, <2>3, <3>1 DEF ButtonInv
    <3>3. calls[1][1] # "up"
      <4>1. calls[1] \in Seq(Events) /\ calls[1] # <<>>
        BY <1>0, <2>1, ElementOfSeq DEF CallType
      <4>2. 1 \in DOMAIN calls[1]
        BY <4>1, EmptySeq, LenProperties
      <4> QED
        BY <3>1, <4>2 DEF Range
    <3>4. \A j \in 1..Len(calls') : j \in 0..Len(calls')
      BY <2>2
    <3> QED
      BY <2>2, <3>2, <3>3, <3>4
  <2> QED
    BY <2>1, <2>2, <2>3
<1>6. ButtonInv'
  BY <1>1, <1>5 DEF ButtonInv
<1> QED
  BY <1>4, <1>6 DEF MouseInv

\* The displays have answered.
LEMMA ResolvesKeeps ==
  ASSUME MouseInv, NEW found \in BOOLEAN, Resolves(found), excused' = excused
  PROVE  MouseInv'
<1>0. MouseTyped /\ ButtonInv /\ Len(calls) \in Nat /\ resolving \in Nat /\ calls \in Seq(CallType)
      /\ Len(calls) + resolving <= MaxCalls
  BY MouseNumbers DEF MouseInv, MouseTyped
<1>1. /\ resolving > 0 /\ resolving' = resolving - 1
      /\ calls' = IF found THEN Append(calls, <<"move">>) ELSE calls
      /\ UNCHANGED <<authenticated, permitted, backend, button, dragInProgress>>
  BY DEF Resolves, sessionVars, osVars
<1> DEFINE c == <<"move">>
<1>2. c \in CallType /\ c[1] = "move" /\ Len(c) = 1
  BY CallSteps DEF Events
<1> HIDE DEF c
<1>3. /\ Append(calls, c) \in Seq(CallType) /\ Len(Append(calls, c)) = Len(calls) + 1
      /\ \A j \in 1..Len(calls) : Append(calls, c)[j] = calls[j]
      /\ Append(calls, c)[Len(calls) + 1] = c
      /\ \A j \in 0..Len(calls) : UpBehind(calls, j) => UpBehind(Append(calls, c), j)
  <2>1. \A q \in Seq(CallType) :
          /\ Append(q, c) \in Seq(CallType) /\ Len(Append(q, c)) = Len(q) + 1
          /\ \A j \in 1..Len(q) : Append(q, c)[j] = q[j]
          /\ Append(q, c)[Len(q) + 1] = c
          /\ \A j \in 0..Len(q) : UpBehind(q, j) => UpBehind(Append(q, c), j)
    BY <1>2, QueueGrows DEF UpBehind
  <2> QED
    BY <1>0, <2>1, Zenon
<1>4. CASE found
  <2>1. /\ calls' \in Seq(CallType) /\ Len(calls') = Len(calls) + 1
        /\ \A j \in 1..Len(calls) : calls'[j] = calls[j]
        /\ calls'[Len(calls) + 1] = c
        /\ \A j \in 0..Len(calls) : UpBehind(calls, j) => UpBehind(calls', j)
    BY <1>1, <1>3, <1>4 DEF c
  <2>2. MouseTyped'
    <3>1. resolving' \in Nat /\ Len(calls') + resolving' <= MaxCalls
      BY <1>0, <1>1, <2>1, MaxCallsAssumption
    <3> QED
      BY <1>0, <1>1, <2>1, <3>1 DEF MouseTyped
  <2>3. ASSUME NEW j \in 1..Len(calls') PROVE j \in 1..Len(calls) \/ calls'[j] = c
    <3>1. j \in 1..Len(calls) \/ j = Len(calls) + 1
      BY <1>0, <2>1
    <3> QED
      BY <2>1, <3>1
  <2>4. ASSUME backend = "nutjs", NEW j \in 1..Len(calls') PROVE Short(calls'[j])
    BY <1>0, <1>2, <2>1, <2>3, <2>4 DEF ButtonInv, Short
  <2>5. ASSUME backend = "nutjs", ~excused, ~dragInProgress
        PROVE  /\ \A j \in 1..Len(calls') : calls'[j][1] = "down" => UpBehind(calls', j)
               /\ button = "drag" => UpBehind(calls', 0)
    <3>1. /\ \A j \in 1..Len(calls) : calls[j][1] = "down" => UpBehind(calls, j)
          /\ button = "drag" => UpBehind(calls, 0)
      BY <1>0, <2>5 DEF ButtonInv
    <3>2. 0 \in 0..Len(calls) /\ \A j \in 1..Len(calls) : j \in 0..Len(calls)
      BY <1>0
    <3>3. ASSUME NEW j \in 1..Len(calls'), calls'[j][1] = "down" PROVE UpBehind(calls', j)
      <4>1. j \in 1..Len(calls) /\ calls[j][1] = "down"
        BY <1>2, <2>1, <2>3, <3>3
      <4> QED
        BY <2>1, <3>1, <3>2, <4>1 DEF UpBehind
    <3>4. button = "drag" => UpBehind(calls', 0)
      BY <2>1, <3>1, <3>2 DEF UpBehind
    <3> QED
      BY <3>3, <3>4
  <2>6. ButtonInv'
    BY <1>1, <2>4, <2>5 DEF ButtonInv
  <2> QED
    BY <2>2, <2>6 DEF MouseInv
<1>5. CASE ~found
  <2>1. calls' = calls
    BY <1>1, <1>5
  <2>2. resolving' \in Nat /\ Len(calls') + resolving' <= MaxCalls
    BY <1>0, <1>1, <2>1, MaxCallsAssumption
  <2>3. MouseTyped'
    BY <1>0, <1>1, <2>1, <2>2 DEF MouseTyped
  <2>4. ButtonInv'
    BY <1>0, <1>1, <2>1 DEF ButtonInv, UpBehind
  <2> QED
    BY <2>3, <2>4 DEF MouseInv
<1> QED
  BY <1>4, <1>5

\* A step that leaves the controller and the button alone.
LEMMA MouseStays ==
  ASSUME MouseInv, UNCHANGED <<backend, button, dragInProgress, resolving, calls>>,
         {authenticated', permitted'} \subseteq BOOLEAN, excused => excused'
  PROVE  MouseInv'
BY DEF MouseInv, MouseTyped, ButtonInv, UpBehind

-----------------------------------------------------------------------------
(* The path as a whole.                                                    *)

IInv == PathInv /\ MouseInv

\* A frame is delivered.
LEMMA DeliveredKeeps ==
  ASSUME IInv, NEW passes \in BOOLEAN, Delivered(passes)
  PROVE  IInv'
<1>0. PathInv /\ MouseInv /\ CoalescerInv /\ PadTyped /\ DragInv /\ MouseTyped
  BY DEF IInv, PathInv, MouseInv
<1>1. /\ wire # <<>> /\ wire' = Tail(wire) /\ excused' = (excused /\ ~DragEndsWell)
      /\ UNCHANGED <<touching, dragState, dragActive, dragTimer, link, conn, owner, batch, callbacks, owed>>
      /\ UNCHANGED <<authenticated, permitted, backend, button>>
      /\ Handle(Head(wire), passes)
  BY DEF Delivered, gestureVars, coalescerVars, sessionVars, osVars
<1>2. /\ CoalescerInv'
      /\ Head(wire) = wire[1] /\ wire[1] \in Placed
      /\ \A i \in 1..Len(wire') : i + 1 \in 1..Len(wire) /\ wire'[i] = wire[i + 1]
      /\ \A i \in 0..Len(wire') : EndBehind(wire, i + 1) => EndBehind(wire', i)
      /\ EndBehind(wire, 0) => wire[1].t = "MouseDragEnd" \/ EndBehind(wire', 0)
  BY <1>0, <1>1, HeadTaken
<1>3. Outcome(wire[1])
  BY <1>0, <1>1, <1>2, Handled
<1>4. excused' \in BOOLEAN /\ dragInProgress \in BOOLEAN /\ dragInProgress' \in BOOLEAN
  BY <1>0, <1>1, <1>3 DEF Outcome, MouseTyped
<1>5. PadTyped'
  BY <1>0, <1>1, <1>4 DEF PadTyped
<1>6. /\ DragEndsWell => wire[1].t = "MouseDragEnd" /\ dragInProgress
      /\ DragEndsWell => \A i \in 1..Len(wire) : wire[i].t # "MouseDragStart"
  BY <1>2 DEF DragEndsWell
<1>7. MouseInv'
  <2>0. {authenticated', permitted', dragInProgress'} \subseteq BOOLEAN /\ UNCHANGED <<backend, button>>
    BY <1>0, <1>1, <1>4 DEF MouseTyped
  <2> DEFINE m == <<"move">>
  <2>1. m[1] = "move"
    OBVIOUS
  <2> HIDE DEF m
  <2>2. CASE wire[1].t \notin {"MouseDragStart", "MouseDragEnd"}
    <3>1. /\ dragInProgress' = dragInProgress
          /\ Waits \/ \E c : Queued(c) /\ (backend = "nutjs" => c[1] # "down")
      BY <1>3, <2>2 DEF Outcome
    <3>2. dragInProgress' \/ excused' \/ (~excused /\ ~dragInProgress)
      BY <1>1, <1>6, <2>2, <3>1
    <3>3. CASE Waits
      BY <1>0, <2>0, <2>1, <3>2, <3>3, QueuedKeeps
    <3>4. ASSUME NEW c, Queued(c), backend = "nutjs" => c[1] # "down" PROVE MouseInv'
      BY <1>0, <2>0, <3>2, <3>4, QueuedKeeps
    <3> QED
      BY <3>1, <3>3, <3>4
  <2>3. CASE wire[1].t = "MouseDragStart"
    <3>1. dragInProgress' /\ (Waits \/ \E c : Queued(c))
      BY <1>3, <2>3 DEF Outcome
    <3>2. CASE Waits
      BY <1>0, <2>0, <3>1, <3>2, QueuedKeeps
    <3>3. ASSUME NEW c, Queued(c) PROVE MouseInv'
      BY <1>0, <2>0, <3>1, <3>3, QueuedKeeps
    <3> QED
      BY <3>1, <3>2, <3>3
  <2>4. CASE wire[1].t = "MouseDragEnd"
    <3>1. IF dragInProgress THEN \E c : Queued(c) /\ c[1] = "up" ELSE Waits
      BY <1>3, <2>4 DEF Outcome
    <3>2. CASE dragInProgress
      <4>1. ASSUME NEW c, Queued(c), c[1] = "up" PROVE MouseInv'
        BY <1>0, <2>0, <4>1, QueuedKeeps
      <4> QED
        BY <3>1, <3>2, <4>1
    <3>3. CASE ~dragInProgress
      <4>1. Waits /\ (excused' \/ ~excused)
        BY <1>1, <1>6, <3>1, <3>3
      <4> QED
        BY <1>0, <2>0, <2>1, <3>3, <4>1, QueuedKeeps
    <3> QED
      BY <3>2, <3>3
  <2> QED
    BY <2>2, <2>3, <2>4
<1>8. DragInv'
  <2> SUFFICES ASSUME ~excused'
               PROVE  /\ \A i \in 1..Len(wire') : wire'[i].t = "MouseDragStart" => dragActive' \/ EndBehind(wire', i)
                      /\ dragInProgress' => dragActive' \/ EndBehind(wire', 0)
    BY DEF DragInv
  <2>1. CASE DragEndsWell
    <3>1. dragInProgress' = FALSE
      BY <1>3, <1>6, <2>1 DEF Outcome
    <3>2. \A i \in 1..Len(wire') : wire'[i].t # "MouseDragStart"
      BY <1>2, <1>6, <2>1
    <3> QED
      BY <3>1, <3>2
  <2>2. CASE ~DragEndsWell
    <3>1. /\ \A i \in 1..Len(wire) : wire[i].t = "MouseDragStart" => dragActive \/ EndBehind(wire, i)
          /\ dragInProgress => dragActive \/ EndBehind(wire, 0)
      BY <1>0, <1>1, <2>2 DEF DragInv
    <3>2. ASSUME NEW i \in 1..Len(wire'), wire'[i].t = "MouseDragStart" PROVE dragActive' \/ EndBehind(wire', i)
      <4>1. i + 1 \in 1..Len(wire) /\ wire[i + 1].t = "MouseDragStart" /\ i \in 0..Len(wire')
        BY <1>2, <3>2
      <4> QED
        BY <1>1, <1>2, <3>1, <4>1
    <3>3. ASSUME dragInProgress' PROVE dragActive' \/ EndBehind(wire', 0)
      <4>1. CASE wire[1].t = "MouseDragStart"
        <5>1. wire # <<>> /\ wire \in Seq(Placed)
          BY <1>0, <1>1 DEF CoalescerInv
        <5>2. Len(wire) \in Nat \ {0} /\ Len(wire') = Len(wire) - 1
          BY <1>1, <5>1, EmptySeq, HeadTailProperties
        <5>3. 1 \in 1..Len(wire) /\ 0 \in 0..Len(wire') /\ 0 + 1 = 1
          BY <5>2
        <5>4. dragActive \/ EndBehind(wire, 0 + 1)
          BY <3>1, <4>1, <5>3
        <5> QED
          BY <1>1, <1>2, <5>3, <5>4
      <4>2. CASE wire[1].t # "MouseDragStart"
        <5>1. wire[1].t # "MouseDragEnd" /\ dragInProgress
          BY <1>3, <3>3, <4>2 DEF Outcome
        <5> QED
          BY <1>1, <1>2, <3>1, <5>1
      <4> QED
        BY <4>1, <4>2
    <3> QED
      BY <3>2, <3>3
  <2> QED
    BY <2>1, <2>2
<1> QED
  BY <1>2, <1>5, <1>7, <1>8 DEF IInv, PathInv

LEMMA InitHolds == Init => IInv
<1> SUFFICES ASSUME Init PROVE IInv
  OBVIOUS
<1>0. PadInit /\ MouseInit
  BY DEF Init
<1>1. CoalescerInv
  <2>1. batch = NoBatch /\ owed = Nothing /\ wire = <<>>
    BY <1>0 DEF PadInit
  <2>2. batch \in BatchType /\ owed = BatchMotion(batch)
    BY <2>1, NoBatchIs
  <2>3. {batch.n, batch.h} \subseteq Amounts
    <3>1. NoBatch.n = 0 /\ NoBatch.h = 0
      BY DEF NoBatch
    <3> QED
      BY <2>1, <3>1, BoundsAssumption DEF Amounts
  <2>4. wire \in Seq(Placed) /\ Len(wire) = 0
    BY <2>1
  <2>5. Len(Flushed(batch)) = 0
    BY <2>1, EmptyFlush
  <2>6. Len(wire) + Len(Flushed(batch)) <= MaxWire + 2
    BY <2>4, <2>5, BoundsAssumption
  <2> QED
    BY <2>2, <2>3, <2>4, <2>6 DEF CoalescerInv
<1>2. PadTyped
  <2>1. /\ touching = FALSE /\ dragState = "idle" /\ dragActive = FALSE /\ dragTimer = FALSE /\ excused = FALSE
        /\ link = "down" /\ conn = 1 /\ owner = 0 /\ callbacks = 0
    BY <1>0 DEF PadInit
  <2>2. MaxConns \in Nat /\ MaxConns > 0 /\ MaxCallbacks \in Nat
    BY BoundsAssumption
  <2>3. conn \in 1..MaxConns /\ owner \in 0..conn /\ callbacks \in 0..MaxCallbacks
    BY <2>1, <2>2
  <2> QED
    BY <2>1, <2>3 DEF PadTyped
<1>3. DragInv
  <2>1. \A i \in 1..Len(wire) : FALSE
    BY <1>0 DEF PadInit
  <2>2. dragInProgress = FALSE
    BY <1>0 DEF MouseInit
  <2> QED
    BY <2>1, <2>2 DEF DragInv
<1>4. MouseTyped /\ ButtonInv
  <2>1. /\ authenticated = FALSE /\ permitted = FALSE /\ backend \in Backends /\ dragInProgress = FALSE
        /\ resolving = 0 /\ calls = <<>> /\ button = "up"
    BY <1>0 DEF MouseInit
  <2>2. calls \in Seq(CallType) /\ Len(calls) = 0
    BY <2>1
  <2>3. Len(calls) + resolving <= MaxCalls
    BY <2>1, <2>2, MaxCallsAssumption
  <2>4. MouseTyped
    BY <2>1, <2>2, <2>3 DEF MouseTyped
  <2>5. \A i \in 1..Len(calls) : FALSE
    BY <2>2
  <2> QED
    BY <2>1, <2>4, <2>5 DEF ButtonInv
<1> QED
  BY <1>1, <1>2, <1>3, <1>4 DEF IInv, PathInv, MouseInv

LEMMA NextKeeps == IInv /\ [Next]_vars => IInv'
<1> SUFFICES ASSUME IInv, [Next]_vars PROVE IInv'
  OBVIOUS
<1>0. PathInv /\ MouseInv /\ CoalescerInv /\ PadTyped /\ DragInv /\ MouseTyped
  BY DEF IInv, PathInv, MouseInv
<1>a. {authenticated, permitted, excused} \subseteq BOOLEAN
  BY <1>0 DEF MouseTyped, PadTyped
<1>1. CASE SenderStep
  <2>1. UNCHANGED <<authenticated, permitted, backend, button, dragInProgress, resolving, calls>>
    BY <1>1 DEF SenderStep, mouseVars, sessionVars, controllerVars, osVars
  <2>2. CASE PadNext
    <3>1. PathInv'
      BY <1>0, <2>1, <2>2, PadKeeps
    <3>2. excused => excused'
      <4>1. SendDragEnd => (excused => excused')
        BY DEF SendDragEnd
      <4> QED
        BY <2>2, <4>1 DEF PadNext, Scroll, Move, Grant, LongPress, Terminate, FlushCallback, Release, Press
    <3>3. MouseInv'
      BY <1>0, <1>a, <2>1, <3>2, MouseStays
    <3> QED
      BY <3>1, <3>3 DEF IInv
  <2>3. CASE Connected
    <3>1. /\ link' = "connected"
          /\ UNCHANGED <<touching, dragState, dragActive, dragTimer, conn, owner, batch, callbacks, owed, wire, excused>>
      BY <2>3 DEF Connected, gestureVars, coalescerVars
    <3>2. CoalescerInv' /\ DragInv'
      BY <1>0, <2>1, <3>1 DEF CoalescerInv, DragInv, EndBehind
    <3>3. PadTyped'
      BY <1>0, <3>1 DEF PadTyped
    <3>4. MouseInv'
      BY <1>0, <1>a, <2>1, <3>1, MouseStays
    <3> QED
      BY <3>2, <3>3, <3>4 DEF IInv, PathInv
  <2> QED
    BY <1>1, <2>2, <2>3 DEF SenderStep
<1>2. ASSUME UNCHANGED padVars PROVE PathInv' \/ dragInProgress' # dragInProgress
  <2>1. UNCHANGED <<touching, dragState, dragActive, dragTimer, link, conn, owner, batch, callbacks, owed, wire, excused>>
    BY <1>2 DEF padVars, gestureVars, coalescerVars
  <2>2. CoalescerInv' /\ PadTyped'
    BY <1>0, <2>1 DEF CoalescerInv, PadTyped
  <2>3. dragInProgress' = dragInProgress => DragInv'
    BY <1>0, <2>1 DEF DragInv, EndBehind
  <2> QED
    BY <2>2, <2>3 DEF PathInv
<1>3. CASE ReceiverStep
  <2>1. UNCHANGED padVars /\ excused' = excused
    BY <1>3 DEF ReceiverStep, padVars
  <2>2. ASSUME NEW i \in 1..Len(calls), ProviderEvent(i) PROVE IInv'
    <3>1. MouseInv'
      BY <1>0, <2>1, <2>2, EventKeeps
    <3>2. dragInProgress' = dragInProgress
      BY <2>2 DEF ProviderEvent
    <3> QED
      BY <1>2, <2>1, <3>1, <3>2 DEF IInv
  <2>3. ASSUME NEW found \in BOOLEAN, Resolves(found) PROVE IInv'
    <3>1. MouseInv'
      BY <1>0, <2>1, <2>3, ResolvesKeeps
    <3>2. dragInProgress' = dragInProgress
      BY <2>3 DEF Resolves
    <3> QED
      BY <1>2, <2>1, <3>1, <3>2 DEF IInv
  <2> QED
    BY <1>3, <2>2, <2>3 DEF ReceiverStep, MouseNext
<1>4. CASE ProviderFailure
  <2>1. PICK i \in 1..Len(calls) :
               ProviderFails(i) /\ excused' = (excused \/ "up" \in Range(calls[i]))
    BY <1>4 DEF ProviderFailure
  <2>2. /\ excused' \in BOOLEAN /\ (excused => excused')
        /\ UNCHANGED <<touching, dragState, dragActive, dragTimer, link, conn, owner, batch, callbacks, owed, wire>>
    BY <1>4, <1>a, <2>1 DEF ProviderFailure, gestureVars, coalescerVars
  <2>3. MouseInv'
    BY <1>0, <1>a, <2>1, FailureKeeps
  <2>4. dragInProgress' = dragInProgress
    BY <2>1 DEF ProviderFails
  <2>5. CoalescerInv' /\ PadTyped'
    BY <1>0, <2>2 DEF CoalescerInv, PadTyped
  <2>6. DragInv'
    BY <1>0, <1>a, <2>2, <2>4 DEF DragInv, EndBehind
  <2> QED
    BY <2>3, <2>5, <2>6 DEF IInv, PathInv
<1>5. CASE Authenticates
  <2>1. /\ {authenticated', permitted'} \subseteq BOOLEAN /\ UNCHANGED padVars /\ excused' = excused
        /\ UNCHANGED <<backend, button, dragInProgress, resolving, calls>>
    BY <1>5 DEF Authenticates, controllerVars, osVars, padVars
  <2>2. MouseInv'
    BY <1>0, <2>1, MouseStays
  <2> QED
    BY <1>2, <2>1, <2>2 DEF IInv
<1>6. CASE AuthOkArrives
  <2>1. /\ link' = "authenticated"
        /\ UNCHANGED <<touching, dragState, dragActive, dragTimer, conn, owner, batch, callbacks, owed, wire, excused>>
        /\ UNCHANGED <<authenticated, permitted, backend, button, dragInProgress, resolving, calls>>
    BY <1>6 DEF AuthOkArrives, LearnsAuthOk, gestureVars, coalescerVars, mouseVars, sessionVars, controllerVars, osVars
  <2>2. CoalescerInv' /\ DragInv'
    BY <1>0, <2>1 DEF CoalescerInv, DragInv, EndBehind
  <2>3. PadTyped'
    BY <1>0, <2>1 DEF PadTyped
  <2>4. MouseInv'
    BY <1>0, <1>a, <2>1, MouseStays
  <2> QED
    BY <2>2, <2>3, <2>4 DEF IInv, PathInv
<1>7. ASSUME NEW renewed \in BOOLEAN, ConnectionEnds(renewed) PROVE IInv'
  <2>1. PathInv'
    BY <1>0, <1>7, DropKeeps
  <2>2. /\ {authenticated', permitted'} \subseteq BOOLEAN /\ (excused => excused')
        /\ UNCHANGED <<backend, button, dragInProgress, resolving, calls>>
    BY <1>7 DEF ConnectionEnds, Drops, controllerVars, osVars
  <2>3. MouseInv'
    BY <1>0, <2>2, MouseStays
  <2> QED
    BY <2>1, <2>3 DEF IInv
<1>8. CASE OtherClient
  <2>1. PathInv'
    BY <1>0, <1>8, OtherKeeps
  <2>2. UNCHANGED <<authenticated, permitted, backend, button, dragInProgress, resolving, calls, excused>>
    BY <1>8 DEF OtherClient, mouseVars, sessionVars, controllerVars, osVars
  <2>3. MouseInv'
    BY <1>0, <1>a, <2>2, MouseStays
  <2> QED
    BY <2>1, <2>3 DEF IInv
<1>9. CASE Refused
  <2>1. PathInv'
    BY <1>0, <1>9, RefusedKeeps
  <2>2. /\ UNCHANGED <<authenticated, permitted, backend, button, dragInProgress, resolving, calls>>
        /\ (excused => excused')
    BY <1>9 DEF Refused, mouseVars, sessionVars, controllerVars, osVars
  <2>3. MouseInv'
    BY <1>0, <1>a, <2>2, MouseStays
  <2> QED
    BY <2>1, <2>3 DEF IInv
<1>10. CASE Forbidden
  <2>1. ConnectionEnds(FALSE) /\ FALSE \in BOOLEAN
    BY <1>10 DEF Forbidden
  <2> QED
    BY <1>7, <2>1
<1>11. ASSUME NEW passes \in BOOLEAN, Delivered(passes) PROVE IInv'
  BY <1>11, DeliveredKeeps
<1>12. CASE UNCHANGED vars
  <2>1. /\ UNCHANGED padVars /\ UNCHANGED excused
        /\ UNCHANGED <<authenticated, permitted, backend, button, dragInProgress, resolving, calls>>
    BY <1>12 DEF vars, padVars, mouseVars, sessionVars, controllerVars, osVars
  <2>2. MouseInv'
    BY <1>0, <1>a, <2>1, MouseStays
  <2> QED
    BY <1>2, <2>1, <2>2 DEF IInv
<1> QED
  BY <1>1, <1>3, <1>4, <1>5, <1>6, <1>7, <1>8, <1>9, <1>10, <1>11, <1>12 DEF Next

LEMMA Invariant == Spec => []IInv
BY InitHolds, NextKeeps, PTL DEF Spec

-----------------------------------------------------------------------------
(* Theorems.                                                               *)

\* The touchpad, the coalescer, the wire, the controller and the provider keep their
\* types; never more than a flush of two frames follows the last frame that the wire had
\* room for (Touchpad.tsx, sendInput.ts, FrameCoalescer.ts, MouseController.ts).
THEOREM TypeCorrect == Spec => []TypeOK
<1>1. IInv => TypeOK
  <2> SUFFICES ASSUME IInv PROVE TypeOK
    OBVIOUS
  <2>0. CoalescerInv /\ PadTyped /\ MouseTyped
    BY DEF IInv, PathInv, MouseInv
  <2>1. Len(wire) <= MaxWire + 2
    <3>1. Len(wire) \in Nat /\ Len(Flushed(batch)) \in 0..2 /\ Len(wire) + Len(Flushed(batch)) <= MaxWire + 2
      BY <2>0, WireLength, FlushLength DEF CoalescerInv
    <3> QED
      BY <3>1, BoundsAssumption
  <2>2. batch \in [type : Coalesceable \cup {"none"}, n : Amounts, h : Amounts]
    <3>1. batch \in BatchType /\ batch.n \in Amounts /\ batch.h \in Amounts
      BY <2>0 DEF CoalescerInv
    <3>2. batch = [type |-> batch.type, n |-> batch.n, h |-> batch.h] /\ batch.type \in Coalesceable \cup {"none"}
      BY <3>1 DEF BatchType
    <3> QED
      BY <3>1, <3>2
  <2>3. PadTypeOK
    BY <2>0, <2>1, <2>2 DEF PadTypeOK, PadTyped
  <2>4. /\ Len(calls) \in Nat /\ resolving \in Nat /\ MaxCalls \in Nat /\ Len(calls) + resolving <= MaxCalls
        /\ calls \in Seq(CallType)
    BY <2>0, MouseNumbers DEF MouseTyped
  <2>5. resolving \in 0..MaxCalls /\ Len(calls) <= MaxCalls
    BY <2>4
  <2>6. \A i \in 1..Len(calls) : calls[i] \in Seq(Events) \ {<<>>}
    BY <2>4, ElementOfSeq DEF CallType
  <2>7. MouseTypeOK
    BY <2>0, <2>5, <2>6 DEF MouseTypeOK, MouseTyped
  <2> QED
    BY <2>3, <2>7 DEF TypeOK
<1> QED
  BY <1>1, Invariant, PTL

\* "move -> click must never swap": no click, drag's start or drag's end leaves before the
\* motion that was dispatched before it (FrameCoalescer.sendFrame, sendInput).
THEOREM ClickKeepsPlace == Spec => []ClickInPlace
<1>1. IInv => ClickInPlace
  <2> SUFFICES ASSUME IInv, NEW i \in 1..Len(wire) PROVE wire[i].inPlace
    BY DEF ClickInPlace
  <2>1. wire[i] \in Placed
    BY ElementOfSeq DEF IInv, PathInv, CoalescerInv
  <2> QED
    BY <2>1 DEF Placed
<1> QED
  BY <1>1, Invariant, PTL

\* With nut.js a drag has the left button down only while the finger holds it, or its end
\* is on its way or among the calls, unless the end of a drag was lost or the provider
\* failed in it; cliclick never holds the button (MouseController.dragStart and dragEnd).
THEOREM ButtonIsHeld == Spec => []ButtonHeldForADrag
<1>1. IInv => ButtonHeldForADrag
  <2> SUFFICES ASSUME IInv PROVE ButtonHeldForADrag
    OBVIOUS
  <2>0. CoalescerInv /\ DragInv /\ MouseTyped /\ ButtonInv
    BY DEF IInv, PathInv, MouseInv
  <2>1. backend = "cliclick" => button = "up"
    BY <2>0 DEF MouseTyped
  <2>2. ASSUME backend = "nutjs", button = "drag", ~excused, ~dragActive, ~EndOnWire
        PROVE  \E i \in 1..Len(calls) : "up" \in Range(calls[i])
    <3>1. 0 + 1 = 1
      OBVIOUS
    <3>2. ~EndBehind(wire, 0)
      BY <2>2, <3>1 DEF EndBehind, EndOnWire
    <3>3. ~dragInProgress
      BY <2>0, <2>2, <3>2 DEF DragInv
    <3>4. UpBehind(calls, 0)
      BY <2>0, <2>2, <3>3 DEF ButtonInv
    <3>5. PICK i \in 1..Len(calls) : calls[i][1] = "up"
      BY <3>1, <3>4 DEF UpBehind
    <3>6. calls[i] \in Seq(Events) /\ calls[i] # <<>>
      BY <2>0, ElementOfSeq DEF MouseTyped, CallType
    <3>7. 1 \in DOMAIN calls[i]
      BY <3>6, EmptySeq, LenProperties
    <3> QED
      BY <3>5, <3>7 DEF Range
  <2> QED
    BY <2>1, <2>2 DEF ButtonHeldForADrag
<1> QED
  BY <1>1, Invariant, PTL
=============================================================================
