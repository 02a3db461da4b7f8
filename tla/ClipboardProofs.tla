--------------------------- MODULE ClipboardProofs ---------------------------
(***************************************************************************)
(* Proofs about clipboard synchronisation, for any contents, sizes, caps,  *)
(* platforms and numbers of overlapping calls.                             *)
(***************************************************************************)
EXTENDS ClipboardSync, SequenceTheorems, WellFoundedInduction, TLAPS

\* What a call may be: its content is checked when it begins, and not looked at here.
CallShape(c) ==
  /\ c = [op |-> c.op, phase |-> c.phase, c |-> c.c]
  /\ c.phase \in {"free", "reading", "writing", "written"}

CallsTyped ==
  /\ call = [i \in Calls |-> call[i]]
  /\ \A i \in Calls : CallShape(call[i])

\* While an edit is to be kept, the controller knows that the clipboard is not its own, and
\* nothing but a clear is past its check.
EditIsGuarded ==
  edit # None /\ ~raced =>
    /\ owner = "local" /\ lastKnownHash = None
    /\ \A i \in Calls : call[i].phase \in {"writing", "written"} => call[i].op = "clear"

\* Only a controller that is told of an edit has one to keep.
EditWasTold == edit # None => hooks

IInv == CallsTyped /\ EditIsGuarded /\ MarkedEditStays /\ FailedWriteMayRetry

LEMMA InitHolds == Init => IInv
<1> SUFFICES ASSUME Init PROVE IInv
  OBVIOUS
<1>1. call = [i \in Calls |-> Free] /\ edit = None /\ lastPushedHash = None
  BY DEF Init, ClipInit
<1>2. CallShape(Free)
  BY DEF Free, CallShape
<1> QED
  BY <1>1, <1>2 DEF IInv, CallsTyped, EditIsGuarded, MarkedEditStays, FailedWriteMayRetry

\* A step of one call.
Becomes(i, new) == call' = [call EXCEPT ![i] = new]

LEMMA BecomesKeepsShape ==
  ASSUME CallsTyped, NEW i \in Calls, NEW new, CallShape(new), Becomes(i, new)
  PROVE  /\ CallsTyped'
         /\ \A j \in Calls : call'[j] = IF j = i THEN new ELSE call[j]
<1>1. \A j \in Calls : call'[j] = IF j = i THEN new ELSE call[j]
  BY DEF CallsTyped, Becomes
<1>2. call' = [j \in Calls |-> call'[j]]
  BY DEF CallsTyped, Becomes
<1> QED
  BY <1>1, <1>2 DEF CallsTyped

\* A call that begins by reading, a call that ends, and a conflict, disturb nothing.
LEMMA HarmlessCall ==
  ASSUME IInv, NEW i \in Calls, NEW new, CallShape(new), Becomes(i, new),
         new.phase \in {"free", "reading"},
         UNCHANGED <<os, lastKnownHash, owner, edit, raced>>, FailedWriteMayRetry'
  PROVE  IInv'
<1>1. /\ CallsTyped'
      /\ \A j \in Calls : call'[j] = IF j = i THEN new ELSE call[j]
  BY BecomesKeepsShape DEF IInv
<1>2. EditIsGuarded'
  BY <1>1 DEF IInv, EditIsGuarded
<1>3. MarkedEditStays'
  BY <1>1 DEF IInv, MarkedEditStays
<1> QED
  BY <1>1, <1>2, <1>3 DEF IInv

LEMMA FreeShape == CallShape(Free) /\ Free.phase = "free" /\ Free.op = "none"
BY DEF CallShape, Free

\* A call that begins.
LEMMA BeginKeeps ==
  ASSUME IInv, NEW i \in Calls, NEW op, NEW phase, NEW c, Begin(i, op, phase, c),
         phase = "reading" \/ (op = "clear" /\ phase = "writing"),
         UNCHANGED <<os, ownVars, editVars>>
  PROVE  IInv'
<1> DEFINE new == [op |-> op, phase |-> phase, c |-> c]
<1>1. new.op = op /\ new.phase = phase /\ CallShape(new)
  BY DEF CallShape
<1>2. call[i] = Free /\ Becomes(i, new)
  BY DEF Begin, Becomes
<1> HIDE DEF new
<1>3. FailedWriteMayRetry'
  BY DEF IInv, FailedWriteMayRetry, ownVars
<1>4. CASE phase = "reading"
  BY <1>1, <1>2, <1>3, <1>4, FreeShape, HarmlessCall DEF ownVars, editVars
<1>5. CASE op = "clear" /\ phase = "writing"
  <2>1. /\ CallsTyped'
        /\ \A j \in Calls : call'[j] = IF j = i THEN new ELSE call[j]
    BY <1>1, <1>2, BecomesKeepsShape DEF IInv
  <2>2. EditIsGuarded'
    BY <1>1, <1>5, <2>1 DEF IInv, EditIsGuarded, ownVars, editVars
  <2>3. MarkedEditStays'
    BY <1>2, <2>1, FreeShape DEF IInv, MarkedEditStays, ownVars, editVars
  <2> QED
    BY <1>3, <2>1, <2>2, <2>3 DEF IInv
<1> QED
  BY <1>4, <1>5

\* A call goes on to another phase.
LEMMA PhaseShape ==
  ASSUME CallsTyped, NEW i \in Calls, NEW p \in {"writing", "written"}
  PROVE  LET new == [op |-> call[i].op, phase |-> p, c |-> call[i].c]
         IN  /\ CallShape(new) /\ new.op = call[i].op /\ new.phase = p
             /\ [call[i] EXCEPT !.phase = p] = new
BY DEF CallsTyped, CallShape

\* A write ends, whether it took effect or not: were there an edit to keep, the call would be
\* a clear, which takes the edit away if it takes effect.
LEMMA EffectKeeps ==
  ASSUME IInv, NEW i \in Calls, call[i].phase = "writing", NEW new,
         new.phase = "free" \/ (new.phase = "written" /\ new.op = call[i].op),
         CallsTyped', \A j \in Calls : call'[j] = IF j = i THEN new ELSE call[j],
         UNCHANGED <<ownVars, raced>>,
         TakesEffect(i) \/ UNCHANGED <<os, edit>>
  PROVE  IInv'
<1>1. FailedWriteMayRetry'
  BY DEF IInv, FailedWriteMayRetry, ownVars
<1>2. edit' = edit \/ edit' = None
  BY DEF TakesEffect
<1>3. EditIsGuarded'
  BY <1>2 DEF IInv, EditIsGuarded, ownVars
<1>4. MarkedEditStays'
  BY DEF IInv, EditIsGuarded, MarkedEditStays, TakesEffect
<1> QED
  BY <1>1, <1>3, <1>4 DEF IInv

-----------------------------------------------------------------------------
LEMMA ReceiverTells == ASSUME EditWasTold, ClipNext PROVE EditWasTold'
BY DEF EditWasTold, ClipNext, Writes, WriteFails, FailsSilently, TakesEffect, Applied, Clear,
       Cleared, Decides, LocalCopy, editVars

LEMMA ReceiverKeeps ==
  ASSUME IInv, EditWasTold, ClipNext
  PROVE  IInv'
<1>1. ASSUME NEW i \in Calls, NEW failed \in BOOLEAN, Decides(i, failed) PROVE IInv'
  <2> DEFINE new == [op |-> call[i].op, phase |-> "writing", c |-> call[i].c]
  <2>1. /\ CallShape(new) /\ new.op = call[i].op /\ new.phase = "writing"
        /\ [call[i] EXCEPT !.phase = "writing"] = new
    BY PhaseShape DEF IInv
  <2> HIDE DEF new
  <2>2. /\ call[i].op = "apply" /\ call[i].phase = "reading"
        /\ UNCHANGED <<os, ownVars, editVars>>
    BY <1>1 DEF Decides
  <2>3. FailedWriteMayRetry'
    BY <2>2 DEF IInv, FailedWriteMayRetry, ownVars
  <2>4. CASE Becomes(i, Free)
    BY <2>2, <2>3, <2>4, FreeShape, HarmlessCall DEF ownVars, editVars
  \* The write begins: no edit is to keep, for the check would have dropped it.
  <2>5. CASE Becomes(i, new) /\ (owner = "local" => lastKnownHash # None)
    <3>1. /\ CallsTyped'
          /\ \A j \in Calls : call'[j] = IF j = i THEN new ELSE call[j]
      BY <2>1, <2>5, BecomesKeepsShape DEF IInv
    <3>2. edit = None \/ raced
      BY <2>5 DEF IInv, EditIsGuarded
    <3> QED
      BY <2>2, <2>3, <3>1, <3>2 DEF IInv, EditIsGuarded, MarkedEditStays, editVars
  <2> QED
    BY <1>1, <2>1, <2>4, <2>5 DEF Decides, CanApplyRemote, Becomes
<1>2. ASSUME NEW i \in Calls, Writes(i) \/ FailsSilently(i) PROVE IInv'
  <2> DEFINE new == [op |-> call[i].op, phase |-> "written", c |-> call[i].c]
  <2>1. /\ CallShape(new) /\ new.op = call[i].op /\ new.phase = "written"
        /\ [call[i] EXCEPT !.phase = "written"] = new
    BY PhaseShape DEF IInv
  <2> HIDE DEF new
  <2>2. /\ call[i].phase = "writing" /\ Becomes(i, new) /\ UNCHANGED <<ownVars, raced>>
        /\ TakesEffect(i) \/ UNCHANGED <<os, edit>>
    BY <1>2, <2>1 DEF Writes, FailsSilently, Becomes, editVars
  <2>3. /\ CallsTyped'
        /\ \A j \in Calls : call'[j] = IF j = i THEN new ELSE call[j]
    BY <2>1, <2>2, BecomesKeepsShape DEF IInv
  <2> QED
    BY <2>1, <2>2, <2>3, EffectKeeps
<1>3. ASSUME NEW i \in Calls, WriteFails(i) PROVE IInv'
  <2>1. /\ call[i].phase = "writing" /\ Becomes(i, Free) /\ UNCHANGED <<ownVars, raced>>
        /\ TakesEffect(i) \/ UNCHANGED <<os, edit>>
    BY <1>3 DEF WriteFails, Becomes
  <2>2. /\ CallsTyped'
        /\ \A j \in Calls : call'[j] = IF j = i THEN Free ELSE call[j]
    BY <2>1, FreeShape, BecomesKeepsShape DEF IInv
  <2> QED
    BY <2>1, <2>2, FreeShape, EffectKeeps
<1>4. ASSUME NEW i \in Calls, Applied(i) PROVE IInv'
  <2>1. /\ call[i].op = "apply" /\ call[i].phase = "written" /\ Becomes(i, Free)
        /\ lastPushedHash' = reported' /\ UNCHANGED <<os, editVars>>
    BY <1>4 DEF Applied, Becomes
  <2>2. /\ CallsTyped'
        /\ \A j \in Calls : call'[j] = IF j = i THEN Free ELSE call[j]
    BY <2>1, FreeShape, BecomesKeepsShape DEF IInv
  \* A write that was past its check: there is no edit to keep, or it came too late.
  <2>3. edit = None \/ raced
    BY <2>1 DEF IInv, EditIsGuarded
  <2> QED
    BY <2>1, <2>2, <2>3 DEF IInv, EditIsGuarded, MarkedEditStays, FailedWriteMayRetry, editVars
<1>5. ASSUME NEW i \in Calls, Clear(i) PROVE IInv'
  BY <1>5, BeginKeeps DEF Clear
<1>6. ASSUME NEW i \in Calls, Cleared(i) PROVE IInv'
  <2>1. /\ Becomes(i, Free) /\ lastPushedHash' = None
        /\ owner' = "local" /\ lastKnownHash' = None /\ UNCHANGED <<os, editVars>>
    BY <1>6 DEF Cleared, Becomes
  <2>2. /\ CallsTyped'
        /\ \A j \in Calls : call'[j] = IF j = i THEN Free ELSE call[j]
    BY <2>1, FreeShape, BecomesKeepsShape DEF IInv
  <2> QED
    BY <2>1, <2>2, FreeShape
    DEF IInv, EditIsGuarded, MarkedEditStays, FailedWriteMayRetry, editVars
<1>7. ASSUME NEW c \in Contents, LocalCopy(c) PROVE IInv'
  <2>1. UNCHANGED <<call, lastPushedHash, reported>> /\ os' = c
    BY <1>7 DEF LocalCopy
  <2>2. CallsTyped' /\ FailedWriteMayRetry'
    BY <2>1 DEF IInv, CallsTyped, FailedWriteMayRetry
  <2>3. CASE hooks
    BY <1>7, <2>1, <2>2, <2>3 DEF LocalCopy, IInv, EditIsGuarded, MarkedEditStays
  <2>4. CASE ~hooks
    <3>1. edit' = None
      BY <1>7, <2>4 DEF LocalCopy, EditWasTold, editVars
    <3> QED
      BY <2>2, <3>1 DEF IInv, EditIsGuarded, MarkedEditStays
  <2> QED
    BY <2>3, <2>4
<1> QED
  BY <1>1, <1>2, <1>3, <1>4, <1>5, <1>6, <1>7 DEF ClipNext

LEMMA StutterKeeps ==
  ASSUME IInv, EditWasTold, UNCHANGED clipVars
  PROVE  (IInv /\ EditWasTold)'
BY DEF IInv, EditWasTold, CallsTyped, EditIsGuarded, MarkedEditStays, FailedWriteMayRetry,
       clipVars, ownVars, editVars

\* A push that ends has reported what it counts as pushed.
LEMMA PushedKeeps ==
  ASSUME IInv, EditWasTold, NEW i \in Calls, NEW failed \in BOOLEAN, NEW c,
         Pushed(i, failed, c)
  PROVE  (IInv /\ EditWasTold)'
<1>1. /\ call[i].op = "push" /\ Becomes(i, Free)
      /\ UNCHANGED <<hooks, os, lastKnownHash, owner, editVars>>
  BY DEF Pushed, Becomes
<1>2. FailedWriteMayRetry'
  BY DEF IInv, FailedWriteMayRetry, Pushed
<1>3. IInv'
  BY <1>1, <1>2, FreeShape, HarmlessCall DEF editVars
<1> QED
  BY <1>1, <1>3 DEF EditWasTold, editVars

LEMMA StepKeeps ==
  ASSUME IInv, EditWasTold, [Next]_vars
  PROVE  (IInv /\ EditWasTold)'
<1>1. CASE Hydrate \/ Stores \/ AppEnds \/ HandlePull \/ SyncingEnds \/ ClearHistory
  BY <1>1, StutterKeeps
  DEF Hydrate, Stores, AppEnds, HandlePull, SyncingEnds, ClearHistory, SendFrame
<1>2. CASE \E text \in Texts : HandleSend(text)
  BY <1>2, StutterKeeps DEF HandleSend, SendFrame
<1>3. CASE \E c \in Contents, sealed \in BOOLEAN : OtherClient(c, sealed)
  BY <1>3, StutterKeeps DEF OtherClient, SendFrame
<1>4. CASE Connects \/ Lost \/ Forbidden
  BY <1>4, StutterKeeps DEF Connects, Lost, Forbidden
<1>5. ASSUME NEW i \in Calls, HandleClipboardSync(i)
      PROVE  (IInv /\ EditWasTold)'
  <2> DEFINE c == Head(toReceiver).c
  <2>1. /\ UNCHANGED <<platform, hooks, os, ownVars, editVars>>
        /\ UNCHANGED call \/ Begin(i, "apply", "reading", c)
    BY <1>5 DEF HandleClipboardSync, ApplyRemoteWrite
  <2> HIDE DEF c
  <2>2. CASE UNCHANGED call
    BY <2>1, <2>2, StutterKeeps DEF clipVars
  <2>3. CASE Begin(i, "apply", "reading", c)
    BY <2>1, <2>3, BeginKeeps DEF EditWasTold, editVars
  <2> QED
    BY <2>1, <2>2, <2>3
<1>6. ASSUME NEW i \in Calls, HandleClipboardQuery(i)
      PROVE  (IInv /\ EditWasTold)'
  <2>1. /\ UNCHANGED <<platform, hooks, os, ownVars, editVars>>
        /\ Begin(i, "push", "reading", None)
    BY <1>6 DEF HandleClipboardQuery, PushOutbound
  <2> QED
    BY <2>1, BeginKeeps DEF EditWasTold, editVars
<1>7. ASSUME NEW i \in Calls, NEW failed \in BOOLEAN, Replies(i, failed)
      PROVE  (IInv /\ EditWasTold)'
  BY <1>7, PushedKeeps DEF Replies
<1>8. CASE ReceiverStep
  BY <1>8, ReceiverKeeps, ReceiverTells DEF ReceiverStep
<1>9. CASE UNCHANGED vars
  BY <1>9, StutterKeeps DEF vars
<1> QED
  BY <1>1, <1>2, <1>3, <1>4, <1>5, <1>6, <1>7, <1>8, <1>9 DEF Next

LEMMA Holds == Spec => [](IInv /\ EditWasTold)
<1>1. Init => IInv /\ EditWasTold
  BY InitHolds DEF Init, ClipInit, EditWasTold
<1>2. IInv /\ EditWasTold /\ [Next]_vars => (IInv /\ EditWasTold)'
  BY StepKeeps
<1> QED
  BY <1>1, <1>2, PTL DEF Spec

\* An edit that the controller was told of (ownership.markLocal) stays on the clipboard
\* whatever syncs, pulls and failures overlap, unless a write was already past its check.
THEOREM MarkedEditIsKept == Spec => []MarkedEditStays
<1>1. IInv => MarkedEditStays
  BY DEF IInv
<1> QED
  BY <1>1, Holds, PTL

\* A content whose write failed is never refused as a duplicate (lastPushedHash of
\* ClipboardController is set only after the provider's write).
THEOREM FailedWriteRetries == Spec => []FailedWriteMayRetry
<1>1. IInv => FailedWriteMayRetry
  BY DEF IInv
<1> QED
  BY <1>1, Holds, PTL

-----------------------------------------------------------------------------
(* The history of the sender, and types.                                   *)

\* Induction on a set of numbers, from the well-foundedness of their order.
LEMMA Induction ==
  ASSUME NEW T, 0 \in T, \A n \in Nat : n \in T => n + 1 \in T
  PROVE  \A n \in Nat : n \in T
<1> SUFFICES ASSUME Nat \ T # {} PROVE FALSE
  OBVIOUS
<1>1. IsWellFoundedOn(OpToRel(<, Nat), Nat)
  BY NatLessThanWellFounded
<1>2. PICK n \in Nat \ T : \A m \in Nat \ T : <<m, n>> \notin OpToRel(<, Nat)
  BY <1>1, WFMin
<1>3. ASSUME NEW m \in Nat \ T PROVE n <= m
  <2>1. m < n => <<m, n>> \in OpToRel(<, Nat)
    BY DEF OpToRel
  <2>2. <<m, n>> \notin OpToRel(<, Nat)
    BY <1>2, Zenon
  <2>3. ~(m < n) /\ m \in Nat /\ n \in Nat
    BY <2>1, <2>2
  <2> QED
    BY <2>3
<1>4. n - 1 \in Nat /\ n - 1 \in T
  BY <1>3
<1> QED
  BY <1>4

\* A history that keeps each text once.
Once(h) == h \in Seq(Texts) /\ \A i, j \in 1..Len(h) : h[i] = h[j] => i = j

Histories == {h \in Seq(Texts) : Len(h) <= MaxHistory /\ \A i, j \in 1..Len(h) : h[i] = h[j] => i = j}

\* What a filter has kept of the first n entries.
Kept(h, text, n, w) ==
  /\ Once(w)
  /\ \A i \in 1..Len(w) : w[i] # text /\ \E j \in 1..n : w[i] = h[j]

\* One entry is added, and is none of those that are there.
LEMMA OneMore ==
  ASSUME NEW w, Once(w), NEW e \in Texts, \A i \in 1..Len(w) : w[i] # e
  PROVE  /\ Once(Append(w, e)) /\ Len(Append(w, e)) = Len(w) + 1
         /\ \A i \in 1..Len(w) + 1 : Append(w, e)[i] = IF i = Len(w) + 1 THEN e ELSE w[i]
<1> DEFINE a == Append(w, e)
<1>1. /\ a \in Seq(Texts) /\ Len(a) = Len(w) + 1 /\ Len(w) \in Nat
      /\ \A i \in 1..Len(w) : a[i] = w[i]
      /\ a[Len(w) + 1] = e
  BY AppendProperties, LenProperties DEF Once
<1> HIDE DEF a
<1>2. \A i \in 1..Len(w) + 1 : i = Len(w) + 1 \/ i \in 1..Len(w)
  BY <1>1
<1>3. \A i \in 1..Len(w) + 1 : a[i] = IF i = Len(w) + 1 THEN e ELSE w[i]
  BY <1>1, <1>2
<1>4. ASSUME NEW i \in 1..Len(a), NEW j \in 1..Len(a), a[i] = a[j] PROVE i = j
  BY <1>1, <1>2, <1>3, <1>4 DEF Once
<1> QED
  BY <1>1, <1>3, <1>4 DEF Once, a

LEMMA FilterKeeps ==
  ASSUME NEW h, Once(h), NEW text
  PROVE  Once(Without(h, text)) /\ \A i \in 1..Len(Without(h, text)) : Without(h, text)[i] # text
<1> DEFINE Body(n, S) == [i \in 0..n |-> IF i = 0 THEN <<>>
                                         ELSE IF h[i] = text THEN S[i - 1] ELSE Append(S[i - 1], h[i])]
           Good(n, S) == S = Body(n, S) /\ \A i \in 0..n : Kept(h, text, i, S[i])
           T == {n \in Nat : n <= Len(h) => \E S : Good(n, S)}
           Chosen == CHOOSE S : S = Body(Len(h), S)
<1>0. Len(h) \in Nat /\ \A i \in 1..Len(h) : h[i] \in Texts
  BY LenProperties, ElementOfSeq DEF Once
<1>a. Kept(h, text, 0, <<>>)
  BY DEF Kept, Once
<1>1. 0 \in T
  <2> DEFINE S == [i \in 0..0 |-> <<>>]
  <2>1. S = Body(0, S)
    OBVIOUS
  <2>2. \A i \in 0..0 : i = 0 /\ S[i] = <<>>
    OBVIOUS
  <2> HIDE DEF S
  <2>3. Good(0, S)
    BY <1>a, <2>1, <2>2
  <2> HIDE DEF Good
  <2> QED
    BY <2>3
<1>2. ASSUME NEW n \in Nat, n \in T PROVE n + 1 \in T
  <2> SUFFICES ASSUME n + 1 <= Len(h) PROVE \E S : Good(n + 1, S)
    OBVIOUS
  <2>0. n <= Len(h) /\ n + 1 \in 1..Len(h)
    BY <1>0
  <2>1. PICK S : Good(n, S)
    BY <1>2, <2>0
  <2> DEFINE e == h[n + 1]
             last == IF e = text THEN S[n] ELSE Append(S[n], e)
             R == [i \in 0..(n + 1) |-> IF i = n + 1 THEN last ELSE S[i]]
  <2>2. \A i \in 0..n : R[i] = S[i] /\ Kept(h, text, i, S[i])
    BY <2>1
  <2>3. R[n + 1] = last
    OBVIOUS
  <2>4. Kept(h, text, n, S[n]) /\ e \in Texts
    BY <1>0, <2>0, <2>1
  <2>5. Kept(h, text, n + 1, last)
    <3> DEFINE w == S[n]
    <3>1. Kept(h, text, n, w)
      BY <2>4
    <3> HIDE DEF w
    <3>2. \A i \in 1..Len(w) : w[i] # text /\ \E j \in 1..n + 1 : w[i] = h[j]
      BY <3>1 DEF Kept
    <3>3. CASE e = text
      BY <3>1, <3>2, <3>3 DEF Kept, w
    <3>4. CASE e # text
      <4>1. ASSUME NEW i \in 1..Len(w) PROVE w[i] # e
        <5>1. PICK j \in 1..n : w[i] = h[j]
          BY <3>1 DEF Kept
        <5>2. j \in 1..Len(h) /\ j # n + 1
          BY <1>0, <2>0
        <5> QED
          BY <2>0, <5>1, <5>2 DEF Once
      <4>2. /\ Once(Append(w, e)) /\ Len(Append(w, e)) = Len(w) + 1
            /\ \A i \in 1..Len(w) + 1 : Append(w, e)[i] = IF i = Len(w) + 1 THEN e ELSE w[i]
        BY <2>4, <3>1, <4>1, OneMore DEF Kept
      <4>3. \A i \in 1..Len(w) + 1 : i = Len(w) + 1 \/ i \in 1..Len(w)
        <5>1. Len(w) \in Nat
          BY <3>1, LenProperties DEF Kept, Once
        <5> QED
          BY <5>1
      <4>4. n + 1 \in 1..n + 1 /\ e = h[n + 1]
        OBVIOUS
      <4>5. Kept(h, text, n + 1, Append(w, e))
        <5> HIDE DEF e
        <5> QED
          BY <3>2, <3>4, <4>2, <4>3, <4>4 DEF Kept
      <4> QED
        BY <3>4, <4>5 DEF w
    <3> QED
      BY <3>3, <3>4
  <2> HIDE DEF last
  <2>6. ASSUME NEW i \in 0..(n + 1) PROVE R[i] = Body(n + 1, R)[i]
    <3>1. CASE i = 0
      <4>1. R[i] = S[0] /\ S[0] = <<>>
        BY <2>1, <3>1
      <4> QED
        BY <3>1, <4>1
    <3>2. CASE i = n + 1
      <4>1. R[i - 1] = S[n] /\ i # 0 /\ R[i] = last
        BY <3>2
      <4> QED
        BY <3>2, <4>1 DEF last
    <3>3. CASE i # 0 /\ i # n + 1
      <4>1. i \in 0..n /\ i - 1 \in 0..n /\ i - 1 # n + 1
        BY <3>3
      <4>2. R[i] = S[i] /\ R[i - 1] = S[i - 1]
        BY <4>1
      <4>3. S[i] = IF h[i] = text THEN S[i - 1] ELSE Append(S[i - 1], h[i])
        BY <2>1, <3>3, <4>1
      <4> QED
        BY <3>3, <4>2, <4>3
    <3> QED
      BY <3>1, <3>2, <3>3
  <2>7. R = Body(n + 1, R)
    BY <2>6
  <2>8. ASSUME NEW i \in 0..(n + 1) PROVE Kept(h, text, i, R[i])
    <3>1. i = n + 1 \/ i \in 0..n
      OBVIOUS
    <3> HIDE DEF R
    <3> QED
      BY <2>2, <2>3, <2>5, <3>1
  <2> HIDE DEF R
  <2>9. Good(n + 1, R)
    BY <2>7, <2>8
  <2> HIDE DEF Good
  <2> QED
    BY <2>9
<1>3. \E S : Good(Len(h), S)
  <2> HIDE DEF T
  <2>1. Len(h) \in T
    BY <1>0, <1>1, <1>2, Induction
  <2> HIDE DEF Good
  <2>2. Len(h) <= Len(h)
    BY <1>0
  <2> QED
    BY <2>1, <2>2 DEF T
<1>4. Chosen = Body(Len(h), Chosen)
  BY <1>3, Zenon
<1>5. Without(h, text) = Chosen[Len(h)]
  BY DEF Without
<1> HIDE DEF Chosen
<1>6. \A S : S = Body(Len(h), S) => \A i \in 0..Len(h) : S[i] = Chosen[i]
  <2> SUFFICES ASSUME NEW S, S = Body(Len(h), S) PROVE \A i \in 0..Len(h) : S[i] = Chosen[i]
    OBVIOUS
  <2> DEFINE U == {n \in Nat : n <= Len(h) => S[n] = Chosen[n]}
  <2>1. 0 \in U
    <3>1. S[0] = <<>> /\ Chosen[0] = <<>>
      BY <1>0, <1>4
    <3> QED
      BY <3>1
  <2>2. ASSUME NEW n \in Nat, n \in U PROVE n + 1 \in U
    <3> SUFFICES ASSUME n + 1 <= Len(h) PROVE S[n + 1] = Chosen[n + 1]
      OBVIOUS
    <3>1. n + 1 \in 0..Len(h) /\ n + 1 # 0 /\ (n + 1) - 1 = n /\ n <= Len(h)
      BY <1>0
    <3>2. S[n + 1] = IF h[n + 1] = text THEN S[n] ELSE Append(S[n], h[n + 1])
      BY <3>1
    <3>3. Chosen[n + 1] = IF h[n + 1] = text THEN Chosen[n] ELSE Append(Chosen[n], h[n + 1])
      BY <1>4, <3>1
    <3> QED
      BY <2>2, <3>1, <3>2, <3>3
  <2> HIDE DEF U
  <2>3. \A n \in Nat : n \in U
    BY <2>1, <2>2, Induction
  <2> TAKE i \in 0..Len(h)
  <2>4. i \in Nat /\ i <= Len(h)
    BY <1>0
  <2>5. i \in U
    BY <2>3, <2>4
  <2> QED
    BY <2>4, <2>5 DEF U
<1>7. Kept(h, text, Len(h), Chosen[Len(h)])
  <2>1. PICK S : Good(Len(h), S)
    BY <1>3
  <2>2. Len(h) \in 0..Len(h)
    BY <1>0
  <2>3. S[Len(h)] = Chosen[Len(h)] /\ Kept(h, text, Len(h), S[Len(h)])
    BY <1>6, <2>1, <2>2
  <2> QED
    BY <2>3
<1> QED
  BY <1>5, <1>7 DEF Kept

LEMMA CappedKeeps ==
  ASSUME NEW h, Once(h)
  PROVE  Capped(h) \in Histories
<1> DEFINE n == IF Len(h) < MaxHistory THEN Len(h) ELSE MaxHistory
           c == Capped(h)
<1>0. /\ Len(h) \in Nat /\ MaxHistory \in Nat /\ h \in Seq(Texts)
      /\ \A i, j \in 1..Len(h) : h[i] = h[j] => i = j
  BY LenProperties, HistoryAssumption DEF Once
<1>1. n \in Nat /\ n <= Len(h) /\ n <= MaxHistory
  BY <1>0
<1> HIDE DEF n
<1>2. c = SubSeq(h, 1, n)
  BY DEF Capped, n
<1> HIDE DEF c
<1>3. /\ c \in Seq(Texts) /\ Len(c) = (IF 1 <= n THEN n - 1 + 1 ELSE 0)
      /\ \A i \in 1..n - 1 + 1 : c[i] = h[1 + i - 1]
  <2>1. 1 \in Int /\ n \in Int /\ \A i \in 1..n : h[i] \in Texts
    <3>1. \A i \in 1..n : i \in 1..Len(h)
      BY <1>0, <1>1
    <3> QED
      BY <1>0, <1>1, <3>1, ElementOfSeq
  <2> QED
    BY <1>2, <2>1, SubSeqProperties
<1>4. Len(c) = n /\ \A i \in 1..n : i \in 1..Len(h) /\ c[i] = h[i]
  BY <1>0, <1>1, <1>3
<1>5. \A i, j \in 1..Len(c) : c[i] = c[j] => i = j
  BY <1>0, <1>4
<1>6. c \in Histories
  BY <1>1, <1>3, <1>4, <1>5 DEF Histories
<1> QED
  BY <1>6 DEF c

\* The text that is sent comes to the front, and is there once.
LEMMA RecordedKeeps ==
  ASSUME NEW h \in Histories, NEW text \in Texts
  PROVE  Capped(<<text>> \o Without(h, text)) \in Histories
<1> DEFINE w == Without(h, text)
           a == <<text>>
           r == a \o w
<1>1. Once(w) /\ \A i \in 1..Len(w) : w[i] # text
  <2>1. Once(h)
    BY DEF Once, Histories
  <2> QED
    BY <2>1, FilterKeeps
<1>2. a \in Seq(Texts) /\ Len(a) = 1 /\ a[1] = text
  OBVIOUS
<1> HIDE DEF w, a
<1>3. /\ r \in Seq(Texts) /\ Len(r) = Len(a) + Len(w)
      /\ \A i \in 1..Len(a) + Len(w) : r[i] = IF i <= Len(a) THEN a[i] ELSE w[i - Len(a)]
  BY <1>1, <1>2, ConcatProperties, Zenon DEF Once
<1>4. Len(w) \in Nat
  BY <1>1, LenProperties DEF Once
<1> HIDE DEF r
<1>5. ASSUME NEW i \in 1..Len(r)
      PROVE  \/ i = 1 /\ r[i] = text
             \/ i - 1 \in 1..Len(w) /\ r[i] = w[i - 1] /\ r[i] # text
  <2>1. i \in 1..Len(a) + Len(w)
    BY <1>3
  <2>2. CASE i = 1
    BY <1>2, <1>3, <2>1, <2>2
  <2>3. CASE i # 1
    <3>1. ~(i <= Len(a)) /\ i - Len(a) = i - 1 /\ i - 1 \in 1..Len(w)
      BY <1>2, <1>4, <2>1, <2>3
    <3> QED
      BY <1>1, <1>3, <2>1, <3>1
  <2> QED
    BY <2>2, <2>3
<1>6. ASSUME NEW i \in 1..Len(r), NEW j \in 1..Len(r), r[i] = r[j] PROVE i = j
  <2>1. CASE i = 1 \/ j = 1
    BY <1>5, <1>6, <2>1
  <2>2. CASE i # 1 /\ j # 1
    <3>1. i - 1 \in 1..Len(w) /\ j - 1 \in 1..Len(w) /\ w[i - 1] = w[j - 1]
      BY <1>5, <1>6, <2>2
    <3>2. i - 1 = j - 1
      BY <1>1, <3>1 DEF Once
    <3> QED
      BY <3>2
  <2> QED
    BY <2>1, <2>2
<1>7. Once(r)
  BY <1>3, <1>6 DEF Once
<1>8. Capped(r) \in Histories
  BY <1>7, CappedKeeps
<1> QED
  BY <1>8 DEF r, a, w

\* The histories of the app and its storage, and the frames on their way.
ScreenTyped ==
  /\ {ready, connected, granted, syncing} \subseteq BOOLEAN
  /\ history \in Histories /\ stored \in Histories /\ storing \in Seq(Histories)
  /\ toReceiver \in Seq(Frames)

LEMMA NoHistory == <<>> \in Histories
<1>1. Len(<<>>) = 0 /\ <<>> \in Seq(Texts)
  OBVIOUS
<1> QED
  BY <1>1, HistoryAssumption DEF Histories

LEMMA StoreKeeps ==
  ASSUME storing \in Seq(Histories), NEW h \in Histories, Store(h)
  PROVE  storing' \in Seq(Histories)
BY AppendProperties DEF Store

LEMMA SendKeeps ==
  ASSUME toReceiver \in Seq(Frames), NEW f \in Frames, SendFrame(f)
  PROVE  toReceiver' \in Seq(Frames)
BY AppendProperties DEF SendFrame

LEMMA FramesAre ==
  /\ \A c \in Contents, sealed \in BOOLEAN : Sync(c, sealed) \in Frames
  /\ Query \in Frames
  /\ \A f \in Frames : f.t = "ClipboardSync" => f.c \in Contents
BY DEF Frames, Sync, Query

TypeInv == ClipTypeOK /\ ScreenTyped

\* The state of one call, and the frames that come to it.
LEMMA CallTyped ==
  ASSUME ClipTypeOK, NEW i \in Calls, NEW new \in CallType, new.op = "apply" => new.c # None,
         Becomes(i, new)
  PROVE  call' \in [Calls -> CallType] /\ \A j \in Calls : call'[j].op = "apply" => call'[j].c # None
BY DEF ClipTypeOK, Becomes

LEMMA FreeTyped == Free \in CallType /\ Free.op # "apply"
BY DEF Free, CallType

LEMMA TypeInit == Init => TypeInv
<1> SUFFICES ASSUME Init PROVE TypeInv
  OBVIOUS
<1>1. ScreenTyped
  <2>1. /\ ready = FALSE /\ connected = FALSE /\ granted = FALSE /\ syncing = FALSE
        /\ history = <<>> /\ stored = <<>> /\ storing = <<>> /\ toReceiver = <<>>
    BY DEF Init
  <2>2. storing \in Seq(Histories) /\ toReceiver \in Seq(Frames)
    BY <2>1
  <2> QED
    BY <2>1, <2>2, NoHistory DEF ScreenTyped
<1>2. ClipTypeOK
  <2>1. call = [i \in Calls |-> Free] /\ Free \in CallType /\ Free.op # "apply"
    BY FreeTyped DEF Init, ClipInit
  <2> QED
    BY <2>1 DEF Init, ClipInit, ClipTypeOK
<1> QED
  BY <1>1, <1>2 DEF TypeInv

\* The sender's steps.
LEMMA ScreenKeeps ==
  ASSUME ScreenTyped,
         \/ Hydrate \/ Stores \/ AppEnds \/ HandlePull \/ SyncingEnds \/ ClearHistory
         \/ \E text \in Texts : HandleSend(text)
         \/ \E c \in Contents, sealed \in BOOLEAN : OtherClient(c, sealed)
         \/ Connects \/ Lost \/ Forbidden
  PROVE  ScreenTyped'
<1>0. /\ {ready, connected, granted, syncing} \subseteq BOOLEAN
      /\ history \in Histories /\ stored \in Histories /\ storing \in Seq(Histories)
      /\ toReceiver \in Seq(Frames)
  BY DEF ScreenTyped
<1>1. CASE Hydrate
  <2>1. Once(stored)
    BY <1>0 DEF Once, Histories
  <2>2. history' \in Histories
    BY <1>1, <2>1, CappedKeeps DEF Hydrate
  <2> QED
    BY <1>0, <1>1, <2>2 DEF Hydrate, ScreenTyped, netVars
<1>2. CASE Stores
  <2>1. stored' \in Histories /\ storing' \in Seq(Histories)
    BY <1>0, <1>2, HeadTailProperties DEF Stores
  <2> QED
    BY <1>0, <1>2, <2>1 DEF Stores, ScreenTyped, netVars
<1>3. CASE AppEnds
  <2>1. <<>> \in Seq(Histories) /\ <<>> \in Seq(Frames)
    OBVIOUS
  <2> QED
    BY <1>0, <1>3, <2>1, NoHistory DEF AppEnds, ScreenTyped
<1>4. CASE HandlePull
  <2>1. toReceiver' \in Seq(Frames)
    BY <1>0, <1>4, FramesAre, SendKeeps DEF HandlePull
  <2> QED
    BY <1>0, <1>4, <2>1 DEF HandlePull, SendFrame, ScreenTyped, storeVars
<1>5. CASE SyncingEnds
  BY <1>0, <1>5 DEF SyncingEnds, ScreenTyped, storeVars, netVars
<1>6. CASE ClearHistory
  <2>1. storing' \in Seq(Histories)
    BY <1>0, <1>6, NoHistory, StoreKeeps DEF ClearHistory
  <2> QED
    BY <1>0, <1>6, <2>1, NoHistory DEF ClearHistory, ScreenTyped, netVars
<1>7. ASSUME NEW text \in Texts, HandleSend(text) PROVE ScreenTyped'
  <2>1. toReceiver' \in Seq(Frames)
    <3>1. Sync(text, FALSE) \in Frames
      BY FramesAre DEF Contents
    <3> QED
      BY <1>0, <1>7, <3>1, SendKeeps DEF HandleSend
  <2>2. history' \in Histories /\ stored' \in Histories /\ storing' \in Seq(Histories)
    <3>1. CASE Size[text] > ItemCap
      BY <1>0, <1>7, <3>1 DEF HandleSend, RecordSent, storeVars
    <3>2. CASE ~(Size[text] > ItemCap)
      <4>1. history' = Capped(<<text>> \o Without(history, text)) /\ Store(history') /\ stored' = stored
        BY <1>7, <3>2 DEF HandleSend, RecordSent
      <4>2. history' \in Histories
        BY <1>0, <4>1, RecordedKeeps
      <4> QED
        BY <1>0, <4>1, <4>2, StoreKeeps
    <3> QED
      BY <3>1, <3>2
  <2> QED
    BY <1>0, <1>7, <2>1, <2>2 DEF HandleSend, SendFrame, ScreenTyped
<1>8. ASSUME NEW c \in Contents, NEW sealed \in BOOLEAN, OtherClient(c, sealed) PROVE ScreenTyped'
  <2>1. toReceiver' \in Seq(Frames)
    BY <1>0, <1>8, FramesAre, SendKeeps DEF OtherClient
  <2> QED
    BY <1>0, <1>8, <2>1 DEF OtherClient, SendFrame, ScreenTyped, screenVars, storeVars
<1>9. CASE Connects
  BY <1>0, <1>9 DEF Connects, ScreenTyped, screenVars, storeVars
<1>10. CASE Lost \/ Forbidden
  <2>1. Lost /\ <<>> \in Seq(Frames)
    BY <1>10 DEF Forbidden
  <2> QED
    BY <1>0, <2>1 DEF Lost, ScreenTyped, screenVars, storeVars
<1> QED
  BY <1>1, <1>2, <1>3, <1>4, <1>5, <1>6, <1>7, <1>8, <1>9, <1>10

\* The steps of the controller.
LEMMA ClipKeeps ==
  ASSUME ClipTypeOK, ClipNext
  PROVE  ClipTypeOK'
<1>0. /\ platform \in Platforms /\ {hooks, raced} \subseteq BOOLEAN
      /\ {os, lastPushedHash, lastKnownHash, edit, reported} \subseteq Contents \cup {None}
      /\ owner \in {"remote", "local", "unknown"}
      /\ call \in [Calls -> CallType]
      /\ \A i \in Calls : call[i].op = "apply" => call[i].c # None
  BY DEF ClipTypeOK
<1>a. \A i \in Calls : call[i].c \in Contents \cup {None}
  BY <1>0 DEF CallType
<1>b. ASSUME NEW i \in Calls, NEW p \in {"writing", "written"}
      PROVE  LET new == [call[i] EXCEPT !.phase = p]
             IN  new \in CallType /\ (new.op = "apply" => new.c # None)
  BY <1>0 DEF CallType
<1>c. ASSUME NEW i \in Calls, TakesEffect(i)
      PROVE  {os', edit'} \subseteq Contents \cup {None}
  BY <1>0, <1>a, <1>c DEF TakesEffect, Outcomes, Contents
<1>1. ASSUME NEW i \in Calls, NEW failed \in BOOLEAN, Decides(i, failed) PROVE ClipTypeOK'
  <2>1. UNCHANGED <<platform, hooks, os, lastPushedHash, lastKnownHash, owner, reported, edit, raced>>
    BY <1>1 DEF Decides, ownVars, editVars
  <2>2. Becomes(i, Free) \/ Becomes(i, [call[i] EXCEPT !.phase = "writing"])
    BY <1>1 DEF Decides, Becomes
  <2>3. call' \in [Calls -> CallType] /\ \A j \in Calls : call'[j].op = "apply" => call'[j].c # None
    BY <1>b, <2>2, FreeTyped, CallTyped
  <2> QED
    BY <1>0, <2>1, <2>3 DEF ClipTypeOK
<1>2. ASSUME NEW i \in Calls, Writes(i) \/ FailsSilently(i) PROVE ClipTypeOK'
  <2>1. /\ UNCHANGED <<platform, hooks, lastPushedHash, lastKnownHash, owner, reported, raced>>
        /\ {os', edit'} \subseteq Contents \cup {None}
    BY <1>0, <1>2, <1>c DEF Writes, FailsSilently, ownVars, editVars
  <2>2. Becomes(i, [call[i] EXCEPT !.phase = "written"])
    BY <1>2 DEF Writes, FailsSilently, Becomes
  <2>3. call' \in [Calls -> CallType] /\ \A j \in Calls : call'[j].op = "apply" => call'[j].c # None
    BY <1>b, <2>2, CallTyped
  <2> QED
    BY <1>0, <2>1, <2>3 DEF ClipTypeOK
<1>3. ASSUME NEW i \in Calls, WriteFails(i) \/ Applied(i) \/ Cleared(i) PROVE ClipTypeOK'
  <2>1. Becomes(i, Free)
    BY <1>3 DEF WriteFails, Applied, Cleared, Becomes
  <2>2. call' \in [Calls -> CallType] /\ \A j \in Calls : call'[j].op = "apply" => call'[j].c # None
    BY <2>1, FreeTyped, CallTyped
  <2>3. /\ UNCHANGED <<platform, hooks, raced>>
        /\ {os', edit', lastPushedHash', lastKnownHash', reported'} \subseteq Contents \cup {None}
        /\ owner' \in {"remote", "local", "unknown"}
    <3>1. CASE WriteFails(i)
      BY <1>0, <1>c, <3>1 DEF WriteFails, ownVars
    <3>2. CASE Applied(i) \/ Cleared(i)
      BY <1>0, <1>a, <3>2 DEF Applied, Cleared, editVars
    <3> QED
      BY <1>3, <3>1, <3>2
  <2> QED
    BY <1>0, <2>2, <2>3 DEF ClipTypeOK
<1>4. ASSUME NEW i \in Calls, Clear(i) PROVE ClipTypeOK'
  <2> DEFINE new == [op |-> "clear", phase |-> "writing", c |-> None]
  <2>1. new \in CallType /\ new.op # "apply"
    BY DEF CallType
  <2>2. Becomes(i, new) /\ UNCHANGED <<platform, hooks, os, lastPushedHash, lastKnownHash, owner, reported, edit, raced>>
    BY <1>4 DEF Clear, Begin, Becomes, ownVars, editVars
  <2> HIDE DEF new
  <2>3. call' \in [Calls -> CallType] /\ \A j \in Calls : call'[j].op = "apply" => call'[j].c # None
    BY <2>1, <2>2, CallTyped
  <2> QED
    BY <1>0, <2>2, <2>3 DEF ClipTypeOK
<1>5. ASSUME NEW c \in Contents, LocalCopy(c) PROVE ClipTypeOK'
  <2>1. /\ UNCHANGED <<platform, hooks, call, lastPushedHash, reported>> /\ os' = c
        /\ {lastKnownHash', edit'} \subseteq Contents \cup {None}
        /\ owner' \in {"remote", "local", "unknown"}
    BY <1>0, <1>5 DEF LocalCopy, editVars
  <2>2. raced' \in BOOLEAN
    BY <1>0, <1>5 DEF LocalCopy, editVars
  <2> QED
    BY <1>0, <2>1, <2>2 DEF ClipTypeOK
<1> QED
  BY <1>1, <1>2, <1>3, <1>4, <1>5 DEF ClipNext

LEMMA ClipStays == ASSUME ClipTypeOK, UNCHANGED clipVars PROVE ClipTypeOK'
BY DEF ClipTypeOK, clipVars, ownVars, editVars

LEMMA ScreenStays ==
  ASSUME ScreenTyped, UNCHANGED <<screenVars, netVars>>
  PROVE  ScreenTyped'
BY DEF ScreenTyped, screenVars, storeVars, netVars

LEMMA TypeStep == TypeInv /\ [Next]_vars => TypeInv'
<1> SUFFICES ASSUME TypeInv, [Next]_vars PROVE TypeInv'
  OBVIOUS
<1>0. ClipTypeOK /\ ScreenTyped /\ toReceiver \in Seq(Frames)
  BY DEF TypeInv, ScreenTyped
<1>1. CASE Hydrate \/ Stores \/ AppEnds \/ HandlePull \/ SyncingEnds \/ ClearHistory
  <2>1. UNCHANGED clipVars
    BY <1>1 DEF Hydrate, Stores, AppEnds, HandlePull, SendFrame, SyncingEnds, ClearHistory
  <2> QED
    BY <1>0, <1>1, <2>1, ClipStays, ScreenKeeps DEF TypeInv
<1>2. CASE \E text \in Texts : HandleSend(text)
  <2>1. UNCHANGED clipVars
    BY <1>2 DEF HandleSend, SendFrame
  <2> QED
    BY <1>0, <1>2, <2>1, ClipStays, ScreenKeeps DEF TypeInv
<1>3. CASE \E c \in Contents, sealed \in BOOLEAN : OtherClient(c, sealed)
  <2>1. UNCHANGED clipVars
    BY <1>3 DEF OtherClient, SendFrame
  <2> QED
    BY <1>0, <1>3, <2>1, ClipStays, ScreenKeeps DEF TypeInv
<1>4. CASE Connects \/ Lost \/ Forbidden
  <2>1. UNCHANGED clipVars
    BY <1>4 DEF Connects, Lost, Forbidden
  <2> QED
    BY <1>0, <1>4, <2>1, ClipStays, ScreenKeeps DEF TypeInv
<1>5. ASSUME NEW i \in Calls, HandleClipboardSync(i) \/ HandleClipboardQuery(i) PROVE TypeInv'
  <2>1. /\ toReceiver # <<>> /\ toReceiver' = Tail(toReceiver)
        /\ UNCHANGED <<screenVars, connected, granted>>
    BY <1>5 DEF HandleClipboardSync, HandleClipboardQuery
  <2>2. toReceiver' \in Seq(Frames) /\ Head(toReceiver) \in Frames
    BY <1>0, <2>1, HeadTailProperties
  <2>3. ScreenTyped'
    BY <1>0, <2>1, <2>2 DEF ScreenTyped, screenVars, storeVars
  <2>4. UNCHANGED <<platform, hooks, os, lastPushedHash, lastKnownHash, owner, reported, edit, raced>>
    BY <1>5 DEF HandleClipboardSync, HandleClipboardQuery, ApplyRemoteWrite, PushOutbound, ownVars, editVars
  <2>5. ASSUME NEW c \in Contents \cup {None}, NEW op \in {"apply", "push"}, op = "apply" => c \in Contents,
               Begin(i, op, "reading", c)
        PROVE  ClipTypeOK'
    <3> DEFINE new == [op |-> op, phase |-> "reading", c |-> c]
    <3>1. new \in CallType /\ (new.op = "apply" => new.c # None) /\ Becomes(i, new)
      BY <2>5, NoneAssumption DEF CallType, Begin, Becomes
    <3> HIDE DEF new
    <3>2. call' \in [Calls -> CallType] /\ \A j \in Calls : call'[j].op = "apply" => call'[j].c # None
      BY <1>0, <3>1, CallTyped
    <3> QED
      BY <1>0, <2>4, <3>2 DEF ClipTypeOK
  <2>6. ASSUME UNCHANGED call PROVE ClipTypeOK'
    BY <1>0, <2>4, <2>6, ClipStays DEF clipVars, ownVars, editVars
  <2>7. CASE HandleClipboardSync(i)
    <3> DEFINE c == Head(toReceiver).c
    <3>1. c \in Contents
      BY <2>2, <2>7, FramesAre DEF HandleClipboardSync
    <3>2. Begin(i, "apply", "reading", c) \/ UNCHANGED call
      BY <2>7 DEF HandleClipboardSync, ApplyRemoteWrite
    <3> HIDE DEF c
    <3> QED
      BY <2>3, <2>5, <2>6, <3>1, <3>2 DEF TypeInv
  <2>8. CASE HandleClipboardQuery(i)
    <3>1. Begin(i, "push", "reading", None)
      BY <2>8 DEF HandleClipboardQuery, PushOutbound
    <3> QED
      BY <2>3, <2>5, <3>1 DEF TypeInv
  <2> QED
    BY <1>5, <2>7, <2>8
<1>6. ASSUME NEW i \in Calls, NEW failed \in BOOLEAN, Replies(i, failed) PROVE TypeInv'
  <2>1. PICK c \in Contents \cup {None} : Pushed(i, failed, c)
    BY <1>6 DEF Replies
  <2>2. Becomes(i, Free)
    BY <2>1 DEF Pushed, Becomes
  <2>3. call' \in [Calls -> CallType] /\ \A j \in Calls : call'[j].op = "apply" => call'[j].c # None
    BY <1>0, <2>2, FreeTyped, CallTyped
  <2>4. /\ UNCHANGED <<platform, hooks, os, lastKnownHash, owner, edit, raced>>
        /\ {lastPushedHash', reported'} \subseteq Contents \cup {None}
    BY <1>0, <2>1 DEF Pushed, ClipTypeOK, editVars
  <2>5. ClipTypeOK'
    BY <1>0, <2>3, <2>4 DEF ClipTypeOK
  <2>6. ScreenTyped'
    BY <1>0, <1>6, ScreenStays DEF Replies
  <2> QED
    BY <2>5, <2>6 DEF TypeInv
<1>7. CASE ReceiverStep
  BY <1>0, <1>7, ClipKeeps, ScreenStays DEF ReceiverStep, TypeInv
<1>8. CASE UNCHANGED vars
  BY <1>0, <1>8, ClipStays, ScreenStays DEF vars, TypeInv
<1> QED
  BY <1>1, <1>2, <1>3, <1>4, <1>5, <1>6, <1>7, <1>8 DEF Next

\* The controller, the screen and its store keep their types: the history, what storage
\* holds and what is on its way there have each text once, and are never longer than
\* MAX_HISTORY (recordSent and hydrateClipboard of clipboardStore.ts).
THEOREM TypeCorrect == Spec => []TypeOK
<1>1. TypeInv => TypeOK
  <2> SUFFICES ASSUME TypeInv PROVE TypeOK
    OBVIOUS
  <2>0. ClipTypeOK /\ ScreenTyped
    BY DEF TypeInv
  <2>1. ASSUME NEW h \in Histories PROVE Range(h) \subseteq Texts /\ Len(h) <= MaxHistory /\ IsInjective(h)
    <3>1. /\ h \in Seq(Texts) /\ Len(h) <= MaxHistory /\ DOMAIN h = 1..Len(h)
          /\ \A i, j \in 1..Len(h) : h[i] = h[j] => i = j
      BY LenProperties DEF Histories
    <3> QED
      BY <3>1, ElementOfSeq DEF Range, IsInjective
  <2>2. \A h \in Range(storing) : h \in Histories
    <3>1. storing \in Seq(Histories) /\ DOMAIN storing = 1..Len(storing)
      BY <2>0, LenProperties DEF ScreenTyped
    <3> QED
      BY <3>1, ElementOfSeq DEF Range
  <2>3. Range(toReceiver) \subseteq Frames
    <3>1. toReceiver \in Seq(Frames) /\ DOMAIN toReceiver = 1..Len(toReceiver)
      BY <2>0, LenProperties DEF ScreenTyped
    <3> QED
      BY <3>1, ElementOfSeq DEF Range
  <2> QED
    BY <2>0, <2>1, <2>2, <2>3 DEF TypeOK, ScreenTyped
<1> QED
  BY <1>1, TypeInit, TypeStep, PTL DEF Spec
=============================================================================
