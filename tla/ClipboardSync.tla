----------------------------- MODULE ClipboardSync -----------------------------
(***************************************************************************)
(* Clipboard synchronisation: the sender's clipboard screen and its store, *)
(* the frames between the two, and the controller of the receiver.         *)
(*                                                                         *)
(* The connection is a session that may send input (PointerPath has the    *)
(* gate); storage carries out the operations it is given in order.         *)
(***************************************************************************)
EXTENDS ClipboardController, SequencesExt

CONSTANTS ItemCap,     \* MAX_ITEM_BYTES of the sender
          MaxHistory,  \* MAX_HISTORY
          MaxFrames,   \* frames on their way to the receiver (bound)
          MaxStores    \* storage operations under way (bound)

ASSUME HistoryAssumption == MaxHistory \in Nat

VARIABLES
  ready,     \* the app has hydrated its stores, and shows its screens
  connected, \* a session that may send input
  granted,   \* with the clipboard among its permissions
  history,   \* the texts sent, newest first
  stored,    \* the history in storage
  storing,   \* histories on their way to storage
  syncing,   \* the screen shows "Syncing"
  toReceiver

storeVars == <<history, stored, storing>>
screenVars == <<ready, storeVars, syncing>>
netVars == <<connected, granted, toReceiver>>
vars == <<clipVars, screenVars, netVars>>

\* What a frame carries: a sync's content, or a query.
Frames == [t : {"ClipboardSync"}, c : Contents, sealed : BOOLEAN]
            \cup [t : {"ClipboardQuery"}, c : {None}, sealed : {FALSE}]
Sync(c, sealed) == [t |-> "ClipboardSync", c |-> c, sealed |-> sealed]
Query == [t |-> "ClipboardQuery", c |-> None, sealed |-> FALSE]

TypeOK ==
  /\ ClipTypeOK
  /\ {ready, connected, granted, syncing} \subseteq BOOLEAN
  /\ \A h \in {history, stored} \cup Range(storing) :
       /\ Range(h) \subseteq Texts
       /\ Len(h) <= MaxHistory /\ IsInjective(h)
  /\ Range(toReceiver) \subseteq Frames

Init ==
  /\ ClipInit
  /\ ready = FALSE /\ connected = FALSE /\ granted = FALSE /\ syncing = FALSE
  /\ history = <<>> /\ stored = <<>> /\ storing = <<>>
  /\ toReceiver = <<>>

-----------------------------------------------------------------------------
(* The sender.                                                             *)

\* The newest entries, as many as the history keeps.
Capped(h) == SubSeq(h, 1, IF Len(h) < MaxHistory THEN Len(h) ELSE MaxHistory)

\* The entries of a history that are not of this text.
Without(h, text) ==
  LET kept[i \in 0..Len(h)] ==
        IF i = 0 THEN <<>>
        ELSE IF h[i] = text THEN kept[i - 1] ELSE Append(kept[i - 1], h[i])
  IN  kept[Len(h)]

\* App.tsx renders no screen before the stores have read their storage.
Hydrate ==
  /\ ~ready
  /\ ready' = TRUE
  /\ history' = Capped(stored)
  /\ UNCHANGED <<clipVars, netVars, stored, storing, syncing>>

Store(h) ==
  /\ Len(storing) < MaxStores
  /\ storing' = Append(storing, h)

Stores ==
  /\ storing # <<>>
  /\ stored' = Head(storing)
  /\ storing' = Tail(storing)
  /\ UNCHANGED <<clipVars, netVars, ready, history, syncing>>

\* The app ends: what is on its way to storage may be lost, with the rest of its state.
AppEnds ==
  /\ ready
  /\ ready' = FALSE
  /\ history' = <<>>
  /\ storing' = <<>>
  /\ syncing' = FALSE
  /\ connected' = FALSE /\ granted' = FALSE
  /\ toReceiver' = <<>>
  /\ UNCHANGED <<clipVars, stored>>

\* Faulty variant: a text that is sent again is recorded twice.
RecordSentTwice(text) ==
  IF Size[text] > ItemCap THEN UNCHANGED storeVars
  ELSE /\ history' = Capped(<<text>> \o history)
       /\ Store(history')
       /\ UNCHANGED stored

\* What is over the sender's cap is sent, and not recorded.
RecordSent(text) ==
  IF Size[text] > ItemCap THEN UNCHANGED storeVars
  ELSE /\ history' = Capped(<<text>> \o Without(history, text))
       /\ Store(history')
       /\ UNCHANGED stored

SendFrame(f) ==
  /\ connected /\ Len(toReceiver) < MaxFrames
  /\ toReceiver' = Append(toReceiver, f)
  /\ UNCHANGED <<clipVars, connected, granted>>

\* "Send to device", with a text that was typed, or a tap on an entry of the history.
HandleSend(text) ==
  /\ ready
  /\ SendFrame(Sync(text, FALSE))
  /\ RecordSent(text)
  /\ UNCHANGED <<ready, syncing>>

HandlePull ==
  /\ ready
  /\ SendFrame(Query)
  /\ syncing' = TRUE
  /\ UNCHANGED <<ready, storeVars>>

\* The timer of a pull: the first one ends the display of them all.
SyncingEnds ==
  /\ syncing
  /\ syncing' = FALSE
  /\ UNCHANGED <<clipVars, netVars, ready, storeVars>>

\* The store's clear, of the history and its storage.
ClearHistory ==
  /\ ready /\ history # <<>>
  /\ history' = <<>>
  /\ Store(<<>>)
  /\ UNCHANGED <<clipVars, netVars, ready, stored, syncing>>

\* A client of the protocol other than this screen may send images, or seal its texts.
OtherClient(c, sealed) ==
  /\ ready
  /\ c \in Images \/ sealed
  /\ SendFrame(Sync(c, sealed))
  /\ UNCHANGED screenVars

-----------------------------------------------------------------------------
(* The session and the receiver.                                           *)

Connects ==
  /\ ready /\ ~connected
  /\ connected' = TRUE
  /\ granted' \in BOOLEAN
  /\ UNCHANGED <<clipVars, screenVars, toReceiver>>

Lost ==
  /\ connected
  /\ connected' = FALSE /\ granted' = FALSE
  /\ toReceiver' = <<>>
  /\ UNCHANGED <<clipVars, screenVars>>

\* A session without the permission is closed by its first clipboard frame.
Forbidden ==
  /\ toReceiver # <<>> /\ ~granted
  /\ Lost

HandleClipboardSync(i) ==
  /\ toReceiver # <<>> /\ granted
  /\ Head(toReceiver).t = "ClipboardSync"
  /\ ApplyRemoteWrite(i, Head(toReceiver).c, Head(toReceiver).sealed)
  /\ toReceiver' = Tail(toReceiver)
  /\ UNCHANGED <<screenVars, connected, granted>>

HandleClipboardQuery(i) ==
  /\ toReceiver # <<>> /\ granted
  /\ Head(toReceiver).t = "ClipboardQuery"
  /\ PushOutbound(i)
  /\ toReceiver' = Tail(toReceiver)
  /\ UNCHANGED <<screenVars, connected, granted>>

\* What a query has read is sent, if its session is still there, and ends there: no handler
\* of the sender takes a clipboard.  So the reply is no part of the state.
Replies(i, failed) ==
  /\ \E c \in Contents \cup {None} : Pushed(i, failed, c)
  /\ UNCHANGED <<screenVars, netVars>>

ReceiverStep == ClipNext /\ UNCHANGED <<screenVars, netVars>>

Next ==
  \/ Hydrate \/ Stores \/ AppEnds \/ HandlePull \/ SyncingEnds \/ ClearHistory
  \/ \E text \in Texts : HandleSend(text)
  \/ \E c \in Contents, sealed \in BOOLEAN : OtherClient(c, sealed)
  \/ Connects \/ Lost \/ Forbidden
  \/ \E i \in Calls :
       \/ HandleClipboardSync(i) \/ HandleClipboardQuery(i)
       \/ \E failed \in BOOLEAN : Replies(i, failed)
  \/ ReceiverStep

Spec == Init /\ [][Next]_vars

-----------------------------------------------------------------------------
(* Properties.                                                             *)

\* "local edit wins": an edit that the controller was told of stays on the clipboard until
\* a clear takes effect, whatever syncs arrive and however calls fail, unless a remote write
\* was already past its check when the edit was made.
MarkedEditStays == edit # None /\ ~raced => os = edit

\* A write that is reported as failed may be sent again: nothing but what a provider last
\* reported written, or what was last pushed, is ever refused as a duplicate.
FailedWriteMayRetry == lastPushedHash \in {reported, None}

\* "If the OS clipboard changed underneath us (local edit) after a sync, the incoming
\* write is dropped": no write replaces what a user of the receiver copied.
LocalEditWins ==
  [][\A i \in Calls : (call[i].op = "apply" /\ Writes(i)) => os \in {None, lastKnownHash}]_vars
=============================================================================
