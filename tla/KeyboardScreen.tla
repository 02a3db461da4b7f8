------------------------------ MODULE KeyboardScreen ------------------------------
(***************************************************************************)
(* The keyboard and media screens of the sender.  Printable text is typed  *)
(* into a native text field that reports each edit to the screen; the      *)
(* screen keeps it in a buffer until it is sent, and then clears both.     *)
(* React Native ignores a value or a clear that was computed before the    *)
(* field's latest edit.                                                    *)
(*                                                                         *)
(* A typed character is its number.  Nothing on the grid starts the caps   *)
(* lock or a long press of the space bar, so neither has an action.        *)
(***************************************************************************)
EXTENDS Naturals, Sequences, SequencesExt

CONSTANTS GridKeys, StripKeys, MediaButtons,  \* the keys that are tapped (bound)
          Batch,      \* characters that are sent at once (4 in the code)
          MaxTyped,   \* characters typed (bound)
          Pasted,     \* the characters that stand for a pasted text of over 256 bytes
          MaxReports, \* reports of the field under way (bound)
          MaxFrames   \* frames under way (bound)

ASSUME BoundsAssumption == {MaxTyped, MaxReports, MaxFrames} \subseteq Nat

VARIABLES
  field,     \* what the native field shows
  reports,   \* its onChangeText events that the screen has not handled
  buffer,    \* the screen's copy
  shifted,   \* the shift toggle
  seen,      \* the toggle as handleSpecial's closure has it
  link,      \* the client's state
  outbox,    \* frames handed to the socket
  wanted,    \* history: what the user meant to type
  given,     \* history: what has been handed to the dispatcher
  hurried    \* history: an edit met a text that was being sent

fieldVars == <<field, reports, buffer>>
shiftVars == <<shifted, seen>>
linkVars == <<link, outbox>>
historyVars == <<wanted, given, hurried>>
screenVars == <<fieldVars, shiftVars, linkVars, historyVars>>

Typed == Seq(1..MaxTyped)

ScreenTypeOK ==
  /\ {field, buffer, wanted} \subseteq Typed /\ given \in Typed
  /\ \A i \in 1..Len(reports) : reports[i] \in Typed
  /\ {shifted, seen} \subseteq BOOLEAN /\ hurried \in BOOLEAN
  /\ link \in {"connected", "authenticated", "down"}
  /\ Len(outbox) <= MaxFrames
  \* When the screen has handled every edit, it shows what the field shows.
  /\ (reports = <<>> /\ ~hurried) => (field = buffer)

ScreenInit ==
  /\ field = <<>> /\ reports = <<>> /\ buffer = <<>>
  /\ shifted = FALSE /\ seen = FALSE
  /\ link = "connected" /\ outbox = <<>>
  /\ wanted = <<>> /\ given = <<>> /\ hurried = FALSE

-----------------------------------------------------------------------------
(* Frames.                                                                 *)

Frame(t, size, names) == [t |-> t, size |-> size, names |-> names]

SizeOf(text) == IF ToSet(text) \cap Pasted = {} THEN "small" ELSE "large"

\* inputDispatch: a frame leaves at once, in any state but "connected" it is lost.
Sends(frames) ==
  /\ Len(outbox) + Len(frames) <= MaxFrames
  /\ outbox' = IF link = "connected" THEN outbox \o frames ELSE outbox
  /\ UNCHANGED link

TextInput(text) == IF text = <<>> THEN <<>> ELSE <<Frame("TextInput", SizeOf(text), <<>>)>>

\* handleSpecial is made anew, with the toggle of that moment, when the buffer changes.
Remembers == seen' = IF buffer' = buffer THEN seen ELSE shifted'

-----------------------------------------------------------------------------
(* The text field.                                                         *)

Keystroke ==
  LET c == Len(wanted) + 1
  IN  /\ Len(wanted) < MaxTyped /\ Len(reports) < MaxReports
      /\ field' = Append(field, c)
      /\ reports' = Append(reports, field')
      /\ wanted' = Append(wanted, c)
      /\ UNCHANGED <<buffer, shiftVars, linkVars, given, hurried>>

\* A deletion in the field.
Erase ==
  /\ field # <<>> /\ Len(reports) < MaxReports
  /\ field' = Front(field)
  /\ reports' = Append(reports, field')
  /\ wanted' = IF hurried THEN wanted ELSE Front(wanted)
  /\ UNCHANGED <<buffer, shiftVars, linkVars, given, hurried>>

\* A text this long is sent at once.
Complete(text) == Len(text) >= Batch \/ SizeOf(text) = "large"

Flush(text) ==
  /\ Sends(TextInput(text))
  /\ given' = given \o text
  /\ buffer' = <<>>

\* Faulty variant: the field is never told.
DrawnNever(value, later) == field

\* The field takes the screen's value unless it has been edited since.
Drawn(value, later) == IF later = <<>> THEN value ELSE field

HandleTextChange ==
  /\ reports # <<>>
  /\ reports' = Tail(reports)
  /\ LET text == Head(reports)
     IN  /\ IF Complete(text) THEN Flush(text)
            ELSE buffer' = text /\ UNCHANGED <<linkVars, given>>
         /\ field' = Drawn(buffer', reports')
         /\ hurried' = (hurried \/ (Complete(text) /\ reports' # <<>>))
  /\ UNCHANGED <<shifted, wanted>>
  /\ Remembers

-----------------------------------------------------------------------------
(* The keys of the screen.                                                 *)

\* commitAndClear, and the frame of the key that was tapped.
Commit(tap, taps) ==
  /\ Sends(TextInput(buffer) \o tap)
  /\ given' = given \o buffer \o taps
  /\ wanted' = wanted \o taps
  /\ buffer' = <<>>
  /\ field' = Drawn(<<>>, reports)
  /\ hurried' = (hurried \/ ((buffer # <<>> \/ taps # <<>>) /\ reports # <<>>))
  /\ UNCHANGED reports

SendChip == buffer # <<>> /\ Commit(<<>>, <<>>) /\ UNCHANGED shifted /\ Remembers

\* Faulty variant: the key overtakes the text that is still in the buffer.
TapKeyUncommitted(name) ==
  LET c == Len(wanted) + 1
  IN  /\ c <= MaxTyped
      /\ Sends(<<Frame("KeyPress", "small", <<name>>)>>)
      /\ given' = Append(given, c) /\ wanted' = Append(wanted, c)
      /\ UNCHANGED <<fieldVars, shiftVars, hurried>>

\* A letter of the grid: a key press, or with the toggle a combination.
TapKey(name) ==
  /\ Len(wanted) < MaxTyped
  /\ Commit(IF seen THEN <<Frame("Shortcut", "small", <<"Shift", name>>)>>
            ELSE <<Frame("KeyPress", "small", <<name>>)>>,
            <<Len(wanted) + 1>>)
  /\ shifted' = (shifted /\ ~seen)
  /\ Remembers

TapSpace ==
  /\ Len(wanted) < MaxTyped
  /\ Commit(<<Frame("TextInput", "small", <<>>)>>, <<Len(wanted) + 1>>)
  /\ UNCHANGED shifted /\ Remembers

TapShift == Commit(<<>>, <<>>) /\ shifted' = ~shifted /\ Remembers

TapBackspace ==
  /\ Commit(<<Frame("Shortcut", "small", <<"Backspace">>)>>, <<>>)
  /\ UNCHANGED shifted /\ Remembers

\* The function strip and Enter leave the buffer where it is.
TapFunction(name) ==
  /\ Sends(<<Frame("Shortcut", "small", <<name>>)>>)
  /\ UNCHANGED <<fieldVars, shiftVars, historyVars>>

\* The media screen.
TapMedia(name) ==
  /\ Sends(<<Frame("MediaKey", "small", <<name>>)>>)
  /\ UNCHANGED <<fieldVars, shiftVars, historyVars>>

-----------------------------------------------------------------------------
ScreenNext ==
  \/ Keystroke \/ Erase \/ HandleTextChange \/ SendChip \/ TapSpace \/ TapShift \/ TapBackspace
  \/ \E name \in GridKeys : TapKey(name)
  \/ \E name \in StripKeys : TapFunction(name)
  \/ \E name \in MediaButtons : TapMedia(name)

-----------------------------------------------------------------------------
\* Typed text is handed to the dispatcher once and in the order it was typed, with the
\* keys of the grid in their place, and what has not been handed over is still in the
\* field; unless an edit met a text that was being sent, which the field then keeps.
TypedOnce == ~hurried => (given \o field = wanted)
=============================================================================
