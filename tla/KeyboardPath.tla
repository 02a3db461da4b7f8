------------------------------- MODULE KeyboardPath -------------------------------
(***************************************************************************)
(* The keyboard from the sender's screens to the operating system: the     *)
(* frames on the wire, the gates of the receiver, the names of the keys    *)
(* and the provider, around the keyboard controller.                       *)
(*                                                                         *)
(* The two ends are studied one at a time: `subject` tells whether frames  *)
(* come from the screens, or start any call of the controller as those of  *)
(* a client of the protocol may.  The screens' receiver is the shipped one, *)
(* which takes the default provider.                                       *)
(***************************************************************************)
EXTENDS KeyboardController, KeyboardScreen, KeyNames, Wire

CONSTANTS Kinds,      \* the kinds of provider that may be asked for
          Platforms,  \* the platforms that the receiver may run on
          Grants      \* the permissions that a session may have

ASSUME GridAssumption == \A name \in GridKeys : IsKeyId(name) => NormalKeyId(name) \in Keys

VARIABLES
  subject,        \* "screens" or "client"
  backend,        \* the provider in use
  authenticated,  \* the receiver's session has been authenticated
  permissions     \* the session's copy of its permissions

receiverVars == <<authenticated, permissions>>
settings == <<subject, backend>>
controllerVars == <<call, repeatVars, osVars, held, robbed>>
pathVars == <<controllerVars, screenVars, settings, receiverVars>>

PathTypeOK ==
  /\ TypeOK /\ ScreenTypeOK
  /\ subject \in {"screens", "client"}
  /\ backend \in {"nutjs", "linux", "darwin", "win32", "unavailable"}
  /\ authenticated \in BOOLEAN
  /\ permissions \in Grants \cup {{}}

PathInit ==
  /\ Init /\ ScreenInit
  /\ subject \in {"screens", "client"}
  /\ \E kind \in Kinds, platform \in Platforms :
       /\ backend = CreateKeyboardProvider(kind, platform)
       /\ subject = "screens" => kind = "default"
  /\ authenticated = FALSE /\ permissions = {}

-----------------------------------------------------------------------------
(* The connection.                                                         *)

\* The receiver authenticates the session, and the sender learns of it later.
Authenticates ==
  /\ link = "connected" /\ ~authenticated
  /\ authenticated' = TRUE
  /\ permissions' \in Grants
  /\ UNCHANGED <<controllerVars, screenVars, settings>>

AuthOkArrives ==
  /\ link = "connected" /\ authenticated
  /\ link' = "authenticated"
  /\ UNCHANGED <<controllerVars, fieldVars, shiftVars, outbox, historyVars, settings, receiverVars>>

\* What is on the wire is lost with it; the controller is told nothing.
ConnectionEnds ==
  /\ link # "down"
  /\ link' = "down"
  /\ outbox' = <<>>
  /\ authenticated' = FALSE /\ permissions' = {}
  /\ UNCHANGED <<controllerVars, fieldVars, shiftVars, historyVars, settings>>

Reconnected ==
  /\ link = "down"
  /\ link' = "connected"
  /\ UNCHANGED <<controllerVars, fieldVars, shiftVars, outbox, historyVars, settings, receiverVars>>

-----------------------------------------------------------------------------
(* A frame at the receiver.                                                *)

Handlers == {"KeyPress", "KeyHold", "KeyRelease", "TextInput", "Shortcut", "MediaKey"}

Bytes(frame) == SendFrame(0, frame.size)

Outcome(frame) == Routed(frame.t, 1, authenticated, Handlers)

Permission(frame) == IF frame.t = "MediaKey" THEN "media" ELSE "keyboard"

Arrives(frame) ==
  /\ outbox # <<>> /\ frame = Head(outbox)
  /\ outbox' = Tail(outbox)
  /\ UNCHANGED <<fieldVars, shiftVars, link, historyVars, settings, receiverVars>>

Reaches(frame) ==
  /\ Encodes(frame.size) /\ DecodesFrame(Bytes(frame), frame.size)
  /\ Outcome(frame) = "handled"

\* A frame that never left, that the gateway cannot decode or that its router refuses.
Undelivered ==
  \E frame \in ToSet(outbox) :
    /\ Arrives(frame)
    /\ ~Reaches(frame)
    /\ UNCHANGED controllerVars

\* A session that lacks the permission has its connection closed.
Forbidden ==
  /\ outbox # <<>> /\ Reaches(Head(outbox))
  /\ Permission(Head(outbox)) \notin permissions
  /\ ConnectionEnds

Accepted(frame) == Reaches(frame) /\ Permission(frame) \in permissions

\* The texts of the model are neither empty nor above the limit of the controller.
TypesText(frame) == frame.t = "TextInput"

PressesMediaKey(frame) == frame.t = "MediaKey" /\ frame.names[1] \in MediaKeys

\* Text and media keys are passed on, and nothing is kept of them.
PassedOn ==
  \E frame \in ToSet(outbox) :
    /\ Arrives(frame)
    /\ Accepted(frame)
    /\ TypesText(frame) \/ PressesMediaKey(frame)
    /\ UNCHANGED controllerVars

\* Names that are not of the grammar, and combinations of a single key.
RefusedNames(frame) == ~AllLegal(frame.names) \/ (frame.t = "Shortcut" /\ Len(frame.names) < 2)

Rejected ==
  \E frame \in ToSet(outbox) :
    /\ Arrives(frame)
    /\ Accepted(frame) /\ frame.t \in {"KeyPress", "Shortcut"}
    /\ RefusedNames(frame)
    /\ UNCHANGED controllerVars

Pressing ==
  \E frame \in ToSet(outbox), i \in Calls :
    /\ Arrives(frame)
    /\ Accepted(frame) /\ frame.t = "KeyPress" /\ ~RefusedNames(frame)
    /\ PressKeys(i, Normalized(frame.names))

-----------------------------------------------------------------------------
(* The provider in use.                                                    *)

\* nut.js looks all the keys of a call up before it presses the first.
CanPress(i) ==
  LET c == call[i]
  IN  IF backend = "nutjs" THEN \A j \in 1..Len(c.keys) : Emits(backend, c.keys[j])
      ELSE Emits(backend, c.keys[c.n + 1])

\* A key that is struck goes up at once.
StrikeOne(i) ==
  LET c == call[i]
  IN  /\ c.phase = "pressing" /\ c.n < Len(c.keys)
      /\ call' = [call EXCEPT ![i].n = @ + 1]
      /\ robbed' = IF Combination(i) THEN robbed \cup {i} ELSE robbed
      /\ UNCHANGED <<repeatVars, osVars, held>>

ProviderPresses(i) ==
  /\ call[i].n < Len(call[i].keys) /\ CanPress(i)
  /\ IF HoldsKeys(backend) THEN PressOne(i) ELSE StrikeOne(i)

ProviderReleases(i) ==
  /\ call[i].phase = "releasing" /\ Emits(backend, call[i].keys[call[i].n])
  /\ ReleaseOne(i)

RepeatEnds(k, presses) ==
  /\ presses => HoldsKeys(backend) /\ Emits(backend, k)
  /\ TickEnds(k, presses)

ControllerStep ==
  \/ \E i \in Calls : \/ ProviderPresses(i) \/ ProviderReleases(i) \/ ProviderThrows(i)
                      \/ ShortcutHeld(i)
                      \/ \E plain \in BOOLEAN : Pressed(i, plain)
                      \/ \E t \in Timers : ArmRepeat(i, t)
  \/ \E t \in Timers : Tick(t)
  \/ \E k \in Keys, presses \in BOOLEAN : RepeatEnds(k, presses)

\* The frames of any client.
ClientFrame ==
  \E i \in Calls : \/ \E s \in Inputs : PressKeys(i, s) \/ Shortcut(i, s)
                   \/ \E k \in Keys : HoldKey(i, k) \/ ReleaseKey(i, k)

-----------------------------------------------------------------------------
PathNext ==
  \/ /\ ControllerStep \/ (subject = "client" /\ ClientFrame)
     /\ UNCHANGED <<screenVars, settings, receiverVars>>
  \/ /\ subject = "screens"
     /\ \/ ScreenNext /\ UNCHANGED <<controllerVars, settings, receiverVars>>
        \/ Authenticates \/ AuthOkArrives \/ ConnectionEnds \/ Reconnected
        \/ Undelivered \/ Forbidden \/ PassedOn \/ Rejected \/ Pressing

PathSpec == PathInit /\ [][PathNext]_pathVars

-----------------------------------------------------------------------------
\* "Wire format is identical to the baseline codec (`encodeFrame`/`decodeFrame` output),
\* so mixed clients interoperate": the gateway decodes every frame a screen has sent.
EveryFrameDecodes ==
  \A i \in 1..Len(outbox) :
    Encodes(outbox[i].size) => DecodesFrame(Bytes(outbox[i]), outbox[i].size)
=============================================================================
