---------------------------- MODULE MouseController ----------------------------
(***************************************************************************)
(* The receiver's half of the pointer path: the gate and the handlers of   *)
(* the mouse frames, the controller with its throttle and drag state, and  *)
(* a provider that nut.js or commands of the platform carry out.           *)
(*                                                                         *)
(* Only the left button is followed: other buttons leave it alone.  nut.js *)
(* is assumed to carry out its calls in order; each native button event is *)
(* a process of its own.                                                   *)
(***************************************************************************)
EXTENDS Sequences, SequencesExt

CONSTANTS Backends,  \* those of "nutjs", "xdotool" (and SendInput), "cliclick" to check
          MaxCalls   \* calls under way at a time (bound)

ASSUME MaxCallsAssumption == MaxCalls \in Nat

VARIABLES
  authenticated,    \* the session is authenticated on the receiver
  permitted,        \* with the mouse among its permissions
  backend,          \* the provider's backend
  dragInProgress,   \* the controller's dragActive
  resolving,        \* calls that wait for the layout of the displays
  calls,            \* provider calls under way: the events each still has to cause
  button            \* the left button in the operating system: up, or held by the down
                    \* of a "drag" or of a "click" frame

sessionVars == <<authenticated, permitted>>
controllerVars == <<dragInProgress, resolving, calls>>
osVars == <<backend, button>>
mouseVars == <<sessionVars, controllerVars, osVars>>

\* What the platform is made to do: a drag goes "down" and "up", a click frame presses and
\* lifts the button or does both at once, and "other" leaves the left button alone.
Events == {"move", "down", "up", "press", "lift", "click", "other"}

MouseTypeOK ==
  /\ {authenticated, permitted, dragInProgress} \subseteq BOOLEAN
  /\ button \in {"up", "drag", "click"}
  /\ backend \in Backends
  /\ resolving \in 0..MaxCalls
  /\ Len(calls) <= MaxCalls
  /\ \A i \in 1..Len(calls) : calls[i] \in Seq(Events) \ {<<>>}

MouseInit ==
  /\ authenticated = FALSE /\ permitted = FALSE
  /\ backend \in Backends
  /\ dragInProgress = FALSE
  /\ resolving = 0
  /\ calls = <<>>
  /\ button = "up"

-----------------------------------------------------------------------------
(* Provider: what a call makes the platform do.                            *)

\* nut.js has a click of its own, the native provider presses and lets go; for a double
\* click either does so twice.
ClickEvents(arg) ==
  LET once == IF backend = "nutjs" THEN <<"click">> ELSE <<"press", "lift">>
  IN  CASE arg = "left" -> once
        [] arg = "leftDouble" -> once \o once
        [] arg = "leftDown" -> <<"press">>
        [] arg = "leftUp" -> <<"lift">>
        [] OTHER -> <<"other">>

Calls(events) ==
  /\ Len(calls) + resolving < MaxCalls
  /\ calls' = Append(calls, events)

\* xdotool and SendInput have events for the two halves of a click.
HoldsButton == backend # "cliclick"

\* cliclick cannot hold a button: it clicks instead.  A click's down adds nothing to a
\* button that a drag holds.
ButtonAfter(event) ==
  CASE event \in {"move", "other"} -> button
    [] event = "down" -> IF HoldsButton THEN "drag" ELSE "up"
    [] event = "press" -> IF ~HoldsButton THEN "up" ELSE IF button = "drag" THEN "drag" ELSE "click"
    [] event \in {"up", "lift", "click"} -> "up"

\* Faulty variant: nut.js is asked for the second click of a double one, and the first one
\* stays in front of it.
CallsAfterUnawaited(i) ==
  IF Len(calls[i]) = 1 THEN RemoveAt(calls, i)
  ELSE IF backend = "nutjs" THEN Append(calls, Tail(calls[i]))
  ELSE [calls EXCEPT ![i] = Tail(@)]

\* The calls when the next event of call i has happened: nut.js is asked for the second
\* click of a double one when the first is done, behind the calls that wait.
CallsAfter(i) ==
  IF Len(calls[i]) = 1 THEN RemoveAt(calls, i)
  ELSE IF backend = "nutjs" THEN Append(RemoveAt(calls, i), Tail(calls[i]))
  ELSE [calls EXCEPT ![i] = Tail(@)]

\* The next event of a call happens: of the first call in nut.js, of any in the others.
ProviderEvent(i) ==
  /\ i \in 1..Len(calls)
  /\ backend = "nutjs" => i = 1
  /\ button' = ButtonAfter(Head(calls[i]))
  /\ calls' = CallsAfter(i)
  /\ UNCHANGED <<sessionVars, backend, dragInProgress, resolving>>

ProviderFails(i) ==
  /\ i \in 1..Len(calls)
  /\ backend = "nutjs" => i = 1
  /\ calls' = RemoveAt(calls, i)
  /\ UNCHANGED <<sessionVars, backend, dragInProgress, resolving, button>>

\* getDisplays and currentDisplay have answered: the move goes to the provider, or is
\* refused when no display is there.
Resolves(found) ==
  /\ resolving > 0
  /\ resolving' = resolving - 1
  /\ calls' = IF found THEN Append(calls, <<"move">>) ELSE calls
  /\ UNCHANGED <<sessionVars, osVars, dragInProgress>>

-----------------------------------------------------------------------------
(* Controller and frame handlers.                                          *)

\* A sample passes the 8 ms window, or is dropped.  Absolute positions then wait for the
\* layout of the displays before the provider hears of them.
MoveAbsolute(passes) ==
  /\ Len(calls) + resolving < MaxCalls
  /\ resolving' = IF passes THEN resolving + 1 ELSE resolving
  /\ UNCHANGED <<dragInProgress, calls>>

MoveRelative(passes) ==
  /\ IF passes THEN Calls(<<"move">>) ELSE UNCHANGED calls
  /\ UNCHANGED <<dragInProgress, resolving>>

Click(arg) ==
  /\ Calls(ClickEvents(arg))
  /\ UNCHANGED <<dragInProgress, resolving>>

\* An amount of zero would be dropped, and a large one clamped: the sender has neither.
Scrolls ==
  /\ Calls(<<"other">>)
  /\ UNCHANGED <<dragInProgress, resolving>>

DragStart ==
  /\ IF dragInProgress THEN UNCHANGED calls ELSE Calls(<<"down">>)
  /\ dragInProgress' = TRUE
  /\ UNCHANGED resolving

DragMove(passes) ==
  IF dragInProgress THEN MoveAbsolute(passes) ELSE UNCHANGED controllerVars

DragEnd ==
  /\ IF dragInProgress THEN Calls(<<"up">>) ELSE UNCHANGED calls
  /\ dragInProgress' = FALSE
  /\ UNCHANGED resolving

\* What the handlers registered for mouse frames do with one, by its type.
Handle(f, passes) ==
  CASE f.t = "MouseMove" /\ f.arg = "absolute" -> MoveAbsolute(passes)
    [] f.t = "MouseMove" /\ f.arg # "absolute" -> MoveRelative(passes)
    [] f.t = "MouseClick" -> Click(f.arg)
    [] f.t = "MouseScroll" -> Scrolls
    [] f.t = "MouseDragStart" -> DragStart
    [] f.t = "MouseDragMove" -> DragMove(passes)
    [] f.t = "MouseDragEnd" -> DragEnd

MouseNext ==
  \/ \E i \in 1..Len(calls) : ProviderEvent(i)
  \/ \E found \in BOOLEAN : Resolves(found)
=============================================================================
