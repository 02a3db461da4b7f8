-------------------------------- MODULE KeyNames --------------------------------
(***************************************************************************)
(* The grammar of key identifiers, and what each keyboard provider can     *)
(* make of it.  The letter C stands for the letters, 0 for the digits, F1  *)
(* for the function keys and NumPad0 for the keys of the number pad.       *)
(***************************************************************************)
EXTENDS Naturals, FiniteSets, Sequences, TLC

Letters == {"C"}
KeyLetters == {"KeyC"}
Digits == {"0"}
FunctionKeys == {"F1"}
Arrows == {"ArrowUp", "ArrowDown", "ArrowLeft", "ArrowRight"}

ModifierKeys == {"ControlLeft", "ControlRight", "ShiftLeft", "ShiftRight",
                 "AltLeft", "AltRight", "MetaLeft", "MetaRight"}

MediaKeys == {"volumeUp", "volumeDown", "mute", "playPause", "prevTrack", "nextTrack"}

LayoutKeys == {"Space", "Tab", "Backspace", "Enter", "Escape", "Delete", "Insert", "Home", "End",
               "PageUp", "PageDown", "CapsLock", "Pause", "PrintScreen", "Backquote", "Minus",
               "Equal", "BracketLeft", "BracketRight", "Backslash", "Semicolon", "Quote",
               "Comma", "Period", "Slash", "NumPad0", "NumLock"}

KeyIds == Letters \cup KeyLetters \cup Digits \cup FunctionKeys \cup Arrows
            \cup ModifierKeys \cup MediaKeys \cup LayoutKeys

-----------------------------------------------------------------------------
(* normalizeKeyId: letters in either case; any other name is refused.      *)

InLowerCase == ("c" :> "C") @@ ("Keyc" :> "KeyC")

IsKeyId(name) == name \in KeyIds \cup DOMAIN InLowerCase

NormalKeyId(name) == IF name \in KeyIds THEN name ELSE InLowerCase[name]

\* The names of a frame, all of which must be legal.
AllLegal(names) == \A i \in 1..Len(names) : IsKeyId(names[i])
Normalized(names) == [i \in 1..Len(names) |-> NormalKeyId(names[i])]

-----------------------------------------------------------------------------
(* The tables of the native backends, as the sets of their keys.           *)

WinVK == (LayoutKeys \cup Arrows) \cup ModifierKeys \cup MediaKeys

XKeys == ((LayoutKeys \ {"Tab"}) \cup Arrows) \cup ModifierKeys \cup MediaKeys

MacKeys == {"Backspace", "Enter", "Escape", "Space", "Delete", "Tab"}
             \cup Arrows \cup ModifierKeys \cup MediaKeys

PlatformKeyMap(platform) ==
  CASE platform = "linux" -> XKeys
    [] platform = "darwin" -> MacKeys
    [] platform = "win32" -> WinVK

\* Letters and function keys pass through as they are written; a digit has no code.
HasNativeCode(keyMap, key) == key \in keyMap \cup Letters \cup KeyLetters \cup FunctionKeys

\* The PowerShell backend takes numbers only, and only its table holds numbers.
HasNumericCode(key) == key \in WinVK

\* nut.js names its letters without "Key"; the other names of the grammar have an entry.
HasNutKey(key) == key \notin KeyLetters

Emits(backend, key) ==
  CASE backend = "nutjs" -> HasNutKey(key)
    [] backend = "win32" -> HasNumericCode(key)
    [] backend \in {"linux", "darwin"} -> HasNativeCode(PlatformKeyMap(backend), key)
    [] backend = "unavailable" -> TRUE

\* `xdotool key` strikes a key; the mock that stands for no backend has no keys.
HoldsKeys(backend) == backend \in {"nutjs", "darwin", "win32"}

-----------------------------------------------------------------------------
\* createKeyboardProvider.  The application asks for no kind; nut.js is then taken
\* whether or not its bindings can be loaded.
CreateKeyboardProvider(kind, platform) ==
  CASE kind \in {"default", "nutjs"} -> "nutjs"
    [] kind = "native" /\ platform \in {"linux", "darwin", "win32"} -> platform
    [] OTHER -> "unavailable"
=============================================================================
