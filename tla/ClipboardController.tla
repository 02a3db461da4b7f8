-------------------------- MODULE ClipboardController --------------------------
(***************************************************************************)
(* The receiver's ClipboardController over the clipboard of the platform:  *)
(* remote writes, pushes and clears, each of which awaits the provider, so *)
(* that calls overlap with each other and with the user of the receiver.   *)
(*                                                                         *)
(* A content stands for its kind, data and hash.  The receiver as built    *)
(* has no cipher and tells the controller of no local write; an embedding  *)
(* with all the hooks calls markLocalClipboardWritten, clear and a cipher. *)
(***************************************************************************)
EXTENDS Naturals, Sequences

CONSTANTS Texts, Images,  \* contents
          Size,           \* bytes of a content
          TextCap,        \* MAX_CLIPBOARD_TEXT_BYTES
          ImageCap,       \* MAX_CLIPBOARD_IMAGE_BYTES
          Calls,          \* calls under way at a time (bound)
          Platforms,      \* of "linux", "darwin", "win32"
          None

Contents == Texts \cup Images

ASSUME SizeAssumption == Size \in [Contents -> Nat]
ASSUME NoneAssumption == None \notin Contents

VARIABLES
  platform,
  hooks,           \* the embedding has all the hooks
  os,              \* what the operating system's clipboard holds
  call,            \* the calls under way
  lastPushedHash,
  lastKnownHash, owner,  \* the ClipboardOwnership
  reported,        \* history: the last content a provider reported written, or that was pushed
  edit, raced      \* history: the last edit that was marked, until a clear takes it away, and
                   \* whether a remote write was past its check by then

ownVars == <<lastPushedHash, lastKnownHash, owner, reported>>
editVars == <<edit, raced>>
clipVars == <<platform, hooks, os, call, ownVars, editVars>>

Free == [op |-> "none", phase |-> "free", c |-> None]
CallType == [op : {"none", "apply", "push", "clear"}, c : Contents \cup {None},
             phase : {"free", "reading", "writing", "written"}]

ClipTypeOK ==
  /\ platform \in Platforms
  /\ {hooks, raced} \subseteq BOOLEAN
  /\ {os, lastPushedHash, lastKnownHash, edit, reported} \subseteq Contents \cup {None}
  /\ owner \in {"remote", "local", "unknown"}
  /\ call \in [Calls -> CallType]
  /\ \A i \in Calls : call[i].op = "apply" => call[i].c # None

ClipInit ==
  /\ platform \in Platforms
  /\ hooks \in BOOLEAN
  /\ os \in Contents \cup {None}
  /\ call = [i \in Calls |-> Free]
  /\ lastPushedHash = None /\ lastKnownHash = None /\ owner = "unknown"
  /\ reported = None
  /\ edit = None /\ raced = FALSE

-----------------------------------------------------------------------------
(* Validation, transport and the provider.                                 *)

\* normalizeClipboardContent refuses what is over its cap.
Valid(c) == IF c \in Texts THEN Size[c] <= TextCap ELSE Size[c] <= ImageCap

\* Only a cipher opens an encrypted payload; one in plain is taken with or without.
Opens(sealed) == sealed => hooks

\* What a read yields: xclip's output is never decoded, pbpaste has texts only, and a
\* content over its cap is refused like a failed read.
Readable ==
  IF os # None /\ (platform = "win32" \/ (platform = "darwin" /\ os \in Texts)) /\ Valid(os)
    THEN os ELSE None

\* PowerShell and osascript reject when they exit with an error, or are killed by the
\* timeout; for xclip and pbcopy any exit is the end of a write.
TellsOfFailure(c) == platform = "win32" \/ (platform = "darwin" /\ c \in Images)

\* What the clipboard may hold after a write: PowerShell's text has its backslashes and
\* line ends altered, so that it is some text; of an image, macOS and Windows are given a
\* file, which reads as nothing or as some text.
Outcomes(c) ==
  IF c \in Texts /\ platform = "win32" THEN Texts
  ELSE IF c \in Images /\ platform # "linux" THEN Texts \cup {None}
  ELSE {c}

-----------------------------------------------------------------------------
(* Calls.                                                                  *)

Begin(i, op, phase, c) ==
  /\ call[i] = Free
  /\ call' = [call EXCEPT ![i] = [op |-> op, phase |-> phase, c |-> c]]

\* A sync frame that is refused by validation or as a duplicate ends at once.
ApplyRemoteWrite(i, c, sealed) ==
  /\ IF Opens(sealed) /\ Valid(c) /\ lastPushedHash # c THEN Begin(i, "apply", "reading", c)
     ELSE call[i] = Free /\ UNCHANGED call
  /\ UNCHANGED <<platform, hooks, os, ownVars, editVars>>

\* Faulty variant: an unknown hash equals a clipboard that reads as empty.
CanApplyUnknown(current) == owner = "local" => lastKnownHash = current

CanApplyRemote(current) == owner = "local" => lastKnownHash # None /\ lastKnownHash = current

\* Faulty variant: the content counts as pushed before its write.
DecidesEarly(i, failed) ==
  LET current == IF failed THEN None ELSE Readable
  IN  /\ call[i].op = "apply" /\ call[i].phase = "reading"
      /\ call' = [call EXCEPT ![i] = IF CanApplyRemote(current) THEN [@ EXCEPT !.phase = "writing"]
                                     ELSE Free]
      /\ lastPushedHash' = call[i].c
      /\ UNCHANGED <<platform, hooks, os, lastKnownHash, owner, reported, editVars>>

\* The read has answered, or failed: the write begins, or is a conflict and dropped.
Decides(i, failed) ==
  LET current == IF failed THEN None ELSE Readable
  IN  /\ call[i].op = "apply" /\ call[i].phase = "reading"
      /\ call' = [call EXCEPT ![i] = IF CanApplyRemote(current) THEN [@ EXCEPT !.phase = "writing"]
                                     ELSE Free]
      /\ UNCHANGED <<platform, hooks, os, ownVars, editVars>>

\* The platform's clipboard takes what a call makes of its content, or loses what it holds;
\* a clear takes the edit that was to be kept with it.
TakesEffect(i) ==
  /\ os' \in Outcomes(call[i].c)
  /\ edit' = IF call[i].op = "clear" THEN None ELSE edit

Writes(i) ==
  /\ call[i].phase = "writing"
  /\ TakesEffect(i)
  /\ call' = [call EXCEPT ![i].phase = "written"]
  /\ UNCHANGED <<platform, hooks, ownVars, raced>>

\* The provider rejects and the call ends: its process did not start, or it failed or was
\* killed, which may be after the clipboard was written.
WriteFails(i) ==
  /\ call[i].phase = "writing"
  /\ call' = [call EXCEPT ![i] = Free]
  /\ \/ UNCHANGED <<os, edit>>
     \/ TellsOfFailure(call[i].c) /\ TakesEffect(i)
  /\ UNCHANGED <<platform, hooks, ownVars, raced>>

FailsSilently(i) ==
  /\ call[i].phase = "writing" /\ ~TellsOfFailure(call[i].c)
  /\ call' = [call EXCEPT ![i].phase = "written"]
  /\ UNCHANGED <<platform, hooks, os, ownVars, editVars>>

\* The write has ended well, for the provider: the books are brought up to date.
Applied(i) ==
  LET c == call[i].c
  IN  /\ call[i].op = "apply" /\ call[i].phase = "written"
      /\ call' = [call EXCEPT ![i] = Free]
      /\ lastKnownHash' = c /\ owner' = "remote" /\ lastPushedHash' = c
      /\ reported' = c
      /\ UNCHANGED <<platform, hooks, os, editVars>>

PushOutbound(i) ==
  /\ Begin(i, "push", "reading", None)
  /\ UNCHANGED <<platform, hooks, os, ownVars, editVars>>

\* The content a push has read, or None: only then is there a reply.
Pushed(i, failed, c) ==
  /\ call[i].op = "push"
  /\ c = IF failed THEN None ELSE Readable
  /\ call' = [call EXCEPT ![i] = Free]
  /\ lastPushedHash' = IF c = None THEN lastPushedHash ELSE c
  /\ reported' = IF c = None THEN reported ELSE c
  /\ UNCHANGED <<platform, hooks, os, lastKnownHash, owner, editVars>>

Clear(i) ==
  /\ hooks
  /\ Begin(i, "clear", "writing", None)
  /\ UNCHANGED <<platform, hooks, os, ownVars, editVars>>

\* A clear is a local write too, after which nothing is known.
Cleared(i) ==
  /\ call[i].op = "clear" /\ call[i].phase = "written"
  /\ call' = [call EXCEPT ![i] = Free]
  /\ owner' = "local" /\ lastKnownHash' = None /\ lastPushedHash' = None
  /\ UNCHANGED <<platform, hooks, os, reported, editVars>>

\* The receiver's user copies something; with the hooks, the controller is told at once.
LocalCopy(c) ==
  /\ os' = c
  /\ IF hooks
       THEN /\ owner' = "local" /\ lastKnownHash' = None
            /\ edit' = c
            /\ raced' = \E i \in Calls :
                          call[i].op # "clear" /\ call[i].phase \in {"writing", "written"}
       ELSE UNCHANGED <<owner, lastKnownHash, editVars>>
  /\ UNCHANGED <<platform, hooks, call, lastPushedHash, reported>>

ClipNext ==
  \/ \E i \in Calls :
       \/ Writes(i) \/ WriteFails(i) \/ FailsSilently(i) \/ Applied(i) \/ Clear(i) \/ Cleared(i)
       \/ \E failed \in BOOLEAN : Decides(i, failed)
  \/ \E c \in Contents : LocalCopy(c)
=============================================================================
