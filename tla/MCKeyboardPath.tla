----------------------------- MODULE MCKeyboardPath -----------------------------
(* KeyboardPath: two overlapping calls of every kind on a modifier and a letter, with two *)
(* intervals; the screens with five characters, one of which stands for a long paste.     *)
EXTENDS KeyboardPath

\* Calls are interchangeable, and so are intervals.
Symmetry == Permutations(Calls) \cup Permutations(Timers)

\* The fast decoder reads what either encoder writes, up to the cap; the baseline reads
\* only its own.
ASSUME FastDecoderReadsBoth ==
  \A size \in {"small", "large"} :
    DecodesFrameFast(EncodeFrame(size), size) /\ DecodesFrameFast(EncodeFrameFast(size), size)
ASSUME BaselineReadsItself ==
  \A size \in {"small", "large"} : DecodesFrame(EncodeFrame(size), size)

\* Every media key of the grammar has a code on every backend.
ASSUME MediaKeysEverywhere ==
  \A b \in {"nutjs", "linux", "darwin", "win32"}, k \in MediaKeys : Emits(b, k)
=============================================================================
