---------------------------- MODULE MCClipboardSync ----------------------------
(* ClipboardSync with a text at the cap, one over it and an image, and two calls. *)
EXTENDS ClipboardSync, TLC

CONSTANTS fits, over, image

MCSize == fits :> 2 @@ over :> 3 @@ image :> 2
Symmetry == Permutations(Calls)
=============================================================================
