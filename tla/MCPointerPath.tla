---------------------------- MODULE MCPointerPath ----------------------------
(* PointerPath with moves of one unit, a left click with each of its actions by the   *)
(* sender's other callers, one frame waiting on the wire, two connections; nut.js and  *)
(* cliclick.  The pad itself clicks left and right.                                    *)
EXTENDS PointerPath

MCApiFrames == {Frame("MouseClick", 0, a) : a \in {"leftDouble", "leftDown", "leftUp"}}
=============================================================================
