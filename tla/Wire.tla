---------------------------------- MODULE Wire ----------------------------------
(***************************************************************************)
(* What becomes of a frame between two peers: the two encoders, the two    *)
(* decoders, the check of the envelope and the gates of the router.  A     *)
(* payload is its size: "small" ones fly as they are, others deflated;     *)
(* "huge" ones would inflate beyond the cap.                               *)
(***************************************************************************)
EXTENDS Naturals

CONSTANT Deflates   \* the platform has zlib (React Native has none)

Small == {"small"}                    \* at most COMPRESSION_THRESHOLD_BYTES
Huge == {"huge"}                      \* more than MAX_DECOMPRESSED_BYTES

PreAuthTypes == {"Hello", "PairRequest", "PairResponse", "Authenticate"}

NoBytes == [c |-> 0, raw |-> "none"]

-----------------------------------------------------------------------------
(* Encoding: how the payload lies in the envelope.                         *)

\* The baseline encoder lists the deflated bytes as numbers.
EncodeFrame(size) ==
  IF size \in Small THEN NoBytes ELSE [c |-> 1, raw |-> "numbers"]

\* The fast one writes them as a binary string.
EncodeFrameFast(size) ==
  IF size \in Small THEN NoBytes ELSE [c |-> 1, raw |-> "bytes"]

\* Nothing is sent when the encoder throws.
Encodes(size) == size \in Small \/ Deflates

\* The client's choice: the fast encoder for fire-and-forget frames.
SendFrame(mid, size) == IF mid = 0 THEN EncodeFrameFast(size) ELSE EncodeFrame(size)

-----------------------------------------------------------------------------
(* Decoding: whether the frame comes out.                                  *)

Inflates(size) == size \notin Huge

DecodesFrame(bytes, size) ==
  bytes.c = 0 \/ (bytes.raw = "numbers" /\ Inflates(size))

DecodesFrameFast(bytes, size) ==
  bytes.c = 0 \/ (bytes.raw \in {"numbers", "bytes"} /\ Inflates(size))

-----------------------------------------------------------------------------
(* The receiver's gates, in the order of the code.                         *)

\* What the gateway and its router make of a decoded frame, up to its handler.
Routed(t, v, authenticated, handlers) ==
  IF v # 1 THEN "fatal"
  ELSE IF ~authenticated /\ t \notin PreAuthTypes THEN "notAuthenticated"
  ELSE IF t \notin handlers THEN "unknownType"
  ELSE "handled"
=============================================================================
