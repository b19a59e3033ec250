--------------------------- MODULE MCCodexSession ---------------------------
(***************************************************************************)
(* Values for CodexSession.  Three frames are enough for a handshake with  *)
(* a notification anywhere in it, and seven bytes for one byte too many    *)
(* after its six; reads of three bytes straddle the two-byte frames.  The  *)
(* frames that end the exchange by themselves, and a cap that leaves bytes *)
(* of a chunk for the trailing probe, need only five bytes.                *)
(***************************************************************************)
EXTENDS CodexSession

Wire(frames) == [frame : frames, last : BOOLEAN]

HandshakeFrames == {Response(1), Response(2), Notification}
HandshakeWire == Wire(HandshakeFrames)

FailureFrames ==
  {Response(1), Response(2), ErrorResponse(1, "RATE_LIMITED"),
   Malformed("PROCESS")}
FailureWire == Wire(FailureFrames)
=============================================================================
