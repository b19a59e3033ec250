---------------------------- MODULE MCPipeReader ----------------------------
(***************************************************************************)
(* Values for PipeReader: two distinct bytes, up to four written, read two *)
(* at a time, so chunks are full, short, and follow one another.           *)
(***************************************************************************)
EXTENDS PipeReader

CONSTANTS a, b

MCBytes == {a, b}
=============================================================================
