---------------------------- MODULE MCLiveDriver ----------------------------
(***************************************************************************)
(* LiveDriver for model checking: a limit of four read two at a time, so   *)
(* the last read before the limit asks for one byte, and six bytes are     *)
(* enough to end below the limit, at it and beyond it.                     *)
(***************************************************************************)
EXTENDS LiveDriver
=============================================================================
