---------------------------- MODULE MCOverlapped ----------------------------
(* Small instances of Overlapped. *)
EXTENDS Overlapped

CONSTANTS reader, writer
=============================================================================
