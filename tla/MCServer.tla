------------------------------ MODULE MCServer ------------------------------
(* Small instances of PipeServer. *)
EXTENDS PipeServer
=============================================================================
