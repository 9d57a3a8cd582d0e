------------------------------ MODULE MCClient ------------------------------
(* Model-checking instances of ClientConnection. *)
EXTENDS ClientConnection
=============================================================================
