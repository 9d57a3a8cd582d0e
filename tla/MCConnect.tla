------------------------------ MODULE MCConnect ------------------------------
(* A small instance of PipeConnect: half milliseconds, slices of two, and a deadline that *)
(* falls within a millisecond.                                                            *)
EXTENDS PipeConnect, TLC

CONSTANTS c1, c2, i1, i2

Deadlines == (c1 :> 3) @@ (c2 :> 6)
=============================================================================
