---------------------------- MODULE MCApplication ----------------------------
(* A small instance of Application.  "4" is a session count below every     *)
(* timeout, "50" a timeout above every session count, "0" neither; "pipe"   *)
(* spells no number.  "0" leads to the file of "pipe".                      *)
EXTENDS Application

CONSTANTS t1, t2, t3

Arguments == {"0", "4", "50", "pipe"}
Files == [path \in Arguments |-> IF path = "0" THEN "pipe" ELSE path]
Numbers == [spelling \in {"0", "4", "50"} |->
              CASE spelling = "0" -> 0 [] spelling = "4" -> 4 [] OTHER -> 50]
Milliseconds == 10..60000
=============================================================================
