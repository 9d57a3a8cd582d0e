---------------------------- MODULE ClientSession ----------------------------
(***************************************************************************)
(* What a pipeforge::client::connection promises its callers, without      *)
(* threads, queues or channels (src/include/pipeforge/client.hpp 76-123):  *)
(* one session that is opened once and ends once, at most MaxPending       *)
(* unresolved calls, every future resolved exactly once, and an end of the *)
(* session that resolves all unresolved calls together, at most one of     *)
(* them with a result of its own.                                          *)
(***************************************************************************)
EXTENDS Integers, FiniteSets

CONSTANTS MaxId, MaxPending, Failures

VARIABLES
  stage,          \* "new", "opening", "open" or "ended"
  connectResult,  \* the connect future: "unset", "connected" or a failure
  count,          \* the id of the next call
  result          \* the future of each call: "unset", "response" or a failure

vars == <<stage, connectResult, count, result>>

Ids == 1 .. (MaxId - 1)

Unresolved == {i \in Ids : i < count /\ result[i] = "unset"}

Init ==
  /\ stage = "new" /\ connectResult = "unset"
  /\ count = 1 /\ result = [i \in Ids |-> "unset"]

Start ==
  /\ stage = "new" /\ stage' = "opening"
  /\ UNCHANGED <<connectResult, count, result>>

\* A connection closed before any attempt has no connect future to resolve.
EndUnused ==
  /\ stage = "new" /\ stage' = "ended"
  /\ UNCHANGED <<connectResult, count, result>>

Opened ==
  /\ stage = "opening" /\ stage' = "open"
  /\ connectResult' = "connected"
  /\ UNCHANGED <<count, result>>

NotOpened ==
  /\ stage \in {"new", "opening"} /\ stage' = "ended"
  /\ connectResult' \in Failures
  /\ UNCHANGED <<count, result>>

Submit ==
  /\ stage = "open" /\ count # MaxId /\ Cardinality(Unresolved) < MaxPending
  /\ count' = count + 1
  /\ UNCHANGED <<stage, connectResult, result>>

\* A response, or the cancellation or expiry of a call that was not sent.
Resolve(i) ==
  /\ stage = "open" /\ i \in Unresolved
  /\ \E value \in {"response", "cancelled", "timeout"} : result' = [result EXCEPT ![i] = value]
  /\ UNCHANGED <<stage, connectResult, count>>

End ==
  /\ stage = "open" /\ stage' = "ended"
  /\ \E common \in Failures, specific \in Failures, culprit \in Ids \cup {0} :
       result' = [i \in Ids |-> IF i \notin Unresolved THEN result[i]
                                ELSE IF i = culprit THEN specific ELSE common]
  /\ UNCHANGED <<connectResult, count>>

Next ==
  \/ Start \/ EndUnused \/ Opened \/ NotOpened \/ Submit \/ End
  \/ \E i \in Ids : Resolve(i)

Spec == Init /\ [][Next]_vars
=============================================================================
