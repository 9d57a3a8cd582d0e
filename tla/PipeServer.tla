----------------------------- MODULE PipeServer -----------------------------
(***************************************************************************)
(* The pipe server: a controller that launches and stops it, one worker    *)
(* thread per pipe slot, and the domain gate through which the workers     *)
(* reach the domain layer.  A worker accepts a client, serves its requests *)
(* one after the other, closes the session's store and recycles the slot.  *)
(*                                                                         *)
(* A store is abstracted to the identities it retains.  Executing a        *)
(* request reads the shared identifier source in one step and writes it in *)
(* another, so that only the gate can make it atomic.  A request is        *)
(* abstracted to what decoding it gives: "valid", "recoverable" (a         *)
(* correlated error response is possible) or "fatal".  Time is a flag per  *)
(* worker: whether the deadline of its present request has passed.         *)
(***************************************************************************)
EXTENDS Integers, FiniteSets, Sequences

CONSTANTS
  Slots,           \* options_.sessions
  MaxConnections,  \* bound on the clients that connect
  MaxRequests,     \* bound on the requests and frames the clients send
  Failing          \* which parts of the environment may fail

FailureSources == {"setup", "native", "peer"}

ASSUME ServerAssumption ==
  /\ Slots \in Nat \ {0} /\ MaxConnections \in Nat /\ MaxRequests \in Nat
  /\ Failing \subseteq FailureSources

Workers == 1..Slots
Nobody == 0
Decodings == {"valid", "recoverable", "fatal"}
Frames == Decodings \cup {"invalid"}   \* "invalid": framing itself fails

VARIABLES
  phase,     \* the controller: launching, ready, stopping, stopped
  pipes,     \* how many pipe instances pipes_ anchors
  shutdown,  \* shutdown_.stop_requested()
  pc,        \* where each worker is
  gate,      \* the worker holding domain_gate_, or Nobody
  expired,   \* has the deadline of the worker's request passed?
  request,   \* what the worker's request decoded to
  draft,     \* the identity a worker inside the domain layer has read
  next,      \* identifiers_
  store,     \* the identities retained by the worker's session
  stats,     \* the atomic counters
  client,    \* history: is a client at the other end of the slot's pipe?
  wire,      \* frames the client has written and the worker has not read
  sent,      \* history: frames sent so far, to bound them
  lapsed,    \* history: the deadline passed, or stop came, before the gate was won
  terminal   \* history: sessions ended by a frame or envelope failure

controllerVars == <<phase, pipes>>
peerVars == <<client, wire, sent>>
domainVars == <<draft, next, store>>
histories == <<lapsed, terminal>>
vars == <<controllerVars, shutdown, pc, gate, expired, request, domainVars, stats, peerVars, histories>>

NoStatistics == [connections |-> 0, completed |-> 0, protocol |-> 0, io |-> 0, active |-> 0]

Init ==
  /\ phase = "launching" /\ pipes = 0 /\ shutdown = FALSE
  /\ pc = [w \in Workers |-> "unborn"]
  /\ gate = Nobody
  /\ expired = [w \in Workers |-> FALSE]
  /\ request = [w \in Workers |-> "valid"]
  /\ draft = [w \in Workers |-> 0] /\ next = 1 /\ store = [w \in Workers |-> {}]
  /\ stats = NoStatistics
  /\ client = [w \in Workers |-> FALSE] /\ wire = [w \in Workers |-> <<>>] /\ sent = 0
  /\ lapsed = [w \in Workers |-> FALSE] /\ terminal = 0

Goto(w, place) == pc' = [pc EXCEPT ![w] = place]

-----------------------------------------------------------------------------
(* The controller: launch, request_stop, stop. *)

Unborn == {w \in Workers : pc[w] = "unborn"}
Finished == {w \in Workers : pc[w] \in {"unborn", "done"}}

CreateInstance ==
  /\ phase = "launching" /\ pipes < Slots
  /\ pipes' = pipes + 1
  /\ UNCHANGED <<phase, shutdown, pc, gate, expired, request, domainVars, stats, peerVars, histories>>

SpawnWorker ==
  /\ phase = "launching" /\ pipes = Slots
  /\ \E w \in Unborn :
       /\ \A u \in Unborn : w <= u
       /\ Goto(w, "top")
       /\ phase' = IF Unborn = {w} THEN "ready" ELSE phase
  /\ UNCHANGED <<pipes, shutdown, gate, expired, request, domainVars, stats, peerVars, histories>>

\* The security descriptor, a pipe instance or a thread cannot be had.  The thread
\* case stops in launch itself, the others when the caller destroys the state.
LaunchFails ==
  /\ "setup" \in Failing
  /\ phase = "launching"
  /\ phase' = "stopping" /\ shutdown' = TRUE
  /\ UNCHANGED <<pipes, pc, gate, expired, request, domainVars, stats, peerVars, histories>>

RequestStop ==
  /\ phase = "ready" /\ ~shutdown
  /\ shutdown' = TRUE
  /\ UNCHANGED <<phase, pipes, pc, gate, expired, request, domainVars, stats, peerVars, histories>>

Stop ==
  /\ phase = "ready"
  /\ phase' = "stopping" /\ shutdown' = TRUE
  /\ UNCHANGED <<pipes, pc, gate, expired, request, domainVars, stats, peerVars, histories>>

StopReleasesEarly ==
  /\ phase = "stopping" /\ pc[1] \in {"unborn", "done"}
  /\ phase' = "stopped" /\ pipes' = 0
  /\ UNCHANGED <<shutdown, pc, gate, expired, request, domainVars, stats, peerVars, histories>>

\* workers_.clear() has joined every worker; pipes_.clear() closes the instances.
StopReturns ==
  /\ phase = "stopping" /\ Finished = Workers
  /\ phase' = "stopped" /\ pipes' = 0
  /\ UNCHANGED <<shutdown, pc, gate, expired, request, domainVars, stats, peerVars, histories>>

Controller == CreateInstance \/ SpawnWorker \/ LaunchFails \/ RequestStop \/ Stop \/ StopReturns

-----------------------------------------------------------------------------
(* run: accepting clients. *)

\* record(): protocol violations always count, other failures unless they are a peer's
\* departure or happen during shutdown.
Recorded(kind) ==
  IF kind = "protocol_violation" THEN [stats EXCEPT !.protocol = @ + 1]
  ELSE IF kind # "disconnected" /\ ~shutdown THEN [stats EXCEPT !.io = @ + 1]
  ELSE stats

RunTop(w) ==
  /\ pc[w] = "top"
  /\ Goto(w, IF shutdown THEN "done" ELSE "accepting")
  /\ UNCHANGED <<controllerVars, shutdown, gate, expired, request, domainVars, stats, peerVars, histories>>

Accepts(w) ==
  /\ pc[w] = "accepting" /\ stats.connections < MaxConnections
  /\ client' = [client EXCEPT ![w] = TRUE]
  /\ stats' = [stats EXCEPT !.connections = @ + 1, !.active = @ + 1]
  /\ store' = [store EXCEPT ![w] = {}]
  /\ Goto(w, "serving")
  /\ UNCHANGED <<controllerVars, shutdown, gate, expired, request, draft, next, wire, sent, histories>>

AcceptUncancellable(w) == pc[w] = "accepting" /\ FALSE

\* The stop signal cancels a pending accept().
AcceptCancelled(w) ==
  /\ pc[w] = "accepting" /\ shutdown
  /\ Goto(w, "done")
  /\ UNCHANGED <<controllerVars, shutdown, gate, expired, request, domainVars, stats, peerVars, histories>>

\* accept() fails with a client that is already gone, or with a native error, which
\* stops the whole server.
AcceptFails(w) ==
  /\ pc[w] = "accepting" /\ ~shutdown
  /\ \E kind \in {"disconnected"} \cup (IF "native" \in Failing THEN {"io_failure"} ELSE {}) :
       /\ stats' = Recorded(kind)
       /\ shutdown' = (kind # "disconnected")
       /\ Goto(w, IF kind = "disconnected" THEN "top" ELSE "done")
  /\ UNCHANGED <<controllerVars, gate, expired, request, domainVars, peerVars, histories>>

-----------------------------------------------------------------------------
(* serve: one request after the other, each with its own deadline. *)

InRequest == {"receiving", "queued", "locking", "admitted", "executing", "executed", "responding",
              "sending"}

ServeTop(w) ==
  /\ pc[w] = "serving"
  /\ Goto(w, IF shutdown THEN "closing" ELSE "receiving")
  /\ expired' = [expired EXCEPT ![w] = FALSE]
  /\ lapsed' = [lapsed EXCEPT ![w] = FALSE]
  /\ UNCHANGED <<controllerVars, shutdown, gate, request, domainVars, stats, peerVars, terminal>>

StreamWithoutDeadline(w) ==
  (IF shutdown THEN {"cancelled"} ELSE {}) \cup (IF ~client[w] THEN {"disconnected"} ELSE {})

\* The failures a stream operation of worker w can return now.  A client that leaves
\* in the middle of a frame makes the failure a protocol violation.
StreamFailures(w) ==
  (IF shutdown THEN {"cancelled"} ELSE {})
    \cup (IF expired[w] THEN {"timeout"} ELSE {})
    \cup (IF ~client[w] THEN {"disconnected"} ELSE {})

EndSession(w, kind) ==
  /\ stats' = Recorded(kind)
  /\ terminal' = IF kind = "protocol_violation" THEN terminal + 1 ELSE terminal
  /\ Goto(w, "closing")

\* stream.receive gives a whole frame, or finds the frame invalid.  A read that is under
\* way may still complete when the stop signal or the deadline has just come: completion
\* takes precedence.
ReceiveFrame(w) ==
  /\ pc[w] = "receiving" /\ wire[w] # <<>>
  /\ wire' = [wire EXCEPT ![w] = Tail(@)]
  /\ IF Head(wire[w]) = "invalid"
     THEN EndSession(w, "protocol_violation") /\ UNCHANGED request
     ELSE /\ request' = [request EXCEPT ![w] = Head(wire[w])]
          /\ Goto(w, "queued")
          /\ UNCHANGED <<stats, terminal>>
  /\ UNCHANGED <<controllerVars, shutdown, gate, expired, domainVars, client, sent, lapsed>>

ReceiveFails(w) ==
  /\ pc[w] = "receiving"
  /\ \E kind \in StreamFailures(w) :
       /\ kind = "disconnected" => wire[w] = <<>>
       /\ \E truncated \in {FALSE} \cup (IF "peer" \in Failing THEN {TRUE} ELSE {}) :
            EndSession(w, IF kind = "disconnected" /\ truncated THEN "protocol_violation" ELSE kind)
  /\ UNCHANGED <<controllerVars, shutdown, gate, expired, request, domainVars, peerVars, lapsed>>

-----------------------------------------------------------------------------
(* dispatch: waiting for the gate in slices, rechecking, executing under   *)
(* the gate, responding after releasing it.                                *)

\* native::preflight.
Preflight(w) == IF shutdown THEN "cancelled" ELSE IF expired[w] THEN "timeout" ELSE "ok"

QueueTop(w) ==
  /\ pc[w] = "queued"
  /\ IF Preflight(w) = "ok"
     THEN Goto(w, "locking") /\ UNCHANGED <<stats, terminal>>
     ELSE EndSession(w, Preflight(w))
  /\ UNCHANGED <<controllerVars, shutdown, gate, expired, request, domainVars, peerVars, lapsed>>

TryLockShared(w) ==
  /\ pc[w] = "locking"
  /\ gate' = w
  /\ lapsed' = [lapsed EXCEPT ![w] = expired[w] \/ shutdown]
  /\ Goto(w, "admitted")
  /\ UNCHANGED <<controllerVars, shutdown, expired, request, domainVars, stats, peerVars, terminal>>

\* try_lock_for wins the gate within its slice...
TryLock(w) ==
  /\ pc[w] = "locking" /\ gate = Nobody
  /\ gate' = w
  /\ lapsed' = [lapsed EXCEPT ![w] = expired[w] \/ shutdown]
  /\ Goto(w, "admitted")
  /\ UNCHANGED <<controllerVars, shutdown, expired, request, domainVars, stats, peerVars, terminal>>

\* ...or the slice ends.
SliceEnds(w) ==
  /\ pc[w] = "locking"
  /\ Goto(w, "queued")
  /\ UNCHANGED <<controllerVars, shutdown, gate, expired, request, domainVars, stats, peerVars, histories>>

RecheckSkipped(w) ==
  /\ pc[w] = "admitted"
  /\ Goto(w, "executing")
  /\ UNCHANGED <<controllerVars, shutdown, gate, expired, request, domainVars, stats, peerVars, histories>>

RecheckKeepsGate(w) ==
  /\ pc[w] = "admitted"
  /\ IF Preflight(w) = "ok"
     THEN Goto(w, "executing") /\ UNCHANGED <<stats, terminal>>
     ELSE EndSession(w, Preflight(w))
  /\ UNCHANGED <<controllerVars, shutdown, gate, expired, request, domainVars, peerVars, lapsed>>

Recheck(w) ==
  /\ pc[w] = "admitted"
  /\ IF Preflight(w) = "ok"
     THEN Goto(w, "executing") /\ UNCHANGED <<gate, stats, terminal>>
     ELSE EndSession(w, Preflight(w)) /\ gate' = Nobody
  /\ UNCHANGED <<controllerVars, shutdown, expired, request, domainVars, peerVars, lapsed>>

\* service.reject: a correlated error response, or the end of the session.
Reject(w) ==
  /\ pc[w] = "executing" /\ request[w] # "valid"
  /\ stats' = [stats EXCEPT !.protocol = @ + 1]
  /\ terminal' = IF request[w] = "fatal" THEN terminal + 1 ELSE terminal
  /\ gate' = Nobody
  /\ Goto(w, IF request[w] = "fatal" THEN "closing" ELSE "responding")
  /\ UNCHANGED <<controllerVars, shutdown, expired, request, domainVars, peerVars, lapsed>>

\* service.dispatch: the domain layer draws an identity...
ExecuteReads(w) ==
  /\ pc[w] = "executing" /\ request[w] = "valid"
  /\ draft' = [draft EXCEPT ![w] = next]
  /\ Goto(w, "executed")
  /\ UNCHANGED <<controllerVars, shutdown, gate, expired, request, next, store, stats, peerVars, histories>>

\* ...and retains a record under it; the gate is released.
ExecuteWrites(w) ==
  /\ pc[w] = "executed"
  /\ next' = draft[w] + 1
  /\ store' = [store EXCEPT ![w] = @ \cup {draft[w]}]
  /\ gate' = Nobody
  /\ Goto(w, "responding")
  /\ UNCHANGED <<controllerVars, shutdown, expired, request, draft, stats, peerVars, histories>>

\* encode_response, and the preflight of stream.send.
RespondTop(w) ==
  /\ pc[w] = "responding"
  /\ \/ /\ Preflight(w) = "ok"
        /\ Goto(w, "sending")
        /\ UNCHANGED <<stats, terminal>>
     \/ Preflight(w) # "ok" /\ EndSession(w, Preflight(w))
     \/ "native" \in Failing /\ EndSession(w, "protocol_violation")
  /\ UNCHANGED <<controllerVars, shutdown, gate, expired, request, domainVars, peerVars, lapsed>>

Responds(w) ==
  /\ pc[w] = "sending" /\ client[w]
  /\ stats' = [stats EXCEPT !.completed = @ + 1]
  /\ Goto(w, "serving")
  /\ UNCHANGED <<controllerVars, shutdown, gate, expired, request, domainVars, peerVars, histories>>

RespondFails(w) ==
  /\ pc[w] = "sending"
  /\ \E kind \in StreamFailures(w) : EndSession(w, kind)
  /\ UNCHANGED <<controllerVars, shutdown, gate, expired, request, domainVars, peerVars, lapsed>>

\* A read or write fails in the kernel.
StreamBreaks(w) ==
  /\ pc[w] \in {"receiving", "sending"} /\ "native" \in Failing
  /\ EndSession(w, "io_failure")
  /\ UNCHANGED <<controllerVars, shutdown, gate, expired, request, domainVars, peerVars, lapsed>>

-----------------------------------------------------------------------------
(* The end of a session, still in run. *)

CloseLocks(w) ==
  /\ pc[w] = "closing" /\ gate = Nobody
  /\ gate' = w
  /\ Goto(w, "clearing")
  /\ UNCHANGED <<controllerVars, shutdown, expired, request, domainVars, stats, peerVars, histories>>

CloseClears(w) ==
  /\ pc[w] = "clearing"
  /\ store' = [store EXCEPT ![w] = {}]
  /\ gate' = Nobody
  /\ Goto(w, "recycling")
  /\ UNCHANGED <<controllerVars, shutdown, expired, request, draft, next, stats, peerVars, histories>>

RecycleLeaksActive(w) ==
  /\ pc[w] = "recycling"
  /\ client' = [client EXCEPT ![w] = FALSE]
  /\ wire' = [wire EXCEPT ![w] = <<>>]
  /\ stats' = IF shutdown THEN stats ELSE [stats EXCEPT !.active = @ - 1]
  /\ Goto(w, "top")
  /\ UNCHANGED <<controllerVars, shutdown, gate, expired, request, domainVars, sent, histories>>

\* --active_ and DisconnectNamedPipe, which drops what the client wrote; a native
\* failure of it stops the whole server.
Recycle(w) ==
  /\ pc[w] = "recycling"
  /\ client' = [client EXCEPT ![w] = FALSE]
  /\ wire' = [wire EXCEPT ![w] = <<>>]
  /\ \E broken \in {FALSE} \cup (IF "native" \in Failing THEN {TRUE} ELSE {}) :
       /\ stats' = LET recorded == IF broken THEN Recorded("io_failure") ELSE stats
                   IN  [recorded EXCEPT !.active = @ - 1]
       /\ shutdown' = (shutdown \/ broken)
  /\ Goto(w, "top")
  /\ UNCHANGED <<controllerVars, gate, expired, request, domainVars, sent, histories>>

Worker(w) ==
  \/ RunTop(w) \/ AcceptCancelled(w) \/ ServeTop(w) \/ ReceiveFrame(w) \/ ReceiveFails(w)
  \/ QueueTop(w) \/ TryLock(w) \/ SliceEnds(w) \/ Recheck(w) \/ Reject(w)
  \/ ExecuteReads(w) \/ ExecuteWrites(w) \/ RespondTop(w) \/ Responds(w) \/ RespondFails(w)
  \/ CloseLocks(w) \/ CloseClears(w) \/ Recycle(w)

-----------------------------------------------------------------------------
(* Clients and the clock. *)

ClientSends(w) ==
  /\ client[w] /\ sent < MaxRequests
  /\ \E frame \in IF "peer" \in Failing THEN Frames ELSE {"valid"} :
       wire' = [wire EXCEPT ![w] = Append(@, frame)]
  /\ sent' = sent + 1
  /\ UNCHANGED <<controllerVars, shutdown, pc, gate, expired, request, domainVars, stats, client, histories>>

ClientLeaves(w) ==
  /\ client[w]
  /\ client' = [client EXCEPT ![w] = FALSE]
  /\ UNCHANGED <<controllerVars, shutdown, pc, gate, expired, request, domainVars, stats, wire, sent, histories>>

Expire(w) ==
  /\ pc[w] \in InRequest /\ ~expired[w]
  /\ expired' = [expired EXCEPT ![w] = TRUE]
  /\ UNCHANGED <<controllerVars, shutdown, pc, gate, request, domainVars, stats, peerVars, histories>>

Environment(w) ==
  Accepts(w) \/ AcceptFails(w) \/ StreamBreaks(w) \/ ClientSends(w) \/ ClientLeaves(w) \/ Expire(w)

Next == Controller \/ \E w \in Workers : Worker(w) \/ Environment(w)

Spec == Init /\ [][Next]_vars

\* Threads are scheduled, time passes, a started launch goes on and a started stop joins.
\* Nothing is assumed of the clients, nor that anyone ever calls stop.
Fairness ==
  /\ WF_vars(CreateInstance \/ SpawnWorker \/ StopReturns)
  /\ \A w \in Workers : WF_vars(Worker(w)) /\ WF_vars(Expire(w)) /\ SF_vars(CloseLocks(w))

FairSpec == Spec /\ Fairness

-----------------------------------------------------------------------------
(* Properties. *)

InSession == InRequest \cup {"serving", "closing", "clearing", "recycling"}
Places == InSession \cup {"unborn", "top", "accepting", "done"}
InDomain == {"admitted", "executing", "executed", "clearing"}

\* Sessions served at the same time never hold the same identity, although each draws
\* it from the shared source in several steps: the domain gate serialises them.
IdentitiesDistinct ==
  \A v, w \in Workers : v # w => store[v] \cap store[w] = {}

\* A request whose deadline passed, or that was overtaken by the stop signal, before it
\* won the gate is never executed: dispatch rechecks after a wait that may have used
\* up the last slice.
LapsedNeverExecutes ==
  \A w \in Workers : pc[w] \in {"executing", "executed"} => ~lapsed[w]

\* The pipe instances stay anchored until the last worker has left, and when stop() has
\* returned nothing is left over: no session, no retained record, no held gate.
StoppedMeansReleased ==
  /\ (\E w \in Workers : pc[w] \notin {"unborn", "done"}) => pipes = Slots
  /\ phase = "stopped" =>
       /\ gate = Nobody /\ stats.active = 0
       /\ \A w \in Workers : store[w] = {}

\* active_sessions is exact in every state, on every way out of a session.
ActiveExact == stats.active = Cardinality({w \in Workers : pc[w] \in InSession})

\* protocol_failures counts terminal frame and envelope failures only.
ProtocolFailuresTerminal == stats.protocol <= terminal

\* After the stop signal every worker leaves, whoever gave the signal, so the joins of
\* stop() return: every pending accept, read, write and gate wait gives way to it.
ShutdownDrains == shutdown ~> Finished = Workers

\* No request, the idle wait for one included, outlasts its deadline for ever,
\* whatever the client and the other workers do.
RequestEnds == \A w \in Workers : pc[w] = "receiving" ~> pc[w] \in {"serving", "closing"}

\* A session that has ended gives its slot back.
SlotRecycled == \A w \in Workers : pc[w] = "closing" ~> pc[w] \in {"accepting", "done"}
=============================================================================
