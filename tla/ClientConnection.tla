-------------------------- MODULE ClientConnection --------------------------
(***************************************************************************)
(* The client scheduler of src/src/client/client.cpp: connection_state     *)
(* with its writer, reader and monitor threads, the mutex and condition    *)
(* variable they share, one promise per call, and the duplex channel       *)
(* (pipe_stream) whose `failed' flag the two I/O directions share.         *)
(*                                                                         *)
(* A step is one critical section of mutex_, or one channel call outside   *)
(* it.  The only critical section split into several steps is the          *)
(* monitor's scan, which reads one stop token after the other while it     *)
(* holds the mutex; MutexFree is the guard of every other section.         *)
(***************************************************************************)
EXTENDS Integers, Sequences, FiniteSets

CONSTANTS
  MaxId,          \* numeric_limits<uint64_t>::max(), the id never handed out
  MaxPending,     \* max_pending_calls
  Unsolicited,    \* bound on the responses the peer sends beyond those it was asked for
  Faults          \* what may go wrong around the client, a subset of FaultKinds

FaultKinds == {"threads",   \* the creation of a worker throws
               "opener",    \* the opener fails, or returns no channel
               "io",        \* a native read or write fails
               "leave",     \* the peer closes its end, perhaps inside a frame
               "forge"}     \* the peer sends responses nobody asked for

ASSUME ConstantsAssumption ==
  /\ MaxId \in Nat \ {0}
  /\ MaxPending \in Nat \ {0}
  /\ Faults \subseteq FaultKinds

ASSUME BoundAssumption == Unsolicited \in Nat

VARIABLES
  started, connected, openingDone, closed,  \* started_ connected_ opening_done_ closed_
  shutdown,     \* stop state of shutdown_
  opening,      \* the value of the promise opening_
  nextId,       \* next_id_
  pending,      \* keys of pending_
  queued,       \* ids in queued_, front first
  progress,     \* pending_call::progress, by id
  promise,      \* the value of pending_call::promise, by id
  stopReq,      \* calls whose caller requested a stop
  expired,      \* calls whose deadline has passed
  connStop, connExpired,   \* the same for the connection attempt
  pc,           \* where each thread is
  ret,          \* what the thread's last channel (or opener) call returned
  entry,        \* the id write_loop is sending, 0 outside the loop body
  cursor,       \* the least id the monitor's scan has not passed
  asleep,       \* threads blocked in changed_.wait / wait_until
  channel,      \* channel_: "none", "open" or "closed"
  failed,       \* stream_state::failed
  wire,         \* ids of the complete frames written, in order
  answered,     \* how many responses the peer has sent
  inbox,        \* responses on their way to the reader
  peerGone      \* the peer's end is closed

sessionVars == <<started, connected, openingDone, closed, shutdown, opening>>
callVars    == <<nextId, pending, queued, progress, promise>>
callerVars  == <<stopReq, expired, connStop, connExpired>>
localVars   == <<ret, entry, cursor>>
peerVars    == <<wire, answered, inbox, peerGone>>
vars == <<sessionVars, callVars, callerVars, pc, localVars, asleep,
          channel, failed, peerVars>>

Ids     == 1 .. (MaxId - 1)
Workers == {"writer", "reader", "monitor"}
Threads == Workers \cup {"controller"}

\* transport::failure_kind, as far as a channel or opener returns it.
IOFailures == {"timeout", "cancelled", "disconnected", "access_denied",
               "protocol_violation", "io_failure"}

\* client::failure_kind, as far as a promise receives it.
Failures == (IOFailures \ {"io_failure"}) \cup {"transport_failure", "internal_failure"}

translate(kind) == IF kind = "io_failure" THEN "transport_failure" ELSE kind

\* A decoded response; "invalid" stands for one that does not decode or whose
\* outcome does not match the operation of the request with its id.
Responses == [id : Ids, body : {"match", "invalid"}]

(***************************************************************************)
(* promise::set_value: a second call throws future_error, which no caller  *)
(* catches (fail_locked is noexcept).                                      *)
(***************************************************************************)
SetValue(current, value) == IF current = "unset" THEN value ELSE "future_error"

DeadIfStopped(i) == i \in stopReq
Dead(i)  == i \in stopReq \cup expired
Cause(i) == IF i \in stopReq THEN "cancelled" ELSE "timeout"

\* The monitor keeps the mutex through its scan; nobody else keeps it across steps.
MutexFree == pc["monitor"] # "scan"

Running(t, where) == pc[t] = where /\ t \notin asleep
Locked(t, where)  == Running(t, where) /\ MutexFree
Goto(t, where)    == pc' = [pc EXCEPT ![t] = where]
Return(t, result, where) == ret' = [ret EXCEPT ![t] = result] /\ Goto(t, where)
Sleep(t)          == asleep' = asleep \cup {t}
NotifyOne         == asleep' = {} \/ \E t \in asleep : asleep' = asleep \ {t}
NotifyAll         == asleep' = {}

-----------------------------------------------------------------------------
Init ==
  /\ started = FALSE /\ connected = FALSE /\ openingDone = FALSE
  /\ closed = FALSE /\ shutdown = FALSE
  /\ opening = "unset"
  /\ nextId = 1 /\ pending = {} /\ queued = <<>>
  /\ progress = [i \in Ids |-> "queued"]
  /\ promise = [i \in Ids |-> "unset"]
  /\ stopReq = {} /\ expired = {}
  /\ connStop = FALSE /\ connExpired = FALSE
  /\ pc = [t \in Threads |-> IF t = "controller" THEN "idle" ELSE "unborn"]
  /\ ret = [t \in {"writer", "reader"} |-> "ok"]
  /\ entry = 0 /\ cursor = 0
  /\ asleep = {}
  /\ channel = "none" /\ failed = FALSE
  /\ wire = <<>> /\ answered = 0 /\ inbox = <<>> /\ peerGone = FALSE

\* Every entry of pending_ is given the common failure, the culprit its own.
ResolveOthers(common, specificId, specific) ==
  [i \in Ids |-> IF i \in pending \ {specificId} THEN SetValue(promise[i], common) ELSE promise[i]]
ResolveAll(common, specificId, specific) ==
  [i \in Ids |-> IF i \in pending
                 THEN SetValue(promise[i], IF i = specificId THEN specific ELSE common)
                 ELSE promise[i]]

(***************************************************************************)
(* fail_locked(common, specific_id, specific): the only way a session      *)
(* ends.  started' is read because connect_async sets started_ first; a    *)
(* failure{} defaults to transport_failure.                                *)
(***************************************************************************)
FailLocked(common, specificId, specific) ==
  IF closed
  THEN UNCHANGED <<closed, shutdown, opening, openingDone, promise, pending, queued, asleep>>
  ELSE /\ closed' = TRUE
       /\ shutdown' = TRUE
       /\ IF started' /\ ~openingDone
          THEN opening' = SetValue(opening, common) /\ openingDone' = TRUE
          ELSE UNCHANGED <<opening, openingDone>>
       /\ promise' = ResolveAll(common, specificId, specific)
       /\ pending' = {} /\ queued' = <<>>
       /\ NotifyAll

-----------------------------------------------------------------------------
(* The controller: connect_async, close and the destructor (which closes). *)

\* Both early exits of connect_async that consume the attempt, and its success.
ConnectRejected ==
  /\ Locked("controller", "idle") /\ ~started /\ ~closed
  /\ connStop \/ connExpired
  /\ started' = TRUE
  /\ FailLocked(IF connStop THEN "cancelled" ELSE "timeout", 0, "transport_failure")
  /\ UNCHANGED <<connected, nextId, progress, callerVars, pc, localVars, channel, failed, peerVars>>

ConnectStarts ==
  /\ Locked("controller", "idle") /\ ~started /\ ~closed
  /\ ~connStop /\ ~connExpired
  /\ started' = TRUE
  /\ pc' = [t \in Threads |-> IF t \in Workers THEN "start" ELSE pc[t]]
  /\ UNCHANGED <<connected, openingDone, closed, shutdown, opening, callVars, callerVars,
                 localVars, asleep, channel, failed, peerVars>>

\* jthread construction throws after some of the workers exist.
ConnectLacksThreads ==
  /\ "threads" \in Faults
  /\ Locked("controller", "idle") /\ ~started /\ ~closed
  /\ ~connStop /\ ~connExpired
  /\ started' = TRUE
  /\ FailLocked("internal_failure", 0, "transport_failure")
  /\ \E born \in {{}, {"writer"}, {"writer", "reader"}} :
       pc' = [t \in Threads |-> IF t \in born THEN "start"
                                ELSE IF t = "controller" THEN "close" ELSE pc[t]]
  /\ UNCHANGED <<connected, nextId, progress, callerVars, localVars, channel, failed, peerVars>>

Close ==
  /\ Locked("controller", "idle") \/ Locked("controller", "close")
  /\ UNCHANGED started
  /\ FailLocked("cancelled", 0, "transport_failure")
  /\ Goto("controller", "join_writer")
  /\ UNCHANGED <<connected, nextId, progress, callerVars, localVars, channel, failed, peerVars>>

\* Assigning an empty jthread to each worker handle in turn joins it.
JoinWorker(worker, here, next) ==
  /\ pc["controller"] = here
  /\ pc[worker] \in {"unborn", "done"}
  /\ Goto("controller", next)
  /\ UNCHANGED <<sessionVars, callVars, callerVars, localVars, asleep, channel, failed, peerVars>>

Join == \/ JoinWorker("writer", "join_writer", "join_reader")
        \/ JoinWorker("reader", "join_reader", "join_monitor")
        \/ JoinWorker("monitor", "join_monitor", "close_channel")

CloseChannel ==
  /\ pc["controller"] = "close_channel"
  /\ channel' = IF channel = "open" THEN "closed" ELSE channel
  /\ Goto("controller", "idle")
  /\ UNCHANGED <<sessionVars, callVars, callerVars, localVars, asleep, failed, peerVars>>

-----------------------------------------------------------------------------
(* Callers: call_async, and the stop tokens and deadlines they pass.       *)

\* The state change of an admitted call.
Admit ==
  /\ nextId' = nextId + 1
  /\ pending' = pending \cup {nextId}
  /\ queued' = Append(queued, nextId)
  /\ NotifyAll
  /\ UNCHANGED <<sessionVars, progress, promise, callerVars, pc, localVars, channel, failed, peerVars>>

\* The refused calls return a ready future and leave every variable alone.
CallAsync ==
  /\ MutexFree
  /\ connected /\ ~closed
  /\ Cardinality(pending) < MaxPending
  /\ nextId # MaxId
  /\ Admit

RequestStop(i) ==
  /\ i < nextId /\ promise[i] = "unset"
  /\ stopReq' = stopReq \cup {i}
  /\ UNCHANGED <<sessionVars, callVars, expired, connStop, connExpired, pc, localVars, asleep,
                 channel, failed, peerVars>>

Expire(i) ==
  /\ i < nextId /\ promise[i] = "unset"
  /\ expired' = expired \cup {i}
  /\ UNCHANGED <<sessionVars, callVars, stopReq, connStop, connExpired, pc, localVars, asleep,
                 channel, failed, peerVars>>

\* While write_loop is inside the opener its stop_callback forwards the request;
\* once the attempt is decided nothing reads its stop token or its deadline.
Undecided == pc["writer"] \in {"unborn", "start", "opening", "publish"}

RequestConnectStop ==
  /\ ~connStop /\ Undecided /\ ~closed
  /\ connStop' = TRUE
  /\ shutdown' = (shutdown \/ pc["writer"] = "opening")
  /\ UNCHANGED <<started, connected, openingDone, closed, opening, callVars, stopReq, expired,
                 connExpired, pc, localVars, asleep, channel, failed, peerVars>>

ExpireConnect ==
  /\ ~connExpired /\ Undecided /\ ~closed
  /\ connExpired' = TRUE
  /\ UNCHANGED <<sessionVars, callVars, stopReq, expired, connStop, pc, localVars, asleep,
                 channel, failed, peerVars>>

-----------------------------------------------------------------------------
(* The writer: write_loop, with pipe_stream::connect and send.             *)

\* The stop_callback is constructed, and runs at once if the stop came first.
WriterOpens ==
  /\ Running("writer", "start")
  /\ shutdown' = (shutdown \/ connStop)
  /\ IF shutdown' THEN Return("writer", "cancelled", "publish")
                  ELSE Goto("writer", "opening") /\ UNCHANGED ret
  /\ UNCHANGED <<started, connected, openingDone, closed, opening, callVars, callerVars,
                 entry, cursor, asleep, channel, failed, peerVars>>

\* The opener returns a channel or a failure.  It honours stop and deadline.
OpenReturns(result) ==
  /\ Running("writer", "opening")
  /\ Return("writer", result, "publish")
  /\ UNCHANGED <<sessionVars, callVars, callerVars, entry, cursor, asleep, channel, failed, peerVars>>

OpenSucceeds == OpenReturns("ok")
OpenAborts   == \/ shutdown /\ OpenReturns("cancelled")
                \/ connExpired /\ OpenReturns("timeout")
OpenFails    == "opener" \in Faults /\ \E r \in {"access_denied", "io_failure", "null"} : OpenReturns(r)

\* The early returns after the opener, in the order of the code.
PublishFails ==
  /\ Locked("writer", "publish")
  /\ UNCHANGED started
  /\ LET r == ret["writer"] IN
       /\ channel' = IF r = "ok" THEN "open" ELSE channel
       /\ \/ r \in IOFailures /\ FailLocked(translate(r), 0, "transport_failure")
          \/ r \notin IOFailures /\ closed /\ FailLocked("cancelled", 0, "transport_failure")
          \/ r = "null" /\ ~closed /\ FailLocked("internal_failure", 0, "transport_failure")
          \/ r = "ok" /\ ~closed /\ shutdown /\ FailLocked("cancelled", 0, "transport_failure")
          \/ r = "ok" /\ ~closed /\ ~shutdown /\ connExpired /\ FailLocked("timeout", 0, "transport_failure")
  /\ Return("writer", "ok", "done")
  /\ UNCHANGED <<connected, nextId, progress, callerVars, entry, cursor, failed, peerVars>>

Publish ==
  /\ Locked("writer", "publish")
  /\ ret["writer"] = "ok" /\ ~closed /\ ~shutdown /\ ~connExpired
  /\ channel' = "open"
  /\ connected' = TRUE
  /\ openingDone' = TRUE
  /\ opening' = SetValue(opening, "connected")
  /\ NotifyAll
  /\ Goto("writer", "loop")
  /\ UNCHANGED <<started, closed, shutdown, callVars, callerVars, localVars, failed, peerVars>>

WriterWaits ==
  /\ Locked("writer", "loop") /\ ~closed /\ queued = <<>>
  /\ Sleep("writer")
  /\ UNCHANGED <<sessionVars, callVars, callerVars, pc, localVars, channel, failed, peerVars>>

WriterLeaves ==
  /\ Locked("writer", "loop") /\ closed
  /\ Goto("writer", "done")
  /\ UNCHANGED <<sessionVars, callVars, callerVars, localVars, asleep, channel, failed, peerVars>>

\* A call found cancelled or expired at the front is resolved and never sent.
WriterDrops ==
  /\ Locked("writer", "loop") /\ ~closed /\ queued # <<>>
  /\ LET i == Head(queued) IN
       /\ Dead(i)
       /\ promise' = [promise EXCEPT ![i] = SetValue(@, Cause(i))]
       /\ pending' = pending \ {i}
  /\ queued' = Tail(queued)
  /\ UNCHANGED <<sessionVars, nextId, progress, callerVars, pc, localVars, asleep, channel, failed, peerVars>>

WriterTakesUnmarked ==
  /\ Locked("writer", "loop") /\ ~closed /\ queued # <<>>
  /\ ~Dead(Head(queued))
  /\ entry' = Head(queued)
  /\ queued' = Tail(queued)
  /\ Goto("writer", "send")
  /\ UNCHANGED <<sessionVars, nextId, pending, progress, promise, callerVars, ret, cursor, asleep, channel,
                 failed, peerVars>>
WriterTakes ==
  /\ Locked("writer", "loop") /\ ~closed /\ queued # <<>>
  /\ ~Dead(Head(queued))
  /\ entry' = Head(queued)
  /\ queued' = Tail(queued)
  /\ progress' = [progress EXCEPT ![Head(queued)] = "writing"]
  /\ Goto("writer", "send")
  /\ UNCHANGED <<sessionVars, nextId, pending, promise, callerVars, ret, cursor, asleep, channel, failed, peerVars>>

\* send() ends with a failure and leaves the stream failed for both directions.
SendFailsWith(kind) ==
  /\ failed' = TRUE
  /\ Return("writer", kind, "sent")
  /\ UNCHANGED <<sessionVars, callVars, callerVars, entry, cursor, asleep, channel,
                 answered, inbox, peerGone>>

SendBegins ==
  /\ Running("writer", "send") /\ ~failed /\ ~shutdown /\ entry \notin expired
  /\ Goto("writer", "writing")
  /\ UNCHANGED <<sessionVars, callVars, callerVars, localVars, asleep, channel, failed, peerVars>>

\* The stream already failed, or preflight refuses.
SendRefuses ==
  /\ Running("writer", "send")
  /\ \/ failed /\ SendFailsWith("disconnected")
     \/ ~failed /\ shutdown /\ SendFailsWith("cancelled")
     \/ ~failed /\ ~shutdown /\ entry \in expired /\ SendFailsWith("timeout")
  /\ UNCHANGED wire

\* A pending write is given up.  resolve_pending cancels it and drains it, and
\* reports the stop or the timeout even when the kernel completed the write.
SendAborts ==
  /\ Running("writer", "writing")
  /\ \/ shutdown /\ SendFailsWith("cancelled") /\ wire' \in {wire, Append(wire, entry)}
     \/ entry \in expired /\ SendFailsWith("timeout") /\ wire' \in {wire, Append(wire, entry)}
     \/ peerGone /\ SendFailsWith("disconnected") /\ UNCHANGED wire

SendBreaks ==
  /\ "io" \in Faults /\ Running("writer", "writing")
  /\ SendFailsWith("io_failure") /\ UNCHANGED wire

\* The last byte of the frame is in the pipe; the peer can answer from here on.
SendDelivers ==
  /\ Running("writer", "writing") /\ ~peerGone
  /\ wire' = Append(wire, entry)
  /\ Goto("writer", "delivered")
  /\ UNCHANGED <<sessionVars, callVars, callerVars, localVars, asleep, channel, failed,
                 answered, inbox, peerGone>>

SendReturns ==
  /\ Running("writer", "delivered")
  /\ Return("writer", "ok", "sent")
  /\ UNCHANGED <<sessionVars, callVars, callerVars, entry, cursor, asleep, channel, failed, peerVars>>

\* Back under the mutex: the session may have ended or the call been answered meanwhile.
WriterResumes ==
  /\ Locked("writer", "sent") /\ ~closed /\ ret["writer"] = "ok"
  /\ progress' = IF entry \in pending THEN [progress EXCEPT ![entry] = "sent"] ELSE progress
  /\ entry' = 0
  /\ Goto("writer", "loop")
  /\ UNCHANGED <<sessionVars, nextId, pending, queued, promise, callerVars, ret, cursor, asleep,
                 channel, failed, peerVars>>

WriterFails ==
  /\ Locked("writer", "sent")
  /\ UNCHANGED started
  /\ closed \/ ret["writer"] # "ok"
  /\ FailLocked("disconnected", entry, translate(ret["writer"]))
  /\ entry' = 0
  /\ Return("writer", "ok", "done")
  /\ UNCHANGED <<connected, nextId, progress, callerVars, cursor, channel, failed, peerVars>>

-----------------------------------------------------------------------------
(* The reader: read_loop, with pipe_stream::receive.                       *)

\* wait_connected, in the reader.
ReaderWaits ==
  /\ Locked("reader", "start") /\ ~connected /\ ~closed
  /\ Sleep("reader")
  /\ UNCHANGED <<sessionVars, callVars, callerVars, pc, localVars, channel, failed, peerVars>>

ReaderConnected ==
  /\ Locked("reader", "start") /\ (connected \/ closed)
  /\ Goto("reader", IF closed THEN "done" ELSE "loop")
  /\ UNCHANGED <<sessionVars, callVars, callerVars, localVars, asleep, channel, failed, peerVars>>

\* The loop condition, then the entry checks of receive().
ReaderLoops ==
  /\ Running("reader", "loop")
  /\ \/ shutdown /\ Goto("reader", "done") /\ UNCHANGED ret
     \/ ~shutdown /\ failed /\ Return("reader", "disconnected", "received")
     \/ ~shutdown /\ ~failed /\ Goto("reader", "receiving") /\ UNCHANGED ret
  /\ UNCHANGED <<sessionVars, callVars, callerVars, entry, cursor, asleep, channel, failed, peerVars>>

\* A complete frame arrived; it stays at the head of inbox until the reader decodes it.
ReceiveReturns ==
  /\ Running("reader", "receiving") /\ inbox # <<>>
  /\ Return("reader", "ok", "received")
  /\ UNCHANGED <<sessionVars, callVars, callerVars, entry, cursor, asleep, channel, failed, peerVars>>

ReceiveFailsWith(kind) ==
  /\ Running("reader", "receiving")
  /\ failed' = TRUE
  /\ Return("reader", kind, "received")
  /\ UNCHANGED <<sessionVars, callVars, callerVars, entry, cursor, asleep, channel, peerVars>>

\* A peer that leaves in the middle of a frame makes decoder.finish() report it.
ReceiveAborts ==
  \/ shutdown /\ ReceiveFailsWith("cancelled")
  \/ peerGone /\ inbox = <<>> /\ \E r \in {"disconnected", "protocol_violation"} : ReceiveFailsWith(r)

ReceiveBreaks == "io" \in Faults /\ ReceiveFailsWith("io_failure")

\* The session ended, or this receive failed, or its response is not one that is due.
ReaderFails ==
  /\ Locked("reader", "received")
  /\ UNCHANGED started
  /\ IF ret["reader"] # "ok"
     THEN FailLocked(translate(ret["reader"]), 0, "transport_failure") /\ UNCHANGED inbox
     ELSE LET r == Head(inbox) IN
          /\ inbox' = Tail(inbox)
          /\ \/ /\ \/ closed \/ r.body # "match"
                   \/ r.id \notin pending \/ progress[r.id] = "queued"
                /\ FailLocked("protocol_violation", 0, "transport_failure")
             \/ /\ ~closed /\ r.body = "match"
                /\ r.id \in pending /\ progress[r.id] # "queued" /\ Dead(r.id)
                /\ FailLocked("disconnected", r.id, Cause(r.id))
  /\ Return("reader", "ok", "done")
  /\ UNCHANGED <<connected, nextId, progress, callerVars, entry, cursor, channel, failed,
                 wire, answered, peerGone>>

\* The response completes its call.  The log line that follows is outside the mutex.
ReaderCompletes ==
  /\ Locked("reader", "received") /\ ret["reader"] = "ok" /\ ~closed
  /\ LET r == Head(inbox) IN
       /\ r.body = "match"
       /\ r.id \in pending /\ progress[r.id] # "queued" /\ ~Dead(r.id)
       /\ promise' = [promise EXCEPT ![r.id] = SetValue(@, "response")]
       /\ pending' = pending \ {r.id}
  /\ inbox' = Tail(inbox)
  /\ Goto("reader", "loop")
  /\ UNCHANGED <<sessionVars, nextId, queued, progress, callerVars, localVars, asleep,
                 channel, failed, wire, answered, peerGone>>

-----------------------------------------------------------------------------
(* The monitor: monitor_loop.                                              *)

MonitorLeaves ==
  /\ Locked("monitor", "start") \/ Locked("monitor", "timed")
  /\ closed
  /\ Goto("monitor", "done")
  /\ UNCHANGED <<sessionVars, callVars, callerVars, localVars, asleep, channel, failed, peerVars>>

\* wait_connected, or the wait without a deadline while nothing is pending.
MonitorWaits ==
  /\ Locked("monitor", "start") \/ Locked("monitor", "timed")
  /\ ~closed /\ (~connected \/ pending = {})
  /\ Goto("monitor", "start")
  /\ Sleep("monitor")
  /\ UNCHANGED <<sessionVars, callVars, callerVars, localVars, channel, failed, peerVars>>

MonitorScans ==
  /\ Locked("monitor", "start") \/ Locked("monitor", "timed")
  /\ ~closed /\ connected /\ pending # {}
  /\ Goto("monitor", "scan")
  /\ UNCHANGED <<sessionVars, callVars, callerVars, localVars, asleep, channel, failed, peerVars>>

\* The calls the scan has yet to find cancelled or expired.
Due == {i \in pending : i >= cursor /\ Dead(i)}

\* std::erase on the deque, whose entries are distinct.
EraseNothing(q, n) == q
EraseAt(q, n) == SubSeq(q, 1, n - 1) \o SubSeq(q, n + 1, Len(q))

\* An unsent call is taken out of the queue alone; a started one ends the session.
MonitorFinds ==
  /\ pc["monitor"] = "scan"
  /\ UNCHANGED started
  /\ \E i \in Due :
       /\ \A j \in Due : i <= j
       /\ \/ /\ progress[i] = "queued"
             /\ promise' = [promise EXCEPT ![i] = SetValue(@, Cause(i))]
             /\ pending' = pending \ {i}
             /\ \E n \in DOMAIN queued : queued[n] = i /\ queued' = EraseAt(queued, n)
             /\ cursor' = i + 1
             /\ UNCHANGED <<closed, shutdown, opening, openingDone, pc, asleep>>
          \/ /\ progress[i] # "queued"
             /\ FailLocked("disconnected", i, Cause(i))
             /\ cursor' = 0
             /\ Goto("monitor", "done")
  /\ UNCHANGED <<connected, nextId, progress, callerVars, ret, entry, channel, failed, peerVars>>

\* The end of the scan: wait_until, which releases the mutex.
MonitorRestsForever ==
  /\ pc["monitor"] = "scan" /\ Due = {}
  /\ cursor' = 0
  /\ Goto("monitor", "start")
  /\ Sleep("monitor")
  /\ UNCHANGED <<sessionVars, callVars, callerVars, ret, entry, channel, failed, peerVars>>
MonitorRests ==
  /\ pc["monitor"] = "scan" /\ Due = {}
  /\ cursor' = 0
  /\ Goto("monitor", "timed")
  /\ Sleep("monitor")
  /\ UNCHANGED <<sessionVars, callVars, callerVars, ret, entry, channel, failed, peerVars>>

\* A wait returns without a notification: spuriously, or at the monitor's wake time.
Wakes(t) ==
  /\ t \in asleep
  /\ asleep' = asleep \ {t}
  /\ UNCHANGED <<sessionVars, callVars, callerVars, pc, localVars, channel, failed, peerVars>>

-----------------------------------------------------------------------------
(* The peer: a pipe server answers one request after the other.  A closed  *)
(* session discards whatever its reader still receives.                    *)

PeerHeard == ~peerGone /\ connected /\ ~closed

PeerAnswers ==
  /\ PeerHeard /\ answered < Len(wire)
  /\ answered' = answered + 1
  /\ inbox' = Append(inbox, [id |-> wire[answered + 1], body |-> "match"])
  /\ UNCHANGED <<sessionVars, callVars, callerVars, pc, localVars, asleep, channel, failed, wire, peerGone>>

\* Any response, in place of an answer or beyond them.  Before the reader waits for it, a
\* response that arrives is only buffered.
PeerForges ==
  /\ "forge" \in Faults /\ PeerHeard /\ Running("reader", "receiving") /\ inbox = <<>>
  /\ answered < Len(wire) + Unsolicited /\ answered' = answered + 1
  /\ \E r \in Responses : inbox' = <<r>>
  /\ UNCHANGED <<sessionVars, callVars, callerVars, pc, localVars, asleep, channel, failed,
                 wire, peerGone>>

\* Unread responses may be lost with the connection, except one already received.
PeerLeaves ==
  /\ "leave" \in Faults /\ PeerHeard
  /\ peerGone' = TRUE
  /\ \/ UNCHANGED inbox
     \/ pc["reader"] # "received" /\ inbox' = <<>>
  /\ UNCHANGED <<sessionVars, callVars, callerVars, pc, localVars, asleep, channel, failed, wire, answered>>

-----------------------------------------------------------------------------
Controller == ConnectRejected \/ ConnectStarts \/ ConnectLacksThreads \/ Close \/ Join \/ CloseChannel
Caller == \/ CallAsync
          \/ \E i \in Ids : RequestStop(i) \/ Expire(i)
          \/ RequestConnectStop \/ ExpireConnect
Writer == \/ WriterOpens \/ OpenAborts \/ PublishFails \/ Publish \/ WriterWaits \/ WriterLeaves \/ WriterDrops
          \/ WriterTakes \/ SendBegins \/ SendRefuses \/ SendAborts \/ SendReturns \/ WriterResumes \/ WriterFails
Reader == \/ ReaderWaits \/ ReaderConnected \/ ReaderLoops \/ ReceiveReturns \/ ReceiveAborts
          \/ ReaderFails \/ ReaderCompletes
Monitor == MonitorLeaves \/ MonitorWaits \/ MonitorScans \/ MonitorFinds \/ MonitorRests
Peer == PeerAnswers \/ PeerForges \/ PeerLeaves
Environment == OpenSucceeds \/ OpenFails \/ SendDelivers \/ SendBreaks \/ ReceiveBreaks

Next ==
  \/ Controller \/ Caller \/ Writer \/ Reader \/ Monitor \/ Peer \/ Environment
  \/ \E t \in Workers : Wakes(t)

Spec == Init /\ [][Next]_vars

(***************************************************************************)
(* What the code can count on: a runnable thread runs, an acquisition of   *)
(* mutex_ succeeds, a timed wait ends, a channel call returns once it is   *)
(* stopped, expired or cut off, and time passes every deadline.  Nothing   *)
(* is assumed of the peer, of the opener, or of a blocked write.           *)
(***************************************************************************)
Fairness ==
  /\ WF_vars(Join) /\ WF_vars(CloseChannel) /\ WF_vars(pc["controller"] = "close" /\ Close)
  /\ WF_vars(Writer) /\ WF_vars(Reader) /\ WF_vars(Monitor)
  /\ WF_vars(pc["monitor"] = "timed" /\ Wakes("monitor"))
  /\ WF_vars(ExpireConnect)
  /\ \A i \in Ids : WF_vars(Expire(i))

FairSpec == Spec /\ Fairness

-----------------------------------------------------------------------------
Places == {"unborn", "start", "done",                                       \* any worker
           "opening", "publish", "loop", "send", "writing", "delivered", "sent",
           "receiving", "received", "scan", "timed",
           "idle", "close", "join_writer", "join_reader", "join_monitor", "close_channel"}

\* The types of the state of connection_state, its workers, the channel and the peer.
TypeOK ==
  /\ started \in BOOLEAN /\ connected \in BOOLEAN /\ openingDone \in BOOLEAN
  /\ closed \in BOOLEAN /\ shutdown \in BOOLEAN
  /\ opening \in {"unset", "connected", "future_error"} \cup Failures
  /\ nextId \in 1 .. MaxId
  /\ pending \in SUBSET Ids
  /\ queued \in Seq(Ids)
  /\ progress \in [Ids -> {"queued", "writing", "sent"}]
  /\ promise \in [Ids -> {"unset", "response", "future_error"} \cup Failures]
  /\ stopReq \in SUBSET Ids /\ expired \in SUBSET Ids
  /\ connStop \in BOOLEAN /\ connExpired \in BOOLEAN
  /\ pc \in [Threads -> Places]
  /\ ret \in [{"writer", "reader"} -> {"ok", "null"} \cup IOFailures]
  /\ entry \in 0 .. MaxId /\ cursor \in 0 .. MaxId
  /\ asleep \in SUBSET Workers
  /\ channel \in {"none", "open", "closed"} /\ failed \in BOOLEAN
  /\ wire \in Seq(Ids) /\ answered \in Nat /\ inbox \in Seq(Responses) /\ peerGone \in BOOLEAN

(***************************************************************************)
(* Every promise is completed at most once: no interleaving of the three   *)
(* workers, close and the callers makes set_value throw, in a section      *)
(* whose comment says "The mutex/closed/opening_done invariants protect    *)
(* every promise's single completion".                                     *)
(***************************************************************************)
SingleCompletion ==
  /\ opening # "future_error"
  /\ \A i \in Ids : promise[i] # "future_error"

(***************************************************************************)
(* No promise is forgotten: an admitted call is in pending_ exactly while  *)
(* its future is unresolved, and a session that ended left nothing behind, *)
(* the connect future included.                                            *)
(***************************************************************************)
NoForgottenPromise ==
  /\ \A i \in Ids : i \in pending <=> (i < nextId /\ promise[i] = "unset")
  /\ closed => pending = {} /\ queued = <<>> /\ (started => opening # "unset")

(***************************************************************************)
(* The queue of the writer holds exactly the pending calls that no thread  *)
(* has begun to send, in admission order; they are all younger than the    *)
(* calls under way.                                                        *)
(***************************************************************************)
QueueMatchesPending ==
  /\ {queued[k] : k \in DOMAIN queued} = {i \in pending : progress[i] = "queued"}
  /\ \A j, k \in DOMAIN queued : j < k => queued[j] < queued[k]
  /\ \A i \in pending, k \in DOMAIN queued : progress[i] # "queued" => i < queued[k]

(***************************************************************************)
(* What reached the peer: each request at most once and in admission order *)
(* (nothing is replayed), and never one that was cancelled or expired      *)
(* while it was still queued.                                              *)
(***************************************************************************)
NoReplay ==
  /\ \A j, k \in DOMAIN wire : j < k => wire[j] < wire[k]
  /\ \A k \in DOMAIN wire : progress[wire[k]] # "queued"

(***************************************************************************)
(* No lost wake-up: a thread sleeps in changed_ only while the predicate   *)
(* it waits for is false.                                                  *)
(***************************************************************************)
NoLostWakeup ==
  /\ "writer" \in asleep => ~closed /\ queued = <<>>
  /\ "reader" \in asleep => ~closed /\ ~connected
  /\ "monitor" \in asleep => ~closed /\ (pc["monitor"] = "start" => pending = {})

(***************************************************************************)
(* close() tears down in order: it reaches channel_->close() only when no  *)
(* worker can be inside the channel or can still publish one, and no       *)
(* worker appears after it.                                                *)
(***************************************************************************)
TeardownOrder ==
  channel = "closed" \/ pc["controller"] = "close_channel"
    => \A t \in Workers : pc[t] \in {"unborn", "done"}

(***************************************************************************)
(* A response that loses the race against its deadline or stop token never *)
(* turns into a success, whichever thread takes the mutex first.           *)
(***************************************************************************)
LateResponseFails ==
  [][\A i \in Ids : promise[i] = "unset" /\ i \in stopReq \cup expired => promise'[i] # "response"]_vars

(***************************************************************************)
(* Around a healthy peer only close() and the cancellation or expiry of a  *)
(* call that began to be written end an established session: an unsent     *)
(* call that is cancelled affects only itself, and no interleaving of a    *)
(* fast response with the writer's bookkeeping is taken for a violation.   *)
(***************************************************************************)
OnlyStartedCallsEndSession ==
  [][Faults = {} /\ connected /\ ~closed /\ closed'
       => \/ pc'["controller"] = "join_writer"
          \/ \E i \in pending : progress[i] # "queued" /\ Dead(i)]_vars

(***************************************************************************)
(* docs/client.md 114-116: "Once writing begins, cancellation/expiry       *)
(* terminates the session: that call gets the cause, other pending calls   *)
(* become disconnected."  Around a healthy peer, calls are disconnected    *)
(* only next to one that was told the cause.                               *)
(***************************************************************************)
CauseIsReported ==
  Faults = {} /\ (\E i \in Ids : promise[i] = "disconnected")
    => \E j \in Ids : promise[j] \in {"cancelled", "timeout"} /\ progress[j] # "queued"

(***************************************************************************)
(* Every future becomes ready, whatever the peer and the opener do: the    *)
(* deadline passes and the monitor or the channel notices, or the session  *)
(* ends first.                                                             *)
(***************************************************************************)
FuturesResolve ==
  /\ started ~> opening # "unset"
  /\ \A i \in Ids : i < nextId ~> promise[i] # "unset"

(***************************************************************************)
(* The end of a session, however it came about, stops all three workers    *)
(* without waiting for the controller.                                     *)
(***************************************************************************)
WorkersStop == closed ~> \A t \in Workers : pc[t] \in {"unborn", "done"}

-----------------------------------------------------------------------------
(***************************************************************************)
(* The inductive invariant behind the safety properties, by the piece of   *)
(* code that maintains it: where each thread can be; the life of the       *)
(* opening promise; the entry write_loop holds across its I/O and what the *)
(* wire has seen before it; who may sleep; and the joins of close().       *)
(***************************************************************************)
Gone(t) == pc[t] \in {"unborn", "done"}
Sending == pc["writer"] \in {"send", "writing", "delivered", "sent"}

PlaceInv ==
  /\ pc["writer"] \in {"unborn", "start", "opening", "publish", "loop", "send", "writing",
                       "delivered", "sent", "done"}
  /\ pc["reader"] \in {"unborn", "start", "loop", "receiving", "received", "done"}
  /\ pc["monitor"] \in {"unborn", "start", "scan", "timed", "done"}
  /\ pc["controller"] \in {"idle", "close", "join_writer", "join_reader", "join_monitor", "close_channel"}
  /\ \A t \in Workers : pc[t] # "unborn" => started
  /\ pc["controller"] # "idle" => closed
  /\ pc["reader"] \in {"loop", "receiving", "received"} => connected
  /\ pc["monitor"] \in {"scan", "timed"} => connected
  /\ pc["monitor"] = "scan" => ~closed
  /\ ret["reader"] # "null" /\ (ret["writer"] = "null" => pc["writer"] = "publish")
  /\ pc["reader"] = "received" /\ ret["reader"] = "ok" => inbox # <<>>

OpeningInv ==
  /\ openingDone <=> opening # "unset"
  /\ openingDone => started /\ (connected \/ closed)
  /\ connected => openingDone /\ pc["writer"] \notin {"unborn", "start", "opening", "publish"}
  /\ connected => opening = "connected"
  /\ ~connected => nextId = 1 /\ pc["writer"] \in {"unborn", "start", "opening", "publish", "done"}

WriterInv ==
  /\ \A i \in Ids : i >= nextId => progress[i] = "queued" /\ promise[i] = "unset"
  /\ \A k \in DOMAIN wire : wire[k] < nextId
  /\ \A k \in DOMAIN wire, j \in DOMAIN queued : wire[k] < queued[j]
  /\ Sending => /\ entry \in Ids /\ entry < nextId /\ progress[entry] = "writing"
                /\ \A k \in DOMAIN queued : entry < queued[k]
  /\ pc["writer"] \in {"send", "writing"} => \A k \in DOMAIN wire : wire[k] < entry

SleepInv ==
  /\ NoLostWakeup
  /\ "writer" \in asleep => pc["writer"] = "loop"
  /\ "reader" \in asleep => pc["reader"] = "start"
  /\ "monitor" \in asleep => pc["monitor"] \in {"start", "timed"}

TeardownInv ==
  /\ pc["controller"] \in {"join_reader", "join_monitor", "close_channel"} => Gone("writer")
  /\ pc["controller"] \in {"join_monitor", "close_channel"} => Gone("reader")
  /\ pc["controller"] = "close_channel" => Gone("monitor")
  /\ channel = "closed" => closed /\ \A t \in Workers : Gone(t)

ClientInv ==
  /\ TypeOK /\ SingleCompletion /\ NoForgottenPromise /\ QueueMatchesPending /\ NoReplay
  /\ PlaceInv /\ OpeningInv /\ WriterInv /\ SleepInv /\ TeardownInv

-----------------------------------------------------------------------------
Session == INSTANCE ClientSession WITH
  stage <- IF closed THEN "ended" ELSE IF connected THEN "open"
           ELSE IF started THEN "opening" ELSE "new",
  connectResult <- opening,
  count <- nextId,
  result <- promise

(***************************************************************************)
(* The scheduler implements the abstract session: whatever the threads do, *)
(* callers see single completions, a bounded number of unresolved calls,   *)
(* and an end that resolves all calls together.                            *)
(***************************************************************************)
ImplementsSession == Session!Spec
=============================================================================
