----------------------------- MODULE Overlapped -----------------------------
(***************************************************************************)
(* One native pipe operation: accept, read_some or write_some.  The        *)
(* issuing thread hands an OVERLAPPED record and a buffer to the kernel    *)
(* and waits for completion, the stop signal or the deadline; the stop     *)
(* signal is delivered by a callback that runs in the thread requesting    *)
(* the stop.  Several operations, each with its own thread, share one stop *)
(* source, as the reader and the writer of a connection do.                *)
(***************************************************************************)
EXTENDS Integers

CONSTANT Operations

VARIABLES
  stop,       \* stop_requested()
  expired,    \* has the operation's deadline passed?
  pc,         \* where the issuing thread is
  kernel,     \* the kernel's side of the operation
  aborting,   \* has CancelIoEx reached the kernel while it was pending?
  pending,    \* pending_
  storage,    \* do operation_ and the two events still exist?
  signalled,  \* is cancelled_ set?
  callback,   \* callback_: none, registered, running or done
  wake,       \* what wait() returned
  result      \* what the operation returned

vars == <<stop, expired, pc, kernel, aborting, pending, storage, signalled, callback, wake, result>>

Init ==
  /\ stop = FALSE
  /\ expired = [o \in Operations |-> FALSE]
  /\ pc = [o \in Operations |-> "calling"]
  /\ kernel = [o \in Operations |-> "idle"]
  /\ aborting = [o \in Operations |-> FALSE]
  /\ pending = [o \in Operations |-> FALSE]
  /\ storage = [o \in Operations |-> FALSE]
  /\ signalled = [o \in Operations |-> FALSE]
  /\ callback = [o \in Operations |-> "none"]
  /\ wake = [o \in Operations |-> "none"]
  /\ result = [o \in Operations |-> "none"]

At(o, place) == pc[o] = place
Goto(o, place) == pc' = [pc EXCEPT ![o] = place]
Answer(o, r) == result' = [result EXCEPT ![o] = r]

-----------------------------------------------------------------------------
(* The issuing thread. *)

\* preflight(): nothing is constructed yet.
Preflight(o) ==
  /\ At(o, "calling")
  /\ \/ stop /\ Answer(o, "cancelled") /\ Goto(o, "returned")
     \/ ~stop /\ expired[o] /\ Answer(o, "timeout") /\ Goto(o, "returned")
     \/ ~stop /\ ~expired[o] /\ Goto(o, "constructing") /\ UNCHANGED result
  /\ UNCHANGED <<stop, expired, kernel, aborting, pending, storage, signalled, callback, wake>>

ConstructMissesStop(o) ==
  /\ At(o, "constructing")
  /\ storage' = [storage EXCEPT ![o] = TRUE]
  /\ callback' = [callback EXCEPT ![o] = IF stop THEN "done" ELSE "registered"]
  /\ Goto(o, "issuing")
  /\ UNCHANGED <<stop, expired, kernel, aborting, pending, signalled, wake, result>>

\* The constructor.  A callback registered after the stop was requested runs at once.
Construct(o) ==
  /\ At(o, "constructing")
  /\ storage' = [storage EXCEPT ![o] = TRUE]
  /\ \/ /\ callback' = [callback EXCEPT ![o] = IF stop THEN "done" ELSE "registered"]
        /\ signalled' = [signalled EXCEPT ![o] = stop]
        /\ Goto(o, "issuing")
        /\ UNCHANGED result
     \/ Answer(o, "io_failure") /\ Goto(o, "draining_destructor") /\ UNCHANGED <<callback, signalled>>
  /\ UNCHANGED <<stop, expired, kernel, aborting, pending, wake>>

\* ConnectNamedPipe, ReadFile or WriteFile: done at once, refused at once, or pending.
Issue(o) ==
  /\ At(o, "issuing")
  /\ \/ /\ \E r \in {"transferred", "disconnected", "io_failure"} : Answer(o, r)
        /\ Goto(o, "draining_destructor")
        /\ UNCHANGED <<kernel, pending>>
     \/ /\ kernel' = [kernel EXCEPT ![o] = "pending"]
        /\ pending' = [pending EXCEPT ![o] = TRUE]
        /\ Goto(o, "waiting")
        /\ UNCHANGED result
  /\ UNCHANGED <<stop, expired, aborting, storage, signalled, callback, wake>>

Wakes(o, reason) ==
  /\ At(o, "waiting")
  /\ wake' = [wake EXCEPT ![o] = reason]
  /\ Goto(o, IF reason = "completed" THEN "completing" ELSE "cancelling")
  /\ UNCHANGED <<stop, expired, kernel, aborting, pending, storage, signalled, callback, result>>

\* WaitForMultipleObjects reports the first signalled event, so completion wins.
WaitCompletes(o) == kernel[o] # "pending" /\ Wakes(o, "completed")
WaitDeaf(o) == FALSE /\ Wakes(o, "stopped")
WaitStops(o) == kernel[o] = "pending" /\ signalled[o] /\ Wakes(o, "stopped")
WaitExpires(o) == kernel[o] = "pending" /\ ~signalled[o] /\ expired[o] /\ Wakes(o, "expired")
WaitFails(o) == Wakes(o, "failed")

\* complete(false), once the completion event was seen.
Complete(o) ==
  /\ At(o, "completing") /\ kernel[o] # "pending"
  /\ pending' = [pending EXCEPT ![o] = FALSE]
  /\ \E r \in IF kernel[o] = "success" THEN {"transferred"} ELSE {"disconnected", "io_failure"} : Answer(o, r)
  /\ Goto(o, "draining_destructor")
  /\ UNCHANGED <<stop, expired, kernel, aborting, storage, signalled, callback, wake>>

\* cancel(): CancelIoEx, which finds nothing when the operation has just finished.
Cancel(o) ==
  /\ At(o, "cancelling")
  /\ aborting' = [aborting EXCEPT ![o] = kernel[o] = "pending"]
  /\ Goto(o, "draining")
  /\ UNCHANGED <<stop, expired, kernel, pending, storage, signalled, callback, wake, result>>

KindSwapped(reason) ==
  IF reason = "expired" THEN "cancelled" ELSE IF reason = "stopped" THEN "timeout" ELSE "io_failure"

KindOf(reason) ==
  IF reason = "expired" THEN "timeout" ELSE IF reason = "stopped" THEN "cancelled" ELSE "io_failure"

DrainWithoutWaiting(o) ==
  /\ At(o, "draining")
  /\ pending' = [pending EXCEPT ![o] = FALSE]
  /\ Answer(o, KindOf(wake[o]))
  /\ Goto(o, "draining_destructor")
  /\ UNCHANGED <<stop, expired, kernel, aborting, storage, signalled, callback, wake>>

\* complete(true) waits until the kernel has let go, however the cancellation went.
Drain(o) ==
  /\ At(o, "draining") /\ kernel[o] # "pending"
  /\ pending' = [pending EXCEPT ![o] = FALSE]
  /\ Answer(o, KindOf(wake[o]))
  /\ Goto(o, "draining_destructor")
  /\ UNCHANGED <<stop, expired, kernel, aborting, storage, signalled, callback, wake>>

\* The destructor's own body drains whatever is still marked pending...
DestructorDrains(o) ==
  /\ At(o, "draining_destructor") /\ (pending[o] => kernel[o] # "pending")
  /\ Goto(o, "unhooking")
  /\ UNCHANGED <<stop, expired, kernel, aborting, pending, storage, signalled, callback, wake, result>>

UnhookAfterFree(o) ==
  /\ At(o, "unhooking")
  /\ storage' = [storage EXCEPT ![o] = FALSE]
  /\ Goto(o, "freeing")
  /\ UNCHANGED <<stop, expired, kernel, aborting, pending, signalled, callback, wake, result>>

\* ...then the members go: first the callback, waiting for one that is running...
Unhook(o) ==
  /\ At(o, "unhooking") /\ callback[o] # "running"
  /\ callback' = [callback EXCEPT ![o] = "none"]
  /\ Goto(o, "freeing")
  /\ UNCHANGED <<stop, expired, kernel, aborting, pending, storage, signalled, wake, result>>

\* ...then the events and the OVERLAPPED record.
Free(o) ==
  /\ At(o, "freeing")
  /\ storage' = [storage EXCEPT ![o] = FALSE]
  /\ Goto(o, "returned")
  /\ UNCHANGED <<stop, expired, kernel, aborting, pending, signalled, callback, wake, result>>

\* The caller issues its next operation, with a deadline of its own.
CallAgain(o) ==
  /\ At(o, "returned")
  /\ Goto(o, "calling")
  /\ expired' = [expired EXCEPT ![o] = FALSE]
  /\ aborting' = [aborting EXCEPT ![o] = FALSE]
  /\ signalled' = [signalled EXCEPT ![o] = FALSE]
  /\ wake' = [wake EXCEPT ![o] = "none"]
  /\ result' = [result EXCEPT ![o] = "none"]
  /\ kernel' = [kernel EXCEPT ![o] = IF @ = "pending" THEN @ ELSE "idle"]
  /\ UNCHANGED <<stop, pending, storage, callback>>

Thread(o) ==
  \/ Preflight(o) \/ Construct(o) \/ Issue(o) \/ WaitCompletes(o) \/ WaitStops(o) \/ WaitExpires(o)
  \/ Complete(o) \/ Cancel(o) \/ Drain(o) \/ DestructorDrains(o) \/ Unhook(o) \/ Free(o)

-----------------------------------------------------------------------------
(* The kernel, the thread that requests the stop, and the clock. *)

KernelFinishes(o) ==
  /\ kernel[o] = "pending"
  /\ \E outcome \in {"success", "error"} \cup (IF aborting[o] THEN {"aborted"} ELSE {}) :
       kernel' = [kernel EXCEPT ![o] = outcome]
  /\ UNCHANGED <<stop, expired, pc, aborting, pending, storage, signalled, callback, wake, result>>

RequestStop ==
  /\ ~stop
  /\ stop' = TRUE
  /\ UNCHANGED <<expired, pc, kernel, aborting, pending, storage, signalled, callback, wake, result>>

\* request_stop() runs the registered callbacks one after the other.
CallbackStarts(o) ==
  /\ stop /\ callback[o] = "registered" /\ \A p \in Operations : callback[p] # "running"
  /\ callback' = [callback EXCEPT ![o] = "running"]
  /\ UNCHANGED <<stop, expired, pc, kernel, aborting, pending, storage, signalled, wake, result>>

CallbackSignals(o) ==
  /\ callback[o] = "running"
  /\ callback' = [callback EXCEPT ![o] = "done"]
  /\ signalled' = [signalled EXCEPT ![o] = TRUE]
  /\ UNCHANGED <<stop, expired, pc, kernel, aborting, pending, storage, wake, result>>

Expire(o) ==
  /\ ~expired[o] /\ pc[o] # "returned"
  /\ expired' = [expired EXCEPT ![o] = TRUE]
  /\ UNCHANGED <<stop, pc, kernel, aborting, pending, storage, signalled, callback, wake, result>>

Next ==
  \/ RequestStop
  \/ \E o \in Operations :
       Thread(o) \/ WaitFails(o) \/ CallAgain(o) \/ KernelFinishes(o) \/ CallbackStarts(o)
         \/ CallbackSignals(o) \/ Expire(o)

Spec == Init /\ [][Next]_vars

\* Threads are scheduled, and the kernel finishes what it was asked to cancel.  It need
\* not finish anything else: a peer may stay silent for ever.
Fairness ==
  \A o \in Operations :
    /\ WF_vars(Thread(o)) /\ WF_vars(CallbackStarts(o)) /\ WF_vars(CallbackSignals(o))
    /\ WF_vars(aborting[o] /\ KernelFinishes(o))

FairSpec == Spec /\ Fairness

-----------------------------------------------------------------------------
(* Properties. *)

Steps == {"calling", "constructing", "issuing", "waiting", "completing", "cancelling", "draining",
          "draining_destructor", "unhooking", "freeing", "returned"}
Results == {"none", "transferred", "disconnected", "io_failure", "timeout", "cancelled"}

\* The types of the operations' state.
TypeOK ==
  /\ stop \in BOOLEAN
  /\ pc \in [Operations -> Steps]
  /\ kernel \in [Operations -> {"idle", "pending", "success", "error", "aborted"}]
  /\ callback \in [Operations -> {"none", "registered", "running", "done"}]
  /\ wake \in [Operations -> {"none", "completed", "stopped", "expired", "failed"}]
  /\ result \in [Operations -> Results]
  /\ \A f \in {expired, aborting, pending, storage, signalled} : f \in [Operations -> BOOLEAN]

\* While the kernel may still write to it, the OVERLAPPED record and the buffer exist:
\* no way out of accept, read_some or write_some, after a lost cancellation race
\* either, leaves an operation behind.
StorageOutlivesKernel == \A o \in Operations : kernel[o] = "pending" => storage[o]

\* The callback that a concurrent request_stop() is running never signals an event
\* that has been closed.
EventsOutliveCallback == \A o \in Operations : callback[o] = "running" => storage[o]

\* A reported time-out or cancellation has really happened, and transferred bytes are
\* reported only when the kernel moved them.
CausesTruthful ==
  \A o \in Operations :
    /\ result[o] = "timeout" => expired[o]
    /\ result[o] = "cancelled" => stop
    /\ result[o] = "transferred" => kernel[o] \in {"idle", "success"}

\* An operation that is stopped, or whose deadline passes, returns, although nothing
\* else may ever complete it and the stop may come at any point of its set-up.
StopReturns ==
  \A o \in Operations : At(o, "waiting") /\ (stop \/ expired[o]) ~> At(o, "returned")
=============================================================================
