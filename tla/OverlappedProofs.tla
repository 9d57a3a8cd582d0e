-------------------------- MODULE OverlappedProofs --------------------------
(***************************************************************************)
(* For any number of operations: the kernel and the stop callback only     *)
(* ever touch storage that exists, and reported causes are true.           *)
(***************************************************************************)
EXTENDS Overlapped, TLAPS

Inside == {"issuing", "waiting", "completing", "cancelling", "draining", "draining_destructor",
           "unhooking", "freeing"}

\* What the thread's position says about the kernel, the storage and the callback of
\* its operation.  The three sets are where the operation object exists, where its
\* callback may be registered and where the kernel may hold on to it.
Ownership(o) ==
  /\ storage[o] <=> pc[o] \in Inside
  /\ callback[o] # "none" => pc[o] \in Inside \ {"freeing"}
  /\ kernel[o] = "pending" => pc[o] \in {"waiting", "cancelling", "draining"}
  /\ pc[o] \in {"calling", "constructing", "issuing"} => kernel[o] = "idle"

\* Where a cause comes from: an expired wait from the deadline, a stopped one from the
\* cancellation event, which only a requested stop sets.
Provenance(o) ==
  /\ wake[o] = "expired" => expired[o]
  /\ wake[o] = "stopped" => stop
  /\ signalled[o] => stop
  /\ callback[o] \in {"running", "done"} => stop
  /\ result[o] = "timeout" => expired[o]
  /\ result[o] = "cancelled" => stop
  /\ result[o] = "transferred" =>
       kernel[o] \in {"idle", "success"} /\ pc[o] \in {"draining_destructor", "unhooking", "freeing", "returned"}

\* The inductive invariant.
OperationInv == TypeOK /\ \A o \in Operations : Ownership(o) /\ Provenance(o)

\* Before the first call nothing is constructed and nothing is pending.
LEMMA InitHolds == Init => OperationInv
<1> SUFFICES ASSUME Init PROVE OperationInv
  OBVIOUS
<1>1. TypeOK
  BY Zenon DEF Init, TypeOK, Steps, Results
<1>2. \A o \in Operations : Ownership(o) /\ Provenance(o)
  BY DEF Init, Ownership, Provenance, Inside
<1> QED BY <1>1, <1>2 DEF OperationInv

\* The steps of the issuing thread up to the wait: preflight, construction, issue.
LEMMA SetupPreserves ==
  ASSUME OperationInv, NEW o \in Operations, Preflight(o) \/ Construct(o) \/ Issue(o)
  PROVE  OperationInv'
<1>1. CASE Preflight(o)
  BY <1>1 DEF Preflight, At, Goto, Answer, OperationInv, TypeOK, Ownership, Provenance, Inside, Steps, Results
<1>2. CASE Construct(o)
  BY <1>2 DEF Construct, At, Goto, Answer, OperationInv, TypeOK, Ownership, Provenance, Inside, Steps, Results
<1>3. CASE Issue(o)
  <2>1. ASSUME NEW r \in {"transferred", "disconnected", "io_failure"}, Answer(o, r),
               Goto(o, "draining_destructor"), UNCHANGED <<kernel, pending>>
        PROVE  OperationInv'
    BY <1>3, <2>1 DEF Issue, At, Goto, Answer, OperationInv, TypeOK, Ownership, Provenance, Inside,
                      Steps, Results
  <2>2. ASSUME kernel' = [kernel EXCEPT ![o] = "pending"], pending' = [pending EXCEPT ![o] = TRUE],
               Goto(o, "waiting"), UNCHANGED result
        PROVE  OperationInv'
    <3>1. UNCHANGED <<stop, expired, aborting, storage, signalled, callback, wake>> /\ At(o, "issuing")
      BY <1>3 DEF Issue
    <3> QED
      BY <2>2, <3>1 DEF At, Goto, OperationInv, TypeOK, Ownership, Provenance, Inside, Steps, Results
  <2> QED BY <1>3, <2>1, <2>2 DEF Issue
<1> QED BY <1>1, <1>2, <1>3

\* The four ways out of wait().
LEMMA WaitPreserves ==
  ASSUME OperationInv, NEW o \in Operations,
         WaitCompletes(o) \/ WaitStops(o) \/ WaitExpires(o) \/ WaitFails(o)
  PROVE  OperationInv'
BY DEF WaitCompletes, WaitStops, WaitExpires, WaitFails, Wakes, At, Goto, OperationInv, TypeOK,
       Ownership, Provenance, Inside, Steps, Results

\* Completion, and cancellation with the wait for the kernel that follows it.
LEMMA ResolvePreserves ==
  ASSUME OperationInv, NEW o \in Operations, Complete(o) \/ Cancel(o) \/ Drain(o)
  PROVE  OperationInv'
<1>1. CASE Complete(o)
  BY <1>1 DEF Complete, At, Goto, Answer, OperationInv, TypeOK, Ownership, Provenance, Inside, Steps, Results
<1>2. CASE Cancel(o)
  BY <1>2 DEF Cancel, At, Goto, OperationInv, TypeOK, Ownership, Provenance, Inside, Steps, Results
<1>3. CASE Drain(o)
  BY <1>3 DEF Drain, KindOf, At, Goto, Answer, OperationInv, TypeOK, Ownership, Provenance, Inside, Steps, Results
<1> QED BY <1>1, <1>2, <1>3

\* Destruction, member by member, and the caller's next operation.
LEMMA DestroyPreserves ==
  ASSUME OperationInv, NEW o \in Operations,
         DestructorDrains(o) \/ Unhook(o) \/ Free(o) \/ CallAgain(o)
  PROVE  OperationInv'
<1>1. CASE DestructorDrains(o)
  BY <1>1 DEF DestructorDrains, At, Goto, OperationInv, TypeOK, Ownership, Provenance, Inside, Steps, Results
<1>2. CASE Unhook(o)
  BY <1>2 DEF Unhook, At, Goto, OperationInv, TypeOK, Ownership, Provenance, Inside, Steps, Results
<1>3. CASE Free(o)
  BY <1>3 DEF Free, At, Goto, OperationInv, TypeOK, Ownership, Provenance, Inside, Steps, Results
<1>4. CASE CallAgain(o)
  BY <1>4 DEF CallAgain, At, Goto, OperationInv, TypeOK, Ownership, Provenance, Inside, Steps, Results
<1> QED BY <1>1, <1>2, <1>3, <1>4

\* The kernel, the clock and the thread that requests the stop.
LEMMA EnvironmentPreserves ==
  ASSUME OperationInv,
         RequestStop \/ \E o \in Operations : KernelFinishes(o) \/ CallbackStarts(o)
                                                \/ CallbackSignals(o) \/ Expire(o)
  PROVE  OperationInv'
<1>1. CASE RequestStop
  BY <1>1 DEF RequestStop, OperationInv, TypeOK, Ownership, Provenance, Inside, Steps, Results
<1>2. ASSUME NEW o \in Operations, KernelFinishes(o) PROVE OperationInv'
  BY <1>2 DEF KernelFinishes, OperationInv, TypeOK, Ownership, Provenance, Inside, Steps, Results
<1>3. ASSUME NEW o \in Operations, CallbackStarts(o) PROVE OperationInv'
  BY <1>3 DEF CallbackStarts, OperationInv, TypeOK, Ownership, Provenance, Inside, Steps, Results
<1>4. ASSUME NEW o \in Operations, CallbackSignals(o) PROVE OperationInv'
  BY <1>4 DEF CallbackSignals, OperationInv, TypeOK, Ownership, Provenance, Inside, Steps, Results
<1>5. ASSUME NEW o \in Operations, Expire(o) PROVE OperationInv'
  BY <1>5 DEF Expire, OperationInv, TypeOK, Ownership, Provenance, Inside, Steps, Results
<1> QED BY <1>1, <1>2, <1>3, <1>4, <1>5

\* Every step of accept, read_some and write_some, of the kernel and of the thread that
\* requests the stop keeps the inductive invariant.
THEOREM OperationInvariance == Spec => []OperationInv
<1>1. OperationInv /\ [Next]_vars => OperationInv'
  <2> SUFFICES ASSUME OperationInv, [Next]_vars PROVE OperationInv'
    OBVIOUS
  <2>1. CASE UNCHANGED vars
    BY <2>1 DEF vars, OperationInv, TypeOK, Ownership, Provenance
  <2>2. CASE Next
    BY <2>2, SetupPreserves, WaitPreserves, ResolvePreserves, DestroyPreserves, EnvironmentPreserves
       DEF Next, Thread
  <2> QED BY <2>1, <2>2
<1> QED BY InitHolds, <1>1, PTL DEF Spec

\* No operation is left behind in the kernel: while it is pending there, its OVERLAPPED
\* record and its events exist.
THEOREM StorageSafety == Spec => []StorageOutlivesKernel
<1>1. OperationInv => StorageOutlivesKernel
  BY DEF OperationInv, Ownership, Inside, StorageOutlivesKernel
<1> QED BY OperationInvariance, <1>1, PTL

\* A stop callback that is running never signals a closed event, although it runs in
\* another thread than the destructor.
THEOREM CallbackSafety == Spec => []EventsOutliveCallback
<1>1. OperationInv => EventsOutliveCallback
  BY DEF OperationInv, Ownership, Inside, EventsOutliveCallback
<1> QED BY OperationInvariance, <1>1, PTL

\* The cause an operation reports is one that happened.
THEOREM CauseSafety == Spec => []CausesTruthful
<1>1. OperationInv => CausesTruthful
  BY DEF OperationInv, Provenance, CausesTruthful
<1> QED BY OperationInvariance, <1>1, PTL
=============================================================================
