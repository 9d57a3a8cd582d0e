---------------------------- MODULE ClientProofs ----------------------------
(***************************************************************************)
(* The client's inductive invariant: the steps that answer a call or end   *)
(* the session, the induction and the safety theorems that follow, and the *)
(* proof that the client implements ClientSession.                         *)
(***************************************************************************)
EXTENDS ClientStepProofs

USE ConstantsAssumption
USE DEF sessionVars, callVars, callerVars, localVars, peerVars, Goto, Return, Sleep, NotifyAll,
        Running, Locked, MutexFree

\* A delivered request was taken once, so it reaches the peer for the first time.
LEMMA DeliveryStep ==
  ASSUME ClientInv, pc["writer"] = "writing", wire' = Append(wire, entry),
         NEW next \in {"delivered", "sent"}, Goto("writer", next),
         failed' \in BOOLEAN,
         NEW result \in {"ok"} \cup IOFailures, ret' = [ret EXCEPT !["writer"] = result] \/ ret' = ret,
         UNCHANGED <<sessionVars, callVars, callerVars, entry, cursor, asleep, channel,
                     answered, inbox, peerGone>>
  PROVE  ClientInv'
<1>0. TypeOK /\ SingleCompletion /\ NoForgottenPromise /\ QueueMatchesPending /\ NoReplay
      /\ PlaceInv /\ OpeningInv /\ WriterInv /\ SleepInv /\ TeardownInv
  BY DEF ClientInv
<1>1. entry \in Ids
  BY <1>0 DEF WriterInv, Sending
<1>2. /\ wire' \in Seq(Ids) /\ Len(wire) \in Nat
      /\ DOMAIN wire = 1 .. Len(wire) /\ DOMAIN wire' = 1 .. (Len(wire) + 1)
      /\ \A k \in 1 .. Len(wire) : wire'[k] = wire[k]
      /\ wire'[Len(wire) + 1] = entry
  BY <1>0, <1>1, AppendFacts DEF TypeOK
<1>3. TypeOK'
  BY <1>0, <1>2 DEF TypeOK, Places, Threads, Workers
<1>4. SingleCompletion' /\ NoForgottenPromise' /\ QueueMatchesPending'
  BY <1>0 DEF SingleCompletion, NoForgottenPromise, QueueMatchesPending
<1>5. NoReplay'
  BY <1>0, <1>1, <1>2 DEF NoReplay, WriterInv, Sending
<1>6. WriterInv'
  BY <1>0, <1>1, <1>2 DEF WriterInv, Sending, TypeOK, Threads, Workers
<1>7. PlaceInv'
  <2>1. ret'["reader"] = ret["reader"] /\ ret'["writer"] # "null" 
    BY <1>0 DEF PlaceInv, TypeOK, IOFailures
  <2> QED BY <1>0, <2>1 DEF PlaceInv, TypeOK, Threads, Workers
<1>8. OpeningInv' /\ SleepInv' /\ TeardownInv'
  BY <1>0 DEF OpeningInv, SleepInv, NoLostWakeup, TeardownInv, Gone, TypeOK, Threads, Workers, PlaceInv
<1> QED BY <1>3, <1>4, <1>5, <1>6, <1>7, <1>8 DEF ClientInv

\* A matching response removes its call from the pending map and resolves its promise
\* for the first time.
LEMMA ReaderCompletesStep ==
  ASSUME ClientInv, ReaderCompletes PROVE ClientInv'
<1>0. TypeOK /\ SingleCompletion /\ NoForgottenPromise /\ QueueMatchesPending /\ NoReplay
      /\ PlaceInv /\ OpeningInv /\ WriterInv /\ SleepInv /\ TeardownInv
  BY DEF ClientInv
<1>1. inbox # <<>> /\ inbox' = Tail(inbox) /\ inbox' \in Seq(Responses)
  BY <1>0, TailFacts DEF ReaderCompletes, PlaceInv, TypeOK
<1> DEFINE i == Head(inbox).id
<1>2. /\ i \in pending /\ progress[i] # "queued" /\ pending' = pending \ {i}
      /\ promise' = [promise EXCEPT ![i] = SetValue(@, "response")]
      /\ pc' = [pc EXCEPT !["reader"] = "loop"] /\ pc["reader"] = "received" /\ ~closed
      /\ UNCHANGED <<sessionVars, nextId, queued, progress, callerVars, localVars, asleep,
                     channel, failed, wire, answered, peerGone>>
  BY DEF ReaderCompletes
<1> HIDE DEF i
<1>3. i \in Ids /\ i < nextId /\ promise' = [promise EXCEPT ![i] = "response"]
  BY <1>0, <1>2, Zenon DEF NoForgottenPromise, TypeOK, SetValue
<1>4. TypeOK'
  BY <1>0, <1>1, <1>2, <1>3 DEF TypeOK, Places, Threads, Workers
<1>5. SingleCompletion'
  BY <1>0, <1>2, <1>3 DEF SingleCompletion, TypeOK
<1>6. NoForgottenPromise'
  BY <1>0, <1>2, <1>3 DEF NoForgottenPromise, TypeOK
<1>7. QueueMatchesPending' /\ NoReplay'
  BY <1>0, <1>2 DEF QueueMatchesPending, NoReplay
<1>8. PlaceInv'
  BY <1>0, <1>2 DEF PlaceInv, TypeOK, Threads, Workers
<1>9. WriterInv'
  BY <1>0, <1>2, <1>3 DEF WriterInv, Sending, TypeOK, Threads, Workers, Ids
<1>10. OpeningInv' /\ SleepInv' /\ TeardownInv'
  BY <1>0, <1>2 DEF OpeningInv, SleepInv, NoLostWakeup, TeardownInv, Gone, TypeOK, Threads, Workers, PlaceInv
<1> QED BY <1>4, <1>5, <1>6, <1>7, <1>8, <1>9, <1>10 DEF ClientInv

\* Receiving a frame touches neither promises nor queue.
LEMMA InboxStep ==
  ASSUME ClientInv, inbox' \in Seq(Responses), pc["reader"] = "received" /\ inbox # <<>> => inbox' # <<>>,
         answered' \in Nat, peerGone' \in BOOLEAN,
         UNCHANGED <<sessionVars, callVars, callerVars, pc, localVars, asleep, channel, failed, wire>>
  PROVE  ClientInv'
<1> USE DEF ClientInv
<1>1. TypeOK'
  BY DEF TypeOK
<1>2. PlaceInv'
  BY DEF PlaceInv
<1>3. SingleCompletion' /\ NoForgottenPromise' /\ QueueMatchesPending' /\ NoReplay'
  BY DEF SingleCompletion, NoForgottenPromise, QueueMatchesPending, NoReplay
<1>4. OpeningInv' /\ WriterInv' /\ SleepInv' /\ TeardownInv'
  BY DEF OpeningInv, WriterInv, Sending, SleepInv, NoLostWakeup, TeardownInv, Gone
<1> QED BY <1>1, <1>2, <1>3, <1>4

\* The peer touches neither promises nor queue.
LEMMA PeerStep ==
  ASSUME ClientInv, Peer PROVE ClientInv'
<1>0. TypeOK
  BY DEF ClientInv
<1>1. CASE PeerAnswers
  <2>1. wire[answered + 1] \in Ids
    BY <1>0, <1>1 DEF PeerAnswers, TypeOK
  <2>2. PICK r \in Responses : inbox' = Append(inbox, r)
    BY <1>1, <2>1 DEF PeerAnswers, Responses
  <2>3. inbox' \in Seq(Responses) /\ inbox' # <<>>
    BY <1>0, <2>2, AppendFacts, SMTT(30) DEF TypeOK
  <2> QED BY <1>0, <1>1, <2>3, InboxStep DEF PeerAnswers, TypeOK
<1>2. CASE PeerForges
  BY <1>0, <1>2, InboxStep DEF PeerForges, TypeOK
<1>3. CASE PeerLeaves
  <2>1. inbox' \in Seq(Responses)
    <3>1. inbox \in Seq(Responses) /\ (inbox' = inbox \/ inbox' = <<>>)
      BY <1>0, <1>3, Zenon DEF PeerLeaves, TypeOK
    <3>2. <<>> \in Seq(Responses)
      OBVIOUS
    <3> QED BY <3>1, <3>2, Zenon
  <2> QED BY <1>0, <1>3, <2>1, InboxStep DEF PeerLeaves, TypeOK
<1> QED BY <1>1, <1>2, <1>3 DEF Peer

\* connect_async with an expired or cancelled deadline resolves the connect promise
\* and ends the session.
LEMMA ConnectRejectedStep ==
  ASSUME ClientInv, ConnectRejected PROVE ClientInv'
<1>0. TypeOK /\ PlaceInv /\ OpeningInv /\ TeardownInv
  BY DEF ClientInv
<1>1. SessionEnded
  BY <1>0, FailLockedEffect, Zenon DEF ConnectRejected, TypeOK, Failures, IOFailures
<1>2. SingleCompletion' /\ NoForgottenPromise' /\ QueueMatchesPending' /\ NoReplay'
      /\ WriterInv' /\ SleepInv'
  BY <1>0, <1>1, EndPreserves DEF TypeOK, Threads, Workers, ConnectRejected
<1>3. TypeOK'
  BY <1>0, <1>1 DEF ConnectRejected, SessionEnded, TypeOK, Places, Threads, Workers
<1>4. PlaceInv'
  BY <1>0, <1>1 DEF ConnectRejected, SessionEnded, TypeOK, PlaceInv, Workers, Threads
<1>5. OpeningInv'
  BY <1>0, <1>1 DEF ConnectRejected, SessionEnded, TypeOK, OpeningInv, PlaceInv, Threads, Workers
<1>6. TeardownInv'
  BY <1>0, <1>1 DEF ConnectRejected, SessionEnded, TypeOK, TeardownInv, Gone, PlaceInv, Threads, Workers
<1> QED BY <1>2, <1>3, <1>4, <1>5, <1>6 DEF ClientInv

\* connect_async whose thread creation throws resolves the connect promise and ends the
\* session.
LEMMA ConnectLacksThreadsStep ==
  ASSUME ClientInv, ConnectLacksThreads PROVE ClientInv'
<1>0. TypeOK /\ PlaceInv /\ OpeningInv /\ TeardownInv
  BY DEF ClientInv
<1>1. SessionEnded
  BY <1>0, FailLockedEffect, Zenon DEF ConnectLacksThreads, TypeOK, Failures, IOFailures
<1>2. SingleCompletion' /\ NoForgottenPromise' /\ QueueMatchesPending' /\ NoReplay'
      /\ WriterInv' /\ SleepInv'
  BY <1>0, <1>1, EndPreserves DEF TypeOK, Threads, Workers, ConnectLacksThreads
<1>3. TypeOK'
  BY <1>0, <1>1 DEF ConnectLacksThreads, SessionEnded, TypeOK, Places, Threads, Workers
<1>4. PlaceInv'
  BY <1>0, <1>1 DEF ConnectLacksThreads, SessionEnded, TypeOK, PlaceInv, Workers, Threads
<1>5. OpeningInv'
  BY <1>0, <1>1 DEF ConnectLacksThreads, SessionEnded, TypeOK, OpeningInv, PlaceInv, Threads, Workers
<1>6. TeardownInv'
  BY <1>0, <1>1 DEF ConnectLacksThreads, SessionEnded, TypeOK, TeardownInv, Gone, PlaceInv, Threads, Workers
<1> QED BY <1>2, <1>3, <1>4, <1>5, <1>6 DEF ClientInv

\* close() ends the session unless it has ended.
LEMMA CloseStep ==
  ASSUME ClientInv, Close PROVE ClientInv'
<1>0. TypeOK /\ PlaceInv /\ OpeningInv /\ TeardownInv
  BY DEF ClientInv
<1>1. SessionEnded
  BY <1>0, FailLockedEffect DEF Close, TypeOK, Failures, IOFailures
<1>2. SingleCompletion' /\ NoForgottenPromise' /\ QueueMatchesPending' /\ NoReplay'
      /\ WriterInv' /\ SleepInv'
  BY <1>0, <1>1, EndPreserves DEF TypeOK, Threads, Workers, Close
<1>3. TypeOK'
  BY <1>0, <1>1 DEF Close, SessionEnded, TypeOK, Places, Threads, Workers
<1>4. PlaceInv'
  BY <1>0, <1>1 DEF Close, SessionEnded, TypeOK, PlaceInv, Workers, Threads
<1>5. OpeningInv'
  BY <1>0, <1>1 DEF Close, SessionEnded, TypeOK, OpeningInv, PlaceInv, Threads, Workers
<1>6. TeardownInv'
  BY <1>0, <1>1, SMTT(30) DEF Close, SessionEnded, TypeOK, TeardownInv, Gone, PlaceInv, Threads, Workers
<1> QED BY <1>2, <1>3, <1>4, <1>5, <1>6 DEF ClientInv

\* A failed or late opener ends the session before any call was admitted.
LEMMA PublishFailsStep ==
  ASSUME ClientInv, PublishFails PROVE ClientInv'
<1>0. TypeOK /\ PlaceInv /\ OpeningInv /\ TeardownInv
  BY DEF ClientInv
<1>1. SessionEnded
  BY <1>0, FailLockedEffect DEF PublishFails, TypeOK, Failures, IOFailures, translate, PlaceInv
<1>2. SingleCompletion' /\ NoForgottenPromise' /\ QueueMatchesPending' /\ NoReplay'
      /\ WriterInv' /\ SleepInv'
  BY <1>0, <1>1, EndPreserves DEF TypeOK, Threads, Workers, PublishFails
<1>3. TypeOK'
  BY <1>0, <1>1 DEF PublishFails, SessionEnded, TypeOK, Places, Threads, Workers
<1>4. PlaceInv'
  BY <1>0, <1>1, SMTT(30) DEF PublishFails, SessionEnded, TypeOK, PlaceInv, Workers, Threads
<1>5. OpeningInv'
  BY <1>0, <1>1 DEF PublishFails, SessionEnded, TypeOK, OpeningInv, PlaceInv, Threads, Workers
<1>6. TeardownInv'
  BY <1>0, <1>1, SMTT(30) DEF PublishFails, SessionEnded, TypeOK, TeardownInv, Gone, PlaceInv, Threads, Workers
<1> QED BY <1>2, <1>3, <1>4, <1>5, <1>6 DEF ClientInv

\* A failed send ends the session with the cause for the call being written.
LEMMA WriterFailsStep ==
  ASSUME ClientInv, WriterFails PROVE ClientInv'
<1>0. TypeOK /\ PlaceInv /\ OpeningInv /\ TeardownInv
  BY DEF ClientInv
<1>1. SessionEnded
  BY <1>0, FailLockedEffect DEF WriterFails, TypeOK, Failures, IOFailures, translate, PlaceInv
<1>2. SingleCompletion' /\ NoForgottenPromise' /\ QueueMatchesPending' /\ NoReplay'
      /\ WriterInv' /\ SleepInv'
  BY <1>0, <1>1, EndPreserves DEF TypeOK, Threads, Workers, WriterFails
<1>3. TypeOK'
  BY <1>0, <1>1 DEF WriterFails, SessionEnded, TypeOK, Places, Threads, Workers
<1>4. PlaceInv'
  BY <1>0, <1>1 DEF WriterFails, SessionEnded, TypeOK, PlaceInv, Workers, Threads
<1>5. OpeningInv'
  BY <1>0, <1>1 DEF WriterFails, SessionEnded, TypeOK, OpeningInv, PlaceInv, Threads, Workers
<1>6. TeardownInv'
  BY <1>0, <1>1 DEF WriterFails, SessionEnded, TypeOK, TeardownInv, Gone, PlaceInv, Threads, Workers
<1> QED BY <1>2, <1>3, <1>4, <1>5, <1>6 DEF ClientInv

\* A failed receive or an unusable response ends the session.
LEMMA ReaderFailsStep ==
  ASSUME ClientInv, ReaderFails PROVE ClientInv'
<1>0. TypeOK /\ PlaceInv /\ OpeningInv /\ TeardownInv
  BY DEF ClientInv
<1>1. SessionEnded
  BY <1>0, FailLockedEffect, Zenon DEF ReaderFails, TypeOK, Failures, IOFailures, translate, PlaceInv, Cause
<1>2. SingleCompletion' /\ NoForgottenPromise' /\ QueueMatchesPending' /\ NoReplay'
      /\ WriterInv' /\ SleepInv'
  BY <1>0, <1>1, EndPreserves DEF TypeOK, Threads, Workers, ReaderFails
<1>3. TypeOK'
  <2>1. inbox' = inbox \/ (inbox # <<>> /\ inbox' = Tail(inbox))
    BY <1>0 DEF ReaderFails, PlaceInv
  <2>2. inbox' \in Seq(Responses)
    <3>1. CASE inbox' = inbox
      BY <1>0, <3>1 DEF TypeOK
    <3>2. CASE inbox # <<>> /\ inbox' = Tail(inbox)
      BY <1>0, <3>2, TailFacts, SMTT(30) DEF TypeOK
    <3> QED BY <2>1, <3>1, <3>2
  <2> QED BY <1>0, <1>1, <2>2 DEF ReaderFails, SessionEnded, TypeOK, Places, Threads, Workers
<1>4. PlaceInv'
  BY <1>0, <1>1, SMTT(30) DEF ReaderFails, SessionEnded, TypeOK, PlaceInv, Workers, Threads
<1>5. OpeningInv'
  BY <1>0, <1>1, SMTT(30) DEF ReaderFails, SessionEnded, TypeOK, OpeningInv, PlaceInv, Threads, Workers
<1>6. TeardownInv'
  BY <1>0, <1>1 DEF ReaderFails, SessionEnded, TypeOK, TeardownInv, Gone, PlaceInv, Threads, Workers
<1> QED BY <1>2, <1>3, <1>4, <1>5, <1>6 DEF ClientInv

-----------------------------------------------------------------------------
\* The steps of the application thread that connects and closes.
LEMMA ControllerStep ==
  ASSUME ClientInv, Controller PROVE ClientInv'
  BY ControllerQuietStep, ConnectRejectedStep, ConnectLacksThreadsStep, CloseStep, Zenon DEF Controller

\* The steps of application threads that call, cancel or let a deadline pass.
LEMMA CallerStep ==
  ASSUME ClientInv, Caller PROVE ClientInv'
<1>1. TypeOK
  BY DEF ClientInv
<1>2. ASSUME NEW i \in Ids, RequestStop(i) \/ Expire(i) PROVE ClientInv'
  BY <1>1, <1>2, SignalStep DEF RequestStop, Expire, TypeOK
<1>3. CASE RequestConnectStop \/ ExpireConnect
  BY <1>1, <1>3, SignalStep, Zenon DEF RequestConnectStop, ExpireConnect, TypeOK
<1> QED BY <1>2, <1>3, CallAsyncStep, Zenon DEF Caller

\* The steps of write_loop and of the opener and the pipe it is in.
LEMMA WriterStep ==
  ASSUME ClientInv, Writer \/ OpenSucceeds \/ OpenFails \/ SendDelivers \/ SendBreaks PROVE ClientInv'
<1>1. ASSUME NEW r \in IOFailures, pc["writer"] = "writing", SendFailsWith(r),
             wire' = Append(wire, entry)
      PROVE  ClientInv'
  BY <1>1, DeliveryStep, Zenon DEF SendFailsWith
<1>2. CASE SendDelivers
  <2>1. failed \in BOOLEAN
    BY DEF ClientInv, TypeOK
  <2> QED BY <1>2, <2>1, DeliveryStep DEF SendDelivers
<1>3. CASE OpenSucceeds \/ OpenFails \/ OpenAborts
  BY <1>3, WriterQuietStep DEF OpenSucceeds, OpenFails, OpenAborts, IOFailures
<1>4. CASE SendRefuses \/ SendAborts \/ SendBreaks
  BY <1>1, <1>4, WriterQuietStep DEF SendRefuses, SendAborts, SendBreaks, IOFailures
<1> QED BY <1>2, <1>3, <1>4, WriterQuietStep, PublishFailsStep, WriterDropsStep, WriterTakesStep,
           WriterFailsStep, Zenon DEF Writer

\* The steps of read_loop and of the pipe it reads.
LEMMA ReaderStep ==
  ASSUME ClientInv, Reader \/ ReceiveBreaks PROVE ClientInv'
<1>1. CASE ReceiveAborts \/ ReceiveBreaks
  BY <1>1, ReaderQuietStep DEF ReceiveAborts, ReceiveBreaks, IOFailures
<1> QED BY <1>1, ReaderQuietStep, ReaderFailsStep, ReaderCompletesStep, Zenon DEF Reader

\* The steps of monitor_loop, and the wake-ups of all three workers.
LEMMA MonitorStep ==
  ASSUME ClientInv, Monitor \/ \E t \in Workers : Wakes(t) PROVE ClientInv'
  BY MonitorQuietStep, MonitorFindsStep, Zenon DEF Monitor

(***************************************************************************)
(* ClientInv is inductive.                                                 *)
(***************************************************************************)
LEMMA InitEstablishes == Init => ClientInv
<1> SUFFICES ASSUME Init PROVE ClientInv
  OBVIOUS
<1>1. TypeOK
  <2>1. <<>> \in Seq(Ids) /\ <<>> \in Seq(Responses)
    OBVIOUS
  <2>2. 1 \in 1 .. MaxId /\ 0 \in 0 .. MaxId
    OBVIOUS
  <2> QED BY <2>1, <2>2, Zenon DEF Init, TypeOK, Places, Threads, Workers
<1>2. SingleCompletion /\ NoForgottenPromise /\ QueueMatchesPending /\ NoReplay
  BY DEF Init, SingleCompletion, NoForgottenPromise, QueueMatchesPending, NoReplay, Ids
<1>3. PlaceInv /\ OpeningInv
  BY DEF Init, PlaceInv, OpeningInv, Threads, Workers
<1>4. WriterInv /\ SleepInv /\ TeardownInv
  BY DEF Init, WriterInv, Sending, SleepInv, NoLostWakeup, TeardownInv, Gone, Threads, Workers
<1> QED BY <1>1, <1>2, <1>3, <1>4 DEF ClientInv

\* Every step of the client keeps the inductive invariant.
LEMMA StepPreserves == ClientInv /\ [Next]_vars => ClientInv'
<1> SUFFICES ASSUME ClientInv, [Next]_vars PROVE ClientInv'
  OBVIOUS
<1>1. CASE UNCHANGED vars
  BY <1>1, StutterStep
<1>2. CASE Next
  BY <1>2, ControllerStep, CallerStep, WriterStep, ReaderStep, MonitorStep, PeerStep
     DEF Next, Environment
<1> QED BY <1>1, <1>2

\* The inductive invariant holds in every reachable state, for any number of calls and any
\* quota.
THEOREM Invariance == Spec => []ClientInv
  BY InitEstablishes, StepPreserves, PTL DEF Spec

\* Every promise of connect_async and call_async is resolved at most once, and none whose
\* call has left the pending map is forgotten.
THEOREM PromiseSafety == Spec => [](SingleCompletion /\ NoForgottenPromise)
<1>1. ClientInv => SingleCompletion /\ NoForgottenPromise
  BY DEF ClientInv
<1> QED BY <1>1, Invariance, PTL

\* The queue holds exactly the pending calls that were not started, and no request reaches
\* the peer twice.
THEOREM QueueSafety == Spec => [](QueueMatchesPending /\ NoReplay)
<1>1. ClientInv => QueueMatchesPending /\ NoReplay
  BY DEF ClientInv
<1> QED BY <1>1, Invariance, PTL

\* No worker sleeps through the end of the session or through work that waits for it, and
\* the channel goes only after the workers.
THEOREM WakeupSafety == Spec => [](NoLostWakeup /\ TeardownOrder)
<1>1. ClientInv => NoLostWakeup /\ TeardownOrder
  BY DEF ClientInv, SleepInv, TeardownInv, TeardownOrder, Gone, Workers
<1> QED BY <1>1, Invariance, PTL

-----------------------------------------------------------------------------
(* Refinement. *)

\* A step that leaves every part of the state alone that callers can see.
Invisible == UNCHANGED <<started, connected, closed, opening, nextId, promise>>

\* A call is resolved on its own, alive if it gets its response.
ResolvesOne(i) ==
  /\ i \in pending /\ connected /\ ~closed
  /\ \E value \in {"response", "cancelled", "timeout"} :
       /\ promise' = [promise EXCEPT ![i] = value]
       /\ value = "response" => ~Dead(i)
  /\ UNCHANGED <<started, connected, closed, opening, nextId>>

\* fail_locked ends the session for all unresolved calls together.
EndsAll ==
  /\ ~closed
  /\ started => started'
  /\ started' \in BOOLEAN
  /\ \E common \in Failures, specific \in Failures, culprit \in Ids \cup {0} :
       FailLocked(common, culprit, specific)
  /\ UNCHANGED <<connected, nextId>>

(***************************************************************************)
(* What callers can observe of one step of the implementation.             *)
(***************************************************************************)
LEMMA StepKinds ==
  ASSUME ClientInv, Next
  PROVE  \/ Invisible \/ EndsAll \/ ConnectStarts \/ Publish \/ CallAsync
         \/ \E i \in Ids : ResolvesOne(i)
<1>0. TypeOK /\ NoForgottenPromise /\ QueueMatchesPending /\ PlaceInv /\ OpeningInv
  BY DEF ClientInv
<1> USE DEF Invisible
<1>1. ASSUME Controller PROVE Invisible \/ EndsAll \/ ConnectStarts
  <2>1. CASE ConnectRejected
    BY <1>0, <2>1, Zenon DEF ConnectRejected, EndsAll, Failures, IOFailures
  <2>2. CASE ConnectLacksThreads
    BY <1>0, <2>2, Zenon DEF ConnectLacksThreads, EndsAll, Failures, IOFailures
  <2>3. CASE Close /\ closed
    BY <2>3 DEF Close, FailLocked
  <2>4. CASE Close /\ ~closed
    BY <1>0, <2>4, SMTT(30) DEF Close, EndsAll, TypeOK, Failures, IOFailures
  <2>5. CASE Join \/ CloseChannel
    BY <2>5 DEF Join, JoinWorker, CloseChannel
  <2> QED BY <1>1, <2>1, <2>2, <2>3, <2>4, <2>5 DEF Controller
<1>2. ASSUME Caller PROVE Invisible \/ CallAsync
  BY <1>2, SMTT(30) DEF Caller, RequestStop, Expire, RequestConnectStop, ExpireConnect
<1>3. ASSUME Writer \/ Environment
      PROVE  Invisible \/ EndsAll \/ Publish \/ \E i \in Ids : ResolvesOne(i)
  <2>1. CASE PublishFails /\ closed
    BY <2>1, Zenon DEF PublishFails, FailLocked
  <2>2. CASE PublishFails /\ ~closed
    BY <1>0, <2>2 DEF PublishFails, EndsAll, TypeOK, Failures, IOFailures, translate
  <2>3. CASE WriterFails /\ closed
    BY <2>3 DEF WriterFails, FailLocked
  <2>4. CASE WriterFails /\ ~closed
    <3>1. translate(ret["writer"]) \in Failures /\ entry \in Ids
      BY <1>0, <2>4, SMTT(30) DEF WriterFails, ClientInv, WriterInv, Sending, TypeOK, PlaceInv, Failures, IOFailures,
                        translate
    <3> QED BY <1>0, <2>4, <3>1, SMTT(30) DEF WriterFails, EndsAll, TypeOK, Failures, IOFailures
  <2>5. CASE WriterDrops
    <3> DEFINE i == Head(queued)
    <3>1. i \in pending /\ connected /\ i \in Ids /\ promise[i] = "unset"
      BY <1>0, <2>5, TailFacts DEF WriterDrops, TypeOK, QueueMatchesPending, NoForgottenPromise, OpeningInv
    <3>2. Cause(i) \in {"cancelled", "timeout"}
      BY DEF Cause
    <3>3. promise' = [promise EXCEPT ![i] = Cause(i)]
      BY <1>0, <2>5, <3>1, SMTT(30) DEF WriterDrops, SetValue, TypeOK
    <3> QED BY <2>5, <3>1, <3>2, <3>3, Zenon DEF WriterDrops, ResolvesOne
  <2>6. CASE WriterOpens \/ OpenAborts \/ OpenSucceeds \/ OpenFails
    BY <2>6 DEF WriterOpens, OpenAborts, OpenSucceeds, OpenFails, OpenReturns
  <2>7. CASE WriterWaits \/ WriterLeaves \/ WriterTakes \/ WriterResumes
    BY <2>7, SMTT(30) DEF WriterWaits, WriterLeaves, WriterTakes, WriterResumes
  <2>8. CASE SendBegins \/ SendRefuses \/ SendAborts \/ SendReturns \/ SendDelivers \/ SendBreaks
    BY <2>8, Zenon DEF SendBegins, SendRefuses, SendAborts, SendReturns, SendDelivers, SendBreaks, SendFailsWith
  <2>9. CASE ReceiveBreaks
    BY <2>9 DEF ReceiveBreaks, ReceiveFailsWith
  <2> QED BY <1>3, <2>1, <2>2, <2>3, <2>4, <2>5, <2>6, <2>7, <2>8, <2>9 DEF Writer, Environment
<1>4. ASSUME Reader PROVE Invisible \/ EndsAll \/ \E i \in Ids : ResolvesOne(i)
  <2>1. CASE ReaderFails /\ closed
    BY <2>1, Zenon DEF ReaderFails, FailLocked
  <2>2. CASE ReaderFails /\ ~closed
    <3>1. ret["reader"] # "ok" => translate(ret["reader"]) \in Failures
      BY <1>0 DEF TypeOK, PlaceInv, Failures, IOFailures, translate
    <3>2. \A i \in pending : i \in Ids /\ Cause(i) \in Failures
      BY <1>0 DEF TypeOK, Cause, Failures, IOFailures
    <3> QED BY <1>0, <2>2, <3>1, <3>2, Zenon DEF ReaderFails, EndsAll, TypeOK, Failures, IOFailures
  <2>3. CASE ReaderCompletes
    <3> DEFINE i == Head(inbox).id
    <3>1. i \in pending /\ connected /\ i \in Ids /\ promise[i] = "unset" /\ ~Dead(i)
      BY <1>0, <2>3, SMTT(30) DEF ReaderCompletes, TypeOK, NoForgottenPromise, PlaceInv
    <3>2. promise' = [promise EXCEPT ![i] = "response"]
      BY <1>0, <2>3, <3>1, SMTT(30) DEF ReaderCompletes, SetValue, TypeOK
    <3> QED BY <2>3, <3>1, <3>2, Zenon DEF ReaderCompletes, ResolvesOne
  <2>4. CASE ReaderWaits \/ ReaderConnected \/ ReaderLoops \/ ReceiveReturns \/ ReceiveAborts
    BY <2>4 DEF ReaderWaits, ReaderConnected, ReaderLoops, ReceiveReturns, ReceiveAborts, ReceiveFailsWith
  <2> QED BY <1>4, <2>1, <2>2, <2>3, <2>4 DEF Reader
<1>5. ASSUME Monitor PROVE Invisible \/ EndsAll \/ \E i \in Ids : ResolvesOne(i)
  <2>1. CASE MonitorFinds
    <3>1. PICK i \in Due :
            \/ /\ promise' = [promise EXCEPT ![i] = SetValue(@, Cause(i))]
               /\ UNCHANGED <<closed, opening>>
            \/ FailLocked("disconnected", i, Cause(i))
      BY <2>1, SMTT(30) DEF MonitorFinds
    <3>2. i \in pending /\ connected /\ ~closed /\ i \in Ids /\ promise[i] = "unset"
      BY <1>0, <2>1 DEF MonitorFinds, Due, PlaceInv, TypeOK, NoForgottenPromise
    <3>3. Cause(i) \in {"cancelled", "timeout"} /\ Cause(i) \in Failures
      BY SMTT(30) DEF Cause, Failures, IOFailures
    <3>4. UNCHANGED <<started, connected, nextId>> /\ started \in BOOLEAN
      BY <1>0, <2>1 DEF MonitorFinds, TypeOK
    <3>5. CASE FailLocked("disconnected", i, Cause(i))
      BY <3>2, <3>3, <3>4, <3>5 DEF EndsAll, Failures, IOFailures
    <3>6. CASE promise' = [promise EXCEPT ![i] = SetValue(@, Cause(i))] /\ UNCHANGED <<closed, opening>>
      <4>1. promise' = [promise EXCEPT ![i] = Cause(i)]
        BY <1>0, <3>2, <3>6, SMTT(30) DEF SetValue, TypeOK
      <4> QED BY <3>2, <3>3, <3>4, <3>6, <4>1, Zenon DEF ResolvesOne
    <3> QED BY <3>1, <3>5, <3>6
  <2>2. CASE MonitorLeaves \/ MonitorWaits \/ MonitorScans \/ MonitorRests
    BY <2>2, SMTT(30) DEF MonitorLeaves, MonitorWaits, MonitorScans, MonitorRests
  <2> QED BY <1>5, <2>1, <2>2 DEF Monitor
<1>6. ASSUME Peer \/ \E t \in Workers : Wakes(t) PROVE Invisible
  BY <1>6 DEF Peer, PeerAnswers, PeerForges, PeerLeaves, Wakes
<1> QED BY <1>1, <1>2, <1>3, <1>4, <1>5, <1>6 DEF Next

(***************************************************************************)
(* A call that is cancelled or past its deadline is never completed with   *)
(* the response that lost the race (read_loop rechecks under the mutex).   *)
(***************************************************************************)
THEOREM LateResponses == Spec => LateResponseFails
<1>1. ASSUME ClientInv, Next, NEW i \in Ids, promise[i] = "unset", Dead(i)
      PROVE  promise'[i] # "response"
  <2>0. TypeOK /\ NoForgottenPromise
    BY <1>1 DEF ClientInv
  <2>1. CASE Invisible
    BY <1>1, <2>1 DEF Invisible
  <2>2. CASE EndsAll
    <3>1. PICK common \in Failures, specific \in Failures, culprit \in Ids \cup {0} :
            FailLocked(common, culprit, specific)
      BY <2>2 DEF EndsAll
    <3>2. promise'[i] = IF i \in pending THEN SetValue(promise[i], IF i = culprit THEN specific ELSE common)
                        ELSE promise[i]
      BY <1>1, <2>2, <3>1 DEF FailLocked, ResolveAll, EndsAll
    <3> QED BY <1>1, <3>2 DEF SetValue, Failures, IOFailures
  <2>3. CASE ConnectStarts \/ Publish \/ CallAsync
    BY <1>1, <2>3 DEF ConnectStarts, Publish, CallAsync, Admit
  <2>4. ASSUME NEW j \in Ids, ResolvesOne(j) PROVE promise'[i] # "response"
    BY <1>1, <2>0, <2>4 DEF ResolvesOne, TypeOK
  <2> QED BY <1>1, <2>1, <2>2, <2>3, <2>4, StepKinds
<1>2. ClientInv /\ [Next]_vars
        => [\A i \in Ids : promise[i] = "unset" /\ i \in stopReq \cup expired
                              => promise'[i] # "response"]_vars
  BY <1>1 DEF Dead
<1> QED BY <1>2, Invariance, PTL DEF Spec, LateResponseFails

(***************************************************************************)
(* Initial states map to initial states and steps to steps or stutters.    *)
(***************************************************************************)
LEMMA EndRefines ==
  ASSUME ClientInv, EndsAll PROVE Session!Next
<1>0. TypeOK /\ NoForgottenPromise /\ OpeningInv
  BY DEF ClientInv
<1>1. PICK common \in Failures, specific \in Failures, culprit \in Ids \cup {0} :
        FailLocked(common, culprit, specific)
  BY DEF EndsAll
<1>2. /\ ~closed /\ closed' /\ connected' = connected /\ nextId' = nextId
      /\ started => started'
      /\ promise' = [i \in Ids |->
                       IF i \in pending
                       THEN SetValue(promise[i], IF i = culprit THEN specific ELSE common)
                       ELSE promise[i]]
      /\ IF started' /\ ~openingDone THEN opening' = SetValue(opening, common) ELSE opening' = opening
  BY <1>1 DEF EndsAll, FailLocked, ResolveAll
<1>3. Session!Unresolved = pending
  BY <1>0, Zenon DEF Session!Unresolved, Session!Ids, Ids, NoForgottenPromise, TypeOK
<1>4. CASE connected
  <2>1. promise' = [i \in Ids |-> IF i \notin pending THEN promise[i]
                                  ELSE IF i = culprit THEN specific ELSE common]
    BY <1>0, <1>2 DEF NoForgottenPromise, SetValue
  <2>2. opening' = opening
    BY <1>0, <1>2, <1>4 DEF OpeningInv
  <2>3. /\ common \in Failures /\ specific \in Failures /\ culprit \in Session!Ids \cup {0}
        /\ promise' = [i \in Session!Ids |-> IF i \notin Session!Unresolved THEN promise[i]
                                            ELSE IF i = culprit THEN specific ELSE common]
    BY <1>3, <2>1 DEF Session!Ids, Ids
  <2>4. \E com \in Failures, spec \in Failures, cul \in Session!Ids \cup {0} :
          promise' = [i \in Session!Ids |-> IF i \notin Session!Unresolved THEN promise[i]
                                           ELSE IF i = cul THEN spec ELSE com]
    BY <2>3, Zenon
  <2>5. Session!End
    BY <1>2, <1>4, <2>2, <2>4, Zenon DEF Session!End
  <2> QED BY <2>5 DEF Session!Next
<1>5. CASE ~connected
  <2>1. pending = {}
    BY <1>0, <1>5 DEF OpeningInv, NoForgottenPromise, TypeOK, Ids
  <2>2. promise' = promise
    BY <1>0, <1>2, <2>1 DEF TypeOK
  <2>3. ~openingDone /\ opening = "unset"
    BY <1>0, <1>2, <1>5 DEF OpeningInv
  <2>4. CASE started'
    <3>1. opening' \in Failures
      BY <1>2, <2>3, <2>4 DEF SetValue
    <3>2. Session!NotOpened
      BY <1>2, <1>5, <2>2, <3>1 DEF Session!NotOpened
    <3> QED BY <3>2 DEF Session!Next
  <2>5. CASE ~started'
    <3>1. Session!EndUnused
      BY <1>2, <1>5, <2>2, <2>5 DEF Session!EndUnused
    <3> QED BY <3>1 DEF Session!Next
  <2> QED BY <2>4, <2>5
<1> QED BY <1>4, <1>5

(***************************************************************************)
(* Refinement: every behaviour of the three workers, the controller, the   *)
(* callers and the peer is a behaviour of the abstract session.            *)
(***************************************************************************)
THEOREM Refinement == Spec => ImplementsSession
<1>1. Init => Session!Init
  BY DEF Init, Session!Init, Session!Ids, Ids
<1>2. ASSUME ClientInv, [Next]_vars PROVE [Session!Next]_(Session!vars)
  <2>0. TypeOK /\ NoForgottenPromise /\ OpeningInv
    BY <1>2 DEF ClientInv
  <2>1. CASE Invisible \/ UNCHANGED vars
    BY <2>1 DEF Invisible, vars, Session!vars
  <2>2. CASE EndsAll
    BY <1>2, <2>2, EndRefines
  <2>3. CASE ConnectStarts
    <3>1. Session!Start
      BY <2>0, <2>3 DEF ConnectStarts, Session!Start, OpeningInv
    <3> QED BY <3>1 DEF Session!Next
  <2>4. CASE Publish
    <3>1. opening = "unset" /\ started /\ ~connected
      BY <1>2, <2>0, <2>4, SMTT(30) DEF Publish, OpeningInv, ClientInv, PlaceInv, Workers
    <3>2. Session!Opened
      BY <2>4, <3>1 DEF Publish, Session!Opened, SetValue
    <3> QED BY <3>2, SMTT(30) DEF Session!Next
  <2>5. CASE CallAsync
    <3>1. Session!Unresolved = pending
      BY <2>0, Zenon DEF Session!Unresolved, Session!Ids, Ids, NoForgottenPromise, TypeOK
    <3>2. Session!Submit
      BY <2>5, <3>1 DEF CallAsync, Admit, Session!Submit, Cardinality, Session!Cardinality
    <3> QED BY <3>2 DEF Session!Next
  <2>6. ASSUME NEW i \in Ids, ResolvesOne(i) PROVE Session!Next
    <3>1. Session!Unresolved = pending
      BY <2>0, Zenon DEF Session!Unresolved, Session!Ids, Ids, NoForgottenPromise, TypeOK
    <3>2. Session!Resolve(i)
      BY <2>6, <3>1, Zenon DEF ResolvesOne, Session!Resolve
    <3> QED BY <3>2 DEF Session!Next, Session!Ids, Ids
  <2> QED BY <1>2, <2>1, <2>2, <2>3, <2>4, <2>5, <2>6, StepKinds
<1> QED BY <1>1, <1>2, Invariance, PTL DEF Spec, Session!Spec, ImplementsSession
=============================================================================
