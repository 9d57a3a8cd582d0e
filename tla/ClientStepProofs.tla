-------------------------- MODULE ClientStepProofs --------------------------
(***************************************************************************)
(* What the proofs about ClientConnection rest on: the steps that leave    *)
(* calls and queue alone, facts about the queue, what ending the session   *)
(* and dropping a call do to the invariant, and the steps that put a call  *)
(* into the queue or take it out.                                          *)
(***************************************************************************)
EXTENDS ClientConnection, TLAPS

USE ConstantsAssumption
USE DEF sessionVars, callVars, callerVars, localVars, peerVars, Goto, Return, Sleep, NotifyAll,
        Running, Locked, MutexFree
USE DEF ClientInv, TypeOK, SingleCompletion, NoForgottenPromise, QueueMatchesPending, NoReplay,
        PlaceInv, OpeningInv, WriterInv, SleepInv, NoLostWakeup, TeardownInv, Gone, Sending,
        Places, Threads, Workers

-----------------------------------------------------------------------------
(* Steps that change no call and no queue. *)

\* connect_async starts the workers; close() joins them and closes the channel.
LEMMA ControllerQuietStep ==
  ASSUME ClientInv, ConnectStarts \/ Join \/ CloseChannel PROVE ClientInv'
<1>1. CASE ConnectStarts
  BY <1>1, SMTT(30) DEF ConnectStarts
<1>2. CASE JoinWorker("writer", "join_writer", "join_reader")
  BY <1>2, SMTT(30) DEF JoinWorker
<1>3. CASE JoinWorker("reader", "join_reader", "join_monitor")
  BY <1>3, SMTT(30) DEF JoinWorker
<1>4. CASE JoinWorker("monitor", "join_monitor", "close_channel")
  BY <1>4, SMTT(30) DEF JoinWorker
<1>5. CASE CloseChannel
  BY <1>5, SMTT(30) DEF CloseChannel
<1> HIDE DEF ClientInv
<1> QED BY <1>1, <1>2, <1>3, <1>4, <1>5, Zenon DEF Join

\* Stop requests and deadlines change nothing the invariant speaks of.
LEMMA SignalStep ==
  ASSUME ClientInv,
         UNCHANGED <<started, connected, openingDone, closed, opening, callVars, pc, localVars,
                     asleep, channel, failed, peerVars>>,
         shutdown' \in BOOLEAN, stopReq' \in SUBSET Ids, expired' \in SUBSET Ids,
         connStop' \in BOOLEAN, connExpired' \in BOOLEAN
  PROVE  ClientInv'
  BY SMTT(30)

\* write_loop around its waits, the opener and a send that puts nothing on the wire.
LEMMA WriterQuietStep ==
  ASSUME ClientInv,
         \/ WriterOpens \/ Publish \/ WriterWaits \/ WriterLeaves \/ SendBegins \/ SendReturns
         \/ WriterResumes
         \/ \E r \in {"ok", "null"} \cup IOFailures : OpenReturns(r)
         \/ /\ pc["writer"] \in {"send", "writing"} /\ UNCHANGED wire
            /\ \E r \in IOFailures : SendFailsWith(r)
  PROVE  ClientInv'
<1>1. CASE WriterOpens
  BY <1>1, SMTT(30) DEF WriterOpens, IOFailures
<1>2. ASSUME NEW r \in {"ok", "null"} \cup IOFailures, OpenReturns(r) PROVE ClientInv'
  BY <1>2, SMTT(30) DEF OpenReturns
<1>3. CASE Publish
  BY <1>3, SMTT(30) DEF Publish, SetValue
<1>4. CASE WriterWaits
  BY <1>4, SMTT(30) DEF WriterWaits
<1>5. CASE WriterLeaves
  BY <1>5, SMTT(30) DEF WriterLeaves
<1>6. CASE SendBegins
  BY <1>6, SMTT(30) DEF SendBegins
<1>7. CASE SendReturns
  BY <1>7, SMTT(30) DEF SendReturns
<1>8. CASE WriterResumes
  BY <1>8, SMTT(30) DEF WriterResumes
<1>9. ASSUME NEW r \in IOFailures, pc["writer"] \in {"send", "writing"}, SendFailsWith(r), UNCHANGED wire
      PROVE  ClientInv'
  BY <1>9, SMTT(30) DEF SendFailsWith, IOFailures
<1> HIDE DEF ClientInv
<1> QED BY <1>1, <1>2, <1>3, <1>4, <1>5, <1>6, <1>7, <1>8, <1>9, Zenon

\* read_loop around its wait and a receive that returns no response that is due.
LEMMA ReaderQuietStep ==
  ASSUME ClientInv,
         \/ ReaderWaits \/ ReaderConnected \/ ReaderLoops \/ ReceiveReturns
         \/ \E r \in IOFailures : ReceiveFailsWith(r)
  PROVE  ClientInv'
<1>1. CASE ReaderWaits
  BY <1>1, SMTT(30) DEF ReaderWaits
<1>2. CASE ReaderConnected
  BY <1>2, SMTT(30) DEF ReaderConnected
<1>3. CASE ReaderLoops
  BY <1>3, SMTT(30) DEF ReaderLoops, IOFailures
<1>4. CASE ReceiveReturns
  BY <1>4, SMTT(30) DEF ReceiveReturns
<1>5. ASSUME NEW r \in IOFailures, ReceiveFailsWith(r) PROVE ClientInv'
  BY <1>5, SMTT(30) DEF ReceiveFailsWith, IOFailures
<1> HIDE DEF ClientInv
<1> QED BY <1>1, <1>2, <1>3, <1>4, <1>5, Zenon

\* monitor_loop outside its scan, and the wake-ups of the workers.
LEMMA MonitorQuietStep ==
  ASSUME ClientInv,
         MonitorLeaves \/ MonitorWaits \/ MonitorScans \/ MonitorRests \/ \E t \in Workers : Wakes(t)
  PROVE  ClientInv'
<1>1. CASE MonitorLeaves
  BY <1>1, SMTT(30) DEF MonitorLeaves
<1>2. CASE MonitorWaits
  <2>1. pc["monitor"] \in {"start", "timed"} /\ ~closed /\ (~connected \/ pending = {})
    BY <1>2 DEF MonitorWaits
  <2>2. ~connected => pending = {}
    BY SMTT(30) DEF Ids
  <2> QED BY <1>2, <2>1, <2>2, SMTT(30) DEF MonitorWaits
<1>3. CASE MonitorScans
  BY <1>3, SMTT(30) DEF MonitorScans
<1>4. CASE MonitorRests
  BY <1>4, SMTT(30) DEF MonitorRests
<1>5. ASSUME NEW t \in Workers, Wakes(t) PROVE ClientInv'
  BY <1>5, SMTT(30) DEF Wakes
<1> HIDE DEF ClientInv, Workers
<1> QED BY <1>1, <1>2, <1>3, <1>4, <1>5, Zenon

\* A stuttering step.
LEMMA StutterStep ==
  ASSUME ClientInv, UNCHANGED vars PROVE ClientInv'
  BY SMTT(30) DEF vars

HIDE DEF ClientInv, TypeOK, SingleCompletion, NoForgottenPromise, QueueMatchesPending, NoReplay,
        PlaceInv, OpeningInv, WriterInv, SleepInv, NoLostWakeup, TeardownInv, Gone, Sending,
        Places, Threads, Workers

-----------------------------------------------------------------------------
(* The queue. *)

\* Two sequences behind each other.
LEMMA ConcatFacts ==
  ASSUME NEW S, NEW a \in Seq(S), NEW b \in Seq(S)
  PROVE  /\ a \o b \in Seq(S)
         /\ Len(a \o b) = Len(a) + Len(b)
         /\ \A j \in 1 .. (Len(a) + Len(b)) : (a \o b)[j] = IF j <= Len(a) THEN a[j] ELSE b[j - Len(a)]
<1>1. a \o b \in Seq(S)
  OBVIOUS
<1>2. Len(a \o b) = Len(a) + Len(b)
  OBVIOUS
<1>3. ASSUME NEW j \in 1 .. (Len(a) + Len(b)), j <= Len(a) PROVE (a \o b)[j] = a[j]
  BY <1>3
<1>4. ASSUME NEW j \in 1 .. (Len(a) + Len(b)), ~(j <= Len(a)) PROVE (a \o b)[j] = b[j - Len(a)]
  BY <1>4
<1> QED BY <1>1, <1>2, <1>3, <1>4, Zenon

(***************************************************************************)
(* std::erase on the deque: removing position k keeps the other entries in *)
(* their order.                                                            *)
(***************************************************************************)
LEMMA EraseAtProperties ==
  ASSUME NEW S, NEW q \in Seq(S), NEW k \in 1 .. Len(q)
  PROVE  /\ EraseAt(q, k) \in Seq(S)
         /\ Len(EraseAt(q, k)) = Len(q) - 1
         /\ \A j \in 1 .. (Len(q) - 1) : EraseAt(q, k)[j] = IF j < k THEN q[j] ELSE q[j + 1]
<1> DEFINE a == SubSeq(q, 1, k - 1)
           b == SubSeq(q, k + 1, Len(q))
<1>1. /\ Len(q) \in Nat /\ \A i \in 1 .. Len(q) : q[i] \in S
  OBVIOUS
<1>2. /\ a \in Seq(S) /\ Len(a) = k - 1 /\ \A i \in 1 .. (k - 1) : a[i] = q[i]
  BY <1>1
<1>3. /\ b \in Seq(S) /\ Len(b) = Len(q) - k /\ \A i \in 1 .. (Len(q) - k) : b[i] = q[k + i]
  BY <1>1
<1>4. EraseAt(q, k) = a \o b
  BY DEF EraseAt
<1> HIDE DEF a, b
<1>5. /\ a \o b \in Seq(S)
      /\ Len(a \o b) = Len(a) + Len(b)
      /\ \A j \in 1 .. (Len(a) + Len(b)) : (a \o b)[j] = IF j <= Len(a) THEN a[j] ELSE b[j - Len(a)]
  BY <1>2, <1>3, ConcatFacts, Zenon
<1>6. Len(a) + Len(b) = Len(q) - 1
  BY <1>1, <1>2, <1>3
<1>7. ASSUME NEW j \in 1 .. (Len(q) - 1)
      PROVE  (a \o b)[j] = IF j < k THEN q[j] ELSE q[j + 1]
  <2>1. CASE j < k
    BY <1>1, <1>2, <1>5, <1>6, <2>1
  <2>2. CASE ~(j < k)
    <3>1. (a \o b)[j] = b[j - (k - 1)]
      BY <1>1, <1>2, <1>5, <1>6, <2>2
    <3>2. j - (k - 1) \in 1 .. (Len(q) - k) /\ k + (j - (k - 1)) = j + 1
      BY <1>1, <2>2
    <3> QED BY <1>3, <2>2, <3>1, <3>2
  <2> QED BY <2>1, <2>2, Zenon
<1> QED BY <1>4, <1>5, <1>6, <1>7, Zenon

(***************************************************************************)
(* push_back keeps the entries that were there and adds one behind them.   *)
(***************************************************************************)
LEMMA AppendFacts ==
  ASSUME NEW S, NEW q \in Seq(S), NEW e \in S
  PROVE  /\ Append(q, e) \in Seq(S)
         /\ Append(q, e) # <<>>
         /\ DOMAIN q = 1 .. Len(q) /\ DOMAIN Append(q, e) = 1 .. (Len(q) + 1)
         /\ \A k \in 1 .. Len(q) : Append(q, e)[k] = q[k]
         /\ Append(q, e)[Len(q) + 1] = e
         /\ Len(q) \in Nat
  OBVIOUS

(***************************************************************************)
(* pop_front removes the front entry and shifts the others.                *)
(***************************************************************************)
LEMMA TailFacts ==
  ASSUME NEW S, NEW q \in Seq(S), q # <<>>
  PROVE  /\ Tail(q) \in Seq(S) /\ Head(q) = q[1] /\ q[1] \in S
         /\ Len(q) \in Nat \ {0}
         /\ DOMAIN q = 1 .. Len(q) /\ DOMAIN Tail(q) = 1 .. (Len(q) - 1)
         /\ \A k \in 1 .. (Len(q) - 1) : Tail(q)[k] = q[k + 1]
  OBVIOUS

-----------------------------------------------------------------------------

(***************************************************************************)
(* What a call of fail_locked leaves behind, whether or not the session    *)
(* was already closed.                                                     *)
(***************************************************************************)
SessionEnded ==
  /\ closed' = TRUE /\ shutdown' \in BOOLEAN
  /\ openingDone' \in BOOLEAN
  /\ opening' \in {"unset", "connected"} \cup Failures
  /\ openingDone' <=> opening' # "unset"
  /\ openingDone' <=> started'
  /\ connected => opening' = opening
  /\ promise' \in [Ids -> {"unset", "response", "future_error"} \cup Failures]
  /\ \A i \in Ids : promise'[i] # "future_error" /\ (promise'[i] = "unset" <=> i >= nextId)
  /\ pending' = {} /\ queued' = <<>> /\ asleep' = {}

(***************************************************************************)
(* fail_locked resolves every pending promise, the connect promise too,    *)
(* each for the first time, empties both containers and wakes everybody.   *)
(***************************************************************************)
LEMMA FailLockedEffect ==
  ASSUME ClientInv, started' \in BOOLEAN, started => started', closed => started' = started,
         NEW common, NEW specific, NEW culprit,
         ~closed => common \in Failures /\ specific \in Failures,
         FailLocked(common, culprit, specific)
  PROVE  SessionEnded
<1> USE DEF SessionEnded, ClientInv, TypeOK, SingleCompletion, NoForgottenPromise, Ids, Failures, IOFailures
<1>1. CASE closed
  <2>1. asleep = {}
    BY <1>1, Zenon DEF SleepInv, NoLostWakeup, Workers
  <2>2. \A i \in Ids : promise[i] = "unset" <=> i >= nextId
    BY <1>1 DEF WriterInv
  <2> QED BY <1>1, <2>1, <2>2, Zenon DEF FailLocked, OpeningInv
<1>2. CASE ~closed
  <2>1. /\ closed' = TRUE /\ shutdown' \in BOOLEAN /\ pending' = {} /\ queued' = <<>> /\ asleep' = {}
    BY <1>2 DEF FailLocked, NotifyAll
  <2>2. /\ openingDone' \in BOOLEAN
        /\ opening' \in {"unset", "connected"} \cup Failures
        /\ openingDone' <=> opening' # "unset"
        /\ openingDone' <=> started'
        /\ connected => opening' = opening
    BY <1>2, Zenon DEF FailLocked, SetValue, OpeningInv
  <2>3. /\ promise' \in [Ids -> {"unset", "response", "future_error"} \cup Failures]
        /\ \A i \in Ids : promise'[i] # "future_error" /\ (promise'[i] = "unset" <=> i >= nextId)
    <3>1. promise' = [i \in Ids |-> IF i \in pending
                                    THEN SetValue(promise[i], IF i = culprit THEN specific ELSE common)
                                    ELSE promise[i]]
      BY <1>2 DEF FailLocked, ResolveAll
    <3>2. ASSUME NEW i \in Ids, i \in pending
          PROVE  promise'[i] \in Failures /\ i < nextId
      BY <1>2, <3>1, <3>2 DEF SetValue
    <3>3. ASSUME NEW i \in Ids, i \notin pending
          PROVE  promise'[i] = promise[i] /\ (promise[i] = "unset" <=> i >= nextId)
      BY <3>1, <3>3 DEF WriterInv
    <3>4. ASSUME NEW i \in Ids
          PROVE  /\ promise'[i] \in {"unset", "response", "future_error"} \cup Failures
                 /\ promise'[i] # "future_error" /\ (promise'[i] = "unset" <=> i >= nextId)
      BY <3>2, <3>3
    <3>5. promise' \in [Ids -> {"unset", "response", "future_error"} \cup Failures]
      BY <3>1, <3>4
    <3> QED BY <3>4, <3>5
  <2> QED BY <2>1, <2>2, <2>3
<1> QED BY <1>1, <1>2, Zenon DEF ClientInv, TypeOK

(***************************************************************************)
(* The invariants about promises, queue, wire and sleepers follow from     *)
(* SessionEnded alone, for every operation that fails the session.         *)
(***************************************************************************)
LEMMA EndPreserves ==
  ASSUME ClientInv, SessionEnded,
         connected' = connected, nextId' = nextId, progress' = progress, wire' = wire,
         \/ pc'["writer"] \in {"start", "done"}
         \/ pc'["writer"] = pc["writer"] /\ entry' = entry
  PROVE  /\ SingleCompletion' /\ NoForgottenPromise' /\ QueueMatchesPending' /\ NoReplay'
         /\ WriterInv' /\ SleepInv'
<1> USE DEF SessionEnded
<1>1. SingleCompletion'
  BY DEF SingleCompletion, Failures, IOFailures
<1>2. NoForgottenPromise'
  BY ConstantsAssumption DEF NoForgottenPromise, ClientInv, TypeOK, Ids
<1>3. QueueMatchesPending'
  BY DEF QueueMatchesPending
<1>4. NoReplay'
  BY DEF ClientInv, NoReplay
<1>5. WriterInv'
  BY DEF ClientInv, WriterInv, Sending
<1>6. SleepInv'
  BY DEF SleepInv, NoLostWakeup
<1> QED BY <1>1, <1>2, <1>3, <1>4, <1>5, <1>6

(***************************************************************************)
(* queued_ loses entry i and nothing else.                                 *)
(***************************************************************************)
QueueLoses(i) ==
  /\ queued' \in Seq(Ids)
  /\ {queued'[k] : k \in DOMAIN queued'} = {queued[k] : k \in DOMAIN queued} \ {i}
  /\ \A k \in DOMAIN queued' : \E m \in DOMAIN queued : queued'[k] = queued[m] /\ queued[m] # i
  /\ \A j, k \in DOMAIN queued' : j < k => queued'[j] < queued'[k]

(***************************************************************************)
(* Taking the entry at position n out of the sorted queue, from the front  *)
(* (n = 1) or from the middle.                                             *)
(***************************************************************************)
LEMMA QueueShrinks ==
  ASSUME queued \in Seq(Ids), NEW n \in 1 .. Len(queued),
         \A j, k \in DOMAIN queued : j < k => queued[j] < queued[k],
         queued' = EraseAt(queued, n)
  PROVE  QueueLoses(queued[n])
<1>1. /\ queued' \in Seq(Ids) /\ Len(queued) \in Nat
      /\ DOMAIN queued = 1 .. Len(queued)
      /\ DOMAIN queued' = 1 .. (Len(queued) - 1)
      /\ \A k \in 1 .. (Len(queued) - 1) : queued'[k] = IF k < n THEN queued[k] ELSE queued[k + 1]
  BY EraseAtProperties, SMTT(20)
<1>2. \A k \in DOMAIN queued : queued[k] \in Int
  <2>1. \A k \in DOMAIN queued : queued[k] \in Ids
    BY <1>1
  <2> QED BY <2>1, ConstantsAssumption DEF Ids
<1>3. \A k \in DOMAIN queued : k # n => queued[k] # queued[n]
  <2> SUFFICES ASSUME NEW k \in DOMAIN queued, k # n PROVE queued[k] # queued[n]
    OBVIOUS
  <2>1. n \in DOMAIN queued /\ k \in Int /\ n \in Int
    BY <1>1
  <2>2. queued[k] \in Int /\ queued[n] \in Int
    BY <1>2, <2>1
  <2>3. k < n \/ n < k
    BY <2>1
  <2>4. queued[k] < queued[n] \/ queued[n] < queued[k]
    BY <2>1, <2>3
  <2> QED BY <2>2, <2>4
<1>4. \A k \in DOMAIN queued' : \E m \in DOMAIN queued : queued'[k] = queued[m] /\ queued[m] # queued[n]
  <2> TAKE k \in DOMAIN queued'
  <2>1. CASE k < n
    BY <1>1, <1>3, <2>1
  <2>2. CASE ~(k < n)
    <3>1. k + 1 \in DOMAIN queued /\ k + 1 # n /\ queued'[k] = queued[k + 1]
      BY <1>1, <2>2
    <3> QED BY <1>3, <3>1
  <2> QED BY <2>1, <2>2
<1>5. \A m \in DOMAIN queued : queued[m] # queued[n] => \E k \in DOMAIN queued' : queued'[k] = queued[m]
  <2> SUFFICES ASSUME NEW m \in DOMAIN queued, m # n
               PROVE  \E k \in DOMAIN queued' : queued'[k] = queued[m]
    OBVIOUS
  <2>1. CASE m < n
    BY <1>1, <2>1
  <2>2. CASE m > n
    <3>1. m - 1 \in DOMAIN queued' /\ ~(m - 1 < n) /\ (m - 1) + 1 = m
      BY <1>1, <2>2
    <3>2. queued'[m - 1] = queued[m]
      BY <1>1, <3>1
    <3> QED BY <3>1, <3>2
  <2> QED BY <1>1, <2>1, <2>2
<1>6. {queued'[k] : k \in DOMAIN queued'} = {queued[k] : k \in DOMAIN queued} \ {queued[n]}
  BY <1>4, <1>5
<1>7. \A j, k \in DOMAIN queued' : j < k => queued'[j] < queued'[k]
  <2> SUFFICES ASSUME NEW j \in DOMAIN queued', NEW k \in DOMAIN queued', j < k
               PROVE  queued'[j] < queued'[k]
    OBVIOUS
  <2>1. PICK a \in DOMAIN queued : a = (IF j < n THEN j ELSE j + 1) /\ queued'[j] = queued[a]
    BY <1>1
  <2>2. PICK b \in DOMAIN queued : b = (IF k < n THEN k ELSE k + 1) /\ queued'[k] = queued[b]
    BY <1>1
  <2>3. a < b
    BY <1>1, <2>1, <2>2
  <2> QED BY <2>1, <2>2, <2>3
<1> QED BY <1>1, <1>4, <1>6, <1>7, Zenon DEF QueueLoses

(***************************************************************************)
(* A call resolved while it is still queued, by the writer that finds it   *)
(* at the front or by the monitor's scan, leaves the rest consistent.      *)
(***************************************************************************)
LEMMA DropPreserves ==
  ASSUME ClientInv, NEW i \in pending, progress[i] = "queued", QueueLoses(i),
         promise' = [promise EXCEPT ![i] = SetValue(@, Cause(i))],
         pending' = pending \ {i}, ~closed,
         UNCHANGED <<sessionVars, nextId, progress, callerVars, asleep, entry, wire>>,
         pc' = pc
  PROVE  /\ promise' \in [Ids -> {"unset", "response", "future_error"} \cup Failures]
         /\ SingleCompletion' /\ NoForgottenPromise' /\ QueueMatchesPending' /\ NoReplay'
         /\ OpeningInv' /\ WriterInv' /\ SleepInv'
<1>0. TypeOK /\ SingleCompletion /\ NoForgottenPromise /\ QueueMatchesPending /\ NoReplay
      /\ OpeningInv /\ WriterInv /\ SleepInv
  BY DEF ClientInv
<1>1. i \in Ids /\ promise[i] = "unset" /\ i < nextId
  BY <1>0 DEF TypeOK, NoForgottenPromise
<1>2. Cause(i) \in {"cancelled", "timeout"}
  BY DEF Cause
<1>3. promise' = [promise EXCEPT ![i] = Cause(i)]
  BY <1>0, <1>1 DEF TypeOK, SetValue
<1>4. promise' \in [Ids -> {"unset", "response", "future_error"} \cup Failures]
  BY <1>0, <1>2, <1>3 DEF TypeOK, Failures, IOFailures
<1>5. SingleCompletion'
  BY <1>0, <1>2, <1>3 DEF TypeOK, SingleCompletion
<1>6. NoForgottenPromise'
  BY <1>0, <1>1, <1>2, <1>3, SMTT(30) DEF TypeOK, NoForgottenPromise, Ids
<1>7. QueueMatchesPending'
  <2>1. {queued'[k] : k \in DOMAIN queued'} = {j \in pending' : progress'[j] = "queued"}
    BY <1>0, Zenon DEF QueueMatchesPending, QueueLoses
  <2> QED BY <1>0, <2>1 DEF QueueMatchesPending, QueueLoses
<1>8. NoReplay'
  BY <1>0 DEF NoReplay
<1>9. OpeningInv'
  BY <1>0, SMTT(30) DEF OpeningInv
<1>10. WriterInv'
  BY <1>0, <1>1, <1>2, <1>3 DEF TypeOK, WriterInv, Sending, QueueLoses, Ids
<1>11. SleepInv'
  <2>1. queued # <<>>
    BY <1>0 DEF TypeOK, QueueMatchesPending
  <2> QED BY <1>0, <2>1 DEF SleepInv, NoLostWakeup
<1> QED BY <1>4, <1>5, <1>6, <1>7, <1>8, <1>9, <1>10, <1>11

\* call_async: an admitted call is pending and queued, behind every older one, and the
\* workers are woken.
LEMMA CallAsyncStep ==
  ASSUME ClientInv, CallAsync PROVE ClientInv'
<1>0. TypeOK /\ SingleCompletion /\ NoForgottenPromise /\ QueueMatchesPending /\ NoReplay
      /\ PlaceInv /\ OpeningInv /\ WriterInv /\ SleepInv /\ TeardownInv
  BY DEF ClientInv
<1>1. nextId \in Ids /\ \A k \in DOMAIN queued : queued[k] \in Ids /\ queued[k] < nextId
  BY <1>0, SMTT(30) DEF CallAsync, Admit, TypeOK, Ids, QueueMatchesPending, NoForgottenPromise
<1>2. /\ queued' \in Seq(Ids) /\ queued' # <<>> /\ Len(queued) \in Nat
      /\ DOMAIN queued = 1 .. Len(queued) /\ DOMAIN queued' = 1 .. (Len(queued) + 1)
      /\ \A k \in 1 .. Len(queued) : queued'[k] = queued[k]
      /\ queued'[Len(queued) + 1] = nextId
  BY <1>0, <1>1, AppendFacts, SMTT(30) DEF CallAsync, Admit, TypeOK
<1>3. TypeOK'
  <2>1. nextId + 1 \in 1 .. MaxId
    BY <1>1, SMTT(30) DEF Ids
  <2> QED BY <1>0, <1>1, <1>2, <2>1 DEF CallAsync, Admit, TypeOK
<1>4. NoForgottenPromise'
  BY <1>0, <1>1 DEF CallAsync, Admit, TypeOK, NoForgottenPromise, OpeningInv, WriterInv, Ids
<1>5. QueueMatchesPending'
  <2>1. progress[nextId] = "queued" /\ nextId \notin pending
    BY <1>0, <1>1 DEF WriterInv, NoForgottenPromise, TypeOK, Ids
  <2>2. {queued'[k] : k \in DOMAIN queued'} = {queued[k] : k \in DOMAIN queued} \cup {nextId}
    BY <1>2, SMTT(30)
  <2>3. {queued'[k] : k \in DOMAIN queued'} = {i \in pending' : progress'[i] = "queued"}
    BY <1>0, <2>1, <2>2, Zenon DEF CallAsync, Admit, QueueMatchesPending
  <2>4. \A j, k \in DOMAIN queued' : j < k => queued'[j] < queued'[k]
    BY <1>0, <1>1, <1>2 DEF QueueMatchesPending
  <2>5. \A i \in pending' : progress'[i] # "queued" => i \in pending /\ i \in Int /\ i < nextId
    BY <1>0, <1>1, <2>1 DEF CallAsync, Admit, NoForgottenPromise, TypeOK, Ids
  <2>6. \A i \in pending', k \in DOMAIN queued' : progress'[i] # "queued" => i < queued'[k]
    BY <1>0, <1>1, <1>2, <2>5 DEF QueueMatchesPending, CallAsync, Admit
  <2> QED BY <2>3, <2>4, <2>6 DEF QueueMatchesPending
<1>6. WriterInv'
  <2>1. \A k \in DOMAIN wire : wire[k] \in Int
    BY <1>0 DEF TypeOK, Ids
  <2>2. \A k \in DOMAIN wire, j \in DOMAIN queued' : wire[k] < queued'[j]
    BY <1>0, <1>1, <1>2, <2>1 DEF WriterInv
  <2>3. Sending => \A k \in DOMAIN queued' : entry < queued'[k]
    BY <1>0, <1>1, <1>2 DEF WriterInv
  <2>4. \A i \in Ids : i >= nextId + 1 => i >= nextId
    BY <1>1 DEF Ids
  <2>5. \A k \in DOMAIN wire : wire[k] < nextId + 1
    BY <1>0, <1>1, <2>1 DEF WriterInv, Ids
  <2>6. Sending => entry \in Ids /\ entry < nextId + 1
    BY <1>0, <1>1, SMTT(30) DEF WriterInv, Ids
  <2> QED BY <1>0, <1>1, <2>2, <2>3, <2>4, <2>5, <2>6 DEF WriterInv, CallAsync, Admit, Sending
<1>7. PlaceInv' /\ OpeningInv' /\ TeardownInv' /\ SingleCompletion' /\ NoReplay'
  BY <1>0 DEF CallAsync, Admit, PlaceInv, OpeningInv, TeardownInv, Gone, SingleCompletion, NoReplay
<1>8. SleepInv'
  BY DEF CallAsync, Admit, SleepInv, NoLostWakeup
<1> QED BY <1>3, <1>4, <1>5, <1>6, <1>7, <1>8 DEF ClientInv

\* The writer resolves a call that it finds cancelled or expired at the front of the
\* queue, and never sends it.
LEMMA WriterDropsStep ==
  ASSUME ClientInv, WriterDrops PROVE ClientInv'
<1>0. TypeOK /\ QueueMatchesPending /\ PlaceInv /\ TeardownInv
  BY DEF ClientInv
<1>1. /\ Len(queued) \in Nat \ {0} /\ Head(queued) = queued[1]
      /\ queued' = EraseAt(queued, 1)
  <2>1. queued \in Seq(Ids) /\ queued # <<>> /\ queued' = Tail(queued)
    BY <1>0 DEF WriterDrops, TypeOK
  <2>2. SubSeq(queued, 1, 0) = <<>>
    BY <2>1
  <2>3. Tail(queued) = SubSeq(queued, 2, Len(queued))
    BY <2>1
  <2> QED BY <2>1, <2>2, <2>3, TailFacts DEF EraseAt
<1>2. queued[1] \in pending /\ progress[queued[1]] = "queued"
  BY <1>0, <1>1, SMTT(30) DEF QueueMatchesPending, TypeOK
<1>3. QueueLoses(queued[1])
  BY <1>0, <1>1, QueueShrinks DEF TypeOK, QueueMatchesPending
<1>4. /\ promise' \in [Ids -> {"unset", "response", "future_error"} \cup Failures]
      /\ SingleCompletion' /\ NoForgottenPromise' /\ QueueMatchesPending' /\ NoReplay'
      /\ OpeningInv' /\ WriterInv' /\ SleepInv'
  BY <1>1, <1>2, <1>3, DropPreserves, Zenon DEF WriterDrops
<1>5. TypeOK'
  <2>1. queued' \in Seq(Ids)
    BY <1>3, Zenon DEF QueueLoses
  <2>2. /\ pending' \subseteq pending
        /\ UNCHANGED <<sessionVars, nextId, progress, callerVars, pc, localVars, asleep, channel, failed, peerVars>>
    BY Zenon DEF WriterDrops
  <2>3. pending' \in SUBSET Ids
    BY <1>0, <2>2 DEF TypeOK
  <2> QED BY <1>0, <1>4, <2>1, <2>2, <2>3, SMTT(30) DEF TypeOK
<1>6. PlaceInv' /\ TeardownInv'
  BY <1>0 DEF WriterDrops, PlaceInv, TeardownInv, Gone
<1> QED BY <1>4, <1>5, <1>6 DEF ClientInv

\* The monitor expires a queued call and erases its queue entry, or ends the session for
\* a started one.
LEMMA MonitorFindsStep ==
  ASSUME ClientInv, MonitorFinds PROVE ClientInv'
<1>0. TypeOK /\ QueueMatchesPending /\ PlaceInv /\ OpeningInv /\ WriterInv /\ TeardownInv
  BY DEF ClientInv
<1>1. PICK i \in Due :
        \/ /\ progress[i] = "queued"
           /\ promise' = [promise EXCEPT ![i] = SetValue(@, Cause(i))]
           /\ pending' = pending \ {i}
           /\ \E n \in DOMAIN queued : queued[n] = i /\ queued' = EraseAt(queued, n)
           /\ cursor' = i + 1
           /\ UNCHANGED <<closed, shutdown, opening, openingDone, pc, asleep>>
        \/ /\ progress[i] # "queued"
           /\ FailLocked("disconnected", i, Cause(i))
           /\ cursor' = 0
           /\ Goto("monitor", "done")
  BY SMTT(30) DEF MonitorFinds
<1>2. pc["monitor"] = "scan" /\ ~closed /\ i \in pending /\ i \in Ids
  BY <1>0 DEF MonitorFinds, PlaceInv, Due, TypeOK
<1>3. UNCHANGED <<started, connected, nextId, progress, callerVars, ret, entry, channel, failed, peerVars>>
  BY DEF MonitorFinds
<1>4. CASE progress[i] = "queued"
  <2>1. /\ promise' = [promise EXCEPT ![i] = SetValue(@, Cause(i))]
        /\ pending' = pending \ {i}
        /\ \E n \in DOMAIN queued : queued[n] = i /\ queued' = EraseAt(queued, n)
        /\ cursor' = i + 1
        /\ UNCHANGED <<closed, shutdown, opening, openingDone, pc, asleep>>
    BY <1>1, <1>4, Zenon
  <2>2. PICK n \in 1 .. Len(queued) : queued[n] = i /\ queued' = EraseAt(queued, n)
    BY <1>0, <2>1, SMTT(30) DEF TypeOK
  <2>3. QueueLoses(i)
    BY <1>0, <2>2, QueueShrinks DEF TypeOK, QueueMatchesPending
  <2>4. /\ promise' \in [Ids -> {"unset", "response", "future_error"} \cup Failures]
        /\ SingleCompletion' /\ NoForgottenPromise' /\ QueueMatchesPending' /\ NoReplay'
        /\ OpeningInv' /\ WriterInv' /\ SleepInv'
    BY <1>2, <1>3, <1>4, <2>1, <2>3, DropPreserves, Zenon
  <2>5. cursor' \in 0 .. MaxId
    BY <1>2, <2>1, SMTT(30) DEF Ids
  <2>6. TypeOK'
    <3>1. queued' \in Seq(Ids)
      BY <2>3, Zenon DEF QueueLoses
    <3>2. pending' \in SUBSET Ids
      BY <1>0, <2>1 DEF TypeOK
    <3>3. promise' \in [Ids -> {"unset", "response", "future_error"} \cup Failures]
      BY <2>4
    <3>4. UNCHANGED <<closed, shutdown, opening, openingDone, pc, asleep>>
      BY <2>1, SMTT(30)
    <3> QED BY <1>0, <1>3, <2>5, <3>1, <3>2, <3>3, <3>4 DEF TypeOK
  <2>7. PlaceInv' /\ TeardownInv'
    BY <1>0, <1>3, <2>1 DEF PlaceInv, TeardownInv, Gone
  <2> QED BY <2>4, <2>6, <2>7 DEF ClientInv
<1>5. CASE progress[i] # "queued"
  <2>0. cursor' = 0 /\ pc' = [pc EXCEPT !["monitor"] = "done"]
    BY <1>1, <1>5, SMTT(30)
  <2>1. SessionEnded
    BY <1>0, <1>1, <1>3, <1>5, FailLockedEffect, Zenon DEF TypeOK, Cause, Failures, IOFailures
  <2>2. SingleCompletion' /\ NoForgottenPromise' /\ QueueMatchesPending' /\ NoReplay'
        /\ WriterInv' /\ SleepInv'
    BY <1>0, <1>3, <2>0, <2>1, EndPreserves, SMTT(30) DEF TypeOK, Threads, Workers
  <2>3. TypeOK'
    BY <1>0, <1>3, <2>0, <2>1, SMTT(30) DEF SessionEnded, TypeOK, Places, Threads, Workers
  <2>4. PlaceInv'
    BY <1>0, <1>2, <1>3, <2>0, <2>1, SMTT(30) DEF SessionEnded, TypeOK, PlaceInv, Workers, Threads
  <2>5. OpeningInv'
    BY <1>0, <1>2, <1>3, <2>0, <2>1, SMTT(30) DEF SessionEnded, TypeOK, OpeningInv, PlaceInv, Threads, Workers
  <2>6. TeardownInv'
    BY <1>0, <1>2, <1>3, <2>0, <2>1 DEF SessionEnded, TypeOK, TeardownInv, Gone, Threads, Workers
  <2> QED BY <2>2, <2>3, <2>4, <2>5, <2>6 DEF ClientInv
<1> QED BY <1>4, <1>5

\* The writer takes the front of the queue and marks it started in one critical section.
LEMMA WriterTakesStep ==
  ASSUME ClientInv, WriterTakes PROVE ClientInv'
<1>0. TypeOK /\ SingleCompletion /\ NoForgottenPromise /\ QueueMatchesPending /\ NoReplay
      /\ PlaceInv /\ OpeningInv /\ WriterInv /\ SleepInv /\ TeardownInv
  BY DEF ClientInv
<1>1. /\ Len(queued) \in Nat \ {0} /\ Head(queued) = queued[1] /\ DOMAIN queued = 1 .. Len(queued)
      /\ queued' = EraseAt(queued, 1)
  <2>1. queued \in Seq(Ids) /\ queued # <<>> /\ queued' = Tail(queued)
    BY <1>0, SMTT(30) DEF WriterTakes, TypeOK
  <2>2. SubSeq(queued, 1, 0) = <<>>
    BY <2>1
  <2>3. Tail(queued) = SubSeq(queued, 2, Len(queued))
    BY <2>1
  <2> QED BY <2>1, <2>2, <2>3, TailFacts, SMTT(30) DEF EraseAt
<1> DEFINE i == queued[1]
<1>2. i \in pending /\ progress[i] = "queued" /\ i \in Ids /\ i < nextId
  BY <1>0, <1>1, SMTT(30) DEF QueueMatchesPending, TypeOK, NoForgottenPromise
<1>3. QueueLoses(i)
  BY <1>0, <1>1, QueueShrinks, SMTT(30) DEF TypeOK, QueueMatchesPending
<1>4. \A k \in DOMAIN queued' : i < queued'[k]
  <2>1. \A k \in DOMAIN queued : k # 1 => i < queued[k]
    BY <1>0, <1>1 DEF QueueMatchesPending
  <2> QED BY <1>3, <2>1 DEF QueueLoses
<1> HIDE DEF i
<1>5. /\ entry' = i /\ progress' = [progress EXCEPT ![i] = "writing"]
      /\ pc' = [pc EXCEPT !["writer"] = "send"]
      /\ pc["writer"] = "loop" /\ ~closed /\ "writer" \notin asleep
      /\ UNCHANGED <<sessionVars, nextId, pending, promise, callerVars, ret, cursor, asleep, channel,
                     failed, peerVars>>
  BY <1>1, SMTT(30) DEF WriterTakes, i
<1>6. TypeOK'
  <2>1. i \in 0 .. MaxId
    BY <1>2 DEF Ids
  <2> QED BY <1>0, <1>2, <1>3, <1>5, <2>1 DEF TypeOK, QueueLoses, Places, Threads, Workers
<1>7. QueueMatchesPending'
  <2>1. {queued'[k] : k \in DOMAIN queued'} = {j \in pending' : progress'[j] = "queued"}
    BY <1>0, <1>2, <1>3, <1>5, ZenonT(40) DEF QueueMatchesPending, QueueLoses, TypeOK
  <2>2. \A j \in pending', k \in DOMAIN queued' : progress'[j] # "queued" => j < queued'[k]
    <3>1. /\ \A j \in pending, k \in DOMAIN queued : progress[j] # "queued" => j < queued[k]
          /\ progress \in [Ids -> {"queued", "writing", "sent"}] /\ pending \subseteq Ids
      BY <1>0, Zenon DEF QueueMatchesPending, TypeOK
    <3>2. \A k \in DOMAIN queued' : \E m \in DOMAIN queued : queued'[k] = queued[m]
      BY <1>3 DEF QueueLoses
    <3>3. pending' = pending /\ \A j \in Ids : j # i => progress'[j] = progress[j]
      BY <1>5, <3>1
    <3> QED BY <1>4, <3>1, <3>2, <3>3, Zenon
  <2> QED BY <1>3, <2>1, <2>2 DEF QueueMatchesPending, QueueLoses
<1>8. WriterInv'
  <2>1. \A k \in DOMAIN wire' : wire'[k] < i /\ wire'[k] < nextId
    BY <1>0, <1>1, <1>5, SMTT(30) DEF WriterInv, i
  <2>2. \A k \in DOMAIN wire', j \in DOMAIN queued' : wire'[k] < queued'[j]
    BY <1>0, <1>3, <1>5, SMTT(30) DEF WriterInv, QueueLoses
  <2>3. \A j \in Ids : j >= nextId => progress'[j] = "queued" /\ promise'[j] = "unset"
    BY <1>0, <1>2, <1>5, SMTT(30) DEF WriterInv, TypeOK, Ids
  <2> QED BY <1>0, <1>2, <1>4, <1>5, <2>1, <2>2, <2>3, SMTT(30) DEF WriterInv, Sending, TypeOK
<1>9. NoReplay'
  BY <1>0, <1>2, <1>5, SMTT(30) DEF NoReplay, TypeOK
<1>10. SingleCompletion' /\ NoForgottenPromise' /\ TeardownInv'
  BY <1>0, <1>5, SMTT(30) DEF SingleCompletion, NoForgottenPromise, TeardownInv, Gone, TypeOK, Threads, Workers, PlaceInv
<1>11. PlaceInv'
  BY <1>0, <1>5, SMTT(30) DEF PlaceInv, TypeOK, Threads, Workers
<1>12. OpeningInv' /\ SleepInv'
  BY <1>0, <1>5 DEF OpeningInv, SleepInv, NoLostWakeup, TypeOK, Threads, Workers
<1> QED BY <1>6, <1>7, <1>8, <1>9, <1>10, <1>11, <1>12 DEF ClientInv
=============================================================================
