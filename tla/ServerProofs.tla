---------------------------- MODULE ServerProofs ----------------------------
(***************************************************************************)
(* For any number of slots, clients and requests: what the domain gate     *)
(* guarantees, that active_ counts the sessions, and that a stopped server *)
(* has released everything.                                                *)
(***************************************************************************)
EXTENDS PipeServer, FiniteSetTheorems, TLAPS

Types ==
  /\ shutdown \in BOOLEAN
  /\ pc \in [Workers -> Places] /\ gate \in Workers \cup {Nobody}
  /\ expired \in [Workers -> BOOLEAN] /\ lapsed \in [Workers -> BOOLEAN]
  /\ draft \in [Workers -> Nat] /\ next \in Nat /\ store \in [Workers -> SUBSET Nat]

\* The gate names the one worker that is between acquiring and releasing it.
GateExact == \A w \in Workers : pc[w] \in InDomain <=> gate = w

\* Every retained identity was drawn, and what a worker has read is still the source's
\* value when it writes it back.
Drawn ==
  /\ \A w \in Workers : \A i \in store[w] : i < next
  /\ \A w \in Workers : pc[w] = "executed" => draft[w] = next

\* A lapse before the gate was won is still visible to the recheck after it.
LapseSeen == \A w \in Workers : pc[w] = "admitted" /\ lapsed[w] => expired[w] \/ shutdown

\* The inductive invariant.
GateInv == Types /\ GateExact /\ Drawn /\ LapseSeen /\ IdentitiesDistinct /\ LapsedNeverExecutes

\* A step of a worker outside the gate that touches nothing the gate guards.
Outside(w, place) ==
  /\ pc[w] \notin InDomain /\ place \in Places \ InDomain
  /\ pc' = [pc EXCEPT ![w] = place]
  /\ UNCHANGED <<gate, domainVars, expired, lapsed>>
  /\ shutdown' \in BOOLEAN /\ (shutdown => shutdown')

\* Such a step keeps the invariant: the stop signal is never withdrawn.
LEMMA OutsidePreserves ==
  ASSUME GateInv, NEW w \in Workers, NEW place, Outside(w, place)
  PROVE  GateInv'
<1> USE DEF Outside, GateInv, Types, domainVars
<1>1. Types'
  OBVIOUS
<1>2. GateExact'
  BY DEF GateExact
<1>3. Drawn'
  BY DEF Drawn, InDomain
<1>4. LapseSeen'
  BY DEF LapseSeen, InDomain
<1>5. IdentitiesDistinct'
  BY DEF IdentitiesDistinct
<1>6. LapsedNeverExecutes'
  BY DEF LapsedNeverExecutes, InDomain
<1> QED BY <1>1, <1>2, <1>3, <1>4, <1>5, <1>6

\* Nobody holds the gate before the first worker runs.
LEMMA InitHolds == Init => GateInv
<1> SUFFICES ASSUME Init PROVE GateInv
  OBVIOUS
<1>1. Types
  BY Zenon DEF Init, Types, Places, InSession, InRequest
<1>2. GateExact
  BY DEF Init, GateExact, InDomain, Workers, Nobody
<1>3. Drawn /\ LapseSeen /\ IdentitiesDistinct /\ LapsedNeverExecutes
  BY DEF Init, Drawn, LapseSeen, IdentitiesDistinct, LapsedNeverExecutes
<1> QED BY <1>1, <1>2, <1>3 DEF GateInv

\* Launching and stopping move no worker, except that a launch starts one.
LEMMA ControllerPreserves ==
  ASSUME GateInv, Controller
  PROVE  GateInv'
<1>1. CASE SpawnWorker
  <2>1. PICK w \in Unborn : Goto(w, "top")
    BY <1>1 DEF SpawnWorker
  <2>2. Outside(w, "top")
    BY <1>1, <2>1, Zenon DEF SpawnWorker, Goto, Unborn, Outside, GateInv, Types, histories, Places, InDomain,
                      InSession, InRequest
  <2> QED BY <2>2, OutsidePreserves DEF Unborn
<1>2. CASE CreateInstance \/ LaunchFails \/ RequestStop \/ Stop \/ StopReturns
  BY <1>2, Zenon DEF CreateInstance, LaunchFails, RequestStop, Stop, StopReturns, GateInv, Types, GateExact,
              Drawn, LapseSeen, IdentitiesDistinct, LapsedNeverExecutes, domainVars, histories
<1> QED BY <1>1, <1>2 DEF Controller

\* Accepting, receiving, queueing and responding happen outside the gate.
LEMMA OutsideSteps ==
  ASSUME GateInv, NEW w \in Workers,
         \/ RunTop(w) \/ AcceptCancelled(w) \/ AcceptFails(w)
         \/ ReceiveFrame(w) \/ ReceiveFails(w) \/ QueueTop(w) \/ SliceEnds(w)
         \/ RespondTop(w) \/ Responds(w) \/ RespondFails(w) \/ StreamBreaks(w) \/ Recycle(w)
  PROVE  GateInv'
<1> SUFFICES \E place : Outside(w, place)
  BY OutsidePreserves
<1> USE DEF Outside, Goto, GateInv, Types, Places, InSession, InRequest, InDomain, histories
<1>1. CASE RunTop(w)
  <2>1. Outside(w, "done") \/ Outside(w, "accepting")
    BY <1>1, Zenon DEF RunTop
  <2> QED BY <2>1
<1>2. CASE AcceptCancelled(w)
  <2>1. Outside(w, "done")
    BY <1>2 DEF AcceptCancelled
  <2> QED BY <2>1, Zenon
<1>3. CASE AcceptFails(w)
  <2>1. Outside(w, "top") \/ Outside(w, "done")
    BY <1>3, Zenon DEF AcceptFails
  <2> QED BY <2>1
<1>4. CASE ReceiveFrame(w)
  <2>1. Outside(w, "closing") \/ Outside(w, "queued")
    BY <1>4 DEF ReceiveFrame, EndSession
  <2> QED BY <2>1
<1>5. CASE ReceiveFails(w)
  <2>1. Outside(w, "closing")
    BY <1>5 DEF ReceiveFails, EndSession
  <2> QED BY <2>1, Zenon
<1>6. CASE QueueTop(w)
  <2>1. Outside(w, "locking") \/ Outside(w, "closing")
    BY <1>6 DEF QueueTop, EndSession
  <2> QED BY <2>1
<1>7. CASE SliceEnds(w)
  <2>1. Outside(w, "queued")
    BY <1>7 DEF SliceEnds
  <2> QED BY <2>1, Zenon
<1>8. CASE RespondTop(w)
  <2>1. Outside(w, "sending") \/ Outside(w, "closing")
    BY <1>8 DEF RespondTop, EndSession
  <2> QED BY <2>1
<1>9. CASE Responds(w)
  <2>1. Outside(w, "serving")
    BY <1>9 DEF Responds
  <2> QED BY <2>1, Zenon
<1>10. CASE RespondFails(w)
  <2>1. Outside(w, "closing")
    BY <1>10 DEF RespondFails, EndSession
  <2> QED BY <2>1, Zenon
<1>11. CASE StreamBreaks(w)
  <2>1. Outside(w, "closing")
    BY <1>11 DEF StreamBreaks, EndSession
  <2> QED BY <2>1, Zenon
<1>12. CASE Recycle(w)
  <2>1. Outside(w, "top")
    BY <1>12 DEF Recycle
  <2> QED BY <2>1, Zenon
<1> QED BY <1>1, <1>2, <1>3, <1>4, <1>5, <1>6, <1>7, <1>8, <1>9, <1>10, <1>11, <1>12

\* A new request starts with a new deadline.
LEMMA ServeTopPreserves ==
  ASSUME GateInv, NEW w \in Workers, ServeTop(w)
  PROVE  GateInv'
<1> USE DEF ServeTop, GateInv, Types, Goto, domainVars, histories
<1>1. Types'
  BY DEF Places, InSession, InRequest
<1>2. GateExact'
  BY DEF GateExact, InDomain, Workers, Nobody
<1>3. Drawn'
  BY DEF Drawn, GateExact, InDomain
<1>4. LapseSeen'
  BY DEF LapseSeen
<1>5. IdentitiesDistinct'
  BY DEF IdentitiesDistinct, Drawn
<1>6. LapsedNeverExecutes'
  BY DEF LapsedNeverExecutes, LapseSeen
<1> QED BY <1>1, <1>2, <1>3, <1>4, <1>5, <1>6

\* A new session starts with an empty store.
LEMMA AcceptsPreserves ==
  ASSUME GateInv, NEW w \in Workers, Accepts(w)
  PROVE  GateInv'
<1> USE DEF Accepts, GateInv, Types, Goto, domainVars, histories
<1>1. Types'
  BY DEF Places, InSession, InRequest
<1>2. GateExact'
  BY DEF GateExact, InDomain, Workers, Nobody
<1>3. Drawn'
  BY DEF Drawn, GateExact, InDomain
<1>4. LapseSeen'
  BY DEF LapseSeen
<1>5. IdentitiesDistinct'
  BY DEF IdentitiesDistinct, Drawn
<1>6. LapsedNeverExecutes'
  BY DEF LapsedNeverExecutes, LapseSeen
<1> QED BY <1>1, <1>2, <1>3, <1>4, <1>5, <1>6

\* Winning the gate: nobody else was inside.
LEMMA TryLockPreserves ==
  ASSUME GateInv, NEW w \in Workers, TryLock(w)
  PROVE  GateInv'
<1> USE DEF TryLock, GateInv, Types, Goto, domainVars, histories
<1>1. Types'
  BY DEF Places, InSession, InRequest
<1>2. GateExact'
  BY DEF GateExact, InDomain, Workers, Nobody
<1>3. Drawn'
  BY DEF Drawn, GateExact, InDomain
<1>4. LapseSeen'
  BY DEF LapseSeen
<1>5. IdentitiesDistinct'
  BY DEF IdentitiesDistinct, Drawn
<1>6. LapsedNeverExecutes'
  BY DEF LapsedNeverExecutes, LapseSeen
<1> QED BY <1>1, <1>2, <1>3, <1>4, <1>5, <1>6

\* The recheck lets a request through only when neither the stop signal nor the deadline
\* has come, so in particular not before the gate was won.
LEMMA RecheckPreserves ==
  ASSUME GateInv, NEW w \in Workers, Recheck(w)
  PROVE  GateInv'
<1> USE DEF Recheck, EndSession, Preflight, GateInv, Types, Goto, domainVars, histories
<1>1. Types'
  BY DEF Places, InSession, InRequest
<1>2. GateExact'
  <2>1. CASE Preflight(w) = "ok"
    <3>1. gate' = gate /\ pc' = [pc EXCEPT ![w] = "executing"] /\ pc[w] = "admitted"
      BY <2>1
    <3> QED BY <3>1 DEF GateExact, InDomain
  <2>2. CASE Preflight(w) # "ok"
    <3>1. gate' = Nobody /\ pc' = [pc EXCEPT ![w] = "closing"] /\ pc[w] = "admitted"
      BY <2>2
    <3> QED BY <3>1 DEF GateExact, InDomain, Workers, Nobody
  <2> QED BY <2>1, <2>2
<1>3. Drawn'
  BY DEF Drawn, GateExact, InDomain
<1>4. LapseSeen'
  BY DEF LapseSeen
<1>5. IdentitiesDistinct'
  BY DEF IdentitiesDistinct, Drawn
<1>6. LapsedNeverExecutes'
  BY DEF LapsedNeverExecutes, LapseSeen
<1> QED BY <1>1, <1>2, <1>3, <1>4, <1>5, <1>6

\* A rejected request leaves the domain layer alone.
LEMMA RejectPreserves ==
  ASSUME GateInv, NEW w \in Workers, Reject(w)
  PROVE  GateInv'
<1> USE DEF Reject, GateInv, Types, Goto, domainVars, histories
<1>1. Types'
  BY DEF Places, InSession, InRequest
<1>2. GateExact'
  BY DEF GateExact, InDomain, Workers, Nobody
<1>3. Drawn'
  BY DEF Drawn, GateExact, InDomain
<1>4. LapseSeen'
  BY DEF LapseSeen
<1>5. IdentitiesDistinct'
  BY DEF IdentitiesDistinct, Drawn
<1>6. LapsedNeverExecutes'
  BY DEF LapsedNeverExecutes, LapseSeen
<1> QED BY <1>1, <1>2, <1>3, <1>4, <1>5, <1>6

\* Drawing an identity: the value read is the source's.
LEMMA ReadsPreserves ==
  ASSUME GateInv, NEW w \in Workers, ExecuteReads(w)
  PROVE  GateInv'
<1> USE DEF ExecuteReads, GateInv, Types, Goto, domainVars, histories
<1>1. Types'
  BY DEF Places, InSession, InRequest
<1>2. GateExact'
  BY DEF GateExact, InDomain, Workers, Nobody
<1>3. Drawn'
  BY DEF Drawn, GateExact, InDomain
<1>4. LapseSeen'
  BY DEF LapseSeen
<1>5. IdentitiesDistinct'
  BY DEF IdentitiesDistinct, Drawn
<1>6. LapsedNeverExecutes'
  BY DEF LapsedNeverExecutes, LapseSeen
<1> QED BY <1>1, <1>2, <1>3, <1>4, <1>5, <1>6

\* Retaining a record: its identity is above every retained one.
LEMMA WritesPreserves ==
  ASSUME GateInv, NEW w \in Workers, ExecuteWrites(w)
  PROVE  GateInv'
<1> USE DEF ExecuteWrites, GateInv, Types, Goto, domainVars, histories
<1>1. Types'
  BY DEF Places, InSession, InRequest
<1>2. GateExact'
  BY DEF GateExact, InDomain, Workers, Nobody
<1>3. Drawn'
  BY DEF Drawn, GateExact, InDomain
<1>4. LapseSeen'
  BY DEF LapseSeen
<1>5. IdentitiesDistinct'
  BY DEF IdentitiesDistinct, Drawn
<1>6. LapsedNeverExecutes'
  BY DEF LapsedNeverExecutes, LapseSeen
<1> QED BY <1>1, <1>2, <1>3, <1>4, <1>5, <1>6

\* A session that ends takes the gate to clear its store.
LEMMA CloseLocksPreserves ==
  ASSUME GateInv, NEW w \in Workers, CloseLocks(w)
  PROVE  GateInv'
<1> USE DEF CloseLocks, GateInv, Types, Goto, domainVars, histories
<1>1. Types'
  BY DEF Places, InSession, InRequest
<1>2. GateExact'
  BY DEF GateExact, InDomain, Workers, Nobody
<1>3. Drawn'
  BY DEF Drawn, GateExact, InDomain
<1>4. LapseSeen'
  BY DEF LapseSeen
<1>5. IdentitiesDistinct'
  BY DEF IdentitiesDistinct, Drawn
<1>6. LapsedNeverExecutes'
  BY DEF LapsedNeverExecutes, LapseSeen
<1> QED BY <1>1, <1>2, <1>3, <1>4, <1>5, <1>6

\* Clearing the store and releasing the gate.
LEMMA CloseClearsPreserves ==
  ASSUME GateInv, NEW w \in Workers, CloseClears(w)
  PROVE  GateInv'
<1> USE DEF CloseClears, GateInv, Types, Goto, domainVars, histories
<1>1. Types'
  BY DEF Places, InSession, InRequest
<1>2. GateExact'
  BY DEF GateExact, InDomain, Workers, Nobody
<1>3. Drawn'
  BY DEF Drawn, GateExact, InDomain
<1>4. LapseSeen'
  BY DEF LapseSeen
<1>5. IdentitiesDistinct'
  BY DEF IdentitiesDistinct, Drawn
<1>6. LapsedNeverExecutes'
  BY DEF LapsedNeverExecutes, LapseSeen
<1> QED BY <1>1, <1>2, <1>3, <1>4, <1>5, <1>6

\* Clients and the clock: a deadline that has passed stays passed.
LEMMA OthersPreserve ==
  ASSUME GateInv, NEW w \in Workers, ClientSends(w) \/ ClientLeaves(w) \/ Expire(w)
  PROVE  GateInv'
<1> USE DEF ClientSends, ClientLeaves, Expire, GateInv, Types, Goto, domainVars, histories
<1>1. Types'
  BY Zenon DEF Places, InSession, InRequest
<1>2. GateExact'
  BY Zenon DEF GateExact, InDomain, Workers, Nobody
<1>3. Drawn'
  BY DEF Drawn, GateExact, InDomain
<1>4. LapseSeen'
  BY Zenon DEF LapseSeen
<1>5. IdentitiesDistinct'
  BY DEF IdentitiesDistinct, Drawn
<1>6. LapsedNeverExecutes'
  BY DEF LapsedNeverExecutes, LapseSeen
<1> QED BY <1>1, <1>2, <1>3, <1>4, <1>5, <1>6

\* Every step of the controller, a worker, a client or the clock keeps the invariant.
THEOREM GateInvariance == Spec => []GateInv
<1>1. GateInv /\ [Next]_vars => GateInv'
  <2> SUFFICES ASSUME GateInv, [Next]_vars PROVE GateInv'
    OBVIOUS
  <2>1. CASE UNCHANGED vars
    BY <2>1 DEF vars, domainVars, histories, GateInv, Types, GateExact, Drawn, LapseSeen,
                IdentitiesDistinct, LapsedNeverExecutes
  <2>2. CASE Controller
    BY <2>2, ControllerPreserves
  <2>3. ASSUME NEW w \in Workers, Worker(w) \/ Environment(w) PROVE GateInv'
    BY <2>3, OutsideSteps, ServeTopPreserves, AcceptsPreserves, TryLockPreserves, RecheckPreserves,
       RejectPreserves, ReadsPreserves, WritesPreserves, CloseLocksPreserves, CloseClearsPreserves,
       OthersPreserve DEF Worker, Environment
  <2> QED BY <2>1, <2>2, <2>3 DEF Next
<1> QED BY InitHolds, <1>1, PTL DEF Spec

\* No two sessions ever retain the same identity, whatever the number of workers.
THEOREM IdentitySafety == Spec => []IdentitiesDistinct
<1>1. GateInv => IdentitiesDistinct
  BY DEF GateInv
<1> QED BY GateInvariance, <1>1, PTL

\* No request that lapsed while it waited for the gate is executed.
THEOREM LapseSafety == Spec => []LapsedNeverExecutes
<1>1. GateInv => LapsedNeverExecutes
  BY DEF GateInv
<1> QED BY GateInvariance, <1>1, PTL

-----------------------------------------------------------------------------
(* The counting of sessions, and what stop() leaves behind. *)

Statistics == [connections : Nat, completed : Nat, protocol : Nat, io : Nat, active : Int]

Sessions == {w \in Workers : pc[w] \in InSession}
Live == {w \in Workers : pc[w] \notin {"unborn", "done"}}

\* Workers run only over a complete set of pipe instances, and stop() has returned only
\* once they have all left.
Anchored ==
  /\ Live # {} => pipes = Slots
  /\ phase = "stopped" => Live = {}

\* A worker outside a session, or about to leave it, retains nothing.
Cleared == \A w \in Workers : pc[w] \notin InSession \/ pc[w] = "recycling" => store[w] = {}

\* The inductive invariant, relative to GateInv.
SessionInv == stats \in Statistics /\ ActiveExact /\ Anchored /\ Cleared

\* A step of worker w to a place on the same side of the session's boundary.
Within(w, place) ==
  /\ w \in Live /\ place \in Places /\ (place \in InSession <=> w \in Sessions)
  /\ pc' = [pc EXCEPT ![w] = place]
  /\ stats' \in Statistics /\ stats'.active = stats.active
  /\ \A v \in Workers \ {w} : store'[v] = store[v]
  /\ place = "recycling" => store'[w] = {}
  /\ place \notin InSession => store'[w] = store[w]
  /\ UNCHANGED controllerVars

\* Such a step changes no count.
LEMMA WithinPreserves ==
  ASSUME Types, SessionInv, NEW w \in Workers, NEW place, Within(w, place)
  PROVE  SessionInv'
<1> USE DEF Within, Types, SessionInv
<1>1. Sessions' = Sessions
  BY DEF Sessions
<1>2. ActiveExact'
  BY <1>1, Zenon DEF ActiveExact, Sessions
<1>3. Anchored'
  <2>1. Live' \subseteq Live /\ pipes' = pipes /\ phase' = phase /\ Live # {}
    BY DEF Live, controllerVars
  <2> QED BY <2>1 DEF Anchored
<1>4. Cleared'
  BY DEF Cleared, Sessions
<1> QED BY <1>2, <1>3, <1>4

\* The set of slots is finite.
LEMMA SessionsFinite == IsFiniteSet(Sessions)
<1>1. IsFiniteSet(Workers)
  BY ServerAssumption, FS_Interval DEF Workers
<1> QED BY <1>1, FS_Subset DEF Sessions

\* Nothing is counted, retained or anchored before the first worker runs.
LEMMA SessionInit == Init => SessionInv
<1> SUFFICES ASSUME Init PROVE SessionInv
  OBVIOUS
<1>1. Sessions = {} /\ Live = {}
  BY DEF Init, Sessions, Live, InSession, InRequest
<1>2. stats \in Statistics
  BY DEF Init, NoStatistics, Statistics
<1>3. stats.active = Cardinality(Sessions)
  BY <1>1, FS_EmptySet DEF Init, NoStatistics
<1>4. ActiveExact
  BY <1>3 DEF ActiveExact, Sessions
<1>5. Anchored
  BY <1>1 DEF Anchored, Init
<1>6. Cleared
  BY DEF Cleared, Init
<1> QED BY <1>2, <1>4, <1>5, <1>6 DEF SessionInv

\* record() never touches active_.
LEMMA RecordedKeepsActive ==
  ASSUME stats \in Statistics, NEW kind
  PROVE  Recorded(kind) \in Statistics /\ Recorded(kind).active = stats.active
BY DEF Recorded, Statistics

\* What the increments and decrements of the counters give.
LEMMA Tallies ==
  ASSUME NEW s \in Statistics
  PROVE  /\ [s EXCEPT !.protocol = @ + 1] \in Statistics /\ [s EXCEPT !.protocol = @ + 1].active = s.active
         /\ [s EXCEPT !.completed = @ + 1] \in Statistics /\ [s EXCEPT !.completed = @ + 1].active = s.active
         /\ [s EXCEPT !.connections = @ + 1, !.active = @ + 1] \in Statistics
         /\ [s EXCEPT !.connections = @ + 1, !.active = @ + 1].active = s.active + 1
         /\ [s EXCEPT !.active = @ - 1] \in Statistics
         /\ [s EXCEPT !.active = @ - 1].active = s.active - 1
<1> s = [connections |-> s.connections, completed |-> s.completed, protocol |-> s.protocol,
         io |-> s.io, active |-> s.active]
  BY DEF Statistics
<1> /\ s.connections \in Nat /\ s.completed \in Nat /\ s.protocol \in Nat /\ s.io \in Nat
    /\ s.active \in Int
  BY DEF Statistics
<1>1. [s EXCEPT !.protocol = @ + 1] \in Statistics /\ [s EXCEPT !.protocol = @ + 1].active = s.active
  BY DEF Statistics
<1>2. [s EXCEPT !.completed = @ + 1] \in Statistics /\ [s EXCEPT !.completed = @ + 1].active = s.active
  BY DEF Statistics
<1>3. /\ [s EXCEPT !.connections = @ + 1, !.active = @ + 1] \in Statistics
      /\ [s EXCEPT !.connections = @ + 1, !.active = @ + 1].active = s.active + 1
  <2>1. PICK more : more = [s EXCEPT !.connections = @ + 1, !.active = @ + 1]
    OBVIOUS
  <2>2. more = [connections |-> s.connections + 1, completed |-> s.completed, protocol |-> s.protocol,
                io |-> s.io, active |-> s.active + 1]
    BY <2>1, Zenon
  <2>3. more \in Statistics
    BY <2>2 DEF Statistics
  <2>4. more.active = s.active + 1
    BY <2>2
  <2> QED BY <2>1, <2>3, <2>4
<1>4. [s EXCEPT !.active = @ - 1] \in Statistics /\ [s EXCEPT !.active = @ - 1].active = s.active - 1
  BY DEF Statistics
<1> QED BY <1>1, <1>2, <1>3, <1>4, Zenon

\* Every step of a worker but the two that open and close a session stays on its side.
LEMMA WithinSteps ==
  ASSUME Types, SessionInv, NEW w \in Workers,
         \/ RunTop(w) \/ AcceptCancelled(w) \/ AcceptFails(w) \/ ServeTop(w)
         \/ ReceiveFrame(w) \/ ReceiveFails(w) \/ QueueTop(w) \/ TryLock(w) \/ SliceEnds(w)
         \/ Recheck(w) \/ Reject(w) \/ ExecuteReads(w) \/ ExecuteWrites(w)
         \/ RespondTop(w) \/ Responds(w) \/ RespondFails(w) \/ StreamBreaks(w)
         \/ CloseLocks(w) \/ CloseClears(w)
  PROVE  SessionInv'
<1> SUFFICES \E place : Within(w, place)
  BY WithinPreserves
<1> stats \in Statistics
  BY SMTT(30) DEF SessionInv
<1> USE DEF Within, Types, Goto, Live, Sessions, Places, InSession, InRequest, domainVars
<1>1. CASE RunTop(w)
  <2>1. Within(w, "done") \/ Within(w, "accepting")
    BY <1>1, Zenon DEF RunTop
  <2> QED BY <2>1, Zenon
<1>2. CASE AcceptCancelled(w)
  <2>1. Within(w, "done")
    BY <1>2, SMTT(30) DEF AcceptCancelled
  <2> QED BY <2>1, Zenon
<1>3. CASE AcceptFails(w)
  <2>1. Within(w, "top") \/ Within(w, "done")
    BY <1>3, RecordedKeepsActive, ZenonT(40) DEF AcceptFails
  <2> QED BY <2>1, Zenon
<1>4. CASE ServeTop(w)
  <2>1. Within(w, "closing") \/ Within(w, "receiving")
    BY <1>4, Zenon DEF ServeTop
  <2> QED BY <2>1, Zenon
<1>5. CASE ReceiveFrame(w)
  <2>1. Within(w, "closing") \/ Within(w, "queued")
    BY <1>5, RecordedKeepsActive, SMTT(30) DEF ReceiveFrame, EndSession
  <2> QED BY <2>1, Zenon
<1>6. CASE ReceiveFails(w)
  <2>1. Within(w, "closing")
    BY <1>6, RecordedKeepsActive, ZenonT(40) DEF ReceiveFails, EndSession
  <2> QED BY <2>1, Zenon
<1>7. CASE QueueTop(w)
  <2>1. Within(w, "locking") \/ Within(w, "closing")
    BY <1>7, RecordedKeepsActive, SMTT(30) DEF QueueTop, EndSession
  <2> QED BY <2>1, Zenon
<1>8. CASE TryLock(w)
  <2>1. Within(w, "admitted")
    BY <1>8 DEF TryLock
  <2> QED BY <2>1, Zenon
<1>9. CASE SliceEnds(w)
  <2>1. Within(w, "queued")
    BY <1>9 DEF SliceEnds
  <2> QED BY <2>1, Zenon
<1>10. CASE Recheck(w)
  <2>1. Within(w, "executing") \/ Within(w, "closing")
    BY <1>10, RecordedKeepsActive, SMTT(30) DEF Recheck, EndSession
  <2> QED BY <2>1, Zenon
<1>11. CASE Reject(w)
  <2>1. Within(w, "closing") \/ Within(w, "responding")
    <3>1. stats' \in Statistics /\ stats'.active = stats.active
      <4>1. PICK before \in Statistics : before = stats
        OBVIOUS
      <4> QED BY <1>11, <4>1, Tallies, Zenon DEF Reject
    <3> QED BY <1>11, <3>1, Zenon DEF Reject
  <2> QED BY <2>1, Zenon
<1>12. CASE ExecuteReads(w)
  <2>1. Within(w, "executed")
    BY <1>12 DEF ExecuteReads
  <2> QED BY <2>1, Zenon
<1>13. CASE ExecuteWrites(w)
  <2>1. Within(w, "responding")
    BY <1>13 DEF ExecuteWrites
  <2> QED BY <2>1, Zenon
<1>14. CASE RespondTop(w)
  <2>1. Within(w, "sending") \/ Within(w, "closing")
    BY <1>14, RecordedKeepsActive, SMTT(30) DEF RespondTop, EndSession
  <2> QED BY <2>1, Zenon
<1>15. CASE Responds(w)
  <2>1. Within(w, "serving")
    BY <1>15 DEF Responds, Statistics
  <2> QED BY <2>1, Zenon
<1>16. CASE RespondFails(w)
  <2>1. Within(w, "closing")
    BY <1>16, RecordedKeepsActive DEF RespondFails, EndSession
  <2> QED BY <2>1, Zenon
<1>17. CASE StreamBreaks(w)
  <2>1. Within(w, "closing")
    BY <1>17, RecordedKeepsActive DEF StreamBreaks, EndSession
  <2> QED BY <2>1, Zenon
<1>18. CASE CloseLocks(w)
  <2>1. Within(w, "clearing")
    BY <1>18 DEF CloseLocks
  <2> QED BY <2>1, Zenon
<1>19. CASE CloseClears(w)
  <2>1. Within(w, "recycling")
    BY <1>19 DEF CloseClears
  <2> QED BY <2>1, Zenon
<1> QED BY <1>1, <1>2, <1>3, <1>4, <1>5, <1>6, <1>7, <1>8, <1>9, <1>10, <1>11, <1>12, <1>13, <1>14, <1>15, <1>16, <1>17, <1>18, <1>19, Zenon

\* A new client is counted when its session starts.
LEMMA AcceptsCounts ==
  ASSUME Types, SessionInv, NEW w \in Workers, Accepts(w)
  PROVE  SessionInv'
<1> USE DEF Accepts, Goto, Types, SessionInv
<1>1. w \in Live /\ w \notin Sessions /\ Sessions' = Sessions \cup {w} /\ Live' = Live
  BY DEF Live, Sessions, InSession, InRequest
<1>2. stats' \in Statistics /\ stats'.active = stats.active + 1
  <2>1. PICK before \in Statistics : before = stats
    BY Zenon
  <2> QED BY <2>1, Tallies, Zenon
<1>3. Cardinality(Sessions \cup {w}) = Cardinality(Sessions) + 1
  BY <1>1, SessionsFinite, FS_AddElement, Zenon
<1>4. ActiveExact'
  <2>1. stats.active = Cardinality(Sessions)
    BY DEF ActiveExact, Sessions
  <2>2. stats'.active = Cardinality(Sessions')
    BY <1>1, <1>2, <1>3, <2>1
  <2> QED BY <2>2 DEF ActiveExact, Sessions
<1>5. Anchored'
  BY <1>1 DEF Anchored, controllerVars
<1>6. Cleared'
  BY DEF Cleared, InSession, InRequest
<1> QED BY <1>2, <1>4, <1>5, <1>6

\* A session is uncounted when its slot is recycled, on every way out of it.
LEMMA RecycleCounts ==
  ASSUME Types, SessionInv, NEW w \in Workers, Recycle(w)
  PROVE  SessionInv'
<1> USE DEF Recycle, Goto, Types, SessionInv
<1>1. w \in Live /\ w \in Sessions /\ Sessions' = Sessions \ {w} /\ Live' = Live
  BY DEF Live, Sessions, InSession, InRequest
<1>2. stats' \in Statistics /\ stats'.active = stats.active - 1
  <2>1. PICK broken \in BOOLEAN :
          stats' = LET recorded == IF broken THEN Recorded("io_failure") ELSE stats
                   IN  [recorded EXCEPT !.active = @ - 1]
    BY Zenon
  <2>2. PICK recorded : recorded = IF broken THEN Recorded("io_failure") ELSE stats
    OBVIOUS
  <2>3. recorded \in Statistics /\ recorded.active = stats.active
    BY <2>2, RecordedKeepsActive
  <2>4. stats' = [recorded EXCEPT !.active = @ - 1]
    BY <2>1, <2>2
  <2> QED BY <2>3, <2>4, Tallies, Zenon
<1>3. Cardinality(Sessions \ {w}) = Cardinality(Sessions) - 1
  BY <1>1, SessionsFinite, FS_RemoveElement, Zenon
<1>4. ActiveExact'
  <2>1. stats.active = Cardinality(Sessions)
    BY DEF ActiveExact, Sessions
  <2>2. stats'.active = Cardinality(Sessions')
    BY <1>1, <1>2, <1>3, <2>1
  <2> QED BY <2>2 DEF ActiveExact, Sessions
<1>5. Anchored'
  BY <1>1 DEF Anchored, controllerVars
<1>6. Cleared'
  BY DEF Cleared, InSession, InRequest, domainVars
<1> QED BY <1>2, <1>4, <1>5, <1>6

\* Launching starts workers over all instances; stop() lets go of them after the joins.
LEMMA ControllerCounts ==
  ASSUME Types, SessionInv, Controller
  PROVE  SessionInv'
<1> USE DEF Types, SessionInv
<1>1. stats' = stats /\ store' = store
  BY DEF Controller, CreateInstance, SpawnWorker, LaunchFails, RequestStop, Stop, StopReturns, domainVars
<1>2. CASE SpawnWorker
  <2>1. PICK w \in Unborn : pc' = [pc EXCEPT ![w] = "top"]
    BY <1>2, Zenon DEF SpawnWorker, Goto
  <2>2. w \in Workers /\ pc[w] = "unborn"
    BY DEF Unborn
  <2>3. Sessions' = Sessions
    BY <2>1, <2>2 DEF Sessions, InSession, InRequest
  <2>4. ActiveExact'
    BY <1>1, <2>3, Zenon DEF ActiveExact, Sessions
  <2>5. pipes' = Slots /\ phase' # "stopped"
    BY <1>2 DEF SpawnWorker
  <2>6. Cleared'
    BY <1>1, <2>1, <2>2 DEF Cleared, InSession, InRequest
  <2> QED BY <1>1, <2>4, <2>5, <2>6 DEF Anchored
<1>3. CASE CreateInstance \/ LaunchFails \/ RequestStop \/ Stop \/ StopReturns
  <2>1. pc' = pc
    BY <1>3 DEF CreateInstance, LaunchFails, RequestStop, Stop, StopReturns
  <2>2. ActiveExact' /\ Cleared' /\ Live' = Live
    BY <1>1, <2>1 DEF ActiveExact, Cleared, Live
  <2>3. Anchored'
    <3>1. CASE CreateInstance
      BY <3>1, <2>2, ServerAssumption DEF CreateInstance, Anchored
    <3>2. CASE LaunchFails \/ RequestStop \/ Stop
      BY <3>2, <2>2 DEF LaunchFails, RequestStop, Stop, Anchored
    <3>3. CASE StopReturns
      <4>1. Live = {}
        BY <3>3 DEF StopReturns, Finished, Live
      <4> QED BY <4>1, <2>2 DEF Anchored
    <3> QED BY <1>3, <3>1, <3>2, <3>3
  <2> QED BY <1>1, <2>2, <2>3
<1> QED BY <1>2, <1>3 DEF Controller

\* Every step of the controller, a worker, a client or the clock keeps the counts.
THEOREM SessionInvariance == Spec => []SessionInv
<1>1. Types /\ SessionInv /\ [Next]_vars => SessionInv'
  <2> SUFFICES ASSUME Types, SessionInv, [Next]_vars PROVE SessionInv'
    OBVIOUS
  <2>1. ASSUME UNCHANGED <<pc, stats, store, phase, pipes>> PROVE SessionInv'
    BY <2>1 DEF SessionInv, ActiveExact, Anchored, Cleared, Live
  <2>2. CASE UNCHANGED vars
    BY <2>1, <2>2 DEF vars, domainVars, controllerVars
  <2>3. CASE Controller
    BY <2>3, ControllerCounts
  <2>4. ASSUME NEW w \in Workers, Worker(w) \/ Environment(w) PROVE SessionInv'
    <3>1. CASE ClientSends(w) \/ ClientLeaves(w) \/ Expire(w)
      BY <2>1, <3>1 DEF ClientSends, ClientLeaves, Expire, domainVars, controllerVars
    <3> QED BY <2>4, <3>1, WithinSteps, AcceptsCounts, RecycleCounts, SMTT(30) DEF Worker, Environment
  <2> QED BY <2>2, <2>3, <2>4 DEF Next
<1>2. GateInv => Types
  BY DEF GateInv
<1> QED BY SessionInit, <1>1, <1>2, GateInvariance, PTL DEF Spec

\* active_sessions is exact in every state, for any number of slots and clients.
THEOREM ActiveSafety == Spec => []ActiveExact
<1>1. SessionInv => ActiveExact
  BY DEF SessionInv
<1> QED BY SessionInvariance, <1>1, PTL

\* The pipe instances outlive the workers, and a stopped server holds no session, record
\* or gate.
THEOREM StopSafety == Spec => []StoppedMeansReleased
<1>1. GateInv /\ SessionInv => StoppedMeansReleased
  <2> SUFFICES ASSUME GateInv, SessionInv PROVE StoppedMeansReleased
    OBVIOUS
  <2>1. (\E w \in Workers : pc[w] \notin {"unborn", "done"}) => pipes = Slots
    BY DEF SessionInv, Anchored, Live
  <2>2. ASSUME phase = "stopped" PROVE gate = Nobody /\ stats.active = 0 /\ \A w \in Workers : store[w] = {}
    <3>1. \A w \in Workers : pc[w] \in {"unborn", "done"}
      BY <2>2 DEF SessionInv, Anchored, Live
    <3>2. gate = Nobody
      BY <3>1 DEF GateInv, Types, GateExact, InDomain
    <3>3. Sessions = {}
      BY <3>1 DEF Sessions, InSession, InRequest
    <3>4. stats.active = 0
      BY <3>3, FS_EmptySet DEF SessionInv, ActiveExact, Sessions
    <3>5. \A w \in Workers : store[w] = {}
      BY <3>1 DEF SessionInv, Cleared, InSession, InRequest
    <3> QED BY <3>2, <3>4, <3>5
  <2> QED BY <2>1, <2>2 DEF StoppedMeansReleased
<1> QED BY GateInvariance, SessionInvariance, <1>1, PTL
=============================================================================
