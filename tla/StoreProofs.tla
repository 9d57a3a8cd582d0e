---------------------------- MODULE StoreProofs ----------------------------
(***************************************************************************)
(* The isolation of sessions, the uniqueness of identities and the         *)
(* all-or-nothing effect of operations, for any number of sessions that    *)
(* are opened, closed and opened again, any quotas and any classes.        *)
(***************************************************************************)
EXTENDS SessionStore, FiniteSetTheorems, TLAPS

USE StoreAssumption

Held(s) == DOMAIN stores[s].values \cup DOMAIN stores[s].objects

Fields == {"values", "objects", "used", "closed"}
EntryFields == {"class", "state", "charge"}

Shapes ==
  /\ next \in Identifiers
  /\ DOMAIN owner = Identifiers
  /\ DOMAIN epoch = Sessions
  /\ DOMAIN stores = Sessions
  /\ \A s \in Sessions : DOMAIN stores[s] = Fields

\* The identities from next on belong to nobody.
Unissued == \A id \in Identifiers : next # 0 /\ id >= next => owner[id] = Nobody

Issued(id) == id \in Identifiers \ {0} /\ (next # 0 => id < next)

\* What a session retains was issued to its present incarnation, and a closed one has nothing.
Ownership ==
  \A s \in Sessions :
    /\ \A id \in Held(s) : Issued(id) /\ owner[id] = <<s, epoch[s]>>
    /\ stores[s].closed => Held(s) = {}

\* No session exists while classes are still being registered.
Startup ==
  offered # {} => reply = NoReply /\ \A s \in Sessions : epoch[s] = 0 /\ stores[s].closed

\* A retained object matches its class.
Matching(entry) == DOMAIN entry = EntryFields /\ state_matches(find(entry.class), entry.state)
Entries(s) == {stores[s].objects[id] : id \in DOMAIN stores[s].objects}
Conforming == \A s \in Sessions : \A entry \in Entries(s) : Matching(entry)

\* The inductive invariant.
StoreInv == Shapes /\ Unissued /\ Ownership /\ Startup /\ SessionsIsolated /\ Conforming

-----------------------------------------------------------------------------
(* The three effects an operation can have. *)

\* It answers, with an error or about something the session holds, and changes nothing.
Reads(s) ==
  /\ UNCHANGED domainVars
  /\ reply'.to = s
  /\ reply'.about = 0 \/ (reply'.about \in Held(s))

\* It retains one new record under the next identity.
Retains(s) ==
  \E repository \in {"values", "objects"} : \E record, charge :
    /\ next # 0 /\ Issue(s) /\ UNCHANGED <<registryVars, epoch>>
    /\ ~stores[s].closed
    /\ repository = "objects" => Matching(record)
    /\ stores' = [stores EXCEPT ![s][repository] = Insert(@, next, record), ![s].used = @ + charge]
    /\ reply'.to = s /\ reply'.about = next /\ reply'.body.is # "remote_error"

\* It replaces the session's objects by some of them, each of which still matches its class.
Rewrites(s) ==
  \E store :
    /\ stores' = [stores EXCEPT ![s] = store]
    /\ UNCHANGED <<registryVars, next, epoch, owner>>
    /\ DOMAIN store = Fields /\ store.values = stores[s].values /\ ~store.closed
    /\ DOMAIN store.objects \subseteq DOMAIN stores[s].objects
    /\ \A id \in DOMAIN store.objects : Matching(store.objects[id])
    /\ reply'.to = s /\ reply'.about \in DOMAIN stores[s].objects
    /\ reply'.body.is # "remote_error"

Effect(s) == Reads(s) \/ Retains(s) \/ Rewrites(s)

\* A refusal changes nothing (make_error).
LEMMA RefusalReads ==
  ASSUME NEW s, NEW code, Refuse(s, code)
  PROVE  Reads(s)
BY DEF Refuse, Answer, Reply, Reads

\* An answer of an operation that only reads, about nothing or about what the session holds.
LEMMA AnswerReads ==
  ASSUME NEW s, NEW id, NEW outcome, Answer(s, id, outcome), id = 0 \/ id \in Held(s)
  PROVE  Reads(s)
BY DEF Answer, Reply, Reads

\* put_value and create_object retain their record or are refused.
LEMMA RetainEffect ==
  ASSUME NEW s, NEW repository \in {"values", "objects"}, NEW record, NEW charge, NEW outcome,
         Retain(s, repository, record, charge, outcome), ~stores[s].closed,
         repository = "objects" => Matching(record), outcome.is # "remote_error"
  PROVE  Effect(s)
<1>1. CASE Refuse(s, "quota_exceeded")
  BY <1>1, RefusalReads DEF Effect
<1>2. ASSUME next # 0, Issue(s), Reply(s, next, outcome), UNCHANGED <<registryVars, epoch>>,
             stores' = [stores EXCEPT ![s][repository] = Insert(@, next, record), ![s].used = @ + charge]
      PROVE  Effect(s)
  <2>1. reply'.to = s /\ reply'.about = next /\ reply'.body.is # "remote_error"
    BY <1>2 DEF Reply
  <2> QED BY <1>2, <2>1, Zenon DEF Retains, Effect
<1> QED BY <1>1, <1>2 DEF Retain

\* Every operation of an open session has one of the three effects.
LEMMA PutEffect ==
  ASSUME NEW s, NEW v, PutValue(s, v)
  PROVE  Effect(s)
<1>1. ~stores[s].closed
  BY DEF PutValue, Executes
<1>2. CASE \E code : Refuse(s, code)
  BY <1>2, RefusalReads DEF Effect
<1>3. CASE Retain(s, "values", v, ValueCharge(v), value_record(next, v))
  <2>1. PICK charge, outcome : charge = ValueCharge(v) /\ outcome = value_record(next, v)
    OBVIOUS
  <2>2. outcome.is # "remote_error"
    BY <2>1 DEF value_record
  <2> QED BY <1>1, <1>3, <2>1, <2>2, RetainEffect
<1> QED BY <1>2, <1>3 DEF PutValue

\* create_object publishes only a state that matches its class.
LEMMA CreateEffect ==
  ASSUME NEW s, NEW name, NEW initial, CreateObject(s, name, initial)
  PROVE  Effect(s)
<1>1. ~stores[s].closed
  BY DEF CreateObject, Executes
<1>2. CASE \E code : Refuse(s, code)
  BY <1>2, RefusalReads DEF Effect
<1>3. ASSUME NEW state, NEW charge, state_matches(find(name), state),
             Retain(s, "objects", [class |-> name, state |-> state, charge |-> charge], charge,
                    object_snapshot(next, name, state))
      PROVE  Effect(s)
  <2>1. PICK outcome : outcome = object_snapshot(next, name, state)
    OBVIOUS
  <2>2. outcome.is # "remote_error"
    BY <2>1 DEF object_snapshot
  <2>3. Matching([class |-> name, state |-> state, charge |-> charge])
    BY <1>3 DEF Matching, EntryFields
  <2> QED BY <1>1, <1>3, <2>1, <2>2, <2>3, RetainEffect, SMTT(30)
<1>4. ASSUME ~(\E code : Refuse(s, code))
      PROVE  \E made \in CreateOutcomes(find(name), initial) :
               /\ state_matches(find(name), made.state)
               /\ Retain(s, "objects", [class |-> name, state |-> made.state,
                                         charge |-> ObjectCharge(find(name), made.state)],
                         ObjectCharge(find(name), made.state), object_snapshot(next, name, made.state))
  BY <1>4 DEF CreateObject
<1>5. ASSUME NEW made, state_matches(find(name), made.state),
             Retain(s, "objects", [class |-> name, state |-> made.state,
                                   charge |-> ObjectCharge(find(name), made.state)],
                    ObjectCharge(find(name), made.state), object_snapshot(next, name, made.state))
      PROVE  Effect(s)
  <2>1. PICK charge : charge = ObjectCharge(find(name), made.state)
    OBVIOUS
  <2> QED BY <1>3, <1>5, <2>1
<1> QED BY <1>2, <1>4, <1>5, Zenon

\* The operations that only read.
LEMMA ReadEffect ==
  ASSUME NEW s, NEW id, NEW name, NEW limit,
         \/ AccessDenied(s) \/ DescribeClass(s, name) \/ ListClasses(s, name, limit)
         \/ GetValue(s, id) \/ GetObject(s, id) \/ GetAttribute(s, id, name)
         \/ ListValues(s, id, limit)
  PROVE  Reads(s)
<1> SUFFICES ASSUME ~(\E code : Refuse(s, code))
             PROVE  \E about, outcome : Answer(s, about, outcome) /\ (about = 0 \/ about \in Held(s))
  BY RefusalReads, AnswerReads, Zenon
<1>1. ~AccessDenied(s)
  BY DEF AccessDenied
<1>2. CASE DescribeClass(s, name)
  BY <1>2 DEF DescribeClass
<1>3. CASE ListClasses(s, name, limit)
  BY <1>3, Zenon DEF ListClasses
<1>4. CASE GetValue(s, id)
  BY <1>4 DEF GetValue, Held
<1>5. CASE GetObject(s, id)
  BY <1>5, SMTT(30) DEF GetObject, Held
<1>6. CASE GetAttribute(s, id, name)
  BY <1>6 DEF GetAttribute, Held
<1>7. CASE ListValues(s, id, limit)
  BY <1>7, Zenon DEF ListValues
<1> QED BY <1>1, <1>2, <1>3, <1>4, <1>5, <1>6, <1>7, SMTT(30)

\* release_object gives up one object and leaves the others as they were.
LEMMA ReleaseEffect ==
  ASSUME StoreInv, NEW s \in Sessions, NEW id, ReleaseObject(s, id)
  PROVE  Effect(s)
<1>1. CASE \E code : Refuse(s, code)
  BY <1>1, RefusalReads DEF Effect
<1>2. ASSUME id \in DOMAIN stores[s].objects, Reply(s, id, released),
             stores' = [stores EXCEPT ![s] = Discharge(@, id)],
             UNCHANGED <<registryVars, next, epoch, owner>>
      PROVE  Rewrites(s)
  <2>1. PICK store : store = Discharge(stores[s], id)
    OBVIOUS
  <2>2. DOMAIN stores[s] = Fields
    BY DEF StoreInv, Shapes
  <2>3. /\ DOMAIN store = Fields
        /\ store.values = stores[s].values /\ store.closed = stores[s].closed
        /\ DOMAIN store.objects = DOMAIN stores[s].objects \ {id}
        /\ \A i \in DOMAIN store.objects : store.objects[i] = stores[s].objects[i]
    BY <2>1, <2>2 DEF Discharge, Restrict, Fields
  <2>4. \A i \in DOMAIN store.objects : Matching(store.objects[i])
    BY <2>3, Zenon DEF StoreInv, Conforming, Entries
  <2>5. reply'.to = s /\ reply'.about = id /\ reply'.body.is # "remote_error"
    BY <1>2 DEF Reply, released
  <2>6. ~stores[s].closed
    BY DEF ReleaseObject, Executes
  <2>7. stores' = [stores EXCEPT ![s] = store]
    BY <1>2, <2>1
  <2> QED BY <1>2, <2>3, <2>4, <2>5, <2>6, <2>7, Zenon DEF Rewrites
<1> QED BY <1>1, <1>2 DEF ReleaseObject, Effect

\* invoke_method publishes a candidate whose state matches the class of its object.
LEMMA InvokeEffect ==
  ASSUME StoreInv, NEW s \in Sessions, NEW id, NEW name, NEW argument,
         InvokeMethod(s, id, name, argument)
  PROVE  Effect(s)
<1>1. CASE \E code : Refuse(s, code)
  BY <1>1, RefusalReads DEF Effect
<1>2. ASSUME NEW state, NEW value, NEW charge, id \in DOMAIN stores[s].objects,
             Reply(s, id, a_value(value)),
             state_matches(find(stores[s].objects[id].class), state),
             stores' = [stores EXCEPT ![s] = PublishCandidate(@, id, state, charge)],
             UNCHANGED <<registryVars, next, epoch, owner>>
      PROVE  Rewrites(s)
  <2>1. PICK store : store = PublishCandidate(stores[s], id, state, charge)
    OBVIOUS
  <2>2. DOMAIN stores[s] = Fields /\ DOMAIN stores[s].objects[id] = EntryFields
    BY <1>2 DEF StoreInv, Shapes, Conforming, Entries, Matching
  <2>3. /\ DOMAIN store = Fields
        /\ store.values = stores[s].values /\ store.closed = stores[s].closed
        /\ DOMAIN store.objects = DOMAIN stores[s].objects
        /\ \A i \in DOMAIN store.objects \ {id} : store.objects[i] = stores[s].objects[i]
        /\ DOMAIN store.objects[id] = EntryFields
        /\ store.objects[id].class = stores[s].objects[id].class
        /\ store.objects[id].state = state
    BY <1>2, <2>1, <2>2 DEF PublishCandidate, Fields, EntryFields
  <2>4. Matching(store.objects[id])
    BY <1>2, <2>3, Zenon DEF Matching
  <2>5. \A i \in DOMAIN store.objects \ {id} : Matching(store.objects[i])
    BY <2>3, Zenon DEF StoreInv, Conforming, Entries
  <2>6. reply'.to = s /\ reply'.about = id /\ reply'.body.is # "remote_error"
    BY <1>2, SMTT(30) DEF Reply, a_value
  <2>7. ~stores[s].closed
    BY Zenon DEF InvokeMethod, Executes
  <2>8. stores' = [stores EXCEPT ![s] = store]
    BY <1>2, <2>1
  <2>9. \A i \in DOMAIN store.objects : Matching(store.objects[i])
    BY <2>4, <2>5, Zenon
  <2> QED BY <1>2, <2>3, <2>6, <2>7, <2>8, <2>9, Zenon DEF Rewrites
<1>3. ASSUME ~(\E code : Refuse(s, code))
      PROVE  \E made, charge :
               /\ id \in DOMAIN stores[s].objects
               /\ Reply(s, id, a_value(made.value))
               /\ state_matches(find(stores[s].objects[id].class), made.state)
               /\ stores' = [stores EXCEPT ![s] = PublishCandidate(@, id, made.state, charge)]
               /\ UNCHANGED <<registryVars, next, epoch, owner>>
  BY <1>3, Zenon DEF InvokeMethod, ValidResult
<1> QED BY <1>1, <1>2, <1>3, Zenon DEF Effect

-----------------------------------------------------------------------------
(* The invariant is preserved by each effect, by opening and closing and by *)
(* the registration of classes.                                             *)

\* The state the server starts in satisfies the invariant.
LEMMA InitHolds == Init => StoreInv
<1> SUFFICES ASSUME Init PROVE StoreInv
  OBVIOUS
<1>1. \A s \in Sessions : Held(s) = {} /\ Entries(s) = {} /\ DOMAIN stores[s] = Fields /\ stores[s].closed
  BY DEF Init, Held, Entries, Fields, ClosedStore, FreshStore, EmptyRepository
<1>2. Shapes /\ Unissued /\ Startup
  BY <1>1 DEF Init, Shapes, Unissued, Startup, Identifiers
<1>3. Ownership /\ Conforming
  BY <1>1 DEF Ownership, Conforming
<1>4. SessionsIsolated
  BY DEF Init, SessionsIsolated, NoReply
<1> QED BY <1>2, <1>3, <1>4 DEF StoreInv

\* What a class means to its objects depends on the registry alone.
LEMMA MatchStable ==
  ASSUME registry' = registry, NEW entry
  PROVE  Matching(entry)' <=> Matching(entry)
<1>1. find(entry.class)' = find(entry.class)
  BY Zenon DEF find
<1> QED BY <1>1, Zenon DEF Matching, state_matches, state_charge, valid_value, value_bytes

\* An operation that changes nothing keeps the invariant.
LEMMA ReadsKeeps ==
  ASSUME StoreInv, NEW s \in Sessions, Reads(s), ~stores[s].closed \/ epoch[s] > 0
  PROVE  StoreInv'
<1>1. offered = {}
  BY DEF StoreInv, Startup
<1>2. /\ next' = next /\ stores' = stores /\ epoch' = epoch /\ owner' = owner
      /\ registry' = registry /\ offered' = offered
  BY DEF Reads, domainVars, registryVars
<1>4. Shapes' /\ Unissued'
  BY <1>2 DEF StoreInv, Shapes, Unissued
<1>5. Ownership'
  BY <1>2 DEF StoreInv, Ownership, Held, Issued
<1>6. Startup'
  BY <1>1, <1>2 DEF Startup
<1>7. Conforming'
  BY <1>2, MatchStable, Zenon DEF StoreInv, Conforming, Entries
<1>3. SessionsIsolated'
  BY DEF StoreInv, Ownership, SessionsIsolated, Reads, domainVars
<1> QED BY <1>3, <1>4, <1>5, <1>6, <1>7, SMTT(30) DEF StoreInv

\* A new record carries an identity nobody had.
LEMMA RetainsKeeps ==
  ASSUME StoreInv, NEW s \in Sessions, Retains(s)
  PROVE  StoreInv'
<1>0. PICK repository \in {"values", "objects"} : \E record, charge :
        /\ next # 0 /\ Issue(s) /\ UNCHANGED <<registryVars, epoch>>
        /\ ~stores[s].closed
        /\ repository = "objects" => Matching(record)
        /\ stores' = [stores EXCEPT ![s][repository] = Insert(@, next, record), ![s].used = @ + charge]
        /\ reply'.to = s /\ reply'.about = next /\ reply'.body.is # "remote_error"
  BY Zenon DEF Retains
<1>1. PICK record, charge :
        /\ next # 0 /\ Issue(s) /\ UNCHANGED <<registryVars, epoch>>
        /\ ~stores[s].closed
        /\ repository = "objects" => Matching(record)
        /\ stores' = [stores EXCEPT ![s][repository] = Insert(@, next, record), ![s].used = @ + charge]
        /\ reply'.to = s /\ reply'.about = next /\ reply'.body.is # "remote_error"
  BY <1>0, Zenon
<1>2. /\ epoch' = epoch /\ registry' = registry /\ offered' = offered /\ offered = {}
      /\ next \in Identifiers \ {0}
  BY <1>1 DEF registryVars, StoreInv, Shapes, Startup
<1>3. /\ next' \in Identifiers /\ (next' # 0 => next' = next + 1)
      /\ DOMAIN owner' = Identifiers
      /\ owner'[next] = <<s, epoch[s]>>
      /\ \A id \in Identifiers \ {next} : owner'[id] = owner[id]
  BY <1>1, <1>2, SMTT(30) DEF Issue, StoreInv, Shapes, Identifiers
<1>4. /\ DOMAIN stores' = Sessions
      /\ \A t \in Sessions \ {s} : stores'[t] = stores[t]
      /\ DOMAIN stores'[s] = Fields
      /\ stores'[s].closed = stores[s].closed
  BY <1>1 DEF StoreInv, Shapes, Fields
<1>5. \/ /\ stores'[s].values = Insert(stores[s].values, next, record)
         /\ stores'[s].objects = stores[s].objects
      \/ /\ stores'[s].values = stores[s].values /\ Matching(record)
         /\ stores'[s].objects = Insert(stores[s].objects, next, record)
  <2>1. CASE repository = "values"
    BY <1>1, <2>1 DEF StoreInv, Shapes, Fields
  <2>2. CASE repository = "objects"
    BY <1>1, <2>2, SMTT(30) DEF StoreInv, Shapes, Fields
  <2> QED BY <2>1, <2>2
<1>6. /\ Held(s)' = Held(s) \cup {next}
      /\ \A t \in Sessions \ {s} : Held(t)' = Held(t)
  BY <1>4, <1>5, SMTT(30) DEF Held, Insert
<1>7. Shapes' /\ Unissued'
  BY <1>2, <1>3, <1>4, SMTT(30) DEF StoreInv, Shapes, Unissued, Identifiers
<1>8. ASSUME NEW id, Issued(id)
      PROVE  Issued(id)' /\ owner'[id] = owner[id]
  BY <1>2, <1>3, <1>8, SMTT(30) DEF Issued, Identifiers
<1>9. ASSUME NEW id, id = next
      PROVE  Issued(id)' /\ owner'[id] = <<s, epoch[s]>>
  BY <1>2, <1>3, <1>9, SMTT(30) DEF Issued, Identifiers
<1>10. Ownership'
  <2> SUFFICES ASSUME NEW t \in Sessions
               PROVE  /\ \A id \in Held(t)' : Issued(id)' /\ owner'[id] = <<t, epoch[t]>>
                      /\ stores'[t].closed => Held(t)' = {}
    BY <1>2 DEF Ownership
  <2>1. /\ \A id \in Held(t) : Issued(id) /\ owner[id] = <<t, epoch[t]>>
        /\ stores[t].closed => Held(t) = {}
    BY DEF StoreInv, Ownership
  <2>2. CASE t = s
    <3>1. ~stores'[t].closed
      BY <1>1, <1>4, <2>2
    <3>2. ASSUME NEW id \in Held(t)'
          PROVE  Issued(id)' /\ owner'[id] = <<t, epoch[t]>>
      <4>1. id = next \/ id \in Held(t)
        BY <1>6, <2>2, <3>2
      <4> QED BY <1>8, <1>9, <2>1, <2>2, <4>1, Zenon
    <3> QED BY <3>1, <3>2, Zenon
  <2>3. CASE t # s
    BY <1>4, <1>6, <1>8, <2>1, <2>3, Zenon
  <2> QED BY <2>2, <2>3
<1>11. Startup'
  BY <1>2 DEF Startup
<1>12. SessionsIsolated'
  BY <1>1, <1>2, <1>3, Zenon DEF SessionsIsolated
<1>13. Conforming'
  <2> SUFFICES ASSUME NEW t \in Sessions, NEW entry \in Entries(t)'
               PROVE  Matching(entry)'
    BY Zenon DEF Conforming
  <2>1. entry \in Entries(t) \/ Matching(entry)
    BY <1>4, <1>5 DEF Entries, Insert
  <2>2. Matching(entry)
    BY <2>1 DEF StoreInv, Conforming
  <2> QED BY <1>2, <2>2, MatchStable, Zenon
<1> QED BY <1>7, <1>10, <1>11, <1>12, <1>13, SMTT(30) DEF StoreInv

\* Giving up an object or publishing a candidate keeps the invariant.
LEMMA RewritesKeeps ==
  ASSUME StoreInv, NEW s \in Sessions, Rewrites(s)
  PROVE  StoreInv'
<1>1. PICK store :
        /\ stores' = [stores EXCEPT ![s] = store]
        /\ UNCHANGED <<registryVars, next, epoch, owner>>
        /\ DOMAIN store = Fields /\ store.values = stores[s].values /\ ~store.closed
        /\ DOMAIN store.objects \subseteq DOMAIN stores[s].objects
        /\ \A id \in DOMAIN store.objects : Matching(store.objects[id])
        /\ reply'.to = s /\ reply'.about \in DOMAIN stores[s].objects
  BY Zenon DEF Rewrites
<1>2. /\ next' = next /\ epoch' = epoch /\ owner' = owner
      /\ registry' = registry /\ offered' = offered
  BY <1>1 DEF registryVars
<1>3. /\ DOMAIN stores' = Sessions /\ stores'[s] = store
      /\ \A t \in Sessions \ {s} : stores'[t] = stores[t]
  BY <1>1 DEF StoreInv, Shapes
<1>4. Shapes' /\ Unissued'
  BY <1>1, <1>2, <1>3, SMTT(30) DEF StoreInv, Shapes, Unissued
<1>5. \A t \in Sessions : Held(t)' \subseteq Held(t)
  BY <1>1, <1>3 DEF Held
<1>6. \A t \in Sessions : stores'[t].closed => stores[t].closed
  BY <1>1, <1>3, SMTT(30)
<1>7. Ownership'
  BY <1>2, <1>5, <1>6, SMTT(30) DEF StoreInv, Ownership, Issued
<1>8. Startup' /\ SessionsIsolated'
  <2>1. offered = {}
    BY <1>1, SMTT(30) DEF StoreInv, Startup, Ownership, Held
  <2>2. owner[reply'.about] = <<s, epoch[s]>>
    BY <1>1 DEF StoreInv, Ownership, Held
  <2> QED BY <1>1, <1>2, <2>1, <2>2, SMTT(30) DEF Startup, SessionsIsolated
<1>9. Conforming'
  <2> SUFFICES ASSUME NEW t \in Sessions, NEW entry \in Entries(t)'
               PROVE  Matching(entry)'
    BY Zenon DEF Conforming
  <2>1. entry \in Entries(t) \/ Matching(entry)
    BY <1>1, <1>3, SMTT(30) DEF Entries
  <2>2. Matching(entry)
    BY <2>1, SMTT(30) DEF StoreInv, Conforming
  <2> QED BY <1>2, <2>2, MatchStable, Zenon
<1> QED BY <1>4, <1>7, <1>8, <1>9, SMTT(30) DEF StoreInv

\* A slot is opened only when it is empty, for an incarnation of its own; closing empties it.
LEMMA LifetimeKeeps ==
  ASSUME StoreInv, NEW s \in Sessions, Open(s) \/ Close(s)
  PROVE  StoreInv'
<1>1. /\ next' = next /\ owner' = owner /\ registry' = registry /\ offered' = offered
      /\ reply' = NoReply
      /\ DOMAIN epoch' = Sessions /\ \A t \in Sessions \ {s} : epoch'[t] = epoch[t]
  BY DEF Open, Close, registryVars, StoreInv, Shapes
<1>2. /\ DOMAIN stores' = Sessions /\ DOMAIN stores'[s] = Fields
      /\ \A t \in Sessions \ {s} : stores'[t] = stores[t]
      /\ DOMAIN stores'[s].values = {} /\ DOMAIN stores'[s].objects = {}
  BY DEF Open, Close, StoreInv, Shapes, Fields, ClosedStore, FreshStore, EmptyRepository
<1>3. /\ Held(s)' = {} /\ Entries(s)' = {}
      /\ \A t \in Sessions \ {s} : Held(t)' = Held(t) /\ Entries(t)' = Entries(t)
  BY <1>2, SMTT(30) DEF Held, Entries
<1>4. Shapes' /\ Unissued'
  BY <1>1, <1>2, SMTT(30) DEF StoreInv, Shapes, Unissued
<1>5. Ownership'
  BY <1>1, <1>2, <1>3, SMTT(30) DEF StoreInv, Ownership, Issued
<1>6. Startup' /\ SessionsIsolated'
  <2>1. offered = {}
    BY DEF Open, Close, StoreInv, Startup
  <2> QED BY <1>1, <2>1 DEF Startup, SessionsIsolated, NoReply
<1>7. Conforming'
  <2> SUFFICES ASSUME NEW t \in Sessions, NEW entry \in Entries(t)'
               PROVE  Matching(entry)'
    BY Zenon DEF Conforming
  <2>1. Matching(entry)
    BY <1>3 DEF StoreInv, Conforming
  <2> QED BY <1>1, <2>1, MatchStable, Zenon
<1> QED BY <1>4, <1>5, <1>6, <1>7, SMTT(30) DEF StoreInv

\* Registration happens before there is any session.
LEMMA RegisterKeeps ==
  ASSUME StoreInv, NEW d \in offered, Register(d)
  PROVE  StoreInv'
<1>1. /\ next' = next /\ stores' = stores /\ reply' = reply /\ epoch' = epoch /\ owner' = owner
  BY DEF Register
<1>2. reply = NoReply /\ \A s \in Sessions : epoch[s] = 0 /\ stores[s].closed
  BY DEF StoreInv, Startup
<1>3. \A s \in Sessions : Held(s) = {}
  BY <1>2 DEF StoreInv, Ownership
<1>4. \A s \in Sessions : Held(s)' = {} /\ Entries(s)' = {}
  BY <1>1, <1>3, SMTT(30) DEF Held, Entries
<1>5. Shapes' /\ Unissued' /\ Startup' /\ SessionsIsolated'
  BY <1>1, <1>2, SMTT(30) DEF StoreInv, Shapes, Unissued, Startup, SessionsIsolated
<1>6. Ownership' /\ Conforming'
  BY <1>4 DEF Ownership, Conforming
<1> QED BY <1>5, <1>6 DEF StoreInv

\* The operations of a session that has been opened have an effect of the three.
LEMMA OperationEffect ==
  ASSUME StoreInv, NEW s \in Sessions, Operation(s)
  PROVE  Effect(s) /\ (~stores[s].closed \/ epoch[s] > 0)
<1>1. CASE AccessDenied(s)
  BY <1>1, ReadEffect DEF AccessDenied, Effect
<1>2. ASSUME NEW name,
             \/ DescribeClass(s, name)
             \/ \E v : CreateObject(s, name, v)
             \/ \E limit : ListClasses(s, name, limit)
      PROVE  Effect(s) /\ ~stores[s].closed
  <2>1. ~stores[s].closed
    BY <1>2, ZenonT(40) DEF DescribeClass, CreateObject, ListClasses, Executes
  <2> QED BY <1>2, <2>1, ReadEffect, CreateEffect, Zenon DEF Effect
<1>3. ASSUME NEW v, PutValue(s, v)
      PROVE  Effect(s) /\ ~stores[s].closed
  BY <1>3, PutEffect DEF PutValue, Executes
<1>4. ASSUME NEW id,
             \/ GetValue(s, id) \/ GetObject(s, id) \/ ReleaseObject(s, id)
             \/ \E limit : ListValues(s, id, limit)
             \/ \E name : GetAttribute(s, id, name) \/ \E v : InvokeMethod(s, id, name, v)
      PROVE  Effect(s) /\ ~stores[s].closed
  <2>1. ~stores[s].closed
    BY <1>4, ZenonT(40) DEF GetValue, GetObject, ReleaseObject, ListValues, GetAttribute, InvokeMethod, Executes
  <2> QED BY <1>4, <2>1, ReadEffect, ReleaseEffect, InvokeEffect, ZenonT(40) DEF Effect
<1> QED BY <1>1, <1>2, <1>3, <1>4, ZenonT(40) DEF Operation

\* A step of Next is one of these, with its session or its definition.
LEMMA StepKinds ==
  ASSUME Next
  PROVE  \/ \E d \in offered : Register(d)
         \/ \E s \in Sessions : Open(s) \/ Close(s) \/ Operation(s)
BY DEF Next

\* Every step keeps the invariant.
LEMMA StepKeeps ==
  ASSUME StoreInv, [Next]_vars
  PROVE  StoreInv'
<1>1. CASE UNCHANGED vars
  <2>1. /\ next' = next /\ stores' = stores /\ reply' = reply /\ epoch' = epoch /\ owner' = owner
        /\ registry' = registry /\ offered' = offered
    BY <1>1 DEF vars, registryVars
  <2>2. Conforming'
    BY <2>1, MatchStable, Zenon DEF StoreInv, Conforming, Entries
  <2> QED BY <2>1, <2>2, SMTT(30) DEF StoreInv, Shapes, Unissued, Ownership, Held, Issued, Startup, SessionsIsolated
<1>2. ASSUME NEW s \in Sessions, Operation(s)
      PROVE  StoreInv'
  BY <1>2, OperationEffect, ReadsKeeps, RetainsKeeps, RewritesKeeps, Zenon DEF Effect
<1> QED BY <1>1, <1>2, StepKinds, LifetimeKeeps, RegisterKeeps, Zenon

-----------------------------------------------------------------------------
\* The inductive invariant holds throughout.
THEOREM StoreInvariance == Spec => []StoreInv
BY InitHolds, StepKeeps, PTL DEF Spec

\* A reply about an identity goes only to the incarnation of the session it was issued to,
\* however often slots are reused (session_store, identifier_source).
THEOREM IsolationSafety == Spec => []SessionsIsolated
<1>1. StoreInv => SessionsIsolated
  BY SMTT(30) DEF StoreInv
<1> QED BY <1>1, StoreInvariance, PTL

\* get_object never finds that a retained object has stopped matching its class, whatever
\* the factories and methods answer.
THEOREM PublicationSafety == Spec => []PublishedStateMatches
<1>1. StoreInv => PublishedStateMatches
  BY DEF StoreInv, Conforming, Entries, Matching, PublishedStateMatches
<1> QED BY <1>1, StoreInvariance, PTL

\* identifier_source issues every identity once.
THEOREM IdentityUniqueness == Spec => NeverReissued
<1>1. ASSUME StoreInv, [Next]_vars
      PROVE  [next' # next => owner[next] = Nobody]_vars
  <2>1. ASSUME next # 0, next \in Identifiers
        PROVE  owner[next] = Nobody
    BY <1>1, <2>1 DEF StoreInv, Unissued, Identifiers
  <2>2. ASSUME NEW s \in Sessions, Operation(s), next' # next
        PROVE  next # 0
    BY <1>1, <2>2, OperationEffect, Zenon DEF Effect, Reads, Retains, Rewrites, domainVars
  <2>3. next \in Identifiers
    BY <1>1 DEF StoreInv, Shapes
  <2>4. ASSUME NEW s \in Sessions, Open(s) \/ Close(s)
        PROVE  next' = next
    BY <2>4 DEF Open, Close
  <2>5. ASSUME NEW d, Register(d)
        PROVE  next' = next
    BY <2>5 DEF Register
  <2> QED BY <1>1, <2>1, <2>2, <2>3, <2>4, <2>5, StepKinds, Zenon
<1> QED BY <1>1, StoreInvariance, PTL DEF Spec, NeverReissued

\* An operation that is answered with an error has changed nothing, the identifier source
\* included.
THEOREM RefusalSafety == Spec => FailurePreservesState
<1>1. ASSUME StoreInv, [Next]_vars
      PROVE  [reply'.body.is = "remote_error" => UNCHANGED domainVars]_vars
  <2>1. ASSUME NEW s \in Sessions, Operation(s), reply'.body.is = "remote_error"
        PROVE  UNCHANGED domainVars
    BY <1>1, <2>1, OperationEffect, ZenonT(40) DEF Effect, Reads, Retains, Rewrites
  <2>2. ASSUME NEW s \in Sessions, Open(s) \/ Close(s)
        PROVE  reply'.body.is # "remote_error"
    BY <2>2, SMTT(30) DEF Open, Close, NoReply
  <2>3. ASSUME NEW d \in offered, Register(d)
        PROVE  reply'.body.is # "remote_error"
    BY <1>1, <2>3 DEF Register, StoreInv, Startup, NoReply
  <2> QED BY <1>1, <2>1, <2>2, <2>3, StepKinds, Zenon
<1> QED BY <1>1, StoreInvariance, PTL DEF Spec, FailurePreservesState

-----------------------------------------------------------------------------
HIDE StoreAssumption

(* Sums. *)

\* F gives each set of keys the sum of what f gives its members.
Additive(F, f, S) ==
  /\ F \in [SUBSET S -> Nat]
  /\ F[{}] = 0
  /\ \A T \in SUBSET S : \A x \in T : F[T] = f[x] + F[T \ {x}]

\* The equation by which SumFunction computes, one chosen key at a time.
Summation(F, f, S) ==
  F = [T \in SUBSET S |-> IF T = {} THEN 0 ELSE f[CHOOSE x \in T : TRUE] + F[T \ {CHOOSE x \in T : TRUE}]]

\* A counterexample of which no smaller set is one.
Minimal(T, Bad) == T \in Bad /\ \A U \in Bad : U \subseteq T => U = T

\* If some subset of a finite set is a counterexample, one is minimal: induction over sets.
LEMMA MinimalSubset ==
  ASSUME NEW S, IsFiniteSet(S), NEW Bad, \A T \in Bad : T \subseteq S, Bad # {}
  PROVE  \E T : Minimal(T, Bad)
<1>1. IsWellFoundedOn(StrictSubsetOrdering(S), SUBSET S)
  BY FS_StrictSubsetOrderingWellFounded, FS_FiniteSubsetsOfFinite, Zenon
<1>2. \E T \in Bad : \A U \in Bad : <<U, T>> \notin StrictSubsetOrdering(S)
  <2>1. Bad \subseteq SUBSET S
    OBVIOUS
  <2> QED BY <1>1, <2>1, WFMin, Zenon
<1> QED BY <1>2, Zenon DEF StrictSubsetOrdering, Minimal

\* Every charge function over finitely many records has its sums.
LEMMA AdditiveExists ==
  ASSUME NEW S, IsFiniteSet(S), NEW f \in [S -> Nat]
  PROVE  \E F : Additive(F, f, S)
<1> DEFINE Bad == {T \in SUBSET S : ~\E F : Additive(F, f, T)}
<1> SUFFICES ASSUME Bad # {} PROVE FALSE
  OBVIOUS
<1>0. \A T \in Bad : T \subseteq S
  OBVIOUS
<1>1. PICK T : Minimal(T, Bad)
  <2> HIDE DEF Bad
  <2> QED BY <1>0, MinimalSubset, Zenon
<1>10. T \in SUBSET S /\ T \in Bad /\ \A U \in Bad : U \subseteq T => U = T
  BY <1>1 DEF Minimal
<1>2. T # {}
  <2>1. Additive([U \in {{}} |-> 0], f, {})
    BY DEF Additive
  <2> QED BY <1>10, <2>1, Zenon
<1>3. PICK x \in T : TRUE
  BY <1>2
<1>4. PICK F : Additive(F, f, T \ {x})
  BY <1>10, <1>3
<1> DEFINE G == [U \in SUBSET T |-> IF x \in U THEN f[x] + F[U \ {x}] ELSE F[U]]
<1>5. f[x] \in Nat
  BY <1>10
<1>6. G \in [SUBSET T -> Nat] /\ G[{}] = 0
  <2>1. ASSUME NEW U \in SUBSET T PROVE G[U] \in Nat
    BY <1>4, <1>5, SMTT(30) DEF Additive
  <2> QED BY <1>4, <2>1, Zenon DEF Additive
<1>7. ASSUME NEW U \in SUBSET T, NEW y \in U
      PROVE  G[U] = f[y] + G[U \ {y}]
  <2>1. CASE y = x
    BY <1>4, <1>5, <2>1 DEF Additive
  <2>2. CASE y # x /\ x \in U
    <3>1. F[U \ {x}] = f[y] + F[(U \ {x}) \ {y}]
      BY <1>4, <1>7, <2>2 DEF Additive
    <3>2. (U \ {x}) \ {y} = (U \ {y}) \ {x}
      OBVIOUS
    <3>3. G[U] = f[x] + F[U \ {x}] /\ G[U \ {y}] = f[x] + F[(U \ {y}) \ {x}]
      BY <2>2
    <3>4. F[(U \ {y}) \ {x}] \in Nat /\ f[y] \in Nat
      <4>1. (U \ {y}) \ {x} \in SUBSET (T \ {x}) /\ y \in S
        BY <1>10, <1>7
      <4> QED BY <1>4, <4>1 DEF Additive
    <3> HIDE DEF G
    <3>5. PICK rest \in Nat : rest = F[(U \ {y}) \ {x}]
      BY <3>4
    <3>6. G[U] = f[x] + (f[y] + rest) /\ G[U \ {y}] = f[x] + rest
      BY <3>1, <3>2, <3>3, <3>5, Zenon
    <3> QED BY <1>5, <3>4, <3>6
  <2>3. CASE x \notin U
    <3>1. U \in SUBSET (T \ {x}) /\ U \ {y} \in SUBSET T /\ x \notin U \ {y}
      BY <2>3
    <3>2. F[U] = f[y] + F[U \ {y}]
      BY <1>4, <1>7, <3>1 DEF Additive
    <3> QED BY <2>3, <3>1, <3>2
  <2> QED BY <2>1, <2>2, <2>3
<1>8. Additive(G, f, T)
  BY <1>6, <1>7, Zenon DEF Additive
<1> QED BY <1>10, <1>8

\* The equation has one solution.
LEMMA SummationUnique ==
  ASSUME NEW S, IsFiniteSet(S), NEW f, NEW F, Summation(F, f, S), NEW G, Summation(G, f, S)
  PROVE  F = G
<1> DEFINE Bad == {T \in SUBSET S : F[T] # G[T]}
<1>1. ASSUME Bad # {} PROVE FALSE
  <2>0. \A T \in Bad : T \subseteq S
    OBVIOUS
  <2>1. PICK T : Minimal(T, Bad)
    <3> HIDE DEF Bad
    <3> QED BY <1>1, <2>0, MinimalSubset, Zenon
  <2>6. T \in SUBSET S /\ T \in Bad /\ \A U \in Bad : U \subseteq T => U = T
    BY <2>1 DEF Minimal
  <2>2. T # {}
    BY <2>6 DEF Summation
  <2>3. PICK x \in T : x = CHOOSE y \in T : TRUE
    BY <2>2
  <2>4. F[T] = f[x] + F[T \ {x}] /\ G[T] = f[x] + G[T \ {x}]
    BY <2>6, <2>2, <2>3 DEF Summation
  <2>5. F[T \ {x}] = G[T \ {x}]
    BY <2>6, <2>3
  <2> QED BY <2>4, <2>5, <2>6
<1>2. DOMAIN F = SUBSET S /\ DOMAIN G = SUBSET S
  BY DEF Summation
<1>3. \A T \in SUBSET S : F[T] = G[T]
  BY <1>1
<1>4. F = [T \in SUBSET S |-> F[T]] /\ G = [T \in SUBSET S |-> G[T]]
  BY DEF Summation
<1> QED BY <1>2, <1>3, <1>4, Zenon

\* So SumFunction is the sum, whatever the order of the keys.
LEMMA SumIsAdditive ==
  ASSUME NEW S, IsFiniteSet(S), NEW f \in [S -> Nat], NEW F, Additive(F, f, S)
  PROVE  SumFunction(f) = F[S]
<1>1. Summation(F, f, S)
  <2>1. ASSUME NEW T \in SUBSET S
        PROVE  F[T] = IF T = {} THEN 0 ELSE f[CHOOSE x \in T : TRUE] + F[T \ {CHOOSE x \in T : TRUE}]
    <3>1. CASE T = {}
      BY <3>1 DEF Additive
    <3>2. CASE T # {}
      <4>1. PICK x \in T : x = CHOOSE y \in T : TRUE
        BY <3>2
      <4> QED BY <3>2, <4>1, Zenon DEF Additive
    <3> QED BY <3>1, <3>2
  <2>2. F = [T \in SUBSET S |-> F[T]]
    BY DEF Additive
  <2> QED BY <2>1, <2>2, Zenon DEF Summation
<1>2. PICK G : G = CHOOSE H : Summation(H, f, S)
  OBVIOUS
<1>3. Summation(G, f, S)
  BY <1>1, <1>2
<1>4. G = F
  BY <1>1, <1>3, SummationUnique
<1>5. SumFunction(f) = G[S]
  BY <1>2 DEF SumFunction, SumFunctionOnSet, FoldFunctionOnSet, MapThenFoldSet, Summation
<1> QED BY <1>4, <1>5

\* Nothing costs nothing (a new store, used_ = 0).
LEMMA SumEmpty ==
  ASSUME NEW f, f \in [{} -> Nat]
  PROVE  SumFunction(f) = 0
<1>1. IsFiniteSet({})
  BY FS_EmptySet
<1>2. PICK F : Additive(F, f, {})
  BY <1>1, AdditiveExists, Zenon
<1>3. SumFunction(f) = F[{}]
  BY <1>1, <1>2, SumIsAdditive, Zenon
<1> QED BY <1>2, <1>3 DEF Additive

\* A sum of sizes is a size.
LEMMA SumType ==
  ASSUME NEW S, IsFiniteSet(S), NEW f \in [S -> Nat]
  PROVE  SumFunction(f) \in Nat
<1>1. PICK F : Additive(F, f, S)
  BY AdditiveExists
<1>2. SumFunction(f) = F[S]
  BY <1>1, SumIsAdditive
<1> QED BY <1>1, <1>2 DEF Additive

\* g is the ledger f with one more record, x.
Extended(g, f, S, x) ==
  /\ IsFiniteSet(S) /\ f \in [S -> Nat] /\ x \notin S
  /\ g \in [S \cup {x} -> Nat] /\ \A y \in S : g[y] = f[y]

\* One more record costs its charge (put_value, create_object; release_object the other way).
LEMMA SumExtended ==
  ASSUME NEW S, NEW f, NEW x, NEW g, Extended(g, f, S, x)
  PROVE  /\ SumFunction(g) = SumFunction(f) + g[x]
         /\ SumFunction(f) \in Nat /\ g[x] \in Nat
<1>0. PICK R : R = S \cup {x}
  BY Zenon
<1>1. IsFiniteSet(S) /\ f \in [S -> Nat] /\ IsFiniteSet(R) /\ g \in [R -> Nat]
  BY <1>0, FS_AddElement DEF Extended
<1>2. PICK G : Additive(G, g, R)
  BY <1>1, AdditiveExists
<1>3. PICK F : F = [T \in SUBSET S |-> G[T]]
  BY Zenon
<1>4. Additive(F, f, S)
  <2>1. ASSUME NEW T \in SUBSET S, NEW y \in T
        PROVE  F[T] = f[y] + F[T \ {y}]
    <3>1. G[T] = g[y] + G[T \ {y}]
      BY <1>0, <1>2 DEF Additive
    <3>2. F[T] = G[T] /\ F[T \ {y}] = G[T \ {y}] /\ g[y] = f[y]
      BY <1>3 DEF Extended
    <3> QED BY <3>1, <3>2, Zenon
  <2>2. F \in [SUBSET S -> Nat] /\ F[{}] = 0
    BY <1>0, <1>2, <1>3 DEF Additive
  <2> QED BY <2>1, <2>2 DEF Additive
<1>5. SumFunction(g) = G[R] /\ SumFunction(f) = F[S]
  BY <1>1, <1>2, <1>4, SumIsAdditive
<1>6. G[R] = g[x] + G[R \ {x}]
  BY <1>0, <1>2 DEF Additive
<1>7. R \ {x} = S
  BY <1>0 DEF Extended
<1>8. F[S] = G[S] /\ G[S] \in Nat /\ g[x] \in Nat
  BY <1>0, <1>1, <1>2, <1>3 DEF Additive
<1>9. SumFunction(g) = g[x] + G[S] /\ SumFunction(f) = G[S]
  BY <1>5, <1>6, <1>7, <1>8, Zenon
<1> QED BY <1>8, <1>9

\* One record of another charge (invoke_method).
LEMMA SumUpdate ==
  ASSUME NEW S, IsFiniteSet(S), NEW f \in [S -> Nat], NEW x \in S,
         NEW g \in [S -> Nat], \A y \in S \ {x} : g[y] = f[y]
  PROVE  /\ f[x] <= SumFunction(f)
         /\ SumFunction(g) = (SumFunction(f) - f[x]) + g[x]
<1>1. PICK h, R : R = S \ {x} /\ h = [y \in R |-> f[y]]
  BY Zenon
<1>2. IsFiniteSet(R) /\ h \in [R -> Nat] /\ R \cup {x} = S
  BY <1>1, FS_RemoveElement
<1>3. Extended(f, h, R, x) /\ Extended(g, h, R, x)
  BY <1>1, <1>2 DEF Extended
<1>4. /\ SumFunction(f) = SumFunction(h) + f[x] /\ SumFunction(g) = SumFunction(h) + g[x]
      /\ SumFunction(h) \in Nat /\ f[x] \in Nat /\ g[x] \in Nat
  BY <1>3, SumExtended
<1> QED BY <1>4

-----------------------------------------------------------------------------
(* The books of a session. *)

\* A value whose size is known.
Sized(v) == v \in Values /\ (v.kind = "text" => v.n >= 0)

\* A retained object: of a registered class, with a state of known size, charged for it.
Booked(entry) ==
  /\ Registered(entry.class) /\ Sized(entry.state)
  /\ find(entry.class).create = "counter" => entry.state.n \in IntMin..IntMax
  /\ entry.charge = ObjectCharge(find(entry.class), entry.state)

ValueCharges(store) == [id \in DOMAIN store.values |-> ValueCharge(store.values[id])]
ObjectCharges(store) == [id \in DOMAIN store.objects |-> store.objects[id].charge]

Books(store) ==
  /\ IsFiniteSet(DOMAIN store.values) /\ IsFiniteSet(DOMAIN store.objects)
  /\ \A id \in DOMAIN store.values : Sized(store.values[id])
  /\ \A id \in DOMAIN store.objects : Booked(store.objects[id])
  /\ store.used = SumFunction(ValueCharges(store)) + SumFunction(ObjectCharges(store))
  /\ Cardinality(DOMAIN store.values) <= ValueLimit
  /\ Cardinality(DOMAIN store.objects) <= ObjectLimit
  /\ store.used <= ByteLimit

\* The registry holds definitions that were offered to it and have a factory.
Accepted == registry \in Seq({d \in Definitions : d.create # "none"})

AccountInv == Accepted /\ \A s \in Sessions : Books(stores[s])

\* The limits are sizes.
LEMMA Sizes ==
  /\ ValueLimit \in Nat /\ ObjectLimit \in Nat /\ ByteLimit \in Nat /\ RecordCharge \in Nat
  /\ SizeModulus \in Nat /\ ByteLimit < SizeModulus
BY StoreAssumption

\* A registered class is one of the definitions.
LEMMA FindAccepted ==
  ASSUME Accepted, NEW name, Registered(name)
  PROVE  find(name) \in Definitions /\ find(name).create # "none" /\ find(name) \in ClassDefinitions
<1>1. PICK i \in DOMAIN registry : i = CHOOSE j \in DOMAIN registry : registry[j].name = name
  BY DEF Registered
<1>2. registry[i] \in {d \in Definitions : d.create # "none"}
  BY <1>1 DEF Accepted
<1> QED BY <1>1, <1>2, ContractAssumption DEF find

\* What a value or an object is charged is a size.
LEMMA ChargeIsSize ==
  ASSUME NEW v, Sized(v)
  PROVE  /\ value_bytes(v) \in Nat /\ ValueCharge(v) \in Nat
         /\ \A d \in ClassDefinitions : ObjectCharge(d, v) \in Nat
<1>1. value_bytes(v) \in Nat
  BY DEF Sized, Values, value_bytes, ScalarBytes
<1>2. ValueCharge(v) \in Nat
  BY <1>1, Sizes DEF ValueCharge
<1>3. ASSUME NEW d \in ClassDefinitions
      PROVE  ObjectCharge(d, v) \in Nat
  <2>1. d.nameBytes \in Nat /\ d.attributeBytes \in Nat
    BY DEF ClassDefinitions
  <2> QED BY <1>1, <2>1, Sizes DEF ObjectCharge, state_charge
<1> QED BY <1>1, <1>2, <1>3

\* The charges of a store whose books are right.
LEMMA ChargesType ==
  ASSUME Accepted, NEW store, Books(store)
  PROVE  /\ ValueCharges(store) \in [DOMAIN store.values -> Nat]
         /\ ObjectCharges(store) \in [DOMAIN store.objects -> Nat]
         /\ SumFunction(ValueCharges(store)) \in Nat
         /\ SumFunction(ObjectCharges(store)) \in Nat
         /\ store.used \in Nat
<1>1. ASSUME NEW id \in DOMAIN store.values
      PROVE  ValueCharge(store.values[id]) \in Nat
  BY ChargeIsSize DEF Books
<1>2. ASSUME NEW id \in DOMAIN store.objects
      PROVE  store.objects[id].charge \in Nat
  <2>1. PICK entry : entry = store.objects[id]
    OBVIOUS
  <2>2. Booked(entry)
    BY <2>1 DEF Books
  <2>3. PICK d : d = find(entry.class)
    OBVIOUS
  <2>4. d \in ClassDefinitions
    BY <2>2, <2>3, FindAccepted DEF Booked
  <2> QED BY <2>1, <2>2, <2>3, <2>4, ChargeIsSize DEF Booked
<1>3. ValueCharges(store) \in [DOMAIN store.values -> Nat]
  BY <1>1 DEF ValueCharges
<1>4. ObjectCharges(store) \in [DOMAIN store.objects -> Nat]
  BY <1>2 DEF ObjectCharges
<1>5. PICK f, g, V, W : f = ValueCharges(store) /\ g = ObjectCharges(store)
                        /\ V = DOMAIN store.values /\ W = DOMAIN store.objects
  OBVIOUS
<1>6. SumFunction(f) \in Nat /\ SumFunction(g) \in Nat
  BY <1>3, <1>4, <1>5, SumType DEF Books
<1> QED BY <1>3, <1>4, <1>5, <1>6 DEF Books

\* limits_.bytes - used_ does not wrap while used_ is within the limit.
LEMMA AvailableExact ==
  ASSUME NEW used \in Nat, used <= ByteLimit
  PROVE  Available(used) = ByteLimit - used
BY Sizes DEF Available

\* put_value: the books stay right.
LEMMA ValueRetained ==
  ASSUME Accepted, NEW store, Books(store), NEW id, id \notin DOMAIN store.values, NEW v, Sized(v),
         Cardinality(DOMAIN store.values) < ValueLimit, ValueCharge(v) <= Available(store.used),
         NEW after, after.values = Insert(store.values, id, v), after.objects = store.objects,
         after.used = store.used + ValueCharge(v)
  PROVE  Books(after)
<1>1. PICK V, f, g, charge :
        /\ V = DOMAIN store.values /\ f = ValueCharges(store) /\ g = ValueCharges(after)
        /\ charge = ValueCharge(v)
  OBVIOUS
<1>2. /\ IsFiniteSet(V) /\ f \in [V -> Nat] /\ charge \in Nat
      /\ SumFunction(f) \in Nat /\ SumFunction(ObjectCharges(store)) \in Nat
      /\ store.used \in Nat /\ store.used <= ByteLimit
  BY <1>1, ChargesType, ChargeIsSize DEF Books
<1>3. /\ DOMAIN after.values = V \cup {id}
      /\ after.values[id] = v /\ \A i \in V : after.values[i] = store.values[i]
  BY <1>1 DEF Insert
<1>4. g \in [V \cup {id} -> Nat] /\ g[id] = charge /\ \A i \in V : g[i] = f[i]
  BY <1>1, <1>2, <1>3 DEF ValueCharges
<1>5. SumFunction(g) = SumFunction(f) + g[id]
  <2>1. Extended(g, f, V, id)
    BY <1>1, <1>2, <1>4 DEF Extended
  <2> QED BY <2>1, SumExtended
<1>6. ObjectCharges(after) = ObjectCharges(store)
  BY DEF ObjectCharges
<1>7. store.used = SumFunction(f) + SumFunction(ObjectCharges(store))
  BY <1>1 DEF Books
<1>8. after.used = SumFunction(g) + SumFunction(ObjectCharges(after))
  BY <1>1, <1>2, <1>4, <1>5, <1>6, <1>7, SMTT(30)
<1>9. after.used <= ByteLimit
  BY <1>1, <1>2, AvailableExact, Sizes
<1>10. IsFiniteSet(DOMAIN after.values) /\ Cardinality(DOMAIN after.values) <= ValueLimit
  <2>1. IsFiniteSet(V \cup {id}) /\ Cardinality(V \cup {id}) = Cardinality(V) + 1
    BY <1>1, <1>2, FS_AddElement
  <2>2. Cardinality(V) \in Nat /\ Cardinality(V) < ValueLimit
    BY <1>1, <1>2, FS_CardinalityType
  <2> QED BY <1>3, <2>1, <2>2, Sizes
<1>11. \A i \in DOMAIN after.values : Sized(after.values[i])
  BY <1>1, <1>3, Zenon DEF Books
<1> QED BY <1>1, <1>8, <1>9, <1>10, <1>11 DEF Books

\* create_object: the books stay right.
LEMMA ObjectRetained ==
  ASSUME Accepted, NEW store, Books(store), NEW id, id \notin DOMAIN store.objects,
         NEW entry, Booked(entry), entry.charge \in Nat,
         Cardinality(DOMAIN store.objects) < ObjectLimit, entry.charge <= Available(store.used),
         NEW after, after.objects = Insert(store.objects, id, entry), after.values = store.values,
         after.used = store.used + entry.charge
  PROVE  Books(after)
<1>1. PICK W, f, g, charge :
        /\ W = DOMAIN store.objects /\ f = ObjectCharges(store) /\ g = ObjectCharges(after)
        /\ charge = entry.charge
  OBVIOUS
<1>2. /\ IsFiniteSet(W) /\ f \in [W -> Nat] /\ charge \in Nat
      /\ SumFunction(f) \in Nat /\ SumFunction(ValueCharges(store)) \in Nat
      /\ store.used \in Nat /\ store.used <= ByteLimit
  BY <1>1, ChargesType DEF Books
<1>3. /\ DOMAIN after.objects = W \cup {id}
      /\ after.objects[id] = entry /\ \A i \in W : after.objects[i] = store.objects[i]
  BY <1>1 DEF Insert
<1>4. g \in [W \cup {id} -> Nat] /\ g[id] = charge /\ \A i \in W : g[i] = f[i]
  BY <1>1, <1>2, <1>3 DEF ObjectCharges
<1>5. SumFunction(g) = SumFunction(f) + g[id]
  <2>1. Extended(g, f, W, id)
    BY <1>1, <1>2, <1>4 DEF Extended
  <2> QED BY <2>1, SumExtended
<1>6. ValueCharges(after) = ValueCharges(store)
  BY DEF ValueCharges
<1>7. store.used = SumFunction(ValueCharges(store)) + SumFunction(f)
  BY <1>1 DEF Books
<1>8. after.used = SumFunction(ValueCharges(after)) + SumFunction(g)
  BY <1>1, <1>2, <1>4, <1>5, <1>6, <1>7, SMTT(30)
<1>9. after.used <= ByteLimit
  BY <1>1, <1>2, AvailableExact, Sizes
<1>10. IsFiniteSet(DOMAIN after.objects) /\ Cardinality(DOMAIN after.objects) <= ObjectLimit
  <2>1. IsFiniteSet(W \cup {id}) /\ Cardinality(W \cup {id}) = Cardinality(W) + 1
    BY <1>1, <1>2, FS_AddElement, SMTT(30)
  <2>2. Cardinality(W) \in Nat /\ Cardinality(W) < ObjectLimit
    BY <1>1, <1>2, FS_CardinalityType
  <2> QED BY <1>3, <2>1, <2>2, Sizes
<1>11. \A i \in DOMAIN after.objects : Booked(after.objects[i])
  BY <1>1, <1>3, Zenon DEF Books
<1> QED BY <1>1, <1>8, <1>9, <1>10, <1>11 DEF Books

\* What is left of used_ once an object's charge is retired.
LEMMA RetainedExact ==
  ASSUME Accepted, NEW store, Books(store), NEW id \in DOMAIN store.objects
  PROVE  /\ store.objects[id].charge \in Nat
         /\ store.objects[id].charge <= SumFunction(ObjectCharges(store))
         /\ Retained(store, id) = store.used - store.objects[id].charge
         /\ Retained(store, id) \in Nat /\ Retained(store, id) <= ByteLimit
<1>1. PICK W, f, charge :
        W = DOMAIN store.objects /\ f = ObjectCharges(store) /\ charge = store.objects[id].charge
  OBVIOUS
<1>2. /\ IsFiniteSet(W) /\ f \in [W -> Nat] /\ id \in W
      /\ SumFunction(f) \in Nat /\ SumFunction(ValueCharges(store)) \in Nat
      /\ store.used \in Nat /\ store.used <= ByteLimit
  BY <1>1, ChargesType DEF Books
<1>3. f[id] = charge /\ charge \in Nat
  BY <1>1, <1>2 DEF ObjectCharges
<1>4. f[id] <= SumFunction(f)
  BY <1>2, SumUpdate
<1>5. store.used = SumFunction(ValueCharges(store)) + SumFunction(f)
  BY <1>1 DEF Books
<1>6. charge <= store.used
  BY <1>2, <1>3, <1>4, <1>5
<1>7. Retained(store, id) = (store.used - charge) % SizeModulus
  BY <1>1 DEF Retained
<1>8. (store.used - charge) % SizeModulus = store.used - charge
  BY <1>2, <1>3, <1>6, Sizes, SMTT(30)
<1> QED BY <1>1, <1>2, <1>3, <1>4, <1>6, <1>7, <1>8, Sizes

\* release_object: the books stay right.
LEMMA ObjectReleased ==
  ASSUME Accepted, NEW store, Books(store), NEW id \in DOMAIN store.objects,
         NEW after, after.values = store.values, after.objects = Restrict(store.objects, DOMAIN store.objects \ {id}),
         after.used = Retained(store, id)
  PROVE  Books(after)
<1>1. PICK W, f, g :
        /\ W = DOMAIN store.objects /\ f = ObjectCharges(store) /\ g = ObjectCharges(after)
  OBVIOUS
<1>2. /\ IsFiniteSet(W) /\ f \in [W -> Nat] /\ id \in W
      /\ SumFunction(f) \in Nat /\ SumFunction(ValueCharges(store)) \in Nat
      /\ store.used \in Nat /\ store.used <= ByteLimit
  BY <1>1, ChargesType DEF Books
<1>3. DOMAIN after.objects = W \ {id} /\ \A i \in W \ {id} : after.objects[i] = store.objects[i]
  BY <1>1 DEF Restrict
<1>4. g \in [W \ {id} -> Nat] /\ \A i \in W \ {id} : g[i] = f[i]
  BY <1>1, <1>2, <1>3, Zenon DEF ObjectCharges
<1>5. PICK R : R = W \ {id}
  BY Zenon
<1>6. SumFunction(f) = SumFunction(g) + f[id] /\ f[id] \in Nat /\ SumFunction(g) \in Nat
  <2>1. IsFiniteSet(R) /\ R \cup {id} = W
    BY <1>2, <1>5, FS_RemoveElement
  <2>2. Extended(f, g, R, id)
    BY <1>2, <1>4, <1>5, <2>1 DEF Extended
  <2> QED BY <2>2, SumExtended
<1>7. store.used = SumFunction(ValueCharges(store)) + SumFunction(f)
  BY <1>1 DEF Books
<1>8. f[id] = store.objects[id].charge
  BY <1>1, <1>2 DEF ObjectCharges
<1>9. after.used = store.used - f[id] /\ after.used <= ByteLimit
  BY <1>8, RetainedExact
<1>10. ValueCharges(after) = ValueCharges(store)
  BY DEF ValueCharges
<1>11. after.used = SumFunction(ValueCharges(after)) + SumFunction(g)
  BY <1>2, <1>6, <1>7, <1>9, <1>10
<1>12. IsFiniteSet(DOMAIN after.objects) /\ Cardinality(DOMAIN after.objects) <= ObjectLimit
  <2>1. IsFiniteSet(W \ {id}) /\ Cardinality(W \ {id}) = Cardinality(W) - 1
    BY <1>1, <1>2, FS_RemoveElement, Zenon
  <2>2. Cardinality(W) \in Nat /\ Cardinality(W) <= ObjectLimit
    BY <1>1, <1>2, FS_CardinalityType DEF Books
  <2> QED BY <1>3, <2>1, <2>2, Sizes
<1>13. \A i \in DOMAIN after.objects : Booked(after.objects[i])
  BY <1>1, <1>3, Zenon DEF Books
<1> QED BY <1>1, <1>9, <1>11, <1>12, <1>13 DEF Books

\* invoke_method: the books stay right when the candidate replaces the object.
LEMMA CandidatePublished ==
  ASSUME Accepted, NEW store, Books(store), NEW id \in DOMAIN store.objects,
         NEW charge \in Nat, GrowthPermitted(store, id, charge),
         NEW after, after.values = store.values, DOMAIN after.objects = DOMAIN store.objects,
         \A i \in DOMAIN store.objects \ {id} : after.objects[i] = store.objects[i],
         Booked(after.objects[id]), after.objects[id].charge = charge,
         after.used = Retained(store, id) + charge
  PROVE  Books(after)
<1>1. PICK W, f, g :
        /\ W = DOMAIN store.objects /\ f = ObjectCharges(store) /\ g = ObjectCharges(after)
  OBVIOUS
<1>2. /\ IsFiniteSet(W) /\ f \in [W -> Nat] /\ id \in W
      /\ SumFunction(f) \in Nat /\ SumFunction(ValueCharges(store)) \in Nat
      /\ store.used \in Nat /\ store.used <= ByteLimit
  BY <1>1, ChargesType DEF Books
<1>4. g \in [W -> Nat] /\ (\A i \in W \ {id} : g[i] = f[i]) /\ g[id] = charge
  BY <1>1, <1>2 DEF ObjectCharges
<1>5. f[id] <= SumFunction(f) /\ SumFunction(g) = (SumFunction(f) - f[id]) + charge /\ f[id] \in Nat
  BY <1>2, <1>4, SumUpdate, SMTT(30)
<1>7. store.used = SumFunction(ValueCharges(store)) + SumFunction(f)
  BY <1>1 DEF Books
<1>8. f[id] = store.objects[id].charge
  BY <1>1, <1>2 DEF ObjectCharges
<1>9. /\ Retained(store, id) = store.used - f[id]
      /\ Retained(store, id) \in Nat /\ Retained(store, id) <= ByteLimit
  BY <1>8, RetainedExact
<1>10. ValueCharges(after) = ValueCharges(store)
  BY DEF ValueCharges
<1>11. after.used = SumFunction(ValueCharges(after)) + SumFunction(g)
  BY <1>2, <1>5, <1>7, <1>9, <1>10
<1>12. after.used <= ByteLimit
  <2>1. PICK kept \in Nat : kept = Retained(store, id) /\ kept <= ByteLimit
    BY <1>9
  <2>2. charge <= ByteLimit - kept
    BY <2>1, AvailableExact DEF GrowthPermitted
  <2> QED BY <2>1, <2>2, Sizes
<1>13. \A i \in DOMAIN after.objects : Booked(after.objects[i])
  BY <1>1, Zenon DEF Books
<1> QED BY <1>1, <1>11, <1>12, <1>13 DEF Books
=============================================================================
