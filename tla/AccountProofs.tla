--------------------------- MODULE AccountProofs ----------------------------
(***************************************************************************)
(* The operations of the session store keep its books: used_ is exactly    *)
(* the cost of what the store retains, and never more than the quotas, for *)
(* every set of values, classes, plug-ins and quotas.                      *)
(***************************************************************************)
EXTENDS StoreProofs

-----------------------------------------------------------------------------
(* The operations keep the books. *)

\* An operation of session s leaves the registry and the other sessions alone, and the books
\* of s right.
KeepsBooks(s) ==
  /\ registry' = registry
  /\ \A t \in Sessions \ {s} : stores'[t] = stores[t]
  /\ \E after : after = stores'[s] /\ Books(after)

\* What a class means to its objects depends on the registry alone.
LEMMA BooksStable ==
  ASSUME registry' = registry, NEW store, Books(store)
  PROVE  Books(store)'
<1>1. ASSUME NEW entry, Booked(entry) PROVE Booked(entry)'
  <2>1. Registered(entry.class)' /\ find(entry.class)' = find(entry.class)
    BY <1>1, Zenon DEF Booked, Registered, find
  <2> QED BY <1>1, <2>1, Zenon DEF Booked
<1> QED BY <1>1, Zenon DEF Books, ValueCharges, ObjectCharges

\* So the invariant is kept.
LEMMA KeepsBooksKeeps ==
  ASSUME AccountInv, NEW s \in Sessions, KeepsBooks(s)
  PROVE  AccountInv'
<1>1. ASSUME NEW t \in Sessions
      PROVE  Books(stores[t])'
  <2>1. PICK store : store = stores'[t]
    OBVIOUS
  <2>2. Books(store)
    BY <2>1, Zenon DEF AccountInv, KeepsBooks
  <2>3. Books(store)'
    BY <2>2, BooksStable, Zenon DEF KeepsBooks
  <2> QED BY <2>1, <2>3
<1>2. Accepted'
  BY DEF AccountInv, Accepted, KeepsBooks
<1> QED BY <1>1, <1>2 DEF AccountInv

\* An operation that is refused or only reads.
LEMMA ReadsKeepsBooks ==
  ASSUME AccountInv, NEW s \in Sessions, Reads(s)
  PROVE  KeepsBooks(s)
<1>1. registry' = registry /\ stores' = stores
  BY DEF Reads, domainVars, registryVars
<1> QED BY <1>1, Zenon DEF AccountInv, KeepsBooks

\* The next identity is not in use.
LEMMA NextIsFresh ==
  ASSUME StoreInv, NEW s \in Sessions, next # 0
  PROVE  next \notin DOMAIN stores[s].values /\ next \notin DOMAIN stores[s].objects
BY StoreAssumption, SMTT(30) DEF StoreInv, Shapes, Ownership, Held, Issued, Identifiers

\* What Retain does to the store of s when it is not refused.
LEMMA RetainStores ==
  ASSUME StoreInv, NEW s \in Sessions, NEW repository \in {"values", "objects"}, NEW record, NEW charge,
         NEW outcome, Retain(s, repository, record, charge, outcome), ~(\E code : Refuse(s, code))
  PROVE  /\ registry' = registry /\ next # 0 /\ charge <= Available(stores[s].used)
         /\ \A t \in Sessions \ {s} : stores'[t] = stores[t]
         /\ stores'[s].used = stores[s].used + charge
         /\ \/ /\ repository = "values" /\ stores'[s].objects = stores[s].objects
               /\ stores'[s].values = Insert(stores[s].values, next, record)
            \/ /\ repository = "objects" /\ stores'[s].values = stores[s].values
               /\ stores'[s].objects = Insert(stores[s].objects, next, record)
<1>1. /\ charge <= Available(stores[s].used) /\ next # 0 /\ UNCHANGED <<registryVars, epoch>>
      /\ stores' = [stores EXCEPT ![s][repository] = Insert(@, next, record), ![s].used = @ + charge]
  BY Zenon DEF Retain
<1>2. DOMAIN stores = Sessions /\ DOMAIN stores[s] = Fields
  BY DEF StoreInv, Shapes
<1>3. CASE repository = "values"
  BY <1>1, <1>2, <1>3, SMTT(30) DEF registryVars, Fields
<1>4. CASE repository = "objects"
  BY <1>1, <1>2, <1>4, SMTT(30) DEF registryVars, Fields
<1> QED BY <1>3, <1>4

\* A plug-in makes a state from the values that exist.
LEMMA PluginState ==
  ASSUME NEW made \in PluginOutcomes
  PROVE  made.state \in Offered \cup {NoValue}
<1>1. CASE made \in UNION {Failed(code) : code \in {"null", "not_found", "unlisted"}}
  BY <1>1, SMTT(30) DEF Failed, Outcome
<1>2. CASE made \in {Outcome("ok", state, value) : state, value \in Offered \cup {NoValue}}
  BY <1>2, SMTT(30) DEF Outcome
<1> QED BY <1>1, <1>2, SMTT(30) DEF PluginOutcomes

\* put_value.
LEMMA PutKeepsBooks ==
  ASSUME StoreInv, AccountInv, NEW s \in Sessions, NEW v, Sized(v), PutValue(s, v)
  PROVE  KeepsBooks(s)
<1>1. CASE \E code : Refuse(s, code)
  BY <1>1, RefusalReads, ReadsKeepsBooks
<1>2. CASE ~(\E code : Refuse(s, code))
  <2>1. /\ ~(Cardinality(DOMAIN stores[s].values) >= ValueLimit)
        /\ Retain(s, "values", v, ValueCharge(v), value_record(next, v))
    BY <1>2, Zenon DEF PutValue
  <2>2. PICK charge, outcome, store, after, id :
          /\ charge = ValueCharge(v) /\ outcome = value_record(next, v)
          /\ store = stores[s] /\ after = stores'[s] /\ id = next
    OBVIOUS
  <2>3. Retain(s, "values", v, charge, outcome)
    BY <2>1, <2>2, SMTT(30)
  <2>4. /\ registry' = registry /\ next # 0 /\ charge <= Available(store.used)
        /\ \A t \in Sessions \ {s} : stores'[t] = stores[t]
        /\ after.values = Insert(store.values, id, v) /\ after.objects = store.objects
        /\ after.used = store.used + charge
    BY <1>2, <2>2, <2>3, RetainStores, SMTT(30)
  <2>5. Accepted /\ Books(store) /\ id \notin DOMAIN store.values
    BY <2>2, <2>4, NextIsFresh DEF AccountInv
  <2>6. Cardinality(DOMAIN store.values) < ValueLimit
    <3>1. Cardinality(DOMAIN store.values) \in Nat
      BY <2>5, FS_CardinalityType, SMTT(30) DEF Books
    <3> QED BY <2>1, <2>2, <3>1, Sizes, SMTT(30)
  <2>7. Books(after)
    BY <2>2, <2>4, <2>5, <2>6, ValueRetained, SMTT(30)
  <2> QED BY <2>2, <2>4, <2>7, Zenon DEF KeepsBooks
<1> QED BY <1>1, <1>2

\* create_object: what a factory makes is charged for what it is.
LEMMA CreateKeepsBooks ==
  ASSUME StoreInv, AccountInv, NEW s \in Sessions, NEW name, NEW initial \in Offered \cup {NoValue},
         CreateObject(s, name, initial)
  PROVE  KeepsBooks(s)
<1>1. CASE \E code : Refuse(s, code)
  BY <1>1, RefusalReads, ReadsKeepsBooks
<1>2. CASE ~(\E code : Refuse(s, code))
  <2>1. PICK made \in CreateOutcomes(find(name), initial) :
          /\ Registered(name) /\ ~(Cardinality(DOMAIN stores[s].objects) >= ObjectLimit)
          /\ state_matches(find(name), made.state)
          /\ Retain(s, "objects", [class |-> name, state |-> made.state,
                                   charge |-> ObjectCharge(find(name), made.state)],
                    ObjectCharge(find(name), made.state), object_snapshot(next, name, made.state))
    BY <1>2, Zenon DEF CreateObject
  <2>2. PICK charge, outcome, store, after, id, entry, d :
          /\ d = find(name) /\ charge = ObjectCharge(d, made.state)
          /\ outcome = object_snapshot(next, name, made.state)
          /\ entry = [class |-> name, state |-> made.state, charge |-> charge]
          /\ store = stores[s] /\ after = stores'[s] /\ id = next
    BY Zenon
  <2>3. Retain(s, "objects", entry, charge, outcome)
    BY <2>1, <2>2, Zenon
  <2>4. /\ registry' = registry /\ next # 0 /\ charge <= Available(store.used)
        /\ \A t \in Sessions \ {s} : stores'[t] = stores[t]
        /\ after.objects = Insert(store.objects, id, entry) /\ after.values = store.values
        /\ after.used = store.used + charge
    BY <1>2, <2>2, <2>3, RetainStores, SMTT(30)
  <2>5. Accepted /\ Books(store) /\ id \notin DOMAIN store.objects
    BY <2>2, <2>4, NextIsFresh, SMTT(30) DEF AccountInv
  <2>6. Cardinality(DOMAIN store.objects) < ObjectLimit
    <3>1. Cardinality(DOMAIN store.objects) \in Nat
      BY <2>5, FS_CardinalityType, SMTT(30) DEF Books
    <3> QED BY <2>1, <2>2, <3>1, Sizes, SMTT(30)
  <2>7. d \in ClassDefinitions
    BY <2>1, <2>2, <2>5, FindAccepted
  <2>8. made.state \in Offered \cup {NoValue}
    <3>1. CASE find(name).create = "plugin"
      <4>1. made \in PluginOutcomes
        BY <2>1, <3>1 DEF CreateOutcomes
      <4> QED BY <4>1, PluginState, Zenon
    <3>2. CASE find(name).create # "plugin"
      BY <2>1, <3>2, SMTT(30) DEF CreateOutcomes, Outcome
    <3> QED BY <3>1, <3>2
  <2>9. made.state \in Offered
    BY <2>1, <2>8 DEF state_matches, valid_value, NoValue, Kinds
  <2>10. Sized(made.state) /\ (made.state.kind = "integer" => made.state.n \in IntMin..IntMax)
    BY <2>9, StoreAssumption, KindsAssumption, SMTT(30) DEF Sized, IntMin
  <2>11. d.create = "counter" => made.state.kind = "integer"
    <3>1. d \in Definitions
      BY <2>1, <2>2, <2>5, FindAccepted, SMTT(30)
    <3> QED BY <2>1, <2>2, <3>1, KindsAssumption, SMTT(30) DEF state_matches
  <2>12. charge \in Nat
    BY <2>2, <2>7, <2>10, ChargeIsSize, SMTT(30)
  <2>13. /\ entry.class = name /\ entry.state = made.state /\ entry.charge = charge
    BY <2>2
  <2>14. Booked(entry)
    BY <2>1, <2>2, <2>10, <2>11, <2>13, Zenon DEF Booked
  <2>15. Books(after)
    BY <2>4, <2>5, <2>6, <2>12, <2>13, <2>14, ObjectRetained, SMTT(30)
  <2> QED BY <2>2, <2>4, <2>15, Zenon DEF KeepsBooks
<1> QED BY <1>1, <1>2

\* release_object.
LEMMA ReleaseKeepsBooks ==
  ASSUME StoreInv, AccountInv, NEW s \in Sessions, NEW id, ReleaseObject(s, id)
  PROVE  KeepsBooks(s)
<1>1. CASE \E code : Refuse(s, code)
  BY <1>1, RefusalReads, ReadsKeepsBooks
<1>2. CASE ~(\E code : Refuse(s, code))
  <2>1. /\ id \in DOMAIN stores[s].objects
        /\ stores' = [stores EXCEPT ![s] = Discharge(@, id)]
        /\ UNCHANGED <<registryVars, next, epoch, owner>>
    BY <1>2, Zenon DEF ReleaseObject
  <2>2. PICK store, after : store = stores[s] /\ after = Discharge(store, id)
    OBVIOUS
  <2>3. DOMAIN stores = Sessions /\ DOMAIN store = Fields
    BY <2>2 DEF StoreInv, Shapes
  <2>4. /\ registry' = registry /\ after = stores'[s]
        /\ \A t \in Sessions \ {s} : stores'[t] = stores[t]
    BY <2>1, <2>2, <2>3 DEF registryVars
  <2>5. /\ after.values = store.values /\ after.used = Retained(store, id)
        /\ after.objects = Restrict(store.objects, DOMAIN store.objects \ {id})
    BY <2>2, <2>3 DEF Discharge, Fields
  <2>6. Accepted /\ Books(store) /\ id \in DOMAIN store.objects
    BY <2>1, <2>2 DEF AccountInv
  <2>7. Books(after)
    BY <2>5, <2>6, ObjectReleased, SMTT(30)
  <2> QED BY <2>4, <2>7, Zenon DEF KeepsBooks
<1> QED BY <1>1, <1>2

\* The sum of an increment fits an int64_t, and is the mathematical sum if the guard lets it through.
LEMMA WrapRange ==
  ASSUME NEW n \in Int
  PROVE  Wrap(n) \in IntMin..IntMax /\ (n \in IntMin..IntMax => Wrap(n) = n)
<1>1. PICK m : m = IntMax
  OBVIOUS
<1>2. m \in Nat
  BY <1>1, StoreAssumption
<1>3. PICK w : w = 2 * m + 2
  OBVIOUS
<1>4. w \in Nat /\ w > 0 /\ IntMin = -m - 1 /\ IntMax - IntMin + 1 = w
  BY <1>1, <1>2, <1>3 DEF IntMin
<1>5. PICK k : k = n + m + 1
  OBVIOUS
<1>6. k \in Int /\ n - IntMin = k
  BY <1>2, <1>4, <1>5
<1>7. Wrap(n) = (-m - 1) + (k % w)
  BY <1>4, <1>6, Zenon DEF Wrap
<1>8. k % w \in 0..(w - 1) /\ (k \in 0..(w - 1) => k % w = k)
  BY <1>4, <1>6
<1>9. /\ Wrap(n) \in (-m - 1)..m
      /\ n \in (-m - 1)..m => Wrap(n) = n
  BY <1>2, <1>3, <1>5, <1>7, <1>8, SMTT(30)
<1> QED BY <1>1, <1>4, <1>9

\* What a method makes of the state of a retained object, when its result is accepted.
LEMMA InvokedState ==
  ASSUME AccountInv, NEW entry, Booked(entry), Matching(entry), NEW argument \in Offered \cup {NoValue},
         NEW d, d = find(entry.class), valid_arguments(argument, d.parameter),
         NEW made \in InvokeOutcomes(d, entry.state, argument), made.code = "ok",
         state_matches(d, made.state)
  PROVE  Sized(made.state) /\ (d.create = "counter" => made.state.n \in IntMin..IntMax)
<1>1. d \in Definitions /\ d.create # "none" /\ d \in ClassDefinitions
  BY FindAccepted, SMTT(30) DEF AccountInv, Booked
<1>2. argument \in Offered /\ argument \in Values
  BY StoreAssumption, SMTT(30) DEF valid_arguments, valid_value, NoValue, Kinds
<1>3. Sized(entry.state) /\ entry.state.kind = d.attribute
  BY DEF Booked, Matching, state_matches
<1>4. CASE d.create = "counter"
  <2>1. made \in Increment(entry.state, argument)
    BY <1>4 DEF InvokeOutcomes
  <2>2. PICK n \in Int : n = entry.state.n + argument.n
    BY <1>2, <1>3, SMTT(30) DEF Sized, Values
  <2>3. made.state = IntegerValue(Wrap(n))
    BY <2>1, <2>2, SMTT(30) DEF Increment, Failed, Outcome
  <2>4. Wrap(n) \in IntMin..IntMax /\ Wrap(n) \in Int
    BY WrapRange, StoreAssumption, SMTT(30) DEF IntMin
  <2>5. made.state.n \in IntMin..IntMax /\ made.state \in Values /\ made.state.kind = "integer"
    BY <2>3, <2>4, SMTT(30) DEF IntegerValue, Values, Kinds
  <2> QED BY <2>5 DEF Sized
<1>5. CASE d.create = "text_buffer"
  <2>1. made \in AppendText(entry.state, argument)
    BY <1>5, SMTT(30) DEF InvokeOutcomes
  <2>2. argument.kind = "text" /\ entry.state.kind = "text"
    BY <1>1, <1>3, <1>5, KindsAssumption, SMTT(30) DEF valid_arguments
  <2>3. argument.n \in Nat /\ entry.state.n \in Nat /\ entry.state \in Values
    BY <1>2, <1>3, <2>2, KindsAssumption DEF Sized, Values
  <2>4. made.state = [entry.state EXCEPT !.n = @ + argument.n]
    BY <2>1 DEF AppendText, Failed, Outcome
  <2>5. made.state \in Values /\ made.state.n \in Nat
    BY <2>3, <2>4, SMTT(30) DEF Values
  <2> QED BY <1>5, <2>5 DEF Sized
<1>6. CASE d.create = "plugin"
  <2>1. made \in PluginOutcomes
    BY <1>6 DEF InvokeOutcomes
  <2>2. made.state \in Offered \cup {NoValue}
    BY <2>1, PluginState, SMTT(30)
  <2>3. made.state \in Offered
    BY <2>2 DEF state_matches, valid_value, NoValue, Kinds
  <2> QED BY <1>6, <2>3, StoreAssumption, KindsAssumption DEF Sized
<1> QED BY <1>1, <1>4, <1>5, <1>6, SMTT(30) DEF ClassDefinitions, Factories

\* invoke_method.
LEMMA InvokeKeepsBooks ==
  ASSUME StoreInv, AccountInv, NEW s \in Sessions, NEW id, NEW name, NEW argument \in Offered \cup {NoValue},
         InvokeMethod(s, id, name, argument)
  PROVE  KeepsBooks(s)
<1>1. CASE \E code : Refuse(s, code)
  BY <1>1, RefusalReads, ReadsKeepsBooks
<1>2. CASE ~(\E code : Refuse(s, code))
  <2>1. PICK store, entry, d :
          store = stores[s] /\ entry = store.objects[id] /\ d = find(entry.class)
    OBVIOUS
  <2>2. PICK made \in InvokeOutcomes(d, entry.state, argument) :
          /\ id \in DOMAIN store.objects /\ valid_arguments(argument, d.parameter)
          /\ made.code = "ok" /\ ValidResult(d, made)
          /\ GrowthPermitted(store, id, ObjectCharge(d, made.state))
          /\ stores' = [stores EXCEPT ![s] = PublishCandidate(@, id, made.state, ObjectCharge(d, made.state))]
          /\ UNCHANGED <<registryVars, next, epoch, owner>>
    BY <1>2, <2>1, ZenonT(40) DEF InvokeMethod
  <2>3. PICK state, charge, after :
          /\ state = made.state /\ charge = ObjectCharge(d, state)
          /\ after = PublishCandidate(store, id, state, charge)
    OBVIOUS
  <2>4. DOMAIN stores = Sessions /\ DOMAIN store = Fields
    BY <2>1 DEF StoreInv, Shapes
  <2>5. /\ registry' = registry /\ after = stores'[s]
        /\ \A t \in Sessions \ {s} : stores'[t] = stores[t]
    BY <2>1, <2>2, <2>3, <2>4, SMTT(30) DEF registryVars
  <2>6. Accepted /\ Books(store) /\ Booked(entry) /\ Matching(entry) /\ DOMAIN entry = EntryFields
    BY <2>1, <2>2, ZenonT(40) DEF AccountInv, Books, StoreInv, Conforming, Entries, Matching
  <2>7. state_matches(d, state)
    BY <2>2, <2>3, ZenonT(40) DEF ValidResult
  <2>8. Sized(state) /\ (d.create = "counter" => state.n \in IntMin..IntMax)
    BY <2>1, <2>2, <2>3, <2>6, <2>7, InvokedState, ZenonT(40)
  <2>9. charge \in Nat
    <3>1. d \in ClassDefinitions
      BY <2>1, <2>6, FindAccepted, Zenon DEF Booked
    <3> QED BY <2>3, <2>8, <3>1, ChargeIsSize, ZenonT(40)
  <2>10. /\ after.values = store.values /\ after.used = Retained(store, id) + charge
         /\ DOMAIN after.objects = DOMAIN store.objects
         /\ \A i \in DOMAIN store.objects \ {id} : after.objects[i] = store.objects[i]
         /\ after.objects[id].class = entry.class /\ after.objects[id].state = state
         /\ after.objects[id].charge = charge
    BY <2>1, <2>2, <2>3, <2>4, <2>6, SMTT(30) DEF PublishCandidate, Fields, EntryFields
  <2>11. Booked(after.objects[id])
    BY <2>1, <2>3, <2>6, <2>8, <2>10, Zenon DEF Booked
  <2>12. GrowthPermitted(store, id, charge)
    BY <2>2, <2>3, SMTT(30)
  <2>13. Books(after)
    BY <2>2, <2>6, <2>9, <2>10, <2>11, <2>12, CandidatePublished, SMTT(30)
  <2> QED BY <2>5, <2>13, Zenon DEF KeepsBooks
<1> QED BY <1>1, <1>2

\* A slot that is opened or closed has nothing to pay for.
LEMMA LifetimeKeepsBooks ==
  ASSUME StoreInv, AccountInv, NEW s \in Sessions, Open(s) \/ Close(s)
  PROVE  KeepsBooks(s)
<1>1. PICK after : after = stores'[s]
  OBVIOUS
<1>2. /\ registry' = registry /\ \A t \in Sessions \ {s} : stores'[t] = stores[t]
      /\ DOMAIN after.values = {} /\ DOMAIN after.objects = {} /\ after.used = 0
  BY <1>1 DEF Open, Close, registryVars, StoreInv, Shapes, ClosedStore, FreshStore, EmptyRepository
<1>3. PICK f, g : f = ValueCharges(after) /\ g = ObjectCharges(after)
  OBVIOUS
<1>4. f \in [{} -> Nat] /\ g \in [{} -> Nat]
  BY <1>2, <1>3 DEF ValueCharges, ObjectCharges
<1>5. SumFunction(f) = 0 /\ SumFunction(g) = 0
  BY <1>4, SumEmpty, Zenon
<1>6. IsFiniteSet({}) /\ Cardinality({}) = 0
  BY FS_EmptySet
<1>7. Books(after)
  BY <1>2, <1>3, <1>5, <1>6, Sizes DEF Books
<1> QED BY <1>1, <1>2, <1>7, Zenon DEF KeepsBooks

\* The registry accepts only what it is offered, and only with a factory.
LEMMA RegisterKeepsBooks ==
  ASSUME StoreInv, AccountInv, offered \subseteq Definitions, NEW d \in offered, Register(d)
  PROVE  AccountInv'
<1>1. stores' = stores /\ \A s \in Sessions : Held(s) = {}
  BY DEF Register, StoreInv, Startup, Ownership
<1>2. Accepted'
  <2>1. CASE registry' = registry
    BY <2>1 DEF AccountInv, Accepted
  <2>2. CASE acceptable(d) /\ registry' = Inserted(LowerBound(d.name), d)
    <3>1. PICK D, q, k : /\ D = {e \in Definitions : e.create # "none"}
                         /\ q = registry /\ k = LowerBound(d.name)
      BY Zenon
    <3>2. q \in Seq(D) /\ d \in D
      BY <2>2, <3>1 DEF AccountInv, Accepted, acceptable
    <3>3. k \in 1..(Len(q) + 1)
      <4>1. PICK below : below = {i \in DOMAIN q : q[i].name < d.name}
        BY Zenon
      <4>2. IsFiniteSet(1..Len(q)) /\ Cardinality(1..Len(q)) = Len(q)
        <5>1. Len(q) \in Nat
          BY <3>2
        <5> QED BY <5>1, FS_Interval, SMTT(30)
      <4>3. below \in SUBSET (1..Len(q))
        BY <3>2, <4>1
      <4>4. Cardinality(below) \in Nat /\ Cardinality(below) <= Len(q)
        BY <4>2, <4>3, FS_Subset, FS_CardinalityType, Zenon
      <4>5. k = Cardinality(below) + 1
        BY <3>1, <4>1, Zenon DEF LowerBound
      <4>6. Len(q) \in Nat
        BY <3>2
      <4> QED BY <4>4, <4>5, <4>6
    <3>4. SubSeq(q, 1, k - 1) \in Seq(D) /\ <<d>> \in Seq(D) /\ SubSeq(q, k, Len(q)) \in Seq(D)
      BY <3>2, <3>3
    <3>5. Inserted(k, d) \in Seq(D)
      BY <3>1, <3>4 DEF Inserted
    <3> QED BY <2>2, <3>1, <3>5 DEF Accepted
  <2> QED BY <2>1, <2>2 DEF Register, Add
<1>3. ASSUME NEW s \in Sessions
      PROVE  Books(stores[s])'
  <2>1. PICK store : store = stores[s]
    OBVIOUS
  <2>2. Books(store) /\ DOMAIN store.objects = {}
    BY <1>1, <2>1, SMTT(30) DEF AccountInv, Held
  <2>3. Books(store)'
    BY <2>2 DEF Books, ValueCharges, ObjectCharges
  <2>4. store = stores'[s]
    BY <1>1, <2>1
  <2> QED BY <2>3, <2>4
<1> QED BY <1>2, <1>3 DEF AccountInv

\* Every operation keeps the books.
LEMMA OperationKeepsBooks ==
  ASSUME StoreInv, AccountInv, NEW s \in Sessions, Operation(s)
  PROVE  KeepsBooks(s)
<1>1. CASE \E id, name, limit :
        \/ AccessDenied(s) \/ DescribeClass(s, name) \/ ListClasses(s, name, limit)
        \/ GetValue(s, id) \/ GetObject(s, id) \/ GetAttribute(s, id, name)
        \/ ListValues(s, id, limit)
  BY <1>1, ReadEffect, ReadsKeepsBooks
<1>2. ASSUME NEW v \in Offered, PutValue(s, v)
      PROVE  KeepsBooks(s)
  <2>1. Sized(v)
    BY StoreAssumption, KindsAssumption DEF Sized
  <2> QED BY <1>2, <2>1, PutKeepsBooks, SMTT(30)
<1> QED BY <1>1, <1>2, CreateKeepsBooks, ReleaseKeepsBooks, InvokeKeepsBooks, ZenonT(40) DEF Operation

\* The registry is offered definitions only; the store's invariant; the books.
LedgerInv == StoreInv /\ AccountInv /\ offered \subseteq Definitions

\* It holds when the server starts.
LEMMA LedgerInit == Init => LedgerInv
<1> SUFFICES ASSUME Init PROVE AccountInv /\ offered \subseteq Definitions
  BY InitHolds DEF LedgerInv
<1>1. registry = <<>> /\ offered = Definitions
  BY DEF Init, RegistryInit
<1>2. ASSUME NEW s \in Sessions PROVE Books(stores[s])
  <2>1. PICK store : store = stores[s]
    OBVIOUS
  <2>2. DOMAIN store.values = {} /\ DOMAIN store.objects = {} /\ store.used = 0
    BY <2>1 DEF Init, ClosedStore, FreshStore, EmptyRepository
  <2>3. PICK f, g : f = ValueCharges(store) /\ g = ObjectCharges(store)
    OBVIOUS
  <2>4. f \in [{} -> Nat] /\ g \in [{} -> Nat]
    BY <2>2, <2>3 DEF ValueCharges, ObjectCharges
  <2>5. SumFunction(f) = 0 /\ SumFunction(g) = 0
    BY <2>4, SumEmpty, Zenon
  <2>6. IsFiniteSet({}) /\ Cardinality({}) = 0
    BY FS_EmptySet
  <2>7. Books(store)
    BY <2>2, <2>3, <2>5, <2>6, Sizes DEF Books
  <2> QED BY <2>1, <2>7
<1> QED BY <1>1, <1>2 DEF AccountInv, Accepted

\* Every step keeps it.
LEMMA LedgerStep ==
  ASSUME LedgerInv, [Next]_vars
  PROVE  LedgerInv'
<1>0. StoreInv' /\ StoreInv /\ AccountInv /\ offered \subseteq Definitions
  BY StepKeeps DEF LedgerInv
<1>1. CASE UNCHANGED vars
  <2>1. stores' = stores /\ registry' = registry /\ offered' = offered
    BY <1>1 DEF vars, registryVars
  <2>2. ASSUME NEW s \in Sessions PROVE Books(stores[s])'
    <3>1. PICK store : store = stores[s]
      OBVIOUS
    <3>2. Books(store)'
      BY <1>0, <2>1, <3>1, BooksStable DEF AccountInv
    <3> QED BY <2>1, <3>1, <3>2
  <2>3. AccountInv'
    BY <1>0, <2>1, <2>2, SMTT(30) DEF AccountInv, Accepted
  <2> QED BY <1>0, <2>1, <2>3 DEF LedgerInv
<1>2. ASSUME NEW d \in offered, Register(d)
      PROVE  LedgerInv'
  BY <1>0, <1>2, RegisterKeepsBooks DEF LedgerInv, Register, Add
<1>3. ASSUME NEW s \in Sessions, Open(s) \/ Close(s) \/ Operation(s)
      PROVE  LedgerInv'
  <2>1. AccountInv'
    BY <1>0, <1>3, LifetimeKeepsBooks, OperationKeepsBooks, KeepsBooksKeeps, SMTT(30)
  <2>2. offered' = offered
    <3>1. ASSUME Operation(s) PROVE offered' = offered
      BY <1>0, <3>1, OperationEffect, Zenon DEF Effect, Reads, Retains, Rewrites, domainVars, registryVars
    <3>2. ASSUME Open(s) \/ Close(s) PROVE offered' = offered
      BY <3>2 DEF Open, Close, registryVars
    <3> QED BY <1>3, <3>1, <3>2
  <2> QED BY <1>0, <2>1, <2>2 DEF LedgerInv
<1> QED BY <1>1, <1>2, <1>3, StepKinds, Zenon

-----------------------------------------------------------------------------
\* The inductive invariant of the books holds throughout.
THEOREM LedgerInvariance == Spec => []LedgerInv
BY LedgerInit, LedgerStep, PTL DEF Spec

\* used_ is exactly what a session retains, for every history of puts, creations, growing and
\* shrinking invocations, releases and closes, and whatever plug-ins answer.
THEOREM AccountingSafety == Spec => []AccountingExact
<1>1. ASSUME LedgerInv PROVE AccountingExact
  <2> SUFFICES ASSUME NEW s \in Sessions
               PROVE  /\ \A id \in DOMAIN stores[s].objects :
                           stores[s].objects[id].charge
                             = ObjectCharge(find(stores[s].objects[id].class), stores[s].objects[id].state)
                      /\ stores[s].used = PageCharge(stores[s].values, DOMAIN stores[s].values)
                           + SumFunction([id \in DOMAIN stores[s].objects |-> stores[s].objects[id].charge])
    BY DEF AccountingExact
  <2>1. Books(stores[s])
    BY <1>1 DEF LedgerInv, AccountInv
  <2> QED BY <2>1, Zenon DEF Books, Booked, ValueCharges, ObjectCharges, PageCharge
<1> QED BY <1>1, LedgerInvariance, PTL

\* No session retains more than its quotas of values, objects and bytes.
THEOREM QuotaSafety == Spec => []WithinQuotas
<1>1. LedgerInv => WithinQuotas
  BY SMTT(30) DEF LedgerInv, AccountInv, Books, WithinQuotas
<1> QED BY <1>1, LedgerInvariance, PTL

\* A guarded increment is the mathematical sum.
LEMMA IncrementIsSum ==
  ASSUME NEW v, v.n \in IntMin..IntMax, NEW delta \in Offered,
         NEW made \in Increment(v, delta), made.code = "ok"
  PROVE  made.state = made.value /\ made.value.n = v.n + delta.n
<1>1. PICK a, b, m : a = v.n /\ b = delta.n /\ m = IntMax
  OBVIOUS
<1>2. m \in Nat /\ IntMin = -m - 1 /\ a \in (-m - 1)..m /\ b \in Int
  BY <1>1, StoreAssumption, SMTT(30) DEF IntMin, Values
<1>3. /\ ~(b > 0 /\ a > m - b) /\ ~(b < 0 /\ a < (-m - 1) - b)
      /\ made = Outcome("ok", IntegerValue(Wrap(a + b)), IntegerValue(Wrap(a + b)))
  BY <1>1, <1>2 DEF Increment, Failed, Outcome
<1>4. PICK n : n = a + b
  OBVIOUS
<1>5. n \in Int /\ n \in (-m - 1)..m
  BY <1>2, <1>3, <1>4
<1>6. Wrap(n) = n
  BY <1>1, <1>2, <1>5, WrapRange
<1> QED BY <1>1, <1>3, <1>4, <1>6 DEF Outcome, IntegerValue

\* A counter that answers holds and returns the mathematical sum, for every int64_t delta: the
\* guard of counter_object::invoke leaves no sum that wraps.
THEOREM IncrementSafety == Spec => IncrementExact
<1>1. ASSUME LedgerInv, [Next]_vars, NEW s \in Sessions, NEW id \in DOMAIN stores[s].objects,
             reply'.body.is = "a_value", find(stores[s].objects[id].class).create = "counter",
             NEW delta \in Offered, InvokeMethod(s, id, Declared, delta)
      PROVE  /\ reply'.body.data.n = stores[s].objects[id].state.n + delta.n
             /\ stores'[s].objects[id].state = reply'.body.data
  <2>1. PICK store, entry, d :
          store = stores[s] /\ entry = store.objects[id] /\ d = find(entry.class)
    OBVIOUS
  <2>2. ~(\E code : Refuse(s, code))
    BY <1>1 DEF Refuse, Answer, Reply, make_error, remote_error
  <2>3. PICK made \in InvokeOutcomes(d, entry.state, delta) :
          /\ made.code = "ok" /\ Reply(s, id, a_value(made.value))
          /\ stores' = [stores EXCEPT ![s] = PublishCandidate(@, id, made.state, ObjectCharge(d, made.state))]
    BY <1>1, <2>1, <2>2, ZenonT(40) DEF InvokeMethod
  <2>4. PICK state, charge, after :
          /\ state = made.state /\ charge = ObjectCharge(d, state)
          /\ after = PublishCandidate(store, id, state, charge)
    BY SMTT(30)
  <2>5. DOMAIN stores = Sessions /\ DOMAIN store = Fields /\ DOMAIN entry = EntryFields
    BY <1>1, <2>1, Zenon DEF LedgerInv, StoreInv, Shapes, Conforming, Entries, Matching
  <2>6. after = stores'[s] /\ after.objects[id].state = state
    BY <1>1, <2>1, <2>3, <2>4, <2>5, SMTT(30) DEF PublishCandidate, Fields, EntryFields
  <2>7. Booked(entry)
    BY <1>1, <2>1, ZenonT(40) DEF LedgerInv, AccountInv, Books
  <2>8. made \in Increment(entry.state, delta) /\ entry.state.n \in IntMin..IntMax
    BY <1>1, <2>1, <2>3, <2>7, Zenon DEF InvokeOutcomes, Booked
  <2>9. PICK v : v = entry.state
    BY SMTT(30)
  <2>10. made.state = made.value /\ made.value.n = v.n + delta.n
    BY <2>3, <2>8, <2>9, IncrementIsSum, Zenon
  <2>11. reply'.body.data = made.value
    BY <2>3 DEF Reply, a_value
  <2> QED BY <2>1, <2>4, <2>6, <2>9, <2>10, <2>11
<1>2. ASSUME LedgerInv, [Next]_vars
      PROVE  [\A s \in Sessions : \A id \in DOMAIN stores[s].objects :
                /\ reply'.body.is = "a_value" /\ reply'.about = id
                /\ find(stores[s].objects[id].class).create = "counter"
                => \A delta \in Offered :
                     InvokeMethod(s, id, Declared, delta) =>
                       /\ reply'.body.data.n = stores[s].objects[id].state.n + delta.n
                       /\ stores'[s].objects[id].state = reply'.body.data]_vars
  BY <1>1, <1>2, Zenon
<1> QED BY <1>2, LedgerInvariance, PTL DEF Spec, IncrementExact
=============================================================================
