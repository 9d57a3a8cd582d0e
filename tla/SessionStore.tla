---------------------------- MODULE SessionStore ----------------------------
(***************************************************************************)
(* The domain layer behind one pipe server: one session_store per          *)
(* connected session, all of them drawing identities from one shared       *)
(* identifier_source.  Every operation is one atomic step because the      *)
(* server serialises domain access with its gate (module PipeServer).      *)
(*                                                                         *)
(* Factories and methods are the built-in ones, or those of a plug-in:     *)
(* any other trusted class, whose factory and method may answer anything   *)
(* the object interface allows.                                            *)
(***************************************************************************)
EXTENDS ClassRegistry

CONSTANTS
  Sessions,        \* slots in which sessions are opened
  MaxEpochs,       \* bound on the sessions opened in one slot
  FirstIdentifier, \* where the identifier source starts
  MaxIdentifier,   \* numeric_limits<uint64_t>::max()
  ValueLimit,      \* limits_.values
  ObjectLimit,     \* limits_.objects
  ByteLimit,       \* limits_.bytes
  RecordCharge,    \* record_charge
  PageBytes,       \* page_byte_budget
  SizeModulus,     \* size_t arithmetic is modulo SizeModulus
  IntMax,          \* numeric_limits<int64_t>::max()
  PageSizes,       \* the page sizes peers ask for
  Offered          \* the values peers put, pass and append

VARIABLES
  next,    \* identifier_source::next_, zero once exhausted
  stores,  \* the session_store of every slot
  reply,   \* the outcome of the last operation, and the identity it was about
  epoch,   \* history: how many sessions each slot has opened
  owner    \* history: the session each identity was issued to

vars == <<registryVars, next, stores, reply, epoch, owner>>
domainVars == <<registryVars, next, stores, epoch, owner>>

ASSUME StoreAssumption ==
  /\ MaxEpochs \in Nat
  /\ MaxIdentifier \in Nat \ {0} /\ FirstIdentifier \in 0..MaxIdentifier
  /\ {ValueLimit, ObjectLimit, ByteLimit, MaxObjectStateBytes} \subseteq Nat
  /\ RecordCharge \in Nat \ {0}
  /\ SizeModulus \in Nat /\ ByteLimit < SizeModulus /\ MaxStringBytes < SizeModulus
  /\ PageBytes \in Nat /\ RecordCharge + MaxStringBytes <= PageBytes
  /\ IntMax \in Nat /\ PageSizes \subseteq Nat
  /\ Offered \subseteq Values

\* A text has a length, an integer is an int64_t, and the built-in classes have the member
\* kinds that counter_definition and text_buffer_definition declare.
ASSUME KindsAssumption ==
  /\ \A v \in Offered : v.kind = "text" => v.n >= 0
  /\ \A v \in Offered : v.kind = "integer" => v.n \in -IntMax - 1 .. IntMax
  /\ \A d \in Definitions :
       /\ d.create = "counter" => d.attribute = "integer" /\ d.parameter = "integer"
       /\ d.create = "text_buffer" => d.attribute = "text" /\ d.parameter = "text"

-----------------------------------------------------------------------------
(* Charges, and the check of a state against its class. *)

IntMin == -IntMax - 1

state_charge(d, v) == RecordCharge + d.attributeBytes + value_bytes(v)

state_matches(d, v) ==
  /\ valid_value(v) /\ v.kind = d.attribute
  /\ state_charge(d, v) <= d.max_state_bytes

ValueCharge(v) == RecordCharge + value_bytes(v)
ObjectCharge(d, v) == RecordCharge + d.nameBytes + state_charge(d, v)

-----------------------------------------------------------------------------
(* Object behaviour: the outcomes of a factory and of a method.  The code *)
(* "null" stands for a factory or a clone() that returns no object.       *)

Outcome(code, state, value) == [code |-> code, state |-> state, value |-> value]
Failed(code) == {Outcome(code, NoValue, NoValue)}

\* Two's complement addition, should the guard of increment ever let it overflow.
Wrap(n) == IntMin + ((n - IntMin) % (IntMax - IntMin + 1))
IntegerValue(n) == [kind |-> "integer", n |-> n, sound |-> TRUE]

IncrementUnchecked(v, delta) ==
  {Outcome("ok", IntegerValue(Wrap(v.n + delta.n)), IntegerValue(Wrap(v.n + delta.n)))}

Increment(v, delta) ==
  IF \/ delta.n > 0 /\ v.n > IntMax - delta.n
     \/ delta.n < 0 /\ v.n < IntMin - delta.n
  THEN Failed("numeric_overflow")
  ELSE {Outcome("ok", IntegerValue(Wrap(v.n + delta.n)), IntegerValue(Wrap(v.n + delta.n)))}

AppendText(v, suffix) ==
  IF suffix.n > (MaxStringBytes - v.n) % SizeModulus
  THEN Failed("quota_exceeded")
  ELSE LET text == [v EXCEPT !.n = @ + suffix.n] IN {Outcome("ok", text, text)}

PluginOutcomes ==
  (UNION {Failed(code) : code \in {"null", "not_found", "unlisted"}})
    \cup {Outcome("ok", state, value) : state, value \in Offered \cup {NoValue}}

CreateOutcomes(d, initial) ==
  IF d.create = "plugin" THEN PluginOutcomes ELSE {Outcome("ok", initial, NoValue)}

InvokeOutcomes(d, state, argument) ==
  CASE d.create = "counter"     -> Increment(state, argument)
    [] d.create = "text_buffer" -> AppendText(state, argument)
    [] d.create = "plugin"      -> PluginOutcomes
-----------------------------------------------------------------------------
(* The repositories of one session. *)

EmptyRepository == [id \in {} |-> NoValue]
FreshStore == [values |-> EmptyRepository, objects |-> EmptyRepository, used |-> 0, closed |-> FALSE]
ClosedStore == [FreshStore EXCEPT !.closed = TRUE]

Insert(repository, id, record) ==
  [i \in DOMAIN repository \cup {id} |-> IF i = id THEN record ELSE repository[i]]

\* limits_.bytes - used_, in size_t arithmetic.
Available(used) == (ByteLimit - used) % SizeModulus

Identifiers == 0..MaxIdentifier
Nobody == <<>>
NoReply == [to |-> Nobody, about |-> 0, body |-> [is |-> "none"]]

Reply(s, id, outcome) == reply' = [to |-> s, about |-> id, body |-> outcome]

\* An operation that only reads answers with this outcome.
Answer(s, id, outcome) == Reply(s, id, outcome) /\ UNCHANGED domainVars

Refuse(s, code) == Answer(s, 0, make_error(code))

\* session_store::execute: a closed store refuses everything.
Executes(s) == ~stores[s].closed

AccessDenied(s) == epoch[s] > 0 /\ stores[s].closed /\ Refuse(s, "access_denied")

IssueWraps(s) ==
  /\ next' = (next % MaxIdentifier) + 1
  /\ owner' = [owner EXCEPT ![next] = <<s, epoch[s]>>]

\* identifier_source::next, when it is not exhausted.
Issue(s) ==
  /\ next' = IF next = MaxIdentifier THEN 0 ELSE next + 1
  /\ owner' = [owner EXCEPT ![next] = <<s, epoch[s]>>]

\* What put_value and create_object share: charge, identity, insertion, accounting.
RetainBurnsIdentity(s, repository, record, charge, outcome) ==
  /\ next # 0 /\ Issue(s) /\ UNCHANGED <<registryVars, epoch>>
  /\ \/ charge > Available(stores[s].used) /\ Reply(s, 0, make_error("quota_exceeded")) /\ UNCHANGED stores
     \/ /\ charge <= Available(stores[s].used)
        /\ stores' = [stores EXCEPT ![s][repository] = Insert(@, next, record), ![s].used = @ + charge]
        /\ Reply(s, next, outcome)

Retain(s, repository, record, charge, outcome) ==
  \/ /\ charge > Available(stores[s].used) \/ next = 0
     /\ Refuse(s, "quota_exceeded")
  \/ /\ charge <= Available(stores[s].used) /\ next # 0
     /\ Issue(s)
     /\ stores' = [stores EXCEPT ![s][repository] = Insert(@, next, record), ![s].used = @ + charge]
     /\ Reply(s, next, outcome)
     /\ UNCHANGED <<registryVars, epoch>>

ListClasses(s, after, limit) ==
  /\ Executes(s)
  /\ \/ /\ ~(valid_cursor(after) /\ valid_page_size(limit))
        /\ Refuse(s, "invalid_request")
     \/ /\ valid_cursor(after) /\ valid_page_size(limit)
        /\ Answer(s, 0, list(after, limit))

DescribeClass(s, name) ==
  /\ Executes(s)
  /\ \/ ~valid_name(name) /\ Refuse(s, "invalid_request")
     \/ valid_name(name) /\ ~Registered(name) /\ Refuse(s, "not_found")
     \/ Registered(name) /\ Answer(s, 0, class_description(find(name)))

PutValue(s, v) ==
  LET full == Cardinality(DOMAIN stores[s].values) >= ValueLimit IN
  /\ Executes(s)
  /\ \/ ~valid_value(v) /\ Refuse(s, "invalid_request")
     \/ valid_value(v) /\ full /\ Refuse(s, "quota_exceeded")
     \/ valid_value(v) /\ ~full /\ Retain(s, "values", v, ValueCharge(v), value_record(next, v))

GetValueAnywhere(s, id) ==
  /\ Executes(s)
  /\ \E t \in Sessions :
       id \in DOMAIN stores[t].values /\ Answer(s, id, value_record(id, stores[t].values[id]))

GetValue(s, id) ==
  LET values == stores[s].values IN
  /\ Executes(s)
  /\ \/ id = 0 /\ Refuse(s, "invalid_request")
     \/ id # 0 /\ id \notin DOMAIN values /\ Refuse(s, "not_found")
     \/ id \in DOMAIN values /\ Answer(s, id, value_record(id, values[id]))

CreateObject(s, name, initial) ==
  LET full == Cardinality(DOMAIN stores[s].objects) >= ObjectLimit
      d == find(name)
      accepted == Registered(name) /\ valid_arguments(initial, d.initial)
  IN
  /\ Executes(s)
  /\ \/ ~valid_name(name) /\ Refuse(s, "invalid_request")
     \/ valid_name(name) /\ ~Registered(name) /\ Refuse(s, "not_found")
     \/ Registered(name) /\ ~accepted /\ Refuse(s, "invalid_request")
     \/ accepted /\ full /\ Refuse(s, "quota_exceeded")
     \/ /\ accepted /\ ~full
        /\ \E made \in CreateOutcomes(d, initial) :
             LET charge == ObjectCharge(d, made.state) IN
             \/ made.code \notin {"ok", "null"} /\ Refuse(s, made.code)
             \/ /\ made.code = "null" \/ (made.code = "ok" /\ ~state_matches(d, made.state))
                /\ Refuse(s, "internal_failure")
             \/ /\ made.code = "ok" /\ state_matches(d, made.state)
                /\ Retain(s, "objects", [class |-> name, state |-> made.state, charge |-> charge],
                          charge, object_snapshot(next, name, made.state))

\* The check that get_object repeats on the state an object reports.
StillMatches(entry) == state_matches(find(entry.class), entry.state)

GetObject(s, id) ==
  LET objects == stores[s].objects IN
  /\ Executes(s)
  /\ \/ id = 0 /\ Refuse(s, "invalid_request")
     \/ id # 0 /\ id \notin DOMAIN objects /\ Refuse(s, "not_found")
     \/ id \in DOMAIN objects /\ ~StillMatches(objects[id]) /\ Refuse(s, "internal_failure")
     \/ /\ id \in DOMAIN objects /\ StillMatches(objects[id])
        /\ Answer(s, id, object_snapshot(id, objects[id].class, objects[id].state))

\* used_ - entry.charge, in size_t arithmetic.
Retained(store, id) == (store.used - store.objects[id].charge) % SizeModulus

Discharge(store, id) ==
  [store EXCEPT !.objects = Restrict(@, DOMAIN @ \ {id}), !.used = Retained(store, id)]

ReleaseObject(s, id) ==
  LET objects == stores[s].objects IN
  /\ Executes(s)
  /\ \/ id = 0 /\ Refuse(s, "invalid_request")
     \/ id # 0 /\ id \notin DOMAIN objects /\ Refuse(s, "not_found")
     \/ /\ id \in DOMAIN objects
        /\ stores' = [stores EXCEPT ![s] = Discharge(@, id)]
        /\ Reply(s, id, released)
        /\ UNCHANGED <<registryVars, next, epoch, owner>>

\* A member name a request asks for: the one its class has, one it does not have, or no
\* identifier.
Declared == 1
Undeclared == 2
Malformed == -1
Names == {Declared, Undeclared, Malformed}

\* get_attribute takes the snapshot of get_object, and only then looks for the attribute.
GetAttribute(s, id, name) ==
  LET objects == stores[s].objects IN
  /\ Executes(s)
  /\ \/ (~valid_name(name) \/ id = 0) /\ Refuse(s, "invalid_request")
     \/ valid_name(name) /\ id # 0 /\ id \notin DOMAIN objects /\ Refuse(s, "not_found")
     \/ /\ valid_name(name) /\ id \in DOMAIN objects /\ ~StillMatches(objects[id])
        /\ Refuse(s, "internal_failure")
     \/ /\ valid_name(name) /\ id \in DOMAIN objects /\ StillMatches(objects[id])
        /\ \/ name # Declared /\ Refuse(s, "not_found")
           \/ name = Declared /\ Answer(s, id, a_value(objects[id].state))

\* The candidate replaces the object and its charge the object's former charge.
PublishKeepsCharge(store, id, state, charge) ==
  [store EXCEPT !.objects[id].state = state,
                !.used = Retained(store, id) + charge]

PublishCandidate(store, id, state, charge) ==
  [store EXCEPT !.objects[id].state = state, !.objects[id].charge = charge,
                !.used = Retained(store, id) + charge]

AlwaysPermitted(store, id, charge) == TRUE

\* The charge fits the budget left once the object's former charge is retired.
GrowthPermitted(store, id, charge) ==
  charge <= Available(Retained(store, id))

ValidResultOnly(d, made) == valid_value(made.value) /\ made.value.kind = d.result

ValidResult(d, made) ==
  /\ valid_value(made.value) /\ made.value.kind = d.result
  /\ state_matches(d, made.state)

InvokeMethod(s, id, name, argument) ==
  LET store == stores[s]
      entry == store.objects[id]
      d == find(entry.class)
      found == id \in DOMAIN store.objects /\ name = Declared
      refused == id = 0 \/ ~valid_name(name)
  IN
  /\ Executes(s)
  /\ \/ refused /\ Refuse(s, "invalid_request")
     \/ ~refused /\ ~found /\ Refuse(s, "not_found")
     \/ found /\ ~valid_arguments(argument, d.parameter) /\ Refuse(s, "invalid_request")
     \/ /\ found /\ valid_arguments(argument, d.parameter)
        /\ \E made \in InvokeOutcomes(d, entry.state, argument) :
             LET charge == ObjectCharge(d, made.state) IN
             \/ made.code \notin {"ok", "null"} /\ Refuse(s, made.code)
             \/ /\ made.code = "null" \/ (made.code = "ok" /\ ~ValidResult(d, made))
                /\ Refuse(s, "internal_failure")
             \/ /\ made.code = "ok" /\ ValidResult(d, made)
                /\ ~GrowthPermitted(store, id, charge)
                /\ Refuse(s, "quota_exceeded")
             \/ /\ made.code = "ok" /\ ValidResult(d, made)
                /\ GrowthPermitted(store, id, charge)
                /\ stores' = [stores EXCEPT ![s] = PublishCandidate(@, id, made.state, charge)]
                /\ Reply(s, id, a_value(made.value))
                /\ UNCHANGED <<registryVars, next, epoch, owner>>

-----------------------------------------------------------------------------
(* Pages of values: the longest run of identities after the cursor that    *)
(* meets the item limit and the byte budget.  The cursor of a page that    *)
(* does not reach the end is its last identity.                            *)

Later(values, after) == {id \in DOMAIN values : id > after}
UpTo(ids, id) == {i \in ids : i <= id}
PageCharge(values, ids) == SumFunction([id \in ids |-> ValueCharge(values[id])])

PageOf(values, after, limit) ==
  LET later == Later(values, after) IN
  {id \in later : /\ Cardinality(UpTo(later, id)) <= limit
                  /\ PageCharge(values, UpTo(later, id)) <= PageBytes}

PageCursorsNewest(values, after, page) ==
  {IF page = Later(values, after) THEN 0 ELSE Max(DOMAIN values)}

\* back() of an empty page is undefined: any cursor.
PageCursors(values, after, page) ==
  IF page = Later(values, after) THEN {0}
  ELSE IF page = {} THEN 0..MaxIdentifier
  ELSE {Max(page)}

\* The identities of a page, in order, with their values.
PageRecords(values, page) ==
  [i \in 1..Cardinality(page) |->
     LET id == CHOOSE id \in page : Cardinality(UpTo(page, id)) = i IN [id |-> id, data |-> values[id]]]

ListValues(s, after, limit) ==
  LET values == stores[s].values
      page == PageOf(values, after, limit)
  IN
  /\ Executes(s)
  /\ \/ ~valid_page_size(limit) /\ Refuse(s, "invalid_request")
     \/ /\ valid_page_size(limit)
        /\ \E cursor \in PageCursors(values, after, page) :
             Answer(s, 0, values_page(PageRecords(values, page), cursor))

-----------------------------------------------------------------------------
(* Startup and the lifetime of a session: run() constructs the store of a  *)
(* new connection and closes it when the connection ends.                  *)

Register(d) == Add(d) /\ UNCHANGED <<next, stores, reply, epoch, owner>>

Open(s) ==
  /\ offered = {}
  /\ stores[s].closed /\ epoch[s] < MaxEpochs
  /\ epoch' = [epoch EXCEPT ![s] = @ + 1]
  /\ stores' = [stores EXCEPT ![s] = FreshStore]
  /\ reply' = NoReply
  /\ UNCHANGED <<registryVars, next, owner>>

Close(s) ==
  /\ epoch[s] > 0
  /\ stores' = [stores EXCEPT ![s] = ClosedStore]
  /\ reply' = NoReply
  /\ UNCHANGED <<registryVars, next, epoch, owner>>

Init ==
  /\ RegistryInit
  /\ next = FirstIdentifier
  /\ stores = [s \in Sessions |-> ClosedStore]
  /\ reply = NoReply
  /\ epoch = [s \in Sessions |-> 0]
  /\ owner = [id \in Identifiers |-> Nobody]

Operation(s) ==
  \/ AccessDenied(s)
  \/ \E name \in {d.name : d \in Definitions} \cup {0} :
       \/ DescribeClass(s, name)
       \/ \E v \in Offered \cup {NoValue} : CreateObject(s, name, v)
       \/ \E limit \in PageSizes : ListClasses(s, name, limit)
  \/ \E v \in Offered : PutValue(s, v)
  \/ \E id \in Identifiers :
       \/ GetValue(s, id)
       \/ GetObject(s, id)
       \/ ReleaseObject(s, id)
       \/ \E limit \in PageSizes : ListValues(s, id, limit)
       \/ \E name \in Names :
            \/ GetAttribute(s, id, name)
            \/ \E v \in Offered \cup {NoValue} : InvokeMethod(s, id, name, v)

Next ==
  \/ \E d \in offered : Register(d)
  \/ \E s \in Sessions : Open(s) \/ Close(s) \/ Operation(s)

Spec == Init /\ [][Next]_vars

-----------------------------------------------------------------------------
(* Properties. *)

\* used_ is exactly what the retained values and objects cost, an object being
\* charged for the state it has now, whatever sequence of puts, creations, growing
\* invocations, releases and closes led here (put_value, create_object,
\* invoke_method, release_object and close each adjust used_ by hand).
AccountingExact ==
  \A s \in Sessions :
    LET objects == stores[s].objects IN
    /\ \A id \in DOMAIN objects : objects[id].charge = ObjectCharge(find(objects[id].class), objects[id].state)
    /\ stores[s].used = PageCharge(stores[s].values, DOMAIN stores[s].values)
                          + SumFunction([id \in DOMAIN objects |-> objects[id].charge])

\* No session retains more than its three quotas, a method that grows an object
\* included; in particular limits_.bytes - used_ never wraps.
WithinQuotas ==
  \A s \in Sessions :
    /\ Cardinality(DOMAIN stores[s].values) <= ValueLimit
    /\ Cardinality(DOMAIN stores[s].objects) <= ObjectLimit
    /\ stores[s].used <= ByteLimit

\* Whatever a trusted class answers, a published object reports its declared
\* attribute within its state ceiling, so the re-validation in get_object never
\* answers internal_failure for it.
PublishedStateMatches ==
  \A s \in Sessions : \A id \in DOMAIN stores[s].objects :
    state_matches(find(stores[s].objects[id].class), stores[s].objects[id].state)

\* A successful reply about an identity goes only to the very session it was issued
\* to: an identity of another session, or of an earlier session of the same slot,
\* is never answered.
SessionsIsolated ==
  reply.about # 0 => owner[reply.about] = <<reply.to, epoch[reply.to]>>

\* The identifier source never issues an identity twice, were its first holder
\* released or its session long closed: it stops at the largest one instead of wrapping.
NeverReissued == [][next' # next => owner[next] = Nobody]_vars

\* An operation answered with an error has changed nothing: no record, no charge, and
\* no identity consumed (the candidate of a failed invocation is discarded).
FailurePreservesState ==
  [][reply'.body.is = "remote_error" => UNCHANGED domainVars]_vars

\* A counter that answers an increment holds and returns exactly the mathematical
\* sum, for every delta, the most negative one included.
IncrementExact ==
  [][\A s \in Sessions : \A id \in DOMAIN stores[s].objects :
       /\ reply'.body.is = "a_value" /\ reply'.about = id
       /\ find(stores[s].objects[id].class).create = "counter"
       => \A delta \in Offered :
            InvokeMethod(s, id, Declared, delta) =>
              /\ reply'.body.data.n = stores[s].objects[id].state.n + delta.n
              /\ stores'[s].objects[id].state = reply'.body.data]_vars
=============================================================================
