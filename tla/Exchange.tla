------------------------------ MODULE Exchange ------------------------------
(***************************************************************************)
(* Requests and responses across the pipe: a client encodes an operation,  *)
(* the server decodes it, executes it against the session's store or       *)
(* rejects it, encodes the outcome, and the client decodes and matches it. *)
(* An exchange is one step here; the interleavings inside it belong to     *)
(* modules ClientConnection, PipeStream and PipeServer.  Peers that speak  *)
(* another version, or send what this codec would not, are part of it.     *)
(*                                                                         *)
(* One client also reads pages: it follows the cursors it is given through *)
(* the values of its session or through the registered classes, while      *)
(* sessions keep storing.                                                  *)
(***************************************************************************)
EXTENDS SessionStore, Codec

CONSTANTS
  Requests, \* the operations that the client of each session asks for
  Foreign,  \* the messages that other peers send
  Reader    \* the session whose client reads pages

VARIABLES
  serving,  \* the sessions whose serve loop goes on
  exchange, \* the last exchange: who asked, and what came of it
  walk      \* the reader: what it reads, its cursor, what it has read, what it is to read

exchangeVars == <<vars, serving, exchange, walk>>

Correlation == 7  \* a correlation ID of the client

ASSUME ExchangeAssumption == Reader \in Sessions

\* An operation with the message a client sends for it and the request the server reads, and
\* the messages of other peers with what the server reads: the codec applied to constants.
Call(op) ==
  LET m == encode_request(Request(Correlation, op)) IN
  [op |-> op, message |-> m, request |-> IF m.is = "failure" THEN m ELSE decode_request(m)]

Calls == [s \in Sessions |-> {Call(op) : op \in Requests[s]}]
Arrivals == {[message |-> m, request |-> decode_request(m)] : m \in Foreign}

NoExchange == [by |-> "none"]
NoWalk == [of |-> "nothing", cursor |-> 0, seen |-> {}, due |-> {}, repeated |-> FALSE, missed |-> {}]

ExchangeInit == Init /\ serving = {} /\ exchange = NoExchange /\ walk = NoWalk

-----------------------------------------------------------------------------
(* The dispatcher. *)

execute(s, op) ==
  \/ op.is = "list_classes"   /\ ListClasses(s, op.after, op.limit)
  \/ op.is = "describe_class" /\ DescribeClass(s, op.name)
  \/ op.is = "put_value"      /\ PutValue(s, op.data)
  \/ op.is = "get_value"      /\ GetValue(s, op.id)
  \/ op.is = "list_values"    /\ ListValues(s, op.after, op.limit)
  \/ op.is = "create_object"  /\ CreateObject(s, op.name, op.arguments)
  \/ op.is = "get_object"     /\ GetObject(s, op.id)
  \/ op.is = "release_object" /\ ReleaseObject(s, op.id)
  \/ op.is = "get_attribute"  /\ GetAttribute(s, op.id, op.name)
  \/ op.is = "invoke_method"  /\ InvokeMethod(s, op.id, op.name, op.arguments)

\* dispatcher::process: the response to a request that was decoded.
process(s, request) ==
  \/ request.version = Version /\ execute(s, request.body)
  \/ request.version # Version /\ Refuse(s, "unsupported_version")

RejectAlways(f) == TRUE

\* dispatcher::reject: whether a request that was not decoded ends the session.
Fatal(f) == f.close \/ f.id = Absent \/ f.code \in {"malformed", "truncated"}

\* dispatcher::reject: the error it is answered with otherwise.
Rejection(f) ==
  make_error(CASE f.code = "unsupported_version" -> "unsupported_version"
               [] f.code = "limit_exceeded"      -> "quota_exceeded"
               [] OTHER                          -> "invalid_request")

\* The reply to one payload: the store's outcome, the rejection, or none at all.
Dispatch(s, decoded) ==
  \/ decoded.is = "message" /\ process(s, decoded)
  \/ decoded.is = "failure" /\ Fatal(decoded) /\ reply' = NoReply /\ UNCHANGED domainVars
  \/ decoded.is = "failure" /\ ~Fatal(decoded) /\ Answer(s, 0, Rejection(decoded))

\* serve goes on to the next payload only when a response was sent.
GoOn(s, sent) == serving' = IF sent.is = "failure" THEN serving \ {s} ELSE serving

Unanswered == failure("malformed", TRUE, Absent)

-----------------------------------------------------------------------------
(* The client. *)

matches(op, outcome) ==
  \/ outcome.is = "remote_error"
  \/ op.is = "list_classes" /\ outcome.is = "classes_page"
  \/ op.is = "describe_class" /\ outcome.is = "class_description" /\ outcome.name = op.name
  \/ op.is = "put_value" /\ outcome.is = "value_record" /\ outcome.data = op.data
  \/ op.is = "get_value" /\ outcome.is = "value_record" /\ outcome.id = op.id
  \/ op.is = "list_values" /\ outcome.is = "values_page"
  \/ op.is = "create_object" /\ outcome.is = "object_snapshot" /\ outcome.class = op.name
  \/ op.is = "get_object" /\ outcome.is = "object_snapshot" /\ outcome.id = op.id
  \/ op.is = "release_object" /\ outcome.is = "released"
  \/ op.is \in {"get_attribute", "invoke_method"} /\ outcome.is = "a_value"

\* What read_loop makes of the response to its call, or of the end of the stream.
Heard(op, received) ==
  IF /\ received.is = "message"
     /\ received.id = Correlation /\ matches(op, received.body)
  THEN received.body
  ELSE [is |-> "session_lost"]

\* call_async encodes before it admits: what does not encode is never sent.
Ask(s, call) ==
  /\ s \in serving
  /\ \/ /\ call.message.is = "failure"
        /\ exchange' = [by |-> "refused", answer |-> [is |-> "invalid_request"]]
        /\ reply' = NoReply /\ UNCHANGED <<domainVars, serving>>
     \/ /\ call.message.is = "payload" /\ Dispatch(s, call.request)
        /\ \E response \in {Response(Correlation, reply'.body)} :
           \E sent \in {encode_response(response)} :
           \E received \in {IF sent.is = "failure" THEN sent ELSE decode_response(sent)} :
             /\ GoOn(s, sent)
             /\ exchange' = [by         |-> "client",
                             understood |-> call.request.body = call.op,
                             answer     |-> Heard(call.op, received)]

\* A peer of another make sends a message.
Receive(s, arrival) ==
  /\ s \in serving /\ Dispatch(s, arrival.request)
  /\ \E response \in {Response(arrival.message.id, reply'.body)} :
     \E sent \in {IF reply' = NoReply THEN Unanswered ELSE encode_response(response)} :
       /\ GoOn(s, sent)
       /\ exchange' = [by |-> "foreign", message |-> arrival.message, answer |-> sent]

-----------------------------------------------------------------------------
(* A client that follows the cursors to the end, and stops at a page that  *)
(* does not advance.                                                       *)

Keys(page) ==
  CASE page.is = "classes_page" -> Range(page.names)
    [] page.is = "values_page"  -> {page.values[i].id : i \in DOMAIN page.values}
    [] OTHER                    -> {}

Begin(what) ==
  [NoWalk EXCEPT !.of = what,
                 !.due = IF what = "values" THEN DOMAIN stores[Reader].values
                         ELSE {registry[i].name : i \in DOMAIN registry}]

\* The reader after a page: further on, or done with what it has missed.
Turned(reader, page) ==
  LET seen == reader.seen \cup Keys(page)
      repeated == reader.repeated \/ reader.seen \cap Keys(page) # {}
  IN
  IF page.is \in {"classes_page", "values_page"} /\ page.next > reader.cursor
  THEN [reader EXCEPT !.cursor = page.next, !.seen = seen, !.repeated = repeated]
  ELSE [NoWalk EXCEPT !.missed = reader.due \ seen, !.repeated = repeated]

\* The operation that asks for the reader's next page.
Paging(reader, limit) ==
  IF reader.of = "values" THEN list_values(reader.cursor, limit) ELSE list_classes(reader.cursor, limit)

Page(limit) ==
  \E reader \in IF walk.of = "nothing" THEN {Begin("values"), Begin("classes")} ELSE {walk} :
  \E call \in {Call(Paging(reader, limit))} :
    Ask(Reader, call) /\ walk' = Turned(reader, exchange'.answer)

-----------------------------------------------------------------------------

ExchangeNext ==
  \/ \E d \in offered : Register(d) /\ UNCHANGED <<serving, exchange, walk>>
  \/ \E s \in Sessions :
       \/ Open(s) /\ serving' = serving \cup {s} /\ exchange' = NoExchange /\ UNCHANGED walk
       \/ /\ Close(s) /\ serving' = serving \ {s} /\ exchange' = NoExchange
          /\ walk' = IF s = Reader THEN NoWalk ELSE walk
       \/ \E call \in Calls[s] : Ask(s, call) /\ UNCHANGED walk
       \/ \E arrival \in Arrivals : s # Reader /\ Receive(s, arrival) /\ UNCHANGED walk
  \/ \E limit \in PageSizes : Page(limit)

ExchangeSpec == ExchangeInit /\ [][ExchangeNext]_exchangeVars
-----------------------------------------------------------------------------
(* Properties. *)

\* Whatever operation a client gets past its own encoder, the server can encode the
\* outcome and the client accepts it: no page, description, state or error that the
\* registry and the store produce exceeds a limit of the codec, fails read_outcome or
\* does not match the call, any of which would end the session of a healthy client.
AnswersFit == exchange.by = "client" => exchange.answer.is # "session_lost"

\* The store executes the operation that the client asked for, and the client is given the
\* outcome of the store: what write_operation and write_outcome put on the wire,
\* read_operation and read_outcome take from it.
WireFaithful ==
  exchange.by = "client" =>
    /\ exchange.understood
    /\ exchange.answer \in {[is |-> "session_lost"], reply.body}

\* A message that cannot be attributed to a request (empty, oversized, garbled, or without
\* correlation ID) ends the session unanswered; every other one is answered under its own
\* ID and leaves the session open, and one of another version, or of none, is answered
\* with the error for that and never executed.
RejectionExact ==
  exchange.by = "foreign" =>
    LET m == exchange.message
        answer == exchange.answer
        attributable == m.size \in 1..MaxPayloadBytes /\ m.parses /\ m.id # Absent
    IN
    /\ attributable <=> answer.is = "payload"
    /\ attributable => reply.to \in serving /\ answer.id = m.id
    /\ attributable /\ m.version # Version =>
         answer.body = remote_error(IF m.version = Absent THEN "invalid_request" ELSE "unsupported_version")

\* A reader that follows the cursors to the end has been given every value that was stored
\* when it began, or every registered class, although values are stored between its pages,
\* pages end early at the byte budget of list_values, and classes were registered in any
\* order; and it was given none of them twice.
WalkExact == walk.missed = {} /\ ~walk.repeated
=============================================================================
