------------------------------- MODULE Codec -------------------------------
(***************************************************************************)
(* The payload codec: operations and outcomes to Protobuf messages and     *)
(* back, and what it refuses on either side.  A message is what the schema *)
(* lets a parser see: whether the bytes parse, the envelope, and a body in *)
(* which every value is a oneof and every kind a number.  The size of a    *)
(* message is the largest its contents can take: NodeBytes for the tags,   *)
(* lengths and numbers of each nested message, the texts, and MaxNameBytes *)
(* for each name.                                                          *)
(***************************************************************************)
EXTENDS Contracts

CONSTANTS
  MaxPayloadBytes, \* max_payload_bytes
  MaxNameBytes,    \* max_name_bytes
  MaxUnknowns,     \* max_unknown_fields
  NodeBytes        \* bound on the tags, lengths and numbers of one nested message

Version == 1
Absent == 0  \* no version field, or no correlation ID

ASSUME CodecAssumption ==
  {MaxPayloadBytes, MaxNameBytes, MaxUnknowns, NodeBytes} \subseteq Nat

-----------------------------------------------------------------------------
(* The operations. *)

list_classes(after, limit) == [is |-> "list_classes", after |-> after, limit |-> limit]
describe_class(name) == [is |-> "describe_class", name |-> name]
put_value(v) == [is |-> "put_value", data |-> v]
get_value(id) == [is |-> "get_value", id |-> id]
list_values(after, limit) == [is |-> "list_values", after |-> after, limit |-> limit]
create_object(name, v) == [is |-> "create_object", name |-> name, arguments |-> v]
get_object(id) == [is |-> "get_object", id |-> id]
release_object(id) == [is |-> "release_object", id |-> id]
get_attribute(id, name) == [is |-> "get_attribute", id |-> id, name |-> name]
invoke_method(id, name, v) == [is |-> "invoke_method", id |-> id, name |-> name, arguments |-> v]

-----------------------------------------------------------------------------
(* Field conversion.  A read gives the set of what it can mean: nothing    *)
(* when a field is refused, one contract otherwise.                        *)

KindCode == [text |-> 1, integer |-> 2, real |-> 3]
KindOf(code) == CHOOSE kind \in Kinds : KindCode[kind] = code
Coded(kinds) == [i \in DOMAIN kinds |-> KindCode[kinds[i]]]

write_value(v) == [case |-> v.kind, n |-> v.n, sound |-> v.sound]

read_value(w) ==
  {v \in {[kind |-> w.case, n |-> w.n, sound |-> w.sound]} : v.kind \in Kinds /\ (v.kind = "real" => v.sound)}

write_named(v) == IF v = NoValue THEN <<>> ELSE <<write_value(v)>>

read_named(entries) == IF entries = <<>> THEN {NoValue} ELSE read_value(entries[1])

WriteOperationBare(op) ==
  CASE op.is = "put_value"     -> [is |-> op.is, value |-> write_value(op.data)]
    [] op.is = "create_object" -> [is |-> op.is, name |-> op.name, arguments |-> write_named(op.arguments)]
    [] op.is = "invoke_method" -> [is |-> op.is, id |-> op.id, name |-> op.name, arguments |-> <<>>]
    [] OTHER -> op

write_operation(op) ==
  CASE op.is = "put_value"     -> [is |-> op.is, value |-> write_value(op.data)]
    [] op.is = "create_object" -> [is |-> op.is, name |-> op.name, arguments |-> write_named(op.arguments)]
    [] op.is = "invoke_method" ->
         [is |-> op.is, id |-> op.id, name |-> op.name, arguments |-> write_named(op.arguments)]
    [] OTHER -> op

\* The conditions under which read_operation accepts the scalar fields of a request.
FieldsAccepted(body) ==
  CASE body.is = "list_classes"                       -> valid_cursor(body.after) /\ valid_page_size(body.limit)
    [] body.is \in {"describe_class", "create_object"} -> valid_name(body.name)
    [] body.is = "list_values"                        -> valid_page_size(body.limit)
    [] body.is \in {"get_value", "get_object", "release_object"} -> body.id # 0
    [] body.is \in {"get_attribute", "invoke_method"} -> body.id # 0 /\ valid_name(body.name)
    [] body.is = "put_value"                          -> TRUE
    [] OTHER                                          -> FALSE

read_operation(body) ==
  CASE ~FieldsAccepted(body)     -> {}
    [] body.is = "put_value"     -> {put_value(v) : v \in read_value(body.value)}
    [] body.is = "create_object" -> {create_object(body.name, v) : v \in read_named(body.arguments)}
    [] body.is = "invoke_method" -> {invoke_method(body.id, body.name, v) : v \in read_named(body.arguments)}
    [] OTHER                     -> {body}

write_record(r) == [id |-> r.id, value |-> write_value(r.data)]

read_record(w) == {[id |-> w.id, data |-> v] : v \in IF w.id = 0 THEN {} ELSE read_value(w.value)}

write_description(o) ==
  [is |-> o.is, name |-> o.name, methods |-> o.methods, sound |-> o.sound, kinds |-> Coded(o.kinds)]

read_description(body) ==
  IF valid_name(body.name) /\ body.sound /\ Range(body.kinds) \subseteq Range(KindCode)
  THEN {[body EXCEPT !.kinds = [i \in DOMAIN @ |-> KindOf(@[i])]]}
  ELSE {}

write_outcome(o) ==
  CASE o.is = "value_record"      -> [is |-> o.is, record |-> write_record(o)]
    [] o.is = "values_page"       -> [o EXCEPT !.values = [i \in DOMAIN @ |-> write_record(@[i])]]
    [] o.is = "object_snapshot"   -> [o EXCEPT !.state = write_named(@)]
    [] o.is = "a_value"           -> [is |-> o.is, value |-> write_value(o.data)]
    [] o.is = "class_description" -> write_description(o)
    [] OTHER                      -> o

\* The keys of a page: positive, increasing, and the cursor of a page with a successor the
\* last of them.
PageAccepted(keys, cursor) ==
  /\ \A i \in DOMAIN keys : keys[i] > (IF i = 1 THEN 0 ELSE keys[i - 1])
  /\ cursor # 0 => keys # <<>> /\ cursor = keys[Len(keys)]

read_outcome(body) ==
  CASE body.is = "classes_page" -> {o \in {body} : PageAccepted(o.names, o.next)}
    [] body.is = "values_page" ->
         {values_page([i \in DOMAIN body.values |-> CHOOSE r \in read_record(body.values[i]) : TRUE], body.next) :
            keys \in {k \in {[i \in DOMAIN body.values |-> body.values[i].id]} :
                       PageAccepted(k, body.next) /\ \A w \in Range(body.values) : read_record(w) # {}}}
    [] body.is = "value_record" -> {value_record(r.id, r.data) : r \in read_record(body.record)}
    [] body.is = "object_snapshot" ->
         {[body EXCEPT !.state = v] : v \in IF body.id # 0 /\ valid_name(body.class)
                                            THEN read_named(body.state) ELSE {}}
    [] body.is = "a_value" -> {a_value(v) : v \in read_value(body.value)}
    [] body.is = "class_description" -> read_description(body)
    [] body.is = "released" -> {released}
    [] body.is = "remote_error" -> {o \in {body} : o.code \in ErrorCodes}
    [] OTHER -> {}

-----------------------------------------------------------------------------
(* Limits, by reflection over a message. *)

\* The values a body carries.
Carried(body) ==
  CASE body.is \in {"put_value", "a_value"}              -> <<body.value>>
    [] body.is \in {"create_object", "invoke_method"}    -> body.arguments
    [] body.is = "object_snapshot"                        -> body.state
    [] body.is = "value_record"                           -> <<body.record.value>>
    [] body.is = "values_page" -> [i \in DOMAIN body.values |-> body.values[i].value]
    [] OTHER                                              -> <<>>

\* The messages nested in a body, itself included.
BodyNodes(body) ==
  CASE body.is \in {"create_object", "invoke_method", "object_snapshot", "values_page"} ->
         1 + 2 * Len(Carried(body))
    [] body.is \in {"put_value", "value_record"} -> 2
    [] body.is = "class_description"             -> DescriptionNodes(body)
    [] body.is = "unset"                         -> 0
    [] OTHER                                     -> 1

\* The lengths of its repeated fields.
Repetitions(body) ==
  CASE body.is \in {"create_object", "invoke_method", "object_snapshot", "values_page"} -> {Len(Carried(body))}
    [] body.is = "classes_page"      -> {Len(body.names)}
    [] body.is = "class_description" -> {Len(body.methods)} \cup Range(body.methods)
    [] OTHER                         -> {}

\* Its names; the fixed text of an error is shorter than the longest name.
NameCount(body) ==
  CASE body.is = "classes_page"      -> Len(body.names) + 1
    [] body.is = "class_description" -> DescriptionNodes(body)
    [] body.is \in {"create_object", "invoke_method", "object_snapshot"} -> 1 + Len(Carried(body))
    [] body.is \in {"list_classes", "describe_class", "get_attribute", "remote_error"} -> 1
    [] OTHER                         -> 0

Texts(body) == {i \in DOMAIN Carried(body) : Carried(body)[i].case = "text"}
TextBytes(body) == MapThenSumSet(LAMBDA i : Carried(body)[i].n, Texts(body))

ByteSize(body) == NodeBytes * (1 + BodyNodes(body)) + MaxNameBytes * NameCount(body) + TextBytes(body)

validate_message(m) ==
  CASE \/ 1 + BodyNodes(m.body) > MaxMessageNodes
       \/ m.unknowns > MaxUnknowns
       \/ \E count \in Repetitions(m.body) : count > MaxEntries
       \/ \E i \in Texts(m.body) : Carried(m.body)[i].n > MaxStringBytes
         -> "limit_exceeded"
    [] \E i \in Texts(m.body) : ~Carried(m.body)[i].sound -> "invalid_fields"
    [] OTHER -> "none"

-----------------------------------------------------------------------------
(* Envelopes. *)

failure(code, close, id) == [is |-> "failure", code |-> code, close |-> close, id |-> id]
NoFailure == failure("none", FALSE, Absent)

Limited(m) == IF validate_message(m) = "none" THEN NoFailure ELSE failure(validate_message(m), FALSE, m.id)

validate_envelope(m) ==
  CASE m.id = Absent                 -> failure("invalid_fields", TRUE, Absent)
    [] m.version = Absent            -> failure("invalid_fields", FALSE, m.id)
    [] m.version # Version           -> failure("unsupported_version", FALSE, m.id)
    [] OTHER                         -> Limited(m)

parse(m) ==
  CASE m.size = 0 \/ m.size > MaxPayloadBytes -> failure("limit_exceeded", TRUE, Absent)
    [] ~m.parses                              -> failure("malformed", TRUE, Absent)
    [] OTHER                                  -> validate_envelope(m)

\* A message of this codec: no unknown field, and its own size.
Envelope(id, version, body) ==
  [is |-> "payload", parses |-> TRUE, id |-> id, version |-> version, unknowns |-> 0, body |-> body,
   size |-> ByteSize(body)]

message(m, body) == [is |-> "message", id |-> m.id, version |-> m.version, body |-> body]

Decoded(m, meanings) ==
  CASE parse(m) # NoFailure -> parse(m)
    [] meanings = {}        -> failure("invalid_fields", FALSE, m.id)
    [] OTHER                -> message(m, CHOOSE body \in meanings : TRUE)

decode_request(m) == Decoded(m, IF m.parses THEN read_operation(m.body) ELSE {})
decode_response(m) == Decoded(m, IF m.parses THEN read_outcome(m.body) ELSE {})

Encoded(m, meanings) ==
  CASE validate_envelope(m) # NoFailure -> validate_envelope(m)
    [] meanings = {}                    -> failure("invalid_fields", FALSE, m.id)
    [] m.size > MaxPayloadBytes         -> failure("limit_exceeded", FALSE, m.id)
    [] OTHER                            -> m

\* Encoding writes a message, and refuses it unless its own limits and fields are accepted.
Request(id, op) == Envelope(id, Version, write_operation(op))
Response(id, outcome) == Envelope(id, Version, write_outcome(outcome))

encode_request(m) == Encoded(m, read_operation(m.body))
encode_response(m) == Encoded(m, read_outcome(m.body))
=============================================================================
