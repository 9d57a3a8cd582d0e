----------------------------- MODULE Contracts -----------------------------
(***************************************************************************)
(* The contracts that the codec, the class registry and the session store  *)
(* share: values, class definitions, outcomes, and their validation.       *)
(*                                                                         *)
(* A value is abstracted to its kind, a number (the byte length of a text, *)
(* the integer itself otherwise) and whether it is well formed (UTF-8      *)
(* structure of a text, finiteness of a real).  A name is its rank in the  *)
(* order of std::string: zero is the empty name, and a negative number is  *)
(* a name that is no identifier.                                           *)
(*                                                                         *)
(* Every class has one attribute, one constructor parameter and one method *)
(* that peers call, like the two built-in ones; "methods" holds the number *)
(* of parameters of each of its methods, and "sound" says whether all its  *)
(* member names are distinct identifiers and all its kinds are valid.      *)
(***************************************************************************)
EXTENDS Integers, Sequences, FiniteSetsExt

CONSTANTS
  MaxStringBytes,  \* max_string_bytes
  MaxEntries,      \* max_entries
  MaxMessageNodes, \* max_message_nodes
  Definitions      \* the class definitions offered to the registry at startup

Kinds == {"text", "integer", "real"}
Values == [kind : Kinds, n : Int, sound : BOOLEAN]

\* No value at all: a missing or misnamed argument, a state with the wrong attributes.
NoValue == [kind |-> "none", n |-> 0, sound |-> FALSE]

\* What a definition's factory makes; "none" is a definition without factory.
Factories == {"counter", "text_buffer", "plugin", "none"}

ClassDefinitions ==
  [name : Int, nameBytes : Nat, attributeBytes : Nat, attribute : Kinds, initial : Kinds,
   parameter : Kinds, result : Kinds, methods : Seq(Nat), sound : BOOLEAN,
   max_state_bytes : Nat, create : Factories]

ASSUME ContractAssumption ==
  /\ {MaxStringBytes, MaxMessageNodes} \subseteq Nat
  /\ MaxEntries \in Nat \ {0}
  /\ \A d \in Definitions : d \in ClassDefinitions

-----------------------------------------------------------------------------
(* Validation. *)

valid_name(name) == name > 0

valid_cursor(name) == name >= 0

valid_value(v) ==
  /\ v.kind \in Kinds
  /\ v.kind = "text" => v.n <= MaxStringBytes
  /\ v.kind # "integer" => v.sound

ScalarBytes == 8

value_bytes(v) == IF v.kind = "text" THEN v.n ELSE ScalarBytes

valid_arguments(v, kind) == valid_value(v) /\ v.kind = kind

valid_page_size(limit) == limit \in 1..MaxEntries

\* One node for the description, each attribute, method and parameter.
DescriptionNodes(d) == 1 + 1 + Len(d.methods) + 1 + SumFunction(d.methods)

DescriptionFillsMessage(d) ==
  /\ valid_name(d.name) /\ d.sound
  /\ Len(d.methods) <= MaxEntries
  /\ \A m \in DOMAIN d.methods : d.methods[m] <= MaxEntries
  /\ DescriptionNodes(d) <= MaxMessageNodes

valid_description(d) ==
  /\ valid_name(d.name) /\ d.sound
  /\ Len(d.methods) <= MaxEntries
  /\ \A m \in DOMAIN d.methods : d.methods[m] <= MaxEntries
  /\ DescriptionNodes(d) < MaxMessageNodes

-----------------------------------------------------------------------------
(* Outcomes of an operation. *)

ErrorCodes == {"invalid_request", "not_found", "quota_exceeded", "timeout", "cancelled", "access_denied",
               "transport_failure", "internal_failure", "unsupported_version", "numeric_overflow"}

remote_error(code) == [is |-> "remote_error", code |-> code]
value_record(id, v) == [is |-> "value_record", id |-> id, data |-> v]
object_snapshot(id, class, v) == [is |-> "object_snapshot", id |-> id, class |-> class, state |-> v]
values_page(records, cursor) == [is |-> "values_page", values |-> records, next |-> cursor]
classes_page(names, cursor) == [is |-> "classes_page", names |-> names, next |-> cursor]
class_description(d) ==
  [is |-> "class_description", name |-> d.name, methods |-> d.methods, sound |-> d.sound,
   kinds |-> <<d.attribute, d.initial, d.parameter, d.result>>]
released == [is |-> "released"]
a_value(v) == [is |-> "a_value", data |-> v]

\* Any other code, which only a plug-in can produce, becomes internal_failure.
make_error(code) == remote_error(IF code \in ErrorCodes THEN code ELSE "internal_failure")
=============================================================================
