------------------------------ MODULE MCStore ------------------------------
(* A small instance of SessionStore: texts of which two fill a string, integers at both *)
(* ends of a range of eight, and a text that is too long.  The classes are the two      *)
(* built-in ones, a plug-in, and a definition that is refused.                          *)
EXTENDS SessionStore

CONSTANT s1

Text(n) == [kind |-> "text", n |-> n, sound |-> TRUE]

StoreOffered == {Text(0), Text(20), Text(41), IntegerValue(-4), IntegerValue(3)}

Counter ==
  [name |-> 1, nameBytes |-> 7, attributeBytes |-> 5, attribute |-> "integer", initial |-> "integer",
   parameter |-> "integer", result |-> "integer", methods |-> <<1>>, sound |-> TRUE,
   max_state_bytes |-> 200, create |-> "counter"]

TextBuffer ==
  [name |-> 3, nameBytes |-> 10, attributeBytes |-> 4, attribute |-> "text", initial |-> "text",
   parameter |-> "text", result |-> "text", methods |-> <<1>>, sound |-> TRUE,
   max_state_bytes |-> 200, create |-> "text_buffer"]

Plugin ==
  [name |-> 2, nameBytes |-> 6, attributeBytes |-> 60, attribute |-> "text", initial |-> "integer",
   parameter |-> "integer", result |-> "integer", methods |-> <<1, 0>>, sound |-> TRUE,
   max_state_bytes |-> 200, create |-> "plugin"]

StoreDefinitions == {Counter, TextBuffer, Plugin, [TextBuffer EXCEPT !.name = -1]}
=============================================================================
