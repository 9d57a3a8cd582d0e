----------------------------- MODULE MCExchange -----------------------------
(* A small instance of Exchange: texts of which one or two fill a page, a class whose     *)
(* description fills a message and one whose description exceeds it, a plug-in, requests  *)
(* that every layer refuses, and the messages of peers that this codec would not send.    *)
EXTENDS Exchange

CONSTANTS s1, s2

Text(n) == [kind |-> "text", n |-> n, sound |-> TRUE]

ExchangeOffered == {Text(3)}

TextBuffer ==
  [name |-> 2, nameBytes |-> 1, attributeBytes |-> 1, attribute |-> "text", initial |-> "text",
   parameter |-> "text", result |-> "text", methods |-> <<1, 2>>, sound |-> TRUE,
   max_state_bytes |-> 14, create |-> "text_buffer"]

Plugin == [TextBuffer EXCEPT !.name = 1, !.methods = <<1>>, !.create = "plugin"]

Oversized == [TextBuffer EXCEPT !.name = 3, !.methods = <<1, 3>>]

ExchangeDefinitions == {TextBuffer, Plugin, Oversized}

ReaderRequests ==
  {list_classes(-1, 3), describe_class(2), describe_class(3), put_value(Text(3)), put_value(Text(10)),
   put_value(Text(11)), put_value([Text(3) EXCEPT !.sound = FALSE]), list_values(0, 0), get_value(0),
   get_value(1), get_value(2), create_object(1, Text(3)), create_object(2, Text(3)), create_object(2, NoValue),
   get_object(1), get_object(2), get_attribute(1, Declared), get_attribute(1, Undeclared),
   invoke_method(1, Declared, Text(3)), release_object(1)}

OtherRequests ==
  {put_value(Text(3)), create_object(2, Text(3)), get_value(1), get_object(1), get_object(2), release_object(1)}

ExchangeRequests == [s \in Sessions |-> IF s = Reader THEN ReaderRequests ELSE OtherRequests]

Good == Envelope(9, Version, write_operation(put_value(Text(3))))

ExchangeForeign ==
  {[Good EXCEPT !.parses = FALSE], [Good EXCEPT !.id = Absent], [Good EXCEPT !.size = 0],
   [Good EXCEPT !.size = MaxPayloadBytes + 1], [Good EXCEPT !.version = Absent], [Good EXCEPT !.version = 2],
   [Good EXCEPT !.unknowns = MaxUnknowns], [Good EXCEPT !.unknowns = MaxUnknowns + 1],
   [Good EXCEPT !.body = [is |-> "unset"]], [Good EXCEPT !.body.value.case = "none"],
   [Good EXCEPT !.body.value.n = 11], [Good EXCEPT !.body.value.sound = FALSE],
   [Good EXCEPT !.body = list_values(0, MaxEntries + 1)]}
=============================================================================
