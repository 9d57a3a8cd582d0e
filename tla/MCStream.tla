------------------------------ MODULE MCStream ------------------------------
(* Small instances of PipeStream: bits for bytes, two-bit headers, payloads of at most two. *)
EXTENDS PipeStream

SmallPayloads == {<<1>>, <<0, 1>>, <<>>, <<1, 1, 1>>}
Junk == {<<0, 0>>, <<1>>, <<1, 1, 0>>, <<0, 1, 1, 0, 1>>}
=============================================================================
