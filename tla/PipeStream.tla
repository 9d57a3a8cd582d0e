----------------------------- MODULE PipeStream -----------------------------
(***************************************************************************)
(* One direction of a pipe: the pipe_stream that sends framed payloads,    *)
(* the byte pipe between the two processes, and the pipe_stream that       *)
(* receives them through its buffer and its frame_decoder.  Bytes are      *)
(* digits in base ByteBase and keep their order; the kernel cuts them into *)
(* chunks as it likes.  Each end has one failed flag for both of its       *)
(* directions, so it can also be set from outside of this module.          *)
(***************************************************************************)
EXTENDS Integers, Sequences

CONSTANTS
  ByteBase,     \* 256
  HeaderBytes,  \* frame_header_bytes
  MaxPayload,   \* max_payload_bytes
  BufferBytes,  \* native::buffer_bytes, the most one transfer moves
  Payloads,     \* the payloads that send() is called with
  RawBytes,     \* byte strings a peer may write without framing them
  MaxSends,     \* bound on the calls of send() and raw writes
  Disconnects   \* is the sender the server's end, which disconnects the pipe?

Bytes == 0..(ByteBase - 1)

\* A one, shifted by i bytes.
Weight[i \in 0..HeaderBytes] == IF i = 0 THEN 1 ELSE ByteBase * Weight[i - 1]

ASSUME StreamAssumption ==
  /\ ByteBase \in Nat \ {0, 1} /\ HeaderBytes \in Nat \ {0} /\ MaxPayload \in Nat \ {0}
  /\ MaxPayload < Weight[HeaderBytes]
  /\ BufferBytes \in Nat \ {0} /\ MaxSends \in Nat /\ Disconnects \in BOOLEAN
  /\ Payloads \subseteq Seq(Bytes) /\ RawBytes \subseteq Seq(Bytes)

VARIABLES
  offered,    \* history: the frames and raw byte strings handed to the pipe
  sending,    \* is a send() in its write loop?
  remaining,  \* bytes of the last frame that were not written
  sendFailed, \* stream_state::failed of the sending end
  open,       \* does the sending process still hold its end?
  wire,       \* bytes written and not yet read
  discarded,  \* history: bytes the pipe dropped when the sender disconnected it
  stage,      \* where receive() is: idle, looping, reading
  buffer,     \* input[begin, end) of the receiving end
  decoder,    \* its frame_decoder
  recvFailed, \* its stream_state::failed
  outcome,    \* what the last receive() returned
  delivered,  \* history: the payloads receive() returned
  interrupted \* history: was the receiving end stopped, timed out or failed natively?

sendVars == <<offered, sending, remaining, sendFailed, open>>
recvVars == <<stage, buffer, decoder, recvFailed, outcome, delivered, interrupted>>
pipeVars == <<wire, discarded>>
vars == <<sendVars, pipeVars, recvVars>>

-----------------------------------------------------------------------------
(* Framing: little-endian length, then the payload. *)

First(bytes, n) == SubSeq(bytes, 1, IF n < Len(bytes) THEN n ELSE Len(bytes))
Rest(bytes, n) == SubSeq(bytes, n + 1, Len(bytes))

Header(n) == [i \in 1..HeaderBytes |-> (n \div Weight[i - 1]) % ByteBase]

HeaderLength(header) ==
  LET value[i \in 0..HeaderBytes] ==
        IF i = 0 THEN 0 ELSE value[i - 1] + header[i] * Weight[i - 1]
  IN value[HeaderBytes]

LengthPermitted(n) == n \in 1..MaxPayload
Frame(payload) == Header(Len(payload)) \o payload

FreshDecoder == [header |-> <<>>, expected |-> 0, payload |-> <<>>, poisoned |-> FALSE]

\* frame_decoder::consume, header part: nothing is expected before the header is whole.
TakeHeader(d, input) ==
  LET header == d.header \o First(input, HeaderBytes - Len(d.header))
      length == HeaderLength(header)
  IN
  IF Len(d.header) = HeaderBytes \/ Len(header) < HeaderBytes THEN [d EXCEPT !.header = header]
  ELSE IF LengthPermitted(length) THEN [d EXCEPT !.header = header, !.expected = length]
  ELSE [d EXCEPT !.header = header, !.poisoned = TRUE]

ConsumeDropsRest(d, input) ==
  LET headed == TakeHeader(d, input)
      body == Rest(input, Len(headed.header) - Len(d.header))
      payload == headed.payload \o First(body, headed.expected - Len(headed.payload))
      complete == Len(headed.header) = HeaderBytes /\ ~headed.poisoned /\ Len(payload) = headed.expected
  IN
  [decoder  |-> IF complete THEN FreshDecoder ELSE [headed EXCEPT !.payload = payload],
   rest     |-> <<>>,
   complete |-> complete,
   payload  |-> payload]

\* frame_decoder::consume: at most one payload, and the input that follows it untouched.
Consume(d, input) ==
  LET headed == TakeHeader(d, input)
      body == Rest(input, Len(headed.header) - Len(d.header))
      missing == headed.expected - Len(headed.payload)
      payload == headed.payload \o First(body, missing)
      complete == Len(headed.header) = HeaderBytes /\ ~headed.poisoned /\ Len(payload) = headed.expected
  IN
  [decoder  |-> IF complete THEN FreshDecoder ELSE [headed EXCEPT !.payload = payload],
   rest     |-> Rest(body, missing),
   complete |-> complete,
   payload  |-> payload]

FinishIgnoresHeader(d) == d.poisoned \/ d.payload # <<>>

\* frame_decoder::finish: does the stream end in the middle of a frame?
Unfinished(d) == d.poisoned \/ d.header # <<>>

-----------------------------------------------------------------------------
(* The sending end. *)

Init ==
  /\ offered = <<>> /\ sending = FALSE /\ remaining = <<>> /\ sendFailed = FALSE /\ open = TRUE
  /\ wire = <<>> /\ discarded = <<>>
  /\ stage = "idle" /\ buffer = <<>> /\ decoder = FreshDecoder /\ recvFailed = FALSE
  /\ outcome = "none" /\ delivered = <<>> /\ interrupted = FALSE

CanOffer == open /\ ~sending /\ Len(offered) < MaxSends

\* The preflight may refuse any payload; framing refuses one of a forbidden length.
Send(payload) ==
  /\ CanOffer /\ ~sendFailed
  /\ \/ /\ sendFailed' = TRUE
        /\ UNCHANGED <<offered, sending, remaining>>
     \/ /\ LengthPermitted(Len(payload))
        /\ offered' = Append(offered, Frame(payload))
        /\ sending' = TRUE /\ remaining' = Frame(payload)
        /\ UNCHANGED sendFailed
  /\ UNCHANGED <<open, pipeVars, recvVars>>

\* write_some moves any number of bytes up to its chunk size.
WriteSome ==
  /\ sending
  /\ \E n \in 1..BufferBytes :
       /\ n <= Len(remaining)
       /\ wire' = wire \o First(remaining, n)
       /\ remaining' = Rest(remaining, n)
       /\ sending' = (n < Len(remaining))
  /\ UNCHANGED <<offered, sendFailed, open, discarded, recvVars>>

WriteFails ==
  /\ sending
  /\ sending' = FALSE /\ sendFailed' = TRUE
  /\ UNCHANGED <<offered, remaining, open, pipeVars, recvVars>>

\* A peer that writes bytes of its own.
RawWrite(bytes) ==
  /\ CanOffer /\ remaining = <<>>
  /\ offered' = Append(offered, bytes)
  /\ wire' = wire \o bytes
  /\ UNCHANGED <<sending, remaining, sendFailed, open, discarded, recvVars>>

\* The sending process closes its end, or dies in the middle of a frame. What a client
\* wrote stays readable; the server's DisconnectNamedPipe drops what was not yet read.
Leave ==
  /\ open
  /\ open' = FALSE /\ sending' = FALSE
  /\ \/ UNCHANGED pipeVars
     \/ Disconnects /\ discarded' = wire /\ wire' = <<>>
  /\ UNCHANGED <<offered, remaining, sendFailed, recvVars>>

-----------------------------------------------------------------------------
(* The receiving end. *)

Returns(result) == stage' = "idle" /\ outcome' = result

Receive ==
  /\ stage = "idle"
  /\ \/ recvFailed /\ Returns("disconnected")
     \/ ~recvFailed /\ stage' = "looping" /\ UNCHANGED outcome
  /\ UNCHANGED <<sendVars, pipeVars, buffer, decoder, recvFailed, delivered, interrupted>>

\* The buffered bytes first; read only when they complete no frame.
ReceiveDecodes ==
  LET progress == Consume(decoder, buffer) IN
  /\ stage = "looping"
  /\ decoder' = progress.decoder /\ buffer' = progress.rest
  /\ \/ /\ progress.decoder.poisoned
        /\ Returns("malformed") /\ recvFailed' = TRUE
        /\ UNCHANGED delivered
     \/ /\ progress.complete
        /\ Returns("payload") /\ delivered' = Append(delivered, progress.payload)
        /\ UNCHANGED recvFailed
     \/ /\ ~progress.decoder.poisoned /\ ~progress.complete
        /\ stage' = "reading"
        /\ UNCHANGED <<recvFailed, outcome, delivered>>
  /\ UNCHANGED <<sendVars, pipeVars, interrupted>>

ReadSome ==
  /\ stage = "reading"
  /\ \E n \in 1..BufferBytes :
       /\ n <= Len(wire)
       /\ buffer' = First(wire, n)
       /\ wire' = Rest(wire, n)
  /\ stage' = "looping"
  /\ UNCHANGED <<sendVars, discarded, decoder, recvFailed, outcome, delivered, interrupted>>

ReadEndsEarly ==
  /\ stage = "reading" /\ ~open
  /\ Returns(IF Unfinished(decoder) THEN "truncated" ELSE "closed")
  /\ recvFailed' = TRUE
  /\ UNCHANGED <<sendVars, pipeVars, buffer, decoder, delivered, interrupted>>

\* The peer is gone and everything it wrote is read.
ReadEnds ==
  /\ stage = "reading" /\ wire = <<>> /\ ~open
  /\ Returns(IF Unfinished(decoder) THEN "truncated" ELSE "closed")
  /\ recvFailed' = TRUE
  /\ UNCHANGED <<sendVars, pipeVars, buffer, decoder, delivered, interrupted>>

\* A deadline, the stop signal, a native failure or an empty transfer.
ReceiveAborts ==
  /\ stage \in {"looping", "reading"}
  /\ Returns("aborted") /\ recvFailed' = TRUE /\ interrupted' = TRUE
  /\ UNCHANGED <<sendVars, pipeVars, buffer, decoder, delivered>>

\* The other direction of either end fails.
OtherDirectionFails ==
  /\ \/ ~sendFailed /\ sendFailed' = TRUE /\ UNCHANGED <<recvFailed, interrupted>>
     \/ ~recvFailed /\ recvFailed' = TRUE /\ interrupted' = TRUE /\ UNCHANGED sendFailed
  /\ UNCHANGED <<offered, sending, remaining, open, pipeVars, stage, buffer, decoder, outcome, delivered>>

Sender == (\E payload \in Payloads : Send(payload)) \/ WriteSome \/ WriteFails
Receiver == Receive \/ ReceiveDecodes \/ ReadSome \/ ReadEnds \/ ReceiveAborts

Next == Sender \/ (\E bytes \in RawBytes : RawWrite(bytes)) \/ Leave \/ Receiver \/ OtherDirectionFails

Spec == Init /\ [][Next]_vars

\* A started send goes on writing and the receiver goes on receiving; the sender may
\* leave, and need not send anything.
FairSpec == Spec /\ WF_vars(WriteSome) /\ WF_vars(Receiver)

-----------------------------------------------------------------------------
(* Properties. *)

\* The byte strings, one behind the other.
Concatenation(parts) ==
  LET joined[n \in 0..Len(parts)] == IF n = 0 THEN <<>> ELSE joined[n - 1] \o parts[n]
  IN joined[Len(parts)]

FramesOf(payloads) == Concatenation([i \in 1..Len(payloads) |-> Frame(payloads[i])])

\* No byte is lost, duplicated or reordered between send() and receive(), however the
\* kernel cuts the stream: what was delivered, re-framed, what the decoder and the
\* buffer hold, what is in the pipe or was dropped by a disconnect, and what was not
\* written make up exactly what was offered.
BytesConserved ==
  ~decoder.poisoned =>
    FramesOf(delivered) \o decoder.header \o decoder.payload \o buffer \o wire
        \o discarded \o remaining
      = Concatenation(offered)

\* The end of the stream is reported as clean exactly when the peer stopped at a frame
\* boundary: a peer that dies within a header or a payload is a protocol violation.
EndVerdictExact ==
  /\ outcome = "closed" => FramesOf(delivered) \o discarded \o remaining = Concatenation(offered)
  /\ outcome = "truncated" => FramesOf(delivered) \o discarded \o remaining # Concatenation(offered)

Frames == {Frame(p) : p \in {q \in Payloads : LengthPermitted(Len(q))}}

\* The first n things offered are frames, all written.
Whole(n) ==
  /\ Len(offered) >= n /\ remaining = <<>>
  /\ \A k \in 1..n : offered[k] \in Frames

\* Frames written whole, before any byte that is not part of one, are all delivered, also
\* after their sender has left or turned to raw bytes, unless the receiver was interrupted
\* or the sender disconnected the pipe under them.
AllDelivered ==
  \A n \in 1..MaxSends : Whole(n) ~> Len(delivered) >= n \/ discarded # <<>> \/ interrupted
=============================================================================
