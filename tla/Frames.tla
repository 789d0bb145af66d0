------------------------------- MODULE Frames -------------------------------
(* The framing of the leader's socket, bridge/grok-leader/src/codec.ts: a    *)
(* payload behind its length, and the decoder of a stream that arrives in    *)
(* chunks of any size.                                                       *)
EXTENDS Naturals, Sequences, SequencesExt

CONSTANTS
    HeaderBytes,    \* 4 in the code
    Radix,          \* values of a byte, 256 in the code
    MaxPayload      \* MAX_MESSAGE_SIZE

Byte == 0..(Radix - 1)
Power[n \in Nat] == IF n = 0 THEN 1 ELSE Radix * Power[n - 1]

\* Every length that is allowed fits into a header.
ASSUME FramesAssumption ==
    /\ HeaderBytes \in Nat \ {0}
    /\ Radix \in Nat \ {0, 1}
    /\ MaxPayload \in Nat
    /\ MaxPayload < Power[HeaderBytes]

\* The big-endian value of a header, and the header of a length.
Length(header) ==
    LET value[i \in 0..Len(header)] ==
            IF i = 0 THEN 0 ELSE value[i - 1] * Radix + header[i]
    IN  value[Len(header)]
Header(length) ==
    [i \in 1..HeaderBytes |-> (length \div Power[HeaderBytes - i]) % Radix]

\* encodeFrame() of a payload that is not too large.
Encode(payload) == Header(Len(payload)) \o payload

\* What a decoder keeps between chunks: the header so far and, once it is
\* complete, the length of the body and the bytes of it that have arrived.
NewDecoder == [header |-> <<>>, body |-> <<>>, error |-> FALSE]

Smaller(m, n) == IF m < n THEN m ELSE n

\* One turn of push(): take what is missing of the header, then of the body,
\* as far as the chunk goes; a complete body is a frame.
Turn(state, chunk) ==
    LET rest == SubSeq(chunk, state.offset + 1, Len(chunk))
        wanted == HeaderBytes - Len(state.decoder.header)
        header == state.decoder.header \o SubSeq(rest, 1, Smaller(wanted, Len(rest)))
        complete == Len(header) = HeaderBytes
        tail == IF complete THEN SubSeq(rest, wanted + 1, Len(rest)) ELSE <<>>
        missing == Length(header) - Len(state.decoder.body)
        body == state.decoder.body
                  \o (IF complete THEN SubSeq(tail, 1, Smaller(missing, Len(tail)))
                                  ELSE <<>>)
        offset == Len(chunk) - (IF complete /\ missing < Len(tail)
                                  THEN Len(tail) - missing ELSE 0)
    IN  CASE complete /\ Length(header) > MaxPayload ->
               [state EXCEPT !.decoder = [NewDecoder EXCEPT !.error = TRUE]]
          [] complete /\ Length(header) <= MaxPayload /\ Len(body) = Length(header) ->
               [frames |-> Append(state.frames, body), offset |-> offset,
                decoder |-> NewDecoder]
          [] OTHER ->
               [state EXCEPT !.offset = offset,
                             !.decoder = [@ EXCEPT !.header = header, !.body = body]]

\* push(): each turn takes a byte of the chunk at least.
Started(decoder) == [frames |-> <<>>, offset |-> 0, decoder |-> decoder]
PushOnce(decoder, chunk) == Turn(Started(decoder), chunk)
TurnIfMore(state, chunk) ==
    IF state.offset < Len(chunk) /\ ~state.decoder.error THEN Turn(state, chunk) ELSE state
Push(decoder, chunk) ==
    LET state[turn \in 0..Len(chunk)] ==
            IF turn = 0 THEN Started(decoder) ELSE TurnIfMore(state[turn - 1], chunk)
    IN  state[Len(chunk)]

\* The frames and the error of a connection that receives the chunks: a
\* decoder that threw is not used again.
Connected == [frames |-> <<>>, decoder |-> NewDecoder, error |-> FALSE]
Received(result, chunk) ==
    LET pushed == Push(result.decoder, chunk)
    IN  IF result.error THEN result
        ELSE [frames |-> IF pushed.decoder.error THEN result.frames
                         ELSE result.frames \o pushed.frames,
              decoder |-> pushed.decoder,
              error |-> pushed.decoder.error]
Receive(chunks) ==
    LET result[i \in 0..Len(chunks)] ==
            IF i = 0 THEN Connected ELSE Received(result[i - 1], chunks[i])
    IN  result[Len(chunks)]

-----------------------------------------------------------------------------
(* The reference: a sequence of payloads, cut anywhere. *)

Joined(pieces) ==
    LET joined[i \in 0..Len(pieces)] ==
            IF i = 0 THEN <<>> ELSE joined[i - 1] \o pieces[i]
    IN  joined[Len(pieces)]
Flatten(payloads) == Joined([i \in DOMAIN payloads |-> Encode(payloads[i])])

\* The chunks that a stream is cut into behind the positions of a set.
Cut(chunks, byte, before) ==
    IF before \/ chunks = <<>> THEN Append(chunks, <<byte>>)
    ELSE [chunks EXCEPT ![Len(chunks)] = Append(@, byte)]
CutAt(stream, positions) ==
    LET chunks[i \in 0..Len(stream)] ==
            IF i = 0 THEN <<>> ELSE Cut(chunks[i - 1], stream[i], i - 1 \in positions)
    IN  chunks[Len(stream)]

\* However the network cuts a stream of frames, the decoder yields the payloads
\* that were sent, in order, empty ones included, and keeps nothing at the end.
FramesSurvive(payloads) ==
    LET stream == Flatten(payloads)
    IN  \A positions \in SUBSET (1..(Len(stream) - 1)) :
            LET result == Receive(CutAt(stream, positions))
            IN  /\ ~result.error
                /\ result.frames = payloads
                /\ result.decoder = NewDecoder

\* A length over the limit is an error at the latest with its last header byte,
\* in front of any body, and nothing of that chunk or of a later one is a frame.
OversizeRefused(payloads, length) ==
    LET good == Flatten(payloads)
        stream == good \o Header(length)
    IN  \A positions \in SUBSET (1..(Len(stream) - 1)) :
            LET result == Receive(CutAt(stream, positions))
            IN  result.error /\ IsPrefix(result.frames, payloads)
=============================================================================
