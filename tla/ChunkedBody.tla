------------------------------ MODULE ChunkedBody ------------------------------
(***************************************************************************)
(* A chunked request body on its way through Connection::read's inner loop   *)
(* (src/src/connection.h), Request::consumeBodySome (src/src/message/http.cpp)*)
(* and the chunk decoder.  The head is read: a request with                  *)
(* Transfer-Encoding: chunked is in READ_BODY with an empty readBuffer_.      *)
(***************************************************************************)
EXTENDS HttpRequest, StaticBuffer, ChunkCoding

CONSTANTS
  Stream,  \* what a peer may send as the body
  Coded    \* bodies that it may mean

(* As in ChunkAutomaton, a byte of the buffer stands for its class. *)
ASSUME OctetAssumption == Byte = Octet
ASSUME StreamAssumption == Stream \subseteq Seq(Octet)
ASSUME CodedAssumption == Coded \subseteq CodedBody

VARIABLES
  stream,       \* what the peer sends
  fed,          \* how much of it was read from the socket
  readBuffer_,  \* Connection::readBuffer_
  req,          \* the request
  at,           \* "reading", or how the read ended: "OK", "INVALID_MESSAGE",
                \* "thrown", an exception out of consumeBodySome, or "overrun",
                \* a copy beyond the end of body_, after which nothing is defined
  given         \* history: all bytes the decoder was given

vars == <<stream, fed, readBuffer_, req, at, given>>

Init ==
  /\ stream \in Stream
  /\ fed = 0
  /\ readBuffer_ = NewBuffer
  /\ req = [NewRequest(<<>>) EXCEPT !.chunked = TRUE]
  /\ at = "reading"
  /\ given = <<>>

(* async_read_some, while nothing is buffered, with the next n bytes. *)
Receive(n) ==
  /\ at = "reading" /\ IsEmpty(readBuffer_)
  /\ n <= Room(readBuffer_) /\ n <= Len(stream) - fed
  /\ readBuffer_' =
       Commit(Filled(readBuffer_, SubSeq(stream, fed + 1, fed + n)), n)
  /\ fed' = fed + n
  /\ UNCHANGED <<stream, req, at, given>>

Outcome == ConsumeBody(req, ReadableSpan(readBuffer_))
InLoop == at = "reading" /\ ~IsEmpty(readBuffer_)
Fits ==
  Len(req.body) + Copied(req, ReadableSpan(readBuffer_))
    <= SizeForCopy(req, ReadableSpan(readBuffer_))
Give == given' = given \o SubSeq(ReadableSpan(readBuffer_), 1,
                                 Copied(req, ReadableSpan(readBuffer_)))

(* StaticBuffer::consume of a negative number, a size_t near 2^64: the read  *)
(* cursor goes back, or wraps beyond every write cursor.                    *)
ConsumeAny(b, n) ==
  CASE n >= 0 -> Consume(b, n)
    [] n < 0 /\ b.rd + n >= 0 -> [b EXCEPT !.rd = b.rd + n]
    [] OTHER -> Consume(b, b.wr)

Part ==
  /\ InLoop /\ Fits /\ ~Outcome.err
  /\ Len(req.body) + Outcome.n >= 0
  /\ Give
  /\ req' = Outcome.msg
  /\ readBuffer_' = ConsumeAny(readBuffer_, Outcome.n)
  /\ at' = IF Outcome.done THEN "OK" ELSE "reading"
  /\ UNCHANGED <<stream, fed>>

(* body_.resize(bodyIdx_ + encoded) with a negative sum. *)
Throws ==
  /\ InLoop /\ Fits /\ ~Outcome.err
  /\ Len(req.body) + Outcome.n < 0
  /\ Give
  /\ at' = "thrown"
  /\ UNCHANGED <<stream, fed, readBuffer_, req>>

Refuses ==
  /\ InLoop /\ Fits /\ Outcome.err
  /\ Give
  /\ req' = Outcome.msg
  /\ at' = "INVALID_MESSAGE"
  /\ UNCHANGED <<stream, fed, readBuffer_>>

(* memcpy is given more bytes than body_ has room for. *)
Overruns ==
  /\ InLoop /\ ~Fits
  /\ at' = "overrun"
  /\ UNCHANGED <<stream, fed, readBuffer_, req, given>>

Consumes == Part \/ Throws \/ Refuses \/ Overruns
Next == Consumes \/ \E n \in 1 .. Cap : Receive(n)

Spec == Init /\ [][Next]_vars

-------------------------------------------------------------------------------
(* body_ grows once per call, by doubling, whatever the length of the span.   *)
(* That is enough for spans up to the first size of body_, at every point of  *)
(* a body; only a longer span (in the program the span has up to 4096 bytes   *)
(* and body_ starts with 1024) can be copied beyond its end.                 *)
CopyFits == at = "overrun" => Size(readBuffer_) > FirstSize

(* The inner loop comes to an end although an incomplete call may report     *)
(* that nothing was consumed, so that the same bytes are decoded again and   *)
(* again: the decoder's test of its overhead bounds how much it is given.    *)
DecodingIsBounded ==
  at = "reading" =>
    req.read < MaxOverhead + MaxBody \/ req.read <= 4 * MaxBody + 3

(* What the header file asks of a caller of phr_decode_chunked: every call   *)
(* after an incomplete one supplies newly arrived data, so that the decoder  *)
(* is given each byte of the stream once.                                   *)
DecoderIsGivenNewData == IsPrefix(given, SubSeq(stream, 1, fed))
(* The bytes that the decoder was given behind the encoding of b. *)
Surplus(b) == Len(given) - Len(Encoded(b))

(* As soon as the bytes given to the decoder begin with an encoding of a body *)
(* the read has ended, and not with a refusal.  As many bytes as were given   *)
(* behind it are cut from the end of the body: it is whole only if there are  *)
(* none, and if there are more than it has, the length wraps around, and the  *)
(* read ends with an exception; never with a body of some other bytes, nor    *)
(* of more.                                                                *)
BodyIsContent ==
  \A b \in Coded : IsPrefix(Encoded(b), given) =>
    LET rest == Len(Content(b)) - Surplus(b) IN
    IF rest >= 0 THEN at = "OK" /\ req.body = SubSeq(Content(b), 1, rest)
    ELSE at = "thrown"
===============================================================================
