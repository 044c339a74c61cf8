----------------------------- MODULE ChunkDecoder -----------------------------
(***************************************************************************)
(* phr_decode_chunked (src/lib/picohttpparser/picohttpparser.c): the         *)
(* decoder of the chunked coding, which rewrites its buffer in place and     *)
(* keeps its state between calls.  One action per block of its switch, one   *)
(* step per iteration of a block's loop.  The caller does what the header    *)
(* file asks for: as long as a call returns -2 it calls again with the data  *)
(* that arrived since, of any length.                                        *)
(***************************************************************************)
EXTENDS ChunkCoding

CONSTANTS
  Stream,      \* what a peer may send
  Coded,       \* bodies that it may mean
  MaxOverhead  \* 100 * 1024: overhead that is always tolerated

ASSUME MaxOverheadAssumption == MaxOverhead \in Nat
ASSUME StreamAssumption == Stream \subseteq Seq(Octet)
ASSUME CodedAssumption == Coded \subseteq CodedBody

VARIABLES
  stream,   \* what the peer sends
  fed,      \* how much of it the decoder was given
  dec,      \* phr_chunked_decoder
  running,  \* whether a call is in progress
  segment,  \* the data of the call, as the caller passed it
  buf,      \* the buffer of the call
  src, dst, \* its positions
  ret,      \* what the last call returned: -2, -1 or the bytes left undecoded
  out       \* history: what all calls decoded

vars == <<stream, fed, dec, running, segment, buf, src, dst, ret, out>>

Init ==
  /\ stream \in Stream
  /\ fed = 0
  /\ dec = [st |-> "SIZE", left |-> 0, digits |-> 0, read |-> 0, overhead |-> 0]
  /\ running = FALSE
  /\ segment = <<>> /\ buf = <<>> /\ src = 0 /\ dst = 0
  /\ ret = -2
  /\ out = <<>>

bufsz == Len(buf)
AtEnd == src = bufsz
Cur == buf[src + 1]

In(st) == running /\ dec.st = st
To(st) == dec' = [dec EXCEPT !.st = st]

(* The next n bytes of the stream are in the buffer. *)
Supply(n) ==
  /\ ~running /\ ret = -2
  /\ n \in 1 .. Len(stream) - fed
  /\ segment' = SubSeq(stream, fed + 1, fed + n)
  /\ buf' = segment'
  /\ src' = 0 /\ dst' = 0
  /\ fed' = fed + n
  /\ running' = TRUE
  /\ dec' = [dec EXCEPT !.read = dec.read + n]
  /\ UNCHANGED <<stream, ret, out>>

(* memmove(buf + to, buf + from, n) *)
Moved(to, from, n) ==
  [i \in 1 .. bufsz |->
     IF i > to /\ i <= to + n THEN buf[i - to + from] ELSE buf[i]]

TooMuchOverhead(d) ==
  d.overhead >= MaxOverhead /\ d.read - d.overhead < d.read \div 4

(* Complete and Exit: what was not decoded moves behind what was, and the    *)
(* caller learns how much was decoded.  r is the value of ret.               *)
Leave(d, r, s, t) ==
  LET e == [d EXCEPT !.overhead = IF r = -2 THEN @ + bufsz - t ELSE @] IN
  /\ running' = FALSE
  /\ buf' = Moved(t, s, bufsz - s)
  /\ src' = s /\ dst' = t
  /\ out' = out \o SubSeq(buf, 1, t)
  /\ dec' = e
  /\ ret' = IF r = -2 /\ TooMuchOverhead(e) THEN -1 ELSE r
  /\ UNCHANGED <<stream, fed, segment>>

Malformed == Leave(dec, -1, src, dst)

(* Every block but the one of the chunk data returns when the buffer ends. *)
OutOfInput ==
  /\ running /\ dec.st # "DATA" /\ AtEnd
  /\ Leave(dec, -2, src, dst)

(* The block takes the current byte and goes on in state st. *)
Advance(st) ==
  /\ To(st)
  /\ src' = src + 1
  /\ UNCHANGED <<stream, fed, running, segment, buf, dst, ret, out>>

OneDigitMore == dec.digits > MaxDigits \* mutant: the test comes one late
NoMoreDigits == dec.digits = MaxDigits

SizeByte ==
  /\ In("SIZE") /\ ~AtEnd /\ IsHex(Cur)
  /\ IF NoMoreDigits
     THEN Malformed
     ELSE /\ dec' = [dec EXCEPT !.left = 16 * @ + Hex[Cur], !.digits = @ + 1]
          /\ src' = src + 1
          /\ UNCHANGED <<stream, fed, running, segment, buf, dst, ret, out>>

(* The byte behind the digits is looked at again by the next block. *)
SizeEnds ==
  /\ In("SIZE") /\ ~AtEnd /\ ~IsHex(Cur)
  /\ IF dec.digits = 0 \/ ~EndsSize(Cur)
     THEN Malformed
     ELSE /\ dec' = [dec EXCEPT !.st = "EXT", !.digits = 0]
          /\ UNCHANGED <<stream, fed, running, segment, buf, src, dst, ret, out>>

ExtByte ==
  /\ In("EXT") /\ ~AtEnd
  /\ CASE Cur = "CR" -> Advance("EXPECT_LF")
       [] Cur = "LF" -> Malformed
       [] OTHER -> Advance("EXT")

AfterHeader == IF dec.left = 0 THEN "TRAILER_HEAD" ELSE "DATA"
HeaderEnds ==
  /\ In("EXPECT_LF") /\ ~AtEnd
  /\ IF Cur = "LF" THEN Advance(AfterHeader) ELSE Malformed

(* Mutants: the data stays where it is; everything moves with it. *)
LeavesDataInPlace(n) == buf
MovesAllThereIs(n) == Moved(dst, src, bufsz - src)
Compacted(n) == Moved(dst, src, n)

(* The whole chunk, or what is there of it, moves in one piece. *)
Data ==
  LET avail == bufsz - src IN
  /\ In("DATA")
  /\ IF avail < dec.left
     THEN /\ running' = FALSE
          /\ buf' = Compacted(avail)
          /\ src' = bufsz /\ dst' = dst + avail
          /\ out' = out \o SubSeq(buf', 1, dst')
          /\ LET d == [dec EXCEPT !.left = @ - avail,
                                  !.overhead = @ + bufsz - dst'] IN
               /\ dec' = d
               /\ ret' = IF TooMuchOverhead(d) THEN -1 ELSE -2
          /\ UNCHANGED <<stream, fed, segment>>
     ELSE /\ buf' = Compacted(dec.left)
          /\ src' = src + dec.left /\ dst' = dst + dec.left
          /\ dec' = [dec EXCEPT !.left = 0, !.st = "DATA_CR"]
          /\ UNCHANGED <<stream, fed, running, segment, ret, out>>

DataCR == In("DATA_CR") /\ ~AtEnd /\ IF Cur = "CR" THEN Advance("DATA_LF") ELSE Malformed
DataLF == In("DATA_LF") /\ ~AtEnd /\ IF Cur = "LF" THEN Advance("SIZE") ELSE Malformed

Undecoded == bufsz - (src + 1)

TrailerHead ==
  /\ In("TRAILER_HEAD") /\ ~AtEnd
  /\ CASE Cur = "CR" -> Advance("TRAILER_HEAD")
       [] Cur = "LF" -> Leave(dec, Undecoded, src + 1, dst)
       [] OTHER -> Advance("TRAILER_MIDDLE")

TrailerMiddle ==
  /\ In("TRAILER_MIDDLE") /\ ~AtEnd
  /\ IF Cur = "LF" THEN Advance("TRAILER_HEAD") ELSE Advance("TRAILER_MIDDLE")

Block ==
  \/ OutOfInput \/ SizeByte \/ SizeEnds \/ ExtByte \/ HeaderEnds \/ Data
  \/ DataCR \/ DataLF \/ TrailerHead \/ TrailerMiddle

Next == Block \/ \E n \in 1 .. Len(stream) : Supply(n)

Spec == Init /\ [][Next]_vars

-------------------------------------------------------------------------------
(* Wherever the calls cut the stream, together they decode what the          *)
(* automaton decodes from the uncut stream, with the same verdict, and stop  *)
(* at the same byte; only the overhead test may refuse more.                 *)
CutsAreInvisible ==
  LET a == Feed(Fresh, SubSeq(stream, 1, fed)) IN
  ~running =>
    /\ out = a.out
    /\ ret >= 0 <=> a.st = "COMPLETE"
    /\ ret >= 0 => fed - ret = a.used
    /\ ret = -1 <=> a.st = "ERROR" \/ (dec.st = a.st /\ TooMuchOverhead(dec))
    /\ ret = -2 => dec.st = a.st /\ dec.left = a.left /\ dec.digits = a.digits

(* While the buffer is rewritten in place, the bytes still to be read are    *)
(* those the caller passed: no memmove reaches ahead of src.                 *)
UnreadBytesIntact ==
  running => SubSeq(buf, src + 1, bufsz) = SubSeq(segment, src + 1, bufsz)

(* And after the end of the body, the bytes left undecoded start right       *)
(* behind the decoded ones, as the header file promises.                     *)
TailFollowsData ==
  ~running /\ ret >= 0 =>
    SubSeq(buf, dst + 1, dst + ret) = SubSeq(stream, fed - ret + 1, fed)

(* Both: the one buffer serves as input and output of a call.                *)
DecodesInPlace == UnreadBytesIntact /\ TailFollowsData

(* A body comes back out of what it was encoded to, however it is spelled and *)
(* cut and whatever comes behind it: whole, with all that is behind it left   *)
(* over; and if the decoder refuses before that, it is for the overhead.     *)
RoundTrip ==
  \A b \in Coded :
    LET text == Encoded(b) IN
    IsPrefix(text, stream) /\ ~running =>
      IF fed >= Len(text) THEN ret = fed - Len(text) /\ out = Content(b)
      ELSE ret < 0 /\ (ret = -1 => TooMuchOverhead(dec))

===============================================================================
