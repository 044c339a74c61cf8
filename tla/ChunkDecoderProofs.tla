-------------------------- MODULE ChunkDecoderProofs --------------------------
(***************************************************************************)
(* Proofs about ChunkDecoder: for every stream, however it is cut into calls,*)
(* the buffer that is input and output of a call serves as both, the calls    *)
(* together decode what the automaton does, and a body comes back out of each *)
(* of its encodings.                                                         *)
(***************************************************************************)
EXTENDS ChunkDecoder, OperatorProofs

Decoder ==
  [st : LineStates, left : Nat, digits : Nat, read : Nat, overhead : Nat]

TypeInv ==
  /\ stream \in Seq(Octet) /\ segment \in Seq(Octet) /\ buf \in Seq(Octet)
  /\ fed \in Nat /\ fed <= Len(stream)
  /\ dec \in Decoder /\ running \in BOOLEAN /\ ret \in Int

(* What is written is behind what is read, in the buffer of the last call.    *)
Positions ==
  /\ Len(segment) = Len(buf) /\ Len(buf) <= fed
  /\ src \in Nat /\ dst \in Nat /\ dst <= src /\ src <= Len(buf)

(* The call was given the bytes of the stream that end with the fed-th.      *)
Supplied == \A i \in 1 .. Len(buf) : segment[i] = stream[fed - Len(buf) + i]

Unread == running => \A i \in 1 .. Len(buf) : i > src => buf[i] = segment[i]

Left ==
  ~running /\ ret >= 0 =>
    /\ ret = Len(buf) - src
    /\ \A i \in 1 .. ret : buf[dst + i] = stream[fed - ret + i]

IInv == TypeInv /\ Positions /\ Supplied /\ Unread /\ Left

-------------------------------------------------------------------------------
(* Moving keeps the length of the buffer and all beyond the place moved to;   *)
(* there it puts what stood at the other place.                             *)
LEMMA MovedBytes ==
  ASSUME buf \in Seq(Octet), NEW to \in Nat, NEW from \in Nat, NEW n \in Nat,
         to <= from, from + n <= Len(buf)
  PROVE  /\ Moved(to, from, n) \in Seq(Octet)
         /\ Len(Moved(to, from, n)) = Len(buf)
         /\ \A i \in 1 .. Len(buf) : i > to + n => Moved(to, from, n)[i] = buf[i]
         /\ \A i \in 1 .. n : Moved(to, from, n)[to + i] = buf[from + i]
<1> DEFINE m == Moved(to, from, n)
<1>1. m = [i \in 1 .. Len(buf) |->
             IF i > to /\ i <= to + n THEN buf[i - to + from] ELSE buf[i]]
  BY DEF Moved, bufsz
<1>2. ASSUME NEW i \in 1 .. Len(buf)
      PROVE  m[i] \in Octet
  <2>1. CASE i > to /\ i <= to + n
    <3>1. i - to + from \in 1 .. Len(buf)  BY <2>1
    <3> QED  BY <1>1, <2>1, <3>1
  <2>2. CASE ~(i > to /\ i <= to + n)
    BY <1>1, <2>2
  <2> QED  BY <2>1, <2>2
<1>3. m \in Seq(Octet) /\ Len(m) = Len(buf)
  <2>1. Len(buf) \in Nat  OBVIOUS
  <2>2. m \in [1 .. Len(buf) -> Octet]  BY <1>1, <1>2
  <2> HIDE DEF m
  <2> QED  BY <2>1, <2>2
<1>4. \A i \in 1 .. Len(buf) : i > to + n => m[i] = buf[i]
  BY <1>1
<1>5. ASSUME NEW i \in 1 .. n
      PROVE  m[to + i] = buf[from + i]
  <2>1. to + i \in 1 .. Len(buf) /\ to + i > to /\ to + i <= to + n  OBVIOUS
  <2>2. to + i - to + from = from + i  OBVIOUS
  <2> QED  BY <1>1, <2>1, <2>2
<1> QED  BY <1>3, <1>4, <1>5

(* A step inside a call that takes at most a byte.                           *)
Takes ==
  /\ running /\ running'
  /\ src' \in {src, src + 1} /\ src' <= Len(buf)
  /\ UNCHANGED <<stream, fed, segment, buf, dst, ret>>

LEMMA TakesKeeps ==
  ASSUME IInv, Takes, dec' \in Decoder
  PROVE  IInv'
<1> USE DEF IInv, Takes
<1>1. TypeInv'  BY DEF TypeInv
<1>2. Positions'  BY DEF TypeInv, Positions
<1>3. Supplied'  BY DEF Supplied
<1>4. Unread'  BY DEF Unread, Positions
<1>5. Left'  BY DEF Left
<1> QED  BY <1>1, <1>2, <1>3, <1>4, <1>5

(* A call that ends with the bytes from s on undecoded.                      *)
LEMMA LeaveKeeps ==
  ASSUME IInv, running, NEW r \in Int, NEW s \in {src, src + 1}, s <= Len(buf),
         Leave(dec, r, s, dst), r >= 0 => r = Len(buf) - s
  PROVE  IInv'
<1> USE DEF IInv
<1>1. /\ s \in Nat /\ dst \in Nat /\ dst <= s /\ Len(buf) - s \in Nat
      /\ s + (Len(buf) - s) <= Len(buf) /\ buf \in Seq(Octet)
  BY DEF TypeInv, Positions
<1>2. /\ running' = FALSE /\ src' = s /\ dst' = dst
      /\ buf' = Moved(dst, s, Len(buf) - s)
      /\ UNCHANGED <<stream, fed, segment>>
      /\ ret' \in {-1, r} /\ (ret' >= 0 => ret' = r)
  BY DEF Leave, bufsz
<1> DEFINE e == [dec EXCEPT !.overhead = IF r = -2 THEN @ + bufsz - dst ELSE @]
<1>3. e \in Decoder
  <2>1. dec.overhead \in Nat  BY DEF TypeInv, Decoder
  <2>2. Len(buf) - dst \in Nat  BY DEF TypeInv, Positions
  <2>3. (IF r = -2 THEN dec.overhead + bufsz - dst ELSE dec.overhead) \in Nat
    BY <1>1, <2>1, <2>2 DEF bufsz
  <2> QED  BY <2>3 DEF TypeInv, Decoder
<1>4. dec' = e  BY DEF Leave
<1>5. /\ buf' \in Seq(Octet) /\ Len(buf') = Len(buf)
      /\ \A i \in 1 .. Len(buf) - s : buf'[dst + i] = buf[s + i]
  BY <1>1, <1>2, MovedBytes
<1>6. TypeInv'
  <2>1. dec' \in Decoder  BY <1>3, <1>4
  <2>2. running' \in BOOLEAN  BY <1>2
  <2>3. ret' \in Int  BY <1>2
  <2>4. /\ stream' \in Seq(Octet) /\ segment' \in Seq(Octet) /\ buf' \in Seq(Octet)
        /\ fed' \in Nat /\ fed' <= Len(stream')
    BY <1>2, <1>5 DEF TypeInv
  <2> QED  BY <2>1, <2>2, <2>3, <2>4 DEF TypeInv
<1>7. Positions'  BY <1>1, <1>2, <1>5 DEF Positions
<1>8. Supplied'  BY <1>2, <1>5 DEF Supplied
<1>9. Unread'  BY <1>2 DEF Unread
<1>10. Left'
  <2> SUFFICES ASSUME ret' >= 0  PROVE Left'
    BY DEF Left
  <2>1. ret' = Len(buf) - s  BY <1>2
  <2>2. ASSUME NEW i \in 1 .. ret'
        PROVE  buf'[dst' + i] = stream'[fed' - ret' + i]
    <3>1. /\ s + i \in 1 .. Len(buf) /\ s + i > src
          /\ fed - Len(buf) + (s + i) = fed - ret' + i
      BY <1>1, <2>1 DEF TypeInv, Positions
    <3>2. buf'[dst + i] = buf[s + i]  BY <1>5, <2>1
    <3>3. buf[s + i] = segment[s + i]  BY <3>1 DEF Unread
    <3>4. segment[s + i] = stream[fed - Len(buf) + (s + i)]  BY <3>1 DEF Supplied
    <3> QED  BY <1>2, <3>1, <3>2, <3>3, <3>4
  <2>3. ret' = Len(buf') - src'  BY <1>2, <1>5, <2>1
  <2> QED  BY <2>2, <2>3 DEF Left
<1> QED  BY <1>6, <1>7, <1>8, <1>9, <1>10

-------------------------------------------------------------------------------
LEMMA OctetsAre ==
  \A b \in DOMAIN Hex : Hex[b] \in Nat
BY DEF Hex

(* Setting one component, or two, makes another decoder.                     *)
LEMMA Decoders ==
  ASSUME NEW d \in Decoder, NEW st \in LineStates, NEW n \in Nat, NEW k \in Nat
  PROVE  /\ [d EXCEPT !.st = st] \in Decoder
         /\ [d EXCEPT !.read = d.read + n] \in Decoder
         /\ [d EXCEPT !.left = n, !.digits = k] \in Decoder
         /\ [d EXCEPT !.left = n, !.overhead = k] \in Decoder
         /\ [d EXCEPT !.left = n, !.st = st] \in Decoder
         /\ [d EXCEPT !.st = st, !.digits = k] \in Decoder
<1>1. [d EXCEPT !.st = st] \in Decoder  BY DEF Decoder
<1>2. [d EXCEPT !.read = d.read + n] \in Decoder  BY DEF Decoder
<1>3. [d EXCEPT !.left = n, !.digits = k] \in Decoder  BY DEF Decoder
<1>4. [d EXCEPT !.left = n, !.overhead = k] \in Decoder  BY DEF Decoder
<1>5. [d EXCEPT !.left = n, !.st = st] \in Decoder  BY DEF Decoder
<1>6. [d EXCEPT !.st = st, !.digits = k] \in Decoder  BY DEF Decoder
<1> QED  BY <1>1, <1>2, <1>3, <1>4, <1>5, <1>6

-------------------------------------------------------------------------------
LEMMA InitHolds == Init => IInv
<1> SUFFICES ASSUME Init  PROVE IInv
  OBVIOUS
<1> USE DEF Init
<1>1. TypeInv
  <2>1. stream \in Seq(Octet)  BY StreamAssumption
  <2>2. dec \in Decoder  BY DEF Decoder, LineStates
  <2>3. running \in BOOLEAN  OBVIOUS
  <2>4. segment \in Seq(Octet) /\ buf \in Seq(Octet)  OBVIOUS
  <2> QED  BY <2>1, <2>2, <2>3, <2>4 DEF TypeInv
<1>2. Positions  BY DEF Positions
<1>3. Supplied  BY DEF Supplied
<1>4. Unread  BY DEF Unread
<1>5. Left  BY DEF Left
<1> QED  BY <1>1, <1>2, <1>3, <1>4, <1>5 DEF IInv

(* The first thing a call sees is the next bytes of the stream.              *)
LEMMA SupplyKeeps ==
  ASSUME IInv, NEW n \in 1 .. Len(stream), Supply(n)
  PROVE  IInv'
<1> USE DEF IInv
<1>1. /\ n \in 1 .. Len(stream) - fed /\ fed \in Nat /\ fed + n <= Len(stream)
      /\ stream \in Seq(Octet) /\ Len(stream) \in Nat
  BY DEF Supply, TypeInv
<1>2. /\ segment' = SubSeq(stream, fed + 1, fed + n) /\ buf' = segment'
      /\ src' = 0 /\ dst' = 0 /\ fed' = fed + n /\ running' = TRUE
      /\ stream' = stream /\ ret' = -2
  BY DEF Supply
<1>3. /\ segment' \in Seq(Octet) /\ Len(segment') = n
      /\ \A i \in 1 .. n : segment'[i] = stream[fed + i]
  BY <1>1, <1>2
<1>4. TypeInv'
  <2>1. dec' \in Decoder
    <3>1. dec' = [dec EXCEPT !.read = dec.read + n]  BY DEF Supply
    <3>2. "SIZE" \in LineStates /\ n \in Nat  BY DEF LineStates
    <3> QED  BY <3>1, <3>2, Decoders DEF TypeInv
  <2>2. running' \in BOOLEAN /\ ret' \in Int  BY <1>2
  <2>3. fed' \in Nat /\ fed' <= Len(stream')  BY <1>1, <1>2
  <2> QED  BY <1>1, <1>2, <1>3, <2>1, <2>2, <2>3 DEF TypeInv
<1>5. Positions'  BY <1>1, <1>2, <1>3 DEF Positions
<1>6. Supplied'
  <2>1. Len(buf') = n /\ \A i \in 1 .. n : fed' - n + i = fed + i  BY <1>1, <1>2, <1>3
  <2> QED  BY <1>2, <1>3, <2>1 DEF Supplied
<1>7. Unread'  BY <1>2 DEF Unread
<1>8. Left'  BY <1>2 DEF Left
<1> QED  BY <1>4, <1>5, <1>6, <1>7, <1>8

(* What all blocks but that of the data do: take the byte, or end the call.   *)
LEMMA AdvanceKeeps ==
  ASSUME IInv, running, ~AtEnd, NEW st \in LineStates, Advance(st)
  PROVE  IInv'
<1>1. dec' \in Decoder  BY Decoders DEF Advance, To, IInv, TypeInv
<1>2. Takes  BY DEF Advance, AtEnd, bufsz, Takes, IInv, TypeInv, Positions
<1> QED  BY <1>1, <1>2, TakesKeeps

LEMMA MalformedKeeps ==
  ASSUME IInv, running, Malformed
  PROVE  IInv'
<1>1. src \in {src, src + 1} /\ src <= Len(buf)  BY DEF IInv, Positions
<1>2. -1 \in Int /\ ~(-1 >= 0)  OBVIOUS
<1> QED  BY <1>1, <1>2, LeaveKeeps DEF Malformed

LEMMA OutOfInputKeeps ==
  ASSUME IInv, OutOfInput
  PROVE  IInv'
<1>1. src \in {src, src + 1} /\ src <= Len(buf) /\ running /\ Leave(dec, -2, src, dst)
  BY DEF IInv, Positions, OutOfInput
<1>2. -2 \in Int /\ ~(-2 >= 0)  OBVIOUS
<1> QED  BY <1>1, <1>2, LeaveKeeps

LEMMA SizeKeeps ==
  ASSUME IInv, SizeByte \/ SizeEnds
  PROVE  IInv'
<1>1. CASE SizeByte
  <2>1. CASE NoMoreDigits
    <3>1. running /\ Malformed  BY <1>1, <2>1 DEF SizeByte, In
    <3> QED  BY <3>1, MalformedKeeps
  <2>2. CASE ~NoMoreDigits
    <3>1. /\ dec' = [dec EXCEPT !.left = 16 * dec.left + Hex[Cur], !.digits = dec.digits + 1]
          /\ src' = src + 1 /\ running /\ src # Len(buf)
          /\ UNCHANGED <<stream, fed, running, segment, buf, dst, ret>>
      BY <1>1, <2>2 DEF SizeByte, In, AtEnd, bufsz
    <3>2. 16 * dec.left + Hex[Cur] \in Nat /\ dec.digits + 1 \in Nat
      <4>1. Hex[Cur] \in Nat  BY <1>1, OctetsAre DEF SizeByte, IsHex
      <4>2. dec.left \in Nat /\ dec.digits \in Nat  BY DEF IInv, TypeInv, Decoder
      <4> QED  BY <4>1, <4>2
    <3>3. dec' \in Decoder
      <4>1. "SIZE" \in LineStates /\ dec \in Decoder  BY DEF LineStates, IInv, TypeInv
      <4> QED  BY <3>1, <3>2, <4>1, Decoders
    <3>4. Takes  BY <3>1 DEF Takes, IInv, TypeInv, Positions
    <3> QED  BY <3>3, <3>4, TakesKeeps
  <2> QED  BY <2>1, <2>2
<1>2. CASE SizeEnds
  <2>1. CASE dec.digits = 0 \/ ~EndsSize(Cur)
    <3>1. running /\ Malformed  BY <1>2, <2>1 DEF SizeEnds, In
    <3> QED  BY <3>1, MalformedKeeps
  <2>2. CASE ~(dec.digits = 0 \/ ~EndsSize(Cur))
    <3>1. /\ dec' = [dec EXCEPT !.st = "EXT", !.digits = 0] /\ running
          /\ UNCHANGED <<stream, fed, running, segment, buf, src, dst, ret>>
      BY <1>2, <2>2 DEF SizeEnds, In
    <3>2. dec' \in Decoder
      <4>1. "EXT" \in LineStates /\ dec \in Decoder /\ 0 \in Nat
        BY DEF LineStates, IInv, TypeInv
      <4> QED  BY <3>1, <4>1, Decoders
    <3>3. Takes  BY <3>1 DEF Takes, IInv, TypeInv, Positions
    <3> QED  BY <3>2, <3>3, TakesKeeps
  <2> QED  BY <2>1, <2>2
<1> QED  BY <1>1, <1>2

LEMMA LineEndsKeep ==
  ASSUME IInv, ExtByte \/ HeaderEnds \/ DataCR \/ DataLF \/ TrailerMiddle
  PROVE  IInv'
<1>1. running /\ ~AtEnd
  BY DEF ExtByte, HeaderEnds, DataCR, DataLF, TrailerMiddle, In
<1>2. Malformed \/ \E st \in LineStates : Advance(st)
  <2>1. CASE ExtByte
    BY <2>1 DEF ExtByte, LineStates
  <2>2. CASE HeaderEnds
    BY <2>2 DEF HeaderEnds, AfterHeader, LineStates
  <2>3. CASE DataCR
    BY <2>3 DEF DataCR, LineStates
  <2>4. CASE DataLF
    BY <2>4 DEF DataLF, LineStates
  <2>5. CASE TrailerMiddle
    BY <2>5 DEF TrailerMiddle, LineStates
  <2> QED  BY <2>1, <2>2, <2>3, <2>4, <2>5
<1> QED  BY <1>1, <1>2, AdvanceKeeps, MalformedKeeps

(* The end of the body: what is left of the data moves behind the body.      *)
LEMMA TrailerHeadKeeps ==
  ASSUME IInv, TrailerHead
  PROVE  IInv'
<1>1. running /\ ~AtEnd  BY DEF TrailerHead, In
<1>2. CASE \E st \in LineStates : Advance(st)
  BY <1>1, <1>2, AdvanceKeeps
<1>3. CASE Leave(dec, Undecoded, src + 1, dst)
  <2>1. /\ Undecoded \in Int /\ Undecoded = Len(buf) - (src + 1)
        /\ src + 1 \in {src, src + 1} /\ src + 1 <= Len(buf)
    BY <1>1 DEF Undecoded, AtEnd, bufsz, IInv, TypeInv, Positions
  <2> QED  BY <1>1, <1>3, <2>1, LeaveKeeps
<1>4. (\E st \in LineStates : Advance(st)) \/ Leave(dec, Undecoded, src + 1, dst)
  BY DEF TrailerHead, LineStates
<1> QED  BY <1>2, <1>3, <1>4

(* A chunk moves to the front, over bytes that were read: its own and older.  *)
LEMMA DataKeeps ==
  ASSUME IInv, Data
  PROVE  IInv'
<1> USE DEF IInv
<1>1. /\ running /\ buf \in Seq(Octet) /\ Len(buf) \in Nat /\ src \in Nat /\ dst \in Nat
      /\ dst <= src /\ src <= Len(buf) /\ dec \in Decoder /\ dec.left \in Nat
      /\ dec.overhead \in Nat
  BY DEF Data, In, TypeInv, Positions, Decoder
<1> DEFINE avail == Len(buf) - src
<1>2. CASE avail < dec.left
  <2>1. /\ running' = FALSE /\ buf' = Moved(dst, src, avail)
        /\ src' = Len(buf) /\ dst' = dst + avail
        /\ UNCHANGED <<stream, fed, segment>> /\ ret' \in {-1, -2}
        /\ dec' = [dec EXCEPT !.left = dec.left - avail,
                              !.overhead = dec.overhead + Len(buf) - dst']
    BY <1>2 DEF Data, Compacted, bufsz
  <2>2. buf' \in Seq(Octet) /\ Len(buf') = Len(buf)
    <3>1. avail \in Nat /\ src + avail <= Len(buf)  BY <1>1
    <3> HIDE DEF avail
    <3> QED  BY <1>1, <2>1, <3>1, MovedBytes
  <2>3. dec' \in Decoder
    <3>1. dec.left - avail \in Nat /\ dec.overhead + Len(buf) - dst' \in Nat
      BY <1>1, <1>2, <2>1, SMTT(30)
    <3>2. "DATA" \in LineStates  BY DEF LineStates
    <3> HIDE DEF avail
    <3> QED  BY <1>1, <2>1, <3>1, <3>2, Decoders
  <2>4. TypeInv'
    <3>1. running' \in BOOLEAN
      <4>1. running' = FALSE  BY <2>1
      <4> QED  BY <4>1
    <3>2. ret' \in Int
      <4>1. ret' \in {-1, -2}  BY <2>1
      <4> QED  BY <4>1
    <3>3. UNCHANGED <<stream, fed, segment>>  BY <2>1
    <3> QED  BY <2>2, <2>3, <3>1, <3>2, <3>3 DEF TypeInv
  <2>5. Positions'  BY <1>1, <2>1, <2>2 DEF Positions
  <2>6. Supplied'  BY <2>1, <2>2 DEF Supplied
  <2>7. Unread'  BY <2>1 DEF Unread
  <2>8. Left'  BY <2>1 DEF Left
  <2> QED  BY <2>4, <2>5, <2>6, <2>7, <2>8
<1>3. CASE ~(avail < dec.left)
  <2> DEFINE n == dec.left
  <2>1. /\ buf' = Moved(dst, src, n) /\ src' = src + n /\ dst' = dst + n
        /\ dec' = [dec EXCEPT !.left = 0, !.st = "DATA_CR"]
        /\ UNCHANGED <<stream, fed, running, segment, ret>>
    BY <1>3 DEF Data, Compacted, bufsz
  <2>2. n \in Nat /\ src + n <= Len(buf)  BY <1>1, <1>3
  <2>3. dec' \in Decoder
    <3>1. "DATA_CR" \in LineStates /\ 0 \in Nat  BY DEF LineStates
    <3> QED  BY <1>1, <2>1, <3>1, Decoders
  <2> HIDE DEF n
  <2>4. /\ buf' \in Seq(Octet) /\ Len(buf') = Len(buf)
        /\ \A i \in 1 .. Len(buf) : i > dst + n => buf'[i] = buf[i]
    BY <1>1, <2>1, <2>2, MovedBytes
  <2>5. TypeInv'  BY <2>1, <2>3, <2>4 DEF TypeInv
  <2>6. Positions'  BY <1>1, <2>1, <2>2, <2>4 DEF Positions
  <2>7. Supplied'  BY <2>1, <2>4 DEF Supplied
  <2>8. Unread'
    <3> SUFFICES ASSUME NEW i \in 1 .. Len(buf'), i > src'
                 PROVE  buf'[i] = segment'[i]
      BY DEF Unread
    <3>1. i \in 1 .. Len(buf) /\ i > dst + n /\ i > src  BY <1>1, <2>1, <2>2, <2>4
    <3>2. buf[i] = segment[i]  BY <1>1, <3>1 DEF Unread
    <3> QED  BY <2>1, <2>4, <3>1, <3>2
  <2>9. Left'  BY <1>1, <2>1 DEF Left
  <2> QED  BY <2>5, <2>6, <2>7, <2>8, <2>9
<1> QED  BY <1>2, <1>3

LEMMA NextKeeps == IInv /\ [Next]_vars => IInv'
<1> SUFFICES ASSUME IInv, [Next]_vars  PROVE IInv'
  OBVIOUS
<1>1. CASE \E n \in 1 .. Len(stream) : Supply(n)
  BY <1>1, SupplyKeeps
<1>2. CASE Block
  BY <1>2, OutOfInputKeeps, SizeKeeps, LineEndsKeep, DataKeeps, TrailerHeadKeeps DEF Block
<1>3. CASE UNCHANGED vars
  BY <1>3 DEF vars, IInv, TypeInv, Positions, Supplied, Unread, Left
<1> QED  BY <1>1, <1>2, <1>3 DEF Next

(* The inductive invariant: in a call, the positions of input and output and   *)
(* the bytes still to be read; after it, the bytes left over.                *)
THEOREM Invariance == Spec => []IInv
BY InitHolds, NextKeeps, PTL DEF Spec

(* Two parts of sequences are equal when they are as long and agree in every  *)
(* place.                                                                    *)
LEMMA SamePart ==
  ASSUME NEW s \in Seq(Octet), NEW t \in Seq(Octet), NEW a \in Nat, NEW b \in Nat,
         NEW n \in Nat, a + n <= Len(s), b + n <= Len(t),
         \A i \in 1 .. n : s[a + i] = t[b + i]
  PROVE  SubSeq(s, a + 1, a + n) = SubSeq(t, b + 1, b + n)
<1> DEFINE p == SubSeq(s, a + 1, a + n)
           q == SubSeq(t, b + 1, b + n)
<1>1. /\ p \in Seq(Octet) /\ Len(p) = n
      /\ \A i \in 1 .. n : p[i] = s[a + i]
  <2>1. \A i \in a + 1 .. a + n : i \in 1 .. Len(s)  OBVIOUS
  <2> QED  BY <2>1
<1>2. /\ q \in Seq(Octet) /\ Len(q) = n
      /\ \A i \in 1 .. n : q[i] = t[b + i]
  <2>1. \A i \in b + 1 .. b + n : i \in 1 .. Len(t)  OBVIOUS
  <2> QED  BY <2>1
<1> HIDE DEF p, q
<1>3. \A i \in 1 .. Len(p) : p[i] = q[i]  BY <1>1, <1>2
<1>4. p = q  BY <1>1, <1>2, <1>3, SeqEqual
<1> QED  BY <1>4 DEF p, q

LEMMA InPlace == IInv => DecodesInPlace
<1> SUFFICES ASSUME IInv  PROVE UnreadBytesIntact /\ TailFollowsData
  BY DEF DecodesInPlace
<1> USE DEF IInv
<1>1. /\ buf \in Seq(Octet) /\ segment \in Seq(Octet) /\ stream \in Seq(Octet)
      /\ Len(segment) = Len(buf) /\ Len(buf) \in Nat /\ src \in Nat /\ dst \in Nat
      /\ dst <= src /\ src <= Len(buf) /\ fed \in Nat /\ fed <= Len(stream)
      /\ Len(buf) <= fed
  BY DEF TypeInv, Positions
<1>2. UnreadBytesIntact
  <2> SUFFICES ASSUME running
               PROVE  SubSeq(buf, src + 1, Len(buf)) = SubSeq(segment, src + 1, Len(buf))
    BY DEF UnreadBytesIntact, bufsz
  <2>1. \A i \in 1 .. Len(buf) - src : buf[src + i] = segment[src + i]
    BY <1>1 DEF Unread
  <2> DEFINE n == Len(buf) - src
  <2>2. n \in Nat /\ src + n = Len(buf)  BY <1>1
  <2> HIDE DEF n
  <2>3. \A i \in 1 .. n : buf[src + i] = segment[src + i]  BY <2>1 DEF n
  <2>4. SubSeq(buf, src + 1, src + n) = SubSeq(segment, src + 1, src + n)
    BY <1>1, <2>2, <2>3, SamePart, SMTT(30)
  <2> QED  BY <2>2, <2>4
<1>3. TailFollowsData
  <2> SUFFICES ASSUME ~running, ret >= 0
               PROVE  SubSeq(buf, dst + 1, dst + ret) = SubSeq(stream, fed - ret + 1, fed)
    BY DEF TailFollowsData
  <2>1. /\ ret = Len(buf) - src /\ ret \in Nat /\ dst + ret <= Len(buf) /\ fed - ret \in Nat
        /\ \A i \in 1 .. ret : buf[dst + i] = stream[fed - ret + i]
    BY <1>1 DEF Left
  <2> DEFINE from == fed - ret
  <2>2. from \in Nat /\ from + ret = fed /\ from + ret <= Len(stream)  BY <1>1, <2>1
  <2>3. \A i \in 1 .. ret : buf[dst + i] = stream[from + i]  BY <2>1
  <2> HIDE DEF from
  <2>4. ret \in Nat  BY <2>1
  <2>5. dst \in Nat  BY <1>1
  <2>6. dst + ret <= Len(buf)  BY <2>1
  <2>7. from + ret <= Len(stream)  BY <2>2
  <2>8. from \in Nat  BY <2>2
  <2>9. buf \in Seq(Octet)  BY <1>1
  <2>10. stream \in Seq(Octet)  BY <1>1
  <2>11. SubSeq(buf, dst + 1, dst + ret) = SubSeq(stream, from + 1, from + ret)
    BY <2>3, <2>4, <2>5, <2>6, <2>7, <2>8, <2>9, <2>10, SamePart, ZenonT(60)
  <2> QED  BY <2>2, <2>11 DEF from
<1> QED  BY <1>2, <1>3

(* The bytes a call has yet to read are those it was given, although the same *)
(* call has moved decoded bytes to the front of the buffer; and behind the    *)
(* end of the body, the bytes left undecoded stand right after the decoded.  *)
THEOREM DecodingInPlaceIsSafe == Spec => []DecodesInPlace
BY Invariance, InPlace, PTL

-------------------------------------------------------------------------------
(* The decoder and the automaton.  In a call, the automaton that was fed all *)
(* bytes the decoder has taken is where the decoder is, except that between   *)
(* the digits of a size and what follows them the decoder has already left   *)
(* the first block and the automaton has not.                               *)

Fed(k) == Feed(Fresh, SubSeq(stream, 1, k))
Place == fed - Len(buf) + src  \* how much of the stream the decoder has taken

Pending(a) ==
  /\ dec.st = "EXT" /\ dec.digits = 0
  /\ a.st = "SIZE" /\ a.digits > 0 /\ ~AtEnd /\ EndsSize(Cur)

Agrees(a) == a.st = dec.st /\ a.digits = dec.digits

Follows ==
  running =>
    /\ Fed(Place).left = dec.left
    /\ Fed(Place).out = out \o SubSeq(buf, 1, dst)
    /\ Agrees(Fed(Place)) \/ Pending(Fed(Place))
    /\ ret = -2

CutsInv == Follows /\ CutsAreInvisible /\ out \in Seq(Octet)

LEMMA FreshSound ==
  Sound(Fresh) /\ Fresh.st \notin Final /\ Len(Fresh.out) = 0 /\ Fresh.used = 0
BY MaxDigitsAssumption DEF Sound, Fresh, Automaton, LineStates, Final

LEMMA FedType ==
  ASSUME IInv, NEW k \in 0 .. Len(stream)
  PROVE  /\ Sound(Fed(k)) /\ Fed(k) \in Automaton
         /\ Fed(k).st \notin Final => Fed(k).used = k
<1> DEFINE s == SubSeq(stream, 1, k)
<1>1. stream \in Seq(Octet)  BY DEF IInv, TypeInv
<1>2. s \in Seq(Octet) /\ Len(s) = k  BY <1>1
<1> HIDE DEF s
<1>3. /\ Sound(Feed(Fresh, s))
      /\ Feed(Fresh, s).st \notin Final => Feed(Fresh, s).used = Fresh.used + Len(s)
  BY <1>2, FreshSound, FeedType
<1>4. Fed(k) = Feed(Fresh, s)  BY DEF Fed, s
<1>5. Fresh.used + Len(s) = k  BY <1>2, FreshSound
<1> QED  BY <1>3, <1>4, <1>5 DEF Sound

LEMMA FedFinal ==
  ASSUME IInv, NEW k \in 0 .. Len(stream), NEW m \in k .. Len(stream), Fed(k).st \in Final
  PROVE  Fed(m) = Fed(k)
<1> DEFINE t == SubSeq(stream, k + 1, k + (m - k))
<1>1. stream \in Seq(Octet)  BY DEF IInv, TypeInv
<1>2. m - k \in 0 .. Len(stream) - k /\ k + (m - k) = m  OBVIOUS
<1>3. t \in Seq(Octet)
  <2>1. \A i \in k + 1 .. k + (m - k) : i \in 1 .. Len(stream)  BY <1>2
  <2> QED  BY <1>1, <2>1
<1>4. Feed(Fresh, SubSeq(stream, 1, k + (m - k))) = Feed(Fed(k), t)
  BY <1>1, <1>2, FeedParts DEF Fed
<1> HIDE DEF t
<1>5. Feed(Fed(k), t) = Fed(k)  BY <1>3, FedType, FeedFinal
<1> QED  BY <1>2, <1>4, <1>5 DEF Fed

LEMMA FedData ==
  ASSUME IInv, NEW k \in 0 .. Len(stream), NEW j \in 0 .. Len(stream) - k,
         Fed(k).st = "DATA", j <= Fed(k).left
  PROVE  /\ Fed(k + j).st = IF j = Fed(k).left THEN "DATA_CR" ELSE "DATA"
         /\ Fed(k + j).left = Fed(k).left - j
         /\ Fed(k + j).digits = Fed(k).digits
         /\ Fed(k + j).out = Fed(k).out \o SubSeq(stream, k + 1, k + j)
<1> DEFINE t == SubSeq(stream, k + 1, k + j)
           a == Fed(k)
<1>1. stream \in Seq(Octet)  BY DEF IInv, TypeInv
<1>2. t \in Seq(Octet) /\ Len(t) = j
  <2>1. \A i \in k + 1 .. k + j : i \in 1 .. Len(stream)  OBVIOUS
  <2> QED  BY <1>1, <2>1
<1>3. Fed(k + j) = Feed(a, t)  BY <1>1, FeedParts DEF Fed
<1>4. a \in Automaton /\ Sound(a) /\ a.st = "DATA" /\ j <= a.left  BY FedType
<1> HIDE DEF t, a
<1>5. Feed(a, t) = [a EXCEPT !.st = IF Len(t) = a.left THEN "DATA_CR" ELSE "DATA",
                             !.left = a.left - Len(t), !.out = a.out \o t,
                             !.used = a.used + Len(t)]
  BY <1>2, <1>4, FeedData
<1>6. /\ Feed(a, t).st = IF j = a.left THEN "DATA_CR" ELSE "DATA"
      /\ Feed(a, t).left = a.left - j /\ Feed(a, t).digits = a.digits
      /\ Feed(a, t).out = a.out \o t
  BY <1>2, <1>4, <1>5 DEF Automaton
<1> QED  BY <1>3, <1>6 DEF a, t

(* The byte the decoder looks at is the next the automaton is fed.           *)
LEMMA CurIsNext ==
  ASSUME IInv, running, ~AtEnd
  PROVE  /\ Place \in 0 .. Len(stream) /\ Place + 1 \in 0 .. Len(stream)
         /\ Place + 1 <= fed /\ Cur \in Octet
         /\ Fed(Place + 1) = Step(Fed(Place), Cur)
<1>1. /\ stream \in Seq(Octet) /\ buf \in Seq(Octet) /\ fed \in Nat /\ fed <= Len(stream)
      /\ Len(buf) <= fed /\ src \in Nat /\ src <= Len(buf) /\ src # Len(buf)
  BY DEF IInv, TypeInv, Positions, AtEnd, bufsz
<1>2. /\ Place \in 0 .. Len(stream) - 1 /\ Place + 1 \in 0 .. Len(stream)
      /\ Place + 1 <= fed /\ Place \in 0 .. Len(stream)
  <2>1. Len(buf) \in Nat /\ Len(stream) \in Nat  BY <1>1
  <2> QED  BY <1>1, <2>1 DEF Place
<1>3. src + 1 \in 1 .. Len(buf) /\ src + 1 > src /\ fed - Len(buf) + (src + 1) = Place + 1
  <2>1. Len(buf) \in Nat  BY <1>1
  <2> QED  BY <1>1, <2>1 DEF Place
<1>4. buf[src + 1] = segment[src + 1]  BY <1>3 DEF IInv, Unread
<1>5. segment[src + 1] = stream[Place + 1]  BY <1>3 DEF IInv, Supplied
<1>6. Cur = stream[Place + 1]  BY <1>4, <1>5 DEF Cur
<1>7. Cur \in Octet  BY <1>1, <1>3 DEF Cur
<1>8. Fed(Place + 1) = Step(Fed(Place), stream[Place + 1])
  BY <1>1, <1>2, FeedStep DEF Fed
<1> QED  BY <1>2, <1>6, <1>7, <1>8

LEMMA InCall ==
  ASSUME IInv, CutsInv, running
  PROVE  /\ Fed(Place) \in Automaton /\ Sound(Fed(Place)) /\ Place \in 0 .. Len(stream)
         /\ Fed(Place).left = dec.left /\ Fed(Place).out = out \o SubSeq(buf, 1, dst)
         /\ Agrees(Fed(Place)) \/ Pending(Fed(Place))
         /\ ret = -2 /\ out \in Seq(Octet)
<1>1. Place \in 0 .. Len(stream)
  <2>1. /\ Len(buf) \in Nat /\ Len(stream) \in Nat /\ fed \in Nat /\ fed <= Len(stream)
        /\ Len(buf) <= fed /\ src \in Nat /\ src <= Len(buf)
    BY DEF IInv, TypeInv, Positions
  <2> QED  BY <2>1 DEF Place
<1> QED  BY <1>1, FedType DEF CutsInv, Follows

(* A byte taken, and the automaton's step leads to where the decoder went.    *)
LEMMA TakenFollows ==
  ASSUME IInv, CutsInv, running, ~AtEnd, running' = running, src' = src + 1,
         UNCHANGED <<stream, fed, buf, dst, ret, out>>,
         NEW a, a = Step(Fed(Place), Cur),
         a.st = dec'.st, a.digits = dec'.digits, a.left = dec'.left,
         a.out = Fed(Place).out
  PROVE  CutsInv'
<1>1. Place' = Place + 1
  <2>1. Len(buf) \in Nat /\ fed \in Nat /\ src \in Nat  BY DEF IInv, TypeInv, Positions
  <2> QED  BY <2>1 DEF Place
<1>2. Fed(Place)' = a
  <2>1. Fed(Place)' = Fed(Place + 1)  BY <1>1 DEF Fed
  <2> QED  BY <2>1, CurIsNext
<1>3. Follows'
  <2>1. Agrees(Fed(Place))'  BY <1>2 DEF Agrees
  <2>2. (Fed(Place).left = dec.left)'  BY <1>2
  <2>3. (Fed(Place).out = out \o SubSeq(buf, 1, dst))'  BY <1>2, InCall
  <2>4. ret' = -2  BY InCall
  <2> QED  BY <2>1, <2>2, <2>3, <2>4 DEF Follows
<1>4. CutsAreInvisible'  BY DEF CutsAreInvisible
<1>5. out' \in Seq(Octet)  BY InCall
<1> QED  BY <1>3, <1>4, <1>5 DEF CutsInv

(* A byte no block takes, and the automaton is in error for good.             *)
LEMMA MalformedFollows ==
  ASSUME IInv, CutsInv, running, ~AtEnd, Malformed,
         Step(Fed(Place), Cur).st = "ERROR", Step(Fed(Place), Cur).out = Fed(Place).out
  PROVE  CutsInv'
<1>1. /\ running' = FALSE /\ stream' = stream /\ fed' = fed
      /\ out' = out \o SubSeq(buf, 1, dst) /\ ret' = -1
  BY DEF Malformed, Leave
<1> DEFINE a == Step(Fed(Place), Cur)
<1>2. Fed(Place + 1) = a  BY CurIsNext
<1>3. Fed(fed) = a
  <2>1. fed \in Place + 1 .. Len(stream) /\ Place + 1 \in 0 .. Len(stream)
    <3>1. fed \in Nat /\ fed <= Len(stream) /\ Len(stream) \in Nat  BY DEF IInv, TypeInv
    <3> QED  BY <3>1, CurIsNext
  <2>2. Fed(Place + 1).st \in Final  BY <1>2 DEF Final
  <2>3. Fed(fed) = Fed(Place + 1)  BY <2>1, <2>2, FedFinal
  <2> QED  BY <1>2, <2>3
<1>4. Feed(Fresh, SubSeq(stream', 1, fed')) = a  BY <1>1, <1>3 DEF Fed
<1>5. out' = a.out  BY <1>1, InCall
<1> DEFINE f == Feed(Fresh, SubSeq(stream', 1, fed'))
<1>6. f.st = "ERROR" /\ out' = f.out  BY <1>4, <1>5
<1> HIDE DEF f, a
<1>7. CutsAreInvisible'
  <2>1. /\ ret' = -1 /\ ~(ret' >= 0) /\ ret' # -2 /\ "ERROR" # "COMPLETE"  BY <1>1
  <2> QED  BY <1>6, <2>1 DEF CutsAreInvisible, f
<1>8. Follows'  BY <1>1 DEF Follows
<1>9. out' \in Seq(Octet)
  <2>1. Fed(Place) \in Automaton /\ out' = Fed(Place).out  BY <1>1, InCall
  <2> QED  BY <2>1 DEF Automaton
<1> QED  BY <1>7, <1>8, <1>9 DEF CutsInv

(* All bytes taken, and the call incomplete.                                 *)
LEMMA IncompleteFollows ==
  ASSUME IInv, IInv', running' = FALSE, stream' = stream, fed' = fed,
         out' \in Seq(Octet), out' = Fed(fed).out,
         Fed(fed).st = dec'.st, Fed(fed).left = dec'.left, Fed(fed).digits = dec'.digits,
         ret' = IF TooMuchOverhead(dec') THEN -1 ELSE -2
  PROVE  CutsInv'
<1> DEFINE f == Feed(Fresh, SubSeq(stream', 1, fed'))
<1>1. f = Fed(fed)  BY DEF Fed
<1>2. dec'.st \in LineStates  BY DEF IInv, TypeInv, Decoder
<1> HIDE DEF f
<1>3. f.st \notin {"COMPLETE", "ERROR"}  BY <1>1, <1>2 DEF LineStates
<1>4. ret' = -1 <=> TooMuchOverhead(dec')
  <2>1. CASE TooMuchOverhead(dec')
    BY <2>1
  <2>2. CASE ~TooMuchOverhead(dec')
    BY <2>2
  <2> QED  BY <2>1, <2>2
<1>5. ~(ret' >= 0)
  <2>1. ret' \in {-1, -2}  OBVIOUS
  <2> QED  BY <2>1
<1>6. CutsAreInvisible'  BY <1>1, <1>3, <1>4, <1>5 DEF CutsAreInvisible, f
<1>7. Follows'  BY DEF Follows
<1> QED  BY <1>6, <1>7 DEF CutsInv

LEMMA OutOfInputFollows ==
  ASSUME IInv, IInv', CutsInv, OutOfInput
  PROVE  CutsInv'
<1>1. /\ running /\ AtEnd /\ running' = FALSE /\ stream' = stream /\ fed' = fed
      /\ out' = out \o SubSeq(buf, 1, dst)
      /\ dec' = [dec EXCEPT !.overhead = dec.overhead + bufsz - dst]
      /\ ret' = IF TooMuchOverhead(dec') THEN -1 ELSE -2
  BY DEF OutOfInput, Leave
<1>2. Place = fed
  <2>1. Len(buf) \in Nat /\ fed \in Nat /\ src = Len(buf)
    BY <1>1 DEF AtEnd, bufsz, IInv, TypeInv, Positions
  <2> QED  BY <2>1 DEF Place
<1>3. Agrees(Fed(fed))  BY <1>1, <1>2, InCall DEF Pending
<1>4. dec'.st = dec.st /\ dec'.left = dec.left /\ dec'.digits = dec.digits
  BY <1>1 DEF IInv, TypeInv, Decoder
<1>5. out' = Fed(fed).out  BY <1>1, <1>2, InCall
<1>6. out' \in Seq(Octet)
  <2>1. Fed(fed) \in Automaton  BY <1>1, <1>2, InCall
  <2> QED  BY <1>5, <2>1 DEF Automaton
<1>7. Fed(fed).left = dec.left  BY <1>1, <1>2, InCall
<1> QED  BY <1>1, <1>3, <1>4, <1>5, <1>6, <1>7, IncompleteFollows DEF Agrees

LEMMA SizeFollows ==
  ASSUME IInv, CutsInv, SizeByte \/ SizeEnds
  PROVE  CutsInv'
<1> DEFINE a == Fed(Place)
           n == [a EXCEPT !.used = a.used + 1]
<1>1. running /\ dec.st = "SIZE" /\ ~AtEnd  BY DEF SizeByte, SizeEnds, In
<1>2. /\ a \in Automaton /\ a.left = dec.left /\ a.st = "SIZE" /\ a.digits = dec.digits
  BY <1>1, InCall DEF Pending, Agrees
<1> HIDE DEF a
<1>3. /\ n.out = a.out /\ n.left = a.left /\ n.digits = a.digits /\ n.st = "SIZE"
      /\ n \in Automaton /\ Step(a, Cur) = InSize(n, Cur)
  <2>1. Step(a, Cur) = InSize(n, Cur)  BY <1>2 DEF Step
  <2> QED  BY <1>2, <2>1 DEF Automaton
<1> HIDE DEF n
<1>4. CASE SizeByte
  <2>1. IsHex(Cur)  BY <1>4 DEF SizeByte
  <2>2. CASE NoMoreDigits
    <3>1. Malformed  BY <1>4, <2>2 DEF SizeByte
    <3>2. Step(a, Cur) = Reject(n)  BY <1>2, <1>3, <2>1, <2>2 DEF InSize, NoMoreDigits
    <3>3. Step(a, Cur).st = "ERROR" /\ Step(a, Cur).out = a.out
      BY <1>3, <3>2 DEF Reject, Go, Automaton
    <3> QED  BY <1>1, <3>1, <3>3, MalformedFollows DEF a
  <2>3. CASE ~NoMoreDigits
    <3>1. /\ dec' = [dec EXCEPT !.left = 16 * dec.left + Hex[Cur], !.digits = dec.digits + 1]
          /\ src' = src + 1 /\ UNCHANGED <<stream, fed, running, buf, dst, ret, out>>
      BY <1>4, <2>3 DEF SizeByte
    <3>2. dec'.left = 16 * dec.left + Hex[Cur] /\ dec'.digits = dec.digits + 1
          /\ dec'.st = "SIZE"
      BY <1>1, <3>1 DEF IInv, TypeInv, Decoder
    <3>3. Step(a, Cur) =
            [n EXCEPT !.left = 16 * n.left + Hex[Cur], !.digits = n.digits + 1]
      BY <1>2, <1>3, <2>1, <2>3 DEF InSize, NoMoreDigits
    <3>4. /\ Step(a, Cur).left = 16 * dec.left + Hex[Cur]
          /\ Step(a, Cur).digits = dec.digits + 1
          /\ Step(a, Cur).st = "SIZE" /\ Step(a, Cur).out = a.out
      BY <1>2, <1>3, <3>3 DEF Automaton
    <3> QED  BY <1>1, <3>1, <3>2, <3>4, TakenFollows DEF a
  <2> QED  BY <2>2, <2>3
<1>5. CASE SizeEnds
  <2>1. ~IsHex(Cur)  BY <1>5 DEF SizeEnds
  <2>2. CASE dec.digits = 0 \/ ~EndsSize(Cur)
    <3>1. Malformed  BY <1>5, <2>2 DEF SizeEnds
    <3>2. Step(a, Cur) = Reject(n)  BY <1>2, <1>3, <2>1, <2>2 DEF InSize
    <3>3. Step(a, Cur).st = "ERROR" /\ Step(a, Cur).out = a.out
      BY <1>3, <3>2 DEF Reject, Go, Automaton
    <3> QED  BY <1>1, <3>1, <3>3, MalformedFollows DEF a
  <2>3. CASE ~(dec.digits = 0 \/ ~EndsSize(Cur))
    <3>1. /\ dec' = [dec EXCEPT !.st = "EXT", !.digits = 0]
          /\ UNCHANGED <<stream, fed, running, segment, buf, src, dst, ret, out>>
      BY <1>5, <2>3 DEF SizeEnds
    <3>2. dec'.st = "EXT" /\ dec'.digits = 0 /\ dec'.left = dec.left
      BY <3>1 DEF IInv, TypeInv, Decoder
    <3>3. Place' = Place /\ Cur' = Cur /\ AtEnd' = AtEnd
      BY <3>1 DEF Place, Cur, AtEnd, bufsz
    <3>4. Fed(Place)' = a  BY <3>1, <3>3 DEF a, Fed
    <3>5. a.digits > 0  BY <1>2, <2>3 DEF Automaton
    <3>6. Pending(Fed(Place))'
      BY <1>1, <1>2, <2>3, <3>2, <3>3, <3>4, <3>5 DEF Pending
    <3>7. (Fed(Place).left = dec.left)'  BY <1>2, <3>2, <3>4
    <3>8. (Fed(Place).out = out \o SubSeq(buf, 1, dst))'  BY <1>1, <3>1, <3>4, InCall DEF a
    <3>9. Follows'  BY <1>1, <3>1, <3>6, <3>7, <3>8, InCall DEF Follows
    <3>10. CutsAreInvisible'  BY <1>1, <3>1 DEF CutsAreInvisible
    <3> QED  BY <1>1, <3>1, <3>9, <3>10, InCall DEF CutsInv
  <2> QED  BY <2>2, <2>3
<1> QED  BY <1>4, <1>5

(* Where the decoder is behind the first block, both are at the byte, or the  *)
(* automaton leaves the digits with it.                                      *)
LEMMA ExtFollows ==
  ASSUME IInv, CutsInv, ExtByte
  PROVE  CutsInv'
<1> DEFINE a == Fed(Place)
           n == [a EXCEPT !.used = a.used + 1]
           c == IF a.st = "EXT" THEN n ELSE [n EXCEPT !.st = "EXT", !.digits = 0]
<1>1. running /\ dec.st = "EXT" /\ ~AtEnd  BY DEF ExtByte, In
<1>2. a \in Automaton /\ a.left = dec.left  BY <1>1, InCall
<1>3. Agrees(a) \/ Pending(a)  BY <1>1, InCall
<1> HIDE DEF a
<1>4. n \in Automaton /\ n.out = a.out /\ n.left = a.left /\ n.st = a.st /\ n.digits = a.digits
  BY <1>2 DEF Automaton
<1>5. /\ c.st = "EXT" /\ c.digits = dec.digits /\ c.left = dec.left /\ c.out = a.out
      /\ DOMAIN c = {"st", "left", "digits", "out", "used"} /\ c \in Automaton
      /\ Step(a, Cur) = InExt(c, Cur)
  <2>1. CASE a.st = "EXT"
    <3>1. a.digits = dec.digits  BY <1>3, <2>1 DEF Agrees, Pending
    <3>2. Step(a, Cur) = InExt(n, Cur)  BY <2>1 DEF Step
    <3> HIDE DEF n
    <3> QED  BY <1>2, <1>4, <2>1, <3>1, <3>2 DEF Automaton
  <2>2. CASE a.st # "EXT"
    <3>1. dec.digits = 0 /\ a.st = "SIZE" /\ a.digits > 0 /\ EndsSize(Cur)
      BY <1>1, <1>3, <2>2 DEF Agrees, Pending
    <3>2. ~IsHex(Cur)  BY <3>1 DEF EndsSize, IsHex, Hex
    <3>3. Step(a, Cur) = InSize(n, Cur)  BY <3>1 DEF Step
    <3> HIDE DEF n
    <3>4. InSize(n, Cur) = InExt(c, Cur)
      BY <1>2, <1>4, <2>2, <3>1, <3>2 DEF InSize, Automaton
    <3>5. "EXT" \in LineStates /\ 0 \in 0 .. MaxDigits
      BY MaxDigitsAssumption DEF LineStates
    <3> QED  BY <1>2, <1>4, <2>2, <3>1, <3>3, <3>4, <3>5 DEF Automaton
  <2> QED  BY <2>1, <2>2
<1> HIDE DEF n, c
<1>6. CASE Cur = "LF"
  <2>1. Malformed  BY <1>6 DEF ExtByte
  <2>2. Step(a, Cur) = Reject(c)  BY <1>5, <1>6 DEF InExt
  <2>3. Step(a, Cur).st = "ERROR" /\ Step(a, Cur).out = a.out
    BY <1>5, <2>2 DEF Reject, Go, Automaton
  <2> QED  BY <1>1, <2>1, <2>3, MalformedFollows DEF a
<1>7. CASE Cur # "LF"
  <2> DEFINE st == IF Cur = "CR" THEN "EXPECT_LF" ELSE "EXT"
  <2>1. Advance(st)  BY <1>7 DEF ExtByte
  <2>2. /\ dec'.st = st /\ dec'.digits = dec.digits /\ dec'.left = dec.left
        /\ src' = src + 1 /\ UNCHANGED <<stream, fed, running, buf, dst, ret, out>>
    BY <2>1 DEF Advance, To, IInv, TypeInv, Decoder
  <2>3. /\ Step(a, Cur).st = st /\ Step(a, Cur).digits = c.digits
        /\ Step(a, Cur).left = c.left /\ Step(a, Cur).out = c.out
    BY <1>5, <1>7 DEF InExt, Go, Automaton
  <2> HIDE DEF st
  <2> QED  BY <1>1, <1>5, <2>2, <2>3, TakenFollows DEF a
<1> QED  BY <1>6, <1>7

(* The blocks that wait for one byte.                                        *)
LEMMA ExpectFollows ==
  ASSUME IInv, CutsInv, running, ~AtEnd, Agrees(Fed(Place)),
         NEW x, NEW st, NEW n \in Automaton,
         n.st = dec.st, n.left = dec.left, n.digits = dec.digits, n.out = Fed(Place).out,
         Step(Fed(Place), Cur) = Expect(n, Cur, x, st),
         IF Cur = x THEN Advance(st) ELSE Malformed
  PROVE  CutsInv'
<1> DEFINE a == Fed(Place)
<1>1. CASE Cur = x
  <2>1. /\ dec'.st = st /\ dec'.digits = dec.digits /\ dec'.left = dec.left
        /\ src' = src + 1 /\ UNCHANGED <<stream, fed, running, buf, dst, ret, out>>
    BY <1>1 DEF Advance, To, IInv, TypeInv, Decoder
  <2>2. /\ Step(a, Cur).st = st /\ Step(a, Cur).digits = n.digits
        /\ Step(a, Cur).left = n.left /\ Step(a, Cur).out = n.out
    BY <1>1 DEF Expect, Go, Automaton
  <2> QED  BY <2>1, <2>2, TakenFollows
<1>2. CASE Cur # x
  <2>1. Step(a, Cur).st = "ERROR" /\ Step(a, Cur).out = a.out
    BY <1>2 DEF Expect, Reject, Go, Automaton
  <2> QED  BY <1>2, <2>1, MalformedFollows
<1> QED  BY <1>1, <1>2

LEMMA LineEndsFollow ==
  ASSUME IInv, CutsInv, HeaderEnds \/ DataCR \/ DataLF
  PROVE  CutsInv'
<1> DEFINE a == Fed(Place)
           n == [a EXCEPT !.used = a.used + 1]
<1>1. running /\ ~AtEnd /\ dec.st \in {"EXPECT_LF", "DATA_CR", "DATA_LF"}
  BY DEF HeaderEnds, DataCR, DataLF, In
<1>2. a \in Automaton /\ a.left = dec.left /\ Agrees(a)
  BY <1>1, InCall DEF Pending
<1> HIDE DEF a
<1>3. /\ n \in Automaton /\ n.st = dec.st /\ n.left = dec.left /\ n.digits = dec.digits
      /\ n.out = a.out
  BY <1>2 DEF Automaton, Agrees
<1>4. CASE HeaderEnds
  <2>1. dec.st = "EXPECT_LF" /\ IF Cur = "LF" THEN Advance(AfterHeader) ELSE Malformed
    BY <1>4 DEF HeaderEnds, In
  <2>2. Step(a, Cur) = Expect(n, Cur, "LF", AfterHeader)
    BY <1>2, <2>1 DEF Step, AfterHeader, Agrees
  <2> HIDE DEF n
  <2> QED  BY <1>1, <1>2, <1>3, <2>1, <2>2, ExpectFollows DEF a
<1>5. CASE DataCR
  <2>1. dec.st = "DATA_CR" /\ IF Cur = "CR" THEN Advance("DATA_LF") ELSE Malformed
    BY <1>5 DEF DataCR, In
  <2>2. Step(a, Cur) = Expect(n, Cur, "CR", "DATA_LF")
    BY <1>2, <2>1 DEF Step, Agrees
  <2> HIDE DEF n
  <2> QED  BY <1>1, <1>2, <1>3, <2>1, <2>2, ExpectFollows DEF a
<1>6. CASE DataLF
  <2>1. dec.st = "DATA_LF" /\ IF Cur = "LF" THEN Advance("SIZE") ELSE Malformed
    BY <1>6 DEF DataLF, In
  <2>2. Step(a, Cur) = Expect(n, Cur, "LF", "SIZE")
    BY <1>2, <2>1 DEF Step, Agrees
  <2> HIDE DEF n
  <2> QED  BY <1>1, <1>2, <1>3, <2>1, <2>2, ExpectFollows DEF a
<1> QED  BY <1>4, <1>5, <1>6

(* The trailer, and the end of the body: the automaton took what the call     *)
(* took, and takes nothing of the bytes the call returns as undecoded.       *)
LEMMA TrailerFollows ==
  ASSUME IInv, IInv', CutsInv, TrailerHead \/ TrailerMiddle
  PROVE  CutsInv'
<1> DEFINE a == Fed(Place)
           n == [a EXCEPT !.used = a.used + 1]
           b == Step(a, Cur)
<1>1. running /\ ~AtEnd /\ dec.st \in {"TRAILER_HEAD", "TRAILER_MIDDLE"}
  BY DEF TrailerHead, TrailerMiddle, In
<1>2. a \in Automaton /\ a.left = dec.left /\ a.st = dec.st /\ a.digits = dec.digits
  BY <1>1, InCall DEF Pending, Agrees
<1>3. Sound(a)  BY <1>1, InCall
<1> HIDE DEF a
<1>4. /\ n \in Automaton /\ n.st = dec.st /\ n.left = dec.left /\ n.digits = dec.digits
      /\ n.out = a.out
  BY <1>2 DEF Automaton
<1>5. CASE \E st \in {"TRAILER_HEAD", "TRAILER_MIDDLE"} : Advance(st) /\ b = Go(n, st)
  <2>1. PICK st \in {"TRAILER_HEAD", "TRAILER_MIDDLE"} : Advance(st) /\ b = Go(n, st)
    BY <1>5
  <2>2. /\ dec'.st = st /\ dec'.digits = dec.digits /\ dec'.left = dec.left
        /\ src' = src + 1 /\ UNCHANGED <<stream, fed, running, buf, dst, ret, out>>
    BY <2>1 DEF Advance, To, IInv, TypeInv, Decoder
  <2>3. b.st = st /\ b.digits = n.digits /\ b.left = n.left /\ b.out = n.out
    <3> HIDE DEF n, b
    <3> QED  BY <1>4, <2>1 DEF Go, Automaton
  <2> HIDE DEF n
  <2> QED  BY <1>1, <1>4, <2>2, <2>3, TakenFollows DEF a
<1>6. CASE Leave(dec, Undecoded, src + 1, dst) /\ b = Go(n, "COMPLETE")
  <2>1. b.st = "COMPLETE" /\ b.out = a.out /\ b.used = a.used + 1
    <3>1. n.used = a.used + 1  BY <1>2 DEF Automaton
    <3> HIDE DEF n, b
    <3> QED  BY <1>4, <1>6, <3>1 DEF Go, Automaton
  <2>2. Fed(Place + 1) = b  BY <1>1, CurIsNext DEF a
  <2>3. /\ Len(buf) \in Nat /\ fed \in Nat /\ src \in Nat /\ src + 1 <= Len(buf)
        /\ Len(buf) <= fed /\ fed <= Len(stream) /\ Len(stream) \in Nat
    BY <1>1 DEF IInv, TypeInv, Positions, AtEnd, bufsz
  <2>4. Place \in 0 .. Len(stream) /\ Place + 1 \in 0 .. Len(stream) /\ Place + 1 <= fed
    BY <1>1, CurIsNext
  <2> HIDE DEF n, b
  <2>5. Fed(fed) = b
    <3>1. fed \in Place + 1 .. Len(stream)  BY <2>3, <2>4
    <3>2. Fed(Place + 1).st \in Final  BY <2>1, <2>2 DEF Final
    <3> QED  BY <2>2, <2>4, <3>1, <3>2, FedFinal
  <2>6. b.used = Place + 1
    <3>1. a.st \notin Final  BY <1>1, <1>2 DEF Final
    <3>2. a.used = Place  BY <2>4, <3>1, FedType DEF a
    <3> QED  BY <2>1, <3>2
  <2>7. Undecoded \in Nat /\ fed - Undecoded = Place + 1
    BY <2>3 DEF Undecoded, bufsz, Place
  <2>8. /\ running' = FALSE /\ stream' = stream /\ fed' = fed
        /\ out' = out \o SubSeq(buf, 1, dst) /\ ret' = Undecoded
    <3>1. Undecoded # -2  BY <2>7
    <3> QED  BY <1>6, <3>1 DEF Leave
  <2>9. out' = b.out  BY <1>1, <2>1, <2>8, InCall DEF a
  <2> DEFINE f == Feed(Fresh, SubSeq(stream', 1, fed'))
  <2>10. f = b  BY <2>5, <2>8 DEF Fed
  <2> HIDE DEF f
  <2>11. f.st = "COMPLETE" /\ out' = f.out /\ fed' - ret' = f.used
    BY <2>1, <2>6, <2>7, <2>8, <2>9, <2>10
  <2>12. ret' >= 0 /\ ret' # -1 /\ ret' # -2  BY <2>7, <2>8
  <2>13. dec'.st # "COMPLETE" /\ "COMPLETE" # "ERROR"
    BY DEF IInv, TypeInv, Decoder, LineStates
  <2>14. CutsAreInvisible'
    BY <2>11, <2>12, <2>13 DEF CutsAreInvisible, f
  <2>15. Follows'  BY <2>8 DEF Follows
  <2>16. out' \in Seq(Octet)  BY <1>2, <2>1, <2>9 DEF Automaton
  <2> QED  BY <2>14, <2>15, <2>16 DEF CutsInv
<1>7. CASE TrailerHead
  <2>1. /\ dec.st = "TRAILER_HEAD"
        /\ CASE Cur = "CR" -> Advance("TRAILER_HEAD")
             [] Cur = "LF" -> Leave(dec, Undecoded, src + 1, dst)
             [] OTHER -> Advance("TRAILER_MIDDLE")
    BY <1>7 DEF TrailerHead, In
  <2>2. b = CASE Cur = "CR" -> n [] Cur = "LF" -> Go(n, "COMPLETE")
              [] OTHER -> Go(n, "TRAILER_MIDDLE")
    BY <1>2, <2>1 DEF Step
  <2>3. n = Go(n, "TRAILER_HEAD")
    <3> HIDE DEF n
    <3> QED  BY <1>4, <2>1 DEF Go, Automaton
  <2> HIDE DEF n, b
  <2>4. CASE Cur = "LF"
    BY <1>6, <2>1, <2>2, <2>4
  <2>5. CASE Cur = "CR"
    BY <1>5, <2>1, <2>2, <2>3, <2>5
  <2>6. CASE Cur # "CR" /\ Cur # "LF"
    BY <1>5, <2>1, <2>2, <2>6
  <2> QED  BY <2>4, <2>5, <2>6
<1>8. CASE TrailerMiddle
  <2>1. /\ dec.st = "TRAILER_MIDDLE"
        /\ IF Cur = "LF" THEN Advance("TRAILER_HEAD") ELSE Advance("TRAILER_MIDDLE")
    BY <1>8 DEF TrailerMiddle, In
  <2>2. b = IF Cur = "LF" THEN Go(n, "TRAILER_HEAD") ELSE n
    BY <1>2, <2>1 DEF Step
  <2>3. n = Go(n, "TRAILER_MIDDLE")
    <3> HIDE DEF n
    <3> QED  BY <1>4, <2>1 DEF Go, Automaton
  <2> HIDE DEF n, b
  <2> QED  BY <1>5, <2>1, <2>2, <2>3
<1> QED  BY <1>7, <1>8

(* The bytes of a chunk that a call moves are those the stream has there.     *)
LEMMA DataMoved ==
  ASSUME IInv, running, NEW n \in Nat, src + n <= Len(buf)
  PROVE  SubSeq(Moved(dst, src, n), 1, dst + n)
           = SubSeq(buf, 1, dst) \o SubSeq(stream, Place + 1, Place + n)
<1> DEFINE m == Moved(dst, src, n)
           p == SubSeq(m, 1, dst + n)
           u == SubSeq(buf, 1, dst)
           v == SubSeq(stream, Place + 1, Place + n)
<1>1. /\ buf \in Seq(Octet) /\ stream \in Seq(Octet) /\ Len(buf) \in Nat /\ fed \in Nat
      /\ Len(stream) \in Nat /\ fed <= Len(stream) /\ Len(buf) <= fed
      /\ src \in Nat /\ dst \in Nat /\ dst <= src
  BY DEF IInv, TypeInv, Positions
<1>2. m \in Seq(Octet) /\ Len(m) = Len(buf) /\ \A i \in 1 .. n : m[dst + i] = buf[src + i]
  <2>1. buf \in Seq(Octet) /\ dst \in Nat /\ src \in Nat /\ dst <= src  BY <1>1
  <2>2. /\ Moved(dst, src, n) \in Seq(Octet) /\ Len(Moved(dst, src, n)) = Len(buf)
        /\ \A i \in 1 .. n : Moved(dst, src, n)[dst + i] = buf[src + i]
    <3> HIDE DEF m, p, u, v
    <3> QED  BY <2>1, MovedBytes
  <2> QED  BY <2>2
<1>3. \A i \in 1 .. dst : m[i] = buf[i]
  <2>1. m = [i \in 1 .. Len(buf) |->
               IF i > dst /\ i <= dst + n THEN buf[i - dst + src] ELSE buf[i]]
    BY DEF Moved, bufsz
  <2>2. \A i \in 1 .. dst : i \in 1 .. Len(buf) /\ ~(i > dst)  BY <1>1
  <2> HIDE DEF m
  <2> QED  BY <2>1, <2>2
<1>4. Place \in Nat /\ Place + n <= Len(stream)
  <2> HIDE DEF m, p, u, v
  <2> QED  BY <1>1 DEF Place
<1>5. \A i \in 1 .. n : buf[src + i] = stream[Place + i]
  <2> TAKE i \in 1 .. n
  <2>1. src + i \in 1 .. Len(buf) /\ src + i > src /\ fed - Len(buf) + (src + i) = Place + i
    BY <1>1 DEF Place
  <2> QED  BY <2>1 DEF IInv, Unread, Supplied
<1> HIDE DEF m
<1>6. p \in Seq(Octet) /\ Len(p) = dst + n /\ \A i \in 1 .. dst + n : p[i] = m[i]
  <2>1. dst + n \in 0 .. Len(m)  BY <1>1, <1>2
  <2> QED  BY <1>2, <2>1
<1>7. u \in Seq(Octet) /\ Len(u) = dst /\ \A i \in 1 .. dst : u[i] = buf[i]
  <2>1. dst \in 0 .. Len(buf)  BY <1>1
  <2> QED  BY <1>1, <2>1
<1>8. v \in Seq(Octet) /\ Len(v) = n /\ \A i \in 1 .. n : v[i] = stream[Place + i]
  <2>1. \A i \in Place + 1 .. Place + n : i \in 1 .. Len(stream)  BY <1>1, <1>4
  <2> QED  BY <1>1, <1>4, <2>1
<1> HIDE DEF p, u, v
<1>9. /\ u \o v \in Seq(Octet) /\ Len(u \o v) = dst + n
      /\ \A i \in 1 .. dst : (u \o v)[i] = u[i]
      /\ \A i \in 1 .. n : (u \o v)[dst + i] = v[i]
  <2>1. u \o v \in Seq(Octet) /\ Len(u \o v) = dst + n  BY <1>7, <1>8
  <2>2. ASSUME NEW i \in 1 .. dst
        PROVE  (u \o v)[i] = u[i]
    <3>1. i \in 1 .. Len(u) /\ i \in 1 .. Len(u) + Len(v)  BY <1>1, <1>7, <1>8
    <3> QED  BY <1>7, <1>8, <3>1
  <2>3. ASSUME NEW i \in 1 .. n
        PROVE  (u \o v)[dst + i] = v[i]
    <3>1. /\ dst + i \in 1 .. Len(u) + Len(v) /\ ~(dst + i <= Len(u))
          /\ (dst + i) - Len(u) = i
      BY <1>1, <1>7, <1>8
    <3> QED  BY <1>7, <1>8, <3>1
  <2> QED  BY <2>1, <2>2, <2>3
<1>10. \A i \in 1 .. dst + n : p[i] = (u \o v)[i]
  <2> TAKE i \in 1 .. dst + n
  <2>1. CASE i <= dst
    <3>1. i \in 1 .. dst  BY <1>1, <2>1
    <3> QED  BY <1>3, <1>6, <1>7, <1>9, <3>1
  <2>2. CASE i > dst
    <3>1. PICK j \in 1 .. n : i = dst + j
      <4>1. i - dst \in 1 .. n /\ i = dst + (i - dst)  BY <1>1, <2>2
      <4> QED  BY <4>1
    <3>2. p[i] = m[dst + j]  BY <1>6, <3>1
    <3>3. m[dst + j] = buf[src + j]  BY <1>2
    <3>4. buf[src + j] = v[j]  BY <1>5, <1>8
    <3>5. (u \o v)[i] = v[j]  BY <1>9, <3>1
    <3> QED  BY <3>2, <3>3, <3>4, <3>5
  <2>3. i <= dst \/ i > dst  BY <1>1
  <2> QED  BY <2>1, <2>2, <2>3
<1>11. p = u \o v
  <2>1. \A i \in 1 .. Len(p) : p[i] = (u \o v)[i]  BY <1>6, <1>10
  <2>2. Len(p) = Len(u \o v)  BY <1>6, <1>9
  <2> DEFINE w == u \o v
  <2>3. w \in Seq(Octet)  BY <1>9
  <2> QED  BY <1>6, <2>1, <2>2, <2>3, SeqEqual
<1> QED  BY <1>11 DEF p, u, v, m

LEMMA DataFollows ==
  ASSUME IInv, IInv', CutsInv, Data
  PROVE  CutsInv'
<1> DEFINE a == Fed(Place)
           avail == Len(buf) - src
<1>1. /\ running /\ buf \in Seq(Octet) /\ Len(buf) \in Nat /\ fed \in Nat
      /\ Len(stream) \in Nat /\ fed <= Len(stream) /\ Len(buf) <= fed
      /\ src \in Nat /\ dst \in Nat /\ dst <= src /\ src <= Len(buf) /\ dec \in Decoder
      /\ dec.left \in Nat /\ dec.st = "DATA" /\ stream \in Seq(Octet)
  BY SMTT(30) DEF Data, In, IInv, TypeInv, Positions, Decoder
<1>2. /\ a \in Automaton /\ a.left = dec.left /\ a.st = "DATA" /\ a.digits = dec.digits
      /\ a.out = out \o SubSeq(buf, 1, dst) /\ Place \in 0 .. Len(stream)
      /\ out \in Seq(Octet) /\ ret = -2
  BY <1>1, InCall DEF Pending, Agrees
<1>3. avail \in Nat /\ src + avail = Len(buf) /\ Place + avail = fed
  BY <1>1 DEF Place
<1> HIDE DEF a, avail
(* What the call has decoded when n more bytes have moved. *)
<1>4. ASSUME NEW n \in Nat, n <= avail, buf' = Moved(dst, src, n), dst' = dst + n
      PROVE  /\ n <= a.left => Fed(Place + n).out = out \o SubSeq(buf', 1, dst')
             /\ out \o SubSeq(buf', 1, dst') \in Seq(Octet)
  <2> DEFINE u == SubSeq(buf, 1, dst)
             v == SubSeq(stream, Place + 1, Place + n)
  <2>1. src + n <= Len(buf)  BY <1>1, <1>3, <1>4
  <2>2. SubSeq(buf', 1, dst') = u \o v  BY <1>1, <1>4, <2>1, DataMoved
  <2>3. Place + n <= Len(stream) /\ n \in 0 .. Len(stream) - Place
    BY <1>1, <1>2, <1>3, <1>4
  <2>4. u \in Seq(Octet)
    <3>1. dst <= Len(buf)  BY <1>1
    <3> QED  BY <1>1, <3>1
  <2>5. v \in Seq(Octet)
    <3>1. \A i \in Place + 1 .. Place + n : i \in 1 .. Len(stream)  BY <1>1, <1>2, <2>3
    <3>2. Place \in Nat  BY <1>2
    <3> QED  BY <1>1, <3>1, <3>2
  <2>6. n <= a.left => Fed(Place + n).out = a.out \o v
    BY <1>2, <2>3, FedData DEF a
  <2> HIDE DEF u, v
  <2>7. out \o (u \o v) = (out \o u) \o v
    BY <1>2, <2>4, <2>5, ConcatAssociative, SMTT(30)
  <2>8. a.out = out \o u  BY <1>2 DEF u
  <2>9. out \o (u \o v) \in Seq(Octet)  BY <1>2, <2>4, <2>5
  <2> QED  BY <2>2, <2>6, <2>7, <2>8, <2>9
<1>5. CASE avail < dec.left
  <2>1. /\ running' = FALSE /\ buf' = Moved(dst, src, avail) /\ dst' = dst + avail
        /\ UNCHANGED <<stream, fed, segment>>
        /\ out' = out \o SubSeq(buf', 1, dst')
        /\ dec' = [dec EXCEPT !.left = dec.left - avail,
                              !.overhead = dec.overhead + Len(buf) - dst']
        /\ ret' = IF TooMuchOverhead(dec') THEN -1 ELSE -2
    BY <1>5 DEF Data, Compacted, bufsz, avail
  <2>2. dec'.st = "DATA" /\ dec'.digits = dec.digits /\ dec'.left = dec.left - avail
    BY <1>1, <2>1 DEF Decoder
  <2>3. /\ Fed(fed).st = "DATA" /\ Fed(fed).left = a.left - avail
        /\ Fed(fed).digits = a.digits
    <3>1. avail \in 0 .. Len(stream) - Place /\ avail <= a.left /\ avail # a.left
      BY <1>1, <1>2, <1>3, <1>5
    <3> QED  BY <1>2, <1>3, <3>1, FedData DEF a
  <2>4. out' = Fed(fed).out /\ out' \in Seq(Octet)
    <3>1. avail <= avail /\ avail <= a.left  BY <1>1, <1>2, <1>3, <1>5
    <3> QED  BY <1>3, <1>4, <2>1, <3>1
  <2> QED  BY <1>2, <2>1, <2>2, <2>3, <2>4, IncompleteFollows
<1>6. CASE ~(avail < dec.left)
  <2> DEFINE n == dec.left
  <2>1. /\ buf' = Moved(dst, src, n) /\ src' = src + n /\ dst' = dst + n
        /\ dec' = [dec EXCEPT !.left = 0, !.st = "DATA_CR"]
        /\ UNCHANGED <<stream, fed, running, segment, ret, out>>
    BY <1>6 DEF Data, Compacted, bufsz, avail
  <2>2. n \in Nat /\ n <= avail /\ n \in 0 .. Len(stream) - Place /\ n <= a.left /\ n = a.left
    BY <1>1, <1>2, <1>3, <1>6
  <2>3. dec'.st = "DATA_CR" /\ dec'.digits = dec.digits /\ dec'.left = 0
    BY <1>1, <2>1 DEF Decoder
  <2> HIDE DEF n
  <2>4. /\ Fed(Place + n).st = "DATA_CR" /\ Fed(Place + n).left = 0
        /\ Fed(Place + n).digits = a.digits
    <3>1. a.left - n = 0  BY <2>2
    <3> QED  BY <1>2, <2>2, <3>1, FedData DEF a
  <2>5. Fed(Place + n).out = out \o SubSeq(buf', 1, dst')  BY <1>4, <2>1, <2>2
  <2>6. Place' = Place + n
    <3>1. Len(buf') = Len(buf)
      <4>1. src + n <= Len(buf)  BY <1>1, <1>3, <2>2
      <4> QED  BY <1>1, <2>1, <2>2, <4>1, MovedBytes
    <3> QED  BY <1>1, <2>1, <2>2, <3>1 DEF Place
  <2>7. Fed(Place)' = Fed(Place + n)  BY <2>1, <2>6 DEF Fed
  <2>8. Follows'
    <3>1. Agrees(Fed(Place))'  BY <1>2, <2>3, <2>4, <2>7 DEF Agrees
    <3>2. (Fed(Place).left = dec.left)'  BY <2>3, <2>4, <2>7
    <3>3. (Fed(Place).out = out \o SubSeq(buf, 1, dst))'  BY <2>1, <2>5, <2>7
    <3> QED  BY <1>2, <2>1, <3>1, <3>2, <3>3 DEF Follows
  <2>9. CutsAreInvisible'  BY <1>1, <2>1 DEF CutsAreInvisible
  <2> QED  BY <1>2, <2>1, <2>8, <2>9 DEF CutsInv
<1> QED  BY <1>5, <1>6

LEMMA SupplyFollows ==
  ASSUME IInv, IInv', CutsInv, NEW n \in 1 .. Len(stream), Supply(n)
  PROVE  CutsInv'
<1>1. /\ n \in 1 .. Len(stream) - fed /\ ~running /\ ret = -2
      /\ buf' = SubSeq(stream, fed + 1, fed + n) /\ src' = 0 /\ dst' = 0
      /\ fed' = fed + n /\ running' = TRUE /\ dec' = [dec EXCEPT !.read = dec.read + n]
      /\ UNCHANGED <<stream, ret, out>>
  BY DEF Supply
<1>2. stream \in Seq(Octet) /\ fed \in Nat  BY DEF IInv, TypeInv
<1>3. Len(buf') = n /\ buf' \in Seq(Octet)
  <2>1. \A i \in fed + 1 .. fed + n : i \in 1 .. Len(stream)  BY <1>1, <1>2
  <2> QED  BY <1>1, <1>2, <2>1
<1>4. Place' = fed  BY <1>1, <1>2, <1>3 DEF Place
<1>5. Fed(Place)' = Fed(fed)  BY <1>1, <1>4 DEF Fed
<1> DEFINE f == Feed(Fresh, SubSeq(stream, 1, fed))
<1>6. f = Fed(fed)  BY DEF Fed
<1> HIDE DEF f
<1>7. out = f.out /\ dec.st = f.st /\ dec.left = f.left /\ dec.digits = f.digits
  BY <1>1 DEF CutsInv, CutsAreInvisible, f
<1>8. dec'.st = dec.st /\ dec'.left = dec.left /\ dec'.digits = dec.digits
  BY <1>1 DEF IInv, TypeInv, Decoder
<1>9. out' \o SubSeq(buf', 1, dst') = out
  <2>1. SubSeq(buf', 1, 0) = <<>>  BY <1>3
  <2>2. out \o <<>> = out  BY DEF CutsInv
  <2> QED  BY <1>1, <2>1, <2>2
<1>10. Follows'
  <2>1. Agrees(Fed(Place))'  BY <1>5, <1>6, <1>7, <1>8 DEF Agrees
  <2>2. (Fed(Place).left = dec.left)'  BY <1>5, <1>6, <1>7, <1>8
  <2>3. (Fed(Place).out = out \o SubSeq(buf, 1, dst))'  BY <1>5, <1>6, <1>7, <1>9
  <2> QED  BY <1>1, <2>1, <2>2, <2>3 DEF Follows
<1>11. CutsAreInvisible'  BY <1>1 DEF CutsAreInvisible
<1> QED  BY <1>1, <1>10, <1>11 DEF CutsInv

LEMMA InitFollows == Init => CutsInv
<1> SUFFICES ASSUME Init  PROVE CutsInv
  OBVIOUS
<1>1. Feed(Fresh, SubSeq(stream, 1, fed)) = Fresh
  <2>1. stream \in Seq(Octet) /\ fed = 0  BY StreamAssumption DEF Init
  <2>2. SubSeq(stream, 1, 0) = <<>>  BY <2>1
  <2> QED  BY <2>1, <2>2, FeedNothing
<1>2. ~TooMuchOverhead(dec)
  <2>1. dec.read = 0 /\ dec.overhead = 0 /\ ~(0 - 0 < 0 \div 4)  BY DEF Init
  <2> QED  BY <2>1 DEF TooMuchOverhead
<1>3. Fresh = [st |-> "SIZE", left |-> 0, digits |-> 0, out |-> <<>>, used |-> 0]
  BY DEF Fresh
<1>4. CutsAreInvisible
  <2>1. ret = -2 /\ ~(ret >= 0) /\ ret # -1  BY DEF Init
  <2>2. out = Fresh.out /\ dec.st = Fresh.st /\ dec.left = Fresh.left /\ dec.digits = Fresh.digits
        /\ Fresh.st # "COMPLETE" /\ Fresh.st # "ERROR"
    BY <1>3 DEF Init
  <2> HIDE DEF Fresh
  <2> QED  BY <1>1, <1>2, <2>1, <2>2 DEF CutsAreInvisible
<1>5. Follows  BY DEF Init, Follows
<1>6. out \in Seq(Octet)  BY DEF Init
<1> QED  BY <1>4, <1>5, <1>6 DEF CutsInv

LEMMA NextFollows == IInv /\ IInv' /\ CutsInv /\ [Next]_vars => CutsInv'
<1> SUFFICES ASSUME IInv, IInv', CutsInv, [Next]_vars  PROVE CutsInv'
  OBVIOUS
<1>1. CASE \E n \in 1 .. Len(stream) : Supply(n)
  BY <1>1, SupplyFollows
<1>2. CASE Block
  BY <1>2, OutOfInputFollows, SizeFollows, ExtFollows, LineEndsFollow, DataFollows,
     TrailerFollows DEF Block
<1>3. CASE UNCHANGED vars
  <2>1. Follows'
    BY <1>3 DEF vars, CutsInv, Follows, Fed, Place, Agrees, Pending, AtEnd, Cur, bufsz
  <2>2. CutsAreInvisible'  BY <1>3 DEF vars, CutsInv, CutsAreInvisible, TooMuchOverhead
  <2> QED  BY <1>3, <2>1, <2>2 DEF vars, CutsInv
<1> QED  BY <1>1, <1>2, <1>3 DEF Next

(* Wherever the calls cut the stream, they decode what the automaton decodes  *)
(* from it uncut, with the same verdict, and stop at the same byte; only the  *)
(* overhead test may refuse more.                                            *)
THEOREM DecodingIgnoresCuts == Spec => []CutsAreInvisible
<1>1. CutsInv => CutsAreInvisible  BY DEF CutsInv
<1> QED  BY <1>1, Invariance, InitFollows, NextFollows, PTL DEF Spec

(* Up to its end an encoded body is neither complete nor wrong.               *)
LEMMA CodedIsDecoded ==
  ASSUME IInv, NEW b \in CodedBody, IsPrefix(Encoded(b), stream)
  PROVE  LET n == Len(Encoded(b)) IN
         /\ n \in Nat
         /\ fed >= n => Fed(fed).st = "COMPLETE" /\ Fed(fed).used = n
                         /\ Fed(fed).out = Content(b)
         /\ fed < n => Fed(fed).st \notin Final
<1> DEFINE x == Encoded(b)
           n == Len(x)
<1>1. stream \in Seq(Octet) /\ fed \in Nat /\ fed <= Len(stream) /\ Len(stream) \in Nat
  BY DEF IInv, TypeInv
<1>2. /\ x \in Seq(Octet)
      /\ Feed(Fresh, x) = Run("COMPLETE", 0, 0, Content(b), n)
  BY FeedEncoded
<1>3. n \in Nat /\ n <= Len(stream)  BY <1>2 DEF IsPrefix
<1>4. Fed(n) = Run("COMPLETE", 0, 0, Content(b), n)
  <2>1. SubSeq(x, 1, n) = SubSeq(stream, 1, n)  BY DEF IsPrefix
  <2>2. SubSeq(x, 1, n) = x  BY <1>2, SubSeqFull
  <2> HIDE DEF x
  <2> QED  BY <1>2, <2>1, <2>2 DEF Fed
<1> HIDE DEF x, n
<1>5. /\ Fed(n).st = "COMPLETE" /\ Fed(n).used = n /\ Fed(n).out = Content(b)
      /\ Fed(n).st \in Final
  BY <1>4 DEF Run, Final
<1>6. ASSUME fed >= n
      PROVE  Fed(fed) = Fed(n)
  <2>1. n \in 0 .. Len(stream) /\ fed \in n .. Len(stream)  BY <1>1, <1>3, <1>6
  <2> QED  BY <1>5, <2>1, FedFinal
<1>7. ASSUME fed < n, Fed(fed).st \in Final
      PROVE  FALSE
  <2>1. fed \in 0 .. Len(stream) /\ n \in fed .. Len(stream)  BY <1>1, <1>3, <1>7
  <2>2. Fed(n) = Fed(fed)  BY <1>7, <2>1, FedFinal
  <2> DEFINE s == SubSeq(stream, 1, fed)
  <2>3. s \in Seq(Octet) /\ Len(s) = fed  BY <1>1
  <2> HIDE DEF s
  <2>4. Feed(Fresh, s).used <= Fresh.used + Len(s)  BY <2>3, FreshSound, FeedType
  <2>5. Fed(fed).used <= fed
    <3>1. Feed(Fresh, s) = Fed(fed)  BY DEF Fed, s
    <3>2. 0 + fed = fed  BY <1>1
    <3> QED  BY <2>3, <2>4, <3>1, <3>2, FreshSound
  <2> QED  BY <1>1, <1>3, <1>5, <1>7, <2>2, <2>5
<1> QED  BY <1>3, <1>5, <1>6, <1>7 DEF n, x

(* Every body, however it is spelled and cut, and whatever comes behind it,   *)
(* is decoded whole, with all that is behind it left over; the decoder        *)
(* refuses it for its overhead or not at all.                                *)
THEOREM BodiesComeBack == Spec => []RoundTrip
<1>1. ASSUME IInv, CutsAreInvisible  PROVE RoundTrip
  <2> SUFFICES ASSUME NEW b \in Coded, IsPrefix(Encoded(b), stream), ~running
               PROVE  LET text == Encoded(b) IN
                      IF fed >= Len(text) THEN ret = fed - Len(text) /\ out = Content(b)
                      ELSE ret < 0 /\ (ret = -1 => TooMuchOverhead(dec))
    BY DEF RoundTrip
  <2> DEFINE n == Len(Encoded(b))
             a == Feed(Fresh, SubSeq(stream, 1, fed))
  <2>1. b \in CodedBody  BY CodedAssumption
  <2>2. a = Fed(fed)  BY DEF Fed
  <2>3. /\ out = a.out
        /\ ret >= 0 <=> a.st = "COMPLETE"
        /\ ret >= 0 => fed - ret = a.used
        /\ ret = -1 <=> a.st = "ERROR" \/ (dec.st = a.st /\ TooMuchOverhead(dec))
    BY <1>1 DEF CutsAreInvisible
  <2> HIDE DEF a
  <2>4. /\ n \in Nat
        /\ fed >= n => a.st = "COMPLETE" /\ a.used = n /\ a.out = Content(b)
        /\ fed < n => a.st \notin Final
    BY <1>1, <2>1, <2>2, CodedIsDecoded
  <2> HIDE DEF n
  <2>5. ret \in Int /\ fed \in Nat  BY <1>1 DEF IInv, TypeInv
  <2>6. CASE fed >= n
    <3>1. ret >= 0 /\ fed - ret = n  BY <2>3, <2>4, <2>6
    <3>2. ret = fed - n  BY <2>4, <2>5, <3>1
    <3> QED  BY <2>3, <2>4, <2>6, <3>2 DEF n
  <2>7. CASE ~(fed >= n)
    <3>1. a.st \notin Final  BY <2>4, <2>5, <2>7
    <3>2. a.st # "COMPLETE" /\ a.st # "ERROR"  BY <3>1 DEF Final
    <3>3. ret < 0  BY <2>3, <2>5, <3>2
    <3> QED  BY <2>3, <2>7, <3>2, <3>3 DEF n
  <2> QED  BY <2>6, <2>7
<1> QED  BY <1>1, Invariance, DecodingIgnoresCuts, PTL
===============================================================================
