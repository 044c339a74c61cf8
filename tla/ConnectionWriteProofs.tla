------------------------- MODULE ConnectionWriteProofs -------------------------
(***************************************************************************)
(* Theorems about Connection::write for every buffer size, every number of  *)
(* callers and every message type that satisfies ProduceContract.           *)
(***************************************************************************)
EXTENDS FramedWrite, OperatorProofs

(* What a message may answer, for the room write gives it. *)
LEMMA ProduceOutcome ==
  ASSUME NEW b \in Buffers, NEW m \in Msg,
         NEW r \in {ProduceHeaderSome(m, Room(b)), ProduceBodySome(m, Room(b))}
  PROVE  /\ r.err \in BOOLEAN /\ r.done \in BOOLEAN /\ r.msg \in Msg
         /\ r.bytes \in Seq(Byte) /\ Len(r.bytes) <= Room(b)
<1>1. Room(b) \in 0 .. Cap
  BY SpanType
<1>2. r \in Production(Room(b))
  BY <1>1, ProduceContract
<1>3. r.err \in BOOLEAN /\ r.done \in BOOLEAN /\ r.msg \in Msg
      /\ r.bytes \in UNION {[1 .. n -> Byte] : n \in 0 .. Room(b)}
  BY <1>2 DEF Production
<1>4. PICK n \in 0 .. Room(b) : r.bytes \in [1 .. n -> Byte]
  BY <1>3
<1>5. n \in Nat
  BY <1>1
<1>6. r.bytes \in Seq(Byte)
  BY <1>4, <1>5, SeqDef
<1>7. Len(r.bytes) = n
  BY <1>4, <1>5, <1>6, LenProperties
<1>8. QED BY <1>1, <1>3, <1>4, <1>6, <1>7

LEMMA CutInTwo ==
  ASSUME NEW S, NEW p \in Seq(S), NEW k \in Nat, k <= Len(p)
  PROVE  /\ SubSeq(p, 1, k) \in Seq(S) /\ SubSeq(p, k + 1, Len(p)) \in Seq(S)
         /\ SubSeq(p, 1, k) \o SubSeq(p, k + 1, Len(p)) = p
<1>1. /\ \A i \in 1 .. k : i \in 1 .. Len(p)
      /\ \A i \in k + 1 .. Len(p) : i \in 1 .. Len(p)
  OBVIOUS
<1>2. 1 \in 1 .. Len(p) + 1 /\ k \in 1 - 1 .. Len(p) /\ Len(p) \in k .. Len(p)
  OBVIOUS
<1>3. SubSeq(p, 1, k) \o SubSeq(p, k + 1, Len(p)) = SubSeq(p, 1, Len(p))
  BY <1>2, ConcatAdjacentSubSeq
<1>4. SubSeq(p, 1, Len(p)) = p  BY SubSeqFull
<1>5. SubSeq(p, 1, k) \in Seq(S)  BY <1>1
<1>6. SubSeq(p, k + 1, Len(p)) \in Seq(S)  BY <1>1
<1> QED  BY <1>3, <1>4, <1>5, <1>6

(* What stands behind a place of a sequence grows at its end.               *)
LEMMA GrowsAtEnd ==
  ASSUME NEW S, NEW p \in Seq(S), NEW b \in Seq(S), NEW k \in Nat,
         k <= Len(p), NEW q, q = p \o b
  PROVE  /\ k \in 0 .. Len(q)
         /\ SubSeq(q, 1, k) = SubSeq(p, 1, k)
         /\ SubSeq(q, k + 1, Len(q)) = SubSeq(p, k + 1, Len(p)) \o b
<1> DEFINE front == SubSeq(p, 1, k)
           back == SubSeq(p, k + 1, Len(p))
<1>1. /\ q \in Seq(S) /\ Len(q) = Len(p) + Len(b)
      /\ \A i \in 1 .. Len(p) + Len(b) : q[i] = IF i <= Len(p) THEN p[i] ELSE b[i - Len(p)]
      /\ Len(p) \in Nat /\ Len(b) \in Nat /\ k \in Nat /\ k <= Len(p)
  BY ConcatProperties
<1>2. front \in Seq(S) /\ Len(front) = k /\ \A i \in 1 .. k : front[i] = p[i]
  BY <1>1, SubSeqProperties
<1>3. /\ back \in Seq(S) /\ Len(back) = Len(p) - k
      /\ \A i \in 1 .. Len(p) - k : back[i] = p[k + i]
  <2>1. \A i \in k + 1 .. Len(p) : i \in 1 .. Len(p)  BY <1>1
  <2> QED  BY <1>1, <2>1
<1>4. SubSeq(q, 1, k) = front
  <2> DEFINE f == SubSeq(q, 1, k)
  <2>1. f \in Seq(S) /\ Len(f) = k /\ \A i \in 1 .. k : f[i] = q[i]
    BY <1>1, SubSeqProperties
  <2>2. \A i \in 1 .. k : q[i] = p[i]  BY <1>1
  <2> HIDE DEF f, front
  <2>3. f = front  BY <1>2, <2>1, <2>2, SeqEqual
  <2> QED  BY <2>3 DEF f
<1>5. SubSeq(q, k + 1, Len(q)) = back \o b
  <2> DEFINE f == SubSeq(q, k + 1, Len(q))
             g == back \o b
  <2>1. /\ f \in Seq(S) /\ Len(f) = Len(q) - k
        /\ \A i \in 1 .. Len(q) - k : f[i] = q[k + i]
    <3>1. \A i \in k + 1 .. Len(q) : i \in 1 .. Len(q)  BY <1>1
    <3> QED  BY <1>1, <3>1
  <2> HIDE DEF f, back
  <2>2. /\ g \in Seq(S) /\ Len(g) = Len(back) + Len(b)
        /\ \A i \in 1 .. Len(back) + Len(b) :
             g[i] = IF i <= Len(back) THEN back[i] ELSE b[i - Len(back)]
    BY <1>3, ConcatProperties
  <2> HIDE DEF g
  <2>3. Len(f) = Len(g)  BY <1>1, <1>3, <2>1, <2>2
  <2>4. ASSUME NEW i \in 1 .. Len(f)  PROVE f[i] = g[i]
    <3>1. /\ i \in 1 .. Len(q) - k /\ i \in 1 .. Len(back) + Len(b)
          /\ k + i \in 1 .. Len(p) + Len(b)
      BY <1>1, <1>3, <2>1, <2>2, <2>3
    <3>2. f[i] = IF k + i <= Len(p) THEN p[k + i] ELSE b[(k + i) - Len(p)]
      BY <1>1, <2>1, <3>1
    <3>3. CASE i <= Len(back)
      <4>1. i \in 1 .. Len(p) - k /\ k + i <= Len(p)  BY <1>1, <1>3, <3>1, <3>3
      <4> QED  BY <1>3, <2>2, <3>1, <3>2, <3>3, <4>1
    <3>4. CASE ~(i <= Len(back))
      <4>1. ~(k + i <= Len(p)) /\ (k + i) - Len(p) = i - Len(back)
        BY <1>1, <1>3, <3>1, <3>4
      <4> QED  BY <2>2, <3>1, <3>2, <3>4, <4>1
    <3> QED  BY <3>3, <3>4
  <2>5. f = g  BY <2>1, <2>2, <2>3, <2>4, SeqEqual
  <2> QED  BY <2>5 DEF f, g
<1>6. k \in 0 .. Len(q)  BY <1>1
<1> QED  BY <1>4, <1>5, <1>6 DEF front, back

(* What was made and sent since the writes are alone are sequences of bytes. *)
LEMMA SinceType ==
  ASSUME TypeOK
  PROVE  /\ aloneSince.put \in Nat /\ aloneSince.put <= Len(produced)
         /\ aloneSince.sent \in Nat /\ aloneSince.sent <= Len(wire)
         /\ Made \in Seq(Byte) /\ Got \in Seq(Byte)
<1>1. wire \in Seq(Byte) /\ produced \in Seq(Byte)
  BY DEF TypeOK
<1>2. aloneSince.put \in 0 .. Len(produced) /\ aloneSince.sent \in 0 .. Len(wire)
  BY DEF TypeOK
<1>3. aloneSince.put \in Nat /\ aloneSince.put <= Len(produced)
  BY <1>1, <1>2
<1>4. aloneSince.sent \in Nat /\ aloneSince.sent <= Len(wire)
  BY <1>1, <1>2
<1>5. Made \in Seq(Byte)
  BY <1>1, <1>3, CutInTwo DEF Made
<1>6. Got \in Seq(Byte)
  BY <1>1, <1>4, CutInTwo DEF Got
<1>7. QED BY <1>3, <1>4, <1>5, <1>6

(* What both blocks of the fill loop do to the bytes, for a caller that is    *)
(* not between an operation and its resumption.                             *)
LEMMA PutPreserves ==
  ASSUME IInv, NEW c \in Caller, NEW r, Put(c, r), r.msg \in Msg,
         r.bytes \in Seq(Byte), Len(r.bytes) <= Room(writeBuffer_),
         pc[c] \in {"fill", "body"},
         UNCHANGED <<op, wire, overlapped, aloneSince>>,
         \A d \in Caller \ {c} : pc'[d] = pc[d],
         pc'[c] \in {"fill", "body", "flush"}
  PROVE  /\ writeBuffer_' \in Buffers
         /\ produced' \in Seq(Byte)
         /\ msg' \in [Caller -> Msg]
         /\ aloneSince' \in [sent : 0 .. Len(wire'), put : 0 .. Len(produced')]
         /\ BufferIsTail' /\ WireInOrder' /\ Alone' /\ SpanCurrent'
<1> DEFINE R == ReadableSpan(writeBuffer_)
           s == r.bytes
<1>1. /\ writeBuffer_ \in Buffers /\ wire \in Seq(Byte) /\ produced \in Seq(Byte)
      /\ msg \in [Caller -> Msg] /\ overlapped \in BOOLEAN
  BY DEF IInv, TypeOK
<1>2. /\ writeBuffer_' \in Buffers
      /\ ReadableSpan(writeBuffer_') = R \o s
  BY <1>1, CommitAppends DEF Put
<1>3. produced' = produced \o s /\ produced' \in Seq(Byte)
  BY <1>1, ConcatProperties DEF Put
<1>4. msg' \in [Caller -> Msg]
  BY <1>1 DEF Put
<1>5. ASSUME ~overlapped
      PROVE  \A d \in Caller \ {c} : pc[d] = "idle" /\ pc'[d] = "idle"
  BY <1>5 DEF IInv, Alone, Inside
<1>6. Alone' /\ SpanCurrent'
  BY <1>5 DEF Alone, SpanCurrent, Inside
<1>7. /\ R \in Seq(Byte) /\ s \in Seq(Byte) /\ Got \in Seq(Byte)
      /\ Len(R) = Size(writeBuffer_) /\ Len(R) \in Nat /\ Len(s) \in Nat
      /\ Len(R \o s) = Size(writeBuffer_')
  <2>1. Len(ReadableSpan(writeBuffer_')) = Size(writeBuffer_')
    BY <1>2, SpanType
  <2>2. Got \in Seq(Byte)
    BY SinceType DEF IInv
  <2>3. QED BY <1>1, <1>2, <2>1, <2>2, SpanType
<1>8. Made' = Made \o s /\ Got' = Got
  <2>1. /\ aloneSince.put \in Nat /\ aloneSince.put <= Len(produced)
        /\ aloneSince' = aloneSince
    BY SinceType DEF IInv
  <2> HIDE DEF s
  <2>a. /\ produced \in Seq(Byte) /\ s \in Seq(Byte) /\ produced' = produced \o s
        /\ aloneSince.put \in Nat /\ aloneSince.put <= Len(produced)
    BY <1>1, <1>3, <1>7, <2>1
  <2>2. SubSeq(produced', aloneSince.put + 1, Len(produced'))
          = SubSeq(produced, aloneSince.put + 1, Len(produced)) \o s
    <3> DEFINE k == aloneSince.put
    <3> HIDE DEF k
    <3>1. produced \in Seq(Byte) /\ s \in Seq(Byte) /\ k \in Nat /\ k <= Len(produced)
      BY <2>a DEF k
    <3>2. SubSeq(produced \o s, k + 1, Len(produced \o s))
            = SubSeq(produced, k + 1, Len(produced)) \o s
      BY <3>1, GrowsAtEnd
    <3>3. QED BY <2>a, <3>2 DEF k
  <2>3. QED BY <2>1, <2>2 DEF Made, Got
<1>9. ASSUME ~overlapped PROVE Made' = Got \o (R \o s)
  <2>1. \A d \in Caller : pc[d] # "sent"
    BY <1>5, <1>9
  <2>2. Made = Got \o R
    BY <1>9, <2>1 DEF IInv, WireInOrder
  <2> HIDE DEF R, s
  <2>3. (Got \o R) \o s = Got \o (R \o s)
    <3>1. Got \in Seq(Byte) /\ R \in Seq(Byte) /\ s \in Seq(Byte)
      BY <1>7
    <3>2. QED BY <3>1, Grouped
  <2>4. QED BY <1>8, <2>2, <2>3
<1>10. WireInOrder'
  <2>1. ASSUME ~overlapped
        PROVE  /\ \A d \in Caller : pc'[d] # "sent"
               /\ Made' = Got' \o ReadableSpan(writeBuffer_')
    BY <1>2, <1>5, <1>8, <1>9, <2>1
  <2>2. QED BY <2>1 DEF WireInOrder
<1>11. BufferIsTail'
  <2> DEFINE n == Len(R)
             L == Len(produced)
             t == R \o s
             q == produced \o s
  <2>1. n \in Nat /\ L \in Nat /\ n <= L /\ \A i \in 1 .. n : R[i] = produced[L - n + i]
    BY <1>1, <1>7 DEF IInv, BufferIsTail
  <2>2. /\ Len(t) = n + Len(s) /\ Len(q) = L + Len(s)
        /\ \A i \in 1 .. n + Len(s) : t[i] = IF i <= n THEN R[i] ELSE s[i - n]
        /\ \A i \in 1 .. L + Len(s) : q[i] = IF i <= L THEN produced[i] ELSE s[i - L]
    <3> HIDE DEF R, s
    <3>1. R \in Seq(Byte) /\ s \in Seq(Byte) /\ produced \in Seq(Byte)
      BY <1>1, <1>7
    <3>2. QED BY <3>1, ConcatProperties
  <2>3. Len(s) \in Nat
    BY <1>7
  <2> HIDE DEF n, L, t, q, R, s
  <2>4. n + Len(s) <= L + Len(s)
    BY <2>1, <2>3
  <2>5. ASSUME NEW i \in 1 .. n + Len(s)
        PROVE  t[i] = q[(L + Len(s)) - (n + Len(s)) + i]
    <3>1. /\ (L + Len(s)) - (n + Len(s)) + i = L - n + i /\ L - n + i \in 1 .. L + Len(s)
          /\ i <= n <=> L - n + i <= L
          /\ (L - n + i) - L = i - n
      BY <2>1, <2>3
    <3>2. CASE i <= n
      BY <2>1, <2>2, <3>1, <3>2
    <3>3. CASE ~(i <= n)
      BY <2>2, <3>1, <3>3
    <3>4. QED BY <3>2, <3>3
  <2>6. /\ ReadableSpan(writeBuffer_') = t /\ produced' = q
        /\ Size(writeBuffer_') = n + Len(s) /\ Len(produced') = L + Len(s)
    BY <1>2, <1>3, <1>7, <2>2 DEF t, q, R, s
  <2>7. QED BY <2>4, <2>5, <2>6 DEF BufferIsTail
<1>12. aloneSince' \in [sent : 0 .. Len(wire'), put : 0 .. Len(produced')]
  <2>1. aloneSince \in [sent : 0 .. Len(wire), put : 0 .. Len(produced)]
    BY DEF IInv, TypeOK
  <2>2. Len(produced') = Len(produced) + Len(s) /\ Len(produced) \in Nat /\ Len(s) \in Nat
    BY <1>1, <1>3, <1>7, ConcatProperties
  <2> HIDE DEF s
  <2>3. QED BY <2>1, <2>2
<1>13. QED BY <1>2, <1>3, <1>4, <1>6, <1>10, <1>11, <1>12

(* The bytes an operation takes are the first of the readable span. *)
LEMMA SpanTaken ==
  ASSUME NEW b \in Buffers, NEW n \in 1 .. Size(b)
  PROVE  [i \in 1 .. n |-> b.mem[b.rd + i - 1]] = SubSeq(ReadableSpan(b), 1, n)
<1> DEFINE R == ReadableSpan(b)
           S == [i \in 1 .. n |-> b.mem[b.rd + i - 1]]
           P == SubSeq(R, 1, n)
<1>1. R \in Seq(Byte) /\ Len(R) = Size(b) /\ Size(b) \in Nat /\ n \in Nat
  BY SpanType
<1>2. \A i \in 1 .. n : R[i] = b.mem[b.rd + i - 1] /\ R[i] \in Byte
  BY SpanType DEF ReadableSpan
<1>3. S \in [1 .. n -> Byte]
  BY <1>2
<1>4. S \in Seq(Byte) /\ Len(S) = n
  BY <1>1, <1>3, SeqDef, LenProperties
<1>5. /\ P \in Seq(Byte) /\ Len(P) = n
      /\ \A i \in 1 .. n : P[i] = R[i]
  <2> HIDE DEF R
  <2>1. \A i \in 1 .. n : R[i] \in Byte
    BY <1>2
  <2>2. QED BY <1>1, <2>1, SubSeqProperties
<1>6. \A i \in 1 .. n : S[i] = P[i]
  BY <1>2, <1>5
<1> HIDE DEF S, P
<1>7. S = P
  BY <1>4, <1>5, <1>6, SeqEqual
<1>8. QED BY <1>7 DEF S, P

(* The last bytes that were produced, as many as are buffered, are those.    *)
LEMMA SpanIsTail ==
  ASSUME TypeOK, BufferIsTail, NEW k, k = Len(produced) - Size(writeBuffer_)
  PROVE  /\ k \in 0 .. Len(produced)
         /\ SubSeq(produced, k + 1, Len(produced)) = ReadableSpan(writeBuffer_)
<1> DEFINE R == ReadableSpan(writeBuffer_)
           n == Size(writeBuffer_)
           L == Len(produced)
           t == SubSeq(produced, k + 1, L)
<1>1. /\ produced \in Seq(Byte) /\ R \in Seq(Byte) /\ Len(R) = n /\ n \in Nat
      /\ L \in Nat /\ n <= L /\ k = L - n
  BY SpanType DEF TypeOK, BufferIsTail
<1>2. \A i \in 1 .. n : R[i] = produced[L - n + i]
  BY DEF BufferIsTail
<1>3. k \in Nat /\ k <= L /\ L - k = n
  BY <1>1
<1>4. t \in Seq(Byte) /\ Len(t) = L - k /\ \A i \in 1 .. L - k : t[i] = produced[k + i]
  <2>1. \A i \in k + 1 .. L : i \in 1 .. Len(produced)
    BY <1>3
  <2>2. QED BY <1>1, <1>3, <2>1
<1> HIDE DEF R, n, L, t
<1>5. \A i \in 1 .. n : t[i] = R[i]
  BY <1>1, <1>2, <1>3, <1>4
<1>6. t = R
  BY <1>1, <1>3, <1>4, <1>5, SeqEqual
<1>7. QED BY <1>1, <1>3, <1>6 DEF t, R, L

(* The initial state satisfies the invariant. *)
LEMMA InitIInv == Init => IInv
<1> SUFFICES ASSUME Init PROVE IInv
  OBVIOUS
<1>1. NewBuffer \in Buffers /\ ReadableSpan(NewBuffer) = <<>>
  BY NewBufferEmpty
<1>2. <<>> \in Seq(Byte) /\ <<>> \in Seq(Caller) /\ <<>> \o <<>> = <<>>
  BY EmptySeq, ConcatEmptySeq
<1>3. TypeOK
  <2>1. /\ op \in [Caller -> [from : 0 .. Cap, n : 0 .. Cap]]
        /\ \A c \in Caller : op[c].from + op[c].n <= Cap
    BY CapAssumption DEF Init
  <2>2. msg \in [Caller -> Msg]
    BY NewMsgAssumption DEF Init
  <2>a. aloneSince \in [sent : 0 .. Len(wire), put : 0 .. Len(produced)]
    BY <1>2, EmptySeq DEF Init
  <2>3. pending \in Seq(Caller) /\ wire \in Seq(Byte) /\ produced \in Seq(Byte)
    BY <1>2 DEF Init
  <2>4. QED BY <1>1, <2>1, <2>2, <2>3, <2>a DEF Init, TypeOK
<1>4. WireInOrder /\ BufferIsTail
  <2>1. Made = <<>> /\ Got = <<>>
    BY <1>2, EmptySeq, SubSeqEmpty DEF Init, Made, Got
  <2>2. Size(writeBuffer_) = 0 /\ ReadableSpan(writeBuffer_) = <<>>
    BY <1>1, NewBufferEmpty DEF Init, IsEmpty
  <2>3. QED BY <1>2, <2>1, <2>2, EmptySeq DEF Init, WireInOrder, BufferIsTail
<1>5. OneProducer /\ Positions /\ Alone /\ SpanCurrent
  BY DEF Init, OneProducer, Positions, Alone, SpanCurrent, MidMessage, Inside
<1>6. QED BY <1>3, <1>4, <1>5 DEF IInv

(* Every step keeps the invariant. *)
LEMMA NextIInv == IInv /\ [Next]_vars => IInv'
<1> SUFFICES ASSUME IInv, [Next]_vars PROVE IInv'
  OBVIOUS
<1>t. /\ writeBuffer_ \in Buffers /\ wire \in Seq(Byte) /\ produced \in Seq(Byte)
      /\ pc \in [Caller -> {"idle", "fill", "body", "flush", "send", "sent"}]
      /\ msg \in [Caller -> Msg] /\ doneWrite \in [Caller -> BOOLEAN]
      /\ op \in [Caller -> [from : 0 .. Cap, n : 0 .. Cap]]
      /\ \A c \in Caller : op[c].from + op[c].n <= Cap
      /\ pending \in Seq(Caller) /\ overlapped \in BOOLEAN
  BY DEF IInv, TypeOK
<1>1. ASSUME NEW c \in Caller, NEW m \in NewMsg, Call(c, m) PROVE IInv'
  <2>1. /\ m \in Msg /\ pc[c] = "idle" /\ msg' = [msg EXCEPT ![c] = m]
        /\ doneWrite' = [doneWrite EXCEPT ![c] = FALSE]
        /\ UNCHANGED <<writeBuffer_, op, pending, peer, wire, produced>>
    BY <1>1, NewMsgAssumption DEF Call, Inside, sockVars
  <2>2. CASE writeState_ = "START"
    <3>1. /\ writeState_' = "WRITE_HEADER" /\ pc' = [pc EXCEPT ![c] = "fill"]
          /\ ret' = [ret EXCEPT ![c] = "none"]
          /\ overlapped' = ~(\A d \in Caller : ~Inside(d))
          /\ \/ aloneSince' = aloneSince /\ ((\A d \in Caller : ~Inside(d)) => ~overlapped)
             \/ aloneSince' = [sent |-> Len(wire),
                               put |-> Len(produced) - Size(writeBuffer_)]
      BY <1>1, <2>2 DEF Call, Admits, Notes
    <3>2. overlapped' \in BOOLEAN
      BY <1>t, <3>1, Zenon DEF Inside
    <3>a. aloneSince' \in [sent : 0 .. Len(wire'), put : 0 .. Len(produced')]
      <4>1. Len(produced) - Size(writeBuffer_) \in 0 .. Len(produced)
        BY SpanIsTail DEF IInv
      <4>2. aloneSince \in [sent : 0 .. Len(wire), put : 0 .. Len(produced)]
        BY DEF IInv, TypeOK
      <4>3. Len(wire) \in 0 .. Len(wire)
        BY <1>t
      <4>4. QED BY <2>1, <3>1, <4>1, <4>2, <4>3
    <3>3. TypeOK'
      BY <2>1, <3>1, <3>2, <3>a DEF TypeOK, IInv
    <3>4. \A d \in Caller : ~MidMessage(d)
      BY <2>2 DEF IInv, OneProducer
    <3>5. OneProducer' /\ Positions'
      BY <1>t, <2>1, <3>1, <3>4 DEF OneProducer, Positions, MidMessage, Inside, IInv
    <3>6. ASSUME ~overlapped'
          PROVE  \A d \in Caller : pc[d] = "idle" /\ pc'[d] # "sent" /\ pc'[d] # "send"
      BY <1>t, <3>1, <3>6 DEF Inside
    <3>7. Alone' /\ SpanCurrent'
      BY <1>t, <3>1, <3>6 DEF Alone, SpanCurrent, Inside
    <3>8. ASSUME ~overlapped'
          PROVE  Made' = Got' \o ReadableSpan(writeBuffer_')
      <4>1. CASE aloneSince' = aloneSince /\ ((\A d \in Caller : ~Inside(d)) => ~overlapped)
        <5>1. ~overlapped
          BY <3>6, <3>8, <4>1 DEF Inside
        <5>2. Made = Got \o ReadableSpan(writeBuffer_)
          BY <3>6, <3>8, <5>1 DEF WireInOrder, IInv
        <5>3. QED BY <2>1, <4>1, <5>2 DEF Made, Got
      <4>2. CASE aloneSince' = [sent |-> Len(wire),
                                put |-> Len(produced) - Size(writeBuffer_)]
        <5>1. Made' = ReadableSpan(writeBuffer_)
          <6>1. SubSeq(produced, (Len(produced) - Size(writeBuffer_)) + 1, Len(produced))
                  = ReadableSpan(writeBuffer_)
            BY SpanIsTail DEF IInv
          <6>2. QED BY <2>1, <4>2, <6>1 DEF Made
        <5>2. Got' = <<>>
          <6>1. SubSeq(wire, Len(wire) + 1, Len(wire)) = <<>>
            BY <1>t, SubSeqEmpty
          <6>2. QED BY <2>1, <4>2, <6>1 DEF Got
        <5>3. <<>> \o ReadableSpan(writeBuffer_) = ReadableSpan(writeBuffer_)
          BY <1>t, SpanType, ConcatEmptySeq
        <5>4. QED BY <2>1, <5>1, <5>2, <5>3
      <4>3. QED BY <3>1, <4>1, <4>2
    <3>9. WireInOrder' /\ BufferIsTail'
      <4>1. BufferIsTail'
        BY <2>1 DEF BufferIsTail, IInv
      <4>2. WireInOrder'
        BY <3>6, <3>8 DEF WireInOrder
      <4>3. QED BY <4>1, <4>2
    <3>10. QED BY <3>3, <3>5, <3>7, <3>9 DEF IInv
  <2>3. CASE writeState_ # "START"
    <3>1. /\ writeState_' = writeState_ /\ pc' = [pc EXCEPT ![c] = "idle"]
          /\ ret' = [ret EXCEPT ![c] = "INVALID_STATE"]
          /\ UNCHANGED <<overlapped, aloneSince>>
      BY <1>1, <2>3 DEF Call, Admits, Return, history
    <3>2. pc' = pc
      BY <1>t, <2>1, <3>1
    <3>3. TypeOK'
      BY <2>1, <3>1, <3>2 DEF TypeOK, IInv
    <3>4. OneProducer' /\ Positions'
      BY <1>t, <2>1, <3>1, <3>2 DEF OneProducer, Positions, MidMessage, Inside, IInv
    <3>5. BufferIsTail' /\ WireInOrder' /\ Alone' /\ SpanCurrent'
      BY <2>1, <3>1, <3>2
         DEF BufferIsTail, WireInOrder, Made, Got, Alone, SpanCurrent, Inside, IInv
    <3>6. QED BY <3>3, <3>4, <3>5 DEF IInv
  <2>4. QED BY <2>2, <2>3
<1>2. ASSUME NEW c \in Caller, FillHeader(c) PROVE IInv'
  <2> DEFINE r == ProduceHeaderSome(msg[c], Room(writeBuffer_))
  <2>1. /\ pc[c] = "fill" /\ writeState_ = "WRITE_HEADER" /\ Put(c, r)
        /\ writeState_' = IF r.done THEN "WRITE_BODY" ELSE "WRITE_HEADER"
        /\ pc' = [pc EXCEPT ![c] = IF r.done THEN "body" ELSE "fill"]
        /\ UNCHANGED <<doneWrite, ret, op, pending, peer, wire, overlapped, aloneSince>>
    BY <1>2 DEF FillHeader, sockVars, history
  <2>2. r.msg \in Msg /\ r.bytes \in Seq(Byte) /\ Len(r.bytes) <= Room(writeBuffer_)
    BY <1>t, ProduceOutcome
  <2> HIDE DEF r
  <2>3. /\ \A d \in Caller \ {c} : pc'[d] = pc[d]
        /\ pc'[c] \in {"fill", "body"} /\ (pc'[c] = "body" => writeState_' = "WRITE_BODY")
    BY <1>t, <2>1
  <2>4. /\ writeBuffer_' \in Buffers /\ produced' \in Seq(Byte) /\ msg' \in [Caller -> Msg]
        /\ aloneSince' \in [sent : 0 .. Len(wire'), put : 0 .. Len(produced')]
        /\ BufferIsTail' /\ WireInOrder' /\ Alone' /\ SpanCurrent'
    BY <2>1, <2>2, <2>3, PutPreserves
  <2>5. TypeOK'
    BY <2>1, <2>4 DEF TypeOK, IInv
  <2>6. ~doneWrite[c] /\ MidMessage(c)
    BY <2>1 DEF IInv, Positions, MidMessage, Inside
  <2>7. OneProducer' /\ Positions'
    BY <2>1, <2>3, <2>6 DEF OneProducer, Positions, MidMessage, Inside, IInv
  <2>8. QED BY <2>4, <2>5, <2>7 DEF IInv
<1>3. ASSUME NEW c \in Caller, FillBody(c) PROVE IInv'
  <2> DEFINE r == ProduceBodySome(msg[c], Room(writeBuffer_))
  <2>1. /\ pc[c] \in {"fill", "body"} /\ writeState_ = "WRITE_BODY" /\ Put(c, r)
        /\ \/ /\ writeState_' = "START" /\ doneWrite' = [doneWrite EXCEPT ![c] = TRUE]
              /\ pc' = [pc EXCEPT ![c] = "flush"]
           \/ /\ writeState_' = "WRITE_BODY" /\ doneWrite' = doneWrite
              /\ pc' = [pc EXCEPT ![c] = "fill"]
        /\ UNCHANGED <<ret, op, pending, peer, wire, overlapped, aloneSince>>
    BY <1>3 DEF FillBody, AtBody, sockVars, history
  <2>2. r.msg \in Msg /\ r.bytes \in Seq(Byte) /\ Len(r.bytes) <= Room(writeBuffer_)
    BY <1>t, ProduceOutcome
  <2> HIDE DEF r
  <2>3. /\ \A d \in Caller \ {c} : pc'[d] = pc[d] /\ doneWrite'[d] = doneWrite[d]
        /\ pc'[c] \in {"fill", "flush"}
        /\ doneWrite' \in [Caller -> BOOLEAN]
    BY <1>t, <2>1
  <2>4. /\ writeBuffer_' \in Buffers /\ produced' \in Seq(Byte) /\ msg' \in [Caller -> Msg]
        /\ aloneSince' \in [sent : 0 .. Len(wire'), put : 0 .. Len(produced')]
        /\ BufferIsTail' /\ WireInOrder' /\ Alone' /\ SpanCurrent'
    BY <2>1, <2>2, <2>3, PutPreserves
  <2>5. TypeOK'
    BY <1>t, <2>1, <2>3, <2>4 DEF TypeOK, IInv
  <2>6. ~doneWrite[c] /\ \A d \in Caller \ {c} : ~MidMessage(d)
    BY <2>1 DEF IInv, Positions, OneProducer, MidMessage, Inside
  <2>7. \A d \in Caller \ {c} : ~MidMessage(d)'
    BY <2>3, <2>6 DEF MidMessage, Inside
  <2>8. /\ writeState_' = "START" => doneWrite'[c]
        /\ pc'[c] = "fill" => ~doneWrite'[c]
    BY <1>t, <2>1, <2>6
  <2>9. OneProducer'
    BY <2>7, <2>8 DEF OneProducer, MidMessage
  <2>10. Positions'
    <3>1. \A d \in Caller \ {c} : pc[d] \notin {"fill", "body"}
      BY <2>6 DEF IInv, Positions, MidMessage, Inside
    <3>2. QED BY <2>3, <2>8, <3>1 DEF Positions
  <2>11. QED BY <2>4, <2>5, <2>9, <2>10 DEF IInv
<1>4. ASSUME NEW c \in Caller, MessageFails(c) PROVE IInv'
  <2>1. PICK r \in {ProduceHeaderSome(msg[c], Room(writeBuffer_)),
                    ProduceBodySome(msg[c], Room(writeBuffer_))} :
             /\ pc[c] \in {"fill", "body"} /\ writeState_ \in {"WRITE_HEADER", "WRITE_BODY"}
             /\ msg' = [msg EXCEPT ![c] = r.msg]
             /\ writeBuffer_' = Filled(writeBuffer_, r.bytes)
    BY <1>4 DEF MessageFails, AtBody
  <2>2. /\ UNCHANGED <<writeState_, doneWrite, op, pending, peer, wire, produced, overlapped, aloneSince>>
        /\ pc' = [pc EXCEPT ![c] = "idle"] /\ ret' = [ret EXCEPT ![c] = "INVALID_MESSAGE"]
    BY <1>4 DEF MessageFails, Return, sockVars, history
  <2>3. r.msg \in Msg /\ r.bytes \in Seq(Byte) /\ Len(r.bytes) <= Room(writeBuffer_)
    BY <1>t, <2>1, ProduceOutcome
  <2>4. /\ writeBuffer_' \in Buffers
        /\ ReadableSpan(writeBuffer_') = ReadableSpan(writeBuffer_)
    BY <1>t, <2>1, <2>3, FillingIsInvisible
  <2>5. writeBuffer_'.rd = writeBuffer_.rd /\ Size(writeBuffer_') = Size(writeBuffer_)
    BY <1>t, <2>1 DEF Filled, Buffers, Size
  <2>6. TypeOK'
    BY <1>t, <2>1, <2>2, <2>3, <2>4 DEF TypeOK, IInv
  <2>7. /\ \A d \in Caller \ {c} : pc'[d] = pc[d]
        /\ pc'[c] = "idle" /\ pc[c] # "sent"
    BY <1>t, <2>1, <2>2
  <2>8. OneProducer' /\ Positions' /\ Alone'
    BY <2>2, <2>7 DEF OneProducer, Positions, Alone, MidMessage, Inside, IInv
  <2>9. WireInOrder' /\ BufferIsTail'
    <3>1. Made' = Made /\ Got' = Got
      BY <2>2 DEF Made, Got
    <3>2. WireInOrder'
      BY <2>2, <2>4, <2>7, <3>1 DEF WireInOrder, IInv
    <3>3. BufferIsTail'
      BY <2>2, <2>4, <2>5 DEF BufferIsTail, IInv
    <3>4. QED BY <3>2, <3>3
  <2>10. SpanCurrent'
    BY <2>2, <2>5, <2>7 DEF SpanCurrent, IInv
  <2>11. QED BY <2>6, <2>8, <2>9, <2>10 DEF IInv
<1>5. ASSUME NEW c \in Caller, FillEnds(c) \/ FlushEnds(c) PROVE IInv'
  <2>1. /\ UNCHANGED <<writeState_, writeBuffer_, msg, doneWrite, op, pending, peer, wire,
                       produced, overlapped, aloneSince>>
        /\ \/ pc[c] = "fill" /\ pc' = [pc EXCEPT ![c] = "flush"] /\ ret' = ret
           \/ /\ pc[c] = "flush" /\ pc' = [pc EXCEPT ![c] = "idle"]
              /\ ret' = [ret EXCEPT ![c] = "OK"]
           \/ /\ pc[c] = "flush" /\ ~doneWrite[c] /\ pc' = [pc EXCEPT ![c] = "fill"]
              /\ ret' = ret
    BY <1>5 DEF FillEnds, FlushEnds, Return, sockVars, history
  <2>2. /\ \A d \in Caller \ {c} : pc'[d] = pc[d]
        /\ pc[c] \notin {"idle", "sent"} /\ pc'[c] \in {"flush", "idle", "fill"}
        /\ pc'[c] = "fill" => ~doneWrite[c]
    BY <1>t, <2>1
  <2>3. TypeOK'
    BY <2>1 DEF TypeOK, IInv
  <2>4. OneProducer' /\ Positions' /\ Alone' /\ SpanCurrent'
    BY <2>1, <2>2 DEF OneProducer, Positions, Alone, SpanCurrent, MidMessage, Inside, IInv
  <2>5. WireInOrder' /\ BufferIsTail'
    BY <2>1, <2>2 DEF BufferIsTail, WireInOrder, Made, Got, IInv
  <2>6. QED BY <2>3, <2>4, <2>5 DEF IInv
<1>6. ASSUME NEW c \in Caller, Flush(c) PROVE IInv'
  <2>1. /\ UNCHANGED <<writeState_, writeBuffer_, msg, doneWrite, ret, peer, wire,
                       produced, overlapped, aloneSince>>
        /\ pc[c] = "flush" /\ pc' = [pc EXCEPT ![c] = "send"]
        /\ op' = [op EXCEPT ![c] = [from |-> writeBuffer_.rd, n |-> Size(writeBuffer_)]]
        /\ pending' = Append(pending, c)
    BY <1>6 DEF Flush, history
  <2>2. /\ writeBuffer_.rd \in 0 .. Cap /\ Size(writeBuffer_) \in 0 .. Cap
        /\ writeBuffer_.rd + Size(writeBuffer_) <= Cap
    BY <1>t, CapAssumption DEF Buffers, Size
  <2>3. pending' \in Seq(Caller)
    BY <1>t, <2>1, AppendProperties
  <2>4. /\ op' \in [Caller -> [from : 0 .. Cap, n : 0 .. Cap]]
        /\ op'[c].from = writeBuffer_.rd /\ op'[c].n = Size(writeBuffer_)
        /\ \A d \in Caller \ {c} : op'[d] = op[d] /\ pc'[d] = pc[d]
        /\ pc'[c] = "send"
    BY <1>t, <2>1, <2>2
  <2>5. \A d \in Caller : op'[d].from + op'[d].n <= Cap
    BY <1>t, <2>2, <2>4
  <2>6. TypeOK'
    BY <2>1, <2>3, <2>4, <2>5 DEF TypeOK, IInv
  <2>7. OneProducer' /\ Positions' /\ Alone'
    BY <2>1, <2>4 DEF OneProducer, Positions, Alone, MidMessage, Inside, IInv
  <2>8. SpanCurrent'
    BY <2>1, <2>4 DEF SpanCurrent, IInv
  <2>9. WireInOrder' /\ BufferIsTail'
    BY <2>1, <2>4 DEF BufferIsTail, WireInOrder, Made, Got, IInv
  <2>10. QED BY <2>6, <2>7, <2>8, <2>9 DEF IInv
<1>7. ASSUME NEW c \in Caller, Sent(c) PROVE IInv'
  <2> DEFINE n == op[c].n
             b == writeBuffer_
  <2>1. /\ UNCHANGED <<writeState_, msg, doneWrite, ret, op, pending, peer, wire,
                       produced, overlapped, aloneSince>>
        /\ pc[c] = "sent" /\ pc' = [pc EXCEPT ![c] = "flush"]
        /\ writeBuffer_' = Consume(b, n)
    BY <1>7 DEF Sent, BytesTaken, sockVars, history
  <2>2. /\ \A d \in Caller \ {c} : pc'[d] = pc[d]
        /\ pc'[c] = "flush"
    BY <1>t, <2>1
  <2>3. Consume(b, n) \in Buffers
    BY <1>t, ConsumeStaysInBounds
  <2>4. TypeOK'
    BY <2>1, <2>3 DEF TypeOK, IInv
  <2>5. OneProducer' /\ Positions' /\ Alone'
    BY <2>1, <2>2 DEF OneProducer, Positions, Alone, MidMessage, Inside, IInv
  <2>6. ASSUME ~overlapped
        PROVE  /\ \A d \in Caller : pc'[d] \notin {"send", "sent"}
               /\ Made = Got \o ReadableSpan(Consume(b, n))
    <3>1. \A d \in Caller \ {c} : pc'[d] = "idle"
      BY <2>1, <2>2, <2>6 DEF IInv, Alone, Inside
    <3>2. n \in 0 .. Size(b)
      BY <1>t, <2>1, <2>6 DEF IInv, SpanCurrent
    <3>3. ReadableSpan(Consume(b, n)) = SubSeq(ReadableSpan(b), n + 1, Len(ReadableSpan(b)))
      BY <1>t, <3>2, ConsumeDrops
    <3>4. Made = Got \o SubSeq(ReadableSpan(b), n + 1, Len(ReadableSpan(b)))
      BY <2>1, <2>6 DEF IInv, WireInOrder
    <3>5. QED BY <2>2, <3>1, <3>3, <3>4
  <2>7. WireInOrder'
    <3>1. overlapped' = overlapped /\ Made' = Made /\ Got' = Got
      BY <2>1 DEF Made, Got
    <3>2. QED BY <2>1, <2>6, <3>1 DEF WireInOrder
  <2>a. BufferIsTail'
    <3> DEFINE t == Consume(b, n)
    <3>1. n \in Nat
      BY <1>t, CapAssumption
    <3>2. Size(b) \in Nat /\ Size(b) <= Len(produced) /\ Len(produced) \in Nat
      BY <1>t, SpanType DEF IInv, BufferIsTail
    <3>3. CASE n <= Size(b)
      <4>1. n \in 0 .. Size(b)
        BY <3>1, <3>2, <3>3
      <4>2. /\ t \in Buffers /\ ReadableSpan(b) \in Seq(Byte)
            /\ ReadableSpan(t) = SubSeq(ReadableSpan(b), n + 1, Len(ReadableSpan(b)))
            /\ Len(ReadableSpan(b)) = Size(b)
        BY <1>t, <4>1, ConsumeDrops, SpanType
      <4>3. Len(ReadableSpan(t)) = Size(t)
        BY <4>2, SpanType
      <4> DEFINE R == ReadableSpan(b)
                 m == Size(b)
      <4>4. \A i \in 1 .. m : R[i] = produced[Len(produced) - m + i]
        BY DEF IInv, BufferIsTail
      <4>5. Size(t) = m - n /\ \A i \in 1 .. m - n : ReadableSpan(t)[i] = R[n + i]
        <5>1. /\ R \in Seq(Byte) /\ Len(R) = m /\ n \in Nat /\ n <= m /\ m \in Nat
              /\ ReadableSpan(t) = SubSeq(R, n + 1, Len(R)) /\ Len(ReadableSpan(t)) = Size(t)
          BY <3>1, <3>2, <3>3, <4>2, <4>3
        <5> HIDE DEF R, t, m, n
        <5>2. \A i \in n + 1 .. Len(R) : i \in 1 .. Len(R)
          BY <5>1
        <5>3. /\ Len(SubSeq(R, n + 1, Len(R))) = m - n
              /\ \A i \in 1 .. m - n : SubSeq(R, n + 1, Len(R))[i] = R[n + i]
          BY <5>1, <5>2
        <5>4. QED BY <5>1, <5>3
      <4> HIDE DEF R, m
      <4>6. ASSUME NEW i \in 1 .. m - n
            PROVE  ReadableSpan(t)[i] = produced[Len(produced) - (m - n) + i]
        <5>1. n + i \in 1 .. m /\ Len(produced) - (m - n) + i = Len(produced) - m + (n + i)
          BY <3>1, <3>2, <4>6 DEF m
        <5>2. QED BY <4>4, <4>5, <5>1
      <4>7. Size(t) <= Len(produced)
        BY <3>1, <3>2, <4>5 DEF m
      <4> HIDE DEF t
      <4>8. QED BY <2>1, <4>5, <4>6, <4>7 DEF BufferIsTail, t
    <3>4. CASE ~(n <= Size(b))
      <4>1. Size(t) = 0
        BY <1>t, <3>1, <3>4, CapAssumption DEF Consume, Size, Buffers
      <4> HIDE DEF t
      <4>2. QED BY <2>1, <3>2, <4>1 DEF BufferIsTail, t
    <3>5. QED BY <3>3, <3>4
  <2>8. SpanCurrent'
    BY <2>1, <2>6 DEF SpanCurrent
  <2>9. QED BY <2>4, <2>5, <2>7, <2>8, <2>a DEF IInv
<1>8. ASSUME NEW c \in Caller, SendFails(c) PROVE IInv'
  <2>1. /\ UNCHANGED <<writeState_, writeBuffer_, msg, doneWrite, op, peer, wire,
                       produced, overlapped, aloneSince>>
        /\ pc[c] = "send" /\ pc' = [pc EXCEPT ![c] = "idle"]
        /\ ret' = [ret EXCEPT ![c] = "CONNECTION_ENDED"]
        /\ pending # <<>> /\ pending' = Tail(pending)
    BY <1>8 DEF SendFails, Return, history
  <2>2. pending' \in Seq(Caller)
    BY <1>t, <2>1, HeadTailProperties
  <2>3. /\ \A d \in Caller \ {c} : pc'[d] = pc[d]
        /\ pc'[c] = "idle"
    BY <1>t, <2>1
  <2>4. TypeOK'
    BY <2>1, <2>2 DEF TypeOK, IInv
  <2>5. OneProducer' /\ Positions' /\ Alone' /\ SpanCurrent'
    BY <2>1, <2>3 DEF OneProducer, Positions, Alone, SpanCurrent, MidMessage, Inside, IInv
  <2>6. WireInOrder' /\ BufferIsTail'
    BY <2>1, <2>3 DEF BufferIsTail, WireInOrder, Made, Got, IInv
  <2>7. QED BY <2>4, <2>5, <2>6 DEF IInv
<1>9. ASSUME NEW c \in Caller, NEW n \in 1 .. Cap, Send(c, n) PROVE IInv'
  <2> DEFINE b == writeBuffer_
             R == ReadableSpan(b)
             S == [i \in 1 .. n |-> b.mem[op[c].from + i - 1]]
  <2>1. /\ UNCHANGED <<writeState_, writeBuffer_, msg, doneWrite, ret, peer, produced,
                       overlapped, aloneSince>>
        /\ pc[c] = "send" /\ pc' = [pc EXCEPT ![c] = "sent"]
        /\ n \in 1 .. op[c].n /\ op' = [op EXCEPT ![c] = [from |-> op[c].from, n |-> n]]
        /\ pending # <<>> /\ pending' = Tail(pending)
        /\ wire' = wire \o S
    BY <1>9 DEF Send, history
  <2>a. /\ op[c] \in [from : 0 .. Cap, n : 0 .. Cap] /\ op[c].from + op[c].n <= Cap
        /\ op[c].from \in Nat /\ op[c].n \in Nat /\ n \in 0 .. Cap
        /\ op[c].from + n <= Cap
    <3> DEFINE f == op[c].from
               k == op[c].n
    <3>1. /\ op[c] \in [from : 0 .. Cap, n : 0 .. Cap] /\ f + k <= Cap
          /\ f \in Nat /\ k \in Nat /\ n \in 1 .. k
      BY <1>t, <2>1, CapAssumption
    <3> HIDE DEF f, k
    <3>2. n \in 0 .. Cap /\ f + n <= Cap
      BY <3>1, CapAssumption
    <3>3. QED BY <3>1, <3>2 DEF f, k
  <2>2. pending' \in Seq(Caller)
    BY <1>t, <2>1, HeadTailProperties
  <2>3. /\ op' \in [Caller -> [from : 0 .. Cap, n : 0 .. Cap]]
        /\ op'[c].from = op[c].from /\ op'[c].n = n
        /\ \A d \in Caller \ {c} : op'[d] = op[d] /\ pc'[d] = pc[d]
        /\ pc'[c] = "sent"
    BY <1>t, <2>1, <2>a
  <2>4. \A d \in Caller : op'[d].from + op'[d].n <= Cap
    <3>1. op'[c].from + op'[c].n <= Cap
      BY <2>3, <2>a
    <3>2. QED BY <1>t, <2>3, <3>1
  <2>5. S \in Seq(Byte)
    <3>1. \A i \in 1 .. n : op[c].from + i - 1 \in 0 .. Cap - 1
      BY <2>1, <2>a, CapAssumption, SMTT(30)
    <3>2. S \in [1 .. n -> Byte]
      BY <1>t, <3>1 DEF Buffers
    <3>3. n \in Nat
      BY CapAssumption
    <3>4. QED BY <3>2, <3>3, SeqDef
  <2> HIDE DEF S
  <2>6. wire' \in Seq(Byte)
    BY <1>t, <2>1, <2>5, ConcatProperties
  <2>b. aloneSince' \in [sent : 0 .. Len(wire'), put : 0 .. Len(produced')]
    <3>1. aloneSince \in [sent : 0 .. Len(wire), put : 0 .. Len(produced)]
      BY DEF IInv, TypeOK
    <3>2. Len(wire') = Len(wire) + Len(S) /\ Len(wire) \in Nat /\ Len(S) \in Nat
      BY <1>t, <2>1, <2>5, ConcatProperties
    <3>3. QED BY <2>1, <3>1, <3>2
  <2>7. TypeOK'
    BY <2>1, <2>2, <2>3, <2>4, <2>6, <2>b DEF TypeOK, IInv
  <2>c. Made' = Made /\ Got' = Got \o S /\ Got \in Seq(Byte)
    <3>1. aloneSince.sent \in Nat /\ aloneSince.sent <= Len(wire) /\ Got \in Seq(Byte)
      BY SinceType DEF IInv
    <3>2. wire' = wire \o S
      BY <2>1
    <3>3. SubSeq(wire', aloneSince.sent + 1, Len(wire'))
            = SubSeq(wire, aloneSince.sent + 1, Len(wire)) \o S
      <4> DEFINE k == aloneSince.sent
      <4> HIDE DEF k
      <4>1. wire \in Seq(Byte) /\ S \in Seq(Byte) /\ k \in Nat /\ k <= Len(wire)
        BY <1>t, <2>5, <3>1 DEF k
      <4>2. SubSeq(wire \o S, k + 1, Len(wire \o S)) = SubSeq(wire, k + 1, Len(wire)) \o S
        BY <4>1, GrowsAtEnd
      <4>3. QED BY <3>2, <4>2 DEF k
    <3>4. QED BY <2>1, <3>1, <3>3 DEF Made, Got
  <2>8. OneProducer' /\ Positions' /\ Alone'
    BY <2>1, <2>3 DEF OneProducer, Positions, Alone, MidMessage, Inside, IInv
  <2>9. ASSUME ~overlapped
        PROVE  /\ \A d \in Caller \ {c} : pc'[d] = "idle"
               /\ n \in 1 .. Size(b)
               /\ Made' = Got' \o SubSeq(R, n + 1, Len(R))
    <3>1. \A d \in Caller \ {c} : pc[d] = "idle"
      BY <2>1, <2>9 DEF IInv, Alone, Inside
    <3>2. n \in 1 .. Size(b) /\ op[c].from = b.rd
      BY <2>1, <2>9 DEF IInv, SpanCurrent
    <3>3. S = SubSeq(R, 1, n)
      BY <1>t, <3>2, SpanTaken DEF S
    <3>4. Made = Got \o R
      BY <2>1, <2>9, <3>1 DEF IInv, WireInOrder
    <3>5. n \in 0 .. Size(b)
      BY <3>2
    <3>6. /\ (Got \o SubSeq(R, 1, n)) \o ReadableSpan(Consume(b, n)) = Got \o R
          /\ ReadableSpan(Consume(b, n)) = SubSeq(R, n + 1, Len(R))
      BY <1>t, <2>c, <3>5, ConsumeMovesBytes, ConsumeDrops
    <3>7. Made' = Got' \o SubSeq(R, n + 1, Len(R))
      BY <2>c, <3>3, <3>4, <3>6
    <3>8. QED BY <2>1, <2>3, <3>1, <3>2, <3>7
  <2>10. WireInOrder' /\ SpanCurrent' /\ BufferIsTail'
    <3>1. WireInOrder' /\ SpanCurrent'
      BY <2>1, <2>3, <2>9 DEF WireInOrder, SpanCurrent
    <3>2. BufferIsTail'
      BY <2>1 DEF BufferIsTail, IInv
    <3>3. QED BY <3>1, <3>2
  <2>11. QED BY <2>7, <2>8, <2>10 DEF IInv
<1>10. ASSUME PeerLeaves PROVE IInv'
  <2>1. /\ UNCHANGED <<writeState_, writeBuffer_, pc, msg, doneWrite, ret, op, pending, wire,
                       produced, overlapped, aloneSince>>
        /\ peer' = "gone"
    BY <1>10 DEF PeerLeaves, callVars, history
  <2>2. Made' = Made /\ Got' = Got
    BY <2>1 DEF Made, Got
  <2>3. QED BY <2>1, <2>2 DEF IInv, TypeOK, OneProducer, BufferIsTail, WireInOrder, Positions,
                              Alone, SpanCurrent, MidMessage, Inside
<1>11. CASE UNCHANGED vars
  <2>1. Made' = Made /\ Got' = Got
    BY <1>11 DEF Made, Got, vars, sockVars, history
  <2>2. QED BY <1>11, <2>1
         DEF vars, callVars, sockVars, history, IInv, TypeOK, OneProducer, BufferIsTail,
             WireInOrder, Positions, Alone, SpanCurrent, MidMessage, Inside
<1>12. QED
  BY <1>1, <1>2, <1>3, <1>4, <1>5, <1>6, <1>7, <1>8, <1>9, <1>10, <1>11
     DEF Next, Resumed, Completes

(* The invariant holds throughout. *)
THEOREM Invariance == Spec => []IInv
<1>1. Init => IInv
  BY InitIInv
<1>2. IInv /\ [Next]_vars => IInv'
  BY NextIInv
<1>3. QED BY <1>1, <1>2, PTL DEF Spec

(* Whatever pieces the socket takes and whichever write fails: while no write  *)
(* is in the last flush of another, the wire carries what the messages         *)
(* produced, once and in order, since the last such overlap was over, and      *)
(* from the beginning when there was none.  Of the time of an overlap nothing  *)
(* is said: the code then sends bytes twice.                                 *)
THEOREM WriteKeepsWireInOrder == Spec => []WireInOrder
<1>1. IInv => WireInOrder
  BY DEF IInv
<1>2. QED BY Invariance, <1>1, PTL

(* At most one caller is in the middle of its message, overlapping or not. *)
THEOREM WriteIsExclusiveMidMessage == Spec => []OneProducer
<1>1. IInv => OneProducer
  BY DEF IInv
<1>2. QED BY Invariance, <1>1, PTL

(* A write that returns OK without having been overlapped has put all it      *)
(* produced on the wire, and all that an overlap before it left in the buffer. *)
THEOREM OkWritesAreSent == Spec => OkMeansSent
<1> DEFINE Good == \A c \in Caller :
             pc[c] # "idle" /\ pc'[c] = "idle" /\ ret'[c] = "OK" /\ ~overlapped
               => Got' = Made'
<1>1. IInv /\ [Next]_vars => [Good]_vars
  <2> SUFFICES ASSUME IInv, Next, NEW c \in Caller,
                      pc[c] # "idle", pc'[c] = "idle", ret'[c] = "OK", ~overlapped
               PROVE  Got' = Made'
    OBVIOUS
  <2>t. /\ pc \in [Caller -> {"idle", "fill", "body", "flush", "send", "sent"}]
        /\ ret \in [Caller -> {"none", "OK", "INVALID_STATE", "INVALID_MESSAGE",
                               "CONNECTION_ENDED"}]
        /\ writeBuffer_ \in Buffers /\ Got \in Seq(Byte)
    BY SinceType DEF IInv, TypeOK
  <2>1. FlushEnds(c)
    <3>1. ASSUME NEW d \in Caller, NEW m \in NewMsg, Call(d, m) PROVE FALSE
      BY <2>t, <3>1 DEF Call, Return, Inside
    <3>2. ASSUME NEW d \in Caller,
                 \/ FillHeader(d) \/ FillBody(d) \/ FillEnds(d) \/ Flush(d) \/ Sent(d)
                 \/ \E n \in 1 .. Cap : Send(d, n)
          PROVE  FALSE
      BY <2>t, <3>2 DEF FillHeader, FillBody, FillEnds, Flush, Sent, Send
    <3>3. ASSUME NEW d \in Caller, MessageFails(d) \/ SendFails(d) PROVE FALSE
      BY <2>t, <3>3 DEF MessageFails, SendFails, Return
    <3>4. ASSUME NEW d \in Caller, FlushEnds(d) PROVE d = c
      BY <2>t, <3>4 DEF FlushEnds, Return
    <3>5. ~PeerLeaves
      BY DEF PeerLeaves, callVars
    <3>6. QED BY <3>1, <3>2, <3>3, <3>4, <3>5 DEF Next, Resumed, Completes
  <2>2. pc[c] = "flush" /\ IsEmpty(writeBuffer_) /\ Made' = Made /\ Got' = Got
    BY <2>1 DEF FlushEnds, Flushed, sockVars, history, Made, Got
  <2>3. \A d \in Caller : pc[d] # "sent"
    BY <2>2 DEF IInv, Alone, Inside
  <2>4. Made = Got \o ReadableSpan(writeBuffer_)
    BY <2>3 DEF IInv, WireInOrder
  <2>5. ReadableSpan(writeBuffer_) = <<>>
    BY <2>t, <2>2, EmptySpan
  <2>6. Made = Got
    BY <2>t, <2>4, <2>5, ConcatEmptySeq
  <2>7. QED BY <2>2, <2>6
<1>2. QED BY Invariance, <1>1, PTL DEF Spec, OkMeansSent

-------------------------------------------------------------------------------
(* Whole messages, for every message type that satisfies TextContract.      *)

LEMMA NothingIsWhole == AreWhole(<<>>)
<1>1. {0} \in SUBSET (0 .. Len(<<>>)) /\ {0, Len(<<>>)} \subseteq {0}  OBVIOUS
<1>2. \A i, j \in {0} : ~(i < j)  OBVIOUS
<1> QED  BY <1>1, <1>2 DEF AreWhole

(* Behind whole messages one more is cut where they end.                    *)
LEMMA OneMoreWhole ==
  ASSUME NEW s \in Seq(Byte), AreWhole(s), NEW m \in NewMsg, Text(m) \in Seq(Byte)
  PROVE  AreWhole(s \o Text(m))
<1> DEFINE t == Text(m)
           n == Len(s)
           u == s \o t
<1>1. n \in Nat /\ Len(t) \in Nat /\ u \in Seq(Byte) /\ Len(u) = n + Len(t)
  BY ConcatProperties
<1>2. PICK cuts \in SUBSET (0 .. n) :
        /\ {0, n} \subseteq cuts
        /\ \A i, j \in cuts : i < j /\ (\A k \in cuts : k <= i \/ j <= k)
                              => \E x \in NewMsg : SubSeq(s, i + 1, j) = Text(x)
  BY DEF AreWhole
<1>3. \A i \in 0 .. n : \A j \in i .. n : SubSeq(u, i + 1, j) = SubSeq(s, i + 1, j)
  <2> SUFFICES ASSUME NEW i \in 0 .. n, NEW j \in i .. n
               PROVE  SubSeq(u, i + 1, j) = SubSeq(s, i + 1, j)
    OBVIOUS
  <2> DEFINE f == SubSeq(u, i + 1, j)
             g == SubSeq(s, i + 1, j)
  <2>1. \A k \in i + 1 .. j : k \in 1 .. n /\ k \in 1 .. Len(u)  BY <1>1
  <2>2. f \in Seq(Byte) /\ Len(f) = j - i /\ \A k \in 1 .. j - i : f[k] = u[i + k]
    <3> HIDE DEF u
    <3> QED  BY <1>1, <2>1
  <2>3. g \in Seq(Byte) /\ Len(g) = j - i /\ \A k \in 1 .. j - i : g[k] = s[i + k]
    BY <1>1, <2>1
  <2>4. \A k \in 1 .. j - i : u[i + k] = s[i + k]
    <3>1. \A k \in 1 .. n : u[k] = s[k]  BY <1>1, ConcatProperties
    <3>2. \A k \in 1 .. j - i : i + k \in 1 .. n  BY <1>1
    <3> QED  BY <3>1, <3>2
  <2> HIDE DEF f, g
  <2>5. f = g  BY <2>2, <2>3, <2>4, SeqEqual
  <2> QED  BY <2>5 DEF f, g
<1>4. SubSeq(u, n + 1, n + Len(t)) = t
  <2>1. n \in Nat /\ n <= Len(s)  BY <1>1
  <2>2. SubSeq(u, n + 1, Len(u)) = SubSeq(s, n + 1, Len(s)) \o t  BY <2>1, GrowsAtEnd
  <2>3. SubSeq(s, n + 1, Len(s)) = <<>>  BY <1>1, SubSeqEmpty
  <2>4. <<>> \o t = t  BY ConcatEmptySeq
  <2> QED  BY <1>1, <2>2, <2>3, <2>4
<1> HIDE DEF u, n
<1> DEFINE more == cuts \cup {n + Len(t)}
<1>5. more \in SUBSET (0 .. Len(u)) /\ {0, Len(u)} \subseteq more
  <2> HIDE DEF t
  <2>1. Len(u) \in Nat /\ n \in Nat /\ n <= Len(u) /\ Len(u) = n + Len(t)  BY <1>1
  <2>2. \A k \in cuts : k \in 0 .. n  BY <1>2
  <2>3. \A k \in more : k \in 0 .. Len(u)  BY <2>1, <2>2
  <2> QED  BY <1>2, <2>1, <2>3
<1>6. ASSUME NEW i \in more, NEW j \in more, i < j, \A k \in more : k <= i \/ j <= k
      PROVE  \E x \in NewMsg : SubSeq(u, i + 1, j) = Text(x)
  <2>0. n \in cuts /\ (\A k \in cuts : k \in 0 .. n)  BY <1>2
  <2>1. CASE j \in cuts
    <3>1. i \in cuts /\ i \in 0 .. n /\ j \in i .. n
      BY <1>1, <1>6, <2>0, <2>1
    <3>2. \E x \in NewMsg : SubSeq(s, i + 1, j) = Text(x)
      BY <1>2, <1>6, <2>1, <3>1
    <3> QED  BY <1>3, <3>1, <3>2
  <2>2. CASE j \notin cuts
    <3>1. j = n + Len(t) /\ i = n  BY <1>1, <1>6, <2>0, <2>2
    <3> QED  BY <1>4, <3>1
  <2> QED  BY <2>1, <2>2
<1> HIDE DEF more
<1>7. \A i, j \in more : i < j /\ (\A k \in more : k <= i \/ j <= k)
                        => \E x \in NewMsg : SubSeq(u, i + 1, j) = Text(x)
  BY <1>6
<1>8. AreWhole(u)  BY <1>5, <1>7 DEF AreWhole
<1> QED  BY <1>8 DEF u

(* A message that is begun owes all of its text.                            *)
LEMMA BeginText ==
  ASSUME NEW s \in Seq(Byte), AreWhole(s), NEW m \in NewMsg, Text(m) \in Seq(Byte)
  PROVE  Underway(s, Text(m))
<1> DEFINE k == Len(s)
<1>1. k \in 0 .. Len(s) /\ SubSeq(s, 1, k) = s  BY SubSeqFull
<1>2. SubSeq(s, k + 1, Len(s)) = <<>>  BY SubSeqEmpty
<1>3. <<>> \o Text(m) = Text(m)  BY ConcatEmptySeq
<1> HIDE DEF k
<1>4. AreWhole(SubSeq(s, 1, k)) /\ SubSeq(s, k + 1, Len(s)) \o Text(m) = Text(m)
  BY <1>1, <1>2, <1>3
<1> QED  BY <1>1, <1>4 DEF Underway

(* What a produce call that reports no error hands over is the next part of   *)
(* what its caller owed.                                                    *)
LEMMA PutTexts ==
  ASSUME NEW s \in Seq(Byte), NEW bytes \in Seq(Byte), NEW rest \in Seq(Byte),
         Underway(s, bytes \o rest)
  PROVE  Underway(s \o bytes, rest)
<1>1. PICK k \in 0 .. Len(s), m \in NewMsg :
        /\ AreWhole(SubSeq(s, 1, k))
        /\ SubSeq(s, k + 1, Len(s)) \o (bytes \o rest) = Text(m)
  BY DEF Underway
<1>2. k \in Nat /\ k <= Len(s)  OBVIOUS
<1> DEFINE given == SubSeq(s, k + 1, Len(s))
           q == s \o bytes
<1>3. k \in 0 .. Len(q) /\ SubSeq(q, 1, k) = SubSeq(s, 1, k)
  BY <1>2, GrowsAtEnd
<1>4. SubSeq(q, k + 1, Len(q)) = SubSeq(s, k + 1, Len(s)) \o bytes
  BY <1>2, GrowsAtEnd
<1>5. given \in Seq(Byte)  BY <1>2, CutInTwo
<1> HIDE DEF given, q
<1>6. (given \o bytes) \o rest = given \o (bytes \o rest)  BY <1>5, Grouped
<1>7. AreWhole(SubSeq(q, 1, k)) /\ SubSeq(q, k + 1, Len(q)) \o rest = Text(m)
  BY <1>1, <1>3, <1>4, <1>6 DEF given
<1> QED  BY <1>3, <1>7 DEF Underway, q

(* A message that is produced to its end leaves whole messages.              *)
LEMMA LastPut ==
  ASSUME NEW s \in Seq(Byte), NEW bytes \in Seq(Byte), Underway(s, bytes)
  PROVE  AreWhole(s \o bytes)
<1>1. PICK k \in 0 .. Len(s), m \in NewMsg :
        AreWhole(SubSeq(s, 1, k)) /\ SubSeq(s, k + 1, Len(s)) \o bytes = Text(m)
  BY DEF Underway
<1> DEFINE w == SubSeq(s, 1, k)
           given == SubSeq(s, k + 1, Len(s))
<1>2. k \in Nat /\ k <= Len(s)  OBVIOUS
<1>3. w \in Seq(Byte) /\ given \in Seq(Byte) /\ w \o given = s
  BY <1>2, CutInTwo
<1> HIDE DEF w, given
<1>4. (w \o given) \o bytes = w \o (given \o bytes)
  <2>1. w \in Seq(Byte) /\ given \in Seq(Byte)  BY <1>3
  <2> QED  BY <2>1, Grouped
<1>5. given \o bytes = Text(m) /\ given \o bytes \in Seq(Byte) /\ AreWhole(w)
  BY <1>1, <1>3, ConcatProperties DEF w, given
<1>6. AreWhole(w \o Text(m))  BY <1>3, <1>5, OneMoreWhole
<1> QED  BY <1>3, <1>4, <1>5, <1>6

LEMMA NextTexts == TextInv /\ [Next]_vars => MessagesStayWhole'
<1> SUFFICES ASSUME TextInv, [Next]_vars  PROVE MessagesStayWhole'
  OBVIOUS
<1>i. IInv /\ MessagesStayWhole  BY DEF TextInv
<1>t. /\ writeBuffer_ \in Buffers /\ produced \in Seq(Byte) /\ msg \in [Caller -> Msg]
      /\ pc \in [Caller -> {"idle", "fill", "body", "flush", "send", "sent"}]
      /\ doneWrite \in [Caller -> BOOLEAN]
      /\ \A c \in Caller : HeadToGo(msg[c]) \in Seq(Byte) /\ BodyToGo(msg[c]) \in Seq(Byte)
  BY <1>i, TextContract DEF IInv, TypeOK
<1>1. ASSUME NEW c \in Caller, NEW m \in NewMsg, Call(c, m), writeState_ = "START"
      PROVE  MessagesStayWhole'
  <2>1. /\ writeState_' = "WRITE_HEADER" /\ msg' = [msg EXCEPT ![c] = m]
        /\ doneWrite' = [doneWrite EXCEPT ![c] = FALSE]
        /\ pc' = [pc EXCEPT ![c] = "fill"] /\ produced' = produced
    BY <1>1 DEF Call, Admits
  <2>2. \A d \in Caller : ~MidMessage(d)  BY <1>1, <1>i DEF IInv, OneProducer
  <2>3. \A d \in Caller : MidMessage(d)' => d = c
    BY <1>t, <2>1, <2>2 DEF MidMessage, Inside
  <2>4. Owed(c)' = Text(m)  BY <1>t, <2>1 DEF Owed
  <2>5. AreWhole(produced)  BY <1>1, <1>i DEF MessagesStayWhole
  <2>6. Text(m) \in Seq(Byte)
    BY NewMsgAssumption, TextContract, ConcatProperties DEF Text
  <2>7. Underway(produced, Text(m))  BY <1>t, <2>5, <2>6, BeginText
  <2> QED  BY <2>1, <2>3, <2>4, <2>7 DEF MessagesStayWhole
<1>2. ASSUME NEW c \in Caller, FillHeader(c)
      PROVE  MessagesStayWhole'
  <2> DEFINE r == ProduceHeaderSome(msg[c], Room(writeBuffer_))
  <2>1. /\ pc[c] = "fill" /\ writeState_ = "WRITE_HEADER" /\ Put(c, r) /\ ~r.err
        /\ writeState_' = IF r.done THEN "WRITE_BODY" ELSE "WRITE_HEADER"
        /\ pc' = [pc EXCEPT ![c] = IF r.done THEN "body" ELSE "fill"]
        /\ doneWrite' = doneWrite
    BY <1>2 DEF FillHeader
  <2>2. r.msg \in Msg /\ r.bytes \in Seq(Byte)
    BY <1>t, ProduceOutcome
  <2>3. /\ BodyToGo(r.msg) = BodyToGo(msg[c])
        /\ HeadToGo(msg[c]) = IF r.done THEN r.bytes ELSE r.bytes \o HeadToGo(r.msg)
    <3>1. Room(writeBuffer_) \in 0 .. Cap  BY <1>t, SpanType
    <3> QED  BY <1>t, <2>1, <3>1, TextContract
  <2> HIDE DEF r
  <2>4. MidMessage(c) /\ \A d \in Caller : MidMessage(d)' => d = c
    BY <1>i, <1>t, <2>1 DEF IInv, OneProducer, Positions, MidMessage, Inside
  <2>5. produced' = produced \o r.bytes /\ msg'[c] = r.msg  BY <1>t, <2>1 DEF Put
  <2>6. HeadToGo(r.msg) \in Seq(Byte) /\ BodyToGo(r.msg) \in Seq(Byte)
    BY <2>2, TextContract
  <2>7. Owed(c) = r.bytes \o Owed(c)' /\ Owed(c)' \in Seq(Byte)
    <3>1. CASE r.done
      BY <2>1, <2>3, <2>5, <2>6, <3>1 DEF Owed, Text
    <3>2. CASE ~r.done
      <4>1. Owed(c) = (r.bytes \o HeadToGo(r.msg)) \o BodyToGo(r.msg)
        BY <2>1, <2>3, <3>2 DEF Owed, Text
      <4>2. Owed(c)' = HeadToGo(r.msg) \o BodyToGo(r.msg)
        BY <2>1, <2>5, <3>2 DEF Owed, Text
      <4>3. (r.bytes \o HeadToGo(r.msg)) \o BodyToGo(r.msg)
              = r.bytes \o (HeadToGo(r.msg) \o BodyToGo(r.msg))
        <5>1. \A x, y, z \in Seq(Byte) : (x \o y) \o z = x \o (y \o z)
          BY Grouped
        <5>2. /\ r.bytes \in Seq(Byte) /\ HeadToGo(r.msg) \in Seq(Byte)
              /\ BodyToGo(r.msg) \in Seq(Byte)
          BY <2>2, <2>6
        <5> QED  BY <5>1, <5>2
      <4> QED  BY <2>6, <4>1, <4>2, <4>3, ConcatProperties
    <3> QED  BY <3>1, <3>2
  <2>8. Underway(produced, r.bytes \o Owed(c)')
    BY <1>i, <2>4, <2>7 DEF MessagesStayWhole
  <2>9. Underway(produced \o r.bytes, Owed(c)')  BY <1>t, <2>2, <2>7, <2>8, PutTexts
  <2> QED  BY <2>1, <2>4, <2>5, <2>9 DEF MessagesStayWhole
<1>3. ASSUME NEW c \in Caller, FillBody(c)
      PROVE  MessagesStayWhole'
  <2> DEFINE r == ProduceBodySome(msg[c], Room(writeBuffer_))
  <2>1. /\ pc[c] \in {"fill", "body"} /\ writeState_ = "WRITE_BODY" /\ Put(c, r) /\ ~r.err
        /\ \/ /\ r.done /\ writeState_' = "START"
              /\ doneWrite' = [doneWrite EXCEPT ![c] = TRUE]
           \/ /\ ~r.done /\ writeState_' = "WRITE_BODY" /\ doneWrite' = doneWrite
        /\ \A d \in Caller \ {c} : pc'[d] = pc[d]
    BY <1>3, <1>t DEF FillBody, AtBody
  <2>2. r.msg \in Msg /\ r.bytes \in Seq(Byte)
    BY <1>t, ProduceOutcome
  <2>3. BodyToGo(msg[c]) = IF r.done THEN r.bytes ELSE r.bytes \o BodyToGo(r.msg)
    <3>1. Room(writeBuffer_) \in 0 .. Cap  BY <1>t, SpanType
    <3> QED  BY <1>t, <2>1, <3>1, TextContract
  <2> HIDE DEF r
  <2>4. MidMessage(c) /\ \A d \in Caller \ {c} : ~MidMessage(d)
    BY <1>i, <1>t, <2>1 DEF IInv, OneProducer, Positions, MidMessage, Inside
  <2>a. \A d \in Caller \ {c} : ~MidMessage(d)'
    BY <1>t, <2>1, <2>4 DEF MidMessage, Inside
  <2>5. produced' = produced \o r.bytes /\ msg'[c] = r.msg  BY <1>t, <2>1 DEF Put
  <2>6. BodyToGo(r.msg) \in Seq(Byte)  BY <2>2, TextContract
  <2>7. Owed(c) = BodyToGo(msg[c])  BY <2>1 DEF Owed
  <2>8. Underway(produced, Owed(c))  BY <1>i, <2>4 DEF MessagesStayWhole
  <2>9. CASE r.done
    <3>1. Owed(c) = r.bytes  BY <2>3, <2>7, <2>9
    <3>2. AreWhole(produced \o r.bytes)  BY <1>t, <2>2, <2>8, <3>1, LastPut
    <3>3. \A d \in Caller : ~MidMessage(d)'
      <4>1. doneWrite'[c]  BY <1>t, <2>1, <2>9
      <4> QED  BY <2>a, <4>1 DEF MidMessage
    <3> QED  BY <2>5, <3>2, <3>3 DEF MessagesStayWhole
  <2>10. CASE ~r.done
    <3>1. Underway(produced, r.bytes \o BodyToGo(r.msg))  BY <2>3, <2>7, <2>8, <2>10
    <3>2. Underway(produced \o r.bytes, BodyToGo(r.msg))
      BY <1>t, <2>2, <2>6, <3>1, PutTexts
    <3>3. Owed(c)' = BodyToGo(r.msg)  BY <2>1, <2>5, <2>10 DEF Owed
    <3> QED  BY <2>1, <2>5, <2>a, <2>10, <3>2, <3>3 DEF MessagesStayWhole
  <2> QED  BY <2>9, <2>10
<1>4. ASSUME UNCHANGED <<writeState_, produced>>,
             \A d \in Caller : MidMessage(d)' => MidMessage(d) /\ msg'[d] = msg[d]
      PROVE  MessagesStayWhole'
  <2>1. \A d \in Caller : MidMessage(d)' => MidMessage(d) /\ Owed(d)' = Owed(d)
    BY <1>4 DEF Owed
  <2> QED  BY <1>4, <1>i, <2>1 DEF MessagesStayWhole
<1>5. ASSUME NEW c \in Caller,
             \/ \E m \in NewMsg : Call(c, m) /\ writeState_ # "START"
             \/ MessageFails(c) \/ FillEnds(c) \/ Flush(c) \/ FlushEnds(c) \/ Sent(c)
             \/ SendFails(c) \/ \E n \in 1 .. Cap : Send(c, n)
      PROVE  MessagesStayWhole'
  <2>1. UNCHANGED <<writeState_, produced>>
    BY <1>5 DEF Call, Admits, MessageFails, FillEnds, Flush, FlushEnds, Sent, SendFails, Send
  <2>2. /\ \A d \in Caller \ {c} : pc'[d] = pc[d] /\ msg'[d] = msg[d] /\ doneWrite'[d] = doneWrite[d]
        /\ Inside(c)' => Inside(c) /\ msg'[c] = msg[c] /\ doneWrite'[c] = doneWrite[c]
    <3>1. ASSUME NEW m \in NewMsg, Call(c, m), writeState_ # "START"
          PROVE  /\ msg' = [msg EXCEPT ![c] = m] /\ doneWrite' = [doneWrite EXCEPT ![c] = FALSE]
                 /\ pc' = [pc EXCEPT ![c] = "idle"]
      BY <3>1 DEF Call, Admits, Return
    <3>2. ASSUME MessageFails(c)
          PROVE  /\ \E x : msg' = [msg EXCEPT ![c] = x]
                 /\ pc' = [pc EXCEPT ![c] = "idle"] /\ doneWrite' = doneWrite
      BY <3>2 DEF MessageFails, Return
    <3>3. ASSUME FillEnds(c) \/ Flush(c) \/ FlushEnds(c) \/ Sent(c) \/ SendFails(c)
                 \/ \E n \in 1 .. Cap : Send(c, n)
          PROVE  /\ msg' = msg /\ doneWrite' = doneWrite /\ pc[c] # "idle"
                 /\ \E x : pc' = [pc EXCEPT ![c] = x]
      BY <3>3 DEF FillEnds, Flush, FlushEnds, Sent, SendFails, Send, Return
    <3>4. CASE \E m \in NewMsg : Call(c, m) /\ writeState_ # "START"
      BY <1>t, <3>1, <3>4 DEF Inside
    <3>5. CASE MessageFails(c)  BY <1>t, <3>2, <3>5 DEF Inside
    <3>6. CASE FillEnds(c) \/ Flush(c) \/ FlushEnds(c) \/ Sent(c) \/ SendFails(c)
               \/ \E n \in 1 .. Cap : Send(c, n)
      BY <1>t, <3>3, <3>6 DEF Inside
    <3> QED  BY <1>5, <3>4, <3>5, <3>6
  <2>3. \A d \in Caller : MidMessage(d)' => MidMessage(d) /\ msg'[d] = msg[d]
    BY <2>2 DEF MidMessage, Inside
  <2> QED  BY <1>4, <2>1, <2>3
<1>6. CASE PeerLeaves \/ UNCHANGED vars
  <2>1. UNCHANGED <<writeState_, produced, pc, msg, doneWrite>>
    BY <1>6 DEF PeerLeaves, vars, callVars
  <2>2. \A d \in Caller : MidMessage(d)' => MidMessage(d) /\ msg'[d] = msg[d]
    BY <2>1 DEF MidMessage, Inside
  <2> QED  BY <1>4, <2>1, <2>2
<1> QED  BY <1>1, <1>2, <1>3, <1>5, <1>6 DEF Next, Resumed, Completes

(* Whatever type of message write drives, as long as what it hands over is    *)
(* the next part of its text: whoever calls, and even when writes overlap,    *)
(* messages reach the buffer whole, never one inside another.                *)
THEOREM WriteKeepsMessagesWhole == Spec => []MessagesStayWhole
<1>1. Init => TextInv
  <2> SUFFICES ASSUME Init  PROVE MessagesStayWhole
    BY InitIInv DEF TextInv
  <2>1. produced = <<>> /\ \A c \in Caller : ~MidMessage(c)
    BY DEF Init, MidMessage, Inside
  <2> QED  BY <2>1, NothingIsWhole DEF MessagesStayWhole
<1>2. TextInv /\ [Next]_vars => TextInv'
  BY NextIInv, NextTexts DEF TextInv
<1>3. TextInv => MessagesStayWhole
  BY DEF TextInv
<1> QED  BY <1>1, <1>2, <1>3, PTL DEF Spec
===============================================================================
