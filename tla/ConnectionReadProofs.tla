------------------------- MODULE ConnectionReadProofs -------------------------
(***************************************************************************)
(* Theorems about Connection::read for every buffer size, every number of   *)
(* callers and every message type that satisfies ConsumeContract.           *)
(***************************************************************************)
EXTENDS FramedRead, OperatorProofs

(* The socket fills the buffer with n bytes: they move from the head of the  *)
(* inbox behind the bytes that were readable.                               *)
LEMMA FetchMovesBytes ==
  ASSUME NEW b \in Buffers, NEW q \in Seq(Byte), NEW n \in 1 .. Len(q),
         n <= Room(b)
  PROVE  LET c == Commit(Filled(b, SubSeq(q, 1, n)), n) IN
         /\ c \in Buffers
         /\ ReadableSpan(c) = ReadableSpan(b) \o SubSeq(q, 1, n)
         /\ SubSeq(q, n + 1, Len(q)) \in Seq(Byte)
         /\ SubSeq(q, 1, n) \o SubSeq(q, n + 1, Len(q)) = q
         /\ SubSeq(q, 1, n) \in Seq(Byte) /\ Len(SubSeq(q, 1, n)) = n
<1> DEFINE h == SubSeq(q, 1, n)
           e == SubSeq(q, n + 1, Len(q))
<1>1. Len(q) \in Nat /\ \A i \in 1 .. Len(q) : q[i] \in Byte
  BY LenProperties, ElementOfSeq
<1>2. h \in Seq(Byte) /\ Len(h) = n /\ e \in Seq(Byte)
  BY <1>1, SubSeqProperties
<1>3. h \o e = q
  <2>1. 1 \in 1 .. Len(q) + 1 /\ n \in 1 - 1 .. Len(q) /\ Len(q) \in n .. Len(q)
    BY <1>1
  <2>2. h \o e = SubSeq(q, 1, Len(q))
    BY <2>1, ConcatAdjacentSubSeq
  <2>3. QED BY <2>2, SubSeqFull
<1> HIDE DEF h, e
<1>4. /\ Commit(Filled(b, h), Len(h)) \in Buffers
      /\ ReadableSpan(Commit(Filled(b, h), Len(h))) = ReadableSpan(b) \o h
  BY <1>2, CommitAppends
<1>5. QED BY <1>2, <1>3, <1>4 DEF h, e

-------------------------------------------------------------------------------
LEMMA SpanInChunk ==
  ASSUME NEW b \in Buffers
  PROVE  ReadableSpan(b) \in Chunk
BY SpanType DEF Chunk

(* What a message may answer, for the data read gives it. *)
LEMMA ConsumeOutcome ==
  ASSUME NEW b \in Buffers, NEW m \in Msg
  PROVE  LET k == Size(b)
             h == ConsumeHeaderSome(m, ReadableSpan(b))
             r == ConsumeBodySome(m, ReadableSpan(b))
         IN /\ h.err \in BOOLEAN /\ h.done \in BOOLEAN /\ h.n \in 0 .. k /\ h.msg \in Msg
            /\ r.err \in BOOLEAN /\ r.done \in BOOLEAN /\ r.n \in 0 .. k /\ r.msg \in Msg
<1> DEFINE s == ReadableSpan(b)
<1>1. Len(s) = Size(b) /\ s \in [1 .. Size(b) -> Byte] /\ Size(b) \in 0 .. Cap
  BY SpanType
<1> HIDE DEF s
<1>2. s \in Chunk
  BY <1>1 DEF Chunk
<1>3. ConsumeHeaderSome(m, s) \in Outcome(Size(b)) /\ ConsumeBodySome(m, s) \in Outcome(Size(b))
  BY <1>1, <1>2, ConsumeContract
<1>4. QED BY <1>3 DEF Outcome, s

(* Consuming leaves the cursors at 0 when it leaves nothing. *)
LEMMA ConsumeResets ==
  ASSUME NEW b \in Buffers, NEW n \in 0 .. Size(b), IsEmpty(Consume(b, n))
  PROVE  Consume(b, n).wr = 0
<1>1. b.rd \in Nat /\ b.wr \in Nat /\ n \in Nat
  BY CapAssumption DEF Buffers, Size
<1>2. CASE b.rd + n >= b.wr
  BY <1>2 DEF Consume
<1>3. CASE ~(b.rd + n >= b.wr)
  <2>1. b \in [mem : [0 .. Cap-1 -> Byte], rd : 0 .. Cap, wr : 0 .. Cap]
    BY DEF Buffers
  <2>2. Consume(b, n).rd = b.rd + n /\ Consume(b, n).wr = b.wr
    BY <1>3, <2>1 DEF Consume
  <2>3. QED BY <1>1, <1>3, <2>2 DEF IsEmpty, Size
<1>4. QED BY <1>2, <1>3

(* What both blocks of the inner loop preserve when they consume. *)
LEMMA TakePreserves ==
  ASSUME TypeOK, Conservation, NEW c \in Caller, NEW r, Take(c, r),
         r.n \in 0 .. Size(readBuffer_), r.msg \in Msg, UNCHANGED sockVars
  PROVE  /\ readBuffer_' \in Buffers
         /\ taken' \in Seq(Byte)
         /\ msg' \in [Caller -> Msg]
         /\ Conservation'
         /\ ResetWhenEmpty'
<1> DEFINE b == readBuffer_
           p == SubSeq(ReadableSpan(b), 1, r.n)
<1>1. b \in Buffers /\ taken \in Seq(Byte) /\ inbox \in Seq(Byte) /\ msg \in [Caller -> Msg]
  BY DEF TypeOK
<1>2. readBuffer_' = Consume(b, r.n) /\ taken' = taken \o p /\ inbox' = inbox /\ sent' = sent
  BY DEF Take, sockVars
<1>3. Consume(b, r.n) \in Buffers
  BY <1>1, ConsumeDrops
<1>4. taken \o p \in Seq(Byte) /\ (taken \o p) \o ReadableSpan(Consume(b, r.n)) = taken \o ReadableSpan(b)
  BY <1>1, ConsumeMovesBytes
<1>5. Conservation'
  BY <1>2, <1>4 DEF Conservation
<1>6. ResetWhenEmpty'
  BY <1>1, <1>2, ConsumeResets DEF ResetWhenEmpty
<1>7. msg' \in [Caller -> Msg]
  BY <1>1 DEF Take
<1>8. QED BY <1>2, <1>3, <1>4, <1>5, <1>6, <1>7

(* The initial state satisfies the invariant. *)
LEMMA InitIInv == Init => IInv
<1> SUFFICES ASSUME Init PROVE IInv
  OBVIOUS
<1>1. NewBuffer \in Buffers /\ ReadableSpan(NewBuffer) = <<>> /\ NewBuffer.wr = 0
  BY NewBufferEmpty DEF NewBuffer
<1>2. <<>> \in Seq(Byte) /\ <<>> \in Seq(Msg) /\ (<<>> \o <<>>) \o <<>> = <<>>
  BY EmptySeq, ConcatEmptySeq
<1>3. TypeOK
  BY <1>1, <1>2, NewMsgAssumption DEF Init, TypeOK
<1>4. Conservation
  BY <1>1, <1>2 DEF Init, Conservation
<1>5. OneReader /\ StateFollowsReader /\ ResetWhenEmpty /\ AwaitsWhenEmpty
  BY <1>1 DEF Init, OneReader, StateFollowsReader, ResetWhenEmpty, AwaitsWhenEmpty, Inside
<1>6. QED BY <1>3, <1>4, <1>5 DEF IInv

(* What the steps of a coroutine inside read have in common: at most the     *)
(* caller itself moves, so nobody else comes in.                            *)
LEMMA OneStaysIn ==
  ASSUME TypeOK, OneReader, NEW c \in Caller, Inside(c),
         \A d \in Caller \ {c} : pc'[d] = pc[d]
  PROVE  OneReader' /\ \A d \in Caller \ {c} : ~Inside(d) /\ ~Inside(d)'
BY DEF OneReader, Inside

(* Every step keeps the invariant. *)
LEMMA NextIInv == IInv /\ [Next]_vars => IInv'
<1> SUFFICES ASSUME IInv, [Next]_vars PROVE IInv'
  OBVIOUS
<1> USE DEF IInv
<1>t. /\ readBuffer_ \in Buffers /\ inbox \in Seq(Byte) /\ taken \in Seq(Byte)
      /\ pc \in [Caller -> {"idle", "loop", "body", "await"}]
      /\ delivered \in Seq(Msg) /\ msg \in [Caller -> Msg]
  BY DEF TypeOK
<1>1. ASSUME NEW c \in Caller, NEW m \in NewMsg, Call(c, m) PROVE IInv'
  <2> USE <1>1 DEF Call
  <2>1. m \in Msg /\ UNCHANGED <<readBuffer_, taken, delivered, inbox, stream, sent>>
    BY NewMsgAssumption DEF sockVars
  <2>2. Conservation' /\ ResetWhenEmpty'
    BY <2>1 DEF Conservation, ResetWhenEmpty
  <2>3. CASE readState_ = "START"
    <3>1. readState_' = "READ_HEADER" /\ pc' = [pc EXCEPT ![c] = "loop"] /\ ret' = [ret EXCEPT ![c] = "none"]
      BY <2>3 DEF Admits
    <3>2. \A d \in Caller : ~Inside(d)
      BY <2>3 DEF StateFollowsReader
    <3>3. TypeOK'
      BY <2>1, <3>1 DEF TypeOK
    <3>4. OneReader' /\ StateFollowsReader' /\ AwaitsWhenEmpty'
      BY <1>t, <3>1, <3>2 DEF OneReader, StateFollowsReader, AwaitsWhenEmpty, Inside
    <3>5. QED BY <2>2, <3>3, <3>4
  <2>4. CASE readState_ # "START"
    <3>1. readState_' = readState_ /\ pc' = [pc EXCEPT ![c] = "idle"] /\ ret' = [ret EXCEPT ![c] = "INVALID_STATE"]
      BY <2>4 DEF Return, Admits
    <3>2. pc' = pc
      BY <1>t, <3>1 DEF Inside
    <3>3. TypeOK'
      BY <2>1, <3>1, <3>2 DEF TypeOK
    <3>4. OneReader' /\ StateFollowsReader' /\ AwaitsWhenEmpty'
      BY <2>1, <3>1, <3>2 DEF OneReader, StateFollowsReader, AwaitsWhenEmpty, Inside
    <3>5. QED BY <2>2, <3>3, <3>4
  <2>5. QED BY <2>3, <2>4
<1>2. ASSUME NEW c \in Caller, Suspend(c) PROVE IInv'
  <2> USE <1>2 DEF Suspend, NeedsBytes
  <2>1. UNCHANGED <<readState_, readBuffer_, msg, ret, taken, delivered, inbox, stream, sent>>
    BY DEF sockVars
  <2>2. Inside(c) /\ \A d \in Caller \ {c} : pc'[d] = pc[d]
    BY <1>t DEF Inside
  <2>3. TypeOK'
    BY <2>1 DEF TypeOK
  <2>4. OneReader' /\ StateFollowsReader' /\ AwaitsWhenEmpty'
    BY <1>t, <2>1, <2>2, OneStaysIn DEF StateFollowsReader, AwaitsWhenEmpty, Inside
  <2>5. Conservation' /\ ResetWhenEmpty'
    BY <2>1 DEF Conservation, ResetWhenEmpty
  <2>6. QED BY <2>3, <2>4, <2>5
<1>3. ASSUME NEW c \in Caller, NEW n \in 1 .. Cap, Receive(c, n) PROVE IInv'
  <2> USE <1>3 DEF Receive, Received
  <2> DEFINE h == SubSeq(inbox, 1, n)
             e == SubSeq(inbox, n + 1, Len(inbox))
             b == Commit(Filled(readBuffer_, h), n)
  <2>1. /\ b \in Buffers
        /\ ReadableSpan(b) = ReadableSpan(readBuffer_) \o h
        /\ e \in Seq(Byte) /\ h \o e = inbox /\ h \in Seq(Byte) /\ Len(h) = n
    BY <1>t, FetchMovesBytes
  <2>2. readBuffer_' = b /\ inbox' = e /\ UNCHANGED <<readState_, msg, ret, taken, delivered, stream, sent>>
    OBVIOUS
  <2> HIDE DEF h, e, b
  <2>3. Inside(c) /\ \A d \in Caller \ {c} : pc'[d] = pc[d]
    BY <1>t DEF Inside
  <2>4. pc' \in [Caller -> {"idle", "loop", "body", "await"}] /\ pc'[c] = "loop"
    BY <1>t
  <2>5. TypeOK'
    BY <2>1, <2>2, <2>4 DEF TypeOK
  <2>6. ReadableSpan(readBuffer_) = <<>>
    BY <1>t, EmptySpan DEF AwaitsWhenEmpty
  <2>7. Conservation'
    <3>1. taken \o ReadableSpan(readBuffer_) = taken /\ sent = taken \o inbox
      BY <1>t, <2>6, ConcatEmptySeq DEF Conservation
    <3>2. ReadableSpan(readBuffer_') = h
      BY <2>1, <2>2, <2>6, ConcatEmptySeq
    <3>3. taken \in Seq(Byte) /\ h \in Seq(Byte) /\ e \in Seq(Byte)
      BY <1>t, <2>1
    <3>a. (taken \o h) \o e = taken \o (h \o e)
      BY <3>3, BytesGrouped
    <3>4. (taken \o h) \o e = taken \o inbox
      BY <2>1, <3>a
    <3>5. sent' = sent /\ taken' = taken /\ inbox' = e
      BY <2>2
    <3>6. QED BY <3>1, <3>2, <3>4, <3>5 DEF Conservation
  <2>8. ReadableSpan(readBuffer_)' # <<>>
    BY <2>1, <2>2, <2>6, ConcatEmptySeq, LenProperties
  <2>9. ~IsEmpty(readBuffer_)'
    BY <2>1, <2>2, <2>8, EmptySpan
  <2>10. OneReader' /\ StateFollowsReader' /\ AwaitsWhenEmpty' /\ ResetWhenEmpty'
    BY <1>t, <2>2, <2>3, <2>4, <2>9, OneStaysIn DEF StateFollowsReader, AwaitsWhenEmpty, ResetWhenEmpty, Inside
  <2>11. QED BY <2>5, <2>7, <2>10
<1>4. ASSUME NEW c \in Caller, ReadFails(c) PROVE IInv'
  <2> USE <1>4 DEF ReadFails, Return
  <2>1. /\ UNCHANGED <<readState_, readBuffer_, msg, taken, delivered, inbox, stream, sent>>
        /\ pc' = [pc EXCEPT ![c] = "idle"] /\ ret' = [ret EXCEPT ![c] = "CONNECTION_ENDED"]
    BY DEF sockVars
  <2>2. TypeOK'
    BY <2>1 DEF TypeOK
  <2>3. Inside(c) /\ \A d \in Caller \ {c} : pc'[d] = pc[d]
    BY <1>t DEF Inside
  <2>4. OneReader' /\ StateFollowsReader' /\ AwaitsWhenEmpty'
    BY <1>t, <2>1, <2>3, OneStaysIn DEF StateFollowsReader, AwaitsWhenEmpty, Inside
  <2>5. Conservation' /\ ResetWhenEmpty'
    BY <2>1 DEF Conservation, ResetWhenEmpty
  <2>6. QED BY <2>2, <2>4, <2>5
<1>5. ASSUME NEW c \in Caller, HeaderStep(c) PROVE IInv'
  <2> DEFINE r == ConsumeHeaderSome(msg[c], ReadableSpan(readBuffer_))
  <2>1. /\ pc[c] = "loop" /\ readState_ = "READ_HEADER" /\ Take(c, r)
        /\ readState_' = IF r.done THEN "READ_BODY" ELSE "READ_HEADER"
        /\ pc' = [pc EXCEPT ![c] = IF r.done THEN "body" ELSE "loop"]
        /\ UNCHANGED <<ret, delivered, inbox, stream, sent>> /\ UNCHANGED sockVars
    BY <1>5 DEF HeaderStep, HeaderDone, sockVars
  <2>2. r.n \in 0 .. Size(readBuffer_) /\ r.msg \in Msg
    BY <1>t, ConsumeOutcome
  <2> HIDE DEF r
  <2>3. /\ readBuffer_' \in Buffers /\ taken' \in Seq(Byte) /\ msg' \in [Caller -> Msg]
        /\ Conservation' /\ ResetWhenEmpty'
    BY <2>1, <2>2, TakePreserves
  <2>4. TypeOK'
    BY <1>t, <2>1, <2>3 DEF TypeOK
  <2>5. Inside(c) /\ \A d \in Caller \ {c} : pc'[d] = pc[d]
    BY <1>t, <2>1 DEF Inside
  <2>6. OneReader' /\ \A d \in Caller \ {c} : pc'[d] = "idle"
    BY <2>5, OneStaysIn DEF Inside
  <2>7. pc'[c] \in {"body", "loop"} /\ (pc'[c] = "body" => readState_' = "READ_BODY")
    BY <1>t, <2>1
  <2>8. StateFollowsReader' /\ AwaitsWhenEmpty'
    BY <2>1, <2>6, <2>7 DEF StateFollowsReader, AwaitsWhenEmpty, Inside
  <2>9. QED BY <2>3, <2>4, <2>6, <2>8
<1>6. ASSUME NEW c \in Caller, BodyStep(c) PROVE IInv'
  <2> DEFINE r == ConsumeBodySome(msg[c], ReadableSpan(readBuffer_))
  <2>1. /\ pc[c] \in {"loop", "body"} /\ readState_ = "READ_BODY" /\ Take(c, r)
        /\ UNCHANGED <<inbox, stream, sent>> /\ UNCHANGED sockVars
        /\ \/ /\ readState_' = "START" /\ pc' = [pc EXCEPT ![c] = "idle"]
              /\ ret' = [ret EXCEPT ![c] = "OK"] /\ delivered' = Append(delivered, r.msg)
           \/ /\ readState_' = "READ_BODY" /\ pc' = [pc EXCEPT ![c] = "loop"]
              /\ ret' = ret /\ delivered' = delivered
    BY <1>6 DEF BodyStep, AtBody, Return, sockVars
  <2>2. r.n \in 0 .. Size(readBuffer_) /\ r.msg \in Msg
    BY <1>t, ConsumeOutcome
  <2> HIDE DEF r
  <2>3. /\ readBuffer_' \in Buffers /\ taken' \in Seq(Byte) /\ msg' \in [Caller -> Msg]
        /\ Conservation' /\ ResetWhenEmpty'
    BY <2>1, <2>2, TakePreserves
  <2>4. Append(delivered, r.msg) \in Seq(Msg)
    BY <1>t, <2>2, AppendProperties
  <2>5. TypeOK'
    BY <1>t, <2>1, <2>3, <2>4 DEF TypeOK
  <2>6. Inside(c) /\ \A d \in Caller \ {c} : pc'[d] = pc[d]
    BY <1>t, <2>1 DEF Inside
  <2>7. OneReader' /\ \A d \in Caller \ {c} : pc'[d] = "idle"
    BY <2>6, OneStaysIn DEF Inside
  <2>8. pc'[c] \in {"idle", "loop"} /\ (readState_' = "START" => pc'[c] = "idle")
    BY <1>t, <2>1
  <2>9. StateFollowsReader' /\ AwaitsWhenEmpty'
    BY <2>7, <2>8 DEF StateFollowsReader, AwaitsWhenEmpty, Inside
  <2>10. QED BY <2>3, <2>5, <2>7, <2>9
<1>7. ASSUME NEW c \in Caller, MessageFails(c) PROVE IInv'
  <2>1. PICK r : /\ r \in {ConsumeHeaderSome(msg[c], ReadableSpan(readBuffer_)),
                           ConsumeBodySome(msg[c], ReadableSpan(readBuffer_))}
                 /\ pc[c] \in {"loop", "body"} /\ readState_ \in {"READ_HEADER", "READ_BODY"}
                 /\ msg' = [msg EXCEPT ![c] = r.msg]
    BY <1>7 DEF MessageFails, AtBody
  <2>2. /\ UNCHANGED <<readState_, readBuffer_, taken, delivered, inbox, stream, sent>>
        /\ pc' = [pc EXCEPT ![c] = "idle"] /\ ret' = [ret EXCEPT ![c] = "INVALID_MESSAGE"]
    BY <1>7 DEF MessageFails, Return, sockVars
  <2>3. r.msg \in Msg
    BY <1>t, <2>1, ConsumeOutcome
  <2>4. TypeOK'
    BY <2>1, <2>2, <2>3 DEF TypeOK
  <2>5. Inside(c) /\ \A d \in Caller \ {c} : pc'[d] = pc[d]
    BY <1>t, <2>1, <2>2 DEF Inside
  <2>6. OneReader' /\ StateFollowsReader' /\ AwaitsWhenEmpty'
    BY <1>t, <2>1, <2>2, <2>5, OneStaysIn DEF StateFollowsReader, AwaitsWhenEmpty, Inside
  <2>7. Conservation' /\ ResetWhenEmpty'
    BY <2>2 DEF Conservation, ResetWhenEmpty
  <2>8. QED BY <2>4, <2>6, <2>7
<1>8. ASSUME NEW s \in Chunk, Arrive(s) PROVE IInv'
  <2> USE <1>8 DEF Arrive
  <2>1. s \in Seq(Byte)
    BY CapAssumption, SeqDef DEF Chunk
  <2>2. /\ UNCHANGED <<readState_, readBuffer_, pc, msg, ret, taken, delivered, stream>>
        /\ inbox' = inbox \o s /\ sent' = sent \o s
    BY DEF readVars, callVars
  <2>3. inbox' \in Seq(Byte) /\ sent' \in Seq(Byte)
    BY <1>t, <2>1, <2>2, ConcatProperties DEF TypeOK
  <2>4. TypeOK'
    BY <2>2, <2>3 DEF TypeOK
  <2>5. Conservation'
    <3> DEFINE h == ReadableSpan(readBuffer_)
    <3>1. h \in Seq(Byte)
      BY <1>t, SpanType
    <3> HIDE DEF h
    <3>2. taken \o h \in Seq(Byte)
      BY <1>t, <3>1, ConcatProperties
    <3>3. ((taken \o h) \o inbox) \o s = (taken \o h) \o (inbox \o s)
      BY <1>t, <2>1, <3>2, ConcatAssociative, SMTT(30)
    <3>4. QED BY <2>2, <3>3 DEF Conservation, h
  <2>6. OneReader' /\ StateFollowsReader' /\ AwaitsWhenEmpty' /\ ResetWhenEmpty'
    BY <2>2 DEF OneReader, StateFollowsReader, AwaitsWhenEmpty, ResetWhenEmpty, Inside
  <2>7. QED BY <2>4, <2>5, <2>6
<1>9. ASSUME PeerEnds PROVE IInv'
  <2>1. /\ UNCHANGED <<readState_, readBuffer_, pc, msg, ret, taken, delivered, inbox, sent>>
        /\ stream' \in {"fin", "reset"}
    BY <1>9 DEF PeerEnds, readVars, callVars
  <2>2. QED BY <2>1 DEF TypeOK, Conservation, OneReader, StateFollowsReader,
                        AwaitsWhenEmpty, ResetWhenEmpty, Inside
<1>10. CASE UNCHANGED vars
  BY <1>10 DEF vars, readVars, callVars, sockVars, TypeOK, Conservation, OneReader,
               StateFollowsReader, AwaitsWhenEmpty, ResetWhenEmpty, Inside
<1>11. QED
  BY <1>1, <1>2, <1>3, <1>4, <1>5, <1>6, <1>7, <1>8, <1>9, <1>10
     DEF Next, Reading, Resumed, Completes

(* The invariant holds throughout. *)
THEOREM Invariance == Spec => []IInv
<1>1. Init => IInv
  BY InitIInv
<1>2. IInv /\ [Next]_vars => IInv'
  BY NextIInv
<1>3. QED BY <1>1, <1>2, PTL DEF Spec

(* Whatever arrives, however it is cut into segments, and whoever calls read: *)
(* every byte of the stream is with the messages, in readBuffer_ or in the    *)
(* socket, once and in order.                                               *)
THEOREM ReadConservesTheStream == Spec => []Conservation
<1>1. IInv => Conservation
  BY DEF IInv
<1>2. QED BY Invariance, <1>1, PTL

(* The readState_ guard admits one reader at a time. *)
THEOREM ReadIsExclusive == Spec => []OneReader
<1>1. IInv => OneReader
  BY DEF IInv
<1>2. QED BY Invariance, <1>1, PTL

(* A suspended read always offers the socket its whole buffer, so a           *)
(* completion with 0 bytes cannot mean anything but the end of the stream.    *)
THEOREM SocketGetsTheWholeBuffer == Spec => []WholeBufferOffered
<1>1. IInv => WholeBufferOffered
  <2> SUFFICES ASSUME IInv, NEW c \in Caller, pc[c] = "await"
               PROVE  Room(readBuffer_) = Cap
    BY DEF WholeBufferOffered
  <2>1. readBuffer_.wr = 0
    BY DEF IInv, AwaitsWhenEmpty, ResetWhenEmpty
  <2>2. QED BY <2>1, CapAssumption DEF Room
<1>2. QED BY Invariance, <1>1, PTL

(* A read that failed leaves the connection unusable for good. *)
THEOREM FailedReadIsFinal == Spec => FailureIsFinal
<1> DEFINE Stuck == Failed => Failed' /\ UNCHANGED <<readState_, readBuffer_, taken, delivered>>
<1>1. IInv /\ [Next]_vars => [Stuck]_vars
  <2> SUFFICES ASSUME IInv, Next, Failed
               PROVE  Failed' /\ UNCHANGED <<readState_, readBuffer_, taken, delivered>>
    OBVIOUS
  <2>t. pc \in [Caller -> {"idle", "loop", "body", "await"}]
    BY DEF IInv, TypeOK
  <2>1. ASSUME NEW c \in Caller, Resumed(c) \/ Completes(c) PROVE FALSE
    <3>1. pc[c] \in {"loop", "body", "await"}
      BY <2>1 DEF Resumed, Completes, Suspend, HeaderStep, BodyStep, AtBody,
                  MessageFails, Receive, ReadFails
    <3>2. QED BY <3>1 DEF Failed, Inside
  <2>2. ASSUME NEW c \in Caller, NEW m \in NewMsg, Call(c, m)
        PROVE  Failed' /\ UNCHANGED <<readState_, readBuffer_, taken, delivered>>
    <3>1. /\ UNCHANGED <<readState_, readBuffer_, taken, delivered>>
          /\ pc' = [pc EXCEPT ![c] = "idle"]
      BY <2>2 DEF Call, Admits, Failed, Return
    <3>2. QED BY <2>t, <3>1 DEF Failed, Inside
  <2>3. ASSUME PeerEnds \/ \E s \in Chunk : Arrive(s)
        PROVE  Failed' /\ UNCHANGED <<readState_, readBuffer_, taken, delivered>>
    BY <2>3 DEF PeerEnds, Arrive, readVars, callVars, Failed, Inside
  <2>4. QED BY <2>1, <2>2, <2>3 DEF Next, Reading
<1>2. QED BY Invariance, <1>1, PTL DEF Spec, FailureIsFinal

-------------------------------------------------------------------------------
(* What Take does to the abstract state: it hands over r.n bytes, or, when r.n *)
(* is 0, nothing.                                                           *)
LEMMA TakeHandsOver ==
  ASSUME IInv, NEW c \in Caller, NEW r, Take(c, r),
         r.n \in 0 .. Size(readBuffer_), UNCHANGED inbox
  PROVE  [Intake!Next]_(Intake!intakeVars)
<1> DEFINE h == ReadableSpan(readBuffer_)
<1>1. readBuffer_ \in Buffers /\ taken \in Seq(Byte)
  BY DEF IInv, TypeOK
<1>2. h \in Seq(Byte) /\ Len(h) = Size(readBuffer_) /\ Size(readBuffer_) \in Nat
  BY <1>1, SpanType
<1>3. ReadableSpan(readBuffer_') = SubSeq(h, r.n + 1, Len(h))
  BY <1>1, ConsumeDrops DEF Take
<1>4. taken' = taken \o SubSeq(h, 1, r.n)
  BY DEF Take
<1>5. CASE r.n = 0
  <2> HIDE DEF h
  <2>1. SubSeq(h, 1, 0) = <<>>
    BY <1>2, SubSeqEmpty
  <2>2. SubSeq(h, 1, Len(h)) = h
    BY <1>2, SubSeqFull
  <2>3. taken' = taken
    BY <1>1, <1>4, <1>5, <2>1, ConcatEmptySeq
  <2>4. ReadableSpan(readBuffer_') = h
    BY <1>3, <1>5, <2>2
  <2>5. QED BY <2>3, <2>4 DEF Intake!intakeVars, h
<1>6. CASE r.n # 0
  <2>1. r.n \in 1 .. Len(h)
    BY <1>2, <1>6
  <2> HIDE DEF h
  <2>2. QED BY <1>3, <1>4, <2>1 DEF Intake!Next, Intake!HandOver, h
<1>7. QED BY <1>5, <1>6

(* Connection::read implements ByteIntake: it fetches only into an empty     *)
(* buffer and passes every byte on once, in order, whatever the segments.    *)
THEOREM ReadImplementsIntake == Spec => IntakeSpec
<1>1. Init => Intake!Init
  BY NewBufferEmpty DEF Init, Intake!Init
<1>2. IInv /\ [Next]_vars => [Intake!Next]_(Intake!intakeVars)
  <2> SUFFICES ASSUME IInv, [Next]_vars PROVE [Intake!Next]_(Intake!intakeVars)
    OBVIOUS
  <2>t. readBuffer_ \in Buffers /\ inbox \in Seq(Byte) /\ msg \in [Caller -> Msg]
    BY DEF IInv, TypeOK
  <2>1. ASSUME NEW c \in Caller, NEW n \in 1 .. Cap, Receive(c, n)
        PROVE  Intake!Fetch
    <3> DEFINE h == SubSeq(inbox, 1, n)
    <3>1. /\ ReadableSpan(Commit(Filled(readBuffer_, h), n)) = ReadableSpan(readBuffer_) \o h
          /\ h \in Seq(Byte)
      BY <2>1, <2>t, FetchMovesBytes DEF Receive
    <3>2. ReadableSpan(readBuffer_) = <<>>
      BY <2>1, <2>t, EmptySpan DEF Receive, IInv, AwaitsWhenEmpty
    <3>3. /\ readBuffer_' = Commit(Filled(readBuffer_, h), n)
          /\ inbox' = SubSeq(inbox, n + 1, Len(inbox))
          /\ taken' = taken /\ n \in 1 .. Len(inbox)
      BY <2>1 DEF Receive, Received
    <3> HIDE DEF h
    <3>4. ReadableSpan(readBuffer_') = h
      BY <3>1, <3>2, <3>3, ConcatEmptySeq
    <3>5. QED BY <3>2, <3>3, <3>4 DEF Intake!Fetch, h
  <2>2. ASSUME NEW c \in Caller, HeaderStep(c) PROVE [Intake!Next]_(Intake!intakeVars)
    <3> DEFINE r == ConsumeHeaderSome(msg[c], ReadableSpan(readBuffer_))
    <3>1. Take(c, r) /\ UNCHANGED inbox
      BY <2>2 DEF HeaderStep, sockVars
    <3>2. r.n \in 0 .. Size(readBuffer_)
      BY <2>t, ConsumeOutcome
    <3> HIDE DEF r
    <3>3. QED BY <3>1, <3>2, TakeHandsOver
  <2>3. ASSUME NEW c \in Caller, BodyStep(c) PROVE [Intake!Next]_(Intake!intakeVars)
    <3> DEFINE r == ConsumeBodySome(msg[c], ReadableSpan(readBuffer_))
    <3>1. Take(c, r) /\ UNCHANGED inbox
      BY <2>3 DEF BodyStep, sockVars
    <3>2. r.n \in 0 .. Size(readBuffer_)
      BY <2>t, ConsumeOutcome
    <3> HIDE DEF r
    <3>3. QED BY <3>1, <3>2, TakeHandsOver
  <2>4. ASSUME NEW s \in Chunk, Arrive(s) PROVE Intake!Arrive
    <3>1. s \in Seq(Byte) /\ Len(s) \in Nat
      BY CapAssumption, SeqDef, LenProperties DEF Chunk
    <3>2. /\ UNCHANGED <<readBuffer_, taken>> /\ inbox' = inbox \o s
      BY <2>4 DEF Arrive, readVars
    <3>3. Len(inbox \o s) = Len(inbox) + Len(s) /\ Len(inbox) \in Nat
      BY <2>t, <3>1, ConcatProperties, LenProperties
    <3>4. SubSeq(inbox \o s, 1, Len(inbox)) = inbox
      <4>1. CASE Len(inbox) = 0
        BY <2>t, <4>1, EmptySeq, SubSeqEmpty
      <4>2. CASE Len(inbox) # 0
        <5>1. 1 \in 1 .. Len(inbox) /\ Len(inbox) \in 1 .. Len(inbox)
          BY <3>3, <4>2
        <5>2. SubSeq(inbox \o s, 1, Len(inbox)) = SubSeq(inbox, 1, Len(inbox))
          BY <2>t, <3>1, <5>1, SubSeqOfConcat1
        <5>3. QED BY <2>t, <5>2, SubSeqFull
      <4>3. QED BY <4>1, <4>2
    <3>5. QED BY <3>1, <3>2, <3>3, <3>4 DEF Intake!Arrive
  <2>5. ASSUME NEW c \in Caller,
               \/ \E m \in NewMsg : Call(c, m)
               \/ Suspend(c) \/ MessageFails(c) \/ ReadFails(c)
        PROVE  UNCHANGED <<readBuffer_, inbox, taken>>
    BY <2>5 DEF Call, Suspend, MessageFails, ReadFails, sockVars
  <2>6. ASSUME PeerEnds \/ UNCHANGED vars PROVE UNCHANGED <<readBuffer_, inbox, taken>>
    BY <2>6 DEF PeerEnds, vars, readVars, sockVars
  <2>7. UNCHANGED <<readBuffer_, inbox, taken>> => UNCHANGED (Intake!intakeVars)
    BY DEF Intake!intakeVars
  <2>8. QED BY <2>1, <2>2, <2>3, <2>4, <2>5, <2>6, <2>7
            DEF Next, Reading, Resumed, Completes, Intake!Next
<1>3. QED BY Invariance, <1>1, <1>2, PTL DEF Spec, IntakeSpec, Intake!Spec

-------------------------------------------------------------------------------
(* Framing, for every message type that satisfies FramingContract.          *)

(* One more completed message puts its bytes behind the frames.             *)
LEMMA OneMoreFrame ==
  ASSUME NEW q \in Seq(Msg), NEW m \in Msg
  PROVE  LET all(d) == [i \in 1 .. Len(d) |-> Raw(d[i])] IN
         /\ FlattenSeq(all(q)) \in Seq(Byte)
         /\ FlattenSeq(all(Append(q, m))) = FlattenSeq(all(q)) \o Raw(m)
<1> DEFINE all(d) == [i \in 1 .. Len(d) |-> Raw(d[i])]
           p == Append(q, m)
<1>1. /\ Len(q) \in Nat /\ \A i \in 1 .. Len(q) : q[i] \in Msg
      /\ p \in Seq(Msg) /\ Len(p) = Len(q) + 1 /\ p[Len(q) + 1] = m
      /\ \A i \in 1 .. Len(q) : p[i] = q[i]
  OBVIOUS
<1>2. \A x \in Msg : Raw(x) \in Seq(Byte)  BY FramingContract
<1> HIDE DEF p
<1>3. all(q) \in Seq(Seq(Byte)) /\ Len(all(q)) = Len(q)  BY <1>1, <1>2
<1>4. all(p) = Append(all(q), Raw(m))
  <2>1. all(p) = [i \in 1 .. Len(q) + 1 |-> IF i = Len(q) + 1 THEN Raw(m) ELSE Raw(q[i])]
    BY <1>1
  <2>2. Append(all(q), Raw(m))
          = [i \in 1 .. Len(q) + 1 |-> IF i = Len(q) + 1 THEN Raw(m) ELSE all(q)[i]]
    BY <1>3
  <2>3. \A i \in 1 .. Len(q) : all(q)[i] = Raw(q[i])  OBVIOUS
  <2>4. \A i \in 1 .. Len(q) + 1 : i # Len(q) + 1 => i \in 1 .. Len(q)  BY <1>1
  <2> HIDE DEF all
  <2> QED  BY <2>1, <2>2, <2>3, <2>4
<1> HIDE DEF all
<1>5. /\ FlattenSeq(all(q)) \in Seq(Byte)
      /\ FlattenSeq(Append(all(q), Raw(m))) = FlattenSeq(all(q)) \o Raw(m)
  BY <1>2, <1>3, FlattenType, FlattenAppend
<1> QED  BY <1>4, <1>5 DEF all, p

LEMMA FramesType ==
  ASSUME TypeOK
  PROVE  /\ Frames \in Seq(Byte)
         /\ \A m \in Msg : delivered' = Append(delivered, m) => Frames' = Frames \o Raw(m)
         /\ delivered' = delivered => Frames' = Frames
<1>1. delivered \in Seq(Msg)  BY DEF TypeOK
<1>2. Frames \in Seq(Byte)
  <2>1. CASE Msg = {}
    <3>1. delivered = <<>>  BY <1>1, <2>1
    <3>2. [i \in 1 .. Len(delivered) |-> Raw(delivered[i])] = <<>>  BY <3>1
    <3>3. <<>> \in Seq(Seq(Byte))  OBVIOUS
    <3> QED  BY <3>2, <3>3, FlattenType DEF Frames
  <2>2. CASE Msg # {}  BY <1>1, <2>2, OneMoreFrame DEF Frames
  <2> QED  BY <2>1, <2>2
<1>3. ASSUME NEW m \in Msg, delivered' = Append(delivered, m)
      PROVE  Frames' = Frames \o Raw(m)
  <2>1. Frames' = FlattenSeq([i \in 1 .. Len(Append(delivered, m)) |->
                                Raw(Append(delivered, m)[i])])
    BY <1>3 DEF Frames
  <2> QED  BY <1>1, <2>1, OneMoreFrame DEF Frames
<1> QED  BY <1>2, <1>3 DEF Frames

(* What a consume call that reports no error did to the bytes taken and to    *)
(* the message.                                                             *)
LEMMA TakeFrames ==
  ASSUME IInv, FramesTileTheStream, NEW c \in Caller, Inside(c), NEW r, Take(c, r),
         r.msg \in Msg, Raw(r.msg) = Raw(msg[c]) \o SubSeq(ReadableSpan(readBuffer_), 1, r.n),
         r.n \in 0 .. Size(readBuffer_)
  PROVE  taken' = Frames \o Raw(r.msg) /\ msg'[c] = r.msg
<1> DEFINE h == ReadableSpan(readBuffer_)
           p == SubSeq(h, 1, r.n)
<1>1. readBuffer_ \in Buffers /\ msg \in [Caller -> Msg] /\ TypeOK
  BY DEF IInv, TypeOK
<1>2. h \in Seq(Byte) /\ Len(h) = Size(readBuffer_)  BY <1>1, SpanType
<1>3. p \in Seq(Byte)
  <2> HIDE DEF h
  <2>1. \A i \in 1 .. r.n : i \in 1 .. Len(h)  BY <1>2
  <2> QED  BY <1>2, <2>1
<1>4. Raw(msg[c]) \in Seq(Byte) /\ Frames \in Seq(Byte)
  BY <1>1, FramingContract, FramesType
<1>5. taken = Frames \o Raw(msg[c])  BY DEF FramesTileTheStream
<1>6. taken' = taken \o p /\ Raw(r.msg) = Raw(msg[c]) \o p /\ msg'[c] = r.msg
  BY <1>1 DEF Take
<1> HIDE DEF p
<1>7. (Frames \o Raw(msg[c])) \o p = Frames \o (Raw(msg[c]) \o p)
  <2> DEFINE x == Raw(msg[c])
             y == Frames
  <2>1. x \in Seq(Byte) /\ y \in Seq(Byte) /\ p \in Seq(Byte)  BY <1>3, <1>4
  <2> HIDE DEF x, y
  <2>2. (y \o x) \o p = y \o (x \o p)  BY <2>1, BytesGrouped
  <2> QED  BY <2>2 DEF x, y
<1> QED  BY <1>5, <1>6, <1>7

LEMMA InitFraming == Init => FramesTileTheStream /\ HeadBeforeBody
<1> SUFFICES ASSUME Init  PROVE FramesTileTheStream /\ HeadBeforeBody
  OBVIOUS
<1>1. delivered = <<>> /\ taken = <<>> /\ \A c \in Caller : ~Inside(c)
  BY DEF Init, Inside
<1>2. Frames = <<>>
  <2>1. [i \in 1 .. Len(delivered) |-> Raw(delivered[i])] = <<>>  BY <1>1
  <2>2. FlattenSeq(<<>>) = <<>>  BY DEF FlattenSeq
  <2> QED  BY <2>1, <2>2, Zenon DEF Frames
<1> QED  BY <1>1, <1>2 DEF FramesTileTheStream, HeadBeforeBody

LEMMA NextFraming == FramingInv /\ [Next]_vars => FramesTileTheStream' /\ HeadBeforeBody'
<1> SUFFICES ASSUME FramingInv, [Next]_vars  PROVE FramesTileTheStream' /\ HeadBeforeBody'
  OBVIOUS
<1>i. IInv /\ FramesTileTheStream /\ HeadBeforeBody  BY DEF FramingInv
<1>t. /\ TypeOK /\ readBuffer_ \in Buffers /\ msg \in [Caller -> Msg]
      /\ pc \in [Caller -> {"idle", "loop", "body", "await"}]
      /\ taken \in Seq(Byte) /\ Frames \in Seq(Byte)
  BY <1>i, FramesType DEF IInv, TypeOK
<1>w. \A i \in 1 .. Len(delivered) : Whole(delivered[i])  BY <1>i DEF FramesTileTheStream
<1>1. ASSUME NEW c \in Caller, NEW m \in NewMsg, Call(c, m)
      PROVE  FramesTileTheStream' /\ HeadBeforeBody'
  <2>1. /\ UNCHANGED <<taken, delivered>> /\ msg' = [msg EXCEPT ![c] = m]
        /\ ~Inside(c)
    BY <1>1 DEF Call
  <2>2. Frames' = Frames  BY <1>t, <2>1, FramesType
  <2>3. CASE readState_ = "START"
    <3>1. readState_' = "READ_HEADER" /\ pc' = [pc EXCEPT ![c] = "loop"]
      BY <1>1, <2>3 DEF Call, Admits
    <3>2. \A d \in Caller : Inside(d)' => d = c
      BY <1>i, <1>t, <2>3, <3>1 DEF IInv, StateFollowsReader, Inside
    <3>3. Raw(m) = <<>> /\ ~HeadRead(m) /\ msg'[c] = m  BY <1>t, <2>1, FramingContract
    <3>4. taken = Frames  BY <1>i, <2>3 DEF FramesTileTheStream
    <3>5. Frames \o <<>> = Frames  BY <1>t, ConcatEmptySeq
    <3> QED  BY <1>w, <2>1, <2>2, <3>1, <3>2, <3>3, <3>4, <3>5
             DEF FramesTileTheStream, HeadBeforeBody
  <2>4. CASE readState_ # "START"
    <3>1. readState_' = readState_ /\ pc' = [pc EXCEPT ![c] = "idle"]
      BY <1>1, <2>4 DEF Call, Admits, Return
    <3>2. \A d \in Caller : Inside(d)' => Inside(d) /\ msg'[d] = msg[d]
      BY <1>t, <2>1, <3>1 DEF Inside
    <3> QED  BY <1>i, <2>1, <2>2, <2>4, <3>1, <3>2 DEF FramesTileTheStream, HeadBeforeBody
  <2> QED  BY <2>3, <2>4
<1>2. ASSUME NEW c \in Caller,
             Suspend(c) \/ ReadFails(c) \/ MessageFails(c) \/ \E n \in 1 .. Cap : Receive(c, n)
      PROVE  FramesTileTheStream' /\ HeadBeforeBody'
  <2>1. /\ UNCHANGED <<readState_, taken, delivered>> /\ Inside(c)
        /\ \A d \in Caller \ {c} : pc'[d] = pc[d] /\ msg'[d] = msg[d]
        /\ Inside(c)' => msg'[c] = msg[c]
    BY <1>2, <1>t DEF Suspend, ReadFails, MessageFails, AtBody, Receive, Return, Inside
  <2>2. Frames' = Frames  BY <1>t, <2>1, FramesType
  <2>3. \A d \in Caller : Inside(d)' => Inside(d) /\ msg'[d] = msg[d]
    BY <2>1 DEF Inside
  <2> QED  BY <1>i, <2>1, <2>2, <2>3 DEF FramesTileTheStream, HeadBeforeBody
<1>3. ASSUME NEW c \in Caller, HeaderStep(c)
      PROVE  FramesTileTheStream' /\ HeadBeforeBody'
  <2> DEFINE r == ConsumeHeaderSome(msg[c], ReadableSpan(readBuffer_))
  <2>1. /\ pc[c] = "loop" /\ Take(c, r) /\ ~r.err /\ UNCHANGED delivered
        /\ readState_' = IF r.done THEN "READ_BODY" ELSE "READ_HEADER"
        /\ pc' = [pc EXCEPT ![c] = IF r.done THEN "body" ELSE "loop"]
    BY <1>3 DEF HeaderStep, HeaderDone
  <2>2. r.n \in 0 .. Size(readBuffer_) /\ r.msg \in Msg
    BY <1>t, ConsumeOutcome
  <2>3. /\ Raw(r.msg) = Raw(msg[c]) \o SubSeq(ReadableSpan(readBuffer_), 1, r.n)
        /\ r.done <=> HeadRead(r.msg)
    <3>1. readState_ = "READ_HEADER" /\ Inside(c)  BY <1>3 DEF HeaderStep, Inside
    <3>2. ~HeadRead(msg[c])  BY <1>i, <3>1 DEF HeadBeforeBody
    <3> QED  BY <1>t, <2>1, <3>2, SpanInChunk, FramingContract DEF Takes
  <2> HIDE DEF r
  <2>4. Inside(c) /\ \A d \in Caller : Inside(d)' => d = c
    BY <1>i, <1>t, <2>1 DEF IInv, OneReader, Inside
  <2>5. taken' = Frames \o Raw(r.msg) /\ msg'[c] = r.msg
    BY <1>i, <2>1, <2>2, <2>3, <2>4, TakeFrames
  <2>6. Frames' = Frames  BY <1>t, <2>1, FramesType
  <2> QED  BY <1>w, <2>1, <2>3, <2>4, <2>5, <2>6 DEF FramesTileTheStream, HeadBeforeBody
<1>4. ASSUME NEW c \in Caller, BodyStep(c)
      PROVE  FramesTileTheStream' /\ HeadBeforeBody'
  <2> DEFINE r == ConsumeBodySome(msg[c], ReadableSpan(readBuffer_))
  <2>1. /\ pc[c] \in {"loop", "body"} /\ readState_ = "READ_BODY" /\ Take(c, r) /\ ~r.err
        /\ \/ /\ r.done /\ readState_' = "START" /\ pc' = [pc EXCEPT ![c] = "idle"]
              /\ delivered' = Append(delivered, r.msg)
           \/ /\ readState_' = "READ_BODY" /\ pc' = [pc EXCEPT ![c] = "loop"]
              /\ delivered' = delivered
    BY <1>4 DEF BodyStep, AtBody, Return
  <2>2. r.n \in 0 .. Size(readBuffer_) /\ r.msg \in Msg
    BY <1>t, ConsumeOutcome
  <2>3. Inside(c) /\ HeadRead(msg[c])
    BY <1>i, <2>1 DEF HeadBeforeBody, Inside
  <2>4. /\ Raw(r.msg) = Raw(msg[c]) \o SubSeq(ReadableSpan(readBuffer_), 1, r.n)
        /\ HeadRead(r.msg) /\ (r.done => Whole(r.msg))
    BY <1>t, <2>1, <2>3, SpanInChunk, FramingContract DEF Takes
  <2> HIDE DEF r
  <2>5. \A d \in Caller : Inside(d)' => d = c
    BY <1>i, <1>t, <2>1, <2>3 DEF IInv, OneReader, Inside
  <2>6. taken' = Frames \o Raw(r.msg) /\ msg'[c] = r.msg
    BY <1>i, <2>1, <2>2, <2>3, <2>4, TakeFrames
  <2>7. CASE delivered' = delivered /\ readState_' = "READ_BODY"
    <3>1. Frames' = Frames  BY <1>t, <2>7, FramesType
    <3> QED  BY <1>w, <2>4, <2>5, <2>6, <2>7, <3>1 DEF FramesTileTheStream, HeadBeforeBody
  <2>8. CASE /\ r.done /\ readState_' = "START" /\ pc' = [pc EXCEPT ![c] = "idle"]
             /\ delivered' = Append(delivered, r.msg)
    <3>1. Frames' = Frames \o Raw(r.msg)  BY <1>t, <2>2, <2>8, FramesType
    <3>2. \A d \in Caller : ~Inside(d)'  BY <1>t, <2>5, <2>8 DEF Inside
    <3>3. \A i \in 1 .. Len(delivered)' : Whole(delivered'[i])
      <4>1. delivered \in Seq(Msg)  BY <1>t DEF TypeOK
      <4>2. Whole(r.msg)  BY <2>4, <2>8
      <4>3. \A i \in 1 .. Len(delivered') :
              \/ i \in 1 .. Len(delivered) /\ delivered'[i] = delivered[i]
              \/ delivered'[i] = r.msg
        BY <2>2, <2>8, <4>1
      <4> QED  BY <1>w, <4>2, <4>3
    <3> QED  BY <2>6, <2>8, <3>1, <3>2, <3>3 DEF FramesTileTheStream, HeadBeforeBody
  <2> QED  BY <2>1, <2>7, <2>8
<1>5. ASSUME PeerEnds \/ (\E s \in Chunk : Arrive(s)) \/ UNCHANGED vars
      PROVE  FramesTileTheStream' /\ HeadBeforeBody'
  <2>1. UNCHANGED <<readState_, pc, msg, taken, delivered>>
    BY <1>5 DEF PeerEnds, Arrive, vars, readVars, callVars
  <2>2. Frames' = Frames  BY <1>t, <2>1, FramesType
  <2> QED  BY <1>i, <2>1, <2>2 DEF FramesTileTheStream, HeadBeforeBody, Inside
<1> QED  BY <1>1, <1>2, <1>3, <1>4, <1>5 DEF Next, Reading, Resumed, Completes

(* Whatever type of message read drives, as long as it keeps what it takes    *)
(* and knows where it ends: however the stream is cut and whoever calls, the  *)
(* consumed bytes are the completed messages', back to back, then those of    *)
(* the message being read, and every completed message is one whole frame.    *)
THEOREM ReadFramesTheStream == Spec => []FramesTileTheStream
<1>1. Init => FramingInv
  BY InitIInv, InitFraming DEF FramingInv
<1>2. FramingInv /\ [Next]_vars => FramingInv'
  BY NextIInv, NextFraming DEF FramingInv
<1>3. FramingInv => FramesTileTheStream
  BY DEF FramingInv
<1> QED  BY <1>1, <1>2, <1>3, PTL DEF Spec
===============================================================================
