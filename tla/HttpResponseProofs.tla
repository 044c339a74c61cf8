-------------------------- MODULE HttpResponseProofs --------------------------
(***************************************************************************)
(* Proofs about HttpResponse: whatever buffer a response starts with,        *)
(* whatever is set and however it is written, it stays within its buffers,   *)
(* its head is whole and its body is what the head announces.                *)
(***************************************************************************)
EXTENDS HttpResponse, OperatorProofs

Bytes == STRING \cup {"NUL"}
Cell == [line : Lines, part : Nat]

Response ==
  [cap : Nat, cells : Seq(Cell), idx : Nat, headerSize : Nat, keepAlive : BOOLEAN,
   length : Nat, hasType : BOOLEAN, hasConnection : BOOLEAN, serialized : BOOLEAN,
   string : Seq(Bytes), vector : Seq(Bytes), bodyIdx : Nat, isString : BOOLEAN]

(* The cursor of the head is in what was written, and that is in the buffer.  *)
Fits(r) == r \in Response /\ Len(r.cells) <= r.cap /\ r.idx <= Len(r.cells)

(* The one that is not in use is empty. *)
OneBody(r) == IF r.isString THEN r.vector = <<>> ELSE r.string = <<>>

(* A body that was produced in part has its final length. *)
Settled(r) == r.bodyIdx > 0 => r.length \in {0, Len(TakenFrom(r))}

BodyFits(r) == OneBody(r) /\ Settled(r) /\ r.bodyIdx <= Len(TakenFrom(r))

(* Before the first write the head is open; afterwards it is closed, and the  *)
(* cursor goes from its beginning to its end.                               *)
Open(r) == ~r.serialized /\ r.bodyIdx = 0 /\ r.headerSize = 0
Closed(r) == r.serialized /\ r.idx <= r.headerSize /\ r.headerSize <= Len(r.cells)

IInv ==
  /\ Fits(res) /\ BodyFits(res)
  /\ phase \in {"set", "head", "body", "written"}
  /\ IF phase = "set" THEN Open(res) ELSE Closed(res)

(* What the head says up to its cursor.                                      *)
TextOf(r) == SubSeq(r.cells, 1, r.idx)

(* What writing a line leaves alone. *)
SameBody(r, q) ==
  /\ q.string = r.string /\ q.vector = r.vector /\ q.isString = r.isString
  /\ q.bodyIdx = r.bodyIdx /\ q.serialized = r.serialized
  /\ q.headerSize = r.headerSize

-------------------------------------------------------------------------------
LEMMA FrontOf ==
  ASSUME NEW S, NEW s \in Seq(S), NEW n \in Nat, n <= Len(s)
  PROVE  SubSeq(s, 1, n) \in Seq(S) /\ Len(SubSeq(s, 1, n)) = n
<1>1. \A i \in 1 .. n : s[i] \in S  OBVIOUS
<1> QED  BY <1>1, SubSeqProperties

LEMMA BackOf ==
  ASSUME NEW S, NEW s \in Seq(S), NEW n \in Nat
  PROVE  /\ SubSeq(s, n + 1, Len(s)) \in Seq(S)
         /\ Len(SubSeq(s, n + 1, Len(s))) = IF n <= Len(s) THEN Len(s) - n ELSE 0
<1>1. \A i \in n + 1 .. Len(s) : s[i] \in S  OBVIOUS
<1>2. Len(s) \in Nat /\ n + 1 \in Int  OBVIOUS
<1> QED  BY <1>1, <1>2, SubSeqProperties

LEMMA FirstPart ==
  ASSUME NEW S, NEW s \in Seq(S), NEW t \in Seq(S)
  PROVE  SubSeq(s \o t, 1, Len(s)) = s
<1> DEFINE u == s \o t
           p == SubSeq(u, 1, Len(s))
<1>1. /\ u \in Seq(S) /\ Len(u) = Len(s) + Len(t) /\ Len(s) \in Nat /\ Len(t) \in Nat
      /\ \A i \in 1 .. Len(s) : u[i] = s[i]
  BY ConcatProperties
<1> HIDE DEF u
<1>2. Len(s) <= Len(u)  BY <1>1
<1>3. /\ p \in Seq(S) /\ Len(p) = Len(s) /\ \A i \in 1 .. Len(s) : p[i] = u[i]
  BY <1>1, <1>2, SubSeqProperties
<1> HIDE DEF p
<1>4. p = s  BY <1>1, <1>3, SeqEqual
<1> QED  BY <1>4 DEF p, u

LEMMA NextPiece ==
  ASSUME NEW S, NEW s \in Seq(S), NEW i \in Nat, NEW j \in Nat, i <= j, j <= Len(s)
  PROVE  SubSeq(s, 1, i) \o SubSeq(s, i + 1, j) = SubSeq(s, 1, j)
<1>1. 1 \in 1 .. Len(s) + 1 /\ i \in 1 - 1 .. Len(s) /\ j \in i .. Len(s)
  OBVIOUS
<1> QED  BY <1>1, ConcatAdjacentSubSeq

LEMMA WrittenLine ==
  ASSUME NEW line \in Lines
  PROVE  /\ LineSize(line) \in {1, 2}
         /\ Written(line) \in Seq(Cell) /\ Len(Written(line)) = LineSize(line)
<1>1. LineSize(line) \in {1, 2}  BY DEF LineSize
<1>2. \A k \in 1 .. LineSize(line) : [line |-> line, part |-> k] \in Cell
  BY <1>1 DEF Cell
<1> DEFINE n == LineSize(line)
<1>3. Written(line) = [k \in 1 .. n |-> [line |-> line, part |-> k]]  BY DEF Written
<1>4. n \in Nat  BY <1>1
<1> HIDE DEF n
<1>5. Written(line) \in [1 .. n -> Cell]  BY <1>2, <1>3 DEF n
<1>6. Written(line) \in Seq(Cell) /\ Len(Written(line)) = n  BY <1>4, <1>5
<1> QED  BY <1>1, <1>6 DEF n

(* Afterwards there is room for num cells behind the cursor.                 *)
LEMMA AllocFits ==
  ASSUME NEW r, Fits(r), NEW num \in Nat
  PROVE  /\ Fits(Alloc(r, num)) /\ SameBody(r, Alloc(r, num))
         /\ Alloc(r, num).idx = r.idx /\ Alloc(r, num).length = r.length
         /\ r.idx + num <= Alloc(r, num).cap
<1>1. /\ r \in Response /\ r.cap \in Nat /\ r.idx \in Nat /\ r.cells \in Seq(Cell)
      /\ Len(r.cells) \in Nat /\ Len(r.cells) <= r.cap /\ r.idx <= Len(r.cells)
  BY DEF Fits, Response
<1>2. CASE r.cap <= r.idx + num
  <2> DEFINE m == NewSize(r, num)
             c == SubSeq(r.cells, 1, r.idx)
  <2>1. m \in Nat /\ r.idx + num <= m /\ r.cap <= m
    BY <1>1 DEF NewSize, Bigger
  <2>2. c \in Seq(Cell) /\ Len(c) = r.idx  BY <1>1, FrontOf
  <2>3. Alloc(r, num) = [r EXCEPT !.cap = m, !.cells = c]  BY <1>2 DEF Alloc
  <2> HIDE DEF m, c
  <2>4. [r EXCEPT !.cap = m, !.cells = c] \in Response
    BY <1>1, <2>1, <2>2 DEF Response
  <2>5. /\ Alloc(r, num).cap = m /\ Alloc(r, num).cells = c /\ Alloc(r, num).idx = r.idx
        /\ Alloc(r, num).length = r.length /\ SameBody(r, Alloc(r, num))
    BY <1>1, <2>3 DEF Response, SameBody
  <2> QED  BY <1>1, <2>1, <2>2, <2>3, <2>4, <2>5 DEF Fits
<1>3. CASE ~(r.cap <= r.idx + num)
  <2>1. Alloc(r, num) = r  BY <1>3 DEF Alloc
  <2> QED  BY <1>1, <1>3, <2>1 DEF SameBody
<1> QED  BY <1>2, <1>3

(* A line is written into the buffer, never beyond it. *)
LEMMA PutFits ==
  ASSUME NEW r, Fits(r), NEW line \in Lines
  PROVE  /\ Fits(Put(r, line)) /\ SameBody(r, Put(r, line))
         /\ Put(r, line).length = r.length
<1> DEFINE num == LineSize(line)
           a == Alloc(r, num)
           end == a.idx + num
           front == SubSeq(a.cells, 1, a.idx)
           back == SubSeq(a.cells, end + 1, Len(a.cells))
           c == front \o Written(line) \o back
<1>1. num \in Nat /\ Written(line) \in Seq(Cell) /\ Len(Written(line)) = num
  BY WrittenLine
<1>2. Fits(a) /\ SameBody(r, a) /\ a.idx = r.idx /\ a.length = r.length /\ end <= a.cap
  <2> HIDE DEF num
  <2> QED  BY <1>1, AllocFits
<1>3. Put(r, line) = [a EXCEPT !.cells = c, !.idx = end]  BY DEF Put
<1> HIDE DEF num, a
<1>4. /\ a \in Response /\ a.cells \in Seq(Cell) /\ a.idx \in Nat /\ a.cap \in Nat
      /\ a.idx <= Len(a.cells) /\ Len(a.cells) <= a.cap /\ Len(a.cells) \in Nat
  BY <1>2 DEF Fits, Response
<1>5. end \in Nat  BY <1>1, <1>4
<1>6. front \in Seq(Cell) /\ Len(front) = a.idx  BY <1>4, FrontOf
<1>7. /\ back \in Seq(Cell)
      /\ Len(back) = IF end <= Len(a.cells) THEN Len(a.cells) - end ELSE 0
  <2> HIDE DEF end
  <2> QED  BY <1>4, <1>5, BackOf
<1> HIDE DEF front, back
<1>8. c \in Seq(Cell) /\ Len(c) = a.idx + num + Len(back)
  <2>1. /\ front \o Written(line) \in Seq(Cell)
        /\ Len(front \o Written(line)) = a.idx + num
    BY <1>1, <1>6, ConcatProperties
  <2> QED  BY <1>7, <2>1, ConcatProperties
<1>9. Len(c) <= a.cap /\ end <= Len(c)  BY <1>1, <1>2, <1>4, <1>7, <1>8
<1> HIDE DEF c, end
<1>10. [a EXCEPT !.cells = c, !.idx = end] \in Response
  BY <1>4, <1>5, <1>8 DEF Response
<1>11. /\ Put(r, line).cells = c /\ Put(r, line).idx = end /\ Put(r, line).cap = a.cap
       /\ Put(r, line).length = a.length /\ SameBody(a, Put(r, line))
  BY <1>3, <1>4 DEF Response, SameBody
<1>12. Fits(Put(r, line))  BY <1>3, <1>9, <1>10, <1>11 DEF Fits
<1>13. SameBody(r, Put(r, line))  BY <1>2, <1>11 DEF SameBody
<1> QED  BY <1>2, <1>11, <1>12, <1>13

LEMMA NotedKeeps ==
  ASSUME NEW r, Fits(r), NEW line \in Lines
  PROVE  LET q == Noted(r, line) IN
         /\ Fits(q) /\ SameBody(r, q) /\ TextOf(q) = TextOf(r)
         /\ q.keepAlive = r.keepAlive
         /\ q.hasType = (r.hasType \/ line.name = "type")
         /\ q.hasConnection = (r.hasConnection \/ line.name = "connection")
         /\ q.length = IF GivesLength(line) THEN line.val ELSE r.length
<1> DEFINE q == Noted(r, line)
<1>1. /\ r \in Response /\ r.hasType \in BOOLEAN /\ r.hasConnection \in BOOLEAN
  BY DEF Fits, Response
<1>2. ASSUME line.name = "type", q = [r EXCEPT !.hasType = TRUE]
      PROVE  /\ Fits(q) /\ SameBody(r, q) /\ TextOf(q) = TextOf(r)
             /\ q.keepAlive = r.keepAlive /\ q.hasType = TRUE
             /\ q.hasConnection = r.hasConnection /\ q.length = r.length
  <2> HIDE DEF q
  <2> QED  BY <1>1, <1>2 DEF Fits, SameBody, Response, TextOf
<1>3. ASSUME line.name = "connection", q = [r EXCEPT !.hasConnection = TRUE]
      PROVE  /\ Fits(q) /\ SameBody(r, q) /\ TextOf(q) = TextOf(r)
             /\ q.keepAlive = r.keepAlive /\ q.hasConnection = TRUE
             /\ q.hasType = r.hasType /\ q.length = r.length
  <2> HIDE DEF q
  <2> QED  BY <1>1, <1>3 DEF Fits, SameBody, Response, TextOf
<1>4. ASSUME GivesLength(line), q = [r EXCEPT !.length = line.val]
      PROVE  /\ Fits(q) /\ SameBody(r, q) /\ TextOf(q) = TextOf(r)
             /\ q.keepAlive = r.keepAlive /\ q.length = line.val
             /\ q.hasType = r.hasType /\ q.hasConnection = r.hasConnection
  <2> HIDE DEF q
  <2>1. line.val \in Nat  BY <1>4 DEF Lines, GivesLength
  <2> QED  BY <1>1, <1>4, <2>1 DEF Fits, SameBody, Response, TextOf
<1>5. CASE line.name = "type"
  <2>1. q = [r EXCEPT !.hasType = TRUE]  BY <1>5 DEF Noted
  <2> HIDE DEF q
  <2> QED  BY <1>1, <1>2, <1>5, <2>1 DEF q, GivesLength
<1>6. CASE line.name = "connection"
  <2>1. q = [r EXCEPT !.hasConnection = TRUE]  BY <1>6 DEF Noted
  <2> HIDE DEF q
  <2> QED  BY <1>1, <1>3, <1>6, <2>1 DEF q, GivesLength
<1>7. CASE GivesLength(line)
  <2>1. q = [r EXCEPT !.length = line.val]  BY <1>7 DEF Noted, GivesLength
  <2>2. line.name = "length"  BY <1>7 DEF GivesLength
  <2> HIDE DEF q
  <2> QED  BY <1>1, <1>4, <1>7, <2>1, <2>2 DEF q
<1>8. CASE line.name \notin {"type", "connection"} /\ ~GivesLength(line)
  <2>1. q = r  BY <1>8 DEF Noted, GivesLength
  <2>2. SameBody(r, r)  BY DEF SameBody
  <2> HIDE DEF q
  <2> QED  BY <1>1, <1>8, <2>1, <2>2 DEF q
<1> QED  BY <1>5, <1>6, <1>7, <1>8

LEMMA SetLineFits ==
  ASSUME NEW r, Fits(r), NEW line \in Lines
  PROVE  Fits(SetLine(r, line)) /\ SameBody(r, SetLine(r, line))
<1>1. Fits(Noted(r, line)) /\ SameBody(r, Noted(r, line))  BY NotedKeeps
<1>2. SetLine(r, line) = Put(Noted(r, line), line)  BY DEF SetLine
<1>3. Fits(SetLine(r, line)) /\ SameBody(Noted(r, line), SetLine(r, line))
  BY <1>1, <1>2, PutFits
<1> QED  BY <1>1, <1>3 DEF SameBody

LEMMA LengthOfBody ==
  ASSUME NEW r \in Response
  PROVE  TakenFrom(r) \in Seq(Bytes) /\ Len(TakenFrom(r)) \in Nat
<1>1. r.string \in Seq(Bytes) /\ r.vector \in Seq(Bytes)  BY DEF Response
<1>2. TakenFrom(r) \in Seq(Bytes)  BY <1>1 DEF TakenFrom
<1> QED  BY <1>2

(* The finished head lies in the buffer, and the cursor is at its beginning.  *)
LEMMA SerializedFits ==
  ASSUME NEW r, Fits(r)
  PROVE  LET q == Serialized(r) IN
           /\ Fits(q) /\ Closed(q)
           /\ q.string = r.string /\ q.vector = r.vector /\ q.isString = r.isString
           /\ q.bodyIdx = r.bodyIdx
<1> DEFINE hasBody == Len(r.vector) + Len(r.string) > 0
           a == IF ~r.hasType /\ hasBody
                THEN SetLine(r, Line("type", IF r.isString THEN 0 ELSE 1)) ELSE r
           b == IF ~a.hasConnection
                THEN SetLine(a, Line("connection", IF a.keepAlive THEN 0 ELSE 1)) ELSE a
           c == IF LacksLength(b)
                THEN SetLine(b, Line("length", Len(TakenFrom(b)))) ELSE b
           e == [c EXCEPT !.serialized = TRUE]
           d == Put(e, Line("blank", 0))
           q == [d EXCEPT !.headerSize = d.idx, !.idx = 0]
<1>1. Serialized(r) = q  BY DEF Serialized
<1>2. Fits(a) /\ SameBody(r, a)
  <2>1. Line("type", IF r.isString THEN 0 ELSE 1) \in Lines  BY DEF Line, Lines
  <2>2. Fits(SetLine(r, Line("type", IF r.isString THEN 0 ELSE 1)))
        /\ SameBody(r, SetLine(r, Line("type", IF r.isString THEN 0 ELSE 1)))
    BY <2>1, SetLineFits
  <2>3. SameBody(r, r)  BY DEF SameBody
  <2> QED  BY <2>2, <2>3
<1> HIDE DEF a
<1>3. Fits(b) /\ SameBody(a, b)
  <2>1. Line("connection", IF a.keepAlive THEN 0 ELSE 1) \in Lines  BY DEF Line, Lines
  <2>2. Fits(SetLine(a, Line("connection", IF a.keepAlive THEN 0 ELSE 1)))
        /\ SameBody(a, SetLine(a, Line("connection", IF a.keepAlive THEN 0 ELSE 1)))
    BY <1>2, <2>1, SetLineFits
  <2>3. SameBody(a, a)  BY DEF SameBody
  <2> QED  BY <1>2, <2>2, <2>3
<1> HIDE DEF b
<1>4. Fits(c) /\ SameBody(b, c)
  <2>1. Line("length", Len(TakenFrom(b))) \in Lines
    <3>1. Len(TakenFrom(b)) \in Nat  BY <1>3, LengthOfBody DEF Fits
    <3> QED  BY <3>1 DEF Line, Lines
  <2>2. Fits(SetLine(b, Line("length", Len(TakenFrom(b)))))
        /\ SameBody(b, SetLine(b, Line("length", Len(TakenFrom(b)))))
    BY <1>3, <2>1, SetLineFits
  <2>3. SameBody(b, b)  BY DEF SameBody
  <2> QED  BY <1>3, <2>2, <2>3
<1> HIDE DEF c
<1>5. /\ Fits(e) /\ e.serialized = TRUE
      /\ e.string = c.string /\ e.vector = c.vector /\ e.isString = c.isString
      /\ e.bodyIdx = c.bodyIdx
  BY <1>4 DEF Fits, Response
<1> HIDE DEF e
<1>6. Fits(d) /\ SameBody(e, d)
  <2>1. Line("blank", 0) \in Lines  BY DEF Line, Lines
  <2> QED  BY <1>5, <2>1, PutFits
<1> HIDE DEF d
<1>7. /\ d \in Response /\ d.idx \in Nat /\ d.idx <= Len(d.cells) /\ Len(d.cells) <= d.cap
      /\ d.cells \in Seq(Cell) /\ Len(d.cells) \in Nat
  BY <1>6 DEF Fits, Response
<1>8. q \in Response  BY <1>7 DEF Response
<1>9. /\ q.headerSize = d.idx /\ q.idx = 0 /\ q.cells = d.cells /\ q.cap = d.cap
      /\ q.string = d.string /\ q.vector = d.vector /\ q.isString = d.isString
      /\ q.bodyIdx = d.bodyIdx /\ q.serialized = d.serialized
  BY <1>7 DEF Response
<1> HIDE DEF q
<1>10. Fits(q)  BY <1>7, <1>8, <1>9 DEF Fits
<1>11. Closed(q)
  <2>1. q.serialized  BY <1>5, <1>6, <1>9 DEF SameBody
  <2> QED  BY <1>7, <1>9, <2>1 DEF Closed
<1>12. /\ q.string = r.string /\ q.vector = r.vector /\ q.isString = r.isString
       /\ q.bodyIdx = r.bodyIdx
  BY <1>2, <1>3, <1>4, <1>5, <1>6, <1>9 DEF SameBody
<1> QED  BY <1>1, <1>10, <1>11, <1>12

-------------------------------------------------------------------------------
LEMMA InitHolds == Init => IInv
<1> SUFFICES ASSUME Init  PROVE IInv
  OBVIOUS
<1>1. PICK cap \in BufferSizes \cup {OwnSize} : res \in NewResponse(cap)
  BY DEF Init
<1>2. cap \in Nat  BY <1>1, ResponseAssumption
<1>3. PICK k \in BOOLEAN, s \in BOOLEAN :
        res = Put(Blank(cap, k, s), Line("status", 0))
  BY <1>1 DEF NewResponse
<1> DEFINE r == Blank(cap, k, s)
<1>4. Fits(r)
  <2>1. <<>> \in Seq(Cell) /\ <<>> \in Seq(Bytes) /\ Len(<<>>) = 0  OBVIOUS
  <2>2. r \in Response  BY <1>2, <2>1 DEF Response, Blank
  <2> QED  BY <1>2, <2>1, <2>2 DEF Fits, Blank
<1>5. /\ r.string = <<>> /\ r.vector = <<>> /\ r.bodyIdx = 0 /\ ~r.serialized
      /\ r.headerSize = 0
  BY DEF Blank
<1>6. res = Put(r, Line("status", 0))  BY <1>3
<1> HIDE DEF r
<1>7. Line("status", 0) \in Lines  BY DEF Line, Lines
<1>8. Fits(res) /\ SameBody(r, res)  BY <1>4, <1>6, <1>7, PutFits
<1>9. Open(res)  BY <1>5, <1>8 DEF Open, SameBody
<1>10. BodyFits(res)
  <2>1. res \in Response /\ res.bodyIdx = 0  BY <1>8, <1>9 DEF Fits, Open
  <2>2. Len(TakenFrom(res)) \in Nat  BY <2>1, LengthOfBody
  <2>3. OneBody(res)  BY <1>5, <1>8 DEF SameBody, OneBody
  <2>4. Settled(res)  BY <2>1 DEF Settled
  <2> QED  BY <2>1, <2>2, <2>3, <2>4 DEF BodyFits
<1>11. phase = "set"  BY DEF Init
<1> QED  BY <1>8, <1>9, <1>10, <1>11 DEF IInv

(* Another value of the cursors, within what they run over. *)
LEMMA CursorsKeep ==
  ASSUME NEW r, Fits(r), OneBody(r), NEW i \in Nat
  PROVE  /\ i <= Len(r.cells) => Fits([r EXCEPT !.idx = i])
         /\ Fits([r EXCEPT !.bodyIdx = i])
         /\ OneBody([r EXCEPT !.idx = i]) /\ OneBody([r EXCEPT !.bodyIdx = i])
         /\ TakenFrom([r EXCEPT !.idx = i]) = TakenFrom(r)
         /\ TakenFrom([r EXCEPT !.bodyIdx = i]) = TakenFrom(r)
<1>1. r \in Response  BY DEF Fits
<1>2. /\ [r EXCEPT !.idx = i] \in Response /\ [r EXCEPT !.bodyIdx = i] \in Response
  BY <1>1 DEF Response
<1>3. /\ [r EXCEPT !.idx = i].cells = r.cells /\ [r EXCEPT !.idx = i].cap = r.cap
      /\ [r EXCEPT !.idx = i].idx = i
      /\ [r EXCEPT !.bodyIdx = i].cells = r.cells /\ [r EXCEPT !.bodyIdx = i].cap = r.cap
      /\ [r EXCEPT !.bodyIdx = i].idx = r.idx
  BY <1>1 DEF Response
<1>4. /\ [r EXCEPT !.idx = i].string = r.string /\ [r EXCEPT !.idx = i].vector = r.vector
      /\ [r EXCEPT !.idx = i].isString = r.isString
      /\ [r EXCEPT !.bodyIdx = i].string = r.string
      /\ [r EXCEPT !.bodyIdx = i].vector = r.vector
      /\ [r EXCEPT !.bodyIdx = i].isString = r.isString
  BY <1>1 DEF Response
<1>5. i <= Len(r.cells) => Fits([r EXCEPT !.idx = i])  BY <1>2, <1>3 DEF Fits
<1>6. Fits([r EXCEPT !.bodyIdx = i])  BY <1>2, <1>3 DEF Fits
<1>7. OneBody([r EXCEPT !.idx = i]) /\ OneBody([r EXCEPT !.bodyIdx = i])
  BY <1>4 DEF OneBody
<1>8. /\ TakenFrom([r EXCEPT !.idx = i]) = TakenFrom(r)
      /\ TakenFrom([r EXCEPT !.bodyIdx = i]) = TakenFrom(r)
  BY <1>4 DEF TakenFrom
<1> QED  BY <1>5, <1>6, <1>7, <1>8

(* While nothing of the body was produced, it is enough that there is one.    *)
LEMMA BodyUntouched ==
  ASSUME NEW r, Fits(r), OneBody(r), r.bodyIdx = 0
  PROVE  BodyFits(r)
<1>1. Len(TakenFrom(r)) \in Nat  BY LengthOfBody DEF Fits
<1>2. Settled(r)  BY DEF Settled
<1> QED  BY <1>1, <1>2 DEF BodyFits

LEMMA SetKeeps ==
  ASSUME IInv, NEW line \in Field, Set(line)
  PROVE  IInv'
<1>1. phase = "set" /\ res' = SetLine(res, line) /\ phase' = phase  BY DEF Set
<1>2. Fits(res) /\ Open(res) /\ OneBody(res)  BY <1>1 DEF IInv, BodyFits
<1>3. line \in Lines  BY ResponseAssumption
<1>4. Fits(res') /\ SameBody(res, res')  BY <1>1, <1>2, <1>3, SetLineFits
<1>5. Open(res') /\ OneBody(res') /\ res'.bodyIdx = 0
  BY <1>2, <1>4 DEF SameBody, Open, OneBody
<1>6. BodyFits(res')  BY <1>4, <1>5, BodyUntouched
<1> QED  BY <1>1, <1>4, <1>5, <1>6 DEF IInv

LEMMA SetBodyKeeps ==
  ASSUME IInv, NEW b \in Body, NEW s \in BOOLEAN, SetBody(b, s)
  PROVE  IInv'
<1>1. phase = "set" /\ res' = WithBody(res, b, s) /\ phase' = phase  BY DEF SetBody
<1>2. Fits(res) /\ Open(res) /\ res \in Response  BY <1>1 DEF IInv, Fits
<1> DEFINE t == IF s THEN b ELSE <<>>
           v == IF s THEN <<>> ELSE b
<1>3. t \in Seq(Bytes) /\ v \in Seq(Bytes)
  <2>1. b \in Seq(STRING)  BY ResponseAssumption
  <2>2. STRING \subseteq Bytes  BY Zenon DEF Bytes
  <2>3. b \in Seq(Bytes)  BY <2>1, <2>2, SeqMonotonic
  <2>4. <<>> \in Seq(Bytes)  OBVIOUS
  <2> QED  BY <2>3, <2>4
<1>4. res' = [res EXCEPT !.string = t, !.vector = v, !.isString = s]
  BY <1>1 DEF WithBody
<1>5. IF s THEN v = <<>> ELSE t = <<>>  OBVIOUS
<1> HIDE DEF t, v
<1>6. res' \in Response  BY <1>2, <1>3, <1>4 DEF Response
<1>7. /\ res'.cells = res.cells /\ res'.cap = res.cap /\ res'.idx = res.idx
      /\ res'.string = t /\ res'.vector = v /\ res'.isString = s
      /\ res'.bodyIdx = res.bodyIdx /\ res'.serialized = res.serialized
      /\ res'.headerSize = res.headerSize
  BY <1>2, <1>4 DEF Response
<1>8. Fits(res')  BY <1>2, <1>6, <1>7 DEF Fits
<1>9. Open(res') /\ OneBody(res') /\ res'.bodyIdx = 0
  BY <1>2, <1>5, <1>7 DEF Open, OneBody
<1>10. BodyFits(res')  BY <1>8, <1>9, BodyUntouched
<1> QED  BY <1>1, <1>8, <1>9, <1>10 DEF IInv

LEMMA ProduceHeaderKeeps ==
  ASSUME IInv, NEW room \in Spans, ProduceHeader(room)
  PROVE  IInv'
<1> DEFINE r == IF res.serialized THEN res ELSE Serialized(res)
           n == Smaller(room, r.headerSize - r.idx)
           end == r.idx + n
           i == Rewound(end, r.headerSize)
<1>1. /\ phase \in {"set", "head"} /\ phase' \in {"body", "head"}
      /\ res' = [r EXCEPT !.idx = i]
  BY DEF ProduceHeader
<1>2. Fits(r) /\ Closed(r) /\ BodyFits(r)
  <2>1. CASE phase = "set"
    <3>1. Fits(res) /\ Open(res) /\ OneBody(res) /\ ~res.serialized
      BY <2>1 DEF IInv, BodyFits, Open
    <3>2. r = Serialized(res)  BY <3>1
    <3>3. /\ Fits(r) /\ Closed(r)
          /\ r.string = res.string /\ r.vector = res.vector /\ r.isString = res.isString
          /\ r.bodyIdx = res.bodyIdx
      BY <3>1, <3>2, SerializedFits
    <3> HIDE DEF r
    <3>4. OneBody(r) /\ r.bodyIdx = 0  BY <3>1, <3>3 DEF OneBody, Open
    <3> QED  BY <3>3, <3>4, BodyUntouched
  <2>2. CASE phase # "set"
    <3>1. Fits(res) /\ Closed(res) /\ BodyFits(res) /\ res.serialized
      BY <2>2 DEF IInv, Closed
    <3> QED  BY <3>1
  <2> QED  BY <2>1, <2>2
<1> HIDE DEF r
<1>3. /\ r.idx \in Nat /\ r.headerSize \in Nat /\ room \in Nat /\ r.idx <= r.headerSize
      /\ r.headerSize <= Len(r.cells) /\ Len(r.cells) \in Nat /\ r \in Response
  BY <1>2, ResponseAssumption DEF Fits, Closed, Response
<1>4. i \in Nat /\ i <= r.headerSize  BY <1>3 DEF Smaller, Rewound
<1> HIDE DEF i
<1>5. i <= Len(r.cells) /\ OneBody(r)  BY <1>2, <1>3, <1>4 DEF BodyFits
<1>6. Fits(res') /\ OneBody(res') /\ TakenFrom(res') = TakenFrom(r)
  BY <1>1, <1>2, <1>4, <1>5, CursorsKeep
<1>7. /\ res'.serialized = r.serialized /\ res'.headerSize = r.headerSize
      /\ res'.idx = i /\ res'.cells = r.cells /\ res'.bodyIdx = r.bodyIdx
      /\ res'.length = r.length
  BY <1>1, <1>3 DEF Response
<1>8. BodyFits(res')  BY <1>2, <1>6, <1>7 DEF BodyFits, Settled
<1>9. Closed(res')  BY <1>2, <1>4, <1>7 DEF Closed
<1>10. phase' # "set" /\ phase' \in {"set", "head", "body", "written"}  BY <1>1
<1> QED  BY <1>6, <1>8, <1>9, <1>10 DEF IInv

(* A body of the length that is asked for; one that has it already stays.      *)
LEMMA ResizedType ==
  ASSUME NEW b \in Seq(Bytes), NEW n \in Nat
  PROVE  /\ Resized(b, n) \in Seq(Bytes) /\ Len(Resized(b, n)) = n
         /\ n = Len(b) => Resized(b, n) = b
<1>1. \A i \in 1 .. n : (IF i <= Len(b) THEN b[i] ELSE "NUL") \in Bytes
  <2> SUFFICES ASSUME NEW i \in 1 .. n
               PROVE  (IF i <= Len(b) THEN b[i] ELSE "NUL") \in Bytes
    OBVIOUS
  <2>1. CASE i <= Len(b)
    <3>1. i \in 1 .. Len(b)  BY <2>1
    <3> QED  BY <2>1, <3>1
  <2>2. CASE ~(i <= Len(b))
    BY <2>2 DEF Bytes
  <2> QED  BY <2>1, <2>2
<1>2. Resized(b, n) = [i \in 1 .. n |-> IF i <= Len(b) THEN b[i] ELSE "NUL"]
  BY DEF Resized
<1>3. Resized(b, n) \in [1 .. n -> Bytes]  BY <1>1, <1>2
<1>4. Resized(b, n) \in Seq(Bytes) /\ Len(Resized(b, n)) = n  BY <1>3
<1>5. ASSUME n = Len(b)  PROVE Resized(b, n) = b
  <2>1. \A i \in 1 .. n : Resized(b, n)[i] = b[i]  BY <1>2, <1>5
  <2> DEFINE x == Resized(b, n)
  <2>2. x \in Seq(Bytes) /\ Len(x) = Len(b) /\ \A i \in 1 .. Len(x) : x[i] = b[i]
    BY <1>4, <1>5, <2>1
  <2> HIDE DEF x
  <2>3. x = b  BY <2>2, SeqEqual
  <2> QED  BY <2>3 DEF x
<1> QED  BY <1>4, <1>5

(* The body gets its announced length before any of it is produced.          *)
LEMMA SaidLength ==
  ASSUME NEW r, Fits(r), Closed(r), BodyFits(r)
  PROVE  LET q == AsLongAsSaid(r) IN
           /\ Fits(q) /\ Closed(q) /\ OneBody(q)
           /\ q.bodyIdx <= Len(TakenFrom(q)) /\ q.length \in {0, Len(TakenFrom(q))}
<1> DEFINE q == AsLongAsSaid(r)
           s == Resized(r.string, r.length)
           v == Resized(r.vector, r.length)
<1>1. /\ r \in Response /\ r.length \in Nat /\ r.bodyIdx \in Nat
      /\ r.string \in Seq(Bytes) /\ r.vector \in Seq(Bytes)
  BY DEF Fits, Response
<1>2. CASE r.length \in {0, Len(TakenFrom(r))}
  <2>1. q = r  BY <1>2 DEF AsLongAsSaid
  <2> QED  BY <1>2, <2>1 DEF BodyFits
<1>3. CASE r.length \notin {0, Len(TakenFrom(r))}
  <2>1. r.bodyIdx = 0  BY <1>1, <1>3 DEF BodyFits, Settled
  <2>3. s \in Seq(Bytes) /\ Len(s) = r.length /\ v \in Seq(Bytes) /\ Len(v) = r.length
    BY <1>1, ResizedType
  <2>4. q = IF r.isString THEN [r EXCEPT !.string = s] ELSE [r EXCEPT !.vector = v]
    BY <1>3 DEF AsLongAsSaid
  <2> HIDE DEF q, s, v
  <2>5. CASE r.isString
    <3>1. q = [r EXCEPT !.string = s]  BY <2>4, <2>5
    <3>2. q \in Response  BY <1>1, <2>3, <3>1 DEF Response
    <3>3. /\ q.string = s /\ q.vector = r.vector /\ q.isString = r.isString
          /\ q.idx = r.idx /\ q.cells = r.cells /\ q.cap = r.cap /\ q.length = r.length
          /\ q.headerSize = r.headerSize /\ q.serialized = r.serialized
          /\ q.bodyIdx = r.bodyIdx
      BY <1>1, <3>1 DEF Response
    <3>4. TakenFrom(q) = s  BY <2>5, <3>3 DEF TakenFrom
    <3>5. Fits(q) /\ Closed(q)  BY <3>2, <3>3 DEF Fits, Closed
    <3>6. OneBody(q)  BY <2>5, <3>3 DEF BodyFits, OneBody
    <3>7. q.bodyIdx <= Len(TakenFrom(q)) /\ q.length = Len(TakenFrom(q))
      BY <1>1, <2>1, <2>3, <3>3, <3>4
    <3> QED  BY <3>5, <3>6, <3>7 DEF q
  <2>6. CASE ~r.isString
    <3>1. q = [r EXCEPT !.vector = v]  BY <2>4, <2>6
    <3>2. q \in Response  BY <1>1, <2>3, <3>1 DEF Response
    <3>3. /\ q.string = r.string /\ q.vector = v /\ q.isString = r.isString
          /\ q.idx = r.idx /\ q.cells = r.cells /\ q.cap = r.cap /\ q.length = r.length
          /\ q.headerSize = r.headerSize /\ q.serialized = r.serialized
          /\ q.bodyIdx = r.bodyIdx
      BY <1>1, <3>1 DEF Response
    <3>4. TakenFrom(q) = v  BY <2>6, <3>3 DEF TakenFrom
    <3>5. Fits(q) /\ Closed(q)  BY <3>2, <3>3 DEF Fits, Closed
    <3>6. OneBody(q)  BY <2>6, <3>3 DEF BodyFits, OneBody
    <3>7. q.bodyIdx <= Len(TakenFrom(q)) /\ q.length = Len(TakenFrom(q))
      BY <1>1, <2>1, <2>3, <3>3, <3>4
    <3> QED  BY <3>5, <3>6, <3>7 DEF q
  <2> QED  BY <2>5, <2>6
<1> QED  BY <1>2, <1>3

LEMMA ProduceBodyKeeps ==
  ASSUME IInv, NEW room \in Spans, ProduceBody(room)
  PROVE  IInv'
<1> DEFINE r == AsLongAsSaid(res)
           b == TakenFrom(r)
           end == r.bodyIdx + Smaller(room, Len(b) - r.bodyIdx)
           i == Rewound(end, Len(b))
<1>1. /\ phase = "body" /\ phase' \in {"written", "body"}
      /\ res' = [r EXCEPT !.bodyIdx = i]
  BY DEF ProduceBody
<1>2. Fits(res) /\ Closed(res) /\ BodyFits(res)  BY <1>1 DEF IInv
<1>3. /\ Fits(r) /\ Closed(r) /\ OneBody(r)
      /\ r.bodyIdx <= Len(b) /\ r.length \in {0, Len(b)}
  BY <1>2, SaidLength
<1> HIDE DEF r
<1>4. r \in Response /\ r.bodyIdx \in Nat /\ room \in Nat
  BY <1>3, ResponseAssumption DEF Fits, Response
<1>5. Len(b) \in Nat  BY <1>4, LengthOfBody
<1>6. i \in Nat /\ i <= Len(b)
  <2> HIDE DEF b
  <2> QED  BY <1>3, <1>4, <1>5 DEF Smaller, Rewound
<1> HIDE DEF i
<1>7. Fits(res') /\ OneBody(res') /\ TakenFrom(res') = b
  BY <1>1, <1>3, <1>6, CursorsKeep
<1>8. /\ res'.serialized = r.serialized /\ res'.headerSize = r.headerSize
      /\ res'.idx = r.idx /\ res'.cells = r.cells /\ res'.bodyIdx = i
      /\ res'.length = r.length
  BY <1>1, <1>4 DEF Response
<1>9. BodyFits(res')  BY <1>3, <1>6, <1>7, <1>8 DEF BodyFits, Settled
<1>10. Closed(res')  BY <1>3, <1>8 DEF Closed
<1>11. phase' # "set" /\ phase' \in {"set", "head", "body", "written"}  BY <1>1
<1> QED  BY <1>7, <1>9, <1>10, <1>11 DEF IInv

LEMMA NextKeeps == IInv /\ [Next]_vars => IInv'
<1> SUFFICES ASSUME IInv, [Next]_vars  PROVE IInv'
  OBVIOUS
<1>1. CASE \E line \in Field : Set(line)
  BY <1>1, SetKeeps
<1>2. CASE \E b \in Body, s \in BOOLEAN : SetBody(b, s)
  BY <1>2, SetBodyKeeps
<1>3. CASE \E room \in Spans : ProduceHeader(room) \/ ProduceBody(room)
  BY <1>3, ProduceHeaderKeeps, ProduceBodyKeeps
<1>4. CASE WriteAgain
  <2>1. res' = res /\ phase # "set" /\ phase' # "set"
        /\ phase' \in {"set", "head", "body", "written"}
    BY <1>4 DEF WriteAgain
  <2>2. Fits(res) /\ BodyFits(res) /\ Closed(res)  BY <2>1 DEF IInv
  <2>3. Fits(res') /\ BodyFits(res') /\ Closed(res')  BY <2>1, <2>2
  <2> QED  BY <2>1, <2>3 DEF IInv
<1>5. CASE UNCHANGED vars
  BY <1>5 DEF vars, IInv
<1> QED  BY <1>1, <1>2, <1>3, <1>4, <1>5 DEF Next

(* The inductive invariant: what was written of the head and where its cursor *)
(* may be before and after the head is closed, and that a body that was        *)
(* produced in part does not change its length any more.                      *)
THEOREM Invariance == Spec => []IInv
BY InitHolds, NextKeeps, PTL DEF Spec

(* No line that set or serialize_ writes goes beyond the buffer of the head,   *)
(* whatever its size was and however it grew, and no piece of head or body is  *)
(* taken from beyond what there is.                                          *)
THEOREM NothingBeyondTheBuffers == Spec => []TypeOK
<1>1. IInv => TypeOK
  <2> SUFFICES ASSUME IInv  PROVE TypeOK
    OBVIOUS
  <2>1. Fits(res) /\ BodyFits(res) /\ res \in Response  BY DEF IInv, Fits
  <2>2. /\ Len(res.cells) \in Nat /\ res.idx \in Nat /\ res.headerSize \in Nat
        /\ res.bodyIdx \in Nat
    BY <2>1 DEF Response
  <2>3. res.headerSize <= Len(res.cells)
    BY <2>2 DEF IInv, Open, Closed
  <2>4. Len(TakenFrom(res)) \in Nat  BY <2>1, LengthOfBody
  <2>5. res.bodyIdx \in 0 .. Len(TakenFrom(res))
    BY <2>1, <2>2, <2>4 DEF BodyFits
  <2>6. res.string = <<>> \/ res.vector = <<>>  BY <2>1 DEF BodyFits, OneBody
  <2> QED  BY <2>1, <2>2, <2>3, <2>5, <2>6 DEF TypeOK, Fits
<1> QED  BY <1>1, Invariance, PTL

-------------------------------------------------------------------------------
(* What the head says.                                                      *)

LEMMA TextType ==
  ASSUME NEW L \in Seq(Lines)
  PROVE  Text(L) \in Seq(Cell)
<1> DEFINE q == [i \in DOMAIN L |-> Written(L[i])]
<1>1. ASSUME NEW i \in 1 .. Len(L)  PROVE Written(L[i]) \in Seq(Cell)
  <2>1. L[i] \in Lines  BY <1>1
  <2> QED  BY <2>1, WrittenLine
<1>2. Len(L) \in Nat /\ DOMAIN L = 1 .. Len(L)  OBVIOUS
<1>3. q \in [1 .. Len(L) -> Seq(Cell)]  BY <1>1, <1>2
<1>4. q \in Seq(Seq(Cell))  BY <1>2, <1>3
<1> HIDE DEF q
<1>5. FlattenSeq(q) \in Seq(Cell)  BY <1>4, FlattenType
<1> QED  BY <1>5 DEF Text, q

LEMMA TextAppend ==
  ASSUME NEW L \in Seq(Lines), NEW line \in Lines
  PROVE  Text(Append(L, line)) = Text(L) \o Written(line)
<1> DEFINE M == Append(L, line)
           q == [i \in DOMAIN L |-> Written(L[i])]
           p == [i \in DOMAIN M |-> Written(M[i])]
           n == Len(L)
<1>1. /\ M \in Seq(Lines) /\ Len(M) = n + 1 /\ M[n + 1] = line
      /\ \A i \in 1 .. n : M[i] = L[i]
  BY AppendProperties
<1>2. n \in Nat /\ DOMAIN L = 1 .. n /\ DOMAIN M = 1 .. n + 1
  BY <1>1
<1> HIDE DEF M
<1>3. ASSUME NEW K \in Seq(Lines)
      PROVE  [i \in DOMAIN K |-> Written(K[i])] \in Seq(Seq(Cell))
  <2>1. ASSUME NEW i \in 1 .. Len(K)  PROVE Written(K[i]) \in Seq(Cell)
    <3>1. K[i] \in Lines  BY <2>1
    <3> QED  BY <3>1, WrittenLine
  <2>2. Len(K) \in Nat /\ DOMAIN K = 1 .. Len(K)  OBVIOUS
  <2>3. [i \in DOMAIN K |-> Written(K[i])] \in [1 .. Len(K) -> Seq(Cell)]
    BY <2>1, <2>2
  <2> QED  BY <2>2, <2>3
<1>4. q \in Seq(Seq(Cell)) /\ p \in Seq(Seq(Cell))  BY <1>1, <1>3
<1>5. Written(line) \in Seq(Cell)  BY WrittenLine
<1>6. /\ Len(q) = n /\ Len(p) = n + 1 /\ p[n + 1] = Written(line)
      /\ \A i \in 1 .. n : p[i] = Written(M[i]) /\ q[i] = Written(L[i])
  <2>1. n + 1 \in 1 .. n + 1 /\ \A i \in 1 .. n : i \in 1 .. n + 1  BY <1>2
  <2>2. DOMAIN q = 1 .. n /\ DOMAIN p = 1 .. n + 1  BY <1>2
  <2>3. p[n + 1] = Written(line)  BY <1>1, <1>2, <2>1
  <2>4. \A i \in 1 .. n : p[i] = Written(M[i]) /\ q[i] = Written(L[i])
    BY <1>2, <2>1
  <2> HIDE DEF q, p
  <2> QED  BY <1>2, <1>4, <2>2, <2>3, <2>4
<1> HIDE DEF q, p
<1>7. \A i \in 1 .. n : p[i] = q[i]  BY <1>1, <1>6
<1>8. p = Append(q, Written(line))
  <2> DEFINE w == Written(line)
             a == Append(q, w)
  <2>1. /\ a \in Seq(Seq(Cell)) /\ Len(a) = n + 1 /\ a[n + 1] = w
        /\ \A i \in 1 .. n : a[i] = q[i]
    BY <1>4, <1>5, <1>6, AppendProperties
  <2> HIDE DEF a
  <2>2. ASSUME NEW i \in 1 .. n + 1  PROVE p[i] = a[i]
    <3>1. i \in 1 .. n \/ i = n + 1  BY <1>2, <2>2
    <3> QED  BY <1>6, <1>7, <2>1, <3>1
  <2>3. p = a  BY <1>4, <1>6, <2>1, <2>2, SeqEqual
  <2> QED  BY <2>3 DEF a
<1>9. FlattenSeq(p) = FlattenSeq(q) \o Written(line)
  BY <1>4, <1>5, <1>8, FlattenAppend
<1> QED  BY <1>9 DEF Text, p, q, M

(* The last number that a text gives as the length of the body.              *)
Silent(s) == \A i \in DOMAIN s : ~SaysLength(s[i])
LastSays(s, n) ==
  \E i \in DOMAIN s : /\ SaysLength(s[i]) /\ s[i].line.val = n
                      /\ \A j \in i + 1 .. Len(s) : ~SaysLength(s[j])
Says(s, n) == (n = 0 /\ Silent(s)) \/ LastSays(s, n)

LEMMA SaysMore ==
  ASSUME NEW s \in Seq(Cell), NEW line \in Lines, NEW n
  PROVE  /\ GivesLength(line) => LastSays(s \o Written(line), line.val)
         /\ ~GivesLength(line) /\ LastSays(s, n) => LastSays(s \o Written(line), n)
         /\ ~GivesLength(line) /\ Says(s, n) => Says(s \o Written(line), n)
<1> DEFINE w == Written(line)
           t == s \o w
           m == LineSize(line)
           k == Len(s)
<1>1. m \in {1, 2} /\ w \in Seq(Cell) /\ Len(w) = m  BY WrittenLine
<1>2. \A i \in 1 .. m : w[i].line = line  BY DEF Written
<1> HIDE DEF w, m
<1>3. /\ t \in Seq(Cell) /\ Len(t) = k + m /\ k \in Nat
      /\ \A i \in 1 .. k : t[i] = s[i]
      /\ \A i \in k + 1 .. k + m : t[i] = w[i - k]
  BY <1>1, ConcatProperties
<1>4. DOMAIN t = 1 .. k + m /\ DOMAIN s = 1 .. k
  BY <1>1, <1>3
<1> HIDE DEF t, k
<1>5. \A i \in k + 1 .. k + m : t[i].line = line
  <2> SUFFICES ASSUME NEW i \in k + 1 .. k + m  PROVE t[i].line = line
    OBVIOUS
  <2>1. i - k \in 1 .. m  BY <1>1, <1>3
  <2> QED  BY <1>2, <1>3, <2>1
<1>6. \A i \in k + 1 .. k + m : SaysLength(t[i]) <=> GivesLength(line)
  BY <1>5 DEF SaysLength, GivesLength
<1>7. \A i \in 1 .. k : SaysLength(t[i]) <=> SaysLength(s[i])
  BY <1>3
<1>8. \A i \in 1 .. k + m : i \in 1 .. k \/ i \in k + 1 .. k + m  BY <1>1, <1>3
<1>9. ASSUME GivesLength(line)  PROVE LastSays(t, line.val)
  <2>1. k + m \in DOMAIN t /\ k + m \in k + 1 .. k + m  BY <1>1, <1>3, <1>4
  <2>2. SaysLength(t[k + m]) /\ t[k + m].line.val = line.val
    BY <1>5, <1>6, <1>9, <2>1
  <2>3. (k + m) + 1 .. Len(t) = {}  BY <1>1, <1>3
  <2> QED  BY <2>1, <2>2, <2>3 DEF LastSays
<1>10. ASSUME ~GivesLength(line), LastSays(s, n)  PROVE LastSays(t, n)
  <2>1. PICK i \in 1 .. k : /\ SaysLength(s[i]) /\ s[i].line.val = n
                            /\ \A j \in i + 1 .. k : ~SaysLength(s[j])
    BY <1>4, <1>10 DEF LastSays, k
  <2>2. i \in DOMAIN t /\ SaysLength(t[i]) /\ t[i].line.val = n
    BY <1>1, <1>3, <1>4, <2>1
  <2>3. ASSUME NEW j \in i + 1 .. Len(t)  PROVE ~SaysLength(t[j])
    <3>1. j \in i + 1 .. k \/ j \in k + 1 .. k + m  BY <1>1, <1>3, <2>1, <2>3
    <3>2. j \in i + 1 .. k => j \in 1 .. k  BY <1>3, <2>1
    <3> QED  BY <1>6, <1>7, <1>10, <2>1, <3>1, <3>2
  <2> QED  BY <2>2, <2>3 DEF LastSays
<1>11. ASSUME ~GivesLength(line), Silent(s)  PROVE Silent(t)
  <2>1. \A i \in 1 .. k : ~SaysLength(t[i])  BY <1>4, <1>7, <1>11 DEF Silent
  <2> QED  BY <1>4, <1>6, <1>8, <1>11, <2>1 DEF Silent
<1> QED  BY <1>9, <1>10, <1>11 DEF Says, t, w

(* What writing a line does to the rest. *)
SameFlags(r, q) ==
  /\ q.hasType = r.hasType /\ q.hasConnection = r.hasConnection
  /\ q.keepAlive = r.keepAlive /\ q.length = r.length

(* A line goes behind what the head says so far, also when the buffer is      *)
(* replaced by a larger one.                                                *)
LEMMA PutWrites ==
  ASSUME NEW r, Fits(r), NEW line \in Lines
  PROVE  /\ TextOf(Put(r, line)) = TextOf(r) \o Written(line)
         /\ Put(r, line).idx = r.idx + LineSize(line)
         /\ SameFlags(r, Put(r, line))
<1> DEFINE num == LineSize(line)
           w == Written(line)
           a == Alloc(r, num)
           end == a.idx + num
           front == SubSeq(a.cells, 1, a.idx)
           back == SubSeq(a.cells, end + 1, Len(a.cells))
           c == front \o w \o back
           q == Put(r, line)
<1>1. num \in Nat /\ w \in Seq(Cell) /\ Len(w) = num
  BY WrittenLine
<1>2. q = [a EXCEPT !.cells = c, !.idx = end]  BY DEF Put
<1>3. Fits(a) /\ a.idx = r.idx
  <2> HIDE DEF num
  <2> QED  BY <1>1, AllocFits
<1>4. /\ r \in Response /\ r.cells \in Seq(Cell) /\ r.idx \in Nat /\ r.idx <= Len(r.cells)
  BY DEF Fits, Response
<1>5. SubSeq(a.cells, 1, a.idx) = TextOf(r) /\ SameFlags(r, a)
  <2> DEFINE s == SubSeq(r.cells, 1, r.idx)
  <2>1. CASE r.cap <= r.idx + num
    <3> DEFINE m == NewSize(r, num)
    <3>1. a = [r EXCEPT !.cap = m, !.cells = s]  BY <2>1 DEF Alloc
    <3> HIDE DEF a, s, m
    <3>2. a.cells = s /\ a.idx = r.idx /\ SameFlags(r, a)
      BY <1>4, <3>1 DEF Response, SameFlags
    <3>3. s \in Seq(Cell) /\ Len(s) = r.idx  BY <1>4, FrontOf DEF s
    <3>4. SubSeq(s, 1, r.idx) = s  BY <3>3, SubSeqFull
    <3> QED  BY <3>2, <3>4 DEF TextOf, s
  <2>2. CASE ~(r.cap <= r.idx + num)
    <3>1. a = r  BY <2>2 DEF Alloc
    <3> QED  BY <3>1 DEF TextOf, SameFlags
  <2> QED  BY <2>1, <2>2
<1> HIDE DEF num, a, w
<1>6. /\ a \in Response /\ a.cells \in Seq(Cell) /\ a.idx \in Nat
      /\ a.idx <= Len(a.cells) /\ Len(a.cells) \in Nat
  BY <1>3 DEF Fits, Response
<1>7. front \in Seq(Cell) /\ Len(front) = a.idx  BY <1>6, FrontOf
<1>8. end \in Nat /\ a.idx <= end /\ end = r.idx + num  BY <1>1, <1>3, <1>6
<1>9. back \in Seq(Cell)
  <2> HIDE DEF end
  <2> QED  BY <1>6, <1>8, BackOf
<1> HIDE DEF front, back
<1>10. /\ front \o w \in Seq(Cell) /\ Len(front \o w) = end
  <2>1. w \in Seq(Cell) /\ Len(w) = num  BY <1>1
  <2>2. front \o w \in Seq(Cell) /\ Len(front \o w) = Len(front) + Len(w)
    BY <1>7, <2>1, ConcatProperties
  <2> QED  BY <1>7, <2>1, <2>2 DEF end
<1> DEFINE x == front \o w
<1>11. c = x \o back  OBVIOUS
<1> HIDE DEF x, c, end
<1>12. SubSeq(c, 1, end) = x
  <2>1. x \in Seq(Cell) /\ Len(x) = end  BY <1>10 DEF x
  <2> QED  BY <1>8, <1>9, <1>11, <2>1, FirstPart
<1>13. q.cells = c /\ q.idx = end /\ SameFlags(a, q)
  BY <1>2, <1>6 DEF Response, SameFlags
<1> HIDE DEF q
<1>14. TextOf(q) = x  BY <1>12, <1>13 DEF TextOf
<1>15. x = TextOf(r) \o w  BY <1>5 DEF x, front
<1> QED  BY <1>5, <1>8, <1>13, <1>14, <1>15 DEF q, w, num, SameFlags

LEMMA SetLineWrites ==
  ASSUME NEW r, Fits(r), NEW line \in Lines
  PROVE  LET q == SetLine(r, line) IN
         /\ TextOf(q) = TextOf(r) \o Written(line)
         /\ q.idx = r.idx + LineSize(line)
         /\ q.keepAlive = r.keepAlive
         /\ q.hasType = (r.hasType \/ line.name = "type")
         /\ q.hasConnection = (r.hasConnection \/ line.name = "connection")
         /\ q.length = IF GivesLength(line) THEN line.val ELSE r.length
<1> DEFINE m == Noted(r, line)
           q == SetLine(r, line)
<1>1. /\ Fits(m) /\ TextOf(m) = TextOf(r) /\ m.keepAlive = r.keepAlive
      /\ m.hasType = (r.hasType \/ line.name = "type")
      /\ m.hasConnection = (r.hasConnection \/ line.name = "connection")
      /\ m.length = IF GivesLength(line) THEN line.val ELSE r.length
  BY NotedKeeps
<1>2. m.idx = r.idx
  <2>1. r \in Response  BY DEF Fits
  <2> QED  BY <2>1 DEF Noted, Response
<1>3. q = Put(m, line)  BY DEF SetLine
<1> HIDE DEF m, q
<1>4. /\ TextOf(q) = TextOf(m) \o Written(line) /\ q.idx = m.idx + LineSize(line)
      /\ SameFlags(m, q)
  BY <1>1, <1>3, PutWrites
<1> QED  BY <1>1, <1>2, <1>4 DEF q, SameFlags

(* A line that serialize_ may add.                                          *)
LEMMA MaybeLine ==
  ASSUME NEW r, Fits(r), NEW L \in Seq(Lines), TextOf(r) = Text(L),
         Says(TextOf(r), r.length), NEW line \in Lines, NEW c \in BOOLEAN
  PROVE  LET q == IF c THEN SetLine(r, line) ELSE r
             M == L \o (IF c THEN <<line>> ELSE <<>>) IN
         /\ Fits(q) /\ SameBody(r, q) /\ M \in Seq(Lines) /\ TextOf(q) = Text(M)
         /\ Says(TextOf(q), q.length)
         /\ IF c /\ GivesLength(line)
            THEN q.length = line.val /\ LastSays(TextOf(q), line.val)
            ELSE q.length = r.length
         /\ line.name # "connection" => q.hasConnection = r.hasConnection
<1>1. CASE c
  <2> DEFINE q == SetLine(r, line)
             M == L \o <<line>>
  <2>1. Fits(q) /\ SameBody(r, q)  BY SetLineFits
  <2>2. /\ TextOf(q) = TextOf(r) \o Written(line)
        /\ q.hasConnection = (r.hasConnection \/ line.name = "connection")
        /\ q.length = IF GivesLength(line) THEN line.val ELSE r.length
    BY SetLineWrites
  <2>3. M = Append(L, line) /\ M \in Seq(Lines)  BY AppendProperties, AppendIsConcat
  <2>4. Text(Append(L, line)) = Text(L) \o Written(line)  BY TextAppend
  <2>5. TextOf(r) \in Seq(Cell)  BY TextType
  <2> DEFINE s == TextOf(r)
  <2>6. /\ GivesLength(line) => LastSays(s \o Written(line), line.val)
        /\ ~GivesLength(line) => Says(s \o Written(line), r.length)
    <3> HIDE DEF s
    <3>1. s \in Seq(Cell) /\ Says(s, r.length)  BY <2>5 DEF s
    <3> QED  BY <3>1, SaysMore
  <2> HIDE DEF q, M
  <2>7. r.hasConnection \in BOOLEAN  BY DEF Fits, Response
  <2>8. Says(TextOf(q), q.length)  BY <2>2, <2>6 DEF Says
  <2> QED  BY <1>1, <2>1, <2>2, <2>3, <2>4, <2>6, <2>7, <2>8 DEF q, M
<1>2. CASE ~c
  <2>1. L \o <<>> = L  BY ConcatEmptySeq
  <2>2. SameBody(r, r)  BY DEF SameBody
  <2> QED  BY <1>2, <2>1, <2>2
<1> QED  BY <1>1, <1>2

(* The finished head: what was set, what was lacking, and a blank line.      *)
HeadOf(r) == SubSeq(r.cells, 1, r.headerSize)

LEMMA SerializedHead ==
  ASSUME NEW r, Fits(r), OneBody(r), NEW L \in Seq(Lines), TextOf(r) = Text(L),
         Says(TextOf(r), r.length)
  PROVE  LET q == Serialized(r) IN
         /\ \E type \in MayAdd("type", {IF r.isString THEN 0 ELSE 1}),
               connection \in MayAdd("connection", {0, 1}),
               length \in MayAdd("length", {Len(TakenFrom(r))}) :
              /\ HeadOf(q) = Text(L \o type \o connection \o length \o <<Line("blank", 0)>>)
              /\ type # <<>> <=> TakenFrom(r) # <<>> /\ ~r.hasType
              /\ connection # <<>> <=> ~r.hasConnection
              /\ length # <<>> <=> r.length = 0
         /\ LastSays(HeadOf(q), q.length)
         /\ q.length = (IF r.length = 0 THEN Len(TakenFrom(r)) ELSE r.length)
         /\ q.idx = 0
<1> DEFINE hasBody == Len(r.vector) + Len(r.string) > 0
           ta == ~r.hasType /\ hasBody
           la == Line("type", IF r.isString THEN 0 ELSE 1)
           ma == IF ta THEN <<la>> ELSE <<>>
           a == IF ta THEN SetLine(r, la) ELSE r
           tb == ~a.hasConnection
           lb == Line("connection", IF a.keepAlive THEN 0 ELSE 1)
           mb == IF tb THEN <<lb>> ELSE <<>>
           b == IF tb THEN SetLine(a, lb) ELSE a
           tc == LacksLength(b)
           lc == Line("length", Len(TakenFrom(b)))
           mc == IF tc THEN <<lc>> ELSE <<>>
           c == IF tc THEN SetLine(b, lc) ELSE b
           e == [c EXCEPT !.serialized = TRUE]
           ld == Line("blank", 0)
           d == Put(e, ld)
           q == [d EXCEPT !.headerSize = d.idx, !.idx = 0]
           La == L \o ma
           Lb == La \o mb
           Lc == Lb \o mc
           Ld == Lc \o <<ld>>
<1>1. Serialized(r) = q  BY DEF Serialized
<1>2. /\ r \in Response /\ r.string \in Seq(Bytes) /\ r.vector \in Seq(Bytes)
      /\ r.hasType \in BOOLEAN /\ r.hasConnection \in BOOLEAN /\ r.length \in Nat
  BY DEF Fits, Response
<1>3. TakenFrom(r) \in Seq(Bytes) /\ Len(TakenFrom(r)) \in Nat  BY <1>2, LengthOfBody
<1>4. hasBody <=> TakenFrom(r) # <<>>
  <2>1. Len(r.string) \in Nat /\ Len(r.vector) \in Nat  BY <1>2
  <2>2. Len(<<>>) = 0  OBVIOUS
  <2>3. /\ (r.string = <<>> <=> Len(r.string) = 0)
        /\ (r.vector = <<>> <=> Len(r.vector) = 0)
    BY <1>2, EmptySeq
  <2>4. CASE r.isString
    <3>1. r.vector = <<>> /\ TakenFrom(r) = r.string  BY <2>4 DEF OneBody, TakenFrom
    <3> QED  BY <2>1, <2>2, <2>3, <3>1
  <2>5. CASE ~r.isString
    <3>1. r.string = <<>> /\ TakenFrom(r) = r.vector  BY <2>5 DEF OneBody, TakenFrom
    <3> QED  BY <2>1, <2>2, <2>3, <3>1
  <2> QED  BY <2>4, <2>5
<1>5. la \in Lines /\ lb \in Lines /\ ld \in Lines /\ ~GivesLength(la) /\ ~GivesLength(lb)
      /\ ~GivesLength(ld) /\ la.name = "type"
  BY DEF Line, Lines, GivesLength
<1>6. /\ Fits(a) /\ SameBody(r, a) /\ La \in Seq(Lines) /\ TextOf(a) = Text(La)
      /\ Says(TextOf(a), a.length) /\ a.length = r.length
      /\ a.hasConnection = r.hasConnection
  <2> HIDE DEF la
  <2>1. ta \in BOOLEAN  OBVIOUS
  <2> HIDE DEF ta
  <2> QED  BY <1>5, <2>1, MaybeLine
<1>7. tb \in BOOLEAN /\ tb = ~r.hasConnection
  <2> HIDE DEF a
  <2> QED  BY <1>2, <1>6
<1> HIDE DEF a, La
<1>8. /\ Fits(b) /\ SameBody(a, b) /\ Lb \in Seq(Lines) /\ TextOf(b) = Text(Lb)
      /\ Says(TextOf(b), b.length) /\ b.length = a.length
  <2> HIDE DEF lb, tb
  <2>1. /\ Fits(a) /\ La \in Seq(Lines) /\ TextOf(a) = Text(La) /\ Says(TextOf(a), a.length)
        /\ lb \in Lines /\ tb \in BOOLEAN /\ ~GivesLength(lb)
    BY <1>5, <1>6, <1>7
  <2> QED  BY <2>1, MaybeLine
<1> HIDE DEF b, Lb
<1>9. TakenFrom(b) = TakenFrom(r)  BY <1>6, <1>8 DEF SameBody, TakenFrom
<1>10. /\ lc = Line("length", Len(TakenFrom(r))) /\ lc \in Lines /\ GivesLength(lc)
       /\ lc.val = Len(TakenFrom(r)) /\ tc \in BOOLEAN /\ tc = (r.length = 0)
  <2>1. tc = (r.length = 0)  BY <1>6, <1>8 DEF LacksLength
  <2>2. lc = Line("length", Len(TakenFrom(r)))  BY <1>9
  <2>3. lc \in Lines /\ GivesLength(lc) /\ lc.val = Len(TakenFrom(r))
    BY <1>3, <2>2 DEF Line, Lines, GivesLength, NotANumber
  <2> QED  BY <2>1, <2>2, <2>3
<1> HIDE DEF lc, tc
<1>11. /\ Fits(c) /\ SameBody(b, c) /\ Lc \in Seq(Lines) /\ TextOf(c) = Text(Lc)
       /\ Says(TextOf(c), c.length)
       /\ IF tc THEN c.length = lc.val /\ LastSays(TextOf(c), lc.val)
                ELSE c.length = b.length
  <2>1. /\ Fits(b) /\ Lb \in Seq(Lines) /\ TextOf(b) = Text(Lb) /\ Says(TextOf(b), b.length)
        /\ lc \in Lines /\ tc \in BOOLEAN
    BY <1>8, <1>10
  <2>2. /\ Fits(c) /\ SameBody(b, c) /\ Lc \in Seq(Lines) /\ TextOf(c) = Text(Lc)
        /\ Says(TextOf(c), c.length)
        /\ IF tc /\ GivesLength(lc) THEN c.length = lc.val /\ LastSays(TextOf(c), lc.val)
                                ELSE c.length = b.length
    BY <2>1, MaybeLine
  <2> HIDE DEF c, Lc
  <2> QED  BY <1>10, <2>2
<1> HIDE DEF c, Lc
<1>12. /\ c.length = (IF r.length = 0 THEN Len(TakenFrom(r)) ELSE r.length)
       /\ LastSays(TextOf(c), c.length)
  BY <1>6, <1>8, <1>10, <1>11 DEF Says
<1>13. Fits(e) /\ TextOf(e) = TextOf(c) /\ e.length = c.length
  BY <1>11 DEF Fits, Response, TextOf
<1> HIDE DEF e, ld
<1>14. /\ Fits(d) /\ TextOf(d) = TextOf(e) \o Written(ld) /\ d.length = e.length
  BY <1>5, <1>13, PutFits, PutWrites DEF SameFlags
<1> HIDE DEF d
<1>15. Ld = Append(Lc, ld) /\ Text(Ld) = TextOf(d)
  <2>1. Ld = Append(Lc, ld)  BY <1>5, <1>11, AppendIsConcat
  <2>2. Text(Append(Lc, ld)) = Text(Lc) \o Written(ld)  BY <1>5, <1>11, TextAppend
  <2> QED  BY <1>11, <1>13, <1>14, <2>1, <2>2
<1>16. LastSays(TextOf(d), d.length)
  <2> DEFINE s == TextOf(c)
  <2>1. s \in Seq(Cell)  BY <1>11, TextType
  <2> HIDE DEF s
  <2>2. LastSays(s, c.length) => LastSays(s \o Written(ld), c.length)
    BY <1>5, <2>1, SaysMore
  <2> QED  BY <1>12, <1>13, <1>14, <2>2 DEF s
<1>17. q.cells = d.cells /\ q.headerSize = d.idx /\ q.idx = 0 /\ q.length = d.length
  BY <1>14 DEF Fits, Response
<1> HIDE DEF q
<1>18. HeadOf(q) = TextOf(d)  BY <1>17 DEF HeadOf, TextOf
<1>19. /\ ma \in MayAdd("type", {IF r.isString THEN 0 ELSE 1}) /\ mb \in MayAdd("connection", {0, 1})
       /\ mc \in MayAdd("length", {Len(TakenFrom(r))})
  <2>1. \E v \in {IF r.isString THEN 0 ELSE 1} : la = Line("type", v)  OBVIOUS
  <2>2. \E v \in {0, 1} : lb = Line("connection", v)  OBVIOUS
  <2> HIDE DEF la, lb
  <2> QED  BY <1>10, <2>1, <2>2 DEF MayAdd
<1>20. Ld = L \o ma \o mb \o mc \o <<Line("blank", 0)>>
  BY DEF Ld, Lc, Lb, La, ld
<1>21. /\ ma # <<>> <=> ta
       /\ mb # <<>> <=> tb
       /\ mc # <<>> <=> tc
  <2> HIDE DEF la, lb, ta, tb
  <2>1. <<la>> # <<>> /\ <<lb>> # <<>> /\ <<lc>> # <<>>  OBVIOUS
  <2> QED  BY <2>1
<1>22. /\ ma # <<>> <=> TakenFrom(r) # <<>> /\ ~r.hasType
       /\ mb # <<>> <=> ~r.hasConnection
       /\ mc # <<>> <=> r.length = 0
  <2> HIDE DEF ma, mb, mc, hasBody, tb
  <2> QED  BY <1>4, <1>7, <1>10, <1>21
<1> HIDE DEF ma, mb, mc
<1> QED  BY <1>1, <1>12, <1>13, <1>14, <1>15, <1>16, <1>17, <1>18, <1>19, <1>20, <1>22

(* A body that was cut off or filled up once stays what it is then.           *)
LEMMA SaidBody ==
  ASSUME NEW r \in Response, NEW b \in Seq(Bytes), r.length = 0 => b = <<>>,
         TakenFrom(r) \in {b, Resized(b, r.length)}
  PROVE  LET q == AsLongAsSaid(r) IN
         /\ TakenFrom(q) = Resized(b, r.length)
         /\ q.length = r.length /\ q.cells = r.cells /\ q.idx = r.idx
         /\ q.headerSize = r.headerSize /\ q.bodyIdx = r.bodyIdx
<1> DEFINE q == AsLongAsSaid(r)
           n == r.length
           z == Resized(b, n)
<1>1. n \in Nat /\ r.string \in Seq(Bytes) /\ r.vector \in Seq(Bytes)
  BY DEF Response
<1>2. z \in Seq(Bytes) /\ Len(z) = n /\ (n = Len(b) => z = b)  BY <1>1, ResizedType
<1>3. Resized(z, n) = z
  <2> HIDE DEF z
  <2> QED  BY <1>1, <1>2, ResizedType
<1>4. Resized(TakenFrom(r), n) = z
  <2> HIDE DEF z, n
  <2> QED  BY <1>3 DEF z, n
<1> HIDE DEF z
<1>5. CASE n = 0 \/ n = Len(TakenFrom(r))
  <2>1. q = r  BY <1>5 DEF AsLongAsSaid
  <2>2. Len(<<>>) = 0  OBVIOUS
  <2>3. TakenFrom(r) = z  BY <1>2, <1>5, <2>2 DEF z
  <2> QED  BY <2>1, <2>3 DEF z
<1>6. CASE ~(n = 0 \/ n = Len(TakenFrom(r)))
  <2>1. CASE r.isString
    <3>1. q = [r EXCEPT !.string = Resized(r.string, n)]
      BY <1>6, <2>1 DEF AsLongAsSaid
    <3>2. TakenFrom(r) = r.string  BY <2>1 DEF TakenFrom
    <3>3. q = [r EXCEPT !.string = z]  BY <1>4, <3>1, <3>2
    <3> HIDE DEF q
    <3>4. /\ q.string = z /\ q.isString = r.isString /\ q.length = r.length
          /\ q.cells = r.cells /\ q.idx = r.idx
          /\ q.headerSize = r.headerSize /\ q.bodyIdx = r.bodyIdx
      BY <3>3 DEF Response
    <3> QED  BY <2>1, <3>4 DEF TakenFrom, z, q
  <2>2. CASE ~r.isString
    <3>1. q = [r EXCEPT !.vector = Resized(r.vector, n)]
      BY <1>6, <2>2 DEF AsLongAsSaid
    <3>2. TakenFrom(r) = r.vector  BY <2>2 DEF TakenFrom
    <3>3. q = [r EXCEPT !.vector = z]  BY <1>4, <3>1, <3>2
    <3> HIDE DEF q
    <3>4. /\ q.vector = z /\ q.isString = r.isString /\ q.length = r.length
          /\ q.cells = r.cells /\ q.idx = r.idx
          /\ q.headerSize = r.headerSize /\ q.bodyIdx = r.bodyIdx
      BY <3>3 DEF Response
    <3> QED  BY <2>2, <3>4 DEF TakenFrom, z, q
  <2> QED  BY <2>1, <2>2
<1> QED  BY <1>5, <1>6

-------------------------------------------------------------------------------
(* What the head says while fields are set, and afterwards; what of it, and   *)
(* of the body, this write has produced.                                    *)
SoFar == <<Line("status", 0)>> \o asked.lines
AskedFor == asked \in [lines : Seq(Lines), body : Seq(Bytes), text : BOOLEAN]

WhileSet ==
  /\ TextOf(res) = Text(SoFar) /\ Says(TextOf(res), res.length)
  /\ res.hasType <=> Has(asked.lines, "type")
  /\ res.hasConnection <=> Has(asked.lines, "connection")
  /\ res.length = 0 <=> ~Announced(asked.lines)
  /\ TakenFrom(res) = asked.body
  /\ asked.body # <<>> => res.isString = asked.text
  /\ head = <<>> /\ body = <<>>

HeadProduced ==
  /\ WholeHead(HeadOf(res)) /\ LastSays(HeadOf(res), res.length)
  /\ head = IF phase = "head" THEN TextOf(res) ELSE HeadOf(res)
  /\ phase # "head" => res.idx = 0

BodyProduced ==
  /\ res.length = 0 => asked.body = <<>>
  /\ TakenFrom(res) \in {asked.body, Resized(asked.body, res.length)}
  /\ phase # "body" => res.bodyIdx = 0
  /\ body = CASE phase = "head" -> <<>>
              [] phase = "body" -> SubSeq(TakenFrom(res), 1, res.bodyIdx)
              [] OTHER -> TakenFrom(res)
  /\ phase = "written" \/ res.bodyIdx > 0 =>
       TakenFrom(res) = Resized(asked.body, res.length)

TellsInv ==
  /\ AskedFor
  /\ IF phase = "set" THEN WhileSet ELSE HeadProduced /\ BodyProduced

LEMMA HasMore ==
  ASSUME NEW s \in Seq(Lines), NEW line \in Lines, NEW name
  PROVE  Has(Append(s, line), name) <=> Has(s, name) \/ line.name = name
<1> DEFINE t == Append(s, line)
           n == Len(s)
<1>1. /\ n \in Nat /\ t \in Seq(Lines) /\ Len(t) = n + 1 /\ t[n + 1] = line
      /\ \A i \in 1 .. n : t[i] = s[i]
  BY AppendProperties
<1>2. DOMAIN s = 1 .. n /\ DOMAIN t = 1 .. n + 1  BY <1>1
<1> HIDE DEF t, n
<1>3. \A i \in 1 .. n + 1 : i \in 1 .. n \/ i = n + 1  BY <1>1
<1>4. n + 1 \in 1 .. n + 1 /\ \A i \in 1 .. n : i \in 1 .. n + 1  BY <1>1
<1>5. Has(t, name) <=> Has(s, name) \/ line.name = name
  BY <1>1, <1>2, <1>3, <1>4 DEF Has
<1> QED  BY <1>5 DEF t

LEMMA AnnouncedMore ==
  ASSUME NEW s \in Seq(Lines), NEW line \in Lines
  PROVE  Announced(Append(s, line))
           <=> IF GivesLength(line) THEN line.val > 0 ELSE Announced(s)
<1> DEFINE t == Append(s, line)
           n == Len(s)
<1>1. /\ n \in Nat /\ t \in Seq(Lines) /\ Len(t) = n + 1 /\ t[n + 1] = line
      /\ \A i \in 1 .. n : t[i] = s[i]
  BY AppendProperties
<1>2. DOMAIN s = 1 .. n /\ DOMAIN t = 1 .. n + 1  BY <1>1
<1> DEFINE Counts(q, i, k) ==
             /\ GivesLength(q[i]) /\ q[i].val > 0 /\ \A j \in i + 1 .. k : ~GivesLength(q[j])
<1>3. /\ Announced(s) <=> \E i \in 1 .. n : Counts(s, i, n)
      /\ Announced(t) <=> \E i \in 1 .. n + 1 : Counts(t, i, n + 1)
  BY <1>1, <1>2 DEF Announced
<1> HIDE DEF t, n
<1>4. Counts(t, n + 1, n + 1) <=> GivesLength(line) /\ line.val > 0
  <2>1. (n + 1) + 1 .. n + 1 = {}  BY <1>1
  <2> QED  BY <1>1, <2>1
<1>5. ASSUME NEW i \in 1 .. n
      PROVE  Counts(t, i, n + 1) <=> Counts(s, i, n) /\ ~GivesLength(line)
  <2>1. i + 1 .. n + 1 = (i + 1 .. n) \cup {n + 1}  BY <1>1
  <2>2. \A j \in i + 1 .. n : t[j] = s[j]  BY <1>1
  <2>3. t[i] = s[i] /\ t[n + 1] = line  BY <1>1
  <2> QED  BY <2>1, <2>2, <2>3
<1>6. \A i : i \in 1 .. n + 1 <=> i \in 1 .. n \/ i = n + 1  BY <1>1
<1> HIDE DEF Counts
<1>7. Announced(t) <=> IF GivesLength(line) THEN line.val > 0 ELSE Announced(s)
  BY <1>3, <1>4, <1>5, <1>6
<1> QED  BY <1>7 DEF t

LEMMA TellsInit == Init => TellsInv
<1> SUFFICES ASSUME Init  PROVE TellsInv
  OBVIOUS
<1>1. PICK cap \in BufferSizes \cup {OwnSize} : res \in NewResponse(cap)
  BY DEF Init
<1>2. cap \in Nat  BY <1>1, ResponseAssumption
<1>3. PICK k \in BOOLEAN, s \in BOOLEAN :
        res = Put(Blank(cap, k, s), Line("status", 0))
  BY <1>1 DEF NewResponse
<1> DEFINE r == Blank(cap, k, s)
           l == Line("status", 0)
<1>4. Fits(r)
  <2>1. <<>> \in Seq(Cell) /\ <<>> \in Seq(Bytes) /\ Len(<<>>) = 0  OBVIOUS
  <2>2. r \in Response  BY <1>2, <2>1 DEF Response, Blank
  <2> QED  BY <1>2, <2>1, <2>2 DEF Fits, Blank
<1>5. l \in Lines /\ ~GivesLength(l)  BY DEF Line, Lines, GivesLength
<1>6. /\ r.cells = <<>> /\ r.idx = 0 /\ r.length = 0 /\ r.hasType = FALSE
      /\ r.hasConnection = FALSE /\ r.string = <<>> /\ r.vector = <<>>
  BY DEF Blank
<1>7. res = Put(r, l)  BY <1>3
<1> HIDE DEF r, l
<1>8. TextOf(r) = <<>>  BY <1>6 DEF TextOf
<1>9. /\ TextOf(res) = TextOf(r) \o Written(l) /\ SameFlags(r, res) /\ SameBody(r, res)
  BY <1>4, <1>5, <1>7, PutWrites, PutFits
<1>10. /\ asked.lines = <<>> /\ asked.body = <<>> /\ AskedFor /\ phase = "set"
       /\ head = <<>> /\ body = <<>>
  <2>1. asked = [lines |-> <<>>, body |-> <<>>, text |-> FALSE]  BY DEF Init
  <2>2. <<>> \in Seq(Lines) /\ <<>> \in Seq(Bytes)  OBVIOUS
  <2> QED  BY <2>1, <2>2 DEF Init, AskedFor
<1>11. TextOf(res) = Text(SoFar)
  <2>1. <<>> \in Seq(Lines) /\ Append(<<>>, l) = <<l>>  OBVIOUS
  <2>2. Text(<<>>) = <<>>
    <3> DEFINE q == [i \in DOMAIN <<>> |-> Written(<<>>[i])]
    <3>1. q = <<>>  OBVIOUS
    <3>2. Len(q) = 0  BY <3>1
    <3>3. FlattenSeq(q) = q  BY <3>2 DEF FlattenSeq
    <3> QED  BY <3>1, <3>3 DEF Text
  <2>3. Text(<<l>>) = <<>> \o Written(l)  BY <1>5, <2>1, <2>2, TextAppend
  <2>4. SoFar = <<l>>
    <3>1. <<l>> \in Seq(Lines)  BY <1>5
    <3>2. <<l>> \o <<>> = <<l>>  BY <3>1, ConcatEmptySeq
    <3> QED  BY <1>10, <3>2 DEF SoFar, l
  <2> QED  BY <1>8, <1>9, <2>3, <2>4
<1>12. Says(TextOf(res), res.length)
  <2> DEFINE t == <<>>
  <2>1. t \in Seq(Cell) /\ Silent(t)  BY DEF Silent
  <2>2. Says(t, 0)  BY <2>1 DEF Says
  <2>3. t = TextOf(r)  BY <1>8
  <2> HIDE DEF t
  <2>4. Says(t \o Written(l), 0)  BY <1>5, <2>1, <2>2, SaysMore
  <2> QED  BY <1>6, <1>9, <2>3, <2>4 DEF SameFlags
<1>13. /\ ~Has(asked.lines, "type") /\ ~Has(asked.lines, "connection")
       /\ ~Announced(asked.lines)
  BY <1>10 DEF Has, Announced
<1>14. /\ ~res.hasType /\ ~res.hasConnection /\ res.length = 0
  BY <1>6, <1>9 DEF SameFlags
<1>15. TakenFrom(res) = asked.body
  BY <1>6, <1>9, <1>10 DEF SameBody, TakenFrom
<1> QED  BY <1>10, <1>11, <1>12, <1>13, <1>14, <1>15 DEF TellsInv, WhileSet

LEMMA SetTells ==
  ASSUME IInv, TellsInv, NEW line \in Field, Set(line)
  PROVE  TellsInv'
<1>1. /\ phase = "set" /\ phase' = "set" /\ res' = SetLine(res, line)
      /\ asked' = [asked EXCEPT !.lines = Append(asked.lines, line)]
      /\ head' = head /\ body' = body
  BY DEF Set
<1>2. Fits(res) /\ WhileSet /\ AskedFor  BY <1>1 DEF IInv, TellsInv
<1>3. /\ line \in Lines /\ asked.lines \in Seq(Lines) /\ asked.body \in Seq(Bytes)
      /\ res.hasType \in BOOLEAN /\ res.hasConnection \in BOOLEAN
  BY <1>2, ResponseAssumption DEF AskedFor, Fits, Response
<1>4. /\ asked'.lines = Append(asked.lines, line) /\ asked'.body = asked.body
      /\ asked'.text = asked.text /\ AskedFor'
  <2>1. Append(asked.lines, line) \in Seq(Lines)  BY <1>3
  <2> QED  BY <1>1, <1>2, <2>1 DEF AskedFor
<1>5. /\ TextOf(res') = TextOf(res) \o Written(line)
      /\ res'.hasType = (res.hasType \/ line.name = "type")
      /\ res'.hasConnection = (res.hasConnection \/ line.name = "connection")
      /\ res'.length = (IF GivesLength(line) THEN line.val ELSE res.length)
  BY <1>1, <1>2, <1>3, SetLineWrites
<1>6. SoFar \in Seq(Lines) /\ SoFar' = Append(SoFar, line)
  <2> DEFINE a == <<Line("status", 0)>>
  <2>1. a \in Seq(Lines)
    <3>1. Line("status", 0) \in Lines  BY DEF Line, Lines
    <3> QED  BY <3>1
  <2> DEFINE b == asked.lines
             c == <<line>>
  <2>2. b \in Seq(Lines) /\ c \in Seq(Lines)  BY <1>3
  <2>3. Append(b, line) = b \o c  BY <1>3, AppendIsConcat
  <2>4. a \o b \in Seq(Lines)  BY <2>1, <2>2, ConcatProperties
  <2>5. Append(a \o b, line) = (a \o b) \o c
    <3> DEFINE d == a \o b
    <3> HIDE DEF a, b, d
    <3>1. d \in Seq(Lines)  BY <2>4 DEF d
    <3>2. Append(d, line) = d \o c  BY <1>3, <3>1, AppendIsConcat
    <3> QED  BY <3>2 DEF d
  <2>6. (a \o b) \o c = a \o (b \o c)
    <3> HIDE DEF a, b, c
    <3> QED  BY <2>1, <2>2, Grouped
  <2>7. SoFar = a \o b /\ SoFar' = a \o Append(b, line)  BY <1>4 DEF SoFar
  <2> HIDE DEF a, b, c
  <2> QED  BY <2>3, <2>4, <2>5, <2>6, <2>7
<1>7. TextOf(res)' = Text(SoFar)'
  <2>1. Text(Append(SoFar, line)) = Text(SoFar) \o Written(line)
    BY <1>3, <1>6, TextAppend
  <2>2. Text(SoFar)' = Text(Append(SoFar, line))  BY <1>6 DEF Text
  <2>3. TextOf(res)' = TextOf(res')  BY DEF TextOf
  <2> QED  BY <1>2, <1>5, <2>1, <2>2, <2>3 DEF WhileSet
<1>8. Says(TextOf(res), res.length)'
  <2> DEFINE s == TextOf(res)
             n == res.length
  <2>1. s \in Seq(Cell) /\ Says(s, n)
    <3>1. Text(SoFar) \in Seq(Cell)  BY <1>6, TextType
    <3> QED  BY <1>2, <3>1 DEF WhileSet
  <2> HIDE DEF s, n
  <2>2. /\ GivesLength(line) => LastSays(s \o Written(line), line.val)
        /\ ~GivesLength(line) => Says(s \o Written(line), n)
    BY <1>3, <2>1, SaysMore
  <2>3. Says(TextOf(res'), res'.length)
    BY <1>5, <2>2 DEF Says, s, n
  <2> QED  BY <2>3 DEF TextOf, Says, Silent, LastSays
<1>9. ASSUME NEW name
      PROVE  Has(asked.lines, name)' <=> Has(asked.lines, name) \/ line.name = name'
  <2>1. Has(Append(asked.lines, line), name') <=> Has(asked.lines, name') \/ line.name = name'
    BY <1>3, HasMore
  <2> QED  BY <1>4, <2>1 DEF Has
<1>10. /\ (res.hasType <=> Has(asked.lines, "type"))'
       /\ (res.hasConnection <=> Has(asked.lines, "connection"))'
  <2>1. /\ res.hasType <=> Has(asked.lines, "type")
        /\ res.hasConnection <=> Has(asked.lines, "connection")
    BY <1>2 DEF WhileSet
  <2>2. /\ Has(asked.lines, "type")' <=> Has(asked.lines, "type") \/ line.name = "type"
        /\ Has(asked.lines, "connection")'
             <=> Has(asked.lines, "connection") \/ line.name = "connection"
    BY <1>9
  <2> QED  BY <1>3, <1>5, <2>1, <2>2
<1>11. (res.length = 0 <=> ~Announced(asked.lines))'
  <2>1. res.length = 0 <=> ~Announced(asked.lines)  BY <1>2 DEF WhileSet
  <2>2. Announced(Append(asked.lines, line))
          <=> IF GivesLength(line) THEN line.val > 0 ELSE Announced(asked.lines)
    BY <1>3, AnnouncedMore
  <2>3. Announced(asked.lines)' <=> Announced(Append(asked.lines, line))
    BY <1>4 DEF Announced
  <2>4. CASE GivesLength(line)
    <3>1. line.val \in Nat  BY <1>3, <2>4 DEF GivesLength, Lines
    <3>2. res'.length = line.val  BY <1>5, <2>4
    <3>3. line.val > 0 <=> line.val # 0  BY <3>1
    <3> QED  BY <2>2, <2>3, <2>4, <3>2, <3>3
  <2>5. CASE ~GivesLength(line)
    <3>1. res'.length = res.length  BY <1>5, <2>5
    <3> QED  BY <2>1, <2>2, <2>3, <2>5, <3>1
  <2> QED  BY <2>4, <2>5
<1>15. SameBody(res, res')  BY <1>1, <1>2, <1>3, SetLineFits
<1>12. TakenFrom(res)' = asked.body'
  <2> QED  BY <1>2, <1>4, <1>15 DEF SameBody, TakenFrom, WhileSet
<1>13. head' = <<>> /\ body' = <<>>  BY <1>1, <1>2 DEF WhileSet
<1>16. (asked.body # <<>> => res.isString = asked.text)'
  BY <1>2, <1>4, <1>15 DEF SameBody, WhileSet
<1>14. WhileSet'  BY <1>7, <1>8, <1>10, <1>11, <1>12, <1>13, <1>16 DEF WhileSet
<1> QED  BY <1>1, <1>4, <1>14 DEF TellsInv

LEMMA SetBodyTells ==
  ASSUME IInv, TellsInv, NEW b \in Body, NEW s \in BOOLEAN, SetBody(b, s)
  PROVE  TellsInv'
<1> DEFINE t == IF s THEN b ELSE <<>>
           v == IF s THEN <<>> ELSE b
<1>1. /\ phase = "set" /\ phase' = "set" /\ res' = WithBody(res, b, s)
      /\ asked' = [asked EXCEPT !.body = b, !.text = s] /\ head' = head /\ body' = body
  BY DEF SetBody
<1>2. res \in Response /\ WhileSet /\ AskedFor  BY <1>1 DEF IInv, TellsInv, Fits
<1>3. b \in Seq(Bytes)
  <2>1. b \in Seq(STRING)  BY ResponseAssumption
  <2>2. STRING \subseteq Bytes  BY Zenon DEF Bytes
  <2> QED  BY <2>1, <2>2, SeqMonotonic
<1>4. asked'.lines = asked.lines /\ asked'.body = b /\ asked'.text = s /\ AskedFor'
  BY <1>1, <1>2, <1>3 DEF AskedFor
<1>5. res' = [res EXCEPT !.string = t, !.vector = v, !.isString = s]
  BY <1>1 DEF WithBody
<1>6. b = IF s THEN t ELSE v  OBVIOUS
<1> HIDE DEF t, v
<1>7. /\ res'.cells = res.cells /\ res'.idx = res.idx /\ res'.length = res.length
      /\ res'.hasType = res.hasType /\ res'.hasConnection = res.hasConnection
      /\ res'.string = t /\ res'.vector = v /\ res'.isString = s
  BY <1>2, <1>5 DEF Response
<1>8. TakenFrom(res)' = asked'.body  BY <1>4, <1>6, <1>7 DEF TakenFrom
<1>9. WhileSet'
  <2>1. /\ TextOf(res)' = TextOf(res) /\ Text(SoFar)' = Text(SoFar)
        /\ Says(TextOf(res), res.length)' <=> Says(TextOf(res), res.length)
        /\ Has(asked.lines, "type")' <=> Has(asked.lines, "type")
        /\ Has(asked.lines, "connection")' <=> Has(asked.lines, "connection")
        /\ Announced(asked.lines)' <=> Announced(asked.lines)
    BY <1>4, <1>7 DEF TextOf, Text, SoFar, Says, Silent, LastSays, Has, Announced
  <2>2. (asked.body # <<>> => res.isString = asked.text)'  BY <1>4, <1>7
  <2> QED  BY <1>1, <1>2, <1>7, <1>8, <2>1, <2>2 DEF WhileSet
<1> QED  BY <1>1, <1>4, <1>9 DEF TellsInv

(* The first time, produce completes the head.                              *)
LEMMA HeadCompleted ==
  ASSUME IInv, AskedFor, WhileSet, phase = "set"
  PROVE  LET q == Serialized(res) IN
         /\ Fits(q) /\ Closed(q) /\ q.idx = 0 /\ q.bodyIdx = 0
         /\ WholeHead(HeadOf(q)) /\ LastSays(HeadOf(q), q.length)
         /\ q.length = 0 => asked.body = <<>>
         /\ TakenFrom(q) = asked.body
<1> DEFINE q == Serialized(res)
<1>1. /\ Fits(res) /\ OneBody(res) /\ TextOf(res) = Text(SoFar)
      /\ Says(TextOf(res), res.length) /\ TakenFrom(res) = asked.body
      /\ res.bodyIdx = 0 /\ asked.lines \in Seq(Lines) /\ asked.body \in Seq(Bytes)
  BY DEF IInv, BodyFits, Open, WhileSet, AskedFor
<1>2. SoFar \in Seq(Lines)
  <2>1. Line("status", 0) \in Lines  BY DEF Line, Lines
  <2>2. <<Line("status", 0)>> \in Seq(Lines)  BY <2>1
  <2> QED  BY <1>1, <2>2, ConcatProperties DEF SoFar
<1>3. /\ Fits(q) /\ Closed(q) /\ q.string = res.string /\ q.vector = res.vector
      /\ q.isString = res.isString /\ q.bodyIdx = res.bodyIdx
  BY <1>1, SerializedFits
<1>4. /\ LastSays(HeadOf(q), q.length) /\ q.idx = 0
      /\ q.length = (IF res.length = 0 THEN Len(TakenFrom(res)) ELSE res.length)
  BY <1>1, <1>2, SerializedHead
<1>5. PICK type \in MayAdd("type", {IF res.isString THEN 0 ELSE 1}),
           connection \in MayAdd("connection", {0, 1}),
           length \in MayAdd("length", {Len(TakenFrom(res))}) :
        /\ HeadOf(q) = Text(SoFar \o type \o connection \o length \o <<Line("blank", 0)>>)
        /\ type # <<>> <=> TakenFrom(res) # <<>> /\ ~res.hasType
        /\ connection # <<>> <=> ~res.hasConnection
        /\ length # <<>> <=> res.length = 0
  BY <1>1, <1>2, SerializedHead
<1> HIDE DEF q
<1>6. length \in MayAdd("length", {Len(asked.body)})  BY <1>1
<1>7. /\ type # <<>> <=> asked.body # <<>> /\ ~Has(asked.lines, "type")
      /\ connection # <<>> <=> ~Has(asked.lines, "connection")
      /\ length # <<>> <=> ~Announced(asked.lines)
  BY <1>1, <1>5 DEF WhileSet
<1>11. type \in MayAdd("type", {IF asked.text THEN 0 ELSE 1})
  <2>1. CASE type = <<>>  BY <2>1 DEF MayAdd
  <2>2. CASE type # <<>>
    <3>1. res.isString = asked.text  BY <1>7, <2>2 DEF WhileSet
    <3> QED  BY <1>5, <3>1
  <2> QED  BY <2>1, <2>2
<1>8. WholeHead(HeadOf(q))
  <2>1. HeadOf(q) = Text(<<Line("status", 0)>> \o asked.lines \o type \o connection
                           \o length \o <<Line("blank", 0)>>)
    BY <1>5 DEF SoFar
  <2> QED  BY <1>5, <1>6, <1>7, <1>11, <2>1 DEF WholeHead
<1>9. q.length = 0 => asked.body = <<>>
  <2>1. Len(asked.body) = 0 => asked.body = <<>>  BY <1>1, EmptySeq
  <2> QED  BY <1>1, <1>4, <2>1
<1>10. TakenFrom(q) = asked.body  BY <1>1, <1>3 DEF TakenFrom
<1> QED  BY <1>1, <1>3, <1>4, <1>8, <1>9, <1>10 DEF q

LEMMA ProduceHeaderTells ==
  ASSUME IInv, TellsInv, NEW room \in Spans, ProduceHeader(room)
  PROVE  TellsInv'
<1> DEFINE r == IF res.serialized THEN res ELSE Serialized(res)
           n == Smaller(room, r.headerSize - r.idx)
           end == r.idx + n
           i == Rewound(end, r.headerSize)
<1>1. /\ phase \in {"set", "head"} /\ res' = [r EXCEPT !.idx = i]
      /\ phase' = (IF end >= r.headerSize THEN "body" ELSE "head")
      /\ head' = head \o SubSeq(r.cells, r.idx + 1, end)
      /\ asked' = asked /\ body' = body
  BY DEF ProduceHeader
<1>2. AskedFor  BY DEF TellsInv
<1>3. /\ Fits(r) /\ Closed(r) /\ r.bodyIdx = 0 /\ WholeHead(HeadOf(r))
      /\ LastSays(HeadOf(r), r.length)
      /\ r.length = 0 => asked.body = <<>>
      /\ TakenFrom(r) \in {asked.body, Resized(asked.body, r.length)}
      /\ head = TextOf(r) /\ body = <<>>
  <2>1. CASE phase = "set"
    <3>1. WhileSet /\ ~res.serialized  BY <2>1 DEF TellsInv, IInv, Open
    <3>2. r = Serialized(res)  BY <3>1
    <3>3. head = <<>> /\ body = <<>>  BY <3>1 DEF WhileSet
    <3> HIDE DEF r
    <3>4. /\ Fits(r) /\ Closed(r) /\ r.idx = 0 /\ r.bodyIdx = 0
          /\ WholeHead(HeadOf(r)) /\ LastSays(HeadOf(r), r.length)
          /\ r.length = 0 => asked.body = <<>>
          /\ TakenFrom(r) = asked.body
      BY <1>2, <2>1, <3>1, <3>2, HeadCompleted
    <3>5. TextOf(r) = <<>>
      <4>1. r.cells \in Seq(Cell)  BY <3>4 DEF Fits, Response
      <4>2. SubSeq(r.cells, 1, 0) = <<>>  BY <4>1
      <4> QED  BY <3>4, <4>2 DEF TextOf
    <3> QED  BY <3>3, <3>4, <3>5
  <2>2. CASE phase = "head"
    <3>1. Fits(res) /\ Closed(res) /\ HeadProduced /\ BodyProduced /\ res.serialized
      BY <2>2 DEF IInv, TellsInv, Closed
    <3>2. r = res  BY <3>1
    <3> HIDE DEF r
    <3> QED  BY <2>2, <3>1, <3>2 DEF HeadProduced, BodyProduced
  <2> QED  BY <1>1, <2>1, <2>2
<1> HIDE DEF r
<1>4. /\ r \in Response /\ r.cells \in Seq(Cell) /\ r.idx \in Nat /\ r.headerSize \in Nat
      /\ r.idx <= r.headerSize /\ r.headerSize <= Len(r.cells) /\ Len(r.cells) \in Nat
      /\ room \in Nat
  BY <1>3, ResponseAssumption DEF Fits, Closed, Response
<1>5. end \in Nat /\ r.idx <= end /\ end <= r.headerSize
  BY <1>4 DEF Smaller
<1>6. i = IF end = r.headerSize THEN 0 ELSE end
  BY <1>4, <1>5 DEF Rewound
<1> HIDE DEF end, i
<1>7. head' = SubSeq(r.cells, 1, end)
  <2>1. SubSeq(r.cells, 1, r.idx) \o SubSeq(r.cells, r.idx + 1, end) = SubSeq(r.cells, 1, end)
    <3>1. end <= Len(r.cells)  BY <1>4, <1>5
    <3> QED  BY <1>4, <1>5, <3>1, NextPiece
  <2> QED  BY <1>1, <1>3, <2>1 DEF TextOf
<1>8. /\ res'.cells = r.cells /\ res'.idx = i /\ res'.headerSize = r.headerSize
      /\ res'.length = r.length /\ res'.bodyIdx = r.bodyIdx
      /\ res'.string = r.string /\ res'.vector = r.vector /\ res'.isString = r.isString
  BY <1>1, <1>4 DEF Response
<1>9. phase' = IF end = r.headerSize THEN "body" ELSE "head"
  BY <1>1, <1>4, <1>5
<1>10. HeadProduced'
  <2>1. HeadOf(res)' = HeadOf(r)  BY <1>8 DEF HeadOf
  <2>2. WholeHead(HeadOf(res))'
    BY <1>1, <1>3, <2>1 DEF WholeHead
  <2>3. LastSays(HeadOf(res), res.length)'  BY <1>3, <1>8, <2>1 DEF LastSays
  <2>4. CASE end = r.headerSize
    <3>1. phase' = "body" /\ i = 0 /\ head' = HeadOf(r)  BY <1>6, <1>7, <1>9, <2>4 DEF HeadOf
    <3> QED  BY <1>8, <2>1, <2>2, <2>3, <3>1 DEF HeadProduced
  <2>5. CASE end # r.headerSize
    <3>1. phase' = "head" /\ i = end  BY <1>6, <1>9, <2>5
    <3>2. head' = TextOf(res)'  BY <1>7, <1>8, <3>1 DEF TextOf
    <3> QED  BY <1>8, <2>2, <2>3, <3>1, <3>2 DEF HeadProduced
  <2> QED  BY <2>4, <2>5
<1>11. BodyProduced'
  <2>1. TakenFrom(res)' = TakenFrom(r)  BY <1>8 DEF TakenFrom
  <2>2. res'.length = 0 => asked'.body = <<>>  BY <1>1, <1>3, <1>8
  <2>3. TakenFrom(res)' \in {asked'.body, Resized(asked.body, res.length)'}
    BY <1>1, <1>3, <1>8, <2>1 DEF Resized
  <2>4. res'.bodyIdx = 0 /\ phase' \in {"body", "head"}  BY <1>3, <1>8, <1>9
  <2>5. body' = <<>>  BY <1>1, <1>3
  <2>6. SubSeq(TakenFrom(res)', 1, 0) = <<>>
    <3>1. TakenFrom(r) \in Seq(Bytes)  BY <1>4, LengthOfBody
    <3> DEFINE b == TakenFrom(r)
    <3> HIDE DEF b
    <3>2. SubSeq(b, 1, 0) = <<>>  BY <3>1 DEF b
    <3> QED  BY <2>1, <3>2 DEF b
  <2>7. CASE phase' = "body"
    <3>1. body' = SubSeq(TakenFrom(res), 1, res.bodyIdx)'  BY <2>4, <2>5, <2>6
    <3> QED  BY <2>2, <2>3, <2>4, <2>7, <3>1 DEF BodyProduced
  <2>8. CASE phase' = "head"
    BY <2>2, <2>3, <2>4, <2>5, <2>8 DEF BodyProduced
  <2> QED  BY <2>4, <2>7, <2>8
<1>12. phase' # "set" /\ AskedFor'  BY <1>1, <1>2, <1>9 DEF AskedFor
<1> QED  BY <1>10, <1>11, <1>12 DEF TellsInv

LEMMA ProduceBodyTells ==
  ASSUME IInv, TellsInv, NEW room \in Spans, ProduceBody(room)
  PROVE  TellsInv'
<1> DEFINE r == AsLongAsSaid(res)
           b == TakenFrom(r)
           k == r.bodyIdx
           n == Smaller(room, Len(b) - k)
           end == k + n
           i == Rewound(end, Len(b))
<1>1. /\ phase = "body" /\ res' = [r EXCEPT !.bodyIdx = i]
      /\ body' = body \o SubSeq(b, k + 1, end)
      /\ phase' = (IF end >= Len(b) THEN "written" ELSE "body")
      /\ head' = head /\ asked' = asked
  BY DEF ProduceBody
<1>2. /\ AskedFor /\ HeadProduced /\ BodyProduced /\ Fits(res) /\ Closed(res)
      /\ BodyFits(res) /\ asked.body \in Seq(Bytes) /\ res \in Response
  BY <1>1 DEF IInv, TellsInv, AskedFor, Fits
<1>3. /\ b = Resized(asked.body, res.length)
      /\ r.length = res.length /\ r.cells = res.cells /\ r.idx = res.idx
      /\ r.headerSize = res.headerSize /\ k = res.bodyIdx
  BY <1>2, SaidBody DEF BodyProduced
<1>4. Fits(r) /\ r \in Response /\ k <= Len(b)
  BY <1>2, SaidLength DEF Fits
<1>5. body = SubSeq(b, 1, k)
  <2>1. body = SubSeq(TakenFrom(res), 1, res.bodyIdx)  BY <1>1, <1>2 DEF BodyProduced
  <2>2. CASE res.bodyIdx > 0
    <3>1. TakenFrom(res) = b  BY <1>2, <1>3, <2>2 DEF BodyProduced
    <3> QED  BY <1>3, <2>1, <3>1
  <2>3. CASE res.bodyIdx = 0
    <3> DEFINE x == TakenFrom(res)
    <3>1. x \in Seq(Bytes) /\ b \in Seq(Bytes)  BY <1>2, <1>4, LengthOfBody
    <3> HIDE DEF x, b
    <3>2. SubSeq(x, 1, 0) = <<>> /\ SubSeq(b, 1, 0) = <<>>  BY <3>1
    <3> QED  BY <1>3, <2>1, <2>3, <3>2 DEF x
  <2>4. res.bodyIdx \in Nat  BY <1>2 DEF Response
  <2> QED  BY <2>2, <2>3, <2>4
<1> HIDE DEF r
<1>6. b \in Seq(Bytes) /\ Len(b) \in Nat /\ k \in Nat /\ room \in Nat
  BY <1>4, LengthOfBody, ResponseAssumption DEF Response
<1> HIDE DEF b, k
<1>7. end \in Nat /\ k <= end /\ end <= Len(b)
  BY <1>4, <1>6 DEF Smaller
<1>8. i = IF end = Len(b) THEN 0 ELSE end
  BY <1>6, <1>7 DEF Rewound
<1> HIDE DEF end, i
<1>9. body' = SubSeq(b, 1, end)
  <2>1. SubSeq(b, 1, k) \o SubSeq(b, k + 1, end) = SubSeq(b, 1, end)
    BY <1>6, <1>7, NextPiece
  <2> QED  BY <1>1, <1>5, <2>1
<1>10. /\ res'.cells = res.cells /\ res'.idx = res.idx /\ res'.headerSize = res.headerSize
       /\ res'.length = res.length /\ res'.bodyIdx = i
       /\ res'.string = r.string /\ res'.vector = r.vector /\ res'.isString = r.isString
  BY <1>1, <1>3, <1>4 DEF Response
<1>11. /\ phase' = (IF end = Len(b) THEN "written" ELSE "body") /\ phase' # "head"
  BY <1>1, <1>6, <1>7
<1>12. HeadProduced'
  <2>1. HeadOf(res)' = HeadOf(res)  BY <1>10 DEF HeadOf
  <2>2. WholeHead(HeadOf(res))'
    BY <1>1, <1>2, <2>1 DEF WholeHead, HeadProduced
  <2>3. LastSays(HeadOf(res), res.length)'
    BY <1>2, <1>10, <2>1 DEF LastSays, HeadProduced
  <2>4. head' = HeadOf(res)' /\ res'.idx = 0
    BY <1>1, <1>2, <1>10, <2>1 DEF HeadProduced
  <2> QED  BY <1>11, <2>2, <2>3, <2>4 DEF HeadProduced
<1>13. BodyProduced'
  <2>1. TakenFrom(res)' = b  BY <1>10 DEF TakenFrom, b
  <2>2. b = Resized(asked.body, res.length)'  BY <1>1, <1>3, <1>10 DEF Resized
  <2>3. res'.length = 0 => asked'.body = <<>>  BY <1>1, <1>2, <1>10 DEF BodyProduced
  <2>4. CASE end = Len(b)
    <3>1. phase' = "written" /\ res'.bodyIdx = 0  BY <1>8, <1>10, <1>11, <2>4
    <3>2. body' = TakenFrom(res)'
      <4>1. SubSeq(b, 1, Len(b)) = b  BY <1>6, SubSeqFull
      <4> QED  BY <1>9, <2>1, <2>4, <4>1
    <3> QED  BY <2>1, <2>2, <2>3, <3>1, <3>2 DEF BodyProduced
  <2>5. CASE end # Len(b)
    <3>1. phase' = "body" /\ res'.bodyIdx = end  BY <1>8, <1>10, <1>11, <2>5
    <3>2. body' = SubSeq(TakenFrom(res), 1, res.bodyIdx)'  BY <1>9, <2>1, <3>1
    <3> QED  BY <2>1, <2>2, <2>3, <3>1, <3>2 DEF BodyProduced
  <2> QED  BY <2>4, <2>5
<1>14. phase' # "set" /\ AskedFor'  BY <1>1, <1>2, <1>11 DEF AskedFor
<1> QED  BY <1>12, <1>13, <1>14 DEF TellsInv

LEMMA WriteAgainTells ==
  ASSUME IInv, TellsInv, WriteAgain
  PROVE  TellsInv'
<1>1. /\ phase = "written" /\ phase' = "head" /\ head' = <<>> /\ body' = <<>>
      /\ res' = res /\ asked' = asked
  BY DEF WriteAgain
<1>2. HeadProduced /\ BodyProduced /\ AskedFor /\ res \in Response
  BY <1>1 DEF TellsInv, IInv, Fits
<1>3. TextOf(res) = <<>>
  <2>1. res.cells \in Seq(Cell) /\ res.idx = 0  BY <1>1, <1>2 DEF Response, HeadProduced
  <2>2. SubSeq(res.cells, 1, 0) = <<>>  BY <2>1
  <2> QED  BY <2>1, <2>2 DEF TextOf
<1>4. HeadProduced'
  <2>1. /\ HeadOf(res)' = HeadOf(res) /\ TextOf(res)' = TextOf(res)
    BY <1>1 DEF HeadOf, TextOf
  <2>2. WholeHead(HeadOf(res))'
    BY <1>1, <1>2, <2>1 DEF WholeHead, HeadProduced
  <2>3. LastSays(HeadOf(res), res.length)'
    BY <1>1, <1>2, <2>1 DEF LastSays, HeadProduced
  <2> QED  BY <1>1, <1>3, <2>1, <2>2, <2>3 DEF HeadProduced
<1>5. BodyProduced'
  <2>1. TakenFrom(res)' = TakenFrom(res)  BY <1>1 DEF TakenFrom
  <2>2. Resized(asked.body, res.length)' = Resized(asked.body, res.length)
    BY <1>1 DEF Resized
  <2>3. res.bodyIdx = 0  BY <1>1, <1>2 DEF BodyProduced
  <2> QED  BY <1>1, <1>2, <2>1, <2>2, <2>3 DEF BodyProduced
<1> QED  BY <1>1, <1>2, <1>4, <1>5 DEF TellsInv, AskedFor

LEMMA StutterTells ==
  ASSUME TellsInv, UNCHANGED vars
  PROVE  TellsInv'
<1>1. /\ phase' = phase /\ head' = head /\ body' = body /\ res' = res /\ asked' = asked
  BY DEF vars
<1>2. /\ HeadOf(res)' = HeadOf(res) /\ TextOf(res)' = TextOf(res)
      /\ TakenFrom(res)' = TakenFrom(res)
      /\ Resized(asked.body, res.length)' = Resized(asked.body, res.length)
      /\ Text(SoFar)' = Text(SoFar)
  BY <1>1 DEF HeadOf, TextOf, TakenFrom, Resized, Text, SoFar
<1>3. ASSUME HeadProduced, BodyProduced  PROVE HeadProduced' /\ BodyProduced'
  <2>1. WholeHead(HeadOf(res))'
    BY <1>1, <1>2, <1>3 DEF WholeHead, HeadProduced
  <2>2. LastSays(HeadOf(res), res.length)'
    BY <1>1, <1>2, <1>3 DEF LastSays, HeadProduced
  <2>3. HeadProduced'  BY <1>1, <1>2, <1>3, <2>1, <2>2 DEF HeadProduced
  <2>4. BodyProduced'  BY <1>1, <1>2, <1>3 DEF BodyProduced
  <2> QED  BY <2>3, <2>4
<1>4. ASSUME WhileSet  PROVE WhileSet'
  BY <1>1, <1>2, <1>4 DEF WhileSet, Says, Silent, LastSays, Has, Announced
<1> QED  BY <1>1, <1>3, <1>4 DEF TellsInv, AskedFor

LEMMA NextTells == IInv /\ TellsInv /\ [Next]_vars => TellsInv'
<1> SUFFICES ASSUME IInv, TellsInv, [Next]_vars  PROVE TellsInv'
  OBVIOUS
<1>1. CASE \E line \in Field : Set(line)
  BY <1>1, SetTells
<1>2. CASE \E b \in Body, s \in BOOLEAN : SetBody(b, s)
  BY <1>2, SetBodyTells
<1>3. CASE \E room \in Spans : ProduceHeader(room) \/ ProduceBody(room)
  BY <1>3, ProduceHeaderTells, ProduceBodyTells
<1>4. CASE WriteAgain
  BY <1>4, WriteAgainTells
<1>5. CASE UNCHANGED vars
  BY <1>5, StutterTells
<1> QED  BY <1>1, <1>2, <1>3, <1>4, <1>5 DEF Next

LEMMA AlwaysTells == Spec => [](IInv /\ TellsInv)
BY InitHolds, NextKeeps, TellsInit, NextTells, PTL DEF Spec

(* Whatever is set, however often the buffer of the head grows and in         *)
(* whatever pieces it is produced, once or again: the head is the status      *)
(* line, the fields in the order they were set, those of type, connection and *)
(* length that serialize_ found lacking, and a blank line; with the type of   *)
(* the body that was set, whatever isBodyString_ held at first.              *)
THEOREM HeadsAreWhole == Spec => []HeadIsWhole
<1>1. TellsInv => HeadIsWhole
  <2> SUFFICES ASSUME TellsInv, phase \in {"body", "written"}  PROVE WholeHead(head)
    BY DEF HeadIsWhole, Produced
  <2>1. HeadProduced  BY DEF TellsInv
  <2> QED  BY <2>1 DEF HeadProduced
<1> QED  BY <1>1, AlwaysTells, PTL

(* The body is the one that was set, cut off or filled up to the last number  *)
(* that the head gives as its length.                                       *)
THEOREM BodiesAreAsAnnounced == Spec => []BodyAsAnnounced
<1>1. TellsInv => BodyAsAnnounced
  <2> SUFFICES ASSUME TellsInv, phase = "written"
               PROVE  \E i \in DOMAIN head :
                        /\ SaysLength(head[i])
                        /\ \A j \in i + 1 .. Len(head) : ~SaysLength(head[j])
                        /\ body = Resized(asked.body, head[i].line.val)
    BY DEF BodyAsAnnounced
  <2>1. HeadProduced /\ BodyProduced  BY DEF TellsInv
  <2>2. LastSays(head, res.length)  BY <2>1 DEF HeadProduced
  <2>3. body = Resized(asked.body, res.length)  BY <2>1 DEF BodyProduced
  <2> QED  BY <2>2, <2>3 DEF LastSays
<1> QED  BY <1>1, AlwaysTells, PTL
===============================================================================
