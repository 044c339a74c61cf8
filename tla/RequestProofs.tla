----------------------------- MODULE RequestProofs -----------------------------
(***************************************************************************)
(* Proofs about a request.  HeadScan: on every stream of bytes, of any       *)
(* length, the search for the end of the head and the parser agree.          *)
(* RequestText: on every text, what phr_parse_request has decided stays so    *)
(* when more comes behind it, and what it finds lies in order in the text;    *)
(* and so HeadText: what the buffer holds behind a head is not read, and the  *)
(* views that a request keeps are in the bytes it received.  ChunkedBody: for *)
(* every stream of bytes and however it arrives, the growth of body_ and the  *)
(* decoder's test of its overhead do what they are there for, and a body that *)
(* comes as the encoding of one is that one.                                *)
(***************************************************************************)
EXTENDS HeadText, ChunkedBody, OperatorProofs, FiniteSetTheorems

States == {"START", "START_LF", "LINE", "LINE_END", "LINE_LF", "FIELDS", "FIELD_END",
           "FIELD_LF", "END_LF", "DONE", "ERROR"}

(* Sets another state and nothing else: what most of the parser's steps do.  *)
Moved(p, q, st) == q \in Parser /\ q.st = st /\ q.used = p.used

LEMMA FieldTokens ==
  /\ FieldToken = {"CL0", "CL1", "CL2", "CL9", "CLbad", "TE", "FLD"}
  /\ Line \cup {"CR", "LF"} \cup FieldToken \subseteq Token
BY DEF FieldToken, ContentLength, Token, Octet

LEMMA ToMoves ==
  ASSUME NEW p \in Parser, NEW st \in States
  PROVE  Moved(p, To(p, st), st)
BY DEF Parser, To, States, Moved

LEMMA EolMoves ==
  ASSUME NEW p \in Parser, NEW b, NEW lf \in States, NEW next \in States
  PROVE  Moved(p, Eol(p, b, lf, next),
               IF b = "CR" THEN lf ELSE IF b = "LF" THEN next ELSE "ERROR")
<1>1. "ERROR" \in States  BY DEF States
<1>2. CASE b = "CR"
  <2>1. Eol(p, b, lf, next) = To(p, lf)  BY <1>2 DEF Eol
  <2> QED  BY <2>1, <1>2, ToMoves
<1>3. CASE b = "LF"
  <2>1. Eol(p, b, lf, next) = To(p, next)  BY <1>3 DEF Eol
  <2> QED  BY <2>1, <1>3, ToMoves
<1>4. CASE b # "CR" /\ b # "LF"
  <2>1. Eol(p, b, lf, next) = To(p, "ERROR")  BY <1>4 DEF Eol
  <2> QED  BY <2>1, <1>1, <1>4, ToMoves
<1> QED  BY <1>2, <1>3, <1>4

LEMMA ExpectMoves ==
  ASSUME NEW p \in Parser, NEW b, NEW next \in States
  PROVE  Moved(p, Expect_(p, b, next), IF b = "LF" THEN next ELSE "ERROR")
<1>1. (IF b = "LF" THEN next ELSE "ERROR") \in States  BY DEF States
<1> QED  BY <1>1, ToMoves DEF Expect_

LEMMA AtLineMoves ==
  ASSUME NEW p \in Parser, NEW b
  PROVE  Moved(p, AtLine(p, b), IF b \in Line THEN "LINE_END" ELSE "ERROR")
<1>1. CASE b \in Line
  <2>1. AtLine(p, b) = [st |-> "LINE_END", line |-> b, fields |-> p.fields, used |-> p.used]
    BY <1>1 DEF AtLine, To, Parser
  <2> QED  BY <2>1, <1>1 DEF Parser, Moved
<1>2. CASE b \notin Line
  <2>1. AtLine(p, b) = To(p, "ERROR")  BY <1>2 DEF AtLine
  <2>2. "ERROR" \in States  BY DEF States
  <2> QED  BY <2>1, <2>2, <1>2, ToMoves
<1> QED  BY <1>1, <1>2

LEMMA AtFieldMoves ==
  ASSUME NEW p \in Parser, NEW b
  PROVE  \/ /\ b \in FieldToken
            /\ Moved(p, AtField(p, b), "FIELD_END")
         \/ Moved(p, AtField(p, b),
                  IF b = "CR" THEN "END_LF" ELSE IF b = "LF" THEN "DONE" ELSE "ERROR")
<1>1. CASE b \in FieldToken /\ Len(p.fields) < MaxHeaders
  <2>1. AtField(p, b) = [st |-> "FIELD_END", line |-> p.line,
                         fields |-> Append(p.fields, b), used |-> p.used]
    BY <1>1 DEF AtField, To, Parser
  <2>2. Append(p.fields, b) \in Seq(FieldToken)  BY <1>1 DEF Parser
  <2> QED  BY <2>1, <2>2, <1>1 DEF Parser, Moved
<1>2. CASE ~(b \in FieldToken /\ Len(p.fields) < MaxHeaders)
  <2>1. AtField(p, b) = Eol(p, b, "END_LF", "DONE")  BY <1>2 DEF AtField
  <2>2. {"END_LF", "DONE"} \subseteq States  BY DEF States
  <2> QED  BY <2>1, <2>2, EolMoves
<1> QED  BY <1>1, <1>2

(* Where one byte takes a parser that has not decided. *)
Successor(p, b, st) ==
  \/ /\ p.st = "START"
     /\ \/ b = "CR" /\ st = "START_LF"
        \/ b = "LF" /\ st = "LINE"
        \/ b \notin {"CR", "LF"} /\ st \in {"LINE_END", "ERROR"}
  \/ p.st = "LINE" /\ b \notin {"CR", "LF"} /\ st = "LINE_END"
  \/ p.st = "LINE_END" /\ b = "CR" /\ st = "LINE_LF"
  \/ p.st = "FIELD_END" /\ b = "CR" /\ st = "FIELD_LF"
  \/ p.st \in {"LINE_END", "FIELD_END"} /\ b = "LF" /\ st = "FIELDS"
  \/ /\ p.st = "FIELDS"
     /\ \/ b \notin {"CR", "LF"} /\ st = "FIELD_END"
        \/ b = "CR" /\ st = "END_LF"
        \/ b = "LF" /\ st = "DONE"
  \/ p.st = "START_LF" /\ b = "LF" /\ st = "LINE"
  \/ p.st \in {"LINE_LF", "FIELD_LF"} /\ b = "LF" /\ st = "FIELDS"
  \/ p.st = "END_LF" /\ b = "LF" /\ st = "DONE"
  \/ st = "ERROR"

LEMMA DecidedStays ==
  ASSUME NEW p, NEW b, Decided(p)
  PROVE  ParseToken(p, b) = p
<1>1. p.st = "DONE" \/ p.st = "ERROR"  BY DEF Decided
<1>2. /\ p.st # "START" /\ p.st # "START_LF" /\ p.st # "LINE" /\ p.st # "LINE_END"
      /\ p.st # "LINE_LF" /\ p.st # "FIELDS" /\ p.st # "FIELD_END"
      /\ p.st # "FIELD_LF" /\ p.st # "END_LF"
  BY <1>1
<1> QED  BY <1>2, Zenon DEF ParseToken

LEMMA ParserStep ==
  ASSUME NEW p \in Parser, NEW b \in Token, ~Decided(p)
  PROVE  /\ ParseToken(p, b) \in Parser
         /\ ParseToken(p, b).used = p.used + 1
         /\ Successor(p, b, ParseToken(p, b).st)
<1> DEFINE n == [p EXCEPT !.used = p.used + 1]
<1>1. n \in Parser /\ n.st = p.st /\ n.used = p.used + 1
  BY DEF Parser
<1>2. p.st \in States \ {"DONE", "ERROR"}
  BY DEF Parser, Decided, States
<1>3. {"LINE", "START_LF", "LINE_LF", "FIELDS", "FIELD_LF", "DONE"} \subseteq States
  BY DEF States
<1>4. Line \cap {"CR", "LF"} = {} /\ FieldToken \cap {"CR", "LF"} = {}
  BY FieldTokens DEF Line
<1>5. ParseToken(p, b) =
        (CASE p.st = "START" -> IF b \in {"CR", "LF"} THEN Eol(n, b, "START_LF", "LINE")
                                                      ELSE AtLine(n, b)
           [] p.st = "START_LF" -> Expect_(n, b, "LINE")
           [] p.st = "LINE" -> AtLine(n, b)
           [] p.st = "LINE_END" -> Eol(n, b, "LINE_LF", "FIELDS")
           [] p.st = "LINE_LF" -> Expect_(n, b, "FIELDS")
           [] p.st = "FIELDS" -> AtField(n, b)
           [] p.st = "FIELD_END" -> Eol(n, b, "FIELD_LF", "FIELDS")
           [] p.st = "FIELD_LF" -> Expect_(n, b, "FIELDS")
           [] p.st = "END_LF" -> Expect_(n, b, "DONE"))
  BY <1>2 DEF ParseToken, States, Decided
<1> HIDE DEF n
<1>6. CASE p.st = "START"
  <2>1. CASE b \in {"CR", "LF"}
    <3>1. ParseToken(p, b) = Eol(n, b, "START_LF", "LINE")  BY <1>5, <1>6, <2>1
    <3> QED  BY <1>1, <1>3, <1>6, <2>1, <3>1, EolMoves DEF Moved, Successor
  <2>2. CASE b \notin {"CR", "LF"}
    <3>1. ParseToken(p, b) = AtLine(n, b)  BY <1>5, <1>6, <2>2
    <3> QED  BY <1>1, <1>6, <2>2, <3>1, AtLineMoves DEF Moved, Successor
  <2> QED  BY <2>1, <2>2
<1>7. CASE p.st = "LINE"
  <2>1. ParseToken(p, b) = AtLine(n, b)  BY <1>5, <1>7
  <2> QED  BY <1>1, <1>4, <1>7, <2>1, AtLineMoves DEF Moved, Successor
<1>8. CASE p.st = "LINE_END"
  <2>1. ParseToken(p, b) = Eol(n, b, "LINE_LF", "FIELDS")  BY <1>5, <1>8
  <2> QED  BY <1>1, <1>3, <1>8, <2>1, EolMoves DEF Moved, Successor
<1>9. CASE p.st = "FIELD_END"
  <2>1. ParseToken(p, b) = Eol(n, b, "FIELD_LF", "FIELDS")  BY <1>5, <1>9
  <2> QED  BY <1>1, <1>3, <1>9, <2>1, EolMoves DEF Moved, Successor
<1>10. CASE p.st = "FIELDS"
  <2>1. ParseToken(p, b) = AtField(n, b)  BY <1>5, <1>10
  <2> QED  BY <1>1, <1>4, <1>10, <2>1, AtFieldMoves DEF Moved, Successor
<1>11. CASE p.st \in {"START_LF", "LINE_LF", "FIELD_LF", "END_LF"}
  <2>1. ParseToken(p, b) =
          Expect_(n, b, IF p.st = "START_LF" THEN "LINE"
                        ELSE IF p.st = "END_LF" THEN "DONE" ELSE "FIELDS")
    BY <1>5, <1>11
  <2> QED  BY <1>1, <1>3, <1>11, <2>1, ExpectMoves DEF Moved, Successor
<1> QED  BY <1>2, <1>6, <1>7, <1>8, <1>9, <1>10, <1>11 DEF States

(* What the search makes of a byte.  Only the four line-end bytes in a row   *)
(* count up; the counter cannot wrap while it is below 4.                   *)
LEMMA ScanStep ==
  ASSUME NEW s \in [last : Token, found : 0 .. 255, at : Nat, hit : Nat], NEW b \in Token
  PROVE  /\ ScanByte(s, b) \in [last : Token, found : 0 .. 255, at : Nat, hit : Nat]
         /\ ScanByte(s, b).last = b
         /\ ScanByte(s, b).at = s.at + 1
         /\ ScanByte(s, b).found =
              IF (b = "CR" /\ s.last # "CR") \/ (b = "LF" /\ s.last = "CR")
              THEN (s.found + 1) % 256 ELSE 0
BY DEF ScanByte, EndsLine

-------------------------------------------------------------------------------
LEMMA ScanInitHolds == ScanInit => IInv
<1> SUFFICES ASSUME ScanInit PROVE IInv
  OBVIOUS
<1> USE DEF ScanInit, ParserStart
<1>1. ScanTypeOK
  <2>1. <<>> \in Seq(FieldToken)  OBVIOUS
  <2>2. parser \in Parser  BY <2>1 DEF Parser
  <2>3. "NUL" \in Token  BY DEF Token
  <2>4. scan \in [last : Token, found : 0 .. 255, at : Nat, hit : Nat]
    BY <2>3
  <2>5. bare \in BOOLEAN  BY Zenon
  <2> QED  BY <2>2, <2>4, <2>5, Zenon DEF ScanTypeOK
<1>2. InStep
  BY DEF InStep, Counts, AfterCR
<1>3. LinesCounted
  BY DEF LinesCounted
<1> QED  BY <1>1, <1>2, <1>3 DEF IInv

LEMMA ScanStepHolds == IInv /\ [ScanNext]_scanVars => IInv'
<1> SUFFICES ASSUME IInv, [ScanNext]_scanVars PROVE IInv'
  OBVIOUS
<1>1. CASE UNCHANGED scanVars
  BY <1>1 DEF IInv, scanVars, ScanTypeOK, InStep, LinesCounted
<1>2. ASSUME NEW b \in Token, ReadByte(b) PROVE IInv'
  <2>1. /\ scan' \in [last : Token, found : 0 .. 255, at : Nat, hit : Nat]
        /\ scan'.last = b /\ scan'.at = scan.at + 1
        /\ scan'.found = IF (b = "CR" /\ scan.last # "CR") \/ (b = "LF" /\ scan.last = "CR")
                         THEN (scan.found + 1) % 256 ELSE 0
    BY <1>2, ScanStep DEF IInv, ScanTypeOK, ReadByte
  <2>2. bare' = (bare \/ (b = "LF" /\ scan.last # "CR"))
    BY <1>2 DEF ReadByte
  <2>3. parser \in Parser /\ scan.at \in Nat /\ scan.found \in 0 .. 255
        /\ parser.used \in Nat /\ parser.used <= scan.at
    BY DEF IInv, ScanTypeOK, Parser
  <2>4. CASE Decided(parser)
    <3>1. parser' = parser  BY <1>2, <2>4, DecidedStays DEF ReadByte
    <3>2. parser'.used < scan'.at  BY <2>1, <2>3, <3>1
    <3>3. ScanTypeOK'
      BY <2>1, <2>2, <3>1 DEF IInv, ScanTypeOK
    <3>4. InStep'
      BY <2>4, <3>1 DEF InStep, Decided
    <3>5. parser'.st \notin {"FIELDS", "END_LF"}
      BY <2>4, <3>1 DEF Decided
    <3>6. LinesCounted'
      BY <2>1, <2>3, <3>2, <3>5, <3>1 DEF LinesCounted
    <3> QED  BY <2>1, <2>3, <3>2, <3>1, <3>3, <3>4, <3>6 DEF IInv
  <2>5. CASE ~Decided(parser)
    <3>1. /\ parser' \in Parser /\ parser'.used = parser.used + 1
          /\ Successor(parser, b, parser'.st)
      BY <1>2, <2>3, <2>5, ParserStep DEF ReadByte
    <3>2. /\ scan.found \in Counts(parser.st)
          /\ scan.last = "CR" <=> parser.st \in AfterCR
          /\ parser.used = scan.at
      BY <2>5 DEF IInv, InStep
    <3>3. ScanTypeOK'
      BY <2>1, <2>2, <3>1 DEF IInv, ScanTypeOK
    <3>4. parser'.used = scan'.at
      BY <2>1, <3>1, <3>2
    <3>a. scan.found \in 0 .. 3 /\ (scan.found + 1) % 256 = scan.found + 1
      <4>1. scan.found \in 0 .. 3  BY <3>2 DEF Counts
      <4> QED  BY <4>1
    <3>5. ~Decided(parser)' => /\ scan'.found \in Counts(parser'.st)
                               /\ scan'.last = "CR" <=> parser'.st \in AfterCR
      BY <2>1, <3>1, <3>2, <3>a DEF Successor, Counts, AfterCR, Decided
    <3>6. ~bare => /\ parser.st = "FIELDS" => scan.found = 2
                   /\ parser.st = "END_LF" => scan.found = 3
      BY DEF IInv, LinesCounted
    <3>7. LinesCounted'
      <4> SUFFICES ASSUME ~bare'
                   PROVE  /\ parser'.st = "FIELDS" => scan'.found = 2
                          /\ parser'.st = "END_LF" => scan'.found = 3
                          /\ parser'.st = "DONE" => scan'.found = 4
        BY DEF LinesCounted
      <4>1. ~bare /\ (b = "LF" => scan.last = "CR")
        BY <2>2
      <4>2. CASE parser'.st = "FIELDS"
        <5>1. b = "LF" /\ parser.st \in {"LINE_LF", "FIELD_LF"}
          BY <3>1, <3>2, <4>1, <4>2 DEF Successor, AfterCR
        <5>2. scan.found = 1  BY <5>1, <3>2 DEF Counts, AfterCR
        <5> QED  BY <2>1, <4>1, <4>2, <5>1, <5>2
      <4>3. CASE parser'.st = "END_LF"
        <5>1. b = "CR" /\ parser.st = "FIELDS" /\ scan.last # "CR"
          BY <3>1, <3>2, <4>3 DEF Successor, AfterCR
        <5>2. scan.found = 2  BY <3>6, <4>1, <5>1
        <5>3. scan'.found = 3  BY <2>1, <5>1, <5>2
        <5> QED  BY <4>3, <5>3
      <4>4. CASE parser'.st = "DONE"
        <5>1. b = "LF" /\ parser.st = "END_LF"
          BY <3>1, <3>2, <4>1, <4>4 DEF Successor, AfterCR
        <5> QED  BY <2>1, <3>6, <4>1, <4>4, <5>1
      <4> QED  BY <4>2, <4>3, <4>4
    <3> QED  BY <2>1, <2>3, <3>3, <3>4, <3>5, <3>7 DEF IInv, InStep
  <2> QED  BY <2>4, <2>5
<1> QED  BY <1>1, <1>2 DEF ScanNext

(* The inductive invariant: what the search can have counted wherever the    *)
(* parser stands (consumeHeaderSome, http.cpp 453-464).                     *)
THEOREM Invariance == ScanSpec => []IInv
BY ScanInitHolds, ScanStepHolds, PTL DEF ScanSpec

(* Request::deserialize_ runs over the whole array, but never decides on     *)
(* bytes behind those that were received: by the time the search has found   *)
(* four line-end bytes, the parser has accepted or refused.  Where it has    *)
(* not, InStep leaves the search at most three of them.                     *)
THEOREM ParserDecidesOnReceivedBytes == ScanSpec => []FoundMeansDecided
<1>1. IInv => FoundMeansDecided
  BY DEF IInv, InStep, Counts, FoundMeansDecided, HeadEnds
<1> QED  BY <1>1, Invariance, PTL

(* consumeHeaderSome misses no head that the parser accepts and whose lines  *)
(* end with CR LF: the session does not wait for the end of a whole head.    *)
THEOREM AcceptedHeadsAreFound == ScanSpec => []AcceptedMeansFound
<1>1. IInv => AcceptedMeansFound
  BY DEF IInv, LinesCounted, AcceptedMeansFound, HeadEnds
<1> QED  BY <1>1, Invariance, PTL


-------------------------------------------------------------------------------

(* e goes on where d ends. *)
BeginsWith(e, d) ==
  /\ d \in Texts /\ e \in Texts
  /\ Len(d) <= Len(e)
  /\ \A k \in 1 .. Len(d) : e[k] = d[k]

LEMMA LeastIs ==
  ASSUME NEW d \in Texts, NEW hits \in SUBSET (1 .. Len(d))
  PROVE  /\ Least(hits, d) \in 1 .. Len(d) + 1
         /\ Least(hits, d) <= Len(d) => Least(hits, d) \in hits
         /\ \A k \in hits : Least(hits, d) <= k
<1>1. Len(d) \in Nat  BY DEF Texts
<1>2. CASE hits = {}
  BY <1>1, <1>2 DEF Least
<1>3. CASE hits # {}
  <2>1. hits \in SUBSET Nat  BY <1>1
  <2>2. Min(hits) \in hits /\ \A n \in hits : Min(hits) <= n  BY <2>1, <1>3, MinOf
  <2>3. Least(hits, d) = Min(hits)  BY <1>3 DEF Least
  <2> DEFINE m == Min(hits)
  <2> HIDE DEF m
  <2>4. m \in hits /\ (\A n \in hits : m <= n) /\ Least(hits, d) = m  BY <2>2, <2>3 DEF m
  <2>5. m \in 1 .. Len(d)  BY <2>4
  <2> QED  BY <1>1, <2>4, <2>5
<1> QED  BY <1>2, <1>3

(* The least of a set stays it when others beyond come to it. *)
LEMMA LeastStands ==
  ASSUME NEW d, NEW e, BeginsWith(e, d),
         NEW hits \in SUBSET (1 .. Len(d)), NEW more \in SUBSET (1 .. Len(e)),
         hits = {k \in more : k <= Len(d)}, Least(hits, d) <= Len(d)
  PROVE  Least(more, e) = Least(hits, d)
<1>1. Len(d) \in Nat /\ Len(e) \in Nat /\ Len(d) <= Len(e) /\ d \in Texts /\ e \in Texts
  BY DEF BeginsWith, Texts
<1> DEFINE l == Least(hits, d)
           m == Least(more, e)
<1>2. l \in hits /\ (\A k \in hits : l <= k) /\ l \in Int  BY <1>1, LeastIs
<1>3. /\ m \in 1 .. Len(e) + 1
      /\ m <= Len(e) => m \in more
      /\ \A k \in more : m <= k
  BY <1>1, LeastIs
<1>4. /\ \A k \in hits : k \in more /\ k \in Int /\ k <= Len(d)
      /\ \A k \in more : k \in Int /\ (k <= Len(d) => k \in hits)
  BY <1>1
<1> HIDE DEF l, m
<1>5. l \in Int /\ m \in Int /\ m <= l /\ l <= Len(d)  BY <1>1, <1>2, <1>3, <1>4
<1>6. m <= Len(d) /\ m <= Len(e)  BY <1>1, <1>5
<1>7. m \in hits  BY <1>3, <1>4, <1>6
<1>8. l = m  BY <1>2, <1>5, <1>7
<1> QED  BY <1>8 DEF l, m

LEMMA FirstButIs ==
  ASSUME NEW d \in Texts, NEW i \in Nat \ {0}, NEW chars
  PROVE  LET f == FirstBut(d, i, chars) IN
         /\ f \in 1 .. Len(d) + 1
         /\ f <= Len(d) => i <= f /\ d[f] \notin chars
         /\ \A k \in i .. f - 1 : d[k] \in chars
<1> DEFINE hits == {k \in i .. Len(d) : d[k] \notin chars}
           f == Least(hits, d)
<1>1. Len(d) \in Nat  BY DEF Texts
<1>2. hits \in SUBSET (1 .. Len(d))  BY <1>1
<1>3. /\ f \in 1 .. Len(d) + 1
      /\ f <= Len(d) => f \in hits
      /\ \A k \in hits : f <= k
  BY <1>2, LeastIs
<1>4. \A k \in hits : k \in i .. Len(d) /\ d[k] \notin chars  OBVIOUS
<1>5. \A k \in i .. Len(d) : k \in hits \/ d[k] \in chars  OBVIOUS
<1>6. FirstBut(d, i, chars) = f  BY DEF FirstBut
<1> HIDE DEF hits, f
<1>7. ASSUME NEW k \in i .. f - 1 PROVE d[k] \in chars
  <2>1. k \in i .. Len(d) /\ ~(f <= k) /\ k \in Int
    BY <1>1, <1>3
  <2> QED  BY <2>1, <1>3, <1>5
<1> QED  BY <1>1, <1>3, <1>4, <1>6, <1>7

LEMMA FirstOfIs ==
  ASSUME NEW d \in Texts, NEW i \in Nat \ {0}, NEW chars
  PROVE  LET f == FirstOf(d, i, chars) IN
         /\ f \in 1 .. Len(d) + 1
         /\ f <= Len(d) => i <= f /\ d[f] \in chars
         /\ \A k \in i .. f - 1 : d[k] \notin chars
<1> DEFINE hits == {k \in i .. Len(d) : d[k] \in chars}
           f == Least(hits, d)
<1>1. Len(d) \in Nat  BY DEF Texts
<1>2. hits \in SUBSET (1 .. Len(d))  BY <1>1
<1>3. /\ f \in 1 .. Len(d) + 1
      /\ f <= Len(d) => f \in hits
      /\ \A k \in hits : f <= k
  BY <1>2, LeastIs
<1>4. \A k \in hits : k \in i .. Len(d) /\ d[k] \in chars  OBVIOUS
<1>5. \A k \in i .. Len(d) : k \in hits \/ d[k] \notin chars  OBVIOUS
<1>6. FirstOf(d, i, chars) = f  BY DEF FirstOf
<1> HIDE DEF hits, f
<1>7. ASSUME NEW k \in i .. f - 1 PROVE d[k] \notin chars
  <2>1. k \in i .. Len(d) /\ ~(f <= k) /\ k \in Int
    BY <1>1, <1>3
  <2> QED  BY <2>1, <1>3, <1>5
<1> QED  BY <1>1, <1>3, <1>4, <1>6, <1>7

LEMMA FirstStands ==
  ASSUME NEW d, NEW e, BeginsWith(e, d), NEW i \in Nat \ {0}, NEW chars
  PROVE  /\ FirstBut(d, i, chars) <= Len(d) => FirstBut(e, i, chars) = FirstBut(d, i, chars)
         /\ FirstOf(d, i, chars) <= Len(d) => FirstOf(e, i, chars) = FirstOf(d, i, chars)
<1>1. Len(d) \in Nat /\ Len(e) \in Nat /\ Len(d) <= Len(e)
      /\ \A k \in 1 .. Len(d) : e[k] = d[k]
  BY DEF BeginsWith, Texts
<1>2. ASSUME FirstBut(d, i, chars) <= Len(d)
      PROVE  FirstBut(e, i, chars) = FirstBut(d, i, chars)
  <2> DEFINE hits == {k \in i .. Len(d) : d[k] \notin chars}
             more == {k \in i .. Len(e) : e[k] \notin chars}
  <2>1. hits \in SUBSET (1 .. Len(d)) /\ more \in SUBSET (1 .. Len(e))  BY <1>1
  <2>2. hits = {k \in more : k <= Len(d)}  BY <1>1
  <2>3. FirstBut(d, i, chars) = Least(hits, d) /\ FirstBut(e, i, chars) = Least(more, e)
    BY DEF FirstBut
  <2> HIDE DEF hits, more
  <2> QED  BY <1>2, <2>1, <2>2, <2>3, LeastStands
<1>3. ASSUME FirstOf(d, i, chars) <= Len(d)
      PROVE  FirstOf(e, i, chars) = FirstOf(d, i, chars)
  <2> DEFINE hits == {k \in i .. Len(d) : d[k] \in chars}
             more == {k \in i .. Len(e) : e[k] \in chars}
  <2>1. hits \in SUBSET (1 .. Len(d)) /\ more \in SUBSET (1 .. Len(e))  BY <1>1
  <2>2. hits = {k \in more : k <= Len(d)}  BY <1>1
  <2>3. FirstOf(d, i, chars) = Least(hits, d) /\ FirstOf(e, i, chars) = Least(more, e)
    BY DEF FirstOf
  <2> HIDE DEF hits, more
  <2> QED  BY <1>3, <2>1, <2>2, <2>3, LeastStands
<1> QED  BY <1>2, <1>3

-------------------------------------------------------------------------------
(* The bytes of a text from its i-th character on, as Nine counts them. *)
BytesFrom(d, i) == UNION {{j} \X (1 .. Bytes(d[j])) : j \in i .. Len(d)}

LEMMA BytesFinite ==
  ASSUME NEW d \in Texts, NEW i \in Nat \ {0}
  PROVE  IsFiniteSet(BytesFrom(d, i))
<1> DEFINE J == i .. Len(d)
<1>1. Len(d) \in Nat  BY DEF Texts
<1>2. \A c : 1 .. Bytes(c) \subseteq 1 .. 20
  BY DEF Bytes, ContentLength_, TransferEncoding_, TooBig
<1>3. BytesFrom(d, i) \subseteq J \X (1 .. 20)
  <2>1. ASSUME NEW j \in J PROVE {j} \X (1 .. Bytes(d[j])) \subseteq J \X (1 .. 20)
    <3>1. {j} \subseteq J /\ 1 .. Bytes(d[j]) \subseteq 1 .. 20  BY <1>2
    <3> HIDE DEF J
    <3> QED  BY <3>1, Zenon
  <2>2. BytesFrom(d, i) = UNION {{j} \X (1 .. Bytes(d[j])) : j \in J}
    BY DEF BytesFrom
  <2> HIDE DEF J
  <2>3. ASSUME NEW x \in BytesFrom(d, i) PROVE x \in J \X (1 .. 20)
    <3>1. PICK j \in J : x \in {j} \X (1 .. Bytes(d[j]))  BY <2>2, Zenon
    <3> QED  BY <2>1, <3>1, Zenon
  <2> QED  BY <2>3
<1>4. IsFiniteSet(J) /\ IsFiniteSet(1 .. 20)
  <2>1. i \in Int /\ Len(d) \in Int /\ 1 \in Int /\ 20 \in Int  BY <1>1
  <2> QED  BY <2>1, FS_Interval, Zenon
<1>5. IsFiniteSet(J \X (1 .. 20))
  <2> HIDE DEF J
  <2> QED  BY <1>4, FS_Product
<1> QED  BY <1>3, <1>5, FS_Subset

LEMMA NineStands ==
  ASSUME NEW d, NEW e, BeginsWith(e, d), NEW i \in Nat \ {0}, Nine(d, i)
  PROVE  Nine(e, i)
<1>1. /\ Len(d) \in Nat /\ Len(e) \in Nat /\ Len(d) <= Len(e)
      /\ d \in Texts /\ e \in Texts
      /\ \A k \in 1 .. Len(d) : e[k] = d[k]
  BY DEF BeginsWith, Texts
<1>2. BytesFrom(d, i) \subseteq BytesFrom(e, i)
  <2>1. \A j \in i .. Len(d) : j \in i .. Len(e) /\ d[j] = e[j]  BY <1>1
  <2> QED  BY <2>1, Zenon DEF BytesFrom
<1>3. IsFiniteSet(BytesFrom(e, i)) /\ IsFiniteSet(BytesFrom(d, i))
  BY <1>1, BytesFinite
<1>4. Cardinality(BytesFrom(d, i)) <= Cardinality(BytesFrom(e, i))
  BY <1>2, <1>3, FS_Subset
<1>5. Cardinality(BytesFrom(d, i)) \in Nat /\ Cardinality(BytesFrom(e, i)) \in Nat
  BY <1>3, FS_CardinalityType
<1> QED  BY <1>4, <1>5 DEF Nine, BytesFrom

(* Nine bytes are more than one character has that begins a version.         *)
LEMMA NineIs ==
  ASSUME NEW d \in Texts, NEW i \in Nat \ {0}, Nine(d, i)
  PROVE  i <= Len(d) /\ (d[i] = "HTTP/1." => i < Len(d))
<1>1. Len(d) \in Nat  BY DEF Texts
<1>2. Cardinality(BytesFrom(d, i)) >= 9  BY DEF Nine, BytesFrom
<1>3. ASSUME i > Len(d) PROVE FALSE
  <2>1. i .. Len(d) = {}  BY <1>1, <1>3
  <2>2. BytesFrom(d, i) = {}  BY <2>1 DEF BytesFrom
  <2> QED  BY <1>2, <2>2, FS_EmptySet
<1>4. ASSUME i = Len(d), d[i] = "HTTP/1." PROVE FALSE
  <2>1. i .. Len(d) = {i}
    <3>1. \A k \in i .. i : k = i  OBVIOUS
    <3>2. i \in i .. i  OBVIOUS
    <3>3. i .. i = {i}  BY <3>1, <3>2
    <3> QED  BY <1>4, <3>3
  <2>2. Bytes(d[i]) = 7
    BY <1>4 DEF Bytes, ContentLength_, TransferEncoding_, TooBig
  <2>3. BytesFrom(d, i) = {i} \X (1 .. 7)
    <3>1. BytesFrom(d, i) = UNION {{j} \X (1 .. Bytes(d[j])) : j \in {i}}
      BY <2>1 DEF BytesFrom
    <3>2. {{j} \X (1 .. Bytes(d[j])) : j \in {i}} = {{i} \X (1 .. Bytes(d[i]))}
      BY Zenon
    <3>3. UNION {{i} \X (1 .. Bytes(d[i]))} = {i} \X (1 .. Bytes(d[i]))
      BY Zenon
    <3> QED  BY <2>2, <3>1, <3>2, <3>3, Zenon
  <2>4. IsFiniteSet({i}) /\ Cardinality({i}) = 1  BY FS_Singleton
  <2>5. IsFiniteSet(1 .. 7) /\ Cardinality(1 .. 7) = 7
    <3>1. Cardinality(1 .. 7) = (IF 1 > 7 THEN 0 ELSE 7 - 1 + 1) /\ IsFiniteSet(1 .. 7)
      BY FS_Interval, 1 \in Int, 7 \in Int, Zenon
    <3> QED  BY <3>1
  <2>6. Cardinality({i} \X (1 .. 7)) = Cardinality({i}) * Cardinality(1 .. 7)
    BY <2>4, <2>5, FS_Product
  <2>7. Cardinality(BytesFrom(d, i)) = 1 * 7
    BY <2>3, <2>4, <2>5, <2>6, Zenon
  <2>8. 1 * 7 = 7  OBVIOUS
  <2> QED  BY <1>2, <2>7, <2>8
<1>5. i <= Len(d)  BY <1>1, <1>3
<1>6. d[i] = "HTTP/1." => i # Len(d)  BY <1>4
<1> QED  BY <1>1, <1>5, <1>6


-------------------------------------------------------------------------------
(* Where a step of the parser may get to in a text, and how it may not.       *)
Result(d) == {Bad, More} \cup 1 .. Len(d) + 1

LEMMA StoppedIs ==
  ASSUME NEW d \in Texts, NEW i \in 1 .. Len(d) + 1, NEW ends
  PROVE  /\ Stopped(d, i, ends) \in Result(d)
         /\ Stopped(d, i, ends) > 0 => Stopped(d, i, ends) = i /\ i <= Len(d)
         /\ i <= Len(d) => Stopped(d, i, ends) # More
         /\ i > Len(d) => Stopped(d, i, ends) = More
<1>1. Len(d) \in Nat  BY DEF Texts
<1> QED  BY <1>1 DEF Stopped, Result, More, Bad

LEMMA StoppedStands ==
  ASSUME NEW d, NEW e, BeginsWith(e, d), NEW ends,
         NEW i \in 1 .. Len(d) + 1, NEW j, i <= Len(d) => j = i,
         Stopped(d, i, ends) # More
  PROVE  Stopped(e, j, ends) = Stopped(d, i, ends)
<1>1. Len(d) \in Nat /\ Len(e) \in Nat /\ Len(d) <= Len(e) /\ d \in Texts
      /\ \A k \in 1 .. Len(d) : e[k] = d[k]
  BY DEF BeginsWith, Texts
<1>2. i <= Len(d)
  <2>1. ~(i > Len(d))  BY <1>1, StoppedIs
  <2> QED  BY <1>1, <2>1
<1>3. j = i /\ e[i] = d[i] /\ ~(i > Len(d)) /\ ~(i > Len(e))  BY <1>1, <1>2
<1> QED  BY <1>3 DEF Stopped

LEMMA EndOfLineIs ==
  ASSUME NEW d \in Texts, NEW i \in 1 .. Len(d) + 1
  PROVE  /\ EndOfLine(d, i) \in Result(d)
         /\ EndOfLine(d, i) > 0 => EndOfLine(d, i) > i
<1>1. Len(d) \in Nat  BY DEF Texts
<1> QED  BY <1>1 DEF EndOfLine, Result, More, Bad

LEMMA EndOfLineStands ==
  ASSUME NEW d, NEW e, BeginsWith(e, d), NEW i \in 1 .. Len(d) + 1, EndOfLine(d, i) # More
  PROVE  EndOfLine(e, i) = EndOfLine(d, i)
<1>1. Len(d) \in Nat /\ Len(e) \in Nat /\ Len(d) <= Len(e)
      /\ \A k \in 1 .. Len(d) : e[k] = d[k]
  BY DEF BeginsWith, Texts
<1>2. i <= Len(d)  BY <1>1 DEF EndOfLine
<1>3. i <= Len(e) /\ e[i] = d[i]  BY <1>1, <1>2
<1>4. CASE d[i] = "CR"
  <2>1. i + 1 <= Len(d)  BY <1>1, <1>2, <1>4 DEF EndOfLine
  <2>2. i + 1 <= Len(e) /\ e[i + 1] = d[i + 1]  BY <1>1, <2>1
  <2> QED  BY <1>1, <1>2, <1>3, <1>4, <2>1, <2>2 DEF EndOfLine
<1>5. CASE d[i] # "CR"
  BY <1>1, <1>2, <1>3, <1>5 DEF EndOfLine
<1> QED  BY <1>4, <1>5

LEMMA TokenIs ==
  ASSUME NEW d \in Texts, NEW i \in 1 .. Len(d) + 1, NEW c
  PROVE  LET r == parse_token(d, i, c) IN
         /\ r \in Result(d)
         /\ r > 0 => i <= r /\ r <= Len(d) /\ \A k \in i .. r - 1 : d[k] \in TokenChar
<1> DEFINE f == FirstBut(d, i, TokenChar)
           r == parse_token(d, i, c)
<1>1. Len(d) \in Nat /\ i \in Nat \ {0}  BY DEF Texts
<1>2. /\ f \in 1 .. Len(d) + 1
      /\ f <= Len(d) => i <= f
      /\ \A k \in i .. f - 1 : d[k] \in TokenChar
  BY <1>1, FirstButIs
<1>3. r = Stopped(d, f, {c})  BY DEF parse_token
<1> HIDE DEF f, r
<1>4. r \in Result(d) /\ (r > 0 => r = f /\ f <= Len(d))  BY <1>2, <1>3, StoppedIs
<1>5. r > 0 => i <= r /\ r <= Len(d) /\ \A k \in i .. r - 1 : d[k] \in TokenChar
  BY <1>2, <1>4
<1> QED  BY <1>4, <1>5 DEF r

LEMMA ToCharIs ==
  ASSUME NEW d \in Texts, NEW i \in 1 .. Len(d) + 1, NEW chars, NEW ends
  PROVE  LET r == Stopped(d, FirstOf(d, i, chars), ends) IN
         /\ r \in Result(d)
         /\ r > 0 => i <= r /\ r <= Len(d) /\ \A k \in i .. r - 1 : d[k] \notin chars
<1> DEFINE f == FirstOf(d, i, chars)
           r == Stopped(d, f, ends)
<1>1. Len(d) \in Nat /\ i \in Nat \ {0}  BY DEF Texts
<1>2. /\ f \in 1 .. Len(d) + 1
      /\ f <= Len(d) => i <= f
      /\ \A k \in i .. f - 1 : d[k] \notin chars
  BY <1>1, FirstOfIs
<1>3. r = Stopped(d, f, ends)  OBVIOUS
<1> HIDE DEF f, r
<1>4. r \in Result(d) /\ (r > 0 => r = f /\ f <= Len(d))  BY <1>2, <1>3, StoppedIs
<1>5. r > 0 => i <= r /\ r <= Len(d) /\ \A k \in i .. r - 1 : d[k] \notin chars
  BY <1>2, <1>4
<1> QED  BY <1>4, <1>5 DEF r, f

LEMMA SkipIs ==
  ASSUME NEW d \in Texts, NEW i \in 1 .. Len(d) + 1, NEW chars
  PROVE  LET r == Skip(d, i, chars) IN
         /\ r \in Result(d)
         /\ r > 0 => i < r /\ r <= Len(d)
<1> DEFINE f == FirstBut(d, i + 1, chars)
<1>1. Len(d) \in Nat /\ i + 1 \in Nat \ {0} /\ i \in Int  BY DEF Texts
<1>2. f \in 1 .. Len(d) + 1 /\ (f <= Len(d) => i + 1 <= f)  BY <1>1, FirstButIs
<1>3. Skip(d, i, chars) = IF f > Len(d) THEN More ELSE f  BY DEF Skip
<1> HIDE DEF f
<1> QED  BY <1>1, <1>2, <1>3 DEF Result, More

LEMMA VersionIs ==
  ASSUME NEW d \in Texts, NEW i \in 1 .. Len(d) + 1
  PROVE  LET r == parse_http_version(d, i) IN
         /\ r \in Result(d)
         /\ r > 0 => r = i + 2
<1>1. Len(d) \in Nat /\ i \in Nat \ {0}  BY DEF Texts
<1>2. Nine(d, i) /\ d[i] = "HTTP/1." => i + 2 <= Len(d) + 1  BY <1>1, NineIs
<1> QED  BY <1>1, <1>2 DEF parse_http_version, Result, More, Bad


LEMMA ToCharStands ==
  ASSUME NEW d, NEW e, BeginsWith(e, d), NEW i \in 1 .. Len(d) + 1, NEW chars, NEW ends
  PROVE  /\ Stopped(d, FirstOf(d, i, chars), ends) # More =>
              Stopped(e, FirstOf(e, i, chars), ends) = Stopped(d, FirstOf(d, i, chars), ends)
         /\ Stopped(d, FirstBut(d, i, chars), ends) # More =>
              Stopped(e, FirstBut(e, i, chars), ends) = Stopped(d, FirstBut(d, i, chars), ends)
<1>1. d \in Texts /\ Len(d) \in Nat  BY DEF BeginsWith, Texts
<1>2. i \in Nat \ {0}  BY <1>1
<1>3. FirstOf(d, i, chars) \in 1 .. Len(d) + 1  BY <1>1, <1>2, FirstOfIs
<1>4. FirstBut(d, i, chars) \in 1 .. Len(d) + 1  BY <1>1, <1>2, FirstButIs
<1>5. /\ FirstBut(d, i, chars) <= Len(d) => FirstBut(e, i, chars) = FirstBut(d, i, chars)
      /\ FirstOf(d, i, chars) <= Len(d) => FirstOf(e, i, chars) = FirstOf(d, i, chars)
  BY <1>2, FirstStands
<1>6. ASSUME Stopped(d, FirstOf(d, i, chars), ends) # More
      PROVE  Stopped(e, FirstOf(e, i, chars), ends) = Stopped(d, FirstOf(d, i, chars), ends)
  BY <1>3, <1>5, <1>6, StoppedStands
<1>7. ASSUME Stopped(d, FirstBut(d, i, chars), ends) # More
      PROVE  Stopped(e, FirstBut(e, i, chars), ends) = Stopped(d, FirstBut(d, i, chars), ends)
  BY <1>4, <1>5, <1>7, StoppedStands
<1> QED  BY <1>6, <1>7

LEMMA SkipStands ==
  ASSUME NEW d, NEW e, BeginsWith(e, d), NEW i \in 1 .. Len(d) + 1, NEW chars,
         Skip(d, i, chars) # More
  PROVE  Skip(e, i, chars) = Skip(d, i, chars)
<1> DEFINE f == FirstBut(d, i + 1, chars)
           g == FirstBut(e, i + 1, chars)
<1>1. Len(d) \in Nat /\ Len(e) \in Nat /\ Len(d) <= Len(e) /\ d \in Texts
  BY DEF BeginsWith, Texts
<1>2. i + 1 \in Nat \ {0}  BY <1>1
<1>3. f \in 1 .. Len(d) + 1  BY <1>1, <1>2, FirstButIs
<1>4. f <= Len(d) => g = f  BY <1>2, FirstStands
<1>5. /\ Skip(d, i, chars) = IF f > Len(d) THEN More ELSE f
      /\ Skip(e, i, chars) = IF g > Len(e) THEN More ELSE g
  BY DEF Skip
<1> HIDE DEF f, g
<1> QED  BY <1>1, <1>3, <1>4, <1>5

LEMMA VersionStands ==
  ASSUME NEW d, NEW e, BeginsWith(e, d), NEW i \in 1 .. Len(d) + 1,
         parse_http_version(d, i) # More
  PROVE  parse_http_version(e, i) = parse_http_version(d, i)
<1>1. Len(d) \in Nat /\ d \in Texts /\ i \in Nat \ {0}
      /\ \A k \in 1 .. Len(d) : e[k] = d[k]
  BY DEF BeginsWith, Texts
<1>2. Nine(d, i)  BY DEF parse_http_version
<1>3. Nine(e, i)  BY <1>1, <1>2, NineStands
<1>4. i <= Len(d) /\ (d[i] = "HTTP/1." => i < Len(d))  BY <1>1, <1>2, NineIs
<1>5. e[i] = d[i] /\ (d[i] = "HTTP/1." => e[i + 1] = d[i + 1])  BY <1>1, <1>4
<1> QED  BY <1>2, <1>3, <1>5 DEF parse_http_version

-------------------------------------------------------------------------------
Steps == {"EmptyLine", "Method", "Spaces", "Target", "Version", "EndOfLine",
          "Name", "Colon", "Value"}

(* What each step does, by its name.                                        *)
LEMMA PlaceOf ==
  ASSUME NEW d, NEW ps
  PROVE  /\ Place("EmptyLine", d, ps) =
              IF Last(ps) > Len(d) \/ d[Last(ps)] \in {"CR", "LF"}
              THEN EndOfLine(d, Last(ps)) ELSE Last(ps)
         /\ Place("Method", d, ps) = parse_token(d, Last(ps), " ")
         /\ Place("Spaces", d, ps) = Skip(d, Last(ps), {" "})
         /\ Place("Target", d, ps) =
              Stopped(d, FirstOf(d, Last(ps), Control \cup Blank), {" "})
         /\ Place("Version", d, ps) =
              IF ps[2] = ps[3] \/ ps[4] = ps[5] THEN Bad ELSE parse_http_version(d, Last(ps))
         /\ Place("Name", d, ps) =
              IF parse_token(d, Last(ps), ":") = Last(ps) THEN Bad
                                                         ELSE parse_token(d, Last(ps), ":")
         /\ Place("Colon", d, ps) = Skip(d, Last(ps), Blank)
         /\ Place("Value", d, ps) = Stopped(d, FirstOf(d, Last(ps), Control), Control)
         /\ Place("EndOfLine", d, ps) = EndOfLine(d, Last(ps))
BY DEF Place, TargetEnd

(* No step goes back.                                                       *)
LEMMA PlaceIs ==
  ASSUME NEW d \in Texts, NEW ps, Last(ps) \in 1 .. Len(d) + 1, NEW step \in Steps
  PROVE  /\ Place(step, d, ps) \in Result(d)
         /\ Place(step, d, ps) > 0 => Last(ps) <= Place(step, d, ps)
<1> DEFINE i == Last(ps)
<1>1. Len(d) \in Nat /\ i \in 1 .. Len(d) + 1  BY DEF Texts
<1> HIDE DEF i
<1>8. \A r \in Result(d) : r \in Int  BY <1>1 DEF Result, Bad, More
<1>9. i \in Int  BY <1>1
<1>2. EndOfLine(d, i) \in Result(d) /\ (EndOfLine(d, i) > 0 => i <= EndOfLine(d, i))
  BY <1>1, <1>8, <1>9, EndOfLineIs
<1>3. i \in Result(d) /\ Bad \in Result(d) /\ ~(Bad > 0)  BY <1>1 DEF Result, Bad
<1>4. \A c : /\ parse_token(d, i, c) \in Result(d)
             /\ parse_token(d, i, c) > 0 => i <= parse_token(d, i, c)
  BY <1>1, TokenIs
<1>5. \A chars : LET r == Skip(d, i, chars) IN r \in Result(d) /\ (r > 0 => i <= r)
  <2> TAKE chars
  <2> QED  BY <1>1, <1>8, <1>9, SkipIs
<1>6. \A chars, ends : LET r == Stopped(d, FirstOf(d, i, chars), ends) IN
                       r \in Result(d) /\ (r > 0 => i <= r)
  BY <1>1, ToCharIs
<1>7. /\ parse_http_version(d, i) \in Result(d)
      /\ parse_http_version(d, i) > 0 => parse_http_version(d, i) = i + 2
  BY <1>1, VersionIs
<1>10. i = Last(ps)  BY DEF i
<1>a. CASE step = "EmptyLine"
  <2>1. Place(step, d, ps) = IF i > Len(d) \/ d[i] \in {"CR", "LF"} THEN EndOfLine(d, i) ELSE i
    BY <1>a, <1>10, PlaceOf
  <2> QED  BY <2>1, <1>10, <1>2, <1>3, <1>9
<1>b. CASE step = "Method"
  <2>1. Place(step, d, ps) = parse_token(d, i, " ")
    BY <1>b, <1>10, PlaceOf
  <2> QED  BY <2>1, <1>10, <1>4
<1>c. CASE step = "Spaces"
  <2>1. Place(step, d, ps) = Skip(d, i, {" "})
    BY <1>c, <1>10, PlaceOf
  <2> QED  BY <2>1, <1>10, <1>5
<1>d. CASE step = "Target"
  <2>1. Place(step, d, ps) = Stopped(d, FirstOf(d, i, Control \cup Blank), {" "})
    BY <1>d, <1>10, PlaceOf
  <2> QED  BY <2>1, <1>10, <1>6
<1>e. CASE step = "Version"
  <2>1. Place(step, d, ps) = IF ps[2] = ps[3] \/ ps[4] = ps[5] THEN Bad ELSE parse_http_version(d, i)
    BY <1>e, <1>10, PlaceOf
  <2> QED  BY <2>1, <1>10, <1>3, <1>7, <1>8, <1>9
<1>f. CASE step = "EndOfLine"
  <2>1. Place(step, d, ps) = EndOfLine(d, i)
    BY <1>f, <1>10, PlaceOf
  <2> QED  BY <2>1, <1>10, <1>2
<1>g. CASE step = "Name"
  <2>1. Place(step, d, ps) = IF parse_token(d, i, ":") = i THEN Bad ELSE parse_token(d, i, ":")
    BY <1>g, <1>10, PlaceOf
  <2> QED  BY <2>1, <1>10, <1>3, <1>4
<1>h. CASE step = "Colon"
  <2>1. Place(step, d, ps) = Skip(d, i, Blank)
    BY <1>h, <1>10, PlaceOf
  <2> QED  BY <2>1, <1>10, <1>5
<1>i. CASE step = "Value"
  <2>1. Place(step, d, ps) = Stopped(d, FirstOf(d, i, Control), Control)
    BY <1>i, <1>10, PlaceOf
  <2> QED  BY <2>1, <1>10, <1>6
<1> QED  BY <1>a, <1>b, <1>c, <1>d, <1>e, <1>f, <1>g, <1>h, <1>i DEF Steps

(* A place that a step comes to, or a refusal, is the same in each longer text. *)
LEMMA PlaceStands ==
  ASSUME NEW d, NEW e, BeginsWith(e, d), NEW ps, Last(ps) \in 1 .. Len(d) + 1,
         NEW step \in Steps, Place(step, d, ps) # More
  PROVE  Place(step, e, ps) = Place(step, d, ps)
<1> DEFINE i == Last(ps)
<1>1. i \in 1 .. Len(d) + 1  OBVIOUS
<1>2. i = Last(ps)  OBVIOUS
<1> HIDE DEF i
<1>3. Len(d) \in Nat /\ Len(e) \in Nat /\ Len(d) <= Len(e)
      /\ \A k \in 1 .. Len(d) : e[k] = d[k]
  BY DEF BeginsWith, Texts
<1>4. EndOfLine(d, i) # More => EndOfLine(e, i) = EndOfLine(d, i)
  BY <1>1, EndOfLineStands
<1>5. \A chars, ends :
        /\ Stopped(d, FirstOf(d, i, chars), ends) # More =>
             Stopped(e, FirstOf(e, i, chars), ends) = Stopped(d, FirstOf(d, i, chars), ends)
        /\ Stopped(d, FirstBut(d, i, chars), ends) # More =>
             Stopped(e, FirstBut(e, i, chars), ends) = Stopped(d, FirstBut(d, i, chars), ends)
  BY <1>1, ToCharStands
<1>6. \A c : parse_token(d, i, c) # More => parse_token(e, i, c) = parse_token(d, i, c)
  BY <1>5 DEF parse_token
<1>7. \A chars : Skip(d, i, chars) # More => Skip(e, i, chars) = Skip(d, i, chars)
  BY <1>1, SkipStands
<1>8. parse_http_version(d, i) # More => parse_http_version(e, i) = parse_http_version(d, i)
  BY <1>1, VersionStands
<1>a. CASE step = "EmptyLine"
  <2>1. \A t : Place(step, t, ps) = IF i > Len(t) \/ t[i] \in {"CR", "LF"} THEN EndOfLine(t, i) ELSE i
    BY <1>a, <1>2, PlaceOf
  <2>2. i > Len(d) => EndOfLine(d, i) = More  BY <1>1, <1>3 DEF EndOfLine
  <2>3. i <= Len(d)  BY <2>1, <2>2, <1>1, <1>3
  <2>4. ~(i > Len(d)) /\ ~(i > Len(e)) /\ e[i] = d[i]  BY <1>1, <1>3, <2>3
  <2> QED  BY <1>4, <2>1, <2>4
<1>b. CASE step = "Method"
  <2>1. \A t : Place(step, t, ps) = parse_token(t, i, " ")
    BY <1>b, <1>2, PlaceOf
  <2> QED  BY <2>1, <1>6
<1>c. CASE step = "Spaces"
  <2>1. \A t : Place(step, t, ps) = Skip(t, i, {" "})
    BY <1>c, <1>2, PlaceOf
  <2> QED  BY <2>1, <1>7
<1>d. CASE step = "Target"
  <2>1. \A t : Place(step, t, ps) = Stopped(t, FirstOf(t, i, Control \cup Blank), {" "})
    BY <1>d, <1>2, PlaceOf
  <2> QED  BY <2>1, <1>5
<1>e. CASE step = "Version"
  <2>1. \A t : Place(step, t, ps) = IF ps[2] = ps[3] \/ ps[4] = ps[5] THEN Bad ELSE parse_http_version(t, i)
    BY <1>e, <1>2, PlaceOf
  <2> QED  BY <2>1, <1>8
<1>f. CASE step = "EndOfLine"
  <2>1. \A t : Place(step, t, ps) = EndOfLine(t, i)
    BY <1>f, <1>2, PlaceOf
  <2> QED  BY <2>1, <1>4
<1>g. CASE step = "Name"
  <2>1. \A t : Place(step, t, ps) =
               IF parse_token(t, i, ":") = i THEN Bad ELSE parse_token(t, i, ":")
    BY <1>g, <1>2, PlaceOf
  <2>2. parse_token(d, i, ":") # More
    <3>1. i # More  BY <1>1, <1>3 DEF More
    <3> QED  BY <2>1, <3>1
  <2> QED  BY <1>6, <2>1, <2>2
<1>h. CASE step = "Colon"
  <2>1. \A t : Place(step, t, ps) = Skip(t, i, Blank)
    BY <1>h, <1>2, PlaceOf
  <2> QED  BY <2>1, <1>7
<1>i. CASE step = "Value"
  <2>1. \A t : Place(step, t, ps) = Stopped(t, FirstOf(t, i, Control), Control)
    BY <1>i, <1>2, PlaceOf
  <2> QED  BY <2>1, <1>5
<1> QED  BY <1>a, <1>b, <1>c, <1>d, <1>e, <1>f, <1>g, <1>h, <1>i DEF Steps


-------------------------------------------------------------------------------
(* What is known of the places in a line: none, or the last one, is a refusal. *)
Path(d) == {ps \in Seq(Int) : ps # <<>> /\ Last(ps) \in Result(d)}

LEMMA LastOfAppend ==
  ASSUME NEW S, NEW ps \in Seq(S), NEW p \in S
  PROVE  /\ Append(ps, p) \in Seq(S) /\ Append(ps, p) # <<>>
         /\ Len(Append(ps, p)) = Len(ps) + 1
         /\ \A k \in 1 .. Len(ps) : Append(ps, p)[k] = ps[k]
         /\ Append(ps, p)[Len(ps) + 1] = p
         /\ Last(Append(ps, p)) = p
<1> DEFINE q == Append(ps, p)
<1>1. /\ q \in Seq(S) /\ Len(q) = Len(ps) + 1 /\ q[Len(ps) + 1] = p
      /\ \A k \in 1 .. Len(ps) : q[k] = ps[k]
  BY AppendProperties
<1>2. q # <<>>
  <2>1. Len(ps) \in Nat  OBVIOUS
  <2>2. Len(q) # 0  BY <1>1, <2>1
  <2>3. Len(<<>>) = 0  OBVIOUS
  <2> HIDE DEF q
  <2> QED  BY <2>2, <2>3
<1>3. Last(q) = q[Len(q)]  BY DEF Last
<1> HIDE DEF q
<1>4. Last(q) = p  BY <1>1, <1>3
<1> QED  BY <1>1, <1>2, <1>4 DEF q

LEMMA FurtherIs ==
  ASSUME NEW d \in Texts, NEW ps \in Path(d), NEW step \in Steps
  PROVE  /\ Further(step, d, ps) \in Path(d)
         /\ Last(ps) < 0 => Further(step, d, ps) = ps
         /\ ~(Last(ps) < 0) => Last(ps) \in 1 .. Len(d) + 1
                               /\ Further(step, d, ps) = Append(ps, Place(step, d, ps))
                               /\ Last(Further(step, d, ps)) = Place(step, d, ps)
<1>1. Len(d) \in Nat /\ ps \in Seq(Int) /\ Last(ps) \in Result(d)
  BY DEF Texts, Path
<1>2. CASE Last(ps) < 0
  BY <1>2 DEF Further
<1>3. CASE ~(Last(ps) < 0)
  <2>1. Last(ps) \in 1 .. Len(d) + 1  BY <1>1, <1>3 DEF Result, Bad, More
  <2>2. Place(step, d, ps) \in Result(d)  BY <2>1, PlaceIs
  <2>3. Place(step, d, ps) \in Int  BY <1>1, <2>2 DEF Result, Bad, More
  <2>4. Further(step, d, ps) = Append(ps, Place(step, d, ps))  BY <1>3 DEF Further
  <2>5. /\ Append(ps, Place(step, d, ps)) \in Seq(Int)
        /\ Append(ps, Place(step, d, ps)) # <<>>
        /\ Last(Append(ps, Place(step, d, ps))) = Place(step, d, ps)
    BY <1>1, <2>3, LastOfAppend
  <2> QED  BY <1>3, <2>1, <2>2, <2>4, <2>5 DEF Path
<1> QED  BY <1>2, <1>3

(* Two functions that the same recursion defines are one. *)
Follows(r, S, N, g) ==
  \A n \in 1 .. N : r[n - 1] \in S => r[n] = g[n][r[n - 1]]
Agree(q, r, N) == \A n \in 0 .. N : q[n] = r[n]

LEMMA SameRun ==
  ASSUME NEW S, NEW N \in Nat, NEW g, NEW r \in [0 .. N -> S], NEW q,
         Follows(r, S, N, g), Follows(q, S, N, g), q[0] = r[0]
  PROVE  Agree(q, r, N)
<1> USE DEF Follows
<1> DEFINE T == {k \in Nat : k <= N => q[k] = r[k]}
<1>1. 0 \in T  OBVIOUS
<1>2. ASSUME NEW k \in Nat, k \in T PROVE k + 1 \in T
  <2> SUFFICES ASSUME k + 1 <= N PROVE q[k + 1] = r[k + 1]
    OBVIOUS
  <2>1. k + 1 \in 1 .. N /\ (k + 1) - 1 = k /\ k \in 0 .. N  OBVIOUS
  <2>2. q[k] = r[k] /\ r[k] \in S /\ q[k] \in S  BY <1>2, <2>1
  <2>3. q[k + 1] = g[k + 1][q[k]]  BY <2>1, <2>2
  <2>4. r[k + 1] = g[k + 1][r[k]]  BY <2>1
  <2> QED  BY <2>2, <2>3, <2>4
<1>3. Nat \subseteq T
  <2> HIDE DEF T
  <2> QED  BY <1>1, <1>2, Induction
<1> QED  BY <1>3 DEF Agree

(* The places known after each step. *)
IsReading(u, steps, d, known) ==
  /\ u \in [0 .. Len(steps) -> Path(d)]
  /\ u[0] = known
  /\ \A n \in 1 .. Len(steps) :
       u[n] = IF n < Len(known) THEN known ELSE Further(steps[n], d, u[n - 1])

LEMMA PlacesRun ==
  ASSUME NEW d \in Texts, NEW steps \in Seq(Steps), NEW known \in Path(d)
  PROVE  \E u : IsReading(u, steps, d, known) /\ Places(steps, d, known) = u[Len(steps)]
<1> DEFINE N == Len(steps)
           S == Path(d)
           next(n, x) == IF n < Len(known) THEN known ELSE Further(steps[n], d, x)
           g == [n \in 1 .. N |-> [x \in S |-> next(n, x)]]
           Eq(u) == u = [n \in 0 .. N |-> next(n, u[n - 1])]
           run == CHOOSE u : Eq(u)
<1>1. N \in Nat /\ \A n \in 1 .. N : steps[n] \in Steps  OBVIOUS
<1>2. Len(known) \in Nat \ {0} /\ known \in S
  <2>1. known \in Seq(Int) /\ known # <<>>  BY DEF Path
  <2> QED  BY <2>1
<1> HIDE DEF N
<1>3. \A n \in 1 .. N : \A x \in S : next(n, x) \in S
  BY <1>1, <1>2, FurtherIs
<1>4. \A x : next(0, x) = known
  BY <1>2
<1> HIDE DEF S, next
<1>5. \A n \in 1 .. N : \A x \in S : g[n][x] = next(n, x)
  OBVIOUS
<1>6. \A n \in 1 .. N : \A x \in S : g[n][x] \in S
  <2> HIDE DEF g
  <2> QED  BY <1>3, <1>5
<1> HIDE DEF g
<1>7. PICK r \in [0 .. N -> S] : r[0] = known /\ \A n \in 1 .. N : r[n] = g[n][r[n - 1]]
  <2>1. HasRun(S, known, N, g)  BY <1>1, <1>2, <1>6, RecursionExists
  <2> QED  BY <2>1 DEF HasRun
<1>8. ASSUME NEW n \in 1 .. N PROVE r[n] = next(n, r[n - 1])
  <2>1. n - 1 \in 0 .. N  BY <1>1
  <2>2. r[n - 1] \in S  BY <1>7, <2>1
  <2>3. r[n] = g[n][r[n - 1]]  BY <1>7
  <2> QED  BY <1>5, <2>2, <2>3
<1>9. Eq(r)
  <2>1. ASSUME NEW n \in 0 .. N PROVE r[n] = next(n, r[n - 1])
    <3>1. CASE n = 0
      BY <3>1, <1>4, <1>7
    <3>2. CASE n # 0
      <4>1. n \in 1 .. N  BY <3>2
      <4> QED  BY <4>1, <1>8
    <3> QED  BY <3>1, <3>2
  <2>2. r = [n \in 0 .. N |-> r[n]]  BY <1>7
  <2> QED  BY <2>1, <2>2
<1>10. Eq(run)
  <2> HIDE DEF Eq
  <2> QED  BY <1>9
<1>11. Places(steps, d, known) = run[N]
  BY DEF Places, next, N
<1> HIDE DEF run
<1>12. \A n \in 0 .. N : run[n] = next(n, run[n - 1])
  BY <1>10
<1>13. \A n \in 0 .. N : run[n] = r[n]
  <2>1. run[0] = r[0]
    <3>1. 0 \in 0 .. N  BY <1>1
    <3>2. run[0] = next(0, run[0 - 1])  BY <1>12, <3>1
    <3> QED  BY <1>4, <1>7, <3>2
  <2>2. ASSUME NEW n \in 1 .. N, run[n - 1] \in S PROVE run[n] = g[n][run[n - 1]]
    <3>1. n \in 0 .. N  OBVIOUS
    <3>2. run[n] = next(n, run[n - 1])  BY <1>12, <3>1
    <3> QED  BY <1>5, <2>2, <3>2
  <2>3. Follows(run, S, N, g)  BY <2>2 DEF Follows
  <2>4. Follows(r, S, N, g)  BY <1>7 DEF Follows
  <2>5. Agree(run, r, N)  BY <1>1, <2>1, <2>3, <2>4, SameRun
  <2> QED  BY <2>5 DEF Agree
<1>14. IsReading(r, steps, d, known)
  <2>1. r \in [0 .. Len(steps) -> Path(d)]  BY <1>7 DEF N, S
  <2>2. \A n \in 1 .. Len(steps) :
          r[n] = IF n < Len(known) THEN known ELSE Further(steps[n], d, r[n - 1])
    BY <1>8 DEF N, next
  <2> QED  BY <1>7, <2>1, <2>2 DEF IsReading
<1>15. Places(steps, d, known) = r[Len(steps)]
  <2>1. N \in 0 .. N  BY <1>1
  <2> QED  BY <1>11, <1>13, <2>1 DEF N
<1> QED  BY <1>14, <1>15


(* What Places says of a text, but for a wait for more, it says of each longer *)
(* one.                                                                     *)
LEMMA PathsInLonger ==
  ASSUME NEW d, NEW e, BeginsWith(e, d)
  PROVE  Path(d) \subseteq Path(e) /\ 1 .. Len(d) + 1 \subseteq 1 .. Len(e) + 1
<1>1. Len(d) \in Nat /\ Len(e) \in Nat /\ Len(d) <= Len(e)  BY DEF BeginsWith, Texts
<1>2. Result(d) \subseteq Result(e)  BY <1>1 DEF Result
<1> QED  BY <1>1, <1>2 DEF Path

LEMMA FurtherStands ==
  ASSUME NEW d, NEW e, BeginsWith(e, d), NEW ps \in Path(d), NEW step \in Steps,
         Last(Further(step, d, ps)) # More
  PROVE  Further(step, e, ps) = Further(step, d, ps)
<1>1. d \in Texts  BY DEF BeginsWith
<1>2. CASE Last(ps) < 0
  BY <1>2 DEF Further
<1>3. CASE ~(Last(ps) < 0)
  <2>1. /\ Last(ps) \in 1 .. Len(d) + 1
        /\ Further(step, d, ps) = Append(ps, Place(step, d, ps))
        /\ Last(Further(step, d, ps)) = Place(step, d, ps)
    BY <1>1, <1>3, FurtherIs
  <2>2. Place(step, d, ps) # More  BY <2>1
  <2>3. Place(step, e, ps) = Place(step, d, ps)  BY <2>1, <2>2, PlaceStands
  <2>4. Further(step, e, ps) = Append(ps, Place(step, e, ps))  BY <1>3 DEF Further
  <2> QED  BY <2>1, <2>3, <2>4
<1> QED  BY <1>2, <1>3

LEMMA PlacesStand ==
  ASSUME NEW d, NEW e, BeginsWith(e, d), NEW steps \in Seq(Steps), NEW known \in Path(d),
         Last(Places(steps, d, known)) # More
  PROVE  Places(steps, e, known) = Places(steps, d, known)
<1> DEFINE N == Len(steps)
<1>1. d \in Texts /\ e \in Texts /\ known \in Path(e)
  BY PathsInLonger DEF BeginsWith
<1>2. PICK u : IsReading(u, steps, d, known) /\ Places(steps, d, known) = u[N]
  BY <1>1, PlacesRun
<1>3. PICK v : IsReading(v, steps, e, known) /\ Places(steps, e, known) = v[N]
  BY <1>1, PlacesRun
<1>4. N \in Nat /\ \A n \in 1 .. N : steps[n] \in Steps  OBVIOUS
<1>5. /\ u[0] = known /\ v[0] = known
      /\ \A n \in 0 .. N : u[n] \in Path(d)
      /\ \A n \in 1 .. N : u[n] = IF n < Len(known) THEN known
                                  ELSE Further(steps[n], d, u[n - 1])
      /\ \A n \in 1 .. N : v[n] = IF n < Len(known) THEN known
                                  ELSE Further(steps[n], e, v[n - 1])
  BY <1>2, <1>3 DEF IsReading
<1> HIDE DEF N
<1> DEFINE T == {n \in Nat : n <= N => Last(u[n]) = More \/ v[n] = u[n]}
<1>6. 0 \in T  BY <1>5
<1>7. ASSUME NEW n \in Nat, n \in T PROVE n + 1 \in T
  <2> SUFFICES ASSUME n + 1 <= N PROVE Last(u[n + 1]) = More \/ v[n + 1] = u[n + 1]
    OBVIOUS
  <2> DEFINE m == n + 1
  <2>1. m \in 1 .. N /\ m - 1 = n /\ n \in 0 .. N /\ n <= N  BY <1>4
  <2>2. Last(u[n]) = More \/ v[n] = u[n]  BY <1>7, <2>1
  <2> HIDE DEF m
  <2>3. /\ u[n] \in Path(d) /\ steps[m] \in Steps
        /\ u[m] = IF m < Len(known) THEN known ELSE Further(steps[m], d, u[n])
        /\ v[m] = IF m < Len(known) THEN known ELSE Further(steps[m], e, v[n])
    BY <1>4, <1>5, <2>1
  <2>4. CASE m < Len(known)
    BY <2>3, <2>4 DEF m
  <2>5. CASE ~(m < Len(known)) /\ Last(u[n]) = More
    <3>1. Last(u[n]) < 0  BY <2>5 DEF More
    <3>2. Further(steps[m], d, u[n]) = u[n]  BY <1>1, <2>3, <3>1, FurtherIs
    <3> QED  BY <2>3, <2>5, <3>2 DEF m
  <2>6. CASE ~(m < Len(known)) /\ v[n] = u[n]
    <3>1. u[m] = Further(steps[m], d, u[n]) /\ v[m] = Further(steps[m], e, u[n])
      BY <2>3, <2>6
    <3>2. Last(Further(steps[m], d, u[n])) # More =>
            Further(steps[m], e, u[n]) = Further(steps[m], d, u[n])
      BY <2>3, FurtherStands
    <3> QED  BY <3>1, <3>2 DEF m
  <2> QED  BY <2>2, <2>4, <2>5, <2>6
<1>8. Nat \subseteq T
  <2> HIDE DEF T
  <2> QED  BY <1>6, <1>7, Induction
<1>9. Last(u[N]) = More \/ v[N] = u[N]  BY <1>4, <1>8
<1> QED  BY <1>2, <1>3, <1>9

(* The places of n steps, each of which has gone on from those before it;     *)
(* those known are the first.                                               *)
IsPath(ps, n, steps, d, known) ==
  /\ ps \in Seq(Int) /\ Len(ps) = n + 1
  /\ \A k \in 1 .. n + 1 : ps[k] \in 1 .. Len(d) + 1
  /\ \A k \in 1 .. Len(known) : ps[k] = known[k]
  /\ \A k \in Len(known) .. n : \E qs \in Seq(Int) :
       /\ Len(qs) = k /\ \A j \in 1 .. k : qs[j] = ps[j]
       /\ ps[k + 1] = Place(steps[k], d, qs)

LEMMA OneFurther ==
  ASSUME NEW d \in Texts, NEW steps \in Seq(Steps), NEW known,
         NEW n \in Nat, NEW ps, IsPath(ps, n, steps, d, known), Len(known) \in 1 .. n + 1,
         NEW p, p \in 1 .. Len(d) + 1, p = Place(steps[n + 1], d, ps)
  PROVE  IsPath(Append(ps, p), n + 1, steps, d, known)
<1> DEFINE q == Append(ps, p)
           K == Len(known)
<1>0. Len(d) \in Nat  BY DEF Texts
<1>1. p \in Int  BY <1>0
<1>2. /\ ps \in Seq(Int) /\ Len(ps) = n + 1
      /\ \A k \in 1 .. n + 1 : ps[k] \in 1 .. Len(d) + 1
      /\ \A k \in 1 .. K : ps[k] = known[k]
      /\ \A k \in K .. n : \E qs \in Seq(Int) :
           /\ Len(qs) = k /\ \A j \in 1 .. k : qs[j] = ps[j]
           /\ ps[k + 1] = Place(steps[k], d, qs)
  BY DEF IsPath
<1>3. /\ q \in Seq(Int) /\ Len(q) = n + 2 /\ q[n + 2] = p
      /\ \A k \in 1 .. n + 1 : q[k] = ps[k]
  BY <1>1, <1>2, LastOfAppend
<1>4. K \in 1 .. n + 1  OBVIOUS
<1> HIDE DEF q, K
<1>5. \A k \in 1 .. (n + 1) + 1 : q[k] \in 1 .. Len(d) + 1
  <2> TAKE k \in 1 .. (n + 1) + 1
  <2>1. k \in 1 .. n + 1 \/ k = n + 2  OBVIOUS
  <2> QED  BY <1>2, <1>3, <2>1
<1>6. \A k \in 1 .. K : q[k] = known[k]
  <2> TAKE k \in 1 .. K
  <2>1. k \in 1 .. n + 1  BY <1>4
  <2> QED  BY <1>2, <1>3, <2>1
<1>7. ASSUME NEW k \in K .. n + 1
      PROVE  \E qs \in Seq(Int) : /\ Len(qs) = k /\ \A j \in 1 .. k : qs[j] = q[j]
                                  /\ q[k + 1] = Place(steps[k], d, qs)
  <2>1. CASE k = n + 1
    <3>1. k + 1 = n + 2  BY <2>1
    <3> QED  BY <1>2, <1>3, <2>1, <3>1
  <2>2. CASE k # n + 1
    <3>1. k \in K .. n /\ k + 1 \in 1 .. n + 1 /\ \A j \in 1 .. k : j \in 1 .. n + 1
      BY <1>4, <2>2
    <3>2. PICK qs \in Seq(Int) : /\ Len(qs) = k /\ \A j \in 1 .. k : qs[j] = ps[j]
                                 /\ ps[k + 1] = Place(steps[k], d, qs)
      BY <1>2, <3>1
    <3>3. \A j \in 1 .. k : qs[j] = q[j]  BY <1>3, <3>1, <3>2
    <3> QED  BY <1>3, <3>1, <3>2, <3>3
  <2> QED  BY <2>1, <2>2
<1>8. Len(q) = (n + 1) + 1  BY <1>3
<1> QED  BY <1>3, <1>5, <1>6, <1>7, <1>8 DEF IsPath, q, K

LEMMA PlacesAre ==
  ASSUME NEW d \in Texts, NEW steps \in Seq(Steps), NEW known \in Path(d),
         Len(known) \in 1 .. Len(steps) + 1,
         \A k \in 1 .. Len(known) : known[k] \in 1 .. Len(d) + 1
  PROVE  /\ Places(steps, d, known) \in Path(d)
         /\ ~(Last(Places(steps, d, known)) < 0) =>
              IsPath(Places(steps, d, known), Len(steps), steps, d, known)
<1> DEFINE N == Len(steps)
           K == Len(known)
<1>1. PICK u : IsReading(u, steps, d, known) /\ Places(steps, d, known) = u[N]
  BY PlacesRun
<1>2. N \in Nat /\ K \in 1 .. N + 1 /\ \A n \in 1 .. N : steps[n] \in Steps  OBVIOUS
<1>3. /\ u[0] = known
      /\ \A n \in 0 .. N : u[n] \in Path(d)
      /\ \A n \in 1 .. N : u[n] = IF n < K THEN known
                                  ELSE Further(steps[n], d, u[n - 1])
  BY <1>1 DEF IsReading
<1>4. u[K - 1] = known
  <2>1. CASE K = 1
    BY <1>2, <1>3, <2>1
  <2>2. CASE K # 1
    <3> HIDE DEF K, N
    <3>1. K - 1 \in 1 .. N /\ K - 1 < K  BY <1>2, <2>2
    <3> QED  BY <1>3, <3>1
  <2> QED  BY <2>1, <2>2
<1>5. IsPath(known, K - 1, steps, d, known)
  <2>1. known \in Seq(Int)  BY DEF Path
  <2>2. K = (K - 1) + 1  BY <1>2
  <2>3. K .. K - 1 = {}  BY <1>2
  <2> QED  BY <2>1, <2>2, <2>3 DEF IsPath
<1> HIDE DEF N, K
<1> DEFINE T == {n \in Nat : n \in K - 1 .. N =>
                   (~(Last(u[n]) < 0) => IsPath(u[n], n, steps, d, known))}
<1>6. 0 \in T
  <2> SUFFICES ASSUME 0 \in K - 1 .. N PROVE IsPath(u[0], 0, steps, d, known)
    OBVIOUS
  <2>1. K - 1 = 0  BY <1>2
  <2> QED  BY <1>3, <1>5, <2>1
<1>7. ASSUME NEW n \in Nat, n \in T PROVE n + 1 \in T
  <2> DEFINE m == n + 1
  <2> SUFFICES ASSUME m \in K - 1 .. N, ~(Last(u[m]) < 0)
               PROVE  IsPath(u[m], m, steps, d, known)
    OBVIOUS
  <2>1. CASE m = K - 1
    BY <1>4, <1>5, <2>1
  <2>2. CASE m # K - 1
    <3>1. /\ m \in 1 .. N /\ m - 1 = n /\ n \in 0 .. N /\ n \in K - 1 .. N /\ ~(m < K)
          /\ K \in 1 .. n + 1
      BY <1>2, <2>2
    <3>2. ~(Last(u[n]) < 0) => IsPath(u[n], n, steps, d, known)  BY <1>7, <3>1
    <3> HIDE DEF m
    <3>3. u[n] \in Path(d) /\ steps[m] \in Steps /\ u[m] = Further(steps[m], d, u[n])
          /\ u[m] \in Path(d)
      <4>1. m \in 0 .. N  BY <3>1
      <4> QED  BY <1>2, <1>3, <3>1, <4>1
    <3>4. ~(Last(u[n]) < 0)
      <4> SUFFICES ASSUME Last(u[n]) < 0 PROVE FALSE
        OBVIOUS
      <4>1. u[m] = u[n]  BY <3>3, FurtherIs
      <4> QED  BY <4>1
    <3>5. /\ u[m] = Append(u[n], Place(steps[m], d, u[n]))
          /\ Last(u[m]) = Place(steps[m], d, u[n])
      <4> DEFINE x == u[n]
                 s == steps[m]
      <4>1. x \in Path(d) /\ s \in Steps /\ ~(Last(x) < 0)  BY <3>3, <3>4
      <4> HIDE DEF x, s
      <4>2. /\ Further(s, d, x) = Append(x, Place(s, d, x))
            /\ Last(Further(s, d, x)) = Place(s, d, x)
        BY <4>1, FurtherIs
      <4> QED  BY <3>3, <4>2 DEF x, s
    <3>6. Place(steps[m], d, u[n]) \in 1 .. Len(d) + 1
      <4>1. Last(u[m]) \in Result(d) /\ ~(Last(u[m]) < 0)  BY <3>3 DEF Path
      <4>2. Last(u[m]) \in 1 .. Len(d) + 1  BY <4>1 DEF Result, Bad, More
      <4> QED  BY <3>5, <4>2
    <3>7. IsPath(u[n], n, steps, d, known) /\ K \in 1 .. n + 1  BY <3>1, <3>2, <3>4
    <3>8. Len(known) \in 1 .. n + 1  BY <3>7 DEF K
    <3>9. IsPath(Append(u[n], Place(steps[m], d, u[n])), n + 1, steps, d, known)
      BY <3>6, <3>7, <3>8, OneFurther DEF m
    <3> QED  BY <3>5, <3>9 DEF m
  <2> QED  BY <2>1, <2>2
<1>8. Nat \subseteq T
  <2> HIDE DEF T
  <2> QED  BY <1>6, <1>7, Induction
<1>9. N \in K - 1 .. N /\ N \in 0 .. N  BY <1>2
<1>10. ~(Last(u[N]) < 0) => IsPath(u[N], N, steps, d, known)  BY <1>2, <1>8, <1>9
<1>11. u[N] \in Path(d)  BY <1>3, <1>9
<1> QED  BY <1>1, <1>10, <1>11 DEF N


(* What lies between the place i where a step begins and p where it ends.     *)
Went(step, d, i, p) ==
  /\ i <= p /\ p <= Len(d) + 1
  /\ step \in {"Method", "Name"} => \A k \in i .. p - 1 : d[k] \in TokenChar
  /\ step \in {"Spaces", "Colon", "Name", "EndOfLine"} => i < p
  /\ step \in {"Method", "Spaces", "Target", "Name", "Colon", "Value"} => p <= Len(d)
  /\ step = "Target" => \A k \in i .. p - 1 : d[k] \notin Control \cup Blank
  /\ step = "Value" => \A k \in i .. p - 1 : d[k] \notin Control
  /\ step = "Version" => p = i + 2

LEMMA StepWent ==
  ASSUME NEW d \in Texts, NEW ps, Last(ps) \in 1 .. Len(d) + 1, NEW step \in Steps,
         Place(step, d, ps) > 0
  PROVE  Went(step, d, Last(ps), Place(step, d, ps))
<1> DEFINE i == Last(ps)
           p == Place(step, d, ps)
<1>1. Len(d) \in Nat /\ i \in 1 .. Len(d) + 1 /\ i \in Int  BY DEF Texts
<1>2. p \in 1 .. Len(d) + 1 /\ i <= p /\ p > 0 /\ p \in Int
  BY <1>1, PlaceIs DEF Result, Bad, More
<1>3. i = Last(ps) /\ p = Place(step, d, ps)  OBVIOUS
<1> HIDE DEF i, p
<1>a. CASE step = "EmptyLine"
  BY <1>a, <1>1, <1>2, <1>3 DEF Went
<1>b. CASE step = "Method"
  <2>1. p = parse_token(d, i, " ")  BY <1>b, <1>3, PlaceOf
  <2>2. p <= Len(d) /\ \A k \in i .. p - 1 : d[k] \in TokenChar  BY <1>1, <1>2, <2>1, TokenIs
  <2> QED  BY <1>b, <1>2, <1>3, <2>2 DEF Went
<1>c. CASE step = "Spaces"
  <2>1. p = Skip(d, i, {" "})  BY <1>c, <1>3, PlaceOf
  <2>2. i < p /\ p <= Len(d)  BY <1>1, <1>2, <2>1, SkipIs
  <2> QED  BY <1>c, <1>2, <1>3, <2>2 DEF Went
<1>d. CASE step = "Target"
  <2>1. p = Stopped(d, FirstOf(d, i, Control \cup Blank), {" "})  BY <1>d, <1>3, PlaceOf
  <2>2. p <= Len(d) /\ \A k \in i .. p - 1 : d[k] \notin Control \cup Blank
    BY <1>1, <1>2, <2>1, ToCharIs
  <2> QED  BY <1>d, <1>2, <1>3, <2>2 DEF Went
<1>e. CASE step = "Version"
  <2>1. p = IF ps[2] = ps[3] \/ ps[4] = ps[5] THEN Bad ELSE parse_http_version(d, i)
    BY <1>e, <1>3, PlaceOf
  <2>2. p = parse_http_version(d, i)  BY <1>2, <2>1 DEF Bad
  <2>3. p = i + 2  BY <1>1, <1>2, <2>2, VersionIs
  <2> QED  BY <1>e, <1>2, <1>3, <2>3 DEF Went
<1>f. CASE step = "EndOfLine"
  <2>1. p = EndOfLine(d, i)  BY <1>f, <1>3, PlaceOf
  <2>2. i < p  BY <1>1, <1>2, <2>1, EndOfLineIs
  <2> QED  BY <1>f, <1>2, <1>3, <2>2 DEF Went
<1>g. CASE step = "Name"
  <2>1. p = IF parse_token(d, i, ":") = i THEN Bad ELSE parse_token(d, i, ":")
    BY <1>g, <1>3, PlaceOf
  <2>2. p = parse_token(d, i, ":") /\ p # i  BY <1>2, <2>1 DEF Bad
  <2>3. p <= Len(d) /\ \A k \in i .. p - 1 : d[k] \in TokenChar  BY <1>1, <1>2, <2>2, TokenIs
  <2>4. i < p  BY <1>1, <1>2, <2>2
  <2> QED  BY <1>g, <1>2, <1>3, <2>3, <2>4 DEF Went
<1>h. CASE step = "Colon"
  <2>1. p = Skip(d, i, Blank)  BY <1>h, <1>3, PlaceOf
  <2>2. i < p /\ p <= Len(d)  BY <1>1, <1>2, <2>1, SkipIs
  <2> QED  BY <1>h, <1>2, <1>3, <2>2 DEF Went
<1>i. CASE step = "Value"
  <2>1. p = Stopped(d, FirstOf(d, i, Control), Control)  BY <1>i, <1>3, PlaceOf
  <2>2. p <= Len(d) /\ \A k \in i .. p - 1 : d[k] \notin Control
    BY <1>1, <1>2, <2>1, ToCharIs
  <2> QED  BY <1>i, <1>2, <1>3, <2>2 DEF Went
<1> QED  BY <1>a, <1>b, <1>c, <1>d, <1>e, <1>f, <1>g, <1>h, <1>i DEF Steps

LEMMA PathWent ==
  ASSUME NEW d \in Texts, NEW steps \in Seq(Steps), NEW known, NEW ps,
         IsPath(ps, Len(steps), steps, d, known), Len(known) \in Nat \ {0},
         NEW k \in Len(known) .. Len(steps)
  PROVE  Went(steps[k], d, ps[k], ps[k + 1])
<1>1. k \in 1 .. Len(steps) /\ k \in 1 .. k /\ k + 1 \in 1 .. Len(steps) + 1
  OBVIOUS
<1>2. PICK qs \in Seq(Int) : /\ Len(qs) = k /\ \A j \in 1 .. k : qs[j] = ps[j]
                             /\ ps[k + 1] = Place(steps[k], d, qs)
  BY DEF IsPath
<1>3. Last(qs) = ps[k]  BY <1>1, <1>2 DEF Last
<1>4. ps[k] \in 1 .. Len(d) + 1 /\ ps[k + 1] \in 1 .. Len(d) + 1  BY <1>1 DEF IsPath
<1>5. ps[k + 1] > 0  BY <1>4, Len(d) \in Nat
<1>6. steps[k] \in Steps  BY <1>1
<1> QED  BY <1>2, <1>3, <1>4, <1>5, <1>6, StepWent

(* The places in a request line that is one.                                *)
LEMMA RequestLineIs ==
  ASSUME NEW d \in Texts, NEW ps, ps = Places(RequestLine, d, << 1 >>), ~(Last(ps) < 0)
  PROVE  /\ ps \in Seq(Int) /\ Last(ps) = ps[8]
         /\ \A k \in 1 .. 8 : ps[k] \in 1 .. Len(d) + 1
         /\ ps[3] < ps[4] /\ ps[5] < ps[6] /\ ps[7] = ps[6] + 2 /\ ps[7] < ps[8]
         /\ ps[2] <= ps[3] /\ ps[4] <= ps[5] /\ ps[5] <= Len(d)
         /\ \A k \in ps[2] .. ps[3] - 1 : d[k] \in TokenChar
         /\ \A k \in ps[4] .. ps[5] - 1 : d[k] \notin Control \cup Blank
<1> DEFINE s == RequestLine
<1>1. /\ s \in Seq(Steps) /\ Len(s) = 7
      /\ s[2] = "Method" /\ s[3] = "Spaces" /\ s[4] = "Target"
      /\ s[5] = "Spaces" /\ s[6] = "Version" /\ s[7] = "EndOfLine"
  BY DEF RequestLine, Steps
<1>2. Len(d) \in Nat  BY DEF Texts
<1>3. << 1 >> \in Path(d) /\ Len(<< 1 >>) = 1 /\ << 1 >>[1] \in 1 .. Len(d) + 1
  <2>1. << 1 >> \in Seq(Int) /\ << 1 >> # <<>> /\ Len(<< 1 >>) = 1 /\ << 1 >>[1] = 1  OBVIOUS
  <2>2. Last(<< 1 >>) = 1  BY <2>1 DEF Last
  <2>3. 1 \in 1 .. Len(d) + 1  BY <1>2
  <2> QED  BY <2>1, <2>2, <2>3 DEF Path, Result
<1> DEFINE first == << 1 >>
<1>4. first \in Path(d) /\ Len(first) = 1 /\ first[1] \in 1 .. Len(d) + 1
      /\ ps = Places(s, d, first)
  BY <1>3
<1> HIDE DEF s, first
<1>5. Len(first) \in 1 .. Len(s) + 1 /\ \A k \in 1 .. Len(first) : first[k] \in 1 .. Len(d) + 1
  BY <1>1, <1>4
<1>6. IsPath(ps, Len(s), s, d, first)  BY <1>1, <1>4, <1>5, PlacesAre
<1>7. \A k \in 1 .. 7 : Went(s[k], d, ps[k], ps[k + 1])
  <2> TAKE k \in 1 .. 7
  <2>1. k \in Len(first) .. Len(s) /\ Len(first) \in Nat \ {0}  BY <1>1, <1>4
  <2> QED  BY <1>1, <1>6, <2>1, PathWent
<1>8. /\ ps \in Seq(Int) /\ Len(ps) = 8
      /\ \A k \in 1 .. 8 : ps[k] \in 1 .. Len(d) + 1
  BY <1>1, <1>6 DEF IsPath
<1>9. /\ Went("Method", d, ps[2], ps[3]) /\ Went("Spaces", d, ps[3], ps[4])
      /\ Went("Target", d, ps[4], ps[5]) /\ Went("Spaces", d, ps[5], ps[6])
      /\ Went("Version", d, ps[6], ps[7]) /\ Went("EndOfLine", d, ps[7], ps[8])
  <2>1. \A k \in {2, 3, 4, 5, 6, 7} : k \in 1 .. 7  OBVIOUS
  <2>2. 2 + 1 = 3 /\ 3 + 1 = 4 /\ 4 + 1 = 5 /\ 5 + 1 = 6 /\ 6 + 1 = 7 /\ 7 + 1 = 8  OBVIOUS
  <2> QED  BY <1>1, <1>7, <2>1, <2>2
<1>10. Last(ps) = ps[8]  BY <1>8 DEF Last
<1> QED  BY <1>8, <1>9, <1>10 DEF Went


-------------------------------------------------------------------------------
(* No line end is in a slice. *)
Clean(d, view) == ToSet(Text(d, view)) \cap Control = {}

LEMMA SliceClean ==
  ASSUME NEW d, NEW i \in Int, NEW j \in Int, \A k \in i .. j - 1 : d[k] \notin Control
  PROVE  Clean(d, Slice(i, j)) /\ End(Slice(i, j)) = j
<1> DEFINE S == {d[k] : k \in i .. j - 1}
           t == SubSeq(d, i, j - 1)
<1>1. \A k \in i .. j - 1 : d[k] \in S  OBVIOUS
<1>2. S \cap Control = {}  OBVIOUS
<1>3. Text(d, Slice(i, j)) = t
  <2>1. i + (j - i) - 1 = j - 1  OBVIOUS
  <2> QED  BY <2>1 DEF Text, Slice
<1> HIDE DEF S
<1>4. j - 1 \in Int  OBVIOUS
<1>5. t \in Seq(S)  BY <1>1, <1>4, SubSeqProperties
<1> HIDE DEF t
<1>6. ToSet(t) \subseteq S  BY <1>5 DEF ToSet
<1>7. End(Slice(i, j)) = j  BY DEF End, Slice
<1> QED  BY <1>2, <1>3, <1>6, <1>7 DEF Clean

LEMMA NoSliceClean ==
  ASSUME NEW d
  PROVE  Clean(d, NoSlice)
<1>1. NoSlice = Slice(0, 0)  BY DEF NoSlice, Slice
<1>2. 0 .. 0 - 1 = {}  OBVIOUS
<1>3. Clean(d, Slice(0, 0))  BY <1>2, SliceClean
<1> QED  BY <1>1, <1>3

LEMMA TrimmedIs ==
  ASSUME NEW d, NEW i \in Nat, NEW end \in Nat, i <= end
  PROVE  Trimmed(d, i, end) \in i .. end
<1> DEFINE filled == {k \in i .. end - 1 : d[k] \notin Blank}
<1>1. Trimmed(d, i, end) = IF filled = {} THEN i ELSE Max(filled) + 1
  BY DEF Trimmed
<1>2. \A k \in filled : k \in i .. end - 1  OBVIOUS
<1> HIDE DEF filled
<1>3. CASE filled = {}
  BY <1>1, <1>3
<1>4. CASE filled # {}
  <2> DEFINE m == Max(filled)
  <2>1. m \in filled
    <3>1. filled \in SUBSET (0 .. end)  BY <1>2
    <3> QED  BY <1>4, <3>1, MaxOf
  <2> HIDE DEF m
  <2>2. m \in i .. end - 1  BY <1>2, <2>1
  <2>3. Trimmed(d, i, end) = m + 1  BY <1>1, <1>4 DEF m
  <2> QED  BY <2>2, <2>3
<1> QED  BY <1>3, <1>4

(* The places in a field that is one, with a name or without. *)
FieldPlaces(d, i, ps) ==
  /\ ps \in Seq(Int) /\ Len(ps) = 5 /\ Last(ps) = ps[5]
  /\ \A k \in 1 .. 5 : ps[k] \in 1 .. Len(d) + 1
  /\ ps[1] = i /\ ps[3] <= ps[4] /\ ps[4] <= Len(d) /\ ps[4] < ps[5]
  /\ \A k \in ps[3] .. ps[4] - 1 : d[k] \notin Control
  /\ \/ ps[2] = i /\ ps[3] = i
     \/ /\ i < ps[2] /\ ps[2] < ps[3]
        /\ \A k \in i .. ps[2] - 1 : d[k] \in TokenChar

KnownPlaces(d, i, known) ==
  /\ known \in Path(d) /\ Len(known) \in {1, 3}
  /\ \A k \in 1 .. Len(known) : known[k] = i

LEMMA FieldPathIs ==
  ASSUME NEW d \in Texts, NEW i \in 1 .. Len(d) + 1, NEW known \in {<<i>>, <<i, i, i>>}
  PROVE  /\ KnownPlaces(d, i, known)
         /\ Last(Places(FieldLine, d, known)) \in Result(d)
<1> DEFINE s == FieldLine
<1>1. /\ s \in Seq(Steps) /\ Len(s) = 4
      /\ s[1] = "Name" /\ s[2] = "Colon" /\ s[3] = "Value" /\ s[4] = "EndOfLine"
  BY DEF FieldLine, Steps
<1>2. Len(d) \in Nat /\ i \in Int  BY DEF Texts
<1>3. /\ known \in Seq(Int) /\ known # <<>> /\ Len(known) \in {1, 3}
      /\ \A k \in 1 .. Len(known) : known[k] = i
  <2>1. CASE known = <<i>>
    BY <1>2, <2>1
  <2>2. CASE known = <<i, i, i>>
    <3>1. \A k \in 1 .. 3 : k = 1 \/ k = 2 \/ k = 3  OBVIOUS
    <3> QED  BY <1>2, <2>2, <3>1
  <2> QED  BY <2>1, <2>2
<1>4. known \in Path(d)
  <2>1. Last(known) = i  BY <1>3 DEF Last
  <2> QED  BY <1>2, <1>3, <2>1 DEF Path, Result
<1>5. Places(s, d, known) \in Path(d)
  <2> HIDE DEF s
  <2>1. Len(known) \in 1 .. Len(s) + 1
        /\ \A k \in 1 .. Len(known) : known[k] \in 1 .. Len(d) + 1
    BY <1>1, <1>3
  <2> QED  BY <1>1, <1>4, <2>1, PlacesAre
<1> QED  BY <1>3, <1>4, <1>5 DEF Path, KnownPlaces

LEMMA FieldLineIs ==
  ASSUME NEW d \in Texts, NEW i \in 1 .. Len(d) + 1, NEW known \in {<<i>>, <<i, i, i>>},
         NEW ps, ps = Places(FieldLine, d, known), ~(Last(ps) < 0)
  PROVE  FieldPlaces(d, i, ps)
<1> DEFINE s == FieldLine
<1>1. /\ s \in Seq(Steps) /\ Len(s) = 4
      /\ s[1] = "Name" /\ s[2] = "Colon" /\ s[3] = "Value" /\ s[4] = "EndOfLine"
  BY DEF FieldLine, Steps
<1>2. Len(d) \in Nat /\ i \in Int  BY DEF Texts
<1>3. /\ known \in Path(d) /\ Len(known) \in {1, 3}
      /\ \A k \in 1 .. Len(known) : known[k] = i
  <2>1. KnownPlaces(d, i, known)  BY FieldPathIs
  <2> QED  BY <2>1 DEF KnownPlaces
<1>4. known \in Path(d)  BY <1>3
<1> HIDE DEF s
<1>5. Len(known) \in 1 .. Len(s) + 1 /\ \A k \in 1 .. Len(known) : known[k] \in 1 .. Len(d) + 1
  BY <1>1, <1>3
<1>6. IsPath(ps, Len(s), s, d, known)  BY <1>1, <1>4, <1>5, PlacesAre DEF s
<1>7. /\ ps \in Seq(Int) /\ Len(ps) = 5
      /\ \A k \in 1 .. 5 : ps[k] \in 1 .. Len(d) + 1
      /\ \A k \in 1 .. Len(known) : ps[k] = i
  <2>1. /\ ps \in Seq(Int) /\ Len(ps) = Len(s) + 1
        /\ \A k \in 1 .. Len(s) + 1 : ps[k] \in 1 .. Len(d) + 1
        /\ \A k \in 1 .. Len(known) : ps[k] = known[k]
    BY <1>6 DEF IsPath
  <2>2. Len(s) + 1 = 5  BY <1>1
  <2> QED  BY <1>3, <2>1, <2>2
<1>8. \A k \in Len(known) .. 4 : Went(s[k], d, ps[k], ps[k + 1])
  <2> TAKE k \in Len(known) .. 4
  <2>1. k \in Len(known) .. Len(s) /\ Len(known) \in Nat \ {0}  BY <1>1, <1>3
  <2> QED  BY <1>1, <1>6, <2>1, PathWent
<1>9. Went("Value", d, ps[3], ps[4]) /\ Went("EndOfLine", d, ps[4], ps[5])
  <2>1. 3 \in Len(known) .. 4 /\ 4 \in Len(known) .. 4 /\ 3 + 1 = 4 /\ 4 + 1 = 5  BY <1>3
  <2> QED  BY <1>1, <1>8, <2>1
<1>10. \/ ps[2] = i /\ ps[3] = i
       \/ /\ i < ps[2] /\ ps[2] < ps[3]
          /\ \A k \in i .. ps[2] - 1 : d[k] \in TokenChar
  <2>1. CASE Len(known) = 1
    <3>1. 1 \in Len(known) .. 4 /\ 2 \in Len(known) .. 4 /\ 1 + 1 = 2 /\ 2 + 1 = 3  BY <2>1
    <3>2. Went("Name", d, ps[1], ps[2]) /\ Went("Colon", d, ps[2], ps[3])
      BY <1>1, <1>8, <3>1
    <3>3. ps[1] = i  BY <1>7, <2>1
    <3> QED  BY <3>2, <3>3 DEF Went
  <2>2. CASE Len(known) = 3
    BY <1>7, <2>2
  <2> QED  BY <1>3, <2>1, <2>2
<1>11. Last(ps) = ps[5]  BY <1>7 DEF Last
<1>12. ps[1] = i
  <2>1. 1 \in 1 .. Len(known)  BY <1>3
  <2> QED  BY <1>7, <2>1
<1> QED  BY <1>7, <1>9, <1>10, <1>11, <1>12 DEF Went, FieldPlaces


-------------------------------------------------------------------------------
View == [at : Int, len : Int]
Fields == [name : View, value : View]

(* A field that begins at i and ends before p. *)
FieldAt(d, f, i, p) ==
  /\ f \in Fields
  /\ Begin(f) = i /\ End(f.value) < p /\ End(f.value) <= Len(d)
  /\ f.name # NoSlice => End(f.name) < f.value.at
  /\ Clean(d, f.name) /\ Clean(d, f.value)

LEMMA FieldIs ==
  ASSUME NEW d \in Texts, NEW i \in 1 .. Len(d) + 1, NEW known \in {<<i>>, <<i, i, i>>},
         NEW ps, ps = Places(FieldLine, d, known), ~(Last(ps) < 0)
  PROVE  FieldAt(d, Field(d, ps), i, Last(ps))
<1> DEFINE t == Trimmed(d, ps[3], ps[4])
           name == IF ps[1] = ps[2] THEN NoSlice ELSE Slice(ps[1], ps[2])
           value == Slice(ps[3], t)
<1>1. Len(d) \in Nat /\ i \in Int /\ i > 0  BY DEF Texts
<1>2. /\ ps \in Seq(Int) /\ Len(ps) = 5 /\ Last(ps) = ps[5]
      /\ \A k \in 1 .. 5 : ps[k] \in 1 .. Len(d) + 1
      /\ ps[1] = i /\ ps[3] <= ps[4] /\ ps[4] <= Len(d) /\ ps[4] < ps[5]
      /\ \A k \in ps[3] .. ps[4] - 1 : d[k] \notin Control
      /\ \/ ps[2] = i /\ ps[3] = i
         \/ /\ i < ps[2] /\ ps[2] < ps[3]
            /\ \A k \in i .. ps[2] - 1 : d[k] \in TokenChar
  <2>1. FieldPlaces(d, i, ps)  BY FieldLineIs
  <2> QED  BY <2>1 DEF FieldPlaces
<1>3. /\ ps[2] \in 1 .. Len(d) + 1 /\ ps[3] \in 1 .. Len(d) + 1
      /\ ps[4] \in 1 .. Len(d) + 1 /\ ps[5] \in 1 .. Len(d) + 1
  BY <1>2
<1>4. t \in ps[3] .. ps[4]  BY <1>1, <1>2, <1>3, TrimmedIs
<1>5. Field(d, ps) = [name |-> name, value |-> value]  BY DEF Field
<1> HIDE DEF t
<1>6. t \in Int /\ t <= Len(d) /\ t < ps[5]  BY <1>1, <1>2, <1>3, <1>4
<1>7. Clean(d, value) /\ End(value) = t
  <2>1. \A k \in ps[3] .. t - 1 : k \in ps[3] .. ps[4] - 1  BY <1>3, <1>4
  <2>2. \A k \in ps[3] .. t - 1 : d[k] \notin Control  BY <1>2, <2>1
  <2>3. ps[3] \in Int  BY <1>1, <1>3
  <2> QED  BY <1>6, <2>2, <2>3, SliceClean
<1>8. value \in View /\ value.at = ps[3]  BY <1>1, <1>3, <1>6 DEF View, Slice
<1>9. CASE ps[2] = i /\ ps[3] = i
  <2>1. name = NoSlice  BY <1>2, <1>9
  <2>2. name \in View  BY <2>1 DEF NoSlice, View
  <2>3. Clean(d, name)  BY <2>1, NoSliceClean
  <2> HIDE DEF name, value
  <2> QED  BY <1>2, <1>5, <1>6, <1>7, <1>8, <1>9, <2>1, <2>2, <2>3 DEF FieldAt, Fields, Begin
<1>10. CASE i < ps[2] /\ ps[2] < ps[3] /\ \A k \in i .. ps[2] - 1 : d[k] \in TokenChar
  <2>1. name = Slice(i, ps[2]) /\ ps[2] \in Int  BY <1>1, <1>2, <1>3, <1>10
  <2>2. name \in View /\ name.at = i /\ name # NoSlice
    BY <1>1, <2>1 DEF NoSlice, View, Slice
  <2>3. \A k \in i .. ps[2] - 1 : d[k] \notin Control
    <3>1. TokenChar \cap Control = {}
      BY DEF TokenChar, Control, Digit, TooBig, ContentLength_, TransferEncoding_
    <3> QED  BY <1>10, <3>1
  <2>4. Clean(d, name) /\ End(name) = ps[2]  BY <1>1, <2>1, <2>3, SliceClean
  <2> HIDE DEF name, value
  <2> QED  BY <1>2, <1>5, <1>6, <1>7, <1>8, <1>10, <2>2, <2>4 DEF FieldAt, Fields, Begin
<1> QED  BY <1>2, <1>9, <1>10


(* The fields that lie one after another from start on and before p. *)
InOrder(d, start, p, fields) ==
  \A k \in 1 .. Len(fields) :
    \E i, j \in Int :
      /\ FieldAt(d, fields[k], i, j)
      /\ IF k = 1 THEN start <= i ELSE End(fields[k - 1].value) < i
      /\ k = Len(fields) => p < 0 \/ j <= p

(* What the loop in parse_headers may have come to. *)
Rounds(d, start) ==
  {r \in [at : Result(d), fields : Seq(Fields), over : BOOLEAN] :
     /\ ~r.over => r.at >= start
     /\ InOrder(d, start, r.at, r.fields)}

LEMMA RoundIs ==
  ASSUME NEW d, NEW start, NEW p \in Result(d), NEW fields \in Seq(Fields), NEW over \in BOOLEAN,
         ~over => p >= start, InOrder(d, start, p, fields)
  PROVE  [at |-> p, fields |-> fields, over |-> over] \in Rounds(d, start)
BY DEF Rounds

LEMMA NoFieldsYet ==
  ASSUME NEW d \in Texts, NEW start \in 1 .. Len(d) + 1
  PROVE  [at |-> start, fields |-> <<>>, over |-> FALSE] \in Rounds(d, start)
<1>1. start \in Result(d) /\ start >= start  BY Len(d) \in Nat DEF Result, Texts
<1>2. <<>> \in Seq(Fields)  OBVIOUS
<1>3. InOrder(d, start, start, <<>>)  BY DEF InOrder
<1> QED  BY <1>1, <1>2, <1>3, RoundIs

LEMMA FieldAdded ==
  ASSUME NEW d \in Texts, NEW start \in 1 .. Len(d) + 1, NEW fields \in Seq(Fields),
         NEW i \in 1 .. Len(d) + 1, start <= i, InOrder(d, start, i, fields),
         NEW f, NEW p \in 1 .. Len(d) + 1, FieldAt(d, f, i, p)
  PROVE  Append(fields, f) \in Seq(Fields) /\ InOrder(d, start, p, Append(fields, f))
<1> DEFINE q == Append(fields, f)
           n == Len(fields)
<1>0. n \in Nat /\ Len(d) \in Nat /\ i \in Int /\ p \in Int /\ i > 0  BY DEF Texts
<1>1. f \in Fields  BY DEF FieldAt
<1>2. /\ q \in Seq(Fields) /\ Len(q) = n + 1 /\ q[n + 1] = f
      /\ \A k \in 1 .. n : q[k] = fields[k]
  BY <1>1, LastOfAppend
<1> HIDE DEF q, n
<1>3. ASSUME NEW k \in 1 .. n + 1
      PROVE  \E a, b \in Int :
               /\ FieldAt(d, q[k], a, b)
               /\ IF k = 1 THEN start <= a ELSE End(q[k - 1].value) < a
               /\ k = n + 1 => p < 0 \/ b <= p
  <2>1. CASE k = n + 1 /\ n = 0
    <3>1. q[k] = f /\ k = 1  BY <1>2, <2>1
    <3> QED  BY <1>0, <3>1
  <2>2. CASE k = n + 1 /\ n # 0
    <3>1. n \in 1 .. n /\ k - 1 = n /\ k # 1  BY <1>0, <2>2
    <3>2. q[k] = f /\ q[k - 1] = fields[n]  BY <1>2, <2>2, <3>1
    <3>3. PICK a, b \in Int : FieldAt(d, fields[n], a, b) /\ (i < 0 \/ b <= i)
      BY <3>1 DEF InOrder, n
    <3>4. End(fields[n].value) < b /\ End(fields[n].value) \in Int
      <4>1. fields[n] \in Fields  BY <3>3 DEF FieldAt
      <4>2. fields[n].value \in View  BY <4>1 DEF Fields
      <4>3. End(fields[n].value) \in Int  BY <4>2 DEF View, End
      <4> QED  BY <3>3, <4>3 DEF FieldAt
    <3>5. End(fields[n].value) < i  BY <1>0, <3>3, <3>4
    <3> QED  BY <1>0, <3>1, <3>2, <3>5
  <2>3. CASE k # n + 1
    <3>1. k \in 1 .. n /\ (k # 1 => k - 1 \in 1 .. n)  BY <1>0, <2>3
    <3>2. q[k] = fields[k] /\ (k # 1 => q[k - 1] = fields[k - 1])  BY <1>2, <3>1
    <3>3. PICK a, b \in Int :
            /\ FieldAt(d, fields[k], a, b)
            /\ IF k = 1 THEN start <= a ELSE End(fields[k - 1].value) < a
      BY <3>1 DEF InOrder, n
    <3> QED  BY <2>3, <3>2, <3>3
  <2> QED  BY <2>1, <2>2, <2>3
<1>4. InOrder(d, start, p, q)  BY <1>2, <1>3 DEF InOrder
<1> QED  BY <1>2, <1>4 DEF q

LEMMA NoMoreFields ==
  ASSUME NEW d, NEW start, NEW i \in Nat, NEW fields, InOrder(d, start, i, fields),
         NEW p \in Int, p < 0 \/ i <= p
  PROVE  InOrder(d, start, p, fields)
<1> SUFFICES ASSUME NEW k \in 1 .. Len(fields)
             PROVE  \E a, b \in Int :
                      /\ FieldAt(d, fields[k], a, b)
                      /\ IF k = 1 THEN start <= a ELSE End(fields[k - 1].value) < a
                      /\ k = Len(fields) => p < 0 \/ b <= p
  BY DEF InOrder
<1>1. PICK a, b \in Int :
        /\ FieldAt(d, fields[k], a, b)
        /\ IF k = 1 THEN start <= a ELSE End(fields[k - 1].value) < a
        /\ k = Len(fields) => i < 0 \/ b <= i
  BY DEF InOrder
<1>2. ~(i < 0) /\ (b <= i => p < 0 \/ b <= p)  OBVIOUS
<1> QED  BY <1>1, <1>2

LEMMA HeaderLineIs ==
  ASSUME NEW d \in Texts, NEW start \in 1 .. Len(d) + 1, NEW r \in Rounds(d, start), ~r.over,
         NEW max_headers
  PROVE  HeaderLine(d, r, max_headers) \in Rounds(d, start)
<1> DEFINE i == r.at
           known == IF Continues(d, i, r.fields) THEN <<i, i, i>> ELSE <<i>>
           ps == Places(FieldLine, d, known)
           H == HeaderLine(d, r, max_headers)
<1>1. Len(d) \in Nat /\ start \in Int /\ start > 0  BY DEF Texts
<1>2. /\ r.at \in Result(d) /\ r.fields \in Seq(Fields) /\ r.at >= start
      /\ InOrder(d, start, r.at, r.fields)
  BY DEF Rounds
<1>3. i \in 1 .. Len(d) + 1 /\ i \in Nat /\ start <= i
  BY <1>1, <1>2 DEF Result, Bad, More
<1>4. known \in {<<i>>, <<i, i, i>>}  OBVIOUS
<1> HIDE DEF known
<1>5. ASSUME NEW p \in Result(d), p < 0 \/ i <= p
      PROVE  [at |-> p, fields |-> r.fields, over |-> TRUE] \in Rounds(d, start)
  <2>1. p \in Int  BY <1>1 DEF Result, Bad, More
  <2>2. InOrder(d, start, p, r.fields)  BY <1>2, <1>3, <1>5, <2>1, NoMoreFields
  <2> QED  BY <1>2, <2>2, RoundIs
<1>6. Bad \in Result(d) /\ Bad < 0  BY DEF Result, Bad
<1>7. CASE i > Len(d) \/ d[i] \in {"CR", "LF"}
  <2>1. H = [at |-> EndOfLine(d, i), fields |-> r.fields, over |-> TRUE]
    BY <1>7 DEF HeaderLine
  <2>2. /\ EndOfLine(d, i) \in Result(d)
        /\ EndOfLine(d, i) > 0 => EndOfLine(d, i) > i
    BY <1>3, EndOfLineIs
  <2>3. EndOfLine(d, i) < 0 \/ i <= EndOfLine(d, i)
    BY <1>1, <1>3, <2>2 DEF Result, Bad, More
  <2> QED  BY <1>5, <2>1, <2>2, <2>3
<1>8. CASE ~(i > Len(d) \/ d[i] \in {"CR", "LF"}) /\ Len(r.fields) = max_headers
  <2>1. H = [at |-> Bad, fields |-> r.fields, over |-> TRUE]
    BY <1>8 DEF HeaderLine
  <2> QED  BY <1>5, <1>6, <2>1
<1>9. CASE ~(i > Len(d) \/ d[i] \in {"CR", "LF"}) /\ Len(r.fields) # max_headers /\ Last(ps) < 0
  <2>1. H = [at |-> Last(ps), fields |-> r.fields, over |-> TRUE]
    BY <1>9 DEF HeaderLine, known
  <2>2. Last(ps) \in Result(d)  BY <1>3, <1>4, FieldPathIs
  <2> QED  BY <1>5, <1>9, <2>1, <2>2
<1>10. CASE ~(i > Len(d) \/ d[i] \in {"CR", "LF"}) /\ Len(r.fields) # max_headers
            /\ ~(Last(ps) < 0)
  <2>1. H = [at |-> Last(ps), fields |-> Append(r.fields, Field(d, ps)), over |-> FALSE]
    BY <1>10 DEF HeaderLine, known
  <2>2. FieldPlaces(d, i, ps)  BY <1>3, <1>4, <1>10, FieldLineIs
  <2>3. Last(ps) \in 1 .. Len(d) + 1 /\ i <= Last(ps)
    <3> HIDE DEF ps, i
    <3>1. /\ Last(ps) = ps[5] /\ \A k \in 1 .. 5 : ps[k] \in 1 .. Len(d) + 1
          /\ ps[3] <= ps[4] /\ ps[4] < ps[5]
          /\ \/ ps[2] = i /\ ps[3] = i
             \/ i < ps[2] /\ ps[2] < ps[3]
      BY <2>2 DEF FieldPlaces
    <3>2. /\ ps[2] \in 1 .. Len(d) + 1 /\ ps[3] \in 1 .. Len(d) + 1
          /\ ps[4] \in 1 .. Len(d) + 1 /\ ps[5] \in 1 .. Len(d) + 1
      BY <3>1
    <3> QED  BY <1>1, <1>3, <3>1, <3>2
  <2>4. FieldAt(d, Field(d, ps), i, Last(ps))  BY <1>3, <1>4, <1>10, FieldIs
  <2>5. /\ Append(r.fields, Field(d, ps)) \in Seq(Fields)
        /\ InOrder(d, start, Last(ps), Append(r.fields, Field(d, ps)))
    BY <1>2, <1>3, <2>3, <2>4, FieldAdded
  <2>6. Last(ps) \in Result(d) /\ Last(ps) >= start  BY <1>1, <1>3, <2>3 DEF Result
  <2> HIDE DEF ps
  <2> QED  BY <2>1, <2>5, <2>6, RoundIs
<1> QED  BY <1>7, <1>8, <1>9, <1>10


LEMMA FieldStands ==
  ASSUME NEW d, NEW e, BeginsWith(e, d), NEW i, NEW ps, FieldPlaces(d, i, ps)
  PROVE  Field(e, ps) = Field(d, ps)
<1>1. Len(d) \in Nat /\ \A k \in 1 .. Len(d) : e[k] = d[k]
  BY DEF BeginsWith, Texts
<1>2. ps[3] \in 1 .. Len(d) + 1 /\ ps[4] \in 1 .. Len(d) + 1 /\ ps[4] <= Len(d)
  BY DEF FieldPlaces
<1>3. \A k \in ps[3] .. ps[4] - 1 : e[k] = d[k]  BY <1>1, <1>2
<1>4. {k \in ps[3] .. ps[4] - 1 : e[k] \notin Blank} = {k \in ps[3] .. ps[4] - 1 : d[k] \notin Blank}
  BY <1>3
<1>5. Trimmed(e, ps[3], ps[4]) = Trimmed(d, ps[3], ps[4])  BY <1>4, Zenon DEF Trimmed
<1> QED  BY <1>5 DEF Field

LEMMA HeaderLineStands ==
  ASSUME NEW d, NEW e, BeginsWith(e, d), NEW start \in 1 .. Len(d) + 1,
         NEW r \in Rounds(d, start), ~r.over, NEW max_headers,
         HeaderLine(d, r, max_headers).at # More
  PROVE  HeaderLine(e, r, max_headers) = HeaderLine(d, r, max_headers)
<1> DEFINE i == r.at
           known == IF Continues(d, i, r.fields) THEN <<i, i, i>> ELSE <<i>>
           ps == Places(FieldLine, d, known)
           qs == Places(FieldLine, e, known)
<1>1. /\ Len(d) \in Nat /\ Len(e) \in Nat /\ Len(d) <= Len(e) /\ d \in Texts
      /\ \A k \in 1 .. Len(d) : e[k] = d[k]
  BY DEF BeginsWith, Texts
<1>2. i \in 1 .. Len(d) + 1  BY <1>1 DEF Rounds, Result, Bad, More
<1>3. EndOfLine(d, i) # More => EndOfLine(e, i) = EndOfLine(d, i)  BY <1>2, EndOfLineStands
<1>4. i <= Len(d)
  <2> SUFFICES ASSUME i > Len(d) PROVE FALSE
    BY <1>1, <1>2
  <2>1. HeaderLine(d, r, max_headers).at = EndOfLine(d, i)  BY DEF HeaderLine
  <2>2. EndOfLine(d, i) = More  BY <1>1, <1>2 DEF EndOfLine
  <2> QED  BY <2>1, <2>2
<1>5. ~(i > Len(d)) /\ ~(i > Len(e)) /\ e[i] = d[i]  BY <1>1, <1>2, <1>4
<1>6. Continues(e, i, r.fields) = Continues(d, i, r.fields)  BY <1>5, Zenon DEF Continues
<1>7. known \in {<<i>>, <<i, i, i>>}  OBVIOUS
<1>8. known = IF Continues(e, i, r.fields) THEN <<i, i, i>> ELSE <<i>>  BY <1>6, Zenon
<1> HIDE DEF known
<1>9. Last(ps) # More => qs = ps
  <2>1. KnownPlaces(d, i, known)  BY <1>1, <1>2, <1>7, FieldPathIs
  <2>2. known \in Path(d)  BY <2>1 DEF KnownPlaces
  <2>3. FieldLine \in Seq(Steps)  BY DEF FieldLine, Steps
  <2> QED  BY <2>2, <2>3, PlacesStand
<1>10. CASE d[i] \in {"CR", "LF"}
  <2>1. HeaderLine(d, r, max_headers) = [at |-> EndOfLine(d, i), fields |-> r.fields, over |-> TRUE]
    BY <1>10 DEF HeaderLine
  <2>2. HeaderLine(e, r, max_headers) = [at |-> EndOfLine(e, i), fields |-> r.fields, over |-> TRUE]
    BY <1>5, <1>10 DEF HeaderLine
  <2>3. HeaderLine(d, r, max_headers).at = EndOfLine(d, i)  BY <2>1
  <2>4. EndOfLine(e, i) = EndOfLine(d, i)  BY <1>3, <2>3
  <2> QED  BY <2>1, <2>2, <2>4
<1>11. CASE d[i] \notin {"CR", "LF"} /\ Len(r.fields) = max_headers
  BY <1>5, <1>11 DEF HeaderLine
<1>12. CASE d[i] \notin {"CR", "LF"} /\ Len(r.fields) # max_headers
  <2>1. HeaderLine(d, r, max_headers) =
          IF Last(ps) < 0 THEN [at |-> Last(ps), fields |-> r.fields, over |-> TRUE]
          ELSE [at |-> Last(ps), fields |-> Append(r.fields, Field(d, ps)), over |-> FALSE]
    BY <1>5, <1>12 DEF HeaderLine, known
  <2>2. HeaderLine(e, r, max_headers) =
          IF Last(qs) < 0 THEN [at |-> Last(qs), fields |-> r.fields, over |-> TRUE]
          ELSE [at |-> Last(qs), fields |-> Append(r.fields, Field(e, qs)), over |-> FALSE]
    BY <1>5, <1>8, <1>12 DEF HeaderLine
  <2>3. Last(ps) # More
    <3>1. HeaderLine(d, r, max_headers).at = Last(ps)  BY <2>1
    <3> QED  BY <3>1
  <2>4. qs = ps  BY <1>9, <2>3
  <2>5. ~(Last(ps) < 0) => Field(e, ps) = Field(d, ps)
    <3> SUFFICES ASSUME ~(Last(ps) < 0) PROVE Field(e, ps) = Field(d, ps)
      OBVIOUS
    <3>1. FieldPlaces(d, i, ps)  BY <1>1, <1>2, <1>7, FieldLineIs
    <3> QED  BY <3>1, FieldStands
  <2>6. CASE Last(ps) < 0
    <3>1. HeaderLine(d, r, max_headers) = [at |-> Last(ps), fields |-> r.fields, over |-> TRUE]
      BY <2>1, <2>6, Zenon
    <3>2. HeaderLine(e, r, max_headers) = [at |-> Last(ps), fields |-> r.fields, over |-> TRUE]
      BY <2>2, <2>4, <2>6, Zenon
    <3> QED  BY <3>1, <3>2, Zenon
  <2>7. CASE ~(Last(ps) < 0)
    <3>1. HeaderLine(d, r, max_headers) =
            [at |-> Last(ps), fields |-> Append(r.fields, Field(d, ps)), over |-> FALSE]
      BY <2>1, <2>7, Zenon
    <3>2. HeaderLine(e, r, max_headers) =
            [at |-> Last(ps), fields |-> Append(r.fields, Field(e, ps)), over |-> FALSE]
      BY <2>2, <2>4, <2>7, Zenon
    <3> QED  BY <2>5, <2>7, <3>1, <3>2, Zenon
  <2> QED  BY <2>6, <2>7, Zenon
<1> QED  BY <1>10, <1>11, <1>12

-------------------------------------------------------------------------------
(* What the loop in parse_headers has come to after each round.               *)
NoFields(start) == [at |-> start, fields |-> <<>>, over |-> FALSE]
NextRound(d, r, max_headers) == IF r.over THEN r ELSE HeaderLine(d, r, max_headers)

AreRounds(u, d, start, max_headers) ==
  /\ u \in [0 .. max_headers + 1 -> Rounds(d, start)]
  /\ u[0] = NoFields(start)
  /\ \A n \in 1 .. max_headers + 1 : u[n] = NextRound(d, u[n - 1], max_headers)

LEMMA HeadersRun ==
  ASSUME NEW d \in Texts, NEW start \in 1 .. Len(d) + 1, NEW max_headers \in Nat
  PROVE  \E u : /\ AreRounds(u, d, start, max_headers)
                /\ parse_headers(d, start, max_headers) = u[max_headers + 1]
<1> DEFINE N == max_headers + 1
           S == Rounds(d, start)
           a == NoFields(start)
           next(x) == NextRound(d, x, max_headers)
           g == [n \in 1 .. N |-> [x \in S |-> next(x)]]
           Eq(u) == u = [n \in 0 .. N |-> IF n = 0 THEN a ELSE next(u[n - 1])]
           run == CHOOSE u : Eq(u)
<1>1. N \in Nat  OBVIOUS
<1>2. a \in S  BY NoFieldsYet DEF NoFields
<1>3. \A x \in S : next(x) \in S  BY HeaderLineIs DEF NextRound
<1>11. parse_headers(d, start, max_headers) = run[N]
  BY DEF parse_headers, NextRound, NoFields
<1> HIDE DEF S, next, N, a
<1>5. \A n \in 1 .. N : \A x \in S : g[n][x] = next(x)
  OBVIOUS
<1> HIDE DEF g
<1>6. \A n \in 1 .. N : \A x \in S : g[n][x] \in S
  BY <1>3, <1>5
<1>7. PICK r \in [0 .. N -> S] : r[0] = a /\ \A n \in 1 .. N : r[n] = g[n][r[n - 1]]
  <2>1. HasRun(S, a, N, g)  BY <1>1, <1>2, <1>6, RecursionExists
  <2> QED  BY <2>1 DEF HasRun
<1>8. ASSUME NEW n \in 1 .. N PROVE r[n] = next(r[n - 1])
  <2>1. n - 1 \in 0 .. N  BY <1>1
  <2>2. r[n - 1] \in S  BY <1>7, <2>1
  <2>3. r[n] = g[n][r[n - 1]]  BY <1>7
  <2> QED  BY <1>5, <2>2, <2>3
<1>9. Eq(r)
  <2>1. ASSUME NEW n \in 0 .. N PROVE r[n] = IF n = 0 THEN a ELSE next(r[n - 1])
    <3>1. CASE n = 0
      BY <3>1, <1>7
    <3>2. CASE n # 0
      <4>1. n \in 1 .. N  BY <3>2
      <4> QED  BY <3>2, <4>1, <1>8
    <3> QED  BY <3>1, <3>2
  <2>2. r = [n \in 0 .. N |-> r[n]]  BY <1>7
  <2> QED  BY <2>1, <2>2
<1>10. Eq(run)
  <2> HIDE DEF Eq
  <2> QED  BY <1>9
<1> HIDE DEF run
<1>12. \A n \in 0 .. N : run[n] = IF n = 0 THEN a ELSE next(run[n - 1])
  BY <1>10
<1>13. \A n \in 0 .. N : run[n] = r[n]
  <2>1. run[0] = r[0]
    <3>1. 0 \in 0 .. N  BY <1>1
    <3> QED  BY <1>7, <1>12, <3>1
  <2>2. ASSUME NEW n \in 1 .. N, run[n - 1] \in S PROVE run[n] = g[n][run[n - 1]]
    <3>1. n \in 0 .. N /\ n # 0  OBVIOUS
    <3>2. run[n] = next(run[n - 1])  BY <1>12, <3>1
    <3> QED  BY <1>5, <2>2, <3>2
  <2>3. Follows(run, S, N, g)  BY <2>2 DEF Follows
  <2>4. Follows(r, S, N, g)  BY <1>7 DEF Follows
  <2>5. Agree(run, r, N)  BY <1>1, <2>1, <2>3, <2>4, <1>7, SameRun
  <2> QED  BY <2>5 DEF Agree
<1>14. AreRounds(r, d, start, max_headers)
  <2>1. \A n \in 1 .. max_headers + 1 : r[n] = NextRound(d, r[n - 1], max_headers)
    BY <1>8 DEF N, next
  <2> QED  BY <1>7, <2>1 DEF AreRounds, N, S, a
<1>15. parse_headers(d, start, max_headers) = r[max_headers + 1]
  <2>1. N \in 0 .. N  BY <1>1
  <2> QED  BY <1>11, <1>13, <2>1 DEF N
<1> QED  BY <1>14, <1>15

LEMMA HeadersAre ==
  ASSUME NEW d \in Texts, NEW start \in 1 .. Len(d) + 1, NEW max_headers \in Nat
  PROVE  parse_headers(d, start, max_headers) \in Rounds(d, start)
<1>1. PICK u : /\ AreRounds(u, d, start, max_headers)
               /\ parse_headers(d, start, max_headers) = u[max_headers + 1]
  BY HeadersRun
<1>2. max_headers + 1 \in 0 .. max_headers + 1  OBVIOUS
<1> QED  BY <1>1, <1>2 DEF AreRounds

LEMMA HeadersStand ==
  ASSUME NEW d, NEW e, BeginsWith(e, d), NEW start \in 1 .. Len(d) + 1, NEW max_headers \in Nat,
         parse_headers(d, start, max_headers).at # More
  PROVE  parse_headers(e, start, max_headers) = parse_headers(d, start, max_headers)
<1> DEFINE N == max_headers + 1
<1>1. d \in Texts /\ e \in Texts /\ start \in 1 .. Len(e) + 1
  BY PathsInLonger DEF BeginsWith
<1>2. PICK u : AreRounds(u, d, start, max_headers) /\ parse_headers(d, start, max_headers) = u[N]
  BY <1>1, HeadersRun
<1>3. PICK v : AreRounds(v, e, start, max_headers) /\ parse_headers(e, start, max_headers) = v[N]
  BY <1>1, HeadersRun
<1>4. N \in Nat  OBVIOUS
<1>5. /\ u[0] = NoFields(start) /\ v[0] = NoFields(start)
      /\ \A n \in 0 .. N : u[n] \in Rounds(d, start)
      /\ \A n \in 1 .. N : u[n] = NextRound(d, u[n - 1], max_headers)
      /\ \A n \in 1 .. N : v[n] = NextRound(e, v[n - 1], max_headers)
  BY <1>2, <1>3 DEF AreRounds
<1> HIDE DEF N
<1> DEFINE T == {n \in Nat : n <= N => u[n].at = More \/ v[n] = u[n]}
<1>6. 0 \in T  BY <1>5
<1>7. ASSUME NEW n \in Nat, n \in T PROVE n + 1 \in T
  <2> SUFFICES ASSUME n + 1 <= N PROVE u[n + 1].at = More \/ v[n + 1] = u[n + 1]
    OBVIOUS
  <2>1. n + 1 \in 1 .. N /\ (n + 1) - 1 = n /\ n \in 0 .. N /\ n <= N  BY <1>4
  <2>2. u[n].at = More \/ v[n] = u[n]  BY <1>7, <2>1
  <2>3. /\ u[n] \in Rounds(d, start)
        /\ u[n + 1] = NextRound(d, u[n], max_headers)
        /\ v[n + 1] = NextRound(e, v[n], max_headers)
    BY <1>5, <2>1
  <2>4. CASE u[n].at = More
    <3>1. u[n].over
      <4>1. start \in Int /\ start > 0  BY <1>1 DEF Texts
      <4> QED  BY <2>3, <2>4, <4>1 DEF Rounds, More
    <3> QED  BY <2>3, <2>4, <3>1 DEF NextRound
  <2>5. CASE v[n] = u[n]
    <3>1. CASE u[n].over
      BY <2>3, <2>5, <3>1 DEF NextRound
    <3>2. CASE ~u[n].over
      <4>1. u[n + 1] = HeaderLine(d, u[n], max_headers) /\ v[n + 1] = HeaderLine(e, u[n], max_headers)
        BY <2>3, <2>5, <3>2 DEF NextRound
      <4>2. HeaderLine(d, u[n], max_headers).at # More =>
              HeaderLine(e, u[n], max_headers) = HeaderLine(d, u[n], max_headers)
        BY <2>3, <3>2, HeaderLineStands
      <4> QED  BY <4>1, <4>2
    <3> QED  BY <3>1, <3>2
  <2> QED  BY <2>2, <2>4, <2>5
<1>8. Nat \subseteq T
  <2> HIDE DEF T
  <2> QED  BY <1>6, <1>7, Induction
<1>9. u[N].at = More \/ v[N] = u[N]  BY <1>4, <1>8
<1> QED  BY <1>2, <1>3, <1>9



-------------------------------------------------------------------------------
LEMMA ParseStands ==
  ASSUME NEW d, NEW e, BeginsWith(e, d), NEW max_headers \in Nat,
         parse_request(d, max_headers).ret # More
  PROVE  parse_request(e, max_headers) = parse_request(d, max_headers)
<1> DEFINE first == << 1 >>
           ps == Places(RequestLine, d, first)
           qs == Places(RequestLine, e, first)
           h == parse_headers(d, Last(ps), max_headers)
           g == parse_headers(e, Last(ps), max_headers)
           None_ == [ret |-> Last(ps), method |-> NoSlice, target |-> NoSlice, minor |-> -1,
                     fields |-> <<>>]
           Full(x, hs) == [ret |-> hs.at, method |-> Slice(ps[2], ps[3]),
                           target |-> Slice(ps[4], ps[5]), minor |-> Digit[x[ps[6] + 1]],
                           fields |-> hs.fields]
<1>1. d \in Texts /\ e \in Texts /\ Len(d) \in Nat /\ \A k \in 1 .. Len(d) : e[k] = d[k]
  BY DEF BeginsWith, Texts
<1>2. parse_request(d, max_headers) = IF Last(ps) < 0 THEN None_ ELSE Full(d, h)
  BY DEF parse_request
<1>3. Last(ps) # More
  <2>1. Last(ps) = More => parse_request(d, max_headers).ret = More
    BY <1>2 DEF More
  <2> QED  BY <2>1
<1>4. qs = ps
  <2>1. first \in Path(d)
    <3>1. first \in Seq(Int) /\ first # <<>> /\ Len(first) = 1 /\ first[1] = 1  OBVIOUS
    <3>2. Last(first) = 1  BY <3>1 DEF Last
    <3> QED  BY <1>1, <3>1, <3>2 DEF Path, Result
  <2>2. RequestLine \in Seq(Steps)  BY DEF RequestLine, Steps
  <2> HIDE DEF first
  <2> QED  BY <1>3, <2>1, <2>2, PlacesStand
<1>5. parse_request(e, max_headers) = IF Last(qs) < 0 THEN [None_ EXCEPT !.ret = Last(qs)]
        ELSE [ret |-> parse_headers(e, Last(qs), max_headers).at, method |-> Slice(qs[2], qs[3]),
              target |-> Slice(qs[4], qs[5]), minor |-> Digit[e[qs[6] + 1]],
              fields |-> parse_headers(e, Last(qs), max_headers).fields]
  BY DEF parse_request
<1>6. CASE Last(ps) < 0
  BY <1>2, <1>4, <1>5, <1>6
<1>7. CASE ~(Last(ps) < 0)
  <2>1. /\ Last(ps) = ps[8] /\ ps[7] = ps[6] + 2 /\ ps[7] < ps[8]
        /\ \A k \in 1 .. 8 : ps[k] \in 1 .. Len(d) + 1
    BY <1>1, <1>7, RequestLineIs
  <2>2. ps[6] \in 1 .. Len(d) + 1 /\ ps[7] \in 1 .. Len(d) + 1 /\ ps[8] \in 1 .. Len(d) + 1
    BY <2>1
  <2>3. e[ps[6] + 1] = d[ps[6] + 1]
    <3> HIDE DEF ps
    <3>1. ps[6] + 1 \in 1 .. Len(d)
      <4>1. \A a, b, c \in 1 .. Len(d) + 1 : b = a + 2 /\ b < c => a + 1 \in 1 .. Len(d)
        BY <1>1
      <4> QED  BY <2>1, <2>2, <4>1
    <3> QED  BY <1>1, <3>1
  <2>4. Last(ps) \in 1 .. Len(d) + 1  BY <2>1, <2>2
  <2>5. parse_request(d, max_headers) = Full(d, h)  BY <1>2, <1>7
  <2>6. h.at # More  BY <2>5
  <2>7. g = h  BY <2>4, <2>6, HeadersStand
  <2>8. parse_request(e, max_headers) = Full(e, g)  BY <1>4, <1>5, <1>7
  <2>9. Full(e, g) = Full(d, h)  BY <2>3, <2>7
  <2> QED  BY <2>5, <2>8, <2>9
<1> QED  BY <1>6, <1>7

LEMMA PhrIs ==
  ASSUME NEW d, NEW max_headers
  PROVE  LET q == parse_request(d, max_headers) IN
         phr_parse_request(d, max_headers) =
           [ret |-> IF q.ret < 0 THEN q.ret ELSE q.ret - 1, method |-> q.method,
            target |-> q.target, minor |-> q.minor, fields |-> q.fields]
BY DEF phr_parse_request, parse_request

(* What phr_parse_request says of a text, but that it waits for more, it says  *)
(* whatever follows: it decides on the bytes up to where it stops and on no   *)
(* other (picohttpparser.c 355-398, 400-426).                               *)
THEOREM VerdictStands ==
  ASSUME NEW d \in Texts, NEW rest \in Texts, NEW max_headers \in Nat,
         phr_parse_request(d, max_headers).ret # More
  PROVE  phr_parse_request(d \o rest, max_headers) = phr_parse_request(d, max_headers)
<1>1. BeginsWith(d \o rest, d)
  <2>1. /\ d \o rest \in Texts /\ Len(d \o rest) = Len(d) + Len(rest)
        /\ \A k \in 1 .. Len(d) : (d \o rest)[k] = d[k]
    BY ConcatProperties DEF Texts
  <2>2. Len(d) \in Nat /\ Len(rest) \in Nat  BY DEF Texts
  <2> QED  BY <2>1, <2>2 DEF BeginsWith
<1>2. parse_request(d, max_headers).ret # More
  <2> DEFINE q == parse_request(d, max_headers)
  <2>1. phr_parse_request(d, max_headers).ret = IF q.ret < 0 THEN q.ret ELSE q.ret - 1
    BY PhrIs
  <2> HIDE DEF q
  <2>2. q.ret = More => phr_parse_request(d, max_headers).ret = More  BY <2>1 DEF More
  <2> QED  BY <2>2 DEF q
<1>3. parse_request(d \o rest, max_headers) = parse_request(d, max_headers)
  BY <1>1, <1>2, ParseStands
<1> QED  BY <1>3 DEF phr_parse_request


-------------------------------------------------------------------------------
(* What SlicesInHead says of a text and what was found in it. *)
SliceEnds(r) == <<End(r.target)>> \o [k \in DOMAIN r.fields |-> End(r.fields[k].value)]
SlicesIn(d, r) ==
  LET fields == r.fields
      ends == SliceEnds(r)
  IN /\ 1 <= r.method.at /\ End(r.method) < r.target.at
     /\ \A k \in DOMAIN fields :
          /\ ends[k] < Begin(fields[k])
          /\ fields[k].name # NoSlice => End(fields[k].name) < fields[k].value.at
     /\ Last(ends) <= Len(d)
     /\ Clean(d, r.method) /\ Clean(d, r.target)
     /\ \A k \in DOMAIN fields : Clean(d, fields[k].name) /\ Clean(d, fields[k].value)

LEMMA EndsAre ==
  ASSUME NEW first \in Int, NEW fields \in Seq(Fields)
  PROVE  LET ends == <<first>> \o [k \in DOMAIN fields |-> End(fields[k].value)] IN
         /\ \A k \in 1 .. Len(fields) + 1 :
              ends[k] = IF k = 1 THEN first ELSE End(fields[k - 1].value)
         /\ Last(ends) = IF Len(fields) = 0 THEN first ELSE End(fields[Len(fields)].value)
<1> DEFINE n == Len(fields)
           tail == [k \in 1 .. n |-> End(fields[k].value)]
           one == <<first>>
           ends == one \o tail
<1>1. n \in Nat /\ DOMAIN fields = 1 .. n /\ \A k \in 1 .. n : fields[k] \in Fields  OBVIOUS
<1>2. \A k \in 1 .. n : End(fields[k].value) \in Int
  BY <1>1 DEF Fields, View, End
<1> HIDE DEF n
<1>3. tail \in Seq(Int) /\ Len(tail) = n /\ \A k \in 1 .. n : tail[k] = End(fields[k].value)
  BY <1>1, <1>2
<1>4. one \in Seq(Int) /\ Len(one) = 1 /\ one[1] = first  OBVIOUS
<1> HIDE DEF tail, one
<1>5. /\ ends \in Seq(Int) /\ Len(ends) = 1 + n
      /\ \A k \in 1 .. 1 : ends[k] = one[k]
      /\ \A k \in 1 .. n : ends[1 + k] = tail[k]
  <2>1. /\ ends \in Seq(Int) /\ Len(ends) = Len(one) + Len(tail)
        /\ \A k \in 1 .. Len(one) : ends[k] = one[k]
        /\ \A k \in 1 .. Len(tail) : ends[Len(one) + k] = tail[k]
    <3>1. one \in Seq(Int) /\ tail \in Seq(Int)  BY <1>3, <1>4
    <3> QED  BY <3>1, ConcatProperties
  <2> HIDE DEF ends
  <2> QED  BY <1>3, <1>4, <2>1
<1>6. Last(ends) = ends[Len(ends)]  BY DEF Last
<1> HIDE DEF ends
<1>7. ASSUME NEW k \in 1 .. n + 1
      PROVE  ends[k] = IF k = 1 THEN first ELSE End(fields[k - 1].value)
  <2>1. CASE k = 1
    BY <1>4, <1>5, <2>1
  <2>2. CASE k # 1
    <3>1. k - 1 \in 1 .. n /\ 1 + (k - 1) = k  BY <1>1, <2>2
    <3> QED  BY <1>3, <1>5, <2>2, <3>1
  <2> QED  BY <2>1, <2>2
<1>8. Last(ends) = IF n = 0 THEN first ELSE End(fields[n].value)
  <2>1. n + 1 \in 1 .. n + 1 /\ Len(ends) = n + 1 /\ (n + 1) - 1 = n /\ (n + 1 = 1 <=> n = 0)
    BY <1>1, <1>5
  <2> QED  BY <1>6, <1>7, <2>1
<1>9. ends = <<first>> \o [k \in DOMAIN fields |-> End(fields[k].value)]
  BY <1>1 DEF ends, one, tail
<1> QED  BY <1>7, <1>8, <1>9 DEF n

LEMMA RequestPathIs ==
  ASSUME NEW d \in Texts
  PROVE  << 1 >> \in Path(d) /\ Last(Places(RequestLine, d, << 1 >>)) \in Result(d)
<1> DEFINE s == RequestLine
           first == << 1 >>
<1>1. s \in Seq(Steps) /\ Len(s) = 7  BY DEF RequestLine, Steps
<1>2. Len(d) \in Nat  BY DEF Texts
<1>3. /\ first \in Path(d)
      /\ Len(first) \in 1 .. Len(s) + 1
      /\ \A k \in 1 .. Len(first) : first[k] \in 1 .. Len(d) + 1
  <2>1. first \in Seq(Int) /\ first # <<>> /\ Len(first) = 1 /\ first[1] = 1  OBVIOUS
  <2>2. Last(first) = 1  BY <2>1 DEF Last
  <2>3. 1 \in 1 .. Len(d) + 1  BY <1>2
  <2> HIDE DEF first, s
  <2> QED  BY <1>1, <2>1, <2>2, <2>3 DEF Path, Result
<1> HIDE DEF s
<1>4. Places(s, d, first) \in Path(d)
  <2> HIDE DEF first
  <2> QED  BY <1>1, <1>3, PlacesAre
<1> QED  BY <1>3, <1>4 DEF Path, s

(* Of every text that phr_parse_request accepts, the method, the target and   *)
(* the names and values of the fields that it returns lie one after another   *)
(* within it, and no line end is in them (picohttpparser.c 298-398).        *)
THEOREM FoundInOrder ==
  ASSUME NEW d \in Texts, NEW max_headers \in Nat,
         NEW r, r = phr_parse_request(d, max_headers), r.ret >= 0
  PROVE  SlicesIn(d, r)
<1> DEFINE ps == Places(RequestLine, d, << 1 >>)
           h == parse_headers(d, Last(ps), max_headers)
           q == parse_request(d, max_headers)
<1>1. Len(d) \in Nat  BY DEF Texts
<1>2. q = IF Last(ps) < 0
          THEN [ret |-> Last(ps), method |-> NoSlice, target |-> NoSlice, minor |-> -1,
                fields |-> <<>>]
          ELSE [ret |-> h.at, method |-> Slice(ps[2], ps[3]), target |-> Slice(ps[4], ps[5]),
                minor |-> Digit[d[ps[6] + 1]], fields |-> h.fields]
  BY DEF parse_request
<1>3. /\ r.ret = IF q.ret < 0 THEN q.ret ELSE q.ret - 1
      /\ r.method = q.method /\ r.target = q.target /\ r.fields = q.fields
  <2> HIDE DEF q
  <2>1. r = [ret |-> IF q.ret < 0 THEN q.ret ELSE q.ret - 1, method |-> q.method,
             target |-> q.target, minor |-> q.minor, fields |-> q.fields]
    BY PhrIs DEF q
  <2> QED  BY <2>1
<1> HIDE DEF q
<1>4. ~(q.ret < 0) \/ q.ret \notin Int
  BY <1>3
<1>5. ~(Last(ps) < 0)
  <2>1. Last(ps) < 0 => q.ret = Last(ps)  BY <1>2
  <2>2. Last(ps) \in Int  BY <1>1, RequestPathIs DEF Result, Bad, More
  <2> HIDE DEF ps
  <2> QED  BY <1>4, <2>1, <2>2
<1>6. /\ q.ret = h.at /\ r.method = Slice(ps[2], ps[3]) /\ r.target = Slice(ps[4], ps[5])
      /\ r.fields = h.fields
  BY <1>2, <1>3, <1>5
<1>7. /\ ps \in Seq(Int) /\ Last(ps) = ps[8]
      /\ \A k \in 1 .. 8 : ps[k] \in 1 .. Len(d) + 1
      /\ ps[3] < ps[4] /\ ps[5] < ps[6] /\ ps[7] = ps[6] + 2 /\ ps[7] < ps[8]
      /\ ps[2] <= ps[3] /\ ps[4] <= ps[5] /\ ps[5] <= Len(d)
      /\ \A k \in ps[2] .. ps[3] - 1 : d[k] \in TokenChar
      /\ \A k \in ps[4] .. ps[5] - 1 : d[k] \notin Control \cup Blank
  BY <1>5, RequestLineIs
<1>8. h \in Rounds(d, ps[8])
  <2>1. ps[8] \in 1 .. Len(d) + 1  BY <1>7
  <2> QED  BY <1>7, <2>1, HeadersAre
<1> HIDE DEF ps, h
<1>a. /\ ps[3] < ps[4] /\ ps[5] < ps[6] /\ ps[7] = ps[6] + 2 /\ ps[7] < ps[8]
      /\ ps[2] <= ps[3] /\ ps[4] <= ps[5] /\ ps[5] <= Len(d)
  BY <1>7
<1>9. \A k \in 2 .. 8 : ps[k] \in Int /\ ps[k] >= 1
  <2> TAKE k \in 2 .. 8
  <2>1. k \in 1 .. 8  OBVIOUS
  <2>2. ps[k] \in 1 .. Len(d) + 1  BY <1>7, <2>1
  <2> QED  BY <1>1, <2>2
<1>10. /\ ps[2] \in Int /\ ps[3] \in Int /\ ps[4] \in Int /\ ps[5] \in Int
       /\ ps[6] \in Int /\ ps[7] \in Int /\ ps[8] \in Int /\ ps[2] >= 1
  BY <1>9
<1>11. ps[5] < ps[8]  BY <1>a, <1>10
<1>12. /\ Clean(d, r.method) /\ End(r.method) = ps[3]
  <2>1. \A k \in ps[2] .. ps[3] - 1 : d[k] \notin Control
    <3>1. TokenChar \cap Control = {}
      BY DEF TokenChar, Control, Digit, TooBig, ContentLength_, TransferEncoding_
    <3> QED  BY <1>7, <3>1
  <2>2. ps[2] \in Int /\ ps[3] \in Int  BY <1>10
  <2>3. Clean(d, Slice(ps[2], ps[3])) /\ End(Slice(ps[2], ps[3])) = ps[3]
    BY <2>1, <2>2, SliceClean
  <2> QED  BY <1>6, <2>3
<1>13. /\ Clean(d, r.target) /\ End(r.target) = ps[5]
  <2>1. \A k \in ps[4] .. ps[5] - 1 : d[k] \notin Control
    BY <1>7
  <2>2. ps[4] \in Int /\ ps[5] \in Int  BY <1>10
  <2>3. Clean(d, Slice(ps[4], ps[5])) /\ End(Slice(ps[4], ps[5])) = ps[5]
    BY <2>1, <2>2, SliceClean
  <2> QED  BY <1>6, <2>3
<1>14. 1 <= r.method.at /\ End(r.method) < r.target.at
  <2>1. r.method.at = ps[2] /\ r.target.at = ps[4]  BY <1>6 DEF Slice
  <2> QED  BY <1>7, <1>10, <1>12, <2>1
<1> DEFINE fields == r.fields
           n == Len(fields)
           ends == SliceEnds(r)
<1>15. fields \in Seq(Fields) /\ InOrder(d, ps[8], h.at, fields)
  BY <1>6, <1>8 DEF Rounds
<1>16. /\ \A k \in 1 .. n + 1 : ends[k] = IF k = 1 THEN ps[5] ELSE End(fields[k - 1].value)
       /\ Last(ends) = IF n = 0 THEN ps[5] ELSE End(fields[n].value)
  <2> HIDE DEF fields
  <2>1. ends = <<ps[5]>> \o [k \in DOMAIN fields |-> End(fields[k].value)]
    BY <1>13 DEF SliceEnds, fields
  <2> DEFINE e == <<ps[5]>> \o [k \in DOMAIN fields |-> End(fields[k].value)]
  <2>2. ps[5] \in Int /\ fields \in Seq(Fields)  BY <1>10, <1>15
  <2>3. /\ \A k \in 1 .. Len(fields) + 1 :
             e[k] = IF k = 1 THEN ps[5] ELSE End(fields[k - 1].value)
        /\ Last(e) = IF Len(fields) = 0 THEN ps[5] ELSE End(fields[Len(fields)].value)
    BY <2>2, EndsAre
  <2>4. ends = e  BY <2>1
  <2> HIDE DEF ends, e
  <2> QED  BY <2>3, <2>4
<1>17. n \in Nat /\ DOMAIN fields = 1 .. n  BY <1>15
<1> HIDE DEF fields, n, ends
<1>18. ASSUME NEW k \in 1 .. n
       PROVE  \E i, j \in Int : /\ FieldAt(d, fields[k], i, j)
                                /\ IF k = 1 THEN ps[8] <= i ELSE End(fields[k - 1].value) < i
  BY <1>15 DEF InOrder, n
<1>19. ASSUME NEW k \in 1 .. n
       PROVE  /\ ends[k] < Begin(fields[k])
              /\ fields[k].name # NoSlice => End(fields[k].name) < fields[k].value.at
              /\ Clean(d, fields[k].name) /\ Clean(d, fields[k].value)
              /\ End(fields[k].value) <= Len(d)
  <2>1. PICK i, j \in Int : /\ FieldAt(d, fields[k], i, j)
                            /\ IF k = 1 THEN ps[8] <= i ELSE End(fields[k - 1].value) < i
    BY <1>18
  <2>2. k \in 1 .. n + 1  BY <1>17
  <2>3. ends[k] < i
    <3>1. CASE k = 1
      BY <1>10, <1>11, <1>16, <2>1, <2>2, <3>1
    <3>2. CASE k # 1
      BY <1>16, <2>1, <2>2, <3>2
    <3> QED  BY <3>1, <3>2
  <2> QED  BY <2>1, <2>3 DEF FieldAt
<1>20. Last(ends) <= Len(d)
  <2>1. CASE n = 0
    BY <1>7, <1>16, <2>1
  <2>2. CASE n # 0
    <3>1. n \in 1 .. n  BY <1>17, <2>2
    <3> QED  BY <1>16, <1>19, <2>2, <3>1
  <2> QED  BY <2>1, <2>2
<1> QED  BY <1>12, <1>13, <1>14, <1>17, <1>19, <1>20 DEF SlicesIn, fields, ends

-------------------------------------------------------------------------------
(* What the buffer holds is a text, and until a byte behind the head has come *)
(* seen is what the parser says of it.                                      *)
TextInv ==
  /\ text \in Texts
  /\ \/ Decided(parser) /\ parser.used # scan.at
     \/ seen = Seen(parser, text)

LEMMA SpelledAsText ==
  ASSUME NEW b \in Token, NEW s \in Spellings(b)
  PROVE  s \in Texts
<1>1. ASSUME NEW S, NEW c \in S PROVE <<c>> \in Seq(S)  OBVIOUS
<1>a. "CR" \in Character /\ "LF" \in Character /\ "CTL" \in Character
  BY DEF Character, Control
<1>2. CASE b \in {"CR", "LF"}
  <2>1. b \notin Line /\ b \notin FieldToken /\ b \notin OtherOctet
    BY <1>2, FieldTokens DEF Line, OtherOctet
  <2>2. Spellings(b) = {<<b>>}  BY <1>2, <2>1 DEF Spellings
  <2> QED  BY <1>1, <1>a, <1>2, <2>2 DEF Texts
<1>3. CASE b \notin {"CR", "LF"}
  <2>1. \/ s \in GoodLine \cup BadLine \cup BadField \cup {<<"CTL">>}
        \/ b \in FieldToken /\ s \in GoodField[b]
        \/ s \in GoodField["FLD"]
    BY <1>3 DEF Spellings
  <2>2. "FLD" \in FieldToken  BY FieldTokens
  <2>3. <<"CTL">> \in Texts  BY <1>1, <1>a DEF Texts
  <2> QED  BY <2>1, <2>2, <2>3, TextAssumption
<1> QED  BY <1>2, <1>3

LEMMA TextInitHolds == TextInit => IInv /\ TextInv
<1> SUFFICES ASSUME TextInit PROVE IInv /\ TextInv
  OBVIOUS
<1>1. IInv  BY ScanInitHolds DEF TextInit
<1>2. <<>> \in Texts  BY DEF Texts
<1>3. seen = Seen(parser, text)  BY DEF TextInit, ScanInit
<1> QED  BY <1>1, <1>2, <1>3 DEF TextInit, TextInv

LEMMA TextStepHolds == IInv /\ TextInv /\ [TextNext]_textVars => (IInv /\ TextInv)'
<1> SUFFICES ASSUME IInv, TextInv, [TextNext]_textVars PROVE IInv' /\ TextInv'
  OBVIOUS
<1>1. CASE UNCHANGED textVars
  <2>1. UNCHANGED <<scan, parser, bare, text, seen>>  BY <1>1 DEF textVars
  <2>2. IInv'
    <3>1. [ScanNext]_scanVars  BY <2>1 DEF scanVars
    <3> QED  BY <3>1, ScanStepHolds
  <2>3. TextInv'
    BY <2>1 DEF TextInv, Decided, Seen, Rests
  <2> QED  BY <2>2, <2>3
<1>2. ASSUME NEW b \in Token, NEW s \in Spellings(b), ReadSpelled(b, s) PROVE IInv' /\ TextInv'
  <2>1. ReadByte(b)  BY <1>2 DEF ReadSpelled
  <2>2. IInv'
    <3>1. [ScanNext]_scanVars  BY <2>1 DEF ScanNext
    <3> QED  BY <3>1, ScanStepHolds
  <2>3. CASE Decided(parser)
    <3>1. parser' = parser  BY <2>1, <2>3, DecidedStays DEF ReadByte
    <3>2. /\ scan \in [last : Token, found : 0 .. 255, at : Nat, hit : Nat]
          /\ parser.used \in Nat /\ parser.used <= scan.at
      BY DEF IInv, ScanTypeOK, Parser
    <3>3. scan'.at = scan.at + 1  BY <2>1, <3>2, ScanStep DEF ReadByte
    <3>4. parser'.used # scan'.at
      <4>1. scan.at \in Nat  BY <3>2
      <4> QED  BY <3>1, <3>2, <3>3, <4>1
    <3>5. Decided(parser)'  BY <2>3, <3>1 DEF Decided
    <3>6. text' \in Texts  BY <1>2, <2>3 DEF ReadSpelled, Texts
    <3> QED  BY <2>2, <3>4, <3>5, <3>6 DEF TextInv
  <2>4. CASE ~Decided(parser)
    <3>1. text' = text \o s /\ seen' = Seen(parser', text')  BY <1>2, <2>4 DEF ReadSpelled
    <3>2. s \in Texts  BY <1>2, SpelledAsText
    <3>3. text' \in Texts  BY <3>1, <3>2 DEF TextInv, Texts
    <3> QED  BY <2>2, <3>1, <3>3 DEF TextInv
  <2> QED  BY <2>3, <2>4
<1> QED  BY <1>1, <1>2 DEF TextNext

LEMMA TextInvHolds == TextSpec => [](IInv /\ TextInv)
BY TextInitHolds, TextStepHolds, PTL DEF TextSpec

LEMMA WhenAccepted ==
  ASSUME TextInv, JustDecided("DONE")
  PROVE  /\ text \in Texts
         /\ \A rest \in Behind : rest \in Texts /\ seen[rest] = phr_parse_request(text \o rest, MaxHeaders)
         /\ Found = phr_parse_request(text, MaxHeaders)
<1>1. seen = Seen(parser, text) /\ text \in Texts  BY DEF TextInv, JustDecided
<1>2. Rests(parser) = Behind  BY DEF JustDecided, Rests
<1>3. \A rest \in Behind : seen[rest] = phr_parse_request(text \o rest, MaxHeaders)
  BY <1>1, <1>2 DEF Seen
<1>4. <<>> \in Behind /\ \A rest \in Behind : rest \in Texts  BY TextAssumption
<1>5. text \o <<>> = text  BY <1>1 DEF Texts
<1>6. Found = phr_parse_request(text, MaxHeaders)
  <2>1. seen[<<>>] = phr_parse_request(text \o <<>>, MaxHeaders)  BY <1>3, <1>4
  <2> QED  BY <1>5, <2>1 DEF Found
<1> QED  BY <1>1, <1>3, <1>4, <1>6

(* Request::deserialize_ hands the parser the whole array (http.cpp 343), with *)
(* what an older request or response has left in it behind the head; nothing  *)
(* of what it finds depends on that.                                        *)
THEOREM OldBytesChangeNothing ==
  TextSpec => [](JustDecided("DONE") /\ Found.ret # More => \A rest \in Behind : seen[rest] = Found)
<1>1. TextInv => (JustDecided("DONE") /\ Found.ret # More => \A rest \in Behind : seen[rest] = Found)
  <2> SUFFICES ASSUME TextInv, JustDecided("DONE"), Found.ret # More, NEW rest \in Behind
               PROVE  seen[rest] = Found
    OBVIOUS
  <2>1. /\ text \in Texts /\ rest \in Texts
        /\ seen[rest] = phr_parse_request(text \o rest, MaxHeaders)
        /\ Found = phr_parse_request(text, MaxHeaders)
    BY WhenAccepted
  <2>2. MaxHeaders \in Nat  BY RequestAssumption
  <2>3. phr_parse_request(text \o rest, MaxHeaders) = phr_parse_request(text, MaxHeaders)
    BY <2>1, <2>2, VerdictStands
  <2> QED  BY <2>1, <2>3
<1> QED  BY <1>1, TextInvHolds, PTL

(* The views that a request keeps of its head lie one after another in it.    *)
THEOREM SlicesStayInHead == TextSpec => []SlicesInHead
<1>1. TextInv => SlicesInHead
  <2> SUFFICES ASSUME TextInv, JustDecided("DONE"), Found.ret >= 0 PROVE SlicesInHead
    BY DEF SlicesInHead
  <2>1. text \in Texts /\ Found = phr_parse_request(text, MaxHeaders)
    BY WhenAccepted
  <2>2. MaxHeaders \in Nat  BY RequestAssumption
  <2>3. SlicesIn(text, Found)  BY <2>1, <2>2, FoundInOrder
  <2> QED  BY <2>3, Zenon DEF SlicesInHead, SlicesIn, SliceEnds, Clean, NoLineEnd
<1> QED  BY <1>1, TextInvHolds, PTL

-------------------------------------------------------------------------------
(* The request while its chunked body is read.                              *)
Request ==
  [hb : {<<>>}, idx : {0}, last : {"NUL"}, found : {0}, line : {"none"},
   cl : {None}, chunked : {TRUE}, body : Seq(Octet), size : Nat, dec : Automaton,
   read : Nat, overhead : Nat]

TypeInv ==
  /\ stream \in Seq(Octet) /\ fed \in 0 .. Len(stream)
  /\ readBuffer_ \in Buffers

FirstOrSize(m) == IF m.size < FirstSize THEN FirstSize ELSE m.size

(* body_ holds what was decoded and is never longer than maxBodySize_.       *)
BodyBounds(m) ==
  /\ Len(m.body) <= FirstOrSize(m) /\ m.size <= MaxBody

(* What was given to the decoder is either decoded or overhead, and there is *)
(* not too much of the latter.                                              *)
ReadIsBodyAndOverhead(m) ==
  /\ m.read = m.overhead + Len(m.body)
  /\ ~OverheadError(m.overhead, m.read)

DecoderIsReset(m) == Sound(m.dec) /\ m.dec.out = <<>> /\ m.dec.used = 0

InReading(m) ==
  m \in Request /\ BodyBounds(m) /\ ReadIsBodyAndOverhead(m) /\ DecoderIsReset(m)

Reading == at = "reading" => InReading(req)

InLimit(m) == Len(m.body) \in Nat /\ Len(m.body) <= MaxBody

(* A chunked body that is read, or was read, has at most maxBodySize_ bytes.  *)
BodyInLimit == at \in {"reading", "OK"} => InLimit(req)

BodyInv == TypeInv /\ Reading /\ BodyInLimit /\ CopyFits

-------------------------------------------------------------------------------
(* A call copies what there is and what still fits into maxBodySize_.        *)
LEMMA CopyType ==
  ASSUME NEW m, InReading(m), NEW data \in Seq(Octet)
  PROVE  /\ Len(m.body) \in Nat /\ m.size \in Nat /\ Len(m.body) <= MaxBody
         /\ Copied(m, data) \in Nat /\ Copied(m, data) <= Len(data)
         /\ Len(m.body) + Copied(m, data) <= MaxBody
<1>1. /\ Len(m.body) \in Nat /\ m.size \in Nat /\ Len(data) \in Nat
      /\ Len(m.body) <= FirstOrSize(m) /\ m.size <= MaxBody
  BY DEF InReading, Request, BodyBounds
<1>2. Len(m.body) <= MaxBody
  BY <1>1, RequestAssumption DEF FirstOrSize
<1>3. ASSUME NEW have \in Nat, NEW len \in Nat, len <= MaxBody
      PROVE  LET n == Smaller(have, MaxBody - len) IN
             n \in Nat /\ n <= have /\ len + n <= MaxBody
  BY <1>3, RequestAssumption DEF Smaller
<1>4. QED BY <1>1, <1>2, <1>3 DEF Copied

(* The buffer a call copies into has between the first and the largest size. *)
LEMMA SizeForCopyType ==
  ASSUME NEW m, InReading(m), NEW data \in Seq(Octet)
  PROVE  /\ SizeForCopy(m, data) \in Nat
         /\ FirstSize <= SizeForCopy(m, data) /\ SizeForCopy(m, data) <= MaxBody
<1>1. m.size \in Nat /\ m.size <= MaxBody
  BY DEF InReading, Request, BodyBounds
<1>2. QED BY <1>1, CopyType, RequestAssumption DEF SizeForCopy, Grown, Smaller

(* One doubling is enough for what is not longer than the first size.        *)
THEOREM ShortCopyFits ==
  ASSUME NEW m, InReading(m), NEW data \in Seq(Octet), Len(data) <= FirstSize
  PROVE  Len(m.body) + Copied(m, data) <= SizeForCopy(m, data)
<1>1. /\ Len(m.body) <= FirstOrSize(m) /\ m.size \in Nat
      /\ Len(data) \in Nat
  BY DEF InReading, Request, BodyBounds
<1>2. QED
  BY <1>1, CopyType, RequestAssumption DEF SizeForCopy, Grown, Smaller, FirstOrSize

(* What has not too much overhead is bounded.                               *)
LEMMA BoundedRead ==
  ASSUME NEW m, InReading(m)
  PROVE  m.read < MaxOverhead + MaxBody \/ m.read <= 4 * MaxBody + 3
<1>1. ASSUME NEW read \in Nat, NEW over \in Nat, NEW len \in Nat, len <= MaxBody,
             read = over + len, ~OverheadError(over, read)
      PROVE  read < MaxOverhead + MaxBody \/ read <= 4 * MaxBody + 3
  <2>1. CASE over < MaxOverhead
    BY <1>1, <2>1, RequestAssumption
  <2>2. CASE ~(read - over < read \div 4)
    BY <1>1, <2>2, RequestAssumption
  <2>3. QED BY <1>1, <2>1, <2>2, RequestAssumption DEF OverheadError
<1>2. /\ m.read \in Nat /\ m.overhead \in Nat
      /\ m.read = m.overhead + Len(m.body)
      /\ ~OverheadError(m.overhead, m.read)
  BY DEF InReading, Request, ReadIsBodyAndOverhead
<1>3. Len(m.body) \in Nat /\ Len(m.body) <= MaxBody
  BY CopyType, EmptySeq
<1>4. QED BY <1>1, <1>2, <1>3

(* The chunked branch is the one that is taken.                             *)
LEMMA TakesChunkedPart ==
  ASSUME NEW m, InReading(m), NEW data
  PROVE  ConsumeBody(m, data) = ChunkedPart(m, data)
<1>1. m.cl = -1 /\ m.chunked
  BY DEF InReading, Request, None
<1>2. QED BY <1>1 DEF ConsumeBody

(* Between two calls only the output and the count of the automaton change.   *)
LEMMA ResetType ==
  ASSUME NEW a, Sound(a)
  PROVE  LET c == [a EXCEPT !.out = <<>>, !.used = 0] IN
         Sound(c) /\ c.out = <<>> /\ c.used = 0
<1> DEFINE c == [a EXCEPT !.out = <<>>, !.used = 0]
<1>1. a \in Automaton /\ <<>> \in Seq(Octet) /\ 0 \in Nat
  BY DEF Sound
<1>2. c.out = <<>> /\ c.used = 0 /\ c.st = a.st /\ c.left = a.left
  BY <1>1 DEF Automaton
<1>3. c \in Automaton
  BY <1>1 DEF Automaton
<1>4. QED BY <1>2, <1>3 DEF Sound

(* A call that neither completes the body nor refuses it keeps what holds of *)
(* the request.  The number it reports may be negative if it completes the   *)
(* body, when the span goes on behind it.                                   *)
LEMMA PartKeeps ==
  ASSUME NEW m, InReading(m), NEW data \in Seq(Octet),
         Len(m.body) + Copied(m, data) <= SizeForCopy(m, data),
         ~ConsumeBody(m, data).err
  PROVE  /\ ConsumeBody(m, data).n \in Int
         /\ ~ConsumeBody(m, data).done =>
              InReading(ConsumeBody(m, data).msg) /\ ConsumeBody(m, data).n \in Nat
         /\ ConsumeBody(m, data).done /\ Len(m.body) + ConsumeBody(m, data).n >= 0 =>
              InLimit(ConsumeBody(m, data).msg)
<1> DEFINE n == Copied(m, data)
           c == [m.dec EXCEPT !.out = <<>>, !.used = 0]
           s == SubSeq(data, 1, n)
           a == Feed(c, s)
           dcd == Len(a.out)
           over == m.overhead + (n - dcd)
           r == [a EXCEPT !.out = <<>>, !.used = 0]
           size == SizeForCopy(m, data)
           sized == [m EXCEPT !.size = size]
           after == [sized EXCEPT !.body = m.body \o a.out, !.size = sized.size,
                                  !.dec = r, !.read = m.read + n, !.overhead = over]
<1>1. /\ m \in Request /\ Sound(m.dec) /\ m.dec.out = <<>> /\ m.dec.used = 0
      /\ m.read = m.overhead + Len(m.body)
  BY DEF InReading, DecoderIsReset, ReadIsBodyAndOverhead
<1>2. /\ n \in Nat /\ n <= Len(data) /\ Len(m.body) \in Nat
      /\ size \in Nat /\ size <= MaxBody /\ FirstSize <= size
  BY CopyType, SizeForCopyType
<1>3. s \in Seq(Octet) /\ Len(s) = n
  BY <1>2, SubSeqProperties
<1>4. Sound(c) /\ c.out = <<>> /\ c.used = 0
  BY <1>1, ResetType
<1>5. Sound(a) /\ dcd \in Nat /\ dcd <= n /\ a.used \in Nat /\ a.used <= n
  <2> HIDE DEF c, s
  <2>1. Sound(a) /\ Len(a.out) <= Len(c.out) + Len(s) /\ a.used <= c.used + Len(s)
    BY <1>3, <1>4, FeedType
  <2>2. Len(c.out) = 0 /\ a.out \in Seq(Octet) /\ a.used \in Nat
    BY <1>4, <2>1 DEF Sound, Automaton
  <2>3. QED BY <1>2, <1>3, <1>4, <2>1, <2>2
<1>6. Sound(r) /\ r.out = <<>> /\ r.used = 0
  <2> HIDE DEF a
  <2>1. QED BY <1>5, ResetType
<1> DEFINE complete == a.st = "COMPLETE"
           overAny == m.overhead + (IF complete \/ a.st = "ERROR" THEN 0 ELSE n - dcd)
           body == m.body \o a.out
           taken == IF complete THEN dcd - (n - a.used) ELSE dcd
           afterAny ==
             [sized EXCEPT
               !.body = IF complete THEN SubSeq(body, 1, Len(m.body) + taken) ELSE body,
               !.size = IF complete THEN Len(m.body) + taken ELSE sized.size,
               !.dec = r, !.read = m.read + n, !.overhead = overAny]
           bad == a.st = "ERROR" \/ (~complete /\ OverheadError(overAny, m.read + n))
<1>7. /\ ConsumeBody(m, data).done = complete /\ ConsumeBody(m, data).n = taken
      /\ ConsumeBody(m, data).msg = afterAny /\ ~bad
  <2>1. ConsumeBody(m, data) =
          IF n = 0 /\ Len(m.body) = MaxBody THEN Refused(sized)
          ELSE IF bad THEN Refused([afterAny EXCEPT !.body = m.body])
          ELSE [err |-> FALSE, done |-> complete, n |-> taken, msg |-> afterAny]
    BY TakesChunkedPart DEF ChunkedPart, LessRest
  <2> HIDE DEF complete, bad, overAny, afterAny, taken, body, over, after, sized, r, a, n, dcd
  <2>2. CASE n = 0 /\ Len(m.body) = MaxBody
    <3>1. ConsumeBody(m, data).err = TRUE
      BY <2>1, <2>2 DEF Refused
    <3>2. QED BY <3>1
  <2>3. CASE ~(n = 0 /\ Len(m.body) = MaxBody) /\ bad
    <3>1. ConsumeBody(m, data).err = TRUE
      BY <2>1, <2>3 DEF Refused
    <3>2. QED BY <3>1
  <2>4. CASE ~(n = 0 /\ Len(m.body) = MaxBody) /\ ~bad
    <3>1. ConsumeBody(m, data) =
            [err |-> FALSE, done |-> complete, n |-> taken, msg |-> afterAny]
      BY <2>1, <2>4
    <3>2. ConsumeBody(m, data).n = taken /\ ConsumeBody(m, data).msg = afterAny
      BY <3>1
    <3>3. ConsumeBody(m, data).done = complete
      BY <3>1 DEF complete
    <3>4. QED BY <2>4, <3>2, <3>3
  <2>5. QED BY <2>2, <2>3, <2>4
<1>8. taken \in Int /\ taken <= dcd
  <2> HIDE DEF a, dcd, n
  <2>1. QED BY <1>2, <1>5
<1>9. ASSUME complete, Len(m.body) + taken >= 0
       PROVE  InLimit(afterAny)
  <2>1. body \in Seq(Octet) /\ Len(body) = Len(m.body) + dcd
    BY <1>1, <1>5 DEF Request, Sound, Automaton
  <2>2. afterAny.body = SubSeq(body, 1, Len(m.body) + taken)
    <3> HIDE DEF complete, taken, body, overAny, r, n
    <3>1. QED BY <1>1, <1>9 DEF Request
  <2> HIDE DEF body, taken, afterAny, dcd, n, complete, a
  <2>3. Len(m.body) + taken \in 0 .. Len(body)
    BY <1>2, <1>5, <1>8, <1>9, <2>1
  <2>4. Len(afterAny.body) = Len(m.body) + taken
    BY <2>1, <2>2, <2>3, SubSeqProperties
  <2>5. Len(m.body) + n <= MaxBody
    BY CopyType DEF n
  <2>6. QED BY <1>2, <1>5, <1>8, <1>9, <2>4, <2>5, RequestAssumption DEF InLimit
<1>10. SUFFICES ASSUME ~complete
               PROVE  InReading(after) /\ afterAny = after /\ taken \in Nat
  <2> HIDE DEF complete, afterAny, taken, after, a, n, dcd, bad
  <2>1. QED BY <1>7, <1>8, <1>10, <1>9
<1>11. afterAny = after /\ taken = dcd /\ ~OverheadError(over, m.read + n)
  <2>1. a.st # "ERROR"
    BY <1>7
  <2>2. overAny = over
    BY <1>10, <2>1
  <2> HIDE DEF sized, r, a, n, over, overAny
  <2>3. QED BY <1>7, <1>10, <2>2
<1> HIDE DEF complete, afterAny, taken, overAny, body, bad
<1>12. InReading(after)
  <2> HIDE DEF n, c, s, a, size
  <2>1. /\ m.body \o a.out \in Seq(Octet) /\ Len(m.body \o a.out) = Len(m.body) + dcd
        /\ a.out \in Seq(Octet)
    BY <1>1, <1>5 DEF Request, Sound, Automaton
  <2>2. over \in Nat /\ m.read + n \in Nat /\ m.overhead \in Nat
    BY <1>1, <1>2, <1>5, SMTT(30) DEF Request
  <2>3. r \in Automaton
    BY <1>6 DEF Sound
  <2> HIDE DEF r, over, dcd
  <2>4. /\ after \in Request
        /\ after.body = m.body \o a.out /\ after.size = size /\ after.dec = r
        /\ after.read = m.read + n /\ after.overhead = over
    BY <1>1, <1>2, <2>1, <2>2, <2>3 DEF Request
  <2> HIDE DEF after
  <2>5. BodyBounds(after)
    <3>1. Len(after.body) = Len(m.body) + dcd /\ after.size = size
      BY <2>1, <2>4
    <3>2. Len(m.body) + n <= size
      BY DEF n, size
    <3>3. Len(m.body) + dcd <= size
      BY <1>2, <1>5, <3>2
    <3>4. ~(size < FirstSize) /\ size <= MaxBody
      BY <1>2, RequestAssumption
    <3>5. QED BY <3>1, <3>3, <3>4 DEF BodyBounds, FirstOrSize
  <2>6. after.read = after.overhead + Len(after.body)
    BY <1>1, <1>2, <1>5, <2>1, <2>2, <2>4 DEF over, Request
  <2>7. ReadIsBodyAndOverhead(after)
    BY <1>11, <2>4, <2>6 DEF ReadIsBodyAndOverhead
  <2>8. DecoderIsReset(after)
    BY <1>6, <2>4 DEF DecoderIsReset
  <2>9. QED BY <2>4, <2>5, <2>7, <2>8 DEF InReading
<1>13. QED BY <1>5, <1>11, <1>12

-------------------------------------------------------------------------------
(* The span the decoder is given.                                           *)
LEMMA GivenSpan ==
  ASSUME TypeInv
  PROVE  /\ ReadableSpan(readBuffer_) \in Seq(Octet)
         /\ Len(ReadableSpan(readBuffer_)) = Size(readBuffer_)
         /\ Size(readBuffer_) \in Nat
BY SpanType, CapAssumption, OctetAssumption DEF TypeInv

LEMMA InitHolds == Init => BodyInv
<1> SUFFICES ASSUME Init PROVE BodyInv
  OBVIOUS
<1>1. TypeInv
  BY NewBufferEmpty, StreamAssumption DEF Init, TypeInv
<1>2. Sound(Fresh) /\ Fresh.out = <<>> /\ Fresh.used = 0
  <2>1. <<>> \in Seq(Octet)
    OBVIOUS
  <2>2. QED BY <2>1, MaxDigitsAssumption DEF Fresh, Sound, Automaton, LineStates
<1>3. /\ req \in Request /\ req.body = <<>> /\ req.size = 0 /\ req.dec = Fresh
      /\ req.read = 0 /\ req.overhead = 0
  <2>1. Fresh \in Automaton /\ <<>> \in Seq(Octet)
    BY <1>2 DEF Sound
  <2> HIDE DEF Automaton
  <2>2. QED BY <2>1 DEF Init, NewRequest, Request
<1>4. BodyBounds(req)
  BY <1>3, RequestAssumption DEF BodyBounds, FirstOrSize
<1>5. ReadIsBodyAndOverhead(req)
  <2>1. ~OverheadError(0, 0)
    BY DEF OverheadError
  <2>2. QED BY <1>3, <2>1 DEF ReadIsBodyAndOverhead
<1>6. InReading(req)
  BY <1>2, <1>3, <1>4, <1>5 DEF InReading, DecoderIsReset
<1>7. CopyFits /\ BodyInLimit
  BY <1>3, EmptySeq, RequestAssumption DEF Init, CopyFits, BodyInLimit, InLimit
<1>8. QED BY <1>1, <1>6, <1>7 DEF BodyInv, Reading

LEMMA ReceiveKeeps ==
  ASSUME BodyInv, NEW n \in 1 .. Cap, Receive(n)
  PROVE  BodyInv'
<1> DEFINE s == SubSeq(stream, fed + 1, fed + n)
<1>1. /\ stream \in Seq(Octet) /\ fed \in 0 .. Len(stream) /\ readBuffer_ \in Buffers
  BY DEF BodyInv, TypeInv
<1>2. /\ n \in Nat /\ n <= Len(stream) - fed /\ n <= Room(readBuffer_)
      /\ stream' = stream /\ fed' = fed + n /\ req' = req /\ at' = at /\ at = "reading"
      /\ readBuffer_' = Commit(Filled(readBuffer_, s), n)
  BY CapAssumption DEF Receive
<1>3. s \in Seq(Byte) /\ Len(s) = n
  <2>1. Len(stream) \in Nat
    BY <1>1
  <2>2. QED BY <1>1, <1>2, <2>1, SubSeqProperties, OctetAssumption
<1>4. readBuffer_' \in Buffers
  <2> HIDE DEF s
  <2>1. QED BY <1>1, <1>2, <1>3, CommitAppends
<1>5. TypeInv'
  BY <1>1, <1>2, <1>4 DEF TypeInv
<1>6. QED BY <1>2, <1>5 DEF BodyInv, Reading, BodyInLimit, CopyFits

(* Going back moves the read cursor, at most to the start of the array.      *)
LEMMA ConsumeAnyStaysInBounds ==
  ASSUME NEW b \in Buffers, NEW n \in Int
  PROVE  ConsumeAny(b, n) \in Buffers
<1>1. CASE n >= 0
  BY <1>1, ConsumeStaysInBounds DEF ConsumeAny
<1>2. CASE n < 0 /\ b.rd + n >= 0
  <2>1. ConsumeAny(b, n) = [b EXCEPT !.rd = b.rd + n]
    BY <1>2 DEF ConsumeAny
  <2>2. QED BY <1>2, <2>1, CapAssumption DEF Buffers
<1>3. CASE n < 0 /\ b.rd + n < 0
  <2>1. ConsumeAny(b, n) = Consume(b, b.wr) /\ b.wr \in Nat
    BY <1>3, CapAssumption DEF ConsumeAny, Buffers
  <2>2. QED BY <2>1, ConsumeStaysInBounds
<1>4. b.rd \in Int
  BY CapAssumption DEF Buffers
<1>5. QED BY <1>1, <1>2, <1>3, <1>4

LEMMA PartStepKeeps ==
  ASSUME BodyInv, Part
  PROVE  BodyInv'
<1> DEFINE span == ReadableSpan(readBuffer_)
<1>1. /\ InReading(req) /\ span \in Seq(Octet) /\ TypeInv /\ readBuffer_ \in Buffers
  BY GivenSpan DEF BodyInv, Reading, Part, InLoop, TypeInv
<1>2. /\ Outcome = ConsumeBody(req, span) /\ ~Outcome.err
      /\ Len(req.body) + Copied(req, span) <= SizeForCopy(req, span)
      /\ req' = Outcome.msg /\ readBuffer_' = ConsumeAny(readBuffer_, Outcome.n)
      /\ at' = IF Outcome.done THEN "OK" ELSE "reading"
      /\ UNCHANGED <<stream, fed>>
  BY DEF Part, Outcome, Fits
<1> HIDE DEF span
<1>3. Outcome.n \in Int
  BY <1>1, <1>2, PartKeeps
<1>4. TypeInv'
  BY <1>1, <1>2, <1>3, ConsumeAnyStaysInBounds DEF TypeInv
<1>5. CASE Outcome.done
  <2>1. InLimit(req')
    BY <1>1, <1>2, <1>5, PartKeeps DEF Part
  <2>2. QED BY <1>2, <1>4, <1>5, <2>1 DEF BodyInv, Reading, BodyInLimit, CopyFits
<1>6. CASE ~Outcome.done
  <2>1. InReading(req')
    BY <1>1, <1>2, <1>6, PartKeeps
  <2>2. InLimit(req')
    BY <2>1, CopyType, EmptySeq DEF InLimit
  <2>3. QED BY <1>2, <1>4, <1>6, <2>1, <2>2 DEF BodyInv, Reading, BodyInLimit, CopyFits
<1>7. QED BY <1>5, <1>6

LEMMA OverrunsKeeps ==
  ASSUME BodyInv, Overruns
  PROVE  BodyInv'
<1> DEFINE span == ReadableSpan(readBuffer_)
<1>1. /\ InReading(req) /\ span \in Seq(Octet) /\ Len(span) = Size(readBuffer_)
      /\ TypeInv /\ Size(readBuffer_) \in Nat
  BY GivenSpan DEF BodyInv, Reading, Overruns, InLoop
<1>2. /\ ~(Len(req.body) + Copied(req, span) <= SizeForCopy(req, span))
      /\ at' = "overrun" /\ UNCHANGED <<stream, fed, readBuffer_, req>>
  BY DEF Overruns, Fits
<1>3. Size(readBuffer_) > FirstSize
  <2> HIDE DEF span
  <2>1. ~(Len(span) <= FirstSize)
    BY <1>1, <1>2, ShortCopyFits
  <2>2. QED BY <1>1, <2>1, RequestAssumption
<1>4. Size(readBuffer_)' = Size(readBuffer_)
  BY <1>2 DEF Size
<1>5. TypeInv' /\ CopyFits'
  BY <1>1, <1>2, <1>3, <1>4 DEF TypeInv, CopyFits
<1>6. QED BY <1>2, <1>5 DEF BodyInv, Reading, BodyInLimit

LEMMA NextKeeps == BodyInv /\ [Next]_vars => BodyInv'
<1> SUFFICES ASSUME BodyInv, [Next]_vars PROVE BodyInv'
  OBVIOUS
<1>1. CASE \E n \in 1 .. Cap : Receive(n)
  BY <1>1, ReceiveKeeps
<1>2. CASE Part
  BY <1>2, PartStepKeeps
<1>3. CASE Throws
  BY <1>3 DEF Throws, BodyInv, TypeInv, Reading, BodyInLimit, CopyFits
<1>4. CASE Refuses
  BY <1>4 DEF Refuses, BodyInv, TypeInv, Reading, BodyInLimit, CopyFits
<1>5. CASE Overruns
  BY <1>5, OverrunsKeeps
<1>6. CASE UNCHANGED vars
  BY <1>6 DEF vars, BodyInv, TypeInv, Reading, BodyInLimit, CopyFits, Size
<1>7. QED BY <1>1, <1>2, <1>3, <1>4, <1>5, <1>6 DEF Next, Consumes

LEMMA BodyInvHolds == Spec => []BodyInv
BY InitHolds, NextKeeps, PTL DEF Spec

(* However a body arrives, nothing is copied beyond the end of body_ unless  *)
(* more bytes are buffered than body_ starts with.                          *)
THEOREM CopiesFit == Spec => []CopyFits
<1>1. BodyInv => CopyFits
  BY DEF BodyInv
<1>2. QED BY BodyInvHolds, <1>1, PTL

(* However a body arrives, it never has more than maxBodySize_ bytes.        *)
THEOREM BodyWithinLimit == Spec => []BodyInLimit
<1>1. BodyInv => BodyInLimit
  BY DEF BodyInv
<1>2. QED BY BodyInvHolds, <1>1, PTL

(* However a body arrives, the decoder is given a bounded number of bytes    *)
(* before the body is complete or refused.                                  *)
THEOREM DecodingBounded == Spec => []DecodingIsBounded
<1>1. BodyInv => DecodingIsBounded
  BY BoundedRead DEF BodyInv, Reading, DecodingIsBounded
<1>2. QED BY BodyInvHolds, <1>1, PTL
-------------------------------------------------------------------------------
(* What the decoder was given, and what it made of it.  While the body is     *)
(* read, the request holds what the automaton decoded from all that was given *)
(* and is where the automaton is; at the end, the body is what was decoded,   *)
(* less as many bytes as were given beyond it, if there are so many.          *)
Whole == Feed(Fresh, given)
Kept == Len(Whole.out) - (Len(given) - Whole.used)

Ended == at \in {"OK", "thrown", "INVALID_MESSAGE"}

DecodedSoFar ==
  ~Ended =>
    Whole.st \notin Final /\ req.dec = Anew(Whole) /\ req.body = Whole.out

DecodedAtEnd ==
  /\ at = "INVALID_MESSAGE" => Whole.st # "COMPLETE"
  /\ at = "OK" => /\ Whole.st = "COMPLETE" /\ Kept >= 0
                  /\ req.body = SubSeq(Whole.out, 1, Kept)
  /\ at = "thrown" => Whole.st = "COMPLETE" /\ Kept < 0

GivenInv == given \in Seq(Octet) /\ DecodedSoFar /\ DecodedAtEnd

(* The bytes the next call gives to the decoder, and what it makes of them.   *)
GivenNow == SubSeq(ReadableSpan(readBuffer_), 1, Copied(req, ReadableSpan(readBuffer_)))
DecodedNow == Feed(req.dec, GivenNow)

LEMMA ResetIs ==
  ASSUME NEW a, Sound(a)
  PROVE  /\ [a EXCEPT !.out = <<>>, !.used = 0] = Anew(a)
         /\ a.out = <<>> /\ a.used = 0 => Anew(a) = a
<1> DEFINE c == [a EXCEPT !.out = <<>>, !.used = 0]
           e == Anew(a)
<1>1. a \in Automaton /\ <<>> \in Seq(Octet) /\ 0 \in Nat  BY DEF Sound
<1>2. /\ c \in Automaton /\ c.st = a.st /\ c.left = a.left /\ c.digits = a.digits
      /\ c.out = <<>> /\ c.used = 0
  BY <1>1 DEF Automaton
<1>3. e = [st |-> a.st, left |-> a.left, digits |-> a.digits, out |-> <<>>, used |-> 0]
  BY DEF Anew, Run
<1> HIDE DEF c, e
<1>4. c = e  BY <1>2, <1>3 DEF Automaton
<1>5. ASSUME a.out = <<>>, a.used = 0
      PROVE  e = a
  BY <1>1, <1>3, <1>5 DEF Automaton
<1> QED  BY <1>4, <1>5 DEF c, e

(* A call: what it decodes goes behind the body; when the body is complete,   *)
(* as many bytes as follow it are cut from it again.                        *)
LEMMA CallDecodes ==
  ASSUME NEW m, InReading(m), NEW data \in Seq(Octet)
  PROVE  LET s == SubSeq(data, 1, Copied(m, data))
             g == Feed(m.dec, s)
             r == ConsumeBody(m, data)
         IN /\ s \in Seq(Octet)
            /\ r.err => g.st # "COMPLETE" \/ s = <<>>
            /\ ~r.err => g.st # "ERROR" /\ (r.done <=> g.st = "COMPLETE")
            /\ ~r.err /\ ~r.done =>
                 r.msg.dec = Anew(g) /\ r.msg.body = m.body \o g.out /\ r.n = Len(g.out)
            /\ ~r.err /\ r.done =>
                 /\ r.n = Len(g.out) - (Len(s) - g.used)
                 /\ r.msg.body = SubSeq(m.body \o g.out, 1, Len(m.body) + r.n)
<1> DEFINE n == Copied(m, data)
           c == [m.dec EXCEPT !.out = <<>>, !.used = 0]
           s == SubSeq(data, 1, n)
           a == Feed(c, s)
           dcd == Len(a.out)
           e == [a EXCEPT !.out = <<>>, !.used = 0]
           sized == [m EXCEPT !.size = SizeForCopy(m, data)]
           complete == a.st = "COMPLETE"
           over == m.overhead + (IF complete \/ a.st = "ERROR" THEN 0 ELSE n - dcd)
           body == m.body \o a.out
           taken == IF complete THEN dcd - (n - a.used) ELSE dcd
           after ==
             [sized EXCEPT
               !.body = IF complete THEN SubSeq(body, 1, Len(m.body) + taken) ELSE body,
               !.size = IF complete THEN Len(m.body) + taken ELSE sized.size,
               !.dec = e, !.read = m.read + n, !.overhead = over]
           bad == a.st = "ERROR" \/ (~complete /\ OverheadError(over, m.read + n))
           full == n = 0 /\ Len(m.body) = MaxBody
           r == ConsumeBody(m, data)
<1>1. m \in Request /\ Sound(m.dec) /\ m.dec.out = <<>> /\ m.dec.used = 0
  BY DEF InReading, DecoderIsReset
<1>2. n \in Nat /\ n <= Len(data)  BY CopyType
<1>3. s \in Seq(Octet) /\ Len(s) = n  BY <1>2, SubSeqProperties
<1>4. c = m.dec  BY <1>1, ResetIs
<1>5. Sound(a)
  <2> HIDE DEF c, s
  <2> QED  BY <1>1, <1>3, <1>4, FeedType
<1>6. e = Anew(a)
  <2> HIDE DEF a
  <2> QED  BY <1>5, ResetIs
<1>7. r = IF full THEN Refused(sized)
          ELSE IF bad THEN Refused([after EXCEPT !.body = m.body])
          ELSE [err |-> FALSE, done |-> complete, n |-> taken, msg |-> after]
  BY TakesChunkedPart DEF ChunkedPart, LessRest
<1>8. after.dec = e /\ after.body = IF complete THEN SubSeq(body, 1, Len(m.body) + taken) ELSE body
  <2> HIDE DEF e, complete, body, taken, over, n
  <2> QED  BY <1>1 DEF Request
<1>9. a = Feed(m.dec, s)  BY <1>4 DEF a
<1>10. n = 0 => s = <<>>  BY <1>3, EmptySeq
<1>11. \A x : Refused(x).err  BY DEF Refused
<1> HIDE DEF r, after, taken, sized, over
<1>12. ASSUME r.err
       PROVE  ~complete \/ s = <<>>
  <2>1. full \/ bad
    <3> HIDE DEF full, bad, complete
    <3>1. ASSUME ~full, ~bad  PROVE r.err = FALSE
      BY <1>7, <3>1
    <3> QED  BY <1>12, <3>1
  <2> HIDE DEF n, s, a
  <2> QED  BY <1>10, <2>1
<1>13. ASSUME ~r.err
       PROVE  ~bad /\ r.done = complete /\ r.n = taken /\ r.msg = after
  <2> HIDE DEF full, bad, complete
  <2>1. ~full /\ ~bad  BY <1>7, <1>11, <1>13
  <2>2. r = [err |-> FALSE, done |-> complete, n |-> taken, msg |-> after]  BY <1>7, <2>1
  <2>3. r.done = complete  BY <2>2
  <2>4. r.n = taken  BY <2>2
  <2>5. r.msg = after  BY <2>2
  <2> QED  BY <2>1, <2>3, <2>4, <2>5
<1> HIDE DEF e, a, s, n, c
<1>14. ASSUME ~r.err
       PROVE  /\ a.st # "ERROR" /\ (r.done <=> a.st = "COMPLETE")
              /\ ~r.done =>
                   r.msg.dec = Anew(a) /\ r.msg.body = m.body \o a.out /\ r.n = Len(a.out)
              /\ r.done =>
                   /\ r.n = Len(a.out) - (Len(s) - a.used)
                   /\ r.msg.body = SubSeq(m.body \o a.out, 1, Len(m.body) + r.n)
  BY <1>3, <1>6, <1>8, <1>13, <1>14 DEF taken
<1>15. /\ s \in Seq(Octet)
       /\ r.err => a.st # "COMPLETE" \/ s = <<>>
       /\ ~r.err => a.st # "ERROR" /\ (r.done <=> a.st = "COMPLETE")
       /\ ~r.err /\ ~r.done =>
            r.msg.dec = Anew(a) /\ r.msg.body = m.body \o a.out /\ r.n = Len(a.out)
       /\ ~r.err /\ r.done =>
            /\ r.n = Len(a.out) - (Len(s) - a.used)
            /\ r.msg.body = SubSeq(m.body \o a.out, 1, Len(m.body) + r.n)
  BY <1>3, <1>12, <1>14
<1> QED  BY <1>9, <1>15 DEF s, n, r

LEMMA FreshStarts == Sound(Fresh) /\ Anew(Fresh) = Fresh /\ Fresh.st \notin Final
                     /\ Fresh.out = <<>> /\ Fresh.used = 0
<1>1. <<>> \in Seq(Octet)  OBVIOUS
<1>2. Sound(Fresh)  BY <1>1, MaxDigitsAssumption DEF Fresh, Sound, Automaton, LineStates
<1> QED  BY <1>2 DEF Fresh, Anew, Run, Final

LEMMA GivenInit == Init => GivenInv
<1> SUFFICES ASSUME Init  PROVE GivenInv
  OBVIOUS
<1>1. given = <<>> /\ at = "reading" /\ req.dec = Fresh /\ req.body = <<>>
  BY DEF Init, NewRequest
<1>2. Whole = Fresh  BY <1>1, FeedNothing DEF Whole
<1>3. <<>> \in Seq(Octet)  OBVIOUS
<1> QED  BY <1>1, <1>2, <1>3, FreshStarts DEF GivenInv, DecodedSoFar, Ended, DecodedAtEnd

(* What the decoder makes of all it was given, when a call gives it more.     *)
LEMMA NowReads ==
  ASSUME BodyInv, GivenInv, InLoop
  PROVE  /\ InReading(req) /\ ReadableSpan(readBuffer_) \in Seq(Octet)
         /\ given \in Seq(Octet) /\ Whole.st \notin Final
         /\ req.dec = Anew(Whole) /\ req.body = Whole.out
         /\ Sound(Whole) /\ Whole.used = Len(given)
         /\ GivenNow \in Seq(Octet) /\ Sound(DecodedNow)
<1> DEFINE span == ReadableSpan(readBuffer_)
           f == Whole
<1>1. /\ InReading(req) /\ span \in Seq(Octet) /\ at = "reading"
  BY GivenSpan DEF BodyInv, Reading, InLoop
<1>2. /\ given \in Seq(Octet) /\ f.st \notin Final /\ req.dec = Anew(f) /\ req.body = f.out
  BY <1>1 DEF GivenInv, DecodedSoFar, Ended
<1> HIDE DEF span, f
<1>3. Sound(f) /\ f.used = Len(given)
  <2>1. /\ Sound(Feed(Fresh, given))
        /\ Feed(Fresh, given).st \notin Final => Feed(Fresh, given).used = Fresh.used + Len(given)
    BY <1>2, FreshStarts, FeedType
  <2>2. f = Feed(Fresh, given)  BY DEF f, Whole
  <2>3. Len(given) \in Nat  BY <1>2
  <2> QED  BY <1>2, <2>1, <2>2, <2>3, FreshStarts
<1>4. GivenNow \in Seq(Octet)
  <2>1. Copied(req, span) \in Nat /\ Copied(req, span) <= Len(span)  BY <1>1, CopyType
  <2>2. SubSeq(span, 1, Copied(req, span)) \in Seq(Octet)  BY <1>1, <2>1, SubSeqProperties
  <2> QED  BY <2>2 DEF GivenNow, span
<1>5. Sound(DecodedNow)
  <2>1. Sound(req.dec)  BY <1>1 DEF InReading, DecoderIsReset
  <2> QED  BY <1>4, <2>1, FeedType DEF DecodedNow
<1> QED  BY <1>1, <1>2, <1>3, <1>4, <1>5 DEF span, f

LEMMA GivenGrows ==
  ASSUME BodyInv, GivenInv, InLoop, Give
  PROVE  /\ given' \in Seq(Octet) /\ Len(given') = Len(given) + Len(GivenNow)
         /\ Whole' = Onward(Whole, DecodedNow)
         /\ GivenNow = <<>> => Whole' = Whole
<1> DEFINE f == Whole
           s == GivenNow
<1>1. /\ given \in Seq(Octet) /\ s \in Seq(Octet) /\ Sound(f) /\ req.dec = Anew(f)
  BY NowReads
<1>2. given' = given \o s  BY DEF Give, GivenNow
<1>3. given' \in Seq(Octet) /\ Len(given') = Len(given) + Len(s)
  BY <1>1, <1>2, JoinedBytes
<1> HIDE DEF f, s
<1>4. Whole' = Onward(f, Feed(req.dec, s))
  <2>1. Whole' = Feed(Fresh, given \o s)  BY <1>2 DEF Whole
  <2>2. Feed(Fresh, given \o s) = Feed(f, s)  BY <1>1, FeedBoth DEF f, Whole
  <2>3. Feed(f, s) = Onward(f, Feed(Anew(f), s))  BY <1>1, FeedAnew
  <2> QED  BY <1>1, <2>1, <2>2, <2>3
<1>5. ASSUME s = <<>>
      PROVE  Whole' = Whole
  <2>1. given' = given  BY <1>1, <1>2, <1>5
  <2> QED  BY <2>1 DEF Whole
<1> QED  BY <1>3, <1>4, <1>5 DEF s, f, DecodedNow

(* The call completes the body: of the bytes decoded it keeps all but as many *)
(* as follow.                                                              *)
LEMMA CompleteGiven ==
  ASSUME BodyInv, GivenInv, InLoop, Give, ~Outcome.err, Outcome.done
  PROVE  /\ Whole'.st = "COMPLETE" /\ Kept' = Len(req.body) + Outcome.n
         /\ Outcome.msg.body = SubSeq(Whole'.out, 1, Kept')
<1> DEFINE m == req
           span == ReadableSpan(readBuffer_)
           f == Whole
           g == DecodedNow
           s == GivenNow
<1>1. /\ InReading(m) /\ span \in Seq(Octet) /\ m.body = f.out /\ f.used = Len(given)
      /\ given \in Seq(Octet) /\ s \in Seq(Octet) /\ Sound(f) /\ Sound(g)
  BY NowReads
<1>2. /\ Len(given') = Len(given) + Len(s) /\ Whole' = Onward(f, g)
  BY GivenGrows
<1>3. /\ g.st = "COMPLETE" /\ Outcome.n = Len(g.out) - (Len(s) - g.used)
      /\ Outcome.msg.body = SubSeq(m.body \o g.out, 1, Len(m.body) + Outcome.n)
  <2> HIDE DEF m, span
  <2>1. LET x == SubSeq(span, 1, Copied(m, span))
            y == Feed(m.dec, x)
            r == ConsumeBody(m, span)
        IN /\ ~r.err => (r.done <=> y.st = "COMPLETE")
           /\ ~r.err /\ r.done =>
                /\ r.n = Len(y.out) - (Len(x) - y.used)
                /\ r.msg.body = SubSeq(m.body \o y.out, 1, Len(m.body) + r.n)
    BY <1>1, CallDecodes
  <2> QED  BY <2>1 DEF m, span, Outcome, DecodedNow, GivenNow
<1> HIDE DEF m, span, f, g, s
<1>4. Whole'.st = g.st /\ Whole'.out = f.out \o g.out /\ Whole'.used = f.used + g.used
  BY <1>2 DEF Onward, Run
<1>5. /\ f.out \in Seq(Octet) /\ g.out \in Seq(Octet) /\ f.used \in Nat /\ g.used \in Nat
  BY <1>1 DEF Sound, Automaton
<1>6. /\ Len(f.out \o g.out) = Len(f.out) + Len(g.out) /\ Len(f.out) \in Nat /\ Len(g.out) \in Nat
  BY <1>5, JoinedBytes
<1>7. Kept' = Len(m.body) + Outcome.n
  <2>1. Kept' = Len(f.out \o g.out) - (Len(given') - (f.used + g.used))  BY <1>4 DEF Kept
  <2>2. Kept' = (Len(f.out) + Len(g.out)) - ((f.used + Len(s)) - (f.used + g.used))
    BY <1>1, <1>2, <1>6, <2>1
  <2>3. Len(s) \in Nat  BY <1>1
  <2>4. Kept' = Len(f.out) + (Len(g.out) - (Len(s) - g.used))
    <3> DEFINE i == Len(f.out)
               j == Len(g.out)
               k == f.used
               l == g.used
               n == Len(s)
    <3>1. i \in Nat /\ j \in Nat /\ k \in Nat /\ l \in Nat /\ n \in Nat
      BY <1>5, <1>6, <2>3
    <3>2. Kept' = (i + j) - ((k + n) - (k + l))  BY <2>2
    <3> HIDE DEF i, j, k, l, n
    <3>3. Kept' = i + (j - (n - l))  BY <3>1, <3>2
    <3> QED  BY <3>3 DEF i, j, l, n
  <2> QED  BY <1>1, <1>3, <2>4
<1> QED  BY <1>1, <1>3, <1>4, <1>7 DEF m

LEMMA PartGiven ==
  ASSUME BodyInv, GivenInv, Part
  PROVE  GivenInv'
<1>1. /\ InLoop /\ Give /\ ~Outcome.err /\ Len(req.body) + Outcome.n >= 0
      /\ req' = Outcome.msg /\ at' = (IF Outcome.done THEN "OK" ELSE "reading")
  BY DEF Part
<1>2. given' \in Seq(Octet)  BY <1>1, GivenGrows
<1>3. CASE Outcome.done
  <2>1. at' = "OK"  BY <1>1, <1>3
  <2>2. /\ Whole'.st = "COMPLETE" /\ Kept' = Len(req.body) + Outcome.n
        /\ Outcome.msg.body = SubSeq(Whole'.out, 1, Kept')
    BY <1>1, <1>3, CompleteGiven
  <2>3. Kept' >= 0 /\ req'.body = SubSeq(Whole'.out, 1, Kept')  BY <1>1, <2>2
  <2> QED  BY <1>2, <2>1, <2>2, <2>3 DEF GivenInv, DecodedSoFar, Ended, DecodedAtEnd
<1>4. CASE ~Outcome.done
  <2> DEFINE m == req
             span == ReadableSpan(readBuffer_)
             g == DecodedNow
             f == Whole
  <2>1. InReading(m) /\ span \in Seq(Octet) /\ m.body = f.out  BY <1>1, NowReads
  <2>2. Whole' = Onward(f, g)  BY <1>1, GivenGrows
  <2>3. /\ g.st # "ERROR" /\ g.st # "COMPLETE"
        /\ Outcome.msg.dec = Anew(g) /\ Outcome.msg.body = m.body \o g.out
    <3> HIDE DEF m, span
    <3>1. LET x == SubSeq(span, 1, Copied(m, span))
              y == Feed(m.dec, x)
              r == ConsumeBody(m, span)
          IN /\ ~r.err => y.st # "ERROR" /\ (r.done <=> y.st = "COMPLETE")
             /\ ~r.err /\ ~r.done => r.msg.dec = Anew(y) /\ r.msg.body = m.body \o y.out
      BY <2>1, CallDecodes
    <3> QED  BY <1>1, <1>4, <3>1 DEF m, span, g, Outcome, DecodedNow, GivenNow
  <2> HIDE DEF m, span, f, g
  <2>4. /\ Whole'.st = g.st /\ Whole'.out = f.out \o g.out /\ Anew(Whole') = Anew(g)
    BY <2>2 DEF Onward, Run, Anew
  <2>5. Whole'.st \notin Final  BY <2>3, <2>4 DEF Final
  <2>6. req'.dec = Anew(Whole') /\ req'.body = Whole'.out  BY <1>1, <2>1, <2>3, <2>4
  <2>7. at' = "reading"  BY <1>1, <1>4
  <2> QED  BY <1>2, <2>5, <2>6, <2>7 DEF GivenInv, DecodedSoFar, Ended, DecodedAtEnd
<1> QED  BY <1>3, <1>4

LEMMA ThrowsGiven ==
  ASSUME BodyInv, GivenInv, Throws
  PROVE  GivenInv'
<1>1. InLoop /\ Give /\ ~Outcome.err /\ Len(req.body) + Outcome.n < 0 /\ at' = "thrown"
  BY DEF Throws
<1>2. given' \in Seq(Octet)  BY <1>1, GivenGrows
<1>3. Outcome.done
  <2> DEFINE m == req
             span == ReadableSpan(readBuffer_)
  <2>1. InReading(m) /\ span \in Seq(Octet) /\ Sound(DecodedNow)  BY <1>1, NowReads
  <2>2. ASSUME ~Outcome.done
        PROVE  Outcome.n = Len(DecodedNow.out)
    <3> HIDE DEF m, span
    <3>1. LET x == SubSeq(span, 1, Copied(m, span))
              y == Feed(m.dec, x)
              r == ConsumeBody(m, span)
          IN ~r.err /\ ~r.done => r.n = Len(y.out)
      BY <2>1, CallDecodes
    <3> QED  BY <1>1, <2>2, <3>1 DEF m, span, Outcome, DecodedNow, GivenNow
  <2>3. Len(DecodedNow.out) \in Nat  BY <2>1 DEF Sound, Automaton
  <2>4. Len(m.body) \in Nat  BY <2>1, CopyType
  <2> QED  BY <1>1, <2>2, <2>3, <2>4
<1>4. Whole'.st = "COMPLETE" /\ Kept' = Len(req.body) + Outcome.n
  BY <1>1, <1>3, CompleteGiven
<1> QED  BY <1>1, <1>2, <1>4 DEF GivenInv, DecodedSoFar, Ended, DecodedAtEnd

LEMMA RefusesGiven ==
  ASSUME BodyInv, GivenInv, Refuses
  PROVE  GivenInv'
<1>1. InLoop /\ Give /\ Outcome.err /\ at' = "INVALID_MESSAGE"
  BY DEF Refuses
<1>2. given' \in Seq(Octet)  BY <1>1, GivenGrows
<1>3. Whole'.st # "COMPLETE"
  <2> DEFINE m == req
             span == ReadableSpan(readBuffer_)
  <2>1. InReading(m) /\ span \in Seq(Octet) /\ Whole.st \notin Final  BY <1>1, NowReads
  <2>2. DecodedNow.st # "COMPLETE" \/ GivenNow = <<>>
    <3> HIDE DEF m, span
    <3>1. LET x == SubSeq(span, 1, Copied(m, span))
              y == Feed(m.dec, x)
          IN ConsumeBody(m, span).err => y.st # "COMPLETE" \/ x = <<>>
      BY <2>1, CallDecodes
    <3> QED  BY <1>1, <3>1 DEF m, span, Outcome, DecodedNow, GivenNow
  <2>3. /\ Whole' = Onward(Whole, DecodedNow)
        /\ GivenNow = <<>> => Whole' = Whole
    BY <1>1, GivenGrows
  <2> QED  BY <2>1, <2>2, <2>3 DEF Onward, Run, Final
<1> QED  BY <1>1, <1>2, <1>3 DEF GivenInv, DecodedSoFar, Ended, DecodedAtEnd

LEMMA GivenNext == BodyInv /\ GivenInv /\ [Next]_vars => GivenInv'
<1> SUFFICES ASSUME BodyInv, GivenInv, [Next]_vars  PROVE GivenInv'
  OBVIOUS
<1>1. CASE \E n \in 1 .. Cap : Receive(n)
  BY <1>1 DEF Receive, GivenInv, DecodedSoFar, Ended, DecodedAtEnd, Whole, Kept
<1>2. CASE Part
  BY <1>2, PartGiven
<1>3. CASE Throws
  BY <1>3, ThrowsGiven
<1>4. CASE Refuses
  BY <1>4, RefusesGiven
<1>5. CASE Overruns
  BY <1>5 DEF Overruns, InLoop, GivenInv, DecodedSoFar, Ended, DecodedAtEnd, Whole, Kept
<1>6. CASE UNCHANGED vars
  BY <1>6 DEF vars, GivenInv, DecodedSoFar, Ended, DecodedAtEnd, Whole, Kept
<1> QED  BY <1>1, <1>2, <1>3, <1>4, <1>5, <1>6 DEF Next, Consumes

(* As soon as the bytes given to the decoder begin with a body, spelled in    *)
(* any way of the coding, the read has ended: with that body, less as many    *)
(* bytes of its end as were given behind it, or, if there are more of those   *)
(* than it has, with an exception.                                         *)
THEOREM BodyIsWhatWasSent == Spec => []BodyIsContent
<1>1. ASSUME BodyInv, GivenInv  PROVE BodyIsContent
  <2> SUFFICES ASSUME NEW b \in Coded, IsPrefix(Encoded(b), given)
               PROVE  LET rest == Len(Content(b)) - Surplus(b) IN
                      IF rest >= 0 THEN at = "OK" /\ req.body = SubSeq(Content(b), 1, rest)
                      ELSE at = "thrown"
    BY DEF BodyIsContent
  <2> DEFINE e == Encoded(b)
             c == Content(b)
             done == Run("COMPLETE", 0, 0, c, Len(e))
             u == SubSeq(given, Len(e) + 1, Len(given))
  <2>1. b \in CodedBody  BY CodedAssumption
  <2>2. e \in Seq(Octet) /\ c \in Seq(Octet) /\ Feed(Fresh, e) = done
    BY <2>1, FeedEncoded
  <2>3. given \in Seq(Octet)  BY <1>1 DEF GivenInv
  <2> HIDE DEF e, c
  <2>4. /\ Len(e) \in Nat /\ Len(given) \in Nat /\ Len(e) <= Len(given)
        /\ e = SubSeq(given, 1, Len(e))
    BY <2>2, <2>3 DEF IsPrefix, e
  <2>5. u \in Seq(Octet) /\ e \o u = given
    <3>1. /\ SubSeq(given, 0 + Len(e) + 1, Len(given)) \in Seq(Octet)
          /\ SubSeq(given, 0 + 1, 0 + Len(e)) \o SubSeq(given, 0 + Len(e) + 1, Len(given))
               = SubSeq(given, 0 + 1, Len(given))
      <4>1. 0 \in Nat /\ 0 + Len(e) <= Len(given)  BY <2>4
      <4> QED  BY <2>3, <2>4, <4>1, PartAndRest
    <3>2. SubSeq(given, 1, Len(given)) = given  BY <2>3, SubSeqFull
    <3>3. 0 + Len(e) + 1 = Len(e) + 1 /\ 0 + 1 = 1 /\ 0 + Len(e) = Len(e)  BY <2>4
    <3> QED  BY <2>4, <3>1, <3>2, <3>3
  <2>6. Sound(done) /\ done.st \in Final
    <3>1. Sound(Feed(Fresh, e))  BY <2>2, FreshStarts, FeedType
    <3> QED  BY <2>2, <3>1 DEF Run, Final
  <2> HIDE DEF u, done
  <2>7. Whole = done
    <3>1. Feed(Fresh, e \o u) = Feed(done, u)  BY <2>2, <2>5, FeedBoth
    <3>2. Feed(done, u) = done  BY <2>5, <2>6, FeedFinal
    <3> QED  BY <2>5, <3>1, <3>2 DEF Whole
  <2>8. Whole.st = "COMPLETE" /\ Whole.out = c /\ Whole.used = Len(e)
    BY <2>7 DEF done, Run
  <2>9. Kept = Len(c) - Surplus(b)
    <3>1. Len(c) \in Nat  BY <2>2
    <3> QED  BY <2>4, <2>8, <3>1 DEF Kept, Surplus, e
  <2>10. at \in {"OK", "thrown"}
    BY <1>1, <2>8 DEF GivenInv, DecodedSoFar, Ended, DecodedAtEnd, Final
  <2>11. /\ at = "OK" => Kept >= 0 /\ req.body = SubSeq(c, 1, Kept)
         /\ at = "thrown" => Kept < 0
    BY <1>1, <2>8 DEF GivenInv, DecodedAtEnd
  <2>12. Kept \in Int
    <3>1. Len(c) \in Nat  BY <2>2
    <3> QED  BY <2>4, <2>8, <3>1 DEF Kept
  <2> QED  BY <2>9, <2>10, <2>11, <2>12 DEF c
<1> QED  BY <1>1, BodyInvHolds, GivenInit, GivenNext, PTL DEF Spec
===============================================================================
