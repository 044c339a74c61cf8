--------------------------- MODULE HttpSessionProofs ---------------------------
(***************************************************************************)
(* Proofs about HttpSession.  What the session writes is the responses of    *)
(* the requests it handled, whatever the client sends and however the stream *)
(* is cut; and what it handles is what a client sent that waits for its      *)
(* responses.                                                              *)
(*                                                                         *)
(* The order: the parser, the search and the methods of a request; the       *)
(* invariant of read and write; then the invariant that relates them to the  *)
(* client's script.                                                        *)
(***************************************************************************)
EXTENDS HttpSession, OperatorProofs, FiniteSetTheorems

-------------------------------------------------------------------------------
(* The request parser of the session.                                       *)

(* A parser that reads bytes of the session; behind the request line it has   *)
(* one of the lines.                                                        *)
BehindLine == {"LINE_END", "LINE_LF", "FIELDS", "FIELD_END", "FIELD_LF", "END_LF", "DONE"}
PlainParser ==
  {p \in Parser : /\ p.fields \in Seq(PlainField)
                  /\ p.st \in BehindLine => p.line \in Line}

LEMMA ParserStep ==
  ASSUME NEW p \in PlainParser, NEW b \in Plain
  PROVE  ParseToken(p, b) \in PlainParser
<1> DEFINE n == [p EXCEPT !.used = p.used + 1]
<1>1. p \in Parser /\ p.fields \in Seq(PlainField) /\ (p.st \in BehindLine => p.line \in Line)
  BY DEF PlainParser
<1>2. /\ n \in Parser /\ n.fields = p.fields /\ n.line = p.line /\ n.st = p.st
  BY <1>1 DEF Parser
<1> HIDE DEF n
<1>3. ASSUME NEW st \in {"START", "START_LF", "LINE", "LINE_END", "LINE_LF", "FIELDS",
                         "FIELD_END", "FIELD_LF", "END_LF", "DONE", "ERROR"},
             st \in BehindLine => p.line \in Line
      PROVE  To(n, st) \in PlainParser
  <2>1. To(n, st) \in Parser  BY <1>2 DEF To, Parser
  <2>2. /\ To(n, st).fields = p.fields /\ To(n, st).line = p.line /\ To(n, st).st = st
    BY <1>2 DEF To, Parser
  <2> QED  BY <1>1, <1>3, <2>1, <2>2 DEF PlainParser
<1>4. AtLine(n, b) \in PlainParser
  <2>1. CASE b \in Line
    <3> DEFINE q == [To(n, "LINE_END") EXCEPT !.line = b]
    <3>1. To(n, "LINE_END") = [n EXCEPT !.st = "LINE_END"]  BY DEF To
    <3>2. q \in Parser /\ q.fields = p.fields /\ q.line = b
      BY <1>2, <2>1, <3>1 DEF Parser
    <3>3. AtLine(n, b) = q  BY <2>1 DEF AtLine
    <3> QED  BY <1>1, <2>1, <3>2, <3>3 DEF PlainParser
  <2>2. CASE b \notin Line
    BY <1>3, <2>2 DEF AtLine, BehindLine
  <2> QED  BY <2>1, <2>2
<1>5. ASSUME NEW lf \in BehindLine \cup {"START_LF"}, NEW next \in BehindLine \cup {"LINE"},
             p.line \in Line \/ (lf = "START_LF" /\ next = "LINE")
      PROVE  Eol(n, b, lf, next) \in PlainParser
  BY <1>3, <1>5 DEF Eol, BehindLine
<1>6. ASSUME NEW next \in BehindLine \cup {"LINE"}, p.line \in Line \/ next = "LINE"
      PROVE  Expect_(n, b, next) \in PlainParser
  BY <1>3, <1>6 DEF Expect_, BehindLine
<1>7. p.line \in Line => AtField(n, b) \in PlainParser
  <2> SUFFICES ASSUME p.line \in Line  PROVE AtField(n, b) \in PlainParser
    OBVIOUS
  <2>1. CASE b \in FieldToken /\ Len(n.fields) < MaxHeaders
    <3> DEFINE fs == Append(n.fields, b)
               q == [To(n, "FIELD_END") EXCEPT !.fields = fs]
    <3>1. b \in PlainField  BY <2>1 DEF Plain, PlainField
    <3>2. fs \in Seq(PlainField)  BY <1>1, <1>2, <3>1
    <3>3. fs \in Seq(FieldToken)  BY <1>2, <2>1 DEF Parser
    <3>4. To(n, "FIELD_END") = [n EXCEPT !.st = "FIELD_END"]  BY DEF To
    <3>5. q.fields = fs /\ q.line = p.line /\ q \in Parser
      <4> HIDE DEF fs
      <4> QED  BY <1>2, <3>3, <3>4 DEF Parser
    <3>6. AtField(n, b) = q  BY <2>1 DEF AtField
    <3> QED  BY <3>2, <3>5, <3>6 DEF PlainParser
  <2>2. CASE ~(b \in FieldToken /\ Len(n.fields) < MaxHeaders)
    <3>1. AtField(n, b) = Eol(n, b, "END_LF", "DONE")  BY <2>2 DEF AtField
    <3> QED  BY <1>5, <3>1 DEF BehindLine
  <2> QED  BY <2>1, <2>2
<1>8. p.st \in {"START", "START_LF", "LINE", "LINE_END", "LINE_LF", "FIELDS",
                "FIELD_END", "FIELD_LF", "END_LF", "DONE", "ERROR"}
  BY <1>1 DEF Parser
<1>9. CASE Decided(p)
  <2>1. ParseToken(p, b) = p  BY <1>9 DEF ParseToken, Decided
  <2> QED  BY <2>1
<1>10. CASE p.st \in {"START", "LINE", "FIELDS"}
  <2>1. ParseToken(p, b) =
          CASE p.st = "START" -> IF b \in {"CR", "LF"} THEN Eol(n, b, "START_LF", "LINE")
                                                       ELSE AtLine(n, b)
            [] p.st = "LINE" -> AtLine(n, b)
            [] p.st = "FIELDS" -> AtField(n, b)
    BY <1>10 DEF ParseToken, Decided, n
  <2> QED  BY <1>1, <1>4, <1>5, <1>7, <1>10, <2>1 DEF BehindLine
<1>11. CASE p.st \in {"START_LF", "LINE_LF", "FIELD_LF", "END_LF"}
  <2>1. ParseToken(p, b) =
          CASE p.st = "START_LF" -> Expect_(n, b, "LINE")
            [] p.st = "LINE_LF" -> Expect_(n, b, "FIELDS")
            [] p.st = "FIELD_LF" -> Expect_(n, b, "FIELDS")
            [] p.st = "END_LF" -> Expect_(n, b, "DONE")
    BY <1>11 DEF ParseToken, Decided, n
  <2> QED  BY <1>1, <1>6, <1>11, <2>1 DEF BehindLine
<1>12. CASE p.st \in {"LINE_END", "FIELD_END"}
  <2>1. ParseToken(p, b) =
          IF p.st = "LINE_END" THEN Eol(n, b, "LINE_LF", "FIELDS")
                               ELSE Eol(n, b, "FIELD_LF", "FIELDS")
    BY <1>12 DEF ParseToken, Decided, n
  <2> QED  BY <1>1, <1>5, <1>12, <2>1 DEF BehindLine
<1> QED  BY <1>8, <1>9, <1>10, <1>11, <1>12 DEF Decided

(* The parser over the first N tokens of s. *)
ParserRun(r, s, N) ==
  /\ r \in [0 .. N -> PlainParser] /\ r[0] = ParserStart
  /\ \A n \in 1 .. N : r[n] = ParseToken(r[n - 1], s[n])

LEMMA ParseRun ==
  ASSUME NEW s \in Seq(Plain)
  PROVE  \E r : ParserRun(r, s, Len(s)) /\ Parse(s) = r[Len(s)]
<1> DEFINE S == PlainParser
           N == Len(s)
           g == [n \in 1 .. N |-> [p \in S |-> ParseToken(p, s[n])]]
           Eq(r) == r = [n \in 0 .. N |-> IF n = 0 THEN ParserStart
                                                   ELSE ParseToken(r[n - 1], s[n])]
           run == CHOOSE r : Eq(r)
<1>1. N \in Nat /\ \A n \in 1 .. N : s[n] \in Plain  OBVIOUS
<1>2. ParserStart \in S
  <2>1. <<>> \in Seq(PlainField) /\ <<>> \in Seq(FieldToken)  OBVIOUS
  <2> QED  BY <2>1 DEF ParserStart, PlainParser, Parser, BehindLine
<1> HIDE DEF N
<1>3. \A n \in 1 .. N : \A x \in S : g[n][x] \in S
  BY <1>1, ParserStep
<1>4. \E r : Eq(r)
  <2>1. PICK r \in [0 .. N -> S] :
          r[0] = ParserStart /\ \A n \in 1 .. N : r[n] = g[n][r[n - 1]]
    <3> HIDE DEF g, S
    <3>1. HasRun(S, ParserStart, N, g)
      BY <1>1, <1>2, <1>3, RecursionExists
    <3> QED  BY <3>1 DEF HasRun
  <2>2. ASSUME NEW n \in 0 .. N
        PROVE  r[n] = IF n = 0 THEN ParserStart ELSE ParseToken(r[n - 1], s[n])
    <3>1. n # 0 => n \in 1 .. N /\ n - 1 \in 0 .. N  BY <1>1
    <3>2. n # 0 => r[n - 1] \in S  BY <2>1, <3>1
    <3>3. r[n] = IF n = 0 THEN ParserStart ELSE g[n][r[n - 1]]
      <4> HIDE DEF g, S
      <4> QED  BY <2>1, <3>1
    <3>4. n # 0 => g[n][r[n - 1]] = ParseToken(r[n - 1], s[n])
      <4> HIDE DEF S
      <4> QED  BY <3>1, <3>2
    <3> QED  BY <3>3, <3>4
  <2>3. r = [n \in 0 .. N |-> r[n]]
    <3> HIDE DEF g, S
    <3> QED  BY <2>1
  <2>4. Eq(r)
    <3> HIDE DEF g, S
    <3> QED  BY <2>2, <2>3
  <2> QED  BY <2>4
<1>5. Eq(run)  BY <1>4
<1>6. Parse(s) = run[N]  BY DEF Parse, After, N
<1> HIDE DEF run, S, g
<1>7. \A n \in 0 .. N : run[n] = IF n = 0 THEN ParserStart ELSE ParseToken(run[n - 1], s[n])
  BY <1>5
<1> DEFINE T == {n \in Nat : n <= N => run[n] \in S}
<1>8. 0 \in T
  BY <1>1, <1>2, <1>7
<1>9. ASSUME NEW n \in Nat, n \in T
      PROVE  n + 1 \in T
  <2> SUFFICES ASSUME n + 1 <= N  PROVE run[n + 1] \in S
    OBVIOUS
  <2>1. n + 1 \in 0 .. N /\ n + 1 # 0 /\ (n + 1) - 1 = n /\ n <= N /\ n + 1 \in 1 .. N
    BY <1>1
  <2>2. run[n] \in S  BY <1>9, <2>1
  <2>3. run[n + 1] = ParseToken(run[n], s[n + 1])  BY <1>7, <2>1
  <2> QED  BY <1>1, <2>1, <2>2, <2>3, ParserStep DEF S
<1>10. Nat \subseteq T
  <2> HIDE DEF T
  <2> QED  BY <1>8, <1>9, Induction
<1>11. ParserRun(run, s, N)
  <2>1. run = [n \in 0 .. N |-> run[n]]  BY <1>5
  <2>2. \A n \in 0 .. N : run[n] \in S  BY <1>10
  <2>3. run \in [0 .. N -> S]  BY <2>1, <2>2
  <2>4. run[0] = ParserStart  BY <1>1, <1>7
  <2>5. \A n \in 1 .. N : run[n] = ParseToken(run[n - 1], s[n])  BY <1>1, <1>7
  <2> QED  BY <2>3, <2>4, <2>5 DEF ParserRun, S
<1> QED  BY <1>6, <1>11 DEF N

(* Whatever the head buffer holds, what the parser makes of it is a request   *)
(* line and fields.                                                         *)
LEMMA ParseType ==
  ASSUME NEW s \in Seq(Plain)
  PROVE  Parse(s) \in PlainParser
<1>1. Len(s) \in 0 .. Len(s)  OBVIOUS
<1> QED  BY <1>1, ParseRun DEF ParserRun

LEMMA ParseNothing == Parse(<<>>) = ParserStart
<1>1. <<>> \in Seq(Plain) /\ Len(<<>>) = 0  OBVIOUS
<1> QED  BY <1>1, ParseRun DEF ParserRun

(* A byte more is a step more. *)
LEMMA ParseAppend ==
  ASSUME NEW s \in Seq(Plain), NEW b \in Plain
  PROVE  Parse(Append(s, b)) = ParseToken(Parse(s), b)
<1> DEFINE t == Append(s, b)
           N == Len(s)
<1>1. /\ t \in Seq(Plain) /\ Len(t) = N + 1 /\ N \in Nat /\ t[N + 1] = b
      /\ \A n \in 1 .. N : t[n] = s[n]
  BY AppendProperties
<1> HIDE DEF t
<1>2. PICK r : ParserRun(r, s, N) /\ Parse(s) = r[N]  BY ParseRun
<1>3. PICK q : ParserRun(q, t, N + 1) /\ Parse(t) = q[N + 1]
  BY <1>1, ParseRun
<1> HIDE DEF N
<1> DEFINE T == {n \in Nat : n <= N => q[n] = r[n]}
<1>4. 0 \in T  BY <1>2, <1>3 DEF ParserRun
<1>5. ASSUME NEW n \in Nat, n \in T
      PROVE  n + 1 \in T
  <2> SUFFICES ASSUME n + 1 <= N  PROVE q[n + 1] = r[n + 1]
    OBVIOUS
  <2>1. n + 1 \in 1 .. N /\ n + 1 \in 1 .. N + 1 /\ (n + 1) - 1 = n /\ n <= N
    BY <1>1
  <2>2. q[n] = r[n]  BY <1>5, <2>1
  <2>3. q[n + 1] = ParseToken(q[n], t[n + 1])  BY <1>3, <2>1 DEF ParserRun
  <2>4. r[n + 1] = ParseToken(r[n], s[n + 1])  BY <1>2, <2>1 DEF ParserRun
  <2> QED  BY <1>1, <2>1, <2>2, <2>3, <2>4
<1>6. Nat \subseteq T
  <2> HIDE DEF T
  <2> QED  BY <1>4, <1>5, Induction
<1>7. q[N] = r[N]  BY <1>1, <1>6
<1>8. N + 1 \in 1 .. N + 1 /\ (N + 1) - 1 = N  BY <1>1
<1>9. q[N + 1] = ParseToken(q[N], b)  BY <1>1, <1>3, <1>8 DEF ParserRun
<1> QED  BY <1>2, <1>3, <1>7, <1>9 DEF t

(* Where a byte takes a parser that has not decided. *)
Successor(st, b, next) ==
  \/ /\ st = "START"
     /\ \/ b = "CR" /\ next = "START_LF"
        \/ b = "LF" /\ next = "LINE"
        \/ b \notin {"CR", "LF"} /\ next = "LINE_END"
  \/ st = "LINE" /\ b \notin {"CR", "LF"} /\ next = "LINE_END"
  \/ st = "LINE_END" /\ b = "CR" /\ next = "LINE_LF"
  \/ st = "FIELD_END" /\ b = "CR" /\ next = "FIELD_LF"
  \/ st \in {"LINE_END", "FIELD_END"} /\ b = "LF" /\ next = "FIELDS"
  \/ /\ st = "FIELDS"
     /\ \/ b \notin {"CR", "LF"} /\ next = "FIELD_END"
        \/ b = "CR" /\ next = "END_LF"
        \/ b = "LF" /\ next = "DONE"
  \/ st = "START_LF" /\ b = "LF" /\ next = "LINE"
  \/ st \in {"LINE_LF", "FIELD_LF"} /\ b = "LF" /\ next = "FIELDS"
  \/ st = "END_LF" /\ b = "LF" /\ next = "DONE"
  \/ next = "ERROR"

LEMMA ParserMoves ==
  ASSUME NEW p \in PlainParser, NEW b \in Plain, ~Decided(p)
  PROVE  /\ ParseToken(p, b).used = p.used + 1
         /\ Successor(p.st, b, ParseToken(p, b).st)
<1> DEFINE n == [p EXCEPT !.used = p.used + 1]
           Moved(q, st) == q.st = st /\ q.used = p.used + 1
<1>1. p \in Parser  BY DEF PlainParser
<1>2. n \in Parser /\ n.st = p.st /\ n.used = p.used + 1  BY <1>1 DEF Parser
<1>3. p.st \in {"START", "START_LF", "LINE", "LINE_END", "LINE_LF", "FIELDS",
                "FIELD_END", "FIELD_LF", "END_LF"}
  BY <1>1 DEF Parser, Decided
<1>4. ParseToken(p, b) =
        (CASE p.st = "START" -> IF b \in {"CR", "LF"} THEN Eol(n, b, "START_LF", "LINE")
                                                      ELSE AtLine(n, b)
           [] p.st = "START_LF" -> Expect_(n, b, "LINE")
           [] p.st = "LINE" -> AtLine(n, b)
           [] p.st = "LINE_END" -> Eol(n, b, "LINE_LF", "FIELDS")
           [] p.st = "LINE_LF" -> Expect_(n, b, "FIELDS")
           [] p.st = "FIELDS" -> AtField(n, b)
           [] p.st = "FIELD_END" -> Eol(n, b, "FIELD_LF", "FIELDS")
           [] p.st = "FIELD_LF" -> Expect_(n, b, "FIELDS")
           [] p.st = "END_LF" -> Expect_(n, b, "DONE"))
  BY <1>3 DEF ParseToken, Decided
<1>5. Line \cap {"CR", "LF"} = {} /\ FieldToken \cap {"CR", "LF"} = {}
  BY DEF Line, FieldToken, ContentLength
<1> HIDE DEF n
<1>6. ASSUME NEW st  PROVE Moved(To(n, st), st)
  BY <1>2 DEF To, Parser
<1>7. ASSUME NEW lf, NEW next
      PROVE  Moved(Eol(n, b, lf, next),
                   IF b = "CR" THEN lf ELSE IF b = "LF" THEN next ELSE "ERROR")
  <2>1. Eol(n, b, lf, next) =
          To(n, IF b = "CR" THEN lf ELSE IF b = "LF" THEN next ELSE "ERROR")
    BY DEF Eol
  <2> QED  BY <1>6, <2>1
<1>8. ASSUME NEW next
      PROVE  Moved(Expect_(n, b, next), IF b = "LF" THEN next ELSE "ERROR")
  BY <1>6 DEF Expect_
<1>9. Moved(AtLine(n, b), IF b \in Line THEN "LINE_END" ELSE "ERROR")
  <2>1. CASE b \in Line
    <3>1. AtLine(n, b) = [[n EXCEPT !.st = "LINE_END"] EXCEPT !.line = b]
      BY <2>1 DEF AtLine, To
    <3> QED  BY <1>2, <2>1, <3>1 DEF Parser
  <2>2. CASE b \notin Line
    <3>1. AtLine(n, b) = To(n, "ERROR")  BY <2>2 DEF AtLine
    <3> QED  BY <1>6, <2>2, <3>1
  <2> QED  BY <2>1, <2>2
<1>10. \/ b \in FieldToken /\ Moved(AtField(n, b), "FIELD_END")
       \/ Moved(AtField(n, b), IF b = "CR" THEN "END_LF" ELSE IF b = "LF" THEN "DONE" ELSE "ERROR")
  <2>1. CASE b \in FieldToken /\ Len(n.fields) < MaxHeaders
    <3>1. AtField(n, b) = [[n EXCEPT !.st = "FIELD_END"] EXCEPT !.fields = Append(n.fields, b)]
      BY <2>1 DEF AtField, To
    <3> QED  BY <1>2, <2>1, <3>1 DEF Parser
  <2>2. CASE ~(b \in FieldToken /\ Len(n.fields) < MaxHeaders)
    <3>1. AtField(n, b) = Eol(n, b, "END_LF", "DONE")  BY <2>2 DEF AtField
    <3> QED  BY <1>7, <3>1
  <2> QED  BY <2>1, <2>2
<1>11. CASE p.st = "START"
  <2>1. ParseToken(p, b) = IF b \in {"CR", "LF"} THEN Eol(n, b, "START_LF", "LINE")
                                                 ELSE AtLine(n, b)
    BY <1>4, <1>11
  <2>2. CASE b \in {"CR", "LF"}
    <3>1. ParseToken(p, b) = Eol(n, b, "START_LF", "LINE")  BY <2>1, <2>2
    <3> QED  BY <1>7, <1>11, <2>2, <3>1 DEF Successor
  <2>3. CASE b \notin {"CR", "LF"}
    <3>1. ParseToken(p, b) = AtLine(n, b)  BY <2>1, <2>3
    <3> QED  BY <1>9, <1>11, <2>3, <3>1 DEF Successor
  <2> QED  BY <2>2, <2>3
<1>12. CASE p.st = "LINE"
  <2>1. ParseToken(p, b) = AtLine(n, b)  BY <1>4, <1>12
  <2> QED  BY <1>5, <1>9, <1>12, <2>1 DEF Successor
<1>13. CASE p.st = "LINE_END"
  <2>1. ParseToken(p, b) = Eol(n, b, "LINE_LF", "FIELDS")  BY <1>4, <1>13
  <2> QED  BY <1>7, <1>13, <2>1 DEF Successor
<1>14. CASE p.st = "FIELD_END"
  <2>1. ParseToken(p, b) = Eol(n, b, "FIELD_LF", "FIELDS")  BY <1>4, <1>14
  <2> QED  BY <1>7, <1>14, <2>1 DEF Successor
<1>15. CASE p.st = "FIELDS"
  <2>1. ParseToken(p, b) = AtField(n, b)  BY <1>4, <1>15
  <2> QED  BY <1>5, <1>10, <1>15, <2>1 DEF Successor
<1>16. CASE p.st \in {"START_LF", "LINE_LF", "FIELD_LF", "END_LF"}
  <2>1. ParseToken(p, b) =
          Expect_(n, b, IF p.st = "START_LF" THEN "LINE"
                        ELSE IF p.st = "END_LF" THEN "DONE" ELSE "FIELDS")
    BY <1>4, <1>16
  <2> QED  BY <1>8, <1>16, <2>1 DEF Successor
<1> QED  BY <1>3, <1>11, <1>12, <1>13, <1>14, <1>15, <1>16

LEMMA DecidedStays ==
  ASSUME NEW p, NEW b, Decided(p)
  PROVE  ParseToken(p, b) = p
<1>1. p.st = "DONE" \/ p.st = "ERROR"  BY DEF Decided
<1>2. /\ p.st # "START" /\ p.st # "START_LF" /\ p.st # "LINE" /\ p.st # "LINE_END"
      /\ p.st # "LINE_LF" /\ p.st # "FIELDS" /\ p.st # "FIELD_END"
      /\ p.st # "FIELD_LF" /\ p.st # "END_LF"
  BY <1>1
<1> QED  BY <1>2, Zenon DEF ParseToken

(* A parser that has decided pays no attention to what follows. *)
LEMMA ParsePrefix ==
  ASSUME NEW s \in Seq(Plain), NEW t \in Seq(Plain), Decided(Parse(s))
  PROVE  Parse(s \o t) = Parse(s)
<1> DEFINE T == {n \in Nat : n <= Len(t) => Parse(s \o SubSeq(t, 1, n)) = Parse(s)}
<1>1. 0 \in T
  <2>1. SubSeq(t, 1, 0) = <<>> /\ s \o <<>> = s  OBVIOUS
  <2> QED  BY <2>1
<1>2. ASSUME NEW n \in Nat, n \in T
      PROVE  n + 1 \in T
  <2> SUFFICES ASSUME n + 1 <= Len(t)  PROVE Parse(s \o SubSeq(t, 1, n + 1)) = Parse(s)
    OBVIOUS
  <2>1. n <= Len(t)  OBVIOUS
  <2>2. Parse(s \o SubSeq(t, 1, n)) = Parse(s)  BY <1>2, <2>1
  <2>3. /\ SubSeq(t, 1, n) \in Seq(Plain) /\ t[n + 1] \in Plain
        /\ s \o SubSeq(t, 1, n + 1) = Append(s \o SubSeq(t, 1, n), t[n + 1])
    BY OneMore
  <2>4. s \o SubSeq(t, 1, n) \in Seq(Plain)  BY <2>3, ConcatProperties
  <2>5. Parse(s \o SubSeq(t, 1, n + 1)) = ParseToken(Parse(s), t[n + 1])
    BY <2>2, <2>3, <2>4, ParseAppend
  <2> QED  BY <2>5, DecidedStays
<1>3. Nat \subseteq T
  <2> HIDE DEF T
  <2> QED  BY <1>1, <1>2, Induction
<1>4. Len(t) \in Nat /\ Len(t) <= Len(t)  OBVIOUS
<1>5. Parse(s \o SubSeq(t, 1, Len(t))) = Parse(s)  BY <1>3, <1>4
<1>6. SubSeq(t, 1, Len(t)) = t  BY SubSeqFull
<1> QED  BY <1>5, <1>6

(* The parser uses no more than there is. *)
LEMMA ParseUses ==
  ASSUME NEW s \in Seq(Plain)
  PROVE  Parse(s).used <= Len(s)
<1> DEFINE T == {n \in Nat : n <= Len(s) => Parse(SubSeq(s, 1, n)).used <= n}
<1>1. 0 \in T
  <2>1. SubSeq(s, 1, 0) = <<>>  OBVIOUS
  <2>2. ParserStart.used = 0  BY DEF ParserStart
  <2>3. Parse(SubSeq(s, 1, 0)).used = 0  BY <2>1, <2>2, ParseNothing
  <2> QED  BY <2>3
<1>2. ASSUME NEW n \in Nat, n \in T
      PROVE  n + 1 \in T
  <2> SUFFICES ASSUME n + 1 <= Len(s)  PROVE Parse(SubSeq(s, 1, n + 1)).used <= n + 1
    OBVIOUS
  <2> DEFINE p == Parse(SubSeq(s, 1, n))
  <2>1. n <= Len(s)  OBVIOUS
  <2>2. p.used <= n  BY <1>2, <2>1
  <2>3. /\ SubSeq(s, 1, n) \in Seq(Plain) /\ s[n + 1] \in Plain
        /\ SubSeq(s, 1, n + 1) = Append(SubSeq(s, 1, n), s[n + 1])
    BY OneMore
  <2>4. Parse(SubSeq(s, 1, n + 1)) = ParseToken(p, s[n + 1])  BY <2>3, ParseAppend
  <2>5. p \in PlainParser  BY <2>3, ParseType
  <2>6. p.used \in Nat  BY <2>5 DEF PlainParser, Parser
  <2> HIDE DEF p
  <2>7. ParseToken(p, s[n + 1]).used \in {p.used, p.used + 1}
    BY <2>3, <2>5, DecidedStays, ParserMoves
  <2> QED  BY <2>2, <2>4, <2>6, <2>7
<1>3. Nat \subseteq T
  <2> HIDE DEF T
  <2> QED  BY <1>1, <1>2, Induction
<1>4. Len(s) \in Nat /\ Len(s) <= Len(s)  OBVIOUS
<1>5. Parse(SubSeq(s, 1, Len(s))).used <= Len(s)  BY <1>3, <1>4
<1>6. SubSeq(s, 1, Len(s)) = s  BY SubSeqFull
<1> QED  BY <1>5, <1>6

-------------------------------------------------------------------------------
(* The search for the end of the head.                                      *)

(* The search for the end of the head finds it in what it searches.          *)
Scanned == [last : Plain, found : 0 .. 255, at : Nat, hit : Nat]

LEMMA ScanStep ==
  ASSUME NEW c \in Scanned, NEW b \in Plain
  PROVE  /\ ScanByte(c, b) \in Scanned /\ ScanByte(c, b).at = c.at + 1
         /\ ScanByte(c, b).hit \in {c.hit, c.at + 1}
<1> DEFINE f == IF EndsLine(c.last, b) THEN (c.found + 1) % 256 ELSE 0
           h == IF HeadEnds(f) THEN c.at + 1 ELSE c.hit
<1>1. c.found \in 0 .. 255 /\ c.at \in Nat /\ c.hit \in Nat  BY DEF Scanned
<1>2. f \in 0 .. 255  BY <1>1
<1>3. h \in Nat /\ h \in {c.hit, c.at + 1}  BY <1>1
<1>4. ScanByte(c, b) = [last |-> b, found |-> f, at |-> c.at + 1, hit |-> h]
  BY DEF ScanByte
<1> HIDE DEF f, h
<1> QED  BY <1>1, <1>2, <1>3, <1>4 DEF Scanned

(* The search over the first N tokens of s. *)
ScanRuns(r, m, s, N) ==
  /\ r \in [0 .. N -> Scanned] /\ r[0] = Resume(m)
  /\ \A n \in 1 .. N : r[n] = ScanByte(r[n - 1], s[n])

LEMMA ScanRun ==
  ASSUME NEW m, m.last \in Plain, m.found \in 0 .. 255, NEW s \in Seq(Plain)
  PROVE  \E r : ScanRuns(r, m, s, Len(s)) /\ Scan(m, s) = r[Len(s)]
<1> DEFINE S == Scanned
           N == Len(s)
           a == Resume(m)
           g == [n \in 1 .. N |-> [c \in S |-> ScanByte(c, s[n])]]
           Eq(r) == r = [n \in 0 .. N |-> IF n = 0 THEN a ELSE ScanByte(r[n - 1], s[n])]
           run == CHOOSE r : Eq(r)
<1>1. N \in Nat /\ \A n \in 1 .. N : s[n] \in Plain  OBVIOUS
<1>2. a \in S
  BY DEF Resume, Scanned
<1> HIDE DEF N, a
<1>3. \A n \in 1 .. N : \A x \in S : g[n][x] \in S
  BY <1>1, ScanStep
<1>4. \E r : Eq(r)
  <2>1. PICK r \in [0 .. N -> S] : r[0] = a /\ \A n \in 1 .. N : r[n] = g[n][r[n - 1]]
    <3> HIDE DEF g, S
    <3>1. HasRun(S, a, N, g)
      BY <1>1, <1>2, <1>3, RecursionExists
    <3> QED  BY <3>1 DEF HasRun
  <2>2. ASSUME NEW n \in 0 .. N
        PROVE  r[n] = IF n = 0 THEN a ELSE ScanByte(r[n - 1], s[n])
    <3>1. n # 0 => n \in 1 .. N /\ n - 1 \in 0 .. N  BY <1>1
    <3>2. n # 0 => r[n - 1] \in S  BY <2>1, <3>1
    <3>3. r[n] = IF n = 0 THEN a ELSE g[n][r[n - 1]]
      <4> HIDE DEF g, S
      <4> QED  BY <2>1, <3>1
    <3>4. n # 0 => g[n][r[n - 1]] = ScanByte(r[n - 1], s[n])
      <4> HIDE DEF S
      <4> QED  BY <3>1, <3>2
    <3> QED  BY <3>3, <3>4
  <2>3. r = [n \in 0 .. N |-> r[n]]
    <3> HIDE DEF g, S
    <3> QED  BY <2>1
  <2>4. Eq(r)
    <3> HIDE DEF g, S
    <3> QED  BY <2>2, <2>3
  <2> QED  BY <2>4
<1>5. Eq(run)  BY <1>4
<1>6. Scan(m, s) = run[N]  BY DEF Scan, After, N, a
<1> HIDE DEF run, S, g
<1>7. \A n \in 0 .. N : run[n] = IF n = 0 THEN a ELSE ScanByte(run[n - 1], s[n])
  BY <1>5
<1> DEFINE T == {n \in Nat : n <= N => run[n] \in S}
<1>8. 0 \in T
  BY <1>1, <1>2, <1>7
<1>9. ASSUME NEW n \in Nat, n \in T
      PROVE  n + 1 \in T
  <2> SUFFICES ASSUME n + 1 <= N  PROVE run[n + 1] \in S
    OBVIOUS
  <2>1. n + 1 \in 0 .. N /\ n + 1 # 0 /\ (n + 1) - 1 = n /\ n <= N /\ n + 1 \in 1 .. N
    BY <1>1
  <2>2. run[n] \in S  BY <1>9, <2>1
  <2>3. run[n + 1] = ScanByte(run[n], s[n + 1])  BY <1>7, <2>1
  <2> QED  BY <1>1, <2>1, <2>2, <2>3, ScanStep DEF S
<1>10. Nat \subseteq T
  <2> HIDE DEF T
  <2> QED  BY <1>8, <1>9, Induction
<1>11. ScanRuns(run, m, s, N)
  <2>1. run = [n \in 0 .. N |-> run[n]]  BY <1>5
  <2>2. \A n \in 0 .. N : run[n] \in S  BY <1>10
  <2>3. run \in [0 .. N -> S]  BY <2>1, <2>2
  <2>4. run[0] = a  BY <1>1, <1>7
  <2>5. \A n \in 1 .. N : run[n] = ScanByte(run[n - 1], s[n])  BY <1>1, <1>7
  <2> QED  BY <2>3, <2>4, <2>5 DEF ScanRuns, S, a
<1> QED  BY <1>6, <1>11 DEF N

LEMMA ScanType ==
  ASSUME NEW m, m.last \in Plain, m.found \in 0 .. 255, NEW s \in Seq(Plain)
  PROVE  /\ Scan(m, s) \in Scanned
         /\ Scan(m, s).hit <= Len(s)
<1> DEFINE N == Len(s)
<1>1. PICK r : ScanRuns(r, m, s, N) /\ Scan(m, s) = r[N]  BY ScanRun
<1>2. N \in Nat /\ \A n \in 1 .. N : s[n] \in Plain  OBVIOUS
<1> HIDE DEF N
<1> DEFINE T == {n \in Nat : n <= N => r[n].at = n /\ r[n].hit <= n}
<1>3. 0 \in T  BY <1>1 DEF ScanRuns, Resume
<1>4. ASSUME NEW n \in Nat, n \in T
      PROVE  n + 1 \in T
  <2> SUFFICES ASSUME n + 1 <= N
               PROVE  r[n + 1].at = n + 1 /\ r[n + 1].hit <= n + 1
    OBVIOUS
  <2>1. n + 1 \in 1 .. N /\ n \in 0 .. N /\ (n + 1) - 1 = n /\ n <= N
    BY <1>2
  <2>2. r[n].at = n /\ r[n].hit <= n  BY <1>4, <2>1
  <2>3. r[n] \in Scanned /\ r[n + 1] = ScanByte(r[n], s[n + 1])  BY <1>1, <2>1 DEF ScanRuns
  <2>4. r[n + 1].at = n + 1 /\ r[n + 1].hit \in {r[n].hit, n + 1}
    BY <1>2, <2>1, <2>2, <2>3, ScanStep
  <2>5. r[n].hit \in Nat  BY <2>3 DEF Scanned
  <2> QED  BY <2>2, <2>4, <2>5
<1>5. Nat \subseteq T
  <2> HIDE DEF T
  <2> QED  BY <1>3, <1>4, Induction
<1>6. N \in 0 .. N  BY <1>2
<1>7. r[N] \in Scanned /\ r[N].hit <= N  BY <1>1, <1>2, <1>5, <1>6 DEF ScanRuns
<1> QED  BY <1>1, <1>7 DEF N

LEMMA ScanNothing ==
  ASSUME NEW m, m.last \in Plain, m.found \in 0 .. 255
  PROVE  Scan(m, <<>>) = Resume(m) /\ Resume(m) \in Scanned
<1>1. <<>> \in Seq(Plain) /\ Len(<<>>) = 0  OBVIOUS
<1>2. Resume(m) \in Scanned  BY DEF Resume, Scanned
<1> QED  BY <1>1, <1>2, ScanRun DEF ScanRuns

LEMMA ScanAppend ==
  ASSUME NEW m, m.last \in Plain, m.found \in 0 .. 255, NEW s \in Seq(Plain), NEW b \in Plain
  PROVE  Scan(m, Append(s, b)) = ScanByte(Scan(m, s), b)
<1> DEFINE t == Append(s, b)
           N == Len(s)
<1>1. /\ t \in Seq(Plain) /\ Len(t) = N + 1 /\ N \in Nat /\ t[N + 1] = b
      /\ \A n \in 1 .. N : t[n] = s[n]
  BY AppendProperties
<1> HIDE DEF t
<1>2. PICK r : ScanRuns(r, m, s, N) /\ Scan(m, s) = r[N]  BY ScanRun
<1>3. PICK q : ScanRuns(q, m, t, N + 1) /\ Scan(m, t) = q[N + 1]
  BY <1>1, ScanRun
<1> HIDE DEF N
<1> DEFINE T == {n \in Nat : n <= N => q[n] = r[n]}
<1>4. 0 \in T  BY <1>2, <1>3 DEF ScanRuns
<1>5. ASSUME NEW n \in Nat, n \in T
      PROVE  n + 1 \in T
  <2> SUFFICES ASSUME n + 1 <= N  PROVE q[n + 1] = r[n + 1]
    OBVIOUS
  <2>1. n + 1 \in 1 .. N /\ n + 1 \in 1 .. N + 1 /\ (n + 1) - 1 = n /\ n <= N
    BY <1>1
  <2>2. q[n] = r[n]  BY <1>5, <2>1
  <2>3. q[n + 1] = ScanByte(q[n], t[n + 1])  BY <1>3, <2>1 DEF ScanRuns
  <2>4. r[n + 1] = ScanByte(r[n], s[n + 1])  BY <1>2, <2>1 DEF ScanRuns
  <2> QED  BY <1>1, <2>1, <2>2, <2>3, <2>4
<1>6. Nat \subseteq T
  <2> HIDE DEF T
  <2> QED  BY <1>4, <1>5, Induction
<1>7. q[N] = r[N]  BY <1>1, <1>6
<1>8. N + 1 \in 1 .. N + 1 /\ (N + 1) - 1 = N  BY <1>1
<1>9. q[N + 1] = ScanByte(q[N], b)  BY <1>1, <1>3, <1>8 DEF ScanRuns
<1> QED  BY <1>2, <1>3, <1>7, <1>9 DEF t

-------------------------------------------------------------------------------
(* The search and the parser in step.                                       *)

(* What the search can have counted wherever the parser stands; see HeadScan. *)
AfterCR == {"START_LF", "LINE_LF", "FIELD_LF", "END_LF"}
Counts(st) ==
  IF st \in {"LINE", "FIELDS"} THEN {0, 2}
  ELSE IF st = "END_LF" THEN {1, 3}
  ELSE IF st \in AfterCR THEN {1} ELSE {0}
InStepWith(p, last, found) ==
  Decided(p) \/ (found \in Counts(p.st) /\ (last = "CR" <=> p.st \in AfterCR))

LEMMA FoundMeansDecided ==
  ASSUME NEW p, NEW last, NEW found, InStepWith(p, last, found), HeadEnds(found)
  PROVE  Decided(p)
BY DEF InStepWith, HeadEnds, Counts

LEMMA BothMove ==
  ASSUME NEW p \in PlainParser, NEW c \in Scanned, NEW b \in Plain,
         InStepWith(p, c.last, c.found)
  PROVE  InStepWith(ParseToken(p, b), ScanByte(c, b).last, ScanByte(c, b).found)
<1>1. CASE Decided(p)
  <2>1. ParseToken(p, b) = p  BY <1>1, DecidedStays
  <2> QED  BY <1>1, <2>1 DEF InStepWith
<1>2. CASE ~Decided(p)
  <2>1. Successor(p.st, b, ParseToken(p, b).st)  BY <1>2, ParserMoves
  <2>2. c.found \in Counts(p.st) /\ (c.last = "CR" <=> p.st \in AfterCR)
    BY <1>2 DEF InStepWith
  <2>3. c.found \in 0 .. 3  BY <2>2 DEF Counts
  <2>4. /\ ScanByte(c, b).last = b
        /\ ScanByte(c, b).found = IF EndsLine(c.last, b) THEN c.found + 1 ELSE 0
    <3>1. (c.found + 1) % 256 = c.found + 1  BY <2>3
    <3> QED  BY <3>1 DEF ScanByte
  <2> DEFINE st == ParseToken(p, b).st
             found == ScanByte(c, b).found
  <2>5. st \in {"DONE", "ERROR"} \/ (found \in Counts(st) /\ (b = "CR" <=> st \in AfterCR))
    <3> HIDE DEF st, found
    <3>1. found = IF (b = "CR" /\ c.last # "CR") \/ (b = "LF" /\ c.last = "CR")
                  THEN c.found + 1 ELSE 0
      BY <2>4 DEF EndsLine, found
    <3>2. Successor(p.st, b, st)  BY <2>1 DEF st
    <3> QED  BY <2>2, <2>3, <3>1, <3>2 DEF Successor, Counts, AfterCR
  <2> QED  BY <2>4, <2>5 DEF InStepWith, Decided
<1> QED  BY <1>1, <1>2

(* The search goes through t behind the tokens s, and the parser with it. *)
LEMMA SearchFollowed ==
  ASSUME NEW m, m.last \in Plain, m.found \in 0 .. 255, NEW s \in Seq(Plain),
         NEW t \in Seq(Plain), InStepWith(Parse(s), m.last, m.found)
  PROVE  LET c == Scan(m, t) IN
         /\ c \in Scanned /\ c.hit <= Len(t)
         /\ InStepWith(Parse(s \o t), c.last, c.found)
         /\ c.hit > 0 => Decided(Parse(s \o SubSeq(t, 1, c.hit)))
<1>0. ASSUME NEW n \in Nat, n + 1 <= Len(t)
      PROVE  /\ SubSeq(t, 1, n) \in Seq(Plain) /\ t[n + 1] \in Plain
             /\ SubSeq(t, 1, n + 1) = Append(SubSeq(t, 1, n), t[n + 1])
             /\ s \o SubSeq(t, 1, n + 1) = Append(s \o SubSeq(t, 1, n), t[n + 1])
  BY <1>0, OneMore
<1> DEFINE C(n) == Scan(m, SubSeq(t, 1, n))
           P(n) == Parse(s \o SubSeq(t, 1, n))
           T == {n \in Nat : n <= Len(t) =>
                   /\ C(n) \in Scanned /\ C(n).at = n /\ C(n).hit <= n
                   /\ InStepWith(P(n), C(n).last, C(n).found)
                   /\ C(n).hit > 0 => Decided(P(C(n).hit))}
<1>1. 0 \in T
  <2>1. SubSeq(t, 1, 0) = <<>> /\ s \o <<>> = s  OBVIOUS
  <2>2. C(0) = Resume(m) /\ C(0) \in Scanned  BY <2>1, ScanNothing
  <2>3. C(0).at = 0 /\ C(0).hit = 0 /\ C(0).last = m.last /\ C(0).found = m.found
    BY <2>2 DEF Resume
  <2>4. P(0) = Parse(s)  BY <2>1
  <2> HIDE DEF C, P
  <2> QED  BY <2>2, <2>3, <2>4
<1>2. ASSUME NEW n \in Nat, n \in T
      PROVE  n + 1 \in T
  <2> SUFFICES ASSUME n + 1 <= Len(t)  PROVE n + 1 \in T
    OBVIOUS
  <2> DEFINE b == t[n + 1]
  <2>1. n <= Len(t)  OBVIOUS
  <2>2. /\ C(n) \in Scanned /\ C(n).at = n /\ C(n).hit <= n
        /\ InStepWith(P(n), C(n).last, C(n).found)
        /\ C(n).hit > 0 => Decided(P(C(n).hit))
    BY <1>2, <2>1
  <2>3. /\ SubSeq(t, 1, n) \in Seq(Plain) /\ b \in Plain
        /\ SubSeq(t, 1, n + 1) = Append(SubSeq(t, 1, n), b)
        /\ s \o SubSeq(t, 1, n + 1) = Append(s \o SubSeq(t, 1, n), b)
    BY <1>0
  <2>4. s \o SubSeq(t, 1, n) \in Seq(Plain)  BY <2>3, ConcatProperties
  <2>5. C(n + 1) = ScanByte(C(n), b)  BY <2>3, ScanAppend
  <2>6. P(n + 1) = ParseToken(P(n), b)  BY <2>3, <2>4, ParseAppend
  <2>7. P(n) \in PlainParser  BY <2>4, ParseType
  <2> HIDE DEF C, P, b
  <2>8. InStepWith(P(n + 1), C(n + 1).last, C(n + 1).found)
    BY <2>2, <2>3, <2>5, <2>6, <2>7, BothMove
  <2>9. C(n + 1) \in Scanned /\ C(n + 1).at = n + 1
    BY <2>2, <2>3, <2>5, ScanStep
  <2>10. C(n + 1).hit = IF HeadEnds(C(n + 1).found) THEN n + 1 ELSE C(n).hit
    BY <2>2, <2>5 DEF ScanByte
  <2>11. C(n).hit \in Nat  BY <2>2 DEF Scanned
  <2>12. /\ C(n + 1).hit <= n + 1
         /\ C(n + 1).hit > 0 => Decided(P(C(n + 1).hit))
    <3>1. CASE HeadEnds(C(n + 1).found)
      <4>1. Decided(P(n + 1))  BY <2>8, <3>1, FoundMeansDecided
      <4> QED  BY <2>10, <3>1, <4>1
    <3>2. CASE ~HeadEnds(C(n + 1).found)
      BY <2>2, <2>10, <2>11, <3>2
    <3> QED  BY <3>1, <3>2
  <2> QED  BY <2>8, <2>9, <2>12
<1>3. Nat \subseteq T
  <2> HIDE DEF T
  <2> QED  BY <1>1, <1>2, Induction
<1>4. Len(t) \in T /\ Len(t) <= Len(t)  BY <1>3
<1>5. SubSeq(t, 1, Len(t)) = t  BY SubSeqFull
<1>6. C(Len(t)) = Scan(m, t) /\ P(Len(t)) = Parse(s \o t)  BY <1>5
<1>7. P(C(Len(t)).hit) = Parse(s \o SubSeq(t, 1, Scan(m, t).hit))  BY <1>6
<1> HIDE DEF C, P
<1> QED  BY <1>4, <1>6, <1>7

-------------------------------------------------------------------------------
(* The requests of the session: what their two methods do to them.          *)

(* Its object, as the parameters of a session make it.                       *)
RequestRecord ==
  [hb : [1 .. HeadCap -> Plain], idx : 0 .. HeadCap, last : Plain, found : 0 .. 255,
   line : Line \cup {"none"}, cl : Int, chunked : {FALSE}, body : Seq(Plain), size : {0},
   dec : {Fresh}, read : {0}, overhead : {0}]

(* Before its head is complete a request has no line, no length and no body;  *)
(* then it has a line, and a body no longer than its length and the limit.    *)
Headless == {m \in RequestRecord : m.line = "none" /\ m.cl = None /\ m.body = <<>>}
Headed ==
  {m \in RequestRecord : /\ m.line \in Line /\ Len(m.body) <= MaxBody
                         /\ m.cl > 0 => Len(m.body) <= m.cl}

LEMMA NewRequestHeadless ==
  ASSUME NEW h \in [1 .. HeadCap -> Plain]
  PROVE  NewRequest(h) \in Headless
<1>1. 0 \in 0 .. HeadCap /\ 0 \in 0 .. 255  BY RequestAssumption
<1>2. "NUL" \in Plain  BY DEF Plain, Token
<1>3. <<>> \in Seq(Plain) /\ None \in Int  BY DEF None
<1>4. NewRequest(h) \in RequestRecord
  <2> HIDE DEF None, Plain, Line, Fresh
  <2> QED  BY <1>1, <1>2, <1>3 DEF NewRequest, RequestRecord
<1> QED  BY <1>4 DEF NewRequest, Headless

(* The parser gives a request that has no head one, if the fields allow it.   *)
LEMMA DeserializedType ==
  ASSUME NEW m \in Headless
  PROVE  LET d == Deserialized(m) IN
         /\ d.ok => d.msg \in Headed
         /\ d.msg \in RequestRecord /\ Len(d.msg.body) <= MaxBody
         /\ d.msg.idx = m.idx
<1> DEFINE p == Parse(m.hb)
           i == FirstLength(p.fields)
           len == IF i = 0 \/ p.fields[i] = "CLbad" THEN None
                                                   ELSE ContentLength[p.fields[i]]
           te == i = 0 /\ Contains(p.fields, "TE")
           q == [m EXCEPT !.line = p.line, !.cl = len, !.chunked = te]
<1>1. m \in RequestRecord /\ m.line = "none" /\ m.cl = None /\ m.body = <<>>
  BY DEF Headless
<1>2. m.hb \in Seq(Plain)
  BY <1>1, RequestAssumption DEF RequestRecord
<1>3. p \in PlainParser  BY <1>2, ParseType
<1>4. Deserialized(m) = [ok |-> p.st = "DONE" /\ (i = 0 \/ p.fields[i] # "CLbad"),
                         msg |-> IF p.st # "DONE" THEN m ELSE q]
  BY DEF Deserialized
<1> HIDE DEF p
<1>5. p.fields \in Seq(PlainField) /\ (p.st = "DONE" => p.line \in Line)
  BY <1>3 DEF PlainParser, BehindLine
<1>6. te = FALSE
  <2>1. ASSUME Contains(p.fields, "TE")  PROVE FALSE
    <3>1. PICK k \in 1 .. Len(p.fields) : p.fields[k] = "TE"  BY <2>1 DEF Contains
    <3>2. p.fields[k] \in PlainField  BY <1>5, <3>1
    <3> QED  BY <3>1, <3>2 DEF PlainField
  <2> QED  BY <2>1
<1>7. len \in Int
  <2> DEFINE I == {k \in 1 .. Len(p.fields) : IsLength(p.fields[k])}
  <2>1. CASE I = {}
    <3>1. i = 0  BY <2>1 DEF FirstLength, SelectInSeq
    <3> QED  BY <3>1 DEF None
  <2>2. CASE I # {}
    <3>1. I \in SUBSET Nat  BY <1>5
    <3>2. \E k \in I : \A l \in I : k <= l
      <4> HIDE DEF I
      <4> QED  BY <2>2, <3>1, LeastElement
    <3>3. i \in I
      <4>1. i = Min(I)  BY <2>2 DEF FirstLength, SelectInSeq
      <4> QED  BY <3>2, <4>1 DEF Min
    <3>4. p.fields[i] \in {"CL0", "CL1", "CL2", "CL9", "CLbad"}
      BY <3>3 DEF IsLength, ContentLength
    <3> HIDE DEF i
    <3> QED  BY <3>4 DEF None, ContentLength
  <2> QED  BY <2>1, <2>2
<1> HIDE DEF len, te, i
<1>8. CASE p.st = "DONE"
  <2>1. /\ q \in RequestRecord /\ q.line = p.line /\ q.cl = len /\ q.body = m.body
        /\ q.idx = m.idx
    <3>1. p.line \in Line \cup {"none"}  BY <1>5, <1>8
    <3> HIDE DEF Plain, Line, Fresh
    <3>2. ASSUME NEW x \in Line \cup {"none"}, NEW y \in Int
          PROVE  LET r == [m EXCEPT !.line = x, !.cl = y, !.chunked = FALSE] IN
                 /\ r \in RequestRecord /\ r.line = x /\ r.cl = y /\ r.body = m.body
                 /\ r.idx = m.idx
      BY <1>1 DEF RequestRecord
    <3>3. q = [m EXCEPT !.line = p.line, !.cl = len, !.chunked = FALSE]  BY <1>6
    <3> HIDE DEF q
    <3> QED  BY <1>7, <3>1, <3>2, <3>3
  <2>2. Len(q.body) = 0  BY <1>1, <2>1
  <2>3. Deserialized(m).msg = q  BY <1>4, <1>8
  <2> HIDE DEF q
  <2>4. q \in Headed
    <3>1. q.line \in Line  BY <1>5, <1>8, <2>1
    <3>2. 0 <= MaxBody /\ (q.cl > 0 => 0 <= q.cl)  BY <1>7, <2>1, RequestAssumption
    <3> QED  BY <2>1, <2>2, <3>1, <3>2 DEF Headed
  <2>5. Len(q.body) <= MaxBody  BY <2>2, RequestAssumption
  <2> QED  BY <2>1, <2>3, <2>4, <2>5
<1>9. CASE p.st # "DONE"
  <2>1. Deserialized(m) = [ok |-> FALSE, msg |-> m]  BY <1>4, <1>9
  <2>2. Deserialized(m).msg = m /\ Deserialized(m).ok = FALSE  BY <2>1
  <2>3. Len(m.body) = 0  BY <1>1
  <2> QED  BY <1>1, <2>2, <2>3, RequestAssumption
<1> QED  BY <1>8, <1>9
(* Both methods report no more bytes than they are given, and leave a request *)
(* of the kind that read expects next.                                      *)
Kept == {m \in RequestRecord : Len(m.body) <= MaxBody}

LEMMA KeptRequests ==
  /\ \A m \in Headless : m \in Kept
  /\ \A m \in Headed : m \in Kept
<1>1. ASSUME NEW m \in Headless  PROVE m \in Kept
  <2>1. m \in RequestRecord /\ m.body = <<>>  BY DEF Headless
  <2>2. Len(m.body) = 0  BY <2>1
  <2> QED  BY <2>1, <2>2, RequestAssumption DEF Kept
<1> QED  BY <1>1 DEF Headed, Kept

LEMMA ConsumeHeadType ==
  ASSUME NEW m \in Headless, NEW data \in Seq(Plain)
  PROVE  LET r == ConsumeHead(m, data) IN
         /\ r.n \in 0 .. Len(data)
         /\ ~r.err => IF r.done THEN r.msg \in Headed ELSE r.msg \in Headless
         /\ r.msg \in Kept
<1> DEFINE room == HeadCap - m.idx
           most == Smaller(Len(data), room)
           part == SubSeq(data, 1, most)
           s == Scan(m, part)
           n == IF s.hit > 0 THEN s.hit ELSE most
           finished == HeadEnds(s.found)
           scanned == [m EXCEPT !.last = s.last, !.found = s.found]
           hb == [i \in 1 .. HeadCap |->
                    IF i > m.idx /\ i <= m.idx + n THEN data[i - m.idx] ELSE m.hb[i]]
           stored == [scanned EXCEPT !.hb = hb, !.idx = m.idx + n]
           d == Deserialized(stored)
           r == ConsumeHead(m, data)
<1>1. /\ m \in RequestRecord /\ m.line = "none" /\ m.cl = None /\ m.body = <<>>
      /\ m.hb \in [1 .. HeadCap -> Plain] /\ m.idx \in 0 .. HeadCap
      /\ m.last \in Plain /\ m.found \in 0 .. 255
  BY DEF Headless, RequestRecord
<1>2. /\ most \in 0 .. Len(data) /\ m.idx + most <= HeadCap /\ most \in Nat
  BY <1>1, RequestAssumption DEF Smaller
<1>3. r = IF HeadTooLong(n, room) /\ ~finished THEN Refused(scanned)
          ELSE IF finished /\ ~d.ok THEN Refused(d.msg)
          ELSE [err |-> FALSE, done |-> finished, n |-> n,
                msg |-> IF finished THEN d.msg ELSE stored]
  BY DEF ConsumeHead
<1> HIDE DEF room, most, r
<1>4. part \in Seq(Plain) /\ Len(part) = most
  BY <1>2
<1> HIDE DEF part
<1>5. s \in Scanned /\ s.hit <= most
  BY <1>1, <1>4, ScanType
<1> HIDE DEF s
<1>6. n \in 0 .. most /\ s.last \in Plain /\ s.found \in 0 .. 255
  BY <1>2, <1>5 DEF Scanned
<1> HIDE DEF n, finished
<1>7. scanned \in Headless
  <2>1. /\ scanned \in RequestRecord /\ scanned.line = m.line /\ scanned.cl = m.cl
        /\ scanned.body = m.body
    <3> HIDE DEF Plain, Line, Fresh, None
    <3> QED  BY <1>1, <1>6 DEF RequestRecord
  <2> QED  BY <1>1, <2>1 DEF Headless
<1>8. hb \in [1 .. HeadCap -> Plain]
  <2>1. ASSUME NEW i \in 1 .. HeadCap
        PROVE  (IF i > m.idx /\ i <= m.idx + n THEN data[i - m.idx] ELSE m.hb[i]) \in Plain
    <3>1. i > m.idx /\ i <= m.idx + n => i - m.idx \in 1 .. Len(data)
      BY <1>1, <1>2, <1>6
    <3>2. m.hb[i] \in Plain  BY <1>1
    <3> QED  BY <3>1, <3>2
  <2> QED  BY <2>1
<1>9. m.idx + n \in 0 .. HeadCap
  <2> HIDE DEF hb, scanned
  <2> QED  BY <1>1, <1>2, <1>6, RequestAssumption
<1> HIDE DEF hb, scanned
<1>10. stored \in Headless
  <2>1. /\ scanned \in RequestRecord /\ scanned.line = "none" /\ scanned.cl = None
        /\ scanned.body = <<>>
    BY <1>7 DEF Headless
  <2>2. /\ stored \in RequestRecord /\ stored.line = scanned.line
        /\ stored.cl = scanned.cl /\ stored.body = scanned.body
    <3> HIDE DEF Plain, Line, Fresh, None
    <3> QED  BY <1>8, <1>9, <2>1 DEF RequestRecord
  <2> QED  BY <2>1, <2>2 DEF Headless
<1> HIDE DEF stored
<1>11. (d.ok => d.msg \in Headed) /\ d.msg \in Kept
  BY <1>10, DeserializedType DEF Kept
<1> HIDE DEF d
<1>12. scanned \in Kept /\ stored \in Kept  BY <1>7, <1>10, KeptRequests
<1>13. ASSUME NEW x, x \in Kept, r = Refused(x)
       PROVE  r.n \in 0 .. Len(data) /\ r.err = TRUE /\ r.msg \in Kept
  <2>1. r = [err |-> TRUE, done |-> TRUE, n |-> 0, msg |-> x]  BY <1>13 DEF Refused
  <2> QED  BY <1>13, <2>1
<1>14. CASE HeadTooLong(n, room) /\ ~finished
  <2>1. r.n \in 0 .. Len(data) /\ r.err = TRUE /\ r.msg \in Kept
    BY <1>3, <1>12, <1>13, <1>14
  <2> QED  BY <2>1 DEF r
<1>15. CASE ~(HeadTooLong(n, room) /\ ~finished) /\ finished /\ ~d.ok
  <2>1. r.n \in 0 .. Len(data) /\ r.err = TRUE /\ r.msg \in Kept
    BY <1>3, <1>11, <1>13, <1>15
  <2> QED  BY <2>1 DEF r
<1>16. CASE ~(HeadTooLong(n, room) /\ ~finished) /\ ~(finished /\ ~d.ok)
  <2>1. r = [err |-> FALSE, done |-> finished, n |-> n,
             msg |-> IF finished THEN d.msg ELSE stored]
    BY <1>3, <1>16
  <2>2. n \in 0 .. Len(data)  BY <1>2, <1>6
  <2>3. r.n = n /\ r.msg = (IF finished THEN d.msg ELSE stored) /\ r.done = finished
    BY <2>1
  <2>4. CASE finished
    <3>1. d.ok  BY <1>16, <2>4
    <3> QED  BY <1>11, <2>2, <2>3, <2>4, <3>1 DEF r
  <2>5. CASE ~finished
    BY <1>10, <1>12, <2>2, <2>3, <2>5 DEF r
  <2> QED  BY <2>4, <2>5
<1> QED  BY <1>14, <1>15, <1>16 DEF r

LEMMA ConsumeBodyType ==
  ASSUME NEW m \in Headed, NEW data \in Seq(Plain)
  PROVE  LET r == ConsumeBody(m, data) IN
         r.n \in 0 .. Len(data) /\ r.msg \in Headed
<1> DEFINE n == BodyBytes(m, data)
           part == SubSeq(data, 1, n)
           b == [m EXCEPT !.body = m.body \o part]
           r == ConsumeBody(m, data)
<1>1. /\ m \in RequestRecord /\ m.line \in Line /\ Len(m.body) <= MaxBody
      /\ m.cl > 0 => Len(m.body) <= m.cl
  BY DEF Headed
<1>2. m.cl \in Int /\ m.body \in Seq(Plain) /\ m.chunked = FALSE
  BY <1>1 DEF RequestRecord
<1>3. CASE m.cl > 0 /\ m.cl <= MaxBody
  <2>1. n \in 0 .. Len(data) /\ Len(m.body) + n <= m.cl
    BY <1>1, <1>2, <1>3 DEF BodyBytes, Smaller
  <2>2. r = [err |-> FALSE, done |-> Len(b.body) >= m.cl, n |-> n, msg |-> b]
    <3>1. ~(m.cl > MaxBody)  BY <1>2, <1>3, RequestAssumption
    <3>2. r = SizedBody(m, data)  BY <1>3 DEF ConsumeBody
    <3> QED  BY <3>1, <3>2, Zenon DEF SizedBody
  <2> HIDE DEF n, r
  <2>3. part \in Seq(Plain) /\ Len(part) = n
    BY <2>1
  <2>4. m.body \o part \in Seq(Plain) /\ Len(m.body \o part) = Len(m.body) + n
    <3> HIDE DEF part
    <3> QED  BY <1>2, <2>3, SMTT(30)
  <2>5. b \in RequestRecord /\ b.body = m.body \o part /\ b.line = m.line /\ b.cl = m.cl
    <3> DEFINE q == m.body \o part
    <3>1. q \in Seq(Plain)  BY <2>4
    <3> HIDE DEF q, part, Plain, Line, Fresh
    <3>2. b = [m EXCEPT !.body = q]  BY DEF q
    <3>3. [m EXCEPT !.body = q] \in RequestRecord  BY <1>1, <3>1 DEF RequestRecord
    <3>4. b.body = q /\ b.line = m.line /\ b.cl = m.cl
      BY <1>1, <3>2 DEF RequestRecord
    <3> QED  BY <3>2, <3>3, <3>4 DEF q
  <2> HIDE DEF b, part
  <2>6. Len(b.body) <= MaxBody /\ Len(b.body) <= b.cl
    BY <1>2, <1>3, <2>1, <2>4, <2>5, RequestAssumption
  <2>7. b \in Headed  BY <1>1, <2>5, <2>6 DEF Headed
  <2>8. r.n = n /\ r.msg = b  BY <2>2
  <2> QED  BY <2>1, <2>7, <2>8 DEF r
<1>4. CASE m.cl > 0 /\ ~(m.cl <= MaxBody)
  <2>1. r = Refused(m)
    BY <1>2, <1>4, RequestAssumption DEF ConsumeBody, SizedBody
  <2>2. r = [err |-> TRUE, done |-> TRUE, n |-> 0, msg |-> m]  BY <2>1 DEF Refused
  <2> HIDE DEF r
  <2>3. r.n = 0 /\ r.msg = m  BY <2>2
  <2> QED  BY <2>3 DEF r
<1>5. CASE ~(m.cl > 0)
  <2>1. r = [err |-> FALSE, done |-> TRUE, n |-> 0, msg |-> m]
    BY <1>2, <1>5 DEF ConsumeBody
  <2> HIDE DEF r
  <2>2. r.n = 0 /\ r.msg = m  BY <2>1
  <2> QED  BY <2>2 DEF r
<1> QED  BY <1>3, <1>4, <1>5

-------------------------------------------------------------------------------
(* The responses of the session.                                            *)

(* What write relies on of them.                                            *)
Responses ==
  {m \in [head : Seq(Plain), body : Seq(Plain), idx : Nat, bodyIdx : Nat] :
     m.idx <= Len(m.head) /\ m.bodyIdx <= Len(m.body)}

(* What a response has not produced yet. *)
HeadToGo(m) == SubSeq(m.head, m.idx + 1, Len(m.head))
BodyToGo(m) == SubSeq(m.body, m.bodyIdx + 1, Len(m.body))

WP == INSTANCE ConnectionWriteProofs
        WITH Caller <- {me}, Msg <- Responses, NewMsg <- Responses,
             ProduceHeaderSome <- ProduceHead, ProduceBodySome <- ProduceBody,
             pc <- wpc, msg <- wmsg, ret <- wret,
             aloneSince <- [sent |-> 0, put |-> 0]

(* What produceHeaderSome and produceBodySome hand over is the next part of   *)
(* the text, as much as there is room for, and the cursor follows.           *)
LEMMA Produced ==
  ASSUME NEW m \in Responses, NEW room \in Nat
  PROVE  /\ LET r == ProduceHead(m, room)
                n == Smaller(room, Len(m.head) - m.idx)
            IN /\ n \in Nat /\ n <= room /\ m.idx + n <= Len(m.head)
               /\ r.err = FALSE /\ r.done = (m.idx + n = Len(m.head))
               /\ r.bytes = SubSeq(m.head, m.idx + 1, m.idx + n)
               /\ r.msg \in Responses
               /\ r.msg.head = m.head /\ r.msg.body = m.body
               /\ r.msg.bodyIdx = m.bodyIdx
               /\ ~r.done => r.msg.idx = m.idx + n
         /\ LET r == ProduceBody(m, room)
                n == Smaller(room, Len(m.body) - m.bodyIdx)
            IN /\ n \in Nat /\ n <= room /\ m.bodyIdx + n <= Len(m.body)
               /\ r.err = FALSE /\ r.done = (m.bodyIdx + n = Len(m.body))
               /\ r.bytes = SubSeq(m.body, m.bodyIdx + 1, m.bodyIdx + n)
               /\ r.msg \in Responses
               /\ r.msg.head = m.head /\ r.msg.body = m.body
               /\ ~r.done => r.msg.bodyIdx = m.bodyIdx + n
<1> DEFINE Fields == [head : Seq(Plain), body : Seq(Plain), idx : Nat, bodyIdx : Nat]
<1>1. /\ m \in Fields /\ m.idx <= Len(m.head) /\ m.bodyIdx <= Len(m.body)
      /\ m.head \in Seq(Plain) /\ m.body \in Seq(Plain) /\ m.idx \in Nat
      /\ m.bodyIdx \in Nat /\ Len(m.head) \in Nat /\ Len(m.body) \in Nat
  BY DEF Responses
<1>2. ASSUME NEW i \in Nat, i <= Len(m.head)
      PROVE  LET q == [m EXCEPT !.idx = i] IN
             /\ q \in Responses /\ q.head = m.head /\ q.body = m.body
             /\ q.bodyIdx = m.bodyIdx /\ q.idx = i
  <2> DEFINE q == [m EXCEPT !.idx = i]
  <2>1. q \in Fields /\ q.head = m.head /\ q.body = m.body /\ q.bodyIdx = m.bodyIdx /\ q.idx = i
    <3> HIDE DEF Plain
    <3> QED  BY <1>1
  <2> HIDE DEF q
  <2>2. q \in Responses  BY <1>1, <1>2, <2>1 DEF Responses
  <2> QED  BY <2>1, <2>2 DEF q
<1>3. ASSUME NEW i \in Nat, i <= Len(m.body)
      PROVE  LET q == [m EXCEPT !.bodyIdx = i] IN
             /\ q \in Responses /\ q.head = m.head /\ q.body = m.body /\ q.bodyIdx = i
  <2> DEFINE q == [m EXCEPT !.bodyIdx = i]
  <2>1. q \in Fields /\ q.head = m.head /\ q.body = m.body /\ q.idx = m.idx /\ q.bodyIdx = i
    <3> HIDE DEF Plain
    <3> QED  BY <1>1
  <2> HIDE DEF q
  <2>2. q \in Responses  BY <1>1, <1>3, <2>1 DEF Responses
  <2> QED  BY <2>1, <2>2 DEF q
<1>4. ASSUME NEW len \in Nat, NEW idx \in Nat, idx <= len
      PROVE  LET n == Smaller(room, len - idx)
                 i == IF idx + n = len THEN 0 ELSE idx + n
             IN n \in Nat /\ n <= room /\ idx + n <= len /\ i \in Nat /\ i <= len
  BY <1>4 DEF Smaller
<1>5. LET r == ProduceHead(m, room)
          n == Smaller(room, Len(m.head) - m.idx)
      IN /\ n \in Nat /\ n <= room /\ m.idx + n <= Len(m.head)
         /\ r.err = FALSE /\ r.done = (m.idx + n = Len(m.head))
         /\ r.bytes = SubSeq(m.head, m.idx + 1, m.idx + n)
         /\ r.msg \in Responses /\ r.msg.head = m.head /\ r.msg.body = m.body
         /\ r.msg.bodyIdx = m.bodyIdx /\ (~r.done => r.msg.idx = m.idx + n)
  <2> DEFINE n == Smaller(room, Len(m.head) - m.idx)
             end == m.idx + n = Len(m.head)
             i == IF end THEN 0 ELSE m.idx + n
             q == [m EXCEPT !.idx = i]
             part == SubSeq(m.head, m.idx + 1, m.idx + n)
  <2>1. /\ n \in Nat /\ n <= room /\ m.idx + n <= Len(m.head)
        /\ i \in Nat /\ i <= Len(m.head)
    BY <1>1, <1>4
  <2>2. ProduceHead(m, room) = [err |-> FALSE, done |-> end, bytes |-> part, msg |-> q]
    BY DEF ProduceHead
  <2>3. ~end => i = m.idx + n  OBVIOUS
  <2> HIDE DEF i, n, end, part
  <2>4. q \in Responses /\ q.head = m.head /\ q.body = m.body /\ q.bodyIdx = m.bodyIdx /\ q.idx = i
    BY <1>2, <2>1
  <2> DEFINE r == ProduceHead(m, room)
  <2> HIDE DEF q, r
  <2>5. r.err = FALSE /\ r.done = end /\ r.bytes = part /\ r.msg = q
    BY <2>2 DEF r
  <2> QED  BY <2>1, <2>3, <2>4, <2>5 DEF r, n, end, part
<1>6. LET r == ProduceBody(m, room)
          n == Smaller(room, Len(m.body) - m.bodyIdx)
      IN /\ n \in Nat /\ n <= room /\ m.bodyIdx + n <= Len(m.body)
         /\ r.err = FALSE /\ r.done = (m.bodyIdx + n = Len(m.body))
         /\ r.bytes = SubSeq(m.body, m.bodyIdx + 1, m.bodyIdx + n)
         /\ r.msg \in Responses /\ r.msg.head = m.head /\ r.msg.body = m.body
         /\ ~r.done => r.msg.bodyIdx = m.bodyIdx + n
  <2> DEFINE n == Smaller(room, Len(m.body) - m.bodyIdx)
             end == m.bodyIdx + n = Len(m.body)
             i == IF end THEN 0 ELSE m.bodyIdx + n
             q == [m EXCEPT !.bodyIdx = i]
             part == SubSeq(m.body, m.bodyIdx + 1, m.bodyIdx + n)
  <2>1. /\ n \in Nat /\ n <= room /\ m.bodyIdx + n <= Len(m.body)
        /\ i \in Nat /\ i <= Len(m.body)
    BY <1>1, <1>4
  <2>2. ProduceBody(m, room) = [err |-> FALSE, done |-> end, bytes |-> part, msg |-> q]
    BY DEF ProduceBody
  <2>3. ~end => i = m.bodyIdx + n  OBVIOUS
  <2> HIDE DEF i, n, end, part
  <2>4. q \in Responses /\ q.head = m.head /\ q.body = m.body /\ q.bodyIdx = i
    BY <1>3, <2>1
  <2> DEFINE r == ProduceBody(m, room)
  <2> HIDE DEF q, r
  <2>5. r.err = FALSE /\ r.done = end /\ r.bytes = part /\ r.msg = q
    BY <2>2 DEF r
  <2> QED  BY <2>1, <2>3, <2>4, <2>5 DEF r, n, end, part
<1> QED  BY <1>5, <1>6

(* The bytes are the next ones of the text, and "complete" comes with the     *)
(* last of them; the cursor that rewinds there is behind a part that is done. *)
LEMMA TextsProduced ==
  /\ \A m \in Responses : HeadToGo(m) \in Seq(Byte) /\ BodyToGo(m) \in Seq(Byte)
  /\ \A m \in Responses : \A k \in 0 .. Cap :
       LET h == ProduceHead(m, k)
           b == ProduceBody(m, k)
       IN /\ ~h.err => /\ BodyToGo(h.msg) = BodyToGo(m)
                       /\ HeadToGo(m) = IF h.done THEN h.bytes
                                                  ELSE h.bytes \o HeadToGo(h.msg)
          /\ ~b.err => BodyToGo(m) = IF b.done THEN b.bytes
                                               ELSE b.bytes \o BodyToGo(b.msg)
<1>1. ASSUME NEW m \in Responses
      PROVE  /\ m.head \in Seq(Plain) /\ m.body \in Seq(Plain) /\ m.idx \in Nat
             /\ m.bodyIdx \in Nat /\ m.idx <= Len(m.head) /\ m.bodyIdx <= Len(m.body)
  BY <1>1 DEF Responses
<1>2. ASSUME NEW t \in Seq(Plain), NEW i \in Nat, i <= Len(t)
      PROVE  SubSeq(t, i + 1, Len(t)) \in Seq(Byte)
  <2>1. \A j \in i + 1 .. Len(t) : j \in 1 .. Len(t)  BY <1>2
  <2>2. SubSeq(t, i + 1, Len(t)) \in Seq(Plain)
    <3> HIDE DEF Plain
    <3> QED  BY <1>2, <2>1
  <2> QED  BY <2>2, PlainAssumption
<1>3. ASSUME NEW t \in Seq(Plain), NEW i \in Nat, NEW n \in Nat, i + n <= Len(t)
      PROVE  SubSeq(t, i + 1, Len(t))
               = SubSeq(t, i + 1, i + n) \o SubSeq(t, i + n + 1, Len(t))
  BY <1>3, PartAndRest
<1>4. ASSUME NEW m \in Responses
      PROVE  HeadToGo(m) \in Seq(Byte) /\ BodyToGo(m) \in Seq(Byte)
  BY <1>1, <1>2 DEF HeadToGo, BodyToGo
<1>5. ASSUME NEW m \in Responses, NEW k \in Nat
      PROVE  LET h == ProduceHead(m, k)
             IN /\ BodyToGo(h.msg) = BodyToGo(m)
                /\ HeadToGo(m) = IF h.done THEN h.bytes
                                           ELSE h.bytes \o HeadToGo(h.msg)
  <2> DEFINE h == ProduceHead(m, k)
             n == Smaller(k, Len(m.head) - m.idx)
  <2>1. /\ n \in Nat /\ m.idx + n <= Len(m.head)
        /\ h.done = (m.idx + n = Len(m.head))
        /\ h.bytes = SubSeq(m.head, m.idx + 1, m.idx + n)
        /\ h.msg.head = m.head /\ h.msg.body = m.body /\ h.msg.bodyIdx = m.bodyIdx
        /\ ~h.done => h.msg.idx = m.idx + n
    BY Produced
  <2> HIDE DEF h, n
  <2>2. HeadToGo(m) = SubSeq(m.head, m.idx + 1, m.idx + n)
                        \o SubSeq(m.head, m.idx + n + 1, Len(m.head))
    BY <1>1, <1>3, <2>1 DEF HeadToGo
  <2>3. CASE h.done  BY <2>1, <2>3 DEF HeadToGo, BodyToGo, h
  <2>4. CASE ~h.done  BY <2>1, <2>2, <2>4 DEF HeadToGo, BodyToGo, h
  <2> QED  BY <2>3, <2>4
<1>6. ASSUME NEW m \in Responses, NEW k \in Nat
      PROVE  LET b == ProduceBody(m, k)
             IN BodyToGo(m) = IF b.done THEN b.bytes ELSE b.bytes \o BodyToGo(b.msg)
  <2> DEFINE b == ProduceBody(m, k)
             n == Smaller(k, Len(m.body) - m.bodyIdx)
  <2>1. /\ n \in Nat /\ m.bodyIdx + n <= Len(m.body)
        /\ b.done = (m.bodyIdx + n = Len(m.body))
        /\ b.bytes = SubSeq(m.body, m.bodyIdx + 1, m.bodyIdx + n)
        /\ b.msg.body = m.body
        /\ ~b.done => b.msg.bodyIdx = m.bodyIdx + n
    BY Produced
  <2> HIDE DEF b, n
  <2>2. BodyToGo(m) = SubSeq(m.body, m.bodyIdx + 1, m.bodyIdx + n)
                        \o SubSeq(m.body, m.bodyIdx + n + 1, Len(m.body))
    BY <1>1, <1>3, <2>1 DEF BodyToGo
  <2>3. CASE b.done  BY <2>1, <2>3 DEF BodyToGo, b
  <2>4. CASE ~b.done  BY <2>1, <2>2, <2>4 DEF BodyToGo, b
  <2> QED  BY <2>3, <2>4
<1>7. \A k \in 0 .. Cap : k \in Nat  BY CapAssumption
<1> QED  BY <1>4, <1>5, <1>6, <1>7

LEMMA WriterAssumptions ==
  /\ WP!CapAssumption /\ WP!ZeroAssumption /\ WP!MaxDigitsAssumption
  /\ WP!NewMsgAssumption /\ WP!ProduceContract /\ WP!TextContract
<1>1. WP!CapAssumption /\ WP!ZeroAssumption /\ WP!MaxDigitsAssumption /\ WP!NewMsgAssumption
  BY CapAssumption, ZeroAssumption, MaxDigitsAssumption
  DEF WP!CapAssumption, WP!MaxDigitsAssumption, WP!ZeroAssumption, WP!NewMsgAssumption
<1>2. ASSUME NEW m \in Responses, NEW k \in 0 .. Cap
      PROVE  /\ ProduceHead(m, k) \in WP!Production(k)
             /\ ProduceBody(m, k) \in WP!Production(k)
  <2>0. k \in Nat /\ Cap \in Nat  BY CapAssumption
  <2>1. /\ m.head \in Seq(Plain) /\ m.body \in Seq(Plain) /\ m.idx \in Nat
        /\ m.bodyIdx \in Nat
    BY DEF Responses
  <2>2. ASSUME NEW t \in Seq(Plain), NEW i \in Nat, NEW n \in Nat, n <= k, i + n <= Len(t)
        PROVE  SubSeq(t, i + 1, i + n) \in UNION {[1 .. l -> Byte] : l \in 0 .. k}
    <3>1. SubSeq(t, i + 1, i + n) \in [1 .. n -> Plain]
      <4>1. \A j \in i + 1 .. i + n : j \in 1 .. Len(t)  BY <2>2
      <4> DEFINE u == SubSeq(t, i + 1, i + n)
      <4>2. u \in Seq(Plain) /\ Len(u) = n  BY <2>2, <4>1
      <4> HIDE DEF u
      <4>3. u \in [1 .. n -> Plain]  BY <4>2
      <4> QED  BY <4>3 DEF u
    <3>2. n \in 0 .. k  BY <2>0, <2>2
    <3> QED  BY <3>1, <3>2, PlainAssumption
  <2>3. ProduceHead(m, k) \in WP!Production(k)
    <3> DEFINE r == ProduceHead(m, k)
               c == Smaller(k, Len(m.head) - m.idx)
    <3>1. r = [err |-> r.err, done |-> r.done, bytes |-> r.bytes, msg |-> r.msg]
      BY DEF ProduceHead
    <3>2. /\ r.err \in BOOLEAN /\ r.done \in BOOLEAN /\ r.msg \in Responses
          /\ r.bytes = SubSeq(m.head, m.idx + 1, m.idx + c)
      BY <2>0, Produced
    <3>3. c \in Nat /\ c <= k /\ m.idx + c <= Len(m.head)
      BY <2>0, Produced
    <3> HIDE DEF r, c
    <3>4. SubSeq(m.head, m.idx + 1, m.idx + c) \in UNION {[1 .. l -> Byte] : l \in 0 .. k}
      BY <2>1, <2>2, <3>3
    <3>5. r.bytes \in UNION {[1 .. l -> Byte] : l \in 0 .. k}  BY <3>2, <3>4
    <3> QED  BY <3>1, <3>2, <3>5 DEF WP!Production, r
  <2>4. ProduceBody(m, k) \in WP!Production(k)
    <3> DEFINE r == ProduceBody(m, k)
               c == Smaller(k, Len(m.body) - m.bodyIdx)
    <3>1. r = [err |-> r.err, done |-> r.done, bytes |-> r.bytes, msg |-> r.msg]
      BY DEF ProduceBody
    <3>2. /\ r.err \in BOOLEAN /\ r.done \in BOOLEAN /\ r.msg \in Responses
          /\ r.bytes = SubSeq(m.body, m.bodyIdx + 1, m.bodyIdx + c)
      BY <2>0, Produced
    <3>3. c \in Nat /\ c <= k /\ m.bodyIdx + c <= Len(m.body)
      BY <2>0, Produced
    <3> HIDE DEF r, c
    <3>4. SubSeq(m.body, m.bodyIdx + 1, m.bodyIdx + c) \in UNION {[1 .. l -> Byte] : l \in 0 .. k}
      BY <2>1, <2>2, <3>3
    <3>5. r.bytes \in UNION {[1 .. l -> Byte] : l \in 0 .. k}  BY <3>2, <3>4
    <3> QED  BY <3>1, <3>2, <3>5 DEF WP!Production, r
  <2> QED  BY <2>3, <2>4
<1>3. WP!TextContract  BY TextsProduced DEF WP!TextContract
<1> QED  BY <1>1, <1>2, <1>3 DEF WP!ProduceContract

LEMMA WriterInit == W!Init => WP!Init
<1> SUFFICES ASSUME W!Init  PROVE WP!Init
  OBVIOUS
<1>1. NewResponse("one") \in Responses
  <2>1. ReplyHead("one") \in Seq(Plain) /\ ReplyBody["one"] \in Seq(Plain)
    BY DEF ReplyHead, ReplyBody, Status, Plain, Token, Octet, FieldToken, ContentLength, Line
  <2> QED  BY <2>1 DEF NewResponse, Responses
<1> QED  BY <1>1 DEF W!Init, WP!Init, W!NewBuffer, WP!NewBuffer

LEMMA WriterSteps ==
  /\ W!Resumed(me) => WP!Resumed(me)
  /\ W!Completes(me) => WP!Completes(me)
  /\ W!PeerLeaves => WP!PeerLeaves
  /\ \A m : W!Call(me, m) => WP!Call(me, m)
<1>1. W!Resumed(me) => WP!Resumed(me)
  BY DEF W!Resumed, WP!Resumed, W!FillHeader, WP!FillHeader, W!FillBody, WP!FillBody,
         W!MessageFails, WP!MessageFails, W!FillEnds, WP!FillEnds, W!Flush, WP!Flush,
         W!FlushEnds, WP!FlushEnds, W!Sent, WP!Sent, W!AtBody, WP!AtBody, W!Put, WP!Put,
         W!Return, WP!Return, W!Flushed, WP!Flushed, W!BytesTaken, WP!BytesTaken,
         W!NobodyRuns, WP!NobodyRuns, W!Running, WP!Running, W!sockVars, WP!sockVars,
         W!Room, WP!Room, W!Commit, WP!Commit, W!Filled, WP!Filled, W!CopiedIn, WP!CopiedIn,
         W!IsEmpty, WP!IsEmpty, W!Size, WP!Size, W!Consume, WP!Consume,
         W!history, WP!history
<1>2. W!Completes(me) => WP!Completes(me)
  BY DEF W!Completes, WP!Completes, W!Send, WP!Send, W!SendFails, WP!SendFails,
         W!SocketFails, WP!SocketFails, W!Return, WP!Return,
         W!NobodyRuns, WP!NobodyRuns, W!Running, WP!Running, W!history, WP!history
<1>3. W!PeerLeaves => WP!PeerLeaves
  BY DEF W!PeerLeaves, WP!PeerLeaves, W!callVars, WP!callVars, W!history, WP!history
<1>4. ASSUME NEW m, W!Call(me, m)  PROVE WP!Call(me, m)
  BY <1>4 DEF W!Call, WP!Call, W!Admits, WP!Admits, W!Return, WP!Return, W!Inside, WP!Inside,
              W!NobodyRuns, WP!NobodyRuns, W!Running, WP!Running, W!sockVars, WP!sockVars,
              W!Notes, WP!Notes, W!Size, WP!Size, W!history, WP!history
<1> QED  BY <1>1, <1>2, <1>3, <1>4

-------------------------------------------------------------------------------
(* The invariant of the session.                                            *)

(* What the client has yet to send, and what of it the session has taken, is  *)
(* what a client sends.                                                     *)
ClientInv ==
  /\ script \in Script /\ sending \in 1 .. Len(script) /\ left \in Seq(Plain)

(* Inside read the request is of the kind that readState_ says, and a read    *)
(* that returned OK leaves one with a head.                                 *)
ReadInv ==
  /\ readState_ \in {"START", "READ_HEADER", "READ_BODY"}
  /\ readBuffer_ \in Buffers /\ inbox \in Seq(Byte)
  /\ rpc \in [{me} -> {"idle", "loop", "body", "await"}]
  /\ rmsg \in [{me} -> Kept]
  /\ rret \in [{me} -> {"none", "OK", "INVALID_STATE", "INVALID_MESSAGE",
                        "CONNECTION_ENDED"}]
  /\ rpc[me] # "idle" =>
       /\ at = "read" /\ readState_ # "START"
       /\ rmsg[me] \in (IF readState_ = "READ_HEADER" THEN Headless ELSE Headed)
  /\ rpc[me] = "body" => readState_ = "READ_BODY"
  /\ at = "read" /\ rpc[me] = "idle" /\ rret[me] = "OK" => rmsg[me] \in Headed

(* What of the responses is not produced yet.                               *)
Owed ==
  CASE at = "handle" -> Reply(rmsg[me].line)
    [] writeState_ = "WRITE_HEADER" ->
         SubSeq(wmsg[me].head, wmsg[me].idx + 1, Len(wmsg[me].head)) \o wmsg[me].body
    [] writeState_ = "WRITE_BODY" ->
         SubSeq(wmsg[me].body, wmsg[me].bodyIdx + 1, Len(wmsg[me].body))
    [] OTHER -> <<>>

(* Nothing of an earlier response is left to produce or to send when write is *)
(* called, and produced and owed together are the responses to all requests. *)
WriteInv ==
  /\ WP!IInv /\ ~overlapped
  /\ wpc[me] # "idle" => at = "write" /\ (doneWrite[me] <=> writeState_ = "START")
  /\ at \in {"loop", "read", "handle"} \/ (at = "write" /\ wpc[me] = "idle" /\ wret[me] = "OK")
       => writeState_ = "START" /\ IsEmpty(writeBuffer_)
  /\ writeState_ = "WRITE_HEADER" => wmsg[me].bodyIdx = 0
  /\ produced \o Owed = Replies(Len(handled))

SessionInv ==
  /\ at \in {"loop", "read", "handle", "write", "closed"}
  /\ headBuff \in [1 .. HeadCap -> Plain]
  /\ handled \in Seq([line : Line, body : Seq(Plain)])
  /\ at = "handle" => rmsg[me] \in Headed

IInv == ClientInv /\ SessionInv /\ ReadInv /\ WriteInv

-------------------------------------------------------------------------------
(* Steps of the coroutine inside read.                                      *)

LEMMA InReadKeepsRead ==
  ASSUME ReadInv, R!Resumed(me) \/ R!Completes(me), UNCHANGED at
  PROVE  ReadInv'
<1> DEFINE span == ReadableSpan(readBuffer_)
<1>1. /\ readBuffer_ \in Buffers /\ inbox \in Seq(Byte) /\ rmsg[me] \in Kept
      /\ rpc \in [{me} -> {"idle", "loop", "body", "await"}] /\ rmsg \in [{me} -> Kept]
      /\ rret \in [{me} -> {"none", "OK", "INVALID_STATE", "INVALID_MESSAGE",
                            "CONNECTION_ENDED"}]
      /\ readState_ \in {"START", "READ_HEADER", "READ_BODY"}
  BY DEF ReadInv
<1>2. span \in Seq(Plain) /\ Len(span) = Size(readBuffer_)
  BY <1>1, SpanType, PlainAssumption
<1>3. ASSUME rpc[me] # "idle"
      PROVE  at = "read" /\ at' = "read" /\ readState_ # "START"
  BY <1>3 DEF ReadInv
<1> HIDE DEF span
<1>4. CASE R!Suspend(me)
  <2>1. /\ rpc[me] = "loop" /\ rpc' = [rpc EXCEPT ![me] = "await"]
        /\ UNCHANGED <<readState_, readBuffer_, rmsg, rret, inbox>>
    BY <1>4 DEF R!Suspend, R!sockVars
  <2>2. rpc' \in [{me} -> {"idle", "loop", "body", "await"}] /\ rpc'[me] = "await"
    BY <1>1, <2>1
  <2> QED  BY <1>3, <2>1, <2>2 DEF ReadInv
<1>5. CASE R!HeaderStep(me)
  <2> DEFINE r == ConsumeHead(rmsg[me], span)
  <2>1. /\ rpc[me] = "loop" /\ readState_ = "READ_HEADER" /\ ~r.err
        /\ rmsg' = [rmsg EXCEPT ![me] = r.msg]
        /\ readBuffer_' = Consume(readBuffer_, r.n)
        /\ readState_' = IF r.done THEN "READ_BODY" ELSE "READ_HEADER"
        /\ rpc' = [rpc EXCEPT ![me] = IF r.done THEN "body" ELSE "loop"]
        /\ UNCHANGED <<rret, inbox>>
    BY <1>5 DEF R!HeaderStep, R!Take, R!HeaderDone, R!ReadableSpan, ReadableSpan, R!Size, Size,
                R!Consume, Consume, R!sockVars, span
  <2>2. rmsg[me] \in Headless  BY <2>1 DEF ReadInv
  <2>3. /\ r.n \in 0 .. Len(span) /\ r.msg \in Kept
        /\ IF r.done THEN r.msg \in Headed ELSE r.msg \in Headless
    BY <1>2, <2>1, <2>2, ConsumeHeadType
  <2> HIDE DEF r
  <2>4. readBuffer_' \in Buffers  BY <1>1, <1>2, <2>1, <2>3, ConsumeDrops
  <2>5. rmsg' \in [{me} -> Kept] /\ rmsg'[me] = r.msg  BY <1>1, <2>1, <2>3
  <2>6. /\ rpc' \in [{me} -> {"idle", "loop", "body", "await"}]
        /\ rpc'[me] = IF r.done THEN "body" ELSE "loop"
    BY <1>1, <2>1
  <2>7. CASE r.done
    BY <1>1, <1>3, <2>1, <2>3, <2>4, <2>5, <2>6, <2>7 DEF ReadInv
  <2>8. CASE ~r.done
    BY <1>1, <1>3, <2>1, <2>3, <2>4, <2>5, <2>6, <2>8 DEF ReadInv
  <2> QED  BY <2>7, <2>8
<1>6. CASE R!BodyStep(me)
  <2> DEFINE r == ConsumeBody(rmsg[me], span)
  <2>1. /\ rpc[me] # "idle" /\ readState_ = "READ_BODY"
        /\ rmsg' = [rmsg EXCEPT ![me] = r.msg]
        /\ readBuffer_' = Consume(readBuffer_, r.n)
        /\ IF r.done
           THEN /\ readState_' = "START"
                /\ rpc' = [rpc EXCEPT ![me] = "idle"] /\ rret' = [rret EXCEPT ![me] = "OK"]
           ELSE /\ rpc' = [rpc EXCEPT ![me] = "loop"] /\ UNCHANGED <<readState_, rret>>
        /\ UNCHANGED inbox
    BY <1>6 DEF R!BodyStep, R!AtBody, R!Take, R!Return, R!ReadableSpan, ReadableSpan, R!Size,
                Size, R!Consume, Consume, R!sockVars, span
  <2>2. rmsg[me] \in Headed  BY <2>1 DEF ReadInv
  <2>3. r.n \in 0 .. Len(span) /\ r.msg \in Headed /\ r.msg \in Kept
    BY <1>2, <2>2, ConsumeBodyType, KeptRequests
  <2> HIDE DEF r
  <2>4. readBuffer_' \in Buffers  BY <1>1, <1>2, <2>1, <2>3, ConsumeDrops
  <2>5. rmsg' \in [{me} -> Kept] /\ rmsg'[me] = r.msg  BY <1>1, <2>1, <2>3
  <2>6. CASE r.done
    <3>1. /\ rpc' \in [{me} -> {"idle", "loop", "body", "await"}] /\ rpc'[me] = "idle"
          /\ rret' \in [{me} -> {"none", "OK", "INVALID_STATE", "INVALID_MESSAGE",
                                 "CONNECTION_ENDED"}]
      BY <1>1, <2>1, <2>6
    <3> QED  BY <1>1, <1>3, <2>1, <2>3, <2>4, <2>5, <2>6, <3>1 DEF ReadInv
  <2>7. CASE ~r.done
    <3>1. rpc' \in [{me} -> {"idle", "loop", "body", "await"}] /\ rpc'[me] = "loop"
      BY <1>1, <2>1, <2>7
    <3> QED  BY <1>1, <1>3, <2>1, <2>3, <2>4, <2>5, <2>7, <3>1 DEF ReadInv
  <2> QED  BY <2>6, <2>7
<1>7. CASE R!MessageFails(me)
  <2>1. PICK r \in {ConsumeHead(rmsg[me], span), ConsumeBody(rmsg[me], span)} :
          /\ \/ /\ rpc[me] = "loop" /\ readState_ = "READ_HEADER"
                /\ r = ConsumeHead(rmsg[me], span)
             \/ /\ rpc[me] # "idle" /\ readState_ = "READ_BODY"
                /\ r = ConsumeBody(rmsg[me], span)
          /\ rmsg' = [rmsg EXCEPT ![me] = r.msg]
          /\ rpc' = [rpc EXCEPT ![me] = "idle"] /\ rret' = [rret EXCEPT ![me] = "INVALID_MESSAGE"]
          /\ UNCHANGED <<readState_, readBuffer_, inbox>>
    BY <1>7 DEF R!MessageFails, R!AtBody, R!Return, R!ReadableSpan, ReadableSpan, R!Size,
                Size, R!sockVars, span
  <2>2. r.msg \in Kept
    <3>1. CASE readState_ = "READ_HEADER" /\ rpc[me] # "idle" /\ r = ConsumeHead(rmsg[me], span)
      <4>1. rmsg[me] \in Headless  BY <3>1 DEF ReadInv
      <4> QED  BY <1>2, <3>1, <4>1, ConsumeHeadType
    <3>2. CASE readState_ = "READ_BODY" /\ rpc[me] # "idle" /\ r = ConsumeBody(rmsg[me], span)
      <4>1. rmsg[me] \in Headed  BY <3>2 DEF ReadInv
      <4> QED  BY <1>2, <3>2, <4>1, ConsumeBodyType, KeptRequests
    <3> QED  BY <2>1, <3>1, <3>2
  <2>3. rmsg' \in [{me} -> Kept]  BY <1>1, <2>1, <2>2
  <2>4. /\ rpc' \in [{me} -> {"idle", "loop", "body", "await"}] /\ rpc'[me] = "idle"
        /\ rret' \in [{me} -> {"none", "OK", "INVALID_STATE", "INVALID_MESSAGE",
                               "CONNECTION_ENDED"}]
        /\ rret'[me] = "INVALID_MESSAGE"
    BY <1>1, <2>1
  <2> QED  BY <1>1, <2>1, <2>3, <2>4 DEF ReadInv
<1>8. ASSUME NEW n \in 1 .. Cap, R!Receive(me, n)
      PROVE  ReadInv'
  <2> DEFINE s == SubSeq(inbox, 1, n)
  <2>1. /\ rpc[me] = "await" /\ n \in 1 .. Len(inbox) /\ n <= Room(readBuffer_)
        /\ readBuffer_' = Commit(Filled(readBuffer_, s), n)
        /\ inbox' = SubSeq(inbox, n + 1, Len(inbox))
        /\ rpc' = [rpc EXCEPT ![me] = "loop"]
        /\ UNCHANGED <<readState_, rmsg, rret>>
    BY <1>8 DEF R!Receive, R!Received, R!Room, Room, R!Commit, Commit, R!Filled, Filled,
                R!CopiedIn, CopiedIn
  <2>2. s \in Seq(Byte) /\ Len(s) = n  BY <1>1, <2>1
  <2> HIDE DEF s
  <2>3. readBuffer_' \in Buffers  BY <1>1, <2>1, <2>2, CommitAppends
  <2>4. inbox' \in Seq(Byte)  BY <1>1, <2>1
  <2>5. rpc' \in [{me} -> {"idle", "loop", "body", "await"}] /\ rpc'[me] = "loop"
    BY <1>1, <2>1
  <2>6. rmsg'[me] \in (IF readState_' = "READ_HEADER" THEN Headless ELSE Headed)
    BY <2>1 DEF ReadInv
  <2> QED  BY <1>1, <1>3, <2>1, <2>3, <2>4, <2>5, <2>6 DEF ReadInv
<1>9. CASE R!ReadFails(me)
  <2>1. /\ rpc' = [rpc EXCEPT ![me] = "idle"]
        /\ rret' = [rret EXCEPT ![me] = "CONNECTION_ENDED"]
        /\ UNCHANGED <<readState_, readBuffer_, rmsg, inbox>>
    BY <1>9 DEF R!ReadFails, R!Return, R!sockVars
  <2>2. /\ rpc' \in [{me} -> {"idle", "loop", "body", "await"}] /\ rpc'[me] = "idle"
        /\ rret' \in [{me} -> {"none", "OK", "INVALID_STATE", "INVALID_MESSAGE",
                               "CONNECTION_ENDED"}]
        /\ rret'[me] = "CONNECTION_ENDED"
    BY <1>1, <2>1
  <2> QED  BY <1>1, <2>1, <2>2 DEF ReadInv
<1> QED  BY <1>4, <1>5, <1>6, <1>7, <1>8, <1>9 DEF R!Resumed, R!Completes

-------------------------------------------------------------------------------
(* Steps of the coroutine inside write.                                     *)

(* Sequences of bytes that are cut and joined.                              *)
LEMMA Regrouped ==
  ASSUME NEW a \in Seq(Plain), NEW b \in Seq(Plain), NEW c \in Seq(Plain)
  PROVE  (a \o b) \o c = a \o (b \o c)
BY Grouped

(* A sequence and a part of the next are that sequence and all of the next.   *)
LEMMA CutMoved ==
  ASSUME NEW a \in Seq(Plain), NEW t \in Seq(Plain), NEW c \in Seq(Plain),
         NEW n \in 0 .. Len(t)
  PROVE  /\ SubSeq(t, 1, n) \in Seq(Plain) /\ SubSeq(t, n + 1, Len(t)) \in Seq(Plain)
         /\ a \o SubSeq(t, 1, n) \in Seq(Plain)
         /\ (a \o SubSeq(t, 1, n)) \o (SubSeq(t, n + 1, Len(t)) \o c) = a \o (t \o c)
<1> DEFINE x == SubSeq(t, 1, n)
           y == SubSeq(t, n + 1, Len(t))
<1>1. x \in Seq(Plain) /\ y \in Seq(Plain) /\ x \o y = t
  <2>1. 0 + n <= Len(t) /\ 0 \in Nat /\ n \in Nat  OBVIOUS
  <2>2. /\ SubSeq(t, 0 + 1, 0 + n) \in Seq(Plain)
        /\ SubSeq(t, 0 + n + 1, Len(t)) \in Seq(Plain)
        /\ SubSeq(t, 0 + 1, 0 + n) \o SubSeq(t, 0 + n + 1, Len(t)) = SubSeq(t, 0 + 1, Len(t))
    BY <2>1, PartAndRest
  <2>3. SubSeq(t, 1, Len(t)) = t  BY SubSeqFull
  <2>4. x = SubSeq(t, 0 + 1, 0 + n) /\ y = SubSeq(t, 0 + n + 1, Len(t))
        /\ SubSeq(t, 0 + 1, Len(t)) = SubSeq(t, 1, Len(t))
    OBVIOUS
  <2> HIDE DEF x, y
  <2> QED  BY <2>2, <2>3, <2>4, Zenon
<1> HIDE DEF x, y
<1>2. a \o x \in Seq(Plain) /\ y \o c \in Seq(Plain)  BY <1>1, ConcatProperties
<1>3. (a \o x) \o (y \o c) = a \o (x \o (y \o c))
  <2> DEFINE z == y \o c
  <2>1. a \in Seq(Plain) /\ x \in Seq(Plain) /\ z \in Seq(Plain)  BY <1>1, <1>2
  <2> HIDE DEF z
  <2>2. (a \o x) \o z = a \o (x \o z)  BY <2>1, Regrouped
  <2> QED  BY <2>2 DEF z
<1>4. (x \o y) \o c = x \o (y \o c)
  <2>1. x \in Seq(Plain) /\ y \in Seq(Plain) /\ c \in Seq(Plain)  BY <1>1
  <2> QED  BY <2>1, Regrouped
<1> QED  BY <1>1, <1>2, <1>3, <1>4 DEF x, y

(* Steps that produce nothing owe what was owed.                            *)
LEMMA OwedStays ==
  ASSUME UNCHANGED <<at, rmsg, writeState_, wmsg>>
  PROVE  Owed' = Owed
BY DEF Owed

LEMMA WriterFacts ==
  ASSUME WP!IInv
  PROVE  /\ wpc \in [{me} -> {"idle", "fill", "body", "flush", "send", "sent"}]
         /\ wmsg \in [{me} -> Responses] /\ doneWrite \in [{me} -> BOOLEAN]
         /\ wret \in [{me} -> {"none", "OK", "INVALID_STATE", "INVALID_MESSAGE",
                               "CONNECTION_ENDED"}]
         /\ writeBuffer_ \in Buffers /\ produced \in Seq(Plain) /\ wire \in Seq(Plain)
         /\ writeState_ \in {"START", "WRITE_HEADER", "WRITE_BODY"}
BY PlainAssumption DEF WP!IInv, WP!TypeOK, WP!Buffers, Buffers

LEMMA InWriteKeepsWrite ==
  ASSUME WriteInv, W!Resumed(me) \/ W!Completes(me), UNCHANGED <<at, handled, rmsg>>
  PROVE  WriteInv'
<1>1. WP!IInv'
  <2>1. WP!Next
    BY WriterSteps DEF WP!Next
  <2> QED  BY <2>1, WriterAssumptions, WP!NextIInv DEF WriteInv
<1>2. /\ wpc \in [{me} -> {"idle", "fill", "body", "flush", "send", "sent"}]
      /\ wmsg \in [{me} -> Responses] /\ doneWrite \in [{me} -> BOOLEAN]
      /\ wret \in [{me} -> {"none", "OK", "INVALID_STATE", "INVALID_MESSAGE",
                            "CONNECTION_ENDED"}]
      /\ writeBuffer_ \in Buffers /\ produced \in Seq(Plain)
      /\ writeState_ \in {"START", "WRITE_HEADER", "WRITE_BODY"}
  BY WriterFacts DEF WriteInv
<1>3. ~overlapped /\ produced \o Owed = Replies(Len(handled))
      /\ (writeState_ = "WRITE_HEADER" => wmsg[me].bodyIdx = 0)
  BY DEF WriteInv
<1>4. Replies(Len(handled))' = Replies(Len(handled))
  BY DEF Replies
<1>5. wpc[me] # "idle" => at' = "write" /\ at = "write" /\ (doneWrite[me] <=> writeState_ = "START")
  BY DEF WriteInv
<1> DEFINE m == wmsg[me]
           room == Room(writeBuffer_)
<1>6. m \in Responses /\ room \in Nat
  BY <1>2, SpanType
<1>7. m.head \in Seq(Plain) /\ m.body \in Seq(Plain) /\ m.idx \in Nat /\ m.bodyIdx \in Nat
  BY <1>6 DEF Responses
<1>8. ASSUME W!FillHeader(me)
      PROVE  WriteInv'
  <2> DEFINE r == ProduceHead(m, room)
             n == Smaller(room, Len(m.head) - m.idx)
  <2>1. /\ wpc[me] = "fill" /\ writeState_ = "WRITE_HEADER"
        /\ wmsg' = [wmsg EXCEPT ![me] = r.msg]
        /\ produced' = produced \o r.bytes
        /\ writeState_' = IF r.done THEN "WRITE_BODY" ELSE "WRITE_HEADER"
        /\ wpc' = [wpc EXCEPT ![me] = IF r.done THEN "body" ELSE "fill"]
        /\ UNCHANGED <<doneWrite, wret, overlapped>>
    BY <1>8 DEF W!FillHeader, W!history, W!Put, W!Room, Room
  <2>2. /\ n \in Nat /\ m.idx + n <= Len(m.head) /\ r.done = (m.idx + n = Len(m.head))
        /\ r.bytes = SubSeq(m.head, m.idx + 1, m.idx + n)
        /\ r.msg \in Responses /\ r.msg.head = m.head /\ r.msg.body = m.body
        /\ r.msg.bodyIdx = m.bodyIdx /\ (~r.done => r.msg.idx = m.idx + n)
    BY <1>6, Produced
  <2> HIDE DEF m, room, n, r
  <2>3. wmsg'[me] = r.msg /\ wpc'[me] = IF r.done THEN "body" ELSE "fill"
    BY <1>2, <2>1
  <2>4. at' = "write" /\ at = "write" /\ doneWrite'[me] # TRUE /\ ~doneWrite'[me]
    BY <1>2, <1>5, <2>1
  <2>5. Owed = SubSeq(m.head, m.idx + 1, Len(m.head)) \o m.body
    BY <2>1, <2>4 DEF Owed, m
  <2> DEFINE part == SubSeq(m.head, m.idx + 1, m.idx + n)
             rest == SubSeq(m.head, m.idx + n + 1, Len(m.head))
  <2>6. /\ part \in Seq(Plain) /\ rest \in Seq(Plain)
        /\ part \o rest = SubSeq(m.head, m.idx + 1, Len(m.head))
    BY <1>7, <2>2, PartAndRest
  <2>7. Owed' = rest \o m.body
    <3>1. CASE r.done
      <4>1. Owed' = SubSeq(m.body, m.bodyIdx + 1, Len(m.body))
        BY <2>1, <2>2, <2>3, <2>4, <3>1 DEF Owed
      <4>2. m.bodyIdx = 0  BY <1>3, <2>1 DEF m
      <4>3. SubSeq(m.body, 1, Len(m.body)) = m.body  BY <1>7, SubSeqFull
      <4>4. rest = <<>>
        <5>1. m.idx + n = Len(m.head)  BY <2>2, <3>1
        <5> QED  BY <1>7, <5>1
      <4> HIDE DEF rest
      <4> QED  BY <1>7, <4>1, <4>2, <4>3, <4>4, ConcatEmptySeq
    <3>2. CASE ~r.done
      <4>1. Owed' = SubSeq(m.head, r.msg.idx + 1, Len(m.head)) \o m.body
        BY <2>1, <2>2, <2>3, <2>4, <3>2 DEF Owed
      <4> QED  BY <2>2, <3>2, <4>1
    <3> QED  BY <3>1, <3>2
  <2> HIDE DEF part, rest
  <2>8. produced' \o Owed' = Replies(Len(handled))'
    <3>1. produced' = produced \o part  BY <2>1, <2>2 DEF part
    <3>2. (produced \o part) \o (rest \o m.body) = produced \o ((part \o rest) \o m.body)
      <4>1. /\ produced \in Seq(Plain) /\ part \in Seq(Plain) /\ rest \in Seq(Plain)
            /\ m.body \in Seq(Plain)
        BY <1>2, <1>7, <2>6
      <4> DEFINE more == rest \o m.body
      <4>2. more \in Seq(Plain)  BY <4>1, ConcatProperties
      <4>3. part \o more = (part \o rest) \o m.body
        BY <4>1, Regrouped
      <4> HIDE DEF more
      <4>4. (produced \o part) \o more = produced \o (part \o more)
        BY <4>1, <4>2, Regrouped, SMTT(30)
      <4> QED  BY <4>3, <4>4 DEF more
    <3> QED  BY <1>3, <1>4, <2>5, <2>6, <2>7, <3>1, <3>2
  <2>9. /\ wpc'[me] # "idle" /\ writeState_' # "START"
        /\ (writeState_' = "WRITE_HEADER" => wmsg'[me].bodyIdx = 0)
    BY <1>3, <2>1, <2>2, <2>3 DEF m
  <2> QED  BY <1>1, <1>3, <2>1, <2>4, <2>8, <2>9 DEF WriteInv
<1>9. ASSUME W!FillBody(me)
      PROVE  WriteInv'
  <2> DEFINE r == ProduceBody(m, room)
             n == Smaller(room, Len(m.body) - m.bodyIdx)
  <2>1. /\ wpc[me] # "idle" /\ writeState_ = "WRITE_BODY"
        /\ wmsg' = [wmsg EXCEPT ![me] = r.msg]
        /\ produced' = produced \o r.bytes
        /\ IF r.done
           THEN /\ writeState_' = "START"
                /\ doneWrite' = [doneWrite EXCEPT ![me] = TRUE]
                /\ wpc' = [wpc EXCEPT ![me] = "flush"]
           ELSE /\ wpc' = [wpc EXCEPT ![me] = "fill"]
                /\ UNCHANGED <<writeState_, doneWrite>>
        /\ UNCHANGED <<wret, overlapped>>
    BY <1>9 DEF W!FillBody, W!history, W!AtBody, W!Put, W!Room, Room
  <2>2. /\ n \in Nat /\ m.bodyIdx + n <= Len(m.body)
        /\ r.done = (m.bodyIdx + n = Len(m.body))
        /\ r.bytes = SubSeq(m.body, m.bodyIdx + 1, m.bodyIdx + n)
        /\ r.msg \in Responses /\ r.msg.head = m.head /\ r.msg.body = m.body
        /\ (~r.done => r.msg.bodyIdx = m.bodyIdx + n)
    BY <1>6, Produced
  <2> HIDE DEF m, room, n, r
  <2>3. wmsg'[me] = r.msg /\ wpc'[me] = IF r.done THEN "flush" ELSE "fill"
    BY <1>2, <2>1
  <2>4. at' = "write" /\ at = "write" /\ (doneWrite'[me] <=> writeState_' = "START")
    BY <1>2, <1>5, <2>1
  <2>5. Owed = SubSeq(m.body, m.bodyIdx + 1, Len(m.body))
    BY <2>1, <2>4 DEF Owed, m
  <2> DEFINE part == SubSeq(m.body, m.bodyIdx + 1, m.bodyIdx + n)
             rest == SubSeq(m.body, m.bodyIdx + n + 1, Len(m.body))
  <2>6. /\ part \in Seq(Plain) /\ rest \in Seq(Plain)
        /\ part \o rest = SubSeq(m.body, m.bodyIdx + 1, Len(m.body))
    BY <1>7, <2>2, PartAndRest
  <2>7. Owed' = rest
    <3>1. CASE r.done
      <4>1. Owed' = <<>>
        BY <2>1, <2>4, <3>1 DEF Owed
      <4>2. rest = <<>>
        <5>1. m.bodyIdx + n = Len(m.body)  BY <2>2, <3>1
        <5> QED  BY <1>7, <5>1
      <4> QED  BY <4>1, <4>2
    <3>2. CASE ~r.done
      <4>1. Owed' = SubSeq(m.body, r.msg.bodyIdx + 1, Len(m.body))
        BY <2>1, <2>2, <2>3, <2>4, <3>2 DEF Owed
      <4> QED  BY <2>2, <3>2, <4>1
    <3> QED  BY <3>1, <3>2
  <2> HIDE DEF part, rest
  <2>8. produced' \o Owed' = Replies(Len(handled))'
    <3>1. produced' = produced \o part  BY <2>1, <2>2 DEF part
    <3>2. (produced \o part) \o rest = produced \o (part \o rest)
      <4>1. /\ produced \in Seq(Plain) /\ part \in Seq(Plain) /\ rest \in Seq(Plain)
            /\ m.body \in Seq(Plain)
        BY <1>2, <1>7, <2>6
      <4> QED  BY <4>1, Regrouped
    <3> QED  BY <1>3, <1>4, <2>5, <2>6, <2>7, <3>1, <3>2
  <2>9. wpc'[me] # "idle" /\ writeState_' # "WRITE_HEADER"
    BY <2>1, <2>3
  <2> QED  BY <1>1, <1>3, <2>1, <2>4, <2>8, <2>9 DEF WriteInv
<1>10. ASSUME UNCHANGED <<writeState_, wmsg, produced, doneWrite, overlapped>>,
              wpc[me] # "idle",
              wpc'[me] = "idle" /\ wret'[me] = "OK" =>
                writeState_ = "START" /\ IsEmpty(writeBuffer_')
       PROVE  WriteInv'
  <2>1. Owed' = Owed  BY <1>10, OwedStays
  <2>2. produced' \o Owed' = Replies(Len(handled))'  BY <1>3, <1>4, <1>10, <2>1
  <2>3. IsEmpty(writeBuffer_)' = IsEmpty(writeBuffer_')  BY DEF IsEmpty, Size
  <2> QED  BY <1>1, <1>3, <1>5, <1>10, <2>2, <2>3 DEF WriteInv
<1>11. CASE W!MessageFails(me)
  <2>1. ProduceHead(m, room).err = FALSE /\ ProduceBody(m, room).err = FALSE
    BY <1>6, Produced
  <2> QED  BY <1>11, <2>1 DEF W!MessageFails, W!history, W!Room, Room
<1>12. CASE W!FillEnds(me)
  <2>1. wpc[me] = "fill" /\ wpc' = [wpc EXCEPT ![me] = "flush"]
        /\ UNCHANGED <<writeState_, wmsg, produced, doneWrite, overlapped>>
    BY <1>12 DEF W!FillEnds, W!history
  <2> QED  BY <1>2, <1>10, <2>1
<1>13. CASE W!Flush(me)
  <2>1. wpc[me] = "flush" /\ wpc' = [wpc EXCEPT ![me] = "send"]
        /\ UNCHANGED <<writeState_, wmsg, produced, doneWrite, overlapped>>
    BY <1>13 DEF W!Flush, W!history
  <2> QED  BY <1>2, <1>10, <2>1
<1>14. CASE W!FlushEnds(me)
  <2>1. /\ wpc[me] = "flush" /\ IsEmpty(writeBuffer_)
        /\ IF doneWrite[me]
           THEN wpc' = [wpc EXCEPT ![me] = "idle"] /\ wret' = [wret EXCEPT ![me] = "OK"]
           ELSE wpc' = [wpc EXCEPT ![me] = "fill"] /\ UNCHANGED wret
        /\ UNCHANGED <<writeState_, wmsg, produced, doneWrite, overlapped, writeBuffer_>>
    BY <1>14 DEF W!FlushEnds, W!history, W!Return, W!Flushed, W!IsEmpty, IsEmpty, W!Size, Size
  <2>2. CASE doneWrite[me]
    BY <1>5, <1>10, <2>1, <2>2
  <2>3. CASE ~doneWrite[me]
    <3>1. wpc'[me] = "fill"  BY <1>2, <2>1, <2>3
    <3> QED  BY <1>10, <2>1, <3>1
  <2> QED  BY <2>2, <2>3
<1>15. CASE W!Sent(me)
  <2>1. wpc[me] = "sent" /\ wpc' = [wpc EXCEPT ![me] = "flush"]
        /\ UNCHANGED <<writeState_, wmsg, produced, doneWrite, overlapped>>
    BY <1>15 DEF W!Sent, W!history, W!sockVars
  <2> QED  BY <1>2, <1>10, <2>1
<1>16. ASSUME NEW n \in 1 .. Cap, W!Send(me, n)
       PROVE  WriteInv'
  <2>1. wpc[me] = "send" /\ wpc' = [wpc EXCEPT ![me] = "sent"]
        /\ UNCHANGED <<writeState_, wmsg, produced, doneWrite, overlapped>>
    BY <1>16 DEF W!Send, W!history
  <2> QED  BY <1>2, <1>10, <2>1
<1>17. CASE W!SendFails(me)
  <2>1. wpc[me] = "send" /\ wret' = [wret EXCEPT ![me] = "CONNECTION_ENDED"]
        /\ UNCHANGED <<writeState_, wmsg, produced, doneWrite, overlapped>>
    BY <1>17 DEF W!SendFails, W!history, W!Return
  <2>2. wret'[me] = "CONNECTION_ENDED"  BY <1>2, <2>1
  <2> QED  BY <1>10, <2>1, <2>2
<1> QED
  BY <1>8, <1>9, <1>11, <1>12, <1>13, <1>14, <1>15, <1>16, <1>17 DEF W!Resumed, W!Completes

-------------------------------------------------------------------------------
(* What the client sends.                                                   *)

(* A request of a script, its head, and the lines of its fields. *)
Sendable == [line : Line, fields : Seq(PlainField), body : Seq(Plain)]
FieldLines(fs) == FlattenSeq([i \in 1 .. Len(fs) |-> <<fs[i], "CR", "LF">>])
RequestHead(r) == <<r.line, "CR", "LF">> \o FieldLines(r.fields) \o <<"CR", "LF">>

LEMMA PlainTokens ==
  /\ "CR" \in Plain /\ "LF" \in Plain /\ Line \subseteq Plain /\ PlainField \subseteq Plain
  /\ PlainField \subseteq FieldToken
  /\ "CR" \notin Line /\ "LF" \notin Line
  /\ "CR" \notin PlainField /\ "LF" \notin PlainField
<1>1. "CR" \in Plain /\ "LF" \in Plain  BY DEF Plain, Token, Octet
<1>2. Line \subseteq Plain  BY DEF Plain, Token, Line
<1>3. PlainField \subseteq Plain  BY DEF Plain, PlainField, Token
<1>4. PlainField \subseteq FieldToken  BY DEF PlainField
<1>5. "CR" \notin Line /\ "LF" \notin Line  BY DEF Line
<1>6. "CR" \notin PlainField /\ "LF" \notin PlainField
  BY DEF PlainField, FieldToken, ContentLength
<1> QED  BY <1>1, <1>2, <1>3, <1>4, <1>5, <1>6

LEMMA FieldLinesType ==
  ASSUME NEW fs \in Seq(PlainField)
  PROVE  FieldLines(fs) \in Seq(Plain)
<1> DEFINE q == [i \in 1 .. Len(fs) |-> <<fs[i], "CR", "LF">>]
<1>1. ASSUME NEW i \in 1 .. Len(fs)
      PROVE  <<fs[i], "CR", "LF">> \in Seq(Plain)
  <2>1. fs[i] \in Plain  BY PlainTokens
  <2> QED  BY <2>1, PlainTokens
<1>2. q \in Seq(Seq(Plain))
  <2>1. Len(fs) \in Nat  OBVIOUS
  <2> QED  BY <1>1, <2>1
<1> HIDE DEF q
<1>3. FlattenSeq(q) \in Seq(Plain)  BY <1>2, FlattenType
<1> QED  BY <1>3 DEF FieldLines, q

LEMMA OneFieldMore ==
  ASSUME NEW fs \in Seq(PlainField), NEW f \in PlainField
  PROVE  FieldLines(Append(fs, f)) = FieldLines(fs) \o <<f, "CR", "LF">>
<1> DEFINE g == Append(fs, f)
           q == [i \in 1 .. Len(fs) |-> <<fs[i], "CR", "LF">>]
           p == [i \in 1 .. Len(g) |-> <<g[i], "CR", "LF">>]
           x == <<f, "CR", "LF">>
<1>0. \A h \in PlainField : <<h, "CR", "LF">> \in Seq(Plain)
  BY PlainTokens
<1>1. q \in Seq(Seq(Plain)) /\ x \in Seq(Plain) /\ Len(q) = Len(fs)
  <2>1. \A i \in 1 .. Len(fs) : <<fs[i], "CR", "LF">> \in Seq(Plain)  BY <1>0
  <2>2. Len(fs) \in Nat  OBVIOUS
  <2> QED  BY <1>0, <2>1, <2>2
<1>2. /\ g \in Seq(PlainField) /\ Len(g) = Len(fs) + 1 /\ Len(fs) \in Nat
      /\ \A i \in 1 .. Len(fs) : g[i] = fs[i]
      /\ g[Len(fs) + 1] = f
  BY AppendProperties
<1> HIDE DEF g
<1>3. p = Append(q, x)
  <2> DEFINE a == Append(q, x)
  <2>1. /\ a \in Seq(Seq(Plain)) /\ Len(a) = Len(q) + 1
        /\ \A i \in 1 .. Len(q) : a[i] = q[i]
        /\ a[Len(q) + 1] = x
    <3> HIDE DEF q, x
    <3> QED  BY <1>1, AppendProperties
  <2>2. p \in Seq(Seq(Plain)) /\ Len(p) = Len(fs) + 1
    <3>1. \A i \in 1 .. Len(g) : <<g[i], "CR", "LF">> \in Seq(Plain)  BY <1>0, <1>2
    <3> QED  BY <1>2, <3>1
  <2>3. ASSUME NEW i \in 1 .. Len(fs) + 1
        PROVE  p[i] = a[i]
    <3>1. p[i] = <<g[i], "CR", "LF">>  BY <1>2
    <3>2. CASE i \in 1 .. Len(fs)
      <4>1. q[i] = <<fs[i], "CR", "LF">>  BY <3>2
      <4> QED  BY <1>1, <1>2, <2>1, <3>1, <3>2, <4>1
    <3>3. CASE i = Len(fs) + 1
      BY <1>1, <1>2, <2>1, <3>1, <3>3
    <3> QED  BY <1>2, <3>2, <3>3
  <2> HIDE DEF p, q, a, x
  <2>4. p = a  BY <1>1, <2>1, <2>2, <2>3, SeqEqual
  <2> QED  BY <2>4 DEF a
<1> HIDE DEF p, q, x
<1>4. FlattenSeq(p) = FlattenSeq(q) \o x  BY <1>1, <1>3, FlattenAppend
<1> QED  BY <1>4 DEF FieldLines, p, q, x, g

LEMMA RawParts ==
  ASSUME NEW r \in Sendable
  PROVE  /\ Raw(r) \in Seq(Plain)
         /\ RequestHead(r) \in Seq(Plain) /\ r.body \in Seq(Plain)
         /\ <<r.line, "CR", "LF">> \o FieldLines(r.fields) \in Seq(Plain)
         /\ r.fields \in Seq(PlainField) /\ r.line \in Line
         /\ Raw(r) = RequestHead(r) \o r.body
<1> DEFINE A == <<r.line, "CR", "LF">>
           F == FieldLines(r.fields)
           B == <<"CR", "LF">>
<1>1. r.fields \in Seq(PlainField) /\ r.line \in Line /\ r.body \in Seq(Plain)  BY DEF Sendable
<1>2. A \in Seq(Plain) /\ B \in Seq(Plain)
  <2>1. r.line \in Plain  BY <1>1, PlainTokens
  <2> QED  BY <2>1, PlainTokens
<1>3. F \in Seq(Plain)  BY <1>1, FieldLinesType
<1>4. Raw(r) = ((A \o F) \o B) \o r.body  BY DEF Raw, FieldLines
<1>5. RequestHead(r) = (A \o F) \o B  BY DEF RequestHead
<1> HIDE DEF A, F, B
<1>6. A \o F \in Seq(Plain)  BY <1>2, <1>3, ConcatProperties
<1>7. (A \o F) \o B \in Seq(Plain)  BY <1>2, <1>6, ConcatProperties
<1>8. ((A \o F) \o B) \o r.body \in Seq(Plain)  BY <1>1, <1>7, ConcatProperties
<1> QED  BY <1>1, <1>4, <1>5, <1>6, <1>7, <1>8 DEF A, F

LEMMA ScriptType ==
  ASSUME ClientInv, NEW i \in 1 .. Len(script)
  PROVE  Raw(script[i]) \in Seq(Plain)
<1>1. script \in Seq(Sendable)  BY ScriptAssumption DEF ClientInv, Sendable
<1>2. script[i] \in Sendable  BY <1>1
<1> QED  BY <1>2, RawParts

-------------------------------------------------------------------------------
(* What the session answers.                                                *)

LEMMA ReplyType ==
  ASSUME NEW l \in Line
  PROVE  /\ ReplyHead(l) \in Seq(Plain) /\ ReplyBody[l] \in Seq(Plain)
         /\ Reply(l) \in Seq(Plain)
<1>1. ReplyHead(l) \in Seq(Plain)
  <2>1. {"CR", "LF", "FLD", "200", "404"} \subseteq Plain
    BY DEF Plain, Token, Octet, FieldToken, ContentLength
  <2>2. Status[l] \in {"200", "404"}
    <3>1. Status["one"] = "200" /\ Status["three"] = "200" /\ Status["other"] = "404"
      BY DEF Status
    <3> QED  BY <3>1 DEF Line
  <2> HIDE DEF Plain
  <2> QED  BY <2>1, <2>2 DEF ReplyHead
<1>2. ReplyBody[l] \in Seq(Plain)
  <2>1. "1" \in Plain /\ "2" \in Plain
    BY DEF Plain, Token, Octet, Line, FieldToken, ContentLength
  <2>2. <<>> \in Seq(Plain) /\ <<"1">> \in Seq(Plain) /\ <<"2", "2">> \in Seq(Plain)
    BY <2>1
  <2>3. /\ ReplyBody["one"] = <<"1">> /\ ReplyBody["three"] = <<"2", "2">>
        /\ ReplyBody["other"] = <<>>
    BY DEF ReplyBody
  <2> HIDE DEF Plain, ReplyBody
  <2> QED  BY <2>2, <2>3 DEF Line
<1> QED  BY <1>1, <1>2, ConcatProperties DEF Reply

LEMMA RequestLines ==
  ASSUME NEW h \in Seq([line : Line, body : Seq(Plain)])
  PROVE  [i \in 1 .. Len(h) |-> Reply(h[i].line)] \in Seq(Seq(Plain))
<1>1. \A i \in 1 .. Len(h) : h[i].line \in Line
  <2> DEFINE E == [line : Line, body : Seq(Plain)]
  <2>1. \A e \in E : e.line \in Line  OBVIOUS
  <2>2. h \in Seq(E)  OBVIOUS
  <2> HIDE DEF E
  <2>3. \A i \in 1 .. Len(h) : h[i] \in E  BY <2>2
  <2> QED  BY <2>1, <2>3
<1>2. \A i \in 1 .. Len(h) : Reply(h[i].line) \in Seq(Plain)  BY <1>1, ReplyType
<1>3. Len(h) \in Nat  OBVIOUS
<1> QED  BY <1>2, <1>3

(* The responses to the requests of h; one request more has one response more. *)
Entry == [line : Line, body : Seq(Plain)]
RepliesTo(h) == FlattenSeq([i \in 1 .. Len(h) |-> Reply(h[i].line)])

LEMMA OneReplyMore ==
  ASSUME NEW h \in Seq(Entry), NEW r \in Entry
  PROVE  RepliesTo(Append(h, r)) = RepliesTo(h) \o Reply(r.line)
<1> DEFINE g == Append(h, r)
           q == [i \in 1 .. Len(h) |-> Reply(h[i].line)]
           p == [i \in 1 .. Len(g) |-> Reply(g[i].line)]
           x == Reply(r.line)
<1>1. q \in Seq(Seq(Plain)) /\ x \in Seq(Plain) /\ Len(q) = Len(h)
  <2>1. q \in Seq(Seq(Plain))  BY RequestLines DEF Entry
  <2>2. r.line \in Line  BY DEF Entry
  <2>3. Len(h) \in Nat  OBVIOUS
  <2>4. Len(q) = Len(h)  BY <2>3
  <2> QED  BY <2>1, <2>2, <2>4, ReplyType
<1>2. /\ g \in Seq(Entry) /\ Len(g) = Len(h) + 1 /\ Len(h) \in Nat
      /\ \A i \in 1 .. Len(h) : g[i] = h[i]
      /\ g[Len(h) + 1] = r
  BY AppendProperties
<1> HIDE DEF g
<1>3. p = Append(q, x)
  <2> DEFINE a == Append(q, x)
  <2>1. /\ a \in Seq(Seq(Plain)) /\ Len(a) = Len(q) + 1
        /\ \A i \in 1 .. Len(q) : a[i] = q[i]
        /\ a[Len(q) + 1] = x
    <3> HIDE DEF q, x
    <3> QED  BY <1>1, AppendProperties
  <2>2. p \in Seq(Seq(Plain)) /\ Len(p) = Len(h) + 1
    <3>1. p \in Seq(Seq(Plain))  BY <1>2, RequestLines DEF Entry
    <3> QED  BY <1>2, <3>1
  <2>3. ASSUME NEW i \in 1 .. Len(h) + 1
        PROVE  p[i] = a[i]
    <3>1. p[i] = Reply(g[i].line)  BY <1>2
    <3>2. CASE i \in 1 .. Len(h)
      <4>1. q[i] = Reply(h[i].line)  BY <3>2
      <4> QED  BY <1>1, <1>2, <2>1, <3>1, <3>2, <4>1
    <3>3. CASE i = Len(h) + 1
      BY <1>1, <1>2, <2>1, <3>1, <3>3
    <3> QED  BY <1>2, <3>2, <3>3
  <2> HIDE DEF p, q, a, x
  <2>4. p = a  BY <1>1, <2>1, <2>2, <2>3, SeqEqual
  <2> QED  BY <2>4 DEF a
<1> HIDE DEF p, q, x
<1>4. FlattenSeq(p) = FlattenSeq(q) \o x  BY <1>1, <1>3, FlattenAppend
<1> QED  BY <1>4 DEF RepliesTo, p, q, x, g

-------------------------------------------------------------------------------
(* The invariant is inductive.                                              *)

LEMMA WriterStutters ==
  ASSUME WP!IInv, UNCHANGED writeVars
  PROVE  WP!IInv'
<1>1. UNCHANGED WP!vars
  BY DEF writeVars, WP!vars, WP!callVars, WP!sockVars, WP!history
<1> QED  BY <1>1, WriterAssumptions, WP!NextIInv

(* Steps outside write leave its part of the invariant alone.                *)
LEMMA OutsideWrite ==
  ASSUME WriteInv, WP!IInv',
         UNCHANGED <<writeState_, writeBuffer_, wpc, wmsg, doneWrite, wret, produced, overlapped>>,
         wpc[me] # "idle" => at' = "write",
         (\/ at' \in {"loop", "read", "handle"}
          \/ at' = "write" /\ wpc[me] = "idle" /\ wret[me] = "OK")
           => writeState_ = "START" /\ IsEmpty(writeBuffer_),
         produced \o Owed' = Replies(Len(handled))'
  PROVE  WriteInv'
<1>1. IsEmpty(writeBuffer_)' = IsEmpty(writeBuffer_)  BY DEF IsEmpty, Size
<1>2. produced' \o Owed' = Replies(Len(handled))'  OBVIOUS
<1> QED  BY <1>1, <1>2 DEF WriteInv

LEMMA InitHolds == Init => IInv
<1> SUFFICES ASSUME Init  PROVE IInv
  OBVIOUS
<1>1. /\ at = "loop" /\ headBuff = rmsg[me].hb /\ handled = <<>>
      /\ script \in Script /\ sending = 1 /\ left = Raw(script[1])
      /\ readState_ = "START" /\ readBuffer_ = NewBuffer /\ rpc = [c \in {me} |-> "idle"]
      /\ rmsg \in [{me} -> FirstRequests] /\ rret = [c \in {me} |-> "none"] /\ inbox = <<>>
      /\ W!Init
  BY DEF Init, R!Init, R!NewBuffer, NewBuffer
<1>2. rmsg[me] \in Headless /\ rmsg[me].hb \in [1 .. HeadCap -> Plain]
  <2>1. PICK h \in Garbage : rmsg[me] = NewRequest(h)  BY <1>1 DEF FirstRequests
  <2>2. h \in [1 .. HeadCap -> Plain]  BY GarbageAssumption
  <2>3. NewRequest(h) \in Headless  BY <2>2, NewRequestHeadless
  <2> QED  BY <2>1, <2>3 DEF Headless, RequestRecord
<1>3. ClientInv
  <2>1. script \in Seq(Sendable) /\ script # <<>>  BY <1>1, ScriptAssumption DEF Sendable
  <2>2. 1 \in 1 .. Len(script)  BY <2>1, EmptySeq
  <2>3. script[1] \in Sendable  BY <2>1, <2>2
  <2>4. Raw(script[1]) \in Seq(Plain)  BY <2>3, RawParts
  <2> QED  BY <1>1, <2>2, <2>4 DEF ClientInv
<1>4. SessionInv
  <2>1. <<>> \in Seq([line : Line, body : Seq(Plain)])  OBVIOUS
  <2> QED  BY <1>1, <1>2, <2>1 DEF SessionInv
<1>5. ReadInv
  <2>1. rmsg[me] \in Kept  BY <1>2, KeptRequests
  <2>2. rmsg \in [{me} -> Kept]  BY <1>1, <2>1
  <2>3. inbox \in Seq(Byte)  BY <1>1
  <2> QED  BY <1>1, <2>2, <2>3, NewBufferEmpty DEF ReadInv
<1>6. WriteInv
  <2>1. WP!IInv  BY <1>1, WriterInit, WriterAssumptions, WP!InitIInv
  <2>2. /\ writeState_ = "START" /\ writeBuffer_ = NewBuffer /\ wpc[me] = "idle"
        /\ produced = <<>> /\ overlapped = FALSE
    BY <1>1 DEF W!Init, W!NewBuffer, NewBuffer
  <2>3. Owed = <<>>  BY <1>1, <2>2 DEF Owed
  <2>4. Replies(Len(handled)) = <<>>
    <3> DEFINE q == [i \in 1 .. Len(handled) |-> Reply(handled[i].line)]
    <3>1. Len(handled) = 0  BY <1>1
    <3>2. q = <<>>  BY <3>1
    <3>3. Replies(Len(handled)) = FlattenSeq(q)  BY DEF Replies
    <3> HIDE DEF q
    <3>4. Len(q) = 0  BY <3>2
    <3>5. FlattenSeq(q) = q  BY <3>4 DEF FlattenSeq
    <3> QED  BY <3>2, <3>3, <3>5
  <2>5. produced \o Owed = Replies(Len(handled))
    <3>1. <<>> \o <<>> = <<>>  OBVIOUS
    <3> QED  BY <2>2, <2>3, <2>4, <3>1
  <2> QED  BY <1>1, <2>1, <2>2, <2>5, NewBufferEmpty DEF WriteInv
<1> QED  BY <1>3, <1>4, <1>5, <1>6 DEF IInv

(* connect calls read with a request over what headBuff holds.               *)
LEMMA StartReadKeeps == IInv /\ StartRead => IInv'
<1> SUFFICES ASSUME IInv, StartRead  PROVE IInv'
  OBVIOUS
<1>1. ClientInv /\ SessionInv /\ ReadInv /\ WriteInv  BY DEF IInv
<1>2. /\ at = "loop" /\ at' = "read" /\ UNCHANGED <<headBuff, handled, readBuffer_, inbox>>
      /\ UNCHANGED clientVars /\ UNCHANGED writeVars
      /\ rmsg' = [rmsg EXCEPT ![me] = NewRequest(headBuff)]
      /\ \/ /\ readState_' = "READ_HEADER" /\ rpc' = [rpc EXCEPT ![me] = "loop"]
            /\ rret' = [rret EXCEPT ![me] = "none"]
         \/ /\ UNCHANGED readState_ /\ rpc' = [rpc EXCEPT ![me] = "idle"]
            /\ rret' = [rret EXCEPT ![me] = "INVALID_STATE"]
  BY DEF StartRead, R!Call, R!Return, R!sockVars
<1>3. NewRequest(headBuff) \in Headless /\ NewRequest(headBuff) \in Kept
  BY <1>1, NewRequestHeadless, KeptRequests DEF SessionInv
<1>4. ClientInv'  BY <1>1, <1>2 DEF ClientInv, clientVars
<1>5. SessionInv'  BY <1>1, <1>2 DEF SessionInv
<1>6. ReadInv'
  <2>1. /\ rpc \in [{me} -> {"idle", "loop", "body", "await"}] /\ rmsg \in [{me} -> Kept]
        /\ rret \in [{me} -> {"none", "OK", "INVALID_STATE", "INVALID_MESSAGE",
                              "CONNECTION_ENDED"}]
        /\ readState_ \in {"START", "READ_HEADER", "READ_BODY"}
        /\ readBuffer_' \in Buffers /\ inbox' \in Seq(Byte)
    BY <1>1, <1>2 DEF ReadInv
  <2>2. rmsg' \in [{me} -> Kept] /\ rmsg'[me] \in Headless
    <3> DEFINE x == NewRequest(headBuff)
    <3> HIDE DEF x
    <3>1. x \in Headless /\ x \in Kept  BY <1>3 DEF x
    <3>2. rmsg' = [rmsg EXCEPT ![me] = x]  BY <1>2 DEF x
    <3> QED  BY <2>1, <3>1, <3>2
  <2>3. CASE /\ readState_' = "READ_HEADER" /\ rpc' = [rpc EXCEPT ![me] = "loop"]
             /\ rret' = [rret EXCEPT ![me] = "none"]
    <3>1. /\ rpc' \in [{me} -> {"idle", "loop", "body", "await"}] /\ rpc'[me] = "loop"
          /\ rret' \in [{me} -> {"none", "OK", "INVALID_STATE", "INVALID_MESSAGE",
                                 "CONNECTION_ENDED"}]
      BY <2>1, <2>3
    <3> QED  BY <1>2, <2>1, <2>2, <2>3, <3>1 DEF ReadInv
  <2>4. CASE /\ UNCHANGED readState_ /\ rpc' = [rpc EXCEPT ![me] = "idle"]
             /\ rret' = [rret EXCEPT ![me] = "INVALID_STATE"]
    <3>1. /\ rpc' \in [{me} -> {"idle", "loop", "body", "await"}] /\ rpc'[me] = "idle"
          /\ rret' \in [{me} -> {"none", "OK", "INVALID_STATE", "INVALID_MESSAGE",
                                 "CONNECTION_ENDED"}]
          /\ rret'[me] = "INVALID_STATE"
      BY <2>1, <2>4
    <3> QED  BY <1>2, <2>1, <2>2, <2>4, <3>1 DEF ReadInv
  <2> QED  BY <1>2, <2>3, <2>4
<1>7. WriteInv'
  <2>1. WP!IInv'  BY <1>1, <1>2, WriterStutters DEF WriteInv
  <2>2. writeState_ = "START" /\ IsEmpty(writeBuffer_) /\ wpc[me] = "idle"
    BY <1>1, <1>2 DEF WriteInv
  <2>3. Owed' = Owed  BY <1>2, <2>2 DEF Owed, writeVars
  <2>4. Replies(Len(handled))' = Replies(Len(handled))  BY <1>2 DEF Replies
  <2>5. produced \o Owed' = Replies(Len(handled))'  BY <1>1, <2>3, <2>4 DEF WriteInv
  <2> QED  BY <1>1, <1>2, <2>1, <2>2, <2>5, OutsideWrite DEF writeVars
<1> QED  BY <1>4, <1>5, <1>6, <1>7 DEF IInv

(* read has returned; with a request, its response is owed from here on.     *)
LEMMA ReadReturnsKeeps == IInv /\ ReadReturns => IInv'
<1> SUFFICES ASSUME IInv, ReadReturns  PROVE IInv'
  OBVIOUS
<1>1. ClientInv /\ SessionInv /\ ReadInv /\ WriteInv  BY DEF IInv
<1> DEFINE m == rmsg[me]
           e == [line |-> m.line, body |-> m.body]
<1>2. /\ at = "read" /\ rpc[me] = "idle" /\ headBuff' = m.hb
      /\ IF rret[me] = "OK" THEN at' = "handle" /\ handled' = Append(handled, e)
                            ELSE at' = "closed" /\ UNCHANGED handled
      /\ UNCHANGED readVars /\ UNCHANGED writeVars /\ UNCHANGED clientVars
  BY DEF ReadReturns, R!Inside
<1>3. m \in RequestRecord  BY <1>1 DEF ReadInv, Kept
<1>4. m.hb \in [1 .. HeadCap -> Plain] /\ m.body \in Seq(Plain)
  BY <1>3 DEF RequestRecord
<1>5. rret[me] = "OK" => m \in Headed /\ m.line \in Line
  BY <1>1, <1>2 DEF ReadInv, Headed
<1>6. ClientInv'  BY <1>1, <1>2 DEF ClientInv, clientVars
<1>7. rmsg' = rmsg /\ UNCHANGED <<readState_, readBuffer_, inbox, rpc, rret>>
  BY <1>2 DEF readVars
<1>8. ReadInv'
  BY <1>1, <1>2, <1>7 DEF ReadInv
<1>9. WP!IInv'  BY <1>1, <1>2, WriterStutters DEF WriteInv
<1>10. /\ writeState_ = "START" /\ IsEmpty(writeBuffer_) /\ wpc[me] = "idle"
       /\ produced \o Owed = Replies(Len(handled)) /\ produced \in Seq(Plain)
  BY <1>1, <1>2, WriterFacts DEF WriteInv
<1>11. Owed = <<>>  BY <1>2, <1>10 DEF Owed
<1>12. produced = Replies(Len(handled))
  <2>1. produced \o <<>> = produced  BY <1>10, ConcatEmptySeq
  <2> QED  BY <1>10, <1>11, <2>1
<1>13. CASE rret[me] = "OK"
  <2>1. at' = "handle" /\ handled' = Append(handled, e)  BY <1>2, <1>13
  <2>2. e \in [line : Line, body : Seq(Plain)] /\ e.line = m.line
    BY <1>4, <1>5, <1>13
  <2>3. handled \in Seq([line : Line, body : Seq(Plain)])  BY <1>1 DEF SessionInv
  <2> HIDE DEF e
  <2>4. handled' \in Seq([line : Line, body : Seq(Plain)])
    <3> DEFINE E == [line : Line, body : Seq(Plain)]
    <3>1. e \in E /\ handled \in Seq(E)  BY <2>2, <2>3
    <3> HIDE DEF E
    <3>2. handled' \in Seq(E)  BY <2>1, <3>1
    <3> QED  BY <3>2 DEF E
  <2>5. SessionInv'  BY <1>2, <1>4, <1>5, <1>7, <1>13, <2>1, <2>4 DEF SessionInv
  <2>6. Replies(Len(handled))' = Replies(Len(handled)) \o Reply(m.line)
    <3>1. RepliesTo(handled') = RepliesTo(handled) \o Reply(e.line)
      <4>1. handled \in Seq(Entry) /\ e \in Entry  BY <2>2, <2>3 DEF Entry
      <4>2. RepliesTo(Append(handled, e)) = RepliesTo(handled) \o Reply(e.line)
        BY <4>1, OneReplyMore
      <4> QED  BY <2>1, <4>2
    <3>2. /\ Replies(Len(handled)) = RepliesTo(handled)
          /\ Replies(Len(handled))' = RepliesTo(handled')
      BY DEF Replies, RepliesTo
    <3> QED  BY <2>2, <3>1, <3>2
  <2>7. Owed' = Reply(m.line)
    <3>1. at' = "handle" /\ rmsg' = rmsg /\ writeState_' = "START"
      BY <1>2, <1>7, <1>10, <2>1 DEF writeVars
    <3> QED  BY <3>1 DEF Owed
  <2>8. produced \o Owed' = Replies(Len(handled))'  BY <1>12, <2>6, <2>7
  <2>9. WriteInv'  BY <1>1, <1>2, <1>9, <1>10, <2>1, <2>8, OutsideWrite DEF writeVars
  <2> QED  BY <1>6, <1>8, <2>5, <2>9 DEF IInv
<1>14. CASE rret[me] # "OK"
  <2>1. at' = "closed" /\ handled' = handled  BY <1>2, <1>14
  <2>2. SessionInv'  BY <1>1, <1>2, <1>4, <2>1 DEF SessionInv
  <2>3. Owed' = <<>>
    BY <1>2, <1>10, <2>1 DEF Owed, writeVars
  <2>4. Replies(Len(handled))' = Replies(Len(handled))  BY <2>1 DEF Replies
  <2>5. produced \o Owed' = Replies(Len(handled))'  BY <1>10, <1>11, <2>3, <2>4
  <2>6. WriteInv'  BY <1>1, <1>2, <1>9, <1>10, <2>1, <2>5, OutsideWrite DEF writeVars
  <2> QED  BY <1>6, <1>8, <2>2, <2>6 DEF IInv
<1> QED  BY <1>13, <1>14

LEMMA OwedOutside ==
  ASSUME at # "handle", at' # "handle", UNCHANGED <<writeState_, wmsg>>
  PROVE  Owed' = Owed
BY DEF Owed

(* The handler answers, and connect calls write: what was owed is the         *)
(* response that write is about to produce.                                 *)
LEMMA HandleKeeps == IInv /\ Handle => IInv'
<1> SUFFICES ASSUME IInv, Handle  PROVE IInv'
  OBVIOUS
<1> DEFINE l == rmsg[me].line
           res == NewResponse(l)
<1>1. ClientInv /\ SessionInv /\ ReadInv /\ WriteInv  BY DEF IInv
<1>2. /\ at = "handle" /\ at' = "write" /\ UNCHANGED handled
      /\ headBuff' = [i \in 1 .. HeadCap |-> IF i <= Len(res.head) THEN res.head[i]
                                                                  ELSE headBuff[i]]
      /\ W!Call(me, res)
      /\ UNCHANGED readVars /\ UNCHANGED clientVars
  BY DEF Handle
<1>3. l \in Line
  BY <1>1, <1>2 DEF SessionInv, Headed
<1> HIDE DEF l
<1>4. /\ ReplyHead(l) \in Seq(Plain) /\ ReplyBody[l] \in Seq(Plain)
      /\ Reply(l) = ReplyHead(l) \o ReplyBody[l]
  BY <1>3, ReplyType DEF Reply
<1>5. /\ res.head = ReplyHead(l) /\ res.body = ReplyBody[l] /\ res.idx = 0 /\ res.bodyIdx = 0
      /\ res \in Responses
  BY <1>4 DEF NewResponse, Responses
<1>6. headBuff' \in [1 .. HeadCap -> Plain]
  <2>1. ASSUME NEW i \in 1 .. HeadCap
        PROVE  (IF i <= Len(res.head) THEN res.head[i] ELSE headBuff[i]) \in Plain
    <3> HIDE DEF res, Plain
    <3>1. headBuff[i] \in Plain  BY <1>1 DEF SessionInv
    <3>2. i <= Len(res.head) => res.head[i] \in Plain
      BY <1>4, <1>5, RequestAssumption
    <3> QED  BY <3>1, <3>2
  <2> QED  BY <1>2, <2>1
<1> HIDE DEF res
<1>7. /\ writeState_ = "START" /\ wpc[me] = "idle" /\ IsEmpty(writeBuffer_)
      /\ produced \o Owed = Replies(Len(handled)) /\ ~overlapped
  BY <1>1, <1>2 DEF WriteInv
<1>8. /\ wmsg' = [wmsg EXCEPT ![me] = res]
      /\ doneWrite' = [doneWrite EXCEPT ![me] = FALSE]
      /\ writeState_' = "WRITE_HEADER"
      /\ wpc' = [wpc EXCEPT ![me] = "fill"]
      /\ ~overlapped'
      /\ UNCHANGED <<writeBuffer_, produced>>
  BY <1>2, <1>7 DEF W!Call, W!Admits, W!Notes, W!Inside
<1>9. wpc'[me] = "fill" /\ wmsg'[me] = res /\ doneWrite'[me] = FALSE
  <2>1. /\ wpc \in [{me} -> {"idle", "fill", "body", "flush", "send", "sent"}]
        /\ wmsg \in [{me} -> Responses] /\ doneWrite \in [{me} -> BOOLEAN]
    BY <1>1, WriterFacts DEF WriteInv
  <2> QED  BY <1>8, <2>1
<1>10. WP!IInv'
  <2>1. WP!Call(me, res)  BY <1>2, WriterSteps
  <2>2. WP!Next  BY <1>5, <2>1 DEF WP!Next
  <2>3. WP!IInv  BY <1>1 DEF WriteInv
  <2> QED  BY <2>2, <2>3, WriterAssumptions, WP!NextIInv
<1>11. ClientInv'  BY <1>1, <1>2 DEF ClientInv, clientVars
<1>12. SessionInv'  BY <1>1, <1>2, <1>6 DEF SessionInv
<1>13. ReadInv'
  <2>1. rpc[me] = "idle"  BY <1>1, <1>2 DEF ReadInv
  <2>2. UNCHANGED <<readState_, readBuffer_, rpc, rmsg, rret, inbox>>
    BY <1>2 DEF readVars
  <2> QED  BY <1>1, <1>2, <2>1, <2>2 DEF ReadInv
<1>14. Owed' = Reply(l)
  <2>1. Owed' = SubSeq(res.head, 1, Len(res.head)) \o res.body
    <3>1. Owed' = SubSeq(res.head, res.idx + 1, Len(res.head)) \o res.body
      BY <1>2, <1>8, <1>9 DEF Owed
    <3>2. res.idx + 1 = 1  BY <1>5
    <3> QED  BY <3>1, <3>2
  <2>2. SubSeq(res.head, 1, Len(res.head)) = res.head
    BY <1>4, <1>5, SubSeqFull
  <2> QED  BY <1>4, <1>5, <2>1, <2>2
<1>15. Owed = Reply(l)
  BY <1>2, <1>7 DEF Owed, l
<1>16. Replies(Len(handled))' = Replies(Len(handled))  BY <1>2 DEF Replies
<1>17. produced' \o Owed' = Replies(Len(handled))'
  BY <1>7, <1>8, <1>14, <1>15, <1>16
<1>18. WriteInv'
  BY <1>2, <1>5, <1>8, <1>9, <1>10, <1>17 DEF WriteInv
<1> QED  BY <1>11, <1>12, <1>13, <1>18 DEF IInv

(* write has returned.                                                      *)
LEMMA WriteReturnsKeeps == IInv /\ WriteReturns => IInv'
<1> SUFFICES ASSUME IInv, WriteReturns  PROVE IInv'
  OBVIOUS
<1>1. ClientInv /\ SessionInv /\ ReadInv /\ WriteInv  BY DEF IInv
<1>2. /\ at = "write" /\ wpc[me] = "idle"
      /\ at' = (IF wret[me] = "OK" THEN "loop" ELSE "closed")
      /\ UNCHANGED <<headBuff, handled>> /\ UNCHANGED readVars /\ UNCHANGED writeVars
      /\ UNCHANGED clientVars
  BY DEF WriteReturns, W!Inside
<1>3. UNCHANGED <<readState_, readBuffer_, rpc, rmsg, rret, inbox>>
  BY <1>2 DEF readVars
<1>4. ClientInv'  BY <1>1, <1>2 DEF ClientInv, clientVars
<1>5. SessionInv'  BY <1>1, <1>2 DEF SessionInv
<1>6. ReadInv'  BY <1>1, <1>2, <1>3 DEF ReadInv
<1>7. Owed' = Owed  BY <1>2, OwedOutside DEF writeVars
<1>8. Replies(Len(handled))' = Replies(Len(handled))  BY <1>2 DEF Replies
<1>9. produced \o Owed' = Replies(Len(handled))'  BY <1>1, <1>7, <1>8 DEF WriteInv
<1>10. wret[me] = "OK" => writeState_ = "START" /\ IsEmpty(writeBuffer_)
  BY <1>1, <1>2 DEF WriteInv
<1>11. WP!IInv'  BY <1>1, <1>2, WriterStutters DEF WriteInv
<1>12. WriteInv'
  <2>1. CASE wret[me] = "OK"
    BY <1>1, <1>2, <1>9, <1>10, <1>11, <2>1, OutsideWrite DEF writeVars
  <2>2. CASE wret[me] # "OK"
    BY <1>1, <1>2, <1>9, <1>11, <2>2, OutsideWrite DEF writeVars
  <2> QED  BY <2>1, <2>2
<1> QED  BY <1>4, <1>5, <1>6, <1>12 DEF IInv

LEMMA InReadKeeps == IInv /\ InRead => IInv'
<1> SUFFICES ASSUME IInv, InRead  PROVE IInv'
  OBVIOUS
<1>1. ClientInv /\ SessionInv /\ ReadInv /\ WriteInv  BY DEF IInv
<1>2. /\ R!Resumed(me) \/ R!Completes(me)
      /\ UNCHANGED <<at, headBuff, handled>> /\ UNCHANGED writeVars /\ UNCHANGED clientVars
  BY DEF InRead, sessionVars
<1>3. at = "read"
  <2>1. rpc[me] # "idle"
    BY <1>2 DEF R!Resumed, R!Completes, R!Suspend, R!HeaderStep, R!BodyStep, R!MessageFails,
                R!AtBody, R!Receive, R!ReadFails
  <2> QED  BY <1>1, <2>1 DEF ReadInv
<1>4. ClientInv'  BY <1>1, <1>2 DEF ClientInv, clientVars
<1>5. SessionInv'  BY <1>1, <1>2, <1>3 DEF SessionInv
<1>6. ReadInv'  BY <1>1, <1>2, InReadKeepsRead
<1>7. WriteInv'
  <2>1. writeState_ = "START" /\ IsEmpty(writeBuffer_) /\ wpc[me] = "idle"
    BY <1>1, <1>3 DEF WriteInv
  <2>2. Owed' = Owed  BY <1>2, <1>3, OwedOutside DEF writeVars
  <2>3. Replies(Len(handled))' = Replies(Len(handled))  BY <1>2 DEF Replies
  <2>4. produced \o Owed' = Replies(Len(handled))'  BY <1>1, <2>2, <2>3 DEF WriteInv
  <2>5. WP!IInv'  BY <1>1, <1>2, WriterStutters DEF WriteInv
  <2> QED  BY <1>1, <1>2, <2>1, <2>4, <2>5, OutsideWrite DEF writeVars
<1> QED  BY <1>4, <1>5, <1>6, <1>7 DEF IInv

LEMMA InWriteKeeps == IInv /\ InWrite => IInv'
<1> SUFFICES ASSUME IInv, InWrite  PROVE IInv'
  OBVIOUS
<1>1. ClientInv /\ SessionInv /\ ReadInv /\ WriteInv  BY DEF IInv
<1>2. /\ W!Resumed(me) \/ W!Completes(me)
      /\ UNCHANGED <<at, headBuff, handled>> /\ UNCHANGED readVars /\ UNCHANGED clientVars
  BY DEF InWrite, sessionVars
<1>3. UNCHANGED <<readState_, readBuffer_, rpc, rmsg, rret, inbox>>
  BY <1>2 DEF readVars
<1>4. ClientInv'  BY <1>1, <1>2 DEF ClientInv, clientVars
<1>5. SessionInv'  BY <1>1, <1>2, <1>3 DEF SessionInv
<1>6. ReadInv'  BY <1>1, <1>2, <1>3 DEF ReadInv
<1>7. WriteInv'  BY <1>1, <1>2, <1>3, InWriteKeepsWrite
<1> QED  BY <1>4, <1>5, <1>6, <1>7 DEF IInv

(* Steps that leave the coroutine where it is, and what it writes.           *)
LEMMA ElsewhereKeepsWrite ==
  ASSUME WriteInv, UNCHANGED <<at, handled, rmsg>>, UNCHANGED writeVars
  PROVE  WriteInv'
<1>1. Owed' = Owed  BY OwedStays DEF writeVars
<1>2. Replies(Len(handled))' = Replies(Len(handled))  BY DEF Replies
<1>3. WP!IInv'  BY WriterStutters DEF WriteInv
<1>4. IsEmpty(writeBuffer_)' = IsEmpty(writeBuffer_)  BY DEF IsEmpty, Size, writeVars
<1> QED  BY <1>1, <1>2, <1>3, <1>4 DEF WriteInv, writeVars

LEMMA ClientKeeps == IInv /\ Client => IInv'
<1> SUFFICES ASSUME IInv, Client  PROVE IInv'
  OBVIOUS
<1>1. ClientInv /\ SessionInv /\ ReadInv /\ WriteInv  BY DEF IInv
<1>2. ASSUME NEW n \in 1 .. Len(left), ClientSends(n)
      PROVE  IInv'
  <2> DEFINE s == SubSeq(left, 1, n)
             rest == SubSeq(left, n + 1, Len(left))
  <2>1. /\ inbox' = inbox \o s /\ left' = rest
        /\ UNCHANGED <<at, headBuff, handled, script, habit, sending>>
        /\ UNCHANGED writeVars
        /\ UNCHANGED <<readState_, readBuffer_, rpc, rmsg, rret>>
    BY <1>2 DEF ClientSends, R!Arrive, R!readVars, R!callVars, sessionVars
  <2>2. left \in Seq(Plain) /\ n \in Nat /\ 0 + n <= Len(left)  BY <1>1 DEF ClientInv
  <2>3. s \in Seq(Plain) /\ rest \in Seq(Plain)
    <3>1. /\ SubSeq(left, 0 + 1, 0 + n) \in Seq(Plain)
          /\ SubSeq(left, 0 + n + 1, Len(left)) \in Seq(Plain)
      BY <2>2, PartAndRest
    <3>2. 0 + 1 = 1 /\ 0 + n = n /\ 0 + n + 1 = n + 1  BY <2>2
    <3> QED  BY <3>1, <3>2
  <2> HIDE DEF s, rest
  <2>4. inbox' \in Seq(Byte)
    BY <1>1, <2>1, <2>3, PlainAssumption, ConcatProperties DEF ReadInv
  <2>5. ClientInv'  BY <1>1, <2>1, <2>3 DEF ClientInv
  <2>6. SessionInv'  BY <1>1, <2>1 DEF SessionInv
  <2>7. ReadInv'  BY <1>1, <2>1, <2>4 DEF ReadInv
  <2>8. WriteInv'  BY <1>1, <2>1, ElsewhereKeepsWrite
  <2> QED  BY <2>5, <2>6, <2>7, <2>8 DEF IInv
<1>3. CASE NextRequest
  <2>1. /\ sending < Len(script) /\ sending' = sending + 1
        /\ left' = Raw(script[sending + 1])
        /\ UNCHANGED <<at, headBuff, handled, script>>
        /\ UNCHANGED writeVars
        /\ UNCHANGED <<readState_, readBuffer_, rpc, rmsg, rret, inbox>>
    BY <1>3 DEF NextRequest, sessionVars, readVars
  <2>2. sending + 1 \in 1 .. Len(script)
    <3>1. Len(script) \in Nat /\ sending \in 1 .. Len(script)
      BY <1>1, ScriptAssumption DEF ClientInv
    <3> QED  BY <2>1, <3>1
  <2>3. left' \in Seq(Plain)  BY <1>1, <2>1, <2>2, ScriptType
  <2>4. ClientInv'  BY <1>1, <2>1, <2>2, <2>3 DEF ClientInv
  <2>5. SessionInv'  BY <1>1, <2>1 DEF SessionInv
  <2>6. ReadInv'  BY <1>1, <2>1 DEF ReadInv
  <2>7. WriteInv'  BY <1>1, <2>1, ElsewhereKeepsWrite
  <2> QED  BY <2>4, <2>5, <2>6, <2>7 DEF IInv
<1> QED  BY <1>2, <1>3 DEF Client

LEMMA ClientLeavesKeeps == IInv /\ ClientLeaves => IInv'
<1> SUFFICES ASSUME IInv, ClientLeaves  PROVE IInv'
  OBVIOUS
<1>1. ClientInv /\ SessionInv /\ ReadInv /\ WriteInv  BY DEF IInv
<1>2. /\ UNCHANGED <<at, headBuff, handled>> /\ UNCHANGED clientVars
      /\ UNCHANGED <<readState_, readBuffer_, rpc, rmsg, rret, inbox>>
      /\ W!PeerLeaves \/ UNCHANGED writeVars
  BY DEF ClientLeaves, R!PeerEnds, R!readVars, R!callVars, sessionVars
<1>3. ClientInv'  BY <1>1, <1>2 DEF ClientInv, clientVars
<1>4. SessionInv'  BY <1>1, <1>2 DEF SessionInv
<1>5. ReadInv'  BY <1>1, <1>2 DEF ReadInv
<1>6. CASE W!PeerLeaves
  <2>1. WP!IInv'
    <3>1. WP!Next  BY <1>6, WriterSteps DEF WP!Next
    <3> QED  BY <1>1, <3>1, WriterAssumptions, WP!NextIInv DEF WriteInv
  <2>2. UNCHANGED <<writeState_, writeBuffer_, wpc, wmsg, doneWrite, wret, produced, overlapped>>
    BY <1>6 DEF W!PeerLeaves, W!callVars, W!history
  <2>3. Owed' = Owed  BY <1>2, <2>2, OwedStays
  <2>4. Replies(Len(handled))' = Replies(Len(handled))  BY <1>2 DEF Replies
  <2>5. IsEmpty(writeBuffer_)' = IsEmpty(writeBuffer_)  BY <2>2 DEF IsEmpty, Size
  <2>6. WriteInv'  BY <1>1, <1>2, <2>1, <2>2, <2>3, <2>4, <2>5 DEF WriteInv
  <2> QED  BY <1>3, <1>4, <1>5, <2>6 DEF IInv
<1>7. CASE UNCHANGED writeVars
  <2>1. WriteInv'  BY <1>1, <1>2, <1>7, ElsewhereKeepsWrite
  <2> QED  BY <1>3, <1>4, <1>5, <2>1 DEF IInv
<1> QED  BY <1>2, <1>6, <1>7

LEMMA NextKeeps == IInv /\ [Next]_vars => IInv'
<1> SUFFICES ASSUME IInv, [Next]_vars  PROVE IInv'
  OBVIOUS
<1>1. CASE UNCHANGED vars
  <2>1. UNCHANGED sessionVars /\ UNCHANGED readVars /\ UNCHANGED writeVars /\ UNCHANGED clientVars
    BY <1>1 DEF vars
  <2>2. UNCHANGED <<at, handled, rmsg>>  BY <2>1 DEF sessionVars, readVars
  <2>3. WriteInv'  BY <2>1, <2>2, ElsewhereKeepsWrite DEF IInv
  <2>4. ClientInv'  BY <2>1 DEF IInv, ClientInv, clientVars
  <2>5. SessionInv'  BY <2>1 DEF IInv, SessionInv, sessionVars, readVars
  <2>6. ReadInv'  BY <2>1 DEF IInv, ReadInv, sessionVars, readVars
  <2> QED  BY <2>3, <2>4, <2>5, <2>6 DEF IInv
<1> QED
  BY <1>1, StartReadKeeps, InReadKeeps, ReadReturnsKeeps, HandleKeeps, InWriteKeeps,
     WriteReturnsKeeps, ClientKeeps, ClientLeavesKeeps
  DEF Next, Session

(* What the session has produced, and what it still owes, are the responses  *)
(* to the requests it handled, in order; and write finds nothing of an       *)
(* earlier response when it is called.                                      *)
THEOREM Invariance == Spec => []IInv
<1> QED  BY InitHolds, NextKeeps, PTL DEF Spec

(* Types: a request that connect looks at has its head inside headBuff and a  *)
(* body within the limit, whatever the client sends.                        *)
THEOREM SessionTyped == Spec => []TypeOK
<1>1. IInv => TypeOK
  <2> SUFFICES ASSUME IInv  PROVE TypeOK
    OBVIOUS
  <2>1. ClientInv /\ SessionInv /\ ReadInv  BY DEF IInv
  <2>2. Plain \subseteq Token  BY DEF Plain
  <2>3. headBuff \in [1 .. HeadCap -> Token]  BY <2>1, <2>2 DEF SessionInv
  <2>4. handled \in Seq([line : Line, body : Seq(Token)])
    <3> DEFINE E == [line : Line, body : Seq(Plain)]
               F == [line : Line, body : Seq(Token)]
    <3>1. Seq(Plain) \subseteq Seq(Token)  BY <2>2
    <3>2. E \subseteq F  BY <3>1
    <3>3. handled \in Seq(E)  BY <2>1 DEF SessionInv
    <3> HIDE DEF E, F
    <3>4. handled \in Seq(F)  BY <3>2, <3>3
    <3> QED  BY <3>4 DEF F
  <2>5. rmsg[me].idx \in 0 .. HeadCap /\ Len(rmsg[me].body) <= MaxBody
    <3>1. rmsg[me] \in Kept  BY <2>1 DEF ReadInv
    <3> QED  BY <3>1 DEF Kept, RequestRecord
  <2>6. sending \in 1 .. Len(script)  BY <2>1 DEF ClientInv
  <2> QED  BY <2>1, <2>3, <2>4, <2>5, <2>6 DEF TypeOK, SessionInv
<1> QED  BY <1>1, Invariance, PTL

(* The client gets the responses to the handled requests, in their order,     *)
(* nothing in between, and has all of them before the next request is read.   *)
THEOREM RepliesArriveInOrder == Spec => []RepliesInOrder
<1>1. IInv => RepliesInOrder
  <2> SUFFICES ASSUME IInv  PROVE RepliesInOrder
    OBVIOUS
  <2> DEFINE span == ReadableSpan(writeBuffer_)
             all == Replies(Len(handled))
  <2>1. WriteInv /\ SessionInv /\ ReadInv  BY DEF IInv
  <2>2. /\ writeBuffer_ \in Buffers /\ produced \in Seq(Plain) /\ wire \in Seq(Plain)
        /\ wmsg \in [{me} -> Responses]
    BY <2>1, WriterFacts DEF WriteInv
  <2>3. span \in Seq(Plain) /\ Len(span) = Size(writeBuffer_) /\ Size(writeBuffer_) \in Nat
    BY <2>2, SpanType, PlainAssumption
  <2>4. WP!ReadableSpan(writeBuffer_) = span /\ WP!Size(writeBuffer_) = Size(writeBuffer_)
    BY DEF WP!ReadableSpan, ReadableSpan, WP!Size, Size
  <2>5. \E rest \in Seq(Plain) : /\ produced = wire \o rest
                                 /\ wpc[me] = "idle" => rest = span
    <3>1. WP!WireInOrder /\ WP!SpanCurrent /\ ~overlapped  BY <2>1 DEF WriteInv, WP!IInv
    <3>a. WP!Made = produced /\ WP!Got = wire
      <4>1. SubSeq(produced, 1, Len(produced)) = produced /\ SubSeq(wire, 1, Len(wire)) = wire
        BY <2>2, SubSeqFull
      <4> QED  BY <4>1 DEF WP!Made, WP!Got
    <3>2. CASE wpc[me] # "sent"
      <4>1. produced = wire \o span  BY <2>4, <3>1, <3>a, <3>2 DEF WP!WireInOrder
      <4> QED  BY <2>3, <4>1
    <3>3. CASE wpc[me] = "sent"
      <4> DEFINE k == op[me].n
                 rest == SubSeq(span, k + 1, Len(span))
      <4>1. produced = wire \o rest
        BY <2>4, <3>1, <3>a, <3>3 DEF WP!WireInOrder
      <4>2. k \in 1 .. Len(span)
        BY <2>3, <2>4, <3>1, <3>3 DEF WP!SpanCurrent
      <4> HIDE DEF k, span
      <4>3. rest \in Seq(Plain)
        <5>1. \A j \in k + 1 .. Len(span) : j \in 1 .. Len(span)  BY <4>2
        <5> QED  BY <2>3, <4>2, <5>1
      <4> QED  BY <3>3, <4>1, <4>3
    <3> QED  BY <3>2, <3>3
  <2>6. PICK rest \in Seq(Plain) : produced = wire \o rest /\ (wpc[me] = "idle" => rest = span)
    BY <2>5
  <2> HIDE DEF span, all
  <2>7. Owed \in Seq(Plain)
    <3>1. CASE at = "handle"
      <4>1. writeState_ = "START" /\ rmsg[me].line \in Line
        BY <2>1, <3>1 DEF WriteInv, SessionInv, Headed
      <4>2. Owed = Reply(rmsg[me].line)  BY <3>1, <4>1 DEF Owed
      <4> QED  BY <4>1, <4>2, ReplyType
    <3>2. CASE at # "handle"
      <4> DEFINE m == wmsg[me]
      <4>1. m \in Responses  BY <2>2
      <4>2. /\ m.head \in Seq(Plain) /\ m.body \in Seq(Plain) /\ m.idx \in Nat
            /\ m.bodyIdx \in Nat
        BY <4>1 DEF Responses
      <4>3. m.idx + 0 <= Len(m.head) /\ m.bodyIdx + 0 <= Len(m.body)
        BY <4>1, <4>2 DEF Responses
      <4> HIDE DEF m
      <4>4. SubSeq(m.head, m.idx + 1, Len(m.head)) \in Seq(Plain)
        BY <4>2, <4>3, PartAndRest
      <4>5. SubSeq(m.body, m.bodyIdx + 1, Len(m.body)) \in Seq(Plain)
        BY <4>2, <4>3, PartAndRest
      <4>6. SubSeq(m.head, m.idx + 1, Len(m.head)) \o m.body \in Seq(Plain)
        BY <4>2, <4>4, ConcatProperties
      <4>7. Owed = IF writeState_ = "WRITE_HEADER"
                   THEN SubSeq(m.head, m.idx + 1, Len(m.head)) \o m.body
                   ELSE IF writeState_ = "WRITE_BODY"
                        THEN SubSeq(m.body, m.bodyIdx + 1, Len(m.body)) ELSE <<>>
        BY <3>2 DEF Owed, m
      <4>8. <<>> \in Seq(Plain)  OBVIOUS
      <4> QED  BY <4>5, <4>6, <4>7, <4>8, Zenon
    <3> QED  BY <3>1, <3>2
  <2>8. all = wire \o (rest \o Owed)
    <3>1. all = produced \o Owed  BY <2>1 DEF WriteInv, all
    <3>2. (wire \o rest) \o Owed = wire \o (rest \o Owed)
      BY <2>2, <2>6, <2>7, Regrouped
    <3> QED  BY <2>6, <3>1, <3>2
  <2>9. IsPrefix(wire, all)
    <3>1. rest \o Owed \in Seq(Plain)  BY <2>6, <2>7, ConcatProperties
    <3> QED  BY <2>2, <2>8, <3>1, PartIsPrefix
  <2>10. ASSUME at \in {"loop", "read"}
         PROVE  wire = all
    <3>1. writeState_ = "START" /\ IsEmpty(writeBuffer_) /\ wpc[me] = "idle"
      BY <2>1, <2>10 DEF WriteInv
    <3>2. Owed = <<>>  BY <2>10, <3>1 DEF Owed
    <3>3. rest = <<>>
      <4>1. Len(rest) = 0  BY <2>3, <2>6, <3>1 DEF IsEmpty
      <4> QED  BY <2>6, <4>1, EmptySeq
    <3>4. wire \o (<<>> \o <<>>) = wire
      BY <2>2, ConcatEmptySeq, EmptySeq
    <3> QED  BY <2>8, <3>2, <3>3, <3>4
  <2> QED  BY <2>9, <2>10 DEF RepliesInOrder, all
<1> QED  BY <1>1, Invariance, PTL

-------------------------------------------------------------------------------
(* What the parser makes of a head that a client sent.                      *)

(* Two tokens, and three, of which the last two end a line. *)
LEMMA ParseLineEnd ==
  ASSUME NEW s \in Seq(Plain)
  PROVE  /\ Parse(s \o <<"CR", "LF">>) = ParseToken(ParseToken(Parse(s), "CR"), "LF")
         /\ Len(s \o <<"CR", "LF">>) = Len(s) + 2
<1>1. Append(s, "CR") \in Seq(Plain)  BY PlainTokens
<1>2. Append(Append(s, "CR"), "LF") = s \o <<"CR", "LF">>  OBVIOUS
<1>3. Parse(Append(s, "CR")) = ParseToken(Parse(s), "CR")
  BY PlainTokens, ParseAppend
<1>4. Parse(Append(Append(s, "CR"), "LF")) = ParseToken(Parse(Append(s, "CR")), "LF")
  BY <1>1, PlainTokens, ParseAppend
<1>5. Len(s \o <<"CR", "LF">>) = Len(s) + 2  OBVIOUS
<1> QED  BY <1>2, <1>3, <1>4, <1>5

LEMMA ParseLine ==
  ASSUME NEW s \in Seq(Plain), NEW b \in Plain
  PROVE  /\ Parse(s \o <<b, "CR", "LF">>)
              = ParseToken(ParseToken(ParseToken(Parse(s), b), "CR"), "LF")
         /\ Len(s \o <<b, "CR", "LF">>) = Len(s) + 3
<1> DEFINE u == Append(s, b)
<1>1. u \in Seq(Plain) /\ Len(u) = Len(s) + 1 /\ Len(s) \in Nat
  BY AppendProperties
<1>2. u \o <<"CR", "LF">> = s \o <<b, "CR", "LF">>  OBVIOUS
<1>3. Parse(u) = ParseToken(Parse(s), b)  BY ParseAppend
<1> HIDE DEF u
<1>4. /\ Parse(u \o <<"CR", "LF">>) = ParseToken(ParseToken(Parse(u), "CR"), "LF")
      /\ Len(u \o <<"CR", "LF">>) = Len(u) + 2
  BY <1>1, ParseLineEnd
<1>5. Len(u) + 2 = Len(s) + 3  BY <1>1
<1> QED  BY <1>2, <1>3, <1>4, <1>5

At(st, line, fields, used) == [st |-> st, line |-> line, fields |-> fields, used |-> used]

(* What the parser does with the tokens of a well-formed line. *)
LEMMA TokensParsed ==
  ASSUME NEW line \in Line, NEW fs \in Seq(PlainField), NEW u \in Nat
  PROVE  /\ ParseToken(ParserStart, line) = At("LINE_END", line, <<>>, 1)
         /\ ParseToken(At("LINE_END", line, fs, u), "CR") = At("LINE_LF", line, fs, u + 1)
         /\ ParseToken(At("LINE_LF", line, fs, u), "LF") = At("FIELDS", line, fs, u + 1)
         /\ \A f \in PlainField :
              ParseToken(At("FIELDS", line, fs, u), f) =
                (IF Len(fs) < MaxHeaders THEN At("FIELD_END", line, Append(fs, f), u + 1)
                                         ELSE At("ERROR", line, fs, u + 1))
         /\ ParseToken(At("FIELD_END", line, fs, u), "CR") = At("FIELD_LF", line, fs, u + 1)
         /\ ParseToken(At("FIELD_LF", line, fs, u), "LF") = At("FIELDS", line, fs, u + 1)
         /\ ParseToken(At("FIELDS", line, fs, u), "CR") = At("END_LF", line, fs, u + 1)
         /\ ParseToken(At("END_LF", line, fs, u), "LF") = At("DONE", line, fs, u + 1)
<1>0. /\ line \notin {"CR", "LF"}
      /\ \A f \in PlainField : f \notin {"CR", "LF"} /\ f \in FieldToken
      /\ "CR" \notin FieldToken
  BY PlainTokens DEF FieldToken, ContentLength
<1>1. ASSUME NEW st, NEW x  PROVE To(At(x, line, fs, u), st) = At(st, line, fs, u)
  BY DEF To, At
<1>2. ASSUME NEW st
      PROVE  /\ [At(st, line, fs, u) EXCEPT !.used = At(st, line, fs, u).used + 1]
                  = At(st, line, fs, u + 1)
             /\ At(st, line, fs, u).st = st /\ At(st, line, fs, u).fields = fs
  BY DEF At
<1>3. ParseToken(ParserStart, line) = At("LINE_END", line, <<>>, 1)
  <2>1. ParserStart.st = "START" /\ ~Decided(ParserStart)  BY DEF ParserStart, Decided
  <2>2. ParseToken(ParserStart, line)
          = AtLine([ParserStart EXCEPT !.used = ParserStart.used + 1], line)
    BY <1>0, <2>1 DEF ParseToken
  <2>3. [ParserStart EXCEPT !.used = ParserStart.used + 1] = At("START", "none", <<>>, 1)
    BY DEF ParserStart, At
  <2>4. AtLine(At("START", "none", <<>>, 1), line)
          = [[At("START", "none", <<>>, 1) EXCEPT !.st = "LINE_END"] EXCEPT !.line = line]
    BY DEF AtLine, To
  <2> QED  BY <2>2, <2>3, <2>4 DEF At
<1>4. ASSUME NEW st \in {"LINE_END", "LINE_LF", "FIELDS", "FIELD_END", "FIELD_LF", "END_LF"},
             NEW b
      PROVE  LET n == At(st, line, fs, u + 1) IN
             ParseToken(At(st, line, fs, u), b) =
               (CASE st = "LINE_END" -> Eol(n, b, "LINE_LF", "FIELDS")
                  [] st = "LINE_LF" -> Expect_(n, b, "FIELDS")
                  [] st = "FIELDS" -> AtField(n, b)
                  [] st = "FIELD_END" -> Eol(n, b, "FIELD_LF", "FIELDS")
                  [] st = "FIELD_LF" -> Expect_(n, b, "FIELDS")
                  [] st = "END_LF" -> Expect_(n, b, "DONE"))
  BY <1>2 DEF ParseToken, Decided
<1>5. ASSUME NEW lf, NEW next
      PROVE  Eol(At(lf, line, fs, u + 1), "CR", next, "FIELDS") = At(next, line, fs, u + 1)
  BY DEF Eol, To, At
<1>6. ASSUME NEW st, NEW next
      PROVE  Expect_(At(st, line, fs, u + 1), "LF", next) = At(next, line, fs, u + 1)
  BY DEF Expect_, To, At
<1>7. ParseToken(At("LINE_END", line, fs, u), "CR") = At("LINE_LF", line, fs, u + 1)
  BY <1>4, <1>5
<1>8. ParseToken(At("FIELD_END", line, fs, u), "CR") = At("FIELD_LF", line, fs, u + 1)
  BY <1>4, <1>5
<1>9. /\ ParseToken(At("LINE_LF", line, fs, u), "LF") = At("FIELDS", line, fs, u + 1)
      /\ ParseToken(At("FIELD_LF", line, fs, u), "LF") = At("FIELDS", line, fs, u + 1)
      /\ ParseToken(At("END_LF", line, fs, u), "LF") = At("DONE", line, fs, u + 1)
  BY <1>4, <1>6
<1> DEFINE n == At("FIELDS", line, fs, u + 1)
<1>10. ASSUME NEW b  PROVE ParseToken(At("FIELDS", line, fs, u), b) = AtField(n, b)
  BY <1>4
<1>11. AtField(n, "CR") = At("END_LF", line, fs, u + 1)
  BY <1>0 DEF AtField, Eol, To, At
<1>12. ASSUME NEW f \in PlainField
       PROVE  AtField(n, f) = (IF Len(fs) < MaxHeaders
                               THEN At("FIELD_END", line, Append(fs, f), u + 1)
                               ELSE At("ERROR", line, fs, u + 1))
  <2>1. CASE Len(fs) < MaxHeaders
    <3>1. AtField(n, f) = [To(n, "FIELD_END") EXCEPT !.fields = Append(n.fields, f)]
      BY <1>0, <2>1 DEF AtField, At
    <3> QED  BY <2>1, <3>1 DEF To, At
  <2>2. CASE ~(Len(fs) < MaxHeaders)
    <3>1. AtField(n, f) = Eol(n, f, "END_LF", "DONE")
      BY <1>0, <2>2 DEF AtField, At
    <3>2. Eol(n, f, "END_LF", "DONE") = To(n, "ERROR")  BY <1>0 DEF Eol
    <3> QED  BY <2>2, <3>1, <3>2 DEF To, At
  <2> QED  BY <2>1, <2>2
<1> QED  BY <1>3, <1>7, <1>8, <1>9, <1>10, <1>11, <1>12

(* Too many fields are refused; others are remembered. *)
LEMMA FieldsParsed ==
  ASSUME NEW line \in Line, NEW fs \in Seq(PlainField)
  PROVE  LET s == <<line, "CR", "LF">> \o FieldLines(fs) IN
         /\ s \in Seq(Plain)
         /\ Parse(s).st = "ERROR" \/ Parse(s) = At("FIELDS", line, fs, Len(s))
<1> DEFINE S(x) == <<line, "CR", "LF">> \o FieldLines(x)
           Good(x) == Parse(S(x)).st = "ERROR" \/ Parse(S(x)) = At("FIELDS", line, x, Len(S(x)))
           T == {n \in Nat : \A x \in Seq(PlainField) : Len(x) = n => Good(x)}
<1>1. ASSUME NEW x \in Seq(PlainField)
      PROVE  S(x) \in Seq(Plain)
  <2>1. line \in Plain  BY PlainTokens
  <2>2. <<line, "CR", "LF">> \in Seq(Plain)  BY <2>1, PlainTokens
  <2>3. FieldLines(x) \in Seq(Plain)  BY FieldLinesType
  <2> QED  BY <2>2, <2>3, ConcatProperties
<1>2. 0 \in T
  <2> SUFFICES ASSUME NEW x \in Seq(PlainField), Len(x) = 0
               PROVE  Good(x)
    OBVIOUS
  <2>1. x = <<>>  BY EmptySeq
  <2>2. FieldLines(x) = <<>>
    <3> DEFINE q == [i \in 1 .. Len(x) |-> <<x[i], "CR", "LF">>]
    <3>1. q = <<>>  OBVIOUS
    <3>2. FieldLines(x) = FlattenSeq(q)  BY DEF FieldLines
    <3> HIDE DEF q
    <3>3. FlattenSeq(q) = q  BY <3>1 DEF FlattenSeq
    <3> QED  BY <3>1, <3>2, <3>3
  <2>3. S(x) = <<>> \o <<line, "CR", "LF">> /\ Len(S(x)) = 3
    BY <2>2
  <2>4. Parse(S(x)) = ParseToken(ParseToken(ParseToken(ParserStart, line), "CR"), "LF")
    <3>1. <<>> \in Seq(Plain) /\ line \in Plain  BY PlainTokens
    <3> QED  BY <2>3, <3>1, ParseLine, ParseNothing
  <2>5. <<>> \in Seq(PlainField)  OBVIOUS
  <2> HIDE DEF S, T
  <2>6. 1 \in Nat /\ 1 + 1 \in Nat  OBVIOUS
  <2>7. ParseToken(ParserStart, line) = At("LINE_END", line, <<>>, 1)
    BY <2>5, <2>6, TokensParsed
  <2>8. ParseToken(At("LINE_END", line, <<>>, 1), "CR") = At("LINE_LF", line, <<>>, 1 + 1)
    BY <2>5, <2>6, TokensParsed
  <2>9. ParseToken(At("LINE_LF", line, <<>>, 1 + 1), "LF") = At("FIELDS", line, <<>>, (1 + 1) + 1)
    BY <2>5, <2>6, TokensParsed
  <2>10. (1 + 1) + 1 = 3  OBVIOUS
  <2> QED  BY <2>1, <2>3, <2>4, <2>7, <2>8, <2>9, <2>10
<1>3. ASSUME NEW n \in Nat, n \in T
      PROVE  n + 1 \in T
  <2> HIDE DEF Good
  <2> SUFFICES ASSUME NEW x \in Seq(PlainField), Len(x) = n + 1
               PROVE  Good(x)
    <3>1. n + 1 \in Nat  OBVIOUS
    <3> QED  BY <3>1
  <2> DEFINE y == SubSeq(x, 1, n)
             f == x[n + 1]
             p == Parse(S(y))
  <2>1. y \in Seq(PlainField) /\ Len(y) = n /\ f \in PlainField /\ x = Append(y, f)
    <3>1. SubSeq(x, 1, n + 1) = x  BY SubSeqFull
    <3>2. n + 1 <= Len(x)  OBVIOUS
    <3>3. /\ SubSeq(x, 1, n) \in Seq(PlainField) /\ Len(SubSeq(x, 1, n)) = n
          /\ x[n + 1] \in PlainField
          /\ SubSeq(x, 1, n + 1) = Append(SubSeq(x, 1, n), x[n + 1])
      BY <3>2, OneMore
    <3> QED  BY <3>1, <3>3
  <2>2. Good(y)  BY <1>3, <2>1
  <2>3. S(y) \in Seq(Plain)  BY <1>1, <2>1
  <2>4. S(x) = S(y) \o <<f, "CR", "LF">>
    <3> DEFINE A == <<line, "CR", "LF">>
               B == <<f, "CR", "LF">>
               F == FieldLines(y)
    <3>1. FieldLines(x) = F \o B  BY <2>1, OneFieldMore
    <3>2. A \in Seq(Plain) /\ B \in Seq(Plain)  BY <2>1, PlainTokens
    <3>3. F \in Seq(Plain)  BY <2>1, FieldLinesType
    <3> HIDE DEF A, B, F
    <3>4. A \in Seq(Plain) /\ F \in Seq(Plain) /\ B \in Seq(Plain)  BY <3>2, <3>3
    <3>5. A \o (F \o B) = (A \o F) \o B  BY <3>4, ConcatAssociative
    <3> QED  BY <3>1, <3>5 DEF A, B, F
  <2> HIDE DEF S, y, f, T
  <2> USE DEF Good
  <2>5. /\ Parse(S(x)) = ParseToken(ParseToken(ParseToken(p, f), "CR"), "LF")
        /\ Len(S(x)) = Len(S(y)) + 3
    <3>1. f \in Plain  BY <2>1, PlainTokens
    <3> QED  BY <2>3, <2>4, <3>1, ParseLine
  <2>6. CASE p.st = "ERROR"
    <3>1. Decided(p)  BY <2>6 DEF Decided
    <3>2. Parse(S(x)) = p  BY <2>5, <3>1, DecidedStays
    <3> QED  BY <2>6, <3>2
  <2>7. CASE p = At("FIELDS", line, y, Len(S(y)))
    <3> DEFINE u == Len(S(y))
    <3>1. u \in Nat  BY <2>3
    <3> HIDE DEF u
    <3>2. p = At("FIELDS", line, y, u)  BY <2>7 DEF u
    <3> HIDE DEF p, Good
    <3>0. /\ line \in Line /\ y \in Seq(PlainField) /\ x \in Seq(PlainField)
          /\ f \in PlainField /\ x = Append(y, f) /\ u \in Nat
          /\ u + 1 \in Nat /\ (u + 1) + 1 \in Nat
      BY <2>1, <3>1
    <3>3. CASE Len(y) < MaxHeaders
      <4>1. ParseToken(p, f) = At("FIELD_END", line, x, u + 1)
        BY <3>0, <3>2, <3>3, TokensParsed
      <4>2. ParseToken(At("FIELD_END", line, x, u + 1), "CR")
              = At("FIELD_LF", line, x, (u + 1) + 1)
        BY <3>0, TokensParsed
      <4>3. ParseToken(At("FIELD_LF", line, x, (u + 1) + 1), "LF")
              = At("FIELDS", line, x, ((u + 1) + 1) + 1)
        BY <3>0, TokensParsed
      <4>4. ((u + 1) + 1) + 1 = Len(S(x))  BY <2>5, <3>1 DEF u
      <4> QED  BY <2>5, <4>1, <4>2, <4>3, <4>4 DEF p, Good
    <3>4. CASE ~(Len(y) < MaxHeaders)
      <4>1. ParseToken(p, f) = At("ERROR", line, y, u + 1)
        BY <3>0, <3>2, <3>4, TokensParsed
      <4>2. ParseToken(p, f).st = "ERROR"  BY <4>1 DEF At
      <4>3. Decided(ParseToken(p, f))  BY <4>2 DEF Decided
      <4>4. Parse(S(x)) = ParseToken(p, f)  BY <2>5, <4>3, DecidedStays DEF p
      <4> QED  BY <4>2, <4>4 DEF Good
    <3> QED  BY <3>3, <3>4
  <2> QED  BY <2>2, <2>6, <2>7
<1>4. Nat \subseteq T
  <2> HIDE DEF T
  <2> QED  BY <1>2, <1>3, Induction
<1>5. Good(fs)
  <2>1. Len(fs) \in Nat  OBVIOUS
  <2> HIDE DEF Good
  <2> QED  BY <1>4, <2>1
<1> QED  BY <1>1, <1>5

(* The parser decides about a head at its end at the latest, and reads in it  *)
(* what was sent.                                                           *)
LEMMA HeadParsed ==
  ASSUME NEW r \in Sendable
  PROVE  LET p == Parse(RequestHead(r)) IN
         /\ Decided(p)
         /\ p.st = "DONE" =>
              p.line = r.line /\ p.fields = r.fields /\ p.used = Len(RequestHead(r))
<1> DEFINE s == <<r.line, "CR", "LF">> \o FieldLines(r.fields)
           q == Parse(s)
           u == Len(s)
<1>1. /\ s \in Seq(Plain) /\ r.line \in Line /\ r.fields \in Seq(PlainField)
      /\ q.st = "ERROR" \/ q = At("FIELDS", r.line, r.fields, u)
  BY RawParts, FieldsParsed
<1>2. RequestHead(r) = s \o <<"CR", "LF">>  BY DEF RequestHead
<1> HIDE DEF s
<1>3. /\ Parse(RequestHead(r)) = ParseToken(ParseToken(q, "CR"), "LF")
      /\ Len(RequestHead(r)) = u + 2
  BY <1>1, <1>2, ParseLineEnd
<1>4. u \in Nat  BY <1>1
<1> HIDE DEF u, q
<1>5. CASE q.st = "ERROR"
  <2>1. Decided(q)  BY <1>5 DEF Decided
  <2>2. Parse(RequestHead(r)) = q  BY <1>3, <2>1, DecidedStays
  <2> QED  BY <1>5, <2>1, <2>2
<1>6. CASE q = At("FIELDS", r.line, r.fields, u)
  <2>0. /\ r.line \in Line /\ r.fields \in Seq(PlainField) /\ u \in Nat /\ u + 1 \in Nat
    BY <1>1, <1>4
  <2>1. ParseToken(q, "CR") = At("END_LF", r.line, r.fields, u + 1)
    BY <1>6, <2>0, TokensParsed
  <2>2. ParseToken(At("END_LF", r.line, r.fields, u + 1), "LF")
          = At("DONE", r.line, r.fields, (u + 1) + 1)
    BY <2>0, TokensParsed
  <2>3. Parse(RequestHead(r)) = At("DONE", r.line, r.fields, (u + 1) + 1)
    BY <1>3, <2>1, <2>2
  <2> QED  BY <1>3, <1>4, <2>3 DEF At, Decided
<1> QED  BY <1>1, <1>5, <1>6

-------------------------------------------------------------------------------
(* What a request makes of the bytes it is given.                           *)

(* What a request has stored of its head. *)
HeadTaken(m) == SubSeq(m.hb, 1, m.idx)

LEMMA HeadTakenType ==
  ASSUME NEW m \in RequestRecord
  PROVE  /\ HeadTaken(m) \in Seq(Plain) /\ Len(HeadTaken(m)) = m.idx
         /\ m.hb \in Seq(Plain) /\ Len(m.hb) = HeadCap /\ m.idx \in 0 .. HeadCap
<1>1. /\ m.hb \in [1 .. HeadCap -> Plain] /\ m.idx \in 0 .. HeadCap /\ HeadCap \in Nat
  BY RequestAssumption DEF RequestRecord
<1>2. m.hb \in Seq(Plain) /\ Len(m.hb) = HeadCap  BY <1>1
<1>3. m.idx \in 0 .. Len(m.hb)  BY <1>1, <1>2
<1>4. SubSeq(m.hb, 1, m.idx) \in Seq(Plain) /\ Len(SubSeq(m.hb, 1, m.idx)) = m.idx
  BY <1>1, <1>2, <1>3
<1> QED  BY <1>1, <1>2, <1>4 DEF HeadTaken

(* Storing n bytes of data behind what is stored of the head. *)
LEMMA HeadStored ==
  ASSUME NEW h \in [1 .. HeadCap -> Plain], NEW i \in 0 .. HeadCap,
         NEW data \in Seq(Plain), NEW n \in 0 .. Len(data), i + n <= HeadCap
  PROVE  LET hb == [k \in 1 .. HeadCap |->
                      IF k > i /\ k <= i + n THEN data[k - i] ELSE h[k]]
         IN /\ hb \in [1 .. HeadCap -> Plain]
            /\ SubSeq(hb, 1, i + n) = SubSeq(h, 1, i) \o SubSeq(data, 1, n)
<1> DEFINE hb == [k \in 1 .. HeadCap |-> IF k > i /\ k <= i + n THEN data[k - i] ELSE h[k]]
           a == SubSeq(h, 1, i)
           b == SubSeq(data, 1, n)
           u == SubSeq(hb, 1, i + n)
           v == a \o b
<1>1. /\ HeadCap \in Nat /\ i \in Nat /\ n \in Nat /\ Len(data) \in Nat
      /\ n <= Len(data) /\ i <= HeadCap
  BY RequestAssumption
<1>2. ASSUME NEW k \in 1 .. HeadCap
      PROVE  (IF k > i /\ k <= i + n THEN data[k - i] ELSE h[k]) \in Plain
  <2>1. k > i /\ k <= i + n => k - i \in 1 .. Len(data)  BY <1>1
  <2>2. h[k] \in Plain  OBVIOUS
  <2> QED  BY <2>1, <2>2
<1>3. hb \in [1 .. HeadCap -> Plain]  BY <1>2
<1>4. /\ a \in Seq(Plain) /\ Len(a) = i /\ \A k \in 1 .. i : a[k] = h[k]
  <2>1. h \in Seq(Plain) /\ Len(h) = HeadCap  BY <1>1
  <2>2. i <= Len(h)  BY <1>1, <2>1
  <2> QED  BY <1>1, <2>1, <2>2, SubSeqProperties
<1>5. /\ b \in Seq(Plain) /\ Len(b) = n /\ \A k \in 1 .. n : b[k] = data[k]
  BY <1>1, SubSeqProperties
<1>6. /\ u \in Seq(Plain) /\ Len(u) = i + n /\ \A k \in 1 .. i + n : u[k] = hb[k]
  <2>0. i + n \in Nat  BY <1>1
  <2> HIDE DEF hb
  <2>1. hb \in Seq(Plain) /\ Len(hb) = HeadCap  BY <1>1, <1>3
  <2>2. i + n <= Len(hb)  BY <2>1
  <2> QED  BY <2>0, <2>1, <2>2, SubSeqProperties
<1>7. \A k \in 1 .. i + n : hb[k] = IF k > i THEN data[k - i] ELSE h[k]
  BY <1>1
<1> HIDE DEF hb, a, b, u
<1>8. /\ v \in Seq(Plain) /\ Len(v) = i + n
      /\ \A k \in 1 .. i + n : v[k] = IF k <= i THEN a[k] ELSE b[k - i]
  BY <1>4, <1>5, ConcatProperties
<1>9. ASSUME NEW k \in 1 .. i + n
      PROVE  u[k] = v[k]
  <2>1. CASE k <= i
    <3>1. k \in 1 .. i /\ ~(k > i)  BY <1>1, <2>1
    <3> QED  BY <1>4, <1>6, <1>7, <1>8, <2>1, <3>1
  <2>2. CASE ~(k <= i)
    <3>1. k - i \in 1 .. n /\ k > i  BY <1>1, <2>2
    <3> QED  BY <1>5, <1>6, <1>7, <1>8, <2>2, <3>1
  <2> QED  BY <2>1, <2>2
<1> HIDE DEF v
<1>10. u = v  BY <1>6, <1>8, <1>9, SeqEqual
<1> QED  BY <1>3, <1>10 DEF hb, a, b, u, v

(* The length that the fields announce. *)
Length(fs) ==
  LET i == FirstLength(fs) IN
  IF i = 0 \/ fs[i] = "CLbad" THEN None ELSE ContentLength[fs[i]]

LEMMA DeserializedAs ==
  ASSUME NEW m, NEW p, p = Parse(m.hb), NEW i, i = FirstLength(p.fields)
  PROVE  LET q == [m EXCEPT !.line = p.line, !.cl = Length(p.fields),
                            !.chunked = i = 0 /\ Contains(p.fields, "TE")]
         IN /\ Deserialized(m).ok = (p.st = "DONE" /\ (i = 0 \/ p.fields[i] # "CLbad"))
            /\ Deserialized(m).msg = IF p.st # "DONE" THEN m ELSE q
<1> DEFINE len == IF i = 0 \/ p.fields[i] = "CLbad" THEN None ELSE ContentLength[p.fields[i]]
           te == i = 0 /\ Contains(p.fields, "TE")
           q == [m EXCEPT !.line = p.line, !.cl = len, !.chunked = te]
<1>1. Deserialized(m) = [ok |-> p.st = "DONE" /\ (i = 0 \/ p.fields[i] # "CLbad"),
                         msg |-> IF p.st # "DONE" THEN m ELSE q]
  BY Zenon DEF Deserialized
<1>2. len = Length(p.fields)  BY DEF Length
<1> HIDE DEF len, te
<1>3. q = [m EXCEPT !.line = p.line, !.cl = Length(p.fields), !.chunked = te]
  BY <1>2
<1> HIDE DEF q
<1> DEFINE ok == p.st = "DONE" /\ (i = 0 \/ p.fields[i] # "CLbad")
           msg == IF p.st # "DONE" THEN m ELSE q
<1>4. Deserialized(m) = [ok |-> ok, msg |-> msg]  BY <1>1
<1> HIDE DEF ok, msg
<1>5. Deserialized(m).ok = ok /\ Deserialized(m).msg = msg
  BY <1>4
<1> QED  BY <1>3, <1>5, Zenon DEF te, ok, msg

(* When the parser is done with what is stored of a head, what lies behind    *)
(* it in headBuff does not matter.                                          *)
LEMMA DeserializedHead ==
  ASSUME NEW m \in Headless, Decided(Parse(HeadTaken(m))), Deserialized(m).ok
  PROVE  LET p == Parse(HeadTaken(m))
             i == FirstLength(p.fields)
             q == Deserialized(m).msg
         IN /\ p.st = "DONE" /\ (i = 0 \/ p.fields[i] # "CLbad")
            /\ q.line = p.line /\ q.cl = Length(p.fields)
            /\ q.hb = m.hb /\ q.idx = m.idx /\ q.body = m.body
<1> DEFINE p == Parse(m.hb)
           i == FirstLength(p.fields)
           te == i = 0 /\ Contains(p.fields, "TE")
           len == Length(p.fields)
           q == [m EXCEPT !.line = p.line, !.cl = len, !.chunked = te]
           rest == SubSeq(m.hb, m.idx + 1, HeadCap)
<1>1. m \in RequestRecord  BY DEF Headless
<1>2. /\ HeadTaken(m) \in Seq(Plain) /\ m.hb \in Seq(Plain) /\ Len(m.hb) = HeadCap
      /\ m.idx \in 0 .. HeadCap /\ HeadCap \in Nat
  BY <1>1, HeadTakenType, RequestAssumption
<1>3. rest \in Seq(Plain) /\ m.hb = HeadTaken(m) \o rest
  <2>1. 0 + m.idx <= Len(m.hb) /\ 0 \in Nat /\ m.idx \in Nat  BY <1>2
  <2>2. /\ SubSeq(m.hb, 0 + m.idx + 1, Len(m.hb)) \in Seq(Plain)
        /\ SubSeq(m.hb, 0 + 1, 0 + m.idx) \o SubSeq(m.hb, 0 + m.idx + 1, Len(m.hb))
             = SubSeq(m.hb, 0 + 1, Len(m.hb))
    BY <1>2, <2>1, PartAndRest
  <2>3. SubSeq(m.hb, 1, Len(m.hb)) = m.hb  BY <1>2, SubSeqFull
  <2>4. 0 + m.idx = m.idx /\ 0 + 1 = 1 /\ 0 + m.idx + 1 = m.idx + 1  BY <1>2
  <2> QED  BY <1>2, <2>2, <2>3, <2>4 DEF HeadTaken
<1> HIDE DEF rest
<1>4. p = Parse(HeadTaken(m))  BY <1>2, <1>3, ParsePrefix
<1>6. /\ Deserialized(m).ok = (p.st = "DONE" /\ (i = 0 \/ p.fields[i] # "CLbad"))
      /\ Deserialized(m).msg = IF p.st # "DONE" THEN m ELSE q
  <2>1. p = Parse(m.hb) /\ i = FirstLength(p.fields)  OBVIOUS
  <2> HIDE DEF p, i
  <2> QED  BY <2>1, DeserializedAs, ZenonT(60)
<1> HIDE DEF p, len, te, i
<1>7. p.st = "DONE" /\ (i = 0 \/ p.fields[i] # "CLbad")  BY <1>6
<1>8. Deserialized(m).msg = q  BY <1>6, <1>7
<1>9. ASSUME NEW x, NEW y, NEW z
      PROVE  LET r == [m EXCEPT !.line = x, !.cl = y, !.chunked = z] IN
             /\ r.line = x /\ r.cl = y /\ r.hb = m.hb /\ r.idx = m.idx /\ r.body = m.body
  <2> HIDE DEF Plain, Line, Fresh
  <2> QED  BY <1>1 DEF RequestRecord
<1>10. /\ q.line = p.line /\ q.cl = len /\ q.hb = m.hb /\ q.idx = m.idx /\ q.body = m.body
  BY <1>9
<1> HIDE DEF q
<1>11. i = FirstLength(p.fields) /\ len = Length(p.fields)  BY DEF i, len
<1> QED  BY <1>4, <1>7, <1>8, <1>10, <1>11

(* consumeHeaderSome keeps the search in step with the parser; when it ends,  *)
(* the request is what the parser makes of the bytes taken.                  *)
LEMMA HeadConsumed ==
  ASSUME NEW m \in Headless, NEW data \in Seq(Plain),
         InStepWith(Parse(HeadTaken(m)), m.last, m.found),
         ~ConsumeHead(m, data).err
  PROVE  LET r == ConsumeHead(m, data)
             p == Parse(HeadTaken(r.msg))
             i == FirstLength(p.fields)
         IN /\ HeadTaken(r.msg) = HeadTaken(m) \o SubSeq(data, 1, r.n)
            /\ r.msg.body = <<>>
            /\ ~r.done => InStepWith(p, r.msg.last, r.msg.found)
            /\ r.done => /\ p.st = "DONE" /\ (i = 0 \/ p.fields[i] # "CLbad")
                         /\ r.msg.line = p.line /\ r.msg.cl = Length(p.fields)
<1> DEFINE room == HeadCap - m.idx
           most == Smaller(Len(data), room)
           part == SubSeq(data, 1, most)
           s == Scan(m, part)
           n == IF s.hit > 0 THEN s.hit ELSE most
           finished == HeadEnds(s.found)
           scanned == [m EXCEPT !.last = s.last, !.found = s.found]
           hb == [i \in 1 .. HeadCap |->
                    IF i > m.idx /\ i <= m.idx + n THEN data[i - m.idx] ELSE m.hb[i]]
           stored == [scanned EXCEPT !.hb = hb, !.idx = m.idx + n]
           d == Deserialized(stored)
           r == ConsumeHead(m, data)
<1>1. /\ m \in RequestRecord /\ m.line = "none" /\ m.cl = None /\ m.body = <<>>
      /\ m.hb \in [1 .. HeadCap -> Plain] /\ m.idx \in 0 .. HeadCap
      /\ m.last \in Plain /\ m.found \in 0 .. 255
  BY DEF Headless, RequestRecord
<1>2. /\ most \in 0 .. Len(data) /\ m.idx + most <= HeadCap /\ most \in Nat
  BY <1>1, RequestAssumption DEF Smaller
<1>3. r = IF HeadTooLong(n, room) /\ ~finished THEN Refused(scanned)
          ELSE IF finished /\ ~d.ok THEN Refused(d.msg)
          ELSE [err |-> FALSE, done |-> finished, n |-> n,
                msg |-> IF finished THEN d.msg ELSE stored]
  BY DEF ConsumeHead
<1>0. ~r.err  OBVIOUS
<1> HIDE DEF room, most, r
<1>4. part \in Seq(Plain) /\ Len(part) = most
  BY <1>2
<1>5. \A k \in 0 .. most : SubSeq(part, 1, k) = SubSeq(data, 1, k)
  <2> TAKE k \in 0 .. most
  <2> DEFINE x == SubSeq(part, 1, k)
             y == SubSeq(data, 1, k)
  <2>1. k \in Nat /\ k <= Len(part) /\ k <= Len(data) /\ most <= Len(data)
    BY <1>2, <1>4
  <2>2. \A j \in 1 .. most : part[j] = data[j]
    BY <1>2, SubSeqProperties
  <2> HIDE DEF part
  <2>3. x \in Seq(Plain) /\ Len(x) = k /\ \A j \in 1 .. k : x[j] = part[j]
    BY <1>4, <2>1, SubSeqProperties
  <2>4. y \in Seq(Plain) /\ Len(y) = k /\ \A j \in 1 .. k : y[j] = data[j]
    BY <2>1, SubSeqProperties
  <2>5. \A j \in 1 .. k : j \in 1 .. most  BY <1>2
  <2> HIDE DEF x, y
  <2>6. x = y  BY <2>2, <2>3, <2>4, <2>5, SeqEqual
  <2> QED  BY <2>6 DEF x, y
<1> HIDE DEF part
<1> DEFINE t == HeadTaken(m)
<1>6. t \in Seq(Plain)  BY <1>1, HeadTakenType
<1>7. /\ s \in Scanned /\ s.hit <= most
      /\ InStepWith(Parse(t \o part), s.last, s.found)
      /\ s.hit > 0 => Decided(Parse(t \o SubSeq(part, 1, s.hit)))
  BY <1>1, <1>4, <1>6, SearchFollowed
<1> HIDE DEF s, t
<1>8. /\ n \in 0 .. most /\ s.last \in Plain /\ s.found \in 0 .. 255 /\ s.hit \in Nat
  BY <1>2, <1>7 DEF Scanned
<1>9. SubSeq(part, 1, most) = part  BY <1>2, <1>4, SubSeqFull
<1> DEFINE took == t \o SubSeq(data, 1, n)
<1>10. /\ InStepWith(Parse(took), s.last, s.found)
       /\ finished => Decided(Parse(took))
  <2>1. CASE s.hit > 0
    <3>1. n = s.hit  BY <2>1
    <3>2. SubSeq(data, 1, n) = SubSeq(part, 1, s.hit)
      BY <1>5, <1>8, <3>1
    <3>3. Decided(Parse(took))  BY <1>7, <2>1, <3>2
    <3> QED  BY <3>3 DEF InStepWith
  <2>2. CASE ~(s.hit > 0)
    <3>1. n = most  BY <2>2
    <3>2. SubSeq(data, 1, n) = part  BY <1>2, <1>5, <1>9, <3>1
    <3>3. InStepWith(Parse(took), s.last, s.found)  BY <1>7, <3>2
    <3> QED  BY <3>3, FoundMeansDecided
  <2> QED  BY <2>1, <2>2
<1>11. /\ scanned \in RequestRecord /\ scanned.line = m.line /\ scanned.cl = m.cl
       /\ scanned.body = m.body /\ scanned.last = s.last /\ scanned.found = s.found
  <2> HIDE DEF Plain, Line, Fresh, None, n, finished
  <2> QED  BY <1>1, <1>8 DEF RequestRecord
<1> HIDE DEF scanned
<1>12. /\ hb \in [1 .. HeadCap -> Plain] /\ m.idx + n \in 0 .. HeadCap
       /\ SubSeq(hb, 1, m.idx + n) = took
  <2>1. n \in 0 .. Len(data) /\ m.idx + n <= HeadCap /\ m.idx + n \in 0 .. HeadCap
    BY <1>1, <1>2, <1>8, RequestAssumption
  <2>2. m.hb \in [1 .. HeadCap -> Plain] /\ m.idx \in 0 .. HeadCap  BY <1>1
  <2> HIDE DEF n
  <2>3. /\ hb \in [1 .. HeadCap -> Plain]
        /\ SubSeq(hb, 1, m.idx + n) = SubSeq(m.hb, 1, m.idx) \o SubSeq(data, 1, n)
    BY <2>1, <2>2, HeadStored
  <2> QED  BY <2>1, <2>3 DEF HeadTaken, t
<1> HIDE DEF hb, n, finished
<1>13. /\ stored \in RequestRecord /\ stored.line = "none" /\ stored.cl = None
       /\ stored.body = <<>> /\ stored.last = s.last /\ stored.found = s.found
       /\ stored.hb = hb /\ stored.idx = m.idx + n
  <2> HIDE DEF Plain, Line, Fresh, None
  <2> QED  BY <1>1, <1>11, <1>12 DEF RequestRecord
<1> HIDE DEF stored
<1>14. stored \in Headless /\ HeadTaken(stored) = took
  BY <1>12, <1>13 DEF Headless, HeadTaken
<1>15. /\ ~(HeadTooLong(n, room) /\ ~finished) /\ ~(finished /\ ~d.ok)
  <2>1. \A x : Refused(x).err = TRUE  BY DEF Refused
  <2> HIDE DEF d
  <2> QED  BY <1>0, <1>3, <2>1
<1>16. r.n = n /\ r.done = finished /\ r.msg = (IF finished THEN d.msg ELSE stored)
  <2> HIDE DEF d
  <2> QED  BY <1>3, <1>15
<1>17. CASE finished
  <2>1. Decided(Parse(HeadTaken(stored))) /\ d.ok  BY <1>10, <1>14, <1>15, <1>17
  <2> DEFINE p == Parse(HeadTaken(stored))
  <2>2. /\ p.st = "DONE" /\ (FirstLength(p.fields) = 0 \/ p.fields[FirstLength(p.fields)] # "CLbad")
        /\ d.msg.line = p.line /\ d.msg.cl = Length(p.fields)
        /\ d.msg.hb = stored.hb /\ d.msg.idx = stored.idx /\ d.msg.body = stored.body
    BY <1>14, <2>1, DeserializedHead
  <2>3. HeadTaken(d.msg) = HeadTaken(stored)  BY <2>2 DEF HeadTaken
  <2> HIDE DEF d, p
  <2>4. r.msg = d.msg /\ r.done  BY <1>16, <1>17
  <2>5. HeadTaken(r.msg) = t \o SubSeq(data, 1, r.n)  BY <1>14, <1>16, <2>3, <2>4
  <2>6. p = Parse(HeadTaken(r.msg)) /\ r.msg.body = <<>>  BY <1>13, <2>2, <2>3, <2>4 DEF p
  <2> QED  BY <2>2, <2>4, <2>5, <2>6 DEF r, t
<1>18. CASE ~finished
  <2> HIDE DEF d
  <2>1. r.msg = stored /\ ~r.done  BY <1>16, <1>18
  <2>2. HeadTaken(r.msg) = t \o SubSeq(data, 1, r.n)  BY <1>14, <1>16, <2>1
  <2>3. InStepWith(Parse(HeadTaken(r.msg)), r.msg.last, r.msg.found)
    BY <1>10, <1>13, <1>14, <2>1
  <2> QED  BY <1>13, <2>1, <2>2, <2>3 DEF r, t
<1> QED  BY <1>17, <1>18

(* A head that the parser is done with is the head of the request sent, and   *)
(* at least as many bytes were taken for it.                                *)
LEMMA HeadAgrees ==
  ASSUME NEW r \in Sendable, NEW h \in Seq(Plain), NEW x \in Seq(Plain),
         Raw(r) = h \o x, Parse(h).st = "DONE"
  PROVE  /\ Parse(h).line = r.line /\ Parse(h).fields = r.fields
         /\ Len(RequestHead(r)) <= Len(h)
<1>1. RequestHead(r) \in Seq(Plain) /\ r.body \in Seq(Plain) /\ Raw(r) = RequestHead(r) \o r.body
  BY RawParts
<1>2. Decided(Parse(h))  BY DEF Decided
<1>3. Parse(Raw(r)) = Parse(h)  BY <1>2, ParsePrefix
<1>4. Decided(Parse(RequestHead(r)))  BY HeadParsed
<1>5. Parse(Raw(r)) = Parse(RequestHead(r))  BY <1>1, <1>4, ParsePrefix
<1>6. /\ Parse(h).line = r.line /\ Parse(h).fields = r.fields
      /\ Parse(h).used = Len(RequestHead(r))
  BY <1>3, <1>5, HeadParsed
<1>7. Parse(h).used <= Len(h)  BY ParseUses
<1> QED  BY <1>6, <1>7

LEMMA BodyAnnounced ==
  ASSUME NEW r \in Sendable, Announces(r),
         FirstLength(r.fields) = 0 \/ r.fields[FirstLength(r.fields)] # "CLbad"
  PROVE  Len(r.body) = IF Length(r.fields) > 0 THEN Length(r.fields) ELSE 0
<1> DEFINE i == FirstLength(r.fields)
<1>1. r.body \in Seq(Plain)  BY DEF Sendable
<1>2. Len(r.body) \in Nat  BY <1>1
<1>3. CASE i = 0
  <2>1. r.body = <<>>  BY <1>3 DEF Announces
  <2>2. Length(r.fields) = -1  BY <1>3 DEF Length, None
  <2> QED  BY <2>1, <2>2
<1>4. CASE i # 0
  <2>1. r.fields[i] # "CLbad"  BY <1>4
  <2>2. Len(r.body) = ContentLength[r.fields[i]]  BY <1>4, <2>1 DEF Announces
  <2>3. Length(r.fields) = ContentLength[r.fields[i]]  BY <1>4, <2>1 DEF Length
  <2> QED  BY <1>2, <2>2, <2>3
<1> QED  BY <1>3, <1>4

(* consumeBodySome takes the next bytes into the body; when it is through,    *)
(* the body is as long as announced.                                        *)
LEMMA BodyConsumed ==
  ASSUME NEW m \in Headed, NEW data \in Seq(Plain)
  PROVE  LET r == ConsumeBody(m, data) IN
         ~r.err =>
           /\ r.msg.body = m.body \o SubSeq(data, 1, r.n)
           /\ r.msg.hb = m.hb /\ r.msg.idx = m.idx /\ r.msg.line = m.line /\ r.msg.cl = m.cl
           /\ r.done => (IF m.cl > 0 THEN m.cl ELSE 0) <= Len(r.msg.body)
<1> DEFINE n == BodyBytes(m, data)
           part == SubSeq(data, 1, n)
           b == [m EXCEPT !.body = m.body \o part]
           r == ConsumeBody(m, data)
<1>1. m \in RequestRecord /\ m.cl \in Int /\ m.body \in Seq(Plain) /\ m.chunked = FALSE
  BY DEF Headed, RequestRecord
<1>2. ASSUME NEW q
      PROVE  LET e == [m EXCEPT !.body = q] IN
             /\ e.body = q /\ e.hb = m.hb /\ e.idx = m.idx /\ e.line = m.line /\ e.cl = m.cl
  <2> HIDE DEF Plain, Line, Fresh
  <2> QED  BY <1>1 DEF RequestRecord
<1>3. CASE m.cl > 0 /\ m.cl > MaxBody
  <2>1. r = Refused(m)  BY <1>3 DEF ConsumeBody, SizedBody
  <2>2. Refused(m).err = TRUE  BY DEF Refused
  <2> QED  BY <2>1, <2>2
<1>4. CASE m.cl > 0 /\ ~(m.cl > MaxBody)
  <2>1. r = [err |-> FALSE, done |-> Len(b.body) >= m.cl, n |-> n, msg |-> b]
    <3>1. r = SizedBody(m, data)  BY <1>4 DEF ConsumeBody
    <3> QED  BY <1>4, <3>1, Zenon DEF SizedBody
  <2>2. /\ b.body = m.body \o part /\ b.hb = m.hb /\ b.idx = m.idx /\ b.line = m.line
        /\ b.cl = m.cl
    BY <1>2
  <2> DEFINE full == Len(b.body) >= m.cl
  <2> HIDE DEF b, n, full, r
  <2>3. r.n = n /\ r.msg = b /\ r.done = full  BY <2>1 DEF full
  <2>4. full => m.cl <= Len(b.body)
    <3>1. b.body \in Seq(Plain)
      <4>1. n \in 0 .. Len(data)
        <5>1. m.cl > 0 => Len(m.body) <= m.cl  BY DEF Headed
        <5> QED  BY <1>1, <1>4, <5>1 DEF n, BodyBytes, Smaller
      <4>2. part \in Seq(Plain)  BY <4>1
      <4> HIDE DEF part
      <4> QED  BY <1>1, <2>2, <4>2, ConcatProperties
    <3>2. Len(b.body) \in Nat  BY <3>1
    <3> QED  BY <1>1, <3>2 DEF full
  <2> QED  BY <1>4, <2>2, <2>3, <2>4 DEF r
<1>5. CASE ~(m.cl > 0)
  <2>1. r = [err |-> FALSE, done |-> TRUE, n |-> 0, msg |-> m]
    BY <1>1, <1>5 DEF ConsumeBody
  <2> HIDE DEF r
  <2>2. r.n = 0 /\ r.msg = m  BY <2>1
  <2>3. m.body \o SubSeq(data, 1, 0) = m.body
    <3>1. SubSeq(data, 1, 0) = <<>>  OBVIOUS
    <3> QED  BY <1>1, <3>1, ConcatEmptySeq
  <2>4. 0 <= Len(m.body)  BY <1>1
  <2> QED  BY <1>5, <2>2, <2>3, <2>4 DEF r
<1> QED  BY <1>3, <1>4, <1>5

-------------------------------------------------------------------------------
(* Requests arrive as they were sent.                                       *)

(* A client that waits for its responses.  The session has handled what it    *)
(* sent before, or that and the request it is sending.                       *)
HandledSoFar ==
  /\ Len(handled) \in {sending - 1, sending}
  /\ \A i \in 1 .. Len(handled) : handled[i] = Request(i)

(* Until a read fails, nothing of that request is lost or comes from another: *)
(* what the session has of it, what read has fetched, what the socket holds   *)
(* and what the client has not sent make up the request, or are nothing when  *)
(* it was handled.                                                          *)
Alive == at # "closed" /\ (at = "read" /\ rpc[me] = "idle" => rret[me] = "OK")
InHand == IF at = "read" THEN HeadTaken(rmsg[me]) \o rmsg[me].body ELSE <<>>
ToCome == ReadableSpan(readBuffer_) \o (inbox \o left)
Expected == IF Len(handled) < sending THEN Raw(script[sending]) ELSE <<>>
NothingLost == Alive => InHand \o ToCome = Expected

(* While read looks for the end of the head, the search is in step with what  *)
(* the parser will make of the bytes taken.                                  *)
SearchInStep ==
  at = "read" /\ rpc[me] # "idle" /\ readState_ = "READ_HEADER" =>
    InStepWith(Parse(HeadTaken(rmsg[me])), rmsg[me].last, rmsg[me].found)

(* Behind the head the request has the line and the length of the one sent,   *)
(* and not less than its head is taken; read returns when the body is there.  *)
HeadAsSent ==
  at = "read" /\ Alive /\ (rpc[me] = "idle" \/ readState_ = "READ_BODY") =>
    LET r == script[sending] m == rmsg[me] IN
    /\ Len(handled) < sending
    /\ m.line = r.line /\ Len(RequestHead(r)) <= Len(HeadTaken(m))
    /\ Len(r.body) = IF m.cl > 0 THEN m.cl ELSE 0
    /\ rpc[me] = "idle" => m.body = r.body /\ ToCome = <<>>

OrderInv == HandledSoFar /\ NothingLost /\ SearchInStep /\ HeadAsSent

LEMMA OrderTypes ==
  ASSUME IInv
  PROVE  /\ ReadableSpan(readBuffer_) \in Seq(Plain) /\ inbox \in Seq(Plain)
         /\ left \in Seq(Plain) /\ inbox \o left \in Seq(Plain) /\ ToCome \in Seq(Plain)
         /\ rmsg[me] \in RequestRecord /\ HeadTaken(rmsg[me]) \in Seq(Plain)
         /\ rmsg[me].body \in Seq(Plain) /\ InHand \in Seq(Plain)
         /\ script[sending] \in Sendable /\ Announces(script[sending])
         /\ sending \in Nat \ {0} /\ handled \in Seq(Entry) /\ Len(handled) \in Nat
<1>1. ClientInv /\ SessionInv /\ ReadInv  BY DEF IInv
<1>2. ReadableSpan(readBuffer_) \in Seq(Plain) /\ inbox \in Seq(Plain) /\ left \in Seq(Plain)
  BY <1>1, SpanType, PlainAssumption DEF ReadInv, ClientInv
<1>3. inbox \o left \in Seq(Plain)  BY <1>2, ConcatProperties
<1>4. ToCome \in Seq(Plain)  BY <1>2, <1>3, ConcatProperties DEF ToCome
<1>5. rmsg[me] \in RequestRecord  BY <1>1 DEF ReadInv, Kept
<1>6. HeadTaken(rmsg[me]) \in Seq(Plain)  BY <1>5, HeadTakenType
<1>7. rmsg[me].body \in Seq(Plain)  BY <1>5 DEF RequestRecord
<1>8. InHand \in Seq(Plain)
  <2>1. HeadTaken(rmsg[me]) \o rmsg[me].body \in Seq(Plain)
    BY <1>6, <1>7, ConcatProperties
  <2>2. <<>> \in Seq(Plain)  OBVIOUS
  <2> QED  BY <2>1, <2>2 DEF InHand
<1>9. script[sending] \in Sendable /\ sending \in Nat \ {0}
  <2>1. script \in Seq(Sendable)  BY <1>1, ScriptAssumption DEF ClientInv, Sendable
  <2> QED  BY <1>1, <2>1 DEF ClientInv
<1>10. Announces(script[sending])  BY <1>1, LengthAssumption DEF ClientInv
<1>11. handled \in Seq(Entry)  BY <1>1 DEF SessionInv, Entry
<1>12. Len(handled) \in Nat  BY <1>11
<1> QED  BY <1>2, <1>3, <1>4, <1>5, <1>6, <1>7, <1>8, <1>9, <1>10, <1>11, <1>12

LEMMA OrderInit == Init => OrderInv
<1> SUFFICES ASSUME Init  PROVE OrderInv
  OBVIOUS
<1>0. IInv  BY InitHolds
<1>1. /\ at = "loop" /\ handled = <<>> /\ sending = 1 /\ left = Raw(script[1])
      /\ readBuffer_ = NewBuffer /\ inbox = <<>>
  BY DEF Init, R!Init, R!NewBuffer, NewBuffer
<1>2. Len(handled) = 0  BY <1>1
<1>3. HandledSoFar  BY <1>1, <1>2 DEF HandledSoFar
<1>4. NothingLost
  <2>1. InHand = <<>> /\ Expected = left  BY <1>1, <1>2 DEF InHand, Expected
  <2>2. ReadableSpan(readBuffer_) = <<>>  BY <1>1, NewBufferEmpty
  <2>3. ToCome = <<>> \o (<<>> \o left)  BY <1>1, <2>2 DEF ToCome
  <2>4. left \in Seq(Plain)  BY <1>0, OrderTypes
  <2>5. <<>> \o left = left  BY <2>4, ConcatEmptySeq
  <2> QED  BY <2>1, <2>3, <2>5 DEF NothingLost
<1>5. SearchInStep /\ HeadAsSent  BY <1>1 DEF SearchInStep, HeadAsSent
<1> QED  BY <1>3, <1>4, <1>5 DEF OrderInv

(* Steps by which no request is handled.                                    *)
LEMMA SameHandled ==
  ASSUME HandledSoFar, UNCHANGED <<handled, script, sending>>
  PROVE  HandledSoFar'
BY DEF HandledSoFar, Request

(* Steps outside read.                                                      *)
LEMMA OutsideRead ==
  ASSUME OrderInv, UNCHANGED <<handled, script, sending, readBuffer_, inbox, left>>,
         at \in {"loop", "handle", "write"}, at' \in {"loop", "handle", "write", "closed"}
  PROVE  OrderInv'
<1>1. HandledSoFar'  BY SameHandled DEF OrderInv
<1>2. NothingLost'
  <2>1. Alive  BY DEF Alive
  <2>2. InHand = <<>> /\ InHand' = <<>>  BY DEF InHand
  <2>3. Expected' = Expected /\ ToCome' = ToCome
    BY DEF Expected, ToCome, ReadableSpan, Size
  <2> QED  BY <2>1, <2>2, <2>3 DEF OrderInv, NothingLost
<1>3. SearchInStep' /\ HeadAsSent'  BY DEF SearchInStep, HeadAsSent
<1> QED  BY <1>1, <1>2, <1>3 DEF OrderInv

(* connect calls read; if a read failed before, this one does too.           *)
LEMMA StartReadInOrder == IInv /\ OrderInv /\ StartRead => OrderInv'
<1> SUFFICES ASSUME IInv, OrderInv, StartRead  PROVE OrderInv'
  OBVIOUS
<1> DEFINE x == NewRequest(headBuff)
<1>1. /\ at = "loop" /\ at' = "read" /\ UNCHANGED <<handled, readBuffer_, inbox>>
      /\ UNCHANGED <<script, sending, left>>
      /\ rmsg' = [rmsg EXCEPT ![me] = x]
      /\ \/ /\ rpc' = [rpc EXCEPT ![me] = "loop"]
            /\ readState_' = "READ_HEADER"
         \/ /\ rpc' = [rpc EXCEPT ![me] = "idle"]
            /\ rret' = [rret EXCEPT ![me] = "INVALID_STATE"]
  BY DEF StartRead, R!Call, R!Return, R!sockVars, clientVars
<1>2. /\ rpc \in [{me} -> {"idle", "loop", "body", "await"}] /\ rmsg \in [{me} -> Kept]
      /\ rret \in [{me} -> {"none", "OK", "INVALID_STATE", "INVALID_MESSAGE",
                            "CONNECTION_ENDED"}]
      /\ headBuff \in [1 .. HeadCap -> Plain]
  BY DEF IInv, ReadInv, SessionInv
<1>3. rmsg'[me] = x
  <2> HIDE DEF x
  <2> QED  BY <1>1, <1>2
<1>4. /\ HeadTaken(x) = <<>> /\ x.body = <<>> /\ x.last = "NUL" /\ x.found = 0
  BY <1>2, RequestAssumption DEF NewRequest, HeadTaken
<1> HIDE DEF x
<1>5. HandledSoFar'  BY <1>1, SameHandled DEF OrderInv
<1>6. NothingLost'
  <2>1. Alive  BY <1>1 DEF Alive
  <2>2. InHand = <<>>  BY <1>1 DEF InHand
  <2>3. InHand' = <<>>
    <3>1. <<>> \o <<>> = <<>>  OBVIOUS
    <3> QED  BY <1>1, <1>3, <1>4, <3>1 DEF InHand
  <2>4. Expected' = Expected /\ ToCome' = ToCome
    BY <1>1 DEF Expected, ToCome, ReadableSpan, Size
  <2> QED  BY <2>1, <2>2, <2>3, <2>4 DEF OrderInv, NothingLost
<1>7. SearchInStep'
  <2>1. Parse(HeadTaken(x)) = ParserStart  BY <1>4, ParseNothing
  <2>2. InStepWith(ParserStart, "NUL", 0)
    BY DEF InStepWith, ParserStart, Counts, AfterCR
  <2>3. InStepWith(Parse(HeadTaken(x)), x.last, x.found)  BY <1>4, <2>1, <2>2
  <2> QED  BY <1>3, <2>3 DEF SearchInStep
<1>8. HeadAsSent'
  <2>1. CASE rpc' = [rpc EXCEPT ![me] = "loop"] /\ readState_' = "READ_HEADER"
    <3>1. rpc'[me] = "loop"  BY <1>2, <2>1
    <3> QED  BY <2>1, <3>1 DEF HeadAsSent
  <2>2. CASE /\ rpc' = [rpc EXCEPT ![me] = "idle"]
             /\ rret' = [rret EXCEPT ![me] = "INVALID_STATE"]
    <3>1. rpc'[me] = "idle" /\ rret'[me] = "INVALID_STATE"  BY <1>2, <2>2
    <3>2. ~Alive'  BY <1>1, <3>1 DEF Alive
    <3> QED  BY <3>2 DEF HeadAsSent
  <2> QED  BY <1>1, <2>1, <2>2
<1> QED  BY <1>5, <1>6, <1>7, <1>8 DEF OrderInv

(* read has returned: the request it leaves is the one sent.                 *)
LEMMA ReadReturnsInOrder == IInv /\ OrderInv /\ ReadReturns => OrderInv'
<1> SUFFICES ASSUME IInv, OrderInv, ReadReturns  PROVE OrderInv'
  OBVIOUS
<1> DEFINE m == rmsg[me]
           e == [line |-> m.line, body |-> m.body]
<1>1. /\ at = "read" /\ rpc[me] = "idle"
      /\ IF rret[me] = "OK" THEN at' = "handle" /\ handled' = Append(handled, e)
                            ELSE at' = "closed" /\ UNCHANGED handled
      /\ UNCHANGED <<readBuffer_, inbox>> /\ UNCHANGED <<script, sending, left>>
  BY DEF ReadReturns, R!Inside, readVars, clientVars
<1>2. SearchInStep' /\ HeadAsSent'  BY <1>1 DEF SearchInStep, HeadAsSent
<1>3. CASE rret[me] # "OK"
  <2>1. HandledSoFar'  BY <1>1, <1>3, SameHandled DEF OrderInv
  <2>2. NothingLost'  BY <1>1, <1>3 DEF NothingLost, Alive
  <2> QED  BY <1>2, <2>1, <2>2 DEF OrderInv
<1>4. CASE rret[me] = "OK"
  <2>1. Alive  BY <1>1, <1>4 DEF Alive
  <2>2. /\ Len(handled) < sending /\ m.line = script[sending].line
        /\ m.body = script[sending].body /\ ToCome = <<>>
    BY <1>1, <2>1 DEF OrderInv, HeadAsSent
  <2>3. /\ handled \in Seq(Entry) /\ sending \in Nat /\ sending # 0 /\ Len(handled) \in Nat
        /\ e \in Entry
    <3>1. m \in Headed  BY <1>1, <1>4 DEF IInv, ReadInv
    <3>2. m.line \in Line /\ m.body \in Seq(Plain)  BY <3>1 DEF Headed, RequestRecord
    <3> QED  BY <3>2, OrderTypes DEF Entry
  <2>4. e = Request(sending)  BY <2>2 DEF Request
  <2> HIDE DEF e
  <2>5. /\ Len(handled') = Len(handled) + 1 /\ handled'[Len(handled) + 1] = e
        /\ \A i \in 1 .. Len(handled) : handled'[i] = handled[i]
    BY <1>1, <1>4, <2>3, AppendProperties
  <2>6. Len(handled) \in {sending - 1, sending}  BY DEF OrderInv, HandledSoFar
  <2>7. Len(handled) + 1 = sending  BY <2>2, <2>3, <2>6
  <2>8. HandledSoFar'
    <3>1. \A i \in 1 .. Len(handled') : handled'[i] = Request(i)
      <4> TAKE i \in 1 .. Len(handled')
      <4>1. CASE i \in 1 .. Len(handled)
        BY <2>5, <4>1 DEF OrderInv, HandledSoFar
      <4>2. CASE i = Len(handled) + 1
        BY <2>4, <2>5, <2>7, <4>2
      <4> QED  BY <2>3, <2>5, <4>1, <4>2
    <3>2. \A i : Request(i)' = Request(i)  BY <1>1 DEF Request
    <3>3. Len(handled)' \in {sending' - 1, sending'}  BY <1>1, <2>5, <2>7
    <3> QED  BY <3>1, <3>2, <3>3 DEF HandledSoFar
  <2>9. NothingLost'
    <3>1. Expected' = <<>>  BY <1>1, <2>3, <2>5, <2>7 DEF Expected
    <3>2. InHand' = <<>>  BY <1>1, <1>4 DEF InHand
    <3>3. ToCome' = <<>>  BY <1>1, <2>2 DEF ToCome, ReadableSpan, Size
    <3>4. <<>> \o <<>> = <<>>  OBVIOUS
    <3> QED  BY <3>1, <3>2, <3>3, <3>4 DEF NothingLost
  <2> QED  BY <1>2, <2>8, <2>9 DEF OrderInv
<1> QED  BY <1>3, <1>4

(* The socket and the buffer pass bytes on.                                  *)
LEMMA PassedOn ==
  ASSUME OrderInv, UNCHANGED <<at, handled, script, sending, readState_, rmsg, rret>>,
         rpc'[me] = rpc[me] \/ {rpc[me], rpc'[me]} \subseteq {"loop", "await"},
         ToCome' = ToCome
  PROVE  OrderInv'
<1>1. HandledSoFar'  BY SameHandled DEF OrderInv
<1>2. (rpc'[me] = "idle") = (rpc[me] = "idle")  OBVIOUS
<1>3. /\ Alive' = Alive /\ InHand' = InHand /\ Expected' = Expected
  BY <1>2 DEF Alive, InHand, Expected, HeadTaken
<1>4. NothingLost'  BY <1>3 DEF OrderInv, NothingLost
<1>5. SearchInStep'  BY <1>2 DEF OrderInv, SearchInStep, HeadTaken
<1>6. HeadAsSent'  BY <1>2, <1>3 DEF OrderInv, HeadAsSent, HeadTaken
<1> QED  BY <1>1, <1>4, <1>5, <1>6 DEF OrderInv

LEMMA InReadInOrder == IInv /\ OrderInv /\ InRead => OrderInv'
<1> SUFFICES ASSUME IInv, OrderInv, InRead  PROVE OrderInv'
  OBVIOUS
<1> DEFINE span == ReadableSpan(readBuffer_)
           m == rmsg[me]
           q == script[sending]
           h == HeadTaken(m)
           tail == inbox \o left
<1>1. /\ R!Resumed(me) \/ R!Completes(me)
      /\ UNCHANGED <<at, handled, script, sending, left>>
  BY DEF InRead, sessionVars, clientVars
<1>2. /\ readBuffer_ \in Buffers /\ inbox \in Seq(Byte)
      /\ rpc \in [{me} -> {"idle", "loop", "body", "await"}] /\ rmsg \in [{me} -> Kept]
      /\ rret \in [{me} -> {"none", "OK", "INVALID_STATE", "INVALID_MESSAGE",
                            "CONNECTION_ENDED"}]
      /\ rpc[me] # "idle" =>
           at = "read" /\ m \in (IF readState_ = "READ_HEADER" THEN Headless ELSE Headed)
  BY DEF IInv, ReadInv
<1>3. /\ span \in Seq(Plain) /\ inbox \in Seq(Plain) /\ left \in Seq(Plain)
      /\ tail \in Seq(Plain) /\ ToCome = span \o tail /\ ToCome \in Seq(Plain)
      /\ h \in Seq(Plain) /\ m.body \in Seq(Plain)
      /\ q \in Sendable /\ Announces(q)
  BY OrderTypes DEF ToCome
<1>4. HandledSoFar'  BY <1>1, SameHandled DEF OrderInv
<1>5. Expected' = Expected  BY <1>1 DEF Expected
<1>6. ASSUME rpc[me] # "idle"
      PROVE  /\ at = "read" /\ at' = "read" /\ Alive /\ InHand = h \o m.body
             /\ (h \o m.body) \o (span \o tail) = Expected
  <2>1. at = "read" /\ at' = "read" /\ Alive  BY <1>1, <1>2, <1>6 DEF Alive
  <2>2. InHand = h \o m.body  BY <2>1 DEF InHand
  <2> QED  BY <1>3, <2>1, <2>2 DEF OrderInv, NothingLost
<1> HIDE DEF span, tail
<1>7. ASSUME NEW n \in 0 .. Len(span), readBuffer_' = Consume(readBuffer_, n),
             UNCHANGED inbox
      PROVE  ToCome' = SubSeq(span, n + 1, Len(span)) \o tail
  <2>1. ReadableSpan(Consume(readBuffer_, n)) = SubSeq(span, n + 1, Len(span))
    BY <1>2, ConsumeDrops, SpanType DEF span
  <2> QED  BY <1>1, <1>7, <2>1 DEF ToCome, ReadableSpan, Size, tail
<1>8. CASE R!Suspend(me)
  <2>1. /\ rpc[me] = "loop" /\ rpc' = [rpc EXCEPT ![me] = "await"]
        /\ UNCHANGED <<readState_, readBuffer_, rmsg, rret, inbox>>
    BY <1>8 DEF R!Suspend, R!sockVars
  <2>2. rpc'[me] = "await"  BY <1>2, <2>1
  <2>3. ToCome' = ToCome  BY <1>1, <2>1 DEF ToCome, ReadableSpan, Size
  <2> QED  BY <1>1, <2>1, <2>2, <2>3, PassedOn
<1>9. CASE R!HeaderStep(me)
  <2> DEFINE r == ConsumeHead(m, span)
             x == r.msg
             p == Parse(HeadTaken(x))
             i == FirstLength(p.fields)
             rest == SubSeq(span, r.n + 1, Len(span))
  <2>1. /\ rpc[me] = "loop" /\ readState_ = "READ_HEADER" /\ ~r.err
        /\ Size(readBuffer_) # 0
        /\ rmsg' = [rmsg EXCEPT ![me] = r.msg]
        /\ readBuffer_' = Consume(readBuffer_, r.n)
        /\ readState_' = IF r.done THEN "READ_BODY" ELSE "READ_HEADER"
        /\ rpc' = [rpc EXCEPT ![me] = IF r.done THEN "body" ELSE "loop"]
        /\ UNCHANGED <<rret, inbox>>
    BY <1>9 DEF R!HeaderStep, R!Take, R!HeaderDone, R!ReadableSpan, ReadableSpan, R!Size, Size,
                R!IsEmpty, R!Consume, Consume, R!sockVars, span
  <2>2. m \in Headless /\ m.body = <<>>  BY <1>2, <2>1 DEF Headless
  <2>3. InStepWith(Parse(h), m.last, m.found)
    BY <1>6, <2>1 DEF OrderInv, SearchInStep
  <2>4. r.n \in 0 .. Len(span) /\ x \in RequestRecord
    BY <1>3, <2>2, ConsumeHeadType DEF Kept
  <2>5. /\ HeadTaken(x) = h \o SubSeq(span, 1, r.n) /\ x.body = <<>>
        /\ ~r.done => InStepWith(p, x.last, x.found)
        /\ r.done => /\ p.st = "DONE" /\ (i = 0 \/ p.fields[i] # "CLbad")
                     /\ x.line = p.line /\ x.cl = Length(p.fields)
    BY <1>3, <2>1, <2>2, <2>3, HeadConsumed
  <2> HIDE DEF r
  <2>6. rmsg'[me] = x /\ rpc'[me] = IF r.done THEN "body" ELSE "loop"
    BY <1>2, <2>1
  <2>7. ToCome' = rest \o tail  BY <1>7, <2>1, <2>4
  <2>8. /\ HeadTaken(x) \in Seq(Plain) /\ rest \in Seq(Plain)
        /\ HeadTaken(x) \o (rest \o tail) = h \o (span \o tail)
    <3> DEFINE k == r.n
    <3>1. h \in Seq(Plain) /\ span \in Seq(Plain) /\ tail \in Seq(Plain) /\ k \in 0 .. Len(span)
      BY <1>3, <2>4
    <3> HIDE DEF k, h
    <3>2. /\ SubSeq(span, k + 1, Len(span)) \in Seq(Plain)
          /\ h \o SubSeq(span, 1, k) \in Seq(Plain)
          /\ (h \o SubSeq(span, 1, k)) \o (SubSeq(span, k + 1, Len(span)) \o tail)
               = h \o (span \o tail)
      BY <3>1, CutMoved
    <3> QED  BY <2>5, <3>2 DEF k
  <2> HIDE DEF rest, m, h, x
  <2>9. h \o (span \o tail) = Expected
    <3>1. h \o <<>> = h  BY <1>3, ConcatEmptySeq
    <3> QED  BY <1>6, <2>1, <2>2, <3>1
  <2>10. HeadTaken(x) \o <<>> = HeadTaken(x)  BY <2>8, ConcatEmptySeq
  <2>11. InHand' = HeadTaken(x) \o x.body
    BY <1>6, <2>1, <2>6 DEF InHand, HeadTaken
  <2>12. NothingLost'
    <3>1. InHand' \o ToCome' = Expected'
      BY <1>5, <2>5, <2>7, <2>8, <2>9, <2>10, <2>11
    <3> QED  BY <3>1 DEF NothingLost
  <2>13. CASE r.done
    <3>1. rpc'[me] = "body" /\ readState_' = "READ_BODY"  BY <2>1, <2>6, <2>13
    <3>2. SearchInStep'  BY <3>1 DEF SearchInStep
    <3>3. Len(handled) < sending
      <4>1. Len(span) # 0  BY <1>2, <2>1, SpanType DEF span
      <4>2. Len(h \o (span \o tail)) # 0
        <5>1. span \o tail \in Seq(Plain) /\ Len(span \o tail) = Len(span) + Len(tail)
          BY <1>3, ConcatProperties
        <5>2. Len(h \o (span \o tail)) = Len(h) + Len(span \o tail)
          BY <1>3, <5>1, ConcatProperties
        <5>3. Len(h) \in Nat /\ Len(span) \in Nat /\ Len(tail) \in Nat  BY <1>3
        <5> QED  BY <4>1, <5>1, <5>2, <5>3
      <4>3. Expected # <<>>  BY <2>9, <4>2
      <4> QED  BY <4>3 DEF Expected
    <3>4. Raw(q) = HeadTaken(x) \o (rest \o tail)
      BY <2>8, <2>9, <3>3 DEF Expected
    <3>5. rest \o tail \in Seq(Plain)  BY <1>3, <2>8, ConcatProperties
    <3>6. /\ p.line = q.line /\ p.fields = q.fields
          /\ Len(RequestHead(q)) <= Len(HeadTaken(x))
      BY <1>3, <2>5, <2>8, <2>13, <3>4, <3>5, HeadAgrees
    <3>7. Len(q.body) = IF x.cl > 0 THEN x.cl ELSE 0
      <4>1. x.cl = Length(q.fields)  BY <2>5, <2>13, <3>6
      <4>2. FirstLength(q.fields) = 0 \/ q.fields[FirstLength(q.fields)] # "CLbad"
        BY <2>5, <2>13, <3>6
      <4>3. q \in Sendable /\ Announces(q)  BY <1>3
      <4> HIDE DEF q
      <4> QED  BY <4>1, <4>2, <4>3, BodyAnnounced
    <3>8. x.line = q.line  BY <2>5, <2>13, <3>6
    <3>9. HeadAsSent'
      BY <1>1, <2>6, <3>1, <3>3, <3>6, <3>7, <3>8 DEF HeadAsSent, HeadTaken
    <3> QED  BY <1>4, <2>12, <3>2, <3>9 DEF OrderInv
  <2>14. CASE ~r.done
    <3>1. rpc'[me] = "loop" /\ readState_' = "READ_HEADER"  BY <2>1, <2>6, <2>14
    <3>2. HeadAsSent'  BY <3>1 DEF HeadAsSent
    <3>3. SearchInStep'  BY <2>5, <2>6, <2>14 DEF SearchInStep, HeadTaken
    <3> QED  BY <1>4, <2>12, <3>2, <3>3 DEF OrderInv
  <2> QED  BY <2>13, <2>14
<1>10. CASE R!BodyStep(me)
  <2> DEFINE r == ConsumeBody(m, span)
             x == r.msg
             rest == SubSeq(span, r.n + 1, Len(span))
             part == SubSeq(span, 1, r.n)
  <2>1. /\ rpc[me] # "idle" /\ readState_ = "READ_BODY" /\ ~r.err
        /\ rmsg' = [rmsg EXCEPT ![me] = r.msg]
        /\ readBuffer_' = Consume(readBuffer_, r.n)
        /\ IF r.done
           THEN /\ readState_' = "START"
                /\ rpc' = [rpc EXCEPT ![me] = "idle"] /\ rret' = [rret EXCEPT ![me] = "OK"]
           ELSE /\ rpc' = [rpc EXCEPT ![me] = "loop"] /\ UNCHANGED <<readState_, rret>>
        /\ UNCHANGED inbox
    BY <1>10 DEF R!BodyStep, R!AtBody, R!Take, R!Return, R!ReadableSpan, ReadableSpan, R!Size,
                 Size, R!Consume, Consume, R!sockVars, span
  <2>2. m \in Headed  BY <1>2, <2>1
  <2>3. r.n \in 0 .. Len(span) /\ x \in RequestRecord
    BY <1>3, <2>2, ConsumeBodyType DEF Headed
  <2>4. /\ x.body = m.body \o part
        /\ x.hb = m.hb /\ x.idx = m.idx /\ x.line = m.line /\ x.cl = m.cl
        /\ r.done => (IF m.cl > 0 THEN m.cl ELSE 0) <= Len(x.body)
    BY <1>3, <2>1, <2>2, BodyConsumed
  <2>5. HeadTaken(x) = h  BY <2>4 DEF HeadTaken
  <2>6. /\ Len(handled) < sending
        /\ m.line = q.line /\ Len(RequestHead(q)) <= Len(h)
        /\ Len(q.body) = IF m.cl > 0 THEN m.cl ELSE 0
    BY <1>6, <2>1 DEF OrderInv, HeadAsSent
  <2> HIDE DEF r
  <2>7. /\ rmsg'[me] = x
        /\ r.done => rpc'[me] = "idle" /\ rret'[me] = "OK"
        /\ ~r.done => rpc'[me] = "loop"
    BY <1>2, <2>1
  <2>8. ToCome' = rest \o tail  BY <1>7, <2>1, <2>3
  <2>9. /\ rest \in Seq(Plain) /\ x.body \in Seq(Plain)
        /\ x.body \o (rest \o tail) = m.body \o (span \o tail)
    <3> DEFINE k == r.n
               b == m.body
    <3>1. b \in Seq(Plain) /\ span \in Seq(Plain) /\ tail \in Seq(Plain) /\ k \in 0 .. Len(span)
      BY <1>3, <2>3
    <3> HIDE DEF k, b
    <3>2. /\ SubSeq(span, k + 1, Len(span)) \in Seq(Plain)
          /\ b \o SubSeq(span, 1, k) \in Seq(Plain)
          /\ (b \o SubSeq(span, 1, k)) \o (SubSeq(span, k + 1, Len(span)) \o tail)
               = b \o (span \o tail)
      BY <3>1, CutMoved
    <3> QED  BY <2>4, <3>2 DEF k, b
  <2>10. rest \o tail \in Seq(Plain) /\ span \o tail \in Seq(Plain)
    BY <1>3, <2>9, ConcatProperties
  <2> HIDE DEF rest, m, h, x
  <2>11. (h \o x.body) \o (rest \o tail) = Expected
    <3> DEFINE y == rest \o tail
               z == span \o tail
    <3>1. /\ h \in Seq(Plain) /\ x.body \in Seq(Plain) /\ y \in Seq(Plain)
      BY <1>3, <2>9, <2>10
    <3>2. /\ h \in Seq(Plain) /\ m.body \in Seq(Plain) /\ z \in Seq(Plain)
      BY <1>3, <2>10
    <3>3. x.body \o y = m.body \o z  BY <2>9
    <3>4. (h \o m.body) \o z = Expected  BY <1>6, <2>1
    <3> HIDE DEF y, z
    <3>5. (h \o x.body) \o y = h \o (x.body \o y)  BY <3>1, Regrouped
    <3>6. (h \o m.body) \o z = h \o (m.body \o z)  BY <3>2, Regrouped
    <3>7. (h \o x.body) \o y = Expected  BY <3>3, <3>4, <3>5, <3>6
    <3> QED  BY <3>7 DEF y
  <2>12. InHand' = h \o x.body  BY <1>6, <2>1, <2>5, <2>7 DEF InHand, HeadTaken
  <2>13. NothingLost'  BY <1>5, <2>8, <2>11, <2>12 DEF NothingLost
  <2>14. CASE r.done
    <3>1. Len(q.body) <= Len(x.body)  BY <2>4, <2>6, <2>14
    <3>2. /\ RequestHead(q) \in Seq(Plain) /\ q.body \in Seq(Plain)
          /\ Raw(q) = RequestHead(q) \o q.body
      BY <1>3, RawParts
    <3>3. (h \o x.body) \o (rest \o tail) = RequestHead(q) \o q.body
      BY <2>6, <2>11, <3>2 DEF Expected
    <3>4. x.body = q.body /\ rest \o tail = <<>>
      <4>1. /\ h \in Seq(Plain) /\ x.body \in Seq(Plain) /\ rest \o tail \in Seq(Plain)
        BY <1>3, <2>9, <2>10
      <4> DEFINE y == rest \o tail
                 hq == RequestHead(q)
      <4> HIDE DEF q, y, hq
      <4>2. /\ y \in Seq(Plain) /\ hq \in Seq(Plain)
            /\ (h \o x.body) \o y = hq \o q.body /\ Len(hq) <= Len(h)
        BY <2>6, <3>2, <3>3, <4>1 DEF y, hq
      <4>3. x.body = q.body /\ y = <<>>
        BY <3>1, <3>2, <4>1, <4>2, SplitAgrees
      <4> QED  BY <4>3 DEF y
    <3>5. rpc'[me] = "idle" /\ readState_' = "START"  BY <2>1, <2>7, <2>14
    <3>6. SearchInStep'  BY <3>5 DEF SearchInStep
    <3>7. /\ x.line = q.line /\ Len(RequestHead(q)) <= Len(HeadTaken(x))
          /\ Len(q.body) = IF x.cl > 0 THEN x.cl ELSE 0
      BY <2>4, <2>5, <2>6
    <3>8. ToCome' = <<>>  BY <2>8, <3>4
    <3>9. HeadAsSent'
      BY <1>1, <2>6, <2>7, <3>4, <3>7, <3>8 DEF HeadAsSent, HeadTaken
    <3> QED  BY <1>4, <2>13, <3>6, <3>9 DEF OrderInv
  <2>15. CASE ~r.done
    <3>1. rpc'[me] = "loop" /\ readState_' = "READ_BODY"  BY <2>1, <2>7, <2>15
    <3>2. SearchInStep'  BY <3>1 DEF SearchInStep
    <3>3. /\ x.line = q.line /\ Len(RequestHead(q)) <= Len(HeadTaken(x))
          /\ Len(q.body) = IF x.cl > 0 THEN x.cl ELSE 0
      BY <2>4, <2>5, <2>6
    <3>4. HeadAsSent'
      BY <1>1, <2>6, <2>7, <3>1, <3>3 DEF HeadAsSent, HeadTaken
    <3> QED  BY <1>4, <2>13, <3>2, <3>4 DEF OrderInv
  <2> QED  BY <2>14, <2>15
<1>11. ASSUME R!MessageFails(me) \/ R!ReadFails(me)
       PROVE  OrderInv'
  <2>1. /\ rpc[me] # "idle" /\ rpc' = [rpc EXCEPT ![me] = "idle"]
        /\ \/ rret' = [rret EXCEPT ![me] = "INVALID_MESSAGE"]
           \/ rret' = [rret EXCEPT ![me] = "CONNECTION_ENDED"]
    BY <1>11 DEF R!MessageFails, R!ReadFails, R!AtBody, R!Return
  <2>2. rpc'[me] = "idle" /\ rret'[me] # "OK"  BY <1>2, <2>1
  <2>3. ~Alive'  BY <1>6, <2>1, <2>2 DEF Alive
  <2> QED  BY <1>4, <2>2, <2>3 DEF OrderInv, NothingLost, SearchInStep, HeadAsSent
<1>12. ASSUME NEW n \in 1 .. Cap, R!Receive(me, n)
       PROVE  OrderInv'
  <2> DEFINE s == SubSeq(inbox, 1, n)
             rest == SubSeq(inbox, n + 1, Len(inbox))
  <2>1. /\ rpc[me] = "await" /\ n \in 1 .. Len(inbox) /\ n <= Room(readBuffer_)
        /\ readBuffer_' = Commit(Filled(readBuffer_, s), n)
        /\ inbox' = rest
        /\ rpc' = [rpc EXCEPT ![me] = "loop"]
        /\ UNCHANGED <<readState_, rmsg, rret>>
    BY <1>12 DEF R!Receive, R!Received, R!Room, Room, R!Commit, Commit, R!Filled, Filled,
                R!CopiedIn, CopiedIn
  <2>2. s \in Seq(Byte) /\ Len(s) = n  BY <1>2, <2>1
  <2>3. rpc'[me] = "loop"  BY <1>2, <2>1
  <2>4. /\ s \in Seq(Plain) /\ rest \in Seq(Plain) /\ span \o s \in Seq(Plain)
        /\ (span \o s) \o (rest \o left) = span \o (inbox \o left)
    <3>1. /\ span \in Seq(Plain) /\ inbox \in Seq(Plain) /\ left \in Seq(Plain)
          /\ n \in 0 .. Len(inbox)
      BY <1>3, <2>1
    <3> QED  BY <3>1, CutMoved
  <2> HIDE DEF s, rest
  <2>5. ReadableSpan(readBuffer_)' = span \o s
    <3>1. ReadableSpan(Commit(Filled(readBuffer_, s), Len(s))) = ReadableSpan(readBuffer_) \o s
      BY <1>2, <2>1, <2>2, CommitAppends
    <3>2. ReadableSpan(readBuffer_)' = ReadableSpan(readBuffer_')  BY DEF ReadableSpan, Size
    <3> QED  BY <2>1, <2>2, <3>1, <3>2 DEF span
  <2>6. ToCome' = ToCome
    BY <1>1, <1>3, <2>1, <2>4, <2>5 DEF ToCome, tail
  <2> QED  BY <1>1, <2>1, <2>3, <2>6, PassedOn
<1> QED  BY <1>1, <1>8, <1>9, <1>10, <1>11, <1>12 DEF R!Resumed, R!Completes

(* A client has no more responses than requests were handled.                *)
LEMMA AnsweredHandled ==
  ASSUME Len(handled) \in Nat
  PROVE  Answered \in Nat /\ Answered <= Len(handled)
<1> DEFINE A == { k \in 1 .. Len(handled) : Len(Replies(k)) <= Len(wire) }
           N == 1 .. Len(handled)
<1>1. IsFiniteSet(N) /\ Cardinality(N) = Len(handled)
  <2> DEFINE n == Len(handled)
  <2>1. n \in Nat /\ n \in Int /\ 1 \in Int  OBVIOUS
  <2> HIDE DEF n
  <2>2. IsFiniteSet(1 .. n) /\ Cardinality(1 .. n) = IF 1 > n THEN 0 ELSE n - 1 + 1
    BY <2>1, FS_Interval
  <2> QED  BY <2>1, <2>2 DEF n
<1>2. A \subseteq N  OBVIOUS
<1> HIDE DEF A, N
<1>3. IsFiniteSet(A) /\ Cardinality(A) <= Cardinality(N)
  BY <1>1, <1>2, FS_Subset
<1>4. Cardinality(A) \in Nat  BY <1>3, FS_CardinalityType
<1> QED  BY <1>1, <1>3, <1>4 DEF Answered, A

LEMMA ClientInOrder == IInv /\ OrderInv /\ Lockstep /\ Client => OrderInv'
<1> SUFFICES ASSUME IInv, OrderInv, Lockstep, Client  PROVE OrderInv'
  OBVIOUS
<1> DEFINE span == ReadableSpan(readBuffer_)
<1>1. /\ span \in Seq(Plain) /\ inbox \in Seq(Plain) /\ left \in Seq(Plain)
      /\ inbox \o left \in Seq(Plain) /\ ToCome \in Seq(Plain) /\ InHand \in Seq(Plain)
      /\ sending \in Nat \ {0} /\ Len(handled) \in Nat
  BY OrderTypes
<1>2. ASSUME NEW n \in 1 .. Len(left), ClientSends(n)
      PROVE  OrderInv'
  <2> DEFINE s == SubSeq(left, 1, n)
             rest == SubSeq(left, n + 1, Len(left))
  <2>1. /\ inbox' = inbox \o s /\ left' = rest
        /\ UNCHANGED <<at, handled, script, sending>>
        /\ UNCHANGED <<readState_, readBuffer_, rpc, rmsg, rret>>
    BY <1>2 DEF ClientSends, R!Arrive, R!readVars, R!callVars, sessionVars
  <2>2. (inbox \o s) \o rest = inbox \o left
    <3>1. /\ inbox \in Seq(Plain) /\ left \in Seq(Plain) /\ <<>> \in Seq(Plain)
          /\ n \in 0 .. Len(left)
      BY <1>1
    <3>2. rest \in Seq(Plain) /\ (inbox \o s) \o (rest \o <<>>) = inbox \o (left \o <<>>)
      BY <3>1, CutMoved
    <3> HIDE DEF rest
    <3>3. rest \o <<>> = rest /\ left \o <<>> = left  BY <1>1, <3>2, ConcatEmptySeq
    <3> QED  BY <3>2, <3>3
  <2> HIDE DEF s, rest
  <2>3. ToCome' = ToCome  BY <2>1, <2>2 DEF ToCome, ReadableSpan, Size
  <2> QED  BY <2>1, <2>3, PassedOn
<1>3. CASE NextRequest
  <2>1. /\ left = <<>> /\ sending' = sending + 1 /\ left' = Raw(script[sending + 1])
        /\ habit.pipelines \/ Answered = sending
        /\ UNCHANGED <<at, handled, script>>
        /\ UNCHANGED <<readState_, readBuffer_, rpc, rmsg, rret, inbox>>
    BY <1>3 DEF NextRequest, sessionVars, readVars
  <2>2. Len(handled) = sending
    <3>1. Answered = sending  BY <2>1 DEF Lockstep
    <3>2. Len(handled) \in {sending - 1, sending}  BY DEF OrderInv, HandledSoFar
    <3> QED  BY <1>1, <3>1, <3>2, AnsweredHandled
  <2>3. HandledSoFar'
    <3>1. Len(handled)' \in {sending' - 1, sending'}  BY <1>1, <2>1, <2>2
    <3>2. \A i : Request(i)' = Request(i)  BY <2>1 DEF Request
    <3> QED  BY <2>1, <3>1, <3>2 DEF OrderInv, HandledSoFar
  <2>4. Alive' = Alive /\ InHand' = InHand
    BY <2>1 DEF Alive, InHand, HeadTaken
  <2>5. NothingLost'
    <3>1. ASSUME Alive  PROVE InHand' \o ToCome' = Expected'
      <4>1. InHand \o ToCome = <<>>
        BY <1>1, <2>2, <3>1 DEF OrderInv, NothingLost, Expected
      <4>2. InHand = <<>> /\ ToCome = <<>>  BY <1>1, <4>1, NothingInBoth
      <4>3. span = <<>> /\ inbox \o left = <<>>
        BY <1>1, <4>2, NothingInBoth DEF ToCome
      <4>4. inbox = <<>>  BY <1>1, <4>3, NothingInBoth
      <4>5. Expected' = left'
        BY <1>1, <2>1, <2>2 DEF Expected
      <4>6. ToCome' = <<>> \o (<<>> \o left')
        BY <2>1, <4>3, <4>4 DEF ToCome, ReadableSpan, Size
      <4>7. left' \in Seq(Plain)
        <5>1. IInv'  BY ClientKeeps
        <5> QED  BY <5>1 DEF IInv, ClientInv
      <4>8. <<>> \o left' = left'  BY <4>7, ConcatEmptySeq
      <4> QED  BY <2>4, <4>2, <4>5, <4>6, <4>8
    <3> QED  BY <2>4, <3>1 DEF NothingLost
  <2>6. SearchInStep'  BY <2>1 DEF OrderInv, SearchInStep, HeadTaken
  <2>7. HeadAsSent'  BY <1>1, <2>1, <2>2, <2>4 DEF OrderInv, HeadAsSent
  <2> QED  BY <2>3, <2>5, <2>6, <2>7 DEF OrderInv
<1> QED  BY <1>2, <1>3 DEF Client

LEMMA NextInOrder ==
  IInv /\ (Lockstep => OrderInv) /\ [Next]_vars => (Lockstep => OrderInv)'
<1> SUFFICES ASSUME IInv, Lockstep => OrderInv, [Next]_vars, Lockstep'  PROVE OrderInv'
  OBVIOUS
<1>1. habit' = habit
  BY DEF Next, Session, StartRead, InRead, ReadReturns, Handle, InWrite, WriteReturns, Client,
         ClientSends, NextRequest, ClientLeaves, vars, clientVars
<1>2. Lockstep /\ OrderInv  BY <1>1 DEF Lockstep
<1>3. ASSUME UNCHANGED <<at, handled, script, sending, readState_, rmsg, rret, rpc>>,
             UNCHANGED <<readBuffer_, inbox, left>>
      PROVE  OrderInv'
  <2>1. ToCome' = ToCome  BY <1>3 DEF ToCome, ReadableSpan, Size
  <2> QED  BY <1>2, <1>3, <2>1, PassedOn
<1>4. CASE Handle \/ WriteReturns
  <2>1. /\ UNCHANGED <<handled, script, sending, readBuffer_, inbox, left>>
        /\ at \in {"loop", "handle", "write"} /\ at' \in {"loop", "handle", "write", "closed"}
    BY <1>4 DEF Handle, WriteReturns, readVars, clientVars
  <2> QED  BY <1>2, <2>1, OutsideRead
<1>5. CASE InWrite
  <2>1. /\ UNCHANGED <<at, handled, script, sending, readState_, rmsg, rret, rpc>>
        /\ UNCHANGED <<readBuffer_, inbox, left>>
    BY <1>5 DEF InWrite, sessionVars, readVars, clientVars
  <2> QED  BY <1>3, <2>1
<1>6. CASE ClientLeaves
  <2>1. /\ UNCHANGED <<at, handled, script, sending, readState_, rmsg, rret, rpc>>
        /\ UNCHANGED <<readBuffer_, inbox, left>>
    BY <1>6 DEF ClientLeaves, R!PeerEnds, R!readVars, R!callVars, sessionVars, clientVars
  <2> QED  BY <1>3, <2>1
<1>7. CASE UNCHANGED vars
  <2>1. /\ UNCHANGED <<at, handled, script, sending, readState_, rmsg, rret, rpc>>
        /\ UNCHANGED <<readBuffer_, inbox, left>>
    BY <1>7 DEF vars, sessionVars, readVars, clientVars
  <2> QED  BY <1>3, <2>1
<1> QED
  BY <1>2, <1>4, <1>5, <1>6, <1>7, StartReadInOrder, InReadInOrder, ReadReturnsInOrder,
     ClientInOrder DEF Next, Session

(* A client that waits for its responses has its requests handled in its      *)
(* order, each at most once and with the body it sent: whatever it sends,     *)
(* however the stream is cut, whatever the head buffer held before and even   *)
(* when the end of a head is overlooked.                                    *)
THEOREM RequestsHandledAsSent == Spec => []HandledAsSent
<1>1. Init => (Lockstep => OrderInv)  BY OrderInit
<1>2. IInv /\ (Lockstep => OrderInv) => HandledAsSent
  <2> SUFFICES ASSUME IInv, Lockstep => OrderInv, Lockstep
               PROVE  /\ Len(handled) <= Len(script)
                      /\ \A i \in 1 .. Len(handled) : handled[i] = Request(i)
    BY DEF HandledAsSent
  <2>1. HandledSoFar  BY DEF OrderInv
  <2>2. sending \in 1 .. Len(script) /\ Len(script) \in Nat
    BY ScriptAssumption DEF IInv, ClientInv
  <2> QED  BY <2>1, <2>2 DEF HandledSoFar
<1> QED  BY <1>1, <1>2, NextInOrder, Invariance, PTL DEF Spec

-------------------------------------------------------------------------------
(* A request without a body, and the search for the end of a head over it.    *)
LEMMA Joined ==
  ASSUME NEW a \in Seq(Plain), NEW b \in Seq(Plain)
  PROVE  /\ a \o b \in Seq(Plain) /\ Len(a \o b) = Len(a) + Len(b)
         /\ Len(a) \in Nat /\ Len(b) \in Nat
         /\ \A i \in 1 .. Len(a) : (a \o b)[i] = a[i]
         /\ \A i \in 1 .. Len(b) : (a \o b)[Len(a) + i] = b[i]
<1> DEFINE c == a \o b
<1>1. /\ c \in Seq(Plain) /\ Len(c) = Len(a) + Len(b)
      /\ \A i \in 1 .. Len(a) + Len(b) : c[i] = IF i <= Len(a) THEN a[i] ELSE b[i - Len(a)]
  BY ConcatProperties
<1>2. Len(a) \in Nat /\ Len(b) \in Nat  OBVIOUS
<1> HIDE DEF c
<1>3. \A i \in 1 .. Len(a) : c[i] = a[i]  BY <1>1, <1>2
<1>4. ASSUME NEW i \in 1 .. Len(b)
      PROVE  c[Len(a) + i] = b[i]
  <2> DEFINE k == Len(a) + i
  <2>1. k \in 1 .. Len(a) + Len(b) /\ ~(k <= Len(a)) /\ k - Len(a) = i  BY <1>2
  <2> HIDE DEF k
  <2>2. c[k] = b[i]  BY <1>1, <2>1
  <2> QED  BY <2>2 DEF k
<1> QED  BY <1>1, <1>2, <1>3, <1>4 DEF c

(* Counting in threes. *)
LEMMA Thirds ==
  ASSUME NEW x \in Nat, x % 3 = 0
  PROVE  (x + 1) % 3 = 1 /\ (x + 2) % 3 = 2 /\ (x + 3) % 3 = 0
OBVIOUS

(* Which byte of a line or of its end is the n-th of some lines. *)
LineToken(b, n) ==
  IF n % 3 = 1 THEN b \notin {"CR", "LF"} ELSE b = IF n % 3 = 2 THEN "CR" ELSE "LF"

LEMMA LineAppended ==
  ASSUME NEW s \in Seq(Plain), NEW b \in Plain, b \notin {"CR", "LF"}, Len(s) % 3 = 0,
         \A n \in 1 .. Len(s) : LineToken(s[n], n)
  PROVE  LET t == s \o <<b, "CR", "LF">> IN
         /\ t \in Seq(Plain) /\ Len(t) = Len(s) + 3 /\ Len(t) % 3 = 0
         /\ \A n \in 1 .. Len(t) : LineToken(t[n], n)
<1> DEFINE e == <<b, "CR", "LF">>
           t == s \o e
<1>1. /\ e \in Seq(Plain) /\ Len(e) = 3 /\ e[1] = b /\ e[2] = "CR" /\ e[3] = "LF"
  BY PlainTokens
<1> HIDE DEF e
<1>2. /\ t \in Seq(Plain) /\ Len(t) = Len(s) + 3 /\ Len(s) \in Nat
      /\ \A n \in 1 .. Len(s) : t[n] = s[n]
      /\ \A n \in 1 .. 3 : t[Len(s) + n] = e[n]
  <2>1. /\ t \in Seq(Plain) /\ Len(t) = Len(s) + Len(e) /\ Len(s) \in Nat
        /\ \A n \in 1 .. Len(s) : t[n] = s[n]
        /\ \A n \in 1 .. Len(e) : t[Len(s) + n] = e[n]
    BY <1>1, Joined
  <2> QED  BY <1>1, <2>1
<1> HIDE DEF t
<1>3. /\ (Len(s) + 1) % 3 = 1 /\ (Len(s) + 2) % 3 = 2 /\ (Len(s) + 3) % 3 = 0
  BY <1>2, Thirds
<1>4. /\ t[Len(s) + 1] = b /\ t[Len(s) + 2] = "CR" /\ t[Len(s) + 3] = "LF"
  BY <1>1, <1>2
<1>5. ASSUME NEW n \in 1 .. Len(s) + 3
      PROVE  LineToken(t[n], n)
  <2>1. CASE n \in 1 .. Len(s)
    BY <1>2, <2>1
  <2>2. CASE n = Len(s) + 1
    <3>1. n % 3 = 1 /\ t[n] = b  BY <1>3, <1>4, <2>2
    <3> QED  BY <3>1 DEF LineToken
  <2>3. CASE n = Len(s) + 2
    <3>1. n % 3 = 2 /\ t[n] = "CR"  BY <1>3, <1>4, <2>3
    <3> QED  BY <3>1 DEF LineToken
  <2>4. CASE n = Len(s) + 3
    <3>1. n % 3 = 0 /\ t[n] = "LF"  BY <1>3, <1>4, <2>4
    <3> QED  BY <3>1 DEF LineToken
  <2> QED  BY <1>2, <2>1, <2>2, <2>3, <2>4
<1> QED  BY <1>2, <1>3, <1>5 DEF t, e

(* The request line and the fields of a request are lines. *)
LEMMA LinesOf ==
  ASSUME NEW l \in Line, NEW fs \in Seq(PlainField)
  PROVE  LET s == <<l, "CR", "LF">> \o FieldLines(fs) IN
         /\ s \in Seq(Plain) /\ Len(s) >= 3 /\ Len(s) % 3 = 0
         /\ \A n \in 1 .. Len(s) : LineToken(s[n], n)
<1> DEFINE a == <<l, "CR", "LF">>
           S(k) == a \o FieldLines(SubSeq(fs, 1, k))
           Good(s) == /\ s \in Seq(Plain) /\ Len(s) >= 3 /\ Len(s) % 3 = 0
                      /\ \A n \in 1 .. Len(s) : LineToken(s[n], n)
           T == {k \in Nat : k <= Len(fs) => Good(S(k))}
<1>0. a \in Seq(Plain) /\ l \in Plain /\ l \notin {"CR", "LF"}  BY PlainTokens
<1>1. 0 \in T
  <2>1. SubSeq(fs, 1, 0) = <<>>  OBVIOUS
  <2>2. FieldLines(<<>>) = <<>>
    <3> DEFINE none == <<>>
               q == [i \in 1 .. Len(none) |-> <<none[i], "CR", "LF">>]
    <3>1. q = <<>>  OBVIOUS
    <3>2. FieldLines(none) = FlattenSeq(q)  BY DEF FieldLines
    <3> HIDE DEF q
    <3>3. Len(q) = 0  BY <3>1
    <3>4. FlattenSeq(q) = q  BY <3>3 DEF FlattenSeq
    <3> QED  BY <3>1, <3>2, <3>4
  <2>3. S(0) = a  BY <1>0, <2>1, <2>2, ConcatEmptySeq
  <2>4. Good(a)
    <3> DEFINE s == <<>>
    <3>1. s \in Seq(Plain) /\ Len(s) = 0  OBVIOUS
    <3>2. Len(s) % 3 = 0 /\ \A n \in 1 .. Len(s) : LineToken(s[n], n)  BY <3>1
    <3>3. s \o a = a  BY <1>0, ConcatEmptySeq
    <3> HIDE DEF s
    <3>4. LET t == s \o <<l, "CR", "LF">> IN
          /\ t \in Seq(Plain) /\ Len(t) = Len(s) + 3 /\ Len(t) % 3 = 0
          /\ \A n \in 1 .. Len(t) : LineToken(t[n], n)
      BY <1>0, <3>1, <3>2, LineAppended
    <3> QED  BY <3>1, <3>3, <3>4
  <2> HIDE DEF Good, S
  <2> QED  BY <2>3, <2>4
<1>2. ASSUME NEW k \in Nat, k \in T
      PROVE  k + 1 \in T
  <2> SUFFICES ASSUME k + 1 <= Len(fs)  PROVE Good(S(k + 1))
    OBVIOUS
  <2> DEFINE u == SubSeq(fs, 1, k)
             f == fs[k + 1]
             e == <<f, "CR", "LF">>
  <2>1. Good(S(k))  BY <1>2
  <2>2. u \in Seq(PlainField) /\ f \in PlainField /\ SubSeq(fs, 1, k + 1) = Append(u, f)
    BY OneMore
  <2> HIDE DEF u, f
  <2>3. FieldLines(u) \in Seq(Plain) /\ f \in Plain /\ f \notin {"CR", "LF"}
    BY <2>2, FieldLinesType, PlainTokens
  <2>4. e \in Seq(Plain)  BY <2>3, PlainTokens
  <2>5. S(k + 1) = a \o (FieldLines(u) \o e)  BY <2>2, OneFieldMore
  <2> HIDE DEF e, a
  <2>6. a \o (FieldLines(u) \o e) = (a \o FieldLines(u)) \o e
    <3>1. (a \o FieldLines(u)) \o e = a \o (FieldLines(u) \o e)
      BY <1>0, <2>3, <2>4, Regrouped
    <3> QED  BY <3>1
  <2>7. S(k + 1) = S(k) \o e  BY <2>5, <2>6 DEF u
  <2> DEFINE x == S(k)
             t == x \o e
  <2>8. x \in Seq(Plain) /\ Len(x) >= 3 /\ Len(x) % 3 = 0 /\ Len(x) \in Nat
        /\ \A n \in 1 .. Len(x) : LineToken(x[n], n)
    BY <2>1
  <2> HIDE DEF S, x
  <2>9. /\ t \in Seq(Plain) /\ Len(t) = Len(x) + 3 /\ Len(t) % 3 = 0
        /\ \A n \in 1 .. Len(t) : LineToken(t[n], n)
    BY <2>3, <2>8, LineAppended DEF e
  <2> HIDE DEF t
  <2>10. Good(t)  BY <2>8, <2>9
  <2> QED  BY <2>7, <2>10 DEF t, x
<1>3. Nat \subseteq T
  <2> HIDE DEF T
  <2> QED  BY <1>1, <1>2, Induction
<1>4. Len(fs) \in T /\ Len(fs) \in Nat /\ SubSeq(fs, 1, Len(fs)) = fs
  <2> HIDE DEF T
  <2>1. Len(fs) \in Nat  OBVIOUS
  <2>2. SubSeq(fs, 1, Len(fs)) = fs  BY SubSeqFull
  <2> QED  BY <1>3, <2>1, <2>2
<1>5. S(Len(fs)) = <<l, "CR", "LF">> \o FieldLines(fs)  BY <1>4
<1> HIDE DEF S
<1>6. Good(S(Len(fs)))  BY <1>4
<1> QED  BY <1>5, <1>6

(* The bytes of a request without a body.                                    *)
LEMMA RawTokens ==
  ASSUME NEW r \in Sendable, r.body = <<>>
  PROVE  LET s == Raw(r) IN
         /\ s \in Seq(Plain) /\ Len(s) \in Nat /\ Len(s) >= 5 /\ Len(s) % 3 = 2
         /\ \A n \in 1 .. Len(s) - 2 : LineToken(s[n], n)
         /\ s[Len(s) - 1] = "CR" /\ s[Len(s)] = "LF"
         /\ s = RequestHead(r)
<1> DEFINE a == <<r.line, "CR", "LF">> \o FieldLines(r.fields)
           e == <<"CR", "LF">>
           s == a \o e
<1>1. /\ a \in Seq(Plain) /\ Len(a) >= 3 /\ Len(a) % 3 = 0 /\ Len(a) \in Nat
      /\ \A n \in 1 .. Len(a) : LineToken(a[n], n)
  <2>1. r.line \in Line /\ r.fields \in Seq(PlainField)  BY DEF Sendable
  <2> QED  BY <2>1, LinesOf
<1>2. e \in Seq(Plain) /\ Len(e) = 2 /\ e[1] = "CR" /\ e[2] = "LF"  BY PlainTokens
<1>3. RequestHead(r) = s  BY DEF RequestHead
<1> HIDE DEF a, e
<1>4. /\ s \in Seq(Plain) /\ Len(s) = Len(a) + 2
      /\ \A n \in 1 .. Len(a) : s[n] = a[n]
      /\ s[Len(a) + 1] = "CR" /\ s[Len(a) + 2] = "LF"
  <2>1. /\ s \in Seq(Plain) /\ Len(s) = Len(a) + Len(e)
        /\ \A n \in 1 .. Len(a) : s[n] = a[n]
        /\ \A n \in 1 .. Len(e) : s[Len(a) + n] = e[n]
    BY <1>1, <1>2, Joined
  <2> HIDE DEF s
  <2> QED  BY <1>2, <2>1
<1> HIDE DEF s
<1>5. Raw(r) = s
  <2>1. Raw(r) = RequestHead(r) \o r.body  BY RawParts
  <2>2. s \o <<>> = s  BY <1>4, ConcatEmptySeq
  <2> QED  BY <1>3, <2>1, <2>2
<1>6. Len(s) \in Nat /\ Len(s) >= 5 /\ Len(s) % 3 = 2
  <2>1. (Len(a) + 2) % 3 = 2  BY <1>1, Thirds
  <2> QED  BY <1>1, <1>4, <2>1
<1>7. \A n \in 1 .. Len(s) - 2 : LineToken(s[n], n)
  <2> TAKE n \in 1 .. Len(s) - 2
  <2>1. n \in 1 .. Len(a)  BY <1>1, <1>4
  <2> QED  BY <1>1, <1>4, <2>1
<1>8. s[Len(s) - 1] = "CR" /\ s[Len(s)] = "LF"
  <2>1. Len(s) - 1 = Len(a) + 1 /\ Len(s) = Len(a) + 2  BY <1>1, <1>4
  <2> QED  BY <1>4, <2>1
<1> QED  BY <1>3, <1>4, <1>5, <1>6, <1>7, <1>8

(* How many bytes of line ends in a row there are behind the first n bytes of *)
(* a request of len bytes that has no body.                                 *)
Counted(n, len) == IF n = len - 1 THEN 3 ELSE (n + 2) % 3

(* The search stands behind the first n bytes of request r, n > 0.            *)
WithinRequest(r, n, last, found) ==
  n \in 1 .. Len(Raw(r)) - 1 /\ last = Raw(r)[n] /\ found = Counted(n, Len(Raw(r)))

(* From the beginning of a request the search may come with any count.        *)
LEMMA SearchMoves ==
  ASSUME NEW r \in Sendable, r.body = <<>>, NEW c \in Scanned,
         NEW n \in 0 .. Len(Raw(r)) - 1,
         n > 0 => WithinRequest(r, n, c.last, c.found)
  PROVE  LET d == ScanByte(c, Raw(r)[n + 1]) IN
         /\ n + 1 < Len(Raw(r)) => /\ WithinRequest(r, n + 1, d.last, d.found)
                                   /\ ~HeadEnds(d.found)
         /\ n + 1 = Len(Raw(r)) => HeadEnds(d.found)
<1> DEFINE s == Raw(r)
           L == Len(s)
           b == s[n + 1]
           d == ScanByte(c, b)
<1>1. /\ L \in Nat /\ L >= 5 /\ L % 3 = 2
      /\ \A k \in 1 .. L - 2 : LineToken(s[k], k)
      /\ s[L - 1] = "CR" /\ s[L] = "LF"
  BY RawTokens
<1>2. /\ d.last = b
      /\ d.found = IF EndsLine(c.last, b) THEN (c.found + 1) % 256 ELSE 0
  BY DEF ScanByte
<1>3. n > 0 => n \in 1 .. L - 1 /\ c.last = s[n] /\ c.found = Counted(n, L)
  BY DEF WithinRequest
<1>4. n \in Nat /\ n + 1 <= L  BY <1>1
<1> HIDE DEF s, L, b, d
<1>5. ASSUME n + 1 = L
      PROVE  HeadEnds(d.found)
  <2>1. b = "LF" /\ c.last = "CR" /\ c.found = 3
    <3>1. n = L - 1 /\ n > 0  BY <1>1, <1>4, <1>5
    <3> QED  BY <1>1, <1>3, <1>5, <3>1 DEF b, Counted
  <2> QED  BY <1>2, <1>5, <2>1, <1>4 DEF EndsLine, HeadEnds
<1>6. ASSUME n + 1 = L - 1
      PROVE  d.found = Counted(n + 1, L) /\ ~HeadEnds(d.found)
  <2>1. n = L - 2 /\ n > 0 /\ n \in 1 .. L - 2 /\ n % 3 = 0  BY <1>1, <1>4, <1>6
  <2>2. b = "CR" /\ c.last = "LF" /\ c.found = 2
    <3>1. c.last = "LF"  BY <1>1, <1>3, <2>1 DEF LineToken
    <3>2. c.found = 2
      <4>1. Counted(n, L) = 2  BY <1>1, <2>1 DEF Counted
      <4> QED  BY <1>3, <2>1, <4>1
    <3>3. b = "CR"  BY <1>1, <1>6 DEF b
    <3> QED  BY <3>1, <3>2, <3>3
  <2>3. d.found = 3  BY <1>2, <2>2 DEF EndsLine
  <2>4. Counted(n + 1, L) = 3 /\ n + 1 # L  BY <1>1, <1>6 DEF Counted
  <2> QED  BY <2>3, <2>4 DEF HeadEnds
<1>7. ASSUME n + 1 <= L - 2
      PROVE  d.found = Counted(n + 1, L) /\ ~HeadEnds(d.found)
  <2>1. n + 1 \in 1 .. L - 2 /\ n + 1 # L - 1 /\ n + 1 # L  BY <1>1, <1>4, <1>7
  <2>2. LineToken(b, n + 1)  BY <1>1, <2>1 DEF b
  <2>3. n > 0 => n \in 1 .. L - 2 /\ n # L - 1  BY <1>1, <1>4, <1>7
  <2>4. n > 0 => LineToken(c.last, n) /\ c.found = (n + 2) % 3
    <3>1. n > 0 => Counted(n, L) = (n + 2) % 3  BY <2>3 DEF Counted
    <3> QED  BY <1>1, <1>3, <2>3, <3>1
  <2>5. Counted(n + 1, L) = (n + 3) % 3
    <3>1. n + 1 + 2 = n + 3  BY <1>4
    <3> QED  BY <2>1, <3>1 DEF Counted
  <2>6. d.found = (n + 3) % 3
    <3>1. CASE (n + 1) % 3 = 1
      <4>1. b \notin {"CR", "LF"}  BY <2>2, <3>1 DEF LineToken
      <4>2. d.found = 0  BY <1>2, <4>1 DEF EndsLine
      <4>3. (n + 3) % 3 = 0  BY <1>4, <3>1
      <4> QED  BY <4>2, <4>3
    <3>2. CASE (n + 1) % 3 = 2
      <4>1. n > 0 /\ n % 3 = 1 /\ (n + 2) % 3 = 0 /\ (n + 3) % 3 = 1  BY <1>4, <3>2
      <4>2. b = "CR" /\ c.last # "CR" /\ c.found = 0
        BY <2>2, <2>4, <3>2, <4>1 DEF LineToken
      <4>3. d.found = 1  BY <1>2, <4>2 DEF EndsLine
      <4> QED  BY <4>1, <4>3
    <3>3. CASE (n + 1) % 3 = 0
      <4>1. n > 0 /\ n % 3 = 2 /\ (n + 2) % 3 = 1 /\ (n + 3) % 3 = 2  BY <1>4, <3>3
      <4>2. b = "LF" /\ c.last = "CR" /\ c.found = 1
        BY <2>2, <2>4, <3>3, <4>1 DEF LineToken
      <4>3. d.found = 2  BY <1>2, <4>2 DEF EndsLine
      <4> QED  BY <4>1, <4>3
    <3> QED  BY <1>4, <3>1, <3>2, <3>3
  <2>7. (n + 3) % 3 # 4  BY <1>4
  <2> QED  BY <2>1, <2>5, <2>6, <2>7 DEF HeadEnds
<1>8. /\ n + 1 < L => d.found = Counted(n + 1, L) /\ ~HeadEnds(d.found)
      /\ n + 1 = L => HeadEnds(d.found)
  BY <1>1, <1>4, <1>5, <1>6, <1>7
<1>9. n + 1 < L => n + 1 \in 1 .. L - 1  BY <1>1, <1>4
<1>10. n + 1 < L => WithinRequest(r, n + 1, d.last, d.found)
  BY <1>2, <1>8, <1>9 DEF WithinRequest, L, s, b
<1> QED  BY <1>8, <1>10 DEF L, s, b, d

-------------------------------------------------------------------------------
(* A client whose requests have no bodies, and what it sends up to its n-th.  *)
Bodiless == \A i \in 1 .. Len(script) : script[i].body = <<>>
Stream(n) == FlattenSeq([i \in 1 .. n |-> Raw(script[i])])

LEMMA StreamBegins == Stream(0) = <<>>
<1> DEFINE q == [i \in 1 .. 0 |-> Raw(script[i])]
<1>1. q = <<>>  OBVIOUS
<1> HIDE DEF q
<1>2. Len(q) = 0  BY <1>1
<1>3. FlattenSeq(q) = q  BY <1>2 DEF FlattenSeq
<1> QED  BY <1>1, <1>3 DEF Stream, q

LEMMA StreamGoesOn ==
  ASSUME ClientInv, NEW n \in Nat, n + 1 <= Len(script)
  PROVE  Stream(n) \in Seq(Plain) /\ Stream(n + 1) = Stream(n) \o Raw(script[n + 1])
<1> DEFINE q == [i \in 1 .. n |-> Raw(script[i])]
           p == [i \in 1 .. n + 1 |-> Raw(script[i])]
           x == Raw(script[n + 1])
<1>1. Len(script) \in Nat /\ \A i \in 1 .. n + 1 : Raw(script[i]) \in Seq(Plain)
  <2>1. Len(script) \in Nat  BY ScriptAssumption DEF ClientInv
  <2>2. \A i \in 1 .. Len(script) : Raw(script[i]) \in Seq(Plain)  BY ScriptType
  <2> QED  BY <2>1, <2>2
<1> DEFINE f(i) == Raw(script[i])
<1>2. q \in Seq(Seq(Plain)) /\ Len(q) = n /\ p \in Seq(Seq(Plain)) /\ Len(p) = n + 1
      /\ x \in Seq(Plain)
  <2>1. \A i \in 1 .. n + 1 : f(i) \in Seq(Plain)  BY <1>1
  <2>2. n \in Nat /\ n + 1 \in Nat /\ n + 1 \in 1 .. n + 1  OBVIOUS
  <2> HIDE DEF f
  <2>3. /\ [i \in 1 .. n |-> f(i)] \in Seq(Seq(Plain)) /\ Len([i \in 1 .. n |-> f(i)]) = n
        /\ [i \in 1 .. n + 1 |-> f(i)] \in Seq(Seq(Plain))
        /\ Len([i \in 1 .. n + 1 |-> f(i)]) = n + 1
        /\ f(n + 1) \in Seq(Plain)
    BY <2>1, <2>2
  <2> QED  BY <2>3 DEF f
<1>3. p = Append(q, x)
  <2> DEFINE a == Append(q, x)
  <2>1. /\ a \in Seq(Seq(Plain)) /\ Len(a) = Len(q) + 1
        /\ \A i \in 1 .. Len(q) : a[i] = q[i]
        /\ a[Len(q) + 1] = x
    <3> HIDE DEF q, x
    <3> QED  BY <1>2, AppendProperties
  <2>2. \A i \in 1 .. n : q[i] = p[i]  OBVIOUS
  <2>3. p[n + 1] = x  OBVIOUS
  <2> HIDE DEF p, q, a, x
  <2>4. ASSUME NEW i \in 1 .. n + 1  PROVE p[i] = a[i]
    <3>1. CASE i = n + 1  BY <1>2, <2>1, <2>3, <3>1
    <3>2. CASE i # n + 1
      <4>1. i \in 1 .. n  BY <3>2
      <4> QED  BY <1>2, <2>1, <2>2, <4>1
    <3> QED  BY <3>1, <3>2
  <2>5. p = a  BY <1>2, <2>1, <2>4, SeqEqual
  <2> QED  BY <2>5 DEF a
<1> HIDE DEF p, q, x
<1>4. FlattenSeq(p) = FlattenSeq(q) \o x  BY <1>2, <1>3, FlattenAppend
<1>5. FlattenSeq(q) \in Seq(Plain)  BY <1>2, FlattenType
<1> QED  BY <1>4, <1>5 DEF Stream, p, q, x

LEMMA StreamType ==
  ASSUME ClientInv, NEW n \in 0 .. Len(script)
  PROVE  Stream(n) \in Seq(Plain) /\ Len(Stream(n)) \in Nat /\ Len(script) \in Nat
<1>1. Len(script) \in Nat  BY ScriptAssumption DEF ClientInv
<1>2. Stream(n) \in Seq(Plain)
  <2>1. CASE n = 0
    <3>1. <<>> \in Seq(Plain)  OBVIOUS
    <3> QED  BY <2>1, <3>1, StreamBegins
  <2>2. CASE n # 0
    <3> DEFINE k == n - 1
    <3>1. k \in Nat /\ k + 1 <= Len(script) /\ k + 1 = n /\ n \in 1 .. Len(script)
      BY <1>1, <2>2
    <3> HIDE DEF k
    <3>2. Stream(k) \in Seq(Plain) /\ Stream(k + 1) = Stream(k) \o Raw(script[k + 1])
      BY <3>1, StreamGoesOn
    <3>3. Raw(script[k + 1]) \in Seq(Plain)  BY <3>1, ScriptType
    <3>4. Stream(k + 1) \in Seq(Plain)  BY <3>2, <3>3, Joined
    <3> QED  BY <3>1, <3>4
  <2> QED  BY <2>1, <2>2
<1> QED  BY <1>1, <1>2

(* What is sent up to one request begins what is sent up to a later one.      *)
LEMMA StreamContinued ==
  ASSUME ClientInv, NEW i \in 0 .. Len(script), NEW j \in i .. Len(script)
  PROVE  \E rest \in Seq(Plain) : Stream(j) = Stream(i) \o rest
<1> DEFINE T == {k \in Nat : i + k <= Len(script) =>
                   \E rest \in Seq(Plain) : Stream(i + k) = Stream(i) \o rest}
<1>0. /\ Len(script) \in Nat /\ Stream(i) \in Seq(Plain) /\ i \in Nat /\ j \in Nat
      /\ j - i \in Nat /\ i + (j - i) = j /\ j <= Len(script)
  BY StreamType
<1>1. 0 \in T
  <2>1. Stream(i) = Stream(i) \o <<>>  BY <1>0, ConcatEmptySeq
  <2>2. <<>> \in Seq(Plain) /\ i + 0 = i  BY <1>0
  <2>3. \E rest \in Seq(Plain) : Stream(i + 0) = Stream(i) \o rest
    BY <2>1, <2>2
  <2> QED  BY <2>3
<1>2. ASSUME NEW k \in Nat, k \in T
      PROVE  k + 1 \in T
  <2> SUFFICES ASSUME i + (k + 1) <= Len(script)
               PROVE  \E rest \in Seq(Plain) : Stream(i + (k + 1)) = Stream(i) \o rest
    OBVIOUS
  <2> DEFINE n == i + k
  <2>1. n \in Nat /\ n + 1 <= Len(script) /\ n + 1 = i + (k + 1) /\ n <= Len(script)
        /\ n + 1 \in 1 .. Len(script)
    BY <1>0
  <2>2. PICK rest \in Seq(Plain) : Stream(n) = Stream(i) \o rest
    BY <1>2, <2>1
  <2> HIDE DEF n
  <2> DEFINE x == Raw(script[n + 1])
  <2>3. x \in Seq(Plain)  BY <2>1, ScriptType
  <2>4. Stream(n + 1) = Stream(n) \o x  BY <2>1, StreamGoesOn
  <2> HIDE DEF x
  <2>5. (Stream(i) \o rest) \o x = Stream(i) \o (rest \o x)
    BY <1>0, <2>3, Regrouped
  <2>6. rest \o x \in Seq(Plain)  BY <2>3, Joined
  <2>7. Stream(n + 1) = Stream(i) \o (rest \o x)  BY <2>2, <2>4, <2>5
  <2> QED  BY <2>1, <2>6, <2>7
<1>3. Nat \subseteq T
  <2> HIDE DEF T
  <2> QED  BY <1>1, <1>2, Induction
<1>4. j - i \in T  BY <1>0, <1>3
<1> QED  BY <1>0, <1>4

(* Where the bytes of a request are in what is sent.                         *)
LEMMA StreamHolds ==
  ASSUME ClientInv, Bodiless, NEW k \in 1 .. Len(script), NEW j \in 0 .. k - 1
  PROVE  LET s == Raw(script[j + 1]) a == Stream(j) u == Stream(k) IN
         /\ script[j + 1] \in Sendable /\ script[j + 1].body = <<>>
         /\ Announces(script[j + 1])
         /\ Stream(j + 1) = a \o s /\ s \in Seq(Plain)
         /\ Len(Stream(j + 1)) = Len(a) + Len(s) /\ Len(s) \in Nat /\ Len(s) >= 5
         /\ Len(Stream(j + 1)) <= Len(u)
         /\ \A n \in 1 .. Len(s) : u[Len(a) + n] = s[n]
<1> DEFINE s == Raw(script[j + 1])
           a == Stream(j)
           u == Stream(k)
           b == Stream(j + 1)
           r == script[j + 1]
<1>1. /\ Len(script) \in Nat /\ j \in Nat /\ j + 1 <= Len(script) /\ j + 1 \in 1 .. Len(script)
      /\ j + 1 \in 0 .. Len(script) /\ k \in j + 1 .. Len(script) /\ j \in 0 .. Len(script)
  BY StreamType
<1>2. r \in Sendable /\ r.body = <<>> /\ Announces(r)
  <2>1. script \in Seq(Sendable)  BY ScriptAssumption DEF ClientInv, Sendable
  <2>2. script \in Script  BY DEF ClientInv
  <2> QED  BY <1>1, <2>1, <2>2, LengthAssumption DEF Bodiless
<1>3. s \in Seq(Plain) /\ Len(s) \in Nat /\ Len(s) >= 5  BY <1>2, RawTokens
<1>4. a \in Seq(Plain) /\ b = a \o s  BY <1>1, StreamGoesOn
<1> HIDE DEF s, a, b
<1>5. /\ b \in Seq(Plain) /\ Len(b) = Len(a) + Len(s) /\ Len(a) \in Nat
      /\ \A n \in 1 .. Len(s) : b[Len(a) + n] = s[n]
  BY <1>3, <1>4, Joined
<1>6. PICK rest \in Seq(Plain) : u = b \o rest
  BY <1>1, StreamContinued DEF b
<1> HIDE DEF u
<1>7. /\ Len(u) = Len(b) + Len(rest) /\ Len(rest) \in Nat
      /\ \A n \in 1 .. Len(b) : u[n] = b[n]
  BY <1>5, <1>6, Joined
<1>8. Len(b) <= Len(u)  BY <1>3, <1>5, <1>7
<1>9. ASSUME NEW n \in 1 .. Len(s)
      PROVE  u[Len(a) + n] = s[n]
  <2>1. Len(a) + n \in 1 .. Len(b)  BY <1>3, <1>5
  <2> QED  BY <1>5, <1>7, <2>1
<1> QED  BY <1>2, <1>3, <1>4, <1>5, <1>8, <1>9 DEF s, a, b, u, r

(* Where the search for the end of a head can stand, p bytes into the stream: *)
(* between two requests, or within one with the count that belongs there.     *)
BetweenRequests(p) == \E j \in 0 .. Len(script) : p = Len(Stream(j))
SearchAt(p, last, found) ==
  \/ BetweenRequests(p)
  \/ \E j \in 1 .. Len(script) :
       WithinRequest(script[j], p - Len(Stream(j - 1)), last, found)

(* A longer stream goes further.                                            *)
LEMMA StreamOrder ==
  ASSUME ClientInv, NEW i \in 0 .. Len(script), NEW j \in 0 .. Len(script),
         Len(Stream(i)) < Len(Stream(j))
  PROVE  i < j
<1> SUFFICES ASSUME ~(i < j)  PROVE FALSE
  OBVIOUS
<1>1. i \in j .. Len(script)  BY StreamType
<1>2. PICK rest \in Seq(Plain) : Stream(i) = Stream(j) \o rest
  BY <1>1, StreamContinued
<1>3. Stream(j) \in Seq(Plain) /\ Len(Stream(j)) \in Nat  BY StreamType
<1>4. Len(Stream(j) \o rest) = Len(Stream(j)) + Len(rest) /\ Len(rest) \in Nat
  BY <1>3, Joined
<1> QED  BY <1>2, <1>3, <1>4

LEMMA SearchStep ==
  ASSUME ClientInv, Bodiless, NEW k \in 0 .. Len(script), NEW c \in Scanned,
         NEW p \in Nat, p < Len(Stream(k)), SearchAt(p, c.last, c.found)
  PROVE  LET d == ScanByte(c, Stream(k)[p + 1]) IN
         /\ SearchAt(p + 1, d.last, d.found)
         /\ HeadEnds(d.found) => BetweenRequests(p + 1)
<1>1. \E j \in 0 .. k - 1 : \E n \in 0 .. Len(Raw(script[j + 1])) - 1 :
        /\ p = Len(Stream(j)) + n
        /\ n > 0 => WithinRequest(script[j + 1], n, c.last, c.found)
  <2>1. CASE BetweenRequests(p)
    <3>1. PICK j \in 0 .. Len(script) : p = Len(Stream(j))  BY <2>1 DEF BetweenRequests
    <3>2. j < k  BY <3>1, StreamOrder
    <3>3. j \in 0 .. k - 1 /\ k \in 1 .. Len(script)  BY <3>2, StreamType
    <3>4. Len(Raw(script[j + 1])) \in Nat /\ Len(Raw(script[j + 1])) >= 5
      BY <3>3, StreamHolds
    <3>5. 0 \in 0 .. Len(Raw(script[j + 1])) - 1 /\ p = Len(Stream(j)) + 0
      BY <3>1, <3>4
    <3> QED  BY <3>3, <3>5
  <2>2. CASE \E i \in 1 .. Len(script) :
               WithinRequest(script[i], p - Len(Stream(i - 1)), c.last, c.found)
    <3>1. PICK i \in 1 .. Len(script) :
            WithinRequest(script[i], p - Len(Stream(i - 1)), c.last, c.found)
      BY <2>2
    <3> DEFINE j == i - 1
               n == p - Len(Stream(j))
    <3>2. j \in 0 .. Len(script) /\ j + 1 = i /\ Len(Stream(j)) \in Nat
      <4>1. Len(script) \in Nat  BY StreamType
      <4>2. j \in 0 .. Len(script) /\ j + 1 = i  BY <4>1
      <4> QED  BY <4>2, StreamType
    <3>3. n \in 1 .. Len(Raw(script[i])) - 1 /\ WithinRequest(script[i], n, c.last, c.found)
      BY <3>1 DEF WithinRequest
    <3>4. p = Len(Stream(j)) + n /\ Len(Stream(j)) < Len(Stream(k))
      <4>1. p = Len(Stream(j)) + n  BY <3>2
      <4>2. n > 0 /\ n \in Int  BY <3>3
      <4>3. Len(Stream(k)) \in Nat  BY StreamType
      <4> QED  BY <3>2, <4>1, <4>2, <4>3
    <3>5. j < k  BY <3>2, <3>4, StreamOrder
    <3>6. j \in 0 .. k - 1  BY <3>2, <3>5
    <3>7. n \in 0 .. Len(Raw(script[j + 1])) - 1  BY <3>2, <3>3
    <3> HIDE DEF j, n
    <3> QED  BY <3>2, <3>3, <3>4, <3>6, <3>7
  <2> QED  BY <2>1, <2>2 DEF SearchAt
<1>a. PICK j \in 0 .. k - 1 : \E n \in 0 .. Len(Raw(script[j + 1])) - 1 :
        /\ p = Len(Stream(j)) + n
        /\ n > 0 => WithinRequest(script[j + 1], n, c.last, c.found)
  BY <1>1
<1>2. PICK n \in 0 .. Len(Raw(script[j + 1])) - 1 :
        /\ p = Len(Stream(j)) + n
        /\ n > 0 => WithinRequest(script[j + 1], n, c.last, c.found)
  BY <1>a
<1> DEFINE r == script[j + 1]
           s == Raw(r)
           b == Stream(k)[p + 1]
           d == ScanByte(c, b)
<1>3. /\ r \in Sendable /\ r.body = <<>> /\ Len(s) \in Nat
      /\ Len(Stream(j + 1)) = Len(Stream(j)) + Len(s)
      /\ \A i \in 1 .. Len(s) : Stream(k)[Len(Stream(j)) + i] = s[i]
      /\ j \in Nat /\ j + 1 \in 1 .. Len(script) /\ (j + 1) - 1 = j
      /\ Len(Stream(j)) \in Nat
  <2>1. k \in 1 .. Len(script) /\ j \in Nat /\ j + 1 \in 1 .. Len(script) /\ (j + 1) - 1 = j
        /\ j \in 0 .. Len(script)
    BY StreamType
  <2>2. Len(Stream(j)) \in Nat  BY <2>1, StreamType
  <2> QED  BY <2>1, <2>2, StreamHolds
<1>4. b = s[n + 1]
  <2>1. n + 1 \in 1 .. Len(s) /\ p + 1 = Len(Stream(j)) + (n + 1)  BY <1>2, <1>3
  <2> QED  BY <1>3, <2>1
<1>5. /\ n + 1 < Len(s) => WithinRequest(r, n + 1, d.last, d.found) /\ ~HeadEnds(d.found)
      /\ n + 1 = Len(s) => HeadEnds(d.found)
  BY <1>2, <1>3, <1>4, SearchMoves
<1> HIDE DEF b, d, r
<1>6. CASE n + 1 < Len(s)
  <2>1. (p + 1) - Len(Stream((j + 1) - 1)) = n + 1  BY <1>2, <1>3
  <2>2. WithinRequest(r, (p + 1) - Len(Stream((j + 1) - 1)), d.last, d.found)
    BY <1>5, <1>6, <2>1
  <2> QED  BY <1>3, <1>5, <1>6, <2>2 DEF SearchAt, r, d, b
<1>7. CASE n + 1 = Len(s)
  <2>1. p + 1 = Len(Stream(j + 1)) /\ j + 1 \in 0 .. Len(script)  BY <1>2, <1>3, <1>7
  <2>2. BetweenRequests(p + 1)  BY <2>1 DEF BetweenRequests
  <2> QED  BY <2>2 DEF SearchAt, d, b
<1>8. n + 1 < Len(s) \/ n + 1 = Len(s)  BY <1>2, <1>3 DEF s, r
<1> QED  BY <1>6, <1>7, <1>8

LEMMA MorePlain ==
  ASSUME NEW t \in Seq(Plain), NEW n \in Nat, n + 1 <= Len(t)
  PROVE  /\ SubSeq(t, 1, n) \in Seq(Plain) /\ t[n + 1] \in Plain
         /\ SubSeq(t, 1, n + 1) = Append(SubSeq(t, 1, n), t[n + 1])
BY OneMore

(* A segment of the stream: the search finds ends of heads only between two   *)
(* requests.                                                                *)
LEMMA SearchOver ==
  ASSUME ClientInv, Bodiless, NEW k \in 0 .. Len(script),
         NEW m, m.last \in Plain, m.found \in 0 .. 255, ~HeadEnds(m.found),
         NEW t \in Seq(Plain), NEW p \in Nat, p + Len(t) <= Len(Stream(k)),
         \A i \in 1 .. Len(t) : Stream(k)[p + i] = t[i],
         SearchAt(p, m.last, m.found)
  PROVE  LET c == Scan(m, t) IN
         /\ c.hit \in 0 .. Len(t)
         /\ SearchAt(p + Len(t), c.last, c.found)
         /\ c.hit > 0 => BetweenRequests(p + c.hit)
         /\ HeadEnds(c.found) => c.hit = Len(t) /\ c.hit > 0
<1>0. ASSUME NEW n \in Nat, n + 1 <= Len(t)
      PROVE  /\ SubSeq(t, 1, n) \in Seq(Plain) /\ t[n + 1] \in Plain
             /\ SubSeq(t, 1, n + 1) = Append(SubSeq(t, 1, n), t[n + 1])
  BY <1>0, MorePlain
<1> DEFINE C(n) == Scan(m, SubSeq(t, 1, n))
           T == {n \in Nat : n <= Len(t) =>
                   /\ C(n) \in Scanned /\ C(n).at = n /\ C(n).hit <= n
                   /\ SearchAt(p + n, C(n).last, C(n).found)
                   /\ C(n).hit > 0 => BetweenRequests(p + C(n).hit)
                   /\ HeadEnds(C(n).found) => C(n).hit = n /\ n > 0}
<1>1. 0 \in T
  <2>1. SubSeq(t, 1, 0) = <<>>  OBVIOUS
  <2>2. C(0) = Resume(m) /\ C(0) \in Scanned  BY <2>1, ScanNothing
  <2>3. C(0).at = 0 /\ C(0).hit = 0 /\ C(0).last = m.last /\ C(0).found = m.found
    BY <2>2 DEF Resume
  <2>4. p + 0 = p  OBVIOUS
  <2> HIDE DEF C
  <2> QED  BY <2>2, <2>3, <2>4
<1>2. ASSUME NEW n \in Nat, n \in T
      PROVE  n + 1 \in T
  <2> SUFFICES ASSUME n + 1 <= Len(t)  PROVE n + 1 \in T
    OBVIOUS
  <2> DEFINE b == t[n + 1]
  <2>1. n <= Len(t) /\ Len(t) \in Nat  OBVIOUS
  <2>2. /\ C(n) \in Scanned /\ C(n).at = n /\ C(n).hit <= n
        /\ SearchAt(p + n, C(n).last, C(n).found)
        /\ C(n).hit > 0 => BetweenRequests(p + C(n).hit)
    BY <1>2, <2>1
  <2>3. /\ SubSeq(t, 1, n) \in Seq(Plain) /\ b \in Plain
        /\ SubSeq(t, 1, n + 1) = Append(SubSeq(t, 1, n), b)
    BY <1>0
  <2>5. C(n + 1) = ScanByte(C(n), b)  BY <2>3, ScanAppend
  <2>6. p + n \in Nat /\ p + n < Len(Stream(k)) /\ b = Stream(k)[(p + n) + 1]
        /\ (p + n) + 1 = p + (n + 1)
    <3>1. Len(Stream(k)) \in Nat  BY StreamType
    <3>2. n + 1 \in 1 .. Len(t) /\ (p + n) + 1 = p + (n + 1)  BY <2>1
    <3> QED  BY <2>1, <3>1, <3>2
  <2> HIDE DEF C, b
  <2>7. /\ SearchAt(p + (n + 1), C(n + 1).last, C(n + 1).found)
        /\ HeadEnds(C(n + 1).found) => BetweenRequests(p + (n + 1))
    BY <2>2, <2>5, <2>6, SearchStep
  <2>9. C(n + 1) \in Scanned /\ C(n + 1).at = n + 1
    BY <2>2, <2>3, <2>5, ScanStep
  <2>10. C(n + 1).hit = IF HeadEnds(C(n + 1).found) THEN n + 1 ELSE C(n).hit
    BY <2>2, <2>5 DEF ScanByte
  <2>11. C(n).hit \in Nat  BY <2>2 DEF Scanned
  <2>12. /\ C(n + 1).hit <= n + 1
         /\ C(n + 1).hit > 0 => BetweenRequests(p + C(n + 1).hit)
         /\ HeadEnds(C(n + 1).found) => C(n + 1).hit = n + 1 /\ n + 1 > 0
    <3>1. CASE HeadEnds(C(n + 1).found)
      <4>1. C(n + 1).hit = n + 1 /\ n + 1 <= n + 1 /\ n + 1 > 0  BY <2>10, <3>1
      <4>2. BetweenRequests(p + C(n + 1).hit)  BY <2>7, <3>1, <4>1
      <4> QED  BY <4>1, <4>2
    <3>2. CASE ~HeadEnds(C(n + 1).found)
      BY <2>2, <2>10, <2>11, <3>2
    <3> QED  BY <3>1, <3>2
  <2> QED  BY <2>7, <2>9, <2>12
<1>3. Nat \subseteq T
  <2> HIDE DEF T
  <2> QED  BY <1>1, <1>2, Induction
<1>4. Len(t) \in T /\ Len(t) <= Len(t)  BY <1>3
<1>5. SubSeq(t, 1, Len(t)) = t  BY SubSeqFull
<1>6. C(Len(t)) = Scan(m, t)  BY <1>5
<1> HIDE DEF C
<1>7. C(Len(t)).hit \in Nat  BY <1>4 DEF Scanned
<1> QED  BY <1>4, <1>6, <1>7

(* Sequences that begin with parts of the same length.                       *)
LEMMA SameParts ==
  ASSUME NEW a \in Seq(Plain), NEW b \in Seq(Plain), NEW c \in Seq(Plain),
         NEW d \in Seq(Plain), a \o b = c \o d, Len(a) = Len(c)
  PROVE  a = c /\ b = d
<1> DEFINE u == a \o b
           v == c \o d
<1>1. /\ Len(u) = Len(a) + Len(b) /\ Len(a) \in Nat /\ Len(b) \in Nat
      /\ \A i \in 1 .. Len(a) : u[i] = a[i]
      /\ \A i \in 1 .. Len(b) : u[Len(a) + i] = b[i]
  BY Joined
<1>2. /\ Len(v) = Len(c) + Len(d) /\ Len(c) \in Nat /\ Len(d) \in Nat
      /\ \A i \in 1 .. Len(c) : v[i] = c[i]
      /\ \A i \in 1 .. Len(d) : v[Len(c) + i] = d[i]
  BY Joined
<1>3. u = v  OBVIOUS
<1> HIDE DEF u, v
<1>4. Len(b) = Len(d)  BY <1>1, <1>2, <1>3
<1>5. \A i \in 1 .. Len(a) : a[i] = c[i]  BY <1>1, <1>2, <1>3
<1>6. \A i \in 1 .. Len(b) : b[i] = d[i]
  <2> TAKE i \in 1 .. Len(b)
  <2>1. u[Len(a) + i] = b[i]  BY <1>1
  <2>2. v[Len(c) + i] = d[i]  BY <1>2, <1>4
  <2> QED  BY <1>3, <2>1, <2>2
<1>7. a = c  BY <1>5, SeqEqual
<1>8. b = d  BY <1>4, <1>6, SeqEqual
<1> QED  BY <1>7, <1>8

LEMMA StreamGrows ==
  ASSUME ClientInv, Bodiless, NEW i \in 0 .. Len(script), NEW j \in 0 .. Len(script), i < j
  PROVE  Len(Stream(i)) < Len(Stream(j))
<1>1. j \in 1 .. Len(script) /\ i \in 0 .. j - 1  BY StreamType
<1>2. /\ Len(Stream(i + 1)) = Len(Stream(i)) + Len(Raw(script[i + 1]))
      /\ Len(Raw(script[i + 1])) \in Nat /\ Len(Raw(script[i + 1])) >= 5
      /\ Len(Stream(i + 1)) <= Len(Stream(j))
  BY <1>1, StreamHolds
<1>3. Len(Stream(i)) \in Nat /\ Len(Stream(j)) \in Nat  BY StreamType
<1> QED  BY <1>2, <1>3

(* What the fields announce is a number.                                     *)
LEMMA LengthType ==
  ASSUME NEW fs \in Seq(PlainField)
  PROVE  Length(fs) \in Int
<1> DEFINE i == FirstLength(fs)
           I == {k \in 1 .. Len(fs) : IsLength(fs[k])}
<1>1. CASE I = {}
  <2>1. i = 0  BY <1>1 DEF FirstLength, SelectInSeq
  <2> QED  BY <2>1 DEF None, Length
<1>2. CASE I # {}
  <2>1. I \in SUBSET Nat  OBVIOUS
  <2>2. \E k \in I : \A l \in I : k <= l
    <3> HIDE DEF I
    <3> QED  BY <1>2, <2>1, LeastElement
  <2>3. i \in I
    <3>1. i = Min(I)  BY <1>2 DEF FirstLength, SelectInSeq
    <3> QED  BY <2>2, <3>1 DEF Min
  <2>4. fs[i] \in {"CL0", "CL1", "CL2", "CL9", "CLbad"}
    BY <2>3 DEF IsLength, ContentLength
  <2>5. Length(fs) = IF i = 0 \/ fs[i] = "CLbad" THEN None ELSE ContentLength[fs[i]]
    BY DEF Length
  <2> HIDE DEF i
  <2> QED  BY <2>4, <2>5 DEF None, ContentLength
<1> QED  BY <1>1, <1>2

(* A head that ends where a request does is read as the first of its requests. *)
LEMMA FirstOfHead ==
  ASSUME ClientInv, Bodiless, NEW k \in 0 .. Len(script), NEW j \in 0 .. Len(script),
         k < j, NEW h \in Seq(Plain), Stream(k) \o h = Stream(j)
  PROVE  LET p == Parse(h) i == FirstLength(p.fields) IN
         p.st = "DONE" /\ (i = 0 \/ p.fields[i] # "CLbad") =>
           p.line = script[k + 1].line /\ Length(p.fields) <= 0
<1> DEFINE r == script[k + 1]
           s == Raw(r)
           p == Parse(h)
           i == FirstLength(p.fields)
<1> SUFFICES ASSUME p.st = "DONE", i = 0 \/ p.fields[i] # "CLbad"
             PROVE  p.line = r.line /\ Length(p.fields) <= 0
  OBVIOUS
<1>1. /\ j \in 1 .. Len(script) /\ k \in 0 .. j - 1 /\ k + 1 \in 0 .. Len(script)
      /\ j \in k + 1 .. Len(script)
  BY StreamType
<1>2. /\ r \in Sendable /\ r.body = <<>> /\ Announces(r)
      /\ Stream(k + 1) = Stream(k) \o s /\ s \in Seq(Plain)
  BY <1>1, StreamHolds
<1>3. PICK rest \in Seq(Plain) : Stream(j) = Stream(k + 1) \o rest
  BY <1>1, StreamContinued
<1>4. Stream(k) \in Seq(Plain)  BY StreamType
<1> HIDE DEF r, s
<1>5. s \o rest \in Seq(Plain) /\ Stream(k) \o h = Stream(k) \o (s \o rest)
  <2>1. (Stream(k) \o s) \o rest = Stream(k) \o (s \o rest)  BY <1>2, <1>4, Regrouped
  <2> QED  BY <1>2, <1>3, <2>1, Joined
<1>6. h = s \o rest  BY <1>4, <1>5, SameParts
<1>7. s = RequestHead(r)  BY <1>2, RawTokens DEF s
<1>8. Decided(Parse(s))  BY <1>2, <1>7, HeadParsed
<1>9. p = Parse(s)  BY <1>2, <1>6, <1>8, ParsePrefix
<1>10. p.line = r.line /\ p.fields = r.fields  BY <1>2, <1>7, <1>9, HeadParsed
<1>11. Len(r.body) = IF Length(r.fields) > 0 THEN Length(r.fields) ELSE 0
  BY <1>2, <1>10, BodyAnnounced
<1>12. Length(r.fields) \in Int
  <2>1. r.fields \in Seq(PlainField)  BY <1>2 DEF Sendable
  <2> QED  BY <2>1, LengthType
<1>13. Len(r.body) = 0  BY <1>2
<1> QED  BY <1>10, <1>11, <1>12, <1>13

(* How far consumeHeaderSome searched, and what it took.                      *)
LEMMA HeadSearched ==
  ASSUME NEW m \in Headless, NEW data \in Seq(Plain), ~ConsumeHead(m, data).err
  PROVE  LET r == ConsumeHead(m, data) IN
         \E most \in 0 .. Len(data) :
           LET s == Scan(m, SubSeq(data, 1, most)) IN
           /\ r.n = IF s.hit > 0 THEN s.hit ELSE most
           /\ r.done = HeadEnds(s.found)
           /\ ~r.done => r.msg.last = s.last /\ r.msg.found = s.found
<1> DEFINE room == HeadCap - m.idx
           most == Smaller(Len(data), room)
           s == Scan(m, SubSeq(data, 1, most))
           n == IF s.hit > 0 THEN s.hit ELSE most
           finished == HeadEnds(s.found)
           scanned == [m EXCEPT !.last = s.last, !.found = s.found]
           hb == [i \in 1 .. HeadCap |->
                    IF i > m.idx /\ i <= m.idx + n THEN data[i - m.idx] ELSE m.hb[i]]
           stored == [scanned EXCEPT !.hb = hb, !.idx = m.idx + n]
           d == Deserialized(stored)
           r == ConsumeHead(m, data)
<1>1. m \in RequestRecord /\ m.idx \in 0 .. HeadCap  BY DEF Headless, RequestRecord
<1>2. most \in 0 .. Len(data)  BY <1>1, RequestAssumption DEF Smaller
<1>3. r = IF HeadTooLong(n, room) /\ ~finished THEN Refused(scanned)
          ELSE IF finished /\ ~d.ok THEN Refused(d.msg)
          ELSE [err |-> FALSE, done |-> finished, n |-> n,
                msg |-> IF finished THEN d.msg ELSE stored]
  BY DEF ConsumeHead
<1>0. ~r.err  OBVIOUS
<1>4. ASSUME NEW x, NEW y, NEW u, NEW v
      PROVE  LET a == [m EXCEPT !.last = x, !.found = y]
                 e == [a EXCEPT !.hb = u, !.idx = v]
             IN  e.last = x /\ e.found = y
  <2> HIDE DEF Plain, Line, Fresh, None
  <2> QED  BY <1>1 DEF RequestRecord
<1>5. stored.last = s.last /\ stored.found = s.found
  <2> HIDE DEF hb, n, s
  <2> QED  BY <1>4
<1> HIDE DEF room, most, s, n, finished, scanned, hb, stored, d, r
<1>6. /\ ~(HeadTooLong(n, room) /\ ~finished) /\ ~(finished /\ ~d.ok)
  <2>1. \A x : Refused(x).err = TRUE  BY DEF Refused
  <2> QED  BY <1>0, <1>3, <2>1
<1>7. r.n = n /\ r.done = finished /\ r.msg = (IF finished THEN d.msg ELSE stored)
  BY <1>3, <1>6
<1>8. /\ r.n = IF s.hit > 0 THEN s.hit ELSE most
      /\ r.done = HeadEnds(s.found)
      /\ ~r.done => r.msg.last = s.last /\ r.msg.found = s.found
  <2>1. r.n = IF s.hit > 0 THEN s.hit ELSE most  BY <1>7 DEF n
  <2>2. r.done = HeadEnds(s.found)  BY <1>7 DEF finished
  <2>3. ~r.done => r.msg = stored  BY <1>7
  <2> QED  BY <1>5, <2>1, <2>2, <2>3
<1> QED  BY <1>2, <1>8 DEF s, r

-------------------------------------------------------------------------------
(* No handled request is made up.                                           *)
(* A step of read at the head: what the request takes of the readable bytes,  *)
(* and that no byte is lost by it.                                          *)
LEMMA HeaderStepTakes ==
  ASSUME IInv, SearchInStep, R!HeaderStep(me), UNCHANGED left
  PROVE  LET m == rmsg[me]
             span == ReadableSpan(readBuffer_)
             r == ConsumeHead(m, span)
             x == r.msg
             p == Parse(HeadTaken(x))
             i == FirstLength(p.fields)
         IN /\ at = "read" /\ rpc[me] = "loop" /\ readState_ = "READ_HEADER"
            /\ m \in Headless /\ m.body = <<>> /\ Len(span) # 0
            /\ ~r.err /\ r.n \in 0 .. Len(span) /\ x \in RequestRecord /\ x.body = <<>>
            /\ rmsg'[me] = x /\ rpc'[me] = IF r.done THEN "body" ELSE "loop"
            /\ readState_' = IF r.done THEN "READ_BODY" ELSE "READ_HEADER"
            /\ HeadTaken(x) = HeadTaken(m) \o SubSeq(span, 1, r.n)
            /\ HeadTaken(x) \o ToCome' = HeadTaken(m) \o ToCome /\ ToCome' \in Seq(Plain)
            /\ ~r.done => InStepWith(p, x.last, x.found)
            /\ r.done => /\ p.st = "DONE" /\ (i = 0 \/ p.fields[i] # "CLbad")
                         /\ x.line = p.line /\ x.cl = Length(p.fields)
<1> DEFINE m == rmsg[me]
           span == ReadableSpan(readBuffer_)
           tail == inbox \o left
           h == HeadTaken(m)
           r == ConsumeHead(m, span)
           x == r.msg
           p == Parse(HeadTaken(x))
           i == FirstLength(p.fields)
           rest == SubSeq(span, r.n + 1, Len(span))
<1>1. /\ readBuffer_ \in Buffers
      /\ rpc \in [{me} -> {"idle", "loop", "body", "await"}] /\ rmsg \in [{me} -> Kept]
      /\ rpc[me] # "idle" =>
           at = "read" /\ m \in (IF readState_ = "READ_HEADER" THEN Headless ELSE Headed)
  BY DEF IInv, ReadInv
<1>2. /\ span \in Seq(Plain) /\ tail \in Seq(Plain) /\ ToCome = span \o tail
      /\ h \in Seq(Plain)
  BY OrderTypes DEF ToCome
<1> HIDE DEF span, tail
<1>3. /\ rpc[me] = "loop" /\ readState_ = "READ_HEADER" /\ ~r.err
      /\ Size(readBuffer_) # 0
      /\ rmsg' = [rmsg EXCEPT ![me] = x]
      /\ readBuffer_' = Consume(readBuffer_, r.n)
      /\ readState_' = IF r.done THEN "READ_BODY" ELSE "READ_HEADER"
      /\ rpc' = [rpc EXCEPT ![me] = IF r.done THEN "body" ELSE "loop"]
      /\ UNCHANGED inbox
  BY DEF R!HeaderStep, R!Take, R!HeaderDone, R!ReadableSpan, ReadableSpan, R!Size, Size,
         R!IsEmpty, R!Consume, Consume, R!sockVars, span
<1>4. at = "read" /\ m \in Headless /\ m.body = <<>>  BY <1>1, <1>3 DEF Headless
<1>5. InStepWith(Parse(h), m.last, m.found)
  BY <1>3, <1>4 DEF SearchInStep
<1>6. r.n \in 0 .. Len(span) /\ x \in RequestRecord
  BY <1>2, <1>4, ConsumeHeadType DEF Kept
<1>7. /\ HeadTaken(x) = h \o SubSeq(span, 1, r.n) /\ x.body = <<>>
      /\ ~r.done => InStepWith(p, x.last, x.found)
      /\ r.done => /\ p.st = "DONE" /\ (i = 0 \/ p.fields[i] # "CLbad")
                   /\ x.line = p.line /\ x.cl = Length(p.fields)
  BY <1>2, <1>3, <1>4, <1>5, HeadConsumed
<1>8. rmsg'[me] = x /\ rpc'[me] = IF r.done THEN "body" ELSE "loop"
  <2> HIDE DEF r, m
  <2> QED  BY <1>1, <1>3
<1>9. Len(span) # 0  BY <1>1, <1>3, SpanType DEF span
<1>10. HeadTaken(x) \o ToCome' = h \o (span \o tail) /\ ToCome' \in Seq(Plain)
  <2> DEFINE n == r.n
  <2>1. n \in 0 .. Len(span)  BY <1>6
  <2>2. readBuffer_' = Consume(readBuffer_, n)  BY <1>3
  <2> HIDE DEF n, r, h
  <2>3. ReadableSpan(Consume(readBuffer_, n)) = SubSeq(span, n + 1, Len(span))
    BY <1>1, <2>1, ConsumeDrops, SpanType DEF span
  <2>4. ToCome' = SubSeq(span, n + 1, Len(span)) \o tail
    BY <1>3, <2>2, <2>3 DEF ToCome, ReadableSpan, Size, tail
  <2>5. /\ SubSeq(span, n + 1, Len(span)) \in Seq(Plain)
        /\ h \o SubSeq(span, 1, n) \in Seq(Plain)
        /\ (h \o SubSeq(span, 1, n)) \o (SubSeq(span, n + 1, Len(span)) \o tail)
             = h \o (span \o tail)
    BY <1>2, <2>1, CutMoved
  <2>6. HeadTaken(x) = h \o SubSeq(span, 1, n)  BY <1>7 DEF n
  <2>7. ToCome' \in Seq(Plain)  BY <1>2, <2>4, <2>5, ConcatProperties
  <2> QED  BY <2>4, <2>5, <2>6, <2>7
<1> HIDE DEF h, r, m
<1> QED  BY <1>2, <1>3, <1>4, <1>6, <1>7, <1>8, <1>9, <1>10 DEF span, h, m, r

(* A client that does not wait, with requests that have no bodies: of what it *)
(* has sent, the session is through with k requests. Of these it has handled  *)
(* some, in order.                                                          *)
LeftOut(k) ==
  \E from \in [1 .. Len(handled) -> 1 .. k] :
    /\ \A i, j \in 1 .. Len(handled) : i < j => from[i] < from[j]
    /\ \A i \in 1 .. Len(handled) : handled[i] = Request(from[i])

(* Until a read fails, what is in hand and to come is what was sent after     *)
(* these; the search finds an end only between two requests; and a head that  *)
(* is complete is that of the next request, ending behind it or a later one.  *)
NothingSkipped(k) == Alive => Stream(k) \o (InHand \o ToCome) = Stream(sending)
SearchGoesOn(k) ==
  at = "read" /\ rpc[me] # "idle" /\ readState_ = "READ_HEADER" =>
    LET m == rmsg[me] IN
    SearchAt(Len(Stream(k)) + m.idx, m.last, m.found) /\ ~HeadEnds(m.found)
FirstIsRead(k) ==
  at = "read" /\ Alive /\ (rpc[me] = "idle" \/ readState_ = "READ_BODY") =>
    LET m == rmsg[me] IN
    /\ m.line = script[k + 1].line /\ m.cl <= 0 /\ m.body = <<>>
    /\ \E j \in k + 1 .. sending : Stream(k) \o HeadTaken(m) = Stream(j)

Through(k) ==
  k \in 0 .. sending /\ LeftOut(k) /\ NothingSkipped(k) /\ SearchGoesOn(k) /\ FirstIsRead(k)
PipelineInv == Bodiless => SearchInStep /\ \E k \in Nat : Through(k)

LEMMA PipelineInit ==
  ASSUME Init
  PROVE  SearchInStep /\ Through(0)
<1>0. IInv  BY InitHolds
<1>1. /\ at = "loop" /\ handled = <<>> /\ sending = 1 /\ left = Raw(script[1])
      /\ readBuffer_ = NewBuffer /\ inbox = <<>>
  BY DEF Init, R!Init, R!NewBuffer, NewBuffer
<1>2. LeftOut(0)
  <2> DEFINE none == <<>>
  <2>1. Len(handled) = 0  BY <1>1
  <2>2. none \in [1 .. 0 -> 1 .. 0]  OBVIOUS
  <2> HIDE DEF none
  <2>3. none \in [1 .. Len(handled) -> 1 .. 0]  BY <2>1, <2>2
  <2>4. \A i \in 1 .. Len(handled) : FALSE  BY <2>1
  <2>5. \A i, j \in 1 .. Len(handled) : i < j => none[i] < none[j]  BY <2>4
  <2>6. \A i \in 1 .. Len(handled) : handled[i] = Request(none[i])  BY <2>4
  <2> QED  BY <2>3, <2>5, <2>6 DEF LeftOut
<1>3. NothingSkipped(0)
  <2>1. InHand = <<>>  BY <1>1 DEF InHand
  <2>2. ReadableSpan(readBuffer_) = <<>>  BY <1>1, NewBufferEmpty
  <2>3. left \in Seq(Plain) /\ ClientInv  BY <1>0, OrderTypes DEF IInv
  <2>4. <<>> \o left = left  BY <2>3, ConcatEmptySeq
  <2>5. Stream(0) \o (InHand \o ToCome) = left
    BY <1>1, <2>1, <2>2, <2>4, StreamBegins DEF ToCome
  <2>6. Stream(1) = left
    <3>1. 0 + 1 <= Len(script) /\ 0 \in Nat  BY <1>1, <2>3, StreamType DEF ClientInv
    <3>2. Stream(0 + 1) = Stream(0) \o Raw(script[0 + 1])  BY <2>3, <3>1, StreamGoesOn
    <3>3. 0 + 1 = 1  OBVIOUS
    <3>4. Stream(1) = <<>> \o left  BY <1>1, <3>2, <3>3, StreamBegins
    <3> QED  BY <2>4, <3>4
  <2> QED  BY <1>1, <2>5, <2>6 DEF NothingSkipped
<1> QED  BY <1>1, <1>2, <1>3 DEF Through, SearchGoesOn, FirstIsRead, SearchInStep

(* Steps outside read, and those that pass bytes on.                         *)
LEMMA LeftOutStays ==
  ASSUME NEW k, LeftOut(k), UNCHANGED <<handled, script>>
  PROVE  LeftOut(k)'
BY DEF LeftOut, Request

LEMMA OutsideReadPipelined ==
  ASSUME NEW k \in Nat, Through(k), SearchInStep,
         UNCHANGED <<handled, script, sending, readBuffer_, inbox, left>>,
         at \in {"loop", "handle", "write"}, at' \in {"loop", "handle", "write", "closed"}
  PROVE  SearchInStep' /\ Through(k)'
<1>1. LeftOut(k)'  BY LeftOutStays DEF Through
<1>2. NothingSkipped(k)'
  <2>1. Alive  BY DEF Alive
  <2>2. InHand = <<>> /\ InHand' = <<>>  BY DEF InHand
  <2>3. ToCome' = ToCome  BY DEF ToCome, ReadableSpan, Size
  <2>4. Stream(k)' = Stream(k) /\ Stream(sending)' = Stream(sending)  BY DEF Stream
  <2> QED  BY <2>1, <2>2, <2>3, <2>4 DEF Through, NothingSkipped
<1> QED  BY <1>1, <1>2 DEF Through, SearchGoesOn, FirstIsRead, SearchInStep

LEMMA PassedOnPipelined ==
  ASSUME NEW k \in Nat, Through(k), SearchInStep,
         UNCHANGED <<at, handled, script, sending, readState_, rmsg, rret>>,
         rpc'[me] = rpc[me] \/ {rpc[me], rpc'[me]} \subseteq {"loop", "await"},
         ToCome' = ToCome
  PROVE  SearchInStep' /\ Through(k)'
<1>1. LeftOut(k)'  BY LeftOutStays DEF Through
<1>2. (rpc'[me] = "idle") = (rpc[me] = "idle")  OBVIOUS
<1>3. Alive' = Alive /\ InHand' = InHand
  BY <1>2 DEF Alive, InHand, HeadTaken
<1>4. \A n : Stream(n)' = Stream(n)  BY DEF Stream
<1>5. Stream(sending)' = Stream(sending)  BY DEF Stream
<1>6. NothingSkipped(k)'  BY <1>3, <1>4, <1>5 DEF Through, NothingSkipped
<1>7. SearchInStep'  BY <1>2 DEF SearchInStep, HeadTaken
<1>8. SearchGoesOn(k)'
  BY <1>2 DEF Through, SearchGoesOn, SearchAt, BetweenRequests, WithinRequest, Stream
<1>9. FirstIsRead(k)'
  BY <1>2, <1>3, <1>4 DEF Through, FirstIsRead, HeadTaken
<1> QED  BY <1>1, <1>6, <1>7, <1>8, <1>9 DEF Through

LEMMA StartReadPipelined ==
  ASSUME IInv, NEW k \in Nat, Through(k), SearchInStep, StartRead
  PROVE  SearchInStep' /\ Through(k)'
<1> DEFINE x == NewRequest(headBuff)
<1>1. /\ at = "loop" /\ at' = "read" /\ UNCHANGED <<handled, readBuffer_, inbox>>
      /\ UNCHANGED <<script, sending, left>>
      /\ rmsg' = [rmsg EXCEPT ![me] = x]
      /\ \/ /\ rpc' = [rpc EXCEPT ![me] = "loop"]
            /\ readState_' = "READ_HEADER"
         \/ /\ rpc' = [rpc EXCEPT ![me] = "idle"]
            /\ rret' = [rret EXCEPT ![me] = "INVALID_STATE"]
  BY DEF StartRead, R!Call, R!Return, R!sockVars, clientVars
<1>2. /\ rpc \in [{me} -> {"idle", "loop", "body", "await"}] /\ rmsg \in [{me} -> Kept]
      /\ rret \in [{me} -> {"none", "OK", "INVALID_STATE", "INVALID_MESSAGE",
                            "CONNECTION_ENDED"}]
      /\ headBuff \in [1 .. HeadCap -> Plain] /\ ClientInv
  BY DEF IInv, ReadInv, SessionInv
<1>3. rmsg'[me] = x
  <2> HIDE DEF x
  <2> QED  BY <1>1, <1>2
<1>4. /\ HeadTaken(x) = <<>> /\ x.body = <<>> /\ x.last = "NUL" /\ x.found = 0 /\ x.idx = 0
  BY <1>2, RequestAssumption DEF NewRequest, HeadTaken
<1> HIDE DEF x
<1>5. LeftOut(k)'  BY <1>1, LeftOutStays DEF Through
<1>6. NothingSkipped(k)'
  <2>1. Alive  BY <1>1 DEF Alive
  <2>2. InHand = <<>>  BY <1>1 DEF InHand
  <2>3. InHand' = <<>>
    <3>1. <<>> \o <<>> = <<>>  OBVIOUS
    <3> QED  BY <1>1, <1>3, <1>4, <3>1 DEF InHand
  <2>4. ToCome' = ToCome  BY <1>1 DEF ToCome, ReadableSpan, Size
  <2>5. Stream(k)' = Stream(k) /\ Stream(sending)' = Stream(sending)  BY <1>1 DEF Stream
  <2> QED  BY <2>1, <2>2, <2>3, <2>4, <2>5 DEF Through, NothingSkipped
<1>7. SearchInStep'
  <2>1. Parse(HeadTaken(x)) = ParserStart  BY <1>4, ParseNothing
  <2>2. InStepWith(ParserStart, "NUL", 0)
    BY DEF InStepWith, ParserStart, Counts, AfterCR
  <2>3. InStepWith(Parse(HeadTaken(x)), x.last, x.found)  BY <1>4, <2>1, <2>2
  <2> QED  BY <1>3, <2>3 DEF SearchInStep
<1>8. SearchGoesOn(k)'
  <2>1. k \in 0 .. Len(script)  BY <1>2, StreamType DEF Through, ClientInv
  <2>2. Len(Stream(k)) + x.idx = Len(Stream(k))  BY <1>2, <1>4, <2>1, StreamType
  <2>3. ~HeadEnds(x.found)  BY <1>4 DEF HeadEnds
  <2>4. \E j \in 0 .. Len(script) : Len(Stream(k)) + x.idx = Len(Stream(j))
    BY <2>1, <2>2
  <2> QED  BY <1>1, <1>3, <2>3, <2>4 DEF SearchGoesOn, SearchAt, BetweenRequests, Stream
<1>9. FirstIsRead(k)'
  <2>1. CASE rpc' = [rpc EXCEPT ![me] = "loop"] /\ readState_' = "READ_HEADER"
    <3>1. rpc'[me] = "loop"  BY <1>2, <2>1
    <3> QED  BY <2>1, <3>1 DEF FirstIsRead
  <2>2. CASE /\ rpc' = [rpc EXCEPT ![me] = "idle"]
             /\ rret' = [rret EXCEPT ![me] = "INVALID_STATE"]
    <3>1. rpc'[me] = "idle" /\ rret'[me] = "INVALID_STATE"  BY <1>2, <2>2
    <3>2. ~Alive'  BY <1>1, <3>1 DEF Alive
    <3> QED  BY <3>2 DEF FirstIsRead
  <2> QED  BY <1>1, <2>1, <2>2
<1> QED  BY <1>1, <1>5, <1>6, <1>7, <1>8, <1>9 DEF Through

(* One request more is handled: the session is through with all those whose   *)
(* bytes were taken for its head.                                           *)
LEMMA OneLeftOutMore ==
  ASSUME NEW k \in Nat, NEW j \in k + 1 .. sending, handled \in Seq(Entry), LeftOut(k),
         NEW e \in Entry, e = Request(k + 1), handled' = Append(handled, e), UNCHANGED script
  PROVE  LeftOut(j)'
<1> DEFINE N == Len(handled)
<1>1. /\ N \in Nat /\ Len(handled') = N + 1 /\ handled'[N + 1] = e
      /\ \A i \in 1 .. N : handled'[i] = handled[i]
  BY AppendProperties
<1>2. PICK from \in [1 .. N -> 1 .. k] :
        /\ \A i, l \in 1 .. N : i < l => from[i] < from[l]
        /\ \A i \in 1 .. N : handled[i] = Request(from[i])
  BY DEF LeftOut
<1> HIDE DEF N
<1> DEFINE f == [i \in 1 .. N + 1 |-> IF i <= N THEN from[i] ELSE k + 1]
<1>3. ASSUME NEW i \in 1 .. N + 1
      PROVE  /\ i <= N => i \in 1 .. N /\ f[i] = from[i] /\ from[i] \in 1 .. k
             /\ ~(i <= N) => i = N + 1 /\ f[i] = k + 1
  BY <1>1, <1>2
<1>4. f \in [1 .. N + 1 -> 1 .. j]
  <2>1. \A i \in 1 .. N + 1 : f[i] \in 1 .. j
    <3> HIDE DEF f
    <3> QED  BY <1>3
  <2>2. f = [i \in 1 .. N + 1 |-> f[i]]  OBVIOUS
  <2> HIDE DEF f
  <2> QED  BY <2>1, <2>2
<1> HIDE DEF f
<1>5. ASSUME NEW i \in 1 .. N + 1, NEW l \in 1 .. N + 1, i < l
      PROVE  f[i] < f[l]
  <2>1. i <= N  BY <1>1, <1>5
  <2>2. CASE l <= N
    BY <1>2, <1>3, <1>5, <2>1, <2>2
  <2>3. CASE ~(l <= N)
    BY <1>3, <2>1, <2>3
  <2> QED  BY <2>2, <2>3
<1>6. ASSUME NEW i \in 1 .. N + 1
      PROVE  handled'[i] = Request(f[i])
  <2>1. CASE i <= N
    BY <1>1, <1>2, <1>3, <2>1
  <2>2. CASE ~(i <= N)
    BY <1>1, <1>3, <2>2
  <2> QED  BY <2>1, <2>2
<1>7. PICK g \in [1 .. N + 1 -> 1 .. j] :
        /\ \A i, l \in 1 .. N + 1 : i < l => g[i] < g[l]
        /\ \A i \in 1 .. N + 1 : handled'[i] = Request(g[i])
  BY <1>4, <1>5, <1>6
<1>8. \A i \in 1 .. N + 1 : handled'[i] = [line |-> script'[g[i]].line, body |-> script'[g[i]].body]
  BY <1>7 DEF Request
<1>9. Len(handled)' = N + 1  BY <1>1
<1>10. \E to \in [1 .. Len(handled)' -> 1 .. j] :
         /\ \A i, l \in 1 .. Len(handled)' : i < l => to[i] < to[l]
         /\ \A i \in 1 .. Len(handled)' :
              handled'[i] = [line |-> script'[to[i]].line, body |-> script'[to[i]].body]
  BY <1>7, <1>8, <1>9
<1> QED  BY <1>10 DEF LeftOut, Request

LEMMA ReadReturnsPipelined ==
  ASSUME IInv, Bodiless, NEW k \in Nat, Through(k), SearchInStep, ReadReturns
  PROVE  SearchInStep' /\ \E j \in Nat : Through(j)'
<1> DEFINE m == rmsg[me]
           e == [line |-> m.line, body |-> m.body]
<1>1. /\ at = "read" /\ rpc[me] = "idle"
      /\ IF rret[me] = "OK" THEN at' = "handle" /\ handled' = Append(handled, e)
                            ELSE at' = "closed" /\ UNCHANGED handled
      /\ UNCHANGED <<readBuffer_, inbox>> /\ UNCHANGED <<script, sending, left>>
  BY DEF ReadReturns, R!Inside, readVars, clientVars
<1>2. SearchInStep' /\ \A j : SearchGoesOn(j)' /\ FirstIsRead(j)'
  BY <1>1 DEF SearchInStep, SearchGoesOn, FirstIsRead
<1>3. CASE rret[me] # "OK"
  <2>1. LeftOut(k)'  BY <1>1, <1>3, LeftOutStays DEF Through
  <2>2. NothingSkipped(k)'  BY <1>1, <1>3 DEF NothingSkipped, Alive
  <2>3. k \in 0 .. sending'  BY <1>1 DEF Through
  <2> QED  BY <1>2, <2>1, <2>2, <2>3 DEF Through
<1>4. CASE rret[me] = "OK"
  <2>1. Alive  BY <1>1, <1>4 DEF Alive
  <2>2. /\ m.line = script[k + 1].line /\ m.body = <<>>
        /\ \E j \in k + 1 .. sending : Stream(k) \o HeadTaken(m) = Stream(j)
    BY <1>1, <2>1 DEF Through, FirstIsRead
  <2>3. PICK j \in k + 1 .. sending : Stream(k) \o HeadTaken(m) = Stream(j)
    BY <2>2
  <2>4. /\ sending \in Nat /\ j \in Nat /\ j \in 0 .. sending /\ ClientInv
        /\ k \in 0 .. Len(script) /\ k + 1 \in 1 .. Len(script)
    BY StreamType DEF IInv, ClientInv, Through
  <2>5. /\ handled \in Seq(Entry) /\ e \in Entry
    <3>1. m \in Headed  BY <1>1, <1>4 DEF IInv, ReadInv
    <3>2. m.line \in Line /\ m.body \in Seq(Plain)  BY <3>1 DEF Headed, RequestRecord
    <3> QED  BY <3>2, OrderTypes DEF Entry
  <2>6. e = Request(k + 1)
    <3>1. script[k + 1].body = <<>>  BY <2>4 DEF Bodiless
    <3> QED  BY <2>2, <3>1 DEF Request
  <2> HIDE DEF e
  <2>7. LeftOut(j)'
    BY <1>1, <1>4, <2>5, <2>6, OneLeftOutMore DEF Through
  <2>8. NothingSkipped(j)'
    <3>1. InHand = HeadTaken(m) \o m.body  BY <1>1 DEF InHand
    <3>2. /\ HeadTaken(m) \in Seq(Plain) /\ ToCome \in Seq(Plain)
      BY OrderTypes
    <3>3. InHand = HeadTaken(m)  BY <2>2, <3>1, <3>2, ConcatEmptySeq
    <3>4. Stream(k) \in Seq(Plain)  BY <2>4, StreamType
    <3> HIDE DEF m
    <3>5. (Stream(k) \o HeadTaken(m)) \o ToCome = Stream(k) \o (HeadTaken(m) \o ToCome)
      BY <3>2, <3>4, Regrouped
    <3>6. Stream(j) \o ToCome = Stream(sending)
      BY <2>1, <2>3, <3>3, <3>5 DEF Through, NothingSkipped
    <3>7. InHand' = <<>>  BY <1>1, <1>4 DEF InHand
    <3>8. ToCome' = ToCome  BY <1>1 DEF ToCome, ReadableSpan, Size
    <3>9. <<>> \o ToCome = ToCome  BY <3>2, ConcatEmptySeq
    <3>10. Stream(j)' = Stream(j) /\ Stream(sending)' = Stream(sending)  BY <1>1 DEF Stream
    <3> QED  BY <3>6, <3>7, <3>8, <3>9, <3>10 DEF NothingSkipped
  <2>9. j \in 0 .. sending'  BY <1>1, <2>4
  <2> QED  BY <1>2, <2>4, <2>7, <2>8, <2>9 DEF Through
<1> QED  BY <1>3, <1>4

(* A step of read at the head.                                              *)
LEMMA HeaderPipelined ==
  ASSUME IInv, Bodiless, NEW k \in Nat, Through(k), SearchInStep, R!HeaderStep(me),
         UNCHANGED <<at, handled, script, sending, left>>
  PROVE  SearchInStep' /\ Through(k)'
<1> DEFINE m == rmsg[me]
           span == ReadableSpan(readBuffer_)
           h == HeadTaken(m)
           r == ConsumeHead(m, span)
           x == r.msg
           p == Parse(HeadTaken(x))
           i == FirstLength(p.fields)
           a == Stream(k)
           u == Stream(sending)
           tail == inbox \o left
           at0 == Len(a) + m.idx
<1>1. /\ at = "read" /\ rpc[me] = "loop" /\ readState_ = "READ_HEADER"
      /\ m \in Headless /\ m.body = <<>> /\ Len(span) # 0
      /\ ~r.err /\ r.n \in 0 .. Len(span) /\ x \in RequestRecord /\ x.body = <<>>
      /\ rmsg'[me] = x /\ rpc'[me] = IF r.done THEN "body" ELSE "loop"
      /\ readState_' = IF r.done THEN "READ_BODY" ELSE "READ_HEADER"
      /\ HeadTaken(x) = h \o SubSeq(span, 1, r.n)
      /\ HeadTaken(x) \o ToCome' = h \o ToCome /\ ToCome' \in Seq(Plain)
      /\ ~r.done => InStepWith(p, x.last, x.found)
      /\ r.done => /\ p.st = "DONE" /\ (i = 0 \/ p.fields[i] # "CLbad")
                   /\ x.line = p.line /\ x.cl = Length(p.fields)
  BY HeaderStepTakes
<1>2. /\ span \in Seq(Plain) /\ ToCome \in Seq(Plain) /\ h \in Seq(Plain)
      /\ ToCome = span \o tail /\ tail \in Seq(Plain) /\ ClientInv
  BY OrderTypes DEF ToCome, IInv
<1>3. /\ k \in 0 .. sending /\ sending \in 0 .. Len(script) /\ k \in 0 .. Len(script)
  BY <1>2, StreamType DEF Through, ClientInv
<1>4. a \in Seq(Plain) /\ u \in Seq(Plain) /\ Len(a) \in Nat /\ Len(u) \in Nat
  BY <1>2, <1>3, StreamType
<1>5. Len(h) = m.idx /\ m.idx \in Nat /\ m.last \in Plain /\ m.found \in 0 .. 255
  <2>1. m \in RequestRecord  BY <1>1 DEF Headless
  <2>2. m.idx \in 0 .. HeadCap /\ m.last \in Plain /\ m.found \in 0 .. 255
    BY <2>1 DEF RequestRecord
  <2> QED  BY <2>1, <2>2, HeadTakenType
<1>6. Alive  BY <1>1 DEF Alive
<1> HIDE DEF r, span, tail, a, u
<1>7. a \o (h \o (span \o tail)) = u
  <2>1. InHand = h \o m.body  BY <1>1 DEF InHand
  <2>2. h \o <<>> = h  BY <1>2, ConcatEmptySeq
  <2>3. a \o (InHand \o ToCome) = u  BY <1>6 DEF Through, NothingSkipped, a, u
  <2> HIDE DEF h, m
  <2> QED  BY <1>1, <1>2, <2>1, <2>2, <2>3
<1>8. SearchAt(at0, m.last, m.found) /\ ~HeadEnds(m.found)
  BY <1>1 DEF Through, SearchGoesOn, a
<1>9. PICK most \in 0 .. Len(span) :
        LET s == Scan(m, SubSeq(span, 1, most)) IN
        /\ r.n = IF s.hit > 0 THEN s.hit ELSE most
        /\ r.done = HeadEnds(s.found)
        /\ ~r.done => r.msg.last = s.last /\ r.msg.found = s.found
  BY <1>1, <1>2, HeadSearched DEF r
<1> DEFINE t == SubSeq(span, 1, most)
           s == Scan(m, t)
<1>10. /\ t \in Seq(Plain) /\ Len(t) = most /\ \A n \in 1 .. Len(t) : t[n] = span[n]
  BY <1>2, SubSeqProperties
<1> HIDE DEF t
<1>11. /\ at0 + Len(t) <= Len(u) /\ at0 \in Nat
       /\ \A n \in 1 .. Len(t) : u[at0 + n] = t[n]
  <2> DEFINE v == span \o tail
             w == h \o v
  <2>0. h \in Seq(Plain)  BY <1>2
  <2> HIDE DEF h, m
  <2>1. /\ v \in Seq(Plain) /\ Len(v) = Len(span) + Len(tail) /\ Len(span) \in Nat
        /\ Len(tail) \in Nat /\ \A n \in 1 .. Len(span) : v[n] = span[n]
    BY <1>2, Joined
  <2> HIDE DEF v
  <2>2. /\ w \in Seq(Plain) /\ Len(w) = Len(h) + Len(v) /\ Len(h) \in Nat /\ Len(v) \in Nat
        /\ \A n \in 1 .. Len(v) : w[Len(h) + n] = v[n]
    BY <2>0, <2>1, Joined
  <2> HIDE DEF w
  <2>3. a \o w = u  BY <1>7 DEF w, v
  <2>4. /\ Len(u) = Len(a) + Len(w) /\ \A n \in 1 .. Len(w) : u[Len(a) + n] = w[n]
    <3>1. /\ Len(a \o w) = Len(a) + Len(w)
          /\ \A n \in 1 .. Len(w) : (a \o w)[Len(a) + n] = w[n]
      BY <1>4, <2>2, Joined
    <3> QED  BY <2>3, <3>1
  <2>5. most <= Len(span) /\ most \in Nat  BY <2>1
  <2>6. at0 = Len(a) + Len(h)  BY <1>5
  <2> HIDE DEF at0
  <2>7. at0 + Len(t) <= Len(u) /\ at0 \in Nat
    BY <1>4, <1>10, <2>1, <2>2, <2>4, <2>5, <2>6
  <2>8. ASSUME NEW n \in 1 .. Len(t)
        PROVE  u[at0 + n] = t[n]
    <3>1. /\ n \in 1 .. Len(span) /\ n \in 1 .. Len(v) /\ Len(h) + n \in 1 .. Len(w)
          /\ at0 + n = Len(a) + (Len(h) + n)
      BY <1>4, <1>10, <2>1, <2>2, <2>5, <2>6
    <3>2. u[at0 + n] = w[Len(h) + n]  BY <2>4, <3>1
    <3> QED  BY <1>10, <2>1, <2>2, <3>1, <3>2
  <2> QED  BY <2>7, <2>8
<1> HIDE DEF at0
<1>12. /\ s.hit \in 0 .. Len(t)
       /\ SearchAt(at0 + Len(t), s.last, s.found)
       /\ s.hit > 0 => BetweenRequests(at0 + s.hit)
       /\ HeadEnds(s.found) => s.hit = Len(t) /\ s.hit > 0
  <2> HIDE DEF m
  <2> QED  BY <1>2, <1>3, <1>5, <1>8, <1>10, <1>11, SearchOver DEF u
<1>13. r.n = (IF s.hit > 0 THEN s.hit ELSE most) /\ r.done = HeadEnds(s.found)
  BY <1>9 DEF t
<1>14. ~r.done => x.last = s.last /\ x.found = s.found
  BY <1>9 DEF t
<1> HIDE DEF s, m, h
<1>15. /\ HeadTaken(x) \in Seq(Plain) /\ Len(HeadTaken(x)) = x.idx
       /\ x.idx = m.idx + r.n /\ r.n \in Nat
  <2>1. HeadTaken(x) \in Seq(Plain) /\ Len(HeadTaken(x)) = x.idx
    BY <1>1, HeadTakenType
  <2>2. SubSeq(span, 1, r.n) \in Seq(Plain) /\ Len(SubSeq(span, 1, r.n)) = r.n
    <3> DEFINE z == r.n
    <3>1. span \in Seq(Plain) /\ z \in 0 .. Len(span)  BY <1>1, <1>2
    <3> HIDE DEF z
    <3>2. SubSeq(span, 1, z) \in Seq(Plain) /\ Len(SubSeq(span, 1, z)) = z
      BY <3>1, SubSeqProperties
    <3> QED  BY <3>2 DEF z
  <2>3. Len(HeadTaken(x)) = Len(h) + Len(SubSeq(span, 1, r.n))
    BY <1>1, <1>2, <2>2, Joined
  <2> QED  BY <1>1, <1>5, <2>1, <2>2, <2>3
<1> HIDE DEF x
<1>16. at0 + r.n = Len(a) + x.idx  BY <1>4, <1>5, <1>15 DEF at0
<1>17. LeftOut(k)'  BY LeftOutStays DEF Through
<1>18. Stream(k)' = a /\ Stream(sending)' = u  BY DEF Stream, a, u
<1>19. /\ a \o (HeadTaken(x) \o ToCome') = u /\ ToCome' \in Seq(Plain)
  BY <1>1, <1>2, <1>7
<1>20. NothingSkipped(k)'
  <2>1. InHand' = HeadTaken(x) \o x.body
    BY <1>1 DEF InHand, HeadTaken
  <2>2. HeadTaken(x) \o <<>> = HeadTaken(x)  BY <1>15, ConcatEmptySeq
  <2>3. InHand' = HeadTaken(x)  BY <1>1, <2>1, <2>2
  <2> QED  BY <1>18, <1>19, <2>3 DEF NothingSkipped
<1>21. CASE r.done
  <2>1. /\ rpc'[me] = "body" /\ readState_' = "READ_BODY"  BY <1>1, <1>21
  <2>2. SearchInStep' /\ SearchGoesOn(k)'  BY <2>1 DEF SearchInStep, SearchGoesOn
  <2>3. BetweenRequests(at0 + r.n) /\ r.n > 0  BY <1>12, <1>13, <1>21
  <2>4. PICK j \in 0 .. Len(script) : Len(a) + x.idx = Len(Stream(j))
    BY <1>16, <2>3 DEF BetweenRequests
  <2>5. k < j
    <3>1. Len(Stream(k)) < Len(Stream(j))  BY <1>4, <1>5, <1>15, <2>3, <2>4 DEF a
    <3> QED  BY <1>2, <1>3, <3>1, StreamOrder
  <2> DEFINE y == HeadTaken(x)
             c == ToCome'
  <2>6. y \in Seq(Plain) /\ c \in Seq(Plain) /\ Len(y) = x.idx /\ a \o (y \o c) = u
    BY <1>15, <1>19
  <2> HIDE DEF y, c
  <2>7. /\ a \o y \in Seq(Plain) /\ (a \o y) \o c = u /\ Len(a \o y) = Len(Stream(j))
        /\ Len(Stream(j)) <= Len(u)
    <3>1. a \o y \in Seq(Plain) /\ Len(a \o y) = Len(a) + Len(y)  BY <1>4, <2>6, Joined
    <3>2. (a \o y) \o c = a \o (y \o c)  BY <1>4, <2>6, Regrouped
    <3>3. Len((a \o y) \o c) = Len(a \o y) + Len(c) /\ Len(c) \in Nat
      BY <2>6, <3>1, Joined
    <3> QED  BY <1>4, <2>4, <2>6, <3>1, <3>2, <3>3
  <2>8. j \in k + 1 .. sending
    <3>1. ~(sending < j)
      <4>1. sending < j => Len(Stream(sending)) < Len(Stream(j))
        BY <1>2, <1>3, StreamGrows
      <4>2. Len(Stream(j)) \in Nat  BY <1>2, StreamType
      <4> QED  BY <1>4, <2>7, <4>1, <4>2 DEF u
    <3> QED  BY <1>3, <2>5, <3>1
  <2>9. a \o y = Stream(j)
    <3>1. sending \in j .. Len(script)  BY <1>3, <2>8
    <3>2. PICK rest \in Seq(Plain) : u = Stream(j) \o rest
      BY <1>2, <3>1, StreamContinued DEF u
    <3>3. Stream(j) \in Seq(Plain)  BY <1>2, StreamType
    <3> QED  BY <2>6, <2>7, <3>2, <3>3, SameParts
  <2>10. x.line = script[k + 1].line /\ x.cl <= 0
    <3>1. p.st = "DONE" /\ (i = 0 \/ p.fields[i] # "CLbad")
          /\ x.line = p.line /\ x.cl = Length(p.fields)
      BY <1>1, <1>21
    <3>2. p.line = script[k + 1].line /\ Length(p.fields) <= 0
      <4>1. p = Parse(y)  BY DEF y
      <4>2. Stream(k) \o y = Stream(j)  BY <2>9 DEF a
      <4>3. /\ ClientInv /\ k \in 0 .. Len(script) /\ k < j
            /\ y \in Seq(Plain)
        BY <1>2, <1>3, <2>5, <2>6
      <4>4. LET q == Parse(y) IN
            q.st = "DONE" /\ (FirstLength(q.fields) = 0 \/ q.fields[FirstLength(q.fields)] # "CLbad") =>
              q.line = script[k + 1].line /\ Length(q.fields) <= 0
        BY <4>2, <4>3, FirstOfHead
      <4> HIDE DEF p
      <4> QED  BY <3>1, <4>1, <4>4 DEF i
    <3> QED  BY <3>1, <3>2
  <2>11. FirstIsRead(k)'
    <3>1. \E l \in k + 1 .. sending' : Stream(k)' \o HeadTaken(rmsg'[me]) = Stream(l)'
      <4>1. Stream(j)' = Stream(j)  BY DEF Stream
      <4>2. Stream(k)' \o HeadTaken(rmsg'[me]) = Stream(j)'
        BY <1>1, <1>18, <2>9, <4>1 DEF y
      <4> QED  BY <2>8, <4>2
    <3>2. /\ rmsg'[me].line = script'[k + 1].line /\ rmsg'[me].cl <= 0
          /\ rmsg'[me].body = <<>>
      BY <1>1, <2>10
    <3> QED  BY <3>1, <3>2 DEF FirstIsRead, HeadTaken
  <2> QED  BY <1>3, <1>17, <1>20, <2>2, <2>11 DEF Through
<1>22. CASE ~r.done
  <2>1. /\ rpc'[me] = "loop" /\ readState_' = "READ_HEADER"  BY <1>1, <1>22
  <2>2. SearchInStep'  BY <1>1, <1>22 DEF SearchInStep, HeadTaken
  <2>3. FirstIsRead(k)'  BY <2>1 DEF FirstIsRead
  <2>4. SearchAt(Len(a) + x.idx, x.last, x.found)
    <3>1. CASE s.hit > 0
      <4>1. BetweenRequests(at0 + r.n)  BY <1>12, <1>13, <3>1
      <4> QED  BY <1>16, <4>1 DEF SearchAt
    <3>2. CASE ~(s.hit > 0)
      <4>1. r.n = Len(t)  BY <1>10, <1>13, <3>2
      <4> QED  BY <1>12, <1>14, <1>16, <1>22, <4>1
    <3> QED  BY <3>1, <3>2
  <2>5. ~HeadEnds(x.found)  BY <1>13, <1>14, <1>22
  <2>6. SearchGoesOn(k)'
    BY <1>1, <2>4, <2>5 DEF SearchGoesOn, SearchAt, BetweenRequests, WithinRequest, Stream, a
  <2> QED  BY <1>3, <1>17, <1>20, <2>2, <2>3, <2>6 DEF Through
<1> QED  BY <1>21, <1>22

(* A step of read at the body: there is none, and read returns.              *)
LEMMA BodyPipelined ==
  ASSUME IInv, NEW k \in Nat, Through(k), SearchInStep, R!BodyStep(me),
         UNCHANGED <<at, handled, script, sending, left>>
  PROVE  SearchInStep' /\ Through(k)'
<1> DEFINE m == rmsg[me]
           span == ReadableSpan(readBuffer_)
           tail == inbox \o left
           r == ConsumeBody(m, span)
<1>1. /\ readBuffer_ \in Buffers
      /\ rpc \in [{me} -> {"idle", "loop", "body", "await"}] /\ rmsg \in [{me} -> Kept]
      /\ rret \in [{me} -> {"none", "OK", "INVALID_STATE", "INVALID_MESSAGE",
                            "CONNECTION_ENDED"}]
      /\ rpc[me] # "idle" =>
           at = "read" /\ m \in (IF readState_ = "READ_HEADER" THEN Headless ELSE Headed)
  BY DEF IInv, ReadInv
<1>2. /\ span \in Seq(Plain) /\ tail \in Seq(Plain) /\ ToCome = span \o tail
  BY OrderTypes DEF ToCome
<1> HIDE DEF span
<1>3. /\ rpc[me] # "idle" /\ readState_ = "READ_BODY"
      /\ rmsg' = [rmsg EXCEPT ![me] = r.msg]
      /\ readBuffer_' = Consume(readBuffer_, r.n)
      /\ IF r.done
         THEN /\ readState_' = "START"
              /\ rpc' = [rpc EXCEPT ![me] = "idle"] /\ rret' = [rret EXCEPT ![me] = "OK"]
         ELSE /\ rpc' = [rpc EXCEPT ![me] = "loop"] /\ UNCHANGED <<readState_, rret>>
      /\ UNCHANGED inbox
  BY DEF R!BodyStep, R!AtBody, R!Take, R!Return, R!ReadableSpan, ReadableSpan, R!Size,
         Size, R!Consume, Consume, R!sockVars, span
<1>4. at = "read" /\ Alive /\ m \in Headed  BY <1>1, <1>3 DEF Alive
<1>5. /\ m.line = script[k + 1].line /\ m.cl <= 0 /\ m.body = <<>>
      /\ \E j \in k + 1 .. sending : Stream(k) \o HeadTaken(m) = Stream(j)
  BY <1>3, <1>4 DEF Through, FirstIsRead
<1>6. r.done = TRUE /\ r.n = 0 /\ r.msg = m
  <2>1. m.chunked = FALSE /\ ~(m.cl > 0)
    <3>1. m.chunked = FALSE /\ m.cl \in Int  BY <1>4 DEF Headed, RequestRecord
    <3> QED  BY <1>5, <3>1
  <2>2. r = [err |-> FALSE, done |-> TRUE, n |-> 0, msg |-> m]
    BY <2>1 DEF ConsumeBody
  <2> HIDE DEF r
  <2> QED  BY <2>2
<1> HIDE DEF r
<1>7. /\ rmsg' = rmsg /\ rpc'[me] = "idle" /\ rret'[me] = "OK"
      /\ readBuffer_' = Consume(readBuffer_, 0)
  BY <1>1, <1>3, <1>6
<1>8. ToCome' = ToCome
  <2>1. 0 \in 0 .. Len(span) /\ 0 + 1 = 1  BY <1>2
  <2>2. ReadableSpan(Consume(readBuffer_, 0)) = SubSeq(span, 0 + 1, Len(span))
    BY <1>1, <2>1, ConsumeDrops, SpanType DEF span
  <2>3. SubSeq(span, 1, Len(span)) = span  BY <1>2, SubSeqFull
  <2>4. ReadableSpan(readBuffer_)' = span  BY <1>7, <2>1, <2>2, <2>3 DEF ReadableSpan, Size
  <2> QED  BY <1>2, <1>3, <2>4 DEF ToCome
<1>9. InHand' = InHand  BY <1>7 DEF InHand, HeadTaken
<1>10. Stream(k)' = Stream(k) /\ Stream(sending)' = Stream(sending)  BY DEF Stream
<1>11. NothingSkipped(k)'
  BY <1>4, <1>8, <1>9, <1>10 DEF Through, NothingSkipped
<1>12. LeftOut(k)'  BY LeftOutStays DEF Through
<1>13. SearchInStep' /\ SearchGoesOn(k)'  BY <1>7 DEF SearchInStep, SearchGoesOn
<1>14. FirstIsRead(k)'
  <2>1. PICK j \in k + 1 .. sending : Stream(k) \o HeadTaken(m) = Stream(j)
    BY <1>5
  <2>2. Stream(j)' = Stream(j)  BY DEF Stream
  <2>3. \E l \in k + 1 .. sending' : Stream(k)' \o HeadTaken(rmsg'[me]) = Stream(l)'
    BY <1>7, <1>10, <2>1, <2>2
  <2>4. /\ rmsg'[me].line = script'[k + 1].line /\ rmsg'[me].cl <= 0
        /\ rmsg'[me].body = <<>>
    BY <1>5, <1>7
  <2> QED  BY <2>3, <2>4 DEF FirstIsRead, HeadTaken
<1> QED  BY <1>11, <1>12, <1>13, <1>14 DEF Through

LEMMA InReadPipelined ==
  ASSUME IInv, Bodiless, NEW k \in Nat, Through(k), SearchInStep, InRead
  PROVE  SearchInStep' /\ Through(k)'
<1> DEFINE span == ReadableSpan(readBuffer_)
<1>1. /\ R!Resumed(me) \/ R!Completes(me)
      /\ UNCHANGED <<at, handled, script, sending, left>>
  BY DEF InRead, sessionVars, clientVars
<1>2. /\ readBuffer_ \in Buffers
      /\ rpc \in [{me} -> {"idle", "loop", "body", "await"}]
      /\ rret \in [{me} -> {"none", "OK", "INVALID_STATE", "INVALID_MESSAGE",
                            "CONNECTION_ENDED"}]
      /\ rpc[me] # "idle" => at = "read"
  BY DEF IInv, ReadInv
<1>3. /\ span \in Seq(Plain) /\ inbox \in Seq(Plain) /\ left \in Seq(Plain)
  BY OrderTypes
<1> HIDE DEF span
<1>4. CASE R!Suspend(me)
  <2>1. /\ rpc[me] = "loop" /\ rpc' = [rpc EXCEPT ![me] = "await"]
        /\ UNCHANGED <<readState_, readBuffer_, rmsg, rret, inbox>>
    BY <1>4 DEF R!Suspend, R!sockVars
  <2>2. rpc'[me] = "await"  BY <1>2, <2>1
  <2>3. ToCome' = ToCome  BY <1>1, <2>1 DEF ToCome, ReadableSpan, Size
  <2> QED  BY <1>1, <2>1, <2>2, <2>3, PassedOnPipelined
<1>5. CASE R!HeaderStep(me)
  BY <1>1, <1>5, HeaderPipelined
<1>6. CASE R!BodyStep(me)
  BY <1>1, <1>6, BodyPipelined
<1>7. CASE R!MessageFails(me) \/ R!ReadFails(me)
  <2>1. /\ rpc[me] # "idle"
        /\ rpc' = [rpc EXCEPT ![me] = "idle"]
        /\ \/ rret' = [rret EXCEPT ![me] = "INVALID_MESSAGE"]
           \/ rret' = [rret EXCEPT ![me] = "CONNECTION_ENDED"]
    BY <1>7 DEF R!MessageFails, R!ReadFails, R!AtBody, R!Return
  <2>2. rpc'[me] = "idle" /\ rret'[me] # "OK"  BY <1>2, <2>1
  <2>3. ~Alive'  BY <1>1, <1>2, <2>1, <2>2 DEF Alive
  <2>4. LeftOut(k)' /\ k \in 0 .. sending'  BY <1>1, LeftOutStays DEF Through
  <2> QED
    BY <2>2, <2>3, <2>4 DEF Through, NothingSkipped, SearchInStep, SearchGoesOn, FirstIsRead
<1>8. ASSUME NEW n \in 1 .. Cap, R!Receive(me, n)
      PROVE  SearchInStep' /\ Through(k)'
  <2> DEFINE s == SubSeq(inbox, 1, n)
             rest == SubSeq(inbox, n + 1, Len(inbox))
  <2>1. /\ rpc[me] = "await" /\ n \in 1 .. Len(inbox) /\ n <= Room(readBuffer_)
        /\ readBuffer_' = Commit(Filled(readBuffer_, s), n)
        /\ inbox' = rest
        /\ rpc' = [rpc EXCEPT ![me] = "loop"]
        /\ UNCHANGED <<readState_, rmsg, rret>>
    BY <1>8 DEF R!Receive, R!Received, R!Room, Room, R!Commit, Commit, R!Filled, Filled,
                R!CopiedIn, CopiedIn
  <2>2. s \in Seq(Byte) /\ Len(s) = n  BY <1>3, <2>1, PlainAssumption
  <2>3. rpc'[me] = "loop"  BY <1>2, <2>1
  <2>4. /\ s \in Seq(Plain) /\ rest \in Seq(Plain) /\ span \o s \in Seq(Plain)
        /\ (span \o s) \o (rest \o left) = span \o (inbox \o left)
    <3>1. /\ span \in Seq(Plain) /\ inbox \in Seq(Plain) /\ left \in Seq(Plain)
          /\ n \in 0 .. Len(inbox)
      BY <1>3, <2>1
    <3> QED  BY <3>1, CutMoved
  <2> HIDE DEF s, rest
  <2>5. ReadableSpan(readBuffer_)' = span \o s
    <3>1. ReadableSpan(Commit(Filled(readBuffer_, s), Len(s))) = ReadableSpan(readBuffer_) \o s
      BY <1>2, <2>1, <2>2, CommitAppends
    <3>2. ReadableSpan(readBuffer_)' = ReadableSpan(readBuffer_')  BY DEF ReadableSpan, Size
    <3> QED  BY <2>1, <2>2, <3>1, <3>2 DEF span
  <2>6. ToCome' = ToCome
    BY <1>1, <1>3, <2>1, <2>4, <2>5 DEF ToCome, span
  <2> QED  BY <1>1, <2>1, <2>3, <2>6, PassedOnPipelined
<1> QED  BY <1>1, <1>4, <1>5, <1>6, <1>7, <1>8 DEF R!Resumed, R!Completes

LEMMA ClientPipelined ==
  ASSUME IInv, NEW k \in Nat, Through(k), SearchInStep, Client
  PROVE  SearchInStep' /\ Through(k)'
<1> DEFINE span == ReadableSpan(readBuffer_)
<1>1. /\ span \in Seq(Plain) /\ inbox \in Seq(Plain) /\ left \in Seq(Plain)
      /\ ToCome \in Seq(Plain) /\ InHand \in Seq(Plain) /\ sending \in Nat
      /\ ToCome = span \o (inbox \o left) /\ ClientInv
  BY OrderTypes DEF ToCome, IInv
<1>2. ASSUME NEW n \in 1 .. Len(left), ClientSends(n)
      PROVE  SearchInStep' /\ Through(k)'
  <2> DEFINE s == SubSeq(left, 1, n)
             rest == SubSeq(left, n + 1, Len(left))
  <2>1. /\ inbox' = inbox \o s /\ left' = rest
        /\ UNCHANGED <<at, handled, script, sending>>
        /\ UNCHANGED <<readState_, readBuffer_, rpc, rmsg, rret>>
    BY <1>2 DEF ClientSends, R!Arrive, R!readVars, R!callVars, sessionVars
  <2>2. (inbox \o s) \o rest = inbox \o left
    <3>1. /\ inbox \in Seq(Plain) /\ left \in Seq(Plain) /\ <<>> \in Seq(Plain)
          /\ n \in 0 .. Len(left)
      BY <1>1
    <3>2. rest \in Seq(Plain) /\ (inbox \o s) \o (rest \o <<>>) = inbox \o (left \o <<>>)
      BY <3>1, CutMoved
    <3> HIDE DEF rest
    <3>3. rest \o <<>> = rest /\ left \o <<>> = left  BY <1>1, <3>2, ConcatEmptySeq
    <3> QED  BY <3>2, <3>3
  <2> HIDE DEF s, rest
  <2>3. ToCome' = ToCome  BY <2>1, <2>2 DEF ToCome, ReadableSpan, Size
  <2> QED  BY <2>1, <2>3, PassedOnPipelined
<1>3. CASE NextRequest
  <2> DEFINE x == Raw(script[sending + 1])
  <2>1. /\ left = <<>> /\ sending' = sending + 1 /\ left' = x /\ sending < Len(script)
        /\ UNCHANGED <<at, handled, script>>
        /\ UNCHANGED <<readState_, readBuffer_, rpc, rmsg, rret, inbox>>
    BY <1>3 DEF NextRequest, sessionVars, readVars
  <2>2. k \in 0 .. sending' /\ k \in 0 .. Len(script) /\ sending + 1 \in 1 .. Len(script)
    BY <1>1, <2>1, StreamType DEF Through
  <2>3. x \in Seq(Plain) /\ Stream(k) \in Seq(Plain)
    BY <1>1, <2>2, ScriptType, StreamType
  <2>4. Stream(sending + 1) = Stream(sending) \o x
    BY <1>1, <2>1, StreamGoesOn
  <2> HIDE DEF x, span
  <2>5. ToCome' = ToCome \o x
    <3>1. inbox \o left = inbox  BY <1>1, <2>1, ConcatEmptySeq
    <3>2. (span \o inbox) \o x = span \o (inbox \o x)
      <4>1. span \in Seq(Plain) /\ inbox \in Seq(Plain) /\ x \in Seq(Plain)
        BY <1>1, <2>3
      <4> QED  BY <4>1, Regrouped
    <3>3. ToCome' = span \o (inbox \o x)
      BY <2>1 DEF ToCome, ReadableSpan, Size, span
    <3> QED  BY <1>1, <3>1, <3>2, <3>3
  <2>6. Alive' = Alive /\ InHand' = InHand
    BY <2>1 DEF Alive, InHand, HeadTaken
  <2>7. Stream(k) \o (InHand \o (ToCome \o x)) = (Stream(k) \o (InHand \o ToCome)) \o x
    <3>1. (InHand \o ToCome) \o x = InHand \o (ToCome \o x)  BY <1>1, <2>3, Regrouped
    <3>2. InHand \o ToCome \in Seq(Plain)  BY <1>1, Joined
    <3>3. (Stream(k) \o (InHand \o ToCome)) \o x = Stream(k) \o ((InHand \o ToCome) \o x)
      BY <2>3, <3>2, Regrouped
    <3> QED  BY <3>1, <3>3
  <2>8. Stream(k)' = Stream(k) /\ Stream(sending)' = Stream(sending + 1)
    BY <2>1 DEF Stream
  <2>9. NothingSkipped(k)'
    BY <2>4, <2>5, <2>6, <2>7, <2>8 DEF Through, NothingSkipped
  <2>10. LeftOut(k)'  BY <2>1, LeftOutStays DEF Through
  <2>11. SearchInStep'  BY <2>1 DEF SearchInStep, HeadTaken
  <2>12. SearchGoesOn(k)'
    BY <2>1 DEF Through, SearchGoesOn, SearchAt, BetweenRequests, WithinRequest, Stream
  <2>13. FirstIsRead(k)'
    <3>1. \A j : Stream(j)' = Stream(j)  BY <2>1 DEF Stream
    <3>2. \A j \in k + 1 .. sending : j \in k + 1 .. sending'  BY <1>1, <2>1
    <3> QED  BY <2>1, <2>6, <3>1, <3>2 DEF Through, FirstIsRead, HeadTaken
  <2> QED  BY <2>2, <2>9, <2>10, <2>11, <2>12, <2>13 DEF Through
<1> QED  BY <1>2, <1>3 DEF Client

LEMMA NextPipelined == IInv /\ PipelineInv /\ [Next]_vars => PipelineInv'
<1> SUFFICES ASSUME IInv, PipelineInv, [Next]_vars, Bodiless'
             PROVE  SearchInStep' /\ \E k \in Nat : Through(k)'
  BY DEF PipelineInv
<1>1. script' = script
  BY DEF Next, Session, StartRead, InRead, ReadReturns, Handle, InWrite, WriteReturns, Client,
         ClientSends, NextRequest, ClientLeaves, vars, clientVars
<1>2. Bodiless  BY <1>1 DEF Bodiless
<1>3. SearchInStep  BY <1>2 DEF PipelineInv
<1>4. PICK k \in Nat : Through(k)  BY <1>2 DEF PipelineInv
<1>5. ASSUME UNCHANGED <<at, handled, script, sending, readState_, rmsg, rret, rpc>>,
             UNCHANGED <<readBuffer_, inbox, left>>
      PROVE  SearchInStep' /\ Through(k)'
  <2>1. ToCome' = ToCome  BY <1>5 DEF ToCome, ReadableSpan, Size
  <2> QED  BY <1>3, <1>4, <1>5, <2>1, PassedOnPipelined
<1>6. CASE Handle \/ WriteReturns
  <2>1. /\ UNCHANGED <<handled, script, sending, readBuffer_, inbox, left>>
        /\ at \in {"loop", "handle", "write"} /\ at' \in {"loop", "handle", "write", "closed"}
    BY <1>6 DEF Handle, WriteReturns, readVars, clientVars
  <2> QED  BY <1>3, <1>4, <2>1, OutsideReadPipelined
<1>7. CASE InWrite
  <2>1. /\ UNCHANGED <<at, handled, script, sending, readState_, rmsg, rret, rpc>>
        /\ UNCHANGED <<readBuffer_, inbox, left>>
    BY <1>7 DEF InWrite, sessionVars, readVars, clientVars
  <2> QED  BY <1>5, <2>1
<1>8. CASE ClientLeaves
  <2>1. /\ UNCHANGED <<at, handled, script, sending, readState_, rmsg, rret, rpc>>
        /\ UNCHANGED <<readBuffer_, inbox, left>>
    BY <1>8 DEF ClientLeaves, R!PeerEnds, R!readVars, R!callVars, sessionVars, clientVars
  <2> QED  BY <1>5, <2>1
<1>9. CASE UNCHANGED vars
  <2>1. /\ UNCHANGED <<at, handled, script, sending, readState_, rmsg, rret, rpc>>
        /\ UNCHANGED <<readBuffer_, inbox, left>>
    BY <1>9 DEF vars, sessionVars, readVars, clientVars
  <2> QED  BY <1>5, <2>1
<1>10. CASE StartRead
  BY <1>3, <1>4, <1>10, StartReadPipelined
<1>11. CASE InRead
  BY <1>2, <1>3, <1>4, <1>11, InReadPipelined
<1>12. CASE ReadReturns
  BY <1>2, <1>3, <1>4, <1>12, ReadReturnsPipelined
<1>13. CASE Client
  BY <1>3, <1>4, <1>13, ClientPipelined
<1> QED
  BY <1>6, <1>7, <1>8, <1>9, <1>10, <1>11, <1>12, <1>13 DEF Next, Session

(* What is handled of requests without bodies is what was sent with some left *)
(* out, also when the client does not wait: no handled request is made up     *)
(* from pieces of several.                                                  *)
THEOREM HandledAreSent == Spec => []NothingMadeUp
<1>1. Init => PipelineInv
  <2> SUFFICES ASSUME Init  PROVE PipelineInv
    OBVIOUS
  <2>1. SearchInStep /\ Through(0)  BY PipelineInit
  <2>2. 0 \in Nat  OBVIOUS
  <2> QED  BY <2>1, <2>2 DEF PipelineInv
<1>2. IInv /\ PipelineInv => NothingMadeUp
  <2> SUFFICES ASSUME IInv, PipelineInv, Bodiless
               PROVE  \E from \in [1 .. Len(handled) -> 1 .. Len(script)] :
                        /\ \A i, j \in 1 .. Len(handled) : i < j => from[i] < from[j]
                        /\ \A i \in 1 .. Len(handled) : handled[i] = Request(from[i])
    BY DEF NothingMadeUp, Bodiless
  <2>1. PICK k \in Nat : Through(k)  BY DEF PipelineInv
  <2>2. 1 .. k \subseteq 1 .. Len(script)
    BY <2>1, ScriptAssumption DEF IInv, ClientInv, Through
  <2>3. PICK from \in [1 .. Len(handled) -> 1 .. k] :
          /\ \A i, j \in 1 .. Len(handled) : i < j => from[i] < from[j]
          /\ \A i \in 1 .. Len(handled) : handled[i] = Request(from[i])
    BY <2>1 DEF Through, LeftOut
  <2>4. from \in [1 .. Len(handled) -> 1 .. Len(script)]  BY <2>2, <2>3
  <2> QED  BY <2>3, <2>4
<1> QED  BY <1>1, <1>2, NextPipelined, Invariance, PTL DEF Spec
===============================================================================
