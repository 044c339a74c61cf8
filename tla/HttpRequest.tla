------------------------------ MODULE HttpRequest ------------------------------
(***************************************************************************)
(* Http::Request (src/src/message/http.cpp) as a message that                *)
(* Connection::read drives: the search for the end of the head, the request  *)
(* parser of picohttpparser, the interpretation of its fields and the body.  *)
(*                                                                         *)
(* A byte of the model is a token: CR, LF, a whole request line, a whole     *)
(* header field without its line end, or a byte of a body.  Nothing in the   *)
(* code tells the bytes within a line or a field apart when it looks for the *)
(* end of the head.                                                         *)
(***************************************************************************)
EXTENDS ChunkAutomaton

CONSTANTS
  HeadCap,     \* headerBuffer_.size() = maxHeaderSize_ (4096)
  MaxHeaders,  \* maxNumHeaders_ (32)
  MaxBody,     \* maxBodySize_ (1 MiB)
  FirstSize,    \* the first size of a chunked body (1024)
  MaxOverhead  \* see ChunkDecoder

ASSUME RequestAssumption ==
  /\ HeadCap \in Nat \ {0} /\ MaxHeaders \in Nat \ {0} /\ MaxOverhead \in Nat
  /\ MaxBody \in Nat \ {0} /\ FirstSize \in 1 .. MaxBody

Line == {"one", "three", "other"}  \* by the route they take in TestServer
ContentLength == [CL0 |-> 0, CL1 |-> 1, CL2 |-> 2, CL9 |-> 9]
FieldToken == DOMAIN ContentLength \cup {"CLbad", "TE", "FLD"}
Token == Octet \cup Line \cup FieldToken \cup {"NUL", "200", "404"}

None == -1  \* no Content-Length

(* A request as the constructor leaves it, over a buffer that holds h. *)
NewRequest(h) ==
  [hb |-> h, idx |-> 0, last |-> "NUL", found |-> 0,
   line |-> "none", cl |-> None, chunked |-> FALSE,
   body |-> <<>>, size |-> 0, dec |-> Fresh, read |-> 0, overhead |-> 0]

-------------------------------------------------------------------------------
(* phr_parse_request as an automaton over tokens. *)

Parser ==
  [st : {"START", "START_LF", "LINE", "LINE_END", "LINE_LF", "FIELDS", "FIELD_END",
         "FIELD_LF", "END_LF", "DONE", "ERROR"},
   line : Line \cup {"none"}, fields : Seq(FieldToken), used : Nat]
ParserStart == [st |-> "START", line |-> "none", fields |-> <<>>, used |-> 0]
Decided(p) == p.st \in {"DONE", "ERROR"}

To(p, st) == [p EXCEPT !.st = st]
Eol(p, b, lf, next) ==  \* CR LF, or LF alone
  CASE b = "CR" -> To(p, lf) [] b = "LF" -> To(p, next) [] OTHER -> To(p, "ERROR")
Expect_(p, b, next) == To(p, IF b = "LF" THEN next ELSE "ERROR")

(* A token that stands where no line can begin, such as a field before the    *)
(* request line, or one glued to the next line without a line end, is an      *)
(* error here.  On characters the parser may take such a text for a longer    *)
(* line; that is RequestText's matter, and no property of a run depends on it. *)
AtLine(p, b) ==
  IF b \in Line THEN [To(p, "LINE_END") EXCEPT !.line = b] ELSE To(p, "ERROR")

AtField(p, b) ==
  IF b \in FieldToken /\ Len(p.fields) < MaxHeaders
  THEN [To(p, "FIELD_END") EXCEPT !.fields = Append(p.fields, b)]
  ELSE Eol(p, b, "END_LF", "DONE")

ParseToken(p, b) ==
  LET n == [p EXCEPT !.used = p.used + 1] IN
  CASE Decided(p) -> p
    [] p.st = "START" -> IF b \in {"CR", "LF"} THEN Eol(n, b, "START_LF", "LINE")
                                               ELSE AtLine(n, b)
    [] p.st = "START_LF" -> Expect_(n, b, "LINE")
    [] p.st = "LINE" -> AtLine(n, b)
    [] p.st = "LINE_END" -> Eol(n, b, "LINE_LF", "FIELDS")
    [] p.st = "LINE_LF" -> Expect_(n, b, "FIELDS")
    [] p.st = "FIELDS" -> AtField(n, b)
    [] p.st = "FIELD_END" -> Eol(n, b, "FIELD_LF", "FIELDS")
    [] p.st = "FIELD_LF" -> Expect_(n, b, "FIELDS")
    [] p.st = "END_LF" -> Expect_(n, b, "DONE")

Parse(s) == After(ParseToken, ParserStart, s)

-------------------------------------------------------------------------------
(* Request::deserialize_.  The parser is given the whole of headerBuffer_,   *)
(* and what it says of the length of the head is dropped.                   *)

IsLength(f) == f \in DOMAIN ContentLength \cup {"CLbad"}
FirstLength(fields) == SelectInSeq(fields, IsLength) \* get: the first wins, 0: none

Deserialized(m) ==
  LET p == Parse(m.hb)
      i == FirstLength(p.fields)
  IN [ok |-> p.st = "DONE" /\ (i = 0 \/ p.fields[i] # "CLbad"),
      msg |-> IF p.st # "DONE" THEN m
              ELSE [m EXCEPT
                     !.line = p.line,
                     !.cl = IF i = 0 \/ p.fields[i] = "CLbad" THEN None
                            ELSE ContentLength[p.fields[i]],
                     !.chunked = i = 0 /\ Contains(p.fields, "TE")]]

OneLineEnd(found) == found = 2 \* mutant: looks for the end of a line
HeadEnds(found) == found = 4

AnyLineEndByte(last, b) == b \in {"CR", "LF"} \* mutant: pairs are not looked for
EndsLine(last, b) == (b = "CR" /\ last # "CR") \/ (b = "LF" /\ last = "CR")

(* The search for the end of the head, numFound_ being an unsigned char.     *)
ScanByte(s, b) ==
  LET f == IF EndsLine(s.last, b) THEN (s.found + 1) % 256 ELSE 0
  IN [last |-> b, found |-> f, at |-> s.at + 1,
      hit |-> IF HeadEnds(f) THEN s.at + 1 ELSE s.hit]

FromScratch(m) == \* mutant: forgets what the last segment ended with
  [last |-> "NUL", found |-> 0, at |-> 0, hit |-> 0]
Resume(m) == [last |-> m.last, found |-> m.found, at |-> 0, hit |-> 0]

Scan(m, s) == After(ScanByte, Resume(m), s)

Smaller(i, j) == IF i < j THEN i ELSE j

Refused(m) == [err |-> TRUE, done |-> TRUE, n |-> 0, msg |-> m]

HeadTooLong(n, room) == n = room

(* Request::consumeHeaderSome.  The search goes on behind an end it found;   *)
(* then the data up to that end is taken and the head is not finished.       *)
ConsumeHead(m, data) ==
  LET room == HeadCap - m.idx
      most == Smaller(Len(data), room)
      s == Scan(m, SubSeq(data, 1, most))
      n == IF s.hit > 0 THEN s.hit ELSE most
      finished == HeadEnds(s.found)
      scanned == [m EXCEPT !.last = s.last, !.found = s.found]
      stored == [scanned EXCEPT
                   !.hb = [i \in 1 .. HeadCap |->
                             IF i > m.idx /\ i <= m.idx + n THEN data[i - m.idx]
                                                            ELSE m.hb[i]],
                   !.idx = m.idx + n]
      d == Deserialized(stored)
  IN IF HeadTooLong(n, room) /\ ~finished THEN Refused(scanned)
     ELSE IF finished /\ ~d.ok THEN Refused(d.msg)
     ELSE [err |-> FALSE, done |-> finished, n |-> n,
           msg |-> IF finished THEN d.msg ELSE stored]

-------------------------------------------------------------------------------
(* Request::consumeBodySome, the branch of a body with a Content-Length. *)

AllOfIt(m, data) == Len(data) \* mutant: not limited to what the body lacks
BodyBytes(m, data) == Smaller(Len(data), m.cl - Len(m.body))

SizedBody(m, data) ==
  LET n == BodyBytes(m, data)
      b == [m EXCEPT !.body = m.body \o SubSeq(data, 1, n)]
  IN IF m.cl > MaxBody THEN Refused(m)
     ELSE [err |-> FALSE, done |-> Len(b.body) >= m.cl, n |-> n, msg |-> b]

(* The branch of a chunked body.  After an incomplete call it reports as     *)
(* consumed what was decoded, after a complete one that less the bytes left  *)
(* undecoded.  A negative number stands for a size_t that wrapped round; if   *)
(* its sum with what is in body_ already is negative as well, body_.resize    *)
(* throws (Throws in ChunkedBody), else it wraps back to a length of body_.   *)
NeverTooMuch(over, read) == FALSE \* mutant: the overhead is not tested
OverheadError(over, read) == over >= MaxOverhead /\ read - over < read \div 4

(* The bytes copied behind the body, and body_.size() when they are.         *)
Copied(m, data) == Smaller(Len(data), MaxBody - Len(m.body))
StaysAsItIs(size) == size \* mutant: body_ does not grow
Grown(size) == Smaller(MaxBody, 2 * size)
SizeForCopy(m, data) ==
  LET size == IF m.size < FirstSize THEN FirstSize ELSE m.size
  IN IF size < Len(m.body) + Copied(m, data) THEN Grown(size) ELSE size

ForgetsRest(dcd, rest) == dcd \* mutant: the bytes behind the body count as decoded
LessRest(dcd, rest) == dcd - rest

ChunkedPart(m, data) ==
  LET n == Copied(m, data)
      sized == [m EXCEPT !.size = SizeForCopy(m, data)]
      a == Feed([m.dec EXCEPT !.out = <<>>, !.used = 0], SubSeq(data, 1, n))
      dcd == Len(a.out)
      complete == a.st = "COMPLETE"
      over == m.overhead + (IF complete \/ a.st = "ERROR" THEN 0 ELSE n - dcd)
      body == m.body \o a.out
      taken == IF complete THEN LessRest(dcd, n - a.used) ELSE dcd
      after == [sized EXCEPT
                 !.body = IF complete THEN SubSeq(body, 1, Len(m.body) + taken) ELSE body,
                 !.size = IF complete THEN Len(m.body) + taken ELSE sized.size,
                 !.dec = [a EXCEPT !.out = <<>>, !.used = 0],
                 !.read = m.read + n, !.overhead = over]
  IN IF n = 0 /\ Len(m.body) = MaxBody THEN Refused(sized)
     ELSE IF a.st = "ERROR" \/ (~complete /\ OverheadError(over, m.read + n))
     THEN Refused([after EXCEPT !.body = m.body])
     ELSE [err |-> FALSE, done |-> complete, n |-> taken, msg |-> after]

(* A Content-Length of 0 hides Transfer-Encoding as any other does. *)
ConsumeBody(m, data) ==
  IF m.cl > 0 THEN SizedBody(m, data)
  ELSE IF m.chunked THEN ChunkedPart(m, data)
  ELSE [err |-> FALSE, done |-> TRUE, n |-> 0, msg |-> m]
===============================================================================
