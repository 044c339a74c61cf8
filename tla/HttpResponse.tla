----------------------------- MODULE HttpResponse -----------------------------
(***************************************************************************)
(* Http::Response (src/src/message/http.cpp): a handler sets fields and a    *)
(* body, then Connection::write has it produce its head and its body in      *)
(* pieces, as often as it is written.                                       *)
(*                                                                         *)
(* A line of the head is a record of what it is about and its value; in      *)
(* headerBuffer_ it takes LineSize cells.  Handlers set fields and the body   *)
(* before the first write; afterwards the response is only written again.    *)
(***************************************************************************)
EXTENDS Integers, Sequences, SequencesExt

CONSTANTS
  BufferSizes,  \* sizes of the buffers given to the constructor
  OwnSize,      \* of the one it reserves if it is given none (4096)
  Field,        \* the lines handlers set
  Body,         \* the bodies handlers set
  Spans          \* the lengths of the spans given to produce

NotANumber == -1
Lines == [name : {"status", "type", "connection", "length", "other", "blank"},
          val : Nat \cup {NotANumber}]

ASSUME ResponseAssumption ==
  /\ BufferSizes \subseteq Nat /\ OwnSize \in Nat \ {0} /\ Spans \subseteq Nat
  /\ Field \subseteq Lines /\ Body \subseteq Seq(STRING)

Line(name, val) == [name |-> name, val |-> val]
LineSize(line) == IF line.name = "blank" THEN 1 ELSE 2
Written(line) == [k \in 1 .. LineSize(line) |-> [line |-> line, part |-> k]]

VARIABLES
  res,    \* the response
  phase,  \* "set", then "head" and "body" while it is written, "written"
  head,   \* the bytes of the head that this write has produced
  body,   \* and those of the body
  asked   \* history: the lines that the handler set, the body, whether as text

vars == <<res, phase, head, body, asked>>

-------------------------------------------------------------------------------
Bigger(a, b) == IF a > b THEN a ELSE b
Smaller(a, b) == IF a < b THEN a ELSE b

HalfMore(r, num) == r.cap + r.cap \div 2 + 1 \* mutant: grows, but by how much
NewSize(r, num) == Bigger(r.cap + r.cap \div 2 + 1, r.idx + num)
Alloc(r, num) ==
  IF r.cap <= r.idx + num
  THEN [r EXCEPT !.cap = NewSize(r, num), !.cells = SubSeq(r.cells, 1, r.idx)] ELSE r

Put(r, line) ==
  LET a == Alloc(r, LineSize(line))
      end == a.idx + LineSize(line)
  IN [a EXCEPT !.cells = SubSeq(a.cells, 1, a.idx) \o Written(line)
                           \o SubSeq(a.cells, end + 1, Len(a.cells)),
               !.idx = end]

(* set: a Content-Length that is no number leaves contentLength_ as it is.   *)
Noted(r, line) ==
  CASE line.name = "type" -> [r EXCEPT !.hasType = TRUE]
    [] line.name = "connection" -> [r EXCEPT !.hasConnection = TRUE]
    [] line.name = "length" /\ line.val # NotANumber -> [r EXCEPT !.length = line.val]
    [] OTHER -> r
SetLine(r, line) == Put(Noted(r, line), line)

(* isBodyString_ is not initialized; body_ and stringBody_ are.              *)
Blank(cap, keepAlive, isString) ==
  [cap |-> cap, cells |-> <<>>, idx |-> 0, headerSize |-> 0, keepAlive |-> keepAlive,
   length |-> 0, hasType |-> FALSE, hasConnection |-> FALSE, serialized |-> FALSE,
   string |-> <<>>, vector |-> <<>>, bodyIdx |-> 0, isString |-> isString]
NewResponse(cap) ==
  {Put(Blank(cap, k, s), Line("status", 0)) : k \in BOOLEAN, s \in BOOLEAN}

TakenFrom(r) == IF r.isString THEN r.string ELSE r.vector

AlwaysAdded(r) == TRUE \* mutant: also behind a Content-Length of the handler
LacksLength(r) == r.length = 0

Serialized(r) ==
  LET hasBody == Len(r.vector) + Len(r.string) > 0
      a == IF ~r.hasType /\ hasBody
           THEN SetLine(r, Line("type", IF r.isString THEN 0 ELSE 1)) ELSE r
      b == IF ~a.hasConnection
           THEN SetLine(a, Line("connection", IF a.keepAlive THEN 0 ELSE 1)) ELSE a
      c == IF LacksLength(b) THEN SetLine(b, Line("length", Len(TakenFrom(b)))) ELSE b
      d == Put([c EXCEPT !.serialized = TRUE], Line("blank", 0))
  IN [d EXCEPT !.headerSize = d.idx, !.idx = 0]

-------------------------------------------------------------------------------
Init ==
  /\ res \in UNION {NewResponse(cap) : cap \in BufferSizes \cup {OwnSize}}
  /\ phase = "set"
  /\ head = <<>> /\ body = <<>>
  /\ asked = [lines |-> <<>>, body |-> <<>>, text |-> FALSE]

Set(line) ==
  /\ phase = "set"
  /\ res' = SetLine(res, line)
  /\ asked' = [asked EXCEPT !.lines = Append(@, line)]
  /\ UNCHANGED <<phase, head, body>>

WithBody(r, b, isString) ==
  [r EXCEPT !.string = IF isString THEN b ELSE <<>>,
            !.vector = IF isString THEN <<>> ELSE b, !.isString = isString]

SetBody(b, isString) ==
  /\ phase = "set"
  /\ res' = WithBody(res, b, isString)
  /\ asked' = [asked EXCEPT !.body = b, !.text = isString]
  /\ UNCHANGED <<phase, head, body>>

(* Connection::write calls produceHeaderSome until it reports the end, then  *)
(* produceBodySome.                                                         *)
Rewound(idx, end) == IF idx >= end THEN 0 ELSE idx

ProduceHeader(room) ==
  LET r == IF res.serialized THEN res ELSE Serialized(res)
      n == Smaller(room, r.headerSize - r.idx)
      end == r.idx + n
  IN /\ phase \in {"set", "head"}
     /\ head' = head \o SubSeq(r.cells, r.idx + 1, end)
     /\ res' = [r EXCEPT !.idx = Rewound(end, r.headerSize)]
     /\ phase' = IF end >= r.headerSize THEN "body" ELSE "head"
     /\ UNCHANGED <<body, asked>>

(* resize: fills up with zeros or cuts off. *)
Resized(b, n) == [i \in 1 .. n |-> IF i <= Len(b) THEN b[i] ELSE "NUL"]
AsItIs(r) == r \* mutant: a Content-Length of the handler does not matter
AsLongAsSaid(r) ==
  IF r.length = 0 \/ r.length = Len(TakenFrom(r)) THEN r
  ELSE IF r.isString THEN [r EXCEPT !.string = Resized(@, r.length)]
                     ELSE [r EXCEPT !.vector = Resized(@, r.length)]

ProduceBody(room) ==
  LET r == AsLongAsSaid(res)
      b == TakenFrom(r)
      end == r.bodyIdx + Smaller(room, Len(b) - r.bodyIdx)
  IN /\ phase = "body"
     /\ body' = body \o SubSeq(b, r.bodyIdx + 1, end)
     /\ res' = [r EXCEPT !.bodyIdx = Rewound(end, Len(b))]
     /\ phase' = IF end >= Len(b) THEN "written" ELSE "body"
     /\ UNCHANGED <<head, asked>>

WriteAgain ==
  /\ phase = "written"
  /\ phase' = "head"
  /\ head' = <<>> /\ body' = <<>>
  /\ UNCHANGED <<res, asked>>

Next ==
  \/ \E line \in Field : Set(line)
  \/ \E b \in Body, s \in BOOLEAN : SetBody(b, s)
  \/ \E room \in Spans : ProduceHeader(room) \/ ProduceBody(room)
  \/ WriteAgain

Spec == Init /\ [][Next]_vars

-------------------------------------------------------------------------------
(* No write goes beyond the buffer; there is at most one body.               *)
TypeOK ==
  /\ Len(res.cells) <= res.cap
  /\ res.idx \in 0 .. Len(res.cells) /\ res.headerSize \in 0 .. Len(res.cells)
  /\ res.bodyIdx \in 0 .. Len(TakenFrom(res))
  /\ res.string = <<>> \/ res.vector = <<>>

Text(lines) == FlattenSeq([i \in DOMAIN lines |-> Written(lines[i])])
MayAdd(name, vals) == {<<>>} \cup {<<Line(name, v)>> : v \in vals}
Has(lines, name) == \E i \in DOMAIN lines : lines[i].name = name
GivesLength(line) == line.name = "length" /\ line.val # NotANumber
(* The last of the numbers set as a length is one that counts.              *)
Announced(lines) ==
  \E i \in DOMAIN lines :
    /\ GivesLength(lines[i]) /\ lines[i].val > 0
    /\ \A j \in i + 1 .. Len(lines) : ~GivesLength(lines[j])
Produced == phase \in {"body", "written"}

(* What the head may be for what the handler asked for.                      *)
WholeHead(h) ==
  \E type \in MayAdd("type", {IF asked.text THEN 0 ELSE 1}), connection \in MayAdd("connection", {0, 1}),
     length \in MayAdd("length", {Len(asked.body)}) :
    /\ h = Text(<<Line("status", 0)>> \o asked.lines \o type \o connection \o length
                  \o <<Line("blank", 0)>>)
    /\ type # <<>> <=> asked.body # <<>> /\ ~Has(asked.lines, "type")
    /\ connection # <<>> <=> ~Has(asked.lines, "connection")
    /\ length # <<>> <=> ~Announced(asked.lines)

(* However often the buffer was replaced and whatever the pieces, the head    *)
(* that was produced consists of whole lines: the status line, the fields     *)
(* in the order they were set, then those of type, connection and length      *)
(* that were not set, and a blank line.  There is no type without a body, and *)
(* with one it is that of text or of bytes, as the body was set last, whatever *)
(* isBodyString_ held at first.  The length of the body is added unless the   *)
(* last number that was set as a length is more than 0.                      *)
HeadIsWhole == Produced => WholeHead(head)

SaysLength(cell) == GivesLength(cell.line)

(* The body is as long as the last Content-Length that is a number says, and  *)
(* is the one that was set, cut off or filled up to that length.  What        *)
(* isBodyString_ held when no body was set makes no difference.              *)
BodyAsAnnounced ==
  phase = "written" =>
    \E i \in DOMAIN head :
      /\ SaysLength(head[i]) /\ \A j \in i + 1 .. Len(head) : ~SaysLength(head[j])
      /\ body = Resized(asked.body, head[i].line.val)
===============================================================================
