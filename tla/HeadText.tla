-------------------------------- MODULE HeadText --------------------------------
(***************************************************************************)
(* HeadScan together with the text of the head: each token is spelled in one *)
(* of several ways, and the parser of RequestText reads what the parser on    *)
(* tokens reads.  The text is kept until the latter has decided.             *)
(***************************************************************************)
EXTENDS HeadScan, RequestText

CONSTANTS
  GoodLine,   \* request lines, texts without their line end
  GoodField,  \* spellings of each field token
  BadLine, BadField,  \* texts in their places that are none
  Behind,     \* what an older request or response has left behind a head
  Ends        \* what a stream may go on with behind a bad text

ASSUME TextAssumption ==
  /\ GoodLine \cup BadLine \cup BadField \cup Behind \cup Ends \subseteq Texts
  /\ GoodField \in [FieldToken -> SUBSET Texts]
  /\ <<>> \in Behind

VARIABLES
  text,  \* headerBuffer_ as far as it is received
  seen   \* what phr_parse_request says of it, for each rest that may be behind it

textVars == <<scan, parser, bare, text, seen>>

(* A line that begins with a blank continues a field, so that the first in a  *)
(* head is bad.                                                             *)
OwnLine(s) == s[1] \notin Blank

(* What is neither a line nor a field in its place is spelled as an octet.    *)
OtherOctet == Octet \ {"CR", "LF"}
Spellings(b) ==
  CASE b \in {"CR", "LF"} -> {<<b>>}
    [] b \in Line /\ parser.st \in {"START", "LINE"} -> GoodLine
    [] b \in FieldToken /\ parser.st = "FIELDS" ->
         {s \in GoodField[b] : parser.fields = <<>> => OwnLine(s)}
    [] b \in OtherOctet /\ parser.st \in {"START", "LINE"} -> BadLine
    [] b \in OtherOctet /\ parser.st = "FIELDS" ->
         BadField \cup {s \in GoodField["FLD"] : parser.fields = <<>> /\ ~OwnLine(s)}
    [] b \in OtherOctet -> {<<"CTL">>}
    [] OTHER -> {}

(* Behind a head that has ended the buffer holds anything; behind a text that *)
(* the parser on tokens refuses, what comes next does too.                   *)
Rests(p) ==
  CASE p.st = "DONE" -> Behind
    [] p.st = "ERROR" -> {e \o rest : e \in Ends, rest \in Behind}
    [] OTHER -> {<<>>}
Seen(p, d) == [rest \in Rests(p) |-> phr_parse_request(d \o rest, MaxHeaders)]

TextInit == ScanInit /\ text = <<>> /\ seen = Seen(ParserStart, <<>>)

ReadSpelled(b, s) ==
  /\ ReadByte(b)
  /\ text' = IF Decided(parser) THEN <<>> ELSE text \o s
  /\ seen' = IF Decided(parser) THEN <<>> ELSE Seen(parser', text')

TextNext == \E b \in Token : \E s \in Spellings(b) : ReadSpelled(b, s)

TextSpec == TextInit /\ [][TextNext]_textVars

-------------------------------------------------------------------------------
Found == seen[<<>>]
JustDecided(st) == parser.st = st /\ parser.used = scan.at

(* The head as tokens, for the session's view of it. *)
Tokens(p) ==
  <<p.line, "CR", "LF">> \o FlattenSeq([k \in DOMAIN p.fields |-> <<p.fields[k], "CR", "LF">>])
    \o <<"CR", "LF">>

(* The parser of the text goes with the parser on tokens: it wants more where *)
(* that does, it accepts the same heads at the same byte, whatever an older   *)
(* request or response has left behind them in the buffer, and it accepts     *)
(* nothing that begins with what the other refuses.                         *)
TextAsTokens ==
  /\ ~Decided(parser) => Found.ret = More
  /\ JustDecided("DONE") => Found.ret = Len(text) /\ \A rest \in Behind : seen[rest] = Found
  /\ JustDecided("ERROR") => \A rest \in DOMAIN seen : seen[rest].ret < 0

(* And deserialize_ finds in its slices what the session's model of it finds  *)
(* in the tokens: the length of the body, a bad one, chunks; spelled in the   *)
(* two cases it knows, and in the first of several fields.                   *)
FieldsAsTokens ==
  JustDecided("DONE") =>
    LET d == Deserialized([NewRequest(<<>>) EXCEPT !.hb = Tokens(parser)])
        i == Interpreted(text, Found)
    IN /\ Len(Found.fields) = Len(parser.fields)
       /\ i.ok = d.ok
       /\ i.cl = IF d.msg.cl = None THEN <<>> ELSE <<d.msg.cl>>
       /\ i.ok => i.chunked = d.msg.chunked

(* What the request keeps are views into the buffer: they lie one after       *)
(* another within the bytes received, something between each and the next,    *)
(* without a line end in them.                                              *)
End(view) == view.at + view.len
Begin(field) == IF field.name = NoSlice THEN field.value.at ELSE field.name.at
NoLineEnd(view) == ToSet(Text(text, view)) \cap Control = {}

SlicesInHead ==
  JustDecided("DONE") /\ Found.ret >= 0 =>
    LET fields == Found.fields
        ends == <<End(Found.target)>> \o [k \in DOMAIN fields |-> End(fields[k].value)]
    IN /\ 1 <= Found.method.at /\ End(Found.method) < Found.target.at
       /\ \A k \in DOMAIN fields :
            /\ ends[k] < Begin(fields[k])
            /\ fields[k].name # NoSlice => End(fields[k].name) < fields[k].value.at
       /\ Last(ends) <= Len(text)
       /\ NoLineEnd(Found.method) /\ NoLineEnd(Found.target)
       /\ \A k \in DOMAIN fields : NoLineEnd(fields[k].name) /\ NoLineEnd(fields[k].value)

(* The segments of the path, each behind a slash, are the path without a       *)
(* slash before another, if there is a path at all; the parameters, each       *)
(* behind "&", are the query, which may end with one more; and a name of them *)
(* ends at the first "=".                                                   *)
Squeezed(p) ==
  LET q == IF p # <<>> /\ p[1] # "/" THEN <<"/">> \o p ELSE p
      kept == SelectSeq([k \in DOMAIN q |-> k],
                        LAMBDA k : ~(k < Len(q) /\ q[k] = "/" /\ q[k + 1] = "/"))
  IN [k \in DOMAIN kept |-> q[kept[k]]]

Spelled(param) ==
  {param[1] \o <<"=">> \o param[2]} \cup (IF param[2] = <<>> THEN {param[1]} ELSE {})
AllSpelled(params) ==
  FoldLeft(LAMBDA S, param : {s \o <<"&">> \o t : s \in S, t \in Spelled(param)},
           {<<>>}, params)

TargetInParts ==
  JustDecided("DONE") =>
    LET target == Text(text, Found.target)
        i == Interpreted(text, Found)
        query == <<"&">> \o Query(target)
    IN /\ PathPart(target) # <<>> =>
            \A path \in i.paths :
              Squeezed(PathPart(target)) = FlattenSeq([k \in DOMAIN path |-> <<"/">> \o path[k]])
       /\ {query, Front(query)} \cap AllSpelled(i.params) # {}
       /\ query \notin AllSpelled(i.params) => Last(query) = "&"
       /\ \A k \in DOMAIN i.params : ~Contains(i.params[k][1], "=")
===============================================================================
