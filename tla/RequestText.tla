------------------------------- MODULE RequestText -------------------------------
(***************************************************************************)
(* phr_parse_request of src/lib/picohttpparser/picohttpparser.c and what      *)
(* Request::deserialize_ makes of its result, character by character.        *)
(*                                                                         *)
(* A character is a string.  "CTL" stands for the control characters other   *)
(* than CR, LF and HT, "HI" for those beyond ASCII, "a" for letters; a longer *)
(* one is a run of several that the code compares with or takes as a whole.   *)
(* The parser is the one built without SSE 4.2, which only finds the same    *)
(* characters faster.                                                       *)
(***************************************************************************)
EXTENDS RequestTarget

ContentLength_ == {"Content-Length", "content-length"}
TransferEncoding_ == {"Transfer-Encoding", "transfer-encoding"}
Digit == [c \in {"0", "1", "2", "9"} |-> CASE c = "0" -> 0 [] c = "1" -> 1 [] c = "2" -> 2 [] c = "9" -> 9]
TooBig == "18446744073709551616"  \* more than a std::size_t holds
Bytes(c) == CASE c \in {"HTTP/1.", "chunked"} -> 7
              [] c \in ContentLength_ \cup {"CONTENT-LENGTH"} -> 14
              [] c \in TransferEncoding_ -> 17
              [] c = TooBig -> 20
              [] OTHER -> 1

Control == {"CR", "LF", "CTL"}
Blank == {" ", "HT"}
TokenChar == {"a", "&", TooBig, "chunked", "CONTENT-LENGTH"}
               \cup DOMAIN Digit \cup ContentLength_ \cup TransferEncoding_
Character == TokenChar \cup Control \cup Blank \cup {"HI", ":", "/", "?", "=", "HTTP/1."}
Texts == Seq(Character)

(* Positions in a text d; instead of one, the two ways not to get to it.      *)
Bad == -1
More == -2

Slice(i, j) == [at |-> i, len |-> j - i]
NoSlice == [at |-> 0, len |-> 0]
Text(d, s) == SubSeq(d, s.at, s.at + s.len - 1)

(* The first place from i on with one of some characters, or with another.    *)
Least(at, d) == IF at = {} THEN Len(d) + 1 ELSE Min(at)
FirstOf(d, i, chars) == Least({k \in i .. Len(d) : d[k] \in chars}, d)
FirstBut(d, i, chars) == Least({k \in i .. Len(d) : d[k] \notin chars}, d)
(* The place where a part of the text stops, if it may stop there.            *)
Stopped(d, at, ends) == IF at > Len(d) THEN More ELSE IF d[at] \in ends THEN at ELSE Bad

-------------------------------------------------------------------------------
EndOfLine(d, i) ==
  LET lf == IF i <= Len(d) /\ d[i] = "CR" THEN i + 1 ELSE i
  IN IF lf > Len(d) THEN More ELSE IF d[lf] = "LF" THEN lf + 1 ELSE Bad

parse_token(d, i, next_char) == Stopped(d, FirstBut(d, i, TokenChar), {next_char})
(* The place behind the one at i and those of some characters that follow.    *)
Skip(d, i, chars) ==
  LET at == FirstBut(d, i + 1, chars) IN IF at > Len(d) THEN More ELSE at
TargetEnd(d, i) == Stopped(d, FirstOf(d, i, Control \cup Blank), {" "})

(* It waits for nine bytes, "HTTP/1." and two more, before it looks.          *)
Nine(d, i) == Cardinality(UNION {{j} \X (1 .. Bytes(d[j])) : j \in i .. Len(d)}) >= 9
parse_http_version(d, i) ==
  IF ~Nine(d, i) THEN More
  ELSE IF d[i] = "HTTP/1." /\ d[i + 1] \in DOMAIN Digit THEN i + 2 ELSE Bad

(* A line that begins with a blank, but the first, is a field without a name. *)
AnyLine(d, i, fields) == d[i] \in Blank \* mutant: the first line too
Continues(d, i, fields) == fields # <<>> /\ d[i] \in Blank

(* The steps by which a line is read, ps being the places the earlier ones    *)
(* have come to: each goes on from the last of them.                        *)
RequestLine == <<"EmptyLine", "Method", "Spaces", "Target", "Spaces", "Version", "EndOfLine">>
FieldLine == <<"Name", "Colon", "Value", "EndOfLine">>

Place(step, d, ps) ==
  LET i == Last(ps) IN
  CASE step = "EmptyLine" -> IF i > Len(d) \/ d[i] \in {"CR", "LF"} THEN EndOfLine(d, i) ELSE i
    [] step = "Method" -> parse_token(d, i, " ")
    [] step = "Spaces" -> Skip(d, i, {" "})
    [] step = "Target" -> TargetEnd(d, i)
    [] step = "Version" -> IF ps[2] = ps[3] \/ ps[4] = ps[5] THEN Bad
                           ELSE parse_http_version(d, i)
    [] step = "Name" -> LET colon == parse_token(d, i, ":") IN IF colon = i THEN Bad ELSE colon
    [] step = "Colon" -> Skip(d, i, Blank)
    [] step = "Value" -> Stopped(d, FirstOf(d, i, Control), Control)
    [] step = "EndOfLine" -> EndOfLine(d, i)

Further(step, d, ps) == IF Last(ps) < 0 THEN ps ELSE Append(ps, Place(step, d, ps))
Places(steps, d, known) ==
  LET upto[n \in 0 .. Len(steps)] ==
        IF n < Len(known) THEN known ELSE Further(steps[n], d, upto[n - 1])
  IN upto[Len(steps)]

-------------------------------------------------------------------------------
(* Where a value ends, without the blanks at its end. *)
WithLineEnd(d, i, end) == end + 1 \* mutant: counts the CR
Trimmed(d, i, end) ==
  LET filled == {k \in i .. end - 1 : d[k] \notin Blank}
  IN IF filled = {} THEN i ELSE Max(filled) + 1

(* A field of which the places are known.                                    *)
Field(d, ps) ==
  [name |-> IF ps[1] = ps[2] THEN NoSlice ELSE Slice(ps[1], ps[2]),
   value |-> Slice(ps[3], Trimmed(d, ps[3], ps[4]))]

(* One round of the loop: the blank line, or another field.                  *)
HeaderLine(d, r, max_headers) ==
  LET i == r.at
      ps == Places(FieldLine, d, IF Continues(d, i, r.fields) THEN <<i, i, i>> ELSE <<i>>)
  IN IF i > Len(d) \/ d[i] \in {"CR", "LF"}
     THEN [at |-> EndOfLine(d, i), fields |-> r.fields, over |-> TRUE]
     ELSE IF Len(r.fields) = max_headers
     THEN [at |-> Bad, fields |-> r.fields, over |-> TRUE]
     ELSE IF Last(ps) < 0
     THEN [at |-> Last(ps), fields |-> r.fields, over |-> TRUE]
     ELSE [at |-> Last(ps), fields |-> Append(r.fields, Field(d, ps)), over |-> FALSE]

(* Each round but the last adds a field.                                     *)
parse_headers(d, start, max_headers) ==
  LET after[n \in 0 .. max_headers + 1] ==
        IF n = 0 THEN [at |-> start, fields |-> <<>>, over |-> FALSE]
        ELSE LET r == after[n - 1] IN IF r.over THEN r ELSE HeaderLine(d, r, max_headers)
  IN after[max_headers + 1]

parse_request(d, max_headers) ==
  LET ps == Places(RequestLine, d, <<1>>)
      headers == parse_headers(d, Last(ps), max_headers)
  IN IF Last(ps) < 0
     THEN [ret |-> Last(ps), method |-> NoSlice, target |-> NoSlice, minor |-> -1, fields |-> <<>>]
     ELSE [ret |-> headers.at, method |-> Slice(ps[2], ps[3]), target |-> Slice(ps[4], ps[5]),
           minor |-> Digit[d[ps[6] + 1]], fields |-> headers.fields]

phr_parse_request(d, max_headers) ==
  [parse_request(d, max_headers) EXCEPT !.ret = IF @ < 0 THEN @ ELSE @ - 1]

-------------------------------------------------------------------------------
(* Request::deserialize_.  get and getList look for two spellings of a name.  *)
AnySpelling(d, field, names) == \* mutant: whatever the case
  Text(d, field.name) \in {<<n>> : n \in names \cup {"CONTENT-LENGTH"}}
IsNamed(d, field, names) == Text(d, field.name) \in {<<n>> : n \in names}
getList(d, fields, names) ==
  LET named == SelectSeq(fields, LAMBDA f : IsNamed(d, f, names))
  IN [k \in DOMAIN named |-> Text(d, named[k].value)]

(* std::from_chars: the digits a value begins with, if there are any.        *)
Digits(v) == SubSeq(v, 1, FirstBut(v, 1, DOMAIN Digit \cup {TooBig}) - 1)
IsNumber(v) == Digits(v) # <<>> /\ TooBig \notin ToSet(Digits(v))
NumberIn(v) == FoldLeft(LAMBDA n, c : 10 * n + Digit[c], 0, Digits(v))

Interpreted(d, r) ==
  LET lengths == getList(d, r.fields, ContentLength_)
      codings == getList(d, r.fields, TransferEncoding_)
      target == Text(d, r.target)
  IN [ok |-> lengths = <<>> \/ IsNumber(lengths[1]),
      version |-> IF r.minor = 0 THEN "1.0" ELSE "1.1",
      cl |-> IF lengths = <<>> \/ ~IsNumber(lengths[1]) THEN <<>>
                                                        ELSE <<NumberIn(lengths[1])>>,
      chunked |-> lengths = <<>> /\ \E k \in DOMAIN codings : Contains(codings[k], "chunked"),
      paths |-> Segments(PathPart(target)),
      params |-> Params(Query(target))]
===============================================================================
