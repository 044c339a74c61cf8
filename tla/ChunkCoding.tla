----------------------------- MODULE ChunkCoding -----------------------------
(***************************************************************************)
(* The chunked coding as the one who sends a body writes it: the reference   *)
(* that what the decoder makes of a stream is compared with.  A body may be  *)
(* spelled in many ways: its data is cut into chunks, a size has leading     *)
(* zeros and an extension behind it, a trailer may follow.                  *)
(***************************************************************************)
EXTENDS ChunkAutomaton

CRLF == <<"CR", "LF">>

(* The digits denote n: v gives the value of each of their beginnings. *)
Denotes(digits, n) ==
  \E v \in [0 .. Len(digits) -> 0 .. n] :
    /\ v[0] = 0 /\ v[Len(digits)] = n
    /\ \A i \in 1 .. Len(digits) : v[i] = 16 * v[i - 1] + Hex[digits[i]]

(* The line before a chunk: no more digits than the decoder takes, and what    *)
(* may follow a semicolon up to the end of the line.                         *)
BeginsExtension(b) == b = ";"
SizeLine ==
  {l \in [size : Seq(DOMAIN Hex), ext : Seq(Octet \ {"CR", "LF"})] :
     /\ Len(l.size) \in 1 .. MaxDigits
     /\ l.ext # <<>> => BeginsExtension(l.ext[1])}
LineText(l) == l.size \o l.ext \o CRLF

CodedChunk ==
  {c \in [line : SizeLine, data : Seq(Octet) \ {<<>>}] :
     Denotes(c.line.size, Len(c.data))}
ChunkText(c) == LineText(c.line) \o c.data \o CRLF

LastLine == {l \in SizeLine : Denotes(l.size, 0)}

(* Lines that are not empty, each to its end; an empty one ends the body.     *)
Trailer ==
  {t \in Seq(Octet) :
     \A i \in 1 .. Len(t) :
       /\ i = 1 \/ t[i - 1] = "LF" => t[i] \notin {"CR", "LF"}
       /\ i = Len(t) => t[i] = "LF"}

CodedBody == [chunks : Seq(CodedChunk), last : LastLine, trailer : Trailer]

Encoded(b) ==
  FlattenSeq([i \in 1 .. Len(b.chunks) |-> ChunkText(b.chunks[i])])
    \o LineText(b.last) \o b.trailer \o CRLF
Content(b) == FlattenSeq([i \in 1 .. Len(b.chunks) |-> b.chunks[i].data])
===============================================================================
