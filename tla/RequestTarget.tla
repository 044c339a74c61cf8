------------------------------ MODULE RequestTarget ------------------------------
(***************************************************************************)
(* The parts of a request target, as Request::deserialize_ takes it apart     *)
(* (src/src/message/http.cpp), and Router::add the text of a route: segments  *)
(* of the path, and the parameters of the query behind a question mark.  A   *)
(* text is a sequence of characters, a segment one without "/".              *)
(***************************************************************************)
EXTENDS Integers, Sequences, SequencesExt, Functions

(* Where c is in t from its i-th character on, or the place behind its last.  *)
Find_(t, c, i) ==
  LET at == {k \in i .. Len(t) : t[k] = c}
  IN IF at = {} THEN Len(t) + 1 ELSE Min(at)

(* Slashes in a row count as one, a slash at the end makes an empty segment.  *)
(* The code takes the last character of a text without a look at whether it   *)
(* has one.  That of an empty text is undefined: a slash may be read or not.  *)
AfterLastSlash(t) ==
  IF t = <<>> THEN {<<>>, <<<<>>>>} ELSE {IF Last(t) = "/" THEN <<<<>>>> ELSE <<>>}

(* The segments that may come out, one sequence of them for any text that has *)
(* a character.                                                             *)
Segments(t) ==
  LET from[i \in 1 .. Len(t) + 2] ==
        IF i > Len(t) THEN <<>>
        ELSE IF t[i] = "/" THEN from[i + 1]
        ELSE <<SubSeq(t, i, Find_(t, "/", i) - 1)>> \o from[Find_(t, "/", i) + 1]
  IN {from[1] \o last : last \in AfterLastSlash(t)}

PathPart(t) == SubSeq(t, 1, Find_(t, "?", 1) - 1)
Query(t) == SubSeq(t, Find_(t, "?", 1) + 1, Len(t))

(* A parameter without "=" has an empty value. *)
LastSign(pair) == SelectLastInSeq(pair, LAMBDA x : x = "=") \* mutant: rfind for find
FirstSign(pair) == SelectInSeq(pair, LAMBDA x : x = "=")
Param_(pair) ==
  LET eq == FirstSign(pair)
  IN IF eq = 0 THEN <<pair, <<>>>>
     ELSE <<SubSeq(pair, 1, eq - 1), SubSeq(pair, eq + 1, Len(pair))>>

Params(q) ==
  LET from[i \in 1 .. Len(q) + 2] ==
        IF i > Len(q) THEN <<>>
        ELSE <<Param_(SubSeq(q, i, Find_(q, "&", i) - 1))>> \o from[Find_(q, "&", i) + 1]
  IN from[1]
===============================================================================
