------------------------------ MODULE MCHeadScan ------------------------------
(***************************************************************************)
(* HeadText over all sequences of the tokens that matter to it, up to a       *)
(* length, each spelled in several ways.                                    *)
(***************************************************************************)
EXTENDS HeadText

CONSTANT MaxRead  \* bound: the tokens of the stream

MCBytes == {"CR", "LF", "one", "FLD", "CL1", "CLbad", "TE", "x"}

Version == <<" ", "HTTP/1.", "1">>
Targets == {<<"/">> \o p : p \in BoundedSeq({"/", "a"}, 4)}
             \cup {<<"/", "?">> \o q : q \in BoundedSeq({"a", "=", "&"}, 4)}
             \cup {<<"a", "/", "a">>, <<"?", "a", "/">>, <<"?">>}
Lines == {<<"a", " ">> \o t \o Version : t \in Targets}
MCGoodLine ==
  Lines \cup { <<"a", " ", " ", "/", "HI", " ", " ", "HTTP/1.", "0">>,
               <<"1", " ", ":", " ", "HTTP/1.", "9">> }
MCBadLine ==
  { <<"CTL">>, <<"a">>, <<"a", ":">>, <<" ", "/">> \o Version, <<"a", " ", "/">>,
    <<"a", " ", "/", " ">>, <<"a", " ">> \o Version, <<"a", " ", "/", " ", "a">>,
    <<"a", " ", "/">> \o Version \o <<"1">>,
    <<"a", " ", "/", "HT", "HTTP/1.", "1">>, <<"HI", " ", "/">> \o Version }

SpelledFields ==
  [CL1 |-> {<<"Content-Length", ":", "1">>, <<"content-length", ":", " ", "1", "a">>},
   CLbad |-> {<<"content-length", ":", "a", "1">>, <<"Content-Length", ":", TooBig>>},
   TE |-> {<<"Transfer-Encoding", ":", "HT", "a", " ", "chunked", "HT">>,
           <<"transfer-encoding", ":", "chunked">>},
   FLD |-> {<<"a", ":", " ", "HT">>, <<"1", ":", ":", " ", "HI", " ">>,
            <<"CONTENT-LENGTH", ":", "1">>, <<"Transfer-Encoding", ":", "a">>,
            <<" ", "Content-Length", ":", "1">>}]
MCGoodField == [f \in FieldToken |-> IF f \in DOMAIN SpelledFields THEN SpelledFields[f] ELSE {}]
MCBadField ==
  { <<"CTL">>, <<":", "a">>, <<"a">>, <<"a", " ", ":", "a">>, <<"a", ":", "CTL">> }

MCBehind ==
  { <<>>, <<":", "a", "LF", "LF">>, Version \o <<"LF", "LF">>,
    <<"Content-Length", ":", "1", "LF", "LF">> }
MCEnds == {<<"CR">>, <<"LF">>, <<"CR", "LF", "CR", "LF">>}

(* One of the lines is followed by fields. *)
Plain == <<"a", " ", "/">> \o Version
WithFields ==
  LET from == FirstBut(text, 1, {"CR", "LF"})
      to == FirstOf(text, from, {"CR", "LF"})
  IN Decided(parser) \/ SubSeq(text, from, to - 1) = Plain

MCDone == scan.at = MaxRead /\ UNCHANGED textVars
MCNext ==
  \/ MCDone
  \/ \E b \in MCBytes : \E s \in Spellings(b) :
       /\ scan.at < MaxRead
       /\ b \in FieldToken => WithFields
       /\ ReadSpelled(b, s)
MCSpec == TextInit /\ [][MCNext]_textVars
===============================================================================
