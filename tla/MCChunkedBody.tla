---------------------------- MODULE MCChunkedBody ----------------------------
(***************************************************************************)
(* ChunkedBody on encodings of short bodies, alone or followed by the first  *)
(* bytes of another request.                                                *)
(***************************************************************************)
EXTENDS ChunkedBody

MCBodies == { <<>>, <<<<"x">>>>, <<<<"CR", "LF">>>>, <<<<"x">>, <<"0", ";">>>> }
MCTails == { <<>>, <<"x">>, <<"x", "1", "x", "1">> }

MCLine(size, ext) == [size |-> size, ext |-> ext]
MCChunk(c) == [line |-> MCLine(<<IF Len(c) = 1 THEN "1" ELSE "2">>, <<>>), data |-> c]
MCCoded ==
  { [chunks |-> [i \in 1 .. Len(s) |-> MCChunk(s[i])],
     last |-> MCLine(<<"0">>, <<>>), trailer |-> <<>>] : s \in MCBodies }

(* One chunk of 34 bytes, more than MaxBody. *)
MCLong ==
  <<"2", "2", "CR", "LF">> \o [i \in 1 .. 34 |-> "x"]
    \o <<"CR", "LF", "0", "CR", "LF", "CR", "LF">>

MCStreams == {MCLong} \cup { Encoded(b) \o t : b \in MCCoded, t \in MCTails }

MCDone ==
  /\ at # "reading" \/ (IsEmpty(readBuffer_) /\ fed = Len(stream))
  /\ UNCHANGED vars
MCSpec == Init /\ [][Next \/ MCDone]_vars
===============================================================================
