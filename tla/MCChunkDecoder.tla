---------------------------- MODULE MCChunkDecoder ----------------------------
(***************************************************************************)
(* ChunkDecoder on encodings of short bodies followed by bytes that do not   *)
(* belong to them, and on the same with one byte replaced.                   *)
(***************************************************************************)
EXTENDS ChunkDecoder

(* Bodies as sequences of chunks; their bytes are framing bytes too.         *)
MCBodies == { <<>>, <<<<"1">>>>, <<<<"CR", "LF">>>>, <<<<"x">>, <<"0">>>> }
MCTrailers == { <<>>, <<"x", ";", "CR", "LF">> }
MCTails == { <<>>, <<"1", "x">> }

MCLine(size, ext) == [size |-> size, ext |-> ext]
MCBody(s, trailer, sizes) ==
  [chunks |-> [i \in 1 .. Len(s) |->
                 [line |-> MCLine(sizes[Len(s[i])], <<>>), data |-> s[i]]],
   last |-> MCLine(<<"0">>, <<";">>), trailer |-> trailer]
MCPlain == << <<"1">>, <<"2">> >>

MCCoded ==
  { MCBody(s, t, MCPlain) : s \in MCBodies, t \in MCTrailers }
    \cup { MCBody(<<<<"x">>>>, <<>>, << <<"0", "1">>, <<"2">> >>) }

MCGood == { Encoded(b) \o e : b \in MCCoded, e \in MCTails }
MCSpoilt(s) == { ReplaceAt(s, i, o) : i \in 1 .. Len(s), o \in Octet }
MCLongSize == Encoded(MCBody(<<<<"x">>>>, <<>>, << <<"0", "0", "1">>, <<"2">> >>))
MCStreams ==
  {MCLongSize} \cup MCGood
    \cup MCSpoilt(Encoded(MCBody(<<<<"CR", "LF">>>>, <<>>, MCPlain)) \o <<"x">>)
    \cup MCSpoilt(Encoded(MCBody(<<<<"x">>>>, <<>>, MCPlain)))

(* Nothing more to do: the stream is used up or the decoder gave its verdict. *)
MCDone == ~running /\ (ret # -2 \/ fed = Len(stream)) /\ UNCHANGED vars
MCSpec == Init /\ [][Next \/ MCDone]_vars
===============================================================================
