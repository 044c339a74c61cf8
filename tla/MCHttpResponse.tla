---------------------------- MODULE MCHttpResponse ----------------------------
(***************************************************************************)
(* HttpResponse with up to MaxSets fields set, bodies of up to two bytes and *)
(* two writes of the same response.                                         *)
(***************************************************************************)
EXTENDS HttpResponse

CONSTANT MaxSets  \* bound: the fields a handler sets

MCField ==
  {Line("other", 0), Line("connection", 0), Line("type", 0)}
    \cup {Line("length", v) : v \in {0, 1, 3, NotANumber}}
MCBody == {<<>>, <<"x">>, <<"x", "y">>}

MCNext ==
  \/ \E line \in Field : Len(asked.lines) < MaxSets /\ Set(line)
  \/ \E b \in Body, s \in BOOLEAN : SetBody(b, s)
  \/ \E room \in Spans : ProduceHeader(room) \/ ProduceBody(room)
  \/ WriteAgain
MCSpec == Init /\ [][MCNext]_vars
===============================================================================
