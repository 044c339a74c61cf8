------------------------------- MODULE MCRouter -------------------------------
(***************************************************************************)
(* Router with routes of all kinds of segments in every order, asked for all *)
(* paths of up to four segments.                                            *)
(***************************************************************************)
EXTENDS Router, FiniteSets

CONSTANT MaxRoutes  \* bound: the routes in the tree at a time

MCText ==
  { <<"/", "a">>, <<"/", "a", "/">>, <<"/", "/", "a", "/", "b">>, <<"/", ":", "x">>,
    <<"/", ":", "y", "/", "b">>, <<"/", "*">>, <<"/", "*", "/", "b">>,
    <<"/", "a", "/", "*">>, <<"/", "*", "/", "a", "/", "*">>, <<"/", "a", "/", ":", "/", "b">> }

Names == {<<"a">>, <<"b">>, <<"*">>}
WithSlashes(segs) == FoldLeft(LAMBDA t, s : t \o <<"/">> \o s, <<>>, segs)
MCTarget ==
  LET plain == {WithSlashes(s) : s \in BoundedSeq(Names, 3)}
  IN (plain \ {<<>>}) \cup {t \o <<"/">> : t \in plain}
       \cup {WithSlashes(<<<<"a">>, <<"b">>, <<"a">>, <<"b">>>>)}
       \cup {<<"?", "a">>, <<"/", "?">>, <<"/", "a", "?", "/", "b">>}

(* As in TestServer all routes are there before the first request; requests  *)
(* leave the tree alone, so that one for a tree will do.                     *)
Fresh == asked = <<>> /\ answer = Nobody
MCDone == ~Fresh /\ UNCHANGED vars

MCNext ==
  \/ /\ Fresh
     /\ \/ \E t \in Text, h \in Handler :
             /\ Cardinality({n \in DOMAIN tree : tree[n] # Nobody}
                               \cup {Keys(s) : s \in Segments(t)}) <= MaxRoutes
             /\ Add(t, h)
        \/ SetNotFound
        \/ \E t \in Target : Handle(t)
  \/ MCDone
MCSpec == Init /\ [][MCNext]_vars
===============================================================================
