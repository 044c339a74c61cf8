-------------------------------- MODULE Router --------------------------------
(***************************************************************************)
(* Http::Router (src/src/message/http.cpp): a tree of path segments with     *)
(* handlers at its nodes, and the search in it.                             *)
(*                                                                         *)
(* A node is named by the keys on the way to it: a literal segment for an     *)
(* entry of children, Param for paramChild, Wild for wildcardChild.          *)
(***************************************************************************)
EXTENDS RequestTarget

CONSTANTS
  Char,      \* the characters texts are made of
  Text,      \* texts of routes
  Target,    \* request targets
  Handler,
  Nobody,    \* an empty std::optional<Handler>, and the answer nullopt
  NotFound   \* the handler given to notFound

ASSUME RouterAssumption ==
  /\ Nobody \notin Handler /\ NotFound \notin Handler \cup {Nobody}
  /\ Text \cup Target \subseteq Seq(Char)

Param == <<":">>
Wild == <<"*">>

VARIABLES
  tree,             \* root: the handler of each node there is
  notFoundHandler,
  asked, answer     \* the path of the last call of handle and what it returned

vars == <<tree, notFoundHandler, asked, answer>>

-------------------------------------------------------------------------------
(* What a segment of a route is looked up by.  A literal is neither "*" nor   *)
(* begins with ":".                                                         *)
Key(seg) == IF seg # <<>> /\ seg[1] = ":" THEN Param ELSE seg
Keys(segments) == [k \in DOMAIN segments |-> Key(segments[k])]
Routes == {Keys(s) : s \in UNION {Segments(t) : t \in Text}}
Paths == UNION {Segments(PathPart(t)) : t \in Target}
Literal(seg) == seg # Wild /\ Key(seg) # Param

-------------------------------------------------------------------------------
Init ==
  /\ tree = [n \in {<<>>} |-> Nobody]
  /\ notFoundHandler = Nobody
  /\ asked = <<>> /\ answer = Nobody

Walk(n) == {SubSeq(n, 1, k) : k \in 0 .. Len(n)}

ReplacesBranch(n) == {m \in DOMAIN tree : m = <<>> \/ m[1] # n[1]} \* mutant: no try_emplace
Kept(n) == DOMAIN tree

AddRoute(n, h) ==
  /\ tree' = [m \in Kept(n) \cup Walk(n) |->
                IF m = n THEN h ELSE IF m \in Kept(n) THEN tree[m] ELSE Nobody]
  /\ UNCHANGED <<notFoundHandler, asked, answer>>
Add(t, h) == \E s \in Segments(t) : AddRoute(Keys(s), h)

SetNotFound ==
  /\ notFoundHandler' = NotFound
  /\ UNCHANGED <<tree, asked, answer>>

(* The order in which find_ tries the children of n for the rest of a path    *)
(* from its i-th segment on: a node and where the path goes on there.        *)
ParamFirst(n, p, i) == \* mutant: a parameter hides a literal
  <<<<Append(n, Param), i + 1>>>>
    \o (IF Literal(p[i]) THEN <<<<Append(n, p[i]), i + 1>>>> ELSE <<>>)
    \o [k \in 1 .. Len(p) - i + 1 |-> <<Append(n, Wild), i + k>>]
Tries(n, p, i) ==
  (IF Literal(p[i]) THEN <<<<Append(n, p[i]), i + 1>>>> ELSE <<>>)
    \o <<<<Append(n, Param), i + 1>>>>
    \o [k \in 1 .. Len(p) - i + 1 |-> <<Append(n, Wild), i + k>>]

(* find_: the first node with a handler at which the path ends, as the set    *)
(* of it, empty for nullptr.                                                *)
FindIn(root, p) ==
  LET found[c \in (DOMAIN root) \X (1 .. Len(p) + 1)] ==
        IF c[2] > Len(p) THEN (IF root[c[1]] # Nobody THEN {c[1]} ELSE {})
        ELSE LET tries == Tries(c[1], p, c[2])
                 hits == {k \in DOMAIN tries :
                            tries[k][1] \in DOMAIN root /\ found[tries[k]] # {}}
             IN IF hits = {} THEN {} ELSE found[tries[Min(hits)]]
  IN found[<<<<>>, 1>>]
Find(p) == FindIn(tree, p)

(* Of a route's handler, the not-found handler and nullopt.                  *)
Answer(p) ==
  IF Find(p) = {} THEN notFoundHandler ELSE tree[CHOOSE n \in Find(p) : TRUE]

HandlePath(p) ==
  /\ asked' = p
  /\ answer' = Answer(p)
  /\ UNCHANGED <<tree, notFoundHandler>>
Handle(t) == \E p \in Segments(PathPart(t)) : HandlePath(p)

Next ==
  \/ \E t \in Text, h \in Handler : Add(t, h)
  \/ SetNotFound
  \/ \E t \in Target : Handle(t)

Spec == Init /\ [][Next]_vars

-------------------------------------------------------------------------------
(* Adding a route takes no path from the reach of the handlers, and moves a   *)
(* path only to the handler that was added: a more specific branch without a *)
(* match does not hide a less specific one that has it.                      *)
AddLosesNothing ==
  [][tree' # tree =>
       \A p \in Paths :
         LET before == Find(p)
             after == FindIn(tree', p)
         IN after # before =>
              /\ after # {}
              /\ \A n \in after : n \in DOMAIN tree => tree[n] = Nobody]_vars

(* handle answers each path by the best of the routes added so far, the last *)
(* one of its shape.                                                        *)
Table == INSTANCE RouteTable WITH
  Route <- Routes,
  Path <- Paths,
  routes <- [n \in {m \in DOMAIN tree : tree[m] # Nobody} |-> tree[n]],
  answer <- IF answer = NotFound THEN Nobody ELSE answer
TableSpec == Table!Spec
===============================================================================
