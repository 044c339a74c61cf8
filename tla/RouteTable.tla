------------------------------ MODULE RouteTable ------------------------------
(***************************************************************************)
(* What a router promises: a table of routes, one handler to a route, in     *)
(* which each path is answered by the route that fits it best.  A route is a *)
(* sequence of steps: a literal segment, ":" for any one segment and "*" for *)
(* one or more.  Http::Router implements this with a tree (module Router).   *)
(***************************************************************************)
EXTENDS Integers, Sequences

CONSTANTS
  Route,   \* the routes there may be
  Path,    \* the paths asked for, sequences of segments
  Handler, \* the handlers
  Nobody   \* answers where no route fits

Param == <<":">>
Wild == <<"*">>
IsLiteral(step) == step # Wild /\ (step # <<>> => step[1] # ":")

VARIABLES
  routes,  \* the handler of each route
  asked,   \* the last path asked for
  answer   \* and who answered it

vars == <<routes, asked, answer>>

-------------------------------------------------------------------------------
(* A way to fit a route to a path: where in the path each of its steps ends.   *)
End(w, k) == IF k = 0 THEN 0 ELSE w[k]

Fits(r, p, w) ==
  /\ End(w, Len(r)) = Len(p)
  /\ \A k \in 1 .. Len(r) :
       /\ End(w, k - 1) < w[k]
       /\ r[k] # Wild => w[k] = End(w, k - 1) + 1
       /\ IsLiteral(r[k]) => p[w[k]] = r[k]

Ways(r, p) == {w \in [1 .. Len(r) -> 1 .. Len(p)] : Fits(r, p, w)}

(* A literal is better than a parameter, that is better than a wildcard, and  *)
(* of wildcards the shorter is better; what comes first in the path counts   *)
(* most.                                                                    *)
Cost(r, w) == [k \in 1 .. Len(r) |->
                 IF r[k] = Wild THEN 1 + w[k] - End(w, k - 1) ELSE IF r[k] = Param THEN 1 ELSE 0]
Better(c, d) ==
  \E k \in DOMAIN c \cap DOMAIN d :
    c[k] < d[k] /\ \A j \in 1 .. k - 1 : c[j] = d[j]

Candidates(p) == UNION {{r} \X Ways(r, p) : r \in DOMAIN routes}

Best(p) ==
  LET cs == Candidates(p) IN
  IF cs = {} THEN Nobody
  ELSE routes[(CHOOSE c \in cs :
                 \A d \in cs \ {c} : Better(Cost(c[1], c[2]), Cost(d[1], d[2])))[1]]

-------------------------------------------------------------------------------
Init == routes = <<>> /\ asked = <<>> /\ answer = Nobody

Add(r, h) ==
  /\ routes' = [s \in DOMAIN routes \cup {r} |-> IF s = r THEN h ELSE routes[s]]
  /\ UNCHANGED <<asked, answer>>

Ask(p) ==
  /\ asked' = p
  /\ answer' = Best(p)
  /\ UNCHANGED routes

Next ==
  \/ \E r \in Route, h \in Handler : Add(r, h)
  \/ \E p \in Path : Ask(p)

Spec == Init /\ [][Next]_vars
===============================================================================
