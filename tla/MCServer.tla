------------------------------- MODULE MCServer -------------------------------
(***************************************************************************)
(* Server with two contexts and three clients, each of which comes at most   *)
(* once.                                                                    *)
(***************************************************************************)
EXTENDS Server

MCDone ==
  /\ \A k \in Client : session[k].is \in {"queued", "ended"}
  /\ UNCHANGED vars
MCSpec ==
  /\ Init /\ [][Next \/ MCDone]_vars
  /\ WF_vars(Main) /\ \A c \in Context : WF_vars(Runs(c))
===============================================================================
