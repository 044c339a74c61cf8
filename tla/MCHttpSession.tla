---------------------------- MODULE MCHttpSession ----------------------------
(***************************************************************************)
(* HttpSession with scripts of two and three requests: with and without      *)
(* bodies, with a head that is too long, with a length that is no number.    *)
(***************************************************************************)
EXTENDS HttpSession

MCGet(l) == [line |-> l, fields |-> <<>>, body |-> <<>>]
MCScripts ==
  { <<MCGet("one"), [line |-> "three", fields |-> <<"CL2">>, body |-> <<"1", "CR">>]>>,
    <<[line |-> "other", fields |-> <<"CL1">>, body |-> <<"x">>], MCGet("three")>>,
    <<MCGet("one"), MCGet("three"), MCGet("one")>>,
    <<MCGet("three"), MCGet("one")>>,
    <<[line |-> "one", fields |-> <<"FLD", "FLD">>, body |-> <<>>], MCGet("other")>>,
    <<[line |-> "one", fields |-> <<"CLbad">>, body |-> <<>>], MCGet("one")>> }

(* What is on the stack looks like the rest of another request. *)
MCOldHead == [i \in 1 .. HeadCap |->
                <<"one", "CR", "LF", "CL1", "CR", "LF", "CR", "LF", "CR">>[1 + ((i - 1) % 9)]]
MCGarbage == {MCOldHead}

MCPatient == [pipelines : {FALSE}, alone : {TRUE}]
MCHabits == [pipelines : BOOLEAN, alone : {FALSE}] \cup MCPatient

(* The session is over and the client gone. *)
MCDone == at = "closed" /\ stream # "open" /\ UNCHANGED vars
(* Requests are pipelined in pairs, the last of which has no body.  Without   *)
(* bodies heads are always alone.                                           *)
MCBodiless == \A k \in 1 .. Len(script) : script[k].body = <<>>
MCInit ==
  /\ Init
  /\ habit.pipelines => Len(script) = 2 /\ script[2].body = <<>>
  /\ ~habit.pipelines /\ MCBodiless => habit.alone
MCSpec == MCInit /\ [][Next \/ MCDone]_vars
MCFairSpec == MCSpec /\ Fairness
===============================================================================
