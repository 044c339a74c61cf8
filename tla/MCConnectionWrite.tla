-------------------------- MODULE MCConnectionWrite --------------------------
(***************************************************************************)
(* FramedWrite with messages of fixed bytes: a head of two bytes and a       *)
(* body of none, of two (one more than fits) or one that cannot be produced. *)
(***************************************************************************)
EXTENDS FramedWrite

CONSTANTS MaxProduced  \* bound: no write is called once so many bytes were produced

MCTexts == {<<0, 1>>, <<1, 0, 0, 1>>, <<1, 1, 1>>}
MCHeadOf(m) == SubSeq(m.text, 1, 2)
MCBodyOf(m) == SubSeq(m.text, 3, Len(m.text))
MCMsg == {m \in [text : MCTexts, idx : 0 .. 2, bodyIdx : 0 .. 2] :
            m.bodyIdx <= Len(MCBodyOf(m))}
MCNewMsg == [text : MCTexts, idx : {0}, bodyIdx : {0}]

(* As Http::Response does it, the cursor of a part goes back when it is done. *)
MCPart(part, at, k) ==
  LET n == IF Len(part) - at < k THEN Len(part) - at ELSE k
      done == at + n = Len(part)
  IN [done |-> done, bytes |-> SubSeq(part, at + 1, at + n),
      at |-> IF done THEN 0 ELSE at + n]

MCProduceHeaderSome(m, k) ==
  LET p == MCPart(MCHeadOf(m), m.idx, k) IN
  [err |-> FALSE, done |-> p.done, bytes |-> p.bytes, msg |-> [m EXCEPT !.idx = p.at]]
MCProduceBodySome(m, k) ==
  LET p == MCPart(MCBodyOf(m), m.bodyIdx, k) IN
  [err |-> m.text = <<1, 1, 1>>, done |-> p.done, bytes |-> p.bytes,
   msg |-> [m EXCEPT !.bodyIdx = p.at]]

MCHeadToGo(m) == SubSeq(m.text, m.idx + 1, 2)
MCBodyToGo(m) == SubSeq(m.text, m.bodyIdx + 3, Len(m.text))

(* The run ends where the bound lets nobody call any more. *)
MCBoundReached ==
  /\ Len(produced) >= MaxProduced /\ \A c \in Caller : ~Inside(c)
  /\ UNCHANGED vars

MCNext ==
  \/ \E c \in Caller :
       \/ \E m \in NewMsg : Len(produced) < MaxProduced /\ Call(c, m)
       \/ Resumed(c)
       \/ Completes(c)
  \/ PeerLeaves
  \/ MCBoundReached

(* Fairness.  The io_context's thread keeps running a coroutine that can     *)
(* run; an operation completes because the peer keeps reading or is gone.    *)
MCFairness ==
  \A c \in Caller : WF_vars(Resumed(c)) /\ WF_vars(Completes(c))

MCSpec == Init /\ [][MCNext]_vars /\ MCFairness

-------------------------------------------------------------------------------
(* A write comes back: the fill and flush loops do not spin, and two writes  *)
(* that overlap do not wait for each other.                                  *)
WriteReturns == \A c \in Caller : Inside(c) ~> ~Inside(c)
===============================================================================
