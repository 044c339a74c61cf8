--------------------------- MODULE MCConnectionRead ---------------------------
(***************************************************************************)
(* FramedRead with a small self-delimiting message: a head of two           *)
(* bytes whose sum is the length of the body.  The head <<1, 0>> and a body  *)
(* <<1, _>> are refused, so that both error returns are taken.               *)
(***************************************************************************)
EXTENDS FramedRead

CONSTANTS MaxSent  \* bound: how many bytes the peer sends in all

MCBits(lo, hi) == UNION {[1 .. k -> Byte] : k \in lo .. hi}
MCNewMsg == {[head |-> <<>>, body |-> <<>>]}

MCBodyLength(m) == IF Len(m.head) = 2 THEN m.head[1] + m.head[2] ELSE 0
MCMsg ==
  {m \in [head : MCBits(0, 2), body : MCBits(0, 2)] : Len(m.body) <= MCBodyLength(m)}

MCTake(want, data) == IF want < Len(data) THEN want ELSE Len(data)

MCConsumeHeaderSome(m, data) ==
  LET n == MCTake(2 - Len(m.head), data)
      h == m.head \o SubSeq(data, 1, n)
  IN [err |-> h = <<1, 0>>, done |-> Len(h) = 2, n |-> n,
      msg |-> [m EXCEPT !.head = h]]

MCConsumeBodySome(m, data) ==
  LET n == MCTake(MCBodyLength(m) - Len(m.body), data)
      b == m.body \o SubSeq(data, 1, n)
  IN [err |-> Len(b) = 2 /\ b[1] = 1, done |-> Len(b) = MCBodyLength(m),
      n |-> n, msg |-> [m EXCEPT !.body = b]]

MCRaw(m) == m.head \o m.body
MCHeadRead(m) == Len(m.head) = 2
MCWhole(m) == MCHeadRead(m) /\ Len(m.body) = MCBodyLength(m)

MCNext ==
  \/ Reading
  \/ \E b \in Byte : Len(sent) < MaxSent /\ Arrive(<<b>>)
  \/ PeerEnds

(* Fairness.  The io_context's thread keeps running a coroutine that was     *)
(* resumed, and completes an asynchronous read once it can be completed.     *)
MCFairness ==
  \A c \in Caller : WF_vars(Resumed(c)) /\ WF_vars(Completes(c))

MCSpec == Init /\ [][MCNext]_vars /\ MCFairness

-------------------------------------------------------------------------------
(* Once the peer closed or reset the stream, a read that is inside comes     *)
(* back: it neither spins on buffered bytes nor waits for ever.              *)
ClosedPeerReleasesReader ==
  \A c \in Caller : (Inside(c) /\ stream # "open") ~> ~Inside(c)
===============================================================================
