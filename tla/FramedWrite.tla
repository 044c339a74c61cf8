------------------------------ MODULE FramedWrite ------------------------------
(***************************************************************************)
(* Connection::write over messages with a text of their own.                *)
(* ConnectionWrite asks of a message only that it fits its bytes into the    *)
(* room it is given; here what it hands over is also the next part of its    *)
(* head, and then of its body, and it says "complete" with the last of it.   *)
(***************************************************************************)
EXTENDS ConnectionWrite

CONSTANTS
  HeadToGo(_),  \* the bytes of its head a message has not handed over yet
  BodyToGo(_)   \* the same of its body

Text(m) == HeadToGo(m) \o BodyToGo(m)

(* What produceHeaderSome and produceBodySome promise when they report no    *)
(* error: the bytes are the next ones.  Nothing is asked about what is left  *)
(* of a part that is done: Http::Response rewinds its cursor there.          *)
ASSUME TextContract ==
  /\ \A m \in Msg : HeadToGo(m) \in Seq(Byte) /\ BodyToGo(m) \in Seq(Byte)
  /\ \A m \in Msg : \A k \in 0 .. Cap :
       LET h == ProduceHeaderSome(m, k)
           b == ProduceBodySome(m, k)
       IN /\ ~h.err => /\ BodyToGo(h.msg) = BodyToGo(m)
                       /\ HeadToGo(m) = IF h.done THEN h.bytes
                                                  ELSE h.bytes \o HeadToGo(h.msg)
          /\ ~b.err => BodyToGo(m) = IF b.done THEN b.bytes
                                               ELSE b.bytes \o BodyToGo(b.msg)

(* The bytes s are whole messages, back to back: they can be cut so that     *)
(* between one cut and the next there is the text of one.                    *)
AreWhole(s) ==
  \E cuts \in SUBSET (0 .. Len(s)) :
    /\ {0, Len(s)} \subseteq cuts
    /\ \A i, j \in cuts :
         i < j /\ (\A k \in cuts : k <= i \/ j <= k)
           => \E m \in NewMsg : SubSeq(s, i + 1, j) = Text(m)

(* What a caller in the middle of its message has still to produce. *)
Owed(c) ==
  IF writeState_ = "WRITE_HEADER" THEN Text(msg[c]) ELSE BodyToGo(msg[c])

(* The bytes s are whole messages and the first part of one more, of which   *)
(* the rest is owed.                                                        *)
Underway(s, owed) ==
  \E k \in 0 .. Len(s) : \E m \in NewMsg :
    /\ AreWhole(SubSeq(s, 1, k))
    /\ SubSeq(s, k + 1, Len(s)) \o owed = Text(m)

(* Messages reach the buffer whole: whatever calls come in, at START it      *)
(* was given whole messages only, and in between whole messages and the      *)
(* first part of one, whose rest is what the caller in the middle of its     *)
(* message owes.                                                            *)
MessagesStayWhole ==
  /\ writeState_ = "START" => AreWhole(produced)
  /\ \A c \in Caller : MidMessage(c) => Underway(produced, Owed(c))

TextInv == IInv /\ MessagesStayWhole
===============================================================================
