------------------------------ MODULE FramedRead ------------------------------
(***************************************************************************)
(* Connection::read over messages that know where they end.  ConnectionRead *)
(* asks of a message only that it reports no more bytes than it was given;  *)
(* here it also keeps what it took, and its two methods say "complete" only  *)
(* when its head, and then the whole of it, was taken.                      *)
(***************************************************************************)
EXTENDS ConnectionRead, SequencesExt

CONSTANTS
  Raw(_),       \* the bytes a message took, in order
  HeadRead(_),  \* it has its head
  Whole(_)      \* what it took is one frame, neither less nor more

(* What consumeHeaderSome and consumeBodySome promise when they report no    *)
(* error.  Nothing is asked of a message that refuses its bytes, of a body   *)
(* before its head, or of a head once it is there.                          *)
Takes(m, s, r) == Raw(r.msg) = Raw(m) \o SubSeq(s, 1, r.n)
ASSUME FramingContract ==
  /\ \A m \in Msg : Raw(m) \in Seq(Byte)
  /\ \A m \in NewMsg : Raw(m) = <<>> /\ ~HeadRead(m)
  /\ \A m \in Msg : \A s \in Chunk :
       LET h == ConsumeHeaderSome(m, s)
           b == ConsumeBodySome(m, s)
       IN /\ ~HeadRead(m) /\ ~h.err =>
               Takes(m, s, h) /\ (h.done <=> HeadRead(h.msg))
          /\ HeadRead(m) /\ ~b.err =>
               Takes(m, s, b) /\ HeadRead(b.msg) /\ (b.done => Whole(b.msg))

Frames == FlattenSeq([i \in 1 .. Len(delivered) |-> Raw(delivered[i])])

(* Framing survives every fragmentation and coalescing of the stream and     *)
(* every call that was turned away: the consumed bytes are exactly those of  *)
(* the completed messages, back to back, then those of the message being     *)
(* read, and a completed message holds one whole frame.                      *)
FramesTileTheStream ==
  /\ readState_ = "START" => taken = Frames
  /\ \A c \in Caller : Inside(c) => taken = Frames \o Raw(msg[c])
  /\ \A i \in 1 .. Len(delivered) : Whole(delivered[i])

(* What makes it inductive: the reader stands behind a head when, and only   *)
(* when, its message has one.                                               *)
HeadBeforeBody ==
  \A c \in Caller : Inside(c) => (readState_ = "READ_BODY" <=> HeadRead(msg[c]))
FramingInv == IInv /\ FramesTileTheStream /\ HeadBeforeBody
===============================================================================
