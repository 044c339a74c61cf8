----------------------------- MODULE BinaryMessage -----------------------------
(***************************************************************************)
(* BinaryMessage (src/src/message/binaryMessage.cpp): a length in network    *)
(* order, then as many bytes, which msgpack23 makes of a value.  Two         *)
(* programs send each other one message in turn, each with one object that   *)
(* it packs, writes, reads and unpacks; the spans given to the object are as *)
(* long as Connection happens to have them.                                 *)
(***************************************************************************)
EXTENDS MsgPack

CONSTANTS
  Width,    \* sizeof(length_) (8)
  MaxSize,  \* what buffer_ can be resized to
  Type,     \* types of messages
  Value,    \* the values of each of them
  Room      \* the lengths of the spans given to produce

Byte == 0 .. 255
Program == {"a", "b"}
Other(p) == IF p = "a" THEN "b" ELSE "a"

ASSUME MessageAssumption ==
  /\ Width \in Nat \ {0} /\ MaxSize \in Nat /\ Room \subseteq Nat
  /\ \A t \in Type : \A v \in Value[t] : Len(Packed(t, v)) \in 0 .. MaxSize

VARIABLES
  type,    \* the T of BinaryMessage<T> in both programs
  msg,     \* the object of each program
  value,   \* and in it the value that unpack put there, or <<>>
  doing,   \* what each program does: "pack", "head", "body" (it writes), "read",
           \* "readBody", "unpack", "failed"
  wire,    \* the bytes on their way to each program
  sent,    \* history: the last value that was packed, and its bytes
  pieces,  \* history: in how many calls its header has been consumed
  clean    \* history: length_ was 0 before the first of them

vars == <<type, msg, value, doing, wire, sent, pieces, clean>>

-------------------------------------------------------------------------------
(* length_ as its bytes in memory on a little-endian machine, and as a number *)
(* as far as it matters: lengths beyond MaxSize are all alike.               *)
Length(b) == FoldRight(LAMBDA x, n : IF n > MaxSize THEN n ELSE 256 * n + x, b, 0)
InMemory(n) == Reverse(BigEndian(n, Width))
Swapped(b) == Reverse(b)

Smaller(m, n) == IF m < n THEN m ELSE n
Resized(b, n) == [k \in 1 .. n |-> IF k <= Len(b) THEN b[k] ELSE 0]
Copied(b, at, data, n) ==
  [k \in DOMAIN b |-> IF k > at /\ k <= at + n THEN data[k - at] ELSE b[k]]

NotSwapped(b) == b \* mutant: the length stays in network order
ReadSwapped(b) == Swapped(b)

(* consumeHeaderSome swaps length_ after every piece of it. *)
ConsumeHeaderSome(m, data) ==
  LET n == Smaller(Len(data), Width - m.headIdx)
      h == [m EXCEPT !.length = ReadSwapped(Copied(m.length, m.headIdx, data, n)),
                     !.headIdx = m.headIdx + n]
  IN [msg |-> h, n |-> n, done |-> h.headIdx >= Width]

ConsumeBodySome(m, data) ==
  LET length == Length(m.length)
      n == Smaller(Len(data), length - m.bodyIdx)
      b == [m EXCEPT !.buffer = Copied(Resized(m.buffer, length), m.bodyIdx, data, n),
                     !.bodyIdx = m.bodyIdx + n]
  IN [msg |-> b, n |-> n, done |-> b.bodyIdx >= length]

Rewound(idx, end) == IF idx >= end THEN 0 ELSE idx

ProduceHeaderSome(m, room) ==
  LET n == Smaller(room, Width - m.headIdx)
      end == m.headIdx + n
  IN [msg |-> [m EXCEPT !.headIdx = Rewound(end, Width)], done |-> end >= Width,
      out |-> SubSeq(Swapped(m.length), m.headIdx + 1, end)]

ProduceBodySome(m, room) ==
  LET length == Length(m.length)
      b == Resized(m.buffer, length)
      end == m.bodyIdx + Smaller(room, length - m.bodyIdx)
  IN [msg |-> [m EXCEPT !.buffer = b, !.bodyIdx = Rewound(end, length)],
      done |-> end >= length, out |-> SubSeq(b, m.bodyIdx + 1, end)]

-------------------------------------------------------------------------------
(* BinaryMessage() = default leaves length_ uninitialized. *)
Init ==
  /\ type \in Type
  /\ msg \in [Program -> {[length |-> [k \in 1 .. Width |-> b], headIdx |-> 0,
                           buffer |-> <<>>, bodyIdx |-> 0] : b \in {0, 255}}]
  /\ value = [p \in Program |-> <<>>]
  /\ doing = [p \in Program |-> IF p = "a" THEN "pack" ELSE "read"]
  /\ wire = [p \in Program |-> <<>>]
  /\ sent = [value |-> <<>>, bytes |-> <<>>] /\ pieces = 0 /\ clean = FALSE

FromTheStart(m) == [m EXCEPT !.headIdx = 0, !.bodyIdx = 0]

(* pack takes the value out of the object. *)
Pack(p, v) ==
  LET bytes == Packed(type, v) IN
  /\ doing[p] = "pack"
  /\ msg' = [msg EXCEPT ![p] = [FromTheStart(@) EXCEPT !.length = InMemory(Len(bytes)),
                                                       !.buffer = bytes]]
  /\ value' = [value EXCEPT ![p] = <<>>]
  /\ doing' = [doing EXCEPT ![p] = "head"]
  /\ sent' = [value |-> v, bytes |-> bytes] /\ pieces' = 0
  /\ UNCHANGED <<type, wire, clean>>

(* The packer throws half way; the program packs something else instead.      *)
PackFails(p, v) ==
  /\ doing[p] = "pack"
  /\ \E n \in {0, Len(Packed(type, v)) \div 2} :
       msg' = [msg EXCEPT ![p] = [FromTheStart(@) EXCEPT
                                    !.length = InMemory(0),
                                    !.buffer = SubSeq(Packed(type, v), 1, n)]]
  /\ UNCHANGED <<type, value, doing, wire, sent, pieces, clean>>

WriteHead(p, room) ==
  LET r == ProduceHeaderSome(msg[p], room) IN
  /\ doing[p] = "head"
  /\ msg' = [msg EXCEPT ![p] = r.msg]
  /\ wire' = [wire EXCEPT ![Other(p)] = @ \o r.out]
  /\ doing' = [doing EXCEPT ![p] = IF r.done THEN "body" ELSE "head"]
  /\ UNCHANGED <<type, value, sent, pieces, clean>>

WriteBody(p, room) ==
  LET r == ProduceBodySome(msg[p], room) IN
  /\ doing[p] = "body"
  /\ msg' = [msg EXCEPT ![p] = r.msg]
  /\ wire' = [wire EXCEPT ![Other(p)] = @ \o r.out]
  /\ doing' = [doing EXCEPT ![p] = IF r.done THEN "read" ELSE "body"]
  /\ UNCHANGED <<type, value, sent, pieces, clean>>

(* Connection::read goes from the head to the body without a look at whether *)
(* there is more to read.                                                   *)
ReadHead(p, span) ==
  LET r == ConsumeHeaderSome(msg[p], SubSeq(wire[p], 1, span)) IN
  /\ doing[p] = "read" /\ span > 0
  /\ msg' = [msg EXCEPT ![p] = r.msg]
  /\ wire' = [wire EXCEPT ![p] = SubSeq(@, r.n + 1, Len(@))]
  /\ doing' = [doing EXCEPT ![p] = IF r.done THEN "readBody" ELSE "read"]
  /\ pieces' = pieces + 1
  /\ clean' = IF pieces = 0 THEN Length(msg[p].length) = 0 ELSE clean
  /\ UNCHANGED <<type, value, sent>>

ReadBody(p, span) ==
  LET r == ConsumeBodySome(msg[p], SubSeq(wire[p], 1, span)) IN
  /\ doing[p] = "readBody" /\ Length(msg[p].length) <= MaxSize
  /\ msg' = [msg EXCEPT ![p] = r.msg]
  /\ wire' = [wire EXCEPT ![p] = SubSeq(@, r.n + 1, Len(@))]
  /\ doing' = [doing EXCEPT ![p] = IF r.done THEN "unpack" ELSE "readBody"]
  /\ UNCHANGED <<type, value, sent, pieces, clean>>

(* resize throws, and the coroutine that reads ends. *)
TooLong(p) ==
  /\ doing[p] = "readBody" /\ Length(msg[p].length) > MaxSize
  /\ doing' = [doing EXCEPT ![p] = "failed"]
  /\ UNCHANGED <<type, msg, value, wire, sent, pieces, clean>>

Unpack(p) ==
  LET r == Unpacked(type, msg[p].buffer) IN
  /\ doing[p] = "unpack" /\ r.ok
  /\ msg' = [msg EXCEPT ![p].buffer = <<>>]
  /\ value' = [value EXCEPT ![p] = <<r.val>>]
  /\ doing' = [doing EXCEPT ![p] = "pack"]
  /\ UNCHANGED <<type, wire, sent, pieces, clean>>

(* The unpacker throws, or the message's own unpack does; buffer_ stays as it *)
(* is, and the program goes on.                                             *)
UnpackFails(p) ==
  /\ doing[p] = "unpack"
  /\ doing' = [doing EXCEPT ![p] = "pack"]
  /\ UNCHANGED <<type, msg, value, wire, sent, pieces, clean>>

Step(p) ==
  \/ \E v \in Value[type] : Pack(p, v) \/ PackFails(p, v)
  \/ \E room \in Room : WriteHead(p, room) \/ WriteBody(p, room)
  \/ \E span \in 0 .. Len(wire[p]) : ReadHead(p, span) \/ ReadBody(p, span)
  \/ TooLong(p) \/ Unpack(p) \/ UnpackFails(p)

Next == \E p \in Program : Step(p)

Spec == Init /\ [][Next]_vars

-------------------------------------------------------------------------------
(* What consumeHeaderSome gets right: a header in one piece, and one in more  *)
(* if length_ was 0 before and the length takes one byte.  Others come out   *)
(* wrong, as each further piece is put into bytes that were swapped before.  *)
Readable == pieces = 1 \/ (clean /\ Len(sent.bytes) < 256)

(* A message that is readable arrives as it was packed, with nothing of it    *)
(* left for the next, also in an object that was written before.             *)
ArrivesAsSent ==
  \A p \in Program :
    /\ doing[p] = "readBody" /\ Readable => Length(msg[p].length) = Len(sent.bytes)
    /\ doing[p] = "unpack" /\ Readable => msg[p].buffer = sent.bytes /\ wire[p] = <<>>

(* What unpack gives without an error is the value that the other program    *)
(* packed, also behind a header that was put together wrong, and a readable   *)
(* message does unpack: at the edges of each format of numbers and times, and   *)
(* of sizes of up to two bytes, for all values but those that msgpack23 does  *)
(* not bring back.                                                          *)
ValueArrives ==
  ComesBack(type, sent.value) =>
    \A p \in Program :
      /\ doing[p] = "unpack" /\ Readable => Unpacked(type, msg[p].buffer).ok
      /\ doing[p] = "pack" /\ value[p] # <<>> => value[p] = <<sent.value>>

(* The bytes of a value say themselves where they end: the unpacker never     *)
(* takes a part of them for a value, and takes all of them.  This holds for   *)
(* all values, for those too that come back as others.                      *)
FramesItself ==
  \A p \in Program : doing[p] = "head" /\ msg[p].headIdx = 0 =>
    \A n \in 0 .. Len(sent.bytes) :
      LET r == Unpacked(type, SubSeq(sent.bytes, 1, n))
      IN r.ok => n = Len(sent.bytes) /\ r.at = n + 1
===============================================================================
