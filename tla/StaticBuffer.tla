----------------------------- MODULE StaticBuffer -----------------------------
(***************************************************************************)
(* StaticBuffer<bufSize> (src/src/buffer.cpp): a fixed array of bytes with *)
(* a read and a write cursor.  It is not a ring: commit moves the write    *)
(* cursor towards the end of the array, and the room before the read       *)
(* cursor is recovered only when consume catches up with the write cursor. *)
(***************************************************************************)
EXTENDS Integers, Sequences

CONSTANTS
  Cap,   \* bufSize: the length of the array (4096 in Connection)
  Byte,  \* the values an array cell can hold
  Zero   \* the value the array is initialised with, buffer_ = {}

ASSUME CapAssumption == Cap \in Nat \ {0}
ASSUME ZeroAssumption == Zero \in Byte

(* The buffers a program can hold: the cursors are ordered and in bounds. *)
Buffers ==
  { b \in [mem : [0 .. Cap-1 -> Byte], rd : 0 .. Cap, wr : 0 .. Cap] :
      b.rd <= b.wr }

NewBuffer == [mem |-> [i \in 0 .. Cap-1 |-> Zero], rd |-> 0, wr |-> 0]

Size(b) == b.wr - b.rd

IsEmpty(b) == Size(b) = 0

(* writableSpan().size(): only what lies after the write cursor. *)
Room(b) == Cap - b.wr

(* readableSpan(): the bytes from the read to the write cursor. *)
ReadableSpan(b) == [i \in 1 .. Size(b) |-> b.mem[b.rd + i - 1]]

(* What a caller does to writableSpan(): the bytes s go behind the write    *)
(* cursor, which does not move.                                            *)
CopiedIn(b, s) ==
  [i \in 0 .. Cap-1 |->
     IF i >= b.wr /\ i < b.wr + Len(s) THEN s[i - b.wr + 1] ELSE b.mem[i]]

Filled(b, s) == [b EXCEPT !.mem = CopiedIn(b, s)]

(* commit(size), with its clamp. *)
Commit(b, n) ==
  [b EXCEPT !.wr = IF b.wr + n > Cap THEN Cap ELSE b.wr + n]

(* Mutant: consume without the reset of the cursors. *)
ConsumeNoReset(b, n) ==
  [b EXCEPT !.rd = IF b.rd + n >= b.wr THEN b.wr ELSE b.rd + n]

(* consume(size): the cursors go back to 0 when nothing is left to read. *)
Consume(b, n) ==
  IF b.rd + n >= b.wr THEN [mem |-> b.mem, rd |-> 0, wr |-> 0]
                      ELSE [b EXCEPT !.rd = b.rd + n]
===============================================================================
