---------------------------- MODULE OperatorProofs ----------------------------
(***************************************************************************)
(* What the operators do that the models are built from, for every value of  *)
(* their arguments: the lemmas that the theorems of the other modules share. *)
(*                                                                         *)
(* StaticBuffer: what its operations do to the bytes a reader sees.          *)
(* ChunkAutomaton: what feeding it a sequence does: the recursion that       *)
(* defines Feed has a solution, feeding is one step per byte and may be cut  *)
(* anywhere, and what the automaton has decoded only grows.                  *)
(* ChunkCoding: a body comes back out of each of its spellings.              *)
(* FlattenSeq: what it makes of a sequence with one more element.            *)
(* Sequences: their parts, and what two ways to cut one have in common.      *)
(*                                                                         *)
(* Induction is stated for sets of numbers: a number that were missing from  *)
(* such a set would have a least one beside it.                             *)
(***************************************************************************)
EXTENDS StaticBuffer, ChunkCoding, SequenceTheorems, WellFoundedInduction, TLAPS

(* The readable span is a sequence of bytes, as long as the cursors say. *)
LEMMA SpanType ==
  ASSUME NEW b \in Buffers
  PROVE  /\ Size(b) \in 0 .. Cap
         /\ ReadableSpan(b) \in [1 .. Size(b) -> Byte]
         /\ ReadableSpan(b) \in Seq(Byte)
         /\ Len(ReadableSpan(b)) = Size(b)
         /\ Room(b) \in 0 .. Cap
<1> USE CapAssumption DEF Buffers, Size, Room
<1>1. Size(b) \in 0 .. Cap /\ Room(b) \in 0 .. Cap
  OBVIOUS
<1>2. \A i \in 1 .. Size(b) : b.mem[b.rd + i - 1] \in Byte
  OBVIOUS
<1>3. ReadableSpan(b) \in [1 .. Size(b) -> Byte]
  BY <1>2 DEF ReadableSpan
<1>4. ReadableSpan(b) \in Seq(Byte) /\ Len(ReadableSpan(b)) = Size(b)
  BY <1>1, <1>3, SeqDef, LenProperties, Z3
<1>5. QED BY <1>1, <1>3, <1>4

LEMMA NewBufferEmpty ==
  NewBuffer \in Buffers /\ ReadableSpan(NewBuffer) = <<>> /\ IsEmpty(NewBuffer)
<1>1. NewBuffer \in Buffers
  BY CapAssumption, ZeroAssumption DEF NewBuffer, Buffers
<1>2. Size(NewBuffer) = 0
  BY DEF NewBuffer, Size
<1>3. QED BY <1>1, <1>2, SpanType, EmptySeq DEF IsEmpty

(* An empty buffer has an empty readable span and conversely. *)
LEMMA EmptySpan ==
  ASSUME NEW b \in Buffers
  PROVE  IsEmpty(b) <=> ReadableSpan(b) = <<>>
BY SpanType, EmptySeq DEF IsEmpty

(* Writing s to the writable span and committing it appends s to what can   *)
(* be read, as long as s fits.                                              *)
LEMMA CommitAppends ==
  ASSUME NEW b \in Buffers, NEW s \in Seq(Byte), Len(s) <= Room(b)
  PROVE  /\ Commit(Filled(b, s), Len(s)) \in Buffers
         /\ ReadableSpan(Commit(Filled(b, s), Len(s))) = ReadableSpan(b) \o s
<1> DEFINE mem2 == CopiedIn(b, s)
           t == Commit(Filled(b, s), Len(s))
<1>0. /\ b \in [mem : [0 .. Cap-1 -> Byte], rd : 0 .. Cap, wr : 0 .. Cap]
      /\ b.rd <= b.wr
  BY DEF Buffers
<1>2. Len(s) \in Nat /\ \A i \in 1 .. Len(s) : s[i] \in Byte
  BY LenProperties, ElementOfSeq
<1>a. Filled(b, s) = [mem |-> mem2, rd |-> b.rd, wr |-> b.wr]
  BY <1>0 DEF Filled
<1>b. ~(b.wr + Len(s) > Cap)
  BY <1>0, <1>2, CapAssumption DEF Room
<1>1. t = [mem |-> mem2, rd |-> b.rd, wr |-> b.wr + Len(s)]
  BY <1>a, <1>b DEF Commit
<1>3. t \in Buffers
  <2>1. \A i \in 0 .. Cap-1 : mem2[i] \in Byte
    BY <1>0, <1>2, CapAssumption DEF CopiedIn
  <2>2. mem2 \in [0 .. Cap-1 -> Byte]
    BY <2>1 DEF CopiedIn
  <2>3. b.wr + Len(s) \in 0 .. Cap /\ b.rd <= b.wr + Len(s)
    BY <1>0, <1>2, <1>b, CapAssumption
  <2> HIDE DEF mem2, t
  <2>4. QED BY <1>0, <1>1, <2>2, <2>3 DEF Buffers
<1>4. ReadableSpan(t) = ReadableSpan(b) \o s
  <2> DEFINE u == ReadableSpan(b) \o s
  <2>1. /\ u \in Seq(Byte)
        /\ Len(u) = Size(b) + Len(s)
        /\ \A i \in 1 .. Size(b) + Len(s) :
             u[i] = IF i <= Size(b) THEN ReadableSpan(b)[i] ELSE s[i - Size(b)]
    <3> DEFINE r == ReadableSpan(b)
               k == Size(b)
    <3>1. r \in Seq(Byte) /\ Len(r) = k
      BY SpanType
    <3> HIDE DEF r, k, t, mem2
    <3>2. /\ r \o s \in Seq(Byte)
          /\ Len(r \o s) = k + Len(s)
          /\ \A i \in 1 .. k + Len(s) :
               (r \o s)[i] = IF i <= k THEN r[i] ELSE s[i - k]
      BY <3>1, ConcatProperties
    <3>3. QED BY <3>2 DEF r, k
  <2>2. ReadableSpan(t) \in Seq(Byte) /\ Len(ReadableSpan(t)) = Size(t)
    BY <1>3, SpanType
  <2>3. Size(t) = Size(b) + Len(s) /\ Size(b) \in Nat /\ Size(b) = b.wr - b.rd
    BY <1>0, <1>1, <1>2 DEF Size
  <2>4. ASSUME NEW i \in 1 .. Size(t)
        PROVE  ReadableSpan(t)[i] = u[i]
    <3>1. ReadableSpan(t)[i] = mem2[b.rd + i - 1]
      BY <1>1 DEF ReadableSpan
    <3>2. b.rd + i - 1 \in 0 .. Cap-1
      BY <1>0, <1>2, <1>b, <2>3, CapAssumption
    <3>3. mem2[b.rd + i - 1] = IF b.rd + i - 1 >= b.wr THEN s[i - Size(b)]
                                                       ELSE b.mem[b.rd + i - 1]
      BY <1>0, <1>2, <2>3, <3>2 DEF CopiedIn
    <3>4. CASE i <= Size(b)
      <4>1. ReadableSpan(b)[i] = b.mem[b.rd + i - 1]
        BY <2>3, <3>4 DEF ReadableSpan
      <4>2. ~(b.rd + i - 1 >= b.wr)
        BY <1>0, <2>3, <3>4
      <4>3. QED BY <1>2, <2>1, <2>3, <3>1, <3>3, <3>4, <4>1, <4>2
    <3>5. CASE ~(i <= Size(b))
      <4>1. b.rd + i - 1 >= b.wr
        BY <1>0, <2>3, <3>5
      <4>2. QED BY <1>2, <2>1, <2>3, <3>1, <3>3, <3>5, <4>1
    <3>6. QED BY <3>4, <3>5
  <2> HIDE DEF t, u, mem2
  <2>5. ReadableSpan(t) = u
    BY <2>1, <2>2, <2>3, <2>4, SeqEqual
  <2>6. QED BY <2>5 DEF u
<1>5. QED BY <1>3, <1>4

(* Consuming n bytes drops the first n of what can be read. *)
LEMMA ConsumeDrops ==
  ASSUME NEW b \in Buffers, NEW n \in 0 .. Size(b)
  PROVE  /\ Consume(b, n) \in Buffers
         /\ ReadableSpan(Consume(b, n)) =
              SubSeq(ReadableSpan(b), n + 1, Len(ReadableSpan(b)))
<1> DEFINE t == Consume(b, n)
           u == SubSeq(ReadableSpan(b), n + 1, Len(ReadableSpan(b)))
<1>0. /\ b \in [mem : [0 .. Cap-1 -> Byte], rd : 0 .. Cap, wr : 0 .. Cap]
      /\ b.rd <= b.wr
      /\ n \in Nat /\ b.rd + n <= b.wr
  BY CapAssumption DEF Buffers, Size
<1>c. t = IF b.rd + n >= b.wr THEN [mem |-> b.mem, rd |-> 0, wr |-> 0]
                                 ELSE [mem |-> b.mem, rd |-> b.rd + n, wr |-> b.wr]
  <2>1. [b EXCEPT !.rd = b.rd + n] = [mem |-> b.mem, rd |-> b.rd + n, wr |-> b.wr]
    BY <1>0
  <2>2. QED BY <2>1, Zenon DEF Consume
<1>1. t \in Buffers
  <2> HIDE DEF t
  <2>1. QED BY <1>0, <1>c, CapAssumption DEF Buffers
<1>2. Size(t) = Size(b) - n
  <2> HIDE DEF t
  <2>1. QED BY <1>0, <1>c, CapAssumption DEF Size
<1>3. ReadableSpan(t) \in Seq(Byte) /\ Len(ReadableSpan(t)) = Size(t)
  BY <1>1, SpanType
<1>4. /\ u \in Seq(Byte)
      /\ Len(u) = Size(b) - n
      /\ \A i \in 1 .. Size(b) - n : u[i] = ReadableSpan(b)[n + i]
  BY SpanType, SubSeqProperties
<1>5. ASSUME NEW i \in 1 .. Size(t)
      PROVE  ReadableSpan(t)[i] = u[i]
  <2> HIDE DEF t
  <2>1. Size(b) = b.wr - b.rd /\ n + i \in 1 .. Size(b) /\ i \in 1 .. Size(b) - n
    BY <1>0, <1>2, CapAssumption DEF Size
  <2>2. t.mem = b.mem /\ t.rd = b.rd + n
    BY <1>0, <1>2, <1>c, <2>1 DEF Size
  <2>3. ReadableSpan(t)[i] = b.mem[b.rd + n + i - 1]
    BY <2>2 DEF ReadableSpan
  <2>4. ReadableSpan(b)[n + i] = b.mem[b.rd + (n + i) - 1]
    BY <2>1 DEF ReadableSpan
  <2>5. b.rd + (n + i) - 1 = b.rd + n + i - 1
    BY <1>0, <2>1
  <2>6. QED BY <1>4, <2>1, <2>3, <2>4, <2>5
<1>6. QED
  <2> HIDE DEF t, u
  <2>1. ReadableSpan(t) = u
    BY <1>2, <1>3, <1>4, <1>5, SeqEqual
  <2>2. QED BY <1>1, <2>1 DEF t, u

(* Consuming n bytes that go behind t moves the boundary between t and the   *)
(* readable span, and no byte.                                              *)
LEMMA ConsumeMovesBytes ==
  ASSUME NEW b \in Buffers, NEW t \in Seq(Byte), NEW n \in 0 .. Size(b)
  PROVE  /\ SubSeq(ReadableSpan(b), 1, n) \in Seq(Byte)
         /\ Len(SubSeq(ReadableSpan(b), 1, n)) = n
         /\ t \o SubSeq(ReadableSpan(b), 1, n) \in Seq(Byte)
         /\ (t \o SubSeq(ReadableSpan(b), 1, n)) \o ReadableSpan(Consume(b, n))
              = t \o ReadableSpan(b)
<1> DEFINE r == ReadableSpan(b)
           p == SubSeq(r, 1, n)
           q == SubSeq(r, n + 1, Len(r))
<1>1. r \in Seq(Byte) /\ Len(r) = Size(b) /\ Size(b) \in Nat /\ n \in 0 .. Len(r)
  BY SpanType
<1>2. ReadableSpan(Consume(b, n)) = q
  BY ConsumeDrops
<1> HIDE DEF r
<1>3. \A i \in 1 .. Len(r) : r[i] \in Byte
  BY <1>1, ElementOfSeq
<1>4. p \in Seq(Byte) /\ q \in Seq(Byte) /\ Len(p) = n
  BY <1>1, <1>3, SubSeqProperties
<1>5. p \o q = r
  <2>1. 1 \in 1 .. Len(r) + 1 /\ n \in 1 - 1 .. Len(r) /\ Len(r) \in n .. Len(r)
    BY <1>1
  <2>2. p \o q = SubSeq(r, 1, Len(r))
    BY <1>1, <2>1, ConcatAdjacentSubSeq
  <2>3. QED BY <1>1, <2>2, SubSeqFull
<1> HIDE DEF p, q
<1>6. t \o p \in Seq(Byte)
  BY <1>4, ConcatProperties
<1>7. (t \o p) \o q = t \o (p \o q)
  BY <1>4, ConcatAssociative
<1>8. QED BY <1>2, <1>4, <1>5, <1>6, <1>7 DEF r, p, q

(* Writing to the writable span without a commit changes nothing a reader     *)
(* sees.                                                                     *)
LEMMA FillingIsInvisible ==
  ASSUME NEW b \in Buffers, NEW s \in Seq(Byte), Len(s) <= Room(b)
  PROVE  /\ Filled(b, s) \in Buffers
         /\ ReadableSpan(Filled(b, s)) = ReadableSpan(b)
<1> DEFINE mem2 == CopiedIn(b, s)
           t == Filled(b, s)
<1>0. /\ b \in [mem : [0 .. Cap-1 -> Byte], rd : 0 .. Cap, wr : 0 .. Cap]
      /\ b.rd <= b.wr
  BY DEF Buffers
<1>1. Len(s) \in Nat /\ \A i \in 1 .. Len(s) : s[i] \in Byte
  BY LenProperties, ElementOfSeq
<1>2. t = [mem |-> mem2, rd |-> b.rd, wr |-> b.wr]
  BY <1>0 DEF Filled
<1>3. \A i \in 0 .. Cap-1 : mem2[i] \in Byte /\ (i < b.wr => mem2[i] = b.mem[i])
  BY <1>0, <1>1, CapAssumption DEF CopiedIn
<1>4. mem2 \in [0 .. Cap-1 -> Byte]
  BY <1>3 DEF CopiedIn
<1> HIDE DEF mem2, t
<1>5. t \in Buffers
  BY <1>0, <1>2, <1>4 DEF Buffers
<1>6. Size(t) = Size(b) /\ \A i \in 1 .. Size(b) : mem2[b.rd + i - 1] = b.mem[b.rd + i - 1]
  <2>1. Size(t) = Size(b) /\ Size(b) = b.wr - b.rd
    BY <1>2 DEF Size
  <2>2. \A i \in 1 .. Size(b) : b.rd + i - 1 \in 0 .. Cap-1 /\ b.rd + i - 1 < b.wr
    BY <1>0, <2>1, CapAssumption
  <2>3. QED BY <1>3, <2>1, <2>2
<1>7. ReadableSpan(t) = ReadableSpan(b)
  BY <1>2, <1>6 DEF ReadableSpan
<1>8. QED BY <1>5, <1>7 DEF t

(* Consuming more than there is to read keeps the cursors in order. *)
LEMMA ConsumeStaysInBounds ==
  ASSUME NEW b \in Buffers, NEW n \in Nat
  PROVE  Consume(b, n) \in Buffers
<1>1. CASE n \in 0 .. Size(b)
  BY <1>1, ConsumeDrops
<1>2. CASE n \notin 0 .. Size(b)
  <2>1. /\ b \in [mem : [0 .. Cap-1 -> Byte], rd : 0 .. Cap, wr : 0 .. Cap]
        /\ b.rd + n >= b.wr
    BY <1>2, CapAssumption DEF Buffers, Size
  <2>2. Consume(b, n) = [mem |-> b.mem, rd |-> 0, wr |-> 0]
    BY <2>1 DEF Consume
  <2>3. QED BY <2>1, <2>2, CapAssumption DEF Buffers
<1>3. QED BY <1>1, <1>2

-------------------------------------------------------------------------------
Less == {ss \in Nat \X Nat : ss[1] < ss[2]}

LEMMA LeastElement ==
  ASSUME NEW S \in SUBSET Nat, S # {}
  PROVE  \E m \in S : \A n \in S : m <= n
<1>1. IsWellFoundedOn(Less, Nat)
  BY NatLessThanWellFounded, Zenon DEF OpToRel, Less
<1>2. PICK m \in S : \A n \in S : ~(<<n, m>> \in Less)
  <2>1. S \subseteq Nat  OBVIOUS
  <2> QED  BY <1>1, <2>1, WFMin
<1>3. ASSUME NEW n \in S
      PROVE  m <= n
  <2>1. n \in Nat /\ m \in Nat  OBVIOUS
  <2>2. n < m => <<n, m>> \in Less  BY <2>1 DEF Less
  <2> QED  BY <1>2, <2>1, <2>2
<1> QED  BY <1>3

LEMMA MinOf ==
  ASSUME NEW S \in SUBSET Nat, S # {}
  PROVE  Min(S) \in S /\ \A n \in S : Min(S) <= n
<1>1. \E m \in S : \A n \in S : m <= n  BY LeastElement
<1> QED  BY <1>1 DEF Min

LEMMA MaxOf ==
  ASSUME NEW N \in Nat, NEW S \in SUBSET (0 .. N), S # {}
  PROVE  Max(S) \in S /\ \A n \in S : n <= Max(S)
<1>0. \A n \in S : n \in Int  OBVIOUS
<1> DEFINE R == {N - n : n \in S}
<1>1. R \in SUBSET Nat /\ R # {}
  <2>1. \A n \in S : N - n \in Nat  OBVIOUS
  <2> QED  BY <2>1
<1>2. PICK m \in R : \A n \in R : m <= n
  <2> HIDE DEF R
  <2> QED  BY <1>1, LeastElement
<1>3. PICK x \in S : m = N - x
  BY <1>2
<1>4. \A n \in S : x >= n
  <2> SUFFICES ASSUME NEW n \in S PROVE x >= n
    OBVIOUS
  <2>1. N - x <= N - n  BY <1>2, <1>3
  <2>2. x \in Int /\ n \in Int  OBVIOUS
  <2> QED  BY <2>1, <2>2
<1>5. \E y \in S : \A n \in S : y >= n  BY <1>4
<1> DEFINE y == Max(S)
<1>6. y \in S /\ \A n \in S : y >= n  BY <1>5 DEF Max
<1> HIDE DEF y
<1>7. \A n \in S : n <= y  BY <1>0, <1>6
<1> QED  BY <1>6, <1>7 DEF y

LEMMA Induction ==
  ASSUME NEW S, 0 \in S, \A n \in Nat : n \in S => n + 1 \in S
  PROVE  Nat \subseteq S
<1> SUFFICES ASSUME Nat \ S # {}
             PROVE  FALSE
  OBVIOUS
<1>1. PICK m \in Nat \ S : \A n \in Nat \ S : m <= n
  BY LeastElement, Nat \ S \in SUBSET Nat
<1>2. m # 0 /\ m \in Nat  BY <1>1
<1>3. m - 1 \in Nat /\ ~(m <= m - 1) /\ (m - 1) + 1 = m  BY <1>2
<1>4. m - 1 \in S  BY <1>1, <1>3
<1> QED  BY <1>3, <1>4, <1>1

-------------------------------------------------------------------------------
(* r is the run of the automaton from a over the first N bytes of s.         *)
IsRun(r, a, s, N) ==
  r = [n \in 0 .. N |-> IF n = 0 THEN a ELSE Step(r[n - 1], s[n])]

LEMMA RunExists ==
  ASSUME NEW a, NEW s, NEW N \in Nat
  PROVE  \E r : IsRun(r, a, s, N)
<1> DEFINE S == {k \in Nat : \E r : IsRun(r, a, s, k)}
<1>1. 0 \in S
  <2>1. IsRun([n \in 0 .. 0 |-> a], a, s, 0)  BY DEF IsRun
  <2> QED  BY <2>1
<1>2. ASSUME NEW k \in Nat, k \in S
      PROVE  k + 1 \in S
  <2>1. PICK r : IsRun(r, a, s, k)  BY <1>2
  <2> DEFINE q == [n \in 0 .. k + 1 |-> IF n = k + 1 THEN Step(r[k], s[k + 1]) ELSE r[n]]
  <2>2. ASSUME NEW n \in 0 .. k + 1
        PROVE  q[n] = IF n = 0 THEN a ELSE Step(q[n - 1], s[n])
    <3>1. CASE n = k + 1
      <4>1. n # 0 /\ n - 1 = k /\ k \in 0 .. k + 1 /\ k # k + 1  BY <3>1
      <4>2. q[n - 1] = r[k]  BY <4>1
      <4> QED  BY <3>1, <4>1, <4>2
    <3>2. CASE n # k + 1
      <4>1. n \in 0 .. k  BY <3>2
      <4>2. q[n] = r[n]  BY <3>2
      <4>3. r[n] = IF n = 0 THEN a ELSE Step(r[n - 1], s[n])  BY <2>1, <4>1 DEF IsRun
      <4>4. n # 0 => q[n - 1] = r[n - 1]  BY <4>1
      <4> QED  BY <4>2, <4>3, <4>4
    <3> QED  BY <3>1, <3>2
  <2>3. IsRun(q, a, s, k + 1)
    <3>1. q = [n \in 0 .. k + 1 |-> q[n]]  OBVIOUS
    <3> HIDE DEF q
    <3> QED  BY <3>1, <2>2 DEF IsRun
  <2> QED  BY <2>3
<1>3. Nat \subseteq S
  <2> HIDE DEF S
  <2> QED  BY <1>1, <1>2, Induction
<1> QED  BY <1>3

LEMMA RunStep ==
  ASSUME NEW r, NEW a, NEW s, NEW N \in Nat, IsRun(r, a, s, N)
  PROVE  /\ r[0] = a
         /\ \A n \in 0 .. N - 1 : r[n + 1] = Step(r[n], s[n + 1])
<1>1. \A n \in 0 .. N : r[n] = IF n = 0 THEN a ELSE Step(r[n - 1], s[n])
  BY DEF IsRun
<1>2. r[0] = a  BY <1>1
<1>3. ASSUME NEW n \in 0 .. N - 1
      PROVE  r[n + 1] = Step(r[n], s[n + 1])
  <2>1. n + 1 \in 0 .. N /\ n + 1 # 0 /\ (n + 1) - 1 = n  OBVIOUS
  <2> QED  BY <1>1, <2>1
<1> QED  BY <1>2, <1>3

(* Runs over sequences with the same beginning begin the same.              *)
LEMMA RunsAgree ==
  ASSUME NEW a, NEW r, NEW s, NEW N \in Nat, IsRun(r, a, s, N),
         NEW q, NEW t, NEW M \in Nat, IsRun(q, a, t, M),
         NEW K \in Nat, K <= N, K <= M, \A i \in 1 .. K : s[i] = t[i]
  PROVE  r[K] = q[K]
<1> DEFINE S == {k \in Nat : k <= K => r[k] = q[k]}
<1>1. 0 \in S  BY RunStep
<1>2. ASSUME NEW k \in Nat, k \in S
      PROVE  k + 1 \in S
  <2> SUFFICES ASSUME k + 1 <= K  PROVE r[k + 1] = q[k + 1]
    OBVIOUS
  <2>1. k \in 0 .. N - 1 /\ k \in 0 .. M - 1 /\ k + 1 \in 1 .. K /\ k <= K  OBVIOUS
  <2>2. r[k] = q[k]  BY <1>2, <2>1
  <2>3. r[k + 1] = Step(r[k], s[k + 1])  BY <2>1, RunStep
  <2>4. q[k + 1] = Step(q[k], t[k + 1])  BY <2>1, RunStep
  <2> QED  BY <2>1, <2>2, <2>3, <2>4
<1>3. Nat \subseteq S
  <2> HIDE DEF S
  <2> QED  BY <1>1, <1>2, Induction
<1> QED  BY <1>3

LEMMA FeedIsRun ==
  ASSUME NEW a, NEW s, Len(s) \in Nat
  PROVE  \E r : IsRun(r, a, s, Len(s)) /\ Feed(a, s) = r[Len(s)]
<1> DEFINE r == CHOOSE run :
             run = [n \in 0 .. Len(s) |-> IF n = 0 THEN a ELSE Step(run[n - 1], s[n])]
<1>1. \E q : IsRun(q, a, s, Len(s))  BY RunExists
<1>2. r = [n \in 0 .. Len(s) |-> IF n = 0 THEN a ELSE Step(r[n - 1], s[n])]
  BY <1>1 DEF IsRun
<1>3. Feed(a, s) = r[Len(s)]  BY DEF Feed, After
<1> QED  BY <1>2, <1>3 DEF IsRun

-------------------------------------------------------------------------------
THEOREM FeedNothing ==
  ASSUME NEW a
  PROVE  Feed(a, <<>>) = a
<1>1. Len(<<>>) = 0  OBVIOUS
<1> QED  BY <1>1, FeedIsRun, RunStep

(* A byte more is a step more. *)
THEOREM FeedStep ==
  ASSUME NEW a, NEW s \in Seq(Octet), NEW k \in 0 .. Len(s) - 1
  PROVE  Feed(a, SubSeq(s, 1, k + 1)) = Step(Feed(a, SubSeq(s, 1, k)), s[k + 1])
<1> DEFINE t == SubSeq(s, 1, k)
           u == SubSeq(s, 1, k + 1)
<1>1. /\ Len(t) = k /\ Len(u) = k + 1
      /\ \A i \in 1 .. k : t[i] = s[i]
      /\ \A i \in 1 .. k + 1 : u[i] = s[i]
  BY SubSeqProperties
<1> HIDE DEF t, u
<1>2. PICK r : IsRun(r, a, t, k) /\ Feed(a, t) = r[k]  BY <1>1, FeedIsRun
<1>3. PICK q : IsRun(q, a, u, k + 1) /\ Feed(a, u) = q[k + 1]  BY <1>1, FeedIsRun
<1>4. r[k] = q[k]
  <2>1. \A i \in 1 .. k : t[i] = u[i]  BY <1>1
  <2>2. k \in Nat /\ k + 1 \in Nat /\ k <= k + 1  OBVIOUS
  <2> QED  BY <1>2, <1>3, <2>1, <2>2, RunsAgree
<1>5. q[k + 1] = Step(q[k], u[k + 1])
  <2>1. k \in 0 .. (k + 1) - 1 /\ k + 1 \in Nat  OBVIOUS
  <2> QED  BY <1>3, <2>1, RunStep
<1>6. u[k + 1] = s[k + 1]  BY <1>1
<1>7. Feed(a, u) = Step(Feed(a, t), s[k + 1])  BY <1>2, <1>3, <1>4, <1>5, <1>6
<1> QED  BY <1>7 DEF t, u

(* Feeding may be cut: first the one part, then, from where that leads, the   *)
(* other.                                                                   *)
THEOREM FeedParts ==
  ASSUME NEW a, NEW s \in Seq(Octet), NEW k \in 0 .. Len(s), NEW j \in 0 .. Len(s) - k
  PROVE  Feed(a, SubSeq(s, 1, k + j))
           = Feed(Feed(a, SubSeq(s, 1, k)), SubSeq(s, k + 1, k + j))
<1> DEFINE t == SubSeq(s, k + 1, Len(s))
           c == Feed(a, SubSeq(s, 1, k))
           S == {i \in Nat : i <= Len(t) =>
                   Feed(a, SubSeq(s, 1, k + i)) = Feed(c, SubSeq(t, 1, i))}
<1>1. /\ t \in Seq(Octet) /\ Len(t) = Len(s) - k
      /\ \A i \in 1 .. Len(s) - k : t[i] = s[k + i]
  <2>1. k + 1 .. Len(s) \subseteq 1 .. Len(s)  OBVIOUS
  <2>2. \A i \in k + 1 .. Len(s) : s[i] \in Octet  OBVIOUS
  <2>3. t \in Seq(Octet) /\ Len(t) = Len(s) - k
    BY <2>2, SubSeqProperties
  <2>4. \A i \in 1 .. Len(s) - k : t[i] = s[(k + 1) + i - 1]  BY SubSeqProperties
  <2> QED  BY <2>3, <2>4
<1>2. 0 \in S
  <2>1. SubSeq(t, 1, 0) = <<>> /\ k + 0 = k  OBVIOUS
  <2> QED  BY <2>1, FeedNothing
<1>3. ASSUME NEW i \in Nat, i \in S
      PROVE  i + 1 \in S
  <2> SUFFICES ASSUME i + 1 <= Len(t)
               PROVE  Feed(a, SubSeq(s, 1, k + (i + 1))) = Feed(c, SubSeq(t, 1, i + 1))
    OBVIOUS
  <2>1. /\ i <= Len(t) /\ i \in 0 .. Len(t) - 1 /\ k + i \in 0 .. Len(s) - 1
        /\ k + (i + 1) = (k + i) + 1 /\ i + 1 \in 1 .. Len(s) - k
    BY <1>1, SMTT(30)
  <2>2. Feed(a, SubSeq(s, 1, k + i)) = Feed(c, SubSeq(t, 1, i))  BY <1>3, <2>1
  <2> HIDE DEF c, t, S
  <2>3. Feed(a, SubSeq(s, 1, (k + i) + 1))
          = Step(Feed(a, SubSeq(s, 1, k + i)), s[(k + i) + 1])
    BY <2>1, FeedStep
  <2>4. Feed(c, SubSeq(t, 1, i + 1)) = Step(Feed(c, SubSeq(t, 1, i)), t[i + 1])
    BY <1>1, <2>1, FeedStep
  <2>5. t[i + 1] = s[(k + i) + 1]  BY <1>1, <2>1
  <2> QED  BY <2>1, <2>2, <2>3, <2>4, <2>5
<1>4. Nat \subseteq S
  <2> HIDE DEF S
  <2> QED  BY <1>2, <1>3, Induction
<1>5. Feed(a, SubSeq(s, 1, k + j)) = Feed(c, SubSeq(t, 1, j))
  <2>1. j \in Nat /\ j <= Len(t)  BY <1>1
  <2> QED  BY <1>4, <2>1
<1>6. SubSeq(t, 1, j) = SubSeq(s, k + 1, k + j)
  <2> DEFINE p == SubSeq(t, 1, j)
             q == SubSeq(s, k + 1, k + j)
  <2>1. p \in Seq(Octet) /\ Len(p) = j /\ \A i \in 1 .. j : p[i] = t[i]
    <3> HIDE DEF t
    <3>1. j \in 0 .. Len(t)  BY <1>1
    <3> QED  BY <1>1, <3>1
  <2>2. q \in Seq(Octet) /\ Len(q) = j /\ \A i \in 1 .. j : q[i] = s[k + i]
    <3>1. \A i \in k + 1 .. k + j : i \in 1 .. Len(s)  OBVIOUS
    <3> QED  BY <3>1
  <2> HIDE DEF p, q, t
  <2>3. ASSUME NEW i \in 1 .. j
        PROVE  p[i] = q[i]
    <3>1. i \in 1 .. Len(s) - k  OBVIOUS
    <3> QED  BY <1>1, <2>1, <2>2, <3>1
  <2>4. p = q  BY <2>1, <2>2, <2>3, SeqEqual
  <2> QED  BY <2>4 DEF p, q
<1> QED  BY <1>5, <1>6

-------------------------------------------------------------------------------
Final == {"COMPLETE", "ERROR"}

(* Within the data of a chunk there is data left.                            *)
Sound(a) == a \in Automaton /\ (a.st = "DATA" => a.left > 0)

(* What a step may do to the rest of an automaton's state. *)
LEMMA StepType ==
  ASSUME NEW a, Sound(a), NEW b \in Octet
  PROVE  /\ Sound(Step(a, b))
         /\ Step(a, b).out \in {a.out, Append(a.out, b)}
         /\ a.st \in Final => Step(a, b) = a
         /\ a.st \notin Final => Step(a, b).used = a.used + 1
<1> USE DEF Sound
<1> DEFINE n == [a EXCEPT !.used = a.used + 1]
           Good(c) == /\ c \in Automaton /\ c.out = a.out /\ c.used = a.used + 1
                      /\ c.st # "DATA"
<1>1. /\ n \in Automaton /\ n.out = a.out /\ n.used = a.used + 1
      /\ n.st = a.st /\ n.left = a.left /\ n.digits = a.digits
  BY DEF Automaton
<1>2. ASSUME NEW c \in Automaton, NEW st \in LineStates \cup Final
      PROVE  /\ Go(c, st) \in Automaton /\ Go(c, st).out = c.out
             /\ Go(c, st).used = c.used /\ Go(c, st).st = st /\ Go(c, st).left = c.left
  BY DEF Go, Automaton, Final
<1>3. ASSUME NEW c \in Automaton, c.out = a.out, c.used = a.used + 1, c.st = "EXT"
      PROVE  Good(InExt(c, b))
  BY <1>2, <1>3 DEF InExt, Reject, LineStates, Final
<1>4. ASSUME NEW c \in Automaton, NEW x \in Octet,
             NEW st \in LineStates \cup Final, c.out = a.out, c.used = a.used + 1
      PROVE  /\ Expect(c, b, x, st) \in Automaton
             /\ Expect(c, b, x, st).out = a.out
             /\ Expect(c, b, x, st).used = a.used + 1
             /\ Expect(c, b, x, st).left = c.left
             /\ Expect(c, b, x, st).st \in {st, "ERROR"}
  BY <1>2, <1>4 DEF Expect, Reject, Final
<1> HIDE DEF n
<1>5. CASE a.st = "SIZE"
  <2>1. Step(a, b) = InSize(n, b)  BY <1>5 DEF Step, n
  <2>2. CASE IsHex(b)
    <3>1. CASE n.digits = MaxDigits
      BY <1>1, <1>2, <1>5, <2>1, <2>2, <3>1 DEF InSize, Reject, Final
    <3>2. CASE n.digits # MaxDigits
      <4> DEFINE c == [n EXCEPT !.left = 16 * n.left + Hex[b], !.digits = n.digits + 1]
      <4>1. 16 * n.left + Hex[b] \in Nat /\ n.digits + 1 \in 0 .. MaxDigits
        <5>1. Hex[b] \in Nat  BY <2>2 DEF IsHex, Hex
        <5>2. n.left \in Nat /\ n.digits \in 0 .. MaxDigits  BY <1>1 DEF Automaton
        <5> QED  BY <3>2, <5>1, <5>2, MaxDigitsAssumption
      <4>2. Good(c)  BY <1>1, <1>5, <4>1 DEF Automaton
      <4>3. Step(a, b) = c  BY <2>1, <2>2, <3>2 DEF InSize
      <4> QED  BY <1>5, <4>2, <4>3 DEF Final
    <3> QED  BY <3>1, <3>2
  <2>3. CASE ~IsHex(b)
    <3>1. CASE n.digits = 0 \/ ~EndsSize(b)
      BY <1>1, <1>2, <1>5, <2>1, <2>3, <3>1 DEF InSize, Reject, Final
    <3>2. CASE ~(n.digits = 0 \/ ~EndsSize(b))
      <4> DEFINE c == [n EXCEPT !.st = "EXT", !.digits = 0]
      <4>1. c \in Automaton /\ c.out = a.out /\ c.used = a.used + 1 /\ c.st = "EXT"
        <5>1. "EXT" \in LineStates /\ 0 \in 0 .. MaxDigits
          BY MaxDigitsAssumption DEF LineStates
        <5> QED  BY <1>1, <5>1 DEF Automaton
      <4>2. Step(a, b) = InExt(c, b)  BY <2>1, <2>3, <3>2 DEF InSize
      <4> HIDE DEF c
      <4>3. Good(InExt(c, b))  BY <1>3, <4>1
      <4> QED  BY <1>5, <4>2, <4>3 DEF Final
    <3> QED  BY <3>1, <3>2
  <2> QED  BY <2>2, <2>3
<1>6. CASE a.st = "EXT"
  <2>1. Step(a, b) = InExt(n, b)  BY <1>6 DEF Step, n
  <2>2. Good(InExt(n, b))  BY <1>1, <1>3, <1>6
  <2> QED  BY <1>6, <2>1, <2>2 DEF Final
<1>7. CASE a.st = "EXPECT_LF"
  <2> DEFINE st == IF a.left = 0 THEN "TRAILER_HEAD" ELSE "DATA"
  <2>1. Step(a, b) = Expect(n, b, "LF", st)  BY <1>7 DEF Step, n
  <2>2. st \in LineStates \cup Final /\ "LF" \in Octet  BY DEF LineStates, Octet
  <2>3. st = "DATA" => a.left > 0  BY DEF Automaton
  <2> HIDE DEF st
  <2> QED  BY <1>1, <1>4, <1>7, <2>1, <2>2, <2>3 DEF Final
<1>8. CASE a.st = "DATA"
  <2>1. Step(a, b) = InData(n, b)  BY <1>8 DEF Step, n
  <2>2. a.left > 0 /\ a.left - 1 \in Nat /\ n.out \in Seq(Octet)
    BY <1>1, <1>8 DEF Automaton
  <2>3. Append(n.out, b) \in Seq(Octet)  BY <2>2
  <2>4. {"DATA", "DATA_CR"} \subseteq LineStates  BY DEF LineStates
  <2> DEFINE o == Append(n.out, b)
             st == IF n.left = 1 THEN "DATA_CR" ELSE "DATA"
  <2>5. InData(n, b) = [n EXCEPT !.left = n.left - 1, !.out = o, !.st = st]
    BY DEF InData, Decoded
  <2>6. /\ n.left - 1 \in Nat /\ o \in Seq(Octet) /\ o = Append(a.out, b)
        /\ st \in LineStates /\ (st = "DATA" => n.left - 1 > 0)
    <3>1. n.left - 1 \in Nat /\ o \in Seq(Octet) /\ o = Append(a.out, b)
      BY <1>1, <2>2, <2>3
    <3>2. st \in LineStates  BY <2>4
    <3>3. st = "DATA" => n.left - 1 > 0
      <4>1. n.left = a.left /\ a.left \in Nat  BY <1>1 DEF Automaton
      <4> QED  BY <2>2, <4>1
    <3> QED  BY <3>1, <3>2, <3>3
  <2> HIDE DEF o, st
  <2>7. /\ InData(n, b) \in Automaton
        /\ InData(n, b).out = Append(a.out, b)
        /\ InData(n, b).used = a.used + 1
        /\ InData(n, b).st = "DATA" => InData(n, b).left > 0
    BY <1>1, <2>5, <2>6 DEF Automaton
  <2> QED  BY <1>8, <2>1, <2>7 DEF Final
<1>9. CASE a.st = "DATA_CR"
  <2>1. Step(a, b) = Expect(n, b, "CR", "DATA_LF")  BY <1>9 DEF Step, n
  <2>2. "DATA_LF" \in LineStates \cup Final /\ "CR" \in Octet  BY DEF LineStates, Octet
  <2> QED  BY <1>1, <1>4, <1>9, <2>1, <2>2 DEF Final
<1>10. CASE a.st = "DATA_LF"
  <2>1. Step(a, b) = Expect(n, b, "LF", "SIZE")  BY <1>10 DEF Step, n
  <2>2. "SIZE" \in LineStates \cup Final /\ "LF" \in Octet  BY DEF LineStates, Octet
  <2> QED  BY <1>1, <1>4, <1>10, <2>1, <2>2 DEF Final
<1>11. CASE a.st = "TRAILER_HEAD"
  <2>1. Step(a, b) \in {n, Go(n, "COMPLETE"), Go(n, "TRAILER_MIDDLE")}
    BY <1>11 DEF Step, n
  <2>2. {"COMPLETE", "TRAILER_MIDDLE"} \subseteq LineStates \cup Final
    BY DEF LineStates, Final
  <2> QED  BY <1>1, <1>2, <1>11, <2>1, <2>2 DEF Final
<1>12. CASE a.st = "TRAILER_MIDDLE"
  <2>1. Step(a, b) \in {n, Go(n, "TRAILER_HEAD")}  BY <1>12 DEF Step, n
  <2>2. "TRAILER_HEAD" \in LineStates \cup Final  BY DEF LineStates
  <2> QED  BY <1>1, <1>2, <1>12, <2>1, <2>2 DEF Final
<1>13. CASE a.st \in Final
  <2>1. Step(a, b) = a  BY <1>13 DEF Step, Final
  <2> QED  BY <1>13, <2>1 DEF Final
<1>14. a.st \in LineStates \cup Final  BY DEF Automaton, Final
<1> QED
  BY <1>5, <1>6, <1>7, <1>8, <1>9, <1>10, <1>11, <1>12, <1>13, <1>14 DEF LineStates

(* The same for any number of bytes.                                         *)
THEOREM FeedType ==
  ASSUME NEW a, Sound(a), NEW s \in Seq(Octet)
  PROVE  LET f == Feed(a, s) IN
         /\ Sound(f)
         /\ Len(a.out) <= Len(f.out) /\ Len(f.out) <= Len(a.out) + Len(s)
         /\ a.used <= f.used /\ f.used <= a.used + Len(s)
         /\ f.st \notin Final => f.used = a.used + Len(s)
<1> DEFINE F(k) == Feed(a, SubSeq(s, 1, k))
           Good(f, k) ==
             /\ Sound(f)
             /\ Len(a.out) <= Len(f.out) /\ Len(f.out) <= Len(a.out) + k
             /\ a.used <= f.used /\ f.used <= a.used + k
             /\ f.st \notin Final => f.used = a.used + k
           S == {k \in Nat : k <= Len(s) => Good(F(k), k)}
<1>1. a.used \in Nat /\ Len(a.out) \in Nat
  BY DEF Sound, Automaton
<1> HIDE DEF F, Good
<1>2. 0 \in S
  <2>1. F(0) = a
    <3>1. SubSeq(s, 1, 0) = <<>>  OBVIOUS
    <3> QED  BY <3>1, FeedNothing DEF F
  <2>2. Good(a, 0)  BY <1>1 DEF Good
  <2> QED  BY <2>1, <2>2
<1>3. ASSUME NEW k \in Nat, k \in S
      PROVE  k + 1 \in S
  <2> SUFFICES ASSUME k + 1 <= Len(s)
               PROVE  Good(F(k + 1), k + 1)
    OBVIOUS
  <2>1. k \in 0 .. Len(s) - 1 /\ s[k + 1] \in Octet  OBVIOUS
  <2>2. Good(F(k), k)  BY <1>3, <2>1
  <2>3. F(k + 1) = Step(F(k), s[k + 1])  BY <2>1, FeedStep DEF F
  <2> DEFINE f == F(k)
             g == F(k + 1)
  <2>4. /\ Sound(g) /\ g.out \in {f.out, Append(f.out, s[k + 1])}
        /\ f.st \in Final => g = f
        /\ f.st \notin Final => g.used = f.used + 1
    BY <2>1, <2>2, <2>3, StepType DEF Good
  <2>5. /\ f.used \in Nat /\ g.used \in Nat /\ f.out \in Seq(Octet)
    BY <2>2, <2>4 DEF Good, Sound, Automaton
  <2>6. Len(g.out) \in {Len(f.out), Len(f.out) + 1}  BY <2>1, <2>4, <2>5
  <2>7. Len(f.out) \in Nat  BY <2>5
  <2> HIDE DEF f, g, S
  <2>8. Len(a.out) <= Len(f.out) /\ Len(f.out) <= Len(a.out) + k  BY <2>2 DEF f, Good
  <2>9. /\ a.used <= f.used /\ f.used <= a.used + k
        /\ f.st \notin Final => f.used = a.used + k
    BY <2>2 DEF f, Good
  <2>10. Len(a.out) <= Len(g.out) /\ Len(g.out) <= Len(a.out) + (k + 1)
    <3>1. ASSUME NEW x \in Nat, NEW y \in Nat, x <= y, y <= x + k, NEW z \in {y, y + 1}
          PROVE  x <= z /\ z <= x + (k + 1)
      BY <3>1
    <3> QED  BY <1>1, <2>6, <2>7, <2>8, <3>1
  <2>11. /\ a.used <= g.used /\ g.used <= a.used + (k + 1)
         /\ g.st \notin Final => g.used = a.used + (k + 1)
    <3>1. CASE f.st \in Final
      BY <1>1, <2>4, <2>5, <2>9, <3>1
    <3>2. CASE f.st \notin Final
      <4>1. ASSUME NEW x \in Nat, NEW y \in Nat, y = x + k
            PROVE  x <= y + 1 /\ y + 1 <= x + (k + 1) /\ y + 1 = x + (k + 1)
        BY <4>1
      <4>2. f.used = a.used + k /\ g.used = f.used + 1  BY <2>4, <2>9, <3>2 DEF f, g
      <4> QED  BY <1>1, <2>5, <4>1, <4>2
    <3> QED  BY <3>1, <3>2
  <2> QED  BY <2>4, <2>10, <2>11 DEF g, Good
<1>4. Nat \subseteq S
  <2> HIDE DEF S
  <2> QED  BY <1>2, <1>3, Induction
<1>5. Good(F(Len(s)), Len(s))
  <2>1. Len(s) \in Nat /\ Len(s) <= Len(s)  OBVIOUS
  <2> QED  BY <1>4, <2>1 DEF S
<1>6. F(Len(s)) = Feed(a, s)
  <2>1. SubSeq(s, 1, Len(s)) = s  BY SubSeqFull
  <2> QED  BY <2>1 DEF F
<1> QED  BY <1>5, <1>6 DEF Good

(* After the end of the body, and after an error, nothing changes.            *)
THEOREM FeedFinal ==
  ASSUME NEW a, Sound(a), a.st \in Final, NEW s \in Seq(Octet)
  PROVE  Feed(a, s) = a
<1> DEFINE F(k) == Feed(a, SubSeq(s, 1, k))
           S == {k \in Nat : k <= Len(s) => F(k) = a}
<1>1. 0 \in S
  <2>1. SubSeq(s, 1, 0) = <<>>  OBVIOUS
  <2> QED  BY <2>1, FeedNothing
<1>2. ASSUME NEW k \in Nat, k \in S
      PROVE  k + 1 \in S
  <2> SUFFICES ASSUME k + 1 <= Len(s)
               PROVE  F(k + 1) = a
    OBVIOUS
  <2>1. k \in 0 .. Len(s) - 1 /\ s[k + 1] \in Octet  OBVIOUS
  <2>2. F(k) = a  BY <1>2, <2>1
  <2>3. F(k + 1) = Step(F(k), s[k + 1])  BY <2>1, FeedStep
  <2> HIDE DEF F
  <2> QED  BY <2>1, <2>2, <2>3, StepType
<1>3. Nat \subseteq S
  <2> HIDE DEF S
  <2> QED  BY <1>1, <1>2, Induction
<1>4. F(Len(s)) = a
  <2>1. Len(s) \in Nat /\ Len(s) <= Len(s)  OBVIOUS
  <2> QED  BY <1>3, <2>1
<1>5. SubSeq(s, 1, Len(s)) = s  BY SubSeqFull
<1> QED  BY <1>4, <1>5

LEMMA AppendBehind ==
  ASSUME NEW u \in Seq(Octet), NEW t \in Seq(Octet), NEW b \in Octet
  PROVE  u \o Append(t, b) = Append(u \o t, b)
<1> DEFINE p == u \o Append(t, b)
           q == Append(u \o t, b)
<1>1. /\ p \in Seq(Octet) /\ Len(p) = Len(u) + (Len(t) + 1)
      /\ \A i \in 1 .. Len(p) : p[i] = IF i <= Len(u) THEN u[i] ELSE Append(t, b)[i - Len(u)]
  OBVIOUS
<1>2. /\ q \in Seq(Octet) /\ Len(q) = (Len(u) + Len(t)) + 1
      /\ \A i \in 1 .. Len(q) : q[i] = IF i <= Len(u) + Len(t) THEN (u \o t)[i] ELSE b
  OBVIOUS
<1>3. \A i \in 1 .. Len(p) : p[i] = q[i]
  OBVIOUS
<1> HIDE DEF p, q
<1>4. p = q  BY <1>1, <1>2, <1>3, SeqEqual, SMTT(30)
<1> QED  BY <1>4 DEF p, q

(* The bytes of a chunk are decoded as they are.                             *)
THEOREM FeedData ==
  ASSUME NEW a, Sound(a), a.st = "DATA", NEW s \in Seq(Octet), Len(s) <= a.left
  PROVE  Feed(a, s) = [a EXCEPT !.st = IF Len(s) = a.left THEN "DATA_CR" ELSE "DATA",
                                !.left = a.left - Len(s), !.out = a.out \o s,
                                !.used = a.used + Len(s)]
<1> DEFINE F(k) == Feed(a, SubSeq(s, 1, k))
           G(k, t) == [a EXCEPT !.st = IF k = a.left THEN "DATA_CR" ELSE "DATA",
                                !.left = a.left - k, !.out = a.out \o t,
                                !.used = a.used + k]
           S == {k \in Nat : k <= Len(s) => F(k) = G(k, SubSeq(s, 1, k))}
<1>1. /\ a \in Automaton /\ a.left \in Nat /\ a.left > 0 /\ a.used \in Nat
      /\ a.out \in Seq(Octet)
  BY DEF Sound, Automaton
<1> HIDE DEF F, G
<1>2. 0 \in S
  <2>1. SubSeq(s, 1, 0) = <<>>  OBVIOUS
  <2>2. F(0) = a  BY <2>1, FeedNothing DEF F
  <2>3. a.out \o <<>> = a.out  BY <1>1
  <2>4. G(0, <<>>) = a
    <3>1. a.left - 0 = a.left /\ a.used + 0 = a.used /\ 0 # a.left  BY <1>1
    <3>2. a = [a EXCEPT !.st = "DATA", !.left = a.left, !.out = a.out, !.used = a.used]
      BY <1>1 DEF Automaton
    <3> QED  BY <2>3, <3>1, <3>2 DEF G
  <2> QED  BY <2>1, <2>2, <2>4
<1>3. ASSUME NEW k \in Nat, k \in S
      PROVE  k + 1 \in S
  <2> SUFFICES ASSUME k + 1 <= Len(s)
               PROVE  F(k + 1) = G(k + 1, SubSeq(s, 1, k + 1))
    OBVIOUS
  <2>1. k \in 0 .. Len(s) - 1 /\ k < a.left /\ s[k + 1] \in Octet /\ k + 1 \in 1 .. Len(s)
    BY <1>1
  <2> DEFINE t == SubSeq(s, 1, k)
             b == s[k + 1]
             f == G(k, t)
  <2>2. F(k) = f  BY <1>3, <2>1
  <2>3. F(k + 1) = Step(F(k), b)  BY <2>1, FeedStep DEF F
  <2>4. t \in Seq(Octet) /\ SubSeq(s, 1, k + 1) = Append(t, b)
    <3>1. t \in Seq(Octet)  OBVIOUS
    <3>2. SubSeq(s, 1, k + 1) = Append(SubSeq(s, 1, (k + 1) - 1), s[k + 1])
      BY <2>1, SubSeqRecursiveSecond
    <3> QED  BY <3>1, <3>2
  <2>5. a.out \o Append(t, b) = Append(a.out \o t, b)
    <3> HIDE DEF t, b
    <3>1. b \in Octet  BY <2>1 DEF b
    <3> QED  BY <1>1, <2>4, <3>1, AppendBehind
  <2> HIDE DEF t, b, S
  <2>6. f = [st |-> "DATA", left |-> a.left - k, digits |-> a.digits,
             out |-> a.out \o t, used |-> a.used + k]
    <3>1. k # a.left  BY <1>1, <2>1
    <3>2. f = [a EXCEPT !.st = "DATA", !.left = a.left - k, !.out = a.out \o t,
                        !.used = a.used + k]
      BY <3>1 DEF G, f
    <3>3. a \in Automaton  BY <1>1
    <3> QED  BY <3>2, <3>3 DEF Automaton
  <2>7. Step(f, b) =
          [st |-> IF f.left = 1 THEN "DATA_CR" ELSE "DATA", left |-> f.left - 1,
           digits |-> f.digits, out |-> Append(f.out, b), used |-> f.used + 1]
    <3> HIDE DEF f
    <3> QED  BY <2>6 DEF Step, InData, Decoded
  <2>8. /\ f.left = a.left - k /\ f.digits = a.digits /\ f.used = a.used + k
        /\ f.out = a.out \o t
    <3> HIDE DEF f
    <3> QED  BY <2>6
  <2>9. G(k + 1, Append(t, b)) =
          [st |-> IF k + 1 = a.left THEN "DATA_CR" ELSE "DATA", left |-> a.left - (k + 1),
           digits |-> a.digits, out |-> a.out \o Append(t, b), used |-> a.used + (k + 1)]
    <3> DEFINE st == IF k + 1 = a.left THEN "DATA_CR" ELSE "DATA"
    <3>1. G(k + 1, Append(t, b)) =
            [a EXCEPT !.st = st, !.left = a.left - (k + 1), !.out = a.out \o Append(t, b),
                      !.used = a.used + (k + 1)]
      BY DEF G
    <3>2. a \in Automaton  BY <1>1
    <3> HIDE DEF st
    <3>3. G(k + 1, Append(t, b)) =
            [st |-> st, left |-> a.left - (k + 1), digits |-> a.digits,
             out |-> a.out \o Append(t, b), used |-> a.used + (k + 1)]
      BY <3>1, <3>2 DEF Automaton
    <3> QED  BY <3>3 DEF st
  <2>10. /\ (a.left - k = 1) <=> (k + 1 = a.left)
         /\ (a.left - k) - 1 = a.left - (k + 1) /\ (a.used + k) + 1 = a.used + (k + 1)
    <3>1. ASSUME NEW l \in Nat, NEW u \in Nat
          PROVE  /\ (l - k = 1) <=> (k + 1 = l)
                 /\ (l - k) - 1 = l - (k + 1) /\ (u + k) + 1 = u + (k + 1)
      OBVIOUS
    <3> QED  BY <1>1, <3>1
  <2> HIDE DEF f
  <2> QED  BY <2>2, <2>3, <2>4, <2>5, <2>7, <2>8, <2>9, <2>10
<1>4. Nat \subseteq S
  <2> HIDE DEF S
  <2> QED  BY <1>2, <1>3, Induction
<1>5. F(Len(s)) = G(Len(s), SubSeq(s, 1, Len(s)))
  <2>1. Len(s) \in Nat /\ Len(s) <= Len(s)  OBVIOUS
  <2> QED  BY <1>4, <2>1
<1>6. SubSeq(s, 1, Len(s)) = s  BY SubSeqFull
<1>7. F(Len(s)) = Feed(a, s)  BY <1>6 DEF F
<1> QED  BY <1>5, <1>6, <1>7 DEF G

-------------------------------------------------------------------------------
(* Functions defined by recursion over the numbers up to N exist. *)
HasRun(S, a, N, g) ==
  \E r \in [0 .. N -> S] : r[0] = a /\ \A n \in 1 .. N : r[n] = g[n][r[n - 1]]

LEMMA RecursionExists ==
  ASSUME NEW S, NEW a \in S, NEW N \in Nat, NEW g,
         \A n \in 1 .. N : \A x \in S : g[n][x] \in S
  PROVE  HasRun(S, a, N, g)
<1> DEFINE Run(r, k) ==
             /\ r \in [0 .. k -> S] /\ r[0] = a
             /\ \A n \in 1 .. k : r[n] = g[n][r[n - 1]]
           T == {k \in Nat : k <= N => \E r : Run(r, k)}
<1>1. 0 \in T
  <2>1. Run([n \in 0 .. 0 |-> a], 0)  OBVIOUS
  <2> QED  BY <2>1
<1>2. ASSUME NEW k \in Nat, k \in T
      PROVE  k + 1 \in T
  <2> SUFFICES ASSUME k + 1 <= N  PROVE \E r : Run(r, k + 1)
    OBVIOUS
  <2>1. PICK r : Run(r, k)  BY <1>2
  <2>2. k \in 0 .. k /\ k + 1 \in 1 .. N /\ r[k] \in S  BY <2>1
  <2>3. g[k + 1][r[k]] \in S  BY <2>2
  <2> DEFINE q == [n \in 0 .. k + 1 |-> IF n = k + 1 THEN g[k + 1][r[k]] ELSE r[n]]
  <2>4. q \in [0 .. k + 1 -> S]
    <3>1. ASSUME NEW n \in 0 .. k + 1
          PROVE  (IF n = k + 1 THEN g[k + 1][r[k]] ELSE r[n]) \in S
      <4>1. n # k + 1 => n \in 0 .. k  OBVIOUS
      <4> QED  BY <2>1, <2>3, <4>1
    <3> QED  BY <3>1
  <2>5. q[0] = a  BY <2>1
  <2>6. ASSUME NEW n \in 1 .. k + 1
        PROVE  q[n] = g[n][q[n - 1]]
    <3>1. n - 1 \in 0 .. k + 1 /\ n - 1 # k + 1 /\ n \in 0 .. k + 1  OBVIOUS
    <3>2. q[n - 1] = r[n - 1]  BY <3>1
    <3>3. CASE n = k + 1
      <4>1. q[n] = g[k + 1][r[k]] /\ n - 1 = k  BY <3>1, <3>3
      <4> QED  BY <3>2, <3>3, <4>1
    <3>4. CASE n # k + 1
      <4>1. n \in 1 .. k  BY <3>4
      <4>2. q[n] = r[n]  BY <3>1, <3>4
      <4>3. r[n] = g[n][r[n - 1]]  BY <2>1, <4>1
      <4> QED  BY <3>2, <4>2, <4>3
    <3> QED  BY <3>3, <3>4
  <2> HIDE DEF q
  <2> QED  BY <2>4, <2>5, <2>6
<1>3. Nat \subseteq T
  <2> HIDE DEF T
  <2> QED  BY <1>1, <1>2, Induction
<1> QED  BY <1>3 DEF HasRun

-------------------------------------------------------------------------------
(* FlattenSeq counts up from the first element.                             *)
IsFlattening(f, q) ==
  f = [i \in 1 .. Len(q) |-> IF i = 1 THEN q[i] ELSE f[i - 1] \o q[i]]

LEMMA FlatteningExists ==
  ASSUME NEW S, NEW q \in Seq(Seq(S)), Len(q) > 0
  PROVE  \E f : IsFlattening(f, q)
<1> DEFINE N == Len(q)
           g == [n \in 1 .. N |-> [x \in Seq(S) |-> x \o q[n]]]
<1>1. N \in Nat /\ \A n \in 1 .. N : q[n] \in Seq(S)  OBVIOUS
<1> HIDE DEF N
<1>2. \A n \in 1 .. N : \A x \in Seq(S) : g[n][x] = x \o q[n]
  OBVIOUS
<1>3. \A n \in 1 .. N : \A x \in Seq(S) : g[n][x] \in Seq(S)
  <2> HIDE DEF g
  <2> QED  BY <1>1, <1>2, ConcatProperties
<1> HIDE DEF g
<1>4. HasRun(Seq(S), <<>>, N, g)
  <2>1. <<>> \in Seq(S)  OBVIOUS
  <2> QED  BY <1>1, <1>3, <2>1, RecursionExists
<1>5. PICK r \in [0 .. N -> Seq(S)] :
        r[0] = <<>> /\ \A n \in 1 .. N : r[n] = g[n][r[n - 1]]
  BY <1>4 DEF HasRun
<1> DEFINE f == [i \in 1 .. N |-> r[i]]
<1>6. ASSUME NEW i \in 1 .. N
      PROVE  f[i] = IF i = 1 THEN q[i] ELSE f[i - 1] \o q[i]
  <2>1. i - 1 \in 0 .. N /\ i \in 0 .. N  BY <1>1
  <2>2. r[i - 1] \in Seq(S) /\ f[i] = r[i]  BY <1>5, <2>1
  <2>3. r[i] = r[i - 1] \o q[i]  BY <1>2, <1>5, <2>2
  <2>4. CASE i = 1
    <3>0. r[i - 1] = <<>>  BY <1>5, <2>4
    <3>1. r[i] = <<>> \o q[i]  BY <2>3, <3>0
    <3> QED  BY <1>1, <2>2, <2>4, <3>1, ConcatEmptySeq
  <2>5. CASE i # 1
    <3>1. i - 1 \in 1 .. N  BY <1>1, <2>5
    <3>2. f[i - 1] = r[i - 1]  BY <3>1
    <3> QED  BY <2>2, <2>3, <2>5, <3>2
  <2> QED  BY <2>4, <2>5
<1>7. f = [i \in 1 .. N |-> f[i]]  OBVIOUS
<1> HIDE DEF f
<1>8. f = [i \in 1 .. N |-> IF i = 1 THEN q[i] ELSE f[i - 1] \o q[i]]
  BY <1>6, <1>7
<1> QED  BY <1>8 DEF IsFlattening, N

LEMMA FlatteningType ==
  ASSUME NEW S, NEW q \in Seq(Seq(S)), NEW f, IsFlattening(f, q), NEW n \in 1 .. Len(q)
  PROVE  f[n] \in Seq(S)
<1> DEFINE N == Len(q)
           T == {k \in Nat : k \in 1 .. N => f[k] \in Seq(S)}
<1>1. N \in Nat /\ \A k \in 1 .. N : q[k] \in Seq(S)  OBVIOUS
<1>2. \A k \in 1 .. N : f[k] = IF k = 1 THEN q[k] ELSE f[k - 1] \o q[k]
  BY DEF IsFlattening
<1> HIDE DEF N
<1>3. 0 \in T  OBVIOUS
<1>4. ASSUME NEW k \in Nat, k \in T
      PROVE  k + 1 \in T
  <2> SUFFICES ASSUME k + 1 \in 1 .. N  PROVE f[k + 1] \in Seq(S)
    OBVIOUS
  <2>1. (k + 1) - 1 = k /\ (k # 0 => k \in 1 .. N)  BY <1>1
  <2>2. CASE k = 0
    <3>1. k + 1 = 1 /\ 1 \in 1 .. N  BY <2>2
    <3> QED  BY <1>1, <1>2, <3>1
  <2>3. CASE k # 0
    <3>1. f[k] \in Seq(S)  BY <1>4, <2>1, <2>3
    <3>2. k + 1 # 1  BY <2>3
    <3>3. f[k + 1] = f[k] \o q[k + 1]
      <4> HIDE DEF T
      <4> QED  BY <1>2, <2>1, <3>2
    <3> QED  BY <1>1, <3>1, <3>3, ConcatProperties
  <2> QED  BY <2>2, <2>3
<1>5. Nat \subseteq T
  <2> HIDE DEF T
  <2> QED  BY <1>3, <1>4, Induction
<1> QED  BY <1>5 DEF N

LEMMA FlattenedBy ==
  ASSUME NEW S, NEW q \in Seq(Seq(S)), Len(q) > 0
  PROVE  \E f : IsFlattening(f, q) /\ FlattenSeq(q) = f[Len(q)]
<1> DEFINE Eq(f) == f = [i \in 1 .. Len(q) |-> IF i = 1 THEN q[i] ELSE f[i - 1] \o q[i]]
           run == CHOOSE f : Eq(f)
<1>1. \E f : Eq(f)  BY FlatteningExists DEF IsFlattening
<1>2. Eq(run)  BY <1>1
<1>3. FlattenSeq(q) = run[Len(q)]  BY DEF FlattenSeq
<1> HIDE DEF run
<1>4. IsFlattening(run, q)  BY <1>2 DEF IsFlattening
<1> QED  BY <1>3, <1>4

(* A flattened sequence of sequences over S is one over S, and one element    *)
(* more puts that element behind it.                                        *)
THEOREM FlattenType ==
  ASSUME NEW S, NEW q \in Seq(Seq(S))
  PROVE  FlattenSeq(q) \in Seq(S)
<1>1. CASE Len(q) = 0
  <2>1. q = <<>>  BY <1>1, EmptySeq
  <2>2. FlattenSeq(q) = q  BY <1>1 DEF FlattenSeq
  <2>3. <<>> \in Seq(S)  OBVIOUS
  <2> QED  BY <2>1, <2>2, <2>3, Zenon
<1>2. CASE Len(q) > 0
  <2>1. PICK f : IsFlattening(f, q) /\ FlattenSeq(q) = f[Len(q)]
    BY <1>2, FlattenedBy
  <2>2. Len(q) \in 1 .. Len(q)  BY <1>2
  <2> QED  BY <2>1, <2>2, FlatteningType
<1> QED  BY <1>1, <1>2, Len(q) \in Nat

THEOREM FlattenAppend ==
  ASSUME NEW S, NEW q \in Seq(Seq(S)), NEW x \in Seq(S)
  PROVE  FlattenSeq(Append(q, x)) = FlattenSeq(q) \o x
<1> DEFINE p == Append(q, x)
           N == Len(q)
<1>1. /\ p \in Seq(Seq(S)) /\ Len(p) = N + 1 /\ N \in Nat /\ p[N + 1] = x
      /\ \A k \in 1 .. N : p[k] = q[k]
  BY AppendProperties
<1> HIDE DEF p
<1>2. PICK h : IsFlattening(h, p) /\ FlattenSeq(p) = h[N + 1]
  <2>1. Len(p) > 0  BY <1>1
  <2> QED  BY <1>1, <2>1, FlattenedBy
<1>3. \A k \in 1 .. N + 1 : h[k] = IF k = 1 THEN p[k] ELSE h[k - 1] \o p[k]
  BY <1>1, <1>2 DEF IsFlattening
<1>4. CASE N = 0
  <2>1. q = <<>>  BY <1>4, EmptySeq
  <2>2. FlattenSeq(q) = q  BY <1>4 DEF FlattenSeq
  <2>3. h[N + 1] = x
    <3>1. N + 1 = 1 /\ 1 \in 1 .. N + 1  BY <1>4
    <3> QED  BY <1>1, <1>3, <3>1
  <2>4. q \o x = x  BY <2>1, ConcatEmptySeq
  <2> QED  BY <1>2, <2>2, <2>3, <2>4 DEF p
<1>5. CASE N > 0
  <2>1. PICK f : IsFlattening(f, q) /\ FlattenSeq(q) = f[N]
    BY <1>5, FlattenedBy
  <2>2. \A k \in 1 .. N : f[k] = IF k = 1 THEN q[k] ELSE f[k - 1] \o q[k]
    BY <2>1 DEF IsFlattening
  <2> HIDE DEF N
  <2> DEFINE T == {k \in Nat : k \in 1 .. N => h[k] = f[k]}
  <2>3. 0 \in T  OBVIOUS
  <2>4. ASSUME NEW k \in Nat, k \in T
        PROVE  k + 1 \in T
    <3> SUFFICES ASSUME k + 1 \in 1 .. N  PROVE h[k + 1] = f[k + 1]
      OBVIOUS
    <3>1. /\ (k + 1) - 1 = k /\ (k # 0 => k \in 1 .. N) /\ k + 1 \in 1 .. N + 1
          /\ p[k + 1] = q[k + 1]
      BY <1>1
    <3>2. h[k + 1] = IF k + 1 = 1 THEN p[k + 1] ELSE h[k] \o p[k + 1]
      BY <1>3, <3>1
    <3>3. f[k + 1] = IF k + 1 = 1 THEN q[k + 1] ELSE f[k] \o q[k + 1]
      BY <2>2, <3>1
    <3>4. k + 1 # 1 => h[k] = f[k]  BY <2>4, <3>1
    <3> QED  BY <3>1, <3>2, <3>3, <3>4
  <2>5. Nat \subseteq T
    <3> HIDE DEF T
    <3> QED  BY <2>3, <2>4, Induction
  <2>6. N \in 1 .. N /\ N + 1 \in 1 .. N + 1 /\ (N + 1) - 1 = N /\ N + 1 # 1
    BY <1>1, <1>5
  <2>7. h[N] = f[N]  BY <2>5, <2>6, <1>1
  <2>8. h[N + 1] = h[N] \o x  BY <1>1, <1>3, <2>6
  <2> QED  BY <1>2, <2>1, <2>7, <2>8 DEF p
<1> QED  BY <1>1, <1>4, <1>5

-------------------------------------------------------------------------------
LEMMA Grouped ==
  ASSUME NEW S, NEW a \in Seq(S), NEW b \in Seq(S), NEW c \in Seq(S)
  PROVE  (a \o b) \o c = a \o (b \o c)
BY ConcatAssociative

LEMMA BytesGrouped ==
  ASSUME NEW a \in Seq(Byte), NEW b \in Seq(Byte), NEW c \in Seq(Byte)
  PROVE  (a \o b) \o c = a \o (b \o c)
BY ConcatAssociative

(* The first parts of a sequence grow by one element each. *)
LEMMA OneMore ==
  ASSUME NEW S, NEW s \in Seq(S), NEW t \in Seq(S), NEW n \in Nat, n + 1 <= Len(t)
  PROVE  /\ SubSeq(t, 1, n) \in Seq(S) /\ Len(SubSeq(t, 1, n)) = n /\ t[n + 1] \in S
         /\ SubSeq(t, 1, n + 1) = Append(SubSeq(t, 1, n), t[n + 1])
         /\ s \o SubSeq(t, 1, n + 1) = Append(s \o SubSeq(t, 1, n), t[n + 1])
<1> DEFINE u == SubSeq(t, 1, n)
           v == SubSeq(t, 1, n + 1)
           b == t[n + 1]
           a == Append(u, b)
<1>1. n + 1 \in 1 .. Len(t) /\ n \in 0 .. Len(t) /\ n + 1 \in 0 .. Len(t)  OBVIOUS
<1>2. b \in S  BY <1>1
<1>3. /\ u \in Seq(S) /\ Len(u) = n /\ \A i \in 1 .. n : u[i] = t[i]
      /\ v \in Seq(S) /\ Len(v) = n + 1 /\ \A i \in 1 .. n + 1 : v[i] = t[i]
  BY <1>1, SubSeqProperties
<1> HIDE DEF u, v
<1>4. /\ a \in Seq(S) /\ Len(a) = n + 1 /\ a[n + 1] = b
      /\ \A i \in 1 .. n : a[i] = u[i]
  BY <1>2, <1>3, AppendProperties
<1>5. v = a
  <2> HIDE DEF a
  <2>1. ASSUME NEW i \in 1 .. n + 1
        PROVE  v[i] = a[i]
    <3>1. i \in 1 .. n \/ i = n + 1  OBVIOUS
    <3> QED  BY <1>3, <1>4, <3>1
  <2> QED  BY <1>3, <1>4, <2>1, SeqEqual
<1>6. s \o a = Append(s \o u, b)
  <2> DEFINE e == <<b>>
  <2>1. a = u \o e /\ e \in Seq(S)  BY <1>2, <1>3, AppendIsConcat
  <2>2. s \o u \in Seq(S)  BY <1>3, ConcatProperties
  <2>3. Append(s \o u, b) = (s \o u) \o e  BY <1>2, <2>2, AppendIsConcat
  <2> HIDE DEF e, a, b
  <2>5. u \in Seq(S) /\ e \in Seq(S)  BY <1>3, <2>1
  <2>4. (s \o u) \o e = s \o (u \o e)  BY <2>5, Grouped
  <2> QED  BY <2>1, <2>3, <2>4
<1> QED  BY <1>2, <1>3, <1>5, <1>6 DEF u, v

(* The first part of a sequence is a prefix of it.                           *)
LEMMA PartIsPrefix ==
  ASSUME NEW S, NEW s \in Seq(S), NEW t \in Seq(S)
  PROVE  IsPrefix(s, s \o t)
<1> DEFINE u == s \o t
           p == SubSeq(u, 1, Len(s))
<1>1. /\ u \in Seq(S) /\ Len(u) = Len(s) + Len(t) /\ Len(s) \in Nat /\ Len(t) \in Nat
      /\ \A i \in 1 .. Len(s) : u[i] = s[i]
  BY ConcatProperties
<1> HIDE DEF u
<1>2. Len(s) <= Len(u)  BY <1>1
<1>3. /\ p \in Seq(S) /\ Len(p) = Len(s) /\ \A i \in 1 .. Len(s) : p[i] = u[i]
  BY <1>1, <1>2, SubSeqProperties
<1> HIDE DEF p
<1>4. p = s  BY <1>1, <1>3, SeqEqual
<1>5. SubSeq(s, 1, Len(s)) = s  BY SubSeqFull
<1> QED  BY <1>2, <1>4, <1>5 DEF IsPrefix, p, u

(* A part of a sequence, and what is behind it.                              *)
LEMMA PartAndRest ==
  ASSUME NEW S, NEW t \in Seq(S), NEW i \in Nat, NEW n \in Nat, i + n <= Len(t)
  PROVE  /\ SubSeq(t, i + 1, i + n) \in Seq(S)
         /\ SubSeq(t, i + 1, Len(t)) \in Seq(S)
         /\ SubSeq(t, i + n + 1, Len(t)) \in Seq(S)
         /\ SubSeq(t, i + 1, i + n) \o SubSeq(t, i + n + 1, Len(t)) = SubSeq(t, i + 1, Len(t))
<1>1. ASSUME NEW a \in Nat, NEW b \in Nat, b <= Len(t)
      PROVE  SubSeq(t, a + 1, b) \in Seq(S)
  <2>1. \A j \in a + 1 .. b : j \in 1 .. Len(t)  BY <1>1
  <2> QED  BY <2>1
<1>2. Len(t) \in Nat /\ i + n \in Nat  OBVIOUS
<1>3. i + 1 \in 1 .. Len(t) + 1 /\ i + n \in (i + 1) - 1 .. Len(t) /\ Len(t) \in i + n .. Len(t)
  BY <1>2
<1>4. SubSeq(t, i + 1, i + n) \o SubSeq(t, i + n + 1, Len(t)) = SubSeq(t, i + 1, Len(t))
  BY <1>3, ConcatAdjacentSubSeq
<1>5. SubSeq(t, i + 1, i + n) \in Seq(S)  BY <1>1, <1>2
<1>6. SubSeq(t, i + 1, Len(t)) \in Seq(S)  BY <1>1, <1>2
<1>7. SubSeq(t, i + n + 1, Len(t)) \in Seq(S)  BY <1>1, <1>2
<1> QED  BY <1>4, <1>5, <1>6, <1>7

LEMMA NothingInBoth ==
  ASSUME NEW S, NEW a \in Seq(S), NEW b \in Seq(S), a \o b = <<>>
  PROVE  a = <<>> /\ b = <<>>
<1>1. Len(a \o b) = Len(a) + Len(b) /\ Len(a) \in Nat /\ Len(b) \in Nat
  BY ConcatProperties
<1>2. Len(a) = 0 /\ Len(b) = 0  BY <1>1
<1> QED  BY <1>2, EmptySeq

(* Head and body cover what was sent: then the body is the one sent, and      *)
(* nothing is left.                                                         *)
LEMMA SplitAgrees ==
  ASSUME NEW S, NEW h \in Seq(S), NEW b \in Seq(S), NEW x \in Seq(S),
         NEW H \in Seq(S), NEW B \in Seq(S),
         (h \o b) \o x = H \o B, Len(H) <= Len(h), Len(B) <= Len(b)
  PROVE  b = B /\ x = <<>>
<1> DEFINE u == h \o b
           v == u \o x
           w == H \o B
<1>1. /\ Len(h) \in Nat /\ Len(b) \in Nat /\ Len(x) \in Nat /\ Len(H) \in Nat
      /\ Len(B) \in Nat
  OBVIOUS
<1>2. /\ u \in Seq(S) /\ Len(u) = Len(h) + Len(b)
      /\ \A i \in 1 .. Len(h) + Len(b) : u[i] = IF i <= Len(h) THEN h[i] ELSE b[i - Len(h)]
  BY ConcatProperties
<1>3. /\ w \in Seq(S) /\ Len(w) = Len(H) + Len(B)
      /\ \A i \in 1 .. Len(H) + Len(B) : w[i] = IF i <= Len(H) THEN H[i] ELSE B[i - Len(H)]
  BY ConcatProperties
<1> HIDE DEF u, w
<1>4. /\ v \in Seq(S) /\ Len(v) = Len(u) + Len(x)
      /\ \A i \in 1 .. Len(u) + Len(x) : v[i] = IF i <= Len(u) THEN u[i] ELSE x[i - Len(u)]
  BY <1>2, ConcatProperties
<1>5. v = w  BY DEF u, w
<1> HIDE DEF v
<1>6. Len(h) = Len(H) /\ Len(b) = Len(B) /\ Len(x) = 0
  BY <1>1, <1>2, <1>3, <1>4, <1>5
<1>7. x = <<>>  BY <1>6, EmptySeq
<1>8. ASSUME NEW i \in 1 .. Len(b)
      PROVE  b[i] = B[i]
  <2> DEFINE j == Len(h) + i
  <2>1. /\ j \in 1 .. Len(h) + Len(b) /\ ~(j <= Len(h)) /\ j - Len(h) = i
        /\ j \in 1 .. Len(H) + Len(B) /\ ~(j <= Len(H)) /\ j - Len(H) = i
        /\ j \in 1 .. Len(u) + Len(x) /\ j <= Len(u)
    BY <1>1, <1>2, <1>6
  <2> HIDE DEF j
  <2>2. u[j] = b[i]  BY <1>2, <2>1
  <2>3. w[j] = B[i]  BY <1>3, <2>1
  <2>4. v[j] = u[j]  BY <1>4, <2>1
  <2> QED  BY <1>5, <2>2, <2>3, <2>4
<1>9. b = B  BY <1>6, <1>8, SeqEqual
<1> QED  BY <1>7, <1>9
-------------------------------------------------------------------------------
(* The automaton decodes what the coding encodes.                            *)

(* A way through the states that each byte leads along is the way it takes.  *)
LEMMA FeedAlong ==
  ASSUME NEW s \in Seq(Octet), NEW q,
         \A k \in 0 .. Len(s) - 1 : q[k + 1] = Step(q[k], s[k + 1])
  PROVE  Feed(q[0], s) = q[Len(s)]
<1> DEFINE S == {k \in Nat : k <= Len(s) => Feed(q[0], SubSeq(s, 1, k)) = q[k]}
<1>1. 0 \in S
  <2>1. SubSeq(s, 1, 0) = <<>>  OBVIOUS
  <2> QED  BY <2>1, FeedNothing
<1>2. ASSUME NEW k \in Nat, k \in S
      PROVE  k + 1 \in S
  <2> SUFFICES ASSUME k + 1 <= Len(s)
               PROVE  Feed(q[0], SubSeq(s, 1, k + 1)) = q[k + 1]
    OBVIOUS
  <2>1. k \in 0 .. Len(s) - 1 /\ k <= Len(s)  OBVIOUS
  <2>2. Feed(q[0], SubSeq(s, 1, k)) = q[k]  BY <1>2, <2>1
  <2>3. Feed(q[0], SubSeq(s, 1, k + 1)) = Step(Feed(q[0], SubSeq(s, 1, k)), s[k + 1])
    BY <2>1, FeedStep
  <2> QED  BY <2>1, <2>2, <2>3
<1>3. Nat \subseteq S
  <2> HIDE DEF S
  <2> QED  BY <1>1, <1>2, Induction
<1>4. Feed(q[0], SubSeq(s, 1, Len(s))) = q[Len(s)]
  <2>1. Len(s) \in Nat /\ Len(s) <= Len(s)  OBVIOUS
  <2> QED  BY <1>3, <2>1
<1>5. SubSeq(s, 1, Len(s)) = s  BY SubSeqFull
<1> QED  BY <1>4, <1>5

LEMMA JoinedBytes ==
  ASSUME NEW s \in Seq(Octet), NEW t \in Seq(Octet)
  PROVE  s \o t \in Seq(Octet) /\ Len(s \o t) = Len(s) + Len(t)
BY ConcatProperties

LEMMA FeedBoth ==
  ASSUME NEW a, NEW s \in Seq(Octet), NEW t \in Seq(Octet)
  PROVE  Feed(a, s \o t) = Feed(Feed(a, s), t)
<1> DEFINE u == s \o t
           k == Len(s)
           j == Len(t)
<1>1. /\ u \in Seq(Octet) /\ Len(u) = k + j /\ k \in Nat /\ j \in Nat
      /\ \A i \in 1 .. k : u[i] = s[i]
      /\ \A i \in 1 .. j : u[k + i] = t[i]
  <2>1. \A i \in 1 .. k + j : u[i] = IF i <= k THEN s[i] ELSE t[i - k]
    BY ConcatProperties
  <2>2. k \in Nat /\ j \in Nat  OBVIOUS
  <2>3. ASSUME NEW i \in 1 .. j
        PROVE  u[k + i] = t[i]
    <3>1. k + i \in 1 .. k + j /\ ~(k + i <= k) /\ (k + i) - k = i  BY <2>2
    <3> QED  BY <2>1, <3>1
  <2> QED  BY <2>1, <2>2, <2>3, ConcatProperties
<1> HIDE DEF u, k, j
<1>2. Feed(a, SubSeq(u, 1, k + j)) = Feed(Feed(a, SubSeq(u, 1, k)), SubSeq(u, k + 1, k + j))
  <2>1. k \in 0 .. Len(u) /\ j \in 0 .. Len(u) - k  BY <1>1
  <2> QED  BY <1>1, <2>1, FeedParts
<1>3. SubSeq(u, 1, k) = s
  <2> DEFINE p == SubSeq(u, 1, k)
  <2>1. p \in Seq(Octet) /\ Len(p) = k /\ \A i \in 1 .. k : p[i] = u[i]  BY <1>1
  <2> HIDE DEF p
  <2>2. p = s  BY <1>1, <2>1, SeqEqual DEF k
  <2> QED  BY <2>2 DEF p
<1>4. SubSeq(u, k + 1, k + j) = t
  <2> DEFINE p == SubSeq(u, k + 1, k + j)
  <2>1. p \in Seq(Octet) /\ Len(p) = j /\ \A i \in 1 .. j : p[i] = u[k + i]
    <3>1. \A i \in k + 1 .. k + j : i \in 1 .. Len(u)  BY <1>1
    <3> QED  BY <1>1, <3>1
  <2> HIDE DEF p
  <2>2. p = t  BY <1>1, <2>1, SeqEqual DEF j
  <2> QED  BY <2>2 DEF p
<1>5. SubSeq(u, 1, k + j) = u  BY <1>1, SubSeqFull
<1> QED  BY <1>2, <1>3, <1>4, <1>5 DEF u

(* The states of the automaton, and the bytes that lead from one to another. *)
Run(st, left, digits, out, used) ==
  [st |-> st, left |-> left, digits |-> digits, out |-> out, used |-> used]

LEMMA DigitStep ==
  ASSUME NEW l, NEW d, NEW o, NEW u, NEW b, IsHex(b), d # MaxDigits
  PROVE  Step(Run("SIZE", l, d, o, u), b) = Run("SIZE", 16 * l + Hex[b], d + 1, o, u + 1)
BY DEF Run, Step, InSize

LEMMA ExtStep ==
  ASSUME NEW l, NEW d, NEW o, NEW u, NEW b, b \notin {"CR", "LF"}
  PROVE  Step(Run("EXT", l, d, o, u), b) = Run("EXT", l, d, o, u + 1)
BY DEF Run, Step, InExt

LEMMA SizeThenExt ==
  ASSUME NEW l, NEW d, NEW o, NEW u, NEW b, d # 0, BeginsExtension(b)
  PROVE  Step(Run("SIZE", l, d, o, u), b) = Run("EXT", l, 0, o, u + 1)
BY DEF Run, Step, InSize, InExt, IsHex, Hex, EndsSize, BeginsExtension

LEMMA SizeThenCR ==
  ASSUME NEW l, NEW d, NEW o, NEW u, d # 0
  PROVE  Step(Run("SIZE", l, d, o, u), "CR") = Run("EXPECT_LF", l, 0, o, u + 1)
BY DEF Run, Step, InSize, InExt, IsHex, Hex, EndsSize, Go

LEMMA ExtThenCR ==
  ASSUME NEW l, NEW d, NEW o, NEW u
  PROVE  Step(Run("EXT", l, d, o, u), "CR") = Run("EXPECT_LF", l, d, o, u + 1)
BY DEF Run, Step, InExt, Go

LEMMA LineThenLF ==
  ASSUME NEW l, NEW d, NEW o, NEW u
  PROVE  Step(Run("EXPECT_LF", l, d, o, u), "LF")
           = Run(IF l = 0 THEN "TRAILER_HEAD" ELSE "DATA", l, d, o, u + 1)
BY DEF Run, Step, Expect, Go

LEMMA DataThenCR ==
  ASSUME NEW l, NEW d, NEW o, NEW u
  PROVE  Step(Run("DATA_CR", l, d, o, u), "CR") = Run("DATA_LF", l, d, o, u + 1)
BY DEF Run, Step, Expect, Go

LEMMA DataThenLF ==
  ASSUME NEW l, NEW d, NEW o, NEW u
  PROVE  Step(Run("DATA_LF", l, d, o, u), "LF") = Run("SIZE", l, d, o, u + 1)
BY DEF Run, Step, Expect, Go

LEMMA TrailerBegins ==
  ASSUME NEW l, NEW d, NEW o, NEW u, NEW b, b \notin {"CR", "LF"}
  PROVE  Step(Run("TRAILER_HEAD", l, d, o, u), b) = Run("TRAILER_MIDDLE", l, d, o, u + 1)
BY DEF Run, Step, Go

LEMMA TrailerGoesOn ==
  ASSUME NEW l, NEW d, NEW o, NEW u, NEW b
  PROVE  Step(Run("TRAILER_MIDDLE", l, d, o, u), b)
           = Run(IF b = "LF" THEN "TRAILER_HEAD" ELSE "TRAILER_MIDDLE", l, d, o, u + 1)
BY DEF Run, Step, Go

LEMMA TrailerThenCR ==
  ASSUME NEW l, NEW d, NEW o, NEW u
  PROVE  Step(Run("TRAILER_HEAD", l, d, o, u), "CR") = Run("TRAILER_HEAD", l, d, o, u + 1)
BY DEF Run, Step

LEMMA TrailerThenLF ==
  ASSUME NEW l, NEW d, NEW o, NEW u
  PROVE  Step(Run("TRAILER_HEAD", l, d, o, u), "LF") = Run("COMPLETE", l, d, o, u + 1)
BY DEF Run, Step, Go

LEMMA FeedOne ==
  ASSUME NEW a, NEW b \in Octet
  PROVE  Feed(a, << b >>) = Step(a, b)
<1> DEFINE s == << b >>
<1>1. /\ s \in Seq(Octet) /\ Len(s) = 1 /\ s[1] = b
      /\ SubSeq(s, 1, 0) = <<>> /\ SubSeq(s, 1, 1) = s
  <2>1. s \in Seq(Octet) /\ Len(s) = 1 /\ s[1] = b  OBVIOUS
  <2> HIDE DEF s
  <2>2. SubSeq(s, 1, Len(s)) = s  BY <2>1, SubSeqFull
  <2> QED  BY <2>1, <2>2
<1>2. Feed(a, SubSeq(s, 1, 0 + 1)) = Step(Feed(a, SubSeq(s, 1, 0)), s[0 + 1])
  <2>1. 0 \in 0 .. Len(s) - 1  BY <1>1
  <2> HIDE DEF s
  <2> QED  BY <1>1, <2>1, FeedStep
<1>3. Feed(a, SubSeq(s, 1, 0)) = a  BY <1>1, FeedNothing
<1> HIDE DEF s
<1>4. Feed(a, s) = Step(a, b)
  <2>1. 0 + 1 = 1  OBVIOUS
  <2> QED  BY <1>1, <1>2, <1>3, <2>1
<1> QED  BY <1>4 DEF s

LEMMA FeedTwo ==
  ASSUME NEW a, NEW b \in Octet, NEW c \in Octet
  PROVE  Feed(a, << b, c >>) = Step(Step(a, b), c)
<1> DEFINE s == << b >>
           t == << c >>
<1>1. s \in Seq(Octet) /\ t \in Seq(Octet)  OBVIOUS
<1>2. << b, c >> = s \o t
  <2> DEFINE p == << b, c >>
             q == s \o t
  <2>1. p \in Seq(Octet) /\ Len(p) = 2 /\ p[1] = b /\ p[2] = c  OBVIOUS
  <2>2. Len(s) = 1 /\ Len(t) = 1 /\ s[1] = b /\ t[1] = c  OBVIOUS
  <2>3. /\ q \in Seq(Octet) /\ Len(q) = 2
        /\ \A i \in 1 .. 2 : q[i] = IF i <= 1 THEN s[i] ELSE t[i - 1]
    <3> HIDE DEF s, t
    <3> QED  BY <1>1, <2>2, ConcatProperties
  <2> HIDE DEF p, q, s, t
  <2>4. \A i \in 1 .. 2 : p[i] = q[i]  BY <2>1, <2>2, <2>3
  <2>5. p = q  BY <2>1, <2>3, <2>4, SeqEqual
  <2> QED  BY <2>5 DEF p, q
<1>3. Feed(a, s) = Step(a, b)  BY FeedOne
<1>4. Feed(Step(a, b), t) = Step(Step(a, b), c)  BY FeedOne
<1> HIDE DEF s, t
<1>5. Feed(a, s \o t) = Step(Step(a, b), c)  BY <1>1, <1>3, <1>4, FeedBoth
<1> QED  BY <1>2, <1>5

(* The digits of a size, whatever number they denote.                        *)
LEMMA FeedSize ==
  ASSUME NEW s \in Seq(DOMAIN Hex), Len(s) <= MaxDigits, NEW n \in Nat, Denotes(s, n),
         NEW o, NEW u \in Nat
  PROVE  Feed(Run("SIZE", 0, 0, o, u), s) = Run("SIZE", n, Len(s), o, u + Len(s))
<1>1. PICK v \in [0 .. Len(s) -> 0 .. n] :
        /\ v[0] = 0 /\ v[Len(s)] = n
        /\ \A i \in 1 .. Len(s) : v[i] = 16 * v[i - 1] + Hex[s[i]]
  BY DEF Denotes
<1> DEFINE q == [k \in 0 .. Len(s) |-> Run("SIZE", v[k], k, o, u + k)]
<1>2. s \in Seq(Octet)
  <2>1. DOMAIN Hex \subseteq Octet  BY DEF Hex, Octet
  <2> HIDE DEF Octet
  <2>2. \A i \in 1 .. Len(s) : s[i] \in Octet  BY <2>1
  <2> QED  BY <2>2
<1>3. ASSUME NEW k \in 0 .. Len(s) - 1
      PROVE  q[k + 1] = Step(q[k], s[k + 1])
  <2>1. /\ k + 1 \in 1 .. Len(s) /\ (k + 1) - 1 = k /\ k # MaxDigits
        /\ k \in 0 .. Len(s) /\ k + 1 \in 0 .. Len(s)
    BY MaxDigitsAssumption
  <2>2. IsHex(s[k + 1])
    <3>1. s[k + 1] \in DOMAIN Hex  BY <2>1
    <3> QED  BY <3>1 DEF IsHex
  <2>3. v[k + 1] = 16 * v[k] + Hex[s[k + 1]]  BY <1>1, <2>1
  <2>4. Step(Run("SIZE", v[k], k, o, u + k), s[k + 1])
          = Run("SIZE", 16 * v[k] + Hex[s[k + 1]], k + 1, o, (u + k) + 1)
    <3> DEFINE x == v[k]
               w == u + k
               b == s[k + 1]
    <3>1. IsHex(b) /\ k # MaxDigits  BY <2>1, <2>2
    <3> HIDE DEF x, w, b
    <3>2. Step(Run("SIZE", x, k, o, w), b) = Run("SIZE", 16 * x + Hex[b], k + 1, o, w + 1)
      BY <3>1, DigitStep
    <3> QED  BY <3>2 DEF x, w, b
  <2>5. (u + k) + 1 = u + (k + 1)  OBVIOUS
  <2> QED  BY <2>1, <2>3, <2>4, <2>5
<1>4. q[0] = Run("SIZE", 0, 0, o, u)
  <2>1. 0 \in 0 .. Len(s) /\ u + 0 = u  OBVIOUS
  <2> QED  BY <1>1, <2>1
<1>5. q[Len(s)] = Run("SIZE", n, Len(s), o, u + Len(s))
  <2>1. Len(s) \in 0 .. Len(s)  OBVIOUS
  <2> QED  BY <1>1, <2>1
<1>6. Feed(q[0], s) = q[Len(s)]
  <2> HIDE DEF q
  <2> QED  BY <1>2, <1>3, FeedAlong
<1> QED  BY <1>4, <1>5, <1>6

(* What stands in an extension does not matter, up to the end of the line.    *)
LEMMA FeedExtension ==
  ASSUME NEW s \in Seq(Octet \ {"CR", "LF"}), NEW l, NEW d, NEW o, NEW u \in Nat
  PROVE  Feed(Run("EXT", l, d, o, u), s) = Run("EXT", l, d, o, u + Len(s))
<1> DEFINE q == [k \in 0 .. Len(s) |-> Run("EXT", l, d, o, u + k)]
<1>1. /\ s \in Seq(Octet) /\ Len(s) \in Nat
      /\ \A i \in 1 .. Len(s) : s[i] \notin {"CR", "LF"}
  <2> HIDE DEF Octet
  <2>1. \A i \in 1 .. Len(s) : s[i] \in Octet \ {"CR", "LF"}  OBVIOUS
  <2> QED  BY <2>1
<1>2. ASSUME NEW k \in 0 .. Len(s) - 1
      PROVE  q[k + 1] = Step(q[k], s[k + 1])
  <2>1. /\ k + 1 \in 1 .. Len(s) /\ k \in 0 .. Len(s) /\ k + 1 \in 0 .. Len(s)
        /\ (u + k) + 1 = u + (k + 1)
    BY <1>1
  <2>2. Step(Run("EXT", l, d, o, u + k), s[k + 1]) = Run("EXT", l, d, o, (u + k) + 1)
    <3> DEFINE w == u + k
               b == s[k + 1]
    <3>1. b \notin {"CR", "LF"}  BY <1>1, <2>1
    <3> HIDE DEF w, b
    <3>2. Step(Run("EXT", l, d, o, w), b) = Run("EXT", l, d, o, w + 1)  BY <3>1, ExtStep
    <3> QED  BY <3>2 DEF w, b
  <2> QED  BY <2>1, <2>2
<1>3. q[0] = Run("EXT", l, d, o, u)
  <2>1. 0 \in 0 .. Len(s) /\ u + 0 = u  BY <1>1
  <2> QED  BY <2>1
<1>4. q[Len(s)] = Run("EXT", l, d, o, u + Len(s))  BY <1>1
<1>5. Feed(q[0], s) = q[Len(s)]
  <2> HIDE DEF q
  <2> QED  BY <1>1, <1>2, FeedAlong
<1> QED  BY <1>3, <1>4, <1>5

(* A trailer of any lines leads back to where it began.                       *)
LEMMA FeedTrailer ==
  ASSUME NEW t \in Trailer, NEW l, NEW d, NEW o, NEW u \in Nat
  PROVE  Feed(Run("TRAILER_HEAD", l, d, o, u), t) = Run("TRAILER_HEAD", l, d, o, u + Len(t))
<1> DEFINE LineBegins(k) == k = 0 \/ t[k] = "LF"
           st(k) == IF LineBegins(k) THEN "TRAILER_HEAD" ELSE "TRAILER_MIDDLE"
           q == [k \in 0 .. Len(t) |-> Run(st(k), l, d, o, u + k)]
<1>1. /\ t \in Seq(Octet) /\ Len(t) \in Nat
      /\ \A i \in 1 .. Len(t) :
           /\ i = 1 \/ t[i - 1] = "LF" => t[i] \notin {"CR", "LF"}
           /\ i = Len(t) => t[i] = "LF"
  BY DEF Trailer
<1>2. ASSUME NEW k \in 0 .. Len(t) - 1
      PROVE  q[k + 1] = Step(q[k], t[k + 1])
  <2>1. /\ k + 1 \in 1 .. Len(t) /\ k \in 0 .. Len(t) /\ k + 1 \in 0 .. Len(t)
        /\ (u + k) + 1 = u + (k + 1) /\ (k + 1) - 1 = k /\ k + 1 # 0
    BY <1>1
  <2>2. q[k] = Run(st(k), l, d, o, u + k) /\ q[k + 1] = Run(st(k + 1), l, d, o, u + (k + 1))
    BY <2>1
  <2> HIDE DEF q
  <2>3. CASE LineBegins(k)
    <3>1. t[k + 1] \notin {"CR", "LF"}
      <4>1. k + 1 = 1 \/ t[(k + 1) - 1] = "LF"  BY <2>1, <2>3
      <4> QED  BY <1>1, <2>1, <4>1
    <3>2. st(k) = "TRAILER_HEAD" /\ st(k + 1) = "TRAILER_MIDDLE"  BY <2>1, <2>3, <3>1
    <3>3. Step(Run("TRAILER_HEAD", l, d, o, u + k), t[k + 1])
            = Run("TRAILER_MIDDLE", l, d, o, (u + k) + 1)
      BY <3>1, TrailerBegins
    <3> HIDE DEF st
    <3> QED  BY <2>1, <2>2, <3>2, <3>3
  <2>4. CASE ~LineBegins(k)
    <3>1. /\ st(k) = "TRAILER_MIDDLE"
          /\ st(k + 1) = IF t[k + 1] = "LF" THEN "TRAILER_HEAD" ELSE "TRAILER_MIDDLE"
      BY <2>1, <2>4
    <3>2. Step(Run("TRAILER_MIDDLE", l, d, o, u + k), t[k + 1])
            = Run(IF t[k + 1] = "LF" THEN "TRAILER_HEAD" ELSE "TRAILER_MIDDLE",
                 l, d, o, (u + k) + 1)
      BY TrailerGoesOn
    <3> HIDE DEF st
    <3> QED  BY <2>1, <2>2, <3>1, <3>2
  <2> QED  BY <2>3, <2>4
<1>3. q[0] = Run("TRAILER_HEAD", l, d, o, u)
  <2>1. 0 \in 0 .. Len(t) /\ u + 0 = u  BY <1>1
  <2> QED  BY <2>1
<1>4. q[Len(t)] = Run("TRAILER_HEAD", l, d, o, u + Len(t))
  <2>1. Len(t) \in 0 .. Len(t) /\ (Len(t) # 0 => Len(t) \in 1 .. Len(t))  BY <1>1
  <2>2. LineBegins(Len(t))  BY <1>1, <2>1
  <2> QED  BY <2>1, <2>2
<1>5. Feed(q[0], t) = q[Len(t)]
  <2> HIDE DEF q
  <2> QED  BY <1>1, <1>2, FeedAlong
<1> QED  BY <1>3, <1>4, <1>5

(* The line before a chunk, from the first digit to the end of the line.      *)
LEMMA FeedLine ==
  ASSUME NEW s \in Seq(DOMAIN Hex), Len(s) \in 1 .. MaxDigits,
         NEW x \in Seq(Octet \ {"CR", "LF"}), x # <<>> => BeginsExtension(x[1]),
         NEW n \in Nat, Denotes(s, n), NEW o, NEW u \in Nat
  PROVE  /\ (s \o x) \o CRLF \in Seq(Octet)
         /\ Feed(Run("SIZE", 0, 0, o, u), (s \o x) \o CRLF)
              = Run(IF n = 0 THEN "TRAILER_HEAD" ELSE "DATA", n, 0, o,
                   u + Len((s \o x) \o CRLF))
<1> DEFINE d == Len(s)
           w == u + d
           v == w + Len(x)
           a == Run("SIZE", 0, 0, o, u)
           after == IF n = 0 THEN "TRAILER_HEAD" ELSE "DATA"
<1>1. /\ s \in Seq(DOMAIN Hex) /\ x \in Seq(Octet \ {"CR", "LF"})
      /\ d \in Nat /\ d # 0 /\ d <= MaxDigits
      /\ (x # <<>> => BeginsExtension(x[1]))
  OBVIOUS
<1>2. s \in Seq(Octet)
  <2>1. DOMAIN Hex \subseteq Octet  BY DEF Hex, Octet
  <2> HIDE DEF Octet
  <2>2. \A i \in 1 .. Len(s) : s[i] \in Octet  BY <1>1, <2>1
  <2> QED  BY <1>1, <2>2
<1>3. x \in Seq(Octet) /\ Len(x) \in Nat
  <2> HIDE DEF Octet
  <2>1. \A i \in 1 .. Len(x) : x[i] \in Octet  BY <1>1
  <2> QED  BY <1>1, <2>1
<1>4. CRLF \in Seq(Octet) /\ Len(CRLF) = 2 /\ "CR" \in Octet /\ "LF" \in Octet
  <2>1. "CR" \in Octet /\ "LF" \in Octet  BY Zenon DEF Octet
  <2> HIDE DEF Octet
  <2> QED  BY <2>1 DEF CRLF
<1>6. Feed(a, s) = Run("SIZE", n, d, o, w)  BY <1>1, FeedSize
<1>7. w \in Nat /\ v \in Nat  BY <1>1, <1>3
<1> HIDE DEF d, w, v, a, after
<1>8. Feed(a, s \o x) \in {Run("SIZE", n, d, o, v), Run("EXT", n, 0, o, v)}
  <2>1. Feed(a, s \o x) = Feed(Run("SIZE", n, d, o, w), x)
    BY <1>2, <1>3, <1>6, FeedBoth
  <2>2. CASE x = <<>>
    <3>1. Feed(Run("SIZE", n, d, o, w), x) = Run("SIZE", n, d, o, w)  BY <2>2, FeedNothing
    <3>2. v = w  BY <1>7, <2>2 DEF v
    <3> QED  BY <2>1, <3>1, <3>2
  <2>3. CASE x # <<>>
    <3> DEFINE y == SubSeq(x, 2, Len(x))
               z == SubSeq(x, 1, 1)
    <3>1. Len(x) >= 1 /\ BeginsExtension(x[1])  BY <1>1, <1>3, <2>3, EmptySeq
    <3> DEFINE c == x[1]
    <3>2. z = << c >> /\ c \in Octet /\ y \in Seq(Octet \ {"CR", "LF"}) /\ Len(y) = Len(x) - 1
      <4> HIDE DEF Octet
      <4>2. y \in Seq(Octet \ {"CR", "LF"}) /\ Len(y) = Len(x) - 1
        <5> DEFINE S == Octet \ {"CR", "LF"}
        <5>1. x \in Seq(S)  OBVIOUS
        <5> HIDE DEF S
        <5>2. \A i \in 2 .. Len(x) : x[i] \in S  BY <5>1
        <5>3. y \in Seq(S)  BY <1>3, <3>1, <5>1, <5>2
        <5>4. Len(y) = Len(x) - 1
          <6> DEFINE k == Len(x)
          <6>1. k \in Int /\ 2 \in Int /\ k >= 1  BY <1>3, <3>1
          <6>2. \A i \in 2 .. k : x[i] \in S  BY <5>2
          <6> HIDE DEF k
          <6>3. Len(SubSeq(x, 2, k)) = IF 2 <= k THEN k - 2 + 1 ELSE 0
            BY <6>1, <6>2, SubSeqProperties
          <6> DEFINE j == Len(SubSeq(x, 2, k))
          <6> HIDE DEF j
          <6>4. j = k - 1  BY <6>1, <6>3 DEF j
          <6> QED  BY <6>4, Zenon DEF j, k, y
        <5> QED  BY <5>3, <5>4 DEF S
      <4>3. c \in Octet  BY <1>3, <3>1
      <4>4. z = << c >>
        <5> DEFINE e == << c >>
        <5>1. z \in Seq(Octet) /\ Len(z) = 1 /\ z[1] = x[1]  BY <1>3, <3>1
        <5>2. e \in Seq(Octet) /\ Len(e) = 1 /\ e[1] = x[1]  BY <4>3
        <5> HIDE DEF z, e
        <5>3. z = e  BY <5>1, <5>2, SeqEqual
        <5> QED  BY <5>3 DEF e
      <4> QED  BY <4>2, <4>3, <4>4
    <3>3. y \in Seq(Octet) /\ z \o y = x
      <4> DEFINE S == Octet
      <4>1. /\ SubSeq(x, 0 + 1, 0 + 1) \o SubSeq(x, 0 + 1 + 1, Len(x)) = SubSeq(x, 0 + 1, Len(x))
            /\ SubSeq(x, 0 + 1 + 1, Len(x)) \in Seq(S)
        <5>1. x \in Seq(S) /\ 0 \in Nat /\ 1 \in Nat /\ 0 + 1 <= Len(x)  BY <1>3, <3>1
        <5> HIDE DEF S
        <5> QED  BY <5>1, PartAndRest
      <4>2. SubSeq(x, 1, Len(x)) = x  BY <1>3, SubSeqFull
      <4>3. 0 + 1 = 1 /\ 0 + 1 + 1 = 2  OBVIOUS
      <4> QED  BY <4>1, <4>2, <4>3
    <3> HIDE DEF y, z, c
    <3>4. Feed(Run("SIZE", n, d, o, w), z) = Run("EXT", n, 0, o, w + 1)
      <4> DEFINE e == Run("SIZE", n, d, o, w)
      <4> HIDE DEF e
      <4>1. Feed(e, z) = Step(e, c)  BY <3>2, FeedOne
      <4>2. Step(Run("SIZE", n, d, o, w), c) = Run("EXT", n, 0, o, w + 1)
        BY <1>1, <3>1, SizeThenExt DEF c
      <4> QED  BY <4>1, <4>2 DEF e
    <3>5. Feed(Run("EXT", n, 0, o, w + 1), y) = Run("EXT", n, 0, o, (w + 1) + Len(y))
      <4>1. w + 1 \in Nat  BY <1>7
      <4> QED  BY <3>2, <4>1, FeedExtension
    <3>6. z \in Seq(Octet)  BY <1>4, <3>2
    <3>7. Feed(Run("SIZE", n, d, o, w), z \o y)
            = Feed(Feed(Run("SIZE", n, d, o, w), z), y)
      BY <3>3, <3>6, FeedBoth
    <3>8. (w + 1) + Len(y) = v  BY <1>3, <1>7, <3>2 DEF v
    <3> QED  BY <2>1, <3>3, <3>4, <3>5, <3>7, <3>8
  <2> QED  BY <2>2, <2>3
<1>9. s \o x \in Seq(Octet) /\ Len(s \o x) = d + Len(x)
  BY <1>2, <1>3, ConcatProperties DEF d
<1>10. (s \o x) \o CRLF \in Seq(Octet) /\ u + Len((s \o x) \o CRLF) = v + 2
  <2> DEFINE p == s \o x
             q == CRLF
             S == Octet
  <2>0. p \in Seq(S) /\ q \in Seq(S)  BY <1>4, <1>9
  <2> HIDE DEF p, q, S
  <2>1. p \o q \in Seq(S) /\ Len(p \o q) = Len(p) + Len(q)
    BY <2>0, ConcatProperties
  <2> USE DEF p, q, S
  <2>2. (s \o x) \o CRLF \in Seq(Octet) /\ Len((s \o x) \o CRLF) = (d + Len(x)) + 2
    BY <1>4, <1>9, <2>1
  <2> QED  BY <1>1, <1>3, <2>2 DEF w, v
<1> DEFINE q == Feed(a, s \o x)
<1>11. Feed(a, (s \o x) \o CRLF) = Step(Step(q, "CR"), "LF")
  <2>1. Feed(a, (s \o x) \o CRLF) = Feed(q, CRLF)  BY <1>4, <1>9, FeedBoth
  <2> HIDE DEF q
  <2>2. Feed(q, CRLF) = Step(Step(q, "CR"), "LF")  BY <1>4, FeedTwo DEF CRLF
  <2> QED  BY <2>1, <2>2
<1> HIDE DEF q
<1>12. Step(q, "CR") = Run("EXPECT_LF", n, 0, o, v + 1)
  <2>1. CASE q = Run("SIZE", n, d, o, v)
    <3>1. Step(Run("SIZE", n, d, o, v), "CR") = Run("EXPECT_LF", n, 0, o, v + 1)
      BY <1>1, SizeThenCR
    <3> QED  BY <2>1, <3>1
  <2>2. CASE q = Run("EXT", n, 0, o, v)
    BY <2>2, ExtThenCR
  <2> QED  BY <1>8, <2>1, <2>2 DEF q
<1>13. Step(Run("EXPECT_LF", n, 0, o, v + 1), "LF") = Run(after, n, 0, o, (v + 1) + 1)
  BY LineThenLF DEF after
<1>14. (v + 1) + 1 = u + Len((s \o x) \o CRLF)  BY <1>7, <1>10
<1> QED  BY <1>10, <1>11, <1>12, <1>13, <1>14 DEF a, after

LEMMA FeedSizeLine ==
  ASSUME NEW l \in SizeLine, NEW n \in Nat, Denotes(l.size, n), NEW o, NEW u \in Nat
  PROVE  /\ LineText(l) \in Seq(Octet)
         /\ Feed(Run("SIZE", 0, 0, o, u), LineText(l))
              = Run(IF n = 0 THEN "TRAILER_HEAD" ELSE "DATA", n, 0, o, u + Len(LineText(l)))
<1> DEFINE s == l.size
           x == l.ext
           S == Octet \ {"CR", "LF"}
<1>1. /\ s \in Seq(DOMAIN Hex) /\ x \in Seq(S) /\ Len(s) \in 1 .. MaxDigits
      /\ (x # <<>> => BeginsExtension(x[1]))
  BY Zenon DEF SizeLine
<1>2. Denotes(s, n)  OBVIOUS
<1> HIDE DEF s, x
<1>3. /\ (s \o x) \o CRLF \in Seq(Octet)
      /\ Feed(Run("SIZE", 0, 0, o, u), (s \o x) \o CRLF)
           = Run(IF n = 0 THEN "TRAILER_HEAD" ELSE "DATA", n, 0, o,
                u + Len((s \o x) \o CRLF))
  BY <1>1, <1>2, FeedLine
<1> QED  BY <1>3, Zenon DEF LineText, s, x

(* A chunk: its bytes are decoded, and the automaton is ready for another.    *)
LEMMA FeedChunk ==
  ASSUME NEW c \in CodedChunk, NEW o \in Seq(Octet), NEW u \in Nat
  PROVE  /\ ChunkText(c) \in Seq(Octet) /\ c.data \in Seq(Octet)
         /\ Feed(Run("SIZE", 0, 0, o, u), ChunkText(c))
              = Run("SIZE", 0, 0, o \o c.data, u + Len(ChunkText(c)))
<1> DEFINE l == LineText(c.line)
           d == c.data
           n == Len(d)
           a == Run("SIZE", 0, 0, o, u)
           v == u + Len(l)
           w == v + n
<1>1. c.line \in SizeLine /\ d \in Seq(Octet) /\ d # <<>> /\ Denotes(c.line.size, n)
  BY Zenon DEF CodedChunk
<1>2. n \in Nat /\ n # 0  BY <1>1, EmptySeq
<1>3. l \in Seq(Octet) /\ Feed(a, l) = Run("DATA", n, 0, o, v)
  <2> DEFINE k == c.line
  <2>1. k \in SizeLine /\ Denotes(k.size, n)  BY <1>1
  <2> HIDE DEF k, n, d
  <2>2. /\ LineText(k) \in Seq(Octet)
        /\ Feed(Run("SIZE", 0, 0, o, u), LineText(k))
             = Run(IF n = 0 THEN "TRAILER_HEAD" ELSE "DATA", n, 0, o, u + Len(LineText(k)))
    BY <1>2, <2>1, FeedSizeLine
  <2> QED  BY <1>2, <2>2 DEF k
<1>4. CRLF \in Seq(Octet) /\ Len(CRLF) = 2 /\ "CR" \in Octet /\ "LF" \in Octet
  <2>1. "CR" \in Octet /\ "LF" \in Octet  BY Zenon DEF Octet
  <2> HIDE DEF Octet
  <2> QED  BY <2>1 DEF CRLF
<1>5. ChunkText(c) = (l \o d) \o CRLF  BY Zenon DEF ChunkText
<1> HIDE DEF l, d, n, a, v, w
<1>6. v \in Nat /\ w \in Nat  BY <1>2, <1>3 DEF v, w
<1>7. Feed(Run("DATA", n, 0, o, v), d) = Run("DATA_CR", 0, 0, o \o d, w)
  <2> DEFINE b == Run("DATA", n, 0, o, v)
  <2>1. b = [st |-> "DATA", left |-> n, digits |-> 0, out |-> o, used |-> v]  BY DEF Run
  <2>2. b \in Automaton /\ b.st = "DATA" /\ b.left = n /\ b.out = o /\ b.used = v
    BY <1>2, <1>6, <2>1, MaxDigitsAssumption DEF Automaton, LineStates
  <2> HIDE DEF b
  <2>3. Sound(b) /\ Len(d) <= b.left  BY <1>2, <2>2 DEF Sound, n
  <2>4. Feed(b, d) = [b EXCEPT !.st = IF Len(d) = b.left THEN "DATA_CR" ELSE "DATA",
                               !.left = b.left - Len(d), !.out = b.out \o d,
                               !.used = b.used + Len(d)]
    BY <1>1, <2>2, <2>3, FeedData
  <2>5. Len(d) = b.left /\ b.left - Len(d) = 0 /\ b.used + Len(d) = w
    BY <1>2, <2>2 DEF n, w
  <2>6. Feed(b, d) = [b EXCEPT !.st = "DATA_CR", !.left = 0, !.out = o \o d, !.used = w]
    BY <2>2, <2>4, <2>5
  <2> DEFINE p == o \o d
  <2> HIDE DEF p
  <2>7. Feed(b, d) = [st |-> "DATA_CR", left |-> 0, digits |-> 0, out |-> p, used |-> w]
    BY <2>1, <2>6 DEF p
  <2> QED  BY <2>7 DEF Run, b, p
<1>8. l \o d \in Seq(Octet) /\ Len(l \o d) = Len(l) + n
  BY <1>1, <1>3, ConcatProperties DEF n
<1>9. Feed(a, l \o d) = Run("DATA_CR", 0, 0, o \o d, w)
  <2>1. Feed(a, l \o d) = Feed(Feed(a, l), d)  BY <1>1, <1>3, FeedBoth
  <2> QED  BY <1>3, <1>7, <2>1
<1>10. /\ (l \o d) \o CRLF \in Seq(Octet)
       /\ u + Len((l \o d) \o CRLF) = (w + 1) + 1
  <2> DEFINE p == l \o d
             q == CRLF
             S == Octet
  <2>1. p \in Seq(S) /\ q \in Seq(S)  BY <1>4, <1>8
  <2> HIDE DEF p, q, S
  <2>2. p \o q \in Seq(S) /\ Len(p \o q) = Len(p) + Len(q)
    BY <2>1, ConcatProperties
  <2>3. Len(p) = Len(l) + n /\ Len(q) = 2  BY <1>4, <1>8 DEF p, q
  <2>4. Len(l) \in Nat  BY <1>3
  <2>5. u + Len(p \o q) = (w + 1) + 1  BY <1>2, <2>2, <2>3, <2>4 DEF v, w
  <2> QED  BY <2>2, <2>5 DEF p, q, S
<1>11. Feed(a, (l \o d) \o CRLF)
         = Step(Step(Run("DATA_CR", 0, 0, o \o d, w), "CR"), "LF")
  <2> DEFINE q == Run("DATA_CR", 0, 0, o \o d, w)
  <2>1. Feed(a, (l \o d) \o CRLF) = Feed(q, CRLF)
    <3> DEFINE p == l \o d
               r == CRLF
    <3>1. p \in Seq(Octet) /\ r \in Seq(Octet) /\ Feed(a, p) = q  BY <1>4, <1>8, <1>9
    <3> HIDE DEF p, r, q
    <3>2. Feed(a, p \o r) = Feed(q, r)  BY <3>1, FeedBoth
    <3> QED  BY <3>2 DEF p, r
  <2> HIDE DEF q
  <2>2. Feed(q, CRLF) = Step(Step(q, "CR"), "LF")  BY <1>4, FeedTwo DEF CRLF
  <2> QED  BY <2>1, <2>2 DEF q
<1>12. Step(Step(Run("DATA_CR", 0, 0, o \o d, w), "CR"), "LF")
         = Run("SIZE", 0, 0, o \o d, (w + 1) + 1)
  <2> DEFINE p == o \o d
             x == w + 1
  <2> HIDE DEF p, x
  <2>1. Step(Run("DATA_CR", 0, 0, p, w), "CR") = Run("DATA_LF", 0, 0, p, w + 1)
    BY DataThenCR
  <2>2. Step(Run("DATA_LF", 0, 0, p, x), "LF") = Run("SIZE", 0, 0, p, x + 1)
    BY DataThenLF
  <2> QED  BY <2>1, <2>2 DEF p, x
<1> QED  BY <1>1, <1>5, <1>10, <1>11, <1>12, Zenon DEF a, d, l

LEMMA FeedChunks ==
  ASSUME NEW q \in Seq(CodedChunk)
  PROVE  LET text == FlattenSeq([i \in 1 .. Len(q) |-> ChunkText(q[i])])
             data == FlattenSeq([i \in 1 .. Len(q) |-> q[i].data])
         IN /\ text \in Seq(Octet) /\ data \in Seq(Octet)
            /\ Feed(Run("SIZE", 0, 0, <<>>, 0), text) = Run("SIZE", 0, 0, data, Len(text))
<1> DEFINE N == Len(q)
           t == [i \in 1 .. N |-> ChunkText(q[i])]
           d == [i \in 1 .. N |-> q[i].data]
           T(k) == FlattenSeq(SubSeq(t, 1, k))
           D(k) == FlattenSeq(SubSeq(d, 1, k))
           a == Run("SIZE", 0, 0, <<>>, 0)
           S == {k \in Nat : k <= N =>
                   /\ T(k) \in Seq(Octet) /\ D(k) \in Seq(Octet)
                   /\ Feed(a, T(k)) = Run("SIZE", 0, 0, D(k), Len(T(k)))}
<1>1. \A i \in 1 .. N : q[i] \in CodedChunk
  BY ElementOfSeq
<1>2. \A i \in 1 .. N : ChunkText(q[i]) \in Seq(Octet) /\ q[i].data \in Seq(Octet)
  <2> TAKE i \in 1 .. N
  <2> DEFINE c == q[i]
  <2>1. c \in CodedChunk /\ <<>> \in Seq(Octet) /\ 0 \in Nat  BY <1>1
  <2> HIDE DEF c
  <2>2. ChunkText(c) \in Seq(Octet) /\ c.data \in Seq(Octet)  BY <2>1, FeedChunk
  <2> QED  BY <2>2 DEF c
<1>3. N \in Nat  OBVIOUS
<1>4. /\ t \in Seq(Seq(Octet)) /\ Len(t) = N /\ d \in Seq(Seq(Octet)) /\ Len(d) = N
      /\ \A i \in 1 .. N : t[i] = ChunkText(q[i]) /\ d[i] = q[i].data
  <2> HIDE DEF N
  <2>1. \A i \in 1 .. N : t[i] = ChunkText(q[i]) /\ d[i] = q[i].data  OBVIOUS
  <2>2. t \in Seq(Seq(Octet)) /\ Len(t) = N
    <3>1. \A i \in 1 .. N : t[i] \in Seq(Octet)  BY <1>2, <2>1
    <3>2. DOMAIN t = 1 .. N  OBVIOUS
    <3> HIDE DEF Octet
    <3> QED  BY <1>2, <1>3
  <2>3. d \in Seq(Seq(Octet)) /\ Len(d) = N
    <3> HIDE DEF Octet
    <3> QED  BY <1>2, <1>3
  <2> QED  BY <2>1, <2>2, <2>3
<1> HIDE DEF t, d, N
<1>5. 0 \in S
  <2>1. SubSeq(t, 1, 0) = <<>> /\ SubSeq(d, 1, 0) = <<>>  BY <1>4, SubSeqEmpty
  <2>2. FlattenSeq(<<>>) = <<>>  BY DEF FlattenSeq
  <2>3. T(0) = <<>> /\ D(0) = <<>>  BY <2>1, <2>2
  <2>4. Feed(a, <<>>) = a /\ <<>> \in Seq(Octet) /\ Len(<<>>) = 0  BY FeedNothing
  <2> QED  BY <2>3, <2>4
<1>6. ASSUME NEW k \in Nat, k \in S
      PROVE  k + 1 \in S
  <2> SUFFICES ASSUME k + 1 <= N
               PROVE  /\ T(k + 1) \in Seq(Octet) /\ D(k + 1) \in Seq(Octet)
                      /\ Feed(a, T(k + 1)) = Run("SIZE", 0, 0, D(k + 1), Len(T(k + 1)))
    OBVIOUS
  <2> DEFINE c == q[k + 1]
             x == ChunkText(c)
             y == c.data
             p == T(k)
             o == D(k)
             u == Len(p)
  <2>1. p \in Seq(Octet) /\ o \in Seq(Octet) /\ Feed(a, p) = Run("SIZE", 0, 0, o, u)
    BY <1>3, <1>6
  <2>2. c \in CodedChunk /\ t[k + 1] = x /\ d[k + 1] = y
    <3>1. k + 1 \in 1 .. N  BY <1>3
    <3> QED  BY <1>1, <1>4, <3>1
  <2>3. u \in Nat  BY <2>1
  <2>4. T(k + 1) = p \o x
    <3> DEFINE V == Seq(Octet)
               z == SubSeq(t, 1, k)
    <3>1. t \in Seq(V) /\ k + 1 <= Len(t)  BY <1>4
    <3> HIDE DEF V, z
    <3>2. z \in Seq(V) /\ SubSeq(t, 1, k + 1) = Append(z, t[k + 1])
      BY <3>1, OneMore DEF z
    <3> USE DEF V
    <3>3. x \in Seq(Octet)
      <4> HIDE DEF c, o, u
      <4> QED  BY <2>1, <2>2, <2>3, FeedChunk
    <3> HIDE DEF x
    <3>4. FlattenSeq(Append(z, x)) = FlattenSeq(z) \o x
      BY <3>2, <3>3, FlattenAppend
    <3> QED  BY <2>2, <3>2, <3>4 DEF z
  <2>5. D(k + 1) = o \o y
    <3> DEFINE V == Seq(Octet)
               z == SubSeq(d, 1, k)
    <3>1. d \in Seq(V) /\ k + 1 <= Len(d)  BY <1>4
    <3> HIDE DEF V, z
    <3>2. z \in Seq(V) /\ SubSeq(d, 1, k + 1) = Append(z, d[k + 1])
      BY <3>1, OneMore DEF z
    <3> USE DEF V
    <3>3. y \in Seq(Octet)
      <4> HIDE DEF c, o, u
      <4> QED  BY <2>1, <2>2, <2>3, FeedChunk
    <3> HIDE DEF y
    <3>4. FlattenSeq(Append(z, y)) = FlattenSeq(z) \o y
      BY <3>2, <3>3, FlattenAppend
    <3> QED  BY <2>2, <3>2, <3>4 DEF z
  <2> HIDE DEF c, p, o, u, a, T, D
  <2>6. /\ x \in Seq(Octet) /\ y \in Seq(Octet)
        /\ Feed(Run("SIZE", 0, 0, o, u), x) = Run("SIZE", 0, 0, o \o y, u + Len(x))
    BY <2>1, <2>2, <2>3, FeedChunk
  <2> HIDE DEF x, y
  <2>7. Feed(a, p \o x) = Run("SIZE", 0, 0, o \o y, u + Len(x))
    BY <2>1, <2>6, FeedBoth
  <2>8. p \o x \in Seq(Octet) /\ Len(p \o x) = u + Len(x) /\ o \o y \in Seq(Octet)
    BY <2>1, <2>6, ConcatProperties DEF u
  <2> QED  BY <2>4, <2>5, <2>7, <2>8
<1>7. Nat \subseteq S
  <2> HIDE DEF S
  <2> QED  BY <1>5, <1>6, Induction
<1>8. SubSeq(t, 1, N) = t /\ SubSeq(d, 1, N) = d  BY <1>4, SubSeqFull
<1>9. N \in Nat /\ N <= N  BY <1>3
<1>10. /\ T(N) \in Seq(Octet) /\ D(N) \in Seq(Octet)
       /\ Feed(a, T(N)) = Run("SIZE", 0, 0, D(N), Len(T(N)))
  <2> HIDE DEF T, D, a
  <2> QED  BY <1>7, <1>9
<1> QED  BY <1>8, <1>10, Zenon DEF t, d, N

(* A body that is spelled in any way of the coding is decoded to its end, and *)
(* what is decoded is what was spelled.                                      *)
THEOREM FeedEncoded ==
  ASSUME NEW b \in CodedBody
  PROVE  /\ Encoded(b) \in Seq(Octet) /\ Content(b) \in Seq(Octet)
         /\ Feed(Fresh, Encoded(b))
              = Run("COMPLETE", 0, 0, Content(b), Len(Encoded(b)))
<1> DEFINE q == b.chunks
           x == FlattenSeq([i \in 1 .. Len(q) |-> ChunkText(q[i])])
           o == FlattenSeq([i \in 1 .. Len(q) |-> q[i].data])
           l == LineText(b.last)
           t == b.trailer
           a == Run("SIZE", 0, 0, <<>>, 0)
           j == Len(x)
           v == j + Len(l)
           w == v + Len(t)
<1>1. q \in Seq(CodedChunk) /\ b.last \in LastLine /\ t \in Trailer
  BY Zenon DEF CodedBody
<1>2. a = Fresh  BY DEF Run, Fresh
<1>3. Encoded(b) = ((x \o l) \o t) \o CRLF /\ Content(b) = o
  BY Zenon DEF Encoded, Content
<1>4. x \in Seq(Octet) /\ o \in Seq(Octet) /\ Feed(a, x) = Run("SIZE", 0, 0, o, j)
  <2> HIDE DEF q
  <2> QED  BY <1>1, FeedChunks
<1>5. t \in Seq(Octet)  BY <1>1, Zenon DEF Trailer
<1>6. CRLF \in Seq(Octet) /\ Len(CRLF) = 2 /\ "CR" \in Octet /\ "LF" \in Octet
  <2>1. "CR" \in Octet /\ "LF" \in Octet  BY Zenon DEF Octet
  <2> HIDE DEF Octet
  <2> QED  BY <2>1 DEF CRLF
<1> HIDE DEF q, x, o, a, j, v, w, t
<1>7. j \in Nat  BY <1>4 DEF j
<1>8. l \in Seq(Octet) /\ Feed(Run("SIZE", 0, 0, o, j), l) = Run("TRAILER_HEAD", 0, 0, o, v)
  <2> DEFINE k == b.last
             n == 0
  <2>1. k \in SizeLine /\ Denotes(k.size, n)  BY <1>1, Zenon DEF LastLine
  <2>2. n \in Nat /\ n = 0  OBVIOUS
  <2> HIDE DEF k, n
  <2>3. /\ LineText(k) \in Seq(Octet)
        /\ Feed(Run("SIZE", 0, 0, o, j), LineText(k))
             = Run(IF n = 0 THEN "TRAILER_HEAD" ELSE "DATA", n, 0, o, j + Len(LineText(k)))
    BY <1>7, <2>1, <2>2, FeedSizeLine
  <2> QED  BY <2>2, <2>3 DEF k, v
<1> HIDE DEF l
<1>9. v \in Nat /\ w \in Nat  BY <1>5, <1>7, <1>8 DEF v, w
<1>10. Feed(Run("TRAILER_HEAD", 0, 0, o, v), t) = Run("TRAILER_HEAD", 0, 0, o, w)
  BY <1>1, <1>9, FeedTrailer DEF w
<1>11. /\ x \o l \in Seq(Octet) /\ Len(x \o l) = v
       /\ Feed(a, x \o l) = Run("TRAILER_HEAD", 0, 0, o, v)
  BY <1>4, <1>8, FeedBoth, ConcatProperties DEF j, v
<1> DEFINE y == x \o l
<1> HIDE DEF y
<1>12. /\ y \o t \in Seq(Octet) /\ Len(y \o t) = w
       /\ Feed(a, y \o t) = Run("TRAILER_HEAD", 0, 0, o, w)
  <2>1. y \in Seq(Octet) /\ Len(y) = v /\ Feed(a, y) = Run("TRAILER_HEAD", 0, 0, o, v)
    BY <1>11 DEF y
  <2>2. Feed(a, y \o t) = Feed(Feed(a, y), t)  BY <1>5, <2>1, FeedBoth
  <2>3. y \o t \in Seq(Octet) /\ Len(y \o t) = Len(y) + Len(t)
    BY <1>5, <2>1, JoinedBytes
  <2> QED  BY <1>10, <2>1, <2>2, <2>3 DEF w
<1> DEFINE z == y \o t
           r == CRLF
<1> HIDE DEF z, r
<1>13. z \o r \in Seq(Octet) /\ Len(z \o r) = (w + 1) + 1
       /\ Feed(a, z \o r) = Feed(Run("TRAILER_HEAD", 0, 0, o, w), r)
  <2>1. z \in Seq(Octet) /\ Len(z) = w /\ Feed(a, z) = Run("TRAILER_HEAD", 0, 0, o, w)
    BY <1>12 DEF z
  <2>2. r \in Seq(Octet) /\ Len(r) = 2  BY <1>6 DEF r
  <2>3. z \o r \in Seq(Octet) /\ Len(z \o r) = Len(z) + Len(r)
    BY <2>1, <2>2, JoinedBytes
  <2>4. Feed(a, z \o r) = Feed(Feed(a, z), r)  BY <2>1, <2>2, FeedBoth
  <2> QED  BY <1>9, <2>1, <2>2, <2>3, <2>4
<1>14. Feed(Run("TRAILER_HEAD", 0, 0, o, w), r)
         = Step(Step(Run("TRAILER_HEAD", 0, 0, o, w), "CR"), "LF")
  <2> DEFINE c == Run("TRAILER_HEAD", 0, 0, o, w)
  <2> HIDE DEF c
  <2>1. Feed(c, CRLF) = Step(Step(c, "CR"), "LF")  BY <1>6, FeedTwo DEF CRLF
  <2> QED  BY <2>1 DEF c, r
<1>15. Step(Step(Run("TRAILER_HEAD", 0, 0, o, w), "CR"), "LF")
         = Run("COMPLETE", 0, 0, o, (w + 1) + 1)
  <2> DEFINE k == w + 1
  <2> HIDE DEF k
  <2>1. Step(Run("TRAILER_HEAD", 0, 0, o, w), "CR") = Run("TRAILER_HEAD", 0, 0, o, w + 1)
    BY TrailerThenCR
  <2>2. Step(Run("TRAILER_HEAD", 0, 0, o, k), "LF") = Run("COMPLETE", 0, 0, o, k + 1)
    BY TrailerThenLF
  <2> QED  BY <2>1, <2>2 DEF k
<1>16. Encoded(b) = z \o r  BY <1>3 DEF z, y, r
<1>17. Feed(Fresh, z \o r) = Run("COMPLETE", 0, 0, o, Len(z \o r))
  BY <1>2, <1>13, <1>14, <1>15
<1> QED  BY <1>3, <1>4, <1>13, <1>16, <1>17
-------------------------------------------------------------------------------
(* The automaton, started again at what a has decoded and taken before.       *)
Onward(a, g) == Run(g.st, g.left, g.digits, a.out \o g.out, a.used + g.used)
Anew(a) == Run(a.st, a.left, a.digits, <<>>, 0)

LEMMA OnwardIs ==
  ASSUME NEW a, NEW st, NEW l, NEW d, NEW o, NEW u
  PROVE  Onward(a, Run(st, l, d, o, u)) = Run(st, l, d, a.out \o o, a.used + u)
BY DEF Onward, Run

(* What it has decoded and taken does not matter to where it goes.            *)
LEMMA OnwardStep ==
  ASSUME NEW a, Sound(a), NEW g, Sound(g), NEW b \in Octet
  PROVE  Step(Onward(a, g), b) = Onward(a, Step(g, b))
<1> DEFINE p == a.out
           c == a.used
           l == g.left
           d == g.digits
           o == g.out
           u == g.used
           q == p \o o
           v == c + u
<1>1. /\ g = Run(g.st, l, d, o, u) /\ p \in Seq(Octet) /\ o \in Seq(Octet)
      /\ c \in Nat /\ u \in Nat
  BY DEF Sound, Automaton, Run
<1>2. \A st, x, y : Onward(a, Run(st, x, y, o, u + 1)) = Run(st, x, y, q, v + 1)
  <2> TAKE st, x, y
  <2>1. Onward(a, Run(st, x, y, o, u + 1)) = Run(st, x, y, p \o o, c + (u + 1))
    BY OnwardIs
  <2>2. c + (u + 1) = v + 1  BY <1>1
  <2> QED  BY <2>1, <2>2
<1>3. Onward(a, g) = Run(g.st, l, d, q, v)
  <2> HIDE DEF l, d, o, u
  <2> QED  BY <1>1, OnwardIs
<1>4. Onward(a, Run(g.st, l, d, o, u)) = Run(g.st, l, d, q, v)  BY OnwardIs
<1>5. p \o Append(o, b) = Append(q, b)
  <2> HIDE DEF p, o
  <2> QED  BY <1>1, AppendBehind
<1>6. \A st, x, y : Onward(a, Run(st, x, y, Append(o, b), u + 1)) = Run(st, x, y, Append(q, b), v + 1)
  <2> TAKE st, x, y
  <2> DEFINE e == Append(o, b)
  <2> HIDE DEF e
  <2>1. Onward(a, Run(st, x, y, e, u + 1)) = Run(st, x, y, p \o e, c + (u + 1))
    BY OnwardIs
  <2>2. c + (u + 1) = v + 1  BY <1>1
  <2> QED  BY <1>5, <2>1, <2>2 DEF e
<1> DEFINE S(o1, u1) == Step(Run(g.st, l, d, o1, u1), b)
<1>7. ASSUME NEW o1, NEW u1
      PROVE  /\ g.st = "DATA" =>
                   S(o1, u1) = Run(IF l = 1 THEN "DATA_CR" ELSE "DATA", l - 1, d, Append(o1, b), u1 + 1)
             /\ g.st \in Final => S(o1, u1) = Run(g.st, l, d, o1, u1)
             /\ g.st \notin Final \cup {"DATA"} =>
                   S(o1, u1) = Run(S(<<>>, 0).st, S(<<>>, 0).left, S(<<>>, 0).digits, o1, u1 + 1)
  <2> HIDE DEF l, d, p, c, o, u
  <2>1. CASE g.st = "DATA"
    BY <2>1 DEF Run, Step, InData, Decoded, Final
  <2>2. CASE g.st \in Final
    BY <2>2 DEF Run, Step, Final
  <2>3. CASE g.st \in {"EXT", "EXPECT_LF", "DATA_CR", "DATA_LF"}
    BY <2>3 DEF Run, Step, Final, InExt, Expect, Go, Reject
  <2>4. CASE g.st \in {"TRAILER_HEAD", "TRAILER_MIDDLE"}
    BY <2>4 DEF Run, Step, Final, Go
  <2>5. CASE g.st = "SIZE"
    BY <2>5 DEF Run, Step, Final, InSize, InExt, Go, Reject
  <2>6. g.st \in LineStates \cup Final  BY DEF Sound, Automaton, Final
  <2> QED  BY <2>1, <2>2, <2>3, <2>4, <2>5, <2>6 DEF LineStates
<1>8. Step(Onward(a, g), b) = S(q, v) /\ Step(g, b) = S(o, u)  BY <1>1, <1>3
<1> HIDE DEF S, q, v, o, u, l, d, p, c
<1>9. CASE g.st = "DATA"
  BY <1>6, <1>7, <1>8, <1>9
<1>10. CASE g.st \in Final
  BY <1>4, <1>7, <1>8, <1>10
<1>11. CASE g.st \notin Final \cup {"DATA"}
  BY <1>2, <1>7, <1>8, <1>11
<1> QED  BY <1>9, <1>10, <1>11

(* The automaton may be started again at any point of what it is fed.         *)
THEOREM FeedAnew ==
  ASSUME NEW a, Sound(a), NEW s \in Seq(Octet)
  PROVE  Feed(a, s) = Onward(a, Feed(Anew(a), s))
<1> DEFINE c == Anew(a)
           F(k) == Feed(a, SubSeq(s, 1, k))
           G(k) == Feed(c, SubSeq(s, 1, k))
           S == {k \in Nat : k <= Len(s) => F(k) = Onward(a, G(k))}
<1>1. Sound(c) /\ a.out \in Seq(Octet) /\ a.used \in Nat /\ a = Onward(a, c)
  <2>1. /\ a = Run(a.st, a.left, a.digits, a.out, a.used)
        /\ a.out \in Seq(Octet) /\ a.used \in Nat
        /\ a.st \in LineStates \cup {"COMPLETE", "ERROR"} /\ a.left \in Nat
        /\ a.digits \in 0 .. MaxDigits /\ (a.st = "DATA" => a.left > 0)
    BY DEF Sound, Automaton, Run
  <2>2. Sound(c)
    <3> DEFINE e == <<>>
    <3>1. e \in Seq(Octet) /\ 0 \in Nat  OBVIOUS
    <3>2. c = Run(a.st, a.left, a.digits, e, 0)  BY DEF Anew
    <3> HIDE DEF c, e
    <3>3. c \in Automaton  BY <2>1, <3>1, <3>2 DEF Automaton, Run
    <3>4. c.st = a.st /\ c.left = a.left  BY <3>2 DEF Run
    <3> QED  BY <2>1, <3>3, <3>4 DEF Sound
  <2> DEFINE x == a.out \o <<>>
             y == a.used + 0
  <2>3. x = a.out /\ y = a.used  BY <2>1
  <2>4. Onward(a, c) = Run(a.st, a.left, a.digits, x, y)
    <3>1. /\ c.st = a.st /\ c.left = a.left /\ c.digits = a.digits
          /\ c.out = <<>> /\ c.used = 0
      BY DEF Anew, Run
    <3>2. Onward(a, c) = Run(c.st, c.left, c.digits, a.out \o c.out, a.used + c.used)
      BY DEF Onward
    <3> HIDE DEF c
    <3> QED  BY <3>1, <3>2
  <2> HIDE DEF c, x, y
  <2>5. Onward(a, c) = a  BY <2>1, <2>3, <2>4
  <2> QED  BY <2>1, <2>2, <2>5
<1> HIDE DEF c
<1>2. 0 \in S
  <2>1. SubSeq(s, 1, 0) = <<>>  OBVIOUS
  <2> QED  BY <1>1, <2>1, FeedNothing
<1>3. ASSUME NEW k \in Nat, k \in S
      PROVE  k + 1 \in S
  <2> SUFFICES ASSUME k + 1 <= Len(s)
               PROVE  F(k + 1) = Onward(a, G(k + 1))
    OBVIOUS
  <2>1. k \in 0 .. Len(s) - 1 /\ s[k + 1] \in Octet  OBVIOUS
  <2>2. F(k) = Onward(a, G(k))  BY <1>3, <2>1
  <2>3. F(k + 1) = Step(F(k), s[k + 1]) /\ G(k + 1) = Step(G(k), s[k + 1])
    BY <2>1, FeedStep
  <2>4. Sound(G(k))
    <3> DEFINE t == SubSeq(s, 1, k)
    <3>1. t \in Seq(Octet)  BY <2>1
    <3> HIDE DEF t
    <3>2. Sound(Feed(c, t))  BY <1>1, <3>1, FeedType
    <3> QED  BY <3>2 DEF t
  <2> HIDE DEF F, G
  <2> QED  BY <2>1, <2>2, <2>3, <2>4, OnwardStep
<1>4. Nat \subseteq S
  <2> HIDE DEF S
  <2> QED  BY <1>2, <1>3, Induction
<1>5. F(Len(s)) = Onward(a, G(Len(s)))
  <2>1. Len(s) \in Nat /\ Len(s) <= Len(s)  OBVIOUS
  <2> QED  BY <1>4, <2>1
<1>6. SubSeq(s, 1, Len(s)) = s  BY SubSeqFull
<1> QED  BY <1>5, <1>6 DEF c
===============================================================================
