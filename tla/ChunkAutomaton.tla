---------------------------- MODULE ChunkAutomaton ----------------------------
(***************************************************************************)
(* The chunked transfer coding as an automaton that is fed one byte at a    *)
(* time: the states of phr_decode_chunked (src/lib/picohttpparser) without  *)
(* its buffer, its loops and its returns in the middle of a line.  It is    *)
(* the abstract specification of ChunkDecoder, and what ChunkedBody uses    *)
(* for a whole call.                                                        *)
(*                                                                         *)
(* A byte stands for its class: a digit of a chunk size (0, 1 or 2), CR,    *)
(* LF, ";" for what may follow a size, and any other.                       *)
(***************************************************************************)
EXTENDS Integers, Sequences, SequencesExt

CONSTANT MaxDigits  \* sizeof(size_t) * 2 = 16: digits of a chunk size

ASSUME MaxDigitsAssumption == MaxDigits \in Nat \ {0}

Octet == {"0", "1", "2", "CR", "LF", ";", "x"}

Hex == [d \in {"0", "1", "2"} |-> CASE d = "0" -> 0 [] d = "1" -> 1 [] d = "2" -> 2]
IsHex(b) == b \in DOMAIN Hex

(* What may end the digits: the caller's line goes on with an extension or   *)
(* its end.                                                                 *)
EndsSize(b) == b \in {";", "CR", "LF"}

LineStates == {"SIZE", "EXT", "EXPECT_LF", "DATA", "DATA_CR", "DATA_LF",
               "TRAILER_HEAD", "TRAILER_MIDDLE"}

(* The states of the automaton; used: the bytes the automaton has taken, out: those it decoded. *)
Automaton ==
  [st : LineStates \cup {"COMPLETE", "ERROR"}, left : Nat, digits : 0 .. MaxDigits,
   out : Seq(Octet), used : Nat]
Fresh == [st |-> "SIZE", left |-> 0, digits |-> 0, out |-> <<>>, used |-> 0]

Go(a, st) == [a EXCEPT !.st = st]
Reject(a) == Go(a, "ERROR")

InExt(a, b) ==
  CASE b = "CR" -> Go(a, "EXPECT_LF") [] b = "LF" -> Reject(a) [] OTHER -> a

InSize(a, b) ==
  IF IsHex(b)
  THEN IF a.digits = MaxDigits THEN Reject(a)
       ELSE [a EXCEPT !.left = 16 * a.left + Hex[b], !.digits = a.digits + 1]
  ELSE IF a.digits = 0 \/ ~EndsSize(b) THEN Reject(a)
       ELSE InExt([a EXCEPT !.st = "EXT", !.digits = 0], b)

KeepsNothing(out, b) == out \* mutant: the data is not written
Decoded(out, b) == Append(out, b)

InData(a, b) ==
  [a EXCEPT !.left = a.left - 1, !.out = Decoded(a.out, b),
            !.st = IF a.left = 1 THEN "DATA_CR" ELSE "DATA"]

Expect(a, b, c, st) == IF b = c THEN Go(a, st) ELSE Reject(a)

(* consume_trailer = 1 in Request: after the last chunk come trailer lines   *)
(* and an empty line, in which any number of CR may stand before the LF.     *)
Step(a, b) ==
  LET n == [a EXCEPT !.used = a.used + 1] IN
  CASE a.st = "SIZE" -> InSize(n, b)
    [] a.st = "EXT" -> InExt(n, b)
    [] a.st = "EXPECT_LF" ->
         Expect(n, b, "LF", IF a.left = 0 THEN "TRAILER_HEAD" ELSE "DATA")
    [] a.st = "DATA" -> InData(n, b)
    [] a.st = "DATA_CR" -> Expect(n, b, "CR", "DATA_LF")
    [] a.st = "DATA_LF" -> Expect(n, b, "LF", "SIZE")
    [] a.st = "TRAILER_HEAD" ->
         CASE b = "CR" -> n [] b = "LF" -> Go(n, "COMPLETE")
           [] OTHER -> Go(n, "TRAILER_MIDDLE")
    [] a.st = "TRAILER_MIDDLE" ->
         IF b = "LF" THEN Go(n, "TRAILER_HEAD") ELSE n
    [] OTHER -> a

(* The state that the members of s, one by one, lead to from a. *)
After(step(_, _), a, s) ==
  LET run[n \in 0 .. Len(s)] == IF n = 0 THEN a ELSE step(run[n - 1], s[n])
  IN run[Len(s)]

Feed(a, s) == After(Step, a, s)
===============================================================================
