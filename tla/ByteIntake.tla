------------------------------ MODULE ByteIntake ------------------------------
(***************************************************************************)
(* What Connection::read promises about the bytes of a stream, whatever    *)
(* buffer sits in between: bytes that arrived are held back in order, are  *)
(* fetched from the socket only when none is held back, and are handed on  *)
(* once each, in order.                                                    *)
(***************************************************************************)
EXTENDS Integers, Sequences

VARIABLES
  inbox,  \* bytes that arrived and were not fetched
  held,   \* bytes fetched and not handed to a message
  taken   \* bytes handed to messages

intakeVars == <<inbox, held, taken>>

Init == inbox = <<>> /\ held = <<>> /\ taken = <<>>

(* Bytes arrive behind those that wait. *)
Arrive ==
  /\ Len(inbox') >= Len(inbox)
  /\ SubSeq(inbox', 1, Len(inbox)) = inbox
  /\ UNCHANGED <<held, taken>>

Fetch ==
  /\ held = <<>>
  /\ \E n \in 1 .. Len(inbox) :
       /\ held' = SubSeq(inbox, 1, n)
       /\ inbox' = SubSeq(inbox, n + 1, Len(inbox))
  /\ UNCHANGED taken

HandOver ==
  /\ \E n \in 1 .. Len(held) :
       /\ taken' = taken \o SubSeq(held, 1, n)
       /\ held' = SubSeq(held, n + 1, Len(held))
  /\ UNCHANGED inbox

Next == Arrive \/ Fetch \/ HandOver

Spec == Init /\ [][Next]_intakeVars
===============================================================================
