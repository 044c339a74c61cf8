---------------------------- MODULE ConnectionRead ----------------------------
(***************************************************************************)
(* Connection::read (src/src/connection.h), the template that drives any   *)
(* message with consumeHeaderSome and consumeBodySome from the bytes of a   *)
(* socket.  As in the code the message type is a parameter: Msg is the set  *)
(* of states of a message object and the two operators are its methods.    *)
(*                                                                         *)
(* All coroutines of a connection run on one single-threaded io_context:   *)
(* between two co_awaits a coroutine is not interrupted.  The loop body is  *)
(* cut into steps here, and a caller that is between two of its steps       *)
(* excludes the others (NobodyRuns).                                        *)
(***************************************************************************)
EXTENDS StaticBuffer

CONSTANTS
  Caller,                   \* the coroutines that call read on the connection
  Msg,                      \* states of a message object
  NewMsg,                   \* states in which a caller hands one to read
  ConsumeHeaderSome(_, _),  \* (message, data) -> [err, done, n, msg]
  ConsumeBodySome(_, _)

(* What can stand in readBuffer_: the data a message is given. *)
Chunk == UNION {[1 .. k -> Byte] : k \in 0 .. Cap}

Outcome(k) == [err : BOOLEAN, done : BOOLEAN, n : 0 .. k, msg : Msg]

(* What read relies on and concept MessageLike does not say: a message      *)
(* reports no more bytes than it was given.                                 *)
ASSUME NewMsgAssumption == NewMsg \subseteq Msg
ASSUME ConsumeContract ==
  \A m \in Msg : \A s \in Chunk :
    /\ ConsumeHeaderSome(m, s) \in Outcome(Len(s))
    /\ ConsumeBodySome(m, s) \in Outcome(Len(s))

VARIABLES
  readState_,   \* Connection::readState_
  readBuffer_,  \* Connection::readBuffer_
  pc,           \* where each caller stands in read
  msg,          \* the message object each caller passed
  ret,          \* what the caller's last read returned
  inbox,        \* socket: bytes that arrived and were not read
  stream,       \* socket: "open", "fin" (end of file) or "reset"
  sent,         \* history: all bytes that arrived
  taken,        \* history: all bytes consumed by messages
  delivered     \* history: the messages read completed

callVars == <<pc, msg, ret>>
readVars == <<readState_, readBuffer_, callVars, taken, delivered>>
sockVars == <<inbox, stream, sent>>
vars == <<readVars, sockVars>>

Init ==
  /\ readState_ = "START"
  /\ readBuffer_ = NewBuffer
  /\ pc = [c \in Caller |-> "idle"]
  /\ msg \in [Caller -> NewMsg]
  /\ ret = [c \in Caller |-> "none"]
  /\ inbox = <<>> /\ stream = "open" /\ sent = <<>>
  /\ taken = <<>> /\ delivered = <<>>

(* "loop": at the head of a loop; "body": behind the header block of an     *)
(* iteration that completed the header; "await": in async_read_some.        *)
Running(c) == pc[c] \in {"loop", "body"}
Inside(c) == pc[c] # "idle"
NobodyRuns == \A c \in Caller : ~Running(c)

Return(c, r) ==
  /\ pc' = [pc EXCEPT ![c] = "idle"]
  /\ ret' = [ret EXCEPT ![c] = r]

-------------------------------------------------------------------------------
(* The socket (asio and TCP, external). *)

Arrive(s) ==
  /\ stream = "open"
  /\ inbox' = inbox \o s
  /\ sent' = sent \o s
  /\ UNCHANGED <<readVars, stream>>

PeerEnds ==
  /\ stream = "open"
  /\ stream' \in {"fin", "reset"}
  /\ UNCHANGED <<readVars, inbox, sent>>

-------------------------------------------------------------------------------
(* Connection::read *)

NoGuard == TRUE \* mutant: no test of readState_
Admits == readState_ = "START"

(* A caller enters, or is turned away with INVALID_STATE, which leaves       *)
(* everything else alone.                                                   *)
Call(c, m) ==
  /\ NobodyRuns /\ ~Inside(c)
  /\ msg' = [msg EXCEPT ![c] = m]
  /\ IF Admits
     THEN /\ readState_' = "READ_HEADER"
          /\ pc' = [pc EXCEPT ![c] = "loop"]
          /\ ret' = [ret EXCEPT ![c] = "none"]
     ELSE /\ Return(c, "INVALID_STATE")
          /\ UNCHANGED readState_
  /\ UNCHANGED <<readBuffer_, taken, delivered, sockVars>>

NoTestForBytes == TRUE \* mutant: reads whether or not bytes are buffered
NeedsBytes == IsEmpty(readBuffer_)

(* Outer loop: with nothing buffered the caller suspends in the socket. *)
Suspend(c) ==
  /\ pc[c] = "loop" /\ NeedsBytes
  /\ pc' = [pc EXCEPT ![c] = "await"]
  /\ UNCHANGED <<readState_, readBuffer_, msg, ret, taken, delivered, sockVars>>

(* The buffer after the socket wrote n bytes to writableSpan(). *)
SpanReceived(n) == \* mutant: commits all it offered, not what was read
  Commit(Filled(readBuffer_, SubSeq(inbox, 1, n)), Room(readBuffer_))
Received(n) == Commit(Filled(readBuffer_, SubSeq(inbox, 1, n)), n)

(* async_read_some completes with n bytes, any n the socket likes. *)
Receive(c, n) ==
  /\ NobodyRuns /\ pc[c] = "await" /\ stream # "reset"
  /\ n \in 1 .. Len(inbox) /\ n <= Room(readBuffer_)
  /\ readBuffer_' = Received(n)
  /\ inbox' = SubSeq(inbox, n + 1, Len(inbox))
  /\ pc' = [pc EXCEPT ![c] = "loop"]
  /\ UNCHANGED <<readState_, msg, ret, taken, delivered, stream, sent>>

EndsAtEofOnly == stream = "fin" /\ inbox = <<>> \* mutant: errors go unnoticed
Ends == stream = "reset" \/ (stream = "fin" /\ inbox = <<>>)

(* async_read_some completes with n = 0: end of file, or an error, which    *)
(* also comes with no bytes.  The test of n goes first, so both end as      *)
(* CONNECTION_ENDED, and readState_ stays where it was.                      *)
ReadFails(c) ==
  /\ NobodyRuns /\ pc[c] = "await"
  /\ Ends
  /\ Return(c, "CONNECTION_ENDED")
  /\ UNCHANGED <<readState_, readBuffer_, msg, taken, delivered, sockVars>>

(* What both blocks of the inner loop do with the outcome r of a consume    *)
(* call that reported no error.                                             *)
Take(c, r) ==
  /\ msg' = [msg EXCEPT ![c] = r.msg]
  /\ taken' = taken \o SubSeq(ReadableSpan(readBuffer_), 1, r.n)
  /\ readBuffer_' = Consume(readBuffer_, r.n)

HeaderAlwaysDone(r) == TRUE \* mutant: the outcome's complete is ignored
HeaderDone(r) == r.done

HeaderStep(c) ==
  LET r == ConsumeHeaderSome(msg[c], ReadableSpan(readBuffer_)) IN
  /\ pc[c] = "loop" /\ ~IsEmpty(readBuffer_) /\ readState_ = "READ_HEADER"
  /\ ~r.err
  /\ Take(c, r)
  /\ readState_' = IF HeaderDone(r) THEN "READ_BODY" ELSE "READ_HEADER"
  /\ pc' = [pc EXCEPT ![c] = IF HeaderDone(r) THEN "body" ELSE "loop"]
  /\ UNCHANGED <<ret, delivered, sockVars>>

(* The iteration that completed the header goes on here even when the       *)
(* buffer is empty by now.                                                  *)
AtBody(c) ==
  /\ readState_ = "READ_BODY"
  /\ pc[c] = "body" \/ (pc[c] = "loop" /\ ~IsEmpty(readBuffer_))

BodyStep(c) ==
  LET r == ConsumeBodySome(msg[c], ReadableSpan(readBuffer_)) IN
  /\ AtBody(c)
  /\ ~r.err
  /\ Take(c, r)
  /\ IF r.done
     THEN /\ readState_' = "START"
          /\ Return(c, "OK")
          /\ delivered' = Append(delivered, r.msg)
     ELSE /\ pc' = [pc EXCEPT ![c] = "loop"]
          /\ UNCHANGED <<readState_, ret, delivered>>
  /\ UNCHANGED sockVars

(* The message refuses its bytes: read returns the error, consumes nothing  *)
(* and leaves readState_ where it was; the message keeps what it did to      *)
(* itself.                                                                  *)
MessageFails(c) ==
  \E r \in {ConsumeHeaderSome(msg[c], ReadableSpan(readBuffer_)),
            ConsumeBodySome(msg[c], ReadableSpan(readBuffer_))} :
    /\ \/ /\ pc[c] = "loop" /\ ~IsEmpty(readBuffer_) /\ readState_ = "READ_HEADER"
          /\ r = ConsumeHeaderSome(msg[c], ReadableSpan(readBuffer_))
       \/ AtBody(c) /\ r = ConsumeBodySome(msg[c], ReadableSpan(readBuffer_))
    /\ r.err
    /\ msg' = [msg EXCEPT ![c] = r.msg]
    /\ Return(c, "INVALID_MESSAGE")
    /\ UNCHANGED <<readState_, readBuffer_, taken, delivered, sockVars>>

Resumed(c) == Suspend(c) \/ HeaderStep(c) \/ BodyStep(c) \/ MessageFails(c)
Completes(c) == (\E n \in 1 .. Cap : Receive(c, n)) \/ ReadFails(c)

Reading ==
  \E c \in Caller :
    \/ \E m \in NewMsg : Call(c, m)
    \/ Resumed(c)
    \/ Completes(c)

Next ==
  \/ Reading
  \/ \E s \in Chunk : Arrive(s)
  \/ PeerEnds

Spec == Init /\ [][Next]_vars

-------------------------------------------------------------------------------
TypeOK ==
  /\ readState_ \in {"START", "READ_HEADER", "READ_BODY"}
  /\ readBuffer_ \in Buffers
  /\ pc \in [Caller -> {"idle", "loop", "body", "await"}]
  /\ msg \in [Caller -> Msg]
  /\ ret \in [Caller -> {"none", "OK", "INVALID_STATE", "INVALID_MESSAGE",
                         "CONNECTION_ENDED"}]
  /\ stream \in {"open", "fin", "reset"}
  /\ inbox \in Seq(Byte) /\ sent \in Seq(Byte) /\ taken \in Seq(Byte)
  /\ delivered \in Seq(Msg)

(* No byte of the stream is lost, repeated or reordered between the socket  *)
(* and the messages: what arrived is what messages consumed, then what      *)
(* readBuffer_ holds, then what the socket holds.  This is the buffer        *)
(* arithmetic of read, commit and consume together.                         *)
Conservation == sent = taken \o ReadableSpan(readBuffer_) \o inbox

(* The readState_ guard lets one coroutine in at a time, whatever the       *)
(* others call while it is suspended.                                       *)
OneReader == \A c, d \in Caller : Inside(c) /\ Inside(d) => c = d

(* A caller inside finds the state its position implies; with START nobody  *)
(* is inside.                                                               *)
StateFollowsReader ==
  /\ readState_ = "START" => \A c \in Caller : ~Inside(c)
  /\ \A c \in Caller : pc[c] = "body" => readState_ = "READ_BODY"

(* The buffer is empty whenever a coroutine is suspended in the socket, so   *)
(* writableSpan() is the whole array and never the empty span, on which      *)
(* async_read_some would return 0 and look like the end of the connection.   *)
WholeBufferOffered ==
  \A c \in Caller : pc[c] = "await" => Room(readBuffer_) = Cap

(* What makes the above inductive: an empty buffer has its cursors at 0, and *)
(* a suspended reader left the buffer empty.                                 *)
ResetWhenEmpty == IsEmpty(readBuffer_) => readBuffer_.wr = 0
AwaitsWhenEmpty == \A c \in Caller : pc[c] = "await" => IsEmpty(readBuffer_)

IInv ==
  /\ TypeOK
  /\ Conservation
  /\ OneReader
  /\ StateFollowsReader
  /\ ResetWhenEmpty
  /\ AwaitsWhenEmpty

(* A read that failed leaves the connection unusable for good: the failed    *)
(* state persists, later calls are all turned away and no further byte is    *)
(* read from the socket.                                                    *)
Failed == readState_ # "START" /\ \A c \in Caller : ~Inside(c)
FailureIsFinal ==
  [][Failed => Failed' /\ UNCHANGED <<readState_, readBuffer_, taken, delivered>>]_vars

(* The stream contract of read, see ByteIntake. *)
Intake == INSTANCE ByteIntake WITH held <- ReadableSpan(readBuffer_)
IntakeSpec == Intake!Spec
===============================================================================
