---------------------------- MODULE ConnectionWrite ----------------------------
(***************************************************************************)
(* Connection::write (src/src/connection.h), the template that drives any   *)
(* message with produceHeaderSome and produceBodySome into a socket.        *)
(*                                                                         *)
(* write returns to START when the message is produced, before its last     *)
(* bytes are flushed.  The guard at its top therefore admits a second       *)
(* caller while the first is still suspended in its last flush.  The two     *)
(* then flush the same buffer, and bytes are sent twice or dropped; the      *)
(* promises about the wire are stated for the writes before such an overlap  *)
(* and for those after it.                                                  *)
(***************************************************************************)
EXTENDS StaticBuffer

CONSTANTS
  Caller,                   \* the coroutines that call write on the connection
  Msg,                      \* states of a message object
  NewMsg,                   \* states in which a caller hands one to write
  ProduceHeaderSome(_, _),  \* (message, room) -> [err, done, bytes, msg]
  ProduceBodySome(_, _)

(* What write relies on: a message fits its bytes into the room it is given. *)
Production(k) ==
  [err : BOOLEAN, done : BOOLEAN, msg : Msg,
   bytes : UNION {[1 .. n -> Byte] : n \in 0 .. k}]

ASSUME NewMsgAssumption == NewMsg \subseteq Msg
ASSUME ProduceContract ==
  \A m \in Msg : \A k \in 0 .. Cap :
    /\ ProduceHeaderSome(m, k) \in Production(k)
    /\ ProduceBodySome(m, k) \in Production(k)

VARIABLES
  writeState_,   \* Connection::writeState_
  writeBuffer_,  \* Connection::writeBuffer_
  pc,            \* where each caller stands in write
  msg,           \* the message object each caller passed
  doneWrite,     \* write's local of that name
  ret,           \* what the caller's last write returned
  op,            \* the span given to async_write_some, then what it reported
  pending,       \* socket: the callers whose operation waits, oldest first
  peer,          \* socket: "open" or "gone"
  wire,          \* socket: all bytes taken by the socket
  produced,      \* history: all bytes committed to writeBuffer_
  overlapped,    \* history: a write was admitted while another was inside, and
                 \* none since then that was alone
  aloneSince     \* history: how much had been sent, and how much produced and no
                 \* longer in writeBuffer_, when the last overlap was over

callVars == <<pc, msg, doneWrite, ret, op>>
sockVars == <<pending, peer, wire>>
history == <<overlapped, aloneSince>>
vars == <<writeState_, writeBuffer_, callVars, sockVars, produced, history>>

Init ==
  /\ writeState_ = "START"
  /\ writeBuffer_ = NewBuffer
  /\ pc = [c \in Caller |-> "idle"]
  /\ msg \in [Caller -> NewMsg]
  /\ doneWrite = [c \in Caller |-> FALSE]
  /\ ret = [c \in Caller |-> "none"]
  /\ op = [c \in Caller |-> [from |-> 0, n |-> 0]]
  /\ pending = <<>> /\ peer = "open" /\ wire = <<>>
  /\ produced = <<>>
  /\ overlapped = FALSE /\ aloneSince = [sent |-> 0, put |-> 0]

(* "fill": at the head of the fill loop; "body": behind the header block of  *)
(* an iteration that completed the header; "flush": at the head of the flush *)
(* loop; "send": in async_write_some; "sent": the operation is done and the  *)
(* coroutine is not resumed yet.                                            *)
Running(c) == pc[c] \in {"fill", "body", "flush"}
Inside(c) == pc[c] # "idle"
NobodyRuns == \A c \in Caller : ~Running(c)

Return(c, r) ==
  /\ pc' = [pc EXCEPT ![c] = "idle"]
  /\ ret' = [ret EXCEPT ![c] = r]

-------------------------------------------------------------------------------
NoGuard == TRUE \* mutant: no test of writeState_
Admits == writeState_ = "START"

(* A write that is admitted while nobody is inside ends an overlap.         *)
Notes ==
  LET alone == \A d \in Caller : ~Inside(d) IN
  /\ overlapped' = ~alone
  /\ aloneSince' = IF alone /\ overlapped
                   THEN [sent |-> Len(wire), put |-> Len(produced) - Size(writeBuffer_)]
                   ELSE aloneSince

Call(c, m) ==
  /\ NobodyRuns /\ ~Inside(c)
  /\ msg' = [msg EXCEPT ![c] = m]
  /\ doneWrite' = [doneWrite EXCEPT ![c] = FALSE]
  /\ IF Admits
     THEN /\ writeState_' = "WRITE_HEADER"
          /\ pc' = [pc EXCEPT ![c] = "fill"]
          /\ ret' = [ret EXCEPT ![c] = "none"]
          /\ Notes
     ELSE /\ Return(c, "INVALID_STATE")
          /\ UNCHANGED <<writeState_, history>>
  /\ UNCHANGED <<writeBuffer_, op, sockVars, produced>>

(* What both blocks of the fill loop do with the outcome r of a produce call *)
(* that reported no error.                                                  *)
Put(c, r) ==
  /\ msg' = [msg EXCEPT ![c] = r.msg]
  /\ produced' = produced \o r.bytes
  /\ writeBuffer_' = Commit(Filled(writeBuffer_, r.bytes), Len(r.bytes))

FillHeader(c) ==
  LET r == ProduceHeaderSome(msg[c], Room(writeBuffer_)) IN
  /\ pc[c] = "fill" /\ Room(writeBuffer_) > 0 /\ writeState_ = "WRITE_HEADER"
  /\ ~r.err
  /\ Put(c, r)
  /\ writeState_' = IF r.done THEN "WRITE_BODY" ELSE "WRITE_HEADER"
  /\ pc' = [pc EXCEPT ![c] = IF r.done THEN "body" ELSE "fill"]
  /\ UNCHANGED <<doneWrite, ret, op, sockVars, history>>

(* The iteration that completed the header goes on here even when the        *)
(* buffer is full by now.                                                   *)
AtBody(c) ==
  /\ writeState_ = "WRITE_BODY"
  /\ pc[c] = "body" \/ (pc[c] = "fill" /\ Room(writeBuffer_) > 0)

(* The message is complete: the connection is at START again, and the bytes *)
(* are still in writeBuffer_.                                                *)
FillBody(c) ==
  LET r == ProduceBodySome(msg[c], Room(writeBuffer_)) IN
  /\ AtBody(c)
  /\ ~r.err
  /\ Put(c, r)
  /\ IF r.done
     THEN /\ writeState_' = "START"
          /\ doneWrite' = [doneWrite EXCEPT ![c] = TRUE]
          /\ pc' = [pc EXCEPT ![c] = "flush"]
     ELSE /\ pc' = [pc EXCEPT ![c] = "fill"]
          /\ UNCHANGED <<writeState_, doneWrite>>
  /\ UNCHANGED <<ret, op, sockVars, history>>

MessageFails(c) ==
  \E r \in {ProduceHeaderSome(msg[c], Room(writeBuffer_)),
            ProduceBodySome(msg[c], Room(writeBuffer_))} :
    /\ \/ /\ pc[c] = "fill" /\ Room(writeBuffer_) > 0 /\ writeState_ = "WRITE_HEADER"
          /\ r = ProduceHeaderSome(msg[c], Room(writeBuffer_))
       \/ AtBody(c) /\ r = ProduceBodySome(msg[c], Room(writeBuffer_))
    /\ r.err
    /\ msg' = [msg EXCEPT ![c] = r.msg]
    /\ writeBuffer_' = Filled(writeBuffer_, r.bytes)
    /\ Return(c, "INVALID_MESSAGE")
    /\ UNCHANGED <<writeState_, doneWrite, op, sockVars, produced, history>>

FillEnds(c) ==
  /\ pc[c] = "fill" /\ Room(writeBuffer_) = 0
  /\ pc' = [pc EXCEPT ![c] = "flush"]
  /\ UNCHANGED <<writeState_, writeBuffer_, msg, doneWrite, ret, op, sockVars,
                 produced, history>>

AllButOneFlushed == Size(writeBuffer_) <= 1 \* mutant: off by one
Flushed == IsEmpty(writeBuffer_)

(* async_write_some is given the readable span as it is now. *)
Flush(c) ==
  /\ pc[c] = "flush" /\ ~Flushed
  /\ op' = [op EXCEPT ![c] = [from |-> writeBuffer_.rd, n |-> Size(writeBuffer_)]]
  /\ pending' = Append(pending, c)
  /\ pc' = [pc EXCEPT ![c] = "send"]
  /\ UNCHANGED <<writeState_, writeBuffer_, msg, doneWrite, ret, peer, wire,
                 produced, history>>

FlushEnds(c) ==
  /\ pc[c] = "flush" /\ Flushed
  /\ IF doneWrite[c] THEN Return(c, "OK")
     ELSE pc' = [pc EXCEPT ![c] = "fill"] /\ UNCHANGED ret
  /\ UNCHANGED <<writeState_, writeBuffer_, msg, doneWrite, op, sockVars,
                 produced, history>>

SpanOffered(c) == Size(writeBuffer_) \* mutant: not what the socket took
BytesTaken(c) == op[c].n

(* The coroutine is resumed with the n the operation reported. *)
Sent(c) ==
  /\ NobodyRuns /\ pc[c] = "sent"
  /\ writeBuffer_' = Consume(writeBuffer_, BytesTaken(c))
  /\ pc' = [pc EXCEPT ![c] = "flush"]
  /\ UNCHANGED <<writeState_, msg, doneWrite, ret, op, sockVars, produced, history>>

ErrorsIgnored == FALSE \* mutant: errors go unnoticed
SocketFails == peer = "gone"

(* n = 0 comes with every error, and the test of n goes first. *)
SendFails(c) ==
  /\ NobodyRuns /\ SocketFails
  /\ pc[c] = "send" /\ pending # <<>> /\ Head(pending) = c
  /\ pending' = Tail(pending)
  /\ Return(c, "CONNECTION_ENDED")
  /\ UNCHANGED <<writeState_, writeBuffer_, msg, doneWrite, op, peer, wire,
                 produced, history>>

-------------------------------------------------------------------------------
(* The socket (asio and TCP, external).  Operations are performed in the     *)
(* order they were started; the bytes are those the memory holds now.        *)
Send(c, n) ==
  /\ NobodyRuns /\ peer = "open"
  /\ pc[c] = "send" /\ pending # <<>> /\ Head(pending) = c
  /\ n \in 1 .. op[c].n
  /\ wire' = wire \o [i \in 1 .. n |-> writeBuffer_.mem[op[c].from + i - 1]]
  /\ pending' = Tail(pending)
  /\ op' = [op EXCEPT ![c] = [from |-> op[c].from, n |-> n]]
  /\ pc' = [pc EXCEPT ![c] = "sent"]
  /\ UNCHANGED <<writeState_, writeBuffer_, msg, doneWrite, ret, peer, produced,
                 history>>

PeerLeaves ==
  /\ peer = "open" /\ peer' = "gone"
  /\ UNCHANGED <<writeState_, writeBuffer_, callVars, pending, wire, produced,
                 history>>

Resumed(c) ==
  \/ FillHeader(c) \/ FillBody(c) \/ MessageFails(c) \/ FillEnds(c)
  \/ Flush(c) \/ FlushEnds(c) \/ Sent(c)
Completes(c) == (\E n \in 1 .. Cap : Send(c, n)) \/ SendFails(c)

Next ==
  \/ \E c \in Caller :
       (\E m \in NewMsg : Call(c, m)) \/ Resumed(c) \/ Completes(c)
  \/ PeerLeaves

Spec == Init /\ [][Next]_vars

-------------------------------------------------------------------------------
TypeOK ==
  /\ writeState_ \in {"START", "WRITE_HEADER", "WRITE_BODY"}
  /\ writeBuffer_ \in Buffers
  /\ pc \in [Caller -> {"idle", "fill", "body", "flush", "send", "sent"}]
  /\ msg \in [Caller -> Msg]
  /\ doneWrite \in [Caller -> BOOLEAN]
  /\ ret \in [Caller -> {"none", "OK", "INVALID_STATE", "INVALID_MESSAGE",
                         "CONNECTION_ENDED"}]
  /\ op \in [Caller -> [from : 0 .. Cap, n : 0 .. Cap]]
  /\ \A c \in Caller : op[c].from + op[c].n <= Cap
  /\ pending \in Seq(Caller) /\ peer \in {"open", "gone"}
  /\ wire \in Seq(Byte) /\ produced \in Seq(Byte) /\ overlapped \in BOOLEAN
  /\ aloneSince \in [sent : 0 .. Len(wire), put : 0 .. Len(produced)]

(* A caller whose message is not produced to its end. *)
MidMessage(c) == Inside(c) /\ ~doneWrite[c]

(* Even when writes overlap, the messages' bytes do not interleave in the    *)
(* buffer: only one caller at a time is in the middle of its message, and    *)
(* writeState_ is not START while it is.                                     *)
OneProducer ==
  /\ \A c, d \in Caller : MidMessage(c) /\ MidMessage(d) => c = d
  /\ writeState_ = "START" => \A c \in Caller : ~MidMessage(c)

(* Overlapping or not: writeBuffer_ holds the last of what was produced.     *)
BufferIsTail ==
  /\ Size(writeBuffer_) <= Len(produced)
  /\ \A i \in 1 .. Size(writeBuffer_) :
       ReadableSpan(writeBuffer_)[i] = produced[Len(produced) - Size(writeBuffer_) + i]

(* What the writes put into the buffer since they are alone, with what stood  *)
(* there then, and what the socket took since then.                         *)
Made == SubSeq(produced, aloneSince.put + 1, Len(produced))
Got == SubSeq(wire, aloneSince.sent + 1, Len(wire))

(* While no write is in the last flush of another, the socket gets what the   *)
(* messages produced, once and in order, in whatever pieces it takes it and  *)
(* whichever write failed: what it has not got stands in writeBuffer_.  And   *)
(* the damage two writes do that overlap ends with them: from the next write  *)
(* on this is so again, whatever they left in the buffer.  (A completed      *)
(* operation took its bytes before its coroutine consumes them.)            *)
WireInOrder ==
  ~overlapped =>
    /\ (\A c \in Caller : pc[c] # "sent")
         => Made = Got \o ReadableSpan(writeBuffer_)
    /\ \A c \in Caller : pc[c] = "sent" =>
         Made = Got \o SubSeq(ReadableSpan(writeBuffer_), op[c].n + 1,
                              Len(ReadableSpan(writeBuffer_)))

(* What makes the above inductive: where a caller stands, and, while no      *)
(* write overlapped another, who is inside and what its operation covers.    *)
Positions ==
  \A c \in Caller :
    /\ pc[c] \in {"fill", "body"} => ~doneWrite[c]
    /\ pc[c] = "body" => writeState_ = "WRITE_BODY"
Alone ==
  ~overlapped => \A c, d \in Caller : Inside(c) /\ Inside(d) => c = d
SpanCurrent ==
  ~overlapped => \A c \in Caller :
    /\ pc[c] = "send" => /\ op[c].from = writeBuffer_.rd
                         /\ op[c].n = Size(writeBuffer_)
    /\ pc[c] = "sent" => op[c].n \in 1 .. Size(writeBuffer_)

IInv ==
  /\ TypeOK
  /\ OneProducer
  /\ BufferIsTail
  /\ WireInOrder
  /\ Positions
  /\ Alone
  /\ SpanCurrent

(* A write that returns OK and that no other write has overlapped has all     *)
(* its bytes on the wire, and nothing else went there since writes are alone. *)
OkMeansSent ==
  [][\A c \in Caller :
       pc[c] # "idle" /\ pc'[c] = "idle" /\ ret'[c] = "OK" /\ ~overlapped
         => Got' = Made']_vars
===============================================================================
