------------------------------ MODULE HttpSession ------------------------------
(***************************************************************************)
(* TestServer::connect (src/src/main.cpp): the coroutine that serves one     *)
(* connection.  It composes Connection::read driving an Http::Request, the   *)
(* routing of the request and Connection::write driving the Http::Response.  *)
(* All requests of a connection and all their responses put their heads      *)
(* into one array, headBuff, which is never cleared.                        *)
(*                                                                         *)
(* Outside stands a client that sends a script of requests, in segments cut  *)
(* anywhere, one after the other's response or all at once (pipelines), and  *)
(* that may leave at any time.                                              *)
(***************************************************************************)
EXTENDS HttpRequest, StaticBuffer

CONSTANTS
  Script,   \* sequences of requests [line, fields, body] that a client sends
  Garbage,  \* what headBuff may hold before its first use
  Habit     \* of clients: [pipelines, alone] (alone: see Client)

(* Bodies of the session have a length: chunked ones are ChunkedBody's.      *)
Plain == Token \ {"TE"}
PlainField == FieldToken \ {"TE"}

ASSUME PlainAssumption == Byte = Plain
ASSUME GarbageAssumption == Garbage \subseteq [1 .. HeadCap -> Plain]
ASSUME ScriptAssumption ==
  Script \subseteq Seq([line : Line, fields : Seq(PlainField), body : Seq(Plain)]) \ {<<>>}

(* A client announces the length of the body it sends; it need not announce   *)
(* that there is none, and what it announces may be nothing that can be read. *)
Announces(r) ==
  LET i == FirstLength(r.fields) IN
  IF i = 0 THEN r.body = <<>>
  ELSE r.fields[i] # "CLbad" => Len(r.body) = ContentLength[r.fields[i]]
ASSUME LengthAssumption ==
  \A s \in Script : \A i \in 1 .. Len(s) : Announces(s[i])

VARIABLES
  at,        \* where connect stands: "loop", "read", "handle", "write", "closed"
  headBuff,  \* its array, while no request or response is using it
  handled,   \* history: the requests that were routed, [line, body]
  readState_, readBuffer_, rpc, rmsg, rret, inbox, stream, sent, taken, delivered,
  writeState_, writeBuffer_, wpc, wmsg, doneWrite, wret, op, pending, peer, wire,
  produced, overlapped,
  script, habit,  \* the client
  sending,        \* which request of its script it is sending
  left            \* what it has not sent of it

-------------------------------------------------------------------------------
(* What the handlers of TestServer answer: the head, and the body. *)
Status == [one |-> "200", three |-> "200", other |-> "404"]
ReplyHead(line) == <<Status[line], "CR", "LF", "FLD", "CR", "LF", "CR", "LF">>
ReplyBody == [one |-> <<"1">>, three |-> <<"2", "2">>, other |-> <<>>]
Reply(line) == ReplyHead(line) \o ReplyBody[line]

ASSUME RepliesFitHead == \A l \in Line : Len(ReplyHead(l)) < HeadCap

(* Http::Response after the handler: it reads its head out of headBuff. *)
NewResponse(line) ==
  [head |-> ReplyHead(line), body |-> ReplyBody[line], idx |-> 0, bodyIdx |-> 0]

ProduceHead(m, room) ==
  LET n == Smaller(room, Len(m.head) - m.idx)
      end == m.idx + n = Len(m.head)
  IN [err |-> FALSE, done |-> end, bytes |-> SubSeq(m.head, m.idx + 1, m.idx + n),
      msg |-> [m EXCEPT !.idx = IF end THEN 0 ELSE m.idx + n]]

ProduceBody(m, room) ==
  LET n == Smaller(room, Len(m.body) - m.bodyIdx)
      end == m.bodyIdx + n = Len(m.body)
  IN [err |-> FALSE, done |-> end,
      bytes |-> SubSeq(m.body, m.bodyIdx + 1, m.bodyIdx + n),
      msg |-> [m EXCEPT !.bodyIdx = IF end THEN 0 ELSE m.bodyIdx + n]]

me == "session"
FirstRequests == { NewRequest(h) : h \in Garbage }

R == INSTANCE ConnectionRead
       WITH Caller <- {me}, Msg <- FirstRequests, NewMsg <- FirstRequests,
            ConsumeHeaderSome <- ConsumeHead, ConsumeBodySome <- ConsumeBody,
            pc <- rpc, msg <- rmsg, ret <- rret
W == INSTANCE ConnectionWrite
       WITH Caller <- {me}, Msg <- {NewResponse("one")}, NewMsg <- {NewResponse("one")},
            ProduceHeaderSome <- ProduceHead, ProduceBodySome <- ProduceBody,
            pc <- wpc, msg <- wmsg, ret <- wret,
            aloneSince <- [sent |-> 0, put |-> 0] \* always, with one caller

sessionVars == <<at, headBuff, handled>>
clientVars == <<script, habit, sending, left>>
readVars == <<readState_, readBuffer_, rpc, rmsg, rret, inbox, stream, sent, taken,
              delivered>>
writeVars == <<writeState_, writeBuffer_, wpc, wmsg, doneWrite, wret, op, pending,
               peer, wire, produced, overlapped>>
vars == <<sessionVars, readVars, writeVars, clientVars>>

Raw(r) ==
  <<r.line, "CR", "LF">> \o FlattenSeq([i \in 1 .. Len(r.fields) |->
                                          <<r.fields[i], "CR", "LF">>])
    \o <<"CR", "LF">> \o r.body

Init ==
  /\ R!Init /\ W!Init
  /\ at = "loop" /\ headBuff = rmsg[me].hb /\ handled = <<>>
  /\ script \in Script /\ habit \in Habit
  /\ sending = 1 /\ left = Raw(script[1])

-------------------------------------------------------------------------------
(* connect *)

StartRead ==
  /\ at = "loop"
  /\ R!Call(me, NewRequest(headBuff))
  /\ at' = "read"
  /\ UNCHANGED <<headBuff, handled, writeVars, clientVars>>

(* read came back: the request's head is in headBuff; an error ends connect. *)
ReadReturns ==
  /\ at = "read" /\ ~R!Inside(me)
  /\ headBuff' = rmsg[me].hb
  /\ IF rret[me] = "OK"
     THEN /\ at' = "handle"
          /\ handled' = Append(handled, [line |-> rmsg[me].line, body |-> rmsg[me].body])
     ELSE at' = "closed" /\ UNCHANGED handled
  /\ UNCHANGED <<readVars, writeVars, clientVars>>

(* The handler makes the response, whose head is written over the request's  *)
(* in headBuff, and connect calls write.                                    *)
Handle ==
  LET res == NewResponse(rmsg[me].line) IN
  /\ at = "handle"
  /\ headBuff' = [i \in 1 .. HeadCap |-> IF i <= Len(res.head) THEN res.head[i]
                                                              ELSE headBuff[i]]
  /\ W!Call(me, res)
  /\ at' = "write"
  /\ UNCHANGED <<handled, readVars, clientVars>>

WriteReturns ==
  /\ at = "write" /\ ~W!Inside(me)
  /\ at' = IF wret[me] = "OK" THEN "loop" ELSE "closed"
  /\ UNCHANGED <<headBuff, handled, readVars, writeVars, clientVars>>

InRead ==
  /\ R!Resumed(me) \/ R!Completes(me)
  /\ UNCHANGED <<sessionVars, writeVars, clientVars>>
InWrite ==
  /\ W!Resumed(me) \/ W!Completes(me)
  /\ UNCHANGED <<sessionVars, readVars, clientVars>>

Session == StartRead \/ InRead \/ ReadReturns \/ Handle \/ InWrite \/ WriteReturns

-------------------------------------------------------------------------------
(* The client.  One that sends heads alone keeps a body out of the segments  *)
(* of its head, and sends it when the server has taken the head and waits.   *)

HeadLeft == Len(left) - Len(script[sending].body)

MaySend(n) ==
  habit.alone =>
    IF HeadLeft > 0 THEN n <= HeadLeft
    ELSE rpc[me] = "await" /\ readState_ = "READ_BODY" /\ inbox = <<>>

ClientSends(n) ==
  /\ n \in 1 .. Len(left) /\ MaySend(n)
  /\ R!Arrive(SubSeq(left, 1, n))
  /\ left' = SubSeq(left, n + 1, Len(left))
  /\ UNCHANGED <<sessionVars, writeVars, script, habit, sending>>

Replies(k) == FlattenSeq([i \in 1 .. k |-> Reply(handled[i].line)])
Answered == \* how many responses the client has got whole
  Cardinality({ k \in 1 .. Len(handled) : Len(Replies(k)) <= Len(wire) })

NextRequest ==
  /\ left = <<>> /\ sending < Len(script)
  /\ habit.pipelines \/ Answered = sending
  /\ sending' = sending + 1
  /\ left' = Raw(script[sending + 1])
  /\ UNCHANGED <<sessionVars, readVars, writeVars, script, habit>>

(* It closes its side of the connection, or is gone altogether. *)
ClientLeaves ==
  /\ R!PeerEnds
  /\ IF stream' = "reset" THEN W!PeerLeaves ELSE UNCHANGED writeVars
  /\ UNCHANGED <<sessionVars, clientVars>>

Client == (\E n \in 1 .. Len(left) : ClientSends(n)) \/ NextRequest

Next == Session \/ Client \/ ClientLeaves

Spec == Init /\ [][Next]_vars

(* Fairness: the thread of the io_context runs the coroutine when it can     *)
(* run and completes its socket operation when that can complete; the client *)
(* keeps sending what it has to send.  The first is weak fairness of Session *)
(* with the enabling condition of its steps between two suspensions written  *)
(* out: they can always be taken.  No other action changes coroutineVars.    *)
Runnable ==
  /\ at # "closed"
  /\ rpc[me] = "await" => ENABLED R!Completes(me)
  /\ wpc[me] = "send" => ENABLED W!Completes(me)
coroutineVars ==
  <<sessionVars, readState_, readBuffer_, rpc, rmsg, rret,
    writeState_, writeBuffer_, wpc, wmsg, doneWrite, wret, op, pending, wire>>

Fairness ==
  /\ []<>~Runnable \/ []<><<TRUE>>_coroutineVars
  /\ WF_vars(Client)

-------------------------------------------------------------------------------
Lockstep == ~habit.pipelines
Request(i) == [line |-> script[i].line, body |-> script[i].body]

TypeOK ==
  /\ at \in {"loop", "read", "handle", "write", "closed"}
  /\ headBuff \in [1 .. HeadCap -> Token]
  /\ handled \in Seq([line : Line, body : Seq(Token)])
  /\ rmsg[me].idx \in 0 .. HeadCap /\ Len(rmsg[me].body) <= MaxBody
  /\ sending \in 1 .. Len(script)

(* A client that waits for its responses has its requests handled in its     *)
(* order, each at most once and with the body it sent, however the stream is *)
(* cut and even when the end of a head is overlooked.                        *)
HandledAsSent ==
  Lockstep =>
    /\ Len(handled) <= Len(script)
    /\ \A i \in 1 .. Len(handled) : handled[i] = Request(i)

(* No handled request is made up from pieces of several: for clients whose   *)
(* requests have no bodies, what is handled is what was sent with some       *)
(* requests left out, also when they are sent without waiting.               *)
NothingMadeUp ==
  (\A i \in 1 .. Len(script) : script[i].body = <<>>) =>
    \E from \in [1 .. Len(handled) -> 1 .. Len(script)] :
      /\ \A i, j \in 1 .. Len(handled) : i < j => from[i] < from[j]
      /\ \A i \in 1 .. Len(handled) : handled[i] = Request(from[i])

(* The client gets the responses of the handled requests, in order, nothing  *)
(* in between, and all of them before the next request is read.              *)
RepliesInOrder ==
  /\ IsPrefix(wire, Replies(Len(handled)))
  /\ at \in {"loop", "read"} => wire = Replies(Len(handled))

(* The parser's promise about the head, which the code does not use: "returns *)
(* number of bytes consumed".  What the session takes from the stream as the  *)
(* head is what the parser read of it.                                      *)
HeadEndsWhereParsed ==
  at = "handle" => rmsg[me].idx = Parse(rmsg[me].hb).used

(* Requests that fit and are well-formed. *)
Acceptable ==
  \A i \in 1 .. Len(script) :
    /\ Len(Raw(script[i])) - Len(script[i].body) <= HeadCap
    /\ ~Contains(script[i].fields, "CLbad")

(* Every request of a client that waits for its responses and sends its      *)
(* bodies apart from its heads is answered, unless the client leaves.        *)
EveryRequestAnswered ==
  (Acceptable /\ Lockstep /\ habit.alone)
    ~> (Answered = Len(script) \/ stream # "open")

(* The session of a client that closed or lost its connection ends. *)
SessionEndsWithPeer == stream # "open" ~> at = "closed"
===============================================================================
