-------------------------------- MODULE Server --------------------------------
(***************************************************************************)
(* Server (src/src/server.h): for each of the threads asked for a context,   *)
(* an acceptor on the same endpoint and a thread.  The listen coroutine of a *)
(* context accepts connections and spawns a session for each on the same     *)
(* context.  What the sessions do is the matter of HttpSession.             *)
(***************************************************************************)
EXTENDS Integers, Sequences

CONSTANTS
  Context,  \* contexts, acceptors and threads: 0 .. numThreads - 1
  Client

VARIABLES
  thread,    \* of each context: "none", "running", "ended"
  listener,  \* its listen coroutine: "none", "spawned", "accepting", "ended"
  backlog,   \* the connections that the kernel keeps for its acceptor
  session    \* of each client: the context it came to, and "none", "queued",
             \* "spawned", "open" or "ended"

vars == <<thread, listener, backlog, session>>

-------------------------------------------------------------------------------
(* The constructor has opened, bound and listened on every acceptor. *)
Init ==
  /\ thread = [c \in Context |-> "none"]
  /\ listener = [c \in Context |-> "none"]
  /\ backlog = [c \in Context |-> <<>>]
  /\ session = [k \in Client |-> [on |-> "none", is |-> "none"]]

(* With SO_REUSEPORT the kernel chooses one of the acceptors, whether anybody *)
(* still accepts from it or not.                                            *)
Arrives(k) ==
  /\ session[k].is = "none"
  /\ \E c \in Context :
       /\ backlog' = [backlog EXCEPT ![c] = Append(@, k)]
       /\ session' = [session EXCEPT ![k] = [on |-> c, is |-> "queued"]]
  /\ UNCHANGED <<thread, listener>>

SpawnListener(c) ==
  /\ listener[c] = "none"
  /\ listener' = [listener EXCEPT ![c] = "spawned"]
  /\ UNCHANGED <<thread, backlog, session>>

OneShort == Context \ {CHOOSE c \in Context : TRUE} \* mutant: stops before the last
Threads == Context

(* Threads run as soon as they are started, while main starts the others. *)
StartThread(c) ==
  /\ \A d \in Context : listener[d] # "none"
  /\ c \in Threads /\ thread[c] = "none"
  /\ thread' = [thread EXCEPT ![c] = "running"]
  /\ UNCHANGED <<listener, backlog, session>>

-------------------------------------------------------------------------------
(* What the thread of a context runs. *)

ListenBegins(c) ==
  /\ thread[c] = "running" /\ listener[c] = "spawned"
  /\ listener' = [listener EXCEPT ![c] = "accepting"]
  /\ UNCHANGED <<thread, backlog, session>>

Dequeued(queue) == Tail(queue)

Accept(c) ==
  /\ thread[c] = "running" /\ listener[c] = "accepting" /\ backlog[c] # <<>>
  /\ backlog' = [backlog EXCEPT ![c] = Dequeued(@)]
  /\ session' = [session EXCEPT ![Head(backlog[c])].is = "spawned"]
  /\ UNCHANGED <<thread, listener>>

SessionBegins(k) ==
  /\ session[k].is = "spawned" /\ thread[session[k].on] = "running"
  /\ session' = [session EXCEPT ![k].is = "open"]
  /\ UNCHANGED <<thread, listener, backlog>>

(* io_context::run returns when there is nothing left to wait for; a work     *)
(* guard is something to wait for, and none is reset: the thread outlives     *)
(* its listen coroutine and its sessions.                                    *)
Guarded(c) == TRUE
AfterHandler(c) ==
  IF \/ Guarded(c)
     \/ listener'[c] # "ended"
     \/ \E k \in Client : session'[k].on = c /\ session'[k].is \in {"spawned", "open"}
  THEN "running" ELSE "ended"

(* async_accept fails, as when there are no more descriptors, whether or not a *)
(* connection waits, and leaves what waits where it is: its exception ends    *)
(* listen, and co_spawn's handler prints it.  Nothing closes the acceptor.    *)
AcceptFails(c) ==
  /\ thread[c] = "running" /\ listener[c] = "accepting"
  /\ listener' = [listener EXCEPT ![c] = "ended"]
  /\ UNCHANGED <<backlog, session>>
  /\ thread' = [thread EXCEPT ![c] = AfterHandler(c)]

(* By co_return, or by an exception that co_spawn's handler prints. *)
SessionEnds(k) ==
  LET c == session[k].on IN
  /\ session[k].is = "open" /\ thread[c] = "running"
  /\ session' = [session EXCEPT ![k].is = "ended"]
  /\ UNCHANGED <<listener, backlog>>
  /\ thread' = [thread EXCEPT ![c] = AfterHandler(c)]

-------------------------------------------------------------------------------
Main == \E c \in Context : SpawnListener(c) \/ StartThread(c)
Runs(c) ==
  \/ ListenBegins(c) \/ Accept(c)
  \/ \E k \in Client : session[k].on = c /\ SessionBegins(k)

Next ==
  \/ Main
  \/ \E c \in Context : Runs(c) \/ AcceptFails(c)
  \/ \E k \in Client : Arrives(k) \/ SessionEnds(k)

(* Fairness: main and the threads that run keep running.  Nothing makes       *)
(* clients come, sessions end or accepts fail.                               *)
Spec == Init /\ [][Next]_vars /\ WF_vars(Main) /\ \A c \in Context : WF_vars(Runs(c))

-------------------------------------------------------------------------------
(* A client that got into the backlog gets a session, unless the listen       *)
(* coroutine of the acceptor that the kernel chose for it has ended: no other *)
(* context takes over what waits there.  A connection that was accepted gets  *)
(* its session even so.                                                     *)
QueuedGetSessions ==
  \A k \in Client : \A c \in Context :
    /\ session[k] = [on |-> c, is |-> "queued"]
         ~> (session[k].is \in {"open", "ended"} \/ listener[c] = "ended")
    /\ session[k].is = "spawned" ~> session[k].is = "open"
===============================================================================
