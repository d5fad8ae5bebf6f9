----------------------------- MODULE HttpServer -----------------------------
(***************************************************************************)
(* The HTTP library between the event loop and the handlers of the control *)
(* server: server_http.hpp of Simple-Web-Server, its connections and their *)
(* timeouts, and stop() followed by the destruction of the server.         *)
(*                                                                         *)
(* A connection object lives as long as its chain of operations: accept,   *)
(* read, write, each started by the handler of the one before.  at[c] is   *)
(* where the chain of c stands: waiting for an operation, with its handler *)
(* queued, or in the resource function.  Of the event loop the module uses *)
(* what HandlerPool promises: a queued handler is called, once, and        *)
(* handlers run side by side.                                              *)
(*                                                                         *)
(* Between the start of a handler and the operation it starts lie only the *)
(* connection's own timer and the set of connections under its mutex: that *)
(* is one step, except for the resource function, which takes its time.    *)
(* So is a timer handler: it locks the connection and closes it.           *)
(*                                                                         *)
(* The library's callbacks for errors and upgrades are not set by the      *)
(* control server.  Chunked requests, which its page never sends, requests *)
(* sent before the last is answered, and ScopeRunner, which nobody waits   *)
(* for (the server is destroyed after its threads), are left out.          *)
(*                                                                         *)
(* Definitions named _fault are seeded defects, variants of the one after. *)
(***************************************************************************)
EXTENDS Integers

CONSTANTS Conns,     \* connection objects; memory is used again when freed
          MaxLapsed  \* timer handlers of a connection queued at a time
ASSUME HttpAssumption == MaxLapsed \in Nat

VARIABLES
  at,          \* of each connection: the program point of its chain
  result,      \* how its last operation ended: "ok", "failed" or "aborted"
  armed,       \* its timer is in the timer queue
  lapsed,      \* its timer handlers queued with success
  shut,        \* close() was called on it
  connections, \* the set of raw pointers that stop() walks through
  stopping     \* stop(): "no", "acceptor", "connections", "io" or "joined"

chain == <<at, result>>
timer == <<armed, lapsed>>
vars  == <<chain, timer, shut, connections, stopping>>

Waiting == {"accept", "head", "body", "send"}
Queued  == {"accepted", "headDone", "bodyDone", "sent"}

IoStopped == stopping \in {"io", "joined"}

(* The chain goes on at p; the result of its last operation is used. *)
GoOn(c, p) == /\ at' = [at EXCEPT ![c] = p]
              /\ result' = [result EXCEPT ![c] = "ok"]

(* It lets go of the connection, to be deleted. *)
Drop(c) == GoOn(c, "dying")

SetTimeout(c) == armed' = [armed EXCEPT ![c] = TRUE]
CancelTimeout(c) == armed' = [armed EXCEPT ![c] = FALSE]

Init == \* start(): listening, with the first accept under way
  /\ \E c \in Conns :
       /\ at = [d \in Conns |-> IF d = c THEN "accept" ELSE "free"]
       /\ connections = {c}
  /\ result = [c \in Conns |-> "ok"]
  /\ armed = [c \in Conns |-> FALSE]
  /\ lapsed = [c \in Conns |-> 0]
  /\ shut = [c \in Conns |-> FALSE]
  /\ stopping = "no"

----------------------------------------------------------------------------
(* The event loop.                                                         *)

(* An operation completes: by what the client does, by an error, because   *)
(* the socket was shut down.  A read may still find data in a socket that  *)
(* was shut down, a write may not leave it.                                *)
Completes(c, r) ==
  /\ at[c] \in Waiting /\ ~IoStopped
  /\ at[c] = "send" /\ shut[c] => r = "failed"
  /\ at' = [at EXCEPT ![c] = CASE @ = "accept" -> "accepted"
                                [] @ = "head"   -> "headDone"
                                [] @ = "body"   -> "bodyDone"
                                [] @ = "send"   -> "sent"]
  /\ result' = [result EXCEPT ![c] = r]
  /\ UNCHANGED <<timer, shut, connections, stopping>>

Expires(c) ==
  /\ armed[c] /\ ~IoStopped /\ lapsed[c] < MaxLapsed
  /\ armed' = [armed EXCEPT ![c] = FALSE]
  /\ lapsed' = [lapsed EXCEPT ![c] = @ + 1]
  /\ UNCHANGED <<chain, shut, connections, stopping>>

----------------------------------------------------------------------------
(* The chain of a connection.                                              *)

(* The handler of an accept, whatever its result: the next connection and  *)
(* its accept, which fails at once when stop() has closed the acceptor;    *)
(* then read(), which sets the request timeout.  The model has a bounded   *)
(* number of connections: the handler waits for one that is unused.        *)
AcceptNext(c, d, p) ==
  /\ at[d] = "free" /\ lapsed[d] = 0
  /\ connections' = connections \cup {d}
  /\ at' = [at EXCEPT ![c] = p,
                      ![d] = IF stopping = "no" THEN "accept" ELSE "accepted"]
  /\ result' = [result EXCEPT ![c] = "ok",
                              ![d] = IF stopping = "no" THEN "ok" ELSE "failed"]

Accepted_fault(c) == \* accepts no more after an error
  /\ at[c] = "accepted" /\ ~IoStopped
  /\ \/ /\ result[c] = "ok"
        /\ \E d \in Conns : AcceptNext(c, d, "head")
        /\ SetTimeout(c)
     \/ /\ result[c] # "ok"
        /\ Drop(c)
        /\ UNCHANGED <<connections, armed>>
  /\ UNCHANGED <<lapsed, shut, stopping>>
Accepted(c) ==
  /\ at[c] = "accepted" /\ ~IoStopped
  /\ \/ /\ result[c] = "ok"
        /\ \E d \in Conns : AcceptNext(c, d, "head")
        /\ SetTimeout(c)
     \/ /\ result[c] = "failed"
        /\ \E d \in Conns : AcceptNext(c, d, "dying")
        /\ UNCHANGED armed
     \/ /\ result[c] = "aborted"
        /\ Drop(c)
        /\ UNCHANGED <<connections, armed>>
  /\ UNCHANGED <<lapsed, shut, stopping>>

(* The handler of async_read_until: the content timeout takes the place of *)
(* the request timeout and is to last until the answer is sent.  Then, for *)
(* a header it understands, the content is read if it is not there yet.    *)
HeadDone_fault(c) == \* the request timeout ends with the header
  /\ at[c] = "headDone" /\ ~IoStopped
  /\ CancelTimeout(c)
  /\ \/ result[c] = "ok" /\ \E p \in {"body", "find"} : GoOn(c, p)
     \/ Drop(c)
  /\ UNCHANGED <<lapsed, shut, connections, stopping>>
HeadDone(c) ==
  /\ at[c] = "headDone" /\ ~IoStopped
  /\ SetTimeout(c)
  /\ \/ result[c] = "ok" /\ \E p \in {"body", "find"} : GoOn(c, p)
     \/ Drop(c)
  /\ UNCHANGED <<lapsed, shut, connections, stopping>>

BodyDone(c) ==
  /\ at[c] = "bodyDone" /\ ~IoStopped
  /\ IF result[c] = "ok" THEN GoOn(c, "find") ELSE Drop(c)
  /\ UNCHANGED <<timer, shut, connections, stopping>>

(* find_resource: the resource function runs, and when it lets go of the   *)
(* response the deleter sends it.  Without a resource nothing is sent.     *)
Find(c) ==
  /\ at[c] = "find"
  /\ GoOn(c, "send") \/ Drop(c)
  /\ UNCHANGED <<timer, shut, connections, stopping>>

(* The handler of the write: cancel_timeout, and if the connection is to   *)
(* be kept read() again, which sets the request timeout.                   *)
Sent_fault(c) == \* the timeout is cancelled last
  /\ at[c] = "sent" /\ ~IoStopped
  /\ \/ result[c] = "ok" /\ GoOn(c, "head")
     \/ Drop(c)
  /\ CancelTimeout(c)
  /\ UNCHANGED <<lapsed, shut, connections, stopping>>
Sent(c) ==
  /\ at[c] = "sent" /\ ~IoStopped
  /\ \/ result[c] = "ok" /\ GoOn(c, "head") /\ SetTimeout(c)
     \/ Drop(c) /\ CancelTimeout(c)
  /\ UNCHANGED <<lapsed, shut, connections, stopping>>

----------------------------------------------------------------------------
(* The handler of a wait that ran out.  It holds a weak pointer only: the  *)
(* connection may be gone, or at its next request.                         *)
TimesOut(c) ==
  /\ lapsed[c] > 0 /\ ~IoStopped
  /\ lapsed' = [lapsed EXCEPT ![c] = @ - 1]
  /\ shut' = [shut EXCEPT ![c] = @ \/ at[c] \notin {"free", "dying"}]
  /\ UNCHANGED <<chain, armed, connections, stopping>>

(* The deleter of the last shared pointer takes the connection out of the  *)
(* set, under its mutex, and deletes it with its timer.                    *)
Delete_fault(c) == \* without taking it out
  /\ at[c] = "dying"
  /\ GoOn(c, "free")
  /\ CancelTimeout(c)
  /\ shut' = [shut EXCEPT ![c] = FALSE]
  /\ UNCHANGED <<lapsed, connections, stopping>>
Delete(c) ==
  /\ at[c] = "dying"
  /\ connections' = connections \ {c}
  /\ GoOn(c, "free")
  /\ CancelTimeout(c)
  /\ shut' = [shut EXCEPT ![c] = FALSE]
  /\ UNCHANGED <<lapsed, stopping>>

----------------------------------------------------------------------------
(* stop(), which may come at any time and is called once: the acceptor is  *)
(* closed, then every connection of the set, then the event loop stopped.  *)
StopAcceptor ==
  /\ stopping = "no"
  /\ stopping' = "acceptor"
  /\ at' = [c \in Conns |-> IF at[c] = "accept" THEN "accepted" ELSE at[c]]
  /\ result' = [c \in Conns |->
                  IF at[c] = "accept" THEN "aborted" ELSE result[c]]
  /\ UNCHANGED <<timer, shut, connections>>

StopConnections ==
  /\ stopping = "acceptor"
  /\ stopping' = "connections"
  /\ shut' = [c \in Conns |-> shut[c] \/ c \in connections]
  /\ connections' = {}
  /\ UNCHANGED <<chain, timer>>

StopIo_fault == \* waits for the connections to be gone
  /\ stopping = "connections" /\ \A c \in Conns : at[c] = "free"
  /\ stopping' = "io"
  /\ UNCHANGED <<chain, timer, shut, connections>>
StopIo ==
  /\ stopping = "connections"
  /\ stopping' = "io"
  /\ UNCHANGED <<chain, timer, shut, connections>>

(* start() returns when no thread is in a handler any more. *)
Join ==
  /\ stopping = "io"
  /\ \A c \in Conns : at[c] \notin {"find", "dying"}
  /\ stopping' = "joined"
  /\ UNCHANGED <<chain, timer, shut, connections>>

(* The destruction of the server destroys the operations that wait and the *)
(* handlers that were never called, and with them their connections.       *)
Abandon(c) ==
  /\ stopping = "joined"
  /\ at[c] \in Waiting \cup Queued
  /\ GoOn(c, "dying")
  /\ UNCHANGED <<timer, shut, connections, stopping>>

----------------------------------------------------------------------------
Handles(c) == \/ Accepted(c) \/ HeadDone(c) \/ BodyDone(c) \/ Find(c)
              \/ Sent(c) \/ Delete(c) \/ Abandon(c)
Stops == StopAcceptor \/ StopConnections \/ StopIo \/ Join

Next == \/ \E c \in Conns : \/ \E r \in {"ok", "failed"} : Completes(c, r)
                            \/ Handles(c)
                            \/ Expires(c) \/ TimesOut(c)
        \/ Stops

(* Queued handlers are called and come to their end (HandlerPool), waits   *)
(* run out, and operations on a socket that was shut down complete.  What  *)
(* the clients do, and whether stop() is called, is open.                  *)
Spec ==
  /\ Init /\ [][Next]_vars
  /\ \A c \in Conns :
       /\ WF_vars(Handles(c))
       /\ WF_vars(Expires(c)) /\ WF_vars(TimesOut(c))
       /\ WF_vars(shut[c] /\ Completes(c, "failed"))
  /\ WF_vars(StopConnections) /\ WF_vars(StopIo) /\ WF_vars(Join)

----------------------------------------------------------------------------
(* The set holds no connection that is deleted, so that stop() touches     *)
(* none, and until stop() has been through it every connection there is:   *)
(* none escapes it.                                                        *)
Registered ==
  /\ \A c \in connections : at[c] # "free"
  /\ stopping \in {"no", "acceptor"} =>
       \A c \in Conns : at[c] # "free" => c \in connections

(* A connection that waits for its client has something that will end the  *)
(* wait: a running timer, a handler of it on its way, or a socket that is  *)
(* shut down already.                                                      *)
Guarded ==
  \A c \in Conns : at[c] \in {"head", "body", "send"} =>
    armed[c] \/ lapsed[c] > 0 \/ shut[c]

(* As long as the server is not told to stop one accept is under way, and  *)
(* never two, whatever became of the connections before.                   *)
OneAcceptor ==
  stopping = "no" =>
    \E c \in Conns : \A d \in Conns :
      at[d] \in {"accept", "accepted"} <=> d = c

(* A client that connected is answered or left: a connection does not wait *)
(* for ever for a request, nor with one.                                   *)
Settled ==
  \A c \in Conns :
    at[c] \in {"head", "body", "send"} ~> at[c] \in {"sent", "free"}

(* stop() ends them all: no connection outlives the server. *)
StopEndsAll ==
  stopping # "no" ~> (stopping = "joined" /\ \A c \in Conns : at[c] = "free")
=============================================================================
