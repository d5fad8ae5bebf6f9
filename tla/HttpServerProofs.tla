-------------------------- MODULE HttpServerProofs --------------------------
(***************************************************************************)
(* For any number of connections: the set stop() walks through holds the   *)
(* connections that live, no connection waits for its client unguarded,    *)
(* and one accept is under way.                                            *)
(***************************************************************************)
EXTENDS HttpServer, TLAPS

Points == Waiting \cup Queued \cup {"free", "find", "dying"}

TypeOK ==
  /\ at \in [Conns -> Points]
  /\ result \in [Conns -> {"ok", "failed", "aborted"}]
  /\ armed \in [Conns -> BOOLEAN]
  /\ lapsed \in [Conns -> Nat]
  /\ shut \in [Conns -> BOOLEAN]
  /\ connections \subseteq Conns
  /\ stopping \in {"no", "acceptor", "connections", "io", "joined"}

(* Guarded, also while the content has been read and while the resource    *)
(* function runs: its timeout lasts until the answer is sent.              *)
GuardedOn ==
  \A c \in Conns : at[c] \in {"head", "body", "bodyDone", "find", "send"} =>
    armed[c] \/ lapsed[c] > 0 \/ shut[c]

(* Only stop() aborts an accept. *)
NotAborted == stopping = "no" => \A c \in Conns : result[c] # "aborted"

ServerInv == TypeOK /\ Registered /\ GuardedOn /\ OneAcceptor /\ NotAborted

(* TypeOK: every variable keeps its shape. *)
LEMMA TypePreserved == TypeOK /\ [Next]_vars => TypeOK'
<1> SUFFICES ASSUME TypeOK, [Next]_vars PROVE TypeOK'
  OBVIOUS
<1> USE DEF TypeOK, Points, Waiting, Queued
<1>1. ASSUME NEW c \in Conns, NEW r \in {"ok", "failed"}, Completes(c, r)
      PROVE  TypeOK'
  BY <1>1 DEF Completes, timer
<1>2. ASSUME NEW c \in Conns, Accepted(c) PROVE TypeOK'
  BY <1>2 DEF Accepted, AcceptNext, SetTimeout, Drop, GoOn
<1>3. ASSUME NEW c \in Conns, HeadDone(c) \/ BodyDone(c) \/ Find(c) \/ Sent(c)
      PROVE  TypeOK'
  BY <1>3 DEF HeadDone, BodyDone, Find, Sent, SetTimeout, CancelTimeout, Drop,
              GoOn, timer
<1>4. ASSUME NEW c \in Conns, Delete(c) \/ Abandon(c) PROVE TypeOK'
  BY <1>4 DEF Delete, Abandon, CancelTimeout, GoOn, timer
<1>5. ASSUME NEW c \in Conns, Expires(c) \/ TimesOut(c) PROVE TypeOK'
  <2>1. (shut[c] \/ at[c] \notin {"free", "dying"}) \in BOOLEAN
    OBVIOUS
  <2>2. lapsed[c] + 1 \in Nat /\ (lapsed[c] > 0 => lapsed[c] - 1 \in Nat)
    OBVIOUS
  <2>3. CASE Expires(c)
    BY <2>2, <2>3 DEF Expires, chain
  <2>4. CASE TimesOut(c)
    BY <2>1, <2>2, <2>4 DEF TimesOut, chain
  <2> QED
    BY <1>5, <2>3, <2>4
<1>6. CASE Stops
  BY <1>6 DEF Stops, StopAcceptor, StopConnections, StopIo, Join, chain, timer
<1>7. CASE UNCHANGED vars
  BY <1>7 DEF vars, chain, timer
<1> QED
  BY <1>1, <1>2, <1>3, <1>4, <1>5, <1>6, <1>7 DEF Next, Handles

(* Registered: create_connection and the deleter keep the set, and stop()  *)
(* empties it once it has been through.                                    *)
LEMMA RegisteredPreserved ==
  TypeOK /\ Registered /\ [Next]_vars => Registered'
<1> SUFFICES ASSUME TypeOK, Registered, [Next]_vars PROVE Registered'
  OBVIOUS
<1> USE DEF TypeOK, Registered, Waiting, Queued
<1>1. ASSUME NEW c \in Conns, NEW r \in {"ok", "failed"}, Completes(c, r)
      PROVE  Registered'
  BY <1>1 DEF Completes
<1>2. ASSUME NEW c \in Conns, Accepted(c) PROVE Registered'
  BY <1>2 DEF Accepted, AcceptNext, Drop, GoOn
<1>3. ASSUME NEW c \in Conns, HeadDone(c) \/ BodyDone(c) \/ Find(c) \/ Sent(c)
      PROVE  Registered'
  BY <1>3 DEF HeadDone, BodyDone, Find, Sent, Drop, GoOn
<1>4. ASSUME NEW c \in Conns, Delete(c) \/ Abandon(c) PROVE Registered'
  BY <1>4 DEF Delete, Abandon, GoOn
<1>5. ASSUME NEW c \in Conns, Expires(c) \/ TimesOut(c) PROVE Registered'
  BY <1>5 DEF Expires, TimesOut, chain
<1>6. CASE Stops
  BY <1>6 DEF Stops, StopAcceptor, StopConnections, StopIo, Join, chain
<1>7. CASE UNCHANGED vars
  BY <1>7 DEF vars, chain
<1> QED
  BY <1>1, <1>2, <1>3, <1>4, <1>5, <1>6, <1>7 DEF Next, Handles

(* GuardedOn: every wait for a client is started with the timer set, and   *)
(* what takes the timer away leaves its handler or a closed socket.        *)
LEMMA GuardedPreserved ==
  TypeOK /\ GuardedOn /\ [Next]_vars => GuardedOn'
<1> SUFFICES ASSUME TypeOK, GuardedOn, [Next]_vars PROVE GuardedOn'
  OBVIOUS
<1> USE DEF TypeOK, GuardedOn, Waiting, Queued
<1>1. ASSUME NEW c \in Conns, NEW r \in {"ok", "failed"}, Completes(c, r)
      PROVE  GuardedOn'
  BY <1>1 DEF Completes, timer
<1>2. ASSUME NEW c \in Conns, Accepted(c) PROVE GuardedOn'
  BY <1>2 DEF Accepted, AcceptNext, SetTimeout, Drop, GoOn
<1>3. ASSUME NEW c \in Conns, HeadDone(c) \/ BodyDone(c) \/ Find(c) \/ Sent(c)
      PROVE  GuardedOn'
  BY <1>3 DEF HeadDone, BodyDone, Find, Sent, SetTimeout, CancelTimeout, Drop,
              GoOn, timer
<1>4. ASSUME NEW c \in Conns, Delete(c) \/ Abandon(c) PROVE GuardedOn'
  BY <1>4 DEF Delete, Abandon, CancelTimeout, GoOn, timer
<1>5. ASSUME NEW c \in Conns, Expires(c) \/ TimesOut(c) PROVE GuardedOn'
  <2> SUFFICES ASSUME NEW d \in Conns,
                      at[d] \in {"head", "body", "bodyDone", "find", "send"}
               PROVE  armed'[d] \/ lapsed'[d] > 0 \/ shut'[d]
    BY <1>5 DEF Expires, TimesOut, chain
  <2>1. armed[d] \/ lapsed[d] > 0 \/ shut[d]
    OBVIOUS
  <2>2. CASE d # c
    BY <1>5, <2>1, <2>2 DEF Expires, TimesOut
  <2>3. CASE d = c /\ Expires(c)
    <3>1. lapsed'[d] = lapsed[d] + 1 /\ lapsed[d] \in Nat
      BY <2>3 DEF Expires
    <3> QED
      BY <3>1
  <2>4. CASE d = c /\ TimesOut(c)
    <3>1. shut'[d] = (shut[d] \/ at[d] \notin {"free", "dying"})
      BY <2>4 DEF TimesOut
    <3> QED
      BY <3>1
  <2> QED
    BY <1>5, <2>2, <2>3, <2>4
<1>6. CASE Stops
  BY <1>6 DEF Stops, StopAcceptor, StopConnections, StopIo, Join, chain, timer
<1>7. CASE UNCHANGED vars
  BY <1>7 DEF vars, chain, timer
<1> QED
  BY <1>1, <1>2, <1>3, <1>4, <1>5, <1>6, <1>7 DEF Next, Handles

(* OneAcceptor: the handler of an accept hands over to the next, unless    *)
(* stop() aborted it.                                                      *)
LEMMA AcceptorPreserved ==
  TypeOK /\ OneAcceptor /\ NotAborted /\ [Next]_vars
    => OneAcceptor' /\ NotAborted'
<1> SUFFICES ASSUME TypeOK, OneAcceptor, NotAborted, [Next]_vars
             PROVE  OneAcceptor' /\ NotAborted'
  OBVIOUS
<1> USE DEF TypeOK, OneAcceptor, NotAborted, Waiting, Queued
<1>1. ASSUME NEW c \in Conns, NEW r \in {"ok", "failed"}, Completes(c, r)
      PROVE  OneAcceptor' /\ NotAborted'
  BY <1>1 DEF Completes
<1>2. ASSUME NEW c \in Conns, Accepted(c)
      PROVE  OneAcceptor' /\ NotAborted'
  <2>1. CASE stopping = "no"
    <3>1. PICK d \in Conns, p \in {"head", "dying"} : AcceptNext(c, d, p)
      BY <1>2, <2>1 DEF Accepted
    <3>2. at[c] = "accepted" /\ stopping' = stopping
      BY <1>2 DEF Accepted
    <3>3. \A b \in Conns : at[b] \in {"accept", "accepted"} <=> b = c
      BY <2>1, <3>2
    <3>4. \A b \in Conns : at'[b] \in {"accept", "accepted"} <=> b = d
      BY <2>1, <3>1, <3>2, <3>3 DEF AcceptNext
    <3> QED
      BY <2>1, <3>1, <3>4 DEF AcceptNext
  <2>2. CASE stopping # "no"
    BY <1>2, <2>2 DEF Accepted
  <2> QED
    BY <2>1, <2>2
<1>3. ASSUME NEW c \in Conns, HeadDone(c) \/ BodyDone(c) \/ Find(c) \/ Sent(c)
      PROVE  OneAcceptor' /\ NotAborted'
  BY <1>3 DEF HeadDone, BodyDone, Find, Sent, Drop, GoOn
<1>4. ASSUME NEW c \in Conns, Delete(c) \/ Abandon(c)
      PROVE  OneAcceptor' /\ NotAborted'
  BY <1>4 DEF Delete, Abandon, GoOn
<1>5. ASSUME NEW c \in Conns, Expires(c) \/ TimesOut(c)
      PROVE  OneAcceptor' /\ NotAborted'
  BY <1>5 DEF Expires, TimesOut, chain
<1>6. CASE Stops
  BY <1>6 DEF Stops, StopAcceptor, StopConnections, StopIo, Join, chain
<1>7. CASE UNCHANGED vars
  BY <1>7 DEF vars, chain
<1> QED
  BY <1>1, <1>2, <1>3, <1>4, <1>5, <1>6, <1>7 DEF Next, Handles

----------------------------------------------------------------------------
(* The inductive invariant of the server. *)
THEOREM ServerInvariant == Spec => []ServerInv
<1>1. Init => ServerInv
  BY DEF Init, ServerInv, TypeOK, Points, Waiting, Queued, Registered,
         GuardedOn, OneAcceptor, NotAborted
<1>2. ServerInv /\ [Next]_vars => ServerInv'
  BY TypePreserved, RegisteredPreserved, GuardedPreserved, AcceptorPreserved
  DEF ServerInv
<1> QED
  BY <1>1, <1>2, PTL DEF Spec

(* stop() touches no connection that is deleted, and misses none. *)
THEOREM StopFindsAll == Spec => []Registered
BY ServerInvariant, PTL DEF ServerInv

(* What a client keeps waiting is closed in the end by its timer. *)
THEOREM NoUnguardedWait == Spec => []Guarded
<1>1. ServerInv => Guarded
  BY DEF ServerInv, GuardedOn, Guarded
<1> QED
  BY <1>1, ServerInvariant, PTL

(* The server accepts, and one connection at a time. *)
THEOREM AlwaysAccepting == Spec => []OneAcceptor
BY ServerInvariant, PTL DEF ServerInv

----------------------------------------------------------------------------
(* What the liveness of the server rests on: how far a connection is from  *)
(* the end of its wait, and how far all are from being deleted.            *)

(* A connection that waits for its client: its socket is shut down, or a   *)
(* handler of its timer will do that, or the timer has still to run out.   *)
Distance(c) == IF shut[c] THEN 0 ELSE IF lapsed[c] > 0 THEN 1 ELSE 2

(* For as long as a connection waits for its client no step of anybody     *)
(* takes it farther from the end of the wait: the timeout is not set anew, *)
(* a handler of the timer is not lost, and a socket is not opened again.   *)
(* The timer running out, and its handler, bring it closer.                *)
WaitsComeCloser ==
  [][\A c \in Conns :
       at[c] \in {"head", "body", "send"} /\ at'[c] = at[c] =>
         /\ Distance(c)' <= Distance(c)
         /\ armed[c] /\ ~armed'[c] => Distance(c)' <= 1
         /\ lapsed'[c] < lapsed[c] => Distance(c)' = 0]_vars

(* Once start() has returned nothing is accepted, read or handled any      *)
(* more: every step destroys a connection, or the last thing that held it. *)
Remaining(c) == IF at[c] = "free" THEN 0
                ELSE IF at[c] = "dying" THEN 1 ELSE 2
JoinedOnlyEnds ==
  [][stopping = "joined" =>
       \E c \in Conns : /\ Remaining(c)' = Remaining(c) - 1
                        /\ at' = [at EXCEPT ![c] = at'[c]]]_vars

(* No thread is in a handler once start() has returned. *)
NoneInHandler == stopping = "joined" => \A c \in Conns : at[c] # "find"

LEMMA NoneInHandlerPreserved ==
  TypeOK /\ NoneInHandler /\ [Next]_vars => NoneInHandler'
<1> SUFFICES ASSUME TypeOK, NoneInHandler, [Next]_vars PROVE NoneInHandler'
  OBVIOUS
<1> USE DEF TypeOK, NoneInHandler, Waiting, Queued, IoStopped
<1>1. ASSUME NEW c \in Conns, NEW r \in {"ok", "failed"}, Completes(c, r)
      PROVE  NoneInHandler'
  BY <1>1 DEF Completes
<1>2. ASSUME NEW c \in Conns, Accepted(c) \/ HeadDone(c) \/ BodyDone(c)
                              \/ Sent(c)
      PROVE  NoneInHandler'
  BY <1>2 DEF Accepted, HeadDone, BodyDone, Sent
<1>3. ASSUME NEW c \in Conns, Find(c) \/ Delete(c) \/ Abandon(c)
      PROVE  NoneInHandler'
  BY <1>3 DEF Find, Delete, Abandon, Drop, GoOn
<1>4. ASSUME NEW c \in Conns, Expires(c) \/ TimesOut(c)
      PROVE  NoneInHandler'
  BY <1>4 DEF Expires, TimesOut, chain
<1>5. CASE Stops
  BY <1>5 DEF Stops, StopAcceptor, StopConnections, StopIo, Join, chain
<1>6. CASE UNCHANGED vars
  BY <1>6 DEF vars, chain
<1> QED
  BY <1>1, <1>2, <1>3, <1>4, <1>5, <1>6 DEF Next, Handles

LEMMA StepComesCloser ==
  ASSUME TypeOK, Next, NEW c \in Conns,
         at[c] \in {"head", "body", "send"}, at'[c] = at[c]
  PROVE  /\ Distance(c)' <= Distance(c)
         /\ armed[c] /\ ~armed'[c] => Distance(c)' <= 1
         /\ lapsed'[c] < lapsed[c] => Distance(c)' = 0
<1>1. lapsed[c] \in Nat /\ shut[c] \in BOOLEAN /\ armed[c] \in BOOLEAN
  BY DEF TypeOK
<1>2. CASE /\ lapsed'[c] = lapsed[c]
           /\ shut[c] => shut'[c]
           /\ armed[c] => armed'[c]
  BY <1>1, <1>2 DEF Distance
<1>3. ASSUME NEW d \in Conns, NEW r \in {"ok", "failed"}, Completes(d, r)
      PROVE  lapsed' = lapsed /\ shut' = shut /\ armed' = armed
  BY <1>3 DEF Completes, timer
<1>4. ASSUME NEW d \in Conns, Handles(d)
      PROVE  /\ lapsed'[c] = lapsed[c] /\ shut'[c] = shut[c]
             /\ armed[c] => armed'[c]
  <2>1. CASE Accepted(d)
    BY <2>1 DEF Accepted, AcceptNext, SetTimeout, Drop, GoOn, TypeOK
  <2>2. CASE HeadDone(d) \/ BodyDone(d) \/ Find(d)
    BY <2>2 DEF HeadDone, BodyDone, Find, SetTimeout, TypeOK, timer
  <2>3. CASE Sent(d) \/ Delete(d) \/ Abandon(d)
    <3>1. d # c
      BY <2>3 DEF Sent, Delete, Abandon, Drop, GoOn, TypeOK
    <3> QED
      BY <2>3, <3>1
         DEF Sent, Delete, Abandon, SetTimeout, CancelTimeout, TypeOK, timer
  <2> QED
    BY <1>4, <2>1, <2>2, <2>3 DEF Handles
<1>5. ASSUME NEW d \in Conns, Expires(d) PROVE
        \/ UNCHANGED <<lapsed[c], shut[c], armed[c]>>
        \/ lapsed'[c] = lapsed[c] + 1 /\ shut'[c] = shut[c]
  BY <1>5 DEF Expires, TypeOK
<1>6. ASSUME NEW d \in Conns, TimesOut(d) PROVE
        \/ UNCHANGED <<lapsed[c], shut[c], armed[c]>>
        \/ shut'[c] /\ armed'[c] = armed[c]
  BY <1>6 DEF TimesOut, TypeOK
<1>7. ASSUME Stops
      PROVE  /\ lapsed' = lapsed /\ armed' = armed
             /\ shut[c] => shut'[c]
  BY <1>7 DEF Stops, StopAcceptor, StopConnections, StopIo, Join, timer
<1>8. CASE lapsed'[c] = lapsed[c] + 1 /\ shut'[c] = shut[c]
  BY <1>1, <1>8 DEF Distance
<1>9. CASE shut'[c] /\ armed'[c] = armed[c]
  BY <1>1, <1>9 DEF Distance
<1> QED
  BY <1>2, <1>3, <1>4, <1>5, <1>6, <1>7, <1>8, <1>9 DEF Next

LEMMA StepOnlyEnds ==
  ASSUME TypeOK, NoneInHandler, Next, stopping = "joined"
  PROVE  \E c \in Conns : /\ Remaining(c)' = Remaining(c) - 1
                          /\ at' = [at EXCEPT ![c] = at'[c]]
<1> USE DEF TypeOK, Waiting, Queued, IoStopped
<1>1. PICK c \in Conns : Delete(c) \/ Abandon(c)
  BY DEF Next, Handles, NoneInHandler, Completes, Accepted, HeadDone,
         BodyDone, Find, Sent, Expires, TimesOut, Stops, StopAcceptor,
         StopConnections, StopIo, Join
<1>2. CASE Delete(c)
  <2>1. at[c] = "dying" /\ at' = [at EXCEPT ![c] = "free"]
    BY <1>2 DEF Delete, GoOn
  <2>2. at'[c] = "free"
    BY <2>1
  <2>3. Remaining(c) = 1 /\ Remaining(c)' = 0
    BY <2>1, <2>2 DEF Remaining
  <2>4. at' = [at EXCEPT ![c] = at'[c]]
    BY <2>1, <2>2
  <2> QED
    BY <2>3, <2>4
<1>3. CASE Abandon(c)
  <2>1. at[c] \notin {"free", "dying"} /\ at' = [at EXCEPT ![c] = "dying"]
    BY <1>3 DEF Abandon, GoOn
  <2>2. at'[c] = "dying"
    BY <2>1
  <2>3. Remaining(c) = 2 /\ Remaining(c)' = 1
    BY <2>1, <2>2 DEF Remaining
  <2>4. at' = [at EXCEPT ![c] = at'[c]]
    BY <2>1, <2>2
  <2> QED
    BY <2>3, <2>4
<1> QED
  BY <1>1, <1>2, <1>3

(* The wait for a client only ever comes closer to its end, whatever the   *)
(* clients, the other connections and stop() do: what is left of `Settled' *)
(* is that timers run out and queued handlers are called.                  *)
THEOREM WaitsEndSooner == Spec => WaitsComeCloser
<1>1. ServerInv /\ [Next]_vars =>
        [\A c \in Conns :
           at[c] \in {"head", "body", "send"} /\ at'[c] = at[c] =>
             /\ Distance(c)' <= Distance(c)
             /\ armed[c] /\ ~armed'[c] => Distance(c)' <= 1
             /\ lapsed'[c] < lapsed[c] => Distance(c)' = 0]_vars
  BY StepComesCloser DEF ServerInv
<1> QED
  BY <1>1, ServerInvariant, PTL DEF Spec, WaitsComeCloser

(* After start() has returned at most two steps are left for each          *)
(* connection, and nothing starts another: what is left of `StopEndsAll'   *)
(* is that the steps are made.                                             *)
THEOREM NothingAfterJoin == Spec => JoinedOnlyEnds
<1>1. Init => NoneInHandler
  BY DEF Init, NoneInHandler
<1>2. ServerInv /\ NoneInHandler /\ [Next]_vars => NoneInHandler'
  BY NoneInHandlerPreserved DEF ServerInv
<1>3. ServerInv /\ NoneInHandler /\ [Next]_vars =>
        [stopping = "joined" =>
           \E c \in Conns : /\ Remaining(c)' = Remaining(c) - 1
                            /\ at' = [at EXCEPT ![c] = at'[c]]]_vars
  BY StepOnlyEnds DEF ServerInv
<1> QED
  BY <1>1, <1>2, <1>3, ServerInvariant, PTL DEF Spec, JoinedOnlyEnds
=============================================================================
