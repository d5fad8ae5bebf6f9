------------------------------ MODULE IoContext ------------------------------
(***************************************************************************)
(* The io_context under the control server: threads that all call          *)
(* scheduler::run, sharing a queue of completed operations, and the        *)
(* epoll_reactor, which one of them runs at a time as the queue's "task".  *)
(*                                                                         *)
(* What a thread does while it holds the scheduler's mutex, or that of a   *)
(* descriptor, is one step.  The condition variable is signalled after the *)
(* mutex is released: a step of its own.                                   *)
(*                                                                         *)
(* Each connection is one socket with a chain of reads and one timer, used *)
(* as server_http.hpp does: the handler of a read starts the next one or   *)
(* drops the connection, that of the timer shuts the connection down.  The *)
(* listener is a socket whose reads are accepts: their handler starts the  *)
(* next accept, and the first read of the connection.                      *)
(*                                                                         *)
(* Definitions named _fault are seeded defects, variants of the one after. *)
(***************************************************************************)
EXTENDS Integers, FiniteSets, SequencesExt

CONSTANTS Threads,
          Conns,   \* connections
          Listener

Sockets == Conns \cup {Listener}
Nobody  == "nobody"
ASSUME ThreadsAssumption ==
  /\ IsFiniteSet(Threads) /\ IsFiniteSet(Conns)
  /\ Nobody \notin Threads /\ Listener \notin Conns

VARIABLES
  queue,       \* op_queue_
  stopped,     \* stopped_
  interrupted, \* task_interrupted_
  work,        \* outstanding_work_
  signalled,   \* bit 0 of the event's state_; its waiters are counted below
  todo,        \* per thread: program points still before it (<< >>: returned)
  op,          \* per thread: the operation it runs, or is about to enqueue
  priv,        \* per thread: private_op_queue
  privWork,    \* per thread: private_outstanding_work
  intr,        \* the interrupter's edge, not yet taken by epoll_wait
  edge,        \* the same of each connection's socket
  inbox,       \* messages in the socket, or connections to accept
  left,        \* messages the clients may still send
  pending,     \* a read waits in the descriptor's op_queue_
  timer,       \* "armed", "due" or "out" of the timer queue
  shut,        \* the socket has been shut down
  alive,       \* the connection object: "new", "open" or "gone"
  holder,      \* a thread interrupted for ever while it holds the mutex
  asked        \* SIGINT has been received

sched  == <<queue, stopped, interrupted, signalled, intr>>
thread == <<todo, op, priv, privWork>>
socket == <<edge, inbox, left, pending, timer, shut, alive>>
vars   == <<sched, work, thread, socket, holder, asked>>

(* Operations; ok tells how a read or a wait ended. *)
Task          == <<"task">>
Descriptor(c) == <<"descriptor", c>>
Read(c, ok)   == <<"read", c, ok>>
Wait(c, ok)   == <<"wait", c, ok>>
Callback      == <<"callback">> \* posted by start

At(t, label) == todo[t] # << >> /\ Head(todo[t]) = label
GoTo(t, labels) == todo' = [todo EXCEPT ![t] = labels]
Continue(t) == GoTo(t, Tail(todo[t]))
Waiters == {u \in Threads : At(u, "wait") \/ At(u, "woken")}

(* As the server starts with threads ts and sockets cs open: the task and  *)
(* the callback are queued, every socket has a read under way, those of tm *)
(* also a timer.                                                           *)
Starts(ts, cs, tm, messages) ==
  /\ queue = <<Task, Callback>> /\ stopped = FALSE /\ interrupted = TRUE
  /\ signalled = TRUE /\ intr = TRUE
  /\ work = Cardinality(cs) + Cardinality(tm) + 1
  /\ todo = [t \in Threads |-> IF t \in ts THEN <<"begin">> ELSE << >>]
  /\ op = [t \in Threads |-> Task]
  /\ priv = [t \in Threads |-> << >>] /\ privWork = [t \in Threads |-> 0]
  /\ edge = [c \in Sockets |-> FALSE] /\ shut = [c \in Sockets |-> FALSE]
  /\ inbox = [c \in Sockets |-> 0] /\ left = messages
  /\ pending = [c \in Sockets |-> c \in cs]
  /\ alive = [c \in Sockets |-> IF c \in cs THEN "open" ELSE "new"]
  /\ timer = [c \in Sockets |-> IF c \in tm THEN "armed" ELSE "out"]
  /\ holder = Nobody /\ asked = FALSE

Init == \E n \in Nat : Starts(Threads, {Listener}, {}, n)

----------------------------------------------------------------------------
(* The scheduler, its mutex held.                                          *)

(* wake_one_thread_and_unlock, with task_interrupted_ = i; afterwards t    *)
(* goes on with rest.                                                      *)
WakeOne_fault(t, i, rest) == \* does not interrupt the task
  /\ signalled' = TRUE
  /\ IF Waiters \ {t} # {} THEN GoTo(t, <<"signal">> \o rest)
     ELSE GoTo(t, rest)
  /\ interrupted' = i /\ intr' = intr
WakeOne(t, i, rest) ==
  /\ signalled' = TRUE
  /\ IF Waiters \ {t} # {}
     THEN /\ GoTo(t, <<"signal">> \o rest)
          /\ interrupted' = i /\ intr' = intr
     ELSE /\ GoTo(t, rest)
          /\ interrupted' = TRUE /\ intr' = (intr \/ ~i)

(* The loop of do_run_one, up to where it unlocks, with op_queue_ = q and  *)
(* task_interrupted_ = i.                                                  *)
Finds(t, q, i) ==
  \/ /\ stopped
     /\ GoTo(t, << >>)
     /\ queue' = q /\ interrupted' = i
     /\ UNCHANGED <<op, signalled, intr>>
  \/ /\ ~stopped /\ q = << >>
     /\ GoTo(t, <<"wait">>)
     /\ signalled' = FALSE
     /\ queue' = q /\ interrupted' = i
     /\ UNCHANGED <<op, intr>>
  \/ /\ ~stopped /\ q # << >> /\ Head(q) = Task
     /\ queue' = Tail(q)
     /\ op' = [op EXCEPT ![t] = Task]
     /\ interrupted' = (Tail(q) # << >>)
     /\ IF Tail(q) = << >>
        THEN GoTo(t, <<"poll">>) /\ UNCHANGED signalled
        ELSE /\ GoTo(t, IF Waiters \ {t} # {} THEN <<"signal", "peek">>
                        ELSE <<"peek">>)
             /\ signalled' = TRUE
     /\ UNCHANGED intr
  \/ /\ ~stopped /\ q # << >> /\ Head(q) # Task
     /\ queue' = Tail(q)
     /\ op' = [op EXCEPT ![t] = Head(q)]
     /\ IF Tail(q) = << >>
        THEN /\ GoTo(t, <<"run">>) /\ interrupted' = i
             /\ UNCHANGED <<signalled, intr>>
        ELSE WakeOne(t, i, <<"run">>)

(* scheduler::stop *)
StopAll_fault == \* does not interrupt epoll_wait
  /\ stopped' = TRUE /\ signalled' = TRUE
  /\ UNCHANGED <<queue, interrupted, intr>>
StopAll ==
  /\ stopped' = TRUE /\ signalled' = TRUE
  /\ interrupted' = TRUE /\ intr' = (intr \/ ~interrupted)
  /\ UNCHANGED queue

Broadcast == [u \in Threads |-> IF At(u, "wait") THEN <<"woken">> ELSE todo[u]]

----------------------------------------------------------------------------
(* Steps of a thread t                                                     *)

Free == holder = Nobody

(* run() *)
Begin(t) ==
  /\ At(t, "begin")
  /\ GoTo(t, IF work = 0 THEN <<"stop">> ELSE <<"loop">>)
  /\ UNCHANGED <<sched, work, op, priv, privWork, socket, holder, asked>>

(* The end of work_cleanup, and the loop. *)
Loop_fault(t) == \* keeps the thread's own operations
  /\ At(t, "loop") /\ Free
  /\ Finds(t, queue, interrupted)
  /\ UNCHANGED <<stopped, work, priv, privWork, socket, holder, asked>>
Loop(t) ==
  /\ At(t, "loop") /\ Free
  /\ Finds(t, queue \o priv[t], interrupted)
  /\ priv' = [priv EXCEPT ![t] = << >>]
  /\ UNCHANGED <<stopped, work, privWork, socket, holder, asked>>

(* task_cleanup, and the loop. *)
TaskReturns_fault(t) == \* the task before the operations it returned
  /\ At(t, "cleanup") /\ Free
  /\ work' = work + privWork[t]
  /\ Finds(t, queue \o <<Task>> \o priv[t], TRUE)
  /\ priv' = [priv EXCEPT ![t] = << >>]
  /\ privWork' = [privWork EXCEPT ![t] = 0]
  /\ UNCHANGED <<stopped, socket, holder, asked>>
TaskReturns(t) ==
  /\ At(t, "cleanup") /\ Free
  /\ work' = work + privWork[t]
  /\ Finds(t, queue \o priv[t] \o <<Task>>, TRUE)
  /\ priv' = [priv EXCEPT ![t] = << >>]
  /\ privWork' = [privWork EXCEPT ![t] = 0]
  /\ UNCHANGED <<stopped, socket, holder, asked>>

(* pthread_cond_wait returns, whether signalled or not. *)
Wakes(t) ==
  /\ At(t, "woken") /\ Free
  /\ \/ signalled /\ Finds(t, queue, interrupted)
     \/ ~signalled /\ GoTo(t, <<"wait">>) /\ UNCHANGED <<op, sched>>
  /\ UNCHANGED <<stopped, work, priv, privWork, socket, holder, asked>>
Spurious(t) ==
  /\ At(t, "wait") /\ GoTo(t, <<"woken">>)
  /\ UNCHANGED <<sched, work, op, priv, privWork, socket, holder, asked>>

(* pthread_cond_signal *)
Signal(t) ==
  /\ At(t, "signal")
  /\ \/ (\A u \in Threads : ~At(u, "wait")) /\ Continue(t)
     \/ \E u \in Threads :
          /\ At(u, "wait")
          /\ todo' = [todo EXCEPT ![t] = Tail(@), ![u] = <<"woken">>]
  /\ UNCHANGED <<sched, work, op, priv, privWork, socket, holder, asked>>

(* epoll_reactor::run: the events since the last call, each once; with     *)
(* none it blocks, unless the scheduler has handlers to run.               *)
Poll(t) ==
  LET ready == {c \in Sockets : edge[c]}
      due   == {c \in Sockets : timer[c] = "due"}
  IN
  /\ \/ At(t, "peek")
     \/ At(t, "poll") /\ (intr \/ ready # {} \/ due # {})
  /\ \E ds \in SetToSeqs({Descriptor(c) : c \in ready}),
        ws \in SetToSeqs({Wait(c, TRUE) : c \in due}) :
       priv' = [priv EXCEPT ![t] = ds \o ws]
  /\ edge' = [c \in Sockets |-> FALSE] /\ intr' = FALSE
  /\ timer' = [c \in Sockets |-> IF c \in due THEN "out" ELSE timer[c]]
  /\ GoTo(t, <<"cleanup">>)
  /\ UNCHANGED <<queue, stopped, interrupted, signalled, work, op, privWork,
                 inbox, left, pending, shut, alive, holder, asked>>

(* recv on a non-blocking socket: as much as there is, or fits; after a    *)
(* shutdown the end of the stream.                                         *)
Readable(c) == inbox[c] > 0 \/ shut[c]
Amounts(c) == IF inbox[c] = 0 THEN {0}
              ELSE IF c = Listener THEN {1} ELSE 1 .. inbox[c]
Receive(c) == \E n \in Amounts(c) :
                inbox' = [inbox EXCEPT ![c] = @ - n]

(* perform_io: the read that waits is completed, and its handler called,   *)
(* or the work that will be counted as finished is made up for.            *)
Perform_fault(t) == \* does not make up for it
  /\ At(t, "run") /\ op[t][1] = "descriptor"
  /\ LET c == op[t][2] IN
     \/ /\ pending[c] /\ Readable(c) /\ Receive(c)
        /\ pending' = [pending EXCEPT ![c] = FALSE]
        /\ op' = [op EXCEPT ![t] = Read(c, inbox[c] > 0)]
        /\ UNCHANGED <<privWork, todo>>
     \/ /\ ~(pending[c] /\ Readable(c))
        /\ GoTo(t, <<"leave">>)
        /\ UNCHANGED <<privWork, op, inbox, pending>>
  /\ UNCHANGED <<sched, work, priv, edge, left, timer, shut, alive, holder,
                 asked>>
Perform(t) ==
  /\ At(t, "run") /\ op[t][1] = "descriptor"
  /\ LET c == op[t][2] IN
     \/ /\ pending[c] /\ Readable(c) /\ Receive(c)
        /\ pending' = [pending EXCEPT ![c] = FALSE]
        /\ op' = [op EXCEPT ![t] = Read(c, inbox[c] > 0)]
        /\ UNCHANGED <<privWork, todo>>
     \/ /\ ~(pending[c] /\ Readable(c))
        /\ privWork' = [privWork EXCEPT ![t] = @ + 1]
        /\ GoTo(t, <<"leave">>)
        /\ UNCHANGED <<op, inbox, pending>>
  /\ UNCHANGED <<sched, work, priv, edge, left, timer, shut, alive, holder,
                 asked>>

(* start_op tries a read at once.  What completes goes to the queue, or to *)
(* the thread's own one when the read continues a composed operation.      *)
StartRead_fault(t, c, rest) == \* waits for an event without trying
  /\ pending' = [pending EXCEPT ![c] = TRUE]
  /\ work' = work + 1
  /\ GoTo(t, rest)
  /\ UNCHANGED <<op, inbox, priv, privWork>>
StartRead(t, c, rest) ==
  LET done == Read(c, inbox[c] > 0) IN
  \/ /\ Readable(c) /\ Receive(c)
     /\ \/ /\ priv' = [priv EXCEPT ![t] = Append(@, done)]
           /\ privWork' = [privWork EXCEPT ![t] = @ + 1]
           /\ GoTo(t, rest)
           /\ c # Listener
           /\ UNCHANGED <<work, op>>
        \/ /\ work' = work + 1
           /\ op' = [op EXCEPT ![t] = done]
           /\ GoTo(t, <<"enqueue">> \o rest)
           /\ UNCHANGED <<priv, privWork>>
     /\ UNCHANGED pending
  \/ /\ ~Readable(c)
     /\ pending' = [pending EXCEPT ![c] = TRUE]
     /\ work' = work + 1
     /\ GoTo(t, rest)
     /\ UNCHANGED <<op, inbox, priv, privWork>>

(* The handler of a read starts the next one.                              *)
ReadsOn(t) ==
  /\ At(t, "run") /\ op[t][1] = "read" /\ op[t][3]
  /\ StartRead(t, op[t][2], IF op[t][2] = Listener THEN <<"first", "leave">>
                            ELSE <<"leave">>)
  /\ UNCHANGED <<sched, edge, left, timer, shut, alive, holder, asked>>

(* The first read of a connection just accepted. *)
FirstRead(t) ==
  /\ At(t, "first")
  /\ \E c \in Conns :
       /\ alive[c] = "new"
       /\ alive' = [alive EXCEPT ![c] = "open"]
       /\ edge' = [edge EXCEPT ![c] = inbox[c] > 0]
       /\ StartRead(t, c, <<"leave">>)
  /\ UNCHANGED <<sched, left, timer, shut, holder, asked>>

(* It drops the connection instead: the socket is closed, and a timer that *)
(* still runs is cancelled.                                                *)
Drops(t) ==
  /\ At(t, "run") /\ op[t][1] = "read" /\ op[t][2] # Listener
  /\ LET c == op[t][2] IN
     /\ alive' = [alive EXCEPT ![c] = "gone"]
     /\ edge' = [edge EXCEPT ![c] = FALSE]
     /\ inbox' = [inbox EXCEPT ![c] = 0]
     /\ timer' = [timer EXCEPT ![c] = "out"]
     /\ IF timer[c] = "out"
        THEN GoTo(t, <<"leave">>) /\ UNCHANGED op
        ELSE /\ GoTo(t, <<"enqueue", "leave">>)
             /\ op' = [op EXCEPT ![t] = Wait(c, FALSE)]
  /\ UNCHANGED <<sched, work, priv, privWork, left, pending, shut, holder,
                 asked>>

(* The timer's handler closes the connection, if it still exists: it shuts *)
(* the socket down and cancels the read that waits.                        *)
TimesOut(t) ==
  /\ At(t, "run") /\ op[t][1] = "wait"
  /\ GoTo(t, IF op[t][3] /\ alive[op[t][2]] = "open"
             THEN <<"shutdown", "cancel", "leave">> ELSE <<"leave">>)
  /\ UNCHANGED <<sched, work, op, priv, privWork, socket, holder, asked>>

Shutdown(t) ==
  /\ At(t, "shutdown")
  /\ LET c == op[t][2] IN /\ shut' = [shut EXCEPT ![c] = TRUE]
                          /\ edge' = [edge EXCEPT ![c] = alive[c] = "open"]
  /\ Continue(t)
  /\ UNCHANGED <<sched, work, op, priv, privWork, inbox, left, pending, timer,
                 alive, holder, asked>>

Cancel(t) ==
  /\ At(t, "cancel")
  /\ LET c == op[t][2] IN
     IF pending[c]
     THEN /\ pending' = [pending EXCEPT ![c] = FALSE]
          /\ op' = [op EXCEPT ![t] = Read(c, FALSE)]
          /\ GoTo(t, <<"enqueue", "leave">>)
     ELSE Continue(t) /\ UNCHANGED <<pending, op>>
  /\ UNCHANGED <<sched, work, priv, privWork, edge, inbox, left, timer, shut,
                 alive, holder, asked>>

Called(t) ==
  /\ At(t, "run") /\ op[t] = Callback
  /\ GoTo(t, <<"leave">>)
  /\ UNCHANGED <<sched, work, op, priv, privWork, socket, holder, asked>>

(* post_immediate_completion (whose work is counted already) and           *)
(* post_deferred_completions.                                              *)
Enqueue(t) ==
  /\ At(t, "enqueue") /\ Free
  /\ queue' = Append(queue, op[t])
  /\ WakeOne(t, interrupted, Tail(todo[t]))
  /\ UNCHANGED <<stopped, work, op, priv, privWork, socket, holder, asked>>

(* work_cleanup: the work the handler started against its own that ends.   *)
Leave(t) ==
  /\ At(t, "leave")
  /\ work' = work + privWork[t] - 1
  /\ privWork' = [privWork EXCEPT ![t] = 0]
  /\ GoTo(t, IF work' = 0 /\ privWork[t] = 0 THEN <<"stop", "loop">>
             ELSE <<"loop">>)
  /\ UNCHANGED <<sched, op, priv, socket, holder, asked>>

Stop(t) ==
  /\ At(t, "stop") /\ Free
  /\ StopAll
  /\ todo' = [Broadcast EXCEPT ![t] = Tail(@)]
  /\ UNCHANGED <<work, op, priv, privWork, socket, holder, asked>>

Step(t) ==
  \/ Begin(t) \/ Loop(t) \/ TaskReturns(t) \/ Wakes(t) \/ Signal(t) \/ Poll(t)
  \/ Perform(t) \/ ReadsOn(t) \/ FirstRead(t) \/ Drops(t) \/ TimesOut(t)
  \/ Shutdown(t)
  \/ Cancel(t) \/ Called(t) \/ Enqueue(t) \/ Leave(t) \/ Stop(t)

----------------------------------------------------------------------------
(* Where the operation of a kind of connection c is, besides the reactor.  *)
IsOp(o, kind, c) == Len(o) > 1 /\ o[1] = kind /\ o[2] = c
InQueues(kind, c) ==
  {<<Nobody, i>> : i \in {j \in DOMAIN queue : IsOp(queue[j], kind, c)}}
  \cup UNION {{<<t, i>> : i \in {j \in DOMAIN priv[t] : IsOp(priv[t][j], kind, c)}}
              : t \in Threads}
Enqueuing(kind, c) == {t \in Threads : /\ IsOp(op[t], kind, c)
                                       /\ Contains(todo[t], "enqueue")}
Running(kind, c) == {t \in Threads : /\ IsOp(op[t], kind, c)
                                     /\ Contains(todo[t], "run")}
Places(kind, c) == Cardinality(InQueues(kind, c))
                     + Cardinality(Enqueuing(kind, c))
                     + Cardinality(Running(kind, c))

----------------------------------------------------------------------------
(* The world around                                                        *)

(* A client connects, and may send before the connection is accepted.      *)
Connect ==
  /\ alive[Listener] = "open" /\ left > 0
  /\ inbox[Listener] < Cardinality({c \in Conns : alive[c] = "new"})
       - Cardinality({t \in Threads : Contains(todo[t], "first")})
       - Places("read", Listener)
  /\ left' = left - 1
  /\ inbox' = [inbox EXCEPT ![Listener] = @ + 1]
  /\ edge' = [edge EXCEPT ![Listener] = TRUE]
  /\ UNCHANGED <<sched, work, thread, pending, timer, shut, alive, holder,
                 asked>>

Send(c) ==
  /\ alive[c] = "open" \/ (alive[c] = "new" /\ inbox[Listener] > 0)
  /\ ~shut[c] /\ left > 0
  /\ left' = left - 1
  /\ inbox' = [inbox EXCEPT ![c] = @ + 1]
  /\ edge' = [edge EXCEPT ![c] = alive[c] = "open"]
  /\ UNCHANGED <<sched, work, thread, pending, timer, shut, alive, holder,
                 asked>>

Expires(c) ==
  /\ timer[c] = "armed" /\ timer' = [timer EXCEPT ![c] = "due"]
  /\ UNCHANGED <<sched, work, thread, edge, inbox, left, pending, shut, alive,
                 holder, asked>>

(* SIGINT: its handler stops the io_context, on whichever thread it came;  *)
(* epoll_wait returns early.                                               *)
Sigint(t) ==
  /\ ~asked /\ Free /\ todo[t] # << >>
  /\ StopAll
  /\ todo' = [Broadcast EXCEPT ![t] = IF At(t, "poll") THEN <<"cleanup">> ELSE @]
  /\ asked' = TRUE
  /\ UNCHANGED <<work, op, priv, privWork, socket, holder>>

(* It may come to a thread that holds the mutex, which its handler then    *)
(* waits for on the same thread.  Not part of Next: IoContextMC adds it.   *)
Critical == {"loop", "cleanup", "woken", "enqueue", "stop"}
SigintInside(t) ==
  /\ ~asked /\ Free /\ \E label \in Critical : At(t, label)
  /\ holder' = t /\ asked' = TRUE
  /\ UNCHANGED <<sched, work, thread, socket>>

Next ==
  \/ \E t \in Threads : Step(t) \/ Spurious(t) \/ Sigint(t)
  \/ Connect
  \/ \E c \in Conns : Send(c) \/ Expires(c)

(* Every thread is scheduled and gets the mutex it waits for, and time     *)
(* passes.                                                                 *)
Fairness == /\ \A t \in Threads : WF_vars(Step(t))
            /\ \A c \in Conns : WF_vars(Expires(c))
Spec == Init /\ [][Next]_vars /\ Fairness

----------------------------------------------------------------------------
(* An operation is in one place at a time: the read of a connection is     *)
(* waiting in its descriptor, completed in one queue, or in the hands of   *)
(* one thread, and is never lost while the connection lives; its timer's   *)
(* wait the same; and the descriptor itself, linked into the queues by a   *)
(* pointer of its own, is queued once, as a comment in epoll_reactor::run  *)
(* says.                                                                   *)
OnePlaceEach ==
  \A c \in Sockets :
    /\ Places("read", c) + (IF pending[c] THEN 1 ELSE 0)
         = IF alive[c] = "open" THEN 1 ELSE 0
    /\ Places("wait", c) + (IF timer[c] = "out" THEN 0 ELSE 1) <= 1
    /\ Cardinality(InQueues("descriptor", c)) <= 1

(* Unless asked to, the pool does not stop while an operation is under     *)
(* way: a descriptor event that completes nothing is not the end of any.   *)
NoEarlyStop ==
  stopped /\ ~asked =>
    \A c \in Sockets : alive[c] # "open" /\ timer[c] = "out" /\ Places("wait", c) = 0

(* No thread sleeps on while a handler is queued and all that are awake    *)
(* are busy with handlers of their own: one is on its way to the queue, or *)
(* the one in epoll_wait has been interrupted.                             *)
Events == intr \/ \E c \in Sockets : edge[c] \/ timer[c] = "due"
Asleep(t) == At(t, "wait") \/ (At(t, "poll") /\ ~Events)
Busy(t) == todo[t] = << >> \/ \E label \in {"run", "enqueue", "first", "shutdown", "cancel"} :
                                At(t, label)
NoneSleepsOn ==
  ~stopped /\ (\E i \in DOMAIN queue : queue[i] # Task)
           /\ (\E t \in Threads : Asleep(t))
    => \E t \in Threads : ~Asleep(t) /\ ~Busy(t)

(* Stopped, or with nothing left to do, every thread returns from run():   *)
(* none sleeps on, in the condition variable or in epoll_wait.             *)
Idle == \A c \in Sockets : alive[c] # "open" /\ timer[c] = "out"
ThreadsReturn == (stopped \/ Idle) ~> \A t \in Threads : todo[t] = << >>

(* What SIGINT's handler announces ("exiting..."). *)
SigintEnds == asked ~> \A t \in Threads : todo[t] = << >>

StateOf(kind, c) ==
  IF Running(kind, c) # {} THEN "running"
  ELSE IF Places(kind, c) > 0 THEN "ready"
  ELSE IF (kind = "read" /\ pending[c]) \/ (kind = "wait" /\ timer[c] # "out")
  THEN "waiting" ELSE "idle"

PoolOps == ({"read"} \X Sockets) \cup ({"wait"} \X Sockets)
Pool == INSTANCE HandlerPool WITH
          Ops <- PoolOps, state <- [o \in PoolOps |-> StateOf(o[1], o[2])]

(* Every completed operation has its handler called, once, until the pool  *)
(* is stopped: no wakeup is lost between the condition variable, the       *)
(* interrupter and epoll_wait.                                             *)
ImplementsPool == Pool!Spec

(* A message a client sent is read, though its event came before the read  *)
(* was started, or while another thread served the descriptor.             *)
MessagesRead ==
  \A c \in Sockets :
    alive[c] = "open" /\ inbox[c] > 0 ~> inbox[c] = 0 \/ stopped
=============================================================================
