----------------------------- MODULE HandlerPool -----------------------------
(***************************************************************************)
(* What the programs above an io_context rely on: an asynchronous          *)
(* operation that was started has its handler called once, by one thread   *)
(* of the pool, and as long as the pool is not stopped it will be.         *)
(***************************************************************************)
CONSTANT Ops

VARIABLES
  state,  \* of each operation: "idle", "waiting", "ready" or "running"
  stopped \* the pool calls no more handlers

vars == <<state, stopped>>

Init == state \in [Ops -> {"idle", "waiting", "ready"}] /\ stopped = FALSE

(* A handler starts operations, its own again or others, which may be      *)
(* ready at once; an operation may complete and have its handler called in *)
(* one go.                                                                 *)
Moves == {<<"idle", "waiting">>, <<"idle", "ready">>,
          <<"running", "waiting">>, <<"running", "ready">>,
          <<"running", "idle">>, <<"waiting", "ready">>,
          <<"waiting", "running">>}

Run(o) == /\ ~stopped /\ state[o] = "ready"
          /\ state' = [state EXCEPT ![o] = "running"]
          /\ UNCHANGED stopped

Progress == /\ \A o \in Ops : \/ state'[o] = state[o]
                              \/ <<state[o], state'[o]>> \in Moves
            /\ stopped' \in {stopped, TRUE}

Next == Progress \/ \E o \in Ops : Run(o)

Spec == Init /\ [][Next]_vars /\ \A o \in Ops : WF_vars(Run(o))
=============================================================================
