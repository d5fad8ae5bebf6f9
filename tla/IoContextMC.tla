----------------------------- MODULE IoContextMC -----------------------------
(***************************************************************************)
(* Small pools: three threads serving one connection; two threads with a   *)
(* connection and its timer; two threads that accept two connections.      *)
(***************************************************************************)
EXTENDS IoContext

CONSTANTS t1, t2, t3, c1, c2

McThreads == {t1, t2, t3}
McConns   == {c1, c2}

McInit == \/ Starts({t1, t2, t3}, {c1}, {}, 2)
          \/ Starts({t1, t2}, {c1}, {c1}, 2)
          \/ Starts({t1, t2}, {Listener}, {}, 3)
McSpec == McInit /\ [][Next]_vars /\ Fairness

(* With SIGINT at every moment, also inside a critical section. *)
InsideNext == Next \/ \E t \in Threads : SigintInside(t)
InsideSpec == McInit /\ [][InsideNext]_vars /\ Fairness
=============================================================================
