---------------------------- MODULE DividerSpec ----------------------------
(***************************************************************************)
(* What a divider promises its user: after a start it finishes, and while  *)
(* it says so its answer is the quotient of the operands it was started    *)
(* with, or the value with all bits set if the divisor was zero.           *)
(***************************************************************************)
EXTENDS Integers

CONSTANT N \* number of values of an operand

VARIABLES phase, A, B, answer
vars == <<phase, A, B, answer>>

Operand == 0 .. N - 1
Expected(a, b) == IF b = 0 THEN 2 * N - 1 ELSE a \div b

Init == phase = "idle" /\ A \in Operand /\ B \in Operand /\ answer = 0

Answers(a, b) == phase' = "finished" /\ answer' = Expected(a, b)
Begin == /\ phase = "idle"
         /\ \E a, b \in Operand :
              /\ A' = a /\ B' = b
              /\ Answers(a, b) \/ (phase' = "running" /\ answer' = 0)
Finish == phase = "running" /\ Answers(A, B) /\ UNCHANGED <<A, B>>
Release == /\ phase = "finished"
           /\ phase' = "idle" /\ answer' = 0 /\ UNCHANGED <<A, B>>
Abort == phase' = "idle" /\ answer' = 0 /\ UNCHANGED <<A, B>>

Next == Begin \/ Finish \/ Release \/ Abort
SafeSpec == Init /\ [][Next]_vars
Spec == SafeSpec /\ WF_vars(Finish)
=============================================================================
