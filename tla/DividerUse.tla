----------------------------- MODULE DividerUse -----------------------------
(***************************************************************************)
(* The divider of task 1b under the protocol of its assignment: its user   *)
(* may change the inputs at any time between clock edges, but holds the    *)
(* divisor from the moment it raises start_i until finish_o rises.         *)
(***************************************************************************)
EXTENDS Divider

VARIABLES A, B \* history: the operands the present division started with

vars == <<regs, inputs, A, B>>

Init ==
  /\ InitRegs
  /\ start_i = FALSE /\ dividend_i \in Operand /\ divisor_i \in Operand
  /\ A = 0 /\ B = 0

Drive ==
  /\ start_i' \in BOOLEAN /\ dividend_i' \in Operand /\ divisor_i' \in Operand
  /\ (start_i \/ busy_o) /\ ~finish_o => divisor_i' = divisor_i
  /\ UNCHANGED <<regs, A, B>>

Starts == state_p = "INIT" /\ start_i

Clock ==
  /\ ClockEdge
  /\ A' = IF Starts THEN dividend_i ELSE A
  /\ B' = IF Starts THEN divisor_i ELSE B
  /\ UNCHANGED inputs

(* The asynchronous reset. *)
Reset == ResetRegs /\ UNCHANGED <<inputs, A, B>>

Next == Drive \/ Clock \/ Reset

SafeSpec == Init /\ [][Next]_vars
(* The clock keeps running. *)
Spec == SafeSpec /\ WF_vars(Clock)

----------------------------------------------------------------------------
TypeOK ==
  /\ state_p \in {"INIT", "BUSY", "FINISH"}
  /\ quotient_p \in Quotient /\ subtrahend_p \in Operand
  /\ start_i \in BOOLEAN /\ dividend_i \in Operand /\ divisor_i \in Operand
  /\ A \in Operand /\ B \in Operand

(* While it subtracts, quotient and remainder account for the dividend the *)
(* division started with, and the divisor is still that of the start.      *)
Accounts ==
  busy_o => /\ A = quotient_p * B + subtrahend_p
            /\ B = divisor_i /\ B # 0

(* The finished divider shows the quotient, or all ones for a zero divisor.*)
CorrectQuotient ==
  finish_o => quotient_o = IF B = 0 THEN AllOnes ELSE A \div B

DivInv == TypeOK /\ Accounts /\ CorrectQuotient

(* The divider implements its specification, termination included. *)
Promise == INSTANCE DividerSpec WITH
  phase <- IF busy_o THEN "running"
           ELSE IF finish_o THEN "finished" ELSE "idle",
  answer <- IF finish_o THEN quotient_o ELSE 0
ImplementsDivider == Promise!Spec
SafelyImplementsDivider == Promise!SafeSpec
=============================================================================
