--------------------------- MODULE DividerDigUse ---------------------------
(***************************************************************************)
(* The divider of task 1a under the protocol of its assignment, as         *)
(* DividerUse for task 1b: the user may change the inputs at any time      *)
(* between clock edges, but holds the divisor from the moment it raises    *)
(* start_i until finish_o rises.                                           *)
(***************************************************************************)
EXTENDS DividerDig

VARIABLES A, B \* history: the operands the present division started with

vars == <<regs, inputs, A, B>>

Init ==
  /\ InitRegs
  /\ start_i = FALSE /\ dividend_i \in Operand /\ divisor_i \in Operand
  /\ A = 0 /\ B = 0

Drive ==
  /\ start_i' \in BOOLEAN /\ dividend_i' \in Operand /\ divisor_i' \in Operand
  /\ (start_i \/ busy_o) /\ ~finish_o => divisor_i' = divisor_i
  /\ UNCHANGED <<regs, A, B>>

Starts == INIT /\ start_i

Clock ==
  /\ ClockEdge
  /\ A' = IF Starts THEN dividend_i ELSE A
  /\ B' = IF Starts THEN divisor_i ELSE B
  /\ UNCHANGED inputs

Reset == ResetRegs /\ UNCHANGED <<inputs, A, B>>

Next == Drive \/ Clock \/ Reset
(* The clock keeps running. *)
Spec == Init /\ [][Next]_vars /\ WF_vars(Clock)

----------------------------------------------------------------------------
(* Busy and finish exclude each other, and while the divider is busy its   *)
(* registers account for the dividend and divisor it was started with.     *)
Accounts ==
  /\ ~(busy_o /\ finish_o)
  /\ busy_o => /\ A = quotient * B + subtrahend
               /\ B = divisor_i /\ B # 0

(* As long as its user holds start and divisor, a finished divider shows   *)
(* the quotient of the operands it was started with, whatever the dividend *)
(* input does meanwhile; for a zero divisor it shows all ones.             *)
CorrectWhileHeld ==
  finish_o /\ start_i /\ divisor_i = B
    => quotient_o = IF B = 0 THEN AllOnes ELSE A \div B

(* For another divisor than zero the answer also survives the end of start *)
(* (all ones does not: it is lost when start falls before finish does).    *)
CorrectWhenReleased ==
  finish_o /\ ~start_i /\ B # 0 => quotient_o = A \div B

(* A division that has begun comes to its end (or is reset). *)
Finishes == busy_o ~> ~busy_o
=============================================================================
