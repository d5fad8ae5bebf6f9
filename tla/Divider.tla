------------------------------ MODULE Divider ------------------------------
(***************************************************************************)
(* divider.sv of task 1b: division by repeated subtraction in three states.*)
(* The operands have N values (2^8 in the code), the quotient one bit more.*)
(* Definitions named _fault are seeded defects, variants of the one after. *)
(* This module is the circuit; what drives start_i, dividend_i and         *)
(* divisor_i is the business of the module that uses it.                   *)
(***************************************************************************)
EXTENDS Integers

CONSTANT N
ASSUME NAssumption == N \in Nat \ {0}

VARIABLES
  state_p, quotient_p, subtrahend_p, \* registers
  start_i, dividend_i, divisor_i     \* inputs

regs   == <<state_p, quotient_p, subtrahend_p>>
inputs == <<start_i, dividend_i, divisor_i>>

Operand  == 0 .. N - 1
AllOnes  == 2 * N - 1
Quotient == 0 .. AllOnes

finish_o   == state_p = "FINISH"
busy_o     == state_p = "BUSY"
quotient_o == quotient_p

(* One subtraction is due. *)
Subtracts == state_p = "BUSY" /\ subtrahend_p >= divisor_i

subtrahend_n == IF state_p = "INIT" THEN dividend_i
                ELSE IF Subtracts THEN subtrahend_p - divisor_i
                ELSE subtrahend_p

quotient_kept_fault == \* counts on from the last answer
  IF Subtracts \/ (state_p = "INIT" /\ divisor_i = 0 /\ start_i)
  THEN (quotient_p + 1) % (2 * N) ELSE quotient_p
quotient_n == IF state_p = "INIT"
              THEN IF divisor_i = 0 /\ start_i THEN AllOnes ELSE 0
              ELSE IF Subtracts THEN (quotient_p + 1) % (2 * N)
              ELSE quotient_p

state_n_fault == \* waits for the remainder zero
  IF state_p = "INIT"
  THEN IF ~start_i THEN "INIT" ELSE IF divisor_i # 0 THEN "BUSY" ELSE "FINISH"
  ELSE IF state_p = "BUSY"
  THEN IF subtrahend_n # 0 THEN "BUSY" ELSE "FINISH"
  ELSE "INIT"
(* BUSY looks ahead: it is left on the edge that makes the remainder       *)
(* smaller than the divisor.                                               *)
state_n ==
  IF state_p = "INIT"
  THEN IF ~start_i THEN "INIT" ELSE IF divisor_i # 0 THEN "BUSY" ELSE "FINISH"
  ELSE IF state_p = "BUSY"
  THEN IF subtrahend_n >= divisor_i THEN "BUSY" ELSE "FINISH"
  ELSE "INIT"

ClockEdge == /\ state_p' = state_n
             /\ quotient_p' = quotient_n
             /\ subtrahend_p' = subtrahend_n

ResetRegs == state_p' = "INIT" /\ quotient_p' = 0 /\ subtrahend_p' = 0
InitRegs  == state_p = "INIT" /\ quotient_p = 0 /\ subtrahend_p = 0
=============================================================================
