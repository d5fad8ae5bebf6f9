----------------------------- MODULE DividerDig -----------------------------
(***************************************************************************)
(* divider.v of task 1a, exported from a schematic: the same algorithm as  *)
(* Divider with two state bits and no look-ahead, so that BUSY lasts one   *)
(* cycle longer.  Its quotient output is not a register but the value the  *)
(* quotient register is about to latch.                                    *)
(* Definitions named _fault are seeded defects, variants of the one after. *)
(***************************************************************************)
EXTENDS Integers

CONSTANT N \* number of values of an operand (16)

VARIABLES
  Q1, Q0,                        \* state register: busy and finish
  subtrahend, quotient,          \* s9 and s12 of the netlist
  start_i, dividend_i, divisor_i \* inputs

regs   == <<Q1, Q0, subtrahend, quotient>>
inputs == <<start_i, dividend_i, divisor_i>>

Operand  == 0 .. N - 1
AllOnes  == 2 * N - 1
Quotient == 0 .. AllOnes

busy_o   == Q1
finish_o == Q0
INIT     == ~Q1 /\ ~Q0

sub_ge_div == subtrahend >= divisor_i \* s3

Q0next == (INIT /\ divisor_i = 0 /\ start_i) \/ (Q1 /\ ~sub_ge_div)
Q1next_fault == (INIT /\ divisor_i # 0 /\ start_i) \/ Q1 \* never left
Q1next == (INIT /\ divisor_i # 0 /\ start_i) \/ (Q1 /\ sub_ge_div)

(* BUSY subtracts on its last edge too, when it wraps. *)
subtrahend_next ==
  CASE INIT       -> dividend_i
    [] Q1 /\ ~Q0  -> (subtrahend - divisor_i) % N
    [] ~Q1 /\ Q0  -> subtrahend
    [] Q1 /\ Q0   -> 0

quotient_o_fault == \* without the detour for a zero divisor
  CASE INIT       -> 0
    [] Q1 /\ ~Q0  -> IF sub_ge_div THEN (quotient + 1) % (2 * N) ELSE quotient
    [] ~Q1 /\ Q0  -> quotient
    [] Q1 /\ Q0   -> 0
quotient_o ==
  CASE INIT       -> 0
    [] Q1 /\ ~Q0  -> IF sub_ge_div THEN (quotient + 1) % (2 * N) ELSE quotient
    [] ~Q1 /\ Q0  -> IF divisor_i = 0 /\ start_i THEN AllOnes ELSE quotient
    [] Q1 /\ Q0   -> 0

ClockEdge == /\ Q0' = Q0next /\ Q1' = Q1next
             /\ subtrahend' = subtrahend_next
             /\ quotient' = quotient_o

(* Clr of the three registers; they also power up as zero. *)
ResetRegs == Q1' = FALSE /\ Q0' = FALSE /\ subtrahend' = 0 /\ quotient' = 0
InitRegs  == Q1 = FALSE /\ Q0 = FALSE /\ subtrahend = 0 /\ quotient = 0
=============================================================================
