------------------------------ MODULE Dividers ------------------------------
(***************************************************************************)
(* The two dividers of the repository and their testbench.  A behaviour is *)
(* about one setting, which never changes: the divider of task 1b with its *)
(* user, that of task 1a with its user, or that of task 1a, at its real    *)
(* width, in testbed_divider.sv.  What a setting does not use stands       *)
(* still.                                                                  *)
(***************************************************************************)
EXTENDS DividerUse, Sequences

CONSTANTS
  BenchN, \* values of an operand in the testbench (16)
  Suites  \* contents its test file may have

(* A test file has at least one line; a line is a pair of operands. *)
Test == (0 .. BenchN - 1) \X (0 .. BenchN - 1)
ASSUME BenchAssumption ==
  /\ BenchN \in Nat \ {0}
  /\ \A s \in Suites : s \in Seq(Test) /\ s # << >>

VARIABLES
  setting,                      \* "1b", "1a" or "bench"
  Q1, Q0, subtrahend, quotient, \* the divider of task 1a,
  start1a, dividend1a, divisor1a, A1a, B1a, \* its inputs and history
  suite, pc, toWake, toEdge     \* the testbench

vars1a  == <<Q1, Q0, subtrahend, quotient,
             start1a, dividend1a, divisor1a, A1a, B1a>>
bench   == <<suite, pc, toWake, toEdge>>
allVars == <<vars, vars1a, bench, setting>>

Dig == INSTANCE DividerDigUse WITH
         start_i <- start1a, dividend_i <- dividend1a,
         divisor_i <- divisor1a, A <- A1a, B <- B1a
Bench == INSTANCE DividerTestbed WITH
           N <- BenchN, start_i <- start1a, dividend_i <- dividend1a,
           divisor_i <- divisor1a

AtRest1b == /\ InitRegs /\ start_i = FALSE /\ dividend_i = 0
            /\ divisor_i = 0 /\ A = 0 /\ B = 0
AtRest1a == /\ Dig!InitRegs /\ start1a = FALSE /\ dividend1a = 0
            /\ divisor1a = 0 /\ A1a = 0 /\ B1a = 0
NoBench  == suite = << >> /\ pc = "raise" /\ toWake = 0 /\ toEdge = 0

AllInit ==
  \/ setting = "1b" /\ Init /\ AtRest1a /\ NoBench
  \/ setting = "1a" /\ AtRest1b /\ Dig!Init /\ NoBench
  \/ setting = "bench" /\ AtRest1b /\ Bench!Init /\ A1a = 0 /\ B1a = 0

Only1b    == setting = "1b" /\ UNCHANGED <<vars1a, bench, setting>>
Only1a    == setting = "1a" /\ UNCHANGED <<vars, bench, setting>>
OnlyBench == setting = "bench" /\ UNCHANGED <<vars, A1a, B1a, setting>>

AllNext == \/ Only1b /\ Next
           \/ Only1a /\ Dig!Next
           \/ OnlyBench /\ Bench!Next

(* The clocks keep running, and simulation time advances as long as the    *)
(* testbench or its clock has something to do.                             *)
AllSpec == /\ AllInit /\ [][AllNext]_allVars
           /\ WF_allVars(Only1b /\ Clock)
           /\ WF_allVars(Only1a /\ Dig!Clock)
           /\ WF_allVars(OnlyBench /\ Bench!Next)

----------------------------------------------------------------------------
(* For the divider of task 1b, DivInv and ImplementsDivider of DividerUse. *)

(* The divider of task 1a shows the quotient although its output is not a  *)
(* register: while it is busy its registers account for the operands it    *)
(* was started with, and when it has finished the output is right for as   *)
(* long as the user holds start and divisor, and for another divisor than  *)
(* zero also after start has fallen.                                       *)
DigAnswers ==
  setting = "1a" =>
    Dig!Accounts /\ Dig!CorrectWhileHeld /\ Dig!CorrectWhenReleased

(* A division of task 1a that has begun comes to its end (or is reset). *)
DigFinishes == setting = "1a" /\ Dig!busy_o ~> ~Dig!busy_o

(* Every test of the file is run to its end and found right, although      *)
(* finish is high for one clock period only, at a moment that drifts       *)
(* against the testbench's delays.                                         *)
AllTestsPass == setting = "bench" ~> pc = "passed"
=============================================================================
