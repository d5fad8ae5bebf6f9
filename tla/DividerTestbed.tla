--------------------------- MODULE DividerTestbed ---------------------------
(***************************************************************************)
(* testbed_divider.sv around the divider of task 1a (task 1b has the same  *)
(* testbench): it reads tests from a file, gives each operand pair 120     *)
(* time units, raises start for another 120 and then waits for finish.     *)
(* The clock rises every 100 units, so the two processes drift against     *)
(* each other with every test.                                             *)
(*                                                                         *)
(* Time is counted in tens of units, relative to the next event of each    *)
(* process; events that fall on the same time happen in either order.  The *)
(* model starts at time 200, after the reset.                              *)
(***************************************************************************)
EXTENDS DividerDig, Sequences

CONSTANT Suites \* contents the test file may have: sequences of <<a, b>>

VARIABLES
  suite,  \* tests not yet completed: the head is the current one
  pc,     \* the testbench: before start = 1, before start = 0, at wait(finish)
  toWake, \* time until the testbench's delay is over
  toEdge  \* time until the clock rises

vars == <<regs, inputs, suite, pc, toWake, toEdge>>

Delay  == 12
Period == 10

Expected(test) == IF test[2] = 0 THEN AllOnes ELSE test[1] \div test[2]

Init ==
  /\ InitRegs
  /\ start_i = FALSE
  /\ suite \in Suites
  /\ dividend_i = Head(suite)[1] /\ divisor_i = Head(suite)[2]
  /\ pc = "raise" /\ toWake = Delay
  /\ toEdge = 5

Delayed == pc \in {"raise", "lower"}
Stopped == pc \in {"passed", "failed"}

(* The clock process: it goes first unless the testbench is due earlier,   *)
(* or runs already because finish has risen.                               *)
Edge ==
  /\ ~Stopped
  /\ Delayed => toEdge <= toWake
  /\ ~Delayed => ~finish_o
  /\ ClockEdge
  /\ toEdge' = Period
  /\ toWake' = IF Delayed THEN toWake - toEdge ELSE toWake
  /\ UNCHANGED <<inputs, suite, pc>>

Wakes == Delayed /\ toWake <= toEdge

Raise ==
  /\ pc = "raise" /\ Wakes
  /\ start_i' = TRUE
  /\ pc' = "lower" /\ toWake' = Delay /\ toEdge' = toEdge - toWake
  /\ UNCHANGED <<regs, dividend_i, divisor_i, suite>>

(* The comparison with the expected quotient, and the next line of the     *)
(* file.                                                                   *)
Compare ==
  /\ start_i' = FALSE
  /\ IF quotient_o # Expected(Head(suite))
     THEN pc' = "failed" /\ UNCHANGED <<dividend_i, divisor_i, suite, toWake>>
     ELSE IF Len(suite) = 1
     THEN pc' = "passed" /\ UNCHANGED <<dividend_i, divisor_i, suite, toWake>>
     ELSE /\ suite' = Tail(suite)
          /\ dividend_i' = suite'[1][1] /\ divisor_i' = suite'[1][2]
          /\ pc' = "raise" /\ toWake' = Delay

(* start = 0; wait (finish): when finish is high already the process does  *)
(* not yield between the two, and compares the quotient as it was before   *)
(* start fell.                                                             *)
Lower_fault == \* yields before it compares
  /\ pc = "lower" /\ Wakes
  /\ toEdge' = toEdge - toWake
  /\ start_i' = FALSE /\ pc' = "wait"
  /\ UNCHANGED <<regs, dividend_i, divisor_i, suite, toWake>>
Lower ==
  /\ pc = "lower" /\ Wakes
  /\ toEdge' = toEdge - toWake
  /\ \/ finish_o /\ Compare
     \/ /\ ~finish_o
        /\ start_i' = FALSE /\ pc' = "wait"
        /\ UNCHANGED <<dividend_i, divisor_i, suite, toWake>>
  /\ UNCHANGED regs

WaitReturns ==
  /\ pc = "wait" /\ finish_o
  /\ Compare
  /\ UNCHANGED <<regs, toEdge>>

Next == Edge \/ Raise \/ Lower \/ WaitReturns

(* Simulation time advances as long as a process has something to do. *)
Spec == Init /\ [][Next]_vars /\ WF_vars(Next)

----------------------------------------------------------------------------
(* Every test of the file is run to its end and found right, although      *)
(* finish is high for one clock period only, at a moment that drifts       *)
(* against the testbench's delays.                                         *)
AllTestsPass == <>(pc = "passed")
=============================================================================
