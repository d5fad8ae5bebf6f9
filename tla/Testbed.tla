------------------------------ MODULE Testbed ------------------------------
(***************************************************************************)
(* testbed.sv around the processor of task 2a: it pulses reset once, stops *)
(* a run that exceeds its cycle limit, and otherwise waits for cpu_finish, *)
(* lets seven half periods go by (three more rising edges) and stops.      *)
(*                                                                         *)
(* The reset pulse is part of PipeCpu's Init.  MaxResets further pulses    *)
(* are allowed at any time: the code's testbed has MaxResets = 0.          *)
(***************************************************************************)
EXTENDS PipeCpu

CONSTANTS MaxCycles, \* cycles before the testbed gives up (5000)
          DrainEdges, \* rising edges between finish and $finish (3)
          MaxResets

ASSUME TestbedAssumption ==
  MaxCycles \in Nat /\ DrainEdges \in Nat /\ MaxResets \in Nat

VARIABLES
  cnt,      \* clock cycles since the last reset
  drain,    \* rising edges left before $finish, once cpu_finish was seen
  finished, \* cpu_finish was seen: wait() has returned
  done,     \* $finish
  resets    \* reset pulses given

tbVars == <<vars, cnt, drain, finished, done, resets>>

TbInit ==
  /\ Init
  /\ cnt = 0 /\ drain = DrainEdges /\ finished = FALSE /\ done = FALSE
  /\ resets = 0

(* wait (cpu_finish) returns at the edge that raises it; it is level       *)
(* sensitive, and the processor's finish may be high for a single cycle.   *)
TbEdge(x) ==
  /\ ~done
  /\ cnt <= MaxCycles
  /\ finished => drain > 0
  /\ Clock(x)
  /\ cnt' = cnt + 1
  /\ drain' = IF finished THEN drain - 1 ELSE drain
  /\ finished' = (finished \/ cpu_finish')
  /\ UNCHANGED <<done, resets>>
TbClock == \E x \in XWords : TbEdge(x)

TbReset ==
  /\ ~done
  /\ resets < MaxResets
  /\ Reset
  /\ cnt' = 0
  /\ resets' = resets + 1
  /\ UNCHANGED <<drain, finished, done>>

TbFinish_fault == \* no cycle limit
  /\ ~done /\ finished /\ drain = 0
  /\ done' = TRUE
  /\ UNCHANGED <<vars, cnt, drain, finished, resets>>
(* The $finish after the drain, or of a program that ran too long. *)
TbFinish ==
  /\ ~done
  /\ (finished /\ drain = 0) \/ cnt > MaxCycles
  /\ done' = TRUE
  /\ UNCHANGED <<vars, cnt, drain, finished, resets>>

TbNext == TbClock \/ TbReset \/ TbFinish
TbSpec == TbInit /\ [][TbNext]_tbVars

(* Every simulation ends, also that of a program that loops or whose       *)
(* EBREAK is not recognised: the limit of 5000 cycles sees to it.          *)
SimulationEnds == <>done
=============================================================================
