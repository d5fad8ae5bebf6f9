------------------------------- MODULE PipeMC -------------------------------
(***************************************************************************)
(* The four-stage pipeline in its testbed, with small programs of every    *)
(* kind.  InterruptedProgram picks those that may be reset: a load, a load *)
(* or jump, and a store.                                                   *)
(***************************************************************************)
EXTENDS Testbed, PipeCpuProps, McPrograms

AllImages == DataImages \cup BranchImages \cup EbreakImages
               \cup ResetImages \cup OddImages

InterruptedProgram == /\ Fetch(mem, 0) \in {Kit[5], Kit[8]}
                      /\ Fetch(mem, 4) \in {Kit[6], Kit[11]}
                      /\ Fetch(mem, 8) = Kit[7]
=============================================================================
