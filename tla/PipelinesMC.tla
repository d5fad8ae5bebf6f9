---------------------------- MODULE PipelinesMC ----------------------------
(***************************************************************************)
(* The three pipelines on small programs of every kind.  Further resets    *)
(* come in the programs that InterruptedProgram picks.                     *)
(***************************************************************************)
EXTENDS Pipelines, PipeMC

McAllReset == InterruptedProgram /\ AllReset

McNext == AllClock \/ McAllReset \/ AllFinish
McSpec == /\ AllInit /\ [][McNext]_pipeVars
          /\ WF_pipeVars(AllClock) /\ WF_pipeVars(AllFinish)
=============================================================================
