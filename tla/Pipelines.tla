----------------------------- MODULE Pipelines -----------------------------
(***************************************************************************)
(* The three pipelines of the repository side by side in the testbed, on   *)
(* the same program, clock and resets.  Unqualified names are those of the *)
(* four-stage processor, Three! and Two! those of the shorter ones, which  *)
(* the testbed clocks and does not watch.                                  *)
(***************************************************************************)
EXTENDS Testbed, PipeCpuProps, SequencesExt

VARIABLES PC_p3, IF_ID3, ID_EX3, X_p3, mem3, stdin_pointer3, stdout3,
          v_if3, v_id3, undef3
VARIABLES PC_p2, IF_ID2, X_p2, mem2, stdin_pointer2, stdout2, v_if2, undef2

SameImages == Images \* TLC evaluates a definition once

Three == INSTANCE ThreeStage WITH
           PC_p <- PC_p3, IF_ID <- IF_ID3, ID_EX <- ID_EX3, X_p <- X_p3,
           mem <- mem3, stdin_pointer <- stdin_pointer3, stdout <- stdout3,
           v_if <- v_if3, v_id <- v_id3, undef <- undef3,
           Images <- SameImages
Two == INSTANCE TwoStage WITH
         PC_p <- PC_p2, IF_ID <- IF_ID2, X_p <- X_p2, mem <- mem2,
         stdin_pointer <- stdin_pointer2, stdout <- stdout2,
         v_if <- v_if2, undef <- undef2, Images <- SameImages

vars3 == <<PC_p3, IF_ID3, ID_EX3, X_p3, mem3, stdin_pointer3, stdout3,
           v_if3, v_id3, undef3>>
vars2 == <<PC_p2, IF_ID2, X_p2, mem2, stdin_pointer2, stdout2, v_if2, undef2>>
pipeVars == <<tbVars, vars3, vars2>>

AllInit == TbInit /\ mem3 = mem /\ Three!Init /\ mem2 = mem /\ Two!Init
AllClock == \E x \in XWords : TbEdge(x) /\ Three!Clock(x) /\ Two!Clock(x)
AllReset == TbReset /\ Three!Reset /\ Two!Reset
AllFinish == TbFinish /\ UNCHANGED <<vars3, vars2>>
AllNext == AllClock \/ AllReset \/ AllFinish
(* The simulator never stops advancing time while the testbed runs. *)
AllSpec == /\ AllInit /\ [][AllNext]_pipeVars
           /\ WF_pipeVars(AllClock) /\ WF_pipeVars(AllFinish)

----------------------------------------------------------------------------
(* The three-stage pipeline: its stages hold consecutive instructions of   *)
(* the program with fresh operands, and everything else in them is inert.  *)
ThreeStageInv == Three!StageInv

(* It implements the sequential machine. *)
ThreeStageImplementsMachine == Three!ImplementsMachine

(* The two-stage pipeline sees every EBREAK the program reaches, whatever  *)
(* stands before it, and nothing else: its successors do not keep this.    *)
TwoStageFinishes == Two!FinishesAtEbreak

(* It implements the sequential machine: the instruction fetched behind a  *)
(* taken branch never acts.                                                *)
TwoStageImplementsMachine == Two!ImplementsMachine

(* A stage more delays a program and does not change it: at every clock    *)
(* edge a longer pipeline has written the beginning of what a shorter one  *)
(* has, while neither program is over.  (A reset finds them at different   *)
(* points, with different memories.)                                       *)
StageMoreOnlyDelays ==
  resets = 0 =>
    /\ ~undef /\ ~undef3 => IsPrefix(stdout, stdout3)
    /\ ~undef3 /\ ~undef2 => IsPrefix(stdout3, stdout2)
=============================================================================
