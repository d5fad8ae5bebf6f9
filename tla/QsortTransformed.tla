--------------------------- MODULE QsortTransformed ---------------------------
(***************************************************************************)
(* qsort_transformed.c, the same program on the registers of a RISC-V      *)
(* processor, as far as main reaches it.  Registers are of type size_t, so *)
(* their comparisons are unsigned.                                         *)
(***************************************************************************)
EXTENDS Integers, Sequences, FiniteSets

CONSTANTS MAX,   \* elements of the array (10)
          Value, \* ints
          W      \* values of a size_t (2^64)

VARIABLES A, size, a0, a1, a2, \* array, its size, registers
          pc,  \* main, qsort or output
          out  \* the lines written
vars == <<A, size, a0, a1, a2, pc, out>>

Index == 0 .. MAX - 1
Init ==
  /\ size \in 0 .. MAX /\ A \in [Index -> Value]
  /\ a0 = size /\ a1 = 0 /\ a2 = 0 /\ pc = "main" /\ out = << >>

CallQsort ==
  /\ pc = "main"
  /\ a1' = 0 /\ a2' = (size - 1) % W /\ pc' = "qsort"
  /\ UNCHANGED <<A, size, a0, out>>

(* Below the comparison stand partition and the recursive calls. *)
Qsort ==
  /\ pc = "qsort" /\ a2 >= a1
  /\ pc' = "output" /\ a0' = size /\ a1' = 0
  /\ UNCHANGED <<A, size, a2, out>>

OutputLine ==
  /\ pc = "output" /\ a0 # 0
  /\ out' = Append(out, A[a1])
  /\ a1' = a1 + 1 /\ a0' = a0 - 1
  /\ UNCHANGED <<A, size, a2, pc>>

Next == CallQsort \/ Qsort \/ OutputLine
Spec == Init /\ [][Next]_vars

Rest == Len(out) .. size - 1
rest == [v \in {A[n] : n \in Rest} |-> Cardinality({n \in Rest : A[n] = v})]
Sort == INSTANCE SortSpec
(* Every line written is the least that is left: the same promise as that  *)
(* of qsort.c, which the expected outputs of the tests state.              *)
WritesSorted == [][Sort!Write]_<<rest, out>>
=============================================================================
