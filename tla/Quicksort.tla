------------------------------ MODULE Quicksort ------------------------------
(***************************************************************************)
(* qsort.c as the sequence of its steps: the array in memory, one record   *)
(* per activation of qsort on the stack, and the locals of partition.  An  *)
(* activation is at "enter" before its comparison, at "loop" in partition, *)
(* at "left" and "right" while its first and second recursive call runs.   *)
(*                                                                         *)
(* The array may hold anything where input() read nothing.                 *)
(* Definitions named _fault are seeded defects, variants of the one after. *)
(***************************************************************************)
EXTENDS Integers, Sequences, FiniteSets, SequencesExt

CONSTANTS MAX,   \* elements of the array (10)
          Value  \* ints

ASSUME QuicksortAssumption == MAX \in Nat \ {0} /\ Value \subseteq Int

VARIABLES A, size,
          stack,       \* activations of qsort, the running one last
          pivot, i, j, \* of the running partition
          out          \* the lines written
vars == <<A, size, stack, pivot, i, j, out>>

Index == 0 .. MAX - 1
Swapped(m, n) == [A EXCEPT ![m] = A[n], ![n] = A[m]]
Call(l, r) == [at |-> "enter", l |-> l, r |-> r, k |-> 0]
Top == Last(stack)
Below == Front(stack)
At(f, where) == [f EXCEPT !.at = where]

----------------------------------------------------------------------------
(* main: read, sort, write *)
Init ==
  /\ size \in -1 .. MAX /\ A \in [Index -> Value]
  /\ stack = <<Call(0, size - 1)>>
  /\ pivot = 0 /\ i = 0 /\ j = 0
  /\ out = << >>

Running(where) == stack # << >> /\ Top.at = where

Enter ==
  /\ Running("enter")
  /\ IF Top.l < Top.r
     THEN /\ stack' = Append(Below, At(Top, "loop"))
          /\ pivot' = A[Top.r] /\ i' = Top.l - 1 /\ j' = Top.l
     ELSE stack' = Below /\ UNCHANGED <<pivot, i, j>>
  /\ UNCHANGED <<A, size, out>>

Scan_fault == \* counts only where something moved
  /\ Running("loop") /\ j < Top.r
  /\ A' = IF A[j] < pivot THEN Swapped(i + 1, j) ELSE A
  /\ i' = IF A[j] < pivot /\ i + 1 # j THEN i + 1 ELSE i
  /\ j' = j + 1
  /\ UNCHANGED <<size, stack, pivot, out>>
Scan ==
  /\ Running("loop") /\ j < Top.r
  /\ A' = IF A[j] < pivot THEN Swapped(i + 1, j) ELSE A
  /\ i' = IF A[j] < pivot THEN i + 1 ELSE i
  /\ j' = j + 1
  /\ UNCHANGED <<size, stack, pivot, out>>

PlacePivot_fault == \* overwrites instead of swapping
  /\ Running("loop") /\ j >= Top.r
  /\ A' = [A EXCEPT ![i + 1] = pivot]
  /\ i' = i + 1
  /\ stack' = Below \o <<[At(Top, "left") EXCEPT !.k = i + 1],
                         Call(Top.l, i)>>
  /\ UNCHANGED <<size, pivot, j, out>>
PlacePivot ==
  /\ Running("loop") /\ j >= Top.r
  /\ A' = Swapped(i + 1, Top.r)
  /\ i' = i + 1
  /\ stack' = Below \o <<[At(Top, "left") EXCEPT !.k = i + 1],
                         Call(Top.l, i)>>
  /\ UNCHANGED <<size, pivot, j, out>>

(* The first call returned: the second *)
SortRight_fault == \* k was not saved over the call
  /\ Running("left")
  /\ stack' = Below \o <<At(Top, "right"), Call(i + 1, Top.r)>>
  /\ UNCHANGED <<A, size, pivot, i, j, out>>
SortRight ==
  /\ Running("left")
  /\ stack' = Below \o <<At(Top, "right"), Call(Top.k + 1, Top.r)>>
  /\ UNCHANGED <<A, size, pivot, i, j, out>>

Return ==
  /\ Running("right")
  /\ stack' = Below
  /\ UNCHANGED <<A, size, pivot, i, j, out>>

Output ==
  /\ stack = << >> /\ Len(out) < size
  /\ out' = Append(out, A[Len(out)])
  /\ UNCHANGED <<A, size, stack, pivot, i, j>>

Next == Enter \/ Scan \/ PlacePivot \/ SortRight \/ Return \/ Output
Spec == Init /\ [][Next]_vars
FairSpec == Spec /\ WF_vars(Next)

----------------------------------------------------------------------------
(* An activation only reaches elements of the array, and of its parent's   *)
(* half of it: the stack holds nested intervals, ends included.            *)
Nested(outer, inner) ==
  IF outer.at = "left" THEN inner.l = outer.l /\ inner.r = outer.k - 1
  ELSE inner.l = outer.k + 1 /\ inner.r = outer.r
InBounds ==
  /\ \A n \in DOMAIN stack :
       LET f == stack[n] IN
       /\ f.l >= 0 /\ f.r <= size - 1
       /\ f.at # "enter" => f.l < f.r
       /\ f.at \in {"left", "right"} => f.k \in f.l .. f.r
       /\ n < Len(stack) => Nested(f, stack[n + 1])
  /\ Running("loop") => /\ Top.l - 1 <= i /\ i < j /\ j <= Top.r
                        /\ A[Top.r] = pivot

(* The split an activation made outlives whatever its calls do; while it   *)
(* is being made, what lies before i is less than the pivot and what lies  *)
(* between i and j is not.                                                 *)
Less(m, n, v) == \A x \in m .. n : A[x] < v
NotLess(m, n, v) == \A x \in m .. n : A[x] >= v
SplitsStand ==
  /\ \A f \in Range(stack) : f.at \in {"left", "right"} =>
       Less(f.l, f.k - 1, A[f.k]) /\ NotLess(f.k + 1, f.r, A[f.k])
  /\ Running("loop") =>
       Less(Top.l, i, pivot) /\ NotLess(i + 1, j - 1, pivot)

(* The program writes the elements of its input in ascending order: none   *)
(* is lost or invented by the swaps, and every line is written.            *)
Rest == Len(out) .. size - 1
rest == [v \in {A[n] : n \in Rest} |-> Cardinality({n \in Rest : A[n] = v})]
Sort == INSTANCE SortSpec
ImplementsSort == Sort!Spec
=============================================================================
