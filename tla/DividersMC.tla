----------------------------- MODULE DividersMC -----------------------------
(***************************************************************************)
(* Test files of five lines for the divider's testbench, at the width of   *)
(* task 1a.                                                                *)
(***************************************************************************)
EXTENDS Dividers

Tests == {<<0, 1>>, <<2, 2>>, <<15, 3>>, <<7, 0>>, <<5, 9>>, <<15, 1>>}
Files == [1 .. 5 -> Tests]

(* A third test in a row with divisor zero may find its start pulse on two *)
(* clock edges: the divider answers on the first and has forgotten on the  *)
(* second.  The test files of the repository never divide by zero twice in *)
(* a row.                                                                  *)
ThreeZeros(f) ==
  \E i \in 1 .. Len(f) - 2 : \A k \in i .. i + 2 : f[k][2] = 0
SparseFiles == {f \in Files : ~ThreeZeros(f)}
=============================================================================
