------------------------------- MODULE SortSpec -------------------------------
(***************************************************************************)
(* What a program that sorts promises: it writes the numbers it was given, *)
(* the least that is left each time, and stops when none is.               *)
(***************************************************************************)
EXTENDS Integers, Sequences, Bags

CONSTANT Value
VARIABLES rest, \* the bag of numbers not yet written
          out   \* the numbers written

Init == IsABag(rest) /\ DOMAIN rest \subseteq Value /\ out = << >>
Write ==
  \E v \in DOMAIN rest : /\ \A w \in DOMAIN rest : v <= w
                         /\ rest' = rest (-) SetToBag({v})
                         /\ out' = Append(out, v)
Spec == Init /\ [][Write]_<<rest, out>> /\ WF_<<rest, out>>(Write)
=============================================================================
