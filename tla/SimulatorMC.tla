----------------------------- MODULE SimulatorMC -----------------------------
(***************************************************************************)
(* Two ports, two steps of wire and two page loads.  A switch may forward  *)
(* a frame nowhere, as the repository's does, or to one port or both.      *)
(***************************************************************************)
EXTENDS Simulator

NoneOrAll == {{}, Port}
SomePorts == {{}, {1}, Port}
Pages == Permutations(Page)
=============================================================================
