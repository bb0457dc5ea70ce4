--------------------------- MODULE MCProgramHandles -------------------------
(***************************************************************************)
(* A small instance of ProgramHandles for TLC.                             *)
(***************************************************************************)
EXTENDS ProgramHandles, TLC

(* Neither programs nor the numbers of handles have an order.              *)
Symmetry == Permutations(Programs) \cup Permutations(Ids)
=============================================================================
