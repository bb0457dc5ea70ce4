------------------------ MODULE MCDescriptorBindings ------------------------
(***************************************************************************)
(* An instance of DescriptorBindings.                                      *)
(***************************************************************************)
EXTENDS DescriptorBindings, TLC

CONSTANTS b1, b2, b3

MCBuffers == {b1, b2, b3}

(* The handles may be exchanged.                                           *)
Symmetry == Permutations(MCBuffers)
=============================================================================
