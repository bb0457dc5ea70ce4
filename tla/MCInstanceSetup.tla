--------------------------- MODULE MCInstanceSetup --------------------------
(***************************************************************************)
(* Instances of InstanceSetup.  "x" is something a client asks for, "d"    *)
(* the default.                                                            *)
(***************************************************************************)
EXTENDS InstanceSetup, TLC

MCDefault == <<"d">>
Asking == {<<"x">>}
AskingOrNot == {<<>>, <<"x">>}
MCLoaders == {[layers |-> {"x"}, extensions |-> {"d"}],
              [layers |-> {"d"}, extensions |-> {"x"}]}
MCOffers == {<<{"x"}, {"d"}>>, <<{"d"}, {"x", "d"}>>}

CONSTANTS d1, d2, d3, i1, i2, h1, h2
MCInstances == {i1, i2}
MCVkInstances == {h1, h2}
MCDevObjects == {d1, d2, d3}
Symmetry == Permutations(MCDevObjects) \cup Permutations(MCInstances)
              \cup Permutations(MCVkInstances)
=============================================================================
