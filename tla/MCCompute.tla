------------------------------ MODULE MCCompute ------------------------------
(***************************************************************************)
(* A small instance of Compute for TLC: two arrays of small numbers, and a *)
(* kernel in which every part of a launch makes a difference.              *)
(***************************************************************************)
EXTENDS Compute

CONSTANTS
  A, B,     \* the two arrays
  MaxValue  \* bound: an array holds a number up to MaxValue

MCArrays == {A, B}
MCValue == 0 .. MaxValue

(* The kernel writes its first argument and reads its second one.          *)
OneArgList == {<<A, B>>}

(* y := x + prog + specs + 2 * batch + params, modulo the range of values. *)
Saxpy(l, m) ==
  [m EXCEPT ![l.args[1]] =
     (m[l.args[2]] + l.prog + l.specs + 2 * l.batch + l.params)
       % (MaxValue + 1)]

MCKernel == [l \in Launches |-> [m \in Memory |-> Saxpy(l, m)]]
=============================================================================
