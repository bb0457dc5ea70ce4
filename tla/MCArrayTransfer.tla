-------------------------- MODULE MCArrayTransfer ---------------------------
(***************************************************************************)
(* An instance of ArrayTransfer: two elements of two bytes.                *)
(***************************************************************************)
EXTENDS ArrayTransfer

MCByte == {0, 1}

(* Shorter than the array, as long, and longer.                            *)
MCInputs ==
  {<<<<0, 1>>>>, <<<<0, 1>>, <<1, 1>>>>, <<<<1, 0>>, <<0, 0>>>>,
   <<<<1, 1>>, <<0, 1>>, <<1, 0>>>>}

(* One that tells the bytes of an element apart.                           *)
MCFuncs == {[e \in Elem |-> <<e[2], 1 - e[1]>>]}
=============================================================================
