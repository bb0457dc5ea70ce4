---------------------------- MODULE ElementArray ----------------------------
(***************************************************************************)
(* What a DeviceArray promises about its contents: a sequence of elements  *)
(* into which a client writes some at a place, and from which it reads     *)
(* some through a function.  There are no bytes, no staging buffer and no  *)
(* mapping here.                                                           *)
(***************************************************************************)
EXTENDS Naturals, Sequences

CONSTANTS
  Size,        \* the number of elements
  Null

VARIABLES
  contents,    \* the elements, a sequence of length Size
  request,     \* what the client asked for last, or Null
  answer,      \* what the client got for it; Null after a failure
  strong       \* a write that fails has done nothing

vars == <<contents, request, answer, strong>>

(* The elements with xs in the place of those after the first at.          *)
Overlay(elements, at, xs) ==
  [i \in DOMAIN elements |->
     IF i > at /\ i <= at + Len(xs) THEN xs[i - at] ELSE elements[i]]

Init ==
  /\ Len(contents) = Size
  /\ request = Null
  /\ answer = Null
  /\ strong \in BOOLEAN

Write ==
  /\ request'.kind = "write"
  /\ request'.at + Len(request'.xs) <= Size
  /\ contents' = Overlay(contents, request'.at, request'.xs)
  /\ answer' = <<>>

Read ==
  /\ request'.kind = "read"
  /\ request'.at + request'.count <= Size
  /\ contents' = contents
  /\ answer' = [i \in 1 .. request'.count |->
                  request'.func[contents[request'.at + i]]]

(* A write that is not strong may have written its first elements.         *)
Fail ==
  /\ answer' = Null
  /\ \/ contents' = contents
     \/ /\ ~strong
        /\ request'.kind = "write"
        /\ \E k \in 1 .. Len(request'.xs) :
             contents' = Overlay(contents, request'.at,
                                 SubSeq(request'.xs, 1, k))

Next == strong' = strong /\ (Write \/ Read \/ Fail)

Spec == Init /\ [][Next]_vars
=============================================================================
