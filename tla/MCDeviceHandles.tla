---------------------------- MODULE MCDeviceHandles -------------------------
(***************************************************************************)
(* Small instances of DeviceHandles for TLC: queue families as they are    *)
(* found on integrated and discrete GPUs.                                  *)
(***************************************************************************)
EXTENDS DeviceHandles, TLC

(* One family for everything; a general one and one that only computes     *)
(* and copies; general, compute and copy families in no order; a device    *)
(* that does not report the transfer bit and has a family without queues.  *)
General == <<15>>
WithCompute == <<7, 6>>
Discrete == <<7, 12, 6, 4>>
NoTransfer == <<3, 0, 2>>
AllFamilyLists == {General, WithCompute, Discrete, NoTransfer}
OneFamily == {General}

(* Neither objects nor handles have an order.                              *)
Symmetry == Permutations(Objects) \cup Permutations(Handles)
=============================================================================
