------------------------ MODULE MCDeviceReplacement -------------------------
(***************************************************************************)
(* An instance of DeviceReplacement.                                       *)
(***************************************************************************)
EXTENDS DeviceReplacement, TLC

CONSTANTS d1, d2, v1, v2, v3, r1, r2, r3

MCDevices == {d1, d2}
MCVkDevices == {v1, v2, v3}
MCResources == {r1, r2, r3}

(* Handles, and the Devices, may be exchanged.                             *)
Symmetry ==
  Permutations(MCVkDevices) \cup Permutations(MCResources)
    \cup Permutations(MCDevices)
=============================================================================
