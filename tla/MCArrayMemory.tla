---------------------------- MODULE MCArrayMemory ---------------------------
(***************************************************************************)
(* Small instances of ArrayMemory for TLC.  The memory types of the device *)
(* are chosen by Init, so one run covers many devices.                     *)
(***************************************************************************)
EXTENDS ArrayMemory

CONSTANTS X, Y, Z

(* What a memory type may be on the devices considered.                    *)
Local == {"deviceLocal"}
Coherent == {"hostVisible", "hostCoherent"}
LocalVisible == {"deviceLocal", "hostVisible"}
FewFlagSets == {Local, Coherent, LocalVisible}

(* Some buffers accept every type, some all but the first.                 *)
FewBitSets == {Types, Types \ {0}}

SomeExtra == {{}, {"hostCoherent"}}

(* Two arrays that can be moved into each other's place, and one of a kind *)
(* with the other way through the fallbacks.                               *)
DeviceAndHosts ==
  [a \in {X, Y, Z} |-> IF a = X THEN "Device" ELSE "HostCoherent"]
=============================================================================
