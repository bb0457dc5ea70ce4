---------------------------- MODULE DeviceHandles ---------------------------
(***************************************************************************)
(* Who owns which VkDevice.  A vuml::Device is a vk::Device with its       *)
(* command pools and buffers; Instance::devices builds a vector of them,   *)
(* and a client copies, assigns, swaps, moves and destroys them.  The      *)
(* Vulkan calls of a constructor are steps of their own, since each can    *)
(* throw.                                                                  *)
(*                                                                         *)
(* vk::Device is a plain handle: moving from it leaves it as it is.  A     *)
(* command buffer lives in its pool and goes with it, so only the pools    *)
(* that exist are counted.                                                 *)
(***************************************************************************)
EXTENDS Naturals, Sequences, FiniteSets

CONSTANTS
  Objects,       \* places for Device objects; bounds how many there are
  Handles,       \* VkDevice handles; one that is free may be used again
  PhysCount,     \* the physical devices of the instance are 1 .. PhysCount
  FamilyLists,   \* what getQueueFamilyProperties may return: lists of flags
  Faults,        \* the steps whose Vulkan call may throw
  ClientMoves,   \* the client moves Device objects
  Null

Phys == 1 .. PhysCount

(* The bits of vk::QueueFlags; a family's flags are a number of them.  A   *)
(* family without queues, which is never chosen, counts as one that can do *)
(* nothing.                                                                *)
QueueFlags == [graphics |-> 1, compute |-> 2, transfer |-> 4, sparse |-> 8,
               protected |-> 16, decode |-> 32, encode |-> 64,
               reserved |-> 128, optical_flow |-> 256]
FlagWords == 0 .. 511
Has(flags, bit) == (flags \div bit) % 2 = 1

(* Families are counted from 1; this is static_cast<uint32_t>(-1).         *)
NoFamily == 0

(* The command pools and command buffers a Device may have, by the         *)
(* VkDevice they belong to and what they are for.                          *)
Parts == Handles \X {"compute", "transfer"}

(* The members of a Device, each of them empty or filled.                  *)
Device == [handle : Handles \cup {Null}, phy_device : Phys,
           cmp_family_id : Nat, tfr_family_id : Nat,
           compute_cmd_pool : Parts \cup {Null},
           compute_cmd_buffer : Parts \cup {Null},
           transfer_cmd_pool : Parts \cup {Null},
           transfer_cmd_buffer : Parts \cup {Null}]

ASSUME DeviceHandlesAssumption ==
  /\ PhysCount \in Nat
  /\ FamilyLists \subseteq Seq(FlagWords)
  /\ ClientMoves \in BOOLEAN
  /\ Null \notin Objects \cup Handles \cup Parts
  /\ Null \notin Device

(* The Vulkan calls of the constructor.                                    *)
ASSUME FaultsAssumption ==
  Faults \subseteq {"create", "compute pool", "compute buffer",
                   "transfer pool", "transfer buffer"}

VARIABLES
  families,    \* the queue families of each physical device; never changes
  live,        \* the VkDevices that exist
  pools,       \* the command pools that exist
  obj,         \* the fields of each Device object; Null: no object there
  vector,      \* the std::vector<Device> of Instance::devices
  capacity,    \* its capacity
  moved,       \* how many of its elements are in its new storage already
  pc, self,    \* the constructor in progress and its object
  purpose,     \* what that object is for: "vector", "copy" or "assign"
  target,      \* the object that is assigned to
  shared,      \* history: a Device was move constructed, so that another
               \* object has had its handles
  orphans,     \* history: the pools that outlived their VkDevice
  misuse       \* history: what was used although it does not exist

vkVars == <<live, pools, orphans, misuse>>
vectorVars == <<vector, capacity, moved, shared>>
ctorVars == <<pc, self, purpose, target>>
vars == <<families, vkVars, obj, vectorVars, ctorVars>>

Alive == {o \in Objects : obj[o] # Null}
InVector(o) == \E i \in DOMAIN vector : vector[i] = o

Init ==
  /\ families \in [Phys -> FamilyLists]
  /\ live = {}
  /\ pools = {}
  /\ obj = [o \in Objects |-> Null]
  /\ vector = <<>>
  /\ capacity = 0
  /\ shared = FALSE
  /\ moved = 0
  /\ pc = "idle"
  /\ self = Null
  /\ purpose = "copy"
  /\ target = Null
  /\ orphans = {}
  /\ misuse = {}

-----------------------------------------------------------------------------
(* MUTANT of GetFamilyID: the first family that has the flag.              *)
GetFirstFamilyID(list, bit) ==
  IF \E i \in DOMAIN list : Has(list[i], bit)
    THEN CHOOSE i \in DOMAIN list :
           /\ Has(list[i], bit)
           /\ \A j \in DOMAIN list : Has(list[j], bit) => i <= j
    ELSE NoFamily

(* getFamilyID: of the families that have the flag the first one whose     *)
(* flags, as a number, are least; -1 if none has it.                       *)
GetFamilyID(list, bit) ==
  IF \E i \in DOMAIN list : Has(list[i], bit)
    THEN CHOOSE i \in DOMAIN list :
           /\ Has(list[i], bit)
           /\ \A j \in DOMAIN list : Has(list[j], bit) =>
                list[i] < list[j] \/ (list[i] = list[j] /\ i <= j)
    ELSE NoFamily

(* Device::release: the pools, with their buffers, then the device.  The   *)
(* handle is never null.  Buffers are freed from their pool also when that *)
(* was never created.                                                      *)
Release(d) ==
  LET destroyed == {d.compute_cmd_pool}
                     \cup IF d.tfr_family_id # d.cmp_family_id
                            THEN {d.transfer_cmd_pool} ELSE {}
      left == {q \in pools \ destroyed : q[1] = d.handle}
  IN /\ pools' = (pools \ destroyed) \ left
     /\ orphans' = orphans \cup left
     /\ live' = live \ {d.handle}
     /\ misuse' = misuse
          \cup (IF d.handle \in live THEN {} ELSE {"dead device"})
          \cup (IF Null \in destroyed THEN {"null pool"} ELSE {})

-----------------------------------------------------------------------------
(* The constructor.                                                        *)

Construct(o, phys, cmp, tfr, why) ==
  /\ obj[o] = Null
  /\ obj' = [obj EXCEPT ![o] =
       [handle |-> Null, phy_device |-> phys,
        cmp_family_id |-> cmp, tfr_family_id |-> tfr,
        compute_cmd_pool |-> Null, compute_cmd_buffer |-> Null,
        transfer_cmd_pool |-> Null, transfer_cmd_buffer |-> Null]]
  /\ pc' = "create"
  /\ self' = o
  /\ purpose' = why

(* One Vulkan call of the constructor: the field it sets, the next call.   *)
Step(from, to, fields) ==
  /\ pc = from
  /\ pc' = to
  /\ obj' = [obj EXCEPT ![self] = fields]
  /\ UNCHANGED <<families, vectorVars, self, purpose, target, orphans,
                 misuse>>

(* createDevice.  A family that is NoFamily is passed on to Vulkan, which   *)
(* may reject it or not.                                                   *)
CreateDevice ==
  \E h \in Handles \ live :
    /\ Step("create", "compute pool", [obj[self] EXCEPT !.handle = h])
    /\ live' = live \cup {h}
    /\ UNCHANGED pools

CreateComputePool ==
  LET pool == <<obj[self].handle, "compute">>
  IN /\ Step("compute pool", "compute buffer",
             [obj[self] EXCEPT !.compute_cmd_pool = pool])
     /\ pools' = pools \cup {pool}
     /\ UNCHANGED live

(* MUTANT of AllocComputeBuffer: only the pool gets its alias.             *)
AllocWithoutAlias ==
  LET d == obj[self]
      buffer == <<d.handle, "compute">>
  IN /\ \/ /\ Step("compute buffer", "built",
                   [d EXCEPT !.compute_cmd_buffer = buffer,
                             !.transfer_cmd_pool = d.compute_cmd_pool])
           /\ d.cmp_family_id = d.tfr_family_id
        \/ /\ Step("compute buffer", "transfer pool",
                   [d EXCEPT !.compute_cmd_buffer = buffer])
           /\ d.cmp_family_id # d.tfr_family_id
     /\ UNCHANGED <<live, pools>>

(* Where the families coincide the transfer handles are aliases.           *)
AllocComputeBuffer ==
  LET d == obj[self]
      buffer == <<d.handle, "compute">>
  IN /\ \/ /\ Step("compute buffer", "built",
                   [d EXCEPT !.compute_cmd_buffer = buffer,
                             !.transfer_cmd_pool = d.compute_cmd_pool,
                             !.transfer_cmd_buffer = buffer])
           /\ d.cmp_family_id = d.tfr_family_id
        \/ /\ Step("compute buffer", "transfer pool",
                   [d EXCEPT !.compute_cmd_buffer = buffer])
           /\ d.cmp_family_id # d.tfr_family_id
     /\ UNCHANGED <<live, pools>>

CreateTransferPool ==
  LET pool == <<obj[self].handle, "transfer">>
  IN /\ Step("transfer pool", "transfer buffer",
             [obj[self] EXCEPT !.transfer_cmd_pool = pool])
     /\ pools' = pools \cup {pool}
     /\ UNCHANGED live

AllocTransferBuffer ==
  /\ Step("transfer buffer", "built",
          [obj[self] EXCEPT
             !.transfer_cmd_buffer = <<obj[self].handle, "transfer">>])
  /\ UNCHANGED <<live, pools>>

(* MUTANT of Throw: the exception leaves without releasing anything.       *)
ThrowOnly ==
  /\ pc \in Faults
  /\ pc' = IF purpose = "vector" /\ vector # <<>> THEN "unwind" ELSE "idle"
  /\ obj' = [obj EXCEPT ![self] = Null]
  /\ self' = Null
  /\ target' = Null
  /\ UNCHANGED <<families, vkVars, vectorVars, purpose>>

(* A call throws: what the constructor has is released, unless there is no *)
(* VkDevice yet.  The exception takes the vector with it.                  *)
Throw ==
  /\ pc \in Faults
  /\ IF pc = "create" THEN UNCHANGED vkVars ELSE Release(obj[self])
  /\ pc' = IF purpose = "vector" /\ vector # <<>> THEN "unwind" ELSE "idle"
  /\ obj' = [obj EXCEPT ![self] = Null]
  /\ self' = Null
  /\ target' = Null
  /\ UNCHANGED <<families, vectorVars, purpose>>

(* The object is complete.  In the vector it may need new storage, then    *)
(* the older elements have to be moved there.                              *)
BuiltInVector ==
  /\ pc = "built"
  /\ purpose = "vector"
  /\ vector' = Append(vector, self)
  /\ \/ /\ Len(vector) < capacity
        /\ pc' = "next"
        /\ UNCHANGED <<capacity, moved>>
     \/ /\ Len(vector) = capacity
        /\ capacity' \in (capacity + 1) .. PhysCount
        /\ pc' = IF vector = <<>> THEN "next" ELSE "relocate"
        /\ moved' = 0
  /\ self' = Null
  /\ UNCHANGED <<families, vkVars, obj, shared, purpose, target>>

BuiltCopy ==
  /\ pc = "built"
  /\ purpose = "copy"
  /\ pc' = "idle"
  /\ self' = Null
  /\ UNCHANGED <<families, vkVars, obj, vectorVars, purpose, target>>

(* operator=(Device other): swap with the copy, which is then destroyed.   *)
BuiltForAssignment ==
  /\ pc = "built"
  /\ purpose = "assign"
  /\ Release(obj[target])
  /\ obj' = [obj EXCEPT ![target] = obj[self], ![self] = Null]
  /\ pc' = "idle"
  /\ self' = Null
  /\ target' = Null
  /\ UNCHANGED <<families, vectorVars, purpose>>

-----------------------------------------------------------------------------
(* Instance::devices.  Bound: a client has one vector at a time, and asks  *)
(* for it only when there are objects left for it.                         *)

Devices ==
  /\ pc = "idle"
  /\ vector = <<>>
  /\ Cardinality(Objects \ Alive) >= PhysCount
  /\ pc' = "next"
  /\ UNCHANGED <<families, vkVars, obj, vectorVars, self, purpose, target>>

EmplaceBack ==
  /\ pc = "next"
  /\ Len(vector) < PhysCount
  /\ LET phys == Len(vector) + 1
     IN \E o \in Objects :
          Construct(o, phys,
                    GetFamilyID(families[phys], QueueFlags.compute),
                    GetFamilyID(families[phys], QueueFlags.transfer),
                    "vector")
  /\ UNCHANGED <<families, vkVars, vectorVars, target>>

ReturnDevices ==
  /\ pc = "next"
  /\ Len(vector) = PhysCount
  /\ pc' = "idle"
  /\ UNCHANGED <<families, vkVars, obj, vectorVars, self, purpose, target>>

(* The vector's storage grows: an element is move constructed in the new   *)
(* one, and the moved-from element is destroyed.                           *)
Relocate ==
  /\ pc = "relocate"
  /\ Release(obj[vector[moved + 1]])
  /\ moved' = moved + 1
  /\ shared' = TRUE
  /\ pc' = IF moved + 2 = Len(vector) THEN "next" ELSE "relocate"
  /\ UNCHANGED <<families, obj, vector, capacity, self, purpose, target>>

DropVector ==
  /\ pc = "idle"
  /\ vector # <<>>
  /\ pc' = "unwind"
  /\ UNCHANGED <<families, vkVars, obj, vectorVars, self, purpose, target>>

(* The vector's destructor, one element after the other.                   *)
Unwind ==
  /\ pc = "unwind"
  /\ Release(obj[Head(vector)])
  /\ obj' = [obj EXCEPT ![Head(vector)] = Null]
  /\ vector' = Tail(vector)
  /\ pc' = IF Len(vector) = 1 THEN "idle" ELSE "unwind"
  /\ capacity' = IF Len(vector) = 1 THEN 0 ELSE capacity
  /\ moved' = 0
  /\ UNCHANGED <<families, shared, self, purpose, target>>

-----------------------------------------------------------------------------
(* The client's objects.                                                   *)

Copy(o, new) ==
  /\ pc = "idle"
  /\ o \in Alive
  /\ Construct(new, obj[o].phy_device, obj[o].cmp_family_id,
               obj[o].tfr_family_id, "copy")
  /\ UNCHANGED <<families, vkVars, vectorVars, target>>

(* MUTANT of Assign: what the target has is released before the copy is    *)
(* made.                                                                   *)
AssignInPlace(o, to, temp) ==
  /\ pc = "idle"
  /\ o \in Alive /\ to \in Alive
  /\ Construct(temp, obj[o].phy_device, obj[o].cmp_family_id,
               obj[o].tfr_family_id, "assign")
  /\ target' = to
  /\ Release(obj[to])
  /\ UNCHANGED <<families, vectorVars>>

(* device = other: first a copy is made.                                   *)
Assign(o, to, temp) ==
  /\ pc = "idle"
  /\ o \in Alive /\ to \in Alive
  /\ Construct(temp, obj[o].phy_device, obj[o].cmp_family_id,
               obj[o].tfr_family_id, "assign")
  /\ target' = to
  /\ UNCHANGED <<families, vkVars, vectorVars>>

Swap(o, other) ==
  /\ pc = "idle"
  /\ o \in Alive /\ other \in Alive
  /\ obj' = [obj EXCEPT ![o] = obj[other], ![other] = obj[o]]
  /\ UNCHANGED <<families, vkVars, vectorVars, ctorVars>>

(* Device(Device &&): both have the handles now.                           *)
MoveConstruct(o, new) ==
  /\ pc = "idle"
  /\ ClientMoves
  /\ o \in Alive /\ new \notin Alive
  /\ obj' = [obj EXCEPT ![new] = obj[o]]
  /\ shared' = TRUE
  /\ UNCHANGED <<families, vkVars, vector, capacity, moved, ctorVars>>

Destroy(o) ==
  /\ pc = "idle"
  /\ o \in Alive /\ ~InVector(o)
  /\ Release(obj[o])
  /\ obj' = [obj EXCEPT ![o] = Null]
  /\ UNCHANGED <<families, vectorVars, ctorVars>>

-----------------------------------------------------------------------------
Constructor ==
  \/ CreateDevice \/ CreateComputePool \/ AllocComputeBuffer
  \/ CreateTransferPool \/ AllocTransferBuffer
  \/ BuiltInVector \/ BuiltCopy \/ BuiltForAssignment \/ Throw

Enumeration ==
  Devices \/ EmplaceBack \/ ReturnDevices \/ Relocate \/ DropVector \/ Unwind

Client ==
  \/ \E o, new \in Objects : Copy(o, new) \/ MoveConstruct(o, new)
  \/ \E o, to, temp \in Objects : Assign(o, to, temp)
  \/ \E o, other \in Objects : Swap(o, other)
  \/ \E o \in Objects : Destroy(o)

Next == Constructor \/ Enumeration \/ Client

Spec == Init /\ [][Next]_vars

-----------------------------------------------------------------------------
Complete(d) ==
  Null \notin {d.handle, d.compute_cmd_pool, d.compute_cmd_buffer,
               d.transfer_cmd_pool, d.transfer_cmd_buffer}

(* What every state looks like.  A Device whose constructor has completed  *)
(* has all its handles, and one that is assigned to is not the copy.       *)

TypeOK ==
  /\ families \in [Phys -> FamilyLists]
  /\ live \subseteq Handles
  /\ pools \subseteq Parts
  /\ obj \in [Objects -> Device \cup {Null}]
  /\ vector \in Seq(Alive)
  /\ capacity \in 0 .. PhysCount
  /\ moved \in 0 .. PhysCount
  /\ pc \in {"idle", "create", "compute pool", "compute buffer",
             "transfer pool", "transfer buffer", "built", "next",
             "relocate", "unwind"}
  /\ purpose \in {"vector", "copy", "assign"}
  /\ self \in Alive \cup {Null}
  /\ target \in (Alive \ {self}) \cup {Null}
  /\ orphans \subseteq Parts
  /\ misuse \subseteq {"dead device", "null pool"}
  /\ shared \in BOOLEAN
  /\ \A o \in Alive : o # self \/ pc = "built" => Complete(obj[o])

(* Until a Device is move constructed, by the client or by a vector that    *)
(* grows, each one that is complete is the only owner of a VkDevice that   *)
(* exists and of its pools, of which there are two exactly when the        *)
(* families differ; no copy, assignment, swap, exception or destruction of *)
(* another object takes them away.  And an object that goes releases a     *)
(* VkDevice that exists, after all of its pools.                           *)
SoleOwner == ~shared =>
  /\ \A o \in Alive \ {self} :
       LET d == obj[o]
       IN /\ d.handle \in live
          /\ \A p \in Alive \ {o} : obj[p].handle # d.handle
          /\ {d.compute_cmd_pool, d.transfer_cmd_pool} \subseteq pools
          /\ d.compute_cmd_pool = d.transfer_cmd_pool
               <=> d.cmp_family_id = d.tfr_family_id
  /\ orphans = {} /\ "dead device" \notin misuse

(* Nothing leaks: each VkDevice that exists belongs to an object, complete *)
(* or in construction, also after constructors that threw, and however     *)
(* often objects were moved.                                               *)
NoneLeaked == \A h \in live : \E o \in Alive : obj[o].handle = h

(* The families a Device works with have the flag they were chosen for,    *)
(* and no family that has it could do less beside: a queue that only       *)
(* computes, or only transfers, is taken before a general one.  A Device   *)
(* is without a family for one purpose only where the physical device      *)
(* reports none, through every copy, assignment and swap.                  *)
SubFlags(f, g) == \A name \in DOMAIN QueueFlags :
  Has(f, QueueFlags[name]) => Has(g, QueueFlags[name])

Best(i, list, bit) ==
  /\ i \in DOMAIN list
  /\ Has(list[i], bit)
  /\ \A j \in DOMAIN list :
       Has(list[j], bit) /\ SubFlags(list[j], list[i]) => list[j] = list[i]

Nowhere(list, bit) == \A j \in DOMAIN list : ~Has(list[j], bit)

MostSpecialised ==
  \A o \in Alive :
    LET list == families[obj[o].phy_device]
        Chosen(i, bit) ==
          \/ Best(i, list, bit)
          \/ i = NoFamily /\ Nowhere(list, bit)
    IN /\ Chosen(obj[o].cmp_family_id, QueueFlags.compute)
       /\ Chosen(obj[o].tfr_family_id, QueueFlags.transfer)

(* The example at example/test/main.cc:26-29 takes a device out of the     *)
(* vector, whichever it likes, and reports on all of them: every element   *)
(* of the vector has a VkDevice.                                           *)
VectorUsable ==
  pc = "idle" =>
    \A i \in DOMAIN vector : obj[vector[i]].handle \in live
=============================================================================
