---------------------------- MODULE InstanceSetup ---------------------------
(***************************************************************************)
(* vuml::Instance: what it enables when it makes a VkInstance, who owns    *)
(* that through moves and assignments, and how the Devices it hands out    *)
(* stay tied to it: by a reference to the Instance object, which swap and  *)
(* assignment of Devices leave as it is, and by the list of extensions     *)
(* they were asked to have, which every copy of a Device goes by and which *)
(* a move takes away.                                                      *)
(*                                                                         *)
(* The steps of constructing and relocating Devices are in DeviceHandles,  *)
(* with who owns a VkDevice: here one that has been moved from still has   *)
(* what its VkDevice was made with.                                        *)
(***************************************************************************)
EXTENDS Naturals, Sequences

CONSTANTS
  Instances,      \* Instance objects
  VkInstances,    \* VkInstance handles
  DevObjects,     \* Device objects
  PhysCount,      \* the physical devices of every VkInstance
  Names,          \* names of layers and extensions
  Loaders,        \* the layers and extensions that a loader may have
  Offers,         \* the extensions that the physical devices may have
  DefaultLayers, DefaultExtensions, DefaultDeviceExtensions,
  InstanceLists,  \* the lists of names a client passes to an Instance
  DeviceLists,    \* and to devices()
  Null

Phys == 1 .. PhysCount

(* What a VkInstance and what a Device is made with.                       *)
Enabled == [layers : SUBSET Names, extensions : SUBSET Names]
DeviceFields == [instance : Instances, phy_device : Phys,
                 extensions : Seq(Names), enabled : SUBSET Names]

(* History of a VkDevice, or of the one it was copied from: the Instance   *)
(* object whose devices() made it, the VkInstance (Null: that has been     *)
(* destroyed), the list that the client asked for, and whether this has    *)
(* been in extensions_ ever since: a move takes it from the Device moved.  *)
Origins == [maker : Instances, vk : VkInstances \cup {Null},
            asked : Seq(Names), kept : BOOLEAN]

ASSUME InstanceAssumption ==
  /\ PhysCount \in Nat
  /\ InstanceLists \subseteq Seq(Names) /\ DeviceLists \subseteq Seq(Names)
  /\ Loaders \subseteq Enabled /\ Offers \subseteq [Phys -> SUBSET Names]
  /\ {DefaultLayers, DefaultExtensions, DefaultDeviceExtensions}
       \subseteq Seq(Names)
  /\ Null \notin VkInstances
  /\ Null \notin Enabled /\ Null \notin DeviceFields

Asked == UNION {[1 .. n -> DeviceLists] : n \in 0 .. PhysCount + 1}
NamesOf(list) == {list[i] : i \in DOMAIN list}

VARIABLES
  avail_layers, avail_extensions,  \* of the Vulkan loader; never change
  avail_device,                    \* of each physical device; never changes
  enabled,        \* what a VkInstance was made with; Null: there is none
  alive,          \* the Instance objects
  instance_,      \* the VkInstance of each, or Null
  devices,        \* the fields of each Device object; Null: none there
  origin,         \* history: where its VkDevice comes from
  moved           \* history: VkInstances that have left an Instance object
                  \* while there were Devices made in them

availVars == <<avail_layers, avail_extensions, avail_device>>
instanceVars == <<enabled, alive, instance_, moved>>
deviceVars == <<devices, origin>>
vars == <<availVars, instanceVars, deviceVars>>

Made == {d \in DevObjects : devices[d] # Null}

Init ==
  /\ \E loader \in Loaders : /\ avail_layers = loader.layers
                             /\ avail_extensions = loader.extensions
  /\ avail_device \in Offers
  /\ enabled = [h \in VkInstances |-> Null]
  /\ alive = {}
  /\ instance_ = [i \in Instances |-> Null]
  /\ devices = [d \in DevObjects |-> Null]
  /\ origin = [d \in DevObjects |-> Null]
  /\ moved = {}

-----------------------------------------------------------------------------
(* MUTANT of FilterList: what is missing is only warned of.                *)
FilterNothing(old, values, available) == old \cup NamesOf(values)

(* filter_list: beside those of old the values that are available.  Their  *)
(* order, and whether one is there twice, makes no difference.             *)
FilterList(old, values, available) ==
  old \cup (NamesOf(values) \cap available)

(* filter_layers and both filter_extensions: those of the client and the   *)
(* default ones.                                                           *)
Filter(list, defaults, available) ==
  FilterList(FilterList({}, list, available), defaults, available)

(* The constructor; when createInstance throws nothing has happened.       *)
Construct(i, layers, extensions) ==
  /\ i \notin alive
  /\ \E h \in VkInstances :
       /\ enabled[h] = Null
       /\ enabled' = [enabled EXCEPT ![h] =
            [layers |-> Filter(layers, DefaultLayers, avail_layers),
             extensions |-> Filter(extensions, DefaultExtensions,
                                   avail_extensions)]]
       /\ instance_' = [instance_ EXCEPT ![i] = h]
  /\ alive' = alive \cup {i}
  /\ UNCHANGED <<availVars, moved, deviceVars>>

(* History: VkInstance h is gone; a later one may have the same handle.     *)
Forget(h) ==
  /\ origin' = [d \in DevObjects |->
       IF d \in Made /\ origin[d].vk = h
         THEN [origin[d] EXCEPT !.vk = Null] ELSE origin[d]]
  /\ moved' = moved \ {h}

(* MUTANT of Destroy: clear() does not reset the handle.                   *)
DestroyKeepsHandle(i) ==
  /\ i \in alive
  /\ enabled' = [h \in VkInstances |->
                   IF h = instance_[i] THEN Null ELSE enabled[h]]
  /\ alive' = alive \ {i}
  /\ Forget(instance_[i])
  /\ UNCHANGED <<availVars, instance_, devices>>

(* The destructor: clear().  No Device may use its VkInstance after that.  *)
Destroy(i) ==
  /\ i \in alive
  /\ enabled' = [h \in VkInstances |->
                   IF h = instance_[i] THEN Null ELSE enabled[h]]
  /\ instance_' = [instance_ EXCEPT ![i] = Null]
  /\ alive' = alive \ {i}
  /\ Forget(instance_[i])
  /\ UNCHANGED <<availVars, devices>>

(* History: which VkInstances with Devices an Instance object has lost.    *)
NoteMoves ==
  moved' = moved \cup
    {h \in VkInstances :
       /\ \E i \in Instances : instance_[i] = h /\ instance_'[i] # h
       /\ \E d \in Made : origin[d].vk = h}

(* MUTANT of MoveConstruct: both have the handle.                          *)
MoveKeepsHandle(i, j) ==
  /\ i \in alive /\ j \notin alive
  /\ instance_' = [instance_ EXCEPT ![j] = instance_[i]]
  /\ alive' = alive \cup {j}
  /\ NoteMoves
  /\ UNCHANGED <<availVars, enabled, deviceVars>>

MoveConstruct(i, j) ==
  /\ i \in alive /\ j \notin alive
  /\ instance_' = [instance_ EXCEPT ![j] = instance_[i], ![i] = Null]
  /\ alive' = alive \cup {j}
  /\ NoteMoves
  /\ UNCHANGED <<availVars, enabled, deviceVars>>

(* MUTANT of Assign: the handle assigned to is destroyed.                  *)
AssignClears(i, j) ==
  /\ i \in alive /\ j \in alive /\ i # j
  /\ enabled' = [h \in VkInstances |->
                   IF h = instance_[i] THEN Null ELSE enabled[h]]
  /\ instance_' = [instance_ EXCEPT ![i] = instance_[j], ![j] = Null]
  /\ NoteMoves
  /\ UNCHANGED <<availVars, alive, deviceVars>>

(* The move assignment exchanges the handles.                              *)
Assign(i, j) ==
  /\ i \in alive /\ j \in alive
  /\ instance_' = [instance_ EXCEPT ![i] = instance_[j],
                                    ![j] = instance_[i]]
  /\ NoteMoves
  /\ UNCHANGED <<availVars, enabled, alive, deviceVars>>

-----------------------------------------------------------------------------
(* devices(): the i-th list is for the i-th physical device; if there are  *)
(* fewer lists it gets none, if there are more they are passed over.       *)
ListFor(p, lists) == IF p > Len(lists) THEN <<>> ELSE lists[p]

(* Device::Device: filter_extensions decides what createDevice enables;    *)
(* extensions_ keeps the whole list.                                       *)
NewDevice(i, p, list) ==
  [instance |-> i, phy_device |-> p, extensions |-> list,
   enabled |-> Filter(list, DefaultDeviceExtensions, avail_device[p])]

(* Instance::devices, for an Instance that has its VkInstance.  Places is  *)
(* where the elements of the vector are.                                   *)
Devices(i, lists, places) ==
  /\ i \in alive /\ instance_[i] # Null
  /\ \A p \in Phys : places[p] \notin Made
  /\ \A p, q \in Phys : places[p] = places[q] => p = q
  /\ LET Element(d) == \E p \in Phys : places[p] = d
         Place(d) == CHOOSE p \in Phys : places[p] = d
     IN /\ devices' = [d \in DevObjects |->
             IF Element(d)
               THEN NewDevice(i, Place(d), ListFor(Place(d), lists))
               ELSE devices[d]]
        /\ origin' = [d \in DevObjects |->
             IF Element(d)
               THEN [maker |-> i, vk |-> instance_[i],
                     asked |-> IF Place(d) \in DOMAIN lists
                                 THEN lists[Place(d)] ELSE <<>>,
                     kept |-> TRUE]
               ELSE origin[d]]
  /\ UNCHANGED <<availVars, instanceVars>>

(* The physical device has to be there still when a Device is copied.      *)
CopyPossible(d) == d \in Made /\ origin[d].vk # Null

CopyOf(d) ==
  NewDevice(devices[d].instance, devices[d].phy_device,
            devices[d].extensions)

(* Device::Device(const Device &).                                         *)
CopyDevice(d, e) ==
  /\ CopyPossible(d) /\ e \notin Made
  /\ devices' = [devices EXCEPT ![e] = CopyOf(d)]
  /\ origin' = [origin EXCEPT ![e] = origin[d]]
  /\ UNCHANGED <<availVars, instanceVars>>

(* Device::Device(Device &&): the vector of extensions is moved, the rest  *)
(* is copied.                                                              *)
MoveDevice(d, e) ==
  /\ d \in Made /\ e \notin Made
  /\ devices' = [devices EXCEPT ![e] = devices[d],
                                ![d].extensions = <<>>]
  /\ origin' = [origin EXCEPT ![e] = origin[d], ![d].kept = FALSE]
  /\ UNCHANGED <<availVars, instanceVars>>

(* MUTANT of Take: the list of extensions stays behind.                    *)
TakeAllButList(d, e) ==
  [e EXCEPT !.instance = devices[d].instance,
            !.extensions = devices[d].extensions]

(* What swap(d, e) leaves in d: everything of e but the reference.         *)
Take(d, e) == [e EXCEPT !.instance = devices[d].instance]

SwapDevices(d, e) ==
  /\ d \in Made /\ e \in Made
  /\ devices' = [devices EXCEPT ![d] = Take(d, devices[e]),
                                ![e] = Take(e, devices[d])]
  /\ origin' = [origin EXCEPT ![d] = origin[e], ![e] = origin[d]]
  /\ UNCHANGED <<availVars, instanceVars>>

(* d = e: a copy of e is swapped with d and destroyed.                     *)
AssignDevice(d, e) ==
  /\ d \in Made /\ CopyPossible(e)
  /\ devices' = [devices EXCEPT ![d] = Take(d, CopyOf(e))]
  /\ origin' = [origin EXCEPT ![d] = origin[e]]
  /\ UNCHANGED <<availVars, instanceVars>>

DestroyDevice(d) ==
  /\ d \in Made
  /\ devices' = [devices EXCEPT ![d] = Null]
  /\ origin' = [origin EXCEPT ![d] = Null]
  /\ UNCHANGED <<availVars, instanceVars>>

-----------------------------------------------------------------------------
InstanceOps ==
  \/ \E i \in Instances, layers, extensions \in InstanceLists :
       Construct(i, layers, extensions)
  \/ \E i \in Instances : Destroy(i)
  \/ \E i, j \in Instances : MoveConstruct(i, j) \/ Assign(i, j)

DeviceOps ==
  \/ \E i \in Instances, lists \in Asked, places \in [Phys -> DevObjects] :
       Devices(i, lists, places)
  \/ \E d, e \in DevObjects :
       \/ CopyDevice(d, e) \/ MoveDevice(d, e)
       \/ SwapDevices(d, e) \/ AssignDevice(d, e)
  \/ \E d \in DevObjects : DestroyDevice(d)

Next == InstanceOps \/ DeviceOps

Spec == Init /\ [][Next]_vars

-----------------------------------------------------------------------------
(* What every state looks like; only an Instance has a VkInstance.         *)
TypeOK ==
  /\ avail_layers \subseteq Names /\ avail_extensions \subseteq Names
  /\ avail_device \in [Phys -> SUBSET Names]
  /\ enabled \in [VkInstances -> Enabled \cup {Null}]
  /\ alive \subseteq Instances
  /\ instance_ \in [Instances -> VkInstances \cup {Null}]
  /\ \A i \in Instances \ alive : instance_[i] = Null
  /\ devices \in [DevObjects -> DeviceFields \cup {Null}]
  /\ \A d \in DevObjects :
       IF d \in Made THEN origin[d] \in Origins ELSE origin[d] = Null
  /\ DOMAIN origin = DevObjects
  /\ moved \subseteq VkInstances

(* A VkInstance has one owner, through moves and assignments, and none is  *)
(* left without.                                                           *)
OwnedOnce ==
  /\ \A h \in VkInstances : enabled[h] # Null <=>
       \E i \in alive : instance_[i] = h
  /\ \A i, j \in Instances :
       instance_[i] = instance_[j] /\ i # j => instance_[i] = Null

(* No Vulkan object is asked for what is missing, which would make its     *)
(* creation fail, and every default that is there is enabled.              *)
EnablesWhatIsThere ==
  LET right(names, defaults, available) ==
        /\ names \subseteq available
        /\ NamesOf(defaults) \cap available \subseteq names
  IN /\ \A h \in VkInstances : enabled[h] # Null =>
          /\ right(enabled[h].layers, DefaultLayers, avail_layers)
          /\ right(enabled[h].extensions, DefaultExtensions,
                   avail_extensions)
     /\ \A d \in Made :
          right(devices[d].enabled, DefaultDeviceExtensions,
                avail_device[devices[d].phy_device])

(* The VkDevice of a Device has the extensions that the client asked for   *)
(* when it enumerated the devices, as far as its physical device has them, *)
(* after any sequence of copies, moves, swaps and assignments, unless it   *)
(* has been moved from or comes from one that had.                         *)
AsAsked ==
  \A d \in Made :
    LET available == avail_device[devices[d].phy_device]
    IN origin[d].kept =>
         NamesOf(origin[d].asked) \cap available \subseteq devices[d].enabled

(* Until a destructor destroys it the VkInstance of every Device exists,   *)
(* whatever is moved and assigned, and unless it is moved away from the    *)
(* object whose devices() made the Device, instance() is its owner for     *)
(* just those Devices that refer to this object: whatever is copied, moved *)
(* and swapped, a Device is wrong about its Instance when it has taken the *)
(* VkDevice of a Device that referred to another, and only then.           *)
InstanceKnown ==
  \A d \in Made :
    LET o == origin[d]
    IN o.vk # Null =>
         /\ enabled[o.vk] # Null
         /\ o.vk \notin moved =>
              (instance_[devices[d].instance] = o.vk
                 <=> devices[d].instance = o.maker)
=============================================================================
