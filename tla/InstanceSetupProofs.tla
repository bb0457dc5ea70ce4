------------------------- MODULE InstanceSetupProofs ------------------------
(***************************************************************************)
(* Proofs about InstanceSetup: for any Instances, Devices and lists of     *)
(* names each VkInstance has one owner, nothing is enabled that is missing *)
(* and nothing left out that is there, a Device keeps what it was asked to *)
(* have, and is right about its Instance unless the client moved that or   *)
(* gave it the VkDevice of another's Device.                               *)
(***************************************************************************)
EXTENDS InstanceSetup, TLAPS

(* What the VkDevice of a Device with fields e was made with.              *)
MadeWith(e, list) ==
  e.enabled = Filter(list, DefaultDeviceExtensions,
                     avail_device[e.phy_device])

(* The fields of a Device and where its VkDevice comes from: it was made   *)
(* with some list; a list that has been kept is the one the client asked   *)
(* for; and a VkInstance that has not moved is where it was.               *)
Consistent(e, o) ==
  /\ e \in DeviceFields /\ o \in Origins
  /\ \E list \in Seq(Names) : MadeWith(e, list)
  /\ o.kept => e.extensions = o.asked /\ MadeWith(e, o.asked)
  /\ o.vk # Null => /\ enabled[o.vk] # Null
                    /\ o.vk \in moved \/ instance_[o.maker] = o.vk

Right(e, o) == IF e = Null THEN o = Null ELSE Consistent(e, o)

DevicesRight == \A d \in DevObjects : Right(devices[d], origin[d])

(* What a VkInstance was made with.                                        *)
EnabledKept ==
  \A h \in VkInstances : enabled[h] # Null =>
    \E layers, extensions \in InstanceLists :
      /\ enabled[h].layers = Filter(layers, DefaultLayers, avail_layers)
      /\ enabled[h].extensions
           = Filter(extensions, DefaultExtensions, avail_extensions)

IndInv == TypeOK /\ OwnedOnce /\ EnabledKept /\ DevicesRight

-----------------------------------------------------------------------------
(* The filter leaves out what is missing and nothing else, and is a set of *)
(* names.                                                                  *)
LEMMA FilterIs ==
  ASSUME NEW list \in Seq(Names), NEW defaults \in Seq(Names),
         NEW available \in SUBSET Names
  PROVE  /\ Filter(list, defaults, available) \subseteq Names
         /\ Filter(list, defaults, available) \subseteq available
         /\ NamesOf(list) \cap available
              \subseteq Filter(list, defaults, available)
         /\ NamesOf(defaults) \cap available
              \subseteq Filter(list, defaults, available)
BY DEF Filter, FilterList

LEMMA DefaultsAre ==
  /\ DefaultLayers \in Seq(Names) /\ DefaultExtensions \in Seq(Names)
  /\ DefaultDeviceExtensions \in Seq(Names)
  /\ \A list \in InstanceLists \cup DeviceLists : list \in Seq(Names)
BY InstanceAssumption

LEMMA MadeIs ==
  ASSUME TypeOK
  PROVE  /\ Made \subseteq DevObjects
         /\ \A d \in DevObjects : d \in Made <=> devices[d] # Null
         /\ \A d \in Made : devices[d] \in DeviceFields
BY DEF TypeOK, Made

LEMMA FieldsAre ==
  ASSUME NEW e \in DeviceFields
  PROVE  /\ e.instance \in Instances /\ e.phy_device \in Phys
         /\ e.extensions \in Seq(Names) /\ e.enabled \in SUBSET Names
         /\ e # Null
BY InstanceAssumption DEF DeviceFields

LEMMA EmptiedIs ==
  ASSUME NEW e \in DeviceFields
  PROVE  /\ [e EXCEPT !.extensions = <<>>] \in DeviceFields
         /\ [e EXCEPT !.extensions = <<>>] # Null
         /\ [e EXCEPT !.extensions = <<>>].phy_device = e.phy_device
         /\ [e EXCEPT !.extensions = <<>>].enabled = e.enabled
<1>1. <<>> \in Seq(Names)
  OBVIOUS
<1>2. [e EXCEPT !.extensions = <<>>] \in DeviceFields
  BY <1>1 DEF DeviceFields
<1>3. /\ [e EXCEPT !.extensions = <<>>].phy_device = e.phy_device
      /\ [e EXCEPT !.extensions = <<>>].enabled = e.enabled
  BY DEF DeviceFields
<1>. QED BY <1>2, <1>3, InstanceAssumption

LEMMA OriginsAre ==
  ASSUME NEW o \in Origins
  PROVE  /\ o.maker \in Instances /\ o.vk \in VkInstances \cup {Null}
         /\ o.asked \in Seq(Names) /\ o.kept \in BOOLEAN
         /\ [o EXCEPT !.vk = Null] \in Origins
         /\ [o EXCEPT !.vk = Null].vk = Null
         /\ [o EXCEPT !.vk = Null].asked = o.asked
         /\ [o EXCEPT !.vk = Null].kept = o.kept
         /\ [o EXCEPT !.kept = FALSE] \in Origins
         /\ [o EXCEPT !.kept = FALSE].vk = o.vk
         /\ [o EXCEPT !.kept = FALSE].maker = o.maker
         /\ [o EXCEPT !.kept = FALSE].kept = FALSE
BY DEF Origins

(* A Device that is made, its fields, and what swap leaves of another.     *)
LEMMA NewDeviceIs ==
  ASSUME TypeOK, NEW i \in Instances, NEW p \in Phys,
         NEW list \in Seq(Names)
  PROVE  LET e == NewDevice(i, p, list)
         IN /\ e \in DeviceFields
            /\ e.instance = i /\ e.phy_device = p /\ e.extensions = list
            /\ e.enabled = Filter(list, DefaultDeviceExtensions,
                                  avail_device[p])
<1>1. avail_device[p] \in SUBSET Names
  BY DEF TypeOK
<1>2. Filter(list, DefaultDeviceExtensions, avail_device[p]) \in SUBSET Names
  BY <1>1, DefaultsAre, FilterIs
<1>. QED BY <1>2 DEF NewDevice, DeviceFields

(* Consistency does not depend on the reference to the Instance.           *)
LEMMA TakeIs ==
  ASSUME NEW d, devices[d] \in DeviceFields, NEW e, NEW o,
         Consistent(e, o)
  PROVE  Consistent(Take(d, e), o) /\ Take(d, e) # Null
<1>1. e \in DeviceFields
  BY DEF Consistent
<1>2. /\ Take(d, e) \in DeviceFields
      /\ Take(d, e).phy_device = e.phy_device
      /\ Take(d, e).extensions = e.extensions
      /\ Take(d, e).enabled = e.enabled
  BY <1>1 DEF Take, DeviceFields
<1>. QED BY <1>2, FieldsAre DEF Consistent, MadeWith

LEMMA EachRight ==
  ASSUME IndInv, NEW d \in Made
  PROVE  /\ Consistent(devices[d], origin[d])
         /\ devices[d] \in DeviceFields /\ origin[d] \in Origins
<1>1. d \in DevObjects /\ devices[d] # Null
  BY DEF Made
<1>. QED BY <1>1 DEF IndInv, DevicesRight, Right, Consistent

(* The properties of what was enabled follow from how it was filtered.     *)
LEMMA InvEnables == IndInv => EnablesWhatIsThere
<1>1. SUFFICES ASSUME IndInv PROVE EnablesWhatIsThere
  OBVIOUS
<1>2. /\ avail_layers \in SUBSET Names /\ avail_extensions \in SUBSET Names
      /\ \A p \in Phys : avail_device[p] \in SUBSET Names
  BY <1>1 DEF IndInv, TypeOK
<1>3. ASSUME NEW h \in VkInstances, enabled[h] # Null
      PROVE  /\ enabled[h].layers \subseteq avail_layers
             /\ NamesOf(DefaultLayers) \cap avail_layers
                  \subseteq enabled[h].layers
             /\ enabled[h].extensions \subseteq avail_extensions
             /\ NamesOf(DefaultExtensions) \cap avail_extensions
                  \subseteq enabled[h].extensions
  <2>1. PICK layers \in InstanceLists, extensions \in InstanceLists :
          /\ enabled[h].layers = Filter(layers, DefaultLayers, avail_layers)
          /\ enabled[h].extensions
               = Filter(extensions, DefaultExtensions, avail_extensions)
    BY <1>1, <1>3 DEF IndInv, EnabledKept
  <2>. QED BY <1>2, <2>1, DefaultsAre, FilterIs
<1>4. ASSUME NEW d \in Made
      PROVE  LET available == avail_device[devices[d].phy_device]
             IN /\ devices[d].enabled \subseteq available
                /\ NamesOf(DefaultDeviceExtensions) \cap available
                     \subseteq devices[d].enabled
  <2>1. devices[d].phy_device \in Phys
    BY <1>1, EachRight, FieldsAre
  <2>2. PICK list \in Seq(Names) :
          devices[d].enabled = Filter(list, DefaultDeviceExtensions,
                                      avail_device[devices[d].phy_device])
    BY <1>1, EachRight DEF Consistent, MadeWith
  <2>. QED BY <1>2, <2>1, <2>2, DefaultsAre, FilterIs
<1>. QED BY <1>3, <1>4 DEF EnablesWhatIsThere

LEMMA InvAsAsked == IndInv => AsAsked
<1>1. SUFFICES ASSUME IndInv, NEW d \in Made, origin[d].kept
               PROVE  NamesOf(origin[d].asked)
                        \cap avail_device[devices[d].phy_device]
                          \subseteq devices[d].enabled
  BY DEF AsAsked
<1>2. /\ devices[d].phy_device \in Phys /\ origin[d].asked \in Seq(Names)
      /\ devices[d].enabled = Filter(origin[d].asked,
                                     DefaultDeviceExtensions,
                                     avail_device[devices[d].phy_device])
  BY <1>1, EachRight, FieldsAre, OriginsAre DEF Consistent, MadeWith
<1>3. avail_device[devices[d].phy_device] \in SUBSET Names
  BY <1>1, <1>2 DEF IndInv, TypeOK
<1>. QED BY <1>2, <1>3, DefaultsAre, FilterIs

(* A VkInstance that is where it was has no second owner.                  *)
LEMMA InvKnown == IndInv => InstanceKnown
<1>1. SUFFICES ASSUME IndInv, NEW d \in Made, origin[d].vk # Null
               PROVE  /\ enabled[origin[d].vk] # Null
                      /\ origin[d].vk \notin moved =>
                           (instance_[devices[d].instance] = origin[d].vk
                              <=> devices[d].instance = origin[d].maker)
  BY DEF InstanceKnown
<1>2. /\ enabled[origin[d].vk] # Null
      /\ \/ origin[d].vk \in moved
         \/ instance_[origin[d].maker] = origin[d].vk
      /\ devices[d].instance \in Instances /\ origin[d].maker \in Instances
  BY <1>1, EachRight, FieldsAre, OriginsAre DEF Consistent
<1>3. \A i, j \in Instances :
        instance_[i] = instance_[j] /\ i # j => instance_[i] = Null
  BY <1>1 DEF IndInv, OwnedOnce
<1>. QED BY <1>1, <1>2, <1>3

-----------------------------------------------------------------------------
(* Each action keeps the invariant.  What happens to Instances leaves the  *)
(* Devices alone, but for the VkInstance that a destructor destroys.       *)

LEMMA DevicesStay ==
  ASSUME IndInv, UNCHANGED <<avail_device, devices, origin>>,
         \A d \in Made : origin[d].vk # Null =>
           /\ enabled'[origin[d].vk] # Null
           /\ \/ origin[d].vk \in moved'
              \/ instance_'[origin[d].maker] = origin[d].vk
  PROVE  DevicesRight' /\ Made' = Made
<1>1. Made' = Made
  BY DEF Made
<1>2. ASSUME NEW d \in DevObjects PROVE Right(devices[d], origin[d])'
  <2>1. CASE devices[d] = Null
    BY <2>1 DEF IndInv, DevicesRight, Right
  <2>2. CASE devices[d] # Null
    <3>1. d \in Made
      BY <2>2 DEF Made
    <3>2. Consistent(devices[d], origin[d])
      BY <3>1, EachRight
    <3>3. \A list : MadeWith(devices[d], list)'
                      <=> MadeWith(devices[d], list)
      BY DEF MadeWith
    <3>. QED BY <2>2, <3>1, <3>2, <3>3 DEF Right, Consistent, MadeWith
  <2>. QED BY <2>1, <2>2
<1>. QED BY <1>1, <1>2 DEF DevicesRight

(* Instance(layers, extensions).                                           *)
LEMMA ConstructKeeps ==
  ASSUME IndInv, NEW i \in Instances, NEW layers \in InstanceLists,
         NEW extensions \in InstanceLists, Construct(i, layers, extensions)
  PROVE  IndInv'
<1> DEFINE made == [layers |-> Filter(layers, DefaultLayers, avail_layers),
                    extensions |-> Filter(extensions, DefaultExtensions,
                                          avail_extensions)]
<1>1. TypeOK /\ OwnedOnce /\ EnabledKept /\ DevicesRight
  BY DEF IndInv
<1>2. PICK h \in VkInstances :
        /\ enabled[h] = Null
        /\ enabled' = [enabled EXCEPT ![h] = made]
        /\ instance_' = [instance_ EXCEPT ![i] = h]
  BY DEF Construct
<1>3. /\ i \notin alive /\ alive' = alive \cup {i}
      /\ UNCHANGED <<avail_layers, avail_extensions, avail_device,
                     moved, devices, origin>>
  BY DEF Construct, availVars, deviceVars
<1>4. /\ made.layers = Filter(layers, DefaultLayers, avail_layers)
      /\ made.extensions
           = Filter(extensions, DefaultExtensions, avail_extensions)
  OBVIOUS
<1>5. made \in Enabled
  <2>1. /\ Filter(layers, DefaultLayers, avail_layers) \in SUBSET Names
        /\ Filter(extensions, DefaultExtensions, avail_extensions)
             \in SUBSET Names
    BY <1>1, DefaultsAre, FilterIs DEF TypeOK
  <2>. QED BY <2>1 DEF Enabled
<1>6. made # Null
  BY <1>5, InstanceAssumption
<1> HIDE DEF made
<1>7. /\ enabled \in [VkInstances -> Enabled \cup {Null}]
      /\ instance_ \in [Instances -> VkInstances \cup {Null}]
      /\ alive \subseteq Instances /\ h # Null /\ instance_[i] = Null
  BY <1>1, <1>3, InstanceAssumption DEF TypeOK
<1>8. /\ enabled' \in [VkInstances -> Enabled \cup {Null}]
      /\ enabled'[h] = made
      /\ \A g \in VkInstances \ {h} : enabled'[g] = enabled[g]
      /\ instance_' \in [Instances -> VkInstances \cup {Null}]
      /\ instance_'[i] = h
      /\ \A j \in Instances \ {i} : instance_'[j] = instance_[j]
  BY <1>2, <1>5, <1>7
<1>9. DevicesRight' /\ Made' = Made
  <2>1. ASSUME NEW d \in Made, origin[d].vk # Null
        PROVE  /\ enabled'[origin[d].vk] # Null
               /\ \/ origin[d].vk \in moved'
                  \/ instance_'[origin[d].maker] = origin[d].vk
    <3>1. /\ origin[d].vk \in VkInstances /\ origin[d].maker \in Instances
          /\ enabled[origin[d].vk] # Null
          /\ \/ origin[d].vk \in moved
             \/ instance_[origin[d].maker] = origin[d].vk
      BY <2>1, EachRight, OriginsAre DEF Consistent
    <3>2. enabled'[origin[d].vk] # Null
      BY <1>2, <1>8, <3>1
    <3>3. instance_[origin[d].maker] = origin[d].vk =>
            instance_'[origin[d].maker] = origin[d].vk
      BY <1>7, <1>8, <2>1, <3>1
    <3>. QED BY <1>3, <3>1, <3>2, <3>3
  <2>. QED BY <1>3, <2>1, DevicesStay
<1>10. TypeOK'
  BY <1>1, <1>3, <1>7, <1>8, <1>9 DEF TypeOK
<1>11. OwnedOnce'
  <2>1. \A j \in Instances : instance_[j] # h
    BY <1>1, <1>2, <1>7 DEF OwnedOnce, TypeOK
  <2>2. \A g \in VkInstances : enabled'[g] # Null <=>
          \E j \in alive' : instance_'[j] = g
    <3>1. ASSUME NEW g \in VkInstances
          PROVE  enabled'[g] # Null <=> \E j \in alive' : instance_'[j] = g
      <4>1. CASE g = h
        BY <1>3, <1>6, <1>8, <4>1
      <4>2. CASE g # h
        <5>1. \A j \in alive : instance_'[j] = instance_[j]
          BY <1>3, <1>7, <1>8
        <5>. QED BY <1>1, <1>3, <1>8, <4>2, <5>1 DEF OwnedOnce
      <4>. QED BY <4>1, <4>2
    <3>. QED BY <3>1
  <2>3. \A j, k \in Instances : instance_'[j] = instance_'[k] /\ j # k =>
          instance_'[j] = Null
    BY <1>1, <1>8, <2>1 DEF OwnedOnce
  <2>. QED BY <2>2, <2>3 DEF OwnedOnce
<1>12. EnabledKept'
  <2>1. SUFFICES ASSUME NEW g \in VkInstances, enabled'[g] # Null
                 PROVE  \E ls, xs \in InstanceLists :
                   /\ enabled'[g].layers
                        = Filter(ls, DefaultLayers, avail_layers)
                   /\ enabled'[g].extensions
                        = Filter(xs, DefaultExtensions, avail_extensions)
    BY <1>3 DEF EnabledKept
  <2>2. CASE g = h
    BY <1>4, <1>8, <2>2
  <2>3. CASE g # h
    BY <1>1, <1>8, <2>1, <2>3 DEF EnabledKept
  <2>. QED BY <2>2, <2>3
<1>. QED BY <1>9, <1>10, <1>11, <1>12 DEF IndInv

(* clear(): with the VkInstance goes what the Devices know of it.          *)
LEMMA DestroyKeeps ==
  ASSUME IndInv, NEW i \in Instances, Destroy(i)
  PROVE  IndInv'
<1>1. TypeOK /\ OwnedOnce /\ EnabledKept /\ DevicesRight
  BY DEF IndInv
<1>2. /\ i \in alive /\ alive' = alive \ {i}
      /\ enabled' = [h \in VkInstances |->
                       IF h = instance_[i] THEN Null ELSE enabled[h]]
      /\ instance_' = [instance_ EXCEPT ![i] = Null]
      /\ origin' = [d \in DevObjects |->
           IF d \in Made /\ origin[d].vk = instance_[i]
             THEN [origin[d] EXCEPT !.vk = Null] ELSE origin[d]]
      /\ moved' = moved \ {instance_[i]}
      /\ UNCHANGED <<avail_layers, avail_extensions, avail_device, devices>>
  BY DEF Destroy, Forget, availVars
<1>3. /\ enabled \in [VkInstances -> Enabled \cup {Null}]
      /\ instance_ \in [Instances -> VkInstances \cup {Null}]
      /\ alive \subseteq Instances
  BY <1>1 DEF TypeOK
<1>4. /\ enabled' \in [VkInstances -> Enabled \cup {Null}]
      /\ instance_' \in [Instances -> VkInstances \cup {Null}]
      /\ instance_'[i] = Null
      /\ \A j \in Instances \ {i} : instance_'[j] = instance_[j]
  BY <1>2, <1>3
<1>5. DevicesRight' /\ Made' = Made
  <2>1. Made' = Made
    BY <1>2 DEF Made
  <2>2. ASSUME NEW d \in DevObjects PROVE Right(devices[d], origin[d])'
    <3>1. CASE d \notin Made
      <4>1. devices[d] = Null /\ origin'[d] = origin[d]
        BY <1>2, <3>1 DEF Made
      <4>. QED BY <1>1, <1>2, <4>1 DEF DevicesRight, Right
    <3>2. CASE d \in Made
      <4>1. /\ Consistent(devices[d], origin[d])
            /\ devices[d] \in DeviceFields /\ origin[d] \in Origins
        BY <3>2, EachRight
      <4>2. devices'[d] = devices[d] /\ devices[d] # Null
        BY <1>2, <4>1, FieldsAre
      <4>3. PICK o : o = origin'[d]
        OBVIOUS
      <4>4. CASE origin[d].vk = instance_[i]
        <5>1. o = [origin[d] EXCEPT !.vk = Null]
          BY <1>2, <3>2, <4>3, <4>4
        <5>2. /\ o \in Origins /\ o.vk = Null
              /\ o.asked = origin[d].asked /\ o.kept = origin[d].kept
          BY <4>1, <5>1, OriginsAre
        <5>. QED BY <1>2, <4>1, <4>2, <4>3, <5>2
                 DEF Right, Consistent, MadeWith
      <4>5. CASE origin[d].vk # instance_[i]
        <5>1. o = origin[d]
          BY <1>2, <4>3, <4>5
        <5>2. /\ origin[d].vk \in VkInstances \cup {Null}
              /\ origin[d].maker \in Instances
          BY <4>1, OriginsAre
        <5>3. origin[d].vk # Null =>
                /\ enabled'[origin[d].vk] # Null
                /\ \/ origin[d].vk \in moved'
                   \/ instance_'[origin[d].maker] = origin[d].vk
          BY <1>2, <1>4, <4>1, <4>5, <5>2 DEF Consistent
        <5>. QED BY <1>2, <4>1, <4>2, <4>3, <5>1, <5>3
                 DEF Right, Consistent, MadeWith
      <4>. QED BY <4>4, <4>5
    <3>. QED BY <3>1, <3>2
  <2>. QED BY <2>1, <2>2 DEF DevicesRight
<1>6. TypeOK'
  <2>1. \A d \in DevObjects :
          IF d \in Made THEN origin'[d] \in Origins ELSE origin'[d] = Null
    BY <1>2, <1>5 DEF Made, DevicesRight, Right, Consistent
  <2>2. DOMAIN origin' = DevObjects
    BY <1>2
  <2>. QED BY <1>1, <1>2, <1>3, <1>4, <1>5, <2>1, <2>2 DEF TypeOK
<1>7. OwnedOnce'
  <2>1. ASSUME NEW h \in VkInstances
        PROVE  enabled'[h] # Null <=> \E j \in alive' : instance_'[j] = h
    <3>1. \A j \in alive' : instance_'[j] = instance_[j]
      BY <1>2, <1>3, <1>4
    <3>2. CASE h = instance_[i]
      <4>1. enabled'[h] = Null
        BY <1>2, <3>2
      <4>2. \A j \in alive' : instance_[j] # h
        BY <1>1, <1>2, <1>3, <3>2, InstanceAssumption DEF OwnedOnce
      <4>. QED BY <3>1, <4>1, <4>2
    <3>3. CASE h # instance_[i]
      <4>1. enabled'[h] = enabled[h]
        BY <1>2, <3>3
      <4>. QED BY <1>1, <1>2, <3>1, <3>3, <4>1 DEF OwnedOnce
    <3>. QED BY <3>2, <3>3
  <2>2. \A j, k \in Instances : instance_'[j] = instance_'[k] /\ j # k =>
          instance_'[j] = Null
    BY <1>1, <1>4 DEF OwnedOnce
  <2>. QED BY <2>1, <2>2 DEF OwnedOnce
<1>8. EnabledKept'
  <2>1. \A h \in VkInstances : enabled'[h] # Null => enabled'[h] = enabled[h]
    BY <1>2
  <2>. QED BY <1>1, <1>2, <2>1 DEF EnabledKept
<1>. QED BY <1>5, <1>6, <1>7, <1>8 DEF IndInv

(* Moves and assignments give handles to other objects; what Devices lose  *)
(* by that is noted.                                                       *)
LEMMA StillKnown ==
  ASSUME IndInv, NoteMoves,
         UNCHANGED <<avail_layers, avail_extensions, avail_device, enabled,
                     devices, origin>>
  PROVE  /\ DevicesRight' /\ EnabledKept' /\ Made' = Made
         /\ moved' \subseteq VkInstances
<1>1. moved \subseteq VkInstances
  BY DEF IndInv, TypeOK
<1>2. EnabledKept'
  BY DEF IndInv, EnabledKept
<1>3. moved' \subseteq VkInstances /\ moved \subseteq moved'
  BY <1>1 DEF NoteMoves
<1>4. ASSUME NEW d \in Made, origin[d].vk # Null
      PROVE  /\ enabled'[origin[d].vk] # Null
             /\ \/ origin[d].vk \in moved'
                \/ instance_'[origin[d].maker] = origin[d].vk
  <2>1. /\ origin[d].vk \in VkInstances /\ origin[d].maker \in Instances
        /\ enabled[origin[d].vk] # Null
        /\ \/ origin[d].vk \in moved
           \/ instance_[origin[d].maker] = origin[d].vk
    BY <1>4, EachRight, OriginsAre DEF Consistent
  <2>2. /\ instance_[origin[d].maker] = origin[d].vk
        /\ instance_'[origin[d].maker] # origin[d].vk
        => origin[d].vk \in moved'
    BY <1>4, <2>1 DEF NoteMoves
  <2>. QED BY <1>3, <2>1, <2>2
<1>5. DevicesRight' /\ Made' = Made
  BY <1>4, DevicesStay
<1>. QED BY <1>2, <1>3, <1>5

LEMMA MoveConstructKeeps ==
  ASSUME IndInv, NEW i \in Instances, NEW j \in Instances,
         MoveConstruct(i, j)
  PROVE  IndInv'
<1>1. TypeOK /\ OwnedOnce
  BY DEF IndInv
<1>2. /\ i \in alive /\ j \notin alive /\ alive' = alive \cup {j}
      /\ instance_' = [instance_ EXCEPT ![j] = instance_[i], ![i] = Null]
      /\ NoteMoves
      /\ UNCHANGED <<avail_layers, avail_extensions, avail_device, enabled,
                     devices, origin>>
  BY DEF MoveConstruct, availVars, deviceVars
<1>3. /\ instance_ \in [Instances -> VkInstances \cup {Null}]
      /\ alive \subseteq Instances /\ instance_[j] = Null /\ i # j
  BY <1>1, <1>2 DEF TypeOK
<1>4. /\ instance_' \in [Instances -> VkInstances \cup {Null}]
      /\ instance_'[i] = Null /\ instance_'[j] = instance_[i]
      /\ \A k \in Instances \ {i, j} : instance_'[k] = instance_[k]
  BY <1>2, <1>3
<1>5. /\ DevicesRight' /\ EnabledKept' /\ Made' = Made
      /\ moved' \subseteq VkInstances
  BY <1>2, StillKnown
<1>6. TypeOK'
  BY <1>1, <1>2, <1>3, <1>4, <1>5 DEF TypeOK
<1>7. OwnedOnce'
  <2>1. ASSUME NEW h \in VkInstances
        PROVE  enabled[h] # Null <=> \E k \in alive' : instance_'[k] = h
    <3>1. h # Null
      BY InstanceAssumption
    <3>2. (\E k \in alive : instance_[k] = h) <=>
            \E k \in alive' : instance_'[k] = h
      BY <1>2, <1>3, <1>4, <3>1
    <3>. QED BY <1>1, <3>2 DEF OwnedOnce
  <2>2. \A k, l \in Instances : instance_'[k] = instance_'[l] /\ k # l =>
          instance_'[k] = Null
    BY <1>1, <1>3, <1>4 DEF OwnedOnce
  <2>. QED BY <1>2, <2>1, <2>2 DEF OwnedOnce
<1>. QED BY <1>5, <1>6, <1>7 DEF IndInv

LEMMA AssignKeeps ==
  ASSUME IndInv, NEW i \in Instances, NEW j \in Instances, Assign(i, j)
  PROVE  IndInv'
<1>1. TypeOK /\ OwnedOnce
  BY DEF IndInv
<1>2. /\ i \in alive /\ j \in alive
      /\ instance_' = [instance_ EXCEPT ![i] = instance_[j],
                                        ![j] = instance_[i]]
      /\ NoteMoves
      /\ UNCHANGED <<avail_layers, avail_extensions, avail_device, enabled,
                     alive, devices, origin>>
  BY DEF Assign, availVars, deviceVars
<1>3. /\ instance_ \in [Instances -> VkInstances \cup {Null}]
      /\ alive \subseteq Instances
  BY <1>1 DEF TypeOK
<1>4. /\ instance_' \in [Instances -> VkInstances \cup {Null}]
      /\ instance_'[i] = instance_[j] /\ instance_'[j] = instance_[i]
      /\ \A k \in Instances \ {i, j} : instance_'[k] = instance_[k]
  BY <1>2, <1>3
<1>5. /\ DevicesRight' /\ EnabledKept' /\ Made' = Made
      /\ moved' \subseteq VkInstances
  BY <1>2, StillKnown
<1>6. TypeOK'
  BY <1>1, <1>2, <1>3, <1>4, <1>5 DEF TypeOK
<1>7. OwnedOnce'
  <2>1. ASSUME NEW h \in VkInstances
        PROVE  enabled[h] # Null <=> \E k \in alive : instance_'[k] = h
    <3>1. (\E k \in alive : instance_[k] = h) <=>
            \E k \in alive : instance_'[k] = h
      BY <1>2, <1>3, <1>4
    <3>. QED BY <1>1, <3>1 DEF OwnedOnce
  <2>2. \A k, l \in Instances : instance_'[k] = instance_'[l] /\ k # l =>
          instance_'[k] = Null
    BY <1>1, <1>3, <1>4 DEF OwnedOnce
  <2>. QED BY <1>2, <2>1, <2>2 DEF OwnedOnce
<1>. QED BY <1>5, <1>6, <1>7 DEF IndInv

-----------------------------------------------------------------------------
(* What happens to Devices leaves the Instances alone.                     *)

LEMMA InstancesKept ==
  ASSUME IndInv, UNCHANGED <<avail_layers, avail_extensions, enabled, alive,
                             instance_, moved>>
  PROVE  OwnedOnce' /\ EnabledKept'
<1>1. OwnedOnce'
  BY DEF IndInv, OwnedOnce
<1>2. EnabledKept'
  BY DEF IndInv, EnabledKept
<1>. QED BY <1>1, <1>2

(* It is enough to look at every Device for itself.                        *)
LEMMA DevicesStep ==
  ASSUME IndInv,
         UNCHANGED <<avail_layers, avail_extensions, avail_device, enabled,
                     alive, instance_, moved>>,
         DOMAIN devices' = DevObjects, DOMAIN origin' = DevObjects,
         devices' = [d \in DevObjects |-> devices'[d]],
         \A d \in DevObjects : Right(devices'[d], origin'[d])
  PROVE  IndInv'
<1>1. TypeOK
  BY DEF IndInv
<1>2. \A d \in DevObjects :
        /\ devices'[d] \in DeviceFields \cup {Null}
        /\ IF devices'[d] # Null THEN origin'[d] \in Origins
                                 ELSE origin'[d] = Null
  BY DEF Right, Consistent
<1>3. devices' \in [DevObjects -> DeviceFields \cup {Null}]
  BY <1>2
<1>4. \A d \in DevObjects :
        IF d \in Made' THEN origin'[d] \in Origins ELSE origin'[d] = Null
  BY <1>2 DEF Made
<1>5. TypeOK'
  BY <1>1, <1>3, <1>4 DEF TypeOK
<1>6. OwnedOnce' /\ EnabledKept'
  BY InstancesKept
<1>7. DevicesRight'
  BY DEF DevicesRight, Right, Consistent, MadeWith
<1>. QED BY <1>5, <1>6, <1>7 DEF IndInv

LEMMA DeviceTypes ==
  ASSUME IndInv
  PROVE  /\ devices \in [DevObjects -> DeviceFields \cup {Null}]
         /\ DOMAIN origin = DevObjects /\ Made \subseteq DevObjects
         /\ \A d \in DevObjects : Right(devices[d], origin[d])
BY MadeIs DEF IndInv, TypeOK, DevicesRight

(* Lists given to devices() are lists of names, and the i-th is for the    *)
(* i-th device, or there is none.                                          *)
LEMMA ListForIs ==
  ASSUME NEW lists \in Asked, NEW p \in Phys
  PROVE  /\ ListFor(p, lists) \in Seq(Names)
         /\ ListFor(p, lists) = IF p \in DOMAIN lists THEN lists[p] ELSE <<>>
<1>1. PICK n \in 0 .. PhysCount + 1 : lists \in [1 .. n -> DeviceLists]
  BY DEF Asked
<1>2. n \in Nat /\ p \in Nat /\ p >= 1
  BY InstanceAssumption DEF Phys
<1>3. Len(lists) = n
  BY <1>1, <1>2
<1>4. CASE p <= n
  <2>1. lists[p] \in DeviceLists
    BY <1>1, <1>2, <1>4
  <2>. QED BY <1>2, <1>3, <1>4, <2>1, DefaultsAre DEF ListFor
<1>5. CASE p > n
  BY <1>2, <1>3, <1>5 DEF ListFor
<1>. QED BY <1>2, <1>4, <1>5

(* Instance::devices: every element of the vector is a new Device with the *)
(* list for its physical device.                                           *)
LEMMA DevicesKeeps ==
  ASSUME IndInv, NEW i \in Instances, NEW lists \in Asked,
         NEW places \in [Phys -> DevObjects], Devices(i, lists, places)
  PROVE  IndInv'
<1> DEFINE Element(d) == \E p \in Phys : places[p] = d
           Place(d) == CHOOSE p \in Phys : places[p] = d
<1>1. TypeOK /\ OwnedOnce
  BY DEF IndInv
<1>2. /\ i \in alive /\ instance_[i] # Null
      /\ devices' = [d \in DevObjects |->
           IF Element(d)
             THEN NewDevice(i, Place(d), ListFor(Place(d), lists))
             ELSE devices[d]]
      /\ origin' = [d \in DevObjects |->
           IF Element(d)
             THEN [maker |-> i, vk |-> instance_[i],
                   asked |-> IF Place(d) \in DOMAIN lists
                               THEN lists[Place(d)] ELSE <<>>,
                   kept |-> TRUE]
             ELSE origin[d]]
      /\ UNCHANGED <<avail_layers, avail_extensions, avail_device, enabled,
                     alive, instance_, moved>>
  BY DEF Devices, availVars, instanceVars
<1>3. \A d \in DevObjects : Element(d) => Place(d) \in Phys
  OBVIOUS
<1> HIDE DEF Place
<1>4. /\ instance_[i] \in VkInstances /\ enabled[instance_[i]] # Null
  BY <1>1, <1>2 DEF TypeOK, OwnedOnce
<1>5. ASSUME NEW d \in DevObjects PROVE Right(devices'[d], origin'[d])
  <2>1. CASE Element(d)
    <3>1. Place(d) \in Phys
      BY <1>3, <2>1
    <3>2. PICK p, list : p = Place(d) /\ list = ListFor(p, lists)
      OBVIOUS
    <3>3. p \in Phys /\ list \in Seq(Names)
      BY <3>1, <3>2, ListForIs
    <3>4. list = IF p \in DOMAIN lists THEN lists[p] ELSE <<>>
      BY <3>1, <3>2, ListForIs
    <3>5. /\ devices'[d] = NewDevice(i, p, list)
          /\ origin'[d] = [maker |-> i, vk |-> instance_[i], asked |-> list,
                           kept |-> TRUE]
      BY <1>2, <2>1, <3>2, <3>4
    <3>6. LET e == NewDevice(i, p, list)
          IN /\ e \in DeviceFields
             /\ e.instance = i /\ e.phy_device = p /\ e.extensions = list
             /\ e.enabled = Filter(list, DefaultDeviceExtensions,
                                   avail_device[p])
      BY <1>1, <3>3, NewDeviceIs
    <3>7. PICK e, o : e = devices'[d] /\ o = origin'[d]
      OBVIOUS
    <3>8. /\ o \in Origins /\ o.maker = i /\ o.vk = instance_[i]
          /\ o.asked = list
      BY <1>4, <3>3, <3>5, <3>7 DEF Origins
    <3>9. /\ e \in DeviceFields /\ e # Null /\ e.extensions = list
          /\ MadeWith(e, list)
      BY <3>5, <3>6, <3>7, FieldsAre DEF MadeWith
    <3>. QED BY <1>4, <3>3, <3>7, <3>8, <3>9 DEF Right, Consistent
  <2>2. CASE ~Element(d)
    <3>1. devices'[d] = devices[d] /\ origin'[d] = origin[d]
      BY <1>2, <2>2
    <3>. QED BY <3>1, DeviceTypes
  <2>. QED BY <2>1, <2>2
<1>6. /\ DOMAIN devices' = DevObjects /\ DOMAIN origin' = DevObjects
      /\ devices' = [d \in DevObjects |-> devices'[d]]
  BY <1>2
<1>. QED BY <1>2, <1>5, <1>6, DevicesStep

(* A copy has what its original has, if it was asked for that.             *)
LEMMA CopyOfIs ==
  ASSUME IndInv, NEW d \in Made
  PROVE  Consistent(CopyOf(d), origin[d]) /\ CopyOf(d) # Null
<1>1. TypeOK
  BY DEF IndInv
<1>2. /\ Consistent(devices[d], origin[d])
      /\ devices[d].instance \in Instances /\ devices[d].phy_device \in Phys
      /\ devices[d].extensions \in Seq(Names)
  BY EachRight, FieldsAre
<1>3. PICK i, p, list : /\ i = devices[d].instance
                        /\ p = devices[d].phy_device
                        /\ list = devices[d].extensions
  OBVIOUS
<1>4. LET e == NewDevice(i, p, list)
      IN /\ e \in DeviceFields
         /\ e.instance = i /\ e.phy_device = p /\ e.extensions = list
         /\ e.enabled = Filter(list, DefaultDeviceExtensions,
                               avail_device[p])
  BY <1>1, <1>2, <1>3, NewDeviceIs
<1>5. PICK e : e = CopyOf(d)
  OBVIOUS
<1>6. /\ e \in DeviceFields /\ e.extensions = list /\ MadeWith(e, list)
  BY <1>3, <1>4, <1>5 DEF CopyOf, MadeWith
<1>. QED BY <1>2, <1>3, <1>5, <1>6, FieldsAre DEF Consistent

LEMMA CopyDeviceKeeps ==
  ASSUME IndInv, NEW d \in DevObjects, NEW e \in DevObjects,
         CopyDevice(d, e)
  PROVE  IndInv'
<1>1. /\ d \in Made /\ e \notin Made
      /\ devices' = [devices EXCEPT ![e] = CopyOf(d)]
      /\ origin' = [origin EXCEPT ![e] = origin[d]]
      /\ UNCHANGED <<avail_layers, avail_extensions, avail_device, enabled,
                     alive, instance_, moved>>
  BY DEF CopyDevice, CopyPossible, availVars, instanceVars
<1>2. /\ DOMAIN devices' = DevObjects /\ DOMAIN origin' = DevObjects
      /\ devices' = [c \in DevObjects |-> devices'[c]]
      /\ devices'[e] = CopyOf(d) /\ origin'[e] = origin[d]
      /\ \A c \in DevObjects \ {e} :
           devices'[c] = devices[c] /\ origin'[c] = origin[c]
  BY <1>1, DeviceTypes
<1>3. Right(devices'[e], origin'[e])
  BY <1>1, <1>2, CopyOfIs DEF Right
<1>4. \A c \in DevObjects : Right(devices'[c], origin'[c])
  BY <1>2, <1>3, DeviceTypes
<1>. QED BY <1>1, <1>2, <1>4, DevicesStep

(* The new Device is what the other was; that has lost its list.           *)
LEMMA MoveDeviceKeeps ==
  ASSUME IndInv, NEW d \in DevObjects, NEW e \in DevObjects,
         MoveDevice(d, e)
  PROVE  IndInv'
<1>1. /\ d \in Made /\ e \notin Made
      /\ devices' = [devices EXCEPT ![e] = devices[d],
                                    ![d].extensions = <<>>]
      /\ origin' = [origin EXCEPT ![e] = origin[d], ![d].kept = FALSE]
      /\ UNCHANGED <<avail_layers, avail_extensions, avail_device, enabled,
                     alive, instance_, moved>>
  BY DEF MoveDevice, availVars, instanceVars
<1>2. /\ Consistent(devices[d], origin[d])
      /\ devices[d] \in DeviceFields /\ origin[d] \in Origins
  BY <1>1, EachRight
<1>3. /\ DOMAIN devices' = DevObjects /\ DOMAIN origin' = DevObjects
      /\ devices' = [c \in DevObjects |-> devices'[c]]
      /\ devices'[e] = devices[d] /\ origin'[e] = origin[d]
      /\ devices'[d] = [devices[d] EXCEPT !.extensions = <<>>]
      /\ origin'[d] = [origin[d] EXCEPT !.kept = FALSE]
      /\ \A c \in DevObjects \ {d, e} :
           devices'[c] = devices[c] /\ origin'[c] = origin[c]
  BY <1>1, DeviceTypes
<1>4. Right(devices'[e], origin'[e])
  BY <1>2, <1>3, FieldsAre DEF Right
<1>5. Right(devices'[d], origin'[d])
  <2>1. PICK f, o : f = devices'[d] /\ o = origin'[d]
    OBVIOUS
  <2>2. /\ f \in DeviceFields /\ f # Null
        /\ f.phy_device = devices[d].phy_device
        /\ f.enabled = devices[d].enabled
    BY <1>2, <1>3, <2>1, EmptiedIs
  <2>3. /\ o \in Origins /\ o.vk = origin[d].vk
        /\ o.maker = origin[d].maker /\ ~o.kept
    BY <1>2, <1>3, <2>1, OriginsAre
  <2>. QED BY <1>2, <2>1, <2>2, <2>3 DEF Right, Consistent, MadeWith
<1>6. \A c \in DevObjects : Right(devices'[c], origin'[c])
  BY <1>3, <1>4, <1>5, DeviceTypes
<1>. QED BY <1>1, <1>3, <1>6, DevicesStep

(* Each has what the other had, except the reference to its Instance.      *)
LEMMA SwapDevicesKeeps ==
  ASSUME IndInv, NEW d \in DevObjects, NEW e \in DevObjects,
         SwapDevices(d, e)
  PROVE  IndInv'
<1>1. /\ d \in Made /\ e \in Made
      /\ devices' = [devices EXCEPT ![d] = Take(d, devices[e]),
                                    ![e] = Take(e, devices[d])]
      /\ origin' = [origin EXCEPT ![d] = origin[e], ![e] = origin[d]]
      /\ UNCHANGED <<avail_layers, avail_extensions, avail_device, enabled,
                     alive, instance_, moved>>
  BY DEF SwapDevices, availVars, instanceVars
<1>2. /\ DOMAIN devices' = DevObjects /\ DOMAIN origin' = DevObjects
      /\ devices' = [c \in DevObjects |-> devices'[c]]
      /\ devices'[e] = Take(e, devices[d]) /\ origin'[e] = origin[d]
      /\ d # e => devices'[d] = Take(d, devices[e])
      /\ origin'[d] = origin[e]
      /\ \A c \in DevObjects \ {d, e} :
           devices'[c] = devices[c] /\ origin'[c] = origin[c]
  BY <1>1, DeviceTypes
<1>3. Right(devices'[e], origin'[e])
  BY <1>1, <1>2, EachRight, TakeIs DEF Right
<1>4. ASSUME d # e PROVE Right(devices'[d], origin'[d])
  <2>1. Consistent(devices[e], origin[e]) /\ devices[d] \in DeviceFields
    BY <1>1, EachRight
  <2>2. /\ Consistent(Take(d, devices[e]), origin[e])
        /\ Take(d, devices[e]) # Null
    BY <2>1, TakeIs
  <2>. QED BY <1>2, <1>4, <2>2 DEF Right
<1>5. \A c \in DevObjects : Right(devices'[c], origin'[c])
  BY <1>2, <1>3, <1>4, DeviceTypes
<1>. QED BY <1>1, <1>2, <1>5, DevicesStep

LEMMA AssignDeviceKeeps ==
  ASSUME IndInv, NEW d \in DevObjects, NEW e \in DevObjects,
         AssignDevice(d, e)
  PROVE  IndInv'
<1>1. /\ d \in Made /\ e \in Made
      /\ devices' = [devices EXCEPT ![d] = Take(d, CopyOf(e))]
      /\ origin' = [origin EXCEPT ![d] = origin[e]]
      /\ UNCHANGED <<avail_layers, avail_extensions, avail_device, enabled,
                     alive, instance_, moved>>
  BY DEF AssignDevice, CopyPossible, availVars, instanceVars
<1>2. /\ DOMAIN devices' = DevObjects /\ DOMAIN origin' = DevObjects
      /\ devices' = [c \in DevObjects |-> devices'[c]]
      /\ devices'[d] = Take(d, CopyOf(e)) /\ origin'[d] = origin[e]
      /\ \A c \in DevObjects \ {d} :
           devices'[c] = devices[c] /\ origin'[c] = origin[c]
  BY <1>1, DeviceTypes
<1>3. Right(devices'[d], origin'[d])
  <2>1. Consistent(CopyOf(e), origin[e]) /\ devices[d] \in DeviceFields
    BY <1>1, EachRight, CopyOfIs
  <2>. QED BY <1>2, <2>1, TakeIs DEF Right
<1>4. \A c \in DevObjects : Right(devices'[c], origin'[c])
  BY <1>2, <1>3, DeviceTypes
<1>. QED BY <1>1, <1>2, <1>4, DevicesStep

LEMMA DestroyDeviceKeeps ==
  ASSUME IndInv, NEW d \in DevObjects, DestroyDevice(d)
  PROVE  IndInv'
<1>1. /\ devices' = [devices EXCEPT ![d] = Null]
      /\ origin' = [origin EXCEPT ![d] = Null]
      /\ UNCHANGED <<avail_layers, avail_extensions, avail_device, enabled,
                     alive, instance_, moved>>
  BY DEF DestroyDevice, availVars, instanceVars
<1>2. /\ DOMAIN devices' = DevObjects /\ DOMAIN origin' = DevObjects
      /\ devices' = [c \in DevObjects |-> devices'[c]]
      /\ devices'[d] = Null /\ origin'[d] = Null
      /\ \A c \in DevObjects \ {d} :
           devices'[c] = devices[c] /\ origin'[c] = origin[c]
  BY <1>1, DeviceTypes
<1>3. \A c \in DevObjects : Right(devices'[c], origin'[c])
  BY <1>2, DeviceTypes DEF Right
<1>. QED BY <1>1, <1>2, <1>3, DevicesStep

-----------------------------------------------------------------------------
LEMMA InitIndInv == Init => IndInv
<1>1. SUFFICES ASSUME Init PROVE IndInv
  OBVIOUS
<1>2. Made = {}
  BY <1>1 DEF Init, Made
<1>3. avail_layers \subseteq Names /\ avail_extensions \subseteq Names
  BY <1>1, InstanceAssumption DEF Init, Enabled
<1>4. avail_device \in [Phys -> SUBSET Names]
  BY <1>1, InstanceAssumption DEF Init
<1>5. TypeOK
  BY <1>1, <1>2, <1>3, <1>4 DEF Init, TypeOK
<1>6. OwnedOnce
  BY <1>1, InstanceAssumption DEF Init, OwnedOnce
<1>7. EnabledKept /\ DevicesRight
  BY <1>1 DEF Init, EnabledKept, DevicesRight, Right
<1>. QED BY <1>5, <1>6, <1>7 DEF IndInv

LEMMA StepIndInv == IndInv /\ [Next]_vars => IndInv'
<1>1. SUFFICES ASSUME IndInv, [Next]_vars PROVE IndInv'
  OBVIOUS
<1>2. CASE InstanceOps
  BY <1>1, <1>2, ConstructKeeps, DestroyKeeps, MoveConstructKeeps,
     AssignKeeps DEF InstanceOps
<1>3. CASE DeviceOps
  BY <1>1, <1>3, DevicesKeeps, CopyDeviceKeeps, MoveDeviceKeeps,
     SwapDevicesKeeps, AssignDeviceKeeps, DestroyDeviceKeeps DEF DeviceOps
<1>4. CASE UNCHANGED vars
  <2>1. UNCHANGED <<avail_layers, avail_extensions, avail_device, enabled,
                    alive, instance_, moved, devices, origin>>
    BY <1>4 DEF vars, availVars, instanceVars, deviceVars
  <2>2. /\ DOMAIN devices' = DevObjects /\ DOMAIN origin' = DevObjects
        /\ devices' = [c \in DevObjects |-> devices'[c]]
        /\ \A c \in DevObjects : Right(devices'[c], origin'[c])
    BY <1>1, <2>1, DeviceTypes
  <2>. QED BY <1>1, <2>1, <2>2, DevicesStep
<1>. QED BY <1>1, <1>2, <1>3, <1>4 DEF Next

THEOREM Inductive == Spec => []IndInv
BY InitIndInv, StepIndInv, PTL DEF Spec

(* Every state has the shape TypeOK gives it.                              *)
THEOREM TypeCorrect == Spec => []TypeOK
<1>1. IndInv => TypeOK
  BY DEF IndInv
<1>. QED BY <1>1, Inductive, PTL

(* Moves, assignments and destructors leave each VkInstance with just one  *)
(* owner.                                                                  *)
THEOREM OneOwner == Spec => []OwnedOnce
<1>1. IndInv => OwnedOnce
  BY DEF IndInv
<1>. QED BY <1>1, Inductive, PTL

(* No VkInstance and no VkDevice is asked for what is missing, nor made    *)
(* without a default that is there.                                        *)
THEOREM NothingMissingEnabled == Spec => []EnablesWhatIsThere
BY InvEnables, Inductive, PTL

(* After any copies, moves, swaps and assignments a Device has the         *)
(* extensions it was asked to have, as far as its physical device has      *)
(* them, unless it was moved from or comes from one that was.              *)
THEOREM KeepsWhatWasAsked == Spec => []AsAsked
BY InvAsAsked, Inductive, PTL

(* Until it is destroyed the VkInstance of a Device exists, and as long as *)
(* it stays in the object that made the Device, instance() has it just for *)
(* the Devices that refer to that object.                                  *)
THEOREM FindsItsInstance == Spec => []InstanceKnown
BY InvKnown, Inductive, PTL

=============================================================================
