------------------------- MODULE DeviceHandlesProofs ------------------------
(***************************************************************************)
(* Proofs about DeviceHandles: for any physical devices, queue families    *)
(* and objects, Devices that were never moved own what they have alone, no *)
(* VkDevice is ever lost, and each Device works with the most specialised  *)
(* families.                                                               *)
(***************************************************************************)
EXTENDS DeviceHandles, WellFoundedInduction, SequenceTheorems, TLAPS

(* A set of naturals that is not empty has a least element.                *)
LEMMA LeastExists ==
  ASSUME NEW S \in SUBSET Nat, S # {}
  PROVE  \E i \in S : \A j \in S : i <= j
<1> DEFINE R == {ss \in Nat \X Nat : ss[1] < ss[2]}
<1>1. IsWellFoundedOn(R, Nat)
  BY NatLessThanWellFounded, Zenon DEF OpToRel
<1>2. PICK i \in S : \A j \in S : <<j, i>> \notin R
  <2> HIDE DEF R
  <2>. QED BY <1>1, WFMin, Zenon
<1>3. \A j \in S : i <= j
  <2> TAKE j \in S
  <2>1. <<j, i>> \in Nat \X Nat /\ <<j, i>>[1] = j /\ <<j, i>>[2] = i
    OBVIOUS
  <2>2. ~ (j < i)
    BY <1>2, <2>1, Zenon
  <2>. QED BY <2>2
<1>. QED BY <1>3

(* One number is not greater than another if its half is not and it is not *)
(* odd where the other is even.                                            *)
LEMMA Halving ==
  ASSUME NEW f \in Nat, NEW g \in Nat,
         f \div 2 <= g \div 2, f % 2 = 1 => g % 2 = 1
  PROVE  f <= g
  OBVIOUS

LEMMA HalfOf ==
  ASSUME NEW n \in Nat
  PROVE  /\ n \div 1 = n
         /\ n \div 2 \in Nat /\ n \div 4 = (n \div 2) \div 2
         /\ n \div 4 \in Nat /\ n \div 8 = (n \div 4) \div 2
         /\ n \div 8 \in Nat /\ n \div 16 = (n \div 8) \div 2
         /\ n \div 16 \in Nat /\ n \div 32 = (n \div 16) \div 2
         /\ n \div 32 \in Nat /\ n \div 64 = (n \div 32) \div 2
         /\ n \div 64 \in Nat /\ n \div 128 = (n \div 64) \div 2
         /\ n \div 128 \in Nat /\ n \div 256 = (n \div 128) \div 2
         /\ n \div 256 \in Nat
         /\ n \in FlagWords => (n \div 256) \div 2 = 0
<1>1. n \div 1 = n /\ n \div 2 \in Nat /\ n \div 4 = (n \div 2) \div 2
  OBVIOUS
<1>2. n \div 4 \in Nat /\ n \div 8 = (n \div 4) \div 2
  OBVIOUS
<1>3. n \div 8 \in Nat /\ n \div 16 = (n \div 8) \div 2
  OBVIOUS
<1>4. n \div 16 \in Nat /\ n \div 32 = (n \div 16) \div 2
  OBVIOUS
<1>5. n \div 32 \in Nat /\ n \div 64 = (n \div 32) \div 2
  OBVIOUS
<1>6. n \div 64 \in Nat /\ n \div 128 = (n \div 64) \div 2
  OBVIOUS
<1>7. n \div 128 \in Nat /\ n \div 256 = (n \div 128) \div 2
  OBVIOUS
<1>8. n \div 256 \in Nat /\ (n \in FlagWords => (n \div 256) \div 2 = 0)
  BY DEF FlagWords
<1>. QED BY <1>1, <1>2, <1>3, <1>4, <1>5, <1>6, <1>7, <1>8

(* A number whose flags are among those of another is not greater.         *)
LEMMA FewerFlags ==
  ASSUME NEW f \in FlagWords, NEW g \in FlagWords, SubFlags(f, g)
  PROVE  f <= g
<1>1. f \in Nat /\ g \in Nat
  BY DEF FlagWords
<1>2. \A name \in DOMAIN QueueFlags :
        (f \div QueueFlags[name]) % 2 = 1 => (g \div QueueFlags[name]) % 2 = 1
  BY DEF SubFlags, Has
<1>3. /\ f % 2 = 1 => g % 2 = 1
      /\ (f \div 2) % 2 = 1 => (g \div 2) % 2 = 1
      /\ (f \div 4) % 2 = 1 => (g \div 4) % 2 = 1
      /\ (f \div 8) % 2 = 1 => (g \div 8) % 2 = 1
      /\ (f \div 16) % 2 = 1 => (g \div 16) % 2 = 1
      /\ (f \div 32) % 2 = 1 => (g \div 32) % 2 = 1
      /\ (f \div 64) % 2 = 1 => (g \div 64) % 2 = 1
      /\ (f \div 128) % 2 = 1 => (g \div 128) % 2 = 1
      /\ (f \div 256) % 2 = 1 => (g \div 256) % 2 = 1
  <2>1. /\ (f \div 1) % 2 = 1 => (g \div 1) % 2 = 1
        /\ (f \div 2) % 2 = 1 => (g \div 2) % 2 = 1
        /\ (f \div 4) % 2 = 1 => (g \div 4) % 2 = 1
        /\ (f \div 8) % 2 = 1 => (g \div 8) % 2 = 1
        /\ (f \div 16) % 2 = 1 => (g \div 16) % 2 = 1
        /\ (f \div 32) % 2 = 1 => (g \div 32) % 2 = 1
        /\ (f \div 64) % 2 = 1 => (g \div 64) % 2 = 1
        /\ (f \div 128) % 2 = 1 => (g \div 128) % 2 = 1
        /\ (f \div 256) % 2 = 1 => (g \div 256) % 2 = 1
    BY <1>2, Zenon DEF QueueFlags
  <2>2. f \div 1 = f /\ g \div 1 = g
    BY <1>1
  <2>. QED BY <2>1, <2>2
<1>4. f \div 256 <= g \div 256
  BY <1>1, <1>3, HalfOf, Halving
<1>5. f \div 128 <= g \div 128
  BY <1>1, <1>3, <1>4, HalfOf, Halving
<1>6. f \div 64 <= g \div 64
  BY <1>1, <1>3, <1>5, HalfOf, Halving
<1>7. f \div 32 <= g \div 32
  BY <1>1, <1>3, <1>6, HalfOf, Halving
<1>8. f \div 16 <= g \div 16
  BY <1>1, <1>3, <1>7, HalfOf, Halving
<1>9. f \div 8 <= g \div 8
  BY <1>1, <1>3, <1>8, HalfOf, Halving
<1>10. f \div 4 <= g \div 4
  BY <1>1, <1>3, <1>9, HalfOf, Halving
<1>11. f \div 2 <= g \div 2
  BY <1>1, <1>3, <1>10, HalfOf, Halving
<1>. QED BY <1>1, <1>3, <1>11, Halving

(* If a family has the flag, getFamilyID finds one that has it; no family  *)
(* that has it has a smaller number of flags.                              *)
LEMMA FamilyFound ==
  ASSUME NEW list \in FamilyLists,
         NEW bit \in {QueueFlags.compute, QueueFlags.transfer},
         \E i \in DOMAIN list : Has(list[i], bit)
  PROVE  LET i == GetFamilyID(list, bit)
         IN /\ i \in DOMAIN list /\ i \in Nat
            /\ Has(list[i], bit)
            /\ \A j \in DOMAIN list : Has(list[j], bit) => list[i] <= list[j]
<1>1. list \in Seq(FlagWords) /\ \E i \in DOMAIN list : Has(list[i], bit)
  BY DeviceHandlesAssumption
<1>2. /\ DOMAIN list \subseteq Nat
      /\ \A i \in DOMAIN list : list[i] \in FlagWords
  <2>1. DOMAIN list = 1 .. Len(list) /\ Len(list) \in Nat
    BY <1>1
  <2>. QED BY <1>1, <2>1
<1> DEFINE Flags == {list[i] : i \in {k \in DOMAIN list : Has(list[k], bit)}}
<1>3. Flags \in SUBSET Nat /\ Flags # {}
  <2>1. \A i \in DOMAIN list : list[i] \in Nat
    BY <1>2 DEF FlagWords
  <2>2. Flags \in SUBSET Nat
    BY <2>1
  <2>3. PICK i \in DOMAIN list : Has(list[i], bit)
    BY <1>1
  <2>4. list[i] \in Flags
    BY <2>3
  <2>. QED BY <2>2, <2>4
<1>4. PICK m \in Flags : \A n \in Flags : m <= n
  <2> HIDE DEF Flags
  <2>. QED BY <1>3, LeastExists
<1> DEFINE Places == {i \in DOMAIN list : Has(list[i], bit) /\ list[i] = m}
<1>5. Places \in SUBSET Nat /\ Places # {}
  BY <1>2, <1>4
<1>6. PICK i \in Places : \A j \in Places : i <= j
  <2> HIDE DEF Places
  <2>. QED BY <1>5, LeastExists
<1>7. /\ i \in DOMAIN list /\ Has(list[i], bit)
      /\ \A j \in DOMAIN list : Has(list[j], bit) =>
           list[i] < list[j] \/ (list[i] = list[j] /\ i <= j)
  <2>1. ASSUME NEW j \in DOMAIN list, Has(list[j], bit)
        PROVE  list[i] < list[j] \/ (list[i] = list[j] /\ i <= j)
    <3>1. list[i] = m /\ list[j] \in Flags
      BY <1>6, <2>1
    <3>2. m <= list[j] /\ m \in Nat /\ list[j] \in Nat
      BY <1>3, <1>4, <3>1
    <3>3. CASE list[j] = m
      BY <1>6, <2>1, <3>1, <3>3
    <3>4. CASE list[j] # m
      BY <3>1, <3>2, <3>4
    <3>. QED BY <3>3, <3>4
  <2>. QED BY <1>6, <2>1
<1> DEFINE Chosen(k) ==
      /\ Has(list[k], bit)
      /\ \A j \in DOMAIN list : Has(list[j], bit) =>
           list[k] < list[j] \/ (list[k] = list[j] /\ k <= j)
<1>8. GetFamilyID(list, bit) = CHOOSE k \in DOMAIN list : Chosen(k)
  BY <1>1 DEF GetFamilyID
<1>9. \E k \in DOMAIN list : Chosen(k)
  BY <1>7
<1>10. /\ GetFamilyID(list, bit) \in DOMAIN list
       /\ Chosen(GetFamilyID(list, bit))
  <2> HIDE DEF Chosen
  <2>. QED BY <1>8, <1>9
<1>11. \A j \in DOMAIN list : Has(list[j], bit) =>
         list[GetFamilyID(list, bit)] <= list[j]
  <2>1. PICK k : k = GetFamilyID(list, bit)
    OBVIOUS
  <2>2. k \in DOMAIN list /\ Chosen(k)
    BY <1>10, <2>1
  <2>3. \A j \in DOMAIN list : list[j] \in Nat
    BY <1>2 DEF FlagWords
  <2>4. ASSUME NEW j \in DOMAIN list, Has(list[j], bit)
        PROVE  list[k] <= list[j]
    <3>1. list[k] < list[j] \/ list[k] = list[j]
      BY <2>2, <2>4
    <3>2. list[k] \in Nat /\ list[j] \in Nat
      BY <2>2, <2>3
    <3>. QED BY <3>1, <3>2
  <2>. QED BY <2>1, <2>4
<1>. QED BY <1>2, <1>10, <1>11

(* The id is a number also when no family has the flag.                    *)
LEMMA FamilyIsNumber ==
  ASSUME NEW list \in FamilyLists,
         NEW bit \in {QueueFlags.compute, QueueFlags.transfer}
  PROVE  GetFamilyID(list, bit) \in Nat
<1>1. CASE \E i \in DOMAIN list : Has(list[i], bit)
  BY <1>1, FamilyFound
<1>2. CASE ~ \E i \in DOMAIN list : Has(list[i], bit)
  BY <1>2 DEF GetFamilyID, NoFamily
<1>. QED BY <1>1, <1>2

-----------------------------------------------------------------------------
(* The inductive invariant.  A constructor is at work exactly when it has  *)
(* an object, which is not in the vector yet; only an assignment has a     *)
(* target; the vector has no object twice, and room where one is made.     *)

Calls == {"create", "compute pool", "compute buffer",
          "transfer pool", "transfer buffer", "built"}

Shape ==
  /\ pc \in Calls <=> self # Null
  /\ target # Null <=> pc \in Calls /\ purpose = "assign"
  /\ \A i \in DOMAIN vector : vector[i] # self
  /\ \A i, j \in DOMAIN vector : vector[i] = vector[j] => i = j
  /\ Len(vector) <= PhysCount
  /\ pc \in Calls /\ purpose = "vector" => Len(vector) < PhysCount
  /\ pc = "unwind" => vector # <<>>
  /\ pc = "relocate" => moved + 2 <= Len(vector)

(* What a Device has before each of the constructor's calls.               *)
Filled(at, d) ==
  /\ d.handle = Null <=> at = "create"
  /\ d.compute_cmd_pool = Null <=> at \in {"create", "compute pool"}
  /\ at \in {"create", "compute pool", "compute buffer", "transfer pool"} =>
       d.transfer_cmd_pool = Null
  /\ at \in {"transfer pool", "transfer buffer"} =>
       /\ d.compute_cmd_buffer # Null
       /\ d.cmp_family_id # d.tfr_family_id
  /\ at = "transfer buffer" => d.transfer_cmd_pool # Null

Fields == pc \in Calls => Filled(pc, obj[self])

(* A Device's VkDevice exists, its pools belong to it and exist, and its   *)
(* VkDevice has no others.                                                 *)
Sound(d, vkDevices, vkPools) ==
  /\ d.handle \in vkDevices
  /\ d.compute_cmd_pool \in {Null, <<d.handle, "compute">>}
  /\ d.transfer_cmd_pool \in
       {Null, <<d.handle, IF d.cmp_family_id = d.tfr_family_id
                            THEN "compute" ELSE "transfer">>}
  /\ {d.compute_cmd_pool, d.transfer_cmd_pool} \ {Null} \subseteq vkPools
  /\ \A q \in vkPools : q[1] = d.handle =>
       \/ q = d.compute_cmd_pool
       \/ d.cmp_family_id # d.tfr_family_id /\ q = d.transfer_cmd_pool

AllSound == ~shared =>
  \A o \in Alive : obj[o].handle # Null => Sound(obj[o], live, pools)

NoneShared == ~shared =>
  \A o, p \in Alive :
    obj[o].handle # Null /\ obj[o].handle = obj[p].handle => o = p

NothingLost == ~shared =>
  /\ orphans = {} /\ "dead device" \notin misuse
  /\ \A q \in pools : q[1] \in live

Own == AllSound /\ NoneShared /\ NothingLost

Families ==
  \A o \in Alive :
    LET list == families[obj[o].phy_device]
    IN /\ obj[o].cmp_family_id = GetFamilyID(list, QueueFlags.compute)
       /\ obj[o].tfr_family_id = GetFamilyID(list, QueueFlags.transfer)

IndInv == TypeOK /\ Shape /\ Fields /\ Own /\ Families /\ NoneLeaked

-----------------------------------------------------------------------------
(* What the helpers of the actions change.                                 *)

(* The fields of a Device.                                                 *)
LEMMA DeviceFields ==
  ASSUME NEW d \in Device
  PROVE  /\ d.handle \in Handles \cup {Null} /\ d.phy_device \in Phys
         /\ d.cmp_family_id \in Nat /\ d.tfr_family_id \in Nat
         /\ d.compute_cmd_pool \in Parts \cup {Null}
         /\ d.compute_cmd_buffer \in Parts \cup {Null}
         /\ d.transfer_cmd_pool \in Parts \cup {Null}
         /\ d.transfer_cmd_buffer \in Parts \cup {Null}
BY DEF Device

LEMMA PartOf ==
  ASSUME NEW d \in Device, d.handle # Null,
         NEW kind \in {"compute", "transfer"}
  PROVE  <<d.handle, kind>> \in Parts /\ <<d.handle, kind>> # Null
<1>1. d.handle \in Handles
  BY DeviceFields
<1>2. <<d.handle, kind>> \in Parts
  BY <1>1 DEF Parts
<1>. QED BY <1>2, DeviceHandlesAssumption

LEMMA AliveIs ==
  ASSUME TypeOK
  PROVE  /\ Alive \subseteq Objects /\ Null \notin Alive /\ Null \notin live
         /\ \A o \in Objects : o \in Alive <=> obj[o] # Null
         /\ \A o \in Alive : obj[o] \in Device
BY DeviceHandlesAssumption DEF TypeOK, Alive

(* The vector is a sequence of distinct objects.                           *)
LEMMA VectorIs ==
  ASSUME TypeOK
  PROVE  /\ Len(vector) \in Nat /\ DOMAIN vector = 1 .. Len(vector)
         /\ vector \in Seq(Alive)
         /\ \A i \in DOMAIN vector : vector[i] \in Alive
<1>1. vector \in Seq(Alive)
  BY DEF TypeOK
<1>. QED BY <1>1

(* Where no constructor is at work there is neither object nor target.     *)
LEMMA NobodyBuilds ==
  ASSUME Shape, pc \notin Calls
  PROVE  self = Null /\ target = Null
BY DEF Shape

(* A constructor begins: a new object with nothing but its families.       *)
LEMMA ConstructStep ==
  ASSUME TypeOK, NEW o \in Objects, NEW phys \in Phys, NEW cmp \in Nat,
         NEW tfr \in Nat, NEW why, Construct(o, phys, cmp, tfr, why)
  PROVE  /\ o \notin Alive /\ Alive' = Alive \cup {o}
         /\ obj' \in [Objects -> Device \cup {Null}]
         /\ \A p \in Objects \ {o} : obj'[p] = obj[p]
         /\ obj'[o] \in Device
         /\ obj'[o].handle = Null /\ obj'[o].phy_device = phys
         /\ obj'[o].cmp_family_id = cmp /\ obj'[o].tfr_family_id = tfr
         /\ obj'[o].compute_cmd_pool = Null
         /\ obj'[o].transfer_cmd_pool = Null
         /\ pc' = "create" /\ self' = o /\ purpose' = why
<1> DEFINE new == [handle |-> Null, phy_device |-> phys,
                   cmp_family_id |-> cmp, tfr_family_id |-> tfr,
                   compute_cmd_pool |-> Null, compute_cmd_buffer |-> Null,
                   transfer_cmd_pool |-> Null, transfer_cmd_buffer |-> Null]
<1>1. new \in Device
  BY DEF Device
<1>2. /\ new.handle = Null /\ new.phy_device = phys
      /\ new.cmp_family_id = cmp /\ new.tfr_family_id = tfr
      /\ new.compute_cmd_pool = Null /\ new.transfer_cmd_pool = Null
  OBVIOUS
<1>3. /\ obj[o] = Null /\ obj' = [obj EXCEPT ![o] = new]
      /\ pc' = "create" /\ self' = o /\ purpose' = why
  BY DEF Construct
<1> HIDE DEF new
<1>4. obj \in [Objects -> Device \cup {Null}] /\ new # Null
  BY <1>1, DeviceHandlesAssumption DEF TypeOK
<1>5. /\ obj' \in [Objects -> Device \cup {Null}] /\ obj'[o] = new
      /\ \A p \in Objects \ {o} : obj'[p] = obj[p]
  BY <1>1, <1>3, <1>4
<1>6. o \notin Alive /\ Alive' = Alive \cup {o}
  BY <1>3, <1>4, <1>5 DEF Alive
<1>. QED BY <1>1, <1>2, <1>3, <1>5, <1>6

(* A call of the constructor changes one field of its object.              *)
LEMMA CallStep ==
  ASSUME TypeOK, Shape, NEW from \in Calls, NEW to, NEW fields \in Device,
         Step(from, to, fields)
  PROVE  /\ pc = from /\ pc' = to /\ self \in Alive /\ obj[self] \in Device
         /\ Alive' = Alive /\ obj' \in [Objects -> Device \cup {Null}]
         /\ obj'[self] = fields
         /\ \A o \in Alive \ {self} : obj'[o] = obj[o]
         /\ UNCHANGED <<families, vector, capacity, moved, shared, self,
                        purpose, target, orphans, misuse>>
<1>1. /\ pc = from /\ pc' = to /\ obj' = [obj EXCEPT ![self] = fields]
      /\ UNCHANGED <<families, vector, capacity, moved, shared, self,
                     purpose, target, orphans, misuse>>
  BY DEF Step, vectorVars
<1>2. self \in Alive
  BY <1>1 DEF TypeOK, Shape
<1>3. /\ self \in Objects /\ obj[self] \in Device /\ fields # Null
      /\ obj \in [Objects -> Device \cup {Null}]
  BY <1>2, AliveIs, DeviceHandlesAssumption DEF TypeOK
<1>4. /\ obj' \in [Objects -> Device \cup {Null}] /\ obj'[self] = fields
      /\ \A o \in Objects \ {self} : obj'[o] = obj[o]
  BY <1>1, <1>3
<1>5. Alive' = Alive
  BY <1>3, <1>4, <1>2 DEF Alive
<1>. QED BY <1>1, <1>2, <1>3, <1>4, <1>5, AliveIs

(* release() destroys the VkDevice; where the Device is the only owner it  *)
(* destroys all the pools of it first, and no others.                      *)
LEMMA ReleaseStep ==
  ASSUME TypeOK, NEW d \in Device, Release(d)
  PROVE  /\ live' = live \ {d.handle}
         /\ pools' \subseteq pools /\ orphans' \subseteq Parts
         /\ misuse' \subseteq {"dead device", "null pool"}
         /\ d.handle \in live /\ Sound(d, live, pools) =>
              /\ pools' = {q \in pools : q[1] # d.handle}
              /\ orphans' = orphans
              /\ "dead device" \notin misuse => "dead device" \notin misuse'
<1> DEFINE destroyed == {d.compute_cmd_pool}
                          \cup IF d.tfr_family_id # d.cmp_family_id
                                 THEN {d.transfer_cmd_pool} ELSE {}
           left == {q \in pools \ destroyed : q[1] = d.handle}
<1>1. /\ pools' = (pools \ destroyed) \ left
      /\ orphans' = orphans \cup left
      /\ live' = live \ {d.handle}
      /\ misuse' = misuse
           \cup (IF d.handle \in live THEN {} ELSE {"dead device"})
           \cup (IF Null \in destroyed THEN {"null pool"} ELSE {})
  BY DEF Release
<1>2. /\ pools \subseteq Parts /\ orphans \subseteq Parts
      /\ misuse \subseteq {"dead device", "null pool"}
  BY DEF TypeOK
<1>3. /\ pools' \subseteq pools /\ orphans' \subseteq Parts
      /\ misuse' \subseteq {"dead device", "null pool"}
  BY <1>1, <1>2
<1>4. ASSUME d.handle \in live, Sound(d, live, pools)
      PROVE  /\ pools' = {q \in pools : q[1] # d.handle}
             /\ orphans' = orphans
             /\ "dead device" \notin misuse => "dead device" \notin misuse'
  <2>1. \A q \in pools : q[1] = d.handle => q \in destroyed
    BY <1>4 DEF Sound
  <2>2. left = {}
    BY <2>1
  <2>3. \A q \in pools \cap destroyed : q[1] = d.handle
    <3>1. TAKE q \in pools \cap destroyed
    <3>2. q # Null
      BY <1>2, DeviceHandlesAssumption
    <3>3. q = d.compute_cmd_pool \/ q = d.transfer_cmd_pool
      OBVIOUS
    <3>. QED BY <1>4, <3>2, <3>3 DEF Sound
  <2>. QED BY <1>1, <1>4, <2>1, <2>2, <2>3
<1>. QED BY <1>1, <1>3, <1>4

(* A Device stays sound when the VkDevice and the pools of another go.     *)
LEMMA SoundBeside ==
  ASSUME NEW d \in Device, NEW h, NEW L, NEW P, d.handle # h,
         Sound(d, L, P), NEW fewerL, NEW fewerP,
         fewerL = L \ {h}, \A q : q \in fewerP <=> q \in P /\ q[1] # h
  PROVE  Sound(d, fewerL, fewerP)
<1> DEFINE mine == {d.compute_cmd_pool, d.transfer_cmd_pool} \ {Null}
<1>1. mine \subseteq P /\ \A q \in mine : q[1] = d.handle
  BY DEF Sound
<1>. QED BY <1>1 DEF Sound

(* And when those of another come.                                         *)
LEMMA SoundBesideNew ==
  ASSUME NEW d \in Device, NEW L, NEW P, NEW h, NEW kind,
         d.handle # h, Sound(d, L, P)
  PROVE  Sound(d, L \cup {h}, P) /\ Sound(d, L, P \cup {<<h, kind>>})
BY DEF Sound

-----------------------------------------------------------------------------
(* Each action keeps the invariant.                                        *)

(* The families a Device is made with: those getFamilyID finds.            *)
LEMMA FamiliesAre ==
  ASSUME TypeOK, NEW phys \in Phys
  PROVE  /\ families[phys] \in FamilyLists
         /\ GetFamilyID(families[phys], QueueFlags.compute) \in Nat
         /\ GetFamilyID(families[phys], QueueFlags.transfer) \in Nat
<1>1. families[phys] \in FamilyLists
  BY DEF TypeOK
<1>2. QueueFlags.compute \in {QueueFlags.compute, QueueFlags.transfer}
  OBVIOUS
<1>3. QueueFlags.transfer \in {QueueFlags.compute, QueueFlags.transfer}
  OBVIOUS
<1>. QED BY <1>1, <1>2, <1>3, FamilyIsNumber

(* A new object: EmplaceBack, Copy and Assign.                             *)
LEMMA NewObject ==
  ASSUME IndInv, NEW o \in Objects, NEW phys \in Phys, NEW cmp, NEW tfr,
         NEW why,
         cmp = GetFamilyID(families[phys], QueueFlags.compute),
         tfr = GetFamilyID(families[phys], QueueFlags.transfer),
         self = Null, Construct(o, phys, cmp, tfr, why),
         UNCHANGED <<families, vkVars, vectorVars>>
  PROVE  /\ Fields' /\ Own' /\ Families' /\ NoneLeaked'
         /\ obj' \in [Objects -> Device \cup {Null}]
         /\ Alive' = Alive \cup {o} /\ o \notin Alive
         /\ pc' = "create" /\ self' = o /\ purpose' = why
         /\ \A i \in DOMAIN vector : vector'[i] # o
         /\ vector' \in Seq(Alive')
         /\ \A p \in Alive' : p # self' => Complete(obj'[p])
<1>1. cmp \in Nat /\ tfr \in Nat
  BY FamiliesAre DEF IndInv
<1>2. /\ o \notin Alive /\ Alive' = Alive \cup {o}
      /\ obj' \in [Objects -> Device \cup {Null}]
      /\ \A p \in Objects \ {o} : obj'[p] = obj[p]
      /\ obj'[o] \in Device
      /\ obj'[o].handle = Null /\ obj'[o].phy_device = phys
      /\ obj'[o].cmp_family_id = cmp /\ obj'[o].tfr_family_id = tfr
      /\ obj'[o].compute_cmd_pool = Null
      /\ obj'[o].transfer_cmd_pool = Null
      /\ pc' = "create" /\ self' = o /\ purpose' = why
  BY <1>1, ConstructStep DEF IndInv
<1>3. /\ Alive \subseteq Objects /\ Null \notin Alive
      /\ \A p \in Alive : obj'[p] = obj[p]
  BY <1>2, AliveIs DEF IndInv
<1>4. /\ live' = live /\ pools' = pools /\ orphans' = orphans
      /\ misuse' = misuse /\ shared' = shared /\ families' = families
      /\ vector' = vector
  BY DEF vkVars, vectorVars
<1>5. Fields'
  BY <1>2 DEF Fields, Filled
<1>6. AllSound'
  BY <1>2, <1>3, <1>4 DEF IndInv, Own, AllSound
<1>7. NoneShared'
  BY <1>2, <1>3, <1>4 DEF IndInv, Own, NoneShared
<1>8. NothingLost'
  BY <1>4 DEF IndInv, Own, NothingLost
<1>9. Families'
  BY <1>2, <1>3, <1>4 DEF IndInv, Families
<1>10. NoneLeaked'
  BY <1>2, <1>3, <1>4 DEF IndInv, NoneLeaked
<1>11. /\ vector \in Seq(Alive) /\ \A i \in DOMAIN vector : vector[i] \in Alive
  BY VectorIs DEF IndInv
<1>12. vector' \in Seq(Alive')
  BY <1>2, <1>4, <1>11
<1>13. \A p \in Alive' : p # self' => Complete(obj'[p])
  BY <1>2, <1>3 DEF IndInv, TypeOK
<1>14. \A i \in DOMAIN vector : vector'[i] # o
  BY <1>2, <1>4, <1>11
<1>15. Own'
  BY <1>6, <1>7, <1>8 DEF Own
<1>. QED BY <1>2, <1>5, <1>9, <1>10, <1>12, <1>13, <1>14, <1>15

LEMMA EmplaceBackKeeps ==
  ASSUME IndInv, EmplaceBack
  PROVE  IndInv'
<1> DEFINE phys == Len(vector) + 1
<1>1. PICK o \in Objects :
        Construct(o, phys, GetFamilyID(families[phys], QueueFlags.compute),
                  GetFamilyID(families[phys], QueueFlags.transfer), "vector")
  BY DEF EmplaceBack
<1>2. /\ pc = "next" /\ Len(vector) < PhysCount /\ self = Null
      /\ target = Null /\ Len(vector) \in Nat
      /\ UNCHANGED <<families, vkVars, vectorVars, target>>
  <2>1. /\ pc = "next" /\ Len(vector) < PhysCount
        /\ UNCHANGED <<families, vkVars, vectorVars, target>>
    BY DEF EmplaceBack
  <2>. QED BY <2>1, VectorIs, NobodyBuilds DEF IndInv, Calls
<1>3. phys \in Phys
  BY <1>2, DeviceHandlesAssumption DEF Phys
<1> HIDE DEF phys
<1>4. /\ Fields' /\ Own' /\ Families' /\ NoneLeaked'
      /\ obj' \in [Objects -> Device \cup {Null}]
      /\ Alive' = Alive \cup {o} /\ o \notin Alive
      /\ pc' = "create" /\ self' = o /\ purpose' = "vector"
      /\ \A i \in DOMAIN vector : vector'[i] # o
      /\ vector' \in Seq(Alive')
      /\ \A p \in Alive' : p # self' => Complete(obj'[p])
  BY <1>1, <1>2, <1>3, NewObject
<1>5. TypeOK'
  BY <1>2, <1>4 DEF IndInv, TypeOK, vkVars, vectorVars
<1>6. Shape'
  BY <1>2, <1>4, AliveIs, DeviceHandlesAssumption
     DEF IndInv, TypeOK, Shape, vectorVars, Calls
<1>. QED BY <1>4, <1>5, <1>6 DEF IndInv

LEMMA CopyKeeps ==
  ASSUME IndInv, NEW o \in Objects, NEW new \in Objects, Copy(o, new)
  PROVE  IndInv'
<1> DEFINE d == obj[o]
<1>1. /\ pc = "idle" /\ self = Null /\ target = Null /\ o \in Alive
      /\ Construct(new, d.phy_device, d.cmp_family_id, d.tfr_family_id,
                   "copy")
      /\ UNCHANGED <<families, vkVars, vectorVars, target>>
  BY DEF Copy, IndInv, Shape, Calls
<1>2. /\ d.phy_device \in Phys
      /\ d.cmp_family_id
           = GetFamilyID(families[d.phy_device], QueueFlags.compute)
      /\ d.tfr_family_id
           = GetFamilyID(families[d.phy_device], QueueFlags.transfer)
  BY <1>1, AliveIs, DeviceFields DEF IndInv, Families
<1> HIDE DEF d
<1>4. /\ Fields' /\ Own' /\ Families' /\ NoneLeaked'
      /\ obj' \in [Objects -> Device \cup {Null}]
      /\ Alive' = Alive \cup {new} /\ new \notin Alive
      /\ pc' = "create" /\ self' = new /\ purpose' = "copy"
      /\ \A i \in DOMAIN vector : vector'[i] # new
      /\ vector' \in Seq(Alive')
      /\ \A p \in Alive' : p # self' => Complete(obj'[p])
  BY <1>1, <1>2, NewObject
<1>5. TypeOK'
  BY <1>1, <1>4 DEF IndInv, TypeOK, vkVars, vectorVars
<1>6. Shape'
  BY <1>1, <1>4, AliveIs, DeviceHandlesAssumption
     DEF IndInv, TypeOK, Shape, vectorVars, Calls
<1>. QED BY <1>4, <1>5, <1>6 DEF IndInv

LEMMA AssignKeeps ==
  ASSUME IndInv, NEW o \in Objects, NEW to \in Objects,
         NEW temp \in Objects, Assign(o, to, temp)
  PROVE  IndInv'
<1> DEFINE d == obj[o]
<1>1. /\ pc = "idle" /\ self = Null /\ target = Null
      /\ o \in Alive /\ to \in Alive
      /\ Construct(temp, d.phy_device, d.cmp_family_id, d.tfr_family_id,
                   "assign")
      /\ target' = to
      /\ UNCHANGED <<families, vkVars, vectorVars>>
  BY DEF Assign, IndInv, Shape, Calls
<1>2. /\ d.phy_device \in Phys
      /\ d.cmp_family_id
           = GetFamilyID(families[d.phy_device], QueueFlags.compute)
      /\ d.tfr_family_id
           = GetFamilyID(families[d.phy_device], QueueFlags.transfer)
  BY <1>1, AliveIs, DeviceFields DEF IndInv, Families
<1> HIDE DEF d
<1>4. /\ Fields' /\ Own' /\ Families' /\ NoneLeaked'
      /\ obj' \in [Objects -> Device \cup {Null}]
      /\ Alive' = Alive \cup {temp} /\ temp \notin Alive
      /\ pc' = "create" /\ self' = temp /\ purpose' = "assign"
      /\ \A i \in DOMAIN vector : vector'[i] # temp
      /\ vector' \in Seq(Alive')
      /\ \A p \in Alive' : p # self' => Complete(obj'[p])
  BY <1>1, <1>2, NewObject
<1>5. TypeOK'
  BY <1>1, <1>4 DEF IndInv, TypeOK, vkVars, vectorVars
<1>6. Shape'
  BY <1>1, <1>4, AliveIs, DeviceHandlesAssumption
     DEF IndInv, TypeOK, Shape, vectorVars, Calls
<1>. QED BY <1>4, <1>5, <1>6 DEF IndInv

(* A call of the constructor: it has its typing, shape and families for    *)
(* every field it may set.                                                 *)
LEMMA CallKeeps ==
  ASSUME IndInv, NEW from \in Calls \ {"built"}, NEW to \in Calls,
         NEW fields \in Device, Step(from, to, fields),
         live' \subseteq Handles, pools' \subseteq Parts,
         to = "built" => Complete(fields),
         fields.phy_device = obj[self].phy_device,
         fields.cmp_family_id = obj[self].cmp_family_id,
         fields.tfr_family_id = obj[self].tfr_family_id
  PROVE  /\ TypeOK' /\ Shape' /\ Families'
         /\ pc = from /\ pc' = to /\ self \in Alive /\ Alive' = Alive
         /\ obj[self] \in Device
         /\ obj'[self] = fields /\ self' = self
         /\ \A o \in Alive \ {self} : obj'[o] = obj[o]
         /\ Filled(from, obj[self])
         /\ shared' = shared /\ orphans' = orphans /\ misuse' = misuse
<1>1. TypeOK /\ Shape /\ from \in Calls
  BY DEF IndInv
<1>2. /\ pc = from /\ pc' = to /\ self \in Alive /\ obj[self] \in Device
      /\ Alive' = Alive /\ obj' \in [Objects -> Device \cup {Null}]
      /\ obj'[self] = fields
      /\ \A o \in Alive \ {self} : obj'[o] = obj[o]
      /\ UNCHANGED <<families, vector, capacity, moved, shared, self,
                     purpose, target, orphans, misuse>>
  BY <1>1, CallStep
<1>3. \A o \in Alive' : o # self' \/ pc' = "built" => Complete(obj'[o])
  BY <1>1, <1>2 DEF TypeOK
<1>4. TypeOK'
  BY <1>1, <1>2, <1>3 DEF TypeOK, Calls
<1>5. Shape'
  BY <1>1, <1>2 DEF Shape, Calls
<1>6. Families'
  <2>1. \A o \in Alive :
          /\ obj'[o].phy_device = obj[o].phy_device
          /\ obj'[o].cmp_family_id = obj[o].cmp_family_id
          /\ obj'[o].tfr_family_id = obj[o].tfr_family_id
    BY <1>2
  <2>. QED BY <1>2, <2>1 DEF IndInv, Families
<1>. QED BY <1>1, <1>2, <1>4, <1>5, <1>6 DEF IndInv, Fields

(* createDevice: the handle is one that no VkDevice has, so no pool does.  *)
LEMMA CreateDeviceKeeps ==
  ASSUME IndInv, CreateDevice
  PROVE  IndInv'
<1> DEFINE d == obj[self]
<1>1. PICK h \in Handles \ live :
        /\ Step("create", "compute pool", [d EXCEPT !.handle = h])
        /\ live' = live \cup {h} /\ pools' = pools
  BY DEF CreateDevice
<1>2. TypeOK /\ Shape /\ "create" \in Calls \ {"built"}
         /\ "compute pool" \in Calls
  BY DEF IndInv, Calls
<1>3. d \in Device /\ h # Null
  <2>1. pc = "create"
    BY <1>1 DEF Step
  <2>. QED BY <1>2, <2>1, AliveIs, DeviceHandlesAssumption
           DEF TypeOK, Shape, Calls
<1> DEFINE e == [d EXCEPT !.handle = h]
<1>4. /\ e \in Device /\ e.handle = h
      /\ e.phy_device = d.phy_device
      /\ e.cmp_family_id = d.cmp_family_id
      /\ e.tfr_family_id = d.tfr_family_id
      /\ e.compute_cmd_pool = d.compute_cmd_pool
      /\ e.transfer_cmd_pool = d.transfer_cmd_pool
  BY <1>1, <1>3 DEF Device
<1>5. Step("create", "compute pool", e)
  BY <1>1
<1>6. live' \subseteq Handles /\ pools' \subseteq Parts
  BY <1>1, <1>2 DEF TypeOK
<1> HIDE DEF e
<1>7. /\ TypeOK' /\ Shape' /\ Families'
      /\ pc = "create" /\ pc' = "compute pool" /\ self \in Alive
      /\ Alive' = Alive /\ obj'[self] = e /\ self' = self
      /\ \A o \in Alive \ {self} : obj'[o] = obj[o]
      /\ Filled("create", d)
      /\ shared' = shared /\ orphans' = orphans /\ misuse' = misuse
  BY <1>2, <1>4, <1>5, <1>6, CallKeeps
<1>8. /\ d.handle = Null /\ d.compute_cmd_pool = Null
      /\ d.transfer_cmd_pool = Null
  BY <1>7 DEF Filled
<1>9. Fields'
  BY <1>3, <1>4, <1>7, <1>8 DEF Fields, Filled
<1>10. ASSUME ~shared
       PROVE  /\ \A o \in Alive : obj'[o].handle # Null =>
                   Sound(obj'[o], live', pools')
              /\ \A o \in Alive \ {self} : obj[o].handle # h
  <2>1. \A o \in Alive : obj[o] \in Device /\
          (obj[o].handle # Null => Sound(obj[o], live, pools))
    BY <1>2, <1>10, AliveIs DEF IndInv, Own, AllSound
  <2>2. \A o \in Alive \ {self} : obj[o].handle # h
    BY <1>1, <1>3, <2>1 DEF Sound
  <2>3. \A q \in pools : q[1] # h
    BY <1>1, <1>10 DEF IndInv, Own, NothingLost
  <2>4. Sound(e, live', pools')
    BY <1>1, <1>4, <1>8, <2>3 DEF Sound
  <2>5. ASSUME NEW o \in Alive \ {self}, obj[o].handle # Null
        PROVE  Sound(obj[o], live', pools')
    BY <1>1, <2>1, <2>2, <2>5, SoundBesideNew
  <2>. QED BY <1>7, <2>2, <2>4, <2>5
<1>11. Own'
  <2>1. AllSound'
    BY <1>7, <1>10 DEF AllSound
  <2>2. NoneShared'
    <3>1. SUFFICES ASSUME ~shared, NEW o \in Alive, NEW p \in Alive,
                          obj'[o].handle # Null,
                          obj'[o].handle = obj'[p].handle
                   PROVE  o = p
      BY <1>7 DEF NoneShared
    <3>2. \A r \in Alive \ {self} : obj'[r] = obj[r] /\ obj[r].handle # h
      BY <1>7, <1>10, <3>1
    <3>3. CASE o # self /\ p # self
      BY <3>1, <3>2, <3>3 DEF NoneShared, IndInv, Own
    <3>4. CASE o = self \/ p = self
      BY <1>4, <1>7, <3>1, <3>2, <3>4
    <3>. QED BY <3>3, <3>4
  <2>3. NothingLost'
    BY <1>1, <1>7 DEF NothingLost, IndInv, Own
  <2>. QED BY <2>1, <2>2, <2>3 DEF Own
<1>12. NoneLeaked'
  <2>1. SUFFICES ASSUME NEW k \in live'
                 PROVE  \E o \in Alive' : obj'[o].handle = k
    BY DEF NoneLeaked
  <2>2. CASE k = h
    BY <1>4, <1>7, <2>2
  <2>3. CASE k # h
    <3>1. k \in live /\ k # Null
      BY <1>1, <1>2, <2>3, AliveIs
    <3>2. PICK o \in Alive : obj[o].handle = k
      BY <3>1 DEF IndInv, NoneLeaked
    <3>3. o # self
      BY <1>8, <3>1, <3>2
    <3>. QED BY <1>7, <3>2, <3>3
  <2>. QED BY <2>2, <2>3
<1>. QED BY <1>7, <1>9, <1>11, <1>12 DEF IndInv

(* The other calls leave every VkDevice and its owner as they are.         *)
LEMMA HandlesKept ==
  ASSUME IndInv, Alive' = Alive, shared' = shared, live' = live,
         \A o \in Alive : obj'[o].handle = obj[o].handle
  PROVE  NoneShared' /\ NoneLeaked'
<1>1. NoneShared'
  BY DEF IndInv, Own, NoneShared
<1>2. NoneLeaked'
  BY DEF IndInv, NoneLeaked
<1>. QED BY <1>1, <1>2

(* Where no Device of another object has the VkDevice, the other Devices   *)
(* stay sound whatever pools it gets.                                      *)
LEMMA OthersSound ==
  ASSUME IndInv, ~shared, self \in Alive, obj[self].handle # Null,
         NEW kind, NEW more, more \subseteq {<<obj[self].handle, kind>>}
  PROVE  /\ Sound(obj[self], live, pools)
         /\ \A o \in Alive \ {self} : obj[o].handle # Null =>
              Sound(obj[o], live, pools \cup more)
<1>1. \A o \in Alive : obj[o] \in Device /\
        (obj[o].handle # Null => Sound(obj[o], live, pools))
  BY AliveIs DEF IndInv, Own, AllSound
<1>2. \A o \in Alive \ {self} : obj[o].handle # obj[self].handle
  BY DEF IndInv, Own, NoneShared
<1>3. more = {} \/ more = {<<obj[self].handle, kind>>}
  OBVIOUS
<1>4. ASSUME NEW o \in Alive \ {self}, obj[o].handle # Null
      PROVE  Sound(obj[o], live, pools \cup more)
  <2>1. Sound(obj[o], live, pools \cup {<<obj[self].handle, kind>>})
    BY <1>1, <1>2, <1>4, SoundBesideNew
  <2>2. Sound(obj[o], live, pools) /\ pools \cup {} = pools
    BY <1>1, <1>4
  <2>. QED BY <1>3, <2>1, <2>2
<1>. QED BY <1>1, <1>4

LEMMA CreateComputePoolKeeps ==
  ASSUME IndInv, CreateComputePool
  PROVE  IndInv'
<1> DEFINE d == obj[self]
           pool == <<d.handle, "compute">>
           e == [d EXCEPT !.compute_cmd_pool = pool]
<1>1. /\ Step("compute pool", "compute buffer", e)
      /\ pools' = pools \cup {pool} /\ live' = live
  BY DEF CreateComputePool
<1>2. /\ TypeOK /\ Shape /\ "compute pool" \in Calls \ {"built"}
      /\ "compute buffer" \in Calls
  BY DEF IndInv, Calls
<1>3. d \in Device /\ d.handle # Null /\ self \in Alive
  <2>1. pc = "compute pool"
    BY <1>1 DEF Step
  <2>. QED BY <1>2, <2>1, AliveIs
           DEF TypeOK, Shape, Calls, IndInv, Fields, Filled
<1>4. pool \in Parts /\ pool # Null
  BY <1>3, PartOf
<1>5. /\ e \in Device /\ e.handle = d.handle
      /\ e.phy_device = d.phy_device
      /\ e.cmp_family_id = d.cmp_family_id
      /\ e.tfr_family_id = d.tfr_family_id
      /\ e.compute_cmd_pool = pool
      /\ e.transfer_cmd_pool = d.transfer_cmd_pool
  BY <1>3, <1>4 DEF Device
<1>6. live' \subseteq Handles /\ pools' \subseteq Parts
  BY <1>1, <1>2, <1>4 DEF TypeOK
<1> HIDE DEF e
<1>7. /\ TypeOK' /\ Shape' /\ Families'
      /\ pc = "compute pool" /\ pc' = "compute buffer" /\ self \in Alive
      /\ Alive' = Alive /\ obj'[self] = e /\ self' = self
      /\ \A o \in Alive \ {self} : obj'[o] = obj[o]
      /\ Filled("compute pool", d)
      /\ shared' = shared /\ orphans' = orphans /\ misuse' = misuse
  BY <1>1, <1>2, <1>5, <1>6, CallKeeps
<1>8. d.compute_cmd_pool = Null /\ d.transfer_cmd_pool = Null
  BY <1>7 DEF Filled
<1>9. Fields'
  BY <1>3, <1>4, <1>5, <1>7, <1>8 DEF Fields, Filled
<1>10. AllSound'
  <2>1. SUFFICES ASSUME ~shared
                 PROVE  \A o \in Alive : obj'[o].handle # Null =>
                          Sound(obj'[o], live', pools')
    BY <1>7 DEF AllSound
  <2>2. Sound(d, live, pools)
    BY <1>3, <2>1, OthersSound
  <2>3. \A o \in Alive \ {self} : obj[o].handle # Null =>
          Sound(obj[o], live, pools \cup {pool})
    BY <1>3, <2>1, OthersSound
  <2>4. \A q \in pools : q[1] # d.handle
    BY <1>2, <1>8, <2>2, DeviceHandlesAssumption DEF Sound, TypeOK
  <2>5. Sound(e, live, pools \cup {pool})
    BY <1>4, <1>5, <1>8, <2>2, <2>4 DEF Sound
  <2>. QED BY <1>1, <1>7, <2>3, <2>5
<1>11. NoneShared' /\ NoneLeaked'
  BY <1>1, <1>5, <1>7, HandlesKept
<1>12. NothingLost'
  <2>1. ~shared => d.handle \in live
    BY <1>3, OthersSound DEF Sound
  <2>2. NothingLost /\ pool[1] = d.handle
    BY DEF IndInv, Own
  <2>3. ~shared => \A q \in pools' : q[1] \in live'
    <3> HIDE DEF pool
    <3>. QED BY <1>1, <2>1, <2>2 DEF NothingLost
  <2>. QED BY <1>7, <2>2, <2>3 DEF NothingLost
<1>. QED BY <1>7, <1>9, <1>10, <1>11, <1>12 DEF IndInv, Own

LEMMA CreateTransferPoolKeeps ==
  ASSUME IndInv, CreateTransferPool
  PROVE  IndInv'
<1> DEFINE d == obj[self]
           pool == <<d.handle, "transfer">>
           e == [d EXCEPT !.transfer_cmd_pool = pool]
<1>1. /\ Step("transfer pool", "transfer buffer", e)
      /\ pools' = pools \cup {pool} /\ live' = live
  BY DEF CreateTransferPool
<1>2. /\ TypeOK /\ Shape /\ "transfer pool" \in Calls \ {"built"}
      /\ "transfer buffer" \in Calls
  BY DEF IndInv, Calls
<1>3. d \in Device /\ d.handle # Null /\ self \in Alive
  <2>1. pc = "transfer pool"
    BY <1>1 DEF Step
  <2>. QED BY <1>2, <2>1, AliveIs
           DEF TypeOK, Shape, Calls, IndInv, Fields, Filled
<1>4. pool \in Parts /\ pool # Null
  BY <1>3, PartOf
<1>5. /\ e \in Device /\ e.handle = d.handle
      /\ e.phy_device = d.phy_device
      /\ e.cmp_family_id = d.cmp_family_id
      /\ e.tfr_family_id = d.tfr_family_id
      /\ e.compute_cmd_pool = d.compute_cmd_pool
      /\ e.compute_cmd_buffer = d.compute_cmd_buffer
      /\ e.transfer_cmd_pool = pool
  BY <1>3, <1>4 DEF Device
<1>6. live' \subseteq Handles /\ pools' \subseteq Parts
  BY <1>1, <1>2, <1>4 DEF TypeOK
<1> HIDE DEF e
<1>7. /\ TypeOK' /\ Shape' /\ Families'
      /\ pc = "transfer pool" /\ pc' = "transfer buffer" /\ self \in Alive
      /\ Alive' = Alive /\ obj'[self] = e /\ self' = self
      /\ \A o \in Alive \ {self} : obj'[o] = obj[o]
      /\ Filled("transfer pool", d)
      /\ shared' = shared /\ orphans' = orphans /\ misuse' = misuse
  BY <1>1, <1>2, <1>5, <1>6, CallKeeps
<1>8. /\ d.compute_cmd_pool # Null /\ d.transfer_cmd_pool = Null
      /\ d.compute_cmd_buffer # Null /\ d.cmp_family_id # d.tfr_family_id
  BY <1>7 DEF Filled
<1>9. Fields'
  BY <1>3, <1>4, <1>5, <1>7, <1>8 DEF Fields, Filled
<1>10. AllSound'
  <2>1. SUFFICES ASSUME ~shared
                 PROVE  \A o \in Alive : obj'[o].handle # Null =>
                          Sound(obj'[o], live', pools')
    BY <1>7 DEF AllSound
  <2>2. Sound(d, live, pools)
    BY <1>3, <2>1, OthersSound
  <2>3. \A o \in Alive \ {self} : obj[o].handle # Null =>
          Sound(obj[o], live, pools \cup {pool})
    BY <1>3, <2>1, OthersSound
  <2>4. \A q \in pools : q[1] = d.handle => q = d.compute_cmd_pool
    BY <1>2, <1>8, <2>2, DeviceHandlesAssumption DEF Sound, TypeOK
  <2>5. Sound(e, live, pools \cup {pool})
    BY <1>4, <1>5, <1>8, <2>2, <2>4 DEF Sound
  <2>. QED BY <1>1, <1>7, <2>3, <2>5
<1>11. NoneShared' /\ NoneLeaked'
  BY <1>1, <1>5, <1>7, HandlesKept
<1>12. NothingLost'
  <2>1. ~shared => d.handle \in live
    BY <1>3, OthersSound DEF Sound
  <2>2. NothingLost /\ pool[1] = d.handle
    BY DEF IndInv, Own
  <2>3. ~shared => \A q \in pools' : q[1] \in live'
    <3> HIDE DEF pool
    <3>. QED BY <1>1, <2>1, <2>2 DEF NothingLost
  <2>. QED BY <1>7, <2>2, <2>3 DEF NothingLost
<1>. QED BY <1>7, <1>9, <1>10, <1>11, <1>12 DEF IndInv, Own

(* allocateCommandBuffers: the object's own field, and, where there is one *)
(* family only, the pool and buffer for transfers are the same.            *)
LEMMA AllocComputeBufferKeeps ==
  ASSUME IndInv, AllocComputeBuffer
  PROVE  IndInv'
<1> DEFINE d == obj[self]
           buffer == <<d.handle, "compute">>
           whole == [d EXCEPT !.compute_cmd_buffer = buffer,
                              !.transfer_cmd_pool = d.compute_cmd_pool,
                              !.transfer_cmd_buffer = buffer]
           part == [d EXCEPT !.compute_cmd_buffer = buffer]
<1>1. /\ \/ /\ Step("compute buffer", "built", whole)
            /\ d.cmp_family_id = d.tfr_family_id
         \/ /\ Step("compute buffer", "transfer pool", part)
            /\ d.cmp_family_id # d.tfr_family_id
      /\ live' = live /\ pools' = pools
  BY DEF AllocComputeBuffer
<1>2. /\ TypeOK /\ Shape /\ "compute buffer" \in Calls \ {"built"}
      /\ "built" \in Calls /\ "transfer pool" \in Calls
  BY DEF IndInv, Calls
<1>3. /\ d \in Device /\ self \in Alive /\ Filled("compute buffer", d)
  <2>1. pc = "compute buffer"
    BY <1>1 DEF Step
  <2>. QED BY <1>2, <2>1, AliveIs DEF TypeOK, Shape, Calls, IndInv, Fields
<1>4. /\ d.handle # Null /\ d.compute_cmd_pool # Null
      /\ d.transfer_cmd_pool = Null
  BY <1>3 DEF Filled
<1>5. buffer \in Parts /\ buffer # Null
  BY <1>3, <1>4, PartOf
<1>6. live' \subseteq Handles /\ pools' \subseteq Parts
  BY <1>1, <1>2 DEF TypeOK
<1>7. CASE /\ Step("compute buffer", "built", whole)
           /\ d.cmp_family_id = d.tfr_family_id
  <2>1. /\ whole \in Device /\ whole.handle = d.handle
        /\ whole.phy_device = d.phy_device
        /\ whole.cmp_family_id = d.cmp_family_id
        /\ whole.tfr_family_id = d.tfr_family_id
        /\ whole.compute_cmd_pool = d.compute_cmd_pool
        /\ whole.compute_cmd_buffer = buffer
        /\ whole.transfer_cmd_pool = d.compute_cmd_pool
        /\ whole.transfer_cmd_buffer = buffer
    BY <1>3, <1>5 DEF Device
  <2> HIDE DEF whole, buffer
  <2>2. Complete(whole)
    BY <1>4, <1>5, <2>1 DEF Complete
  <2>3. /\ TypeOK' /\ Shape' /\ Families'
        /\ pc' = "built" /\ Alive' = Alive /\ obj'[self] = whole
        /\ self' = self /\ \A o \in Alive \ {self} : obj'[o] = obj[o]
        /\ shared' = shared /\ orphans' = orphans /\ misuse' = misuse
    BY <1>2, <1>6, <1>7, <2>1, <2>2, CallKeeps
  <2>4. Fields'
    BY <1>4, <2>1, <2>3 DEF Fields, Filled
  <2>5. AllSound'
    <3>1. SUFFICES ASSUME ~shared
                   PROVE  \A o \in Alive : obj'[o].handle # Null =>
                            Sound(obj'[o], live, pools)
      BY <1>1, <2>3 DEF AllSound
    <3>2. \A o \in Alive : obj[o].handle # Null =>
            Sound(obj[o], live, pools)
      BY <3>1 DEF IndInv, Own, AllSound
    <3>3. Sound(whole, live, pools)
      BY <1>3, <1>4, <1>7, <2>1, <3>2 DEF Sound
    <3>. QED BY <2>3, <3>2, <3>3
  <2>6. NoneShared' /\ NoneLeaked'
    BY <1>1, <2>1, <2>3, HandlesKept
  <2>7. NothingLost'
    BY <1>1, <2>3 DEF NothingLost, IndInv, Own
  <2>. QED BY <2>3, <2>4, <2>5, <2>6, <2>7 DEF IndInv, Own
<1>8. CASE /\ Step("compute buffer", "transfer pool", part)
           /\ d.cmp_family_id # d.tfr_family_id
  <2>1. /\ part \in Device /\ part.handle = d.handle
        /\ part.phy_device = d.phy_device
        /\ part.cmp_family_id = d.cmp_family_id
        /\ part.tfr_family_id = d.tfr_family_id
        /\ part.compute_cmd_pool = d.compute_cmd_pool
        /\ part.compute_cmd_buffer = buffer
        /\ part.transfer_cmd_pool = d.transfer_cmd_pool
    BY <1>3, <1>5 DEF Device
  <2> HIDE DEF part, buffer
  <2>2. /\ TypeOK' /\ Shape' /\ Families'
        /\ pc' = "transfer pool" /\ Alive' = Alive /\ obj'[self] = part
        /\ self' = self /\ \A o \in Alive \ {self} : obj'[o] = obj[o]
        /\ shared' = shared /\ orphans' = orphans /\ misuse' = misuse
    BY <1>2, <1>6, <1>8, <2>1, CallKeeps
  <2>4. Fields'
    BY <1>4, <1>5, <1>8, <2>1, <2>2 DEF Fields, Filled
  <2>5. AllSound'
    <3>1. SUFFICES ASSUME ~shared
                   PROVE  \A o \in Alive : obj'[o].handle # Null =>
                            Sound(obj'[o], live, pools)
      BY <1>1, <2>2 DEF AllSound
    <3>2. \A o \in Alive : obj[o].handle # Null =>
            Sound(obj[o], live, pools)
      BY <3>1 DEF IndInv, Own, AllSound
    <3>3. Sound(part, live, pools)
      BY <1>3, <1>4, <2>1, <3>2 DEF Sound
    <3>. QED BY <2>2, <3>2, <3>3
  <2>6. NoneShared' /\ NoneLeaked'
    BY <1>1, <2>1, <2>2, HandlesKept
  <2>7. NothingLost'
    BY <1>1, <2>2 DEF NothingLost, IndInv, Own
  <2>. QED BY <2>2, <2>4, <2>5, <2>6, <2>7 DEF IndInv, Own
<1>. QED BY <1>1, <1>7, <1>8

LEMMA AllocTransferBufferKeeps ==
  ASSUME IndInv, AllocTransferBuffer
  PROVE  IndInv'
<1> DEFINE d == obj[self]
           buffer == <<d.handle, "transfer">>
           e == [d EXCEPT !.transfer_cmd_buffer = buffer]
<1>1. /\ Step("transfer buffer", "built", e)
      /\ live' = live /\ pools' = pools
  BY DEF AllocTransferBuffer
<1>2. /\ TypeOK /\ Shape /\ "transfer buffer" \in Calls \ {"built"}
      /\ "built" \in Calls
  BY DEF IndInv, Calls
<1>3. d \in Device /\ self \in Alive /\ Filled("transfer buffer", d)
  <2>1. pc = "transfer buffer"
    BY <1>1 DEF Step
  <2>. QED BY <1>2, <2>1, AliveIs DEF TypeOK, Shape, Calls, IndInv, Fields
<1>4. /\ d.handle # Null /\ d.compute_cmd_pool # Null
      /\ d.compute_cmd_buffer # Null /\ d.transfer_cmd_pool # Null
  BY <1>3 DEF Filled
<1>5. buffer \in Parts /\ buffer # Null
  BY <1>3, <1>4, PartOf
<1>6. live' \subseteq Handles /\ pools' \subseteq Parts
  BY <1>1, <1>2 DEF TypeOK
<1>7. /\ e \in Device /\ e.handle = d.handle
      /\ e.phy_device = d.phy_device
      /\ e.cmp_family_id = d.cmp_family_id
      /\ e.tfr_family_id = d.tfr_family_id
      /\ e.compute_cmd_pool = d.compute_cmd_pool
      /\ e.compute_cmd_buffer = d.compute_cmd_buffer
      /\ e.transfer_cmd_pool = d.transfer_cmd_pool
      /\ e.transfer_cmd_buffer = buffer
  BY <1>3, <1>5 DEF Device
<1> HIDE DEF e, buffer
<1>8. Complete(e)
  BY <1>4, <1>5, <1>7 DEF Complete
<1>9. /\ TypeOK' /\ Shape' /\ Families'
      /\ pc' = "built" /\ Alive' = Alive /\ obj'[self] = e
      /\ self' = self /\ \A o \in Alive \ {self} : obj'[o] = obj[o]
      /\ shared' = shared /\ orphans' = orphans /\ misuse' = misuse
  BY <1>1, <1>2, <1>6, <1>7, <1>8, CallKeeps
<1>10. Fields'
  BY <1>4, <1>7, <1>9 DEF Fields, Filled
<1>11. AllSound'
  <2>1. SUFFICES ASSUME ~shared
                 PROVE  \A o \in Alive : obj'[o].handle # Null =>
                          Sound(obj'[o], live, pools)
    BY <1>1, <1>9 DEF AllSound
  <2>2. \A o \in Alive : obj[o].handle # Null => Sound(obj[o], live, pools)
    BY <2>1 DEF IndInv, Own, AllSound
  <2>3. Sound(e, live, pools)
    BY <1>3, <1>4, <1>7, <2>2 DEF Sound
  <2>. QED BY <1>9, <2>2, <2>3
<1>12. NoneShared' /\ NoneLeaked'
  BY <1>1, <1>7, <1>9, HandlesKept
<1>13. NothingLost'
  BY <1>1, <1>9 DEF NothingLost, IndInv, Own
<1>. QED BY <1>9, <1>10, <1>11, <1>12, <1>13 DEF IndInv, Own

(* A Device goes and releases what it has; the others keep theirs, in the  *)
(* same or in another place: "from" tells where each one was before.       *)
LEMMA Released ==
  ASSUME IndInv, NEW gone \in Alive, obj[gone].handle # Null,
         Release(obj[gone]), NEW from \in [Alive' -> Alive \ {gone}],
         \A p \in Alive' : obj'[p] = obj[from[p]],
         \A p, q \in Alive' : from[p] = from[q] => p = q,
         \A r \in Alive \ {gone} : \E p \in Alive' : from[p] = r,
         shared' = shared, families' = families
  PROVE  /\ Own' /\ Families' /\ NoneLeaked'
         /\ live' \subseteq Handles /\ pools' \subseteq Parts
         /\ orphans' \subseteq Parts
         /\ misuse' \subseteq {"dead device", "null pool"}
<1> DEFINE h == obj[gone].handle
<1>1. /\ TypeOK /\ \A o \in Alive : obj[o] \in Device
  BY AliveIs DEF IndInv
<1>2. /\ live' = live \ {h}
      /\ pools' \subseteq pools /\ orphans' \subseteq Parts
      /\ misuse' \subseteq {"dead device", "null pool"}
      /\ h \in live /\ Sound(obj[gone], live, pools) =>
           /\ pools' = {q \in pools : q[1] # h}
           /\ orphans' = orphans
           /\ "dead device" \notin misuse => "dead device" \notin misuse'
  BY <1>1, ReleaseStep
<1>3. /\ live' \subseteq Handles /\ pools' \subseteq Parts
  BY <1>1, <1>2 DEF TypeOK
<1>4. Families'
  BY <1>1 DEF IndInv, Families
<1>5. NoneLeaked'
  <2>1. SUFFICES ASSUME NEW k \in live'
                 PROVE  \E p \in Alive' : obj'[p].handle = k
    BY DEF NoneLeaked
  <2>2. PICK r \in Alive : obj[r].handle = k
    BY <1>2, <2>1 DEF IndInv, NoneLeaked
  <2>3. r # gone
    BY <1>2, <2>1, <2>2
  <2>4. PICK p \in Alive' : from[p] = r
    BY <2>3
  <2>. QED BY <2>2, <2>4
<1>6. ASSUME ~shared
      PROVE  /\ \A o \in Alive : obj[o].handle # Null =>
                  Sound(obj[o], live, pools)
             /\ \A o, p \in Alive :
                  obj[o].handle # Null /\ obj[o].handle = obj[p].handle =>
                    o = p
             /\ orphans = {} /\ "dead device" \notin misuse
             /\ \A q \in pools : q[1] \in live
             /\ pools' = {q \in pools : q[1] # h}
             /\ orphans' = orphans /\ "dead device" \notin misuse'
  <2>1. /\ \A o \in Alive : obj[o].handle # Null =>
             Sound(obj[o], live, pools)
        /\ \A o, p \in Alive :
             obj[o].handle # Null /\ obj[o].handle = obj[p].handle => o = p
        /\ orphans = {} /\ "dead device" \notin misuse
        /\ \A q \in pools : q[1] \in live
    BY <1>6 DEF IndInv, Own, AllSound, NoneShared, NothingLost
  <2>2. h \in live /\ Sound(obj[gone], live, pools)
    BY <2>1 DEF Sound
  <2>. QED BY <1>2, <2>1, <2>2
<1>7. AllSound'
  <2>1. SUFFICES ASSUME ~shared, NEW p \in Alive', obj'[p].handle # Null
                 PROVE  Sound(obj'[p], live', pools')
    BY DEF AllSound
  <2>2. PICK r \in Alive \ {gone} : r = from[p] /\ obj'[p] = obj[r]
    BY <2>1
  <2>3. obj[r] \in Device /\ obj[r].handle # h /\ Sound(obj[r], live, pools)
    BY <1>1, <1>6, <2>1, <2>2
  <2>4. live' = live \ {h} /\ \A q : q \in pools' <=> q \in pools /\ q[1] # h
    BY <1>2, <1>6, <2>1
  <2>5. PICK L, P, fewerL, fewerP :
          L = live /\ P = pools /\ fewerL = live' /\ fewerP = pools'
    OBVIOUS
  <2>6. Sound(obj[r], fewerL, fewerP)
    BY <2>3, <2>4, <2>5, SoundBeside
  <2>. QED BY <2>2, <2>5, <2>6
<1>8. NoneShared'
  <2>1. SUFFICES ASSUME ~shared, NEW p \in Alive', NEW q \in Alive',
                        obj'[p].handle # Null,
                        obj'[p].handle = obj'[q].handle
                 PROVE  p = q
    BY DEF NoneShared
  <2>2. PICK r \in Alive, t \in Alive :
          /\ r = from[p] /\ obj'[p] = obj[r]
          /\ t = from[q] /\ obj'[q] = obj[t]
    OBVIOUS
  <2>3. r = t
    <3>1. \A x, y \in Alive :
            obj[x].handle # Null /\ obj[x].handle = obj[y].handle => x = y
      BY <1>6, <2>1
    <3>2. obj[r].handle # Null /\ obj[r].handle = obj[t].handle
      BY <2>1, <2>2
    <3>. QED BY <3>1, <3>2
  <2>4. from[p] = from[q]
    BY <2>2, <2>3
  <2>. QED BY <2>4
<1>9. NothingLost'
  BY <1>2, <1>6 DEF NothingLost
<1>. QED BY <1>2, <1>3, <1>4, <1>5, <1>7, <1>8, <1>9 DEF Own

(* The object of it disappears.                                            *)
LEMMA Removed ==
  ASSUME IndInv, NEW gone \in Alive, obj[gone].handle # Null,
         Release(obj[gone]), obj' = [obj EXCEPT ![gone] = Null],
         shared' = shared, families' = families
  PROVE  /\ Own' /\ Families' /\ NoneLeaked'
         /\ live' \subseteq Handles /\ pools' \subseteq Parts
         /\ orphans' \subseteq Parts
         /\ misuse' \subseteq {"dead device", "null pool"}
         /\ Alive' = Alive \ {gone} /\ \A p \in Alive' : obj'[p] = obj[p]
         /\ obj' \in [Objects -> Device \cup {Null}]
<1>1. /\ TypeOK /\ Alive \subseteq Objects
      /\ obj \in [Objects -> Device \cup {Null}]
  BY AliveIs DEF IndInv, TypeOK
<1>2. /\ obj' \in [Objects -> Device \cup {Null}]
      /\ Alive' = Alive \ {gone} /\ \A p \in Alive' : obj'[p] = obj[p]
  BY <1>1 DEF Alive
<1>3. PICK from : from = [p \in Alive \ {gone} |-> p]
  OBVIOUS
<1>4. /\ from \in [Alive' -> Alive \ {gone}]
      /\ \A p \in Alive' : obj'[p] = obj[from[p]]
      /\ \A p, q \in Alive' : from[p] = from[q] => p = q
      /\ \A r \in Alive \ {gone} : \E p \in Alive' : from[p] = r
  BY <1>2, <1>3
<1>5. /\ Own' /\ Families' /\ NoneLeaked'
      /\ live' \subseteq Handles /\ pools' \subseteq Parts
      /\ orphans' \subseteq Parts
      /\ misuse' \subseteq {"dead device", "null pool"}
  BY <1>4, Released
<1>. QED BY <1>2, <1>5

LEMMA DestroyKeeps ==
  ASSUME IndInv, NEW o \in Objects, Destroy(o)
  PROVE  IndInv'
<1>1. /\ pc = "idle" /\ o \in Alive /\ ~InVector(o) /\ Release(obj[o])
      /\ obj' = [obj EXCEPT ![o] = Null]
      /\ UNCHANGED <<families, vector, capacity, moved, shared, pc, self,
                     purpose, target>>
  BY DEF Destroy, vectorVars, ctorVars
<1>2. TypeOK /\ Shape /\ self = Null /\ target = Null
  BY <1>1, NobodyBuilds DEF IndInv, Calls
<1>3. obj[o].handle # Null
  BY <1>1, <1>2, AliveIs DEF TypeOK, Complete
<1>4. /\ Own' /\ Families' /\ NoneLeaked'
      /\ live' \subseteq Handles /\ pools' \subseteq Parts
      /\ orphans' \subseteq Parts
      /\ misuse' \subseteq {"dead device", "null pool"}
      /\ Alive' = Alive \ {o} /\ \A p \in Alive' : obj'[p] = obj[p]
      /\ obj' \in [Objects -> Device \cup {Null}]
  BY <1>1, <1>3, Removed
<1>5. vector' \in Seq(Alive')
  <2>1. \A i \in 1 .. Len(vector) : vector[i] \in Alive'
    BY <1>1, <1>2, <1>4, VectorIs DEF InVector
  <2>2. Len(vector) \in Nat /\ vector \in Seq(Alive)
    BY <1>2, VectorIs
  <2>. QED BY <1>1, <2>1, <2>2
<1>6. \A p \in Alive' : Complete(obj'[p])
  BY <1>2, <1>4, AliveIs DEF TypeOK
<1>7. TypeOK'
  BY <1>1, <1>2, <1>4, <1>5, <1>6 DEF TypeOK
<1>8. Shape'
  BY <1>1, <1>2 DEF Shape
<1>9. Fields'
  BY <1>1 DEF Fields, Calls
<1>. QED BY <1>4, <1>7, <1>8, <1>9 DEF IndInv

(* The vector's destructor takes the first element.                        *)
LEMMA UnwindKeeps ==
  ASSUME IndInv, Unwind
  PROVE  IndInv'
<1> DEFINE o == Head(vector)
<1>1. /\ pc = "unwind" /\ Release(obj[o]) /\ obj' = [obj EXCEPT ![o] = Null]
      /\ vector' = Tail(vector)
      /\ pc' = IF Len(vector) = 1 THEN "idle" ELSE "unwind"
      /\ capacity' = IF Len(vector) = 1 THEN 0 ELSE capacity
      /\ moved' = 0
      /\ UNCHANGED <<families, shared, self, purpose, target>>
  BY DEF Unwind
<1>2. /\ TypeOK /\ Shape /\ self = Null /\ target = Null /\ vector # <<>>
  BY <1>1, NobodyBuilds DEF IndInv, Calls, Shape
<1>3. /\ vector \in Seq(Alive) /\ Len(vector) \in Nat \ {0}
      /\ o \in Alive /\ o = vector[1]
      /\ DOMAIN vector = 1 .. Len(vector)
  BY <1>2, VectorIs
<1>4. obj[o].handle # Null
  BY <1>2, <1>3, AliveIs DEF TypeOK, Complete
<1>5. /\ Own' /\ Families' /\ NoneLeaked'
      /\ live' \subseteq Handles /\ pools' \subseteq Parts
      /\ orphans' \subseteq Parts
      /\ misuse' \subseteq {"dead device", "null pool"}
      /\ Alive' = Alive \ {o} /\ \A p \in Alive' : obj'[p] = obj[p]
      /\ obj' \in [Objects -> Device \cup {Null}]
  BY <1>1, <1>3, <1>4, Removed
<1>6. /\ vector' \in Seq(Alive) /\ Len(vector') = Len(vector) - 1
      /\ DOMAIN vector' = 1 .. (Len(vector) - 1)
      /\ \A i \in 1 .. (Len(vector) - 1) : vector'[i] = vector[i + 1]
  BY <1>1, <1>2, <1>3, HeadTailProperties, VectorIs
<1>7. \A i \in DOMAIN vector' : vector'[i] \in Alive'
  <2>1. ASSUME NEW i \in 1 .. (Len(vector) - 1)
        PROVE  vector[i + 1] \in Alive /\ vector[i + 1] # o
    <3>1. 1 \in DOMAIN vector /\ i + 1 \in DOMAIN vector /\ i + 1 # 1
      BY <1>3
    <3>. QED BY <1>2, <1>3, <3>1, VectorIs DEF Shape
  <2>. QED BY <1>5, <1>6, <2>1
<1>8. vector' \in Seq(Alive')
  BY <1>6, <1>7
<1>9. \A p \in Alive' : Complete(obj'[p])
  BY <1>2, <1>5, AliveIs DEF TypeOK
<1>10. /\ capacity' \in 0 .. PhysCount /\ moved' \in 0 .. PhysCount
       /\ pc' \in {"idle", "unwind"}
  <2>1. capacity \in 0 .. PhysCount
    BY <1>2 DEF TypeOK
  <2>2. 0 \in 0 .. PhysCount
    BY DeviceHandlesAssumption
  <2>. QED BY <1>1, <2>1, <2>2
<1>11. TypeOK'
  BY <1>1, <1>2, <1>5, <1>8, <1>9, <1>10 DEF TypeOK
<1>12. Shape'
  <2>1. \A i \in DOMAIN vector' : vector'[i] # self'
    BY <1>1, <1>2, <1>5, <1>7, AliveIs
  <2>2. \A i, j \in DOMAIN vector' : vector'[i] = vector'[j] => i = j
    BY <1>2, <1>3, <1>6 DEF Shape
  <2>3. Len(vector') <= PhysCount
    BY <1>2, <1>3, <1>6, DeviceHandlesAssumption DEF Shape
  <2>4. pc' = "unwind" => vector' # <<>>
    <3>1. pc' = "unwind" => Len(vector) # 1
      BY <1>1
    <3>2. pc' = "unwind" => Len(vector') # 0
      BY <1>3, <1>6, <3>1
    <3>. QED BY <3>2
  <2>. QED BY <1>1, <1>2, <1>10, <2>1, <2>2, <2>3, <2>4 DEF Shape, Calls
<1>13. Fields'
  BY <1>10 DEF Fields, Calls
<1>. QED BY <1>5, <1>11, <1>12, <1>13 DEF IndInv

(* A call throws; only if it is not the first there is a VkDevice to free. *)
LEMMA ThrowKeeps ==
  ASSUME IndInv, Throw
  PROVE  IndInv'
<1>0. pc \in Calls
  BY FaultsAssumption DEF Throw, Calls
<1>1. /\ pc = "create" => UNCHANGED vkVars
      /\ pc # "create" => Release(obj[self])
      /\ pc' = IF purpose = "vector" /\ vector # <<>> THEN "unwind" ELSE "idle"
      /\ obj' = [obj EXCEPT ![self] = Null] /\ self' = Null /\ target' = Null
      /\ UNCHANGED <<families, vector, capacity, moved, shared, purpose>>
  BY DEF Throw, vectorVars
<1>2. /\ TypeOK /\ Shape /\ self \in Alive /\ Filled(pc, obj[self])
      /\ Alive \subseteq Objects /\ obj \in [Objects -> Device \cup {Null}]
      /\ vector \in Seq(Alive) /\ Len(vector) \in Nat
  BY <1>0, AliveIs, VectorIs DEF IndInv, Fields, Shape, TypeOK
<1>3. /\ Own' /\ Families' /\ NoneLeaked'
      /\ live' \subseteq Handles /\ pools' \subseteq Parts
      /\ orphans' \subseteq Parts
      /\ misuse' \subseteq {"dead device", "null pool"}
      /\ Alive' = Alive \ {self} /\ \A p \in Alive' : obj'[p] = obj[p]
      /\ obj' \in [Objects -> Device \cup {Null}]
  <2>1. CASE pc # "create"
    <3>1. obj[self].handle # Null
      BY <1>2, <2>1 DEF Filled
    <3>. QED BY <1>1, <1>2, <2>1, <3>1, Removed
  <2>2. CASE pc = "create"
    <3>1. /\ live' = live /\ pools' = pools /\ orphans' = orphans
          /\ misuse' = misuse
      BY <1>1, <2>2 DEF vkVars
    <3>2. /\ obj' \in [Objects -> Device \cup {Null}]
          /\ Alive' = Alive \ {self} /\ \A p \in Alive' : obj'[p] = obj[p]
      BY <1>1, <1>2 DEF Alive
    <3>3. AllSound'
      BY <1>1, <3>1, <3>2 DEF IndInv, Own, AllSound
    <3>4. NoneShared'
      BY <1>1, <3>1, <3>2 DEF IndInv, Own, NoneShared
    <3>5. NothingLost'
      BY <1>1, <3>1 DEF IndInv, Own, NothingLost
    <3>6. Families'
      BY <1>1, <3>2 DEF IndInv, Families
    <3>7. NoneLeaked'
      <4>1. obj[self].handle \notin live
        BY <1>2, <2>2, AliveIs DEF Filled
      <4>. QED BY <3>1, <3>2, <4>1 DEF IndInv, NoneLeaked
    <3>. QED BY <1>2, <3>1, <3>2, <3>3, <3>4, <3>5, <3>6, <3>7
             DEF Own, TypeOK
  <2>. QED BY <2>1, <2>2
<1>4. vector' \in Seq(Alive')
  <2>1. \A i \in 1 .. Len(vector) : vector[i] \in Alive'
    BY <1>2, <1>3, VectorIs DEF Shape
  <2>. QED BY <1>1, <1>2, <2>1
<1>5. \A p \in Alive' : Complete(obj'[p])
  BY <1>2, <1>3 DEF TypeOK
<1>6. pc' \in {"unwind", "idle"}
  BY <1>1
<1>7. TypeOK'
  BY <1>1, <1>2, <1>3, <1>4, <1>5, <1>6 DEF TypeOK
<1>8. Shape'
  <2>1. \A i \in DOMAIN vector' : vector'[i] # self'
    BY <1>1, <1>2, VectorIs, AliveIs
  <2>. QED BY <1>1, <1>2, <1>6, <2>1 DEF Shape, Calls
<1>9. Fields'
  BY <1>6 DEF Fields, Calls
<1>. QED BY <1>3, <1>7, <1>8, <1>9 DEF IndInv

(* Assignment: the target's VkDevice goes, and it has the copy's instead.  *)
LEMMA BuiltForAssignmentKeeps ==
  ASSUME IndInv, BuiltForAssignment
  PROVE  IndInv'
<1>1. /\ pc = "built" /\ purpose = "assign" /\ Release(obj[target])
      /\ obj' = [obj EXCEPT ![target] = obj[self], ![self] = Null]
      /\ pc' = "idle" /\ self' = Null /\ target' = Null
      /\ UNCHANGED <<families, vector, capacity, moved, shared, purpose>>
  BY DEF BuiltForAssignment, vectorVars
<1>2. /\ TypeOK /\ Shape /\ self \in Alive /\ target \in Alive \ {self}
      /\ Alive \subseteq Objects /\ obj \in [Objects -> Device \cup {Null}]
      /\ vector \in Seq(Alive) /\ Len(vector) \in Nat
  BY <1>1, AliveIs, VectorIs DEF IndInv, Shape, TypeOK, Calls
<1>3. \A o \in Alive : obj[o] \in Device /\ Complete(obj[o])
  BY <1>1, <1>2, AliveIs DEF TypeOK
<1>4. /\ obj' \in [Objects -> Device \cup {Null}]
      /\ Alive' = Alive \ {self} /\ obj'[target] = obj[self]
      /\ \A p \in Alive' \ {target} : obj'[p] = obj[p]
  <2>1. /\ obj' \in [Objects -> Device \cup {Null}]
        /\ obj'[target] = obj[self] /\ obj'[self] = Null
        /\ \A p \in Objects \ {self, target} : obj'[p] = obj[p]
    BY <1>1, <1>2, <1>3
  <2>2. Alive' = Alive \ {self}
    BY <1>2, <2>1 DEF Alive
  <2>. QED BY <1>2, <2>1, <2>2
<1>5. PICK from :
        from = [p \in Alive \ {self} |-> IF p = target THEN self ELSE p]
  OBVIOUS
<1>6. PICK gone \in Alive : gone = target
  BY <1>2
<1>7. /\ from \in [Alive' -> Alive \ {gone}]
      /\ \A p \in Alive' : obj'[p] = obj[from[p]]
      /\ \A p, q \in Alive' : from[p] = from[q] => p = q
  BY <1>2, <1>4, <1>5, <1>6
<1>8. \A r \in Alive \ {gone} : \E p \in Alive' : from[p] = r
  <2>1. ASSUME NEW r \in Alive \ {gone}
        PROVE  \E p \in Alive' : from[p] = r
    <3>1. CASE r = self
      BY <1>2, <1>4, <1>5, <3>1
    <3>2. CASE r # self
      BY <1>2, <1>4, <1>5, <1>6, <3>2
    <3>. QED BY <3>1, <3>2
  <2>. QED BY <2>1
<1>9. /\ Own' /\ Families' /\ NoneLeaked'
      /\ live' \subseteq Handles /\ pools' \subseteq Parts
      /\ orphans' \subseteq Parts
      /\ misuse' \subseteq {"dead device", "null pool"}
  <2>1. obj[gone].handle # Null
    BY <1>3, <1>6 DEF Complete
  <2>2. Release(obj[gone]) /\ shared' = shared /\ families' = families
    BY <1>1, <1>6
  <2>. QED BY <1>7, <1>8, <2>1, <2>2, Released
<1>10. vector' \in Seq(Alive')
  <2>1. \A i \in 1 .. Len(vector) : vector[i] \in Alive'
    BY <1>2, <1>4, VectorIs DEF Shape
  <2>. QED BY <1>1, <1>2, <2>1
<1>11. \A p \in Alive' : Complete(obj'[p])
  BY <1>2, <1>3, <1>4
<1>12. TypeOK'
  BY <1>1, <1>2, <1>4, <1>9, <1>10, <1>11 DEF TypeOK
<1>13. Shape'
  <2>1. \A i \in DOMAIN vector' : vector'[i] # self'
    BY <1>1, <1>2, VectorIs, AliveIs
  <2>. QED BY <1>1, <1>2, <2>1 DEF Shape, Calls
<1>14. Fields'
  BY <1>1 DEF Fields, Calls
<1>. QED BY <1>9, <1>12, <1>13, <1>14 DEF IndInv

(* A step that leaves the objects and what they own as they are.           *)
LEMMA ObjectsKept ==
  ASSUME IndInv, UNCHANGED <<families, vkVars, obj, shared>>
  PROVE  /\ Own' /\ Families' /\ NoneLeaked' /\ Alive' = Alive
         /\ live' = live /\ pools' = pools /\ orphans' = orphans
         /\ misuse' = misuse
<1>1. /\ families' = families /\ live' = live /\ pools' = pools
      /\ orphans' = orphans /\ misuse' = misuse /\ obj' = obj
      /\ shared' = shared
  BY DEF vkVars
<1>2. Alive' = Alive
  BY <1>1 DEF Alive
<1>3. AllSound'
  BY <1>1, <1>2 DEF IndInv, Own, AllSound
<1>4. NoneShared'
  BY <1>1, <1>2 DEF IndInv, Own, NoneShared
<1>5. NothingLost'
  <2>1. NothingLost /\ shared \in BOOLEAN
    BY DEF IndInv, Own, TypeOK
  <2>2. CASE shared
    BY <1>1, <2>2 DEF NothingLost
  <2>3. CASE ~shared
    BY <1>1, <2>1, <2>3 DEF NothingLost
  <2>. QED BY <2>2, <2>3
<1>6. Families'
  BY <1>1, <1>2 DEF IndInv, Families
<1>7. NoneLeaked'
  BY <1>1, <1>2 DEF IndInv, NoneLeaked
<1>. QED BY <1>1, <1>2, <1>3, <1>4, <1>5, <1>6, <1>7 DEF Own

LEMMA BuiltInVectorKeeps ==
  ASSUME IndInv, BuiltInVector
  PROVE  IndInv'
<1>1. /\ pc = "built" /\ purpose = "vector"
      /\ vector' = Append(vector, self) /\ self' = Null
      /\ UNCHANGED <<families, vkVars, obj, shared, purpose, target>>
      /\ \/ pc' = "next" /\ UNCHANGED <<capacity, moved>>
         \/ /\ capacity' \in (capacity + 1) .. PhysCount
            /\ pc' = IF vector = <<>> THEN "next" ELSE "relocate"
            /\ moved' = 0
  BY DEF BuiltInVector
<1>2. /\ TypeOK /\ Shape /\ self \in Alive /\ target = Null
      /\ vector \in Seq(Alive) /\ Len(vector) \in Nat
      /\ DOMAIN vector = 1 .. Len(vector)
      /\ Len(vector) < PhysCount
  BY <1>1, AliveIs, VectorIs DEF IndInv, Shape, TypeOK, Calls
<1>3. /\ Own' /\ Families' /\ NoneLeaked' /\ Alive' = Alive
      /\ live' = live /\ pools' = pools /\ orphans' = orphans
      /\ misuse' = misuse
  BY <1>1, ObjectsKept
<1>4. /\ vector' \in Seq(Alive) /\ Len(vector') = Len(vector) + 1
      /\ DOMAIN vector' = 1 .. (Len(vector) + 1)
      /\ vector'[Len(vector) + 1] = self
      /\ \A i \in 1 .. Len(vector) : vector'[i] = vector[i]
  BY <1>1, <1>2, AppendProperties
<1>5. capacity' \in 0 .. PhysCount /\ moved' \in 0 .. PhysCount
  <2>1. capacity \in 0 .. PhysCount /\ moved \in 0 .. PhysCount
    BY <1>2 DEF TypeOK
  <2>2. 0 \in 0 .. PhysCount
    BY DeviceHandlesAssumption
  <2>3. \A c \in (capacity + 1) .. PhysCount : c \in 0 .. PhysCount
    BY <2>1, DeviceHandlesAssumption
  <2>. QED BY <1>1, <2>1, <2>2, <2>3
<1>6. \A o \in Alive' : Complete(obj'[o])
  BY <1>1, <1>2, <1>3 DEF TypeOK
<1>7. pc' \in {"next", "relocate"}
  BY <1>1
<1>8. TypeOK'
  BY <1>1, <1>2, <1>3, <1>4, <1>5, <1>6, <1>7 DEF TypeOK
<1>9. Shape'
  <2>1. \A i \in DOMAIN vector' : vector'[i] # self'
    <3>1. \A i \in DOMAIN vector' : vector'[i] \in Alive
      BY <1>4
    <3>. QED BY <1>1, <1>2, <3>1, AliveIs
  <2>2. \A i, j \in DOMAIN vector' : vector'[i] = vector'[j] => i = j
    BY <1>2, <1>4 DEF Shape
  <2>3. Len(vector') <= PhysCount
    BY <1>2, <1>4, DeviceHandlesAssumption
  <2>4. pc' = "relocate" => moved' + 2 <= Len(vector')
    <3>1. SUFFICES ASSUME pc' = "relocate"
                   PROVE  moved' + 2 <= Len(vector')
      OBVIOUS
    <3>2. moved' = 0 /\ vector # <<>>
      BY <1>1, <3>1
    <3>3. Len(vector) # 0
      BY <1>2, <3>2
    <3>. QED BY <1>2, <1>4, <3>2, <3>3
  <2>. QED BY <1>1, <1>2, <1>7, <2>1, <2>2, <2>3, <2>4 DEF Shape, Calls
<1>10. Fields'
  BY <1>7 DEF Fields, Calls
<1>. QED BY <1>3, <1>8, <1>9, <1>10 DEF IndInv

LEMMA BuiltCopyKeeps ==
  ASSUME IndInv, BuiltCopy
  PROVE  IndInv'
<1>1. /\ pc = "built" /\ purpose = "copy" /\ pc' = "idle" /\ self' = Null
      /\ UNCHANGED <<families, vkVars, obj, vector, capacity, moved, shared,
                     purpose, target>>
  BY DEF BuiltCopy, vectorVars
<1>2. TypeOK /\ Shape /\ target = Null
  BY <1>1 DEF IndInv, Shape
<1>3. /\ Own' /\ Families' /\ NoneLeaked' /\ Alive' = Alive
      /\ live' = live /\ pools' = pools /\ orphans' = orphans
      /\ misuse' = misuse
  BY <1>1, ObjectsKept
<1>4. TypeOK'
  BY <1>1, <1>2, <1>3 DEF TypeOK
<1>5. Shape'
  <2>1. \A i \in DOMAIN vector' : vector'[i] # self'
    BY <1>1, <1>2, VectorIs, AliveIs
  <2>. QED BY <1>1, <1>2, <2>1 DEF Shape, Calls
<1>6. Fields'
  BY <1>1 DEF Fields, Calls
<1>. QED BY <1>3, <1>4, <1>5, <1>6 DEF IndInv

(* Instance::devices begins or returns, the client drops its vector.       *)
LEMMA VectorPhaseKeeps ==
  ASSUME IndInv, Devices \/ ReturnDevices \/ DropVector
  PROVE  IndInv'
<1>1. /\ pc \in {"idle", "next"} /\ pc' \in {"idle", "next", "unwind"}
      /\ pc' = "unwind" => vector # <<>>
      /\ UNCHANGED <<families, vkVars, obj, vector, capacity, moved, shared,
                     self, purpose, target>>
  BY DEF Devices, ReturnDevices, DropVector, vectorVars
<1>2. TypeOK /\ Shape /\ self = Null /\ target = Null
  BY <1>1, NobodyBuilds DEF IndInv, Calls
<1>3. /\ Own' /\ Families' /\ NoneLeaked' /\ Alive' = Alive
      /\ live' = live /\ pools' = pools /\ orphans' = orphans
      /\ misuse' = misuse
  BY <1>1, ObjectsKept
<1>4. TypeOK'
  BY <1>1, <1>2, <1>3 DEF TypeOK
<1>5. Shape'
  BY <1>1, <1>2 DEF Shape, Calls
<1>6. Fields'
  BY <1>1 DEF Fields, Calls
<1>. QED BY <1>3, <1>4, <1>5, <1>6 DEF IndInv

(* The vector grows: the moved-from element releases what the new one has. *)
LEMMA RelocateKeeps ==
  ASSUME IndInv, Relocate
  PROVE  IndInv'
<1> DEFINE o == vector[moved + 1]
<1>1. /\ pc = "relocate" /\ Release(obj[o]) /\ moved' = moved + 1
      /\ shared' = TRUE
      /\ pc' = IF moved + 2 = Len(vector) THEN "next" ELSE "relocate"
      /\ UNCHANGED <<families, obj, vector, capacity, self, purpose, target>>
  BY DEF Relocate
<1>2. /\ TypeOK /\ Shape /\ self = Null /\ target = Null
      /\ Len(vector) \in Nat /\ moved \in Nat
      /\ Len(vector) <= PhysCount /\ moved + 2 <= Len(vector)
  <2>1. TypeOK /\ Shape
    BY DEF IndInv
  <2>2. self = Null /\ target = Null
    BY <1>1, <2>1, NobodyBuilds DEF Calls
  <2>3. moved \in Nat
    <3>1. moved \in 0 .. PhysCount
      BY <2>1 DEF TypeOK
    <3>. QED BY <3>1, DeviceHandlesAssumption
  <2>4. Len(vector) <= PhysCount /\ moved + 2 <= Len(vector)
    BY <1>1, <2>1 DEF Shape
  <2>. QED BY <2>1, <2>2, <2>3, <2>4, VectorIs
<1>3. o \in Alive /\ obj[o] \in Device
  BY <1>2, VectorIs, AliveIs
<1>4. /\ live' = live \ {obj[o].handle}
      /\ pools' \subseteq pools /\ orphans' \subseteq Parts
      /\ misuse' \subseteq {"dead device", "null pool"}
  <2> HIDE DEF o
  <2>. QED BY <1>1, <1>2, <1>3, ReleaseStep
<1>5. live' \subseteq Handles /\ pools' \subseteq Parts /\ Alive' = Alive
  BY <1>1, <1>2, <1>4 DEF TypeOK, Alive
<1>6. moved' \in 0 .. PhysCount /\ pc' \in {"next", "relocate"}
  BY <1>1, <1>2, DeviceHandlesAssumption
<1>7. TypeOK'
  BY <1>1, <1>2, <1>4, <1>5, <1>6 DEF TypeOK
<1>8. Shape'
  <2>1. pc' = "relocate" => moved' + 2 <= Len(vector')
    BY <1>1, <1>2
  <2>. QED BY <1>1, <1>2, <1>6, <2>1 DEF Shape, Calls
<1>9. Fields'
  BY <1>6 DEF Fields, Calls
<1>10. Own'
  BY <1>1 DEF Own, AllSound, NoneShared, NothingLost
<1>11. Families'
  BY <1>1, <1>5 DEF IndInv, Families
<1>12. NoneLeaked'
  BY <1>1, <1>4, <1>5 DEF IndInv, NoneLeaked
<1>. QED BY <1>7, <1>8, <1>9, <1>10, <1>11, <1>12 DEF IndInv

LEMMA MoveConstructKeeps ==
  ASSUME IndInv, NEW o \in Objects, NEW new \in Objects,
         MoveConstruct(o, new)
  PROVE  IndInv'
<1>1. /\ pc = "idle" /\ o \in Alive /\ new \notin Alive
      /\ obj' = [obj EXCEPT ![new] = obj[o]] /\ shared' = TRUE
      /\ UNCHANGED <<families, live, pools, orphans, misuse, vector,
                     capacity, moved, pc, self, purpose, target>>
  BY DEF MoveConstruct, vkVars, ctorVars
<1>2. /\ TypeOK /\ Shape /\ self = Null /\ target = Null
      /\ obj \in [Objects -> Device \cup {Null}] /\ vector \in Seq(Alive)
      /\ Alive \subseteq Objects /\ obj[o] \in Device /\ obj[o] # Null
  BY <1>1, NobodyBuilds, AliveIs, DeviceHandlesAssumption
     DEF IndInv, Calls, TypeOK
<1>3. /\ obj' \in [Objects -> Device \cup {Null}]
      /\ obj'[new] = obj[o] /\ \A p \in Objects \ {new} : obj'[p] = obj[p]
  BY <1>1, <1>2
<1>4. Alive' = Alive \cup {new} /\ \A p \in Alive : obj'[p] = obj[p]
  BY <1>1, <1>2, <1>3 DEF Alive
<1>5. vector' \in Seq(Alive')
  BY <1>1, <1>2, <1>4
<1>6. \A p \in Alive' : Complete(obj'[p])
  BY <1>1, <1>2, <1>3, <1>4, AliveIs DEF TypeOK
<1>7. TypeOK'
  BY <1>1, <1>2, <1>3, <1>4, <1>5, <1>6 DEF TypeOK
<1>8. Shape'
  BY <1>1, <1>2 DEF Shape
<1>9. Fields'
  BY <1>1 DEF Fields, Calls
<1>10. Own'
  BY <1>1 DEF Own, AllSound, NoneShared, NothingLost
<1>11. Families'
  BY <1>1, <1>3, <1>4 DEF IndInv, Families
<1>12. NoneLeaked'
  BY <1>1, <1>4 DEF IndInv, NoneLeaked
<1>. QED BY <1>7, <1>8, <1>9, <1>10, <1>11, <1>12 DEF IndInv

(* swap: each object has what the other had.                               *)
LEMMA SwapKeeps ==
  ASSUME IndInv, NEW o \in Objects, NEW other \in Objects, Swap(o, other)
  PROVE  IndInv'
<1>1. /\ pc = "idle" /\ o \in Alive /\ other \in Alive
      /\ obj' = [obj EXCEPT ![o] = obj[other], ![other] = obj[o]]
      /\ UNCHANGED <<families, live, pools, orphans, misuse, vector,
                     capacity, moved, shared, pc, self, purpose, target>>
  BY DEF Swap, vkVars, vectorVars, ctorVars
<1>2. /\ TypeOK /\ Shape /\ self = Null /\ target = Null
  BY <1>1, NobodyBuilds DEF IndInv, Calls
<1>3. /\ obj \in [Objects -> Device \cup {Null}] /\ Alive \subseteq Objects
      /\ \A p \in Alive : obj[p] \in Device /\ Complete(obj[p])
  BY <1>2, AliveIs DEF TypeOK
<1>4. /\ obj' \in [Objects -> Device \cup {Null}]
      /\ obj'[o] = obj[other] /\ obj'[other] = obj[o]
      /\ \A p \in Objects \ {o, other} : obj'[p] = obj[p]
  BY <1>1, <1>3
<1>5. Alive' = Alive
  BY <1>1, <1>3, <1>4 DEF Alive
<1>6. PICK from : from = [p \in Alive |-> IF p = o THEN other
                                         ELSE IF p = other THEN o ELSE p]
  OBVIOUS
<1>7. /\ from \in [Alive -> Alive]
      /\ \A p \in Alive : obj'[p] = obj[from[p]]
      /\ \A p, q \in Alive : from[p] = from[q] => p = q
      /\ \A r \in Alive : from[from[r]] = r
  BY <1>1, <1>3, <1>4, <1>6
<1>8. TypeOK'
  <2>1. \A p \in Alive' : Complete(obj'[p])
    BY <1>3, <1>5, <1>7
  <2>. QED BY <1>1, <1>2, <1>4, <1>5, <2>1 DEF TypeOK
<1>9. Shape'
  BY <1>1, <1>2 DEF Shape
<1>10. Fields'
  BY <1>1 DEF Fields, Calls
<1>11. AllSound'
  <2>1. SUFFICES ASSUME ~shared, NEW p \in Alive, obj'[p].handle # Null
                 PROVE  Sound(obj'[p], live, pools)
    BY <1>1, <1>5 DEF AllSound
  <2>2. PICK r \in Alive : obj'[p] = obj[r]
    BY <1>7
  <2>. QED BY <2>1, <2>2 DEF IndInv, Own, AllSound
<1>12. NoneShared'
  <2>1. SUFFICES ASSUME ~shared, NEW p \in Alive, NEW q \in Alive,
                        obj'[p].handle # Null,
                        obj'[p].handle = obj'[q].handle
                 PROVE  p = q
    BY <1>1, <1>5 DEF NoneShared
  <2>2. from[p] = from[q]
    BY <1>7, <2>1 DEF IndInv, Own, NoneShared
  <2>. QED BY <1>7, <2>2
<1>13. NothingLost'
  <2>1. NothingLost
    BY DEF IndInv, Own
  <2>. QED BY <1>1, <2>1 DEF NothingLost
<1>14. Families'
  <2>1. SUFFICES ASSUME NEW p \in Alive
                 PROVE  LET list == families[obj'[p].phy_device]
                        IN /\ obj'[p].cmp_family_id
                                = GetFamilyID(list, QueueFlags.compute)
                           /\ obj'[p].tfr_family_id
                                = GetFamilyID(list, QueueFlags.transfer)
    BY <1>1, <1>5 DEF Families
  <2>2. PICK r \in Alive : obj'[p] = obj[r]
    BY <1>7
  <2>. QED BY <2>2 DEF IndInv, Families
<1>15. NoneLeaked'
  <2>1. SUFFICES ASSUME NEW k \in live
                 PROVE  \E p \in Alive : obj'[p].handle = k
    BY <1>1, <1>5 DEF NoneLeaked
  <2>2. PICK r \in Alive : obj[r].handle = k
    BY <2>1 DEF IndInv, NoneLeaked
  <2>3. from[r] \in Alive /\ obj'[from[r]] = obj[r]
    BY <1>7
  <2>. QED BY <2>2, <2>3
<1>. QED BY <1>8, <1>9, <1>10, <1>11, <1>12, <1>13, <1>14, <1>15
         DEF IndInv, Own

-----------------------------------------------------------------------------
LEMMA InitIndInv == Init => IndInv
<1>1. SUFFICES ASSUME Init PROVE IndInv
  OBVIOUS
<1>2. Alive = {} /\ vector = <<>> /\ Len(vector) = 0 /\ DOMAIN vector = {}
  BY <1>1 DEF Init, Alive
<1>3. TypeOK
  <2>1. capacity \in 0 .. PhysCount /\ moved \in 0 .. PhysCount
    BY <1>1, DeviceHandlesAssumption DEF Init
  <2>2. vector \in Seq(Alive)
    BY <1>2
  <2>. QED BY <1>1, <1>2, <2>1, <2>2 DEF Init, TypeOK
<1>4. Shape
  BY <1>1, <1>2, DeviceHandlesAssumption DEF Init, Shape, Calls
<1>5. Fields /\ Families /\ NoneLeaked
  BY <1>1, <1>2 DEF Init, Fields, Calls, Families, NoneLeaked
<1>6. Own
  BY <1>1, <1>2 DEF Init, Own, AllSound, NoneShared, NothingLost
<1>. QED BY <1>3, <1>4, <1>5, <1>6 DEF IndInv

LEMMA StutterKeeps ==
  ASSUME IndInv, UNCHANGED vars
  PROVE  IndInv'
<1>1. UNCHANGED <<families, vkVars, obj, vector, capacity, moved, shared,
                  pc, self, purpose, target>>
  BY DEF vars, vectorVars, ctorVars
<1>2. TypeOK /\ Shape /\ Fields
  BY DEF IndInv
<1>3. /\ Own' /\ Families' /\ NoneLeaked' /\ Alive' = Alive
      /\ live' = live /\ pools' = pools /\ orphans' = orphans
      /\ misuse' = misuse
  BY <1>1, ObjectsKept
<1>4. TypeOK'
  BY <1>1, <1>2, <1>3 DEF TypeOK
<1>5. Shape'
  BY <1>1, <1>2 DEF Shape
<1>6. Fields'
  BY <1>1, <1>2 DEF Fields
<1>. QED BY <1>3, <1>4, <1>5, <1>6 DEF IndInv

LEMMA StepIndInv == IndInv /\ [Next]_vars => IndInv'
<1>1. SUFFICES ASSUME IndInv, [Next]_vars PROVE IndInv'
  OBVIOUS
<1>2. CASE Constructor
  BY <1>1, <1>2, CreateDeviceKeeps, CreateComputePoolKeeps,
     AllocComputeBufferKeeps, CreateTransferPoolKeeps,
     AllocTransferBufferKeeps, BuiltInVectorKeeps, BuiltCopyKeeps,
     BuiltForAssignmentKeeps, ThrowKeeps DEF Constructor
<1>3. CASE Enumeration
  BY <1>1, <1>3, VectorPhaseKeeps, EmplaceBackKeeps, RelocateKeeps,
     UnwindKeeps DEF Enumeration
<1>4. CASE Client
  BY <1>1, <1>4, CopyKeeps, MoveConstructKeeps, AssignKeeps, SwapKeeps,
     DestroyKeeps DEF Client
<1>5. CASE UNCHANGED vars
  BY <1>1, <1>5, StutterKeeps
<1>. QED BY <1>1, <1>2, <1>3, <1>4, <1>5 DEF Next

THEOREM Inductive == Spec => []IndInv
BY InitIndInv, StepIndInv, PTL DEF Spec

(* Every state has the shape TypeOK gives it: a Device whose constructor   *)
(* has completed has its VkDevice, its pools and its buffers.              *)
THEOREM TypeCorrect == Spec => []TypeOK
<1>1. IndInv => TypeOK
  BY DEF IndInv
<1>. QED BY <1>1, Inductive, PTL

(* No VkDevice leaks, whatever is copied, assigned, swapped or moved,      *)
(* however a vector grows, and whichever call throws.                      *)
THEOREM NoDeviceLeaks == Spec => []NoneLeaked
<1>1. IndInv => NoneLeaked
  BY DEF IndInv
<1>. QED BY <1>1, Inductive, PTL

(* As long as no Device was move constructed, each complete one is the     *)
(* only owner of its VkDevice and pools, and is released in order.         *)
THEOREM OwnedAlone == Spec => []SoleOwner
<1>1. IndInv => SoleOwner
  <2>1. SUFFICES ASSUME IndInv, ~shared PROVE
          /\ \A o \in Alive \ {self} :
               /\ obj[o].handle \in live
               /\ \A p \in Alive \ {o} : obj[p].handle # obj[o].handle
               /\ {obj[o].compute_cmd_pool, obj[o].transfer_cmd_pool}
                    \subseteq pools
               /\ obj[o].compute_cmd_pool = obj[o].transfer_cmd_pool
                    <=> obj[o].cmp_family_id = obj[o].tfr_family_id
          /\ orphans = {} /\ "dead device" \notin misuse
    BY DEF SoleOwner
  <2>2. orphans = {} /\ "dead device" \notin misuse
    BY <2>1 DEF IndInv, Own, NothingLost
  <2>3. ASSUME NEW o \in Alive \ {self}
        PROVE  /\ obj[o].handle \in live
               /\ \A p \in Alive \ {o} : obj[p].handle # obj[o].handle
               /\ {obj[o].compute_cmd_pool, obj[o].transfer_cmd_pool}
                    \subseteq pools
               /\ obj[o].compute_cmd_pool = obj[o].transfer_cmd_pool
                    <=> obj[o].cmp_family_id = obj[o].tfr_family_id
    <3>1. /\ obj[o].handle # Null /\ obj[o].compute_cmd_pool # Null
          /\ obj[o].transfer_cmd_pool # Null
      BY <2>1 DEF IndInv, TypeOK, Complete
    <3>2. Sound(obj[o], live, pools)
      BY <2>1, <3>1 DEF IndInv, Own, AllSound
    <3>3. \A p \in Alive \ {o} : obj[p].handle # obj[o].handle
      BY <2>1, <3>1 DEF IndInv, Own, NoneShared
    <3>. QED BY <3>1, <3>2, <3>3 DEF Sound
  <2>. QED BY <2>2, <2>3
<1>. QED BY <1>1, Inductive, PTL

(* A Device works with families that have the flag they were chosen for,   *)
(* and no family that has it could do less beside; or with no family where *)
(* none has the flag.                                                      *)
THEOREM FamiliesMostSpecialised == Spec => []MostSpecialised
<1>1. ASSUME NEW list \in FamilyLists,
             NEW bit \in {QueueFlags.compute, QueueFlags.transfer}
      PROVE  \/ Best(GetFamilyID(list, bit), list, bit)
             \/ GetFamilyID(list, bit) = NoFamily /\ Nowhere(list, bit)
  <2>1. PICK i : i = GetFamilyID(list, bit)
    OBVIOUS
  <2>2. CASE \E j \in DOMAIN list : Has(list[j], bit)
    <3>1. /\ i \in DOMAIN list /\ Has(list[i], bit)
          /\ \A j \in DOMAIN list : Has(list[j], bit) => list[i] <= list[j]
      BY <2>1, <2>2, FamilyFound
    <3>2. \A j \in DOMAIN list : list[j] \in FlagWords /\ list[j] \in Nat
      <4>1. list \in Seq(FlagWords) /\ \A f \in FlagWords : f \in Nat
        BY DeviceHandlesAssumption DEF FlagWords
      <4>2. DOMAIN list = 1 .. Len(list) /\ Len(list) \in Nat
        BY <4>1
      <4>3. \A j \in DOMAIN list : list[j] \in FlagWords
        BY <4>1, <4>2
      <4>. QED BY <4>1, <4>3
    <3>3. ASSUME NEW j \in DOMAIN list, Has(list[j], bit),
                 SubFlags(list[j], list[i])
          PROVE  list[j] = list[i]
      <4>1. list[j] <= list[i]
        BY <3>1, <3>2, <3>3, FewerFlags
      <4>2. list[i] <= list[j] /\ list[i] \in Nat /\ list[j] \in Nat
        BY <3>1, <3>2, <3>3
      <4>. QED BY <4>1, <4>2
    <3>. QED BY <2>1, <3>1, <3>3 DEF Best
  <2>3. CASE ~ \E j \in DOMAIN list : Has(list[j], bit)
    BY <2>3 DEF GetFamilyID, Nowhere
  <2>. QED BY <2>2, <2>3
<1>2. IndInv => MostSpecialised
  <2>1. SUFFICES ASSUME IndInv PROVE MostSpecialised
    OBVIOUS
  <2>2. ASSUME NEW o \in Alive
        PROVE  /\ families[obj[o].phy_device] \in FamilyLists
               /\ obj[o].cmp_family_id
                    = GetFamilyID(families[obj[o].phy_device],
                                  QueueFlags.compute)
               /\ obj[o].tfr_family_id
                    = GetFamilyID(families[obj[o].phy_device],
                                  QueueFlags.transfer)
    BY <2>1, AliveIs, DeviceFields, FamiliesAre DEF IndInv, Families
  <2>3. QueueFlags.compute \in {QueueFlags.compute, QueueFlags.transfer}
    OBVIOUS
  <2>4. QueueFlags.transfer \in {QueueFlags.compute, QueueFlags.transfer}
    OBVIOUS
  <2>. QED BY <1>1, <2>2, <2>3, <2>4 DEF MostSpecialised
<1>. QED BY <1>2, Inductive, PTL

=============================================================================
