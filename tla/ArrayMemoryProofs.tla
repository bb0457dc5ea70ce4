-------------------------- MODULE ArrayMemoryProofs -------------------------
(***************************************************************************)
(* Proofs about ArrayMemory, for any set of arrays of any kinds and any    *)
(* memory types: the type invariant, and what a constructor, a move and a  *)
(* destructor leave behind.                                                *)
(***************************************************************************)
EXTENDS ArrayMemory, WellFoundedInduction, TLAPS

-----------------------------------------------------------------------------
(* The parts of the inductive invariant.                                   *)

(* A constructor in progress has a buffer and is not yet an array.         *)
Building ==
  /\ pc = "idle" <=> self = Null
  /\ pc # "idle" => /\ self \in Arrays \ alive
                    /\ buffer[self] # Null
                    /\ Kind[self] \in frames
                    /\ Kind[self] \in HostKinds => frames \subseteq HostKinds

(* What is not an array has nothing.                                       *)
Dormant ==
  \A a \in Arrays : a \notin alive =>
    /\ a \notin data_
    /\ a # self => buffer[a] = Null /\ mem_[a] = Null

(* The type that suits the kind of array a does not exist or is refused.   *)
Gone(a) == FirstChoice(a, Kind[a]) \in refused[a] \cup {NoType}

(* The memory of array a would be justified if it had type t.              *)
Justified(a, t) ==
  \/ t = FirstChoice(a, Kind[a])
  \/ /\ Gone(a)
     /\ Fallback[Kind[a]] # "void"
     /\ t = FirstChoice(a, Fallback[Kind[a]])

Suits(a, t) ==
  /\ t \in Types
  /\ t \in type_bits[buffer[a]]
  /\ want[a] \subseteq property_flags[t]
  /\ Kind[a] \in HostKinds => "hostVisible" \in property_flags[t]
  /\ Justified(a, t)

(* A search has no memory yet; what it has found suits the array.          *)
Searching ==
  /\ pc \in {"find", "allocate"} =>
       /\ mem_[self] = Null /\ level \in Kinds /\ level \in frames
       /\ level = Kind[self] \/ level = Fallback[Kind[self]]
  /\ pc = "find" =>
       /\ probe \in Kinds
       /\ \/ probe = Kind[self]
          \/ probe = Fallback[Kind[self]] /\ Gone(self)
  /\ pc = "allocate" => Suits(self, mem_id[level])
  /\ pc \in {"bind", "map"} => mem_[self] # Null
  /\ pc = "map" => Kind[self] \in HostKinds

(* An array, or a constructor, that has memory: it suits and flags_ tell.  *)
Has(a) == buffer[a] # Null /\ mem_[a] # Null
Holding ==
  \A a \in Arrays :
    /\ Has(a) => Suits(a, TypeOf(a)) /\ flags_[a] = property_flags[TypeOf(a)]
    /\ a \in alive /\ buffer[a] # Null => mem_[a] # Null
    /\ buffer[a] # Null => type_bits[buffer[a]] # {}

(* Nothing has two owners.                                                 *)
Single ==
  \A a, b \in Arrays : a # b =>
    /\ buffer[a] # Null => buffer[a] # buffer[b]
    /\ Has(a) /\ Has(b) => mem_[a] # mem_[b]

(* Everything has an owner.                                                *)
Owned ==
  /\ \A h \in Buffers : type_bits[h] # {} => \E a \in Arrays : buffer[a] = h
  /\ \A m \in Memories : mem_type[m] # NoType =>
       \E a \in Arrays : Has(a) /\ mem_[a] = m

(* The mapped memory is that of the HostArrays that have not been moved.   *)
Mapping ==
  /\ mapped = {mem_[a] : a \in data_}
  /\ \A a \in data_ : a \in alive /\ buffer[a] # Null /\ Kind[a] \in HostKinds

IndInv ==
  /\ TypeOK
  /\ Building
  /\ Dormant
  /\ Searching
  /\ Holding
  /\ Single
  /\ Owned
  /\ Mapping

-----------------------------------------------------------------------------
(* A set of naturals that is not empty has a least element.                *)
LEMMA LeastExists ==
  ASSUME NEW S \in SUBSET Nat, S # {}
  PROVE  \E i \in S : \A j \in S : i <= j
<1> DEFINE R == {ss \in Nat \X Nat : ss[1] < ss[2]}
<1>1. IsWellFoundedOn(R, Nat)
  BY NatLessThanWellFounded, Zenon DEF OpToRel
<1>2. PICK i \in S : \A j \in S : <<j, i>> \notin R
  <2> HIDE DEF R
  <2> QED
    BY <1>1, WFMin, Zenon
<1>3. \A j \in S : i <= j
  <2> TAKE j \in S
  <2>1. <<j, i>> \in Nat \X Nat /\ <<j, i>>[1] = j /\ <<j, i>>[2] = i
    OBVIOUS
  <2>2. ~ (j < i)
    BY <1>2, <2>1, Zenon
  <2> QED
    BY <2>2
<1> QED
  BY <1>3

(* selectMemory finds a type that fits, if there is one.                   *)
LEMMA Selected ==
  ASSUME NEW bits \in SUBSET Types, NEW F
  PROVE  /\ SelectMemory(bits, F) # NoType => SelectMemory(bits, F) \in Fits(bits, F)
         /\ SelectMemory(bits, F) = NoType => Fits(bits, F) = {}
<1>1. CASE Fits(bits, F) = {}
  BY <1>1 DEF SelectMemory
<1>2. CASE Fits(bits, F) # {}
  <2>1. Fits(bits, F) \subseteq Types /\ Types \subseteq Nat
    <3>1. Fits(bits, F) \subseteq bits
      BY DEF Fits
    <3>2. Types \subseteq Nat
      BY MemoryAssumption DEF Types
    <3> QED
      BY <3>1, <3>2
  <2>2. \E i \in Fits(bits, F) : \A j \in Fits(bits, F) : i <= j
    BY <1>2, <2>1, LeastExists
  <2>3. SelectMemory(bits, F) \in Fits(bits, F)
    BY <1>2, <2>2 DEF SelectMemory, Min
  <2> QED
    BY <2>1, <2>3 DEF NoType
<1> QED
  BY <1>1, <1>2

(* The tables of array::properties: a fallback is a kind without fallback, *)
(* of a host kind a host kind; host kinds are all host visible.            *)
LEMMA Chain ==
  /\ \A k \in Kinds : /\ PropsMemory[k] \in SUBSET Flags
                      /\ Fallback[k] \in Kinds \cup {"void"}
  /\ \A k \in HostKinds : /\ "hostVisible" \in PropsMemory[k]
                          /\ Fallback[k] \in HostKinds \cup {"void"}
  /\ \A k \in Kinds : Fallback[k] # "void" => Fallback[Fallback[k]] = "void"
  /\ HostKinds \subseteq Kinds
  /\ "void" \notin Kinds
BY DEF Kinds, HostKinds, PropsMemory, Fallback, Flags

(* What an array may be given follows from its buffer, its kind and what   *)
(* was asked and refused; b has it after the step from a.                  *)
LEMMA SameChoices ==
  ASSUME NEW a \in Arrays, NEW b \in Arrays, Kind[b] = Kind[a],
         property_flags' = property_flags, want'[b] = want[a],
         refused'[b] = refused[a],
         type_bits'[buffer'[b]] = type_bits[buffer[a]]
  PROVE  /\ Gone(b)' <=> Gone(a)
         /\ \A t : Suits(b, t)' <=> Suits(a, t)
<1>1. ASSUME NEW k PROVE FirstChoice(b, k)' = FirstChoice(a, k)
  BY DEF FirstChoice, SelectMemory, Fits
<1>2. Gone(b)' <=> Gone(a)
  BY <1>1 DEF Gone
<1>3. \A t : Justified(b, t)' <=> Justified(a, t)
  BY <1>1, <1>2 DEF Justified
<1> QED
  BY <1>2, <1>3 DEF Suits

LEMMA SuitsFrame ==
  ASSUME UNCHANGED <<property_flags, type_bits, buffer, want, refused>>
  PROVE  /\ \A a \in Arrays : Gone(a)' <=> Gone(a)
         /\ \A a \in Arrays : \A t : Suits(a, t)' <=> Suits(a, t)
BY SameChoices

-----------------------------------------------------------------------------
THEOREM IndInvInit == Init => IndInv
<1> SUFFICES ASSUME Init PROVE IndInv
  OBVIOUS
<1> USE MemoryAssumption DEF Init
<1>1. TypeOK
  BY DEF TypeOK
<1>2. Building /\ Dormant /\ Searching
  BY DEF Building, Dormant, Searching
<1>3. Holding /\ Single /\ Owned /\ Mapping
  BY DEF Holding, Single, Owned, Mapping, Has
<1> QED
  BY <1>1, <1>2, <1>3 DEF IndInv

(* A constructor begins: its buffer is new.                                *)
LEMMA IndInvConstruct ==
  ASSUME IndInv, NEW a \in Arrays, NEW properties \in Wanted,
         Construct(a, properties)
  PROVE  IndInv'
<1> USE MemoryAssumption DEF IndInv
<1>1. PICK h \in Buffers, bits \in (SUBSET Types) \ {{}} :
        /\ type_bits[h] = {}
        /\ type_bits' = [type_bits EXCEPT ![h] = bits]
        /\ buffer' = [buffer EXCEPT ![a] = h]
  BY DEF Construct
<1>2. /\ pc = "idle" /\ pc' = "find"
      /\ a \notin alive /\ self = Null /\ self' = a
      /\ want' = [want EXCEPT ![a] = properties]
      /\ refused' = [refused EXCEPT ![a] = {}]
      /\ frames' = {Kind[a]} /\ level' = Kind[a] /\ probe' = Kind[a]
      /\ UNCHANGED <<property_flags, mem_type, mapped, alive, mem_, flags_,
                     data_, mem_id>>
  BY DEF Construct, Building
<1>3. buffer[a] = Null /\ mem_[a] = Null /\ Kind[a] \in Kinds /\ h # Null
  BY <1>2 DEF Dormant
<1>4. \A b \in Arrays : b # a =>
        /\ buffer'[b] = buffer[b]
        /\ buffer[b] # Null => type_bits'[buffer[b]] = type_bits[buffer[b]]
        /\ want'[b] = want[b] /\ refused'[b] = refused[b]
        /\ buffer[b] # h
  BY <1>1, <1>2 DEF TypeOK, Holding
<1>5. TypeOK'
  BY <1>1, <1>2, <1>3 DEF TypeOK
<1>6. Building' /\ Dormant'
  BY <1>1, <1>2, <1>3 DEF Building, Dormant, TypeOK
<1>7. Searching'
  BY <1>1, <1>2, <1>3 DEF Searching, HostKinds
<1>8. Holding'
  <2>1. mem_'[a] = Null /\ a \notin alive'
    BY <1>2, <1>3
  <2>2. buffer'[a] = h /\ type_bits'[h] # {}
    <3>1. bits # {}
      OBVIOUS
    <3>2. buffer'[a] = h /\ type_bits'[h] = bits
      BY <1>1 DEF TypeOK
    <3> QED
      BY <3>1, <3>2
  <2>3. \A b \in Arrays : b # a /\ Has(b)' =>
          Suits(b, TypeOf(b))' /\ flags_'[b] = property_flags'[TypeOf(b)']
    <3> TAKE b \in Arrays
    <3> HAVE b # a /\ Has(b)'
    <3>1. Has(b) /\ TypeOf(b)' = TypeOf(b) /\ flags_'[b] = flags_[b]
      BY <1>2, <1>4 DEF Has, TypeOf
    <3>2. Suits(b, TypeOf(b))' <=> Suits(b, TypeOf(b))
      BY <1>2, <1>4, <3>1, SameChoices DEF Has
    <3> QED
      BY <1>2, <3>1, <3>2 DEF Holding
  <2>4. \A b \in Arrays : b # a =>
          /\ b \in alive' /\ buffer'[b] # Null => mem_'[b] # Null
          /\ buffer'[b] # Null => type_bits'[buffer'[b]] # {}
    BY <1>2, <1>4 DEF Holding
  <2> QED
    BY <2>1, <2>2, <2>3, <2>4 DEF Holding, Has
<1>9. Single'
  BY <1>1, <1>2, <1>3, <1>4 DEF Single, Has, TypeOK
<1>10. Owned'
  <2>1. \A k \in Buffers : type_bits'[k] # {} => \E b \in Arrays : buffer'[b] = k
    BY <1>1, <1>3, <1>4 DEF Owned, TypeOK
  <2>2. \A m \in Memories : mem_type'[m] # NoType =>
          \E b \in Arrays : Has(b)' /\ mem_'[b] = m
    BY <1>2, <1>3, <1>4 DEF Owned, Has
  <2> QED
    BY <2>1, <2>2 DEF Owned
<1>11. Mapping'
  BY <1>2, <1>4 DEF Mapping, TypeOK
<1> QED
  BY ONLY <1>5, <1>6, <1>7, <1>8, <1>9, <1>10, <1>11 DEF IndInv


(* One level of the search.                                                *)
LEMMA IndInvFind ==
  ASSUME IndInv, FindMemory
  PROVE  IndInv'
<1> USE MemoryAssumption DEF IndInv
<1>0. PICK id : id = SelectMemory(type_bits[buffer[self]],
                                  PropsMemory[probe] \cup want[self])
  OBVIOUS
<1>1. /\ pc = "find"
      /\ UNCHANGED <<property_flags, deviceVars, arrayVars, self, frames,
                     level>>
      /\ \/ /\ id # NoType
            /\ mem_id' = [mem_id EXCEPT ![level] = id]
            /\ pc' = "allocate" /\ probe' = probe
         \/ /\ id = NoType
            /\ probe' = Fallback[probe] /\ mem_id' = mem_id
            /\ pc' = IF Fallback[probe] = "void" THEN "throw" ELSE "find"
  BY <1>0 DEF FindMemory
<1>2. /\ self \in Arrays /\ buffer[self] \in Buffers /\ probe \in Kinds
      /\ level \in Kinds /\ type_bits[buffer[self]] \in SUBSET Types
  BY <1>1 DEF Building, Searching, TypeOK
<1>3. /\ id # NoType => id \in Fits(type_bits[buffer[self]],
                                    PropsMemory[probe] \cup want[self])
      /\ id = NoType => Fits(type_bits[buffer[self]],
                             PropsMemory[probe] \cup want[self]) = {}
  BY <1>0, <1>2, Selected
<1>4. Holding' /\ Single' /\ Owned' /\ Mapping'
  BY <1>1, SuitsFrame DEF Holding, Single, Owned, Mapping, Has, TypeOf,
       deviceVars, arrayVars
<1>5. Building' /\ Dormant'
  BY <1>1 DEF Building, Dormant, arrayVars
<1>6. CASE id # NoType
  <2>1. id \in Types
    BY <1>2, <1>3, <1>6 DEF Fits
  <2>2. mem_id'[level] = id /\ level' = level /\ pc' = "allocate"
    BY <1>1, <1>2, <1>6 DEF TypeOK
  <2>3. TypeOK'
    BY <1>1, <1>6, <2>1, <2>2 DEF TypeOK, deviceVars, arrayVars
  <2>4. Suits(self, id)
    <3>1. /\ id \in type_bits[buffer[self]]
          /\ PropsMemory[probe] \cup want[self] \subseteq property_flags[id]
      BY <1>3, <1>6 DEF Fits
    <3>2. Kind[self] \in HostKinds => "hostVisible" \in property_flags[id]
      BY <1>1, <1>2, <3>1, Chain DEF Searching, HostKinds
    <3>3. Justified(self, id)
      <4>1. id = FirstChoice(self, probe)
        BY <1>0 DEF FirstChoice
      <4> QED
        BY <1>1, <1>2, <4>1, Chain DEF Searching, Justified
    <3> QED
      BY <2>1, <3>1, <3>2, <3>3 DEF Suits
  <2>5. Suits(self, id)'
    BY <1>1, <1>2, <2>4, SuitsFrame DEF deviceVars, arrayVars
  <2>6. Searching'
    BY <1>1, <2>2, <2>5 DEF Searching, arrayVars
  <2> QED
    BY <1>4, <1>5, <2>3, <2>6
<1>7. CASE id = NoType
  <2>1. TypeOK'
    BY <1>1, <1>2, <1>7, Chain DEF TypeOK, deviceVars, arrayVars
  <2>2. Gone(self)
    BY <1>0, <1>1, <1>7 DEF Searching, Gone, FirstChoice
  <2>3. Gone(self)'
    BY <1>1, <1>2, <2>2, SuitsFrame DEF deviceVars, arrayVars
  <2>4. Fallback[probe] # "void" => probe = Kind[self]
    BY <1>1, <1>2, Chain DEF Searching
  <2>5. Searching'
    BY <1>1, <1>2, <1>7, <2>3, <2>4, Chain DEF Searching, arrayVars
  <2> QED
    BY <1>4, <1>5, <2>1, <2>5
<1> QED
  BY <1>6, <1>7

(* The innermost call gets memory that is new.                             *)
LEMMA IndInvAllocate ==
  ASSUME IndInv, AllocateMemory
  PROVE  IndInv'
<1> USE MemoryAssumption DEF IndInv
<1>0. PICK t : t = mem_id[level]
  OBVIOUS
<1>1. PICK m \in Memories :
        /\ mem_type[m] = NoType
        /\ mem_type' = [mem_type EXCEPT ![m] = t]
        /\ mem_' = [mem_ EXCEPT ![self] = m]
  BY <1>0 DEF AllocateMemory
<1>2. /\ pc = "allocate" /\ pc' = "bind"
      /\ mem_id' = [k \in Kinds |-> IF k \in frames THEN t ELSE mem_id[k]]
      /\ flags_' = [flags_ EXCEPT ![self] = property_flags[mem_id'[Kind[self]]]]
      /\ UNCHANGED <<property_flags, type_bits, mapped, alive, buffer, data_,
                     want, refused, self, frames, level, probe>>
  BY <1>0 DEF AllocateMemory
<1>3. /\ self \in Arrays /\ self \notin alive /\ buffer[self] # Null
      /\ mem_[self] = Null /\ Kind[self] \in frames /\ Kind[self] \in Kinds
      /\ level \in Kinds /\ level \in frames /\ t \in Types /\ Suits(self, t)
      /\ m # Null /\ self \notin data_
  BY <1>0, <1>2 DEF Building, Searching, Dormant, TypeOK
<1>4. mem_id'[Kind[self]] = t /\ mem_id'[level] = t
  BY <1>2, <1>3
<1>5. mem_'[self] = m /\ mem_type'[m] = t /\ flags_'[self] = property_flags[t]
  BY <1>1, <1>2, <1>3, <1>4 DEF TypeOK
<1>6. \A b \in Arrays : b # self =>
        /\ mem_'[b] = mem_[b] /\ flags_'[b] = flags_[b]
        /\ Has(b) => mem_[b] # m /\ mem_type'[mem_[b]] = mem_type[mem_[b]]
  <2>1. \A b \in Arrays : Has(b) =>
          mem_[b] \in Memories /\ mem_type[mem_[b]] \in Types
    BY DEF Holding, Suits, TypeOf, Has, TypeOK
  <2> QED
    BY <1>1, <1>2, <1>3, <2>1 DEF TypeOK, NoType, Types
<1>7. TypeOK'
  BY <1>1, <1>2, <1>3, <1>4 DEF TypeOK
<1>8. Building' /\ Dormant' /\ Searching'
  BY <1>2, <1>3, <1>5, <1>6 DEF Building, Dormant, Searching
<1>9. Holding'
  <2>1. Suits(self, t)'
    BY <1>2, <1>3, SuitsFrame
  <2>2. \A b \in Arrays : b # self /\ Has(b) => Suits(b, TypeOf(b))'
    BY <1>2, <1>6, SuitsFrame DEF Holding, TypeOf
  <2> QED
    BY <1>2, <1>3, <1>5, <1>6, <2>1, <2>2 DEF Holding, Has, TypeOf
<1>10. Single'
  BY <1>2, <1>5, <1>6 DEF Single, Has
<1>11. Owned'
  <2>1. \A b \in Arrays : Has(b) => b # self /\ Has(b)' /\ mem_'[b] = mem_[b]
    BY <1>2, <1>3, <1>6 DEF Has
  <2>2. Has(self)' /\ mem_'[self] = m
    BY <1>2, <1>3, <1>5 DEF Has
  <2>3. \A n \in Memories : n # m => mem_type'[n] = mem_type[n]
    BY <1>1 DEF TypeOK
  <2> QED
    BY <1>2, <1>3, <2>1, <2>2, <2>3 DEF Owned
<1>12. Mapping'
  BY <1>2, <1>3, <1>6 DEF Mapping, TypeOK
<1> QED
  BY <1>7, <1>8, <1>9, <1>10, <1>11, <1>12

(* The allocation fails: the search goes on with the fallback, or ends.    *)
LEMMA IndInvRefused ==
  ASSUME IndInv, AllocateFails
  PROVE  IndInv'
<1> USE MemoryAssumption DEF IndInv
<1>0. PICK t : t = mem_id[level]
  OBVIOUS
<1>1. /\ pc = "allocate"
      /\ refused' = [refused EXCEPT ![self] = @ \cup {t}]
      /\ UNCHANGED <<property_flags, deviceVars, alive, buffer, mem_, flags_,
                     data_, want, self, mem_id>>
      /\ \/ /\ Fallback[level] = "void" /\ pc' = "throw"
            /\ UNCHANGED <<frames, level, probe>>
         \/ /\ Fallback[level] # "void" /\ pc' = "find"
            /\ level' = Fallback[level] /\ probe' = Fallback[level]
            /\ frames' = frames \cup {Fallback[level]}
  BY <1>0 DEF AllocateFails
<1>2. /\ self \in Arrays /\ self \notin alive /\ mem_[self] = Null
      /\ level \in Kinds /\ level \in frames /\ t \in Types /\ Suits(self, t)
      /\ Kind[self] \in HostKinds => level \in HostKinds
      /\ Kind[self] \in Kinds
  BY <1>0, <1>1 DEF Building, Searching, TypeOK
<1>3. /\ Fallback[level] \in Kinds \cup {"void"}
      /\ Kind[self] \in HostKinds => Fallback[level] \in HostKinds \cup {"void"}
  BY <1>2, Chain
<1>4. /\ refused'[self] = refused[self] \cup {t}
      /\ \A b \in Arrays : b # self => refused'[b] = refused[b]
  BY <1>1, <1>2 DEF TypeOK
<1>5. TypeOK'
  BY <1>1, <1>2, <1>3 DEF TypeOK, deviceVars
<1>6. Building' /\ Dormant'
  BY <1>1, <1>3 DEF Building, Dormant
<1>7. Fallback[level] # "void" => level = Kind[self] /\ Gone(self)'
  <2>1. Justified(self, t)
    BY <1>2 DEF Suits
  <2>2. FirstChoice(self, Kind[self])' = FirstChoice(self, Kind[self])
    BY <1>1 DEF FirstChoice, SelectMemory, Fits, deviceVars
  <2>3. self' = self
    BY <1>1
  <2>4. Gone(self)'
    BY <1>4, <2>1, <2>2, <2>3 DEF Justified, Gone
  <2>5. level = Kind[self] \/ level = Fallback[Kind[self]]
    BY <1>1 DEF Searching
  <2> QED
    BY <1>2, <2>4, <2>5, Chain
<1>8. Searching'
  BY <1>1, <1>2, <1>3, <1>7 DEF Searching
<1>9. Holding' /\ Single' /\ Owned'
  <2>1. \A a \in Arrays : Has(a) => Suits(a, TypeOf(a))'
    BY <1>1, <1>2, <1>4, SameChoices DEF Holding, Has, TypeOf, deviceVars
  <2> QED
    BY <1>1, <2>1 DEF Holding, Single, Owned, Has, TypeOf, deviceVars
<1>10. Mapping'
  BY <1>1 DEF Mapping, deviceVars
<1> QED
  BY <1>5, <1>6, <1>8, <1>9, <1>10


(* The end of a constructor, and its failures after the allocation.        *)
LEMMA IndInvComplete ==
  ASSUME IndInv, BindBufferMemory \/ MapMemory \/ BindOrMapFails
  PROVE  IndInv'
<1> USE MemoryAssumption DEF IndInv
<1>1. /\ self \in Arrays /\ self \notin alive /\ buffer[self] # Null
      /\ Kind[self] \in Kinds
      /\ pc \in {"bind", "map"} /\ mem_[self] # Null
  BY DEF BindBufferMemory, MapMemory, BindOrMapFails, Building, Searching
<1>2. UNCHANGED <<property_flags, type_bits, mem_type, buffer, mem_, flags_,
                  want, refused>>
  BY DEF BindBufferMemory, MapMemory, BindOrMapFails, deviceVars, arrayVars
<1>3. Holding /\ Single' /\ Owned'
  BY <1>2 DEF Single, Owned, Has
<1>4. \A a \in Arrays : Has(a) => Suits(a, TypeOf(a))'
  BY <1>2, SuitsFrame DEF Holding, TypeOf
<1>5. ASSUME alive' = alive \cup {self} \/ alive' = alive
      PROVE  Holding'
  BY <1>1, <1>2, <1>4, <1>5 DEF Holding, Has, TypeOf
<1>6. ASSUME Leave, alive' = alive \cup {self},
             \/ UNCHANGED <<mapped, data_>>
             \/ /\ pc = "map"
                /\ mapped' = mapped \cup {mem_[self]}
                /\ data_' = data_ \cup {self}
      PROVE  IndInv'
  <2>1. TypeOK'
    BY <1>1, <1>2, <1>6 DEF TypeOK, Leave
  <2>2. Building' /\ Searching'
    BY <1>6 DEF Building, Searching, Leave
  <2>3. Dormant'
    BY <1>1, <1>2, <1>6 DEF Dormant, Leave
  <2>4. Mapping'
    BY <1>1, <1>2, <1>6 DEF Mapping, Searching
  <2> QED
    BY <1>3, <1>5, <1>6, <2>1, <2>2, <2>3, <2>4
<1>7. CASE BindBufferMemory /\ Kind[self] \in HostKinds
  <2>1. /\ pc' = "map" /\ pc = "bind"
        /\ UNCHANGED <<mapped, alive, data_, self, allocVars>>
    BY <1>7 DEF BindBufferMemory, deviceVars
  <2>2. TypeOK'
    BY <1>2, <2>1 DEF TypeOK, allocVars
  <2>3. Building' /\ Dormant' /\ Searching' /\ Mapping'
    BY <1>1, <1>2, <1>7, <2>1
      DEF Building, Dormant, Searching, Mapping, allocVars
  <2> QED
    BY <1>3, <1>5, <2>1, <2>2, <2>3
<1>8. CASE BindBufferMemory /\ Kind[self] \notin HostKinds
  BY <1>6, <1>8 DEF BindBufferMemory, deviceVars
<1>9. CASE MapMemory
  BY <1>6, <1>9 DEF MapMemory
<1>10. CASE BindOrMapFails
  <2>1. /\ pc' = "throw"
        /\ UNCHANGED <<mapped, alive, data_, self, allocVars>>
    BY <1>10 DEF BindOrMapFails, deviceVars, arrayVars
  <2>2. TypeOK'
    BY <1>2, <2>1 DEF TypeOK, allocVars
  <2>3. Building' /\ Dormant' /\ Searching' /\ Mapping'
    BY <1>1, <1>2, <2>1
      DEF Building, Dormant, Searching, Mapping, allocVars
  <2> QED
    BY <1>3, <1>5, <2>1, <2>2, <2>3
<1> QED
  BY <1>7, <1>8, <1>9, <1>10

(* What release does to an array that owns something, and to one that has  *)
(* been moved from: the other arrays keep what they have, and what the     *)
(* released one owned is owned by nobody and gone.                         *)
LEMMA Released ==
  ASSUME IndInv, NEW a \in Arrays, Release(a), UNCHANGED property_flags,
         alive' \subseteq alive
  PROVE  /\ buffer'[a] = Null /\ mem_'[a] = Null
         /\ \A b \in Arrays : b # a =>
              buffer'[b] = buffer[b] /\ mem_'[b] = mem_[b]
         /\ Holding' /\ Single' /\ Owned'
         /\ type_bits' \in [Buffers -> SUBSET Types]
         /\ mem_type' \in [Memories -> Types \cup {NoType}]
         /\ buffer' \in [Arrays -> Buffers \cup {Null}]
         /\ mem_' \in [Arrays -> Memories \cup {Null}]
         /\ flags_' \in [Arrays -> SUBSET Flags]
         /\ want' \in [Arrays -> SUBSET Flags]
         /\ refused' \in [Arrays -> SUBSET Types]
<1> USE MemoryAssumption DEF IndInv
<1>1. /\ buffer' = [buffer EXCEPT ![a] = Null]
      /\ mem_' = [mem_ EXCEPT ![a] = Null]
      /\ flags_' = [flags_ EXCEPT ![a] = {}]
      /\ want' = [want EXCEPT ![a] = {}]
      /\ refused' = [refused EXCEPT ![a] = {}]
  BY DEF Release
<1>2. /\ buffer'[a] = Null /\ mem_'[a] = Null
      /\ \A b \in Arrays : b # a =>
           /\ buffer'[b] = buffer[b] /\ mem_'[b] = mem_[b]
           /\ flags_'[b] = flags_[b] /\ want'[b] = want[b]
           /\ refused'[b] = refused[b]
  BY <1>1 DEF TypeOK
<1>3. /\ type_bits' \in [Buffers -> SUBSET Types]
      /\ mem_type' \in [Memories -> Types \cup {NoType}]
      /\ buffer' \in [Arrays -> Buffers \cup {Null}]
      /\ mem_' \in [Arrays -> Memories \cup {Null}]
      /\ flags_' \in [Arrays -> SUBSET Flags]
      /\ want' \in [Arrays -> SUBSET Flags]
      /\ refused' \in [Arrays -> SUBSET Types]
  BY <1>1 DEF Release, TypeOK
<1>4. \A h \in Buffers : type_bits'[h] =
        IF buffer[a] # Null /\ h = buffer[a] THEN {} ELSE type_bits[h]
  BY DEF Release, TypeOK
<1>5. \A m \in Memories : mem_type'[m] =
        IF buffer[a] # Null /\ m = mem_[a] THEN NoType ELSE mem_type[m]
  BY DEF Release
<1>6. \A b \in Arrays : Has(b) =>
        buffer[b] \in Buffers /\ mem_[b] \in Memories
  BY DEF Has, TypeOK
<1>7. \A b \in Arrays : b # a =>
        /\ buffer[b] # Null => type_bits'[buffer[b]] = type_bits[buffer[b]]
        /\ Has(b) => mem_type'[mem_[b]] = mem_type[mem_[b]]
  <2> TAKE b \in Arrays
  <2> HAVE b # a
  <2>1. ASSUME buffer[b] # Null
        PROVE  type_bits'[buffer[b]] = type_bits[buffer[b]]
    BY <1>4, <2>1 DEF Single, TypeOK
  <2>2. ASSUME Has(b)
        PROVE  mem_type'[mem_[b]] = mem_type[mem_[b]]
    <3>1. CASE Has(a)
      BY <1>5, <1>6, <2>2, <3>1 DEF Single
    <3>2. CASE ~ Has(a)
      BY <1>5, <1>6, <2>2, <3>2 DEF Has
    <3> QED
      BY <3>1, <3>2
  <2> QED
    BY <2>1, <2>2
<1>8. Holding'
  <2>1. \A b \in Arrays : b # a /\ Has(b) => Suits(b, TypeOf(b))'
    BY <1>2, <1>7, SameChoices DEF Holding, Has, TypeOf
  <2> QED
    BY <1>2, <1>7, <2>1 DEF Holding, Has, TypeOf
<1>9. Single'
  BY <1>2 DEF Single, Has
<1>10. Owned'
  <2>1. \A h \in Buffers : type_bits'[h] # {} =>
          \E b \in Arrays : buffer'[b] = h
    BY <1>2, <1>4 DEF Owned
  <2>2. \A m \in Memories : mem_type'[m] # NoType =>
          \E b \in Arrays : Has(b)' /\ mem_'[b] = m
    BY <1>2, <1>5 DEF Owned, Has
  <2> QED
    BY <2>1, <2>2 DEF Owned
<1> QED
  BY <1>2, <1>3, <1>8, <1>9, <1>10

(* A constructor throws; an array is destroyed.                            *)
LEMMA IndInvRelease ==
  ASSUME IndInv, Throw \/ \E a \in Arrays : Destroy(a)
  PROVE  IndInv'
<1> USE MemoryAssumption DEF IndInv
<1>1. CASE Throw
  <2>1. /\ self \in Arrays /\ self \notin alive /\ self \notin data_
        /\ Release(self) /\ Leave
        /\ UNCHANGED <<property_flags, mapped, alive, data_>>
    BY <1>1 DEF Throw, Building, Dormant
  <2>2. /\ buffer'[self] = Null /\ mem_'[self] = Null
        /\ \A b \in Arrays : b # self =>
             buffer'[b] = buffer[b] /\ mem_'[b] = mem_[b]
        /\ Holding' /\ Single' /\ Owned'
    BY <2>1, Released
  <2>3. TypeOK'
    BY <2>1, Released DEF TypeOK, Leave
  <2>4. Building' /\ Searching'
    BY <2>1 DEF Building, Searching, Leave
  <2>5. Dormant'
    BY <2>1, <2>2 DEF Dormant, Leave
  <2>6. Mapping'
    BY <2>1, <2>2 DEF Mapping, TypeOK
  <2> QED
    BY <2>2, <2>3, <2>4, <2>5, <2>6
<1>2. ASSUME NEW a \in Arrays, Destroy(a)
      PROVE  IndInv'
  <2>1. /\ pc = "idle" /\ a \in alive /\ Release(a) /\ self = Null
        /\ alive' = alive \ {a}
        /\ mapped' = IF a \in data_ \/ buffer[a] # Null
                       THEN mapped \ {mem_[a]} ELSE mapped
        /\ data_' = data_ \ {a}
        /\ UNCHANGED <<property_flags, pc, self, allocVars>>
    BY <1>2 DEF Destroy, Building
  <2>2. /\ buffer'[a] = Null /\ mem_'[a] = Null
        /\ \A b \in Arrays : b # a =>
             buffer'[b] = buffer[b] /\ mem_'[b] = mem_[b]
        /\ Holding' /\ Single' /\ Owned'
    BY <2>1, Released
  <2>3. TypeOK'
    BY <2>1, Released DEF TypeOK, allocVars
  <2>4. Building' /\ Searching'
    BY <2>1 DEF Building, Searching
  <2>5. Dormant'
    BY <2>1, <2>2 DEF Dormant
  <2>6. Mapping'
    <3>1. \A b \in data_ : b \in Arrays /\ b \in alive /\ Has(b)
      BY DEF Mapping, Holding, Has, TypeOK
    <3>2. \A b \in data_ : b # a => mem_'[b] = mem_[b]
      BY <2>2, <3>1
    <3>3. \A b \in data_ : b # a /\ buffer[a] # Null => mem_[b] # mem_[a]
      BY <2>1, <3>1 DEF Single, Has, Holding
    <3>4. mapped' = {mem_'[b] : b \in data_'}
      <4>1. CASE a \in data_ \/ buffer[a] # Null
        BY <2>1, <3>1, <3>2, <3>3, <4>1 DEF Mapping, Has
      <4>2. CASE a \notin data_ /\ buffer[a] = Null
        BY <2>1, <3>2, <4>2 DEF Mapping
      <4> QED
        BY <4>1, <4>2
    <3> QED
      BY <2>1, <2>2, <3>1, <3>4 DEF Mapping
  <2> QED
    BY <2>2, <2>3, <2>4, <2>5, <2>6
<1> QED
  BY <1>1, <1>2

(* What an array has goes to another one.                                  *)
LEMMA IndInvMove ==
  ASSUME IndInv, NEW a \in Arrays, NEW b \in Arrays, MoveConstruct(a, b)
  PROVE  IndInv'
<1> USE MemoryAssumption DEF IndInv
<1>1. /\ pc = "idle" /\ self = Null /\ a # b
      /\ a \in alive /\ b \notin alive /\ Kind[a] = Kind[b]
      /\ alive' = alive \cup {b}
      /\ buffer' = [buffer EXCEPT ![b] = buffer[a], ![a] = Null]
      /\ mem_' = [mem_ EXCEPT ![b] = mem_[a]]
      /\ flags_' = [flags_ EXCEPT ![b] = flags_[a]]
      /\ data_' = IF a \in data_ THEN (data_ \cup {b}) \ {a} ELSE data_
      /\ want' = [want EXCEPT ![b] = want[a]]
      /\ refused' = [refused EXCEPT ![b] = refused[a]]
      /\ UNCHANGED <<property_flags, deviceVars, pc, self, allocVars>>
  BY DEF MoveConstruct, Building
<1>11. /\ type_bits' = type_bits /\ mem_type' = mem_type
      /\ property_flags' = property_flags /\ Kind[a] = Kind[b]
  BY <1>1 DEF deviceVars
<1>2. buffer[b] = Null /\ mem_[b] = Null /\ b \notin data_
  BY <1>1 DEF Dormant
<1>3. /\ buffer'[a] = Null /\ buffer'[b] = buffer[a]
      /\ mem_'[a] = mem_[a] /\ mem_'[b] = mem_[a]
      /\ flags_'[b] = flags_[a] /\ want'[b] = want[a]
      /\ refused'[b] = refused[a]
      /\ \A c \in Arrays : c # a /\ c # b =>
           /\ buffer'[c] = buffer[c] /\ mem_'[c] = mem_[c]
           /\ flags_'[c] = flags_[c] /\ want'[c] = want[c]
           /\ refused'[c] = refused[c]
  BY <1>1 DEF TypeOK
<1>4. TypeOK'
  BY <1>1 DEF TypeOK, deviceVars, allocVars
<1>5. Building' /\ Searching'
  BY <1>1 DEF Building, Searching
<1>6. Dormant'
  BY <1>1, <1>2, <1>3 DEF Dormant
<1>7. Holding'
  <2>1. ASSUME Has(a)
        PROVE  Suits(b, TypeOf(b))'
    <3>1. Suits(a, TypeOf(a)) /\ TypeOf(b)' = TypeOf(a)
      BY <1>11, <1>3, <2>1 DEF Holding, TypeOf
    <3>2. \A t : Suits(b, t)' <=> Suits(a, t)
      BY <1>11, <1>3, SameChoices
    <3> QED
      BY <3>1, <3>2
  <2>2. \A c \in Arrays : c # a /\ c # b /\ Has(c) => Suits(c, TypeOf(c))'
    <3> TAKE c \in Arrays
    <3> HAVE c # a /\ c # b /\ Has(c)
    <3>1. Suits(c, TypeOf(c)) /\ TypeOf(c)' = TypeOf(c)
      BY <1>11, <1>3 DEF Holding, TypeOf
    <3>2. \A t : Suits(c, t)' <=> Suits(c, t)
      BY <1>11, <1>3, SameChoices
    <3> QED
      BY <3>1, <3>2
  <2> QED
    <3>1. \A c \in Arrays : c # a /\ c # b =>
            /\ Has(c)' => Has(c)
            /\ TypeOf(c)' = TypeOf(c) /\ (c \in alive' <=> c \in alive)
      BY <1>1, <1>3, <1>11 DEF Has, TypeOf
    <3>2. /\ ~ Has(a)' /\ (Has(b)' => Has(a)) /\ TypeOf(b)' = TypeOf(a)
          /\ a \in alive
      BY <1>11, <1>1, <1>3 DEF Has, TypeOf
    <3> QED
      BY <1>11, <1>3, <2>1, <2>2, <3>1, <3>2 DEF Holding
<1>8. Single'
  BY <1>2, <1>3 DEF Single, Has
<1>9. Owned'
  <2>1. \A h \in Buffers : type_bits'[h] # {} =>
          \E c \in Arrays : buffer'[c] = h
    BY <1>11, <1>2, <1>3 DEF Owned
  <2>2. \A m \in Memories : mem_type'[m] # NoType =>
          \E c \in Arrays : Has(c)' /\ mem_'[c] = m
    <3> TAKE m \in Memories
    <3> HAVE mem_type'[m] # NoType
    <3>1. PICK c \in Arrays : Has(c) /\ mem_[c] = m
      BY <1>11 DEF Owned
    <3>2. CASE c = a
      BY <1>3, <3>1, <3>2 DEF Has
    <3>3. CASE c # a
      BY <1>2, <1>3, <3>1, <3>3 DEF Has
    <3> QED
      BY <3>2, <3>3
  <2> QED
    BY <2>1, <2>2 DEF Owned
<1>10. Mapping'
  BY <1>1, <1>2, <1>3 DEF Mapping, TypeOK, deviceVars
<1> QED
  BY <1>4, <1>5, <1>6, <1>7, <1>8, <1>9, <1>10


(* Every step of the specification preserves the invariant.                *)
LEMMA IndInvNext == IndInv /\ [Next]_vars => IndInv'
<1> SUFFICES ASSUME IndInv, [Next]_vars PROVE IndInv'
  OBVIOUS
<1>1. CASE UNCHANGED vars
  BY <1>1, SuitsFrame DEF vars, deviceVars, arrayVars, allocVars, IndInv, TypeOK, Building,
       Dormant, Searching, Holding, Single, Owned, Mapping, Has, TypeOf
<1>2. CASE Client
  BY <1>2, IndInvConstruct, IndInvRelease, IndInvMove DEF Client
<1>3. CASE Constructor
  BY <1>3, IndInvFind, IndInvAllocate, IndInvRefused, IndInvComplete,
     IndInvRelease DEF Constructor
<1> QED
  BY <1>1, <1>2, <1>3 DEF Next

-----------------------------------------------------------------------------
(* The inductive invariant holds throughout.                               *)
THEOREM IndInvAlways == Spec => []IndInv
<1>1. Init => IndInv
  BY IndInvInit
<1>2. IndInv /\ [Next]_vars => IndInv'
  BY IndInvNext
<1> QED
  BY <1>1, <1>2, PTL DEF Spec

(* Every state has the right types, and mem_id() is asked only for a type  *)
(* that was found.                                                         *)
THEOREM MemoryTypeCorrect == Spec => []TypeOK
<1>1. IndInv => TypeOK
  BY DEF IndInv
<1> QED
  BY <1>1, IndInvAlways, PTL

(* What Holds says of an array, Has says too.                              *)
LEMMA HoldsHas ==
  ASSUME IndInv, NEW a \in Arrays, Holds(a)
  PROVE  Has(a) /\ Suits(a, TypeOf(a)) /\ flags_[a] = property_flags[TypeOf(a)]
BY DEF IndInv, Holds, Has, Holding, Searching

(* isHostVisible tells the truth about the memory of every array, whatever *)
(* fallback provided it.                                                   *)
THEOREM FlagsAreTrue == Spec => []FlagsTell
<1>1. IndInv => FlagsTell
  BY HoldsHas DEF FlagsTell
<1> QED
  BY <1>1, IndInvAlways, PTL

(* Whatever level of the chain provided it, an array's memory is of a type *)
(* its buffer accepts and has the extra properties that were asked for.    *)
THEOREM MemorySuits == Spec => []MemorySuitsBuffer
<1>1. IndInv => MemorySuitsBuffer
  BY HoldsHas DEF MemorySuitsBuffer, Suits
<1> QED
  BY <1>1, IndInvAlways, PTL

(* HostArrays map host visible memory only, and it stays mapped and        *)
(* allocated exactly as long as one of them points into it.                *)
THEOREM MappingsSafe == Spec => []MappedForHostArrays
<1>1. ASSUME IndInv PROVE MappedForHostArrays
  <2>1. \A a \in data_ : a \in Arrays /\ Has(a) /\ Kind[a] \in HostKinds
    BY <1>1 DEF IndInv, Mapping, Holding, Has, TypeOK
  <2>2. \A a \in data_ : /\ TypeOf(a) \in Types
                         /\ "hostVisible" \in property_flags[TypeOf(a)]
    BY <1>1, <2>1 DEF IndInv, Holding, Suits
  <2> QED
    BY <1>1, <2>2 DEF MappedForHostArrays, IndInv, Mapping, TypeOf, NoType,
         Types
<1> QED
  BY <1>1, IndInvAlways, PTL

(* Every buffer and every allocation has exactly one owner: no leak when a *)
(* constructor throws, no double release after a move.                     *)
THEOREM SingleOwner == Spec => []OwnedOnce
<1>1. ASSUME IndInv PROVE OwnedOnce
  <2>1. \A a \in Arrays : buffer[a] # Null => a \in alive \cup {self}
    BY <1>1 DEF IndInv, Dormant
  <2>2. \A a \in Arrays : Holds(a) => Has(a)
    BY <1>1, HoldsHas
  <2>3. \A a, b \in Arrays : a # b /\ buffer[a] # Null =>
          buffer[a] # buffer[b]
    BY <1>1 DEF IndInv, Single
  <2>4. \A a, b \in Arrays : a # b /\ Holds(a) /\ Holds(b) =>
          mem_[a] # mem_[b]
    BY <1>1, <2>2 DEF IndInv, Single
  <2>5. \A h \in Buffers : type_bits[h] # {} =>
          \E a \in alive \cup {self} : a \in Arrays /\ buffer[a] = h
    BY <1>1, <2>1, MemoryAssumption DEF IndInv, Owned
  <2>6. \A m \in Memories : mem_type[m] # NoType =>
          \E a \in alive \cup {self} :
            a \in Arrays /\ buffer[a] # Null /\ mem_[a] = m
    BY <1>1, <2>1 DEF IndInv, Owned, Has
  <2> QED
    BY <2>3, <2>4, <2>5, <2>6 DEF OwnedOnce
<1> QED
  BY <1>1, IndInvAlways, PTL

(* An array has the first type that suits its own kind, or the first that  *)
(* suits its fallback; the latter only if the former does not exist or was *)
(* refused to it.  Other types of its own kind are not tried.              *)
THEOREM OneFallback == Spec => []WeakerOnlyIfRefused
<1>1. IndInv => WeakerOnlyIfRefused
  BY HoldsHas DEF WeakerOnlyIfRefused, Suits, Justified, Gone
<1> QED
  BY <1>1, IndInvAlways, PTL
=============================================================================
