---------------------------- MODULE ArrayMemory -----------------------------
(***************************************************************************)
(* The memory behind vuml's arrays: how BasicArray's constructor makes a   *)
(* buffer and asks AllocDevice for memory, how AllocDevice falls back to   *)
(* weaker memory when a type is missing or exhausted, and who owns the     *)
(* buffer and the memory afterwards, through moves and destruction.        *)
(*                                                                         *)
(* The Vulkan calls of a constructor are steps of their own, since each of *)
(* them can throw.                                                         *)
(***************************************************************************)
EXTENDS Integers, FiniteSetsExt

CONSTANTS
  Arrays,      \* the array objects a client may have
  Kind,        \* the memory properties each is declared with
  Buffers,     \* buffer handles
  Memories,    \* memory handles; bounds what can be allocated at a time
  NumTypes,    \* memoryTypeCount of the physical device
  FlagSets,    \* the property flags a memory type may have
  BitSets,     \* the memoryTypeBits a buffer may have
  Wanted,      \* the extra flags a client may ask a constructor for
  Null

Types == 0 .. NumTypes - 1
NoType == -1
Flags == {"deviceLocal", "hostVisible", "hostCoherent", "hostCached"}

(* array::properties: memory and fallback_t.                               *)
Kinds == {"Host", "HostCoherent", "HostCached", "Unified",
          "Device", "DeviceOnly"}
PropsMemory == [Host |-> {"hostVisible"},
                HostCoherent |-> {"hostVisible", "hostCoherent"},
                HostCached |-> {"hostVisible", "hostCached"},
                Unified |-> {"deviceLocal", "hostVisible"},
                Device |-> {"deviceLocal"},
                DeviceOnly |-> {"deviceLocal"}]
Fallback == [Host |-> "void", HostCoherent |-> "Host",
             HostCached |-> "Host", Unified |-> "void",
             Device |-> "Host", DeviceOnly |-> "Host"]

(* details::ArrayClass: which arrays are HostArrays.                       *)
HostKinds == Kinds \ {"Device", "DeviceOnly"}

ASSUME MemoryAssumption ==
  /\ Kind \in [Arrays -> Kinds]
  /\ NumTypes \in Nat
  /\ FlagSets \subseteq SUBSET Flags
  /\ BitSets \subseteq (SUBSET Types) \ {{}}
  /\ Wanted \subseteq SUBSET Flags
  /\ Null \notin Arrays \cup Buffers \cup Memories

VARIABLES
  property_flags,  \* memoryTypes[i].propertyFlags; never changes
  type_bits,       \* memoryTypeBits of each buffer; empty: no such buffer
  mem_type,        \* the memory type of each allocation, or NoType
  mapped,          \* the allocations that are mapped
  alive,           \* the array objects whose constructor has completed
  buffer,          \* an array's vk::Buffer, or Null
  mem_, flags_,    \* BasicArray::mem_, flags_
  data_,           \* the HostArrays whose data_ is not null
  want,            \* history: the extra flags an array was asked to have
  refused,         \* history: the types its constructor could not allocate
  pc, self,        \* the constructor in progress and its array
  frames, level,   \* AllocDevice::allocMemory: the calls, the innermost one
  probe,           \* findMemory: the properties being looked for
  mem_id           \* AllocDevice<...>::mem_id_ of each call

deviceVars == <<type_bits, mem_type, mapped>>
arrayVars == <<alive, buffer, mem_, flags_, data_, want, refused>>
allocVars == <<frames, level, probe, mem_id>>
vars == <<property_flags, deviceVars, arrayVars, pc, self, allocVars>>

-----------------------------------------------------------------------------
Init ==
  /\ property_flags \in [Types -> FlagSets]
  /\ type_bits = [h \in Buffers |-> {}]
  /\ mem_type = [m \in Memories |-> NoType]
  /\ mapped = {}
  /\ alive = {}
  /\ buffer = [a \in Arrays |-> Null]
  /\ mem_ = [a \in Arrays |-> Null]
  /\ flags_ = [a \in Arrays |-> {}]
  /\ data_ = {}
  /\ want = [a \in Arrays |-> {}]
  /\ refused = [a \in Arrays |-> {}]
  /\ pc = "idle"
  /\ self = Null
  /\ frames = {}
  /\ level = "void"
  /\ probe = "void"
  /\ mem_id = [k \in Kinds |-> NoType]

-----------------------------------------------------------------------------
(* The types among bits that have all the properties.                      *)
Fits(bits, properties) ==
  {i \in bits : properties \subseteq property_flags[i]}

(* MUTANT of SelectMemory: memoryTypeBits is not looked at.                *)
SelectAnyMemory(bits, properties) ==
  IF Fits(Types, properties) = {} THEN NoType
  ELSE Min(Fits(Types, properties))

(* Device::selectMemory: the first type the buffer accepts that has all    *)
(* the properties.                                                         *)
SelectMemory(bits, properties) ==
  IF Fits(bits, properties) = {} THEN NoType
  ELSE Min(Fits(bits, properties))

(* makeBuffer.  When createBuffer throws there is nothing to undo and      *)
(* nothing has changed.                                                    *)
Construct(a, properties) ==
  /\ pc = "idle"
  /\ a \notin alive
  /\ \E h \in Buffers, bits \in BitSets :
       /\ type_bits[h] = {}
       /\ type_bits' = [type_bits EXCEPT ![h] = bits]
       /\ buffer' = [buffer EXCEPT ![a] = h]
  /\ want' = [want EXCEPT ![a] = properties]
  /\ refused' = [refused EXCEPT ![a] = {}]
  /\ self' = a
  /\ frames' = {Kind[a]}
  /\ level' = Kind[a]
  /\ probe' = Kind[a]
  /\ pc' = "find"
  /\ UNCHANGED <<property_flags, mem_type, mapped, alive, mem_, flags_,
                 data_, mem_id>>

(* MUTANT of FindMemory: a search that found nothing is not noticed.       *)
FindMemoryUnchecked ==
  /\ pc = "find"
  /\ mem_id' = [mem_id EXCEPT ![level] =
                  SelectMemory(type_bits[buffer[self]],
                               PropsMemory[probe] \cup want[self])]
  /\ pc' = "allocate"
  /\ UNCHANGED <<property_flags, deviceVars, arrayVars, self, frames, level,
                 probe>>

(* MUTANT of FindMemory: a fallback is asked before its own properties.    *)
FindFallbackFirst ==
  /\ pc = "find"
  /\ LET find(k) == SelectMemory(type_bits[buffer[self]],
                                 PropsMemory[k] \cup want[self])
         id == IF Fallback[probe] # "void" /\ find(Fallback[probe]) # NoType
                 THEN find(Fallback[probe]) ELSE find(probe)
     IN IF id # NoType
          THEN mem_id' = [mem_id EXCEPT ![level] = id] /\ pc' = "allocate"
          ELSE UNCHANGED mem_id /\ pc' = "throw"
  /\ UNCHANGED <<property_flags, deviceVars, arrayVars, self, frames, level,
                 probe>>

(* findMemory: one more level of the chain of fallbacks; the last one      *)
(* throws.                                                                 *)
FindMemory ==
  /\ pc = "find"
  /\ LET id == SelectMemory(type_bits[buffer[self]],
                            PropsMemory[probe] \cup want[self])
     IN IF id # NoType
          THEN /\ mem_id' = [mem_id EXCEPT ![level] = id]
               /\ pc' = "allocate"
               /\ UNCHANGED probe
          ELSE /\ probe' = Fallback[probe]
               /\ pc' = IF Fallback[probe] = "void" THEN "throw" ELSE "find"
               /\ UNCHANGED mem_id
  /\ UNCHANGED <<property_flags, deviceVars, arrayVars, self, frames, level>>

(* MUTANT of AllocateMemory: an outer call keeps the type it had chosen    *)
(* when the memory came from its fallback.                                 *)
AllocateMemoryStale ==
  /\ pc = "allocate"
  /\ \E m \in Memories :
       /\ mem_type[m] = NoType
       /\ mem_type' = [mem_type EXCEPT ![m] = mem_id[level]]
       /\ mem_' = [mem_ EXCEPT ![self] = m]
  /\ flags_' = [flags_ EXCEPT ![self] = property_flags[mem_id[Kind[self]]]]
  /\ pc' = "bind"
  /\ UNCHANGED <<property_flags, type_bits, mapped, alive, buffer, data_,
                 want, refused, self, allocVars>>

(* allocateMemory succeeds in the innermost allocMemory; every outer one   *)
(* takes over the mem_id of its fallback, and the flags are those of the   *)
(* outermost one's type.                                                   *)
AllocateMemory ==
  /\ pc = "allocate"
  /\ \E m \in Memories :
       /\ mem_type[m] = NoType
       /\ mem_type' = [mem_type EXCEPT ![m] = mem_id[level]]
       /\ mem_' = [mem_ EXCEPT ![self] = m]
  /\ mem_id' = [k \in Kinds |->
                  IF k \in frames THEN mem_id[level] ELSE mem_id[k]]
  /\ flags_' = [flags_ EXCEPT ![self] = property_flags[mem_id'[Kind[self]]]]
  /\ pc' = "bind"
  /\ UNCHANGED <<property_flags, type_bits, mapped, alive, buffer, data_,
                 want, refused, self, frames, level, probe>>

(* MUTANT of AllocateFails: the same properties are asked for once more.   *)
AllocateAgain ==
  /\ pc = "allocate"
  /\ refused' = [refused EXCEPT ![self] = @ \cup {mem_id[level]}]
  /\ probe' = level
  /\ pc' = "find"
  /\ UNCHANGED <<property_flags, deviceVars, alive, buffer, mem_, flags_,
                 data_, want, self, frames, level, mem_id>>

(* allocateMemory throws: the whole search starts again at the fallback,   *)
(* which is a call of its own; AllocDevice<void> throws.                   *)
AllocateFails ==
  /\ pc = "allocate"
  /\ refused' = [refused EXCEPT ![self] = @ \cup {mem_id[level]}]
  /\ IF Fallback[level] = "void"
       THEN /\ pc' = "throw"
            /\ UNCHANGED <<frames, level, probe>>
       ELSE /\ pc' = "find"
            /\ level' = Fallback[level]
            /\ probe' = Fallback[level]
            /\ frames' = frames \cup {Fallback[level]}
  /\ UNCHANGED <<property_flags, deviceVars, alive, buffer, mem_, flags_,
                 data_, want, self, mem_id>>

(* The constructor is left: with it go AllocDevice and its mem_id_.        *)
Leave ==
  /\ pc' = "idle"
  /\ self' = Null
  /\ frames' = {}
  /\ level' = "void"
  /\ probe' = "void"
  /\ mem_id' = [k \in Kinds |-> NoType]

(* bindBufferMemory, the last thing BasicArray's constructor does.         *)
BindBufferMemory ==
  /\ pc = "bind"
  /\ IF Kind[self] \in HostKinds
       THEN pc' = "map" /\ UNCHANGED <<alive, self, allocVars>>
       ELSE Leave /\ alive' = alive \cup {self}
  /\ UNCHANGED <<property_flags, deviceVars, buffer, mem_, flags_, data_,
                 want, refused>>

(* HostArray's constructor: data_ is the memory, mapped for good.          *)
MapMemory ==
  /\ pc = "map"
  /\ mapped' = mapped \cup {mem_[self]}
  /\ data_' = data_ \cup {self}
  /\ alive' = alive \cup {self}
  /\ Leave
  /\ UNCHANGED <<property_flags, type_bits, mem_type, buffer, mem_, flags_,
                 want, refused>>

BindOrMapFails ==
  /\ pc \in {"bind", "map"}
  /\ pc' = "throw"
  /\ UNCHANGED <<property_flags, deviceVars, arrayVars, self, allocVars>>

-----------------------------------------------------------------------------
(* MUTANT of Release: only the buffer is destroyed.                        *)
ReleaseBuffer(a) ==
  /\ type_bits' = [h \in Buffers |->
                     IF h = buffer[a] THEN {} ELSE type_bits[h]]
  /\ buffer' = [buffer EXCEPT ![a] = Null]
  /\ mem_' = [mem_ EXCEPT ![a] = Null]
  /\ flags_' = [flags_ EXCEPT ![a] = {}]
  /\ want' = [want EXCEPT ![a] = {}]
  /\ refused' = [refused EXCEPT ![a] = {}]
  /\ UNCHANGED mem_type

(* BasicArray::release, for an array that ceases to exist.  Freeing memory *)
(* unmaps it; freeing a null handle does nothing.                          *)
Release(a) ==
  /\ IF buffer[a] = Null
       THEN UNCHANGED <<type_bits, mem_type>>
       ELSE /\ type_bits' = [type_bits EXCEPT ![buffer[a]] = {}]
            /\ mem_type' = [m \in Memories |->
                              IF m = mem_[a] THEN NoType ELSE mem_type[m]]
  /\ buffer' = [buffer EXCEPT ![a] = Null]
  /\ mem_' = [mem_ EXCEPT ![a] = Null]
  /\ flags_' = [flags_ EXCEPT ![a] = {}]
  /\ want' = [want EXCEPT ![a] = {}]
  /\ refused' = [refused EXCEPT ![a] = {}]

(* The exception leaves the constructor, which releases what it has.       *)
Throw ==
  /\ pc = "throw"
  /\ Release(self)
  /\ Leave
  /\ UNCHANGED <<property_flags, mapped, alive, data_>>

(* ~HostArray unmaps what it still has, ~BasicArray releases it.           *)
Destroy(a) ==
  /\ pc = "idle"
  /\ a \in alive
  /\ Release(a)
  /\ alive' = alive \ {a}
  /\ mapped' = IF a \in data_ \/ buffer[a] # Null THEN mapped \ {mem_[a]}
               ELSE mapped
  /\ data_' = data_ \ {a}
  /\ UNCHANGED <<property_flags, pc, self, allocVars>>

(* MUTANT of MoveConstruct: the moved-from HostArray keeps its data_.      *)
MoveKeepsData(a, b) ==
  /\ pc = "idle"
  /\ a \in alive /\ b \notin alive
  /\ Kind[a] = Kind[b]
  /\ alive' = alive \cup {b}
  /\ buffer' = [buffer EXCEPT ![b] = buffer[a], ![a] = Null]
  /\ mem_' = [mem_ EXCEPT ![b] = mem_[a]]
  /\ flags_' = [flags_ EXCEPT ![b] = flags_[a]]
  /\ data_' = IF a \in data_ THEN data_ \cup {b} ELSE data_
  /\ want' = [want EXCEPT ![b] = want[a]]
  /\ refused' = [refused EXCEPT ![b] = refused[a]]
  /\ UNCHANGED <<property_flags, deviceVars, pc, self, allocVars>>

(* The move constructors.  What is left behind owns nothing, but still has *)
(* the memory handle and the flags.                                        *)
MoveConstruct(a, b) ==
  /\ pc = "idle"
  /\ a \in alive /\ b \notin alive
  /\ Kind[a] = Kind[b]
  /\ alive' = alive \cup {b}
  /\ buffer' = [buffer EXCEPT ![b] = buffer[a], ![a] = Null]
  /\ mem_' = [mem_ EXCEPT ![b] = mem_[a]]
  /\ flags_' = [flags_ EXCEPT ![b] = flags_[a]]
  /\ data_' = IF a \in data_ THEN (data_ \cup {b}) \ {a} ELSE data_
  /\ want' = [want EXCEPT ![b] = want[a]]
  /\ refused' = [refused EXCEPT ![b] = refused[a]]
  /\ UNCHANGED <<property_flags, deviceVars, pc, self, allocVars>>

-----------------------------------------------------------------------------
Client ==
  \/ \E a \in Arrays, properties \in Wanted : Construct(a, properties)
  \/ \E a \in Arrays : Destroy(a)
  \/ \E a, b \in Arrays : MoveConstruct(a, b)

Constructor ==
  \/ FindMemory \/ AllocateMemory \/ AllocateFails
  \/ BindBufferMemory \/ MapMemory \/ BindOrMapFails \/ Throw

Next == Client \/ Constructor

(* The thread keeps executing inside a constructor.                        *)
Spec == Init /\ [][Next]_vars /\ WF_vars(Constructor)

-----------------------------------------------------------------------------
(* What every state looks like.  The last conjunct is the assertion in     *)
(* AllocDevice::mem_id(), that it is asked only for a type that was found. *)
TypeOK ==
  /\ property_flags \in [Types -> SUBSET Flags]
  /\ type_bits \in [Buffers -> SUBSET Types]
  /\ mem_type \in [Memories -> Types \cup {NoType}]
  /\ mapped \subseteq Memories
  /\ alive \subseteq Arrays
  /\ buffer \in [Arrays -> Buffers \cup {Null}]
  /\ mem_ \in [Arrays -> Memories \cup {Null}]
  /\ flags_ \in [Arrays -> SUBSET Flags]
  /\ data_ \subseteq Arrays
  /\ want \in [Arrays -> SUBSET Flags]
  /\ refused \in [Arrays -> SUBSET Types]
  /\ pc \in {"idle", "find", "allocate", "bind", "map", "throw"}
  /\ self \in Arrays \cup {Null}
  /\ frames \subseteq Kinds
  /\ level \in Kinds \cup {"void"}
  /\ probe \in Kinds \cup {"void"}
  /\ mem_id \in [Kinds -> Types \cup {NoType}]
  /\ pc \in {"allocate", "bind", "map"} => mem_id[level] \in Types

(* The arrays that have their memory: a buffer handle of their own, and a  *)
(* constructor that got past the allocation.                               *)
Holds(a) ==
  /\ buffer[a] # Null
  /\ \/ a \in alive
     \/ a = self /\ pc \in {"bind", "map"}

TypeOf(a) == mem_type[mem_[a]]

(* isHostVisible tells the truth: flags_ are the properties of the memory  *)
(* the array really has, also when a fallback had to provide it.  By them  *)
(* DeviceArray decides whether to map its memory or to go through a stage. *)
FlagsTell ==
  \A a \in Arrays : Holds(a) => flags_[a] = property_flags[TypeOf(a)]

(* The memory fits: its type is one the buffer accepts and it has all the  *)
(* extra properties the constructor was given, at whatever level of the    *)
(* chain it was found.                                                     *)
MemorySuitsBuffer ==
  \A a \in Arrays : Holds(a) =>
    /\ TypeOf(a) \in type_bits[buffer[a]]
    /\ want[a] \subseteq property_flags[TypeOf(a)]

(* Only host visible memory is ever mapped, and it stays allocated and     *)
(* mapped as long as some HostArray has a pointer to it, no longer.        *)
MappedForHostArrays ==
  /\ \A m \in mapped :
       mem_type[m] # NoType /\ "hostVisible" \in property_flags[mem_type[m]]
  /\ mapped = {mem_[a] : a \in data_}

(* Everything is owned exactly once: each buffer and each allocation of    *)
(* the device by one array, or by the constructor in progress.  Nothing    *)
(* leaks when a constructor throws, and nothing is released twice.         *)
OwnedOnce ==
  /\ \A a, b \in Arrays : a # b /\ buffer[a] # Null =>
       buffer[a] # buffer[b]
  /\ \A a, b \in Arrays : a # b /\ Holds(a) /\ Holds(b) => mem_[a] # mem_[b]
  /\ \A h \in Buffers : type_bits[h] # {} =>
       \E a \in alive \cup {self} : a \in Arrays /\ buffer[a] = h
  /\ \A m \in Memories : mem_type[m] # NoType =>
       \E a \in alive \cup {self} :
         a \in Arrays /\ buffer[a] # Null /\ mem_[a] = m

(* What selectMemory answers for the properties of kind k and for those    *)
(* the constructor of a was given.                                         *)
FirstChoice(a, k) ==
  SelectMemory(type_bits[buffer[a]], PropsMemory[k] \cup want[a])

(* How far a fallback goes.  An array has the first type that suits its    *)
(* own kind, or else the first that suits the one fallback of its kind,    *)
(* and this only if the former does not exist or was refused to this very  *)
(* array.  That is not a last resort: a second type that suits the array's *)
(* own kind is not tried when the first is refused.                        *)
WeakerOnlyIfRefused ==
  \A a \in Arrays : Holds(a) /\ TypeOf(a) # FirstChoice(a, Kind[a]) =>
    /\ FirstChoice(a, Kind[a]) \in refused[a] \cup {NoType}
    /\ Fallback[Kind[a]] # "void"
    /\ TypeOf(a) = FirstChoice(a, Fallback[Kind[a]])

(* Every constructor ends, with an array or with an exception: the chain   *)
(* of fallbacks is finite, however often an allocation fails.              *)
ConstructorEnds == pc # "idle" ~> pc = "idle"
=============================================================================
