-------------------------- MODULE DeviceReplacement -------------------------
(***************************************************************************)
(* Move assignment of arrays and programs.  Their member device_ is a      *)
(* reference, so that device_ = other.device_ assigns the Device itself,   *)
(* which all other arrays and programs on it share: it is given a copy,    *)
(* a new VkDevice, and the VkDevice it had is destroyed.  A HostArray is   *)
(* assigned by std::swap of its base, which does so twice.                 *)
(*                                                                         *)
(* Of each object one handle is kept here, the one that a move takes out   *)
(* of the object moved from: an array's buffer, which decides whether it   *)
(* releases buffer and memory, and a program's shader_.  A program's other *)
(* six handles, which moves and move assignments leave in both programs,   *)
(* are in ProgramHandles; the copying of a Device, step by step, is in     *)
(* DeviceHandles.                                                          *)
(***************************************************************************)
EXTENDS FiniteSets

CONSTANTS
  Devices,     \* the Device objects; all exist throughout
  VkDevices,   \* VkDevice handles
  Objects,     \* the arrays and programs a client may have
  Hosts,       \* those that are HostArrays
  Temp,        \* the temporary of std::swap
  Resources,   \* handles of buffers and of shader modules
  Gone,        \* of a resource: its VkDevice was destroyed under it
  Null

Places == Objects \cup {Temp}

ASSUME ReplacementAssumption ==
  /\ Hosts \subseteq Objects
  /\ Temp \notin Objects
  /\ Null \notin VkDevices \cup Devices \cup Resources \cup {Gone}
  /\ Gone \notin VkDevices

VARIABLES
  vk,          \* the VkDevice of each Device object
  live,        \* the VkDevices that exist
  made_on,     \* the VkDevice a resource was made on, Gone, or Null: none
  alive,       \* the objects that exist, the temporary included
  device_,     \* the Device object each refers to, fixed while it exists
  handle,      \* its buffer or its shader_, or Null
  data_,       \* HostArray::data_: whose memory it points into, or Null
  pc,          \* the step of a HostArray's assignment
  left, right, \* its two objects
  terminated,  \* std::terminate has been called
  replaced,    \* history: the Devices that were assigned to
  misuse       \* history: a resource was given to a VkDevice not its own

deviceVars == <<vk, live, replaced>>
objectVars == <<alive, device_, handle, data_>>
callVars == <<pc, left, right>>
vars == <<deviceVars, made_on, objectVars, callVars, terminated, misuse>>

-----------------------------------------------------------------------------
Init ==
  /\ vk \in [Devices -> VkDevices]
  /\ \A d, e \in Devices : vk[d] = vk[e] => d = e
  /\ live = {vk[d] : d \in Devices}
  /\ made_on = [r \in Resources |-> Null]
  /\ alive = {}
  /\ device_ = [x \in Places |-> Null]
  /\ handle = [x \in Places |-> Null]
  /\ data_ = [x \in Places |-> Null]
  /\ pc = "idle"
  /\ left = Temp
  /\ right = Temp
  /\ terminated = FALSE
  /\ replaced = {}
  /\ misuse = FALSE

Idle == pc = "idle" /\ ~terminated

(* The constructors of arrays and programs.                                *)
Construct(x, d) ==
  /\ Idle /\ x \notin alive
  /\ \E r \in Resources :
       /\ made_on[r] = Null
       /\ made_on' = [made_on EXCEPT ![r] = vk[d]]
       /\ handle' = [handle EXCEPT ![x] = r]
       /\ data_' = [data_ EXCEPT ![x] = IF x \in Hosts THEN r ELSE Null]
  /\ alive' = alive \cup {x}
  /\ device_' = [device_ EXCEPT ![x] = d]
  /\ UNCHANGED <<deviceVars, callVars, terminated, misuse>>

(* MUTANT of Free: nothing is given back.                                  *)
FreeNothing(x, on) == on

(* The resources, if on is what they were made on, once x has released its *)
(* own through its Device.  One that is on another VkDevice stays there.   *)
Free(x, on) ==
  IF handle[x] # Null /\ on[handle[x]] \in {vk[device_[x]], Gone}
    THEN [on EXCEPT ![handle[x]] = Null] ELSE on

(* release() and ~HostArray give handles to the Device they refer to.      *)
Foreign(x) ==
  \E r \in {handle[x], data_[x]} \ {Null} : made_on[r] # vk[device_[x]]

ForeignHandle(x) ==
  handle[x] # Null /\ made_on[handle[x]] # vk[device_[x]]

Destroy(x) ==
  /\ Idle /\ x \in alive
  /\ made_on' = Free(x, made_on)
  /\ misuse' = (misuse \/ Foreign(x))
  /\ alive' = alive \ {x}
  /\ device_' = [device_ EXCEPT ![x] = Null]
  /\ handle' = [handle EXCEPT ![x] = Null]
  /\ data_' = [data_ EXCEPT ![x] = Null]
  /\ UNCHANGED <<deviceVars, callVars, terminated>>

(* MUTANT of MoveInto: the object moved from is left as it is.             *)
MoveIntoCopy(y, x) ==
  /\ y \notin alive
  /\ alive' = alive \cup {y}
  /\ device_' = [device_ EXCEPT ![y] = device_[x]]
  /\ handle' = [handle EXCEPT ![y] = handle[x]]

(* The move constructors of BasicArray and, as to shader_, of ProgramBase  *)
(* (program.h:163): both refer to one Device, and the handle leaves x.     *)
MoveInto(y, x) ==
  /\ y \notin alive
  /\ alive' = alive \cup {y}
  /\ device_' = [device_ EXCEPT ![y] = device_[x]]
  /\ handle' = [handle EXCEPT ![y] = handle[x], ![x] = Null]

MoveConstruct(y, x) ==
  /\ Idle /\ x \in alive
  /\ x \in Hosts <=> y \in Hosts
  /\ MoveInto(y, x)
  /\ data_' = [data_ EXCEPT ![y] = data_[x], ![x] = Null]
  /\ UNCHANGED <<deviceVars, made_on, callVars, terminated, misuse>>

-----------------------------------------------------------------------------
(* MUTANT of Replace: the VkDevice of src is shared.                       *)
ReplaceShared(d, src, on) ==
  /\ vk' = [vk EXCEPT ![d] = vk[src]]
  /\ live' = IF vk[d] = vk[src] THEN live ELSE live \ {vk[d]}
  /\ replaced' = replaced \cup {d}
  /\ made_on' = [r \in Resources |->
                   IF on[r] = vk[d] /\ vk[d] # vk[src] THEN Gone ELSE on[r]]

(* Device::operator=(Device): a copy of src with a VkDevice of its own is  *)
(* swapped with d and destroyed, and with it what was made on it.  on is   *)
(* what the resources are on.                                              *)
Replace(d, src, on) ==
  /\ \E v \in VkDevices \ live :
       /\ vk' = [vk EXCEPT ![d] = v]
       /\ live' = (live \cup {v}) \ {vk[d]}
  /\ replaced' = replaced \cup {d}
  /\ made_on' = [r \in Resources |->
                   IF on[r] = vk[d] THEN Gone ELSE on[r]]

(* BasicArray::operator= and ProgramBase::operator=: x releases what it    *)
(* has, its Device is replaced by a copy of that of y, and it takes over   *)
(* the buffer or the shader_ of y.                                         *)
AssignBase(x, y) ==
  /\ misuse' = (misuse \/ ForeignHandle(x))
  /\ Replace(device_[x], device_[y], Free(x, made_on))
  /\ handle' = IF x = y THEN [handle EXCEPT ![x] = Null]
               ELSE [handle EXCEPT ![x] = handle[y], ![y] = Null]

Assign(x, y) ==
  /\ Idle
  /\ x \in alive \ Hosts /\ y \in alive \ Hosts
  /\ AssignBase(x, y)
  /\ UNCHANGED <<alive, device_, data_, callVars, terminated>>

(* HostArray::operator=(HostArray &&) is swap: std::swap of the base       *)
(* moves left into a temporary, ...                                        *)
SwapHost(x, y) ==
  /\ Idle
  /\ x \in alive \cap Hosts /\ y \in alive \cap Hosts
  /\ left' = x
  /\ right' = y
  /\ pc' = "right to left"
  /\ MoveInto(Temp, x)
  /\ UNCHANGED <<deviceVars, made_on, data_, terminated, misuse>>

(* ... right to left, ...                                                  *)
RightToLeft ==
  /\ pc = "right to left" /\ ~terminated
  /\ AssignBase(left, right)
  /\ pc' = "temporary to right"
  /\ UNCHANGED <<alive, device_, data_, left, right, terminated>>

Leave ==
  /\ pc' = "idle"
  /\ left' = Temp
  /\ right' = Temp

(* MUTANT of TempToRight: the pointers are not exchanged.                  *)
TempToRightOnly ==
  /\ pc = "temporary to right" /\ ~terminated
  /\ AssignBase(right, Temp)
  /\ alive' = alive \ {Temp}
  /\ device_' = [device_ EXCEPT ![Temp] = Null]
  /\ Leave
  /\ UNCHANGED <<data_, terminated>>

(* MUTANT of TempToRight: the temporary is not destroyed.                  *)
TempKept ==
  /\ pc = "temporary to right" /\ ~terminated
  /\ AssignBase(right, Temp)
  /\ data_' = [data_ EXCEPT ![left] = data_[right], ![right] = data_[left]]
  /\ Leave
  /\ UNCHANGED <<alive, device_, terminated>>

(* ... and the temporary, which then dies empty, to right; the pointers    *)
(* are exchanged.                                                          *)
TempToRight ==
  /\ pc = "temporary to right" /\ ~terminated
  /\ AssignBase(right, Temp)
  /\ data_' = [data_ EXCEPT ![left] = data_[right], ![right] = data_[left]]
  /\ alive' = alive \ {Temp}
  /\ device_' = [device_ EXCEPT ![Temp] = Null]
  /\ Leave
  /\ UNCHANGED terminated

(* Copying the Device throws when x, which is being assigned to, has       *)
(* released what it had.  Its members are half copied then, which the      *)
(* model does not show: nothing looks at them any more.                    *)
Released(x) ==
  /\ made_on' = Free(x, made_on)
  /\ handle' = [handle EXCEPT ![x] = Null]
  /\ misuse' = (misuse \/ ForeignHandle(x))

(* The operators are noexcept: the exception ends the program.             *)
CopyThrows ==
  /\ ~terminated
  /\ \/ pc = "idle" /\ \E x \in alive \ Hosts : Released(x)
     \/ pc = "right to left" /\ Released(left)
     \/ pc = "temporary to right" /\ Released(right)
  /\ terminated' = TRUE
  /\ UNCHANGED <<deviceVars, alive, device_, data_, callVars>>

-----------------------------------------------------------------------------
Client ==
  \/ \E x \in Objects, d \in Devices : Construct(x, d)
  \/ \E x \in Objects : Destroy(x)
  \/ \E x, y \in Objects : \/ MoveConstruct(x, y)
                           \/ Assign(x, y)
                           \/ SwapHost(x, y)

Next == Client \/ RightToLeft \/ TempToRight \/ CopyThrows

Spec == Init /\ [][Next]_vars

-----------------------------------------------------------------------------
(* What every state looks like.                                            *)
TypeOK ==
  /\ vk \in [Devices -> VkDevices]
  /\ live \subseteq VkDevices
  /\ made_on \in [Resources -> VkDevices \cup {Gone, Null}]
  /\ alive \subseteq Places
  /\ device_ \in [Places -> Devices \cup {Null}]
  /\ handle \in [Places -> Resources \cup {Null}]
  /\ data_ \in [Places -> Resources \cup {Null}]
  /\ pc \in {"idle", "right to left", "temporary to right"}
  /\ left \in Places
  /\ right \in Places
  /\ terminated \in BOOLEAN
  /\ replaced \subseteq Devices
  /\ misuse \in BOOLEAN
  /\ Temp \in alive <=> pc # "idle"

(* Every VkDevice belongs to exactly one Device, through any assignments,  *)
(* also where both objects refer to the same Device.  No buffer and no     *)
(* shader module has two owners, and none that exists is without one       *)
(* unless it was released through a VkDevice that is not its own.  (Of a   *)
(* program's other handles ProgramHandles says who may share them.)        *)
OwnedOnce ==
  /\ live = {vk[d] : d \in Devices}
  /\ \A d, e \in Devices : vk[d] = vk[e] => d = e
  /\ \A x, y \in Places :
       handle[x] # Null /\ handle[x] = handle[y] => x = y /\ x \in alive
  /\ \A r \in Resources :
       made_on[r] # Null /\ ~misuse => \E x \in alive : handle[x] = r

(* Handles leave their VkDevice, and are given to another one, only by an  *)
(* assignment that replaced the Device their object refers to: as long as  *)
(* nobody assigns, moves and destructions are right on any Device.         *)
StrandedByAssignOnly ==
  /\ \A x \in alive :
       handle[x] # Null /\ made_on[handle[x]] # vk[device_[x]] =>
         device_[x] \in replaced
  /\ misuse => replaced # {}

(* How far an assignment reaches: when it replaces a Device no object that *)
(* refers to that Device has a usable handle afterwards, neither the one   *)
(* assigned to nor any other.                                              *)
ReplacingStrandsAll ==
  [][\A d \in Devices :
       vk'[d] # vk[d] =>
         \A x \in alive' : device_'[x] = d /\ handle'[x] # Null =>
           made_on'[handle'[x]] # vk'[d]]_vars

(* Between two calls the data_ of a HostArray points into its own memory,  *)
(* although std::swap moves the base and swap() the pointer.               *)
PointerIntoOwnMemory ==
  pc = "idle" => \A x \in alive : data_[x] \in {handle[x], Null}

(* The move assignments are declared noexcept (basic_array.h:75,           *)
(* program.h:176): they let no exception out.                              *)
NoexceptHolds == ~terminated
=============================================================================
