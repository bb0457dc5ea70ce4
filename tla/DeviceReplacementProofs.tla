---------------------- MODULE DeviceReplacementProofs -----------------------
(***************************************************************************)
(* Proofs about DeviceReplacement: for any Devices, objects and resources, *)
(* and any sequence of constructions, moves, swaps and assignments, every  *)
(* VkDevice, buffer and shader module has one owner, only an assignment    *)
(* strands a handle, and it strands all that refer to the Device it        *)
(* replaces.                                                               *)
(***************************************************************************)
EXTENDS DeviceReplacement, TLAPS

(* Every VkDevice belongs to one Device.                                   *)
DevicesOwn ==
  /\ live = {vk[d] : d \in Devices}
  /\ \A d, e \in Devices : vk[d] = vk[e] => d = e

(* A resource is on a VkDevice that exists, unless that was destroyed.     *)
OnLive == \A r \in Resources : made_on[r] \in live \cup {Gone, Null}

(* An object that exists has a Device; what it holds it holds alone, and   *)
(* the resource was not given back; only host arrays have pointers.        *)
Holding ==
  /\ \A x \in alive : device_[x] \in Devices
  /\ \A x \in Places : handle[x] # Null =>
       x \in alive /\ made_on[handle[x]] # Null
  /\ \A x, y \in Places : handle[x] # Null /\ handle[x] = handle[y] => x = y
  /\ \A x \in Places : data_[x] # Null => x \in alive \cap Hosts

(* What was not given back is held, unless a release went astray.          *)
NoneForgotten ==
  ~misuse => \A r \in Resources :
               made_on[r] # Null => \E x \in alive : handle[x] = r

(* A swap in progress is one of two host arrays.  The base of the left one *)
(* is in the temporary and then that of the right one is in the left one,  *)
(* while the pointers stay behind.                                         *)
SwapShape ==
  /\ pc # "idle" =>
       /\ left \in alive \cap Hosts /\ right \in alive \cap Hosts
       /\ data_[left] \in {handle[Temp], Null}
       /\ \A x \in Places \ {left, right} : data_[x] \in {handle[x], Null}
  /\ pc = "right to left" =>
       /\ handle[left] = Null
       /\ left # right => data_[right] \in {handle[right], Null}
  /\ pc = "temporary to right" =>
       /\ handle[right] = Null
       /\ left # right => data_[right] \in {handle[left], Null}

IndInv ==
  /\ TypeOK
  /\ DevicesOwn
  /\ OnLive
  /\ Holding
  /\ NoneForgotten
  /\ SwapShape
  /\ PointerIntoOwnMemory
  /\ StrandedByAssignOnly

-----------------------------------------------------------------------------
LEMMA NullIsNothing ==
  /\ Null \notin VkDevices /\ Null \notin Devices /\ Null \notin Resources
  /\ Null # Gone /\ Gone \notin VkDevices
  /\ Temp \in Places /\ Temp \notin Objects /\ Temp \notin Hosts
  /\ Objects \subseteq Places
  BY ReplacementAssumption DEF Places

(* Releasing gives back what the object holds, if it is on its VkDevice,   *)
(* and changes nothing else.                                               *)
LEMMA FreeStep ==
  ASSUME TypeOK, NEW x \in Places
  PROVE  /\ Free(x, made_on) \in [Resources -> VkDevices \cup {Gone, Null}]
         /\ \A r \in Resources : Free(x, made_on)[r] \in {made_on[r], Null}
         /\ \A r \in Resources :
              r # handle[x] => Free(x, made_on)[r] = made_on[r]
         /\ handle[x] # Null /\ made_on[handle[x]] = vk[device_[x]] =>
              Free(x, made_on)[handle[x]] = Null
<1>1. /\ made_on \in [Resources -> VkDevices \cup {Gone, Null}]
      /\ handle[x] \in Resources \cup {Null}
  BY DEF TypeOK
<1>. QED BY <1>1 DEF Free

(* A Device that is replaced gets a VkDevice of its own; what was made on  *)
(* the old one is gone, the rest stays where it is.                        *)
LEMMA ReplaceStep ==
  ASSUME TypeOK, DevicesOwn, NEW d \in Devices, NEW src,
         NEW on \in [Resources -> VkDevices \cup {Gone, Null}],
         \A r \in Resources : on[r] \in live \cup {Gone, Null},
         Replace(d, src, on)
  PROVE  \E v \in VkDevices \ live :
           /\ vk' = [vk EXCEPT ![d] = v]
           /\ vk' \in [Devices -> VkDevices] /\ live' \subseteq VkDevices
           /\ DevicesOwn'
           /\ replaced' = replaced \cup {d}
           /\ made_on' \in [Resources -> VkDevices \cup {Gone, Null}]
           /\ OnLive'
           /\ \A r \in Resources :
                /\ made_on'[r] # v
                /\ made_on'[r] = Null <=> on[r] = Null
                /\ on[r] # vk[d] => made_on'[r] = on[r]
<1>1. PICK v \in VkDevices \ live :
        /\ vk' = [vk EXCEPT ![d] = v]
        /\ live' = (live \cup {v}) \ {vk[d]}
  BY DEF Replace
<1>2. /\ replaced' = replaced \cup {d}
      /\ made_on' = [r \in Resources |-> IF on[r] = vk[d] THEN Gone ELSE on[r]]
  BY DEF Replace
<1>3. vk \in [Devices -> VkDevices] /\ live \subseteq VkDevices
  BY DEF TypeOK
<1>4. /\ vk' \in [Devices -> VkDevices] /\ vk'[d] = v
      /\ \A e \in Devices : e # d => vk'[e] = vk[e]
  BY <1>1, <1>3
<1>5. DevicesOwn'
  <2>1. \A e \in Devices : vk[e] \in live /\ v # vk[e]
    BY DEF DevicesOwn
  <2>2. \A e, f \in Devices : vk'[e] = vk'[f] => e = f
    BY <1>4, <2>1 DEF DevicesOwn
  <2>3. live' \subseteq {vk'[e] : e \in Devices}
    <3> SUFFICES ASSUME NEW w \in live' PROVE \E e \in Devices : w = vk'[e]
      OBVIOUS
    <3>1. CASE w = v
      BY <1>4, <3>1
    <3>2. CASE w # v
      <4>1. w \in live /\ w # vk[d]
        BY <1>1, <3>2
      <4>2. PICK e \in Devices : w = vk[e]
        BY <4>1 DEF DevicesOwn
      <4>. QED BY <1>4, <4>1, <4>2
    <3>. QED BY <3>1, <3>2
  <2>4. \A e \in Devices : vk'[e] \in live'
    BY <1>1, <1>4, <2>1 DEF DevicesOwn
  <2>5. live' = {vk'[e] : e \in Devices}
    BY <2>3, <2>4
  <2>. QED BY <2>2, <2>5 DEF DevicesOwn
<1>6. vk[d] \in VkDevices /\ vk[d] \in live
  BY <1>3 DEF DevicesOwn
<1>7. \A r \in Resources :
        /\ made_on'[r] # v
        /\ made_on'[r] = Null <=> on[r] = Null
        /\ on[r] # vk[d] => made_on'[r] = on[r]
        /\ made_on'[r] \in live' \cup {Gone, Null}
  BY <1>1, <1>2, <1>6, NullIsNothing
<1>8. made_on' \in [Resources -> VkDevices \cup {Gone, Null}]
  BY <1>2
<1>9. OnLive'
  BY <1>7 DEF OnLive
<1>10. live' \subseteq VkDevices
  BY <1>1, <1>3
<1>. QED BY <1>1, <1>2, <1>4, <1>5, <1>7, <1>8, <1>9, <1>10

(* What an assignment of y to x does to Devices and resources.             *)
LEMMA AssignDevices ==
  ASSUME TypeOK, DevicesOwn, OnLive, Holding,
         NEW x \in alive, NEW y \in alive, AssignBase(x, y)
  PROVE  \E v \in VkDevices \ live, d \in Devices :
           /\ d = device_[x]
           /\ vk' = [vk EXCEPT ![d] = v]
           /\ vk' \in [Devices -> VkDevices] /\ live' \subseteq VkDevices
           /\ DevicesOwn'
           /\ replaced' = replaced \cup {d}
           /\ made_on' \in [Resources -> VkDevices \cup {Gone, Null}]
           /\ OnLive'
           /\ \A r \in Resources :
                /\ made_on'[r] # v
                /\ made_on[r] = Null => made_on'[r] = Null
                /\ r # handle[x] /\ made_on[r] # Null => made_on'[r] # Null
                /\ r # handle[x] /\ made_on[r] # vk[d] => made_on'[r] = made_on[r]
           /\ handle[x] # Null /\ made_on[handle[x]] = vk[d] =>
                made_on'[handle[x]] = Null
<1>1. x \in Places
  BY DEF TypeOK
<1>2. PICK d \in Devices : d = device_[x]
  BY DEF Holding
<1>3. PICK on : on = Free(x, made_on)
  OBVIOUS
<1>4. /\ on \in [Resources -> VkDevices \cup {Gone, Null}]
      /\ \A r \in Resources : on[r] \in {made_on[r], Null}
      /\ \A r \in Resources : r # handle[x] => on[r] = made_on[r]
      /\ handle[x] # Null /\ made_on[handle[x]] = vk[d] => on[handle[x]] = Null
  BY <1>1, <1>2, <1>3, FreeStep
<1>5. \A r \in Resources : on[r] \in live \cup {Gone, Null}
  BY <1>4 DEF OnLive
<1>6. PICK src : src = device_[y]
  OBVIOUS
<1>7. Replace(d, src, on)
  BY <1>2, <1>3, <1>6 DEF AssignBase, Replace
<1>8. PICK v \in VkDevices \ live :
           /\ vk' = [vk EXCEPT ![d] = v]
           /\ vk' \in [Devices -> VkDevices] /\ live' \subseteq VkDevices
           /\ DevicesOwn'
           /\ replaced' = replaced \cup {d}
           /\ made_on' \in [Resources -> VkDevices \cup {Gone, Null}]
           /\ OnLive'
           /\ \A r \in Resources :
                /\ made_on'[r] # v
                /\ made_on'[r] = Null <=> on[r] = Null
                /\ on[r] # vk[d] => made_on'[r] = on[r]
  BY <1>4, <1>5, <1>7, ReplaceStep
<1>9. handle[x] \in Resources \cup {Null}
  BY <1>1 DEF TypeOK
<1>10. ASSUME NEW r \in Resources
       PROVE  /\ made_on'[r] # v
              /\ made_on[r] = Null => made_on'[r] = Null
              /\ r # handle[x] /\ made_on[r] # Null => made_on'[r] # Null
              /\ r # handle[x] /\ made_on[r] # vk[d] => made_on'[r] = made_on[r]
  BY <1>4, <1>8
<1>11. handle[x] # Null /\ made_on[handle[x]] = vk[d] =>
         made_on'[handle[x]] = Null
  BY <1>4, <1>8, <1>9
<1>. QED BY <1>2, <1>8, <1>10, <1>11

(* The same for what the objects hold: x takes over what y has, and y is   *)
(* left without.                                                           *)
LEMMA AssignHandles ==
  ASSUME TypeOK, Holding, NEW x \in alive, NEW y \in alive, AssignBase(x, y)
  PROVE  /\ handle' \in [Places -> Resources \cup {Null}]
         /\ x # y => handle'[x] = handle[y]
         /\ handle'[y] = Null
         /\ \A z \in Places : z # x /\ z # y => handle'[z] = handle[z]
         /\ \A z \in Places : handle'[z] # Null =>
              /\ z \in alive /\ z # y
              /\ handle'[z] # handle[x]
              /\ made_on[handle'[z]] # Null
         /\ \A w, z \in Places :
              handle'[w] # Null /\ handle'[w] = handle'[z] => w = z
<1>1. /\ handle \in [Places -> Resources \cup {Null}]
      /\ x \in Places /\ y \in Places
  BY DEF TypeOK
<1>2. /\ handle' \in [Places -> Resources \cup {Null}]
      /\ x # y => handle'[x] = handle[y]
      /\ handle'[y] = Null
      /\ \A z \in Places : z # x /\ z # y => handle'[z] = handle[z]
  BY <1>1 DEF AssignBase
<1>3. ASSUME NEW z \in Places, handle'[z] # Null
      PROVE  /\ z \in alive /\ z # y
             /\ handle'[z] # handle[x]
             /\ made_on[handle'[z]] # Null
  <2>1. z # y
    BY <1>2, <1>3
  <2>2. CASE z = x
    BY <1>1, <1>2, <1>3, <2>1, <2>2 DEF Holding
  <2>3. CASE z # x
    BY <1>1, <1>2, <1>3, <2>1, <2>3 DEF Holding
  <2>. QED BY <2>2, <2>3
<1>4. ASSUME NEW w \in Places, NEW z \in Places,
             handle'[w] # Null, handle'[w] = handle'[z]
      PROVE  w = z
  <2>1. w # y /\ z # y
    BY <1>2, <1>4
  <2>2. \A u, t \in Places : handle[u] # Null /\ handle[u] = handle[t] => u = t
    BY DEF Holding
  <2>. QED BY <1>1, <1>2, <1>4, <2>1, <2>2
<1>. QED BY <1>2, <1>3, <1>4

(* An assignment of y to x keeps every part of the invariant that does not *)
(* depend on where the swap is; whatever has the replaced Device and holds *)
(* something, holds what was stranded.                                     *)
LEMMA AssignStep ==
  ASSUME TypeOK, DevicesOwn, OnLive, Holding, NoneForgotten,
         StrandedByAssignOnly,
         NEW x \in alive, NEW y \in alive, AssignBase(x, y)
  PROVE  /\ vk' \in [Devices -> VkDevices] /\ live' \subseteq VkDevices
         /\ made_on' \in [Resources -> VkDevices \cup {Gone, Null}]
         /\ replaced' \subseteq Devices /\ misuse' \in BOOLEAN
         /\ DevicesOwn' /\ OnLive'
         /\ \A z \in Places : handle'[z] # Null => made_on'[handle'[z]] # Null
         /\ ~misuse' => \A r \in Resources :
              made_on'[r] # Null => \E z \in alive \ {y} : handle'[z] = r
         /\ \A z \in alive :
              handle'[z] # Null /\ made_on'[handle'[z]] # vk'[device_[z]] =>
                device_[z] \in replaced'
         /\ misuse' => replaced' # {}
         /\ \A e \in Devices : vk'[e] # vk[e] =>
              \A z \in alive : device_[z] = e /\ handle'[z] # Null =>
                made_on'[handle'[z]] # vk'[e]
<1>1. /\ handle \in [Places -> Resources \cup {Null}]
      /\ alive \subseteq Places /\ x \in Places /\ y \in Places
      /\ vk \in [Devices -> VkDevices]
  BY DEF TypeOK
<1>2. PICK v \in VkDevices \ live, d \in Devices :
           /\ d = device_[x]
           /\ vk' = [vk EXCEPT ![d] = v]
           /\ vk' \in [Devices -> VkDevices] /\ live' \subseteq VkDevices
           /\ DevicesOwn'
           /\ replaced' = replaced \cup {d}
           /\ made_on' \in [Resources -> VkDevices \cup {Gone, Null}]
           /\ OnLive'
           /\ \A r \in Resources :
                /\ made_on'[r] # v
                /\ made_on[r] = Null => made_on'[r] = Null
                /\ r # handle[x] /\ made_on[r] # Null => made_on'[r] # Null
                /\ r # handle[x] /\ made_on[r] # vk[d] => made_on'[r] = made_on[r]
           /\ handle[x] # Null /\ made_on[handle[x]] = vk[d] =>
                made_on'[handle[x]] = Null
  BY AssignDevices
<1>3. misuse' = (misuse \/ (handle[x] # Null /\ made_on[handle[x]] # vk[d]))
  BY <1>2 DEF AssignBase, ForeignHandle
<1>4. /\ handle' \in [Places -> Resources \cup {Null}]
      /\ x # y => handle'[x] = handle[y]
      /\ handle'[y] = Null
      /\ \A z \in Places : z # x /\ z # y => handle'[z] = handle[z]
      /\ \A z \in Places : handle'[z] # Null =>
           /\ z \in alive /\ z # y
           /\ handle'[z] # handle[x]
           /\ made_on[handle'[z]] # Null
  BY AssignHandles
<1>5. /\ vk'[d] = v
      /\ \A e \in Devices : e # d => vk'[e] = vk[e]
  BY <1>1, <1>2
<1>6. ASSUME NEW z \in Places, handle'[z] # Null
      PROVE  made_on'[handle'[z]] # Null
  BY <1>2, <1>4, <1>6
<1>7. ASSUME ~misuse', NEW r \in Resources, made_on'[r] # Null
      PROVE  \E z \in alive \ {y} : handle'[z] = r
  <2>1. ~misuse /\ made_on[r] # Null
    BY <1>2, <1>3, <1>7
  <2>2. PICK z \in alive : handle[z] = r
    BY <2>1 DEF NoneForgotten
  <2>3. r # Null
    BY NullIsNothing
  <2>4. z # x
    BY <1>2, <1>3, <1>7, <2>2, <2>3
  <2>. QED BY <1>1, <1>4, <2>2, <2>3, <2>4
<1>8. ASSUME NEW z \in alive, handle'[z] # Null,
             made_on'[handle'[z]] # vk'[device_[z]]
      PROVE  device_[z] \in replaced'
  <2>1. z \in Places /\ device_[z] \in Devices
    BY <1>1 DEF Holding
  <2>2. CASE device_[z] = d
    BY <1>2, <2>2
  <2>3. CASE device_[z] # d
    <3>1. z # x /\ z # y /\ handle'[z] = handle[z] /\ handle[z] # handle[x]
      BY <1>2, <1>4, <1>8, <2>1, <2>3
    <3>2. vk'[device_[z]] = vk[device_[z]] /\ vk[device_[z]] # vk[d]
      BY <1>5, <2>1, <2>3 DEF DevicesOwn
    <3>3. handle[z] \in Resources
      BY <1>1, <1>8, <2>1, <3>1
    <3>4. made_on[handle[z]] # vk[device_[z]]
      BY <1>2, <1>8, <3>1, <3>2, <3>3
    <3>. QED BY <1>2, <1>8, <3>1, <3>4 DEF StrandedByAssignOnly
  <2>. QED BY <2>2, <2>3
<1>9. misuse' \in BOOLEAN
  BY <1>3 DEF TypeOK
<1>10. replaced' \subseteq Devices /\ replaced' # {}
  BY <1>2 DEF TypeOK
<1>11. ASSUME NEW e \in Devices, vk'[e] # vk[e], NEW z \in alive,
              device_[z] = e, handle'[z] # Null
       PROVE  made_on'[handle'[z]] # vk'[e]
  <2>1. vk'[e] = v
    BY <1>5, <1>11
  <2>2. handle'[z] \in Resources
    BY <1>1, <1>4, <1>11
  <2>. QED BY <1>2, <2>1, <2>2
<1>. QED BY <1>2, <1>6, <1>7, <1>8, <1>9, <1>10, <1>11

-----------------------------------------------------------------------------
LEMMA InitInv == Init => IndInv
<1> SUFFICES ASSUME Init PROVE IndInv
  OBVIOUS
<1> USE DEF Init
<1>1. TypeOK
  BY NullIsNothing DEF TypeOK
<1>2. DevicesOwn /\ OnLive /\ Holding /\ NoneForgotten
  BY DEF DevicesOwn, OnLive, Holding, NoneForgotten
<1>3. SwapShape /\ PointerIntoOwnMemory /\ StrandedByAssignOnly
  BY DEF SwapShape, PointerIntoOwnMemory, StrandedByAssignOnly
<1>. QED BY <1>1, <1>2, <1>3 DEF IndInv

LEMMA ConstructInv ==
  ASSUME IndInv, NEW x \in Objects, NEW d \in Devices, Construct(x, d)
  PROVE  IndInv'
<1> USE DEF IndInv
<1>1. PICK r \in Resources :
        /\ made_on[r] = Null
        /\ made_on' = [made_on EXCEPT ![r] = vk[d]]
        /\ handle' = [handle EXCEPT ![x] = r]
        /\ data_' = [data_ EXCEPT ![x] = IF x \in Hosts THEN r ELSE Null]
  BY DEF Construct
<1>2. /\ pc = "idle" /\ x \notin alive
      /\ alive' = alive \cup {x} /\ device_' = [device_ EXCEPT ![x] = d]
      /\ UNCHANGED <<vk, live, replaced, pc, left, right, terminated, misuse>>
  BY DEF Construct, Idle, deviceVars, callVars
<1>3. /\ vk \in [Devices -> VkDevices] /\ vk[d] \in VkDevices
      /\ made_on \in [Resources -> VkDevices \cup {Gone, Null}]
      /\ device_ \in [Places -> Devices \cup {Null}]
      /\ handle \in [Places -> Resources \cup {Null}]
      /\ data_ \in [Places -> Resources \cup {Null}]
      /\ alive \subseteq Places /\ x \in Places /\ x # Temp
  BY NullIsNothing DEF TypeOK
<1>4. /\ made_on' \in [Resources -> VkDevices \cup {Gone, Null}]
      /\ made_on'[r] = vk[d]
      /\ \A s \in Resources : s # r => made_on'[s] = made_on[s]
  BY <1>1, <1>3
<1>5. /\ device_' \in [Places -> Devices \cup {Null}]
      /\ device_'[x] = d
      /\ \A z \in Places : z # x => device_'[z] = device_[z]
  BY <1>2, <1>3
<1>6. /\ handle' \in [Places -> Resources \cup {Null}]
      /\ handle'[x] = r
      /\ \A z \in Places : z # x => handle'[z] = handle[z]
  BY <1>1, <1>3
<1>7. /\ data_' \in [Places -> Resources \cup {Null}]
      /\ data_'[x] = IF x \in Hosts THEN r ELSE Null
      /\ \A z \in Places : z # x => data_'[z] = data_[z]
  BY <1>1, <1>3
<1>8. TypeOK'
  BY <1>2, <1>3, <1>4, <1>5, <1>6, <1>7 DEF TypeOK
<1>9. DevicesOwn' /\ OnLive'
  BY <1>2, <1>4 DEF DevicesOwn, OnLive
<1>10. \A z \in Places : handle[z] # r
  BY <1>1, NullIsNothing DEF Holding
<1>11. \A z \in Places : handle[z] # Null => handle[z] \in Resources
  BY <1>3
<1>12. Holding'
  <2>1. \A z \in alive' : device_'[z] \in Devices
    BY <1>2, <1>3, <1>5 DEF Holding
  <2>2. \A z \in Places : handle'[z] # Null =>
          z \in alive' /\ made_on'[handle'[z]] # Null
    BY <1>2, <1>3, <1>4, <1>6, <1>10, <1>11, NullIsNothing DEF Holding
  <2>3. \A y, z \in Places : handle'[y] # Null /\ handle'[y] = handle'[z] => y = z
    BY <1>6, <1>10 DEF Holding
  <2>4. \A z \in Places : data_'[z] # Null => z \in alive' \cap Hosts
    BY <1>2, <1>7 DEF Holding
  <2>. QED BY <2>1, <2>2, <2>3, <2>4 DEF Holding
<1>13. NoneForgotten'
  <2> SUFFICES ASSUME ~misuse', NEW s \in Resources, made_on'[s] # Null
               PROVE  \E z \in alive' : handle'[z] = s
    BY DEF NoneForgotten
  <2>1. CASE s = r
    BY <1>2, <1>6, <2>1
  <2>2. CASE s # r
    <3>1. PICK z \in alive : handle[z] = s
      BY <1>2, <1>4, <2>2 DEF NoneForgotten
    <3>. QED BY <1>2, <1>3, <1>6, <3>1
  <2>. QED BY <2>1, <2>2
<1>14. SwapShape'
  BY <1>2 DEF SwapShape
<1>15. PointerIntoOwnMemory'
  BY <1>2, <1>3, <1>6, <1>7 DEF PointerIntoOwnMemory
<1>16. StrandedByAssignOnly'
  <2>1. ASSUME NEW z \in alive', handle'[z] # Null,
               made_on'[handle'[z]] # vk'[device_'[z]]
        PROVE  device_'[z] \in replaced'
    <3>1. z # x
      BY <1>2, <1>4, <1>5, <1>6, <2>1
    <3>2. z \in alive /\ z \in Places /\ handle'[z] = handle[z]
          /\ handle[z] # r /\ device_'[z] = device_[z]
      BY <1>2, <1>3, <1>5, <1>6, <1>10, <3>1
    <3>. QED BY <1>2, <1>4, <1>11, <2>1, <3>2 DEF StrandedByAssignOnly
  <2>. QED BY <1>2, <2>1 DEF StrandedByAssignOnly
<1>. QED BY <1>8, <1>9, <1>12, <1>13, <1>14, <1>15, <1>16

LEMMA DestroyInv ==
  ASSUME IndInv, NEW x \in Objects, Destroy(x)
  PROVE  IndInv'
<1> USE DEF IndInv
<1>1. /\ pc = "idle" /\ x \in alive
      /\ made_on' = Free(x, made_on)
      /\ misuse' = (misuse \/ Foreign(x))
      /\ alive' = alive \ {x}
      /\ UNCHANGED <<vk, live, replaced, pc, left, right, terminated>>
  BY DEF Destroy, Idle, deviceVars, callVars
<1>2. /\ device_ \in [Places -> Devices \cup {Null}]
      /\ handle \in [Places -> Resources \cup {Null}]
      /\ data_ \in [Places -> Resources \cup {Null}]
      /\ alive \subseteq Places /\ x \in Places /\ x # Temp
  BY NullIsNothing DEF TypeOK
<1>3. /\ device_' \in [Places -> Devices \cup {Null}]
      /\ \A z \in Places : z # x => device_'[z] = device_[z]
  BY <1>2 DEF Destroy
<1>4. /\ handle' \in [Places -> Resources \cup {Null}]
      /\ handle'[x] = Null
      /\ \A z \in Places : z # x => handle'[z] = handle[z]
  BY <1>2 DEF Destroy
<1>5. /\ data_' \in [Places -> Resources \cup {Null}]
      /\ data_'[x] = Null
      /\ \A z \in Places : z # x => data_'[z] = data_[z]
  BY <1>2 DEF Destroy
<1>6. /\ made_on' \in [Resources -> VkDevices \cup {Gone, Null}]
      /\ \A r \in Resources : made_on'[r] \in {made_on[r], Null}
      /\ \A r \in Resources : r # handle[x] => made_on'[r] = made_on[r]
      /\ handle[x] # Null /\ made_on[handle[x]] = vk[device_[x]] =>
           made_on'[handle[x]] = Null
  BY <1>1, <1>2, FreeStep
<1>7. TypeOK'
  <2>1. misuse' \in BOOLEAN
    BY <1>1 DEF TypeOK, Foreign
  <2>. QED BY <1>1, <1>2, <1>3, <1>4, <1>5, <1>6, <2>1 DEF TypeOK
<1>8. DevicesOwn' /\ OnLive'
  BY <1>1, <1>6 DEF DevicesOwn, OnLive
<1>9. ASSUME NEW z \in Places, handle'[z] # Null
      PROVE  /\ z # x /\ z \in alive' /\ handle'[z] = handle[z]
             /\ made_on'[handle[z]] = made_on[handle[z]]
             /\ made_on[handle[z]] # Null
  <2>1. z # x /\ handle'[z] = handle[z] /\ handle[z] # Null
    BY <1>4, <1>9
  <2>2. z \in alive /\ handle[z] # handle[x] /\ made_on[handle[z]] # Null
    BY <1>2, <2>1 DEF Holding
  <2>. QED BY <1>1, <1>2, <1>6, <2>1, <2>2
<1>10. Holding'
  <2>1. \A z \in alive' : device_'[z] \in Devices
    BY <1>1, <1>2, <1>3 DEF Holding
  <2>2. \A y, z \in Places : handle'[y] # Null /\ handle'[y] = handle'[z] => y = z
    BY <1>9 DEF Holding
  <2>3. \A z \in Places : data_'[z] # Null => z \in alive' \cap Hosts
    BY <1>1, <1>5 DEF Holding
  <2>. QED BY <1>9, <2>1, <2>2, <2>3 DEF Holding
<1>11. NoneForgotten'
  <2> SUFFICES ASSUME ~misuse', NEW s \in Resources, made_on'[s] # Null
               PROVE  \E z \in alive' : handle'[z] = s
    BY DEF NoneForgotten
  <2>1. PICK z \in alive : handle[z] = s
    BY <1>1, <1>6 DEF NoneForgotten
  <2>2. handle[x] # Null => made_on[handle[x]] = vk[device_[x]]
    BY <1>1 DEF Foreign
  <2>3. z # x
    BY <1>6, <2>1, <2>2, NullIsNothing
  <2>. QED BY <1>1, <1>2, <1>4, <2>1, <2>3
<1>12. SwapShape'
  BY <1>1 DEF SwapShape
<1>13. PointerIntoOwnMemory'
  BY <1>1, <1>2, <1>4, <1>5 DEF PointerIntoOwnMemory
<1>14. StrandedByAssignOnly'
  <2>1. \A z \in alive' : z \in Places /\ z \in alive /\ device_'[z] = device_[z]
    BY <1>1, <1>2, <1>3
  <2>2. \A z \in alive' :
          handle'[z] # Null /\ made_on'[handle'[z]] # vk'[device_'[z]] =>
            device_'[z] \in replaced'
    BY <1>1, <1>9, <2>1 DEF StrandedByAssignOnly
  <2>3. Foreign(x) => replaced # {}
    <3>1. data_[x] \in {handle[x], Null}
      BY <1>1 DEF PointerIntoOwnMemory
    <3>. QED BY <1>1, <3>1 DEF Foreign, StrandedByAssignOnly
  <2>4. misuse' => replaced' # {}
    BY <1>1, <2>3 DEF StrandedByAssignOnly
  <2>. QED BY <2>2, <2>4 DEF StrandedByAssignOnly
<1>. QED BY <1>7, <1>8, <1>10, <1>11, <1>12, <1>13, <1>14

(* Moving x into y hands on what x holds; nothing is lost and nothing is   *)
(* stranded, both refer to one Device.                                     *)
LEMMA MoveStep ==
  ASSUME IndInv, NEW x \in alive, NEW y \in Places, MoveInto(y, x),
         UNCHANGED <<vk, live, replaced, made_on, misuse>>
  PROVE  /\ y \notin alive /\ x # y /\ alive' = alive \cup {y}
         /\ device_' \in [Places -> Devices \cup {Null}]
         /\ handle' \in [Places -> Resources \cup {Null}]
         /\ handle'[y] = handle[x] /\ handle'[x] = Null
         /\ \A z \in Places : z # x /\ z # y => handle'[z] = handle[z]
         /\ DevicesOwn' /\ OnLive'
         /\ \A z \in alive' : device_'[z] \in Devices
         /\ \A z \in Places : handle'[z] # Null =>
              z \in alive' /\ made_on'[handle'[z]] # Null
         /\ \A w, z \in Places : handle'[w] # Null /\ handle'[w] = handle'[z] => w = z
         /\ NoneForgotten'
         /\ StrandedByAssignOnly'
<1> USE DEF IndInv
<1>1. /\ device_ \in [Places -> Devices \cup {Null}]
      /\ handle \in [Places -> Resources \cup {Null}]
      /\ alive \subseteq Places /\ x \in Places
  BY DEF TypeOK
<1>2. /\ y \notin alive /\ x # y /\ alive' = alive \cup {y}
      /\ device_' = [device_ EXCEPT ![y] = device_[x]]
      /\ handle' = [handle EXCEPT ![y] = handle[x], ![x] = Null]
  BY DEF MoveInto
<1>3. /\ device_' \in [Places -> Devices \cup {Null}]
      /\ device_'[y] = device_[x]
      /\ \A z \in Places : z # y => device_'[z] = device_[z]
  BY <1>1, <1>2
<1>4. /\ handle' \in [Places -> Resources \cup {Null}]
      /\ handle'[y] = handle[x] /\ handle'[x] = Null
      /\ \A z \in Places : z # x /\ z # y => handle'[z] = handle[z]
  BY <1>1, <1>2
<1>5. DevicesOwn' /\ OnLive'
  BY DEF DevicesOwn, OnLive
<1>6. \A z \in alive' : device_'[z] \in Devices
  BY <1>1, <1>2, <1>3 DEF Holding
<1>7. \A z \in Places : handle'[z] # Null =>
        z \in alive' /\ made_on'[handle'[z]] # Null
  BY <1>1, <1>2, <1>4 DEF Holding
<1>8. handle[y] = Null
  BY <1>2 DEF Holding
<1>9. \A w, z \in Places : handle'[w] # Null /\ handle'[w] = handle'[z] => w = z
  <2>1. \A w, z \in Places : handle[w] # Null /\ handle[w] = handle[z] => w = z
    BY DEF Holding
  <2>. QED BY <1>1, <1>2, <1>4, <1>8, <2>1
<1>10. NoneForgotten'
  <2> SUFFICES ASSUME ~misuse', NEW r \in Resources, made_on'[r] # Null
               PROVE  \E z \in alive' : handle'[z] = r
    BY DEF NoneForgotten
  <2>1. PICK z \in alive : handle[z] = r
    BY DEF NoneForgotten
  <2>2. CASE z = x
    BY <1>2, <1>4, <2>1, <2>2
  <2>3. CASE z # x
    BY <1>1, <1>2, <1>4, <2>1, <2>3
  <2>. QED BY <2>2, <2>3
<1>11. StrandedByAssignOnly'
  <2>1. ASSUME NEW z \in alive', handle'[z] # Null,
               made_on'[handle'[z]] # vk'[device_'[z]]
        PROVE  device_'[z] \in replaced'
    <3>1. CASE z = y
      BY <1>3, <1>4, <2>1, <3>1 DEF StrandedByAssignOnly
    <3>2. CASE z # y
      <4>1. z \in alive /\ z \in Places /\ handle'[z] = handle[z]
            /\ device_'[z] = device_[z]
        BY <1>1, <1>2, <1>3, <1>4, <2>1, <3>2
      <4>. QED BY <2>1, <4>1 DEF StrandedByAssignOnly
    <3>. QED BY <3>1, <3>2
  <2>. QED BY <2>1 DEF StrandedByAssignOnly
<1>. QED BY <1>2, <1>3, <1>4, <1>5, <1>6, <1>7, <1>9, <1>10, <1>11

LEMMA MoveInv ==
  ASSUME IndInv, NEW x \in Objects, NEW y \in Objects, MoveConstruct(y, x)
  PROVE  IndInv'
<1> USE DEF IndInv
<1>1. /\ pc = "idle" /\ x \in alive /\ MoveInto(y, x)
      /\ x \in Hosts <=> y \in Hosts
      /\ data_' = [data_ EXCEPT ![y] = data_[x], ![x] = Null]
      /\ UNCHANGED <<vk, live, replaced, made_on, misuse>>
      /\ UNCHANGED <<pc, left, right, terminated>>
  BY DEF MoveConstruct, Idle, deviceVars, callVars
<1>2. /\ x \in Places /\ y \in Places /\ x # Temp /\ y # Temp
  BY NullIsNothing
<1>3. /\ y \notin alive /\ x # y /\ alive' = alive \cup {y}
      /\ device_' \in [Places -> Devices \cup {Null}]
      /\ handle' \in [Places -> Resources \cup {Null}]
      /\ handle'[y] = handle[x] /\ handle'[x] = Null
      /\ \A z \in Places : z # x /\ z # y => handle'[z] = handle[z]
  BY <1>1, <1>2, MoveStep
<1>4. /\ data_' \in [Places -> Resources \cup {Null}]
      /\ data_'[y] = data_[x] /\ data_'[x] = Null
      /\ \A z \in Places : z # x /\ z # y => data_'[z] = data_[z]
  BY <1>1, <1>2, <1>3 DEF TypeOK
<1>5. TypeOK'
  BY <1>1, <1>2, <1>3, <1>4 DEF TypeOK
<1>6. \A z \in Places : data_'[z] # Null => z \in alive' \cap Hosts
  BY <1>1, <1>2, <1>3, <1>4 DEF Holding
<1>7. Holding'
  BY <1>1, <1>2, <1>6, MoveStep DEF Holding
<1>8. SwapShape'
  BY <1>1 DEF SwapShape
<1>9. PointerIntoOwnMemory'
  <2>1. alive \subseteq Places
    BY DEF TypeOK
  <2>. QED BY <1>1, <1>2, <1>3, <1>4, <2>1 DEF PointerIntoOwnMemory
<1>10. DevicesOwn' /\ OnLive' /\ NoneForgotten' /\ StrandedByAssignOnly'
  BY <1>1, <1>2, MoveStep
<1>. QED BY <1>5, <1>7, <1>8, <1>9, <1>10

LEMMA AssignInv ==
  ASSUME IndInv, NEW x \in Objects, NEW y \in Objects, Assign(x, y)
  PROVE  IndInv'
<1> USE DEF IndInv
<1>1. /\ pc = "idle" /\ x \in alive \ Hosts /\ y \in alive \ Hosts
      /\ AssignBase(x, y)
      /\ UNCHANGED <<alive, device_, data_, pc, left, right, terminated>>
  BY DEF Assign, Idle, callVars
<1>2. /\ handle' \in [Places -> Resources \cup {Null}]
      /\ \A z \in Places : z # x /\ z # y => handle'[z] = handle[z]
      /\ \A z \in Places : handle'[z] # Null => z \in alive /\ z # y
      /\ \A w, z \in Places : handle'[w] # Null /\ handle'[w] = handle'[z] => w = z
  BY <1>1, AssignHandles
<1>3. /\ vk' \in [Devices -> VkDevices] /\ live' \subseteq VkDevices
      /\ made_on' \in [Resources -> VkDevices \cup {Gone, Null}]
      /\ replaced' \subseteq Devices /\ misuse' \in BOOLEAN
      /\ DevicesOwn' /\ OnLive'
      /\ \A z \in Places : handle'[z] # Null => made_on'[handle'[z]] # Null
      /\ ~misuse' => \A r \in Resources :
           made_on'[r] # Null => \E z \in alive : handle'[z] = r
      /\ \A z \in alive :
           handle'[z] # Null /\ made_on'[handle'[z]] # vk'[device_[z]] =>
             device_[z] \in replaced'
      /\ misuse' => replaced' # {}
  BY <1>1, AssignStep
<1>4. TypeOK'
  BY <1>1, <1>2, <1>3 DEF TypeOK
<1>5. Holding'
  BY <1>1, <1>2, <1>3 DEF Holding
<1>6. NoneForgotten' /\ StrandedByAssignOnly'
  BY <1>1, <1>3 DEF NoneForgotten, StrandedByAssignOnly
<1>7. SwapShape'
  BY <1>1 DEF SwapShape
<1>8. PointerIntoOwnMemory'
  <2>1. \A z \in alive : z \in Places /\ (data_[z] # Null => z \in Hosts)
    BY DEF TypeOK, Holding
  <2>. QED BY <1>1, <1>2, <2>1 DEF PointerIntoOwnMemory
<1>. QED BY <1>3, <1>4, <1>5, <1>6, <1>7, <1>8

LEMMA SwapInv ==
  ASSUME IndInv, NEW x \in Objects, NEW y \in Objects, SwapHost(x, y)
  PROVE  IndInv'
<1> USE DEF IndInv
<1>1. /\ pc = "idle" /\ x \in alive \cap Hosts /\ y \in alive \cap Hosts
      /\ left' = x /\ right' = y /\ pc' = "right to left"
      /\ MoveInto(Temp, x)
      /\ UNCHANGED <<vk, live, replaced, made_on, misuse>>
      /\ UNCHANGED <<data_, terminated>>
  BY DEF SwapHost, Idle, deviceVars
<1>2. x \in Places /\ y \in Places /\ x # Temp /\ y # Temp /\ Temp \in Places
  BY NullIsNothing
<1>3. /\ alive' = alive \cup {Temp}
      /\ device_' \in [Places -> Devices \cup {Null}]
      /\ handle' \in [Places -> Resources \cup {Null}]
      /\ handle'[Temp] = handle[x] /\ handle'[x] = Null
      /\ \A z \in Places : z # x /\ z # Temp => handle'[z] = handle[z]
  BY <1>1, <1>2, MoveStep
<1>4. TypeOK'
  BY <1>1, <1>2, <1>3 DEF TypeOK
<1>5. \A z \in Places : data_'[z] # Null => z \in alive' \cap Hosts
  BY <1>1, <1>3 DEF Holding
<1>6. Holding'
  BY <1>1, <1>2, <1>5, MoveStep DEF Holding
<1>7. SwapShape'
  <2>1. \A z \in Places : data_[z] \in {handle[z], Null} /\ data_[Temp] = Null
    BY <1>1, <1>2, NullIsNothing DEF Holding, PointerIntoOwnMemory
  <2>2. \A z \in Places \ {x, y} : data_'[z] \in {handle'[z], Null}
    BY <1>1, <1>3, <2>1
  <2>3. data_'[x] \in {handle'[Temp], Null}
    BY <1>1, <1>2, <1>3, <2>1
  <2>4. x # y => data_'[y] \in {handle'[y], Null}
    BY <1>1, <1>2, <1>3, <2>1
  <2>. QED BY <1>1, <1>3, <2>2, <2>3, <2>4 DEF SwapShape
<1>8. PointerIntoOwnMemory'
  BY <1>1 DEF PointerIntoOwnMemory
<1>9. DevicesOwn' /\ OnLive' /\ NoneForgotten' /\ StrandedByAssignOnly'
  BY <1>1, <1>2, MoveStep
<1>. QED BY <1>4, <1>6, <1>7, <1>8, <1>9

LEMMA RightToLeftInv ==
  ASSUME IndInv, RightToLeft
  PROVE  IndInv'
<1> USE DEF IndInv
<1>1. PICK x, y : x = left /\ y = right
  OBVIOUS
<1>2. /\ pc = "right to left" /\ pc' = "temporary to right"
      /\ AssignBase(x, y)
      /\ UNCHANGED <<alive, device_, data_, left, right, terminated>>
  BY <1>1 DEF RightToLeft
<1>3. /\ x \in alive \cap Hosts /\ y \in alive \cap Hosts
      /\ x \in Places /\ y \in Places /\ x # Temp /\ y # Temp /\ Temp \in Places
      /\ data_[x] \in {handle[Temp], Null}
      /\ \A z \in Places \ {x, y} : data_[z] \in {handle[z], Null}
      /\ x # y => data_[y] \in {handle[y], Null}
  BY <1>1, <1>2, NullIsNothing DEF SwapShape, TypeOK
<1>4. /\ handle' \in [Places -> Resources \cup {Null}]
      /\ x # y => handle'[x] = handle[y]
      /\ handle'[y] = Null
      /\ \A z \in Places : z # x /\ z # y => handle'[z] = handle[z]
      /\ \A z \in Places : handle'[z] # Null => z \in alive /\ z # y
      /\ \A w, z \in Places : handle'[w] # Null /\ handle'[w] = handle'[z] => w = z
  BY <1>2, <1>3, AssignHandles
<1>5. /\ vk' \in [Devices -> VkDevices] /\ live' \subseteq VkDevices
      /\ made_on' \in [Resources -> VkDevices \cup {Gone, Null}]
      /\ replaced' \subseteq Devices /\ misuse' \in BOOLEAN
      /\ DevicesOwn' /\ OnLive'
      /\ \A z \in Places : handle'[z] # Null => made_on'[handle'[z]] # Null
      /\ ~misuse' => \A r \in Resources :
           made_on'[r] # Null => \E z \in alive : handle'[z] = r
      /\ \A z \in alive :
           handle'[z] # Null /\ made_on'[handle'[z]] # vk'[device_[z]] =>
             device_[z] \in replaced'
      /\ misuse' => replaced' # {}
  BY <1>2, <1>3, AssignStep
<1>6. TypeOK'
  BY <1>2, <1>4, <1>5 DEF TypeOK
<1>7. Holding'
  BY <1>2, <1>4, <1>5 DEF Holding
<1>8. NoneForgotten' /\ StrandedByAssignOnly'
  BY <1>2, <1>5 DEF NoneForgotten, StrandedByAssignOnly
<1>9. SwapShape'
  <2>1. left' = x /\ right' = y
    BY <1>1, <1>2
  <2>2. \A z \in Places \ {x, y} : data_'[z] \in {handle'[z], Null}
    BY <1>2, <1>3, <1>4
  <2>3. data_'[x] \in {handle'[Temp], Null}
    BY <1>2, <1>3, <1>4
  <2>4. x # y => data_'[y] \in {handle'[x], Null}
    BY <1>2, <1>3, <1>4
  <2>. QED BY <1>2, <1>3, <1>4, <2>1, <2>2, <2>3, <2>4 DEF SwapShape
<1>10. PointerIntoOwnMemory'
  BY <1>2 DEF PointerIntoOwnMemory
<1>. QED BY <1>5, <1>6, <1>7, <1>8, <1>9, <1>10

LEMMA TempToRightInv ==
  ASSUME IndInv, TempToRight
  PROVE  IndInv'
<1> USE DEF IndInv
<1>1. PICK x, y, t : x = left /\ y = right /\ t = Temp
  OBVIOUS
<1>2. /\ pc = "temporary to right" /\ pc' = "idle"
      /\ left' = Temp /\ right' = Temp
      /\ AssignBase(y, t)
      /\ data_' = [data_ EXCEPT ![x] = data_[y], ![y] = data_[x]]
      /\ alive' = alive \ {Temp}
      /\ device_' = [device_ EXCEPT ![Temp] = Null]
      /\ UNCHANGED terminated
  BY <1>1 DEF TempToRight, Leave
<1>3. /\ x \in alive \cap Hosts /\ y \in alive \cap Hosts
      /\ x \in Places /\ y \in Places /\ x # Temp /\ y # Temp /\ Temp \in Places
      /\ data_[x] \in {handle[Temp], Null}
      /\ \A z \in Places \ {x, y} : data_[z] \in {handle[z], Null}
      /\ x # y => data_[y] \in {handle[x], Null}
  BY <1>1, <1>2, NullIsNothing DEF SwapShape, TypeOK
<1>4. Temp \in alive /\ alive \subseteq Places
  BY <1>2 DEF TypeOK
<1>5. /\ handle' \in [Places -> Resources \cup {Null}]
      /\ handle'[y] = handle[Temp]
      /\ handle'[Temp] = Null
      /\ \A z \in Places : z # y /\ z # Temp => handle'[z] = handle[z]
      /\ \A z \in Places : handle'[z] # Null => z \in alive /\ z # Temp
      /\ \A w, z \in Places : handle'[w] # Null /\ handle'[w] = handle'[z] => w = z
  <2>1. y \in alive /\ t \in alive /\ t = Temp
    BY <1>1, <1>3, <1>4
  <2>2. /\ handle' \in [Places -> Resources \cup {Null}]
        /\ y # t => handle'[y] = handle[t]
        /\ handle'[t] = Null
        /\ \A z \in Places : z # y /\ z # t => handle'[z] = handle[z]
        /\ \A z \in Places : handle'[z] # Null => z \in alive /\ z # t
        /\ \A w, z \in Places :
             handle'[w] # Null /\ handle'[w] = handle'[z] => w = z
    BY <1>2, <2>1, AssignHandles
  <2>. QED BY <1>3, <2>1, <2>2
<1>6. /\ vk' \in [Devices -> VkDevices] /\ live' \subseteq VkDevices
      /\ made_on' \in [Resources -> VkDevices \cup {Gone, Null}]
      /\ replaced' \subseteq Devices /\ misuse' \in BOOLEAN
      /\ DevicesOwn' /\ OnLive'
      /\ \A z \in Places : handle'[z] # Null => made_on'[handle'[z]] # Null
      /\ ~misuse' => \A r \in Resources :
           made_on'[r] # Null => \E z \in alive \ {Temp} : handle'[z] = r
      /\ \A z \in alive :
           handle'[z] # Null /\ made_on'[handle'[z]] # vk'[device_[z]] =>
             device_[z] \in replaced'
      /\ misuse' => replaced' # {}
  <2>1. y \in alive /\ t \in alive /\ t = Temp
    BY <1>1, <1>3, <1>4
  <2>. QED BY <1>2, <2>1, AssignStep
<1>7. /\ device_' \in [Places -> Devices \cup {Null}]
      /\ \A z \in alive' : z \in alive /\ z \in Places /\ device_'[z] = device_[z]
  BY <1>2, <1>4 DEF TypeOK
<1>8. /\ data_' \in [Places -> Resources \cup {Null}]
      /\ data_'[y] = data_[x]
      /\ x # y => data_'[x] = data_[y]
      /\ \A z \in Places : z # x /\ z # y => data_'[z] = data_[z]
  BY <1>2, <1>3 DEF TypeOK
<1>9. TypeOK'
  BY <1>2, <1>3, <1>4, <1>5, <1>6, <1>7, <1>8 DEF TypeOK
<1>10. Holding'
  <2>1. \A z \in alive' : device_'[z] \in Devices
    BY <1>7 DEF Holding
  <2>2. \A z \in Places : handle'[z] # Null =>
          z \in alive' /\ made_on'[handle'[z]] # Null
    BY <1>2, <1>5, <1>6
  <2>3. \A z \in Places : data_'[z] # Null => z \in alive' \cap Hosts
    <3> SUFFICES ASSUME NEW z \in Places, data_'[z] # Null
                 PROVE  z \in alive' \cap Hosts
      OBVIOUS
    <3>1. CASE z \in {x, y}
      BY <1>2, <1>3, <3>1
    <3>2. CASE z \notin {x, y}
      BY <1>2, <1>8, <3>2, NullIsNothing DEF Holding
    <3>. QED BY <3>1, <3>2
  <2>. QED BY <1>5, <2>1, <2>2, <2>3 DEF Holding
<1>11. NoneForgotten'
  BY <1>2, <1>6 DEF NoneForgotten
<1>12. StrandedByAssignOnly'
  BY <1>6, <1>7 DEF StrandedByAssignOnly
<1>13. SwapShape'
  BY <1>2 DEF SwapShape
<1>14. PointerIntoOwnMemory'
  <2> SUFFICES ASSUME NEW z \in alive' PROVE data_'[z] \in {handle'[z], Null}
    BY DEF PointerIntoOwnMemory
  <2>1. z \in Places /\ z # Temp
    BY <1>2, <1>7
  <2>2. CASE z = y
    BY <1>3, <1>5, <1>8, <2>2
  <2>3. CASE z = x /\ x # y
    BY <1>3, <1>5, <1>8, <2>1, <2>3
  <2>4. CASE z \notin {x, y}
    BY <1>3, <1>5, <1>8, <2>1, <2>4
  <2>. QED BY <2>2, <2>3, <2>4
<1>. QED BY <1>6, <1>9, <1>10, <1>11, <1>12, <1>13, <1>14

(* When copying the Device throws, what the object assigned to had is      *)
(* gone, and nothing else has changed.                                     *)
LEMMA ReleasedInv ==
  ASSUME IndInv, CopyThrows, NEW x \in alive, Released(x),
         handle[x] = Null \/ (pc = "idle" /\ x \notin Hosts)
  PROVE  IndInv'
<1> USE DEF IndInv
<1>1. /\ made_on' = Free(x, made_on)
      /\ misuse' = (misuse \/ ForeignHandle(x))
      /\ terminated' = TRUE
      /\ UNCHANGED <<vk, live, replaced, alive, device_, data_, pc, left, right>>
  BY DEF CopyThrows, Released, deviceVars, callVars
<1>2. /\ device_ \in [Places -> Devices \cup {Null}]
      /\ handle \in [Places -> Resources \cup {Null}]
      /\ data_ \in [Places -> Resources \cup {Null}]
      /\ alive \subseteq Places /\ x \in Places
  BY DEF TypeOK
<1>3. /\ handle' \in [Places -> Resources \cup {Null}]
      /\ handle'[x] = Null
      /\ \A z \in Places : z # x => handle'[z] = handle[z]
  BY <1>2 DEF Released
<1>4. /\ made_on' \in [Resources -> VkDevices \cup {Gone, Null}]
      /\ \A r \in Resources : made_on'[r] \in {made_on[r], Null}
      /\ \A r \in Resources : r # handle[x] => made_on'[r] = made_on[r]
      /\ handle[x] # Null /\ made_on[handle[x]] = vk[device_[x]] =>
           made_on'[handle[x]] = Null
  BY <1>1, <1>2, FreeStep
<1>5. TypeOK'
  <2>1. misuse' \in BOOLEAN /\ terminated' \in BOOLEAN
    BY <1>1 DEF TypeOK, ForeignHandle
  <2>. QED BY <1>1, <1>3, <1>4, <2>1 DEF TypeOK
<1>6. DevicesOwn' /\ OnLive'
  BY <1>1, <1>4 DEF DevicesOwn, OnLive
<1>7. ASSUME NEW z \in Places, handle'[z] # Null
      PROVE  /\ z # x /\ z \in alive /\ handle'[z] = handle[z]
             /\ made_on'[handle[z]] = made_on[handle[z]]
             /\ made_on[handle[z]] # Null
  <2>1. z # x /\ handle'[z] = handle[z] /\ handle[z] # Null
    BY <1>3, <1>7
  <2>2. z \in alive /\ handle[z] # handle[x] /\ made_on[handle[z]] # Null
    BY <1>2, <2>1 DEF Holding
  <2>. QED BY <1>2, <1>4, <2>1, <2>2
<1>8. Holding'
  <2>1. \A y, z \in Places : handle'[y] # Null /\ handle'[y] = handle'[z] => y = z
    BY <1>7 DEF Holding
  <2>. QED BY <1>1, <1>7, <2>1 DEF Holding
<1>9. NoneForgotten'
  <2> SUFFICES ASSUME ~misuse', NEW s \in Resources, made_on'[s] # Null
               PROVE  \E z \in alive : handle'[z] = s
    BY <1>1 DEF NoneForgotten
  <2>1. PICK z \in alive : handle[z] = s
    BY <1>1, <1>4 DEF NoneForgotten
  <2>2. handle[x] # Null => made_on[handle[x]] = vk[device_[x]]
    BY <1>1 DEF ForeignHandle
  <2>3. z # x
    BY <1>4, <2>1, <2>2, NullIsNothing
  <2>. QED BY <1>2, <1>3, <2>1, <2>3
<1>10. handle[x] = Null => handle' = handle
  BY <1>2, <1>3
<1>11. \A z \in Hosts \cap Places : handle'[z] = handle[z]
  BY <1>3, <1>10
<1>13. SwapShape'
  <2>1. CASE pc = "idle"
    BY <1>1, <2>1 DEF SwapShape
  <2>2. CASE pc # "idle"
    <3>1. handle' = handle
      BY <1>10, <2>2
    <3>. QED BY <1>1, <3>1 DEF SwapShape
  <2>. QED BY <2>1, <2>2
<1>14. PointerIntoOwnMemory'
  <2>1. \A z \in alive : z \notin Hosts => data_[z] = Null
    BY <1>2 DEF Holding
  <2>. QED BY <1>1, <1>2, <1>11, <2>1 DEF PointerIntoOwnMemory
<1>15. StrandedByAssignOnly'
  <2>1. \A z \in alive :
          handle'[z] # Null /\ made_on'[handle'[z]] # vk[device_[z]] =>
            device_[z] \in replaced
    BY <1>2, <1>7 DEF StrandedByAssignOnly
  <2>2. misuse' => replaced # {}
    BY <1>1 DEF StrandedByAssignOnly, ForeignHandle
  <2>. QED BY <1>1, <2>1, <2>2 DEF StrandedByAssignOnly
<1>. QED BY <1>5, <1>6, <1>8, <1>9, <1>13, <1>14, <1>15

LEMMA NextInv == IndInv /\ [Next]_vars => IndInv'
<1> SUFFICES ASSUME IndInv, [Next]_vars PROVE IndInv'
  OBVIOUS
<1>1. ASSUME UNCHANGED vars PROVE IndInv'
  <2>1. UNCHANGED <<vk, live, replaced, made_on, alive, device_, handle, data_,
                    pc, left, right, terminated, misuse>>
    BY <1>1 DEF vars, deviceVars, objectVars, callVars
  <2>3. TypeOK'
    BY <2>1 DEF IndInv, TypeOK
  <2>4. DevicesOwn' /\ OnLive' /\ Holding' /\ NoneForgotten'
    BY <2>1 DEF IndInv, DevicesOwn, OnLive, Holding, NoneForgotten
  <2>5. SwapShape' /\ PointerIntoOwnMemory' /\ StrandedByAssignOnly'
    BY <2>1 DEF IndInv, SwapShape, PointerIntoOwnMemory, StrandedByAssignOnly
  <2>. QED BY <2>3, <2>4, <2>5 DEF IndInv
<1>2. ASSUME CopyThrows PROVE IndInv'
  <2>1. PICK x \in alive :
          /\ Released(x)
          /\ handle[x] = Null \/ (pc = "idle" /\ x \notin Hosts)
    <3>1. CASE pc = "idle"
      BY <1>2, <3>1 DEF CopyThrows
    <3>2. CASE pc = "right to left"
      <4>1. PICK x : x = left
        OBVIOUS
      <4>2. x \in alive /\ handle[x] = Null /\ Released(x)
        BY <1>2, <3>2, <4>1 DEF CopyThrows, IndInv, SwapShape
      <4>. QED BY <4>2
    <3>3. CASE pc = "temporary to right"
      <4>1. PICK x : x = right
        OBVIOUS
      <4>2. x \in alive /\ handle[x] = Null /\ Released(x)
        BY <1>2, <3>3, <4>1 DEF CopyThrows, IndInv, SwapShape
      <4>. QED BY <4>2
    <3>. QED BY <1>2, <3>1, <3>2, <3>3 DEF CopyThrows
  <2>. QED BY <1>2, <2>1, ReleasedInv
<1>. QED BY <1>1, <1>2, ConstructInv, DestroyInv, MoveInv, AssignInv, SwapInv,
            RightToLeftInv, TempToRightInv DEF Next, Client

LEMMA Invariance == Spec => []IndInv
  BY InitInv, NextInv, PTL DEF Spec

-----------------------------------------------------------------------------
(* The type invariant: the objects of a client and std::swap's temporary,  *)
(* which exists exactly while a HostArray is assigned.                     *)
THEOREM TypeCorrect == Spec => []TypeOK
<1>1. IndInv => TypeOK
  BY DEF IndInv
<1>. QED BY <1>1, Invariance, PTL

(* Move assignment through the Device reference loses no VkDevice and      *)
(* shares none, and gives no buffer and no shader module two owners,       *)
(* whatever is assigned, swapped, moved and destroyed, in whatever order.  *)
(* A program's other handles are the subject of ProgramHandlesProofs.      *)
THEOREM OwnedByOne == Spec => []OwnedOnce
<1>1. ASSUME IndInv PROVE OwnedOnce
  <2>1. \A x, y \in Places :
          handle[x] # Null /\ handle[x] = handle[y] => x = y /\ x \in alive
    BY <1>1 DEF IndInv, Holding
  <2>. QED BY <1>1, <2>1 DEF IndInv, DevicesOwn, NoneForgotten, OwnedOnce
<1>. QED BY <1>1, Invariance, PTL

(* Without an assignment no handle leaves its VkDevice and none is given   *)
(* to another one.                                                         *)
THEOREM OnlyAssignmentStrands == Spec => []StrandedByAssignOnly
<1>1. IndInv => StrandedByAssignOnly
  BY DEF IndInv
<1>. QED BY <1>1, Invariance, PTL

(* HostArray's swap exchanges base and pointer in two places, and still    *)
(* the pointer follows the memory.                                         *)
THEOREM PointersFollow == Spec => []PointerIntoOwnMemory
<1>1. IndInv => PointerIntoOwnMemory
  BY DEF IndInv
<1>. QED BY <1>1, Invariance, PTL

(* An assignment leaves a usable handle to nobody who refers to the Device *)
(* it replaces, not to the object assigned to either.                      *)
THEOREM AssignmentStrandsAll == Spec => ReplacingStrandsAll
<1>1. ASSUME IndInv, [Next]_vars, NEW d \in Devices, vk'[d] # vk[d],
             NEW z \in alive', device_'[z] = d, handle'[z] # Null
      PROVE  made_on'[handle'[z]] # vk'[d]
  <2>1. ASSUME NEW x \in alive, NEW y \in alive, AssignBase(x, y),
               z \in alive, device_'[z] = device_[z]
        PROVE  made_on'[handle'[z]] # vk'[d]
    BY <1>1, <2>1, AssignStep DEF IndInv
  <2>2. ASSUME NEW x \in Objects, NEW y \in Objects, Assign(x, y)
        PROVE  made_on'[handle'[z]] # vk'[d]
    <3>1. /\ x \in alive /\ y \in alive /\ AssignBase(x, y)
          /\ z \in alive /\ device_'[z] = device_[z]
      BY <2>2 DEF Assign
    <3>. QED BY <2>1, <3>1
  <2>3. ASSUME RightToLeft PROVE made_on'[handle'[z]] # vk'[d]
    <3>1. PICK x, y : x = left /\ y = right
      OBVIOUS
    <3>2. /\ x \in alive /\ y \in alive /\ AssignBase(x, y)
          /\ z \in alive /\ device_'[z] = device_[z]
      BY <1>1, <2>3, <3>1 DEF RightToLeft, IndInv, SwapShape
    <3>. QED BY <2>1, <3>2
  <2>4. ASSUME TempToRight PROVE made_on'[handle'[z]] # vk'[d]
    <3>1. PICK y, t : y = right /\ t = Temp
      OBVIOUS
    <3>2. /\ y \in alive /\ t \in alive /\ AssignBase(y, t)
          /\ alive' = alive \ {t} /\ alive \subseteq Places
          /\ device_ \in [Places -> Devices \cup {Null}]
          /\ device_' = [device_ EXCEPT ![t] = Null]
      BY <1>1, <2>4, <3>1 DEF TempToRight, IndInv, SwapShape, TypeOK
    <3>3. z \in alive /\ device_'[z] = device_[z]
      BY <3>2
    <3>. QED BY <2>1, <3>2, <3>3
  <2>5. vk' # vk
    BY <1>1
  <2>6. \A x, y \in Objects, e \in Devices :
          /\ Construct(x, e) => UNCHANGED vk
          /\ Destroy(x) => UNCHANGED vk
          /\ MoveConstruct(x, y) => UNCHANGED vk
          /\ SwapHost(x, y) => UNCHANGED vk
    BY DEF Construct, Destroy, MoveConstruct, SwapHost, deviceVars
  <2>7. CopyThrows \/ UNCHANGED vars => UNCHANGED vk
    BY DEF CopyThrows, vars, deviceVars
  <2>. QED BY <1>1, <2>2, <2>3, <2>4, <2>5, <2>6, <2>7 DEF Next, Client
<1>2. IndInv /\ [Next]_vars =>
        [\A d \in Devices :
           vk'[d] # vk[d] =>
             \A x \in alive' : device_'[x] = d /\ handle'[x] # Null =>
               made_on'[handle'[x]] # vk'[d]]_vars
  BY <1>1
<1>. QED BY <1>2, Invariance, PTL DEF Spec, ReplacingStrandsAll

=============================================================================
