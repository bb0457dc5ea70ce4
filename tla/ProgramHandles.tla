--------------------------- MODULE ProgramHandles ---------------------------
(***************************************************************************)
(* The Vulkan objects of a vuml::Program: the shader module its            *)
(* constructor makes, the layouts, the descriptor set, the caches and the  *)
(* pipeline its first successful bind makes, and what becomes of them when *)
(* a bind fails half way and is tried again, when a program is moved,      *)
(* before or after it was bound, and when it is destroyed.  Each Vulkan    *)
(* call of a bind is a step of its own, since each can throw.  All         *)
(* programs here are made on one Device.                                   *)
(***************************************************************************)
EXTENDS Naturals

CONSTANTS
  Programs,    \* places for Program objects
  Ids,         \* bounds how many objects of a kind exist at a time
  Null

(* The members of ProgramBase, in the order in which they are filled.      *)
Members == {"shader_", "desc_layout_", "pipe_cache_", "pipe_layout_",
            "desc_pool_", "desc_set_", "pipeline_"}
After == [desc_layout_ |-> "pipe_cache_", pipe_cache_ |-> "pipe_layout_",
          pipe_layout_ |-> "desc_pool_", desc_pool_ |-> "desc_set_",
          desc_set_ |-> "pipeline_", pipeline_ |-> "record"]

Handles == Members \X Ids

(* What a member is created from.                                          *)
Sources == [desc_layout_ |-> {}, pipe_cache_ |-> {},
            pipe_layout_ |-> {"desc_layout_"}, desc_pool_ |-> {},
            desc_set_ |-> {"desc_pool_", "desc_layout_"},
            pipeline_ |-> {"pipe_layout_", "pipe_cache_", "shader_"}]

ASSUME ProgramHandlesAssumption ==
  /\ Null \notin Programs \cup Handles
  /\ Null \notin [Members -> Handles \cup {Null}]

VARIABLES
  live,         \* the Vulkan objects that exist
  made_from,    \* history: what each of them was created from
  obj,          \* the members of each program; Null: no program there
  pc, self,     \* the bind in progress and its program
  overwritten,  \* history: what exists and a repeated bind has overwritten
  parted        \* history: programs whose handles a move gave another owner

vars == <<live, made_from, obj, pc, self, overwritten, parted>>

Alive == {p \in Programs : obj[p] # Null}
Held(p) == {obj[p][m] : m \in Members} \ {Null}

(* Handles that Vulkan may give to a new object of kind m.  A bound: one   *)
(* that some program still holds is not given out again when what it       *)
(* stood for is gone, so that the histories know the two apart.            *)
Fresh(m) == {h \in {m} \X Ids : h \notin live /\ \A p \in Alive : h \notin Held(p)}

Init ==
  /\ live = {}
  /\ made_from = [h \in Handles |-> {}]
  /\ obj = [p \in Programs |-> Null]
  /\ pc = "idle"
  /\ self = Null
  /\ overwritten = {}
  /\ parted = {}

-----------------------------------------------------------------------------
(* createShaderModule; when it throws there is nothing to undo.            *)
Construct(p) ==
  /\ pc = "idle"
  /\ p \notin Alive
  /\ \E h \in Fresh("shader_") :
       /\ live' = live \cup {h}
       /\ made_from' = [made_from EXCEPT ![h] = {}]
       /\ obj' = [obj EXCEPT ![p] =
                    [m \in Members |-> IF m = "shader_" THEN h ELSE Null]]
  /\ UNCHANGED <<pc, self, overwritten, parted>>

(* MUTANT of Bind: the descriptor set layout stands for all of it.         *)
BindByLayout(p) ==
  /\ pc = "idle"
  /\ p \in Alive
  /\ obj[p]["shader_"] # Null
  /\ self' = p
  /\ pc' = IF obj[p]["desc_layout_"] = Null THEN "desc_layout_"
           ELSE IF obj[p]["pipeline_"] = Null THEN "pipeline_" ELSE "record"
  /\ UNCHANGED <<live, made_from, obj, overwritten, parted>>

(* bind: everything is made anew as long as there is no pipeline.  A       *)
(* program that was moved from is not bound.                               *)
Bind(p) ==
  /\ pc = "idle"
  /\ p \in Alive
  /\ obj[p]["shader_"] # Null
  /\ self' = p
  /\ pc' = IF obj[p]["pipeline_"] = Null THEN "desc_layout_" ELSE "record"
  /\ UNCHANGED <<live, made_from, obj, overwritten, parted>>

(* MUTANT of Create: the result ends up in the next member.                *)
CreateMisplaced ==
  /\ pc \in DOMAIN After
  /\ \E h \in Fresh(pc) :
       /\ live' = live \cup {h}
       /\ made_from' = [made_from EXCEPT ![h] =
                          {obj[self][m] : m \in Sources[pc]}]
       /\ obj' = [obj EXCEPT ![self] = [@ EXCEPT ![After[pc]] = h]]
  /\ overwritten' = overwritten \cup ({obj[self][pc]} \cap live)
  /\ pc' = After[pc]
  /\ UNCHANGED <<self, parted>>

(* One create call of init_pipe_layout, alloc_descriptor_sets and          *)
(* init_pipeline.  What the member held before is forgotten.               *)
Create ==
  /\ pc \in DOMAIN After
  /\ \E h \in Fresh(pc) :
       /\ live' = live \cup {h}
       /\ made_from' = [made_from EXCEPT ![h] =
                          {obj[self][m] : m \in Sources[pc]}]
       /\ obj' = [obj EXCEPT ![self] = [@ EXCEPT ![pc] = h]]
  /\ overwritten' = overwritten \cup ({obj[self][pc]} \cap live)
  /\ pc' = After[pc]
  /\ UNCHANGED <<self, parted>>

(* A call throws: what there is stays in the members.                      *)
BindThrows ==
  /\ pc # "idle"
  /\ pc' = "idle"
  /\ self' = Null
  /\ UNCHANGED <<live, made_from, obj, overwritten, parted>>

(* The command buffer is recorded; Compute has the details.                *)
Record ==
  /\ pc = "record"
  /\ pc' = "idle"
  /\ self' = Null
  /\ UNCHANGED <<live, made_from, obj, overwritten, parted>>

-----------------------------------------------------------------------------
(* What release destroys when it is given the handles hs: descriptor sets  *)
(* go with the pool they were allocated from, whichever set the program    *)
(* holds.                                                                  *)
Freed(hs) ==
  hs \cup {s \in live : s[1] = "desc_set_" /\ made_from[s] \cap hs # {}}

(* Destroying the objects of Freed(hs).                                    *)
Gone(hs) ==
  /\ live' = live \ Freed(hs)
  /\ made_from' = [h \in Handles |-> IF h \in live' THEN made_from[h] ELSE {}]
  /\ overwritten' = overwritten \cap live'

(* MUTANT of Destroy: the descriptor pool is forgotten.                    *)
DestroyAllButPool(p) ==
  /\ pc = "idle"
  /\ p \in Alive
  /\ Gone({h \in Held(p) : h[1] \notin {"desc_pool_", "desc_set_"}})
  /\ obj' = [obj EXCEPT ![p] = Null]
  /\ parted' = parted \ {p}
  /\ UNCHANGED <<pc, self>>

(* ProgramBase::release.  It names every handle but the descriptor set;    *)
(* null handles are passed over, and so is in the model what exists no     *)
(* more: only a parted program can hold that.                              *)
Destroy(p) ==
  /\ pc = "idle"
  /\ p \in Alive
  /\ Gone({h \in Held(p) : h[1] # "desc_set_"})
  /\ obj' = [obj EXCEPT ![p] = Null]
  /\ parted' = parted \ {p}
  /\ UNCHANGED <<pc, self>>

(* What a move of p leaves with both is anything besides the shader.       *)
Shares(p) == ~(Held(p) \subseteq {obj[p]["shader_"]})

(* MUTANT of MoveConstruct: the shader too stays with the moved-from one.  *)
MoveKeepsShader(p, q) ==
  /\ pc = "idle"
  /\ p \in Alive /\ q \notin Alive
  /\ obj' = [obj EXCEPT ![q] = obj[p]]
  /\ parted' = IF Shares(p) \/ p \in parted THEN parted \cup {p, q} ELSE parted
  /\ UNCHANGED <<live, made_from, pc, self, overwritten>>

(* The move constructor: only the shader leaves the program moved from.    *)
MoveConstruct(p, q) ==
  /\ pc = "idle"
  /\ p \in Alive /\ q \notin Alive
  /\ obj' = [obj EXCEPT ![q] = obj[p], ![p] = [@ EXCEPT !["shader_"] = Null]]
  /\ parted' = IF Shares(p) \/ p \in parted THEN parted \cup {p, q} ELSE parted
  /\ UNCHANGED <<live, made_from, pc, self, overwritten>>

(* The move assignment of q to p, which may be the same.  release destroys *)
(* what p holds; the assignment to device_ then replaces the VkDevice, and *)
(* whatever was made on it goes (DeviceReplacement tells several Devices   *)
(* apart): from here on every program there is holds what exists no more.  *)
MoveAssign(p, q) ==
  /\ pc = "idle"
  /\ p \in Alive /\ q \in Alive
  /\ live' = {}
  /\ made_from' = [h \in Handles |-> {}]
  /\ overwritten' = {}
  /\ obj' = [obj EXCEPT ![p] = IF p = q THEN [@ EXCEPT !["shader_"] = Null]
                               ELSE obj[q],
                        ![q] = [@ EXCEPT !["shader_"] = Null]]
  /\ parted' = Alive
  /\ UNCHANGED <<pc, self>>

-----------------------------------------------------------------------------
Next ==
  \/ \E p \in Programs : Construct(p) \/ Bind(p) \/ Destroy(p)
  \/ \E p, q \in Programs : MoveConstruct(p, q) \/ MoveAssign(p, q)
  \/ Create \/ BindThrows \/ Record

Spec == Init /\ [][Next]_vars

-----------------------------------------------------------------------------
(* What every state looks like; each member holds a handle of its kind.    *)
TypeOK ==
  /\ live \subseteq Handles
  /\ made_from \in [Handles -> SUBSET (Handles \cup {Null})]
  /\ obj \in [Programs -> [Members -> Handles \cup {Null}] \cup {Null}]
  /\ \A p \in Alive, m \in Members : obj[p][m] \in ({m} \X Ids) \cup {Null}
  /\ pc \in {"idle", "record"} \cup DOMAIN After
  /\ self \in Alive \cup {Null}
  /\ pc = "idle" <=> self = Null
  /\ overwritten \subseteq live
  /\ parted \subseteq Alive

(* A program that has a pipeline, and was not moved from, has everything,  *)
(* and all of it belongs together: the pipeline is made from the shader,   *)
(* the cache and the pipe layout the program holds now, that and the       *)
(* descriptor set from the descriptor set layout it holds now.  Nothing is *)
(* mixed in from an earlier bind that failed half way.  (What a parted     *)
(* program holds may exist no more.)                                       *)
Coherent ==
  \A p \in Alive : obj[p]["shader_"] # Null /\ obj[p]["pipeline_"] # Null =>
    /\ Null \notin {obj[p][m] : m \in Members}
    /\ \A m \in DOMAIN Sources : obj[p][m] \in live =>
         made_from[obj[p][m]] = {obj[p][s] : s \in Sources[m]}

(* Two programs hold a handle in common only if a move of a bound program, *)
(* or a move assignment, parted them, and then at most one of them has a   *)
(* shader: shaders are never shared.  A program that was not parted holds  *)
(* only what exists, whatever the others do: its release destroys each     *)
(* handle once, and no release of another takes any from it.  For parted   *)
(* programs the code guarantees no such thing.                             *)
OwnedOnce ==
  /\ \A p, q \in Alive : p # q /\ Held(p) \cap Held(q) # {} =>
       {p, q} \subseteq parted /\ Null \in {obj[p]["shader_"], obj[q]["shader_"]}
  /\ \A p \in Alive \ parted : Held(p) \subseteq live

(* What exists and no program holds any more was overwritten by the        *)
(* repetition of a bind that failed, or is a descriptor set left behind in *)
(* a pool that was; no shader and no pipeline is ever lost that way.       *)
LostByRetryOnly ==
  \A h \in live : (\A p \in Alive : h \notin Held(p)) =>
    /\ \/ h \in overwritten
       \/ /\ h[1] = "desc_set_"
          /\ \E d \in made_from[h] \cap overwritten : d[1] = "desc_pool_"
    /\ h[1] \notin {"shader_", "pipeline_"}
=============================================================================
