------------------------ MODULE ProgramHandlesProofs ------------------------
(***************************************************************************)
(* Proofs about ProgramHandles: for any number of programs and handles, a  *)
(* program that has a pipeline has all of one bind, however many binds     *)
(* failed before it; what is lost was overwritten by a repeated bind; and  *)
(* two programs share handles only where a move parted them, of which at   *)
(* most one has a shader.                                                  *)
(***************************************************************************)
EXTENDS ProgramHandles, TLAPS

(* The members that a bind has made when it comes to each of its steps.    *)
Before ==
  [desc_layout_ |-> {},
   pipe_cache_ |-> {"desc_layout_"},
   pipe_layout_ |-> {"desc_layout_", "pipe_cache_"},
   desc_pool_ |-> {"desc_layout_", "pipe_cache_", "pipe_layout_"},
   desc_set_ |-> {"desc_layout_", "pipe_cache_", "pipe_layout_",
                  "desc_pool_"},
   pipeline_ |-> {"desc_layout_", "pipe_cache_", "pipe_layout_",
                  "desc_pool_", "desc_set_"}]

(* A bind in progress has a shader and, up to the pipeline, none yet; what *)
(* precedes its step exists, for nothing is destroyed meanwhile.           *)
BindShape ==
  /\ pc # "idle" => obj[self]["shader_"] # Null
  /\ pc \in DOMAIN After =>
       /\ obj[self]["pipeline_"] = Null
       /\ \A m \in Before[pc] : obj[self][m] \in live

(* Nothing is made from a null handle.                                     *)
FromHandles == \A h \in Handles : Null \notin made_from[h]

(* A descriptor set exists only as long as its pool.                       *)
PoolLives ==
  \A h \in live : h[1] = "desc_set_" =>
    \A d \in made_from[h] : d[1] = "desc_pool_" => d \in live

(* A descriptor set whose pool was overwritten.                            *)
LostSet(h) ==
  /\ h[1] = "desc_set_"
  /\ \E d \in made_from[h] \cap overwritten : d[1] = "desc_pool_"

(* What exists is held, or it was overwritten.  A descriptor set that is   *)
(* held is held together with its pool, or the pool was overwritten.       *)
Traced ==
  \A h \in live :
    \/ h[1] # "desc_set_" /\ \E p \in Alive : obj[p][h[1]] = h
    \/ /\ h[1] = "desc_set_"
       /\ \E p \in Alive : /\ obj[p]["desc_set_"] = h
                           /\ obj[p]["desc_pool_"] \in made_from[h]
    \/ h \in overwritten /\ h[1] \notin {"shader_", "pipeline_"}
    \/ LostSet(h)

(* What the descriptor set of a program that was not parted was made from  *)
(* exists, and no other program holds it: no other program's release frees *)
(* the set.                                                                *)
SetOwn ==
  \A p \in Alive \ parted : obj[p]["desc_set_"] # Null =>
    \A d \in made_from[obj[p]["desc_set_"]] :
      /\ d \in live
      /\ d[1] # "desc_set_"
      /\ \A q \in Alive : q # p => d \notin Held(q)

(* Up to its step a bind in progress has made what belongs together.       *)
MadeSoFar ==
  pc \in DOMAIN After =>
    \A m \in Before[pc] :
      made_from[obj[self][m]] = {obj[self][s] : s \in Sources[m]}

IndInv ==
  /\ TypeOK
  /\ BindShape
  /\ FromHandles
  /\ PoolLives
  /\ Traced
  /\ OwnedOnce
  /\ SetOwn
  /\ MadeSoFar
  /\ Coherent

-----------------------------------------------------------------------------
LEMMA Steps ==
  /\ DOMAIN After = {"desc_layout_", "pipe_cache_", "pipe_layout_",
                     "desc_pool_", "desc_set_", "pipeline_"}
  /\ DOMAIN Before = DOMAIN After
  /\ DOMAIN Sources = DOMAIN After
  /\ DOMAIN After \subseteq Members
  /\ "idle" \notin Members /\ "record" \notin Members
  /\ "shader_" \in Members /\ "shader_" \notin DOMAIN After
  BY DEF After, Before, Sources, Members

(* A step is followed by one that has what it made, and what was there.    *)
LEMMA AfterStep ==
  ASSUME NEW m \in DOMAIN After
  PROVE  /\ After[m] \in {"record"} \cup DOMAIN After
         /\ After[m] # "idle"
         /\ After[m] = "record" => m = "pipeline_"
         /\ After[m] \in DOMAIN After =>
              Before[After[m]] = Before[m] \cup {m}
  BY DEF After, Before

(* What a member is made from is the shader, or made before it.            *)
LEMMA SourcesBefore ==
  ASSUME NEW m \in DOMAIN After
  PROVE  /\ Sources[m] \subseteq Before[m] \cup {"shader_"}
         /\ Before[m] \subseteq DOMAIN After
         /\ m \notin Before[m]
         /\ \A k \in Before[m] : Sources[k] \subseteq Before[m] \ {m}
         /\ "desc_set_" \notin Sources[m]
         /\ "pipeline_" \notin Before[m]
  BY DEF After, Before, Sources

LEMMA LastStep ==
  /\ Members = Before["pipeline_"] \cup {"pipeline_", "shader_"}
  /\ DOMAIN Sources = Before["pipeline_"] \cup {"pipeline_"}
  BY DEF Before, Members, Sources

(* What a program holds, it holds in the member of its kind.               *)
LEMMA Kinds ==
  ASSUME TypeOK, NEW p \in Alive
  PROVE  /\ p \in Programs
         /\ obj[p] \in [Members -> Handles \cup {Null}]
         /\ \A m \in Members : obj[p][m] # Null =>
              obj[p][m] \in Handles /\ obj[p][m][1] = m
         /\ \A h \in Held(p) :
              /\ h \in Handles /\ h # Null
              /\ h[1] \in Members /\ obj[p][h[1]] = h
         /\ \A m \in Members : obj[p][m] # Null => obj[p][m] \in Held(p)
<1>1. p \in Programs /\ obj[p] # Null
  BY DEF Alive
<1>2. obj[p] \in [Members -> Handles \cup {Null}]
  BY <1>1 DEF TypeOK
<1>3. ASSUME NEW m \in Members, obj[p][m] # Null
      PROVE  obj[p][m] \in Handles /\ obj[p][m][1] = m
  <2>1. obj[p][m] \in {m} \X Ids
    BY <1>3 DEF TypeOK
  <2>. QED BY <2>1 DEF Handles
<1>4. ASSUME NEW h \in Held(p)
      PROVE  /\ h \in Handles /\ h # Null
             /\ h[1] \in Members /\ obj[p][h[1]] = h
  <2>1. PICK m \in Members : obj[p][m] = h /\ h # Null
    BY <1>4 DEF Held
  <2>. QED BY <2>1, <1>3
<1>. QED BY <1>1, <1>2, <1>3, <1>4 DEF Held

(* Null is no program and no handle.                                       *)
LEMMA NullIsNothing ==
  /\ Null \notin Programs
  /\ Null \notin Handles
  /\ Null \notin [Members -> Handles \cup {Null}]
  /\ \A m \in Members, i \in Ids : <<m, i>> \in Handles /\ <<m, i>>[1] = m
  /\ \A h \in Handles : h[1] \in Members
  BY ProgramHandlesAssumption DEF Handles

(* What Vulkan hands out is new: it neither exists nor is it held.         *)
LEMMA FreshHandle ==
  ASSUME NEW m \in Members, NEW h \in Fresh(m)
  PROVE  /\ h \in Handles /\ h # Null /\ h[1] = m
         /\ h \in {m} \X Ids
         /\ h \notin live
         /\ \A p \in Alive : h \notin Held(p)
<1>1. h \in {m} \X Ids /\ h \notin live /\ \A p \in Alive : h \notin Held(p)
  BY DEF Fresh
<1>2. h \in Handles /\ h[1] = m
  BY <1>1 DEF Handles
<1>. QED BY <1>1, <1>2, NullIsNothing

-----------------------------------------------------------------------------
LEMMA InitInv == Init => IndInv
<1> SUFFICES ASSUME Init PROVE IndInv
  OBVIOUS
<1> USE DEF Init
<1>1. Alive = {}
  BY DEF Alive
<1>2. TypeOK
  BY <1>1 DEF TypeOK
<1>3. BindShape /\ MadeSoFar
  BY Steps DEF BindShape, MadeSoFar
<1>4. FromHandles /\ PoolLives /\ Traced
  BY DEF FromHandles, PoolLives, Traced
<1>5. OwnedOnce /\ SetOwn /\ Coherent
  BY <1>1 DEF OwnedOnce, SetOwn, Coherent
<1>. QED BY <1>2, <1>3, <1>4, <1>5 DEF IndInv

(* What each action does to the programs: which there are, and what they   *)
(* hold.                                                                   *)
LEMMA ConstructObj ==
  ASSUME TypeOK, NEW p \in Programs, Construct(p)
  PROVE  /\ pc = "idle" /\ pc' = pc /\ self' = self
         /\ p \notin Alive /\ Alive' = Alive \cup {p}
         /\ overwritten' = overwritten /\ parted' = parted
         /\ \A q \in Alive : obj'[q] = obj[q] /\ Held(q)' = Held(q)
         /\ \E new \in Handles :
              /\ new # Null /\ new[1] = "shader_" /\ new \in {"shader_"} \X Ids
              /\ new \notin live
              /\ \A q \in Alive : new \notin Held(q)
              /\ live' = live \cup {new}
              /\ made_from' = [made_from EXCEPT ![new] = {}]
              /\ \A h \in live : made_from'[h] = made_from[h]
              /\ obj'[p]["shader_"] = new
              /\ \A m \in Members : m # "shader_" => obj'[p][m] = Null
              /\ Held(p)' = {new}
         /\ obj' \in [Programs -> [Members -> Handles \cup {Null}] \cup {Null}]
<1>1. PICK new \in Fresh("shader_") :
        /\ live' = live \cup {new}
        /\ made_from' = [made_from EXCEPT ![new] = {}]
        /\ obj' = [obj EXCEPT ![p] =
             [m \in Members |-> IF m = "shader_" THEN new ELSE Null]]
  BY DEF Construct
<1>2. obj \in [Programs -> [Members -> Handles \cup {Null}] \cup {Null}]
  BY DEF TypeOK
<1>3. /\ new \in Handles /\ new # Null /\ new[1] = "shader_"
      /\ new \in {"shader_"} \X Ids /\ new \notin live
      /\ \A q \in Alive : new \notin Held(q)
  BY Steps, FreshHandle
<1> DEFINE at == [m \in Members |-> IF m = "shader_" THEN new ELSE Null]
<1>4. /\ at \in [Members -> Handles \cup {Null}]
      /\ at["shader_"] = new
      /\ \A m \in Members : m # "shader_" => at[m] = Null
  BY <1>3, Steps
<1>5. at # Null
  BY <1>4, NullIsNothing
<1>6. obj' = [obj EXCEPT ![p] = at]
  BY <1>1
<1> HIDE DEF at
<1>7. /\ obj' \in [Programs -> [Members -> Handles \cup {Null}] \cup {Null}]
      /\ obj'[p] = at
      /\ \A q \in Programs : q # p => obj'[q] = obj[q]
  BY <1>2, <1>4, <1>6
<1>8. /\ p \notin Alive /\ pc = "idle" /\ pc' = pc /\ self' = self
      /\ overwritten' = overwritten /\ parted' = parted
  BY DEF Construct
<1>9. Alive' = Alive \cup {p} /\ \A q \in Alive : obj'[q] = obj[q]
  BY <1>5, <1>7, <1>8 DEF Alive
<1>10. \A q \in Alive : Held(q)' = Held(q)
  BY <1>9 DEF Held
<1>11. Held(p)' = {new}
  BY <1>3, <1>4, <1>7, Steps DEF Held
<1>12. \A h \in live : made_from'[h] = made_from[h]
  BY <1>1, <1>3 DEF TypeOK
<1>13. obj'[p]["shader_"] = new /\ \A m \in Members : m # "shader_" => obj'[p][m] = Null
  BY <1>4, <1>7
<1>. QED BY <1>1, <1>3, <1>7, <1>8, <1>9, <1>10, <1>11, <1>12, <1>13

(* A step of a bind adds to what its program holds, and leaves the others. *)
LEMMA CreateObj ==
  ASSUME TypeOK, Create
  PROVE  /\ pc \in DOMAIN After /\ pc \in Members
         /\ pc # "idle" /\ pc # "shader_"
         /\ self \in Alive /\ Alive' = Alive /\ self' = self
         /\ pc' = After[pc] /\ parted' = parted
         /\ overwritten' = overwritten \cup ({obj[self][pc]} \cap live)
         /\ \A q \in Alive : q # self => obj'[q] = obj[q] /\ Held(q)' = Held(q)
         /\ \A m \in Members : m # pc => obj'[self][m] = obj[self][m]
         /\ \E new \in Handles :
              /\ new # Null /\ new[1] = pc /\ new \in {pc} \X Ids
              /\ new \notin live
              /\ \A q \in Alive : new \notin Held(q)
              /\ live' = live \cup {new}
              /\ made_from' = [made_from EXCEPT ![new] =
                                 {obj[self][m] : m \in Sources[pc]}]
              /\ made_from'[new] = {obj[self][m] : m \in Sources[pc]}
              /\ \A h \in live : made_from'[h] = made_from[h]
              /\ \A h \in Handles : h # new => made_from'[h] = made_from[h]
              /\ obj'[self][pc] = new
              /\ Held(self)' \subseteq Held(self) \cup {new}
         /\ obj' \in [Programs -> [Members -> Handles \cup {Null}] \cup {Null}]
<1>1. PICK new \in Fresh(pc) :
        /\ live' = live \cup {new}
        /\ made_from' = [made_from EXCEPT ![new] =
                           {obj[self][m] : m \in Sources[pc]}]
        /\ obj' = [obj EXCEPT ![self] = [@ EXCEPT ![pc] = new]]
  BY DEF Create
<1>2. obj \in [Programs -> [Members -> Handles \cup {Null}] \cup {Null}]
  BY DEF TypeOK
<1>3. pc \in DOMAIN After /\ pc \in Members /\ pc # "idle" /\ pc # "shader_"
  BY Steps DEF Create
<1>4. self \in Alive
  BY <1>3, Steps DEF TypeOK
<1>5. self \in Programs /\ obj[self] \in [Members -> Handles \cup {Null}]
  BY <1>4, Kinds
<1>6. /\ new \in Handles /\ new # Null /\ new[1] = pc /\ new \in {pc} \X Ids
      /\ new \notin live
      /\ \A q \in Alive : new \notin Held(q)
  BY <1>3, FreshHandle
<1> DEFINE at == [obj[self] EXCEPT ![pc] = new]
<1>7. /\ at \in [Members -> Handles \cup {Null}]
      /\ at[pc] = new
      /\ \A m \in Members : m # pc => at[m] = obj[self][m]
  BY <1>3, <1>5, <1>6
<1>8. at # Null
  BY <1>7, NullIsNothing
<1>9. obj' = [obj EXCEPT ![self] = at]
  BY <1>1
<1> HIDE DEF at
<1>10. /\ obj' \in [Programs -> [Members -> Handles \cup {Null}] \cup {Null}]
       /\ obj'[self] = at
       /\ \A q \in Programs : q # self => obj'[q] = obj[q]
  BY <1>2, <1>5, <1>7, <1>9
<1>11. Alive' = Alive
  BY <1>4, <1>8, <1>10 DEF Alive
<1>12. \A q \in Alive : q # self => obj'[q] = obj[q] /\ Held(q)' = Held(q)
  BY <1>10 DEF Alive, Held
<1>13. /\ self' = self /\ pc' = After[pc] /\ parted' = parted
       /\ overwritten' = overwritten \cup ({obj[self][pc]} \cap live)
  BY DEF Create
<1>14. /\ made_from'[new] = {obj[self][m] : m \in Sources[pc]}
       /\ \A h \in Handles : h # new => made_from'[h] = made_from[h]
       /\ \A h \in live : made_from'[h] = made_from[h]
  BY <1>1, <1>6 DEF TypeOK
<1>15. Held(self)' \subseteq Held(self) \cup {new}
  BY <1>3, <1>7, <1>10, <1>13 DEF Held
<1>. QED BY <1>1, <1>3, <1>4, <1>6, <1>7, <1>10, <1>11, <1>12, <1>13, <1>14, <1>15

LEMMA DestroyObj ==
  ASSUME TypeOK, NEW p \in Programs, Destroy(p)
  PROVE  /\ pc = "idle" /\ pc' = pc /\ self' = self
         /\ p \in Alive /\ Alive' = Alive \ {p} /\ parted' = parted \ {p}
         /\ \A q \in Alive' : q \in Alive /\ obj'[q] = obj[q] /\ Held(q)' = Held(q)
         /\ live' = live \ Freed({h \in Held(p) : h[1] # "desc_set_"})
         /\ overwritten' = overwritten \cap live'
         /\ \A h \in live' : made_from'[h] = made_from[h]
         /\ made_from' = [h \in Handles |-> IF h \in live' THEN made_from[h] ELSE {}]
         /\ obj' \in [Programs -> [Members -> Handles \cup {Null}] \cup {Null}]
<1>1. obj \in [Programs -> [Members -> Handles \cup {Null}] \cup {Null}]
  BY DEF TypeOK
<1>2. obj' = [obj EXCEPT ![p] = Null] /\ p \in Alive
  BY DEF Destroy
<1>3. /\ Alive' = Alive \ {p}
      /\ \A q \in Alive' : q \in Alive /\ obj'[q] = obj[q]
      /\ obj' \in [Programs -> [Members -> Handles \cup {Null}] \cup {Null}]
  BY <1>1, <1>2 DEF Alive
<1>4. \A q \in Alive' : Held(q)' = Held(q)
  BY <1>3 DEF Held
<1>5. /\ live' = live \ Freed({h \in Held(p) : h[1] # "desc_set_"})
      /\ overwritten' = overwritten \cap live'
      /\ made_from' = [h \in Handles |-> IF h \in live' THEN made_from[h] ELSE {}]
      /\ pc = "idle" /\ pc' = pc /\ self' = self /\ parted' = parted \ {p}
  BY DEF Destroy, Gone
<1>6. \A h \in live' : made_from'[h] = made_from[h]
  BY <1>5 DEF TypeOK
<1>. QED BY <1>2, <1>3, <1>4, <1>5, <1>6

LEMMA MoveObj ==
  ASSUME TypeOK, NEW p \in Programs, NEW q \in Programs, MoveConstruct(p, q)
  PROVE  /\ pc = "idle" /\ pc' = pc /\ self' = self
         /\ UNCHANGED <<live, made_from, overwritten>>
         /\ p \in Alive /\ q \notin Alive /\ p # q
         /\ Alive' = Alive \cup {q}
         /\ \A r \in Alive : r # p => obj'[r] = obj[r] /\ Held(r)' = Held(r)
         /\ obj'[q] = obj[p] /\ Held(q)' = Held(p)
         /\ \A m \in Members : m # "shader_" => obj'[p][m] = obj[p][m]
         /\ obj'[p]["shader_"] = Null
         /\ Held(p)' \subseteq Held(p)
         /\ \A h \in Held(p)' : h[1] # "shader_"
         /\ parted' = IF Shares(p) \/ p \in parted THEN parted \cup {p, q} ELSE parted
         /\ obj' \in [Programs -> [Members -> Handles \cup {Null}] \cup {Null}]
<1>1. obj \in [Programs -> [Members -> Handles \cup {Null}] \cup {Null}]
  BY DEF TypeOK
<1>2. pc = "idle" /\ p \in Alive /\ q \notin Alive /\ p # q
  BY DEF MoveConstruct
<1>3. obj[p] \in [Members -> Handles \cup {Null}] /\ obj[p] # Null
  BY <1>2, Kinds DEF Alive
<1> DEFINE old == [obj[p] EXCEPT !["shader_"] = Null]
<1>4. /\ old \in [Members -> Handles \cup {Null}]
      /\ old["shader_"] = Null
      /\ \A m \in Members : m # "shader_" => old[m] = obj[p][m]
  BY <1>3, Steps
<1>5. old # Null
  BY <1>4, NullIsNothing
<1>6. obj' = [obj EXCEPT ![q] = obj[p], ![p] = old]
  BY <1>2 DEF MoveConstruct
<1> HIDE DEF old
<1>7. /\ obj' \in [Programs -> [Members -> Handles \cup {Null}] \cup {Null}]
      /\ obj'[q] = obj[p] /\ obj'[p] = old
      /\ \A r \in Programs : r \notin {p, q} => obj'[r] = obj[r]
  BY <1>1, <1>2, <1>3, <1>4, <1>6
<1>8. /\ Alive' = Alive \cup {q}
      /\ \A r \in Alive : r # p => obj'[r] = obj[r]
  BY <1>2, <1>3, <1>5, <1>7 DEF Alive
<1>9. Held(q)' = Held(p) /\ \A r \in Alive : r # p => Held(r)' = Held(r)
  BY <1>7, <1>8 DEF Held
<1>10. Held(p)' \subseteq Held(p)
  BY <1>4, <1>7 DEF Held
<1>11. ASSUME NEW h \in Held(p)' PROVE h[1] # "shader_"
  <2>1. PICK m \in Members : h = obj'[p][m] /\ h # Null
    BY <1>11 DEF Held
  <2>2. m # "shader_" /\ h = obj[p][m]
    BY <1>4, <1>7, <2>1
  <2>. QED BY <1>2, <2>1, <2>2, Kinds
<1>12. /\ pc' = pc /\ self' = self /\ UNCHANGED <<live, made_from, overwritten>>
       /\ parted' = IF Shares(p) \/ p \in parted THEN parted \cup {p, q} ELSE parted
  BY DEF MoveConstruct
<1>. QED BY <1>2, <1>4, <1>7, <1>8, <1>9, <1>10, <1>11, <1>12

(* Without a part in a move before, a program that is moved and then not   *)
(* parted had a shader and nothing else.                                   *)
LEMMA MoveUnbound ==
  ASSUME TypeOK, NEW p \in Programs, NEW q \in Programs, MoveConstruct(p, q),
         ~Shares(p)
  PROVE  /\ \A m \in Members : m # "shader_" =>
              obj[p][m] = Null /\ obj'[p][m] = Null /\ obj'[q][m] = Null
         /\ Held(p)' = {}
<1>1. p \in Alive /\ Held(p) \subseteq {obj[p]["shader_"]}
  BY DEF MoveConstruct, Shares
<1>2. ASSUME NEW m \in Members, m # "shader_" PROVE obj[p][m] = Null
  <2> SUFFICES ASSUME obj[p][m] # Null PROVE FALSE
    OBVIOUS
  <2>1. obj[p][m] \in Held(p) /\ obj[p][m][1] = m
    BY <1>1, Kinds
  <2>2. obj[p]["shader_"] = obj[p][m]
    BY <1>1, <2>1
  <2>3. obj[p]["shader_"][1] = "shader_"
    BY <1>1, <2>2, Kinds, Steps
  <2>. QED BY <1>2, <2>1, <2>2, <2>3
<1>3. \A m \in Members : m # "shader_" => obj'[p][m] = Null /\ obj'[q][m] = Null
  BY <1>2, MoveObj
<1>4. Held(p)' = {}
  BY <1>3, MoveObj DEF Held
<1>. QED BY <1>2, <1>3, <1>4

LEMMA AssignObj ==
  ASSUME TypeOK, NEW p \in Programs, NEW q \in Programs, MoveAssign(p, q)
  PROVE  /\ pc = "idle" /\ pc' = pc /\ self' = self
         /\ p \in Alive /\ q \in Alive /\ Alive' = Alive
         /\ parted' = Alive
         /\ live' = {} /\ overwritten' = {}
         /\ made_from' = [h \in Handles |-> {}]
         /\ \A r \in Alive : r \notin {p, q} =>
              obj'[r] = obj[r] /\ Held(r)' = Held(r)
         /\ Held(p)' \subseteq Held(q) /\ Held(q)' \subseteq Held(q)
         /\ \A m \in Members : m # "shader_" =>
              obj'[p][m] = obj[q][m] /\ obj'[q][m] = obj[q][m]
         /\ obj'[p]["shader_"] \in {obj[q]["shader_"], Null}
         /\ obj'[q]["shader_"] = Null
         /\ obj' \in [Programs -> [Members -> Handles \cup {Null}] \cup {Null}]
<1>1. obj \in [Programs -> [Members -> Handles \cup {Null}] \cup {Null}]
  BY DEF TypeOK
<1>2. p \in Alive /\ q \in Alive
  BY DEF MoveAssign
<1>3. obj[q] \in [Members -> Handles \cup {Null}] /\ obj[q] # Null
  BY <1>2, Kinds DEF Alive
<1> DEFINE old == [obj[q] EXCEPT !["shader_"] = Null]
<1>4. /\ old \in [Members -> Handles \cup {Null}]
      /\ old["shader_"] = Null
      /\ \A m \in Members : m # "shader_" => old[m] = obj[q][m]
  BY <1>3, Steps
<1>5. old # Null
  BY <1>4, NullIsNothing
<1>6. p # q => obj' = [obj EXCEPT ![p] = obj[q], ![q] = old]
  BY <1>2 DEF MoveAssign
<1>7. p = q => obj' = [obj EXCEPT ![q] = old]
  <2> SUFFICES ASSUME p = q PROVE obj' = [obj EXCEPT ![q] = old]
    OBVIOUS
  <2>1. obj' = [obj EXCEPT ![q] = old,
                           ![q] = [@ EXCEPT !["shader_"] = Null]]
    BY DEF MoveAssign
  <2>2. [old EXCEPT !["shader_"] = Null] = old
    BY <1>3, <1>4
  <2>. QED BY <1>1, <2>1, <2>2
<1> HIDE DEF old
<1>8. /\ obj' \in [Programs -> [Members -> Handles \cup {Null}] \cup {Null}]
      /\ obj'[q] = old
      /\ obj'[p] = IF p = q THEN old ELSE obj[q]
      /\ \A r \in Programs : r \notin {p, q} => obj'[r] = obj[r]
  BY <1>1, <1>2, <1>3, <1>4, <1>6, <1>7
<1>9. Alive' = Alive
  BY <1>2, <1>3, <1>5, <1>8 DEF Alive
<1>10. \A r \in Alive : r \notin {p, q} => obj'[r] = obj[r] /\ Held(r)' = Held(r)
  BY <1>8 DEF Alive, Held
<1>11. \A m \in Members : m # "shader_" =>
         obj'[p][m] = obj[q][m] /\ obj'[q][m] = obj[q][m]
  BY <1>4, <1>8
<1>12. /\ obj'[p]["shader_"] \in {obj[q]["shader_"], Null}
       /\ obj'[q]["shader_"] = Null
  BY <1>4, <1>8
<1>13. Held(p)' \subseteq Held(q) /\ Held(q)' \subseteq Held(q)
  BY <1>11, <1>12 DEF Held
<1>14. /\ pc = "idle" /\ pc' = pc /\ self' = self /\ parted' = Alive
       /\ live' = {} /\ overwritten' = {}
       /\ made_from' = [h \in Handles |-> {}]
  BY DEF MoveAssign
<1>. QED BY <1>2, <1>8, <1>9, <1>10, <1>11, <1>12, <1>13, <1>14

-----------------------------------------------------------------------------
(* The next states, one by one.                                            *)
LEMMA NextCases ==
  ASSUME [Next]_vars
  PROVE  \/ \E p \in Programs : Construct(p)
         \/ \E p \in Programs : Bind(p)
         \/ \E p \in Programs : Destroy(p)
         \/ \E p, q \in Programs : MoveConstruct(p, q)
         \/ \E p, q \in Programs : MoveAssign(p, q)
         \/ Create
         \/ /\ UNCHANGED <<live, made_from, obj, overwritten, parted>>
            /\ \/ pc' = "idle" /\ self' = Null
               \/ UNCHANGED <<pc, self>>
  BY DEF Next, vars, BindThrows, Record

LEMMA BindLeaves ==
  ASSUME TypeOK, NEW p \in Programs, Bind(p)
  PROVE  /\ UNCHANGED <<live, made_from, obj, overwritten, parted>>
         /\ self' = p /\ p \in Alive /\ p # Null
         /\ obj[p]["shader_"] # Null
         /\ pc' = IF obj[p]["pipeline_"] = Null THEN "desc_layout_" ELSE "record"
  BY NullIsNothing DEF Bind

LEMMA TypeNext == TypeOK /\ [Next]_vars => TypeOK'
<1> SUFFICES ASSUME TypeOK, [Next]_vars PROVE TypeOK'
  OBVIOUS
<1>1. ASSUME NEW p \in Programs, Construct(p) PROVE TypeOK'
  <2>1. PICK new \in Handles :
          /\ new \in {"shader_"} \X Ids
          /\ live' = live \cup {new}
          /\ made_from' = [made_from EXCEPT ![new] = {}]
          /\ obj'[p]["shader_"] = new
          /\ \A m \in Members : m # "shader_" => obj'[p][m] = Null
    BY <1>1, ConstructObj
  <2>2. /\ live' \subseteq Handles
        /\ made_from' \in [Handles -> SUBSET (Handles \cup {Null})]
    BY <2>1 DEF TypeOK
  <2>3. \A q \in Alive', m \in Members :
          obj'[q][m] \in ({m} \X Ids) \cup {Null}
    <3> SUFFICES ASSUME NEW q \in Alive', NEW m \in Members
                 PROVE  obj'[q][m] \in ({m} \X Ids) \cup {Null}
      OBVIOUS
    <3>1. CASE q = p
      BY <3>1, <2>1
    <3>2. CASE q # p
      <4>1. q \in Alive /\ obj'[q] = obj[q]
        BY <3>2, <1>1, ConstructObj
      <4>. QED BY <4>1 DEF TypeOK
    <3>. QED BY <3>1, <3>2
  <2>4. self' \in Alive' \cup {Null}
    BY <1>1, ConstructObj DEF TypeOK
  <2>. QED BY <1>1, <2>1, <2>2, <2>3, <2>4, ConstructObj DEF TypeOK
<1>2. ASSUME NEW p \in Programs, Bind(p) PROVE TypeOK'
  <2>1. Alive' = Alive
    BY <1>2, BindLeaves DEF Alive
  <2>. QED BY <1>2, <2>1, BindLeaves, Steps DEF TypeOK
<1>3. ASSUME NEW p \in Programs, Destroy(p) PROVE TypeOK'
  <2>1. live' \subseteq Handles /\ overwritten' \subseteq live'
    BY <1>3, DestroyObj DEF TypeOK
  <2>2. made_from' \in [Handles -> SUBSET (Handles \cup {Null})]
    BY <1>3, DestroyObj DEF TypeOK
  <2>3. \A q \in Alive', m \in Members :
          obj'[q][m] \in ({m} \X Ids) \cup {Null}
    BY <1>3, DestroyObj DEF TypeOK
  <2>4. self' = Null /\ pc' = "idle"
    BY <1>3, DestroyObj DEF TypeOK
  <2>. QED BY <1>3, <2>1, <2>2, <2>3, <2>4, DestroyObj DEF TypeOK
<1>4. ASSUME NEW p \in Programs, NEW q \in Programs, MoveConstruct(p, q)
      PROVE  TypeOK'
  <2>1. \A r \in Alive', m \in Members :
          obj'[r][m] \in ({m} \X Ids) \cup {Null}
    <3> SUFFICES ASSUME NEW r \in Alive', NEW m \in Members
                 PROVE  obj'[r][m] \in ({m} \X Ids) \cup {Null}
      OBVIOUS
    <3>1. \A s \in Alive : obj[s][m] \in ({m} \X Ids) \cup {Null}
      BY DEF TypeOK
    <3>2. r = q \/ r \in Alive
      BY <1>4, MoveObj
    <3>. QED BY <1>4, MoveObj, <3>1, <3>2
  <2>2. self' = Null /\ pc' = "idle"
    BY <1>4, MoveObj DEF TypeOK
  <2>. QED BY <1>4, <2>1, <2>2, MoveObj DEF TypeOK
<1>5. ASSUME NEW p \in Programs, NEW q \in Programs, MoveAssign(p, q)
      PROVE  TypeOK'
  <2>1. \A r \in Alive', m \in Members :
          obj'[r][m] \in ({m} \X Ids) \cup {Null}
    <3> SUFFICES ASSUME NEW r \in Alive', NEW m \in Members
                 PROVE  obj'[r][m] \in ({m} \X Ids) \cup {Null}
      OBVIOUS
    <3>1. \A s \in Alive : obj[s][m] \in ({m} \X Ids) \cup {Null}
      BY DEF TypeOK
    <3>2. r \in Alive /\ q \in Alive
      BY <1>5, AssignObj
    <3>3. CASE r \in {p, q}
      BY <1>5, AssignObj, <3>1, <3>2, <3>3
    <3>4. CASE r \notin {p, q}
      BY <1>5, AssignObj, <3>1, <3>2, <3>4
    <3>. QED BY <3>3, <3>4
  <2>2. self' = Null /\ pc' = "idle"
    BY <1>5, AssignObj DEF TypeOK
  <2>3. made_from' \in [Handles -> SUBSET (Handles \cup {Null})]
    BY <1>5, AssignObj
  <2>. QED BY <1>5, <2>1, <2>2, <2>3, AssignObj DEF TypeOK
<1>6. ASSUME Create PROVE TypeOK'
  <2>1. PICK new \in Handles :
          /\ new \in {pc} \X Ids
          /\ live' = live \cup {new}
          /\ made_from' = [made_from EXCEPT ![new] =
                             {obj[self][m] : m \in Sources[pc]}]
          /\ obj'[self][pc] = new
    BY <1>6, CreateObj
  <2>2. pc \in Members /\ self \in Alive /\ pc \in DOMAIN After
    BY <1>6, CreateObj
  <2>3. {obj[self][m] : m \in Sources[pc]} \subseteq Handles \cup {Null}
    <3>1. Sources[pc] \subseteq Members
      BY <2>2, SourcesBefore, Steps
    <3>. QED BY <2>2, <3>1, Kinds
  <2>4. /\ live' \subseteq Handles
        /\ made_from' \in [Handles -> SUBSET (Handles \cup {Null})]
    BY <2>1, <2>3 DEF TypeOK
  <2>5. \A q \in Alive', m \in Members :
          obj'[q][m] \in ({m} \X Ids) \cup {Null}
    <3> SUFFICES ASSUME NEW q \in Alive, NEW m \in Members
                 PROVE  obj'[q][m] \in ({m} \X Ids) \cup {Null}
      BY <1>6, CreateObj
    <3>1. obj[q][m] \in ({m} \X Ids) \cup {Null}
      BY DEF TypeOK
    <3>. QED BY <1>6, CreateObj, <2>1, <3>1
  <2>6. self' \in Alive' /\ self' # Null
    BY <1>6, CreateObj, NullIsNothing DEF Alive
  <2>7. pc' \in {"record"} \cup DOMAIN After /\ pc' # "idle"
    BY <1>6, CreateObj, AfterStep
  <2>8. overwritten' \subseteq live'
    BY <1>6, <2>1, CreateObj DEF TypeOK
  <2>. QED BY <1>6, <2>4, <2>5, <2>6, <2>7, <2>8, CreateObj DEF TypeOK
<1>7. ASSUME UNCHANGED <<live, made_from, obj, overwritten, parted>>,
             (pc' = "idle" /\ self' = Null) \/ UNCHANGED <<pc, self>>
      PROVE  TypeOK'
  <2>1. Alive' = Alive
    BY <1>7 DEF Alive
  <2>. QED BY <1>7, <2>1 DEF TypeOK
<1>. QED BY <1>1, <1>2, <1>3, <1>4, <1>5, <1>6, <1>7, NextCases

LEMMA ShapeNext == TypeOK /\ BindShape /\ [Next]_vars => BindShape'
<1> SUFFICES ASSUME TypeOK, BindShape, [Next]_vars PROVE BindShape'
  OBVIOUS
<1>1. ASSUME pc' = "idle" PROVE BindShape'
  BY <1>1, Steps DEF BindShape
<1>2. ASSUME NEW p \in Programs, Construct(p) \/ Destroy(p) PROVE BindShape'
  BY <1>1, <1>2, ConstructObj, DestroyObj
<1>3. ASSUME NEW p \in Programs, NEW q \in Programs,
             MoveConstruct(p, q) \/ MoveAssign(p, q)
      PROVE  BindShape'
  BY <1>1, <1>3, MoveObj, AssignObj
<1>4. ASSUME NEW p \in Programs, Bind(p) PROVE BindShape'
  <2>1. Before["desc_layout_"] = {} /\ "record" \notin DOMAIN After
    BY DEF Before, After
  <2>. QED BY <1>4, <2>1, BindLeaves DEF BindShape
<1>5. ASSUME Create PROVE BindShape'
  <2>1. pc \in DOMAIN After /\ pc # "idle" /\ pc # "shader_" /\ pc \in Members
    BY <1>5, CreateObj
  <2>2. obj'[self']["shader_"] # Null
    BY <1>5, CreateObj, <2>1, Steps DEF BindShape
  <2>3. ASSUME pc' \in DOMAIN After
        PROVE  /\ obj'[self']["pipeline_"] = Null
               /\ \A m \in Before[pc'] : obj'[self'][m] \in live'
    <3>1. pc' = After[pc] /\ Before[pc'] = Before[pc] \cup {pc}
      BY <1>5, CreateObj, <2>1, <2>3, AfterStep
    <3>2. pc # "pipeline_"
      BY <2>3, <3>1 DEF After
    <3>3. obj'[self']["pipeline_"] = Null
      BY <1>5, CreateObj, <2>1, <3>2, Steps DEF BindShape
    <3>4. ASSUME NEW m \in Before[pc'] PROVE obj'[self'][m] \in live'
      <4>1. CASE m = pc
        BY <4>1, <1>5, CreateObj
      <4>2. CASE m # pc
        <5>1. m \in Before[pc] /\ m \in Members
          BY <4>2, <3>1, <2>1, SourcesBefore, Steps
        <5>. QED BY <5>1, <4>2, <1>5, CreateObj, <2>1 DEF BindShape
      <4>. QED BY <4>1, <4>2
    <3>. QED BY <3>3, <3>4
  <2>. QED BY <2>2, <2>3 DEF BindShape
<1>6. ASSUME UNCHANGED <<live, made_from, obj, overwritten, parted>>,
             (pc' = "idle" /\ self' = Null) \/ UNCHANGED <<pc, self>>
      PROVE  BindShape'
  BY <1>1, <1>6 DEF BindShape
<1>. QED BY <1>2, <1>3, <1>4, <1>5, <1>6, NextCases

(* What a bind makes, it makes from handles that exist.                    *)
LEMMA SourcesLive ==
  ASSUME TypeOK, BindShape, Create
  PROVE  \A m \in Sources[pc] :
           /\ m \in Members /\ m # pc
           /\ obj[self][m] # Null
           /\ m # "shader_" => obj[self][m] \in live
<1>1. pc \in DOMAIN After /\ pc # "idle" /\ self \in Alive
  BY CreateObj
<1> SUFFICES ASSUME NEW m \in Sources[pc]
             PROVE  /\ m \in Members /\ m # pc
                    /\ obj[self][m] # Null
                    /\ m # "shader_" => obj[self][m] \in live
  OBVIOUS
<1>2. m \in Members /\ m # pc /\ (m = "shader_" \/ m \in Before[pc])
  BY <1>1, SourcesBefore, Steps
<1>3. Null \notin live
  BY NullIsNothing DEF TypeOK
<1>4. CASE m = "shader_"
  BY <1>1, <1>2, <1>4 DEF BindShape
<1>5. CASE m \in Before[pc]
  BY <1>1, <1>2, <1>3, <1>5 DEF BindShape
<1>. QED BY <1>2, <1>4, <1>5

LEMMA FromNext ==
  TypeOK /\ BindShape /\ FromHandles /\ [Next]_vars => FromHandles'
<1> SUFFICES ASSUME TypeOK, BindShape, FromHandles, [Next]_vars
             PROVE  FromHandles'
  OBVIOUS
<1>0. made_from \in [Handles -> SUBSET (Handles \cup {Null})]
  BY DEF TypeOK
<1>1. ASSUME NEW p \in Programs, Construct(p) PROVE FromHandles'
  BY <1>0, <1>1, ConstructObj DEF FromHandles
<1>2. ASSUME NEW p \in Programs, Destroy(p) PROVE FromHandles'
  BY <1>2, DestroyObj DEF FromHandles
<1>3. ASSUME Create PROVE FromHandles'
  <2>1. PICK new \in Handles :
          /\ made_from'[new] = {obj[self][m] : m \in Sources[pc]}
          /\ \A h \in Handles : h # new => made_from'[h] = made_from[h]
    BY <1>3, CreateObj
  <2>2. Null \notin {obj[self][m] : m \in Sources[pc]}
    BY <1>3, SourcesLive
  <2>. QED BY <1>0, <2>1, <2>2 DEF FromHandles
<1>4. ASSUME NEW p \in Programs, NEW q \in Programs, MoveAssign(p, q)
      PROVE  FromHandles'
  BY <1>4, AssignObj DEF FromHandles
<1>5. ASSUME UNCHANGED made_from PROVE FromHandles'
  BY <1>5 DEF FromHandles
<1>. QED BY <1>1, <1>2, <1>3, <1>4, <1>5, NextCases, BindLeaves, MoveObj

LEMMA PoolNext ==
  TypeOK /\ BindShape /\ PoolLives /\ [Next]_vars => PoolLives'
<1> SUFFICES ASSUME TypeOK, BindShape, PoolLives, [Next]_vars
             PROVE  PoolLives'
  OBVIOUS
<1>1. ASSUME NEW p \in Programs, Construct(p) PROVE PoolLives'
  <2>1. PICK new \in Handles :
          /\ new[1] = "shader_"
          /\ live' = live \cup {new}
          /\ \A h \in live : made_from'[h] = made_from[h]
    BY <1>1, ConstructObj
  <2>. QED BY <2>1 DEF PoolLives
<1>2. ASSUME NEW p \in Programs, Destroy(p) PROVE PoolLives'
  <2> DEFINE hs == {k \in Held(p) : k[1] # "desc_set_"}
  <2>1. live' = live \ Freed(hs) /\ \A h \in live' : made_from'[h] = made_from[h]
    BY <1>2, DestroyObj
  <2> HIDE DEF hs
  <2>2. ASSUME NEW h \in live', h[1] = "desc_set_", NEW d \in made_from[h],
               d[1] = "desc_pool_"
        PROVE  d \in live'
    <3>1. h \in live /\ made_from[h] \cap hs = {}
      BY <2>1, <2>2 DEF Freed
    <3>2. d \in live /\ d \notin hs /\ d[1] # "desc_set_"
      BY <2>2, <3>1 DEF PoolLives
    <3>. QED BY <2>1, <3>2 DEF Freed
  <2>. QED BY <2>1, <2>2 DEF PoolLives
<1>3. ASSUME Create PROVE PoolLives'
  <2>1. PICK new \in Handles :
          /\ new[1] = pc
          /\ live' = live \cup {new}
          /\ made_from'[new] = {obj[self][m] : m \in Sources[pc]}
          /\ \A h \in live : made_from'[h] = made_from[h]
    BY <1>3, CreateObj
  <2>2. ASSUME pc = "desc_set_", NEW d \in made_from'[new] PROVE d \in live'
    <3>1. "shader_" \notin Sources["desc_set_"]
      BY DEF Sources
    <3>. QED BY <1>3, <2>1, <2>2, <3>1, SourcesLive
  <2>. QED BY <2>1, <2>2 DEF PoolLives
<1>4. ASSUME NEW p \in Programs, NEW q \in Programs, MoveAssign(p, q)
      PROVE  PoolLives'
  BY <1>4, AssignObj DEF PoolLives
<1>5. ASSUME UNCHANGED <<live, made_from>> PROVE PoolLives'
  BY <1>5 DEF PoolLives
<1>. QED BY <1>1, <1>2, <1>3, <1>4, <1>5, NextCases, BindLeaves, MoveObj

LEMMA TracedNext ==
  TypeOK /\ BindShape /\ FromHandles /\ PoolLives /\ Traced /\ [Next]_vars
    => Traced'
<1> SUFFICES ASSUME TypeOK, BindShape, FromHandles, PoolLives, Traced,
                    [Next]_vars
             PROVE  Traced'
  OBVIOUS
<1>0. /\ made_from \in [Handles -> SUBSET (Handles \cup {Null})]
      /\ live \subseteq Handles
  BY DEF TypeOK
<1>1. ASSUME NEW p \in Programs, Construct(p) PROVE Traced'
  <2>1. PICK new \in Handles :
          /\ new[1] = "shader_"
          /\ live' = live \cup {new}
          /\ \A h \in live : made_from'[h] = made_from[h]
          /\ obj'[p]["shader_"] = new
    BY <1>1, ConstructObj
  <2>2. /\ Alive' = Alive \cup {p} /\ \A q \in Alive : obj'[q] = obj[q]
        /\ overwritten' = overwritten
    BY <1>1, ConstructObj
  <2>3. Traced!(new)'
    BY <2>1, <2>2
  <2>4. ASSUME NEW h \in live PROVE Traced!(h)'
    BY <2>1, <2>2, <2>4 DEF Traced, LostSet
  <2>5. \A h \in live' : Traced!(h)'
    BY <2>1, <2>3, <2>4
  <2>. QED BY <2>5 DEF Traced
<1>2. ASSUME NEW p \in Programs, Destroy(p) PROVE Traced'
  <2> SUFFICES ASSUME NEW h \in live'
               PROVE  Traced!(h)'
    BY DEF Traced
  <2> DEFINE hs == {k \in Held(p) : k[1] # "desc_set_"}
  <2>1. /\ live' = live \ Freed(hs)
        /\ overwritten' = overwritten \cap live'
        /\ made_from'[h] = made_from[h]
    BY <1>2, DestroyObj
  <2>2. p \in Alive /\ Alive' = Alive \ {p} /\ \A q \in Alive' : obj'[q] = obj[q]
    BY <1>2, DestroyObj
  <2>3. h \in live /\ h \notin Freed(hs)
    BY <2>1
  <2>4. h \notin hs /\ ~(h[1] = "desc_set_" /\ made_from[h] \cap hs # {})
    BY <2>3 DEF Freed
  <2>5. ASSUME h[1] # "desc_set_", NEW q \in Alive, obj[q][h[1]] = h
        PROVE  q # p
    <3>1. h # Null /\ h[1] \in Members
      BY <1>0, <2>3, NullIsNothing
    <3>. QED BY <2>2, <2>4, <2>5, <3>1, Kinds
  <2>6. ASSUME h[1] = "desc_set_", NEW q \in Alive, obj[q]["desc_set_"] = h,
               obj[q]["desc_pool_"] \in made_from[h]
        PROVE  q # p
    <3>1. obj[q]["desc_pool_"] # Null /\ "desc_pool_" \in Members
      BY <1>0, <2>3, <2>6 DEF FromHandles, Members
    <3>2. obj[q]["desc_pool_"] \in Held(q) /\ obj[q]["desc_pool_"][1] = "desc_pool_"
      BY <3>1, Kinds
    <3>. QED BY <2>4, <2>6, <3>2
  <2>7. ASSUME LostSet(h) PROVE LostSet(h)'
    <3>1. PICK d \in made_from[h] \cap overwritten :
            d[1] = "desc_pool_" /\ h[1] = "desc_set_"
      BY <2>7 DEF LostSet
    <3>2. d \in live
      BY <2>3, <3>1 DEF PoolLives
    <3>3. d \notin hs /\ d[1] # "desc_set_"
      BY <2>4, <3>1
    <3>4. d \in live'
      BY <2>1, <3>2, <3>3 DEF Freed
    <3>. QED BY <2>1, <3>1, <3>4 DEF LostSet
  <2>. QED BY <2>1, <2>2, <2>3, <2>5, <2>6, <2>7 DEF Traced
<1>3. ASSUME NEW p \in Programs, NEW q \in Programs, MoveConstruct(p, q)
      PROVE  Traced'
  <2>1. UNCHANGED <<live, made_from, overwritten>>
    BY <1>3, MoveObj
  <2>2. ASSUME NEW r \in Alive
        PROVE  \A h \in live : \E s \in Alive' :
                 /\ obj[r][h[1]] = h => obj'[s][h[1]] = h
                 /\ obj'[s]["desc_set_"] = obj[r]["desc_set_"]
                 /\ obj'[s]["desc_pool_"] = obj[r]["desc_pool_"]
    <3>1. CASE r = p
      BY <3>1, <1>3, MoveObj
    <3>2. CASE r # p
      BY <3>2, <1>3, MoveObj
    <3>. QED BY <3>1, <3>2
  <2>. QED BY <2>1, <2>2 DEF Traced, LostSet
<1>4. ASSUME Create PROVE Traced'
  <2>1. PICK new \in Handles :
          /\ new[1] = pc
          /\ new \notin live
          /\ live' = live \cup {new}
          /\ made_from'[new] = {obj[self][m] : m \in Sources[pc]}
          /\ \A h \in live : made_from'[h] = made_from[h]
          /\ obj'[self][pc] = new
    BY <1>4, CreateObj
  <2>2. /\ pc \in DOMAIN After /\ pc \in Members /\ pc # "shader_"
        /\ self \in Alive /\ Alive' = Alive
        /\ overwritten' = overwritten \cup ({obj[self][pc]} \cap live)
        /\ \A q \in Alive : q # self => obj'[q] = obj[q]
        /\ \A m \in Members : m # pc => obj'[self][m] = obj[self][m]
    BY <1>4, CreateObj
  <2>6. pc = "pipeline_" => obj[self][pc] = Null
    BY <2>2 DEF BindShape
  <2>7. Traced!(new)'
    <3>1. CASE pc # "desc_set_"
      BY <2>1, <2>2, <3>1
    <3>2. CASE pc = "desc_set_"
      <4>1. "desc_pool_" \in Sources["desc_set_"] /\ "desc_pool_" \in Members
        BY DEF Sources, Members
      <4>. QED BY <2>1, <2>2, <3>2, <4>1
    <3>. QED BY <3>1, <3>2
  <2>8. ASSUME NEW h \in live PROVE Traced!(h)'
    <3>1. h \in Handles /\ h # Null /\ h[1] \in Members
      BY <1>0, NullIsNothing
    <3>2. ASSUME h[1] # "desc_set_", NEW q \in Alive, obj[q][h[1]] = h
          PROVE  Traced!(h)'
      <4>1. CASE q = self /\ h[1] = pc
        BY <2>2, <2>6, <2>8, <3>1, <3>2, <4>1
      <4>2. CASE ~(q = self /\ h[1] = pc)
        BY <2>2, <3>1, <3>2, <4>2
      <4>. QED BY <4>1, <4>2
    <3>3. ASSUME h[1] = "desc_set_", NEW q \in Alive, obj[q]["desc_set_"] = h,
                 obj[q]["desc_pool_"] \in made_from[h]
          PROVE  Traced!(h)'
      <4>1. obj[q]["desc_pool_"] # Null
        BY <3>1, <3>3 DEF FromHandles
      <4>0. "desc_set_" \in Members /\ "desc_pool_" \in Members
        BY DEF Members
      <4>2. CASE q = self /\ pc = "desc_set_"
        BY <2>2, <2>8, <3>1, <3>3, <4>2
      <4>3. CASE q = self /\ pc = "desc_pool_"
        <5>1. PICK d \in Handles : d = obj[q]["desc_pool_"] /\ d[1] = "desc_pool_"
          BY <4>0, <4>1, Kinds
        <5>2. d \in live
          BY <3>3, <5>1 DEF PoolLives
        <5>3. d \in overwritten' /\ d \in made_from'[h]
          BY <2>1, <2>2, <3>3, <4>3, <5>1, <5>2
        <5>4. LostSet(h)'
          BY <3>3, <5>1, <5>3 DEF LostSet
        <5>. QED BY <5>4
      <4>4. CASE q # self \/ pc \notin {"desc_set_", "desc_pool_"}
        BY <2>1, <2>2, <3>1, <3>3, <4>0, <4>4
      <4>. QED BY <4>2, <4>3, <4>4
    <3>4. ASSUME \/ h \in overwritten /\ h[1] \notin {"shader_", "pipeline_"}
                 \/ LostSet(h)
          PROVE  Traced!(h)'
      BY <2>1, <2>2, <3>4 DEF LostSet
    <3>. QED BY <3>2, <3>3, <3>4 DEF Traced
  <2>9. \A h \in live' : Traced!(h)'
    BY <2>1, <2>7, <2>8
  <2>. QED BY <2>9 DEF Traced
<1>5. ASSUME NEW p \in Programs, NEW q \in Programs, MoveAssign(p, q)
      PROVE  Traced'
  BY <1>5, AssignObj DEF Traced
<1>6. ASSUME UNCHANGED <<live, made_from, obj, overwritten>> PROVE Traced'
  BY <1>6 DEF Traced, LostSet, Alive
<1>. QED BY <1>1, <1>2, <1>3, <1>4, <1>5, <1>6, NextCases, BindLeaves

-----------------------------------------------------------------------------
(* What the release of one program leaves to those that were not parted.   *)
LEMMA DestroyLeaves ==
  ASSUME TypeOK, OwnedOnce, SetOwn, NEW p \in Programs, Destroy(p),
         NEW q \in Alive' \ parted'
  PROVE  /\ q \in Alive \ parted /\ q # p
         /\ Held(q) \cap Held(p) = {}
         /\ Held(q) \subseteq live'
<1> DEFINE hs == {h \in Held(p) : h[1] # "desc_set_"}
<1>1. live' = live \ Freed(hs)
  BY DestroyObj
<1>2. q \in Alive \ parted /\ q # p /\ p \in Alive
  BY DestroyObj
<1>3. Held(q) \cap Held(p) = {} /\ Held(q) \subseteq live
  BY <1>2 DEF OwnedOnce
<1>4. ASSUME NEW h \in Held(q) PROVE h \in live'
  <2>1. h \in live /\ h \notin Held(p)
    BY <1>3, <1>4
  <2>2. ASSUME h[1] = "desc_set_" PROVE made_from[h] \cap hs = {}
    <3>1. obj[q]["desc_set_"] = h /\ h # Null
      BY <1>2, <1>4, <2>2, Kinds
    <3>. QED BY <1>2, <3>1 DEF SetOwn
  <2>. QED BY <1>1, <2>1, <2>2 DEF Freed
<1>. QED BY <1>2, <1>3, <1>4

(* The first part of OwnedOnce, as an operator of two programs.            *)
Apart(p, q) ==
  Held(p) \cap Held(q) # {} =>
    {p, q} \subseteq parted /\ Null \in {obj[p]["shader_"], obj[q]["shader_"]}

LEMMA SharedNext ==
  ASSUME TypeOK, OwnedOnce, [Next]_vars
  PROVE  \A p, q \in Alive' : p # q => Apart(p, q)'
<1>0. \A p, q \in Alive : p # q => Apart(p, q)
  BY DEF OwnedOnce, Apart
<1>1. ASSUME NEW p \in Programs, Construct(p)
      PROVE  \A r, s \in Alive' : r # s => Apart(r, s)'
  <2>1. PICK new \in Handles :
          Held(p)' = {new} /\ \A q \in Alive : new \notin Held(q)
    BY <1>1, ConstructObj
  <2>2. /\ Alive' = Alive \cup {p} /\ parted' = parted
        /\ \A q \in Alive : obj'[q] = obj[q] /\ Held(q)' = Held(q)
    BY <1>1, ConstructObj
  <2>. QED BY <1>0, <2>1, <2>2 DEF Apart
<1>2. ASSUME NEW p \in Programs, Destroy(p)
      PROVE  \A r, s \in Alive' : r # s => Apart(r, s)'
  BY <1>0, <1>2, DestroyObj DEF Apart
<1>3. ASSUME NEW p \in Programs, NEW q \in Programs, MoveConstruct(p, q)
      PROVE  \A r, s \in Alive' : r # s => Apart(r, s)'
  <2>1. /\ p \in Alive /\ q \notin Alive /\ Alive' = Alive \cup {q}
        /\ \A r \in Alive : r # p => obj'[r] = obj[r] /\ Held(r)' = Held(r)
        /\ obj'[q] = obj[p] /\ Held(q)' = Held(p)
        /\ obj'[p]["shader_"] = Null /\ Held(p)' \subseteq Held(p)
        /\ parted' = IF Shares(p) \/ p \in parted THEN parted \cup {p, q} ELSE parted
    BY <1>3, MoveObj
  <2>2. ~Shares(p) => Held(p)' = {}
    BY <1>3, MoveUnbound
  <2>3. parted \subseteq parted' /\ (p \in parted => {p, q} \subseteq parted')
    BY <2>1
  <2>4. Apart(p, q)' /\ Apart(q, p)'
    BY <2>1, <2>2 DEF Apart
  <2>5. ASSUME NEW r \in Alive, r # p PROVE Apart(p, r)' /\ Apart(r, p)'
    BY <1>0, <2>1, <2>3, <2>5 DEF Apart
  <2>6. ASSUME NEW r \in Alive, r # p PROVE Apart(q, r)' /\ Apart(r, q)'
    BY <1>0, <2>1, <2>3, <2>6 DEF Apart
  <2>7. ASSUME NEW r \in Alive, NEW s \in Alive, r # p, s # p, r # s
        PROVE  Apart(r, s)'
    BY <1>0, <2>1, <2>3, <2>7 DEF Apart
  <2>. QED BY <2>1, <2>4, <2>5, <2>6, <2>7
<1>4. ASSUME NEW p \in Programs, NEW q \in Programs, MoveAssign(p, q)
      PROVE  \A r, s \in Alive' : r # s => Apart(r, s)'
  <2>1. /\ p \in Alive /\ q \in Alive /\ Alive' = Alive /\ parted' = Alive
        /\ \A r \in Alive : r \notin {p, q} =>
             obj'[r] = obj[r] /\ Held(r)' = Held(r)
        /\ Held(p)' \subseteq Held(q) /\ Held(q)' \subseteq Held(q)
        /\ obj'[p]["shader_"] \in {obj[q]["shader_"], Null}
        /\ obj'[q]["shader_"] = Null
    BY <1>4, AssignObj
  <2>2. ASSUME NEW r \in Alive, r \notin {p, q}
        PROVE  Apart(p, r)' /\ Apart(r, p)'
    BY <1>0, <2>1, <2>2 DEF Apart
  <2>3. ASSUME NEW r \in Alive, r # q PROVE Apart(q, r)' /\ Apart(r, q)'
    BY <2>1, <2>3 DEF Apart
  <2>4. ASSUME NEW r \in Alive, NEW s \in Alive, r \notin {p, q},
               s \notin {p, q}, r # s
        PROVE  Apart(r, s)'
    BY <1>0, <2>1, <2>4 DEF Apart
  <2>. QED BY <2>1, <2>2, <2>3, <2>4
<1>5. ASSUME Create
      PROVE  \A r, s \in Alive' : r # s => Apart(r, s)'
  <2>1. PICK new \in Handles :
          /\ Held(self)' \subseteq Held(self) \cup {new}
          /\ \A q \in Alive : new \notin Held(q)
    BY <1>5, CreateObj
  <2>2. /\ self \in Alive /\ self' = self /\ Alive' = Alive /\ parted' = parted
        /\ \A q \in Alive : q # self => obj'[q] = obj[q] /\ Held(q)' = Held(q)
        /\ obj'[self]["shader_"] = obj[self]["shader_"]
    BY <1>5, CreateObj, Steps
  <2>3. ASSUME NEW r \in Alive, r # self PROVE Apart(self, r)' /\ Apart(r, self)'
    <3>1. Held(self)' \cap Held(r)' \subseteq Held(self) \cap Held(r)
      BY <2>1, <2>2, <2>3
    <3>2. Apart(self, r) /\ Apart(r, self)
      BY <1>0, <2>2, <2>3
    <3>. QED BY <2>2, <2>3, <3>1, <3>2 DEF Apart
  <2>4. ASSUME NEW r \in Alive, NEW s \in Alive, r # self, s # self, r # s
        PROVE  Apart(r, s)'
    BY <1>0, <2>2, <2>4 DEF Apart
  <2>. QED BY <2>2, <2>3, <2>4
<1>6. ASSUME UNCHANGED <<obj, parted>>
      PROVE  \A r, s \in Alive' : r # s => Apart(r, s)'
  BY <1>0, <1>6 DEF Apart, Alive, Held
<1>. QED BY <1>1, <1>2, <1>3, <1>4, <1>5, <1>6, NextCases, BindLeaves

LEMMA OwnedNext ==
  ASSUME TypeOK, OwnedOnce, SetOwn, [Next]_vars
  PROVE  OwnedOnce'
<1>0. \A p \in Alive \ parted : Held(p) \subseteq live
  BY DEF OwnedOnce
<1>1. ASSUME NEW p \in Programs, Construct(p)
      PROVE  \A q \in Alive' \ parted' : Held(q)' \subseteq live'
  BY <1>0, <1>1, ConstructObj
<1>2. ASSUME NEW p \in Programs, Destroy(p)
      PROVE  \A q \in Alive' \ parted' : Held(q)' \subseteq live'
  BY <1>2, DestroyLeaves, DestroyObj
<1>3. ASSUME NEW p \in Programs, NEW q \in Programs, MoveConstruct(p, q)
      PROVE  \A r \in Alive' \ parted' : Held(r)' \subseteq live'
  BY <1>0, <1>3, MoveObj
<1>4. ASSUME NEW p \in Programs, NEW q \in Programs, MoveAssign(p, q)
      PROVE  \A r \in Alive' \ parted' : Held(r)' \subseteq live'
  BY <1>4, AssignObj
<1>5. ASSUME Create
      PROVE  \A r \in Alive' \ parted' : Held(r)' \subseteq live'
  <2>1. PICK new \in Handles :
          live' = live \cup {new} /\ Held(self)' \subseteq Held(self) \cup {new}
    BY <1>5, CreateObj
  <2>2. /\ self' = self /\ Alive' = Alive /\ parted' = parted
        /\ \A q \in Alive : q # self => Held(q)' = Held(q)
    BY <1>5, CreateObj
  <2>3. CASE self \in parted
    BY <1>0, <2>1, <2>2, <2>3
  <2>4. CASE self \notin parted
    <3>1. \A r \in Alive \ parted : r # self => Held(r)' \subseteq live'
      BY <1>0, <2>1, <2>2
    <3>2. Held(self)' \subseteq live'
      BY <1>0, <1>5, <2>1, <2>4, CreateObj
    <3>. QED BY <2>2, <3>1, <3>2
  <2>. QED BY <2>3, <2>4
<1>6. ASSUME UNCHANGED <<live, obj, parted>>
      PROVE  \A r \in Alive' \ parted' : Held(r)' \subseteq live'
  BY <1>0, <1>6 DEF Alive, Held
<1>7. \A r \in Alive' \ parted' : Held(r)' \subseteq live'
  BY <1>1, <1>2, <1>3, <1>4, <1>5, <1>6, NextCases, BindLeaves
<1>. QED BY <1>7, SharedNext DEF OwnedOnce, Apart

LEMMA SetOwnNext ==
  ASSUME TypeOK, BindShape, OwnedOnce, SetOwn, [Next]_vars
  PROVE  SetOwn'
<1>0. "desc_set_" \in Members /\ "desc_set_" # "shader_"
  BY DEF Members
<1>1. ASSUME NEW p \in Programs, Construct(p) PROVE SetOwn'
  <2>1. /\ Alive' = Alive \cup {p} /\ parted' = parted
        /\ \A q \in Alive : obj'[q] = obj[q] /\ Held(q)' = Held(q)
    BY <1>1, ConstructObj
  <2>2. PICK new \in Handles :
          /\ new \notin live
          /\ live' = live \cup {new}
          /\ \A h \in live : made_from'[h] = made_from[h]
          /\ Held(p)' = {new}
          /\ obj'[p]["desc_set_"] = Null
    BY <1>0, <1>1, ConstructObj
  <2>3. ASSUME NEW r \in Alive \ parted, obj[r]["desc_set_"] # Null
        PROVE  obj[r]["desc_set_"] \in live
    BY <1>0, <2>3, Kinds DEF OwnedOnce
  <2>4. ASSUME NEW r \in Alive \ parted, obj'[r]["desc_set_"] # Null,
               NEW d \in made_from'[obj'[r]["desc_set_"]]
        PROVE  /\ d \in live' /\ d[1] # "desc_set_"
               /\ \A q \in Alive' : q # r => d \notin Held(q)'
    <3>1. obj[r]["desc_set_"] # Null /\ d \in made_from[obj[r]["desc_set_"]]
      BY <2>1, <2>2, <2>3, <2>4
    <3>2. /\ d \in live /\ d[1] # "desc_set_"
          /\ \A q \in Alive : q # r => d \notin Held(q)
      BY <2>4, <3>1 DEF SetOwn
    <3>. QED BY <2>1, <2>2, <3>2
  <2>5. \A r \in Alive' \ parted' : obj'[r]["desc_set_"] # Null => r \in Alive \ parted
    BY <2>1, <2>2
  <2>. QED BY <2>4, <2>5 DEF SetOwn
<1>2. ASSUME NEW p \in Programs, Destroy(p) PROVE SetOwn'
  <2> DEFINE hs == {h \in Held(p) : h[1] # "desc_set_"}
  <2>1. /\ p \in Alive /\ Alive' = Alive \ {p}
        /\ \A q \in Alive' : obj'[q] = obj[q] /\ Held(q)' = Held(q)
        /\ live' = live \ Freed(hs)
        /\ \A h \in live' : made_from'[h] = made_from[h]
    BY <1>2, DestroyObj
  <2>2. ASSUME NEW r \in Alive' \ parted', obj'[r]["desc_set_"] # Null,
               NEW d \in made_from'[obj'[r]["desc_set_"]]
        PROVE  /\ d \in live' /\ d[1] # "desc_set_"
               /\ \A q \in Alive' : q # r => d \notin Held(q)'
    <3>1. r \in Alive \ parted /\ r # p /\ Held(r) \subseteq live'
      BY <1>2, DestroyLeaves
    <3>2. obj[r]["desc_set_"] \in live' /\ obj[r]["desc_set_"] # Null
      BY <1>0, <2>1, <2>2, <3>1, Kinds
    <3>3. d \in made_from[obj[r]["desc_set_"]]
      BY <2>1, <2>2, <3>2
    <3>4. /\ d \in live /\ d[1] # "desc_set_"
          /\ \A q \in Alive : q # r => d \notin Held(q)
      BY <3>1, <3>2, <3>3 DEF SetOwn
    <3>5. d \in live'
      BY <2>1, <3>1, <3>4 DEF Freed
    <3>. QED BY <2>1, <3>4, <3>5
  <2>. QED BY <2>2 DEF SetOwn
<1>3. ASSUME NEW p \in Programs, NEW q \in Programs, MoveConstruct(p, q)
      PROVE  SetOwn'
  <2>1. /\ live' = live /\ made_from' = made_from
        /\ p \in Alive /\ q \notin Alive /\ Alive' = Alive \cup {q}
        /\ \A r \in Alive : r # p => obj'[r] = obj[r] /\ Held(r)' = Held(r)
        /\ obj'[q] = obj[p] /\ Held(q)' = Held(p) /\ Held(p)' \subseteq Held(p)
        /\ parted' = IF Shares(p) \/ p \in parted THEN parted \cup {p, q} ELSE parted
    BY <1>3, MoveObj
  <2>2. ~Shares(p) => obj'[p]["desc_set_"] = Null /\ obj'[q]["desc_set_"] = Null
    BY <1>0, <1>3, MoveUnbound
  <2>3. ASSUME NEW r \in Alive' \ parted', obj'[r]["desc_set_"] # Null
        PROVE  r \in Alive \ parted /\ r # p
    BY <2>1, <2>2, <2>3
  <2>4. ASSUME NEW r \in Alive' \ parted', obj'[r]["desc_set_"] # Null,
               NEW d \in made_from[obj[r]["desc_set_"]]
        PROVE  /\ d \in live /\ d[1] # "desc_set_"
               /\ \A s \in Alive' : s # r => d \notin Held(s)'
    <3>1. r \in Alive \ parted /\ r # p /\ obj[r]["desc_set_"] # Null
      BY <2>1, <2>3, <2>4
    <3>2. /\ d \in live /\ d[1] # "desc_set_"
          /\ \A s \in Alive : s # r => d \notin Held(s)
      BY <2>4, <3>1 DEF SetOwn
    <3>. QED BY <2>1, <3>1, <3>2
  <2>. QED BY <2>1, <2>3, <2>4 DEF SetOwn
<1>4. ASSUME Create PROVE SetOwn'
  <2>1. /\ pc \in DOMAIN After /\ parted' = parted
        /\ self \in Alive /\ self' = self /\ Alive' = Alive
        /\ \A q \in Alive : q # self => obj'[q] = obj[q] /\ Held(q)' = Held(q)
        /\ \A m \in Members : m # pc => obj'[self][m] = obj[self][m]
    BY <1>4, CreateObj
  <2>2. PICK new \in Handles :
           /\ new # Null /\ new[1] = pc
           /\ new \notin live
           /\ \A q \in Alive : new \notin Held(q)
           /\ live' = live \cup {new}
           /\ obj'[self][pc] = new
           /\ made_from'[new] = {obj[self][m] : m \in Sources[pc]}
           /\ \A h \in live : made_from'[h] = made_from[h]
           /\ Held(self)' \subseteq Held(self) \cup {new}
    BY <1>4, CreateObj
  <2>3. ASSUME NEW r \in Alive \ parted,
               r # self \/ pc # "desc_set_",
               obj'[r]["desc_set_"] # Null,
               NEW d \in made_from'[obj'[r]["desc_set_"]]
        PROVE  /\ d \in live' /\ d[1] # "desc_set_"
               /\ \A q \in Alive' : q # r => d \notin Held(q)'
    <3>1. obj'[r]["desc_set_"] = obj[r]["desc_set_"]
      BY <1>0, <2>1, <2>3
    <3>2. obj[r]["desc_set_"] \in live
      BY <1>0, <2>3, <3>1, Kinds DEF OwnedOnce
    <3>3. d \in made_from[obj[r]["desc_set_"]]
      BY <2>2, <2>3, <3>1, <3>2
    <3>4. /\ d \in live /\ d[1] # "desc_set_"
          /\ \A q \in Alive : q # r => d \notin Held(q)
      BY <2>3, <3>1, <3>3 DEF SetOwn
    <3>5. d # new /\ d \in live'
      BY <2>2, <3>4
    <3>6. ASSUME NEW q \in Alive, q # r PROVE d \notin Held(q)'
      BY <2>1, <2>2, <3>4, <3>5, <3>6
    <3>. QED BY <2>1, <3>4, <3>5, <3>6
  <2>4. ASSUME pc = "desc_set_", self \notin parted,
               NEW d \in made_from'[obj'[self]["desc_set_"]]
        PROVE  /\ d \in live' /\ d[1] # "desc_set_"
               /\ \A q \in Alive' : q # self => d \notin Held(q)'
    <3>1. PICK m \in Sources["desc_set_"] : d = obj[self][m]
      BY <2>2, <2>4
    <3>2. m \in {"desc_pool_", "desc_layout_"} /\ m \in Members
      BY DEF Sources, Members
    <3>3. obj[self][m] # Null
      BY <1>4, <2>4, SourcesLive
    <3>4. d \in Held(self) /\ d[1] = m
      BY <2>1, <3>1, <3>2, <3>3, Kinds
    <3>5. d \in live
      BY <2>1, <2>4, <3>4 DEF OwnedOnce
    <3>6. \A q \in Alive : q # self => d \notin Held(q)
      BY <2>1, <2>4, <3>4 DEF OwnedOnce
    <3>. QED BY <2>1, <2>2, <3>2, <3>4, <3>5, <3>6
  <2>. QED BY <2>1, <2>3, <2>4 DEF SetOwn
<1>5. ASSUME NEW p \in Programs, NEW q \in Programs, MoveAssign(p, q)
      PROVE  SetOwn'
  BY <1>5, AssignObj DEF SetOwn
<1>6. ASSUME UNCHANGED <<live, made_from, obj, parted>> PROVE SetOwn'
  BY <1>6 DEF SetOwn, Alive, Held
<1>. QED BY <1>1, <1>2, <1>3, <1>4, <1>5, <1>6, NextCases, BindLeaves

LEMMA MadeNext ==
  ASSUME TypeOK, BindShape, MadeSoFar, [Next]_vars
  PROVE  MadeSoFar'
<1>1. ASSUME pc' \notin DOMAIN After PROVE MadeSoFar'
  BY <1>1 DEF MadeSoFar
<1>2. ASSUME NEW p \in Programs, Bind(p) PROVE MadeSoFar'
  <2>1. Before["desc_layout_"] = {} /\ "record" \notin DOMAIN After
    BY DEF Before, After
  <2>. QED BY <1>2, <2>1, BindLeaves DEF MadeSoFar
<1>3. ASSUME Create, pc' \in DOMAIN After PROVE MadeSoFar'
  <2>1. /\ pc \in DOMAIN After /\ self \in Alive /\ self' = self
        /\ pc' = After[pc]
        /\ \A m \in Members : m # pc => obj'[self][m] = obj[self][m]
    BY <1>3, CreateObj
  <2>2. PICK new \in Handles :
           /\ live' = live \cup {new}
           /\ obj'[self][pc] = new
           /\ made_from'[new] = {obj[self][m] : m \in Sources[pc]}
           /\ \A h \in live : made_from'[h] = made_from[h]
    BY <1>3, CreateObj
  <2>3. Before[pc'] = Before[pc] \cup {pc}
    BY <1>3, <2>1, AfterStep
  <2>4. ASSUME NEW m \in Before[pc]
        PROVE  made_from'[obj'[self][m]] = {obj'[self][s] : s \in Sources[m]}
    <3>1. /\ m \in Members /\ m # pc
          /\ \A s \in Sources[m] : s \in Members /\ s # pc
      BY <2>1, SourcesBefore, Steps
    <3>2. obj[self][m] \in live
      BY <2>1, <3>1 DEF BindShape
    <3>3. made_from[obj[self][m]] = {obj[self][s] : s \in Sources[m]}
      BY <2>1 DEF MadeSoFar
    <3>4. {obj'[self][s] : s \in Sources[m]} = {obj[self][s] : s \in Sources[m]}
      BY <2>1, <3>1
    <3>. QED BY <2>1, <2>2, <3>1, <3>2, <3>3, <3>4
  <2>5. made_from'[obj'[self][pc]] = {obj'[self][s] : s \in Sources[pc]}
    <3>1. \A s \in Sources[pc] : s \in Members /\ s # pc
      BY <2>1, SourcesBefore, Steps
    <3>2. {obj'[self][s] : s \in Sources[pc]} = {obj[self][s] : s \in Sources[pc]}
      BY <2>1, <3>1
    <3>. QED BY <2>2, <3>2
  <2>. QED BY <2>1, <2>3, <2>4, <2>5 DEF MadeSoFar
<1>4. ASSUME pc' = "idle" PROVE MadeSoFar'
  BY <1>1, <1>4, Steps
<1>5. ASSUME NEW p \in Programs, Construct(p) \/ Destroy(p) PROVE pc' = "idle"
  BY <1>5, ConstructObj, DestroyObj
<1>6. ASSUME NEW p \in Programs, NEW q \in Programs,
             MoveConstruct(p, q) \/ MoveAssign(p, q)
      PROVE  pc' = "idle"
  BY <1>6, MoveObj, AssignObj
<1>7. ASSUME UNCHANGED <<made_from, obj, pc, self>> PROVE MadeSoFar'
  BY <1>7 DEF MadeSoFar
<1>. QED BY <1>1, <1>2, <1>3, <1>4, <1>5, <1>6, <1>7, NextCases

(* What Coherent says of one program.                                      *)
AllOfOne(p) ==
  obj[p]["shader_"] # Null /\ obj[p]["pipeline_"] # Null =>
    /\ Null \notin {obj[p][m] : m \in Members}
    /\ \A m \in DOMAIN Sources : obj[p][m] \in live =>
         made_from[obj[p][m]] = {obj[p][s] : s \in Sources[m]}

LEMMA CoherentNext ==
  ASSUME TypeOK, BindShape, MadeSoFar, Coherent, [Next]_vars
  PROVE  Coherent'
<1>0. /\ "pipeline_" \in Members /\ "pipeline_" # "shader_"
      /\ \A p \in Alive : AllOfOne(p)
  BY DEF Members, Coherent, AllOfOne
(* A program that has what another one had stays as it was, as long as     *)
(* nothing else takes the name of what it holds.                           *)
<1>1. ASSUME NEW r \in Alive, NEW s \in Alive', obj'[s] = obj[r],
             \A h \in Held(r) \cap live' : h \in live /\ made_from'[h] = made_from[h]
      PROVE  AllOfOne(s)'
  <2> SUFFICES ASSUME obj[r]["shader_"] # Null, obj[r]["pipeline_"] # Null
               PROVE  /\ Null \notin {obj[r][m] : m \in Members}
                      /\ \A m \in DOMAIN Sources : obj[r][m] \in live' =>
                           made_from'[obj[r][m]] = {obj[r][k] : k \in Sources[m]}
    BY <1>1 DEF AllOfOne
  <2>1. /\ Null \notin {obj[r][m] : m \in Members}
        /\ \A m \in DOMAIN Sources : obj[r][m] \in live =>
             made_from[obj[r][m]] = {obj[r][k] : k \in Sources[m]}
    BY <1>0 DEF AllOfOne
  <2>2. \A m \in DOMAIN Sources : obj[r][m] \in Held(r)
    BY <2>1, Kinds, Steps
  <2>. QED BY <1>1, <2>1, <2>2
<1>2. ASSUME NEW p \in Programs, Construct(p) PROVE \A r \in Alive' : AllOfOne(r)'
  <2>1. PICK new \in Handles :
          /\ \A q \in Alive : new \notin Held(q)
          /\ live' = live \cup {new}
          /\ \A h \in live : made_from'[h] = made_from[h]
          /\ obj'[p]["pipeline_"] = Null
    BY <1>0, <1>2, ConstructObj
  <2>2. Alive' = Alive \cup {p} /\ \A q \in Alive : obj'[q] = obj[q]
    BY <1>2, ConstructObj
  <2>3. \A r \in Alive : AllOfOne(r)'
    BY <1>1, <2>1, <2>2
  <2>4. AllOfOne(p)'
    BY <2>1 DEF AllOfOne
  <2>. QED BY <2>2, <2>3, <2>4
<1>3. ASSUME NEW p \in Programs, Destroy(p) PROVE \A r \in Alive' : AllOfOne(r)'
  <2>1. /\ \A r \in Alive' : r \in Alive /\ obj'[r] = obj[r]
        /\ live' \subseteq live
        /\ \A h \in live' : made_from'[h] = made_from[h]
    BY <1>3, DestroyObj
  <2>. QED BY <1>1, <2>1
<1>4. ASSUME NEW p \in Programs, NEW q \in Programs, MoveConstruct(p, q)
      PROVE  \A r \in Alive' : AllOfOne(r)'
  <2>1. /\ live' = live /\ made_from' = made_from
        /\ p \in Alive /\ Alive' = Alive \cup {q}
        /\ \A r \in Alive : r # p => obj'[r] = obj[r]
        /\ obj'[q] = obj[p] /\ obj'[p]["shader_"] = Null
    BY <1>4, MoveObj
  <2>2. AllOfOne(p)'
    BY <2>1 DEF AllOfOne
  <2>3. \A r \in Alive' : r # p => AllOfOne(r)'
    BY <1>1, <2>1
  <2>. QED BY <2>2, <2>3
<1>5. ASSUME NEW p \in Programs, NEW q \in Programs, MoveAssign(p, q)
      PROVE  \A r \in Alive' : AllOfOne(r)'
  <2>1. /\ p \in Alive /\ q \in Alive /\ Alive' = Alive /\ live' = {}
        /\ \A r \in Alive : r \notin {p, q} => obj'[r] = obj[r]
        /\ \A m \in Members : m # "shader_" => obj'[p][m] = obj[q][m]
        /\ obj'[p]["shader_"] \in {obj[q]["shader_"], Null}
        /\ obj'[q]["shader_"] = Null
    BY <1>5, AssignObj
  <2>2. AllOfOne(q)'
    BY <2>1 DEF AllOfOne
  <2>3. AllOfOne(p)'
    <3> SUFFICES ASSUME obj'[p]["shader_"] # Null, obj'[p]["pipeline_"] # Null
                 PROVE  Null \notin {obj'[p][m] : m \in Members}
      BY <2>1 DEF AllOfOne
    <3>1. \A m \in Members : obj'[p][m] = obj[q][m]
      BY <2>1
    <3>2. obj[q]["shader_"] # Null /\ obj[q]["pipeline_"] # Null
      BY <1>0, <3>1, Steps
    <3>. QED BY <1>0, <2>1, <3>1, <3>2 DEF AllOfOne
  <2>4. \A r \in Alive' : r \notin {p, q} => AllOfOne(r)'
    BY <1>1, <2>1
  <2>. QED BY <2>2, <2>3, <2>4
<1>6. ASSUME Create PROVE \A r \in Alive' : AllOfOne(r)'
  <2>1. /\ pc \in DOMAIN After
        /\ self \in Alive /\ self' = self /\ Alive' = Alive
        /\ \A q \in Alive : q # self => obj'[q] = obj[q]
        /\ \A m \in Members : m # pc => obj'[self][m] = obj[self][m]
    BY <1>6, CreateObj
  <2>2. PICK new \in Handles :
           /\ new # Null
           /\ \A q \in Alive : new \notin Held(q)
           /\ live' = live \cup {new}
           /\ obj'[self][pc] = new
           /\ made_from'[new] = {obj[self][m] : m \in Sources[pc]}
           /\ \A h \in live : made_from'[h] = made_from[h]
    BY <1>6, CreateObj
  <2>3. \A r \in Alive : r # self => AllOfOne(r)'
    BY <1>1, <2>1, <2>2
  <2>4. ASSUME obj'[self]["pipeline_"] # Null
        PROVE  /\ Null \notin {obj'[self][m] : m \in Members}
               /\ \A m \in DOMAIN Sources :
                    made_from'[obj'[self][m]] = {obj'[self][s] : s \in Sources[m]}
    <3>1. pc = "pipeline_"
      BY <1>0, <2>1, <2>4 DEF BindShape
    <3>2. ASSUME NEW m \in Members PROVE obj'[self][m] # Null
      <4>1. m \in Before["pipeline_"] \/ m = "pipeline_" \/ m = "shader_"
        BY LastStep
      <4>2. Null \notin live
        BY NullIsNothing DEF TypeOK
      <4>. QED BY <2>1, <2>2, <3>1, <4>1, <4>2, Steps DEF BindShape
    <3>3. ASSUME NEW m \in DOMAIN Sources
          PROVE  made_from'[obj'[self][m]] = {obj'[self][s] : s \in Sources[m]}
      <4>1. m \in DOMAIN After /\ m \in Members
        BY Steps
      <4>2. \A s \in Sources[m] : s \in Members /\ s # "pipeline_"
        BY <4>1, SourcesBefore, Steps
      <4>3. {obj'[self][s] : s \in Sources[m]} = {obj[self][s] : s \in Sources[m]}
        BY <2>1, <3>1, <4>2
      <4>4. CASE m = "pipeline_"
        BY <2>2, <3>1, <4>3, <4>4
      <4>5. CASE m # "pipeline_"
        <5>1. m \in Before[pc]
          BY <3>1, <4>5, LastStep
        <5>2. made_from[obj[self][m]] = {obj[self][s] : s \in Sources[m]}
          BY <2>1, <5>1 DEF MadeSoFar
        <5>3. obj[self][m] \in live
          BY <2>1, <5>1 DEF BindShape
        <5>. QED BY <2>1, <2>2, <3>1, <4>1, <4>3, <4>5, <5>2, <5>3
      <4>. QED BY <4>4, <4>5
    <3>. QED BY <3>2, <3>3
  <2>5. AllOfOne(self)'
    BY <2>1, <2>4 DEF AllOfOne
  <2>. QED BY <2>1, <2>3, <2>5
<1>7. ASSUME UNCHANGED <<live, made_from, obj>>
      PROVE  \A r \in Alive' : AllOfOne(r)'
  BY <1>0, <1>7 DEF AllOfOne, Alive
<1>8. \A r \in Alive' : AllOfOne(r)'
  BY <1>2, <1>3, <1>4, <1>5, <1>6, <1>7, NextCases, BindLeaves
<1>. QED BY <1>8 DEF Coherent, AllOfOne

-----------------------------------------------------------------------------
LEMMA NextInv == IndInv /\ [Next]_vars => IndInv'
  BY TypeNext, ShapeNext, FromNext, PoolNext, TracedNext, OwnedNext,
     SetOwnNext, MadeNext, CoherentNext DEF IndInv

LEMMA Invariance == Spec => []IndInv
  BY InitInv, NextInv, PTL DEF Spec

(* The type invariant of program.h's members, with the kind of each.       *)
THEOREM TypeCorrect == Spec => []TypeOK
<1>1. IndInv => TypeOK
  BY DEF IndInv
<1>. QED BY <1>1, Invariance, PTL

(* Whatever the client binds, moves, assigns and destroys, and whichever   *)
(* calls throw: what exists and no program holds any more was overwritten  *)
(* by a repeated bind, or is a set in a pool that was, and is no shader    *)
(* and no pipeline.                                                        *)
THEOREM LossOnlyByRetry == Spec => []LostByRetryOnly
<1>1. ASSUME IndInv PROVE LostByRetryOnly
  <2> SUFFICES ASSUME NEW h \in live, \A p \in Alive : h \notin Held(p)
               PROVE  /\ h \in overwritten \/ LostSet(h)
                      /\ h[1] \notin {"shader_", "pipeline_"}
    BY DEF LostByRetryOnly, LostSet
  <2>1. h \in Handles /\ h # Null /\ h[1] \in Members
    BY <1>1, NullIsNothing DEF IndInv, TypeOK
  <2>2. \A p \in Alive : obj[p][h[1]] # h
    BY <2>1 DEF Held
  <2>. QED BY <1>1, <2>1, <2>2 DEF IndInv, Traced, LostSet
<1>. QED BY <1>1, Invariance, PTL

(* Programs may be moved and assigned at any time, bound or not: they      *)
(* share handles only where a move or an assignment parted them, of two    *)
(* that share at most one has a shader, and ProgramBase's release of a     *)
(* program that was not parted destroys what exists, once, and nothing of  *)
(* another program.                                                        *)
THEOREM OwnedByOne == Spec => []OwnedOnce
<1>1. IndInv => OwnedOnce
  BY DEF IndInv
<1>. QED BY <1>1, Invariance, PTL

(* A program with a pipeline that was not moved from has all of one bind,  *)
(* and all of it made from what it holds now, after any number of binds    *)
(* that failed at any of their calls, and after any moves.                 *)
THEOREM PipelineIsCoherent == Spec => []Coherent
<1>1. IndInv => Coherent
  BY DEF IndInv
<1>. QED BY <1>1, Invariance, PTL

=============================================================================
