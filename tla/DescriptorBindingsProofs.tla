---------------------- MODULE DescriptorBindingsProofs ----------------------
(***************************************************************************)
(* Proofs about DescriptorBindings: for any arrays, buffers, sizes and     *)
(* argument lists, what the GPU reads is what the last bind gave, in the   *)
(* layout of the bind that made the pipeline, and for a client that keeps  *)
(* its arrays these are whole buffers that exist.                          *)
(***************************************************************************)
EXTENDS DescriptorBindings, SequenceTheorems, TLAPS

(* A bind in progress has arguments; it passes the steps that make the     *)
(* layout and the pipeline only while there is none.                       *)
BindShape ==
  /\ pc # "idle" => args \in ArgLists
  /\ pc \in {"layout", "pipeline"} => ~pipeline
  /\ pc = "pipeline" => Len(desc_set) = Len(args)
  /\ pc \in {"write", "record"} => pipeline
  /\ recorded => pipeline

(* With a pipeline the set is written in all its bindings, or the bind     *)
(* that made the pipeline is about to do so.                               *)
Filled ==
  pipeline => \/ \A i \in DOMAIN desc_set : desc_set[i] # Null
              \/ pc = "write" /\ Len(args) = Len(desc_set) /\ ~recorded

(* What is in the set is what the last bind gave, from the write on.       *)
AsGiven ==
  recorded \/ pc = "record" =>
    \A i \in DOMAIN desc_set : i \in DOMAIN given => desc_set[i] = given[i]

(* An array that has a buffer has it for itself, and knows its size.       *)
Owning ==
  /\ \A a \in Arrays : buffer[a] # Null =>
       /\ a \in alive
       /\ buffer[a] \in live
       /\ size_[a] = size[buffer[a]]
  /\ \A a, b \in Arrays : buffer[a] # Null /\ buffer[a] = buffer[b] => a = b

(* A client that keeps what its last bind named has those buffers.         *)
Kept ==
  /\ "no buffer" \notin misuse =>
       \A i \in DOMAIN given : given[i].buffer # Null
  /\ kept => \A i \in DOMAIN given : given[i].buffer # Null =>
       /\ given[i].buffer \in live
       /\ given[i].range = size[given[i].buffer] % Word

IndInv ==
  /\ TypeOK
  /\ BindShape
  /\ LayoutOfPipeline
  /\ Filled
  /\ AsGiven
  /\ Owning
  /\ Kept

-----------------------------------------------------------------------------
(* Functions on 1 .. n are sequences, and the other way round.             *)
LEMMA FunctionIsSeq ==
  ASSUME NEW S, NEW n \in Nat, NEW f \in [1 .. n -> S]
  PROVE  f \in Seq(S) /\ Len(f) = n /\ DOMAIN f = 1 .. n
  BY SeqDef

LEMMA SeqDomain ==
  ASSUME NEW S, NEW f \in Seq(S)
  PROVE  /\ Len(f) \in Nat /\ DOMAIN f = 1 .. Len(f)
         /\ \A i \in DOMAIN f : f[i] \in S
  OBVIOUS

(* An argument list is as long as the bound allows.                        *)
LEMMA ArgListSeq ==
  ASSUME NEW list \in ArgLists
  PROVE  list \in Seq(Arrays) /\ Len(list) \in 0 .. MaxArgs
<1>1. PICK n \in 1 .. MaxArgs : list \in [1 .. n -> Arrays]
  BY DEF ArgLists
<1>2. n \in Nat /\ n <= MaxArgs /\ MaxArgs \in Nat
  BY <1>1, BindingsAssumption
<1> QED
  BY <1>1, <1>2, FunctionIsSeq

LEMMA Shorter ==
  ASSUME NEW m \in Nat, NEW n \in Nat, m >= n, NEW j \in 1 .. n
  PROVE  j \in 1 .. m
  OBVIOUS

(* Sizes and what is cut from them are numbers.                            *)
LEMMA SizeNat ==
  ASSUME NEW n \in Sizes \cup {0}
  PROVE  n \in Nat
<1>1. Sizes \subseteq Nat
  BY BindingsAssumption
<1> QED
  BY <1>1

LEMMA CutRange ==
  ASSUME NEW n \in Nat
  PROVE  n % Word \in 0 .. Word - 1 /\ (n < Word => n % Word = n)
<1>1. Word \in Nat /\ Word > 0
  BY BindingsAssumption
<1> QED
  BY <1>1

(* The sequences of a state, element by element.                           *)
LEMMA StateSeqs ==
  ASSUME TypeOK
  PROVE  /\ Len(args) \in Nat /\ DOMAIN args = 1 .. Len(args)
         /\ \A i \in DOMAIN args : args[i] \in Arrays
         /\ Len(desc_set) \in Nat /\ DOMAIN desc_set = 1 .. Len(desc_set)
         /\ \A i \in DOMAIN desc_set : desc_set[i] \in Descriptors \cup {Null}
         /\ Len(given) \in Nat /\ DOMAIN given = 1 .. Len(given)
         /\ \A i \in DOMAIN given : given[i] \in Descriptors
<1>1. args \in Seq(Arrays)
  BY DEF TypeOK
<1>2. desc_set \in Seq(Descriptors \cup {Null})
  BY DEF TypeOK
<1>3. given \in Seq(Descriptors)
  BY DEF TypeOK
<1> QED
  BY <1>1, <1>2, <1>3, SeqDomain

-----------------------------------------------------------------------------
LEMMA InitInv == Init => IndInv
<1> SUFFICES ASSUME Init PROVE IndInv
  OBVIOUS
<1> USE DEF Init
<1>1. TypeOK
  <2>1. /\ size \in [Buffers -> Sizes \cup {0}]
        /\ size_ \in [Arrays -> Sizes \cup {0}]
    OBVIOUS
  <2>2. /\ live \subseteq Buffers /\ alive \subseteq Arrays
        /\ buffer \in [Arrays -> Buffers \cup {Null}]
    OBVIOUS
  <2>3. /\ desc_set \in Seq(Descriptors \cup {Null})
        /\ given \in Seq(Descriptors)
        /\ args \in Seq(Arrays)
    OBVIOUS
  <2>4. first \in 0 .. MaxArgs
    BY BindingsAssumption
  <2> QED
    BY <2>1, <2>2, <2>3, <2>4 DEF TypeOK
<1>2. BindShape /\ LayoutOfPipeline /\ Filled /\ AsGiven /\ Kept
  BY DEF BindShape, LayoutOfPipeline, Filled, AsGiven, Kept
<1>3. Owning
  BY DEF Owning
<1> QED
  BY <1>1, <1>2, <1>3 DEF IndInv

(* A descriptor is one, however large the array.                           *)
LEMMA DescriptorType ==
  ASSUME TypeOK, NEW a \in Arrays
  PROVE  DescriptorOf(a) \in Descriptors
<1>1. size_[a] \in Sizes \cup {0} /\ buffer[a] \in Buffers \cup {Null}
  BY DEF TypeOK
<1>2. size_[a] % Word \in 0 .. Word - 1
  BY <1>1, SizeNat, CutRange
<1> QED
  BY <1>1, <1>2 DEF DescriptorOf, Descriptors

-----------------------------------------------------------------------------
(* The steps of the client.                                                *)

LEMMA ConstructInv ==
  ASSUME IndInv, NEW a \in Arrays, Construct(a)
  PROVE  IndInv'
<1> USE DEF IndInv, Construct
<1>1. PICK b \in Buffers \ (live \cup Bound \cup InSet), n \in Sizes :
        /\ size' = [size EXCEPT ![b] = n]
        /\ live' = live \cup {b}
        /\ buffer' = [buffer EXCEPT ![a] = b]
        /\ size_' = [size_ EXCEPT ![a] = n]
  OBVIOUS
<1>2. TypeOK'
  BY <1>1 DEF TypeOK, progVars
<1>3. BindShape' /\ LayoutOfPipeline' /\ Filled' /\ AsGiven'
  BY DEF BindShape, LayoutOfPipeline, Filled, AsGiven, progVars
<1>4. Owning'
  <2>1. b \notin live
    OBVIOUS
  <2>2. /\ buffer'[a] = b /\ a \in alive' /\ b \in live'
        /\ size_'[a] = n /\ size'[b] = n
    BY <1>1 DEF TypeOK
  <2>3. ASSUME NEW c \in Arrays, c # a, buffer[c] # Null
        PROVE  /\ buffer'[c] = buffer[c] /\ buffer[c] # b
               /\ c \in alive' /\ buffer[c] \in live'
               /\ size_'[c] = size'[buffer[c]]
    <3>1. buffer[c] \in live /\ c \in alive /\ size_[c] = size[buffer[c]]
      BY <2>3 DEF Owning
    <3> QED
      BY <1>1, <2>1, <2>3, <3>1 DEF TypeOK
  <2>4. \A c \in Arrays \ {a} : buffer'[c] = buffer[c]
    BY <1>1 DEF TypeOK
  <2> QED
    BY <2>2, <2>3, <2>4 DEF Owning
<1>5. Kept'
  <2>1. \A i \in DOMAIN given : given[i].buffer # b
    BY DEF Bound
  <2> QED
    BY <1>1, <2>1 DEF Kept, progVars, TypeOK
<1> QED
  BY <1>2, <1>3, <1>4, <1>5

LEMMA DestroyInv ==
  ASSUME IndInv, NEW a \in Arrays, Destroy(a)
  PROVE  IndInv'
<1> USE DEF IndInv, Destroy
<1>1. TypeOK'
  BY DEF TypeOK, progVars
<1>2. BindShape' /\ LayoutOfPipeline' /\ Filled' /\ AsGiven'
  BY DEF BindShape, LayoutOfPipeline, Filled, AsGiven, progVars
<1>3. Owning'
  <2>1. ASSUME NEW c \in Arrays, buffer'[c] # Null
        PROVE  /\ c # a /\ buffer'[c] = buffer[c] /\ buffer[c] # buffer[a]
               /\ c \in alive' /\ buffer'[c] \in live'
               /\ size_'[c] = size'[buffer'[c]]
    BY <2>1 DEF Owning, TypeOK
  <2> QED
    BY <2>1 DEF Owning
<1>4. Kept'
  <2>1. kept' => /\ kept
                 /\ \A i \in DOMAIN given :
                      given[i].buffer # Null => given[i].buffer # buffer[a]
    BY DEF Bound
  <2> QED
    BY <2>1 DEF Kept, progVars, TypeOK, Descriptors
<1> QED
  BY <1>1, <1>2, <1>3, <1>4

LEMMA MoveInv ==
  ASSUME IndInv, NEW a \in Arrays, NEW b \in Arrays, MoveConstruct(a, b)
  PROVE  IndInv'
<1> USE DEF IndInv, MoveConstruct
<1>1. TypeOK'
  BY DEF TypeOK, progVars
<1>2. BindShape' /\ LayoutOfPipeline' /\ Filled' /\ AsGiven'
  BY DEF BindShape, LayoutOfPipeline, Filled, AsGiven, progVars
<1>3. Owning'
  <2>1. buffer[b] = Null
    BY DEF Owning
  <2> QED
    BY <2>1 DEF Owning, TypeOK
<1>4. Kept'
  BY DEF Kept, progVars
<1> QED
  BY <1>1, <1>2, <1>3, <1>4

LEMMA BindInv ==
  ASSUME IndInv, NEW list \in ArgLists, Bind(list)
  PROVE  IndInv'
<1> USE DEF IndInv, Bind
<1>1. TypeOK'
  BY ArgListSeq DEF TypeOK, progVars, arrayVars
<1>2. BindShape' /\ LayoutOfPipeline' /\ Filled' /\ AsGiven'
  BY DEF BindShape, LayoutOfPipeline, Filled, AsGiven, progVars
<1>3. Owning' /\ Kept'
  BY DEF Owning, Kept, progVars, arrayVars
<1> QED
  BY <1>1, <1>2, <1>3

-----------------------------------------------------------------------------
(* The steps of a bind.                                                    *)

LEMMA InitLayoutInv ==
  ASSUME IndInv, InitLayout
  PROVE  IndInv'
<1> USE DEF IndInv, InitLayout
<1>1. /\ desc_set' \in Seq(Descriptors \cup {Null})
      /\ Len(desc_set') = Len(args)
  <2>1. Len(args) \in Nat /\ DOMAIN args = 1 .. Len(args)
    BY StateSeqs
  <2>2. desc_set' \in [1 .. Len(args) -> Descriptors \cup {Null}]
    BY <2>1
  <2> QED
    BY <2>1, <2>2, FunctionIsSeq
<1>2. TypeOK'
  BY <1>1 DEF TypeOK, arrayVars
<1>3. BindShape' /\ LayoutOfPipeline' /\ Filled' /\ AsGiven'
  BY <1>1 DEF BindShape, LayoutOfPipeline, Filled, AsGiven
<1>4. Owning' /\ Kept'
  BY DEF Owning, Kept, arrayVars
<1> QED
  BY <1>2, <1>3, <1>4

LEMMA InitPipelineInv ==
  ASSUME IndInv, InitPipeline
  PROVE  IndInv'
<1> USE DEF IndInv, InitPipeline
<1>1. Len(args) \in 0 .. MaxArgs
  BY DEF BindShape, ArgLists
<1>2. TypeOK'
  BY <1>1 DEF TypeOK, arrayVars
<1>3. BindShape' /\ LayoutOfPipeline' /\ Filled' /\ AsGiven'
  BY DEF BindShape, LayoutOfPipeline, Filled, AsGiven
<1>4. Owning' /\ Kept'
  BY DEF Owning, Kept, arrayVars
<1> QED
  BY <1>2, <1>3, <1>4

LEMMA WriteInv ==
  ASSUME IndInv, WriteDescriptors
  PROVE  IndInv'
<1> USE DEF IndInv, WriteDescriptors
<1>1. /\ given' \in Seq(Descriptors)
      /\ DOMAIN given' = DOMAIN args
      /\ \A i \in DOMAIN args : given'[i] \in Descriptors
      /\ \A i \in DOMAIN args : given'[i] = DescriptorOf(args[i])
  <2>1. /\ Len(args) \in Nat /\ DOMAIN args = 1 .. Len(args)
        /\ \A i \in DOMAIN args : args[i] \in Arrays
    BY StateSeqs
  <2>2. \A i \in DOMAIN args : DescriptorOf(args[i]) \in Descriptors
    BY <2>1, DescriptorType
  <2>3. given' \in [1 .. Len(args) -> Descriptors]
    BY <2>1, <2>2
  <2>4. given' \in Seq(Descriptors) /\ DOMAIN given' = 1 .. Len(args)
    BY <2>1, <2>3, FunctionIsSeq
  <2> QED
    BY <2>1, <2>2, <2>4
<1>2. /\ desc_set' \in Seq(Descriptors \cup {Null})
      /\ Len(desc_set') = Len(desc_set)
      /\ DOMAIN desc_set' = DOMAIN desc_set
      /\ \A i \in DOMAIN desc_set : desc_set'[i] =
           IF i \in DOMAIN args THEN given'[i] ELSE desc_set[i]
  <2>1. /\ Len(desc_set) \in Nat /\ DOMAIN desc_set = 1 .. Len(desc_set)
        /\ \A i \in DOMAIN desc_set : desc_set[i] \in Descriptors \cup {Null}
    BY StateSeqs
  <2>2. \A i \in DOMAIN args : given'[i] \in Descriptors
    BY <1>1
  <2>3. desc_set' \in [1 .. Len(desc_set) -> Descriptors \cup {Null}]
    BY <2>1, <2>2
  <2>4. /\ desc_set' \in Seq(Descriptors \cup {Null})
        /\ Len(desc_set') = Len(desc_set)
        /\ DOMAIN desc_set' = 1 .. Len(desc_set)
    BY <2>1, <2>3, FunctionIsSeq
  <2> QED
    BY <2>1, <2>4
<1>3. TypeOK'
  BY <1>1, <1>2 DEF TypeOK, arrayVars
<1>4. BindShape' /\ LayoutOfPipeline' /\ AsGiven'
  BY <1>1, <1>2 DEF BindShape, LayoutOfPipeline, AsGiven
<1>5. Filled'
  <2>1. \A i \in DOMAIN args : given'[i] # Null
    BY <1>1, BindingsAssumption
  <2>2. ASSUME NEW i \in DOMAIN desc_set PROVE desc_set'[i] # Null
    <3>1. CASE i \in DOMAIN args
      BY <1>2, <2>1, <3>1
    <3>2. CASE i \notin DOMAIN args
      <4>1. Len(args) # Len(desc_set)
        <5>1. DOMAIN desc_set = 1 .. Len(desc_set) /\ DOMAIN args = 1 .. Len(args)
          BY StateSeqs
        <5> QED
          BY <3>2, <5>1
      <4>2. desc_set[i] # Null
        BY <4>1 DEF Filled, BindShape
      <4> QED
        BY <1>2, <3>2, <4>2
    <3> QED
      BY <3>1, <3>2
  <2> QED
    BY <1>2, <2>2 DEF Filled
<1>6. Owning'
  BY DEF Owning, arrayVars
<1>7. Kept'
  <2>1. ASSUME NEW i \in DOMAIN args
        PROVE  /\ args[i] \in Arrays
               /\ given'[i].buffer = buffer[args[i]]
               /\ given'[i].range = size_[args[i]] % Word
    BY <1>1, StateSeqs DEF DescriptorOf
  <2>2. "no buffer" \notin misuse' => \A i \in DOMAIN args : buffer[args[i]] # Null
    OBVIOUS
  <2>3. \A i \in DOMAIN args : buffer[args[i]] # Null =>
          /\ buffer[args[i]] \in live
          /\ size_[args[i]] = size[buffer[args[i]]]
    BY <2>1 DEF Owning
  <2>4. UNCHANGED <<live, size>>
    BY DEF arrayVars
  <2>5. "no buffer" \notin misuse' =>
          \A i \in DOMAIN given' : given'[i].buffer # Null
    BY <1>1, <2>1, <2>2
  <2>6. ASSUME NEW i \in DOMAIN given', given'[i].buffer # Null
        PROVE  /\ given'[i].buffer \in live'
               /\ given'[i].range = size'[given'[i].buffer] % Word
    <3>1. i \in DOMAIN args
      BY <1>1
    <3>2. /\ given'[i].buffer = buffer[args[i]]
          /\ given'[i].range = size_[args[i]] % Word
      BY <2>1, <3>1
    <3>3. /\ buffer[args[i]] \in live
          /\ size_[args[i]] = size[buffer[args[i]]]
      BY <2>3, <2>6, <3>1, <3>2
    <3> QED
      BY <2>4, <3>2, <3>3
  <2> QED
    BY <2>5, <2>6 DEF Kept
<1> QED
  BY <1>3, <1>4, <1>5, <1>6, <1>7

LEMMA LeaveInv ==
  ASSUME IndInv, Record \/ BindThrows
  PROVE  IndInv'
<1> USE DEF IndInv, Record, BindThrows, Leave
<1>1. TypeOK'
  <2>1. recorded' \in BOOLEAN
    BY DEF TypeOK, progVars
  <2>2. args' = <<>>
    OBVIOUS
  <2>3. args' \in Seq(Arrays)
    BY <2>2
  <2> QED
    BY <2>1, <2>3 DEF TypeOK, arrayVars, progVars
<1>2. BindShape' /\ LayoutOfPipeline' /\ AsGiven'
  BY DEF BindShape, LayoutOfPipeline, AsGiven, progVars
<1>3. Filled'
  BY DEF BindShape, Filled, progVars
<1>4. Owning'
  BY DEF Owning, arrayVars
<1>5. Kept'
  <2>1. UNCHANGED <<kept, given, misuse, live, size>>
    BY DEF arrayVars, progVars
  <2> QED
    BY <2>1 DEF Kept
<1> QED
  BY <1>1, <1>2, <1>3, <1>4, <1>5

LEMMA NextInv == IndInv /\ [Next]_vars => IndInv'
<1> SUFFICES ASSUME IndInv, [Next]_vars PROVE IndInv'
  OBVIOUS
<1>1. CASE Client
  BY <1>1, ConstructInv, DestroyInv, MoveInv, BindInv DEF Client
<1>2. CASE Library
  BY <1>2, InitLayoutInv, InitPipelineInv, WriteInv, LeaveInv DEF Library
<1>3. CASE UNCHANGED vars
  BY <1>3 DEF IndInv, TypeOK, BindShape, LayoutOfPipeline, Filled, AsGiven,
       Owning, Kept, vars, arrayVars, progVars
<1> QED
  BY <1>1, <1>2, <1>3 DEF Next

THEOREM Invariance == Spec => []IndInv
<1> QED
  BY InitInv, NextInv, PTL DEF Spec

-----------------------------------------------------------------------------
(* DescriptorBindings!TypeOK in every state, whatever is bound, moved or   *)
(* destroyed, and for every number of arguments.                           *)
THEOREM BindingsTypeCorrect == Spec => []TypeOK
<1>1. IndInv => TypeOK
  BY DEF IndInv
<1> QED
  BY <1>1, Invariance, PTL

(* The descriptor set has the layout of the bind that made the pipeline.   *)
THEOREM LayoutFixed == Spec => []LayoutOfPipeline
<1>1. IndInv => LayoutOfPipeline
  BY DEF IndInv
<1> QED
  BY <1>1, Invariance, PTL

(* What run() would have the GPU read is what the last bind gave.          *)
THEOREM GivenIsRead == Spec => []ReadsGiven
<1>1. IndInv => ReadsGiven
  <2> SUFFICES ASSUME IndInv, recorded, NEW i \in DOMAIN desc_set
               PROVE  /\ i \in DOMAIN given => desc_set[i] = given[i]
                      /\ desc_set[i] # Null
    BY DEF ReadsGiven
  <2>1. i \in DOMAIN given => desc_set[i] = given[i]
    BY DEF IndInv, AsGiven
  <2>2. desc_set[i] # Null
    BY DEF IndInv, BindShape, Filled
  <2> QED
    BY <2>1, <2>2
<1> QED
  BY <1>1, Invariance, PTL

(* A client that keeps what it bound has the GPU read whole buffers that   *)
(* exist.                                                                  *)
THEOREM LiveIsRead == Spec => []ReadsLiveBuffers
<1>1. IndInv => ReadsLiveBuffers
  <2> SUFFICES ASSUME IndInv, kept, recorded, Fills,
                      "no buffer" \notin misuse, NEW i \in DOMAIN desc_set
               PROVE  /\ desc_set[i].buffer \in live
                      /\ size[desc_set[i].buffer] < Word =>
                           desc_set[i].range = size[desc_set[i].buffer]
    BY DEF ReadsLiveBuffers
  <2>1. i \in DOMAIN given
    <3>1. TypeOK
      BY DEF IndInv
    <3>2. /\ DOMAIN desc_set = 1 .. Len(desc_set) /\ Len(desc_set) \in Nat
          /\ DOMAIN given = 1 .. Len(given) /\ Len(given) \in Nat
      BY <3>1, StateSeqs
    <3>3. Len(given) >= Len(desc_set)
      BY DEF Fills
    <3>4. i \in 1 .. Len(desc_set)
      BY <3>2
    <3>5. i \in 1 .. Len(given)
      BY <3>2, <3>3, <3>4, Shorter
    <3> QED
      BY <3>2, <3>5
  <2>2. desc_set[i] = given[i] /\ given[i].buffer # Null
    BY <2>1 DEF IndInv, AsGiven, Kept
  <2>3. /\ given[i].buffer \in live
        /\ given[i].range = size[given[i].buffer] % Word
    BY <2>1, <2>2 DEF IndInv, Kept
  <2>4. size[given[i].buffer] \in Nat
    <3>1. given[i].buffer \in Buffers
      BY <2>3 DEF IndInv, TypeOK
    <3>2. size[given[i].buffer] \in Sizes \cup {0}
      BY <3>1 DEF IndInv, TypeOK
    <3> QED
      BY <3>2, SizeNat
  <2>5. size[given[i].buffer] < Word =>
          size[given[i].buffer] % Word = size[given[i].buffer]
    BY <2>4, CutRange
  <2> QED
    BY <2>2, <2>3, <2>5
<1> QED
  BY <1>1, Invariance, PTL
=============================================================================
