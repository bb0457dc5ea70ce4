------------------------- MODULE DescriptorBindings -------------------------
(***************************************************************************)
(* The arguments of a program and the descriptor set that carries them to  *)
(* the shader.  The first bind that gets as far as a pipeline fixes the    *)
(* layout, one binding per argument; every bind writes one descriptor per  *)
(* argument into the set.  A descriptor is a buffer handle and a range, a  *)
(* copy of what the array was at that time: the array may be moved or      *)
(* destroyed, and the next bind may have another number of arguments,      *)
(* before run() has the GPU read the set.                                  *)
(*                                                                         *)
(* What is recorded and submitted around it is the subject of Compute.     *)
(***************************************************************************)
EXTENDS Naturals, Sequences

CONSTANTS
  Arrays,      \* the array objects a client may have
  Buffers,     \* buffer handles; bounds what a client can have at a time
  Sizes,       \* the sizes of buffers in bytes
  Word,        \* 2^32
  MaxArgs,     \* bound: the length of an argument list
  Null

(* vk::DescriptorBufferInfo; a new set has Null in the place of each.      *)
Descriptors == [buffer : Buffers \cup {Null}, range : 0 .. Word - 1]
ArgLists == UNION {[1 .. n -> Arrays] : n \in 1 .. MaxArgs}

ASSUME BindingsAssumption ==
  /\ Sizes \subseteq Nat /\ 0 \notin Sizes
  /\ Word \in Nat \ {0}
  /\ MaxArgs \in Nat
  /\ Null \notin Buffers
  /\ Null \notin Descriptors

VARIABLES
  size,        \* the size of each buffer, 0 if there is none
  live,        \* the buffers that exist
  alive,       \* the array objects
  buffer,      \* an array's vk::Buffer, or Null
  size_,       \* an array's own idea of its size in bytes
  pipeline,    \* pipeline_ is not null
  desc_set,    \* the descriptors of desc_set_; its length is the layout's
  recorded,    \* the compute command buffer holds a dispatch with desc_set_
  pc, args,    \* the bind in progress
  first,       \* history: the arguments of the bind that made the pipeline
  given,       \* history: the descriptors the last bind wrote or tried to
  kept,        \* history: the client still has what its last bind named
  misuse       \* history: a descriptor was written past the layout, or with
               \* no buffer

arrayVars == <<size, live, alive, buffer, size_>>
progVars == <<pipeline, desc_set, recorded, first, given, kept, misuse>>
vars == <<arrayVars, progVars, pc, args>>

-----------------------------------------------------------------------------
Init ==
  /\ size = [b \in Buffers |-> 0]
  /\ live = {}
  /\ alive = {}
  /\ buffer = [a \in Arrays |-> Null]
  /\ size_ = [a \in Arrays |-> 0]
  /\ pipeline = FALSE
  /\ desc_set = <<>>
  /\ recorded = FALSE
  /\ pc = "idle"
  /\ args = <<>>
  /\ first = 0
  /\ given = <<>>
  /\ kept = TRUE
  /\ misuse = {}

(* The buffers the last bind named, and those in the set.                  *)
Bound == {given[i].buffer : i \in DOMAIN given}
InSet == {desc_set[i].buffer : i \in {k \in DOMAIN desc_set :
                                        desc_set[k] # Null}}

(* createBuffer.  A handle that the program still refers to is not made    *)
(* again, so that a buffer that is gone can be told from a new one.        *)
Construct(a) ==
  /\ pc = "idle" /\ a \notin alive
  /\ \E b \in Buffers \ (live \cup Bound \cup InSet), n \in Sizes :
       /\ size' = [size EXCEPT ![b] = n]
       /\ live' = live \cup {b}
       /\ buffer' = [buffer EXCEPT ![a] = b]
       /\ size_' = [size_ EXCEPT ![a] = n]
  /\ alive' = alive \cup {a}
  /\ UNCHANGED <<progVars, pc, args>>

Destroy(a) ==
  /\ pc = "idle" /\ a \in alive
  /\ alive' = alive \ {a}
  /\ live' = live \ {buffer[a]}
  /\ size' = [b \in Buffers |-> IF b = buffer[a] THEN 0 ELSE size[b]]
  /\ buffer' = [buffer EXCEPT ![a] = Null]
  /\ size_' = [size_ EXCEPT ![a] = 0]
  /\ kept' = (kept /\ (buffer[a] = Null \/ buffer[a] \notin Bound))
  /\ UNCHANGED <<pipeline, desc_set, recorded, first, given, misuse, pc, args>>

(* The object moved from keeps its size, but no buffer.                    *)
MoveConstruct(a, b) ==
  /\ pc = "idle" /\ a \in alive /\ b \notin alive
  /\ alive' = alive \cup {b}
  /\ buffer' = [buffer EXCEPT ![b] = buffer[a], ![a] = Null]
  /\ size_' = [size_ EXCEPT ![b] = size_[a]]
  /\ UNCHANGED <<size, live, progVars, pc, args>>

-----------------------------------------------------------------------------
(* MUTANT of Bind: a layout that is there is not made again.               *)
BindByLayout(list) ==
  /\ pc = "idle"
  /\ \A i \in DOMAIN list : list[i] \in alive
  /\ args' = list
  /\ pc' = CASE pipeline -> "write"
            [] ~pipeline /\ desc_set # <<>> -> "pipeline"
            [] OTHER -> "layout"
  /\ UNCHANGED <<arrayVars, progVars>>

(* bind: only a program without a pipeline makes a layout.                 *)
Bind(list) ==
  /\ pc = "idle"
  /\ \A i \in DOMAIN list : list[i] \in alive
  /\ args' = list
  /\ pc' = IF pipeline THEN "write" ELSE "layout"
  /\ UNCHANGED <<arrayVars, progVars>>

(* init_pipe_layout and alloc_descriptor_sets: sizeof...(Args) bindings.   *)
(* They are one step: an exception between them leaves a new desc_layout_  *)
(* with the old desc_set_, which nothing uses, since without a pipeline    *)
(* the next bind makes both anew.                                          *)
InitLayout ==
  /\ pc = "layout"
  /\ desc_set' = [i \in DOMAIN args |-> Null]
  /\ pc' = "pipeline"
  /\ UNCHANGED <<arrayVars, pipeline, recorded, first, args, given, kept,
                 misuse>>

InitPipeline ==
  /\ pc = "pipeline"
  /\ pipeline' = TRUE
  /\ first' = Len(args)
  /\ pc' = "write"
  /\ UNCHANGED <<arrayVars, desc_set, recorded, args, given, kept, misuse>>

(* MUTANT of DescriptorOf: the size is a size_t.                           *)
DescriptorUncut(a) == [buffer |-> buffer[a], range |-> size_[a]]

(* The descriptor of an argument.  size_bytes() has 32 bits.               *)
DescriptorOf(a) == [buffer |-> buffer[a], range |-> size_[a] % Word]

(* MUTANT of WriteDescriptors: only what is new in the set is written.     *)
WriteOnce ==
  /\ pc = "write"
  /\ given' = [i \in DOMAIN args |-> DescriptorOf(args[i])]
  /\ desc_set' = [i \in DOMAIN desc_set |->
                    IF i \in DOMAIN args /\ desc_set[i] = Null
                      THEN given'[i] ELSE desc_set[i]]
  /\ kept' = TRUE
  /\ recorded' = FALSE
  /\ pc' = "record"
  /\ UNCHANGED <<arrayVars, pipeline, first, args, misuse>>

(* updateDescriptorSets: one descriptor per argument, whatever the layout. *)
(* A recording made with the set is no longer valid.                       *)
WriteDescriptors ==
  /\ pc = "write"
  /\ given' = [i \in DOMAIN args |-> DescriptorOf(args[i])]
  /\ desc_set' = [i \in DOMAIN desc_set |->
                    IF i \in DOMAIN args THEN given'[i] ELSE desc_set[i]]
  /\ misuse' = misuse
       \cup (IF Len(args) > Len(desc_set) THEN {"past the layout"} ELSE {})
       \cup (IF Null \in {buffer[args[i]] : i \in DOMAIN args}
               THEN {"no buffer"} ELSE {})
  /\ kept' = TRUE
  /\ recorded' = FALSE
  /\ pc' = "record"
  /\ UNCHANGED <<arrayVars, pipeline, first, args>>

Leave ==
  /\ pc' = "idle"
  /\ args' = <<>>

(* begin() to end() of the command buffer.                                 *)
Record ==
  /\ pc = "record"
  /\ recorded' = TRUE
  /\ Leave
  /\ UNCHANGED <<arrayVars, pipeline, desc_set, first, given, kept, misuse>>

(* A create call or the recording throws; a layout that was made stays     *)
(* until the next bind replaces it.                                        *)
BindThrows ==
  /\ pc \in {"layout", "pipeline", "record"}
  /\ Leave
  /\ UNCHANGED <<arrayVars, progVars>>

-----------------------------------------------------------------------------
Client ==
  \/ \E a \in Arrays : Construct(a) \/ Destroy(a)
  \/ \E a, b \in Arrays : MoveConstruct(a, b)
  \/ \E list \in ArgLists : Bind(list)

Library ==
  \/ InitLayout \/ InitPipeline \/ WriteDescriptors \/ Record \/ BindThrows

Next == Client \/ Library

Spec == Init /\ [][Next]_vars

-----------------------------------------------------------------------------
(* What every state looks like.                                            *)
TypeOK ==
  /\ size \in [Buffers -> Sizes \cup {0}]
  /\ live \subseteq Buffers
  /\ alive \subseteq Arrays
  /\ buffer \in [Arrays -> Buffers \cup {Null}]
  /\ size_ \in [Arrays -> Sizes \cup {0}]
  /\ pipeline \in BOOLEAN
  /\ desc_set \in Seq(Descriptors \cup {Null})
  /\ recorded \in BOOLEAN
  /\ pc \in {"idle", "layout", "pipeline", "write", "record"}
  /\ args \in Seq(Arrays)
  /\ first \in 0 .. MaxArgs
  /\ given \in Seq(Descriptors)
  /\ kept \in BOOLEAN
  /\ misuse \subseteq {"past the layout", "no buffer"}

(* The last bind named as many arguments as the layout has bindings, or    *)
(* more.                                                                   *)
Fills == Len(given) >= Len(desc_set)

(* What run() would have the GPU read is what the last bind gave, binding  *)
(* by binding, after any sequence of binds that failed, were repeated or   *)
(* had other arguments.  What a shorter bind does not give is left over    *)
(* from an earlier one, never unwritten.                                   *)
ReadsGiven ==
  recorded =>
    \A i \in DOMAIN desc_set :
      /\ i \in DOMAIN given => desc_set[i] = given[i]
      /\ desc_set[i] # Null

(* A client that keeps what it bound, moving it as it likes, gets buffers  *)
(* that exist and all of each, if the bind fills the layout, no array is   *)
(* one it has moved from and none has 2^32 bytes.                          *)
ReadsLiveBuffers ==
  kept /\ recorded /\ Fills /\ "no buffer" \notin misuse =>
    \A i \in DOMAIN desc_set :
      /\ desc_set[i].buffer \in live
      /\ size[desc_set[i].buffer] < Word =>
           desc_set[i].range = size[desc_set[i].buffer]

(* The set has as many bindings as the bind that made the pipeline has     *)
(* arguments, also when earlier binds with other numbers of arguments      *)
(* failed half way; so it is written past its layout only by a bind with   *)
(* more arguments than that one.                                           *)
LayoutOfPipeline == pipeline => Len(desc_set) = first
=============================================================================
