---------------------------- MODULE ComputeProofs ----------------------------
(***************************************************************************)
(* What holds of Compute for every set of programs, arrays, settings and   *)
(* command buffers, every kernel, every choice of queue families and every *)
(* step that may throw; and what holds besides as long as waiting does not *)
(* fail.                                                                   *)
(***************************************************************************)
EXTENDS Compute, SequenceTheorems, TLAPS

Copies == FromHostRequests \cup ToHostRequests

(* A step of a call is reached by a call of its kind.                      *)
CallShape ==
  /\ pc = "idle" => call = Null
  /\ pc # "idle" => call \in Requests
  /\ pc = "init" => call \in BindRequests
  /\ pc \in {"stage", "map", "unstage"} => call \in Copies
  /\ pc \in {"begin", "end"} => call \in BindRequests \cup Copies
  /\ pc \in {"submit", "wait"} => call.op # "bind"

(* A bind that records has a pipeline, and at its end a descriptor set.    *)
BindReady ==
  /\ pc \in {"begin", "end"} /\ call \in BindRequests =>
       pipeline[call.prog] \in Specs
  /\ pc = "end" /\ call \in BindRequests => desc_set[call.prog] \in ArgLists

(* The program of a recorded dispatch has a descriptor set.                *)
DispatchReady ==
  \A c \in CmdBufs : cmd_work[c] \in DispatchWork =>
    desc_set[cmd_work[c].prog] \in ArgLists

(* The staging buffer lives through the recording, the submission and the  *)
(* wait of its copy.                                                       *)
StageLives ==
  pc \in {"begin", "end", "submit", "wait", "unstage"} /\ call \in Copies =>
    stage \in Value

(* A copy can be executed only during the very call that recorded it.      *)
CopyLives ==
  \A c \in CmdBufs : Uses(c, CopyWork) =>
    pc \in {"submit", "wait", "unstage"} /\ call \in Copies

(* What can be executed has been recorded.                                 *)
WorkRecorded ==
  \A c \in CmdBufs :
    cmd_state[c] \in {"executable", "pending"} => cmd_work[c] # Null

IndInv ==
  /\ TypeOK
  /\ CallShape
  /\ BindReady
  /\ DispatchReady
  /\ StageLives
  /\ CopyLives
  /\ WorkRecorded

USE DEF Copies

-----------------------------------------------------------------------------
(* A request is of one kind, which its op tells.                           *)
LEMMA Kinds ==
  ASSUME NEW r \in Requests
  PROVE  /\ r # Null
         /\ r \in BindRequests <=> r.op \in {"bind", "run"}
         /\ r \in ReplayRequests <=> r.op = "replay"
         /\ r \in Copies <=> Copying(r)
         /\ r \in FromHostRequests <=> r.op = "fromHost"
         /\ r \in ToHostRequests <=> r.op = "toHost"
BY NullAssumption DEF Requests, BindRequests, ReplayRequests,
     FromHostRequests, ToHostRequests, Copying

(* A recording is a dispatch or a copy, never both, and its kind tells.    *)
LEMMA WorkKinds ==
  /\ DispatchWork \cap CopyWork = {}
  /\ \A w \in DispatchWork : w.kind = "dispatch" /\ w.prog \in Programs
  /\ \A w \in CopyWork : w.kind \in {"upload", "download"} /\ w.arr \in Arrays
BY DEF DispatchWork, CopyWork

(* The launch of a recorded dispatch is one the kernel is defined for.     *)
LEMMA LaunchType ==
  ASSUME TypeOK, NEW w \in DispatchWork, desc_set[w.prog] \in ArgLists
  PROVE  LaunchFrom(w) \in Launches
BY DEF LaunchFrom, DispatchWork, Launches

(* What invalidating the recordings of W does: buffers that hold one of    *)
(* them can no longer be executed, the others keep their state.            *)
LEMMA InvalidateType ==
  ASSUME TypeOK, NEW W
  PROVE  /\ Invalidate(W) \in [CmdBufs -> CmdStates]
         /\ \A c \in CmdBufs :
              /\ Invalidate(W)[c] \in {cmd_state[c], "invalid"}
              /\ cmd_work[c] \in W =>
                   Invalidate(W)[c] \notin {"executable", "pending"}
              /\ cmd_work[c] \notin W => Invalidate(W)[c] = cmd_state[c]
BY DEF TypeOK, Invalidate, Uses, CmdStates

-----------------------------------------------------------------------------
THEOREM IndInvInit == Init => IndInv
<1> SUFFICES ASSUME Init
             PROVE  IndInv
  OBVIOUS
<1>1. TypeOK
  BY DEF Init, TypeOK, CmdStates, Steps, Queues
<1>2. CallShape /\ BindReady /\ StageLives
  BY DEF Init, CallShape, BindReady, StageLives
<1>3. DispatchReady /\ CopyLives /\ WorkRecorded
  BY WorkAssumption DEF Init, DispatchReady, CopyLives, WorkRecorded, Uses
<1> QED
  BY <1>1, <1>2, <1>3 DEF IndInv

(* The actions of the client between calls.                                *)
LEMMA IndInvClient ==
  ASSUME IndInv, Client
  PROVE  IndInv'
<1> USE DEF IndInv
<1>1. ASSUME NEW p \in Programs, NEW b \in Batches, Grid(p, b)
      PROVE  IndInv'
  BY <1>1 DEF Grid, devVars, gpuVars, hostVars, histVars, TypeOK, CallShape,
       BindReady, DispatchReady, StageLives, CopyLives, WorkRecorded, Uses
<1>2. ASSUME NEW p \in Programs, NEW s \in Specs, SetSpec(p, s)
      PROVE  IndInv'
  BY <1>2 DEF SetSpec, devVars, gpuVars, hostVars, histVars, TypeOK,
       CallShape, BindReady, DispatchReady, StageLives, CopyLives,
       WorkRecorded, Uses
<1>3. ASSUME NEW r \in BindRequests, CallBind(r)
      PROVE  IndInv'
  <2>1. r \in Requests /\ r \notin Copies
    BY Kinds DEF Requests, Copying
  <2>2. pc = "idle" /\ pc' \in {"init", "begin"} /\ call' = r
    BY <1>3 DEF CallBind, Enter
  <2>3. pc' = "begin" => pipeline[r.prog] \in Specs
    BY <1>3 DEF CallBind, Enter, TypeOK, BindRequests
  <2>4. UNCHANGED <<devVars, gpuVars, progVars, histVars, reply>>
    BY <1>3 DEF CallBind
  <2>5. TypeOK'
    BY <2>1, <2>2, <2>4 DEF TypeOK, Steps, devVars, gpuVars, progVars, histVars
  <2> QED
    BY <2>1, <2>2, <2>3, <2>4, <2>5 DEF CallShape, BindReady, DispatchReady,
         StageLives, CopyLives, WorkRecorded, Uses, gpuVars, progVars
<1>4. ASSUME NEW p \in Programs, CallReplay(p)
      PROVE  IndInv'
  <2> DEFINE r == [op |-> "replay", prog |-> p]
  <2>1. r \in Requests /\ r \notin Copies /\ r \notin BindRequests
    BY Kinds DEF Requests, ReplayRequests, Copying
  <2>2. pc = "idle" /\ pc' = "submit" /\ call' = r
    BY <1>4 DEF CallReplay, Enter
  <2>3. UNCHANGED <<devVars, gpuVars, progVars, histVars, reply>>
    BY <1>4 DEF CallReplay
  <2>4. TypeOK'
    BY <2>1, <2>2, <2>3 DEF TypeOK, Steps, devVars, gpuVars, progVars, histVars
  <2> QED
    BY <2>1, <2>2, <2>3, <2>4 DEF CallShape, BindReady, DispatchReady,
         StageLives, CopyLives, WorkRecorded, Uses, gpuVars, progVars
<1>5. ASSUME NEW r \in Copies, CallCopy(r)
      PROVE  IndInv'
  <2>1. r \in Requests
    BY DEF Requests
  <2>2. pc = "idle" /\ pc' \in {"map", "stage"} /\ call' = r
    BY <1>5 DEF CallCopy, Enter
  <2>3. UNCHANGED <<devVars, gpuVars, progVars, histVars, reply>>
    BY <1>5 DEF CallCopy
  <2>4. TypeOK'
    BY <2>1, <2>2, <2>3 DEF TypeOK, Steps, devVars, gpuVars, progVars, histVars
  <2> QED
    BY <2>1, <2>2, <2>3, <2>4 DEF CallShape, BindReady, DispatchReady,
         StageLives, CopyLives, WorkRecorded, Uses, gpuVars, progVars
<1>6. ASSUME ReleaseComputeCmdBuffer
      PROVE  IndInv'
  <2>1. PICK new \in CmdBufs :
          /\ cmd_state' = [cmd_state EXCEPT ![new] = "initial"]
          /\ cmd_work' = [cmd_work EXCEPT ![new] = Null]
          /\ released' = released \cup {compute_cmd_buffer}
          /\ compute_cmd_buffer' = new
          /\ transfer_cmd_buffer' =
               IF SharedFamily THEN new ELSE transfer_cmd_buffer
    BY <1>6 DEF ReleaseComputeCmdBuffer
  <2>2. /\ recorder' = Null
        /\ UNCHANGED <<progVars, hostVars, queue, mem, stage, last_bind>>
    BY <1>6 DEF ReleaseComputeCmdBuffer
  <2>3. TypeOK'
    BY <2>1, <2>2 DEF TypeOK, CmdStates, progVars, hostVars
  <2>4. \A c \in CmdBufs :
          \/ cmd_work'[c] = Null /\ cmd_state'[c] = "initial"
          \/ cmd_work'[c] = cmd_work[c] /\ cmd_state'[c] = cmd_state[c]
    BY <2>1 DEF TypeOK
  <2> QED
    BY <2>2, <2>3, <2>4, WorkAssumption DEF CallShape, BindReady, DispatchReady,
         StageLives, CopyLives, WorkRecorded, Uses, progVars, hostVars
<1>7. ASSUME NEW c \in CmdBufs, DropComputeBuffer(c)
      PROVE  IndInv'
  <2>1. /\ cmd_state' = [cmd_state EXCEPT ![c] = "free"]
        /\ cmd_work' = [cmd_work EXCEPT ![c] = Null]
        /\ released' = released \ {c}
        /\ UNCHANGED <<progVars, hostVars, histVars, queue, mem, stage,
                       compute_cmd_buffer, transfer_cmd_buffer>>
    BY <1>7 DEF DropComputeBuffer
  <2>2. TypeOK'
    BY <2>1 DEF TypeOK, CmdStates, progVars, hostVars, histVars
  <2>3. \A d \in CmdBufs :
          \/ cmd_work'[d] = Null /\ cmd_state'[d] = "free"
          \/ cmd_work'[d] = cmd_work[d] /\ cmd_state'[d] = cmd_state[d]
    BY <2>1 DEF TypeOK
  <2> QED
    BY <2>1, <2>2, <2>3, WorkAssumption DEF CallShape, BindReady, DispatchReady,
         StageLives, CopyLives, WorkRecorded, Uses, progVars, hostVars
<1> QED
  BY <1>1, <1>2, <1>3, <1>4, <1>5, <1>6, <1>7 DEF Client

-----------------------------------------------------------------------------
(* The steps of a bind or a run.                                           *)
LEMMA IndInvBind ==
  ASSUME IndInv, InitPipeline \/ BeginBind \/ EndBind
  PROVE  IndInv'
<1> USE DEF IndInv
<1>1. ASSUME InitPipeline
      PROVE  IndInv'
  <2>1. /\ pc = "init" /\ pc' = "begin" /\ UNCHANGED <<call, reply>>
        /\ pipeline' = [pipeline EXCEPT ![call.prog] = specs[call.prog]]
        /\ UNCHANGED <<devVars, gpuVars, histVars, desc_set, specs, batch>>
    BY <1>1 DEF InitPipeline, Goto
  <2>2. call \in BindRequests /\ call \in Requests /\ call \notin Copies
    BY <2>1, Kinds DEF CallShape, Copying
  <2>3. call.prog \in Programs
    BY <2>2 DEF BindRequests
  <2>4. TypeOK'
    BY <2>1, <2>3 DEF TypeOK, Steps, devVars, gpuVars, histVars
  <2>5. pipeline'[call.prog] \in Specs
    BY <2>1, <2>3 DEF TypeOK
  <2> QED
    BY <2>1, <2>2, <2>4, <2>5 DEF CallShape, BindReady, DispatchReady,
         StageLives, CopyLives, WorkRecorded, Uses, gpuVars
<1>2. ASSUME BeginBind
      PROVE  IndInv'
  <2>1. /\ pc = "begin" /\ pc' = "end" /\ UNCHANGED <<call, reply>>
        /\ ~Copying(call)
        /\ desc_set' = [desc_set EXCEPT ![call.prog] = call.args]
        /\ cmd_state' = [Invalidate(DispatchesOf(call.prog))
                           EXCEPT ![compute_cmd_buffer] = "recording"]
        /\ cmd_work' = [cmd_work EXCEPT ![compute_cmd_buffer] = Null]
        /\ recorder' = Null
        /\ UNCHANGED <<devVars, queue, mem, stage, pipeline, specs, batch,
                       last_bind>>
    BY <1>2 DEF BeginBind, Goto, Cmd
  <2>2. call \in BindRequests /\ call \in Requests /\ call \notin Copies
    BY <2>1, Kinds DEF CallShape
  <2>3. call.prog \in Programs /\ call.args \in ArgLists
    BY <2>2 DEF BindRequests
  <2>4. \A c \in CmdBufs :
          \/ cmd_work'[c] = Null /\ cmd_state'[c] = "recording"
          \/ /\ cmd_work'[c] = cmd_work[c]
             /\ cmd_state'[c] \in {cmd_state[c], "invalid"}
    BY <2>1, InvalidateType DEF TypeOK
  <2>5. \A c \in CmdBufs : cmd_work'[c] \in {cmd_work[c], Null}
    BY <2>4
  <2>6. TypeOK'
    BY <2>1, <2>3, InvalidateType DEF TypeOK, Steps, CmdStates, devVars
  <2>7. DispatchReady'
    BY <2>1, <2>3, <2>5, WorkKinds, WorkAssumption DEF DispatchReady, TypeOK
  <2>8. BindReady'
    BY <2>1, <2>2, <2>3 DEF BindReady, TypeOK
  <2>9. CopyLives' /\ WorkRecorded'
    BY <2>1, <2>4, WorkAssumption DEF CopyLives, WorkRecorded, Uses
  <2> QED
    BY <2>1, <2>2, <2>6, <2>7, <2>8, <2>9 DEF CallShape, StageLives
<1>3. ASSUME EndBind
      PROVE  IndInv'
  <2> DEFINE w == [kind |-> "dispatch", prog |-> call.prog,
                   specs |-> pipeline[call.prog],
                   batch |-> batch[call.prog], params |-> call.params]
             l == LaunchOf(call, pipeline[call.prog], batch[call.prog])
  <2>1. /\ pc = "end" /\ pc' \in {"submit", "return"}
        /\ pc' = "submit" => call.op = "run"
        /\ UNCHANGED <<call, reply>>
        /\ ~Copying(call)
        /\ cmd_state' = [cmd_state EXCEPT ![compute_cmd_buffer] = "executable"]
        /\ cmd_work' = [cmd_work EXCEPT ![compute_cmd_buffer] = w]
        /\ last_bind' = [last_bind EXCEPT ![call.prog] = l]
        /\ recorder' = call.prog
        /\ UNCHANGED <<devVars, progVars, queue, mem, stage>>
    BY <1>3 DEF EndBind, Goto, Cmd
  <2>2. call \in BindRequests /\ call \in Requests /\ call \notin Copies
    BY <2>1, Kinds DEF CallShape
  <2>3. /\ call.prog \in Programs /\ call.args \in ArgLists
        /\ call.params \in Params /\ pipeline[call.prog] \in Specs
        /\ batch[call.prog] \in Batches /\ desc_set[call.prog] \in ArgLists
    BY <2>1, <2>2 DEF BindRequests, BindReady, TypeOK
  <2>4. w \in DispatchWork /\ w.prog = call.prog
    BY <2>3 DEF DispatchWork
  <2>5. l \in Launches
    BY <2>3 DEF Launches, LaunchOf
  <2> HIDE DEF w, l
  <2>6. TypeOK'
    BY <2>1, <2>3, <2>4, <2>5 DEF TypeOK, Steps, CmdStates, devVars, progVars
  <2>7. \A c \in CmdBufs :
          \/ cmd_work'[c] = w
          \/ cmd_work'[c] = cmd_work[c] /\ cmd_state'[c] = cmd_state[c]
    BY <2>1 DEF TypeOK
  <2>8. DispatchReady'
    BY <2>1, <2>3, <2>4, <2>7 DEF DispatchReady, progVars
  <2>9. CopyLives' /\ WorkRecorded'
    BY <2>1, <2>4, <2>7, WorkKinds, WorkAssumption
      DEF CopyLives, WorkRecorded, Uses
  <2> QED
    BY <2>1, <2>2, <2>6, <2>8, <2>9 DEF CallShape, BindReady, StageLives
<1> QED
  BY <1>1, <1>2, <1>3

-----------------------------------------------------------------------------
(* The steps of a copy.                                                    *)
LEMMA IndInvCopy ==
  ASSUME IndInv, CopyMapped \/ MakeStage \/ BeginCopy \/ EndCopy \/ DropStage
  PROVE  IndInv'
<1> USE DEF IndInv
<1>1. ASSUME CopyMapped
      PROVE  IndInv'
  <2>1. call \in Copies /\ call \in Requests /\ call \notin BindRequests
    BY <1>1, Kinds DEF CopyMapped, CallShape, Copying, Requests
  <2>2. /\ call.arr \in Arrays
        /\ call.op = "fromHost" => call.val \in Value
    BY <2>1, Kinds DEF FromHostRequests, ToHostRequests
  <2>3. TypeOK'
    BY <1>1, <2>2 DEF CopyMapped, TypeOK, Steps, Memory, devVars, progVars,
         histVars
  <2> QED
    BY <1>1, <2>1, <2>3 DEF CopyMapped, CallShape, BindReady, DispatchReady,
         StageLives, CopyLives, WorkRecorded, Uses, progVars
<1>2. ASSUME MakeStage
      PROVE  IndInv'
  <2>1. /\ pc = "stage" /\ pc' = "begin" /\ UNCHANGED <<call, reply>>
        /\ stage' \in IF call.op = "fromHost" THEN {call.val} ELSE Value
        /\ UNCHANGED <<devVars, progVars, histVars,
                       cmd_state, cmd_work, queue, mem>>
    BY <1>2 DEF MakeStage, Goto
  <2>2. call \in Copies /\ call \in Requests /\ call \notin BindRequests
    BY <2>1, Kinds DEF CallShape, Copying, Requests
  <2>3. stage' \in Value
    BY <2>1, <2>2, Kinds DEF FromHostRequests
  <2>4. TypeOK'
    BY <2>1, <2>3 DEF TypeOK, Steps, devVars, progVars, histVars
  <2> QED
    BY <2>1, <2>2, <2>3, <2>4 DEF CallShape, BindReady, DispatchReady,
         StageLives, CopyLives, WorkRecorded, Uses, progVars
<1>3. ASSUME BeginCopy
      PROVE  IndInv'
  <2>1. /\ pc = "begin" /\ pc' = "end" /\ UNCHANGED <<call, reply>>
        /\ Copying(call)
        /\ cmd_state' = [cmd_state EXCEPT ![transfer_cmd_buffer] = "recording"]
        /\ cmd_work' = [cmd_work EXCEPT ![transfer_cmd_buffer] = Null]
        /\ recorder' = IF SharedFamily THEN Null ELSE recorder
        /\ UNCHANGED <<devVars, progVars, queue, mem, stage, last_bind>>
    BY <1>3 DEF BeginCopy, Goto, Cmd
  <2>2. call \in Copies /\ call \in Requests /\ call \notin BindRequests
    BY <2>1, Kinds DEF CallShape, Copying
  <2>3. TypeOK'
    BY <2>1 DEF TypeOK, Steps, CmdStates, devVars, progVars
  <2>4. \A c \in CmdBufs :
          \/ cmd_work'[c] = Null /\ cmd_state'[c] = "recording"
          \/ cmd_work'[c] = cmd_work[c] /\ cmd_state'[c] = cmd_state[c]
    BY <2>1 DEF TypeOK
  <2>5. DispatchReady' /\ CopyLives' /\ WorkRecorded'
    BY <2>1, <2>4, WorkAssumption
      DEF DispatchReady, CopyLives, WorkRecorded, Uses, progVars
  <2> QED
    BY <2>1, <2>2, <2>3, <2>5 DEF CallShape, BindReady, StageLives, progVars
<1>4. ASSUME EndCopy
      PROVE  IndInv'
  <2> DEFINE w == [kind |-> IF call.op = "fromHost" THEN "upload"
                            ELSE "download",
                   arr |-> call.arr]
  <2>1. /\ pc = "end" /\ pc' = "submit" /\ UNCHANGED <<call, reply>>
        /\ Copying(call)
        /\ cmd_state' = [cmd_state EXCEPT ![transfer_cmd_buffer] = "executable"]
        /\ cmd_work' = [cmd_work EXCEPT ![transfer_cmd_buffer] = w]
        /\ UNCHANGED <<devVars, progVars, histVars, queue, mem, stage>>
    BY <1>4 DEF EndCopy, Goto, Cmd
  <2>2. call \in Copies /\ call \in Requests /\ call \notin BindRequests
    BY <2>1, Kinds DEF CallShape, Copying
  <2>3. w \in CopyWork
    BY <2>2 DEF CopyWork, FromHostRequests, ToHostRequests
  <2> HIDE DEF w
  <2>4. TypeOK'
    BY <2>1, <2>3 DEF TypeOK, Steps, CmdStates, devVars, progVars, histVars
  <2>5. \A c \in CmdBufs :
          \/ cmd_work'[c] = w
          \/ cmd_work'[c] = cmd_work[c] /\ cmd_state'[c] = cmd_state[c]
    BY <2>1 DEF TypeOK
  <2>6. DispatchReady' /\ WorkRecorded'
    BY <2>1, <2>3, <2>5, WorkKinds, WorkAssumption
      DEF DispatchReady, WorkRecorded, progVars
  <2> QED
    BY <2>1, <2>2, <2>4, <2>6 DEF CallShape, BindReady, StageLives,
         CopyLives, Copying, progVars
<1>5. ASSUME DropStage
      PROVE  IndInv'
  <2>1. /\ pc = "unstage" /\ pc' = "return" /\ UNCHANGED call
        /\ reply' = IF call.op = "toHost" THEN stage ELSE reply
        /\ stage' = Freed
        /\ cmd_state' = Invalidate(CopyWork)
        /\ UNCHANGED <<devVars, progVars, histVars, cmd_work, queue, mem>>
    BY <1>5 DEF DropStage
  <2>2. call \in Copies /\ call \in Requests
    BY <2>1 DEF CallShape, Requests
  <2>3. stage \in Value
    BY <2>1, <2>2 DEF StageLives
  <2>4. TypeOK'
    BY <2>1, <2>3, InvalidateType DEF TypeOK, Steps, devVars, progVars, histVars
  <2>5. CopyLives' /\ WorkRecorded'
    BY <2>1, InvalidateType DEF CopyLives, WorkRecorded, Uses
  <2> QED
    BY <2>1, <2>2, <2>4, <2>5 DEF CallShape, BindReady, DispatchReady,
         StageLives, progVars
<1> QED
  BY <1>1, <1>2, <1>3, <1>4, <1>5

-----------------------------------------------------------------------------
(* Submission, the wait and the return.                                    *)
LEMMA CmdType ==
  ASSUME TypeOK
  PROVE  Cmd \in CmdBufs /\ CmdQueue \in Queues
BY DEF TypeOK, Cmd, CmdQueue, TransferQueue, Queues

(* Submission, the wait and the return.                                    *)
LEMMA IndInvSubmit ==
  ASSUME IndInv, Submit \/ WaitIdle \/ Return
  PROVE  IndInv'
<1> USE DEF IndInv
<1>1. ASSUME Submit
      PROVE  IndInv'
  <2>1. /\ pc = "submit" /\ pc' = "wait" /\ UNCHANGED <<call, reply>>
        /\ queue' = [queue EXCEPT ![CmdQueue] = Append(@, Cmd)]
        /\ cmd_state' = [cmd_state EXCEPT ![Cmd] =
                           IF @ = "executable" THEN "pending" ELSE @]
        /\ UNCHANGED <<devVars, progVars, histVars, cmd_work, mem, stage>>
    BY <1>1 DEF Submit, Goto
  <2>2. TypeOK'
    BY <2>1, CmdType DEF TypeOK, Steps, CmdStates, devVars, progVars, histVars
  <2>3. \A c \in CmdBufs :
          cmd_state'[c] = cmd_state[c] \/ cmd_state[c] = "executable"
    BY <2>1, CmdType DEF TypeOK
  <2>4. CopyLives' /\ WorkRecorded'
    BY <2>1, <2>3 DEF CopyLives, WorkRecorded, Uses
  <2> QED
    BY <2>1, <2>2, <2>4 DEF CallShape, BindReady, DispatchReady, StageLives,
         progVars
<1>2. ASSUME WaitIdle
      PROVE  IndInv'
  <2>1. /\ pc = "wait"
        /\ pc' = IF Copying(call) THEN "unstage" ELSE "return"
        /\ UNCHANGED <<call, reply>>
        /\ UNCHANGED <<devVars, gpuVars, progVars, histVars>>
    BY <1>2 DEF WaitIdle, Goto
  <2>2. call \in Requests /\ (call \in Copies <=> Copying(call))
    BY <2>1, Kinds DEF CallShape
  <2>3. TypeOK'
    BY <2>1 DEF TypeOK, Steps, devVars, gpuVars, progVars, histVars
  <2> QED
    BY <2>1, <2>2, <2>3 DEF CallShape, BindReady, DispatchReady, StageLives,
         CopyLives, WorkRecorded, Uses, gpuVars, progVars
<1>3. ASSUME Return
      PROVE  IndInv'
  <2>1. TypeOK'
    BY <1>3 DEF Return, TypeOK, Steps, devVars, gpuVars, progVars, histVars
  <2> QED
    BY <1>3, <2>1 DEF Return, CallShape, BindReady, DispatchReady, StageLives,
         CopyLives, WorkRecorded, Uses, gpuVars, progVars
<1> QED
  BY <1>1, <1>2, <1>3

-----------------------------------------------------------------------------
(* The exceptions.  Whatever step fails, no copy is left that the GPU or a *)
(* later call could still execute.                                         *)
LEMMA IndInvUnwind ==
  ASSUME IndInv, NEW step, Unwind(step),
         cmd_state' \in [CmdBufs -> CmdStates],
         cmd_work' \in [CmdBufs -> DispatchWork \cup CopyWork \cup {Null}],
         \A c \in CmdBufs :
           \/ cmd_work'[c] = Null /\ cmd_state'[c] = "initial"
           \/ /\ cmd_work'[c] = cmd_work[c]
              /\ cmd_state'[c] \in {cmd_state[c], "invalid"},
         \A c \in CmdBufs : cmd_work'[c] \in CopyWork =>
           cmd_state'[c] \notin {"executable", "pending"},
         desc_set' \in [Programs -> ArgLists \cup {Null}],
         \A p \in Programs :
           desc_set[p] \in ArgLists => desc_set'[p] \in ArgLists,
         recorder' \in Programs \cup {Null}
  PROVE  IndInv'
<1> USE DEF IndInv
<1>1. /\ pc' = "idle" /\ call' = Null /\ stage' = Freed
      /\ UNCHANGED <<devVars, reply, queue, mem, last_bind,
                     pipeline, specs, batch>>
  BY DEF Unwind
<1>2. TypeOK'
  BY <1>1 DEF TypeOK, Steps, devVars
<1>3. DispatchReady'
  BY WorkKinds, WorkAssumption DEF DispatchReady
<1>4. CopyLives' /\ WorkRecorded'
  BY DEF CopyLives, WorkRecorded, Uses
<1> QED
  BY <1>1, <1>2, <1>3, <1>4 DEF CallShape, BindReady, StageLives

(* An exception at whatever step of a call.                                *)
LEMMA IndInvException ==
  ASSUME IndInv, Exception
  PROVE  IndInv'
<1> USE DEF IndInv
<1>0. /\ cmd_state \in [CmdBufs -> CmdStates]
      /\ cmd_work \in [CmdBufs -> DispatchWork \cup CopyWork \cup {Null}]
      /\ desc_set \in [Programs -> ArgLists \cup {Null}]
      /\ recorder \in Programs \cup {Null}
  BY DEF TypeOK
<1>1. ASSUME ThrowEarly
      PROVE  IndInv'
  <2>1. PICK step \in {"init", "stage", "map"} : Unwind(step)
    BY <1>1 DEF ThrowEarly
  <2>2. UNCHANGED <<cmd_state, cmd_work, desc_set, recorder>>
    BY <1>1 DEF ThrowEarly
  <2>3. pc \in {"init", "stage", "map"}
    BY <2>1 DEF Unwind
  <2>4. \A c \in CmdBufs : ~Uses(c, CopyWork)
    BY <2>3 DEF CopyLives, WorkRecorded
  <2> QED
    BY <1>0, <2>1, <2>2, <2>4, IndInvUnwind DEF Uses
<1>2. ASSUME ThrowBegin
      PROVE  IndInv'
  <2> DEFINE left == IF Copying(call) THEN cmd_state
                     ELSE Invalidate(DispatchesOf(call.prog))
  <2>1. PICK reset \in BOOLEAN :
          /\ cmd_state' = IF reset THEN [left EXCEPT ![Cmd] = "initial"]
                          ELSE left
          /\ cmd_work' = IF reset THEN [cmd_work EXCEPT ![Cmd] = Null]
                         ELSE cmd_work
    BY <1>2 DEF ThrowBegin
  <2>2. /\ Unwind("begin")
        /\ desc_set' = IF Copying(call) THEN desc_set
                       ELSE [desc_set EXCEPT ![call.prog] = call.args]
        /\ recorder' = IF Copying(call) /\ ~SharedFamily THEN recorder ELSE Null
    BY <1>2 DEF ThrowBegin
  <2>3. pc = "begin" /\ call \in Requests
    BY <2>2 DEF Unwind, CallShape
  <2>4. ~Copying(call) => call.prog \in Programs /\ call.args \in ArgLists
    BY <2>3, Kinds DEF CallShape, BindRequests
  <2>5. /\ left \in [CmdBufs -> CmdStates]
        /\ \A c \in CmdBufs : left[c] \in {cmd_state[c], "invalid"}
    BY <1>0, InvalidateType
  <2> HIDE DEF left
  <2>6. /\ cmd_state' \in [CmdBufs -> CmdStates]
        /\ cmd_work' \in [CmdBufs -> DispatchWork \cup CopyWork \cup {Null}]
    BY <1>0, <2>1, <2>5, CmdType DEF CmdStates
  <2>7. \A c \in CmdBufs :
          \/ cmd_work'[c] = Null /\ cmd_state'[c] = "initial"
          \/ /\ cmd_work'[c] = cmd_work[c]
             /\ cmd_state'[c] \in {cmd_state[c], "invalid"}
    BY <1>0, <2>1, <2>5, CmdType
  <2>8. \A c \in CmdBufs : cmd_work[c] \in CopyWork =>
          cmd_state[c] \notin {"executable", "pending"}
    BY <2>3 DEF CopyLives, WorkRecorded, Uses
  <2>9. \A c \in CmdBufs : cmd_work'[c] \in CopyWork =>
          cmd_state'[c] \notin {"executable", "pending"}
    BY <2>7, <2>8, WorkAssumption
  <2>10. /\ desc_set' \in [Programs -> ArgLists \cup {Null}]
         /\ \A p \in Programs :
              desc_set[p] \in ArgLists => desc_set'[p] \in ArgLists
    BY <1>0, <2>2, <2>4
  <2>11. recorder' \in Programs \cup {Null}
    BY <1>0, <2>2
  <2> QED
    BY <2>2, <2>6, <2>7, <2>9, <2>10, <2>11, IndInvUnwind
<1>3. ASSUME ThrowEnd
      PROVE  IndInv'
  <2>1. /\ Unwind("end")
        /\ cmd_state' = [cmd_state EXCEPT ![Cmd] = "invalid"]
        /\ UNCHANGED <<cmd_work, desc_set, recorder>>
    BY <1>3 DEF ThrowEnd
  <2>2. \A c \in CmdBufs : cmd_work[c] \in CopyWork =>
          cmd_state[c] \notin {"executable", "pending"}
    BY <2>1 DEF CopyLives, WorkRecorded, Uses, Unwind
  <2>3. /\ cmd_state' \in [CmdBufs -> CmdStates]
        /\ \A c \in CmdBufs : cmd_state'[c] \in {cmd_state[c], "invalid"}
    BY <1>0, <2>1, CmdType DEF CmdStates
  <2> QED
    BY <1>0, <2>1, <2>2, <2>3, IndInvUnwind
<1>4. ASSUME NEW step \in {"submit", "wait"}, Unwind(step),
             cmd_state' = IF Copying(call) THEN Invalidate(CopyWork)
                          ELSE cmd_state,
             UNCHANGED <<cmd_work, desc_set, recorder>>
      PROVE  IndInv'
  <2>1. pc = step /\ call \in Requests
    BY <1>4 DEF Unwind, CallShape
  <2>2. \A c \in CmdBufs : cmd_work[c] \in CopyWork =>
          cmd_state'[c] \notin {"executable", "pending"}
    BY <1>4, <2>1, InvalidateType, Kinds DEF CopyLives, WorkRecorded, Uses
  <2>3. /\ cmd_state' \in [CmdBufs -> CmdStates]
        /\ \A c \in CmdBufs : cmd_state'[c] \in {cmd_state[c], "invalid"}
    BY <1>0, <1>4, InvalidateType
  <2> QED
    BY <1>0, <1>4, <2>2, <2>3, IndInvUnwind
<1>5. ASSUME ThrowSubmit \/ ThrowWait
      PROVE  IndInv'
  BY <1>4, <1>5 DEF ThrowSubmit, ThrowWait
<1> QED
  BY <1>1, <1>2, <1>3, <1>5 DEF Exception

-----------------------------------------------------------------------------
(* The GPU.                                                                *)
LEMMA IndInvGpu ==
  ASSUME IndInv, Gpu
  PROVE  IndInv'
<1> USE DEF IndInv
<1> PICK q \in Queues : Execute(q)
  BY DEF Gpu
<1> DEFINE c == Head(queue[q])
<1>1. /\ queue[q] # <<>> /\ queue[q] \in Seq(CmdBufs)
      /\ queue' = [queue EXCEPT ![q] = Tail(@)]
      /\ UNCHANGED <<devVars, progVars, hostVars, histVars, cmd_work>>
  BY DEF Execute, TypeOK
<1>2. c \in CmdBufs /\ queue' \in [Queues -> Seq(CmdBufs)]
  BY <1>1 DEF TypeOK
<1> HIDE DEF c
<1>3. ASSUME cmd_state[c] = "pending"
      PROVE  IndInv'
  <2>1. /\ Perform(cmd_work[c])
        /\ cmd_state' = [cmd_state EXCEPT ![c] =
                           IF cmd_work[c] \in CopyWork THEN "invalid"
                           ELSE "executable"]
    BY <1>3 DEF Execute, c
  <2>2. cmd_work[c] \in CopyWork => stage \in Value /\ pc # "idle"
    BY <1>2, <1>3 DEF CopyLives, WorkRecorded, StageLives, Uses
  <2>3. mem' \in Memory /\ stage' \in Value \cup {Freed}
        /\ (stage \in Value => stage' \in Value)
    <3>1. CASE cmd_work[c] \in DispatchWork
      <4>1. LaunchFrom(cmd_work[c]) \in Launches
        BY <1>2, <3>1, LaunchType DEF DispatchReady
      <4>2. Kernel[LaunchFrom(cmd_work[c])][mem] \in Memory
        BY <4>1, KernelAssumption DEF TypeOK
      <4> QED
        BY <2>1, <3>1, <4>2, WorkKinds DEF Perform, TypeOK
    <3>2. CASE cmd_work[c] \in CopyWork
      <4> DEFINE w == cmd_work[c]
      <4>1. w.arr \in Arrays /\ w.kind \in {"upload", "download"}
        BY <3>2, WorkKinds
      <4>2. mem \in Memory /\ stage \in Value
        BY <2>2, <3>2 DEF TypeOK
      <4>3. CASE w.kind = "upload"
        BY <2>1, <4>1, <4>2, <4>3 DEF Perform, Memory
      <4>4. CASE w.kind = "download"
        BY <2>1, <4>1, <4>2, <4>4 DEF Perform, Memory
      <4> QED
        BY <4>1, <4>3, <4>4
    <3> QED
      BY <1>2, <1>3, <3>1, <3>2 DEF TypeOK, WorkRecorded
  <2>4. TypeOK'
    BY <1>1, <1>2, <2>1, <2>3 DEF TypeOK, CmdStates, devVars, progVars,
         hostVars, histVars
  <2>5. \A d \in CmdBufs :
          \/ d # c /\ cmd_state'[d] = cmd_state[d]
          \/ d = c /\ cmd_work[c] \in CopyWork /\ cmd_state'[d] = "invalid"
          \/ d = c /\ cmd_work[c] \notin CopyWork /\ cmd_work[c] # Null
    BY <1>2, <1>3, <2>1 DEF WorkRecorded, TypeOK
  <2>6. CopyLives' /\ WorkRecorded'
    BY <1>1, <2>5 DEF CopyLives, WorkRecorded, Uses, TypeOK,
         hostVars
  <2> QED
    BY <1>1, <2>3, <2>4, <2>6 DEF CallShape, BindReady, DispatchReady,
         StageLives, progVars, hostVars
<1>4. ASSUME cmd_state[c] # "pending"
      PROVE  IndInv'
  <2>1. /\ mem' \in Memory
        /\ cmd_state' = [cmd_state EXCEPT ![c] = "invalid"]
        /\ UNCHANGED stage
    BY <1>4 DEF Execute, c
  <2>2. TypeOK'
    BY <1>1, <1>2, <2>1 DEF TypeOK, CmdStates, devVars, progVars,
         hostVars, histVars
  <2>3. CopyLives' /\ WorkRecorded'
    BY <1>1, <1>2, <2>1 DEF CopyLives, WorkRecorded, Uses, TypeOK,
         hostVars
  <2> QED
    BY <1>1, <2>1, <2>2, <2>3 DEF CallShape, BindReady, DispatchReady,
         StageLives, progVars, hostVars
<1> QED
  BY <1>3, <1>4

-----------------------------------------------------------------------------
LEMMA IndInvNext ==
  ASSUME IndInv, [Next]_vars
  PROVE  IndInv'
<1>1. ASSUME UNCHANGED vars
      PROVE  IndInv'
  BY <1>1 DEF IndInv, vars, devVars, gpuVars, progVars, hostVars, histVars,
       TypeOK, CallShape, BindReady, DispatchReady, StageLives, CopyLives,
       WorkRecorded, Uses
<1>2. ASSUME Library
      PROVE  IndInv'
  BY <1>2, IndInvBind, IndInvCopy, IndInvSubmit DEF Library
<1> QED
  BY <1>1, <1>2, IndInvClient, IndInvException, IndInvGpu DEF Next

(* Every variable keeps its type, whatever fails and in whatever order the *)
(* GPU gets to its work: in particular toHost delivers a value, never what *)
(* is left of a destroyed staging buffer, and every dispatch the GPU       *)
(* executes is a launch the kernel is defined for.                         *)
THEOREM TypeCorrect == Spec => []TypeOK
<1>1. IndInv => TypeOK
  BY DEF IndInv
<1> QED
  BY <1>1, IndInvInit, IndInvNext, PTL DEF Spec

(* The strengthened invariant itself, for the proofs that build on it.     *)
THEOREM IndInvAlways == Spec => []IndInv
BY IndInvInit, IndInvNext, PTL DEF Spec

-----------------------------------------------------------------------------
(* The ownership of the command buffers.                                   *)

(* A new device owns its command buffers.                                  *)
LEMMA OwnedInit == Init => CmdBuffersOwned
BY DEF Init, CmdBuffersOwned

(* Steps that move no handle and free no buffer keep the ownership.        *)
LEMMA KeepsOwned ==
  ASSUME TypeOK, CmdBuffersOwned, UNCHANGED devVars,
         \A c \in CmdBufs : cmd_state[c] # "free" => cmd_state'[c] # "free"
  PROVE  CmdBuffersOwned'
BY DEF TypeOK, CmdBuffersOwned, devVars

(* Every step keeps the ownership of the command buffers; the hand-over    *)
(* and the release of a buffer are the steps that could lose it.           *)
LEMMA OwnedNext ==
  ASSUME TypeOK, CmdBuffersOwned, [Next]_vars
  PROVE  CmdBuffersOwned'
<1>1. CASE UNCHANGED vars
  BY <1>1, KeepsOwned DEF vars, devVars, gpuVars
<1>2. CASE Client
  <2>1. CASE ReleaseComputeCmdBuffer
    BY <2>1 DEF ReleaseComputeCmdBuffer, CmdBuffersOwned, TypeOK
  <2>2. ASSUME NEW c \in CmdBufs, DropComputeBuffer(c)
        PROVE  CmdBuffersOwned'
    BY <2>2 DEF DropComputeBuffer, CmdBuffersOwned, TypeOK
  <2>3. ASSUME NEW p \in Programs, NEW b \in Batches, Grid(p, b)
        PROVE  CmdBuffersOwned'
    BY <2>3, KeepsOwned DEF Grid, gpuVars
  <2>4. ASSUME NEW p \in Programs, NEW s \in Specs, SetSpec(p, s)
        PROVE  CmdBuffersOwned'
    BY <2>4, KeepsOwned DEF SetSpec, gpuVars
  <2>5. ASSUME NEW r \in BindRequests, CallBind(r)
        PROVE  CmdBuffersOwned'
    BY <2>5, KeepsOwned DEF CallBind, gpuVars
  <2>6. ASSUME NEW p \in Programs, CallReplay(p)
        PROVE  CmdBuffersOwned'
    BY <2>6, KeepsOwned DEF CallReplay, gpuVars
  <2>7. ASSUME NEW r \in Copies, CallCopy(r)
        PROVE  CmdBuffersOwned'
    BY <2>7, KeepsOwned DEF CallCopy, gpuVars
  <2> QED
    BY <1>2, <2>1, <2>2, <2>3, <2>4, <2>5, <2>6, <2>7 DEF Client
<1>3. CASE Library
  <2>1. CASE InitPipeline \/ CopyMapped \/ MakeStage \/ WaitIdle \/ Return
    BY <2>1, KeepsOwned DEF InitPipeline, CopyMapped, MakeStage, WaitIdle,
         Return, gpuVars
  <2>2. CASE BeginBind
    BY <2>2, KeepsOwned, InvalidateType DEF BeginBind, TypeOK
  <2>3. CASE EndBind \/ BeginCopy \/ EndCopy
    BY <2>3, KeepsOwned DEF EndBind, BeginCopy, EndCopy, TypeOK
  <2>4. CASE DropStage
    BY <2>4, KeepsOwned, InvalidateType DEF DropStage
  <2>5. CASE Submit
    BY <2>5, KeepsOwned DEF Submit, TypeOK
  <2> QED
    BY <1>3, <2>1, <2>2, <2>3, <2>4, <2>5 DEF Library
<1>4. CASE Exception
  <2>1. CASE ThrowEarly
    BY <2>1, KeepsOwned DEF ThrowEarly, Unwind
  <2>2. CASE ThrowBegin
    BY <2>2, KeepsOwned, InvalidateType DEF ThrowBegin, Unwind, TypeOK
  <2>3. CASE ThrowEnd
    BY <2>3, KeepsOwned DEF ThrowEnd, Unwind, TypeOK
  <2>4. CASE ThrowSubmit \/ ThrowWait
    BY <2>4, KeepsOwned, InvalidateType DEF ThrowSubmit, ThrowWait, Unwind
  <2> QED
    BY <1>4, <2>1, <2>2, <2>3, <2>4 DEF Exception
<1>5. CASE Gpu
  <2> PICK q \in Queues : Execute(q)
    BY <1>5 DEF Gpu
  <2> QED
    BY KeepsOwned DEF Execute, TypeOK
<1> QED
  BY <1>1, <1>2, <1>3, <1>4, <1>5 DEF Next

(* Whoever asks for a compute buffer, and whatever fails, the device never *)
(* works with a buffer it gave away or with one that was freed, and copies *)
(* follow the compute buffer exactly when the two families are one.        *)
THEOREM BuffersOwned == Spec => []CmdBuffersOwned
BY TypeCorrect, OwnedInit, OwnedNext, PTL DEF Spec

-----------------------------------------------------------------------------
(* What holds as long as no wait fails: the GPU is idle between the calls  *)
(* and nobody touches what it works on.  If moreover the client replays    *)
(* only what it bound last, every run launches its own binding.            *)

USE DEF Copies

(* A pending buffer is the one submission the call in progress waits for.  *)
PendingQueued ==
  \A c \in CmdBufs :
    cmd_state[c] = "pending" => pc = "wait" /\ queue[CmdQueue] = <<c>>

WaitInv ==
  /\ GpuIdleOutsideWait
  /\ PendingQueued

(* The queue a call submits to is one of the two.                          *)
LEMMA CmdQueueType == CmdQueue \in Queues
BY DEF CmdQueue, TransferQueue, Queues

(* A sequence of at most one element is its head.                          *)
LEMMA OneElement ==
  ASSUME NEW S, NEW s \in Seq(S), s # <<>>, Len(s) <= 1
  PROVE  s = <<Head(s)>> /\ Tail(s) = <<>>
<1>1. \A t \in Seq(S) : t # <<>> => Len(t) \in Nat \ {0}
  BY EmptySeq, Zenon
<1>2. Len(s) = 1
  <2>1. Len(s) \in Nat \ {0}
    BY <1>1, Zenon
  <2> QED
    BY <2>1
<1>3. Tail(s) = <<>>
  <2>1. Tail(s) \in Seq(S) /\ Len(Tail(s)) = 0
    BY <1>2, HeadTailProperties
  <2> QED
    BY <1>1, <2>1
<1>4. Head(s) \in S /\ Head(s) = s[1]
  BY HeadTailProperties
<1>5. <<Head(s)>> \in Seq(S) /\ Len(<<Head(s)>>) = 1 /\ <<Head(s)>>[1] = s[1]
  BY <1>4
<1>6. s = <<Head(s)>>
  BY <1>2, <1>5, SeqEqual
<1> QED
  BY <1>3, <1>6

(* What is appended to an empty queue is alone in it.                      *)
LEMMA AppendToEmpty ==
  ASSUME NEW e
  PROVE  Append(<<>>, e) = <<e>>
OBVIOUS

(* At first nothing has been submitted.                                    *)
LEMMA WaitInvInit == Init => WaitInv
BY DEF Init, WaitInv, GpuIdleOutsideWait, PendingQueued, Queues

(* Outside the wait the GPU is idle, and steps that neither submit nor     *)
(* execute leave it so.                                                    *)
LEMMA KeepsIdle ==
  ASSUME IndInv, WaitInv, pc # "wait", UNCHANGED queue,
         \A c \in CmdBufs : cmd_state'[c] # "pending" \/ cmd_state'[c] = cmd_state[c]
  PROVE  WaitInv'
<1>1. \A q \in Queues : queue'[q] = <<>>
  BY DEF WaitInv, GpuIdleOutsideWait
<1>2. \A c \in CmdBufs : cmd_state'[c] # "pending"
  BY DEF WaitInv, PendingQueued
<1> QED
  BY <1>1, <1>2 DEF WaitInv, GpuIdleOutsideWait, PendingQueued

(* When no wait fails, every step keeps submissions inside the wait of     *)
(* their call.                                                             *)
LEMMA WaitInvNext ==
  ASSUME "wait" \notin Faults, IndInv, WaitInv, [Next]_vars
  PROVE  WaitInv'
<1>0. TypeOK
  BY DEF IndInv
<1>1. CASE UNCHANGED vars
  BY <1>1 DEF vars, gpuVars, hostVars, WaitInv, GpuIdleOutsideWait,
       PendingQueued, CmdQueue
<1>2. CASE Client
  <2>1. pc # "wait" /\ UNCHANGED queue
    BY <1>2 DEF Client, Grid, SetSpec, CallBind, CallReplay, CallCopy, Enter,
         ReleaseComputeCmdBuffer, DropComputeBuffer, gpuVars
  <2>2. \A c \in CmdBufs :
          cmd_state'[c] # "pending" \/ cmd_state'[c] = cmd_state[c]
    BY <1>0, <1>2 DEF Client, Grid, SetSpec, CallBind, CallReplay, CallCopy,
         ReleaseComputeCmdBuffer, DropComputeBuffer, gpuVars, TypeOK
  <2> QED
    BY <2>1, <2>2, KeepsIdle
<1>3. CASE Library
  <2>1. CASE InitPipeline \/ BeginBind \/ EndBind \/ CopyMapped \/ MakeStage
               \/ BeginCopy \/ EndCopy \/ DropStage \/ Return
    <3>1. pc # "wait" /\ UNCHANGED queue
      BY <2>1 DEF InitPipeline, BeginBind, EndBind, CopyMapped, MakeStage,
           BeginCopy, EndCopy, DropStage, Return, Goto, gpuVars
    <3>2. \A c \in CmdBufs :
            cmd_state'[c] # "pending" \/ cmd_state'[c] = cmd_state[c]
      BY <1>0, <2>1, InvalidateType DEF InitPipeline, BeginBind, EndBind,
           CopyMapped, MakeStage, BeginCopy, EndCopy, DropStage, Return,
           gpuVars, TypeOK
    <3> QED
      BY <3>1, <3>2, KeepsIdle
  <2>2. CASE Submit
    <3>1. /\ pc = "submit" /\ pc' = "wait" /\ UNCHANGED call
          /\ queue' = [queue EXCEPT ![CmdQueue] = Append(@, Cmd)]
          /\ cmd_state' = [cmd_state EXCEPT ![Cmd] =
                             IF @ = "executable" THEN "pending" ELSE @]
      BY <2>2 DEF Submit, Goto
    <3>2. Cmd \in CmdBufs /\ CmdQueue \in Queues /\ CmdQueue' = CmdQueue
      BY <1>0, <3>1, CmdType DEF CmdQueue
    <3>3. \A q \in Queues : queue[q] = <<>>
      BY <3>1 DEF WaitInv, GpuIdleOutsideWait
    <3>4. /\ queue'[CmdQueue] = <<Cmd>>
          /\ \A q \in Queues : q # CmdQueue => queue'[q] = <<>>
      BY <1>0, <3>1, <3>2, <3>3, AppendToEmpty DEF TypeOK
    <3>5. \A c \in CmdBufs : cmd_state'[c] = "pending" => c = Cmd
      BY <1>0, <3>1, <3>2 DEF WaitInv, PendingQueued, TypeOK
    <3> QED
      BY <3>1, <3>2, <3>4, <3>5 DEF WaitInv, GpuIdleOutsideWait, PendingQueued
  <2>3. CASE WaitIdle
    <3>1. /\ pc = "wait" /\ pc' # "wait"
          /\ queue[CmdQueue] = <<>> /\ UNCHANGED <<queue, cmd_state>>
      BY <2>3 DEF WaitIdle, Goto, gpuVars
    <3>2. \A q \in Queues : queue[q] = <<>>
      BY <3>1 DEF WaitInv, GpuIdleOutsideWait
    <3>3. \A c \in CmdBufs : cmd_state[c] # "pending"
      BY <3>1 DEF WaitInv, PendingQueued
    <3> QED
      BY <3>1, <3>2, <3>3 DEF WaitInv, GpuIdleOutsideWait, PendingQueued
  <2> QED
    BY <1>3, <2>1, <2>2, <2>3 DEF Library
<1>4. CASE Exception
  <2>1. pc # "wait" /\ UNCHANGED queue
    BY <1>4 DEF Exception, ThrowEarly, ThrowBegin, ThrowEnd, ThrowSubmit,
         ThrowWait, Unwind
  <2>2. \A c \in CmdBufs :
          cmd_state'[c] # "pending" \/ cmd_state'[c] = cmd_state[c]
    <3>1. CASE ThrowBegin
      BY <1>0, <3>1, CmdType, InvalidateType DEF ThrowBegin, TypeOK
    <3>2. CASE ThrowEarly \/ ThrowEnd \/ ThrowSubmit \/ ThrowWait
      BY <1>0, <3>2, InvalidateType DEF ThrowEarly, ThrowEnd, ThrowSubmit,
           ThrowWait, TypeOK
    <3> QED
      BY <1>4, <3>1, <3>2 DEF Exception
  <2> QED
    BY <2>1, <2>2, KeepsIdle
<1>5. CASE Gpu
  <2> PICK q \in Queues : Execute(q)
    BY <1>5 DEF Gpu
  <2> DEFINE c == Head(queue[q])
  <2>1. /\ queue[q] # <<>> /\ queue[q] \in Seq(CmdBufs)
        /\ queue' = [queue EXCEPT ![q] = Tail(@)]
        /\ UNCHANGED <<pc, call>> /\ CmdQueue' = CmdQueue
    BY <1>0 DEF Execute, TypeOK, hostVars, CmdQueue
  <2>2. /\ c \in CmdBufs
        /\ cmd_state'[c] # "pending"
        /\ \A d \in CmdBufs : d # c => cmd_state'[d] = cmd_state[d]
    BY <1>0, <2>1 DEF Execute, TypeOK
  <2>3. pc = "wait" /\ q = CmdQueue /\ Len(queue[q]) <= 1
    BY <2>1 DEF WaitInv, GpuIdleOutsideWait
  <2>4. queue[q] = <<c>> /\ Tail(queue[q]) = <<>>
    BY <2>1, <2>3, OneElement
  <2>5. \A r \in Queues : queue'[r] = <<>>
    <3>1. queue'[q] = <<>>
      BY <1>0, <2>1, <2>4 DEF TypeOK
    <3>2. \A r \in Queues : r # q => queue'[r] = queue[r] /\ queue[r] = <<>>
      BY <1>0, <2>1, <2>3 DEF WaitInv, GpuIdleOutsideWait, TypeOK
    <3> QED
      BY <3>1, <3>2
  <2>6. \A d \in CmdBufs : cmd_state'[d] # "pending"
    BY <2>2, <2>3, <2>4 DEF WaitInv, PendingQueued
  <2> QED
    BY <2>5, <2>6 DEF WaitInv, GpuIdleOutsideWait, PendingQueued
<1> QED
  BY <1>1, <1>2, <1>3, <1>4, <1>5 DEF Next

(* The library is synchronous: whatever the client calls, in whatever      *)
(* order, and whatever but a wait fails, no work is outstanding between    *)
(* the calls, and never two submissions at once.                           *)
THEOREM Synchronous ==
  ASSUME "wait" \notin Faults
  PROVE  Spec => []GpuIdleOutsideWait
<1>1. WaitInv => GpuIdleOutsideWait
  BY DEF WaitInv
<1> QED
  BY <1>1, IndInvAlways, WaitInvInit, WaitInvNext, PTL DEF Spec

-----------------------------------------------------------------------------
LEMMA PendingStep ==
  ASSUME "wait" \notin Faults, IndInv, WaitInv, [Next]_vars,
         NEW c \in CmdBufs, cmd_state[c] = "pending", ~Executes(c)
  PROVE  /\ cmd_state'[c] = "pending"
         /\ UNCHANGED <<cmd_work, stage, desc_set>>
<1>1. pc = "wait" /\ queue[CmdQueue] = <<c>> /\ CmdQueue \in Queues
  BY CmdQueueType DEF WaitInv, PendingQueued
<1>2. ~Client
  BY <1>1 DEF Client, Grid, SetSpec, CallBind, CallReplay, CallCopy, Enter,
       ReleaseComputeCmdBuffer, DropComputeBuffer
<1>3. ~Library
  BY <1>1 DEF Library, InitPipeline, BeginBind, EndBind, CopyMapped, MakeStage,
       BeginCopy, EndCopy, DropStage, Submit, WaitIdle, Return, Goto
<1>4. ~Exception
  BY <1>1 DEF Exception, ThrowEarly, ThrowBegin, ThrowEnd, ThrowSubmit,
       ThrowWait, Unwind
<1>5. ~Gpu
  <2> SUFFICES ASSUME NEW q \in Queues, Execute(q)
               PROVE  FALSE
    BY DEF Gpu
  <2>1. queue[q] # <<>> /\ queue' = [queue EXCEPT ![q] = Tail(@)]
    BY DEF Execute
  <2>2. q = CmdQueue /\ Head(queue[q]) = c
    BY <1>1, <2>1 DEF WaitInv, GpuIdleOutsideWait
  <2>3. queue'[q] = Tail(queue[q])
    BY <2>1 DEF IndInv, TypeOK
  <2> QED
    BY <2>1, <2>2, <2>3 DEF Executes
<1> QED
  BY <1>2, <1>3, <1>4, <1>5 DEF Next, vars, gpuVars, progVars

(* The host keeps its hands off what was submitted until it was executed.  *)
THEOREM HandsOff ==
  ASSUME "wait" \notin Faults
  PROVE  Spec => PendingUntouched
<1>1. IndInv /\ WaitInv /\ [Next]_vars =>
        [\A c \in CmdBufs : cmd_state[c] = "pending" /\ ~Executes(c) =>
           /\ cmd_state'[c] = "pending"
           /\ cmd_work'[c] = cmd_work[c]
           /\ cmd_work[c] \in CopyWork => stage' = stage
           /\ \A p \in Programs :
                cmd_work[c] \in DispatchesOf(p) => desc_set'[p] = desc_set[p]]_vars
  BY PendingStep
<1> QED
  BY <1>1, IndInvAlways, WaitInvInit, WaitInvNext, PTL
    DEF Spec, PendingUntouched

-----------------------------------------------------------------------------
(* What a run submits.  A client that replays only its latest bind can     *)
(* rely on recorder: the compute buffer still holds that program's launch. *)

(* The recording the client believes in is there, and it is its launch.    *)
Recorded ==
  recorder # Null =>
    /\ cmd_state[compute_cmd_buffer] \in {"executable", "pending"}
    /\ cmd_work[compute_cmd_buffer] \in DispatchesOf(recorder)
    /\ LaunchFrom(cmd_work[compute_cmd_buffer]) = last_bind[recorder]

(* While anything else is recorded into the compute buffer, the client     *)
(* believes in nothing.                                                    *)
RecorderCleared ==
  \/ pc = "end" /\ call \in BindRequests
  \/ /\ SharedFamily /\ call \in Copies
     /\ pc \in {"end", "submit", "wait", "unstage"}
  => recorder = Null

ArgsWritten ==
  pc = "end" /\ call \in BindRequests => desc_set[call.prog] = call.args

(* A launch is submitted for the program that recorded it.                 *)
Launcher ==
  pc \in {"submit", "wait"} /\ call \notin Copies => recorder = call.prog

(* A copy is submitted as it was recorded.                                 *)
CopyOf(r) ==
  [kind |-> IF r.op = "fromHost" THEN "upload" ELSE "download", arr |-> r.arr]

CopyRecorded ==
  call \in Copies =>
    /\ pc = "submit" => cmd_state[transfer_cmd_buffer] = "executable"
    /\ pc \in {"submit", "wait"} => cmd_work[transfer_cmd_buffer] = CopyOf(call)

(* What is queued is pending, and it is what the call submitted.           *)
HeadPending ==
  \A q \in Queues : queue[q] # <<>> =>
    Head(queue[q]) = Cmd /\ cmd_state[Cmd] = "pending"

RunInv ==
  /\ Recorded
  /\ RecorderCleared
  /\ ArgsWritten
  /\ Launcher
  /\ CopyRecorded
  /\ HeadPending

(* At first nothing has been recorded.                                     *)
LEMMA RunInvInit == Init => RunInv
BY DEF Init, RunInv, Recorded, RecorderCleared, ArgsWritten, Launcher,
     CopyRecorded, HeadPending, Queues

(* What the client knows to be recorded stays so when the recording is     *)
(* left alone, or when the client no longer relies on it.                  *)
LEMMA KeepsRecorded ==
  ASSUME IndInv, Recorded, UNCHANGED compute_cmd_buffer,
         recorder' \in {recorder, Null},
         recorder' # Null =>
           /\ cmd_state'[compute_cmd_buffer] \in {"executable", "pending"}
           /\ UNCHANGED <<cmd_work[compute_cmd_buffer], desc_set, last_bind>>
  PROVE  Recorded'
BY DEF Recorded, LaunchFrom

(* An idle GPU has nothing at the head of a queue.                         *)
LEMMA IdleHeads ==
  ASSUME WaitInv, pc # "wait"
  PROVE  \A q \in Queues : queue[q] = <<>>
BY DEF WaitInv, GpuIdleOutsideWait

(* The actions of the client between calls.                                *)
LEMMA RunInvClient ==
  ASSUME CheckedReplay, IndInv, CmdBuffersOwned, WaitInv, RunInv, Client
  PROVE  RunInv'
<1> USE DEF RunInv
<1>1. pc = "idle" /\ pc' \in {"idle", "init", "begin", "submit", "map", "stage"}
  BY DEF Client, Grid, SetSpec, CallBind, CallReplay, CallCopy, Enter,
     ReleaseComputeCmdBuffer, DropComputeBuffer, hostVars
<1>2. UNCHANGED <<queue, desc_set, last_bind>>
  BY DEF Client, Grid, SetSpec, CallBind, CallReplay, CallCopy,
     ReleaseComputeCmdBuffer, DropComputeBuffer, gpuVars, progVars, histVars
<1>3. HeadPending'
  BY <1>1, <1>2, IdleHeads DEF HeadPending
<1>4. ASSUME pc' # "submit"
      PROVE  (RecorderCleared /\ ArgsWritten /\ Launcher /\ CopyRecorded)'
  BY <1>1, <1>4 DEF RecorderCleared, ArgsWritten, Launcher, CopyRecorded
<1>5. CASE ReleaseComputeCmdBuffer
  BY <1>1, <1>3, <1>4, <1>5 DEF ReleaseComputeCmdBuffer, Recorded, hostVars
<1>6. ASSUME NEW c \in CmdBufs, DropComputeBuffer(c)
      PROVE  RunInv'
  <2>1. c # compute_cmd_buffer /\ UNCHANGED <<compute_cmd_buffer, recorder, pc>>
    BY <1>6 DEF DropComputeBuffer, CmdBuffersOwned, histVars, hostVars
  <2>2. UNCHANGED <<cmd_state[compute_cmd_buffer], cmd_work[compute_cmd_buffer]>>
    BY <1>6, <2>1 DEF DropComputeBuffer, IndInv, TypeOK
  <2>3. Recorded'
    BY <1>2, <2>1, <2>2, KeepsRecorded DEF Recorded
  <2> QED
    BY <1>1, <1>3, <1>4, <2>1, <2>3
<1>7. ASSUME UNCHANGED <<compute_cmd_buffer, cmd_state, cmd_work, recorder>>,
             pc' # "submit"
      PROVE  RunInv'
  <2>1. Recorded'
    BY <1>2, <1>7, KeepsRecorded DEF Recorded
  <2> QED
    BY <1>3, <1>4, <1>7, <2>1
<1>8. ASSUME NEW p \in Programs, CallReplay(p)
      PROVE  RunInv'
  <2> DEFINE r == [op |-> "replay", prog |-> p]
  <2>1. /\ UNCHANGED <<compute_cmd_buffer, cmd_state, cmd_work, recorder>>
        /\ recorder = p /\ pc' = "submit"
        /\ call' = r
    BY <1>8 DEF CallReplay, Enter, devVars, gpuVars, histVars
  <2>2. r \in Requests /\ r.op = "replay" /\ r.prog = p
    BY DEF Requests, ReplayRequests
  <2> HIDE DEF r
  <2>3. r \notin Copies /\ r \notin BindRequests
    BY <2>2, Kinds DEF Copying
  <2>4. Recorded'
    BY <1>2, <2>1, KeepsRecorded DEF Recorded
  <2> QED
    BY <1>3, <2>1, <2>2, <2>3, <2>4 DEF RecorderCleared, ArgsWritten, Launcher,
         CopyRecorded
<1> QED
  <2>1. CASE \E p \in Programs, b \in Batches : Grid(p, b)
    BY <1>1, <1>7, <2>1 DEF Grid, devVars, gpuVars, histVars, hostVars
  <2>2. CASE \E p \in Programs, s \in Specs : SetSpec(p, s)
    BY <1>1, <1>7, <2>2 DEF SetSpec, devVars, gpuVars, histVars, hostVars
  <2>3. CASE \E r \in BindRequests : CallBind(r)
    BY <1>7, <2>3 DEF CallBind, Enter, devVars, gpuVars, histVars
  <2>4. CASE \E r \in Copies : CallCopy(r)
    BY <1>7, <2>4 DEF CallCopy, Enter, devVars, gpuVars, histVars
  <2> QED
    BY <1>5, <1>6, <1>8, <2>1, <2>2, <2>3, <2>4 DEF Client

(* The steps of a bind.                                                    *)
LEMMA RunInvBind ==
  ASSUME IndInv, CmdBuffersOwned, WaitInv, RunInv,
         InitPipeline \/ BeginBind \/ EndBind
  PROVE  RunInv'
<1> USE DEF RunInv
<1>1. /\ pc \in {"init", "begin", "end"} /\ pc' # "wait"
      /\ UNCHANGED <<call, queue, devVars>>
  BY DEF InitPipeline, BeginBind, EndBind, Goto, gpuVars
<1>2. call \in BindRequests /\ call \in Requests /\ call \notin Copies
  BY Kinds DEF InitPipeline, BeginBind, EndBind, Goto, IndInv, CallShape,
     Copying
<1>3. call.prog \in Programs /\ compute_cmd_buffer \in CmdBufs
      /\ Cmd = compute_cmd_buffer
  BY <1>2, Kinds DEF BindRequests, IndInv, TypeOK, Cmd
<1>4. HeadPending' /\ CopyRecorded'
  BY <1>1, <1>2, IdleHeads DEF HeadPending, CopyRecorded
<1>5. CASE InitPipeline
  <2>1. /\ pc' = "begin"
        /\ UNCHANGED <<cmd_state, cmd_work, desc_set, last_bind, recorder>>
    BY <1>5 DEF InitPipeline, Goto, gpuVars, histVars
  <2>2. Recorded'
    BY <1>1, <2>1, KeepsRecorded DEF Recorded, devVars
  <2> QED
    BY <1>4, <2>1, <2>2 DEF RecorderCleared, ArgsWritten, Launcher
<1>6. CASE BeginBind
  <2>1. /\ pc' = "end" /\ recorder' = Null
        /\ desc_set' = [desc_set EXCEPT ![call.prog] = call.args]
    BY <1>6 DEF BeginBind, Goto
  <2>2. ArgsWritten'
    BY <1>1, <1>3, <2>1 DEF ArgsWritten, IndInv, TypeOK
  <2> QED
    BY <1>4, <2>1, <2>2 DEF Recorded, RecorderCleared, Launcher
<1>7. CASE EndBind
  <2> DEFINE w == [kind |-> "dispatch", prog |-> call.prog,
                   specs |-> pipeline[call.prog],
                   batch |-> batch[call.prog], params |-> call.params]
             l == LaunchOf(call, pipeline[call.prog], batch[call.prog])
  <2>1. /\ pc = "end" /\ pc' \in {"submit", "return"} /\ recorder' = call.prog
        /\ cmd_state' = [cmd_state EXCEPT ![compute_cmd_buffer] = "executable"]
        /\ cmd_work' = [cmd_work EXCEPT ![compute_cmd_buffer] = w]
        /\ last_bind' = [last_bind EXCEPT ![call.prog] = l]
        /\ UNCHANGED desc_set
    BY <1>3, <1>7 DEF EndBind, Goto, progVars
  <2>2. /\ cmd_state'[compute_cmd_buffer] = "executable"
        /\ cmd_work'[compute_cmd_buffer] = w
        /\ last_bind'[call.prog] = l
    BY <1>3, <2>1 DEF IndInv, TypeOK
  <2>3. w \in DispatchesOf(call.prog)
    <3>1. /\ pipeline[call.prog] \in Specs /\ batch[call.prog] \in Batches
          /\ call.params \in Params
      BY <1>2, <1>3, <2>1 DEF IndInv, BindReady, TypeOK, BindRequests
    <3> QED
      BY <1>3, <3>1 DEF DispatchesOf, DispatchWork
  <2>4. [prog |-> w.prog, specs |-> w.specs, batch |-> w.batch,
         params |-> w.params, args |-> desc_set'[w.prog]] = l
    BY <1>2, <2>1 DEF LaunchOf, ArgsWritten
  <2> HIDE DEF w, l
  <2>5. Recorded'
    BY <1>1, <2>1, <2>2, <2>3, <2>4 DEF Recorded, LaunchFrom, devVars
  <2> QED
    BY <1>1, <1>2, <1>4, <2>1, <2>5 DEF RecorderCleared, ArgsWritten, Launcher
<1> QED
  BY <1>5, <1>6, <1>7

(* The steps of a copy.                                                    *)
LEMMA RunInvCopy ==
  ASSUME IndInv, CmdBuffersOwned, WaitInv, RunInv,
         CopyMapped \/ MakeStage \/ BeginCopy \/ EndCopy \/ DropStage
  PROVE  RunInv'
<1> USE DEF RunInv
<1>1. /\ pc \in {"map", "stage", "begin", "end", "unstage"}
      /\ pc' \in {"return", "begin", "end", "submit"}
      /\ pc' = "end" <=> pc = "begin"
      /\ UNCHANGED <<call, queue, devVars, desc_set, last_bind>>
  BY DEF CopyMapped, MakeStage, BeginCopy, EndCopy, DropStage, Goto,
     progVars, histVars
<1>2. call \in Copies /\ call \in Requests /\ call \notin BindRequests
  BY Kinds DEF CopyMapped, MakeStage, BeginCopy, EndCopy, DropStage, Goto,
     IndInv, CallShape, Copying, Requests
<1>3. /\ compute_cmd_buffer \in CmdBufs /\ transfer_cmd_buffer \in CmdBufs
      /\ Cmd = transfer_cmd_buffer
      /\ SharedFamily <=> transfer_cmd_buffer = compute_cmd_buffer
  BY <1>2, Kinds DEF IndInv, TypeOK, Cmd, CmdBuffersOwned
<1>4. HeadPending' /\ ArgsWritten' /\ Launcher'
  BY <1>1, <1>2, IdleHeads DEF HeadPending, ArgsWritten, Launcher
<1>5. CASE CopyMapped \/ MakeStage
  <2>1. /\ pc' # "submit" /\ pc' # "end"
        /\ UNCHANGED <<cmd_state, cmd_work, recorder>>
    BY <1>5 DEF CopyMapped, MakeStage, Goto, histVars
  <2>2. Recorded'
    BY <1>1, <2>1, KeepsRecorded DEF Recorded, devVars
  <2> QED
    BY <1>1, <1>4, <2>1, <2>2 DEF RecorderCleared, CopyRecorded
<1>6. CASE BeginCopy
  <2>1. /\ pc' = "end" /\ recorder' = IF SharedFamily THEN Null ELSE recorder
        /\ cmd_state' = [cmd_state EXCEPT ![transfer_cmd_buffer] = "recording"]
        /\ cmd_work' = [cmd_work EXCEPT ![transfer_cmd_buffer] = Null]
    BY <1>3, <1>6 DEF BeginCopy, Goto
  <2>2. ~SharedFamily =>
          /\ cmd_state'[compute_cmd_buffer] = cmd_state[compute_cmd_buffer]
          /\ cmd_work'[compute_cmd_buffer] = cmd_work[compute_cmd_buffer]
    BY <1>3, <2>1 DEF IndInv, TypeOK
  <2>3. Recorded'
    BY <1>1, <2>1, <2>2, KeepsRecorded DEF Recorded, devVars
  <2> QED
    BY <1>1, <1>2, <1>4, <2>1, <2>3 DEF RecorderCleared, CopyRecorded
<1>7. CASE EndCopy
  <2>1. /\ pc = "end" /\ pc' = "submit" /\ UNCHANGED recorder
        /\ cmd_state' = [cmd_state EXCEPT ![transfer_cmd_buffer] = "executable"]
        /\ cmd_work' = [cmd_work EXCEPT ![transfer_cmd_buffer] = CopyOf(call)]
    BY <1>3, <1>7 DEF EndCopy, Goto, histVars, CopyOf
  <2>2. SharedFamily => recorder = Null
    BY <1>2, <2>1 DEF RecorderCleared
  <2>3. /\ cmd_state'[transfer_cmd_buffer] = "executable"
        /\ cmd_work'[transfer_cmd_buffer] = CopyOf(call)
        /\ ~SharedFamily =>
             /\ cmd_state'[compute_cmd_buffer] = cmd_state[compute_cmd_buffer]
             /\ cmd_work'[compute_cmd_buffer] = cmd_work[compute_cmd_buffer]
    BY <1>3, <2>1 DEF IndInv, TypeOK
  <2>4. Recorded'
    BY <1>1, <2>1, <2>2, <2>3, KeepsRecorded DEF Recorded, devVars
  <2> QED
    BY <1>1, <1>2, <1>4, <2>1, <2>2, <2>3, <2>4
      DEF RecorderCleared, CopyRecorded, devVars, CopyOf
<1>8. CASE DropStage
  <2>1. /\ pc' = "return" /\ UNCHANGED <<recorder, cmd_work>>
        /\ cmd_state' = Invalidate(CopyWork)
    BY <1>8 DEF DropStage, histVars
  <2>2. recorder # Null =>
          cmd_state'[compute_cmd_buffer] = cmd_state[compute_cmd_buffer]
    BY <1>3, <2>1, InvalidateType, WorkKinds
      DEF Recorded, DispatchesOf, IndInv
  <2>3. Recorded'
    BY <1>1, <2>1, <2>2, KeepsRecorded DEF Recorded, devVars
  <2> QED
    BY <1>1, <1>4, <2>1, <2>3 DEF RecorderCleared, CopyRecorded
<1> QED
  BY <1>5, <1>6, <1>7, <1>8

(* Submission, the wait and the return.                                    *)
LEMMA RunInvSubmit ==
  ASSUME CheckedReplay, IndInv, CmdBuffersOwned, WaitInv, RunInv,
         Submit \/ WaitIdle \/ Return
  PROVE  RunInv'
<1> USE DEF RunInv
<1>1. UNCHANGED <<compute_cmd_buffer, transfer_cmd_buffer, cmd_work, desc_set,
                  last_bind, recorder>>
  BY DEF Submit, WaitIdle, Return, devVars, gpuVars, progVars, histVars
<1>2. ArgsWritten'
  BY DEF ArgsWritten, Submit, WaitIdle, Return, Goto
<1>3. CASE Submit
  <2>1. /\ pc = "submit" /\ pc' = "wait" /\ UNCHANGED call
        /\ queue' = [queue EXCEPT ![CmdQueue] = Append(@, Cmd)]
        /\ cmd_state' = [cmd_state EXCEPT ![Cmd] =
                           IF @ = "executable" THEN "pending" ELSE @]
    BY <1>3 DEF Submit, Goto
  <2>2. /\ Cmd \in CmdBufs /\ CmdQueue \in Queues
        /\ Cmd' = Cmd /\ compute_cmd_buffer \in CmdBufs
    BY <1>1, <2>1, CmdType DEF Cmd, IndInv, TypeOK
  <2>3. cmd_state[Cmd] = "executable"
    <3>1. call \in Requests /\ (call \in Copies <=> Copying(call))
      BY <2>1, Kinds DEF IndInv, CallShape
    <3>2. CASE call \in Copies
      BY <2>1, <3>1, <3>2 DEF CopyRecorded, Cmd
    <3>3. CASE call \notin Copies
      <4>1. recorder # Null /\ Cmd = compute_cmd_buffer
        BY <2>1, <3>1, <3>3, NullAssumption
          DEF Launcher, Cmd, Requests, BindRequests, ReplayRequests
      <4> QED
        BY <2>1, <2>2, <4>1 DEF Recorded, WaitInv, PendingQueued
    <3> QED
      BY <3>2, <3>3
  <2>4. /\ cmd_state'[Cmd] = "pending"
        /\ \A c \in CmdBufs : c # Cmd => cmd_state'[c] = cmd_state[c]
    BY <2>1, <2>2, <2>3 DEF IndInv, TypeOK
  <2>5. /\ queue'[CmdQueue] = <<Cmd>>
        /\ \A q \in Queues : q # CmdQueue => queue'[q] = <<>>
    BY <2>1, <2>2, IdleHeads, AppendToEmpty DEF IndInv, TypeOK
  <2>6. HeadPending'
    BY <2>2, <2>4, <2>5 DEF HeadPending
  <2>7. Recorded'
    BY <1>1, <2>2, <2>4, KeepsRecorded DEF Recorded
  <2> QED
    BY <1>1, <1>2, <2>1, <2>6, <2>7
      DEF RecorderCleared, Launcher, CopyRecorded, CopyOf
<1>4. CASE WaitIdle \/ Return
  <2>1. UNCHANGED <<queue, cmd_state>> /\ pc' \in {"idle", "return", "unstage"}
    BY <1>4 DEF WaitIdle, Return, Goto, gpuVars
  <2>2. Recorded'
    BY <1>1, <2>1, KeepsRecorded DEF Recorded
  <2>3. \A q \in Queues : queue'[q] = <<>>
    BY <1>4, <2>1 DEF WaitIdle, Return, Goto, WaitInv, GpuIdleOutsideWait
  <2>4. HeadPending'
    BY <2>3 DEF HeadPending
  <2>5. RecorderCleared'
    BY <1>1, <1>4, <2>1 DEF RecorderCleared, WaitIdle, Return, Goto
  <2> QED
    BY <1>2, <2>1, <2>2, <2>4, <2>5 DEF Launcher, CopyRecorded
<1> QED
  BY <1>3, <1>4

(* An exception before the wait.                                           *)
LEMMA RunInvException ==
  ASSUME "wait" \notin Faults, IndInv, CmdBuffersOwned, WaitInv, RunInv,
         Exception
  PROVE  RunInv'
<1> USE DEF RunInv
<1>1. /\ pc \in {"init", "stage", "map", "begin", "end", "submit"}
      /\ pc' = "idle" /\ UNCHANGED <<queue, devVars, last_bind>>
  BY DEF Exception, ThrowEarly, ThrowBegin, ThrowEnd, ThrowSubmit, ThrowWait,
     Unwind
<1>2. call \in Requests /\ (call \in Copies <=> Copying(call))
  BY <1>1, Kinds DEF IndInv, CallShape
<1>3. /\ compute_cmd_buffer \in CmdBufs /\ transfer_cmd_buffer \in CmdBufs
      /\ SharedFamily <=> transfer_cmd_buffer = compute_cmd_buffer
  BY DEF IndInv, TypeOK, CmdBuffersOwned
<1>4. /\ HeadPending' /\ RecorderCleared' /\ ArgsWritten' /\ Launcher'
      /\ CopyRecorded'
  BY <1>1, IdleHeads DEF HeadPending, RecorderCleared, ArgsWritten, Launcher,
     CopyRecorded
<1>5. Recorded'
  <2>1. CASE ThrowEarly
    BY <1>1, <2>1, KeepsRecorded DEF ThrowEarly, Recorded, devVars
  <2>2. CASE ThrowBegin
    <3>1. CASE recorder' = Null
      BY <3>1 DEF Recorded
    <3>2. CASE recorder' # Null
      <4>1. Copying(call) /\ ~SharedFamily /\ recorder' = recorder
        BY <2>2, <3>2 DEF ThrowBegin
      <4>2. /\ UNCHANGED desc_set
            /\ \E reset \in BOOLEAN :
                 /\ cmd_state' = IF reset
                      THEN [cmd_state EXCEPT ![transfer_cmd_buffer] = "initial"]
                      ELSE cmd_state
                 /\ cmd_work' = IF reset
                      THEN [cmd_work EXCEPT ![transfer_cmd_buffer] = Null]
                      ELSE cmd_work
        BY <2>2, <4>1 DEF ThrowBegin, Cmd
      <4>3. /\ cmd_state'[compute_cmd_buffer] = cmd_state[compute_cmd_buffer]
            /\ cmd_work'[compute_cmd_buffer] = cmd_work[compute_cmd_buffer]
        BY <1>3, <4>1, <4>2 DEF IndInv, TypeOK
      <4> QED
        BY <1>1, <4>1, <4>2, <4>3, KeepsRecorded DEF Recorded, devVars
    <3> QED
      BY <3>1, <3>2
  <2>3. CASE ThrowEnd
    <3>1. /\ pc = "end" /\ cmd_state' = [cmd_state EXCEPT ![Cmd] = "invalid"]
          /\ UNCHANGED <<cmd_work, desc_set, recorder>>
      BY <2>3 DEF ThrowEnd, Unwind
    <3>2. recorder # Null => Cmd # compute_cmd_buffer
      BY <1>2, <1>3, <3>1 DEF RecorderCleared, IndInv, CallShape, Cmd
    <3>3. recorder # Null =>
            cmd_state'[compute_cmd_buffer] = cmd_state[compute_cmd_buffer]
      BY <1>3, <3>1, <3>2 DEF IndInv, TypeOK
    <3> QED
      BY <1>1, <3>1, <3>3, KeepsRecorded DEF Recorded, devVars
  <2>4. CASE ThrowSubmit \/ ThrowWait
    <3>1. /\ UNCHANGED <<cmd_work, desc_set, recorder>>
          /\ cmd_state' \in {Invalidate(CopyWork), cmd_state}
      BY <2>4 DEF ThrowSubmit, ThrowWait
    <3>2. recorder # Null =>
            cmd_state'[compute_cmd_buffer] = cmd_state[compute_cmd_buffer]
      BY <1>3, <3>1, InvalidateType, WorkKinds
        DEF Recorded, DispatchesOf, IndInv
    <3> QED
      BY <1>1, <3>1, <3>2, KeepsRecorded DEF Recorded, devVars
  <2> QED
    BY <2>1, <2>2, <2>3, <2>4 DEF Exception
<1> QED
  BY <1>4, <1>5

(* The GPU executes a submission.                                          *)
LEMMA RunInvGpu ==
  ASSUME IndInv, WaitInv, WaitInv', RunInv, Gpu
  PROVE  RunInv'
<1> USE DEF RunInv
<1> PICK q \in Queues : Execute(q)
  BY DEF Gpu
<1>1. /\ queue[q] # <<>>
      /\ queue' = [queue EXCEPT ![q] = Tail(@)]
      /\ UNCHANGED <<devVars, progVars, hostVars, histVars, cmd_work>>
  BY DEF Execute
<1>2. /\ pc = "wait" /\ q = CmdQueue
      /\ Head(queue[q]) = Cmd /\ cmd_state[Cmd] = "pending"
  BY <1>1 DEF WaitInv, GpuIdleOutsideWait, HeadPending
<1>3. Cmd \in CmdBufs /\ compute_cmd_buffer \in CmdBufs
  BY CmdType DEF IndInv, TypeOK
<1>4. cmd_state' = [cmd_state EXCEPT ![Cmd] =
        IF cmd_work[Cmd] \in CopyWork THEN "invalid" ELSE "executable"]
  BY <1>2 DEF Execute
<1>5. recorder # Null =>
        cmd_state'[compute_cmd_buffer] \in {"executable", "pending"}
  BY <1>3, <1>4, WorkKinds DEF Recorded, DispatchesOf, IndInv, TypeOK
<1>6. Recorded'
  BY <1>1, <1>5, KeepsRecorded DEF Recorded, devVars, progVars, histVars
<1>7. \A r \in Queues : queue'[r] = <<>>
  <2>1. queue[q] \in Seq(CmdBufs) /\ Len(queue[q]) <= 1
    BY DEF IndInv, TypeOK, WaitInv, GpuIdleOutsideWait
  <2>2. Tail(queue[q]) = <<>>
    BY <1>1, <2>1, OneElement
  <2> QED
    BY <1>1, <1>2, <2>2 DEF IndInv, TypeOK, WaitInv, GpuIdleOutsideWait
<1>8. HeadPending'
  BY <1>7 DEF HeadPending
<1>9. RecorderCleared' /\ ArgsWritten' /\ Launcher' /\ CopyRecorded'
  BY <1>1, <1>2 DEF RecorderCleared, ArgsWritten, Launcher, CopyRecorded,
     CopyOf, devVars, progVars, hostVars, histVars
<1> QED
  BY <1>6, <1>8, <1>9

(* Every step preserves the invariant about what is recorded.              *)
LEMMA RunInvNext ==
  ASSUME "wait" \notin Faults, CheckedReplay, IndInv, CmdBuffersOwned,
         WaitInv, WaitInv', RunInv, [Next]_vars
  PROVE  RunInv'
<1>1. CASE UNCHANGED vars
  BY <1>1 DEF vars, devVars, gpuVars, progVars, hostVars, histVars, RunInv,
     Recorded, RecorderCleared, ArgsWritten, Launcher, CopyRecorded,
     HeadPending, LaunchFrom, CopyOf, Cmd
<1>2. CASE Library
  BY <1>2, RunInvBind, RunInvCopy, RunInvSubmit DEF Library
<1> QED
  BY <1>1, <1>2, RunInvClient, RunInvException, RunInvGpu DEF Next

(* A run that is about to submit has the recording of its own last bind.   *)
LEMMA RunInvSubmits ==
  ASSUME IndInv, WaitInv, RunInv
  PROVE  RunSubmitsOwnBinding
<1> SUFFICES ASSUME pc = "submit", call.op \in {"run", "replay"}
             PROVE  /\ cmd_state[compute_cmd_buffer] = "executable"
                    /\ cmd_work[compute_cmd_buffer] \in DispatchesOf(call.prog)
                    /\ LaunchFrom(cmd_work[compute_cmd_buffer])
                         = last_bind[call.prog]
  BY DEF RunSubmitsOwnBinding
<1>1. call \in Requests /\ call \notin Copies
  BY Kinds DEF IndInv, CallShape, Copying
<1>2. recorder = call.prog /\ recorder # Null
  BY <1>1, NullAssumption DEF RunInv, Launcher, Requests, BindRequests,
     ReplayRequests
<1>3. cmd_state[compute_cmd_buffer] # "pending"
  BY DEF WaitInv, PendingQueued, IndInv, TypeOK
<1> QED
  BY <1>2, <1>3 DEF RunInv, Recorded

(* For a client that replays only its latest bind, every run launches what *)
(* the last bind of its own program said, whatever other programs, copies, *)
(* hand-overs of the command buffer and failed calls came in between.      *)
THEOREM RunsOwnBinding ==
  ASSUME "wait" \notin Faults, CheckedReplay
  PROVE  Spec => []RunSubmitsOwnBinding
<1>1. Spec => [](IndInv /\ CmdBuffersOwned /\ WaitInv)
  BY IndInvAlways, BuffersOwned, WaitInvInit, WaitInvNext, PTL DEF Spec
<1>2. IndInv /\ WaitInv /\ RunInv => RunSubmitsOwnBinding
  BY RunInvSubmits
<1> QED
  BY <1>1, <1>2, RunInvInit, RunInvNext, PTL DEF Spec

-----------------------------------------------------------------------------
(***************************************************************************)
(* The device implements SyncCompute: under the same assumptions each step *)
(* of the program, of the exception handling and of the GPU is a step of   *)
(* the promise, or leaves it where it is.                                  *)
(***************************************************************************)

(* What is uploaded is what fromHost was given.                            *)
StageFilled ==
  call \in FromHostRequests /\ pc \in {"begin", "end", "submit", "wait"} =>
    stage = call.val

(* What toHost reads from the staging buffer is what the array holds.      *)
Delivered ==
  /\ call \in ToHostRequests
  /\ pc = "unstage" \/ (pc = "wait" /\ queue[CmdQueue] = <<>>)
  => stage = mem[call.arr]

CopyInv == StageFilled /\ Delivered

RefInv ==
  /\ IndInv
  /\ CmdBuffersOwned
  /\ WaitInv
  /\ RunInv

(* At first no copy is in progress.                                        *)
LEMMA CopyInvInit == Init => CopyInv
BY NullAssumption DEF Init, CopyInv, StageFilled, Delivered, Requests

(* What the head of a queue does.                                          *)
LEMMA GpuStep ==
  ASSUME RefInv, Gpu
  PROVE  /\ pc = "wait" /\ queue[CmdQueue] # <<>> /\ queue'[CmdQueue] = <<>>
         /\ Cmd \in CmdBufs /\ Perform(cmd_work[Cmd])
         /\ UNCHANGED <<devVars, progVars, hostVars, histVars>>
         /\ CmdQueue' = CmdQueue
<1> USE DEF RefInv
<1> PICK q \in Queues : Execute(q)
  BY DEF Gpu
<1>1. /\ queue[q] # <<>>
      /\ queue' = [queue EXCEPT ![q] = Tail(@)]
      /\ UNCHANGED <<devVars, progVars, hostVars, histVars, cmd_work>>
  BY DEF Execute
<1>2. /\ pc = "wait" /\ q = CmdQueue
      /\ Head(queue[q]) = Cmd /\ cmd_state[Cmd] = "pending"
  BY <1>1 DEF WaitInv, GpuIdleOutsideWait, RunInv, HeadPending
<1>3. queue[q] \in Seq(CmdBufs) /\ Len(queue[q]) <= 1
  BY DEF IndInv, TypeOK, WaitInv, GpuIdleOutsideWait
<1>4. Tail(queue[q]) = <<>>
  BY <1>1, <1>3, OneElement
<1>5. queue'[q] = <<>>
  BY <1>1, <1>4 DEF IndInv, TypeOK
<1>6. Perform(cmd_work[Cmd])
  BY <1>2 DEF Execute
<1>7. Cmd \in CmdBufs
  BY CmdType DEF IndInv
<1>8. CmdQueue' = CmdQueue
  BY <1>1 DEF CmdQueue, hostVars
<1> QED
  BY <1>1, <1>2, <1>5, <1>6, <1>7, <1>8

(* What it does for a copy.                                                *)
LEMMA GpuCopy ==
  ASSUME RefInv, Gpu, call \in Copies
  PROVE  /\ call.op = "fromHost" =>
              /\ mem' = [mem EXCEPT ![call.arr] = stage]
              /\ UNCHANGED stage
         /\ call.op = "toHost" => stage' = mem[call.arr] /\ UNCHANGED mem
<1>1. pc = "wait" /\ Perform(cmd_work[Cmd])
  BY GpuStep
<1>2. call \in Requests /\ Copying(call)
  BY Kinds DEF Requests
<1>3. cmd_work[Cmd] = CopyOf(call)
  BY <1>1, <1>2 DEF RefInv, RunInv, CopyRecorded, Cmd
<1> QED
  BY <1>1, <1>3 DEF Perform, CopyOf

(* Every step keeps what is staged equal to what is to be delivered.       *)
LEMMA CopyInvNext ==
  ASSUME "wait" \notin Faults, RefInv, CopyInv, [Next]_vars
  PROVE  CopyInv'
<1>1. CASE UNCHANGED vars
  BY <1>1 DEF vars, gpuVars, hostVars, CopyInv, StageFilled, Delivered, CmdQueue
<1>2. CASE Client
  BY <1>2 DEF Client, Grid, SetSpec, CallBind, CallReplay, CallCopy, Enter,
     ReleaseComputeCmdBuffer, DropComputeBuffer, hostVars, CopyInv, StageFilled,
     Delivered, RefInv, IndInv, CallShape, FromHostRequests, BindRequests,
     ToHostRequests
<1>3. CASE Library
  <2>1. CASE InitPipeline \/ BeginBind \/ EndBind \/ BeginCopy \/ EndCopy
               \/ Return
    <3>1. /\ UNCHANGED <<stage, mem, queue>>
          /\ pc' \in {"begin", "end", "submit"} =>
               pc \in {"init", "begin", "end"} /\ UNCHANGED call
          /\ pc' \notin {"wait", "unstage"}
          /\ pc = "init" => call \notin Copies
      BY <2>1, Kinds DEF InitPipeline, BeginBind, EndBind, BeginCopy, EndCopy,
         Return, Goto, gpuVars, RefInv, IndInv, CallShape, Copying
    <3> QED
      BY <2>1, <3>1 DEF CopyInv, StageFilled, Delivered, InitPipeline,
         BeginBind, EndBind, BeginCopy, EndCopy, Return, Goto
  <2>2. CASE CopyMapped \/ DropStage
    BY <2>2 DEF CopyMapped, DropStage, CopyInv, StageFilled, Delivered
  <2>3. CASE MakeStage
    <3>1. /\ pc' = "begin" /\ UNCHANGED call
          /\ call.op = "fromHost" => stage' = call.val
      BY <2>3 DEF MakeStage, Goto
    <3>2. call \in FromHostRequests => call.op = "fromHost"
      BY DEF FromHostRequests
    <3> QED
      BY <3>1, <3>2 DEF CopyInv, StageFilled, Delivered
  <2>4. CASE Submit
    <3>1. /\ pc = "submit" /\ pc' = "wait" /\ UNCHANGED <<call, stage, mem>>
          /\ queue' = [queue EXCEPT ![CmdQueue] = Append(@, Cmd)]
      BY <2>4 DEF Submit, Goto
    <3>2. queue[CmdQueue] = <<>> /\ CmdQueue \in Queues /\ CmdQueue' = CmdQueue
      BY <3>1, CmdQueueType, IdleHeads DEF RefInv, CmdQueue
    <3>3. queue'[CmdQueue] = <<Cmd>>
      BY <3>1, <3>2, AppendToEmpty DEF RefInv, IndInv, TypeOK
    <3>4. <<Cmd>> # <<>>
      OBVIOUS
    <3> QED
      BY <3>1, <3>2, <3>3, <3>4 DEF CopyInv, StageFilled, Delivered
  <2>5. CASE WaitIdle
    BY <2>5 DEF WaitIdle, Goto, gpuVars, CopyInv, StageFilled, Delivered
  <2> QED
    BY <1>3, <2>1, <2>2, <2>3, <2>4, <2>5 DEF Library
<1>4. CASE Exception
  BY <1>4 DEF Exception, ThrowEarly, ThrowBegin, ThrowEnd, ThrowSubmit,
     ThrowWait, Unwind, CopyInv, StageFilled, Delivered
<1>5. CASE Gpu
  <2>1. pc = "wait" /\ UNCHANGED <<pc, call>>
    BY <1>5, GpuStep DEF hostVars
  <2>2. /\ call \in FromHostRequests => call.op = "fromHost" /\ call \in Copies
        /\ call \in ToHostRequests => call.op = "toHost" /\ call \in Copies
    BY DEF FromHostRequests, ToHostRequests
  <2>3. StageFilled'
    BY <1>5, <2>1, <2>2, GpuCopy DEF CopyInv, StageFilled
  <2>4. Delivered'
    BY <1>5, <2>1, <2>2, GpuCopy DEF Delivered
  <2> QED
    BY <2>3, <2>4 DEF CopyInv
<1> QED
  BY <1>1, <1>2, <1>3, <1>4, <1>5 DEF Next

-----------------------------------------------------------------------------
THEOREM SyncInit == Init => Sync!Init
BY DEF Init, Sync!Init, Sync!Memory, Memory, Phase, Effective

(* A step that changes nothing the promise sees.                           *)
LEMMA Stutter ==
  ASSUME UNCHANGED <<mem, last_bind, batch, call, reply, Phase>>
  PROVE  UNCHANGED Sync!vars
BY DEF Sync!vars

(* Between calls the phase is "idle", at the start of a call "called".     *)
LEMMA PhaseAtEntry ==
  /\ pc = "idle" <=> Phase = "idle"
  /\ pc \in {"init", "stage", "map", "begin", "end"} => Phase = "called"
  /\ pc = "submit" => Phase = IF call.op = "run" THEN "bound" ELSE "called"
  /\ pc = "unstage" /\ call.op = "toHost" => Phase = "called"
  /\ pc = "return" => Phase = "done"
BY DEF Phase, Effective

(* An action of the client invokes a call of the promise, changes the      *)
(* dispatch size, or is not seen by it.                                    *)
LEMMA ClientRefines ==
  ASSUME RefInv, Client
  PROVE  [Sync!Next]_(Sync!vars)
<1>1. pc = "idle"
  BY DEF Client, Grid, SetSpec, CallBind, CallReplay, CallCopy, Enter,
     ReleaseComputeCmdBuffer, DropComputeBuffer
<1>2. Phase = "idle"
  BY <1>1, PhaseAtEntry
<1>3. ASSUME NEW p \in Programs, NEW b \in Batches, Grid(p, b)
      PROVE  Sync!Next
  <2>1. /\ batch' = [batch EXCEPT ![p] = b]
        /\ UNCHANGED <<mem, last_bind, call, reply, pc>>
    BY <1>3 DEF Grid, gpuVars, histVars, hostVars
  <2>2. Phase' = "idle"
    BY <1>1, <2>1 DEF Phase
  <2>3. Sync!Resize(p, b)
    BY <1>2, <2>1, <2>2 DEF Sync!Resize
  <2> QED
    BY <2>3 DEF Sync!Next
<1>4. ASSUME NEW r \in Requests, call' = r, pc = "idle",
             \/ pc' \in {"init", "begin", "map", "stage"}
             \/ pc' = "submit" /\ r.op = "replay",
             UNCHANGED <<mem, last_bind, batch, reply>>
      PROVE  Sync!Next
  <2>1. Phase' = "called"
    BY <1>4 DEF Phase, Effective
  <2>2. Sync!Invoke(r)
    BY <1>2, <1>4, <2>1 DEF Sync!Invoke
  <2>3. r \in Sync!Requests
    BY DEF Requests, BindRequests, ReplayRequests, FromHostRequests,
       ToHostRequests, Sync!Requests, Sync!BindRequests, Sync!ReplayRequests,
       Sync!FromHostRequests, Sync!ToHostRequests
  <2> QED
    BY <2>2, <2>3 DEF Sync!Next
<1>5. CASE \E r \in BindRequests : CallBind(r)
  <2> PICK r \in BindRequests : CallBind(r)
    BY <1>5
  <2>1. r \in Requests
    BY DEF Requests
  <2>2. /\ call' = r /\ pc = "idle" /\ pc' \in {"init", "begin"}
        /\ UNCHANGED <<mem, last_bind, batch, reply>>
    BY DEF CallBind, Enter, gpuVars, progVars, histVars
  <2> QED
    BY <1>4, <2>1, <2>2
<1>6. CASE \E p \in Programs : CallReplay(p)
  <2> PICK p \in Programs : CallReplay(p)
    BY <1>6
  <2>1. [op |-> "replay", prog |-> p] \in Requests
    BY DEF Requests, ReplayRequests
  <2> QED
    BY <1>4, <2>1 DEF CallReplay, Enter, gpuVars, progVars, histVars
<1>7. CASE \E r \in Copies : CallCopy(r)
  <2> PICK r \in Copies : CallCopy(r)
    BY <1>7
  <2>1. r \in Requests
    BY DEF Requests
  <2>2. /\ call' = r /\ pc = "idle" /\ pc' \in {"map", "stage"}
        /\ UNCHANGED <<mem, last_bind, batch, reply>>
    BY DEF CallCopy, Enter, gpuVars, progVars, histVars
  <2> QED
    BY <1>4, <2>1, <2>2
<1>8. ASSUME UNCHANGED <<mem, last_bind, batch, call, reply, pc>>
      PROVE  UNCHANGED Sync!vars
  BY <1>1, <1>8, Stutter DEF Phase
<1>9. CASE \/ \E p \in Programs, s \in Specs : SetSpec(p, s)
           \/ ReleaseComputeCmdBuffer
           \/ \E c \in CmdBufs : DropComputeBuffer(c)
  BY <1>8, <1>9 DEF SetSpec, ReleaseComputeCmdBuffer, DropComputeBuffer,
     gpuVars, progVars, hostVars, histVars
<1> QED
  BY <1>3, <1>5, <1>6, <1>7, <1>9 DEF Client

(* A step of a call binds, transfers through mapped memory, returns, or    *)
(* is not seen by the promise.                                             *)
LEMMA LibraryRefines ==
  ASSUME RefInv, CopyInv, Library
  PROVE  [Sync!Next]_(Sync!vars)
<1> USE DEF RefInv
<1>1. CASE InitPipeline \/ BeginBind \/ MakeStage \/ BeginCopy \/ EndCopy
  <2>1. /\ pc \in {"init", "stage", "begin", "end"}
        /\ \/ pc' \in {"begin", "end"}
           \/ pc' = "submit" /\ Copying(call)
        /\ UNCHANGED <<mem, last_bind, batch, call, reply>>
    BY <1>1 DEF InitPipeline, BeginBind, MakeStage, BeginCopy, EndCopy, Goto,
       gpuVars, progVars, histVars
  <2>2. Phase = "called" /\ Phase' = "called"
    BY <2>1 DEF Phase, Effective, Copying
  <2> QED
    BY <2>1, <2>2, Stutter
<1>2. CASE EndBind
  <2>1. /\ pc = "end" /\ ~Copying(call)
        /\ pc' = IF call.op = "run" THEN "submit" ELSE "return"
        /\ last_bind' = [last_bind EXCEPT ![call.prog] =
             LaunchOf(call, pipeline[call.prog], batch[call.prog])]
        /\ UNCHANGED <<mem, batch, call, reply>>
    BY <1>2 DEF EndBind, Goto, progVars
  <2>2. call \in BindRequests
    BY <2>1, Kinds DEF IndInv, CallShape
  <2>3. pipeline[call.prog] \in Specs
    BY <2>1, <2>2 DEF IndInv, BindReady
  <2>4. Phase = "called"
          /\ Phase' = IF call.op = "run" THEN "bound" ELSE "done"
    BY <2>1 DEF Phase, Effective
  <2>5. Sync!Bind
    BY <2>1, <2>2, <2>3, <2>4 DEF Sync!Bind, Sync!BindRequests, BindRequests,
       Sync!LaunchOf, LaunchOf
  <2> QED
    BY <2>5 DEF Sync!Next
<1>3. CASE CopyMapped
  <2>1. call \in Copies /\ call \in Requests /\ pc = "map"
    BY <1>3 DEF CopyMapped, IndInv, CallShape, Requests
  <2>2. Phase = "called" /\ Phase' = "done"
    BY <1>3, <2>1 DEF CopyMapped, Phase, Effective
  <2>3. CASE call.op = "fromHost"
    <3>1. Sync!Upload
      BY <1>3, <2>2, <2>3 DEF CopyMapped, Sync!Upload, progVars, histVars
    <3> QED
      BY <3>1 DEF Sync!Next
  <2>4. CASE call.op = "toHost"
    <3>1. Sync!Download
      BY <1>3, <2>2, <2>4 DEF CopyMapped, Sync!Download, progVars, histVars
    <3> QED
      BY <3>1 DEF Sync!Next
  <2> QED
    BY <2>1, <2>3, <2>4, Kinds DEF Copying
<1>4. CASE DropStage
  <2>1. call \in Copies /\ call \in Requests /\ pc = "unstage"
    BY <1>4 DEF DropStage, IndInv, CallShape, Requests
  <2>2. /\ pc' = "return"
        /\ reply' = IF call.op = "toHost" THEN stage ELSE reply
        /\ UNCHANGED <<mem, last_bind, batch, call>>
    BY <1>4 DEF DropStage, progVars, histVars
  <2>3. Phase' = "done"
    BY <2>2 DEF Phase, Effective
  <2>4. CASE call.op = "fromHost"
    <3>1. queue[CmdQueue] = <<>>
      BY <2>1, CmdQueueType, IdleHeads
    <3>2. Phase = "done"
      BY <2>1, <2>4, <3>1 DEF Phase, Effective
    <3> QED
      BY <2>2, <2>3, <2>4, <3>2, Stutter
  <2>5. CASE call.op = "toHost"
    <3>1. stage = mem[call.arr]
      BY <2>1, <2>5, Kinds DEF CopyInv, Delivered
    <3>2. Phase = "called"
      BY <2>1, <2>5, PhaseAtEntry
    <3>3. Sync!Download
      BY <2>2, <2>3, <2>5, <3>1, <3>2 DEF Sync!Download
    <3> QED
      BY <3>3 DEF Sync!Next
  <2> QED
    BY <2>1, <2>4, <2>5, Kinds DEF Copying
<1>5. CASE Submit
  <2>1. /\ pc = "submit" /\ pc' = "wait"
        /\ UNCHANGED <<mem, last_bind, batch, call, reply>>
        /\ queue' = [queue EXCEPT ![CmdQueue] = Append(@, Cmd)]
    BY <1>5 DEF Submit, Goto, progVars, histVars
  <2>2. queue[CmdQueue] = <<>> /\ CmdQueue \in Queues /\ CmdQueue' = CmdQueue
    BY <2>1, CmdQueueType, IdleHeads DEF CmdQueue
  <2>3. queue'[CmdQueue] = <<Cmd>>
    BY <2>1, <2>2, AppendToEmpty DEF IndInv, TypeOK
  <2>4. <<Cmd>> # <<>>
    OBVIOUS
  <2>5. Phase' = Phase
    BY <2>1, <2>2, <2>3, <2>4 DEF Phase, Effective
  <2> QED
    BY <2>1, <2>5, Stutter
<1>6. CASE WaitIdle
  <2>1. /\ pc = "wait" /\ queue[CmdQueue] = <<>>
        /\ pc' = IF Copying(call) THEN "unstage" ELSE "return"
        /\ UNCHANGED <<mem, last_bind, batch, call, reply, queue>>
        /\ CmdQueue' = CmdQueue
    BY <1>6 DEF WaitIdle, Goto, gpuVars, progVars, histVars, CmdQueue
  <2>2. Phase' = Phase
    BY <2>1 DEF Phase, Effective, Copying
  <2> QED
    BY <2>1, <2>2, Stutter
<1>7. CASE Return
  <2>1. Phase = "done" /\ Phase' = "idle"
    BY <1>7 DEF Return, Phase, Effective
  <2>2. Sync!Return
    BY <1>7, <2>1 DEF Return, Sync!Return, gpuVars, progVars, histVars
  <2> QED
    BY <2>2 DEF Sync!Next
<1> QED
  BY <1>1, <1>2, <1>3, <1>4, <1>5, <1>6, <1>7 DEF Library

(* An exception before the wait is one of the promise: no array has        *)
(* changed.                                                                *)
LEMMA ExceptionRefines ==
  ASSUME "wait" \notin Faults, RefInv, Exception
  PROVE  Sync!Next
<1>1. /\ pc \in {"init", "stage", "map", "begin", "end", "submit"}
      /\ pc' = "idle" /\ call' = Null
      /\ UNCHANGED <<mem, last_bind, batch, reply>>
  BY DEF Exception, ThrowEarly, ThrowBegin, ThrowEnd, ThrowSubmit, ThrowWait,
     Unwind
<1>2. Phase \in {"called", "bound"} /\ Phase' = "idle"
  BY <1>1 DEF Phase, Effective
<1>3. Sync!Throw
  BY <1>1, <1>2 DEF Sync!Throw
<1> QED
  BY <1>3 DEF Sync!Next

(* The GPU performs the effect of the call that waits for it.              *)
LEMMA GpuRefines ==
  ASSUME RefInv, CopyInv, Gpu
  PROVE  [Sync!Next]_(Sync!vars)
<1> USE DEF RefInv
<1>1. /\ pc = "wait" /\ queue[CmdQueue] # <<>> /\ queue'[CmdQueue] = <<>>
      /\ UNCHANGED <<last_bind, batch, call, reply, pc>> /\ CmdQueue' = CmdQueue
  BY GpuStep DEF hostVars, progVars, histVars
<1>2. call \in Requests
  BY <1>1 DEF IndInv, CallShape
<1>3. /\ Phase = IF call.op = "run" THEN "bound" ELSE "called"
      /\ Phase' = IF call.op = "toHost" THEN "called" ELSE "done"
  BY <1>1 DEF Phase, Effective
<1>4. CASE call.op = "fromHost"
  <2>1. call \in Copies /\ stage = call.val
    BY <1>1, <1>2, <1>4, Kinds DEF CopyInv, StageFilled
  <2>2. mem' = [mem EXCEPT ![call.arr] = call.val]
    BY <1>4, <2>1, GpuCopy
  <2>3. Sync!Upload
    BY <1>1, <1>3, <1>4, <2>2 DEF Sync!Upload
  <2> QED
    BY <2>3 DEF Sync!Next
<1>5. CASE call.op = "toHost"
  <2>1. UNCHANGED mem
    BY <1>2, <1>5, GpuCopy, Kinds
  <2> QED
    BY <1>1, <1>3, <1>5, <2>1, Stutter
<1>6. CASE ~Copying(call)
  <2> DEFINE l == last_bind[call.prog]
  <2>1. call \notin Copies /\ call.prog \in Programs
    BY <1>2, <1>6, Kinds DEF Requests, BindRequests, ReplayRequests
  <2>2. recorder = call.prog /\ recorder # Null
    BY <1>1, <2>1, NullAssumption DEF RunInv, Launcher
  <2>3. /\ cmd_work[compute_cmd_buffer] \in DispatchesOf(call.prog)
        /\ LaunchFrom(cmd_work[compute_cmd_buffer]) = l
    BY <2>2 DEF RunInv, Recorded
  <2>4. mem' = Kernel[l][mem]
    BY <1>6, <2>3, GpuStep, WorkKinds DEF Perform, Cmd, DispatchesOf
  <2>5. l \in Launches
    BY <2>3, LaunchType DEF IndInv, DispatchReady, DispatchesOf, TypeOK
  <2>6. call.op \in {"run", "replay", "bind"}
    BY <1>2, <2>1, Kinds DEF Requests
  <2>7. call.op # "bind"
    BY <1>1 DEF IndInv, CallShape
  <2>8. Sync!Launch
    BY <1>1, <1>3, <2>4, <2>5, <2>6, <2>7 DEF Sync!Launch, Sync!Launches, Launches
  <2> QED
    BY <2>8 DEF Sync!Next
<1> QED
  BY <1>4, <1>5, <1>6 DEF Copying

(* Every step is a step of the promise or leaves it where it is.           *)
LEMMA StepRefines ==
  ASSUME "wait" \notin Faults, RefInv, CopyInv, [Next]_vars
  PROVE  [Sync!Next]_(Sync!vars)
<1>1. CASE UNCHANGED vars
  BY <1>1 DEF vars, gpuVars, progVars, hostVars, histVars, Sync!vars, Phase,
     Effective, CmdQueue
<1> QED
  BY <1>1, ClientRefines, LibraryRefines, ExceptionRefines, GpuRefines DEF Next

(* A device whose waits do not fail, used by a client that replays only    *)
(* its latest bind, is what SyncCompute promises: every call is one atomic *)
(* operation on the arrays, or throws and was none.                        *)
THEOREM ComputeImplementsSync ==
  ASSUME "wait" \notin Faults, CheckedReplay
  PROVE  Spec => ImplementsSync
<1>1. Spec => []RefInv
  <2>1. Spec => [](IndInv /\ CmdBuffersOwned /\ WaitInv)
    BY IndInvAlways, BuffersOwned, WaitInvInit, WaitInvNext, PTL DEF Spec
  <2> QED
    BY <2>1, RunInvInit, RunInvNext, PTL DEF Spec, RefInv
<1>2. Spec => []CopyInv
  BY <1>1, CopyInvInit, CopyInvNext, PTL DEF Spec
<1> QED
  BY <1>1, <1>2, SyncInit, StepRefines, PTL DEF Spec, ImplementsSync
=============================================================================
