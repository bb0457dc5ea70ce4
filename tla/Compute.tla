------------------------------ MODULE Compute -------------------------------
(***************************************************************************)
(* One vuml::Device at work: its two command buffers, the queues behind    *)
(* them, the programs bound and run on it, and the array transfers that    *)
(* go through a staging buffer.  Two actors interleave: the one host       *)
(* thread that calls the library (pc is where in a call it stands) and the *)
(* GPU, which executes what was submitted at a time of its own.            *)
(*                                                                         *)
(* Every Vulkan call that can throw is a step of its own, so that the      *)
(* exception, the caller's catch and the next call can follow it.          *)
(***************************************************************************)
EXTENDS ComputeCalls, Naturals, Sequences

CONSTANTS
  CmdBufs,        \* command buffer handles; bounds what can be allocated
  HostVisible,    \* arrays whose memory is host visible (isHostVisible)
  SharedFamily,   \* cmp_family_id_ == tfr_family_id_
  Faults,         \* the steps whose Vulkan call may throw
  CheckedReplay,  \* the client replays only a program it bound last
  Backlog,        \* bound: submissions outstanding after failed waits
  Freed           \* no staging buffer exists

ASSUME DeviceAssumption ==
  /\ HostVisible \subseteq Arrays
  /\ SharedFamily \in BOOLEAN
  /\ CheckedReplay \in BOOLEAN
  /\ Backlog \in Nat
  /\ Freed \notin Value
  /\ Null \notin CmdBufs

VARIABLES
  compute_cmd_buffer,   \* Device::compute_cmd_buffer_
  transfer_cmd_buffer,  \* Device::transfer_cmd_buffer_
  released,             \* buffers handed out by releaseComputeCmdBuffer
  cmd_state,            \* Vulkan's life cycle state of each command buffer
  cmd_work,             \* what each command buffer holds
  queue,                \* the buffers submitted and not yet executed
  mem,                  \* what each array holds
  stage,                \* what the staging buffer of a copy holds
  pipeline,             \* the constants a program's pipeline was built with
  desc_set,             \* the arrays a program's descriptor set names
  specs, batch,         \* ProgramBase::batch_, SpecBase::specs_
  pc, call,             \* the host thread: its step and the call it is in
  reply,                \* what the last toHost wrote to its destination
  last_bind,            \* history: the launch each program was last bound to
  recorder              \* history: the program whose bind the client knows
                        \* to be the latest recording for compute

devVars == <<compute_cmd_buffer, transfer_cmd_buffer, released>>
gpuVars == <<cmd_state, cmd_work, queue, mem, stage>>
progVars == <<pipeline, desc_set, specs, batch>>
hostVars == <<pc, call, reply>>
histVars == <<last_bind, recorder>>
vars == <<devVars, gpuVars, progVars, hostVars, histVars>>

-----------------------------------------------------------------------------
(* Command buffers and queues.                                             *)

DispatchWork == [kind : {"dispatch"}, prog : Programs, specs : Specs,
                 batch : Batches, params : Params]
CopyWork == [kind : {"upload", "download"}, arr : Arrays]

ASSUME WorkAssumption == Null \notin DispatchWork \cup CopyWork

(* Device::computeQueue and transferQueue: getQueue(family, 0) names one   *)
(* and the same queue when the families coincide.                          *)
TransferQueue == IF SharedFamily THEN "compute" ELSE "transfer"
Queues == {"compute", "transfer"}

(* The command buffer and the queue the call in progress uses.             *)
Cmd == IF Copying(call) THEN transfer_cmd_buffer ELSE compute_cmd_buffer
CmdQueue == IF Copying(call) THEN TransferQueue ELSE "compute"

(* updateDescriptorSets and the destruction of a buffer invalidate the     *)
(* recordings that use what changed, also those the GPU still has to       *)
(* execute.                                                                *)
Uses(c, W) ==
  cmd_state[c] \in {"executable", "pending"} /\ cmd_work[c] \in W
Invalidate(W) ==
  [c \in CmdBufs |-> IF Uses(c, W) THEN "invalid" ELSE cmd_state[c]]
DispatchesOf(p) == {w \in DispatchWork : w.prog = p}

(* The launch a recorded dispatch performs: it reads the descriptor set    *)
(* when it executes.                                                       *)
LaunchFrom(w) == [prog |-> w.prog, specs |-> w.specs, batch |-> w.batch,
                  params |-> w.params, args |-> desc_set[w.prog]]

-----------------------------------------------------------------------------
Init ==
  /\ compute_cmd_buffer \in CmdBufs
  /\ IF SharedFamily
       THEN transfer_cmd_buffer = compute_cmd_buffer
       ELSE transfer_cmd_buffer \in CmdBufs \ {compute_cmd_buffer}
  /\ released = {}
  /\ cmd_state = [c \in CmdBufs |->
                    IF c \in {compute_cmd_buffer, transfer_cmd_buffer}
                      THEN "initial" ELSE "free"]
  /\ cmd_work = [c \in CmdBufs |-> Null]
  /\ queue = [q \in Queues |-> <<>>]
  /\ mem \in Memory
  /\ stage = Freed
  /\ pipeline = [p \in Programs |-> Null]
  /\ desc_set = [p \in Programs |-> Null]
  /\ specs \in [Programs -> Specs]
  /\ batch \in [Programs -> Batches]
  /\ pc = "idle"
  /\ call = Null
  /\ reply = Null
  /\ last_bind = [p \in Programs |-> Null]
  /\ recorder = Null

Enter(request, step) ==
  /\ pc = "idle"
  /\ call' = request
  /\ pc' = step

Goto(from, to) ==
  /\ pc = from
  /\ pc' = to
  /\ UNCHANGED <<call, reply>>

-----------------------------------------------------------------------------
(* Programs.                                                               *)

Grid(p, b) ==
  /\ pc = "idle"
  /\ batch' = [batch EXCEPT ![p] = b]
  /\ UNCHANGED <<devVars, gpuVars, hostVars, histVars,
                 pipeline, desc_set, specs>>

SetSpec(p, s) ==
  /\ pc = "idle"
  /\ specs' = [specs EXCEPT ![p] = s]
  /\ UNCHANGED <<devVars, gpuVars, hostVars, histVars,
                 pipeline, desc_set, batch>>

(* MUTANT of CallBind: a program that has a pipeline is taken to be bound. *)
CallBindOnce(r) ==
  /\ Enter(r, IF pipeline[r.prog] = Null THEN "init"
              ELSE IF r.op = "run" THEN "submit" ELSE "return")
  /\ UNCHANGED <<devVars, gpuVars, progVars, histVars, reply>>

(* bind() and run(params, args): the pipeline is built by the first bind.  *)
CallBind(r) ==
  /\ Enter(r, IF pipeline[r.prog] = Null THEN "init" ELSE "begin")
  /\ UNCHANGED <<devVars, gpuVars, progVars, histVars, reply>>

InitPipeline ==
  /\ Goto("init", "begin")
  /\ pipeline' = [pipeline EXCEPT ![call.prog] = specs[call.prog]]
  /\ UNCHANGED <<devVars, gpuVars, histVars, desc_set, specs, batch>>

(* command_buffer_begin: write the descriptor set, then begin recording.   *)
BeginBind ==
  /\ Goto("begin", "end")
  /\ ~Copying(call)
  /\ desc_set' = [desc_set EXCEPT ![call.prog] = call.args]
  /\ cmd_state' = [Invalidate(DispatchesOf(call.prog))
                     EXCEPT ![Cmd] = "recording"]
  /\ cmd_work' = [cmd_work EXCEPT ![Cmd] = Null]
  /\ recorder' = Null
  /\ UNCHANGED <<devVars, queue, mem, stage, pipeline, specs, batch,
                 last_bind>>

(* pushConstants and command_buffer_end.                                   *)
EndBind ==
  /\ Goto("end", IF call.op = "run" THEN "submit" ELSE "return")
  /\ ~Copying(call)
  /\ cmd_state' = [cmd_state EXCEPT ![Cmd] = "executable"]
  /\ cmd_work' = [cmd_work EXCEPT ![Cmd] =
                    [kind |-> "dispatch", prog |-> call.prog,
                     specs |-> pipeline[call.prog],
                     batch |-> batch[call.prog], params |-> call.params]]
  /\ last_bind' = [last_bind EXCEPT ![call.prog] =
                     LaunchOf(call, pipeline[call.prog], batch[call.prog])]
  /\ recorder' = call.prog
  /\ UNCHANGED <<devVars, progVars, queue, mem, stage>>

(* run() without arguments submits the device's compute command buffer,    *)
(* whoever recorded it.  A checked client calls it only while its own bind *)
(* is the latest recording it knows of.                                    *)
CallReplay(p) ==
  /\ CheckedReplay => recorder = p
  /\ Enter([op |-> "replay", prog |-> p], "submit")
  /\ UNCHANGED <<devVars, gpuVars, progVars, histVars, reply>>

-----------------------------------------------------------------------------
(* Array transfers.                                                        *)

CallCopy(r) ==
  /\ Enter(r, IF r.arr \in HostVisible THEN "map" ELSE "stage")
  /\ UNCHANGED <<devVars, gpuVars, progVars, histVars, reply>>

(* Host visible memory: map, copy, unmap.                                  *)
CopyMapped ==
  /\ pc = "map"
  /\ pc' = "return"
  /\ IF call.op = "fromHost"
       THEN mem' = [mem EXCEPT ![call.arr] = call.val] /\ UNCHANGED reply
       ELSE reply' = mem[call.arr] /\ UNCHANGED mem
  /\ UNCHANGED <<devVars, progVars, histVars, call,
                 cmd_state, cmd_work, queue, stage>>

(* MUTANT of MakeStage: the staging buffer of an upload is not filled.     *)
MakeStageUnfilled ==
  /\ Goto("stage", "begin")
  /\ stage' \in Value
  /\ UNCHANGED <<devVars, progVars, histVars,
                 cmd_state, cmd_work, queue, mem>>

(* The staging HostArray: filled from the host for an upload; its contents *)
(* are whatever the memory held for a download.                            *)
MakeStage ==
  /\ Goto("stage", "begin")
  /\ stage' \in IF call.op = "fromHost" THEN {call.val} ELSE Value
  /\ UNCHANGED <<devVars, progVars, histVars,
                 cmd_state, cmd_work, queue, mem>>

(* copy_buf: record one copy for a single submission.                      *)
BeginCopy ==
  /\ Goto("begin", "end")
  /\ Copying(call)
  /\ cmd_state' = [cmd_state EXCEPT ![Cmd] = "recording"]
  /\ cmd_work' = [cmd_work EXCEPT ![Cmd] = Null]
  /\ recorder' = IF SharedFamily THEN Null ELSE recorder
  /\ UNCHANGED <<devVars, progVars, queue, mem, stage, last_bind>>

EndCopy ==
  /\ Goto("end", "submit")
  /\ Copying(call)
  /\ cmd_state' = [cmd_state EXCEPT ![Cmd] = "executable"]
  /\ cmd_work' = [cmd_work EXCEPT ![Cmd] =
       [kind |-> IF call.op = "fromHost" THEN "upload" ELSE "download",
        arr |-> call.arr]]
  /\ UNCHANGED <<devVars, progVars, histVars, queue, mem, stage>>

(* MUTANT of DropStage: the destination is written after the destruction.  *)
DropStageFirst ==
  /\ pc = "unstage"
  /\ pc' = "return"
  /\ stage' = Freed
  /\ reply' = IF call.op = "toHost" THEN stage' ELSE reply
  /\ cmd_state' = Invalidate(CopyWork)
  /\ UNCHANGED <<devVars, progVars, histVars, call, cmd_work, queue, mem>>

(* A download is copied out of the staging buffer; then it is destroyed.   *)
DropStage ==
  /\ pc = "unstage"
  /\ pc' = "return"
  /\ reply' = IF call.op = "toHost" THEN stage ELSE reply
  /\ stage' = Freed
  /\ cmd_state' = Invalidate(CopyWork)
  /\ UNCHANGED <<devVars, progVars, histVars, call, cmd_work, queue, mem>>

-----------------------------------------------------------------------------
(* Submission, completion, return.                                         *)

(* submit: only an executable buffer becomes pending; submitting any other *)
(* is invalid use, whose effect Execute leaves open.                       *)
Submit ==
  /\ Goto("submit", "wait")
  /\ queue' = [queue EXCEPT ![CmdQueue] = Append(@, Cmd)]
  /\ cmd_state' = [cmd_state EXCEPT ![Cmd] =
                     IF @ = "executable" THEN "pending" ELSE @]
  /\ UNCHANGED <<devVars, progVars, histVars, cmd_work, mem, stage>>

(* MUTANT of WaitIdle: the call does not wait.                             *)
WaitSkipped ==
  /\ Goto("wait", IF Copying(call) THEN "unstage" ELSE "return")
  /\ UNCHANGED <<devVars, gpuVars, progVars, histVars>>

(* MUTANT of WaitIdle: the call waits until its command buffer can be      *)
(* submitted again, which a one time submission never can.                 *)
WaitReusable ==
  /\ Goto("wait", IF Copying(call) THEN "unstage" ELSE "return")
  /\ cmd_state[Cmd] = "executable"
  /\ UNCHANGED <<devVars, gpuVars, progVars, histVars>>

(* queue.waitIdle(): the queue this call submitted to has run dry.         *)
WaitIdle ==
  /\ Goto("wait", IF Copying(call) THEN "unstage" ELSE "return")
  /\ queue[CmdQueue] = <<>>
  /\ UNCHANGED <<devVars, gpuVars, progVars, histVars>>

Return ==
  /\ pc = "return"
  /\ pc' = "idle"
  /\ call' = Null
  /\ UNCHANGED <<devVars, gpuVars, progVars, histVars, reply>>

-----------------------------------------------------------------------------
(* Exceptions.  They leave the call; a copy destroys its staging buffer on *)
(* the way, which invalidates a copy recorded from it.                     *)

Unwind(step) ==
  /\ pc = step
  /\ step \in Faults
  /\ pc' = "idle"
  /\ call' = Null
  /\ stage' = Freed
  /\ UNCHANGED <<devVars, reply, queue, mem, last_bind,
                 pipeline, specs, batch>>

(* Before anything was recorded: building the pipeline, the staging buffer *)
(* or the mapping failed.                                                  *)
ThrowEarly ==
  /\ \E step \in {"init", "stage", "map"} : Unwind(step)
  /\ UNCHANGED <<cmd_state, cmd_work, desc_set, recorder>>

(* begin() failed: the descriptor set of a bind was written already.       *)
ThrowBegin ==
  /\ Unwind("begin")
  /\ \E reset \in BOOLEAN :
       /\ LET left == IF Copying(call) THEN cmd_state
                      ELSE Invalidate(DispatchesOf(call.prog))
          IN cmd_state' = IF reset THEN [left EXCEPT ![Cmd] = "initial"]
                          ELSE left
       /\ cmd_work' = IF reset THEN [cmd_work EXCEPT ![Cmd] = Null]
                      ELSE cmd_work
  /\ desc_set' = IF Copying(call) THEN desc_set
                 ELSE [desc_set EXCEPT ![call.prog] = call.args]
  /\ recorder' = IF Copying(call) /\ ~SharedFamily THEN recorder ELSE Null

(* end() failed: the recording is unusable.                                *)
ThrowEnd ==
  /\ Unwind("end")
  /\ cmd_state' = [cmd_state EXCEPT ![Cmd] = "invalid"]
  /\ UNCHANGED <<cmd_work, desc_set, recorder>>

(* submit() failed: nothing was queued; a bound recording stays usable.    *)
ThrowSubmit ==
  /\ Unwind("submit")
  /\ cmd_state' = IF Copying(call) THEN Invalidate(CopyWork) ELSE cmd_state
  /\ UNCHANGED <<cmd_work, desc_set, recorder>>

(* waitIdle() failed: the GPU may still be executing the submission.       *)
ThrowWait ==
  /\ Unwind("wait")
  /\ Len(queue[CmdQueue]) <= Backlog
  /\ cmd_state' = IF Copying(call) THEN Invalidate(CopyWork) ELSE cmd_state
  /\ UNCHANGED <<cmd_work, desc_set, recorder>>

-----------------------------------------------------------------------------
(* Handing out the compute command buffer.                                 *)

(* MUTANT of ReleaseComputeCmdBuffer: the families are compared the wrong  *)
(* way round.                                                              *)
ReleaseInverted ==
  /\ pc = "idle"
  /\ \E new \in CmdBufs :
       /\ cmd_state[new] = "free"
       /\ cmd_state' = [cmd_state EXCEPT ![new] = "initial"]
       /\ cmd_work' = [cmd_work EXCEPT ![new] = Null]
       /\ released' = released \cup {compute_cmd_buffer}
       /\ compute_cmd_buffer' = new
       /\ transfer_cmd_buffer' =
            IF SharedFamily THEN transfer_cmd_buffer ELSE new
  /\ recorder' = Null
  /\ UNCHANGED <<progVars, hostVars, queue, mem, stage, last_bind>>

(* releaseComputeCmdBuffer: a new buffer takes the place of the old one,   *)
(* also as the transfer buffer when the families coincide.                 *)
ReleaseComputeCmdBuffer ==
  /\ pc = "idle"
  /\ \E new \in CmdBufs :
       /\ cmd_state[new] = "free"
       /\ cmd_state' = [cmd_state EXCEPT ![new] = "initial"]
       /\ cmd_work' = [cmd_work EXCEPT ![new] = Null]
       /\ released' = released \cup {compute_cmd_buffer}
       /\ compute_cmd_buffer' = new
       /\ transfer_cmd_buffer' =
            IF SharedFamily THEN new ELSE transfer_cmd_buffer
  /\ recorder' = Null
  /\ UNCHANGED <<progVars, hostVars, queue, mem, stage, last_bind>>

(* ComputeBuffer::release by the caller who got the buffer.  It leaves     *)
(* cmd_buffer_ as it is and would free the buffer again: a client calls it *)
(* once.                                                                   *)
DropComputeBuffer(c) ==
  /\ pc = "idle"
  /\ c \in released
  /\ released' = released \ {c}
  /\ cmd_state' = [cmd_state EXCEPT ![c] = "free"]
  /\ cmd_work' = [cmd_work EXCEPT ![c] = Null]
  /\ UNCHANGED <<progVars, hostVars, histVars, queue, mem, stage,
                 compute_cmd_buffer, transfer_cmd_buffer>>

-----------------------------------------------------------------------------
(* The GPU executes the oldest submission of a queue.  A copy was recorded *)
(* for a single submission and is invalid afterwards.  Executing what is   *)
(* not pending any more can leave anything in the arrays.                  *)

Perform(w) ==
  \/ /\ w.kind = "dispatch"
     /\ mem' = Kernel[LaunchFrom(w)][mem]
     /\ UNCHANGED stage
  \/ /\ w.kind = "upload"
     /\ mem' = [mem EXCEPT ![w.arr] = stage]
     /\ UNCHANGED stage
  \/ /\ w.kind = "download"
     /\ stage' = mem[w.arr]
     /\ UNCHANGED mem

Execute(q) ==
  /\ queue[q] # <<>>
  /\ queue' = [queue EXCEPT ![q] = Tail(@)]
  /\ LET c == Head(queue[q])
     IN IF cmd_state[c] = "pending"
          THEN /\ Perform(cmd_work[c])
               /\ cmd_state' = [cmd_state EXCEPT ![c] =
                    IF cmd_work[c] \in CopyWork THEN "invalid"
                    ELSE "executable"]
          ELSE /\ mem' \in Memory
               /\ cmd_state' = [cmd_state EXCEPT ![c] = "invalid"]
               /\ UNCHANGED stage
  /\ UNCHANGED <<devVars, progVars, hostVars, histVars, cmd_work>>

-----------------------------------------------------------------------------
Client ==
  \/ \E p \in Programs, b \in Batches : Grid(p, b)
  \/ \E p \in Programs, s \in Specs : SetSpec(p, s)
  \/ \E r \in BindRequests : CallBind(r)
  \/ \E p \in Programs : CallReplay(p)
  \/ \E r \in FromHostRequests \cup ToHostRequests : CallCopy(r)
  \/ ReleaseComputeCmdBuffer
  \/ \E c \in CmdBufs : DropComputeBuffer(c)

Library ==
  \/ InitPipeline \/ BeginBind \/ EndBind
  \/ CopyMapped \/ MakeStage \/ BeginCopy \/ EndCopy \/ DropStage
  \/ Submit \/ WaitIdle \/ Return

Exception ==
  ThrowEarly \/ ThrowBegin \/ ThrowEnd \/ ThrowSubmit \/ ThrowWait

Gpu == \E q \in Queues : Execute(q)

Next == Client \/ Library \/ Exception \/ Gpu

(* The thread keeps executing inside a call, and a queue makes progress;   *)
(* nothing obliges the client to make another call.                        *)
Fairness ==
  /\ WF_vars(Library)
  /\ \A q \in Queues : WF_vars(Execute(q))

Spec == Init /\ [][Next]_vars /\ Fairness
-----------------------------------------------------------------------------
(* What every state looks like.                                            *)

Steps == {"idle", "init", "stage", "map", "begin", "end", "submit", "wait",
          "unstage", "return"}
CmdStates == {"free", "initial", "recording", "executable", "pending",
              "invalid"}

(* The type invariant.  It is not without content: what a toHost delivers  *)
(* is a value and never what a destroyed staging buffer holds, and a       *)
(* descriptor set or a pipeline that exists was built from real settings.  *)
TypeOK ==
  /\ compute_cmd_buffer \in CmdBufs
  /\ transfer_cmd_buffer \in CmdBufs
  /\ released \subseteq CmdBufs
  /\ cmd_state \in [CmdBufs -> CmdStates]
  /\ cmd_work \in [CmdBufs -> DispatchWork \cup CopyWork \cup {Null}]
  /\ queue \in [Queues -> Seq(CmdBufs)]
  /\ mem \in Memory
  /\ stage \in Value \cup {Freed}
  /\ pipeline \in [Programs -> Specs \cup {Null}]
  /\ desc_set \in [Programs -> ArgLists \cup {Null}]
  /\ specs \in [Programs -> Specs]
  /\ batch \in [Programs -> Batches]
  /\ pc \in Steps
  /\ call \in Requests \cup {Null}
  /\ reply \in Value \cup {Null}
  /\ last_bind \in [Programs -> Launches \cup {Null}]
  /\ recorder \in Programs \cup {Null}

(* The handles a Device holds are its own: never freed, never also in the  *)
(* hands of a caller of releaseComputeCmdBuffer, and the transfer handle   *)
(* is an alias of the compute handle exactly when the families coincide.   *)
(* A hand-over that forgets the alias would leave the transfers with a     *)
(* buffer the caller may free.                                             *)
CmdBuffersOwned ==
  /\ SharedFamily <=> transfer_cmd_buffer = compute_cmd_buffer
  /\ {compute_cmd_buffer, transfer_cmd_buffer} \cap released = {}
  /\ \A c \in released \cup {compute_cmd_buffer, transfer_cmd_buffer} :
       cmd_state[c] # "free"

(* What run() submits is the recording of this program's latest bind, with *)
(* the descriptor set that bind wrote: no other program's recording, no    *)
(* copy, nothing half recorded, whatever ran on the device in between.     *)
RunSubmitsOwnBinding ==
  pc = "submit" /\ call.op \in {"run", "replay"} =>
    /\ cmd_state[compute_cmd_buffer] = "executable"
    /\ cmd_work[compute_cmd_buffer] \in DispatchesOf(call.prog)
    /\ LaunchFrom(cmd_work[compute_cmd_buffer]) = last_bind[call.prog]

(* The library is synchronous: work is outstanding only inside the wait of *)
(* the call that submitted it, and never more than one submission.         *)
GpuIdleOutsideWait ==
  \A q \in Queues :
    /\ queue[q] # <<>> => pc = "wait" /\ q = CmdQueue
    /\ Len(queue[q]) <= 1

(* The host never touches what the GPU is working on: until it is executed *)
(* a submitted command buffer is neither recorded again nor freed, the     *)
(* descriptor set of its program not rewritten, the staging buffer it      *)
(* copies not destroyed.                                                   *)
Executes(c) ==
  \E q \in Queues :
    /\ queue[q] # <<>>
    /\ c = Head(queue[q])
    /\ queue'[q] = Tail(queue[q])

PendingUntouched ==
  [][\A c \in CmdBufs : cmd_state[c] = "pending" /\ ~Executes(c) =>
       /\ cmd_state'[c] = "pending"
       /\ cmd_work'[c] = cmd_work[c]
       /\ cmd_work[c] \in CopyWork => stage' = stage
       /\ \A p \in Programs :
            cmd_work[c] \in DispatchesOf(p) => desc_set'[p] = desc_set[p]]_vars

(* Every call comes back, by returning or by throwing.                     *)
CallReturns == pc # "idle" ~> pc = "idle"

-----------------------------------------------------------------------------
(* The refinement of SyncCompute.  A call is "done" once its effect on the *)
(* arrays (or on the destination of toHost) is there.                      *)

Effective ==
  \/ pc = "return"
  \/ pc \in {"wait", "unstage"} /\ call.op # "toHost"
       /\ queue[CmdQueue] = <<>>

Phase ==
  IF pc = "idle" THEN "idle"
  ELSE IF Effective THEN "done"
  ELSE IF call.op = "run" /\ pc \in {"submit", "wait"} THEN "bound"
  ELSE "called"

Sync == INSTANCE SyncCompute WITH
  contents <- mem, bound <- last_bind, size <- batch,
  request <- call, phase <- Phase

(* Every behaviour of the library is one of the promise: calls are atomic, *)
(* each launches what its own bind said, and toHost delivers what the      *)
(* array holds.                                                            *)
ImplementsSync == Sync!Init /\ [][Sync!Next]_(Sync!vars)
=============================================================================
