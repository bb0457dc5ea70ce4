---------------------------- MODULE ComputeCalls ----------------------------
(***************************************************************************)
(* The vocabulary of the compute half of vuml: the calls a client makes on *)
(* the programs and the device arrays of one vuml::Device, and what the    *)
(* GPU does with a launch.  Both the promise (SyncCompute) and the code    *)
(* (Compute) are written over it.                                          *)
(***************************************************************************)
CONSTANTS
  Programs,   \* the vuml::Program objects of the device
  Arrays,     \* the device arrays; all live for the whole behaviour
  Value,      \* what an array can hold, as one value
  Specs,      \* values of the specialization constants (specs_)
  Batches,    \* values of the dispatch size (batch_)
  Params,     \* values of the push constants
  ArgLists,   \* argument packs a client binds (lists of arrays)
  Null,       \* nothing: no call, no binding, a null handle
  Kernel      \* what a launch does to the arrays

Memory == [Arrays -> Value]

(* What a dispatch depends on: the shader (one per program), the           *)
(* specialization constants, the dispatch size, the push constants and the *)
(* arrays of the descriptor set.                                           *)
Launches == [prog : Programs, specs : Specs, batch : Batches,
             params : Params, args : ArgLists]

(* A kernel is any function of the launch and the contents of the arrays.  *)
ASSUME KernelAssumption == Kernel \in [Launches -> [Memory -> Memory]]

(* Program::bind(params, args...) and Program::run(params, args...).       *)
BindRequests == [op : {"bind", "run"}, prog : Programs,
                 params : Params, args : ArgLists]

(* The inherited run() without arguments: submit what was bound before.    *)
ReplayRequests == [op : {"replay"}, prog : Programs]

(* DeviceArray::fromHost(begin, end) and toHost(dst).                      *)
FromHostRequests == [op : {"fromHost"}, arr : Arrays, val : Value]
ToHostRequests == [op : {"toHost"}, arr : Arrays]

Requests == BindRequests \cup ReplayRequests
              \cup FromHostRequests \cup ToHostRequests

ASSUME NullAssumption ==
  /\ Null \notin Programs
  /\ Null \notin Value
  /\ Null \notin Specs
  /\ Null \notin ArgLists
  /\ Null \notin Launches
  /\ Null \notin Requests

(* The calls that move an array between the host and the device.           *)
Copying(r) == r.op \in {"fromHost", "toHost"}

(* The launch a bind of request r prepares under the given settings.       *)
LaunchOf(r, s, b) == [prog |-> r.prog, specs |-> s, batch |-> b,
                      params |-> r.params, args |-> r.args]
=============================================================================
