---------------------------- MODULE SyncCompute -----------------------------
(***************************************************************************)
(* What the compute half of vuml promises its caller: every call is one    *)
(* synchronous operation on the arrays.  A call is invoked, takes effect   *)
(* at one instant, and returns; or it throws, and then it took no effect   *)
(* on the arrays.  There is no queue, no command buffer, no staging        *)
(* buffer and no GPU here.                                                 *)
(***************************************************************************)
EXTENDS ComputeCalls

VARIABLES
  contents,   \* what each array holds
  bound,      \* the launch a program was last bound to, or Null
  size,       \* the dispatch size last given to grid()
  request,    \* the call in progress, or Null
  phase,      \* "idle", "called", "bound" or "done"
  reply       \* what the last toHost delivered, or Null

vars == <<contents, bound, size, request, phase, reply>>

Init ==
  /\ contents \in Memory
  /\ bound = [p \in Programs |-> Null]
  /\ size \in [Programs -> Batches]
  /\ request = Null
  /\ phase = "idle"
  /\ reply = Null

(* Program::grid: between calls, for the binds that follow.                *)
Resize(p, b) ==
  /\ phase = "idle"
  /\ size' = [size EXCEPT ![p] = b]
  /\ UNCHANGED <<contents, bound, request, phase, reply>>

Invoke(r) ==
  /\ phase = "idle"
  /\ phase' = "called"
  /\ request' = r
  /\ UNCHANGED <<contents, bound, size, reply>>

(* A bind remembers the launch: this call's parameters and arguments, the  *)
(* current dispatch size.  Which specialization constants it gets is left  *)
(* open: they are those of the program's first bind.                       *)
Bind ==
  /\ phase = "called"
  /\ request \in BindRequests
  /\ \E s \in Specs :
       bound' = [bound EXCEPT ![request.prog] =
                   LaunchOf(request, s, size[request.prog])]
  /\ phase' = IF request.op = "run" THEN "bound" ELSE "done"
  /\ UNCHANGED <<contents, size, request, reply>>

(* The one effect of a run: the launch this very program was bound to,     *)
(* applied once.                                                           *)
Launch ==
  /\ \/ phase = "bound"
     \/ phase = "called" /\ request.op = "replay"
  /\ bound[request.prog] \in Launches
  /\ contents' = Kernel[bound[request.prog]][contents]
  /\ phase' = "done"
  /\ UNCHANGED <<bound, size, request, reply>>

Upload ==
  /\ phase = "called"
  /\ request.op = "fromHost"
  /\ contents' = [contents EXCEPT ![request.arr] = request.val]
  /\ phase' = "done"
  /\ UNCHANGED <<bound, size, request, reply>>

Download ==
  /\ phase = "called"
  /\ request.op = "toHost"
  /\ reply' = contents[request.arr]
  /\ phase' = "done"
  /\ UNCHANGED <<contents, bound, size, request>>

Return ==
  /\ phase = "done"
  /\ phase' = "idle"
  /\ request' = Null
  /\ UNCHANGED <<contents, bound, size, reply>>

(* An exception leaves before the effect on the arrays.                    *)
Throw ==
  /\ phase \in {"called", "bound"}
  /\ phase' = "idle"
  /\ request' = Null
  /\ UNCHANGED <<contents, bound, size, reply>>

Next ==
  \/ \E p \in Programs, b \in Batches : Resize(p, b)
  \/ \E r \in Requests : Invoke(r)
  \/ Bind
  \/ Launch
  \/ Upload
  \/ Download
  \/ Return
  \/ Throw

Spec == Init /\ [][Next]_vars
=============================================================================
