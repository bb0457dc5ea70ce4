\* One queue family: copies and dispatches share the command buffer.
SPECIFICATION Spec
CONSTANTS
  A = A
  B = B
  MaxValue = 1
  Programs = {0, 1}
  Arrays <- MCArrays
  Value <- MCValue
  Specs = {0, 1}
  Batches = {0}
  Params = {0}
  ArgLists <- OneArgList
  Null = Null
  Kernel <- MCKernel
  CmdBufs = {c1, c2}
  HostVisible = {A}
  SharedFamily = TRUE
  Faults = {"init", "stage", "map", "begin", "end", "submit"}
  CheckedReplay = TRUE
  Backlog = 0
  Freed = Freed
INVARIANTS
  TypeOK
  CmdBuffersOwned
  RunSubmitsOwnBinding
  GpuIdleOutsideWait
PROPERTIES
  PendingUntouched
  ImplementsSync
