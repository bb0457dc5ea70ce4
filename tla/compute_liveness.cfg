\* Calls return, also when waits fail and the GPU lags behind.
SPECIFICATION Spec
CONSTANTS
  A = A
  B = B
  MaxValue = 1
  Programs = {1}
  Arrays <- MCArrays
  Value <- MCValue
  Specs = {0}
  Batches = {0}
  Params = {0}
  ArgLists <- OneArgList
  Null = Null
  Kernel <- MCKernel
  CmdBufs = {c1, c2}
  HostVisible = {A}
  SharedFamily = FALSE
  Faults = {"init", "stage", "map", "begin", "end", "submit", "wait"}
  CheckedReplay = FALSE
  Backlog = 1
  Freed = Freed
PROPERTIES
  CallReturns
