SPECIFICATION FairSpec
CONSTANTS
  p1 = p1
  p2 = p2
  q = q
  worker = worker
  remover = remover
  None = None
  Threads = {p1, p2, q, worker, remover}
  Worker = worker
  MmOf <- TwoProcesses
  CallsOf <- SmallCalls
  Faulting = {p2, q}
INVARIANTS NoWaitCycle
PROPERTIES CallsEnd
