\* A session is deleted while a flow that loaded it is still running.
SPECIFICATION Spec
CONSTANTS
  c1 = c1
  c2 = c2
  s1 = s1
  s2 = s2
  Clients = {c1}
  Sessions = {s1}
  NoSession = NoSession
  Batches <- FewBatches
  ModeOf <- AllMode
  NMessages = 0
  MaxRuns = 2
INVARIANT MessagesMonotonic
CHECK_DEADLOCK FALSE
