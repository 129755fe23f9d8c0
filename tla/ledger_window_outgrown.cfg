\* One flow after another on a session loaded through a sliding window.
SPECIFICATION QuietSpec
CONSTANTS
  c1 = c1
  c2 = c2
  s1 = s1
  s2 = s2
  Clients = {c1}
  Sessions = {s1}
  NoSession = NoSession
  Batches <- FewBatches
  ModeOf <- Window
  NMessages = 2
  MaxRuns = 3
INVARIANT LoneFlowSaves
CHECK_DEADLOCK FALSE
