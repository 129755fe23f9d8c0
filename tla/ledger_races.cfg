\* Two flows race on one session; deletions wait for them.
SPECIFICATION QuietSpec
CONSTANTS
  c1 = c1
  c2 = c2
  s1 = s1
  s2 = s2
  Clients = {c1, c2}
  Sessions = {s1}
  NoSession = NoSession
  Batches <- SomeBatches
  ModeOf <- Budget
  NMessages = 9
  MaxRuns = 3
SYMMETRY Symmetry
INVARIANTS
  TypeOK
  MessagesNumbered
  TurnsNumbered
  TurnsReplayHistory
  SnapshotsMarkTurns
  ConflictMeansStale
PROPERTIES
  ImplementsLog
\* MaxRuns bounds the runs: once they are used up the system may stop.
CHECK_DEADLOCK FALSE
