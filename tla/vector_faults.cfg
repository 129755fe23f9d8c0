\* Saves, failures, crashes and deletions that wait for the callers; every
\* session is saved again and again.
SPECIFICATION BusySpec
CONSTANTS
  Clients = {c1, c2}
  Sessions = {s1}
  NoSession = NoSession
  HasText <- SomeText
  QueueSize = 1
  SharedRoot = FALSE
  DeletesWait = TRUE
  MaxMessages = 3
  MaxFaults = 2
INVARIANTS
  TypeOK
  IndexedAreSearchable
  PendingHasOwner
  HandedOnce
  DeletedButForJobs
PROPERTIES
  EventuallyIndexed
