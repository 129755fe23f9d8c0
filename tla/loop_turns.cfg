\* Runs of every kind on one session, two tools at a time.
SPECIFICATION Spec
CONSTANTS
  MaxTurns = 2
  MaxTools = 2
  MaxStored = 3
INVARIANTS
  TypeOK
  WindowsAreTurns
  SummariesAreOwn
