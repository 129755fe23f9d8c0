\* Writes fail, the process crashes; deletions wait until nobody uses the ID.
SPECIFICATION Spec
CONSTANTS
  Procs = {p1, p2, p3}
  Tenants = {t1, t2}
  Sessions = {s1}
  Locks = {l1, l2}
  NoLock = NoLock
  NoKey = NoKey
  Absent = Absent
  Partial = Partial
  Faults = TRUE
  WaitsFor <- SameID
  MaxSaves = 3
SYMMETRY Symmetry
INVARIANTS
  TypeOK
  OneWriter
  AcknowledgedKept
PROPERTIES
  ImplementsStore
\* MaxSaves bounds the saves; reads and deletions go on.
