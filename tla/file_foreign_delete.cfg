\* Another tenant deletes a session with the same ID.
SPECIFICATION Spec
CONSTANTS
  Procs = {p1, p2, p3}
  Tenants = {t1, t2}
  Sessions = {s1}
  Locks = {l1, l2, l3, l4}
  NoLock = NoLock
  NoKey = NoKey
  Absent = Absent
  Partial = Partial
  Faults = FALSE
  WaitsFor <- SameKey
  MaxSaves = 2
INVARIANTS
  AcknowledgedKept
