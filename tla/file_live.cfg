\* Every caller is served, whoever deletes what.
SPECIFICATION LiveSpec
CONSTANTS
  Procs = {p1, p2}
  Tenants = {t1, t2}
  Sessions = {s1}
  Locks = {l1, l2, l3}
  NoLock = NoLock
  NoKey = NoKey
  Absent = Absent
  Partial = Partial
  Faults = FALSE
  WaitsFor <- Nobody
  MaxSaves = 2
INVARIANTS
  ListedHaveState
PROPERTIES
  CallsReturn
