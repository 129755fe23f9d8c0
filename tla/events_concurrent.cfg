\* Three goroutines subscribe, unsubscribe and emit.
SPECIFICATION Spec
CONSTANTS
  Procs = {p1, p2, p3}
  NoProc = NoProc
  MaxHandlers = 2
INVARIANTS
  TypeOK
  NoCallAfterUnsubscribe
  EmitCallsAll
PROPERTIES
  CallsReturn
