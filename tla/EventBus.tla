------------------------------ MODULE EventBus ------------------------------
(***************************************************************************)
(* The event bus: Subscribe, the unsubscribe functions it returns, and     *)
(* Emit, called by concurrent goroutines, for the handlers of one event    *)
(* type.  Emit holds the read side of the bus's RWMutex while it calls the *)
(* handlers, Subscribe and unsubscribe take the write side.  As in Go's    *)
(* sync, a writer that waits keeps new readers out.  Handlers do not call  *)
(* the bus themselves.                                                     *)
(***************************************************************************)
EXTENDS Naturals, Sequences, FiniteSets

CONSTANTS
  Procs,       \* the goroutines that use the bus
  NoProc,      \* no writer
  MaxHandlers  \* bound on the subscriptions ever made

ASSUME BusAssumption ==
  /\ IsFiniteSet(Procs)
  /\ NoProc \notin Procs
  /\ MaxHandlers \in Nat

Handlers == 1..MaxHandlers

VARIABLES
  subscribers,   \* bus.subscribers: how many there are; the k-th is handler k
  removed,       \* the handlers whose removed is set
  writer,        \* the goroutine that holds or awaits the write lock
  readers,       \* the goroutines that hold the read lock
  pc,            \* where the goroutine is in its call
  target,        \* the handler unsubscribed, or called last; 0 for none
  called,        \* history: the handlers that the goroutine's Emit has called
  live,          \* history: the handlers that were subscribed when its Emit
                 \* took the lock
  unsubscribed   \* history: the handlers whose unsubscribe has returned

bus   == <<subscribers, removed>>
mutex == <<writer, readers>>
emit  == <<called, live>>
vars == <<subscribers, removed, writer, readers, pc, target, called, live,
          unsubscribed>>
-----------------------------------------------------------------------------

Init ==
  /\ subscribers = 0
  /\ removed = {}
  /\ writer = NoProc
  /\ readers = {}
  /\ pc = [p \in Procs |-> "idle"]
  /\ target = [p \in Procs |-> 0]
  /\ called = [p \in Procs |-> <<>>]
  /\ live = [p \in Procs |-> {}]
  /\ unsubscribed = {}

Goto(p, next) == pc' = [pc EXCEPT ![p] = next]

Live == (1..subscribers) \ removed
-----------------------------------------------------------------------------
(* Subscribe and unsubscribe *)

CallSubscribe(p) ==
  /\ pc[p] = "idle"
  /\ subscribers + Cardinality({q \in Procs : pc[q] = "subscribe"})
       < MaxHandlers
  /\ Goto(p, "subscribe")
  /\ UNCHANGED <<bus, mutex, target, emit, unsubscribed>>

CallUnsubscribe(p, h) ==
  /\ pc[p] = "idle"
  /\ h <= subscribers
  /\ target' = [target EXCEPT ![p] = h]
  /\ Goto(p, "unsubscribe")
  /\ UNCHANGED <<bus, mutex, emit, unsubscribed>>

(* mu.Lock(), first half: from here on no reader comes in. *)
Announce(p) ==
  /\ pc[p] \in {"subscribe", "unsubscribe"}
  /\ writer = NoProc
  /\ writer' = p
  /\ UNCHANGED <<bus, readers, pc, target, emit, unsubscribed>>

(* The readers are gone; the deferred unlock runs when the call returns. *)
Subscribe(p) ==
  /\ pc[p] = "subscribe"
  /\ writer = p /\ readers = {}
  /\ subscribers' = subscribers + 1
  /\ writer' = NoProc
  /\ Goto(p, "idle")
  /\ UNCHANGED <<removed, readers, target, emit, unsubscribed>>

(* Mutant: the second call of an unsubscribe function keeps the lock. *)
Unsubscribe_KeepsLock(p) ==
  /\ pc[p] = "unsubscribe"
  /\ writer = p /\ readers = {}
  /\ removed' = removed \cup {target[p]}
  /\ writer' = IF target[p] \in removed THEN p ELSE NoProc
  /\ unsubscribed' = unsubscribed \cup {target[p]}
  /\ target' = [target EXCEPT ![p] = 0]
  /\ Goto(p, "idle")
  /\ UNCHANGED <<subscribers, readers, emit>>

(* Mutant: only the unsubscribe function remembers that it was called. *)
Unsubscribe_NotMarked(p) ==
  /\ pc[p] = "unsubscribe"
  /\ writer = p /\ readers = {}
  /\ writer' = NoProc
  /\ unsubscribed' = unsubscribed \cup {target[p]}
  /\ target' = [target EXCEPT ![p] = 0]
  /\ Goto(p, "idle")
  /\ UNCHANGED <<bus, readers, emit>>

Unsubscribe(p) ==
  /\ pc[p] = "unsubscribe"
  /\ writer = p /\ readers = {}
  /\ removed' = removed \cup {target[p]}
  /\ writer' = NoProc
  /\ unsubscribed' = unsubscribed \cup {target[p]}
  /\ target' = [target EXCEPT ![p] = 0]
  /\ Goto(p, "idle")
  /\ UNCHANGED <<subscribers, readers, emit>>
-----------------------------------------------------------------------------
(* Emit *)

CallEmit(p) ==
  /\ pc[p] = "idle"
  /\ Goto(p, "emit")
  /\ UNCHANGED <<bus, mutex, target, emit, unsubscribed>>

(* Mutant: the lock is given back before the handlers are called. *)
RLock_Released(p) ==
  /\ pc[p] = "emit"
  /\ writer = NoProc
  /\ live' = [live EXCEPT ![p] = Live]
  /\ Goto(p, "next")
  /\ UNCHANGED <<bus, mutex, target, called, unsubscribed>>

RLock(p) ==
  /\ pc[p] = "emit"
  /\ writer = NoProc
  /\ readers' = readers \cup {p}
  /\ live' = [live EXCEPT ![p] = Live]
  /\ Goto(p, "next")
  /\ UNCHANGED <<bus, writer, target, called, unsubscribed>>

(* Mutant: the loop ends at a handler that is removed. *)
Coming_StopsAtRemoved(p) ==
  {h \in (target[p] + 1)..subscribers :
     \A g \in (target[p] + 1)..h : g \notin removed}

(* The handlers the loop still has to call. *)
Coming(p) == ((target[p] + 1)..subscribers) \ removed

(* The next handler that is not removed is called. *)
CallHandler(p) ==
  /\ pc[p] = "next"
  /\ \E h \in Coming(p) :
       /\ \A g \in Coming(p) : h <= g
       /\ target' = [target EXCEPT ![p] = h]
       /\ called' = [called EXCEPT ![p] = Append(@, h)]
  /\ Goto(p, "handling")
  /\ UNCHANGED <<bus, mutex, live, unsubscribed>>

HandlerReturns(p) ==
  /\ pc[p] = "handling"
  /\ Goto(p, "next")
  /\ UNCHANGED <<bus, mutex, target, emit, unsubscribed>>

(* The loop is at its end; nil is returned. *)
Emitted(p) ==
  /\ pc[p] = "next"
  /\ Coming(p) = {}
  /\ Goto(p, "emitted")
  /\ UNCHANGED <<bus, mutex, target, emit, unsubscribed>>

(* The context is cancelled, or a handler has another type, or fails. *)
EmitFails(p) ==
  /\ \/ pc[p] = "next" /\ Coming(p) # {}
     \/ pc[p] = "handling"
  /\ Goto(p, "failed")
  /\ UNCHANGED <<bus, mutex, target, emit, unsubscribed>>

(* The deferred mu.RUnlock(). *)
RUnlock(p) ==
  /\ pc[p] \in {"emitted", "failed"}
  /\ readers' = readers \ {p}
  /\ target' = [target EXCEPT ![p] = 0]
  /\ called' = [called EXCEPT ![p] = <<>>]
  /\ live' = [live EXCEPT ![p] = {}]
  /\ Goto(p, "idle")
  /\ UNCHANGED <<bus, writer, unsubscribed>>
-----------------------------------------------------------------------------

Step(p) ==
  \/ Subscribe(p) \/ Unsubscribe(p)
  \/ CallHandler(p) \/ HandlerReturns(p) \/ Emitted(p) \/ EmitFails(p)
  \/ RUnlock(p)

Next ==
  \E p \in Procs :
    \/ CallSubscribe(p) \/ CallEmit(p)
    \/ \E h \in Handlers : CallUnsubscribe(p, h)
    \/ Announce(p) \/ RLock(p) \/ Step(p)

(* Goroutines are scheduled, handlers return, and the mutex is granted to  *)
(* whoever waits for it: readers that waited for a writer come before the  *)
(* next writer, and writers queue.                                         *)
Fairness ==
  \A p \in Procs : WF_vars(Step(p)) /\ SF_vars(Announce(p)) /\ SF_vars(RLock(p))

Spec == Init /\ [][Next]_vars /\ Fairness
-----------------------------------------------------------------------------
(* Properties *)

TypeOK ==
  /\ subscribers \in 0..MaxHandlers
  /\ removed \subseteq 1..subscribers
  /\ writer \in Procs \cup {NoProc}
  /\ readers \subseteq Procs
  /\ pc \in [Procs ->
              {"idle", "subscribe", "unsubscribe", "emit", "next", "handling",
               "emitted", "failed"}]
  /\ target \in [Procs -> 0..subscribers]
  /\ called \in [Procs -> Seq(Handlers)]
  /\ live \in [Procs -> SUBSET Handlers]
  /\ unsubscribed \subseteq removed

(* Once its unsubscribe has returned, a handler is not running, and no     *)
(* Emit, also one that was under way, will call it: its owner may free     *)
(* what it uses.                                                           *)
NoCallAfterUnsubscribe ==
  \A p \in Procs : pc[p] = "handling" => target[p] \notin unsubscribed

(* "Event handlers run synchronously in registration order": an Emit that  *)
(* returns nil has called every handler that was subscribed, each once, in *)
(* the order of subscription, and no other.                                *)
EmitCallsAll ==
  \A p \in Procs : pc[p] = "emitted" =>
    /\ \A h \in live[p] : \E i \in 1..Len(called[p]) : called[p][i] = h
    /\ \A i \in 1..Len(called[p]) : called[p][i] \in live[p]
    /\ \A i, j \in 1..Len(called[p]) : i < j => called[p][i] < called[p][j]

(* Every call returns: emitters do not keep writers out for ever, nor      *)
(* writers emitters, if the handlers return and do not call the bus.       *)
CallsReturn ==
  \A p \in Procs : pc[p] # "idle" ~> pc[p] = "idle"
=============================================================================
