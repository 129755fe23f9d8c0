--------------------------- MODULE EventBus_proofs ---------------------------
(***************************************************************************)
(* Proofs about EventBus, for any number of goroutines and subscriptions:  *)
(* type correctness, that no handler runs after its unsubscribe has        *)
(* returned, and that an Emit that returns nil has called every subscribed *)
(* handler once, in the order of registration.                             *)
(***************************************************************************)
EXTENDS EventBus, FiniteSetTheorems, SequenceTheorems, TLAPS

-----------------------------------------------------------------------------
(* Type correctness                                                        *)

Subscribing == {q \in Procs : pc[q] = "subscribe"}

RoomInv ==
  subscribers + Cardinality(Subscribing) <= MaxHandlers

TypeInv ==
  /\ TypeOK
  /\ RoomInv
  /\ \A p \in Procs : pc[p] = "unsubscribe" => target[p] \in 1..subscribers

LEMMA SubscribingFinite ==
  IsFiniteSet(Subscribing) /\ Cardinality(Subscribing) \in Nat
<1>1. IsFiniteSet(Subscribing)
  BY BusAssumption, FS_Subset DEF Subscribing
<1> QED
  BY <1>1, FS_CardinalityType

LEMMA InitType == Init => TypeInv
<1> SUFFICES ASSUME Init PROVE TypeInv
  OBVIOUS
<1>1. TypeOK
  BY BusAssumption, EmptySeq DEF Init, TypeOK, Handlers
<1>2. Subscribing = {}
  BY DEF Init, Subscribing
<1>3. RoomInv
  BY <1>2, BusAssumption, FS_EmptySet DEF Init, RoomInv
<1> QED
  BY <1>1, <1>3 DEF Init, TypeInv

(* The steps that start or end a Subscribe. *)
LEMMA SubscribeType ==
  ASSUME TypeInv, NEW p \in Procs, CallSubscribe(p) \/ Subscribe(p)
  PROVE  TypeInv'
<1> USE BusAssumption, SubscribingFinite
<1>1. CASE CallSubscribe(p)
  <2>1. /\ pc[p] = "idle" /\ pc' = [pc EXCEPT ![p] = "subscribe"]
        /\ subscribers + Cardinality(Subscribing) < MaxHandlers
        /\ UNCHANGED <<subscribers, removed, writer, readers, target, called,
                       live, unsubscribed>>
    BY <1>1 DEF CallSubscribe, Subscribing, Goto, bus, mutex, emit
  <2>2. Subscribing' = Subscribing \cup {p} /\ p \notin Subscribing
    BY <2>1 DEF Subscribing, TypeInv, TypeOK
  <2>3. Cardinality(Subscribing') = Cardinality(Subscribing) + 1
    BY <2>2, FS_AddElement
  <2>4. RoomInv'
    BY <2>1, <2>3 DEF RoomInv, TypeInv, TypeOK
  <2> QED
    BY <2>1, <2>4 DEF TypeInv, TypeOK
<1>2. CASE Subscribe(p)
  <2>1. /\ pc[p] = "subscribe" /\ pc' = [pc EXCEPT ![p] = "idle"]
        /\ subscribers' = subscribers + 1 /\ writer' = NoProc
        /\ UNCHANGED <<removed, readers, target, called, live, unsubscribed>>
    BY <1>2 DEF Subscribe, Goto, emit
  <2>2. Subscribing' = Subscribing \ {p} /\ p \in Subscribing
    BY <2>1 DEF Subscribing, TypeInv, TypeOK
  <2>3. /\ Cardinality(Subscribing') = Cardinality(Subscribing) - 1
        /\ Cardinality(Subscribing') \in Nat
    <3>1. /\ Cardinality(Subscribing') = Cardinality(Subscribing) - 1
          /\ IsFiniteSet(Subscribing')
      BY <2>2, FS_RemoveElement
    <3> QED
      BY <3>1, FS_CardinalityType
  <2>4. RoomInv' /\ subscribers' \in 0..MaxHandlers
    BY <2>1, <2>3 DEF RoomInv, TypeInv, TypeOK
  <2>5. /\ \A i \in 0..subscribers : i \in 0..subscribers'
        /\ \A i \in 1..subscribers : i \in 1..subscribers'
    BY <2>1 DEF TypeInv, TypeOK
  <2>6. /\ target' \in [Procs -> 0..subscribers']
        /\ removed' \subseteq 1..subscribers'
    BY <2>1, <2>5 DEF TypeInv, TypeOK
  <2>7. \A q \in Procs : pc'[q] = "unsubscribe" =>
          target'[q] \in 1..subscribers'
    BY <2>1, <2>5 DEF TypeInv, TypeOK
  <2> QED
    BY <2>1, <2>4, <2>6, <2>7 DEF TypeInv, TypeOK
<1> QED
  BY <1>1, <1>2

LEMMA OtherType ==
  ASSUME TypeInv, NEW p \in Procs,
         \/ \E h \in Handlers : CallUnsubscribe(p, h)
         \/ Announce(p) \/ CallEmit(p) \/ RLock(p) \/ Unsubscribe(p)
         \/ CallHandler(p) \/ HandlerReturns(p) \/ Emitted(p) \/ EmitFails(p)
         \/ RUnlock(p)
  PROVE  TypeInv'
<1>1. /\ subscribers' = subscribers
      /\ \A q \in Procs : pc'[q] = "subscribe" <=> pc[q] = "subscribe"
  BY DEF CallUnsubscribe, Announce, CallEmit, RLock, Unsubscribe, CallHandler,
         HandlerReturns, Emitted, EmitFails, RUnlock, Goto, bus, mutex, emit,
         TypeInv, TypeOK
<1>2. RoomInv'
  BY <1>1 DEF RoomInv, Subscribing, TypeInv
<1> USE BusAssumption, <1>2
    DEF TypeInv, TypeOK, Handlers, Goto, bus, mutex, emit
<1>3. ASSUME NEW h \in Handlers, CallUnsubscribe(p, h)
      PROVE  TypeInv'
  <2>1. h \in 1..subscribers /\ h \in 0..subscribers
    BY <1>3 DEF CallUnsubscribe
  <2> QED
    BY <1>3, <2>1 DEF CallUnsubscribe
<1>4. CASE Announce(p) \/ CallEmit(p) \/ HandlerReturns(p) \/ Emitted(p)
             \/ EmitFails(p)
  BY <1>4 DEF Announce, CallEmit, HandlerReturns, Emitted, EmitFails
<1>5. CASE RLock(p)
  BY <1>5 DEF RLock, Live
<1>6. CASE Unsubscribe(p)
  <2>1. target[p] \in 1..subscribers /\ 0 \in 0..subscribers
    BY <1>6 DEF Unsubscribe
  <2>2. /\ removed' \subseteq 1..subscribers
        /\ unsubscribed' \subseteq removed'
        /\ target' \in [Procs -> 0..subscribers]
    BY <1>6, <2>1 DEF Unsubscribe
  <2>3. \A q \in Procs :
          pc'[q] = "unsubscribe" => q # p /\ pc[q] = "unsubscribe"
    BY <1>6 DEF Unsubscribe
  <2>4. pc' \in [Procs -> {"idle", "subscribe", "unsubscribe", "emit", "next",
                          "handling", "emitted", "failed"}]
    BY <1>6 DEF Unsubscribe
  <2> QED
    BY <1>1, <1>6, <2>1, <2>2, <2>3, <2>4 DEF Unsubscribe
<1>7. CASE CallHandler(p)
  <2>1. PICK h \in Coming(p) :
          /\ target' = [target EXCEPT ![p] = h]
          /\ called' = [called EXCEPT ![p] = Append(@, h)]
    BY <1>7 DEF CallHandler
  <2>2. h \in 1..subscribers /\ h \in Handlers
    BY DEF Coming
  <2>3. Append(called[p], h) \in Seq(Handlers)
    BY <2>2, AppendProperties
  <2> QED
    BY <1>7, <2>1, <2>2, <2>3 DEF CallHandler
<1>8. CASE RUnlock(p)
  BY <1>8, EmptySeq DEF RUnlock
<1> QED
  BY <1>3, <1>4, <1>5, <1>6, <1>7, <1>8

LEMMA StepType == TypeInv /\ [Next]_vars => TypeInv'
<1> SUFFICES ASSUME TypeInv, [Next]_vars PROVE TypeInv'
  OBVIOUS
<1>1. CASE UNCHANGED vars
  BY <1>1 DEF vars, TypeInv, TypeOK, RoomInv, Subscribing
<1> QED
  BY <1>1, SubscribeType, OtherType DEF Next, Step

LEMMA TypeInvariant == Spec => []TypeInv
BY InitType, StepType, PTL DEF Spec

(* Every variable keeps its type; a handler that is unsubscribed, or that  *)
(* an Emit has come to, is one that was subscribed.                        *)
THEOREM TypeCorrect == Spec => []TypeOK
<1>1. TypeInv => TypeOK
  BY DEF TypeInv
<1> QED
  BY <1>1, TypeInvariant, PTL

-----------------------------------------------------------------------------
(* The list under an Emit                                                  *)
(*                                                                         *)
(* Whoever goes through the list holds the read lock, and the list changes *)
(* only when nobody does: it is the one the Emit found.  Up to the target, *)
(* the Emit has called what is in it, in order.                            *)

Looping == {"next", "handling", "emitted"}

LoopsAreReaders ==
  \A p \in Procs : pc[p] \in Looping \cup {"failed"} => p \in readers

(* s has the handlers in found up to and including t, in order. *)
CalledUpTo(s, found, t) ==
  /\ \A h \in found : h <= t => \E i \in 1..Len(s) : s[i] = h
  /\ \A i \in 1..Len(s) : s[i] \in found /\ s[i] <= t
  /\ \A i, j \in 1..Len(s) : i < j => s[i] < s[j]

LoopInv ==
  \A p \in Procs :
    /\ pc[p] \in Looping => /\ live[p] = Live
                            /\ CalledUpTo(called[p], live[p], target[p])
    /\ pc[p] = "handling" => target[p] \in live[p]
    /\ pc[p] = "emitted" => Coming(p) = {}
    /\ pc[p] \notin Looping \cup {"failed", "unsubscribe"} => target[p] = 0
    /\ pc[p] \notin Looping \cup {"failed"} => called[p] = <<>>

BusInv == LoopsAreReaders /\ LoopInv

LEMMA InitBus == Init => BusInv
BY DEF Init, BusInv, LoopsAreReaders, LoopInv, Looping

(* A step that leaves the bus and the other goroutines' loops alone. *)
LEMMA QuietBus ==
  ASSUME TypeInv, BusInv, NEW p \in Procs,
         \/ CallSubscribe(p) \/ CallEmit(p)
         \/ \E h \in Handlers : CallUnsubscribe(p, h)
         \/ Announce(p) \/ HandlerReturns(p) \/ Emitted(p) \/ EmitFails(p)
         \/ RUnlock(p)
  PROVE  BusInv'
<1> USE DEF BusInv, LoopsAreReaders, LoopInv, Looping, Live, Coming, Goto,
            bus, mutex, emit, TypeInv, TypeOK
<1>1. CASE CallSubscribe(p) \/ CallEmit(p) \/ Announce(p)
  BY <1>1 DEF CallSubscribe, CallEmit, Announce
<1>2. ASSUME NEW h \in Handlers, CallUnsubscribe(p, h)
      PROVE  BusInv'
  BY <1>2, SMTT(30) DEF CallUnsubscribe, Handlers
<1>3. CASE HandlerReturns(p) \/ Emitted(p) \/ EmitFails(p)
  BY <1>3, SMTT(30) DEF HandlerReturns, Emitted, EmitFails
<1>4. CASE RUnlock(p)
  BY <1>4 DEF RUnlock
<1> QED
  BY <1>1, <1>2, <1>3, <1>4

(* The bus changes while no goroutine is in a loop. *)
LEMMA WriteBus ==
  ASSUME TypeInv, BusInv, NEW p \in Procs, Subscribe(p) \/ Unsubscribe(p)
  PROVE  BusInv'
<1>1. \A q \in Procs : pc[q] \notin Looping \cup {"failed"}
  BY DEF Subscribe, Unsubscribe, BusInv, LoopsAreReaders
<1>2. /\ pc' = [pc EXCEPT ![p] = "idle"]
      /\ called' = called
      /\ target'[p] = 0
      /\ \A q \in Procs \ {p} : target'[q] = target[q]
  BY <1>1
  DEF Subscribe, Unsubscribe, Goto, emit, BusInv, LoopInv, TypeInv, TypeOK
<1> QED
  BY <1>1, <1>2
  DEF BusInv, LoopsAreReaders, LoopInv, Looping, TypeInv, TypeOK

LEMMA RLockBus ==
  ASSUME TypeInv, BusInv, NEW p \in Procs, RLock(p)
  PROVE  BusInv'
<1>1. CalledUpTo(<<>>, Live, 0)
  BY EmptySeq DEF CalledUpTo, Live, TypeInv, TypeOK
<1>2. /\ called[p] = <<>> /\ target[p] = 0
      /\ pc' = [pc EXCEPT ![p] = "next"]
      /\ live' = [live EXCEPT ![p] = Live]
      /\ readers' = readers \cup {p}
      /\ UNCHANGED <<subscribers, removed, target, called>>
  BY DEF RLock, Goto, bus, BusInv, LoopInv, Looping
<1> QED
  BY <1>1, <1>2
  DEF BusInv, LoopsAreReaders, LoopInv, Looping, Live, Coming, TypeInv, TypeOK

LEMMA CallBus ==
  ASSUME TypeInv, BusInv, NEW p \in Procs, CallHandler(p)
  PROVE  BusInv'
<1>1. PICK h \in Coming(p) :
        /\ \A g \in Coming(p) : h <= g
        /\ target' = [target EXCEPT ![p] = h]
        /\ called' = [called EXCEPT ![p] = Append(@, h)]
  BY DEF CallHandler
<1>2. /\ pc[p] = "next" /\ pc' = [pc EXCEPT ![p] = "handling"]
      /\ UNCHANGED <<subscribers, removed, readers, live>>
  BY DEF CallHandler, Goto, bus, mutex
<1>3. /\ live[p] = Live /\ CalledUpTo(called[p], live[p], target[p])
      /\ called[p] \in Seq(Handlers) /\ target[p] \in Nat
      /\ h \in Nat /\ h \in Handlers /\ h \in Live /\ target[p] < h
      /\ \A g \in Live : g \in Nat /\ (g <= target[p] \/ h <= g)
  BY <1>1, <1>2, SMTT(30)
  DEF BusInv, LoopInv, Looping, Coming, Live, Handlers, TypeInv, TypeOK
<1> DEFINE s == called[p]
           t == Append(called[p], h)
<1>4. /\ Len(s) \in Nat /\ Len(t) = Len(s) + 1 /\ t[Len(s) + 1] = h
      /\ \A i \in 1..Len(s) : t[i] = s[i] /\ s[i] \in Nat
  <2>1. \A i \in 1..Len(s) : s[i] \in Handlers
    BY <1>3, ElementOfSeq
  <2>2. \A i \in 1..Len(s) : s[i] \in Nat
    BY <2>1 DEF Handlers
  <2> QED
    BY <1>3, <2>2, AppendProperties, LenProperties
<1> HIDE DEF t
<1>5. CalledUpTo(t, Live, h)
  <2>1. \A g \in Live : g <= h => \E i \in 1..Len(t) : t[i] = g
    <3> SUFFICES ASSUME NEW g \in Live, g <= h
                 PROVE  \E i \in 1..Len(t) : t[i] = g
      OBVIOUS
    <3>1. CASE g <= target[p]
      BY <1>3, <1>4, <3>1 DEF CalledUpTo
    <3>2. CASE g = h
      BY <1>4, <3>2
    <3> QED
      BY <1>3, <3>1, <3>2
  <2>2. \A i \in 1..Len(t) : t[i] \in Live /\ t[i] <= h
    <3> SUFFICES ASSUME NEW i \in 1..Len(t)
                 PROVE  t[i] \in Live /\ t[i] <= h
      OBVIOUS
    <3>1. CASE i \in 1..Len(s)
      BY <1>3, <1>4, <3>1 DEF CalledUpTo
    <3>2. CASE i = Len(s) + 1
      BY <1>3, <1>4, <3>2
    <3> QED
      BY <1>4, <3>1, <3>2
  <2>3. \A i, j \in 1..Len(t) : i < j => t[i] < t[j]
    <3> SUFFICES ASSUME NEW i \in 1..Len(t), NEW j \in 1..Len(t), i < j
                 PROVE  t[i] < t[j]
      OBVIOUS
    <3>1. i \in 1..Len(s) /\ s[i] \in Nat /\ s[i] < h
      BY <1>3, <1>4 DEF CalledUpTo
    <3>2. CASE j \in 1..Len(s)
      BY <1>3, <1>4, <3>1, <3>2 DEF CalledUpTo
    <3>3. CASE j = Len(s) + 1
      BY <1>4, <3>1, <3>3
    <3> QED
      BY <1>4, <3>2, <3>3
  <2> QED
    BY <2>1, <2>2, <2>3 DEF CalledUpTo
<1>6. /\ pc'[p] = "handling" /\ target'[p] = h /\ called'[p] = t
      /\ live'[p] = Live /\ Live' = Live
  BY <1>1, <1>2, <1>3 DEF Live, TypeInv, TypeOK, t
<1>7. \A q \in Procs \ {p} :
        /\ pc'[q] = pc[q] /\ target'[q] = target[q]
        /\ called'[q] = called[q] /\ live'[q] = live[q]
        /\ Coming(q)' = Coming(q)
  BY <1>1, <1>2 DEF Coming, TypeInv, TypeOK
<1>8. LoopInv'
  BY <1>3, <1>5, <1>6, <1>7 DEF BusInv, LoopInv, Looping
<1>9. LoopsAreReaders'
  BY <1>2, <1>7 DEF BusInv, LoopsAreReaders, Looping
<1> QED
  BY <1>8, <1>9 DEF BusInv

LEMMA StepBus == TypeInv /\ BusInv /\ [Next]_vars => BusInv'
<1> SUFFICES ASSUME TypeInv, BusInv, [Next]_vars PROVE BusInv'
  OBVIOUS
<1>1. CASE UNCHANGED vars
  BY <1>1 DEF vars, BusInv, LoopsAreReaders, LoopInv, Live, Coming
<1> QED
  BY <1>1, QuietBus, WriteBus, RLockBus, CallBus DEF Next, Step

LEMMA BusInvariant == Spec => []BusInv
BY InitBus, StepBus, TypeInvariant, PTL DEF Spec

(* The owner of a handler may free what it uses as soon as unsubscribe     *)
(* returns: Emit reads the removed mark under the read lock and keeps the  *)
(* lock while the handler runs.                                            *)
THEOREM Unsubscribed == Spec => []NoCallAfterUnsubscribe
<1>1. TypeInv /\ BusInv => NoCallAfterUnsubscribe
  BY DEF TypeInv, TypeOK, BusInv, LoopInv, Looping, Live,
         NoCallAfterUnsubscribe
<1> QED
  BY <1>1, TypeInvariant, BusInvariant, PTL

(* An Emit that returns nil has called the handlers that were subscribed   *)
(* when it began, each once, in the order of registration, and no other:   *)
(* none comes or goes while it is under way.                               *)
THEOREM CallsAll == Spec => []EmitCallsAll
<1>1. TypeInv /\ BusInv => EmitCallsAll
  <2> SUFFICES ASSUME TypeInv, BusInv, NEW p \in Procs, pc[p] = "emitted"
               PROVE
                 /\ \A h \in live[p] :
                      \E i \in 1..Len(called[p]) : called[p][i] = h
                 /\ \A i \in 1..Len(called[p]) : called[p][i] \in live[p]
                 /\ \A i, j \in 1..Len(called[p]) :
                      i < j => called[p][i] < called[p][j]
    BY DEF EmitCallsAll
  <2>1. /\ live[p] = Live /\ Coming(p) = {}
        /\ CalledUpTo(called[p], live[p], target[p])
    BY DEF BusInv, LoopInv, Looping
  <2>2. \A h \in live[p] : h <= target[p]
    BY <2>1 DEF Live, Coming, TypeInv, TypeOK
  <2> QED
    BY <2>1, <2>2 DEF CalledUpTo
<1> QED
  BY <1>1, TypeInvariant, BusInvariant, PTL
=============================================================================
