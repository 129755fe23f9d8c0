--------------------------- MODULE Heartbeat_proofs ---------------------------
(***************************************************************************)
(* Proofs about Heartbeat: for any number of tickers and wake-ups, one run *)
(* at a time is in flight and the flag is set exactly while there is one;  *)
(* and whatever the active hours, few flows are started after them.        *)
(***************************************************************************)
EXTENDS Heartbeat, TLAPS

(* A run has not reported before it comes to the end of Run. *)
NotYetReported ==
  \A r \in Runners :
    pc[r] \in {"run", "swap", "skip", "flow", "report"} => reports[r] = 0

HInv == TypeOK /\ SingleFlight /\ FlagHasOwner /\ NotYetReported

LEMMA InitHolds == Init => HInv
<1> SUFFICES ASSUME Init PROVE HInv
  OBVIOUS
<1>1. \A r \in Runners : pc[r] \notin InFlight
  BY DEF Init, InFlight
<1>2. TypeOK
  <2>1. /\ pc \in [Runners -> {"off", "wait", "gone", "run", "swap", "skip"}
                                \cup InFlight]
        /\ reports \in [Runners -> 0..1]
    BY DEF Init
  <2>2. running \in BOOLEAN /\ stopped \in BOOLEAN /\ cancelled \in BOOLEAN
    BY Zenon DEF Init
  <2>3. /\ now \in Times
        /\ tick \in [Tickers -> Times \cup {NoTick}]
        /\ tickTime \in [Runners -> Times \cup {NoTick}]
        /\ late \in [Runners -> Nat]
    BY DEF Init
  <2> QED
    BY <2>1, <2>2, <2>3 DEF TypeOK
<1>3. SingleFlight /\ FlagHasOwner
  BY <1>1 DEF Init, SingleFlight, FlagHasOwner
<1>4. NotYetReported
  BY DEF Init, NotYetReported
<1> QED
  BY <1>2, <1>3, <1>4 DEF HInv

(* A step that leaves no runner in flight that was not, and the other way  *)
(* round, and leaves the flag, keeps the two flag properties.              *)
LEMMA SameFlight ==
  ASSUME TypeOK, SingleFlight, FlagHasOwner,
         NEW r \in Runners, NEW next,
         pc' = [pc EXCEPT ![r] = next], running' = running,
         pc[r] \in InFlight <=> next \in InFlight
  PROVE  SingleFlight' /\ FlagHasOwner'
<1>1. \A q \in Runners : pc'[q] \in InFlight <=> pc[q] \in InFlight
  BY DEF TypeOK
<1>2. SingleFlight'
  BY <1>1 DEF SingleFlight
<1>3. FlagHasOwner'
  BY <1>1 DEF FlagHasOwner
<1> QED
  BY <1>2, <1>3

LEMMA StepHolds == HInv /\ [Next]_vars => HInv'
<1> SUFFICES ASSUME HInv, [Next]_vars PROVE HInv'
  OBVIOUS
<1> USE DEF HInv
<1>1. ASSUME NEW t \in Tickers, Start(t) PROVE HInv'
  <2> t \in Runners
    BY DEF Runners
  <2>1. SingleFlight' /\ FlagHasOwner'
    BY <1>1, SameFlight DEF Start, Goto, InFlight
  <2>2. TypeOK' /\ NotYetReported'
    BY <1>1 DEF Start, Goto, TypeOK, NotYetReported,
           InFlight, ends, time
  <2> QED BY <2>1, <2>2
<1>2. ASSUME NEW t \in Tickers, Tick(t) PROVE HInv'
  BY <1>2 DEF Tick, TypeOK, SingleFlight, FlagHasOwner, NotYetReported, ends,
     time
<1>3. ASSUME NEW t \in Tickers, SelectTick(t) PROVE HInv'
  <2> t \in Runners
    BY DEF Runners
  <2>1. SingleFlight' /\ FlagHasOwner'
    BY <1>3, SameFlight DEF SelectTick, EnterRun, Goto, InFlight
  <2>2. TypeOK' /\ NotYetReported'
    BY <1>3 DEF SelectTick, EnterRun, Goto, TypeOK, NotYetReported,
           InFlight, ends, time
  <2> QED BY <2>1, <2>2
<1>4. ASSUME NEW t \in Tickers, SelectEnd(t) PROVE HInv'
  <2> t \in Runners
    BY DEF Runners
  <2>1. SingleFlight' /\ FlagHasOwner'
    BY <1>4, SameFlight DEF SelectEnd, Goto, InFlight
  <2>2. TypeOK' /\ NotYetReported'
    BY <1>4 DEF SelectEnd, Goto, TypeOK, NotYetReported,
           InFlight, ends, time
  <2> QED BY <2>1, <2>2
<1>5. ASSUME NEW w \in Wakers, Wake(w) PROVE HInv'
  <2> w \in Runners
    BY DEF Runners
  <2>1. SingleFlight' /\ FlagHasOwner'
    BY <1>5, SameFlight DEF Wake, EnterRun, Goto, InFlight
  <2>2. TypeOK' /\ NotYetReported'
    BY <1>5 DEF Wake, EnterRun, Goto, TypeOK, NotYetReported,
           InFlight, ends, time
  <2> QED BY <2>1, <2>2
<1>6. ASSUME NEW r \in Runners, OutsideHours(r) \/ WithinHours(r)
      PROVE  HInv'
  <2>1. SingleFlight' /\ FlagHasOwner'
    BY <1>6, SameFlight DEF OutsideHours, WithinHours, Goto, InFlight
  <2>2. TypeOK' /\ NotYetReported'
    BY <1>6 DEF OutsideHours, WithinHours, Goto, TypeOK, NotYetReported,
           InFlight, ends, time
  <2> QED BY <2>1, <2>2
<1>7. ASSUME NEW r \in Runners, Swap(r) PROVE HInv'
  <2>1. pc[r] = "swap" /\ ~running /\ running'
        /\ pc' = [pc EXCEPT ![r] = "flow"]
    BY <1>7 DEF Swap, Goto
  <2>2. \A q \in Runners : pc[q] \notin InFlight
    BY <2>1 DEF FlagHasOwner
  <2>3. \A q \in Runners : pc'[q] \in InFlight <=> q = r
    BY <2>1, <2>2 DEF TypeOK, InFlight
  <2>4. SingleFlight'
    BY <2>3 DEF SingleFlight
  <2>5. FlagHasOwner'
    BY <2>1, <2>3 DEF FlagHasOwner
  <2>6. TypeOK' /\ NotYetReported'
    BY <1>7 DEF Swap, StartsFlow, Goto, TypeOK, NotYetReported,
           InFlight, ends, time
  <2> QED BY <2>4, <2>5, <2>6
<1>8. ASSUME NEW r \in Runners, SwapBusy(r) PROVE HInv'
  <2>1. SingleFlight' /\ FlagHasOwner'
    BY <1>8, SameFlight DEF SwapBusy, Goto, InFlight
  <2>2. TypeOK' /\ NotYetReported'
    BY <1>8 DEF SwapBusy, Goto, TypeOK, NotYetReported,
           InFlight, ends, time
  <2> QED BY <2>1, <2>2
<1>9. ASSUME NEW r \in Runners, ReportSkip(r) PROVE HInv'
  <2>1. SingleFlight' /\ FlagHasOwner'
    BY <1>9, SameFlight DEF ReportSkip, Return, Goto, InFlight
  <2>2. TypeOK' /\ NotYetReported'
    BY <1>9 DEF ReportSkip, Report, Return, Goto, TypeOK, NotYetReported,
           InFlight, ends, time
  <2> QED BY <2>1, <2>2
<1>10. ASSUME NEW r \in Runners, FlowEnds(r) PROVE HInv'
  <2>1. SingleFlight' /\ FlagHasOwner'
    BY <1>10, SameFlight DEF FlowEnds, Goto, InFlight
  <2>2. TypeOK' /\ NotYetReported'
    BY <1>10 DEF FlowEnds, Goto, TypeOK, NotYetReported,
           InFlight, ends, time
  <2> QED BY <2>1, <2>2
<1>11. ASSUME NEW r \in Runners, ReportResult(r) PROVE HInv'
  <2>1. SingleFlight' /\ FlagHasOwner'
    BY <1>11, SameFlight DEF ReportResult, Goto, InFlight
  <2>2. TypeOK' /\ NotYetReported'
    BY <1>11 DEF ReportResult, Report, Goto, TypeOK, NotYetReported,
           InFlight, ends, time
  <2> QED BY <2>1, <2>2
<1>12. ASSUME NEW r \in Runners, Reset(r) PROVE HInv'
  <2>1. pc[r] = "reset" /\ ~running'
    BY <1>12 DEF Reset
  <2>2. PICK next \in {"wait", "off"} : pc' = [pc EXCEPT ![r] = next]
    BY <1>12 DEF Reset, Return, Goto
  <2>3. \A q \in Runners : pc'[q] \notin InFlight
    BY <2>1, <2>2 DEF SingleFlight, TypeOK, InFlight
  <2>4. SingleFlight' /\ FlagHasOwner'
    BY <2>1, <2>3 DEF SingleFlight, FlagHasOwner
  <2>5. TypeOK' /\ NotYetReported'
    BY <1>12 DEF Reset, Return, Goto, TypeOK, NotYetReported,
           InFlight, ends, time
  <2> QED BY <2>4, <2>5
<1>13. CASE Stop \/ Cancel
  <2>1. stopped' \in BOOLEAN /\ cancelled' \in BOOLEAN
    BY <1>13 DEF Stop, Cancel, TypeOK
  <2>2. UNCHANGED <<pc, now, tick, tickTime, running, reports, late>>
    BY <1>13 DEF Stop, Cancel, time
  <2> QED
    BY <2>1, <2>2 DEF TypeOK, SingleFlight, FlagHasOwner, NotYetReported
<1>14. ASSUME NEW t \in Times, Pass(t) PROVE HInv'
  BY <1>14 DEF Pass, TypeOK, SingleFlight, FlagHasOwner, NotYetReported, ends
<1>15. CASE UNCHANGED vars
  BY <1>15 DEF vars, TypeOK, SingleFlight, FlagHasOwner, NotYetReported
<1> QED
  BY <1>1, <1>2, <1>3, <1>4, <1>5, <1>6, <1>7, <1>8, <1>9, <1>10, <1>11,
     <1>12, <1>13, <1>14, <1>15 DEF Next, Run

LEMMA Inductive == Spec => []HInv
  BY InitHolds, StepHolds, PTL DEF Spec

(* The reports of a run, and with them every variable, keep their type:    *)
(* no run of Heartbeat.Run calls onResult twice.                           *)
THEOREM TypeCorrect == Spec => []TypeOK
<1>1. HInv => TypeOK
  BY DEF HInv
<1> QED
  BY <1>1, Inductive, PTL

(* The compare-and-swap lets one run at a time execute the flow, whatever  *)
(* the number of goroutines that tick, wake and run the heartbeat.         *)
THEOREM OneFlow == Spec => []SingleFlight
<1>1. HInv => SingleFlight
  BY DEF HInv
<1> QED
  BY <1>1, Inductive, PTL

(* The flag is set exactly while a run is in flight: no failure or skipped *)
(* run leaves it set or clears it under another.                           *)
THEOREM FlagOwned == Spec => []FlagHasOwner
<1>1. HInv => FlagHasOwner
  BY DEF HInv
<1> QED
  BY <1>1, Inductive, PTL
-----------------------------------------------------------------------------
(* After the active hours                                                  *)

(* The flows that are still to come for ticks within the hours: of the run *)
(* that has yet to start its flow, and of the tick that waits.             *)
Owed(r) ==
  IF pc[r] \in {"run", "swap"} /\ Contains(tickTime[r]) THEN 1 ELSE 0

Waiting(t) == IF tick[t] # NoTick /\ Contains(tick[t]) THEN 1 ELSE 0

LateInv ==
  /\ \A r \in Runners : pc[r] = "swap" => Contains(tickTime[r])
  /\ Contains(now) => \A r \in Runners : late[r] = 0
  /\ \A t \in Tickers : late[t] + Owed(t) + Waiting(t) <= 2
  /\ \A w \in Wakers : late[w] + Owed(w) <= 1

LEMMA LateInit == Init => LateInv
  BY DEF Init, LateInv, Owed, Waiting, Runners

(* A step that starts no flow and owes none that was not owed before.      *)
LEMMA NoneOwed ==
  ASSUME TypeOK, LateInv, UNCHANGED <<now, tick, late>>,
         \A r \in Runners : Owed(r)' <= Owed(r),
         \A r \in Runners : pc'[r] = "swap" => Contains(tickTime'[r])
  PROVE  LateInv'
<1>1. \A t \in Tickers : Waiting(t)' = Waiting(t)
  BY DEF Waiting, Contains
<1>2. \A r \in Runners : /\ Owed(r) \in 0..1 /\ Owed(r)' \in 0..1
                         /\ late[r] \in Nat
  BY DEF Owed, TypeOK
<1>3. \A t \in Tickers : Waiting(t) \in 0..1
  BY DEF Waiting
<1>4. Contains(now)' <=> Contains(now)
  BY DEF Contains
<1>5. \A t \in Tickers : late'[t] + Owed(t)' + Waiting(t)' <= 2
  BY <1>1, <1>2, <1>3 DEF LateInv, Runners
<1>6. \A w \in Wakers : late'[w] + Owed(w)' <= 1
  BY <1>2 DEF LateInv, Runners
<1> QED
  BY <1>4, <1>5, <1>6 DEF LateInv

LEMMA LateStep == TypeOK /\ LateInv /\ [Next]_vars => LateInv'
<1> SUFFICES ASSUME TypeOK, LateInv, [Next]_vars PROVE LateInv'
  OBVIOUS
<1>1. ASSUME NEW t \in Tickers, Tick(t) PROVE LateInv'
  BY <1>1, HeartbeatAssumption
     DEF Tick, LateInv, Owed, Waiting, Contains, TypeOK, Runners, time
<1>2. ASSUME NEW t \in Tickers, SelectTick(t) PROVE LateInv'
  BY <1>2, HeartbeatAssumption
     DEF SelectTick, EnterRun, Goto, LateInv, Owed, Waiting, Contains, TypeOK,
         Runners
<1>3. ASSUME NEW w \in Wakers, Wake(w) PROVE LateInv'
  BY <1>3, HeartbeatAssumption
     DEF Wake, EnterRun, Goto, LateInv, Owed, Waiting, Contains, TypeOK,
         Runners
<1>4. ASSUME NEW r \in Runners, Swap(r) PROVE LateInv'
  BY <1>4, HeartbeatAssumption
     DEF Swap, StartsFlow, Goto, LateInv, Owed, Waiting, Contains, TypeOK,
         Runners, time
<1>5. ASSUME NEW t \in Times, Pass(t) PROVE LateInv'
  BY <1>5, HeartbeatAssumption
     DEF Pass, LateInv, Owed, Waiting, Contains, TypeOK, Runners
<1>6. ASSUME NEW r \in Runners,
             \/ Start(r) \/ SelectEnd(r) \/ OutsideHours(r) \/ WithinHours(r)
             \/ SwapBusy(r) \/ ReportSkip(r) \/ FlowEnds(r)
             \/ ReportResult(r) \/ Reset(r)
      PROVE  LateInv'
  <2>1. UNCHANGED <<now, tick, late>>
    BY <1>6 DEF Start, SelectEnd, OutsideHours, WithinHours, SwapBusy,
                ReportSkip, FlowEnds, ReportResult, Reset, time
  <2>2. PICK next : pc' = [pc EXCEPT ![r] = next] /\ next # "run"
                    /\ (next = "swap" => pc[r] = "run"
                                         /\ Contains(tickTime[r]))
    BY <1>6 DEF Start, SelectEnd, OutsideHours, WithinHours, SwapBusy,
                ReportSkip, FlowEnds, ReportResult, Reset, Return, Goto
  <2>3. \/ tickTime' = tickTime
        \/ tickTime' = [tickTime EXCEPT ![r] = NoTick] /\ next # "swap"
    BY <1>6, <2>2
       DEF Start, SelectEnd, OutsideHours, WithinHours, SwapBusy,
           ReportSkip, FlowEnds, ReportResult, Reset, Return, Goto, time, TypeOK
  <2>4. \A q \in Runners : q # r => pc'[q] = pc[q] /\ tickTime'[q] = tickTime[q]
    BY <2>2, <2>3 DEF TypeOK
  <2>5. pc'[r] = next
    BY <2>2 DEF TypeOK
  <2>6. \A q \in Runners : Owed(q)' <= Owed(q)
    BY <2>2, <2>3, <2>4, <2>5 DEF Owed, Contains
  <2>7. \A q \in Runners : pc'[q] = "swap" => Contains(tickTime'[q])
    BY <2>2, <2>3, <2>4, <2>5 DEF LateInv
  <2> QED
    BY <2>1, <2>6, <2>7, NoneOwed
<1>7. CASE Stop \/ Cancel \/ UNCHANGED vars
  BY <1>7 DEF Stop, Cancel, vars, time, LateInv, Owed, Waiting, Contains
<1> QED
  BY <1>1, <1>2, <1>3, <1>4, <1>5, <1>6, <1>7 DEF Next, Run, Runners

(* For any active hours, a ticker starts at most two more flows once they  *)
(* are over, and a wake-up at most its own.                                *)
THEOREM HoursKept == Spec => []FewFlowsAfterHours
<1>1. TypeOK /\ LateInv => FewFlowsAfterHours
  <2> SUFFICES ASSUME TypeOK, LateInv PROVE FewFlowsAfterHours
    OBVIOUS
  <2>1. \A r \in Runners : Owed(r) \in 0..1 /\ late[r] \in Nat
    BY DEF Owed, TypeOK
  <2>2. \A t \in Tickers : Waiting(t) \in 0..1
    BY DEF Waiting
  <2> QED
    BY <2>1, <2>2 DEF LateInv, FewFlowsAfterHours, Runners
<1> QED
  BY <1>1, LateInit, LateStep, TypeCorrect, PTL DEF Spec
=============================================================================
