------------------------------ MODULE Heartbeat ------------------------------
(***************************************************************************)
(* The heartbeat runner: tickers started by Start, runs started by Wake,   *)
(* Stop and the cancelled context, the active hours, and the flag that     *)
(* lets one run at a time execute the flow while the others report that    *)
(* they were skipped.  What the flow does is in AgentLoop and              *)
(* SessionLedger.                                                          *)
(*                                                                         *)
(* A run is given the time at which its ticker fired or Wake was called,   *)
(* and goes by it, however much later it is by then.                       *)
(***************************************************************************)
EXTENDS Naturals, FiniteSets

CONSTANTS
  Tickers,  \* the goroutines that calls of Start make
  Wakers,   \* the goroutines that calls of Wake, or callers of Run, are
  Times,    \* the times of a day, in minutes
  NoTick,   \* the channel of a ticker is empty
  From,     \* the active hours, in minutes; 0 and 1440 if there are none,
  Until     \* or none that parse

ASSUME HeartbeatAssumption ==
  /\ Tickers \cap Wakers = {}
  /\ Times \subseteq Nat /\ Times # {}
  /\ NoTick \notin Times
  /\ From \in Nat /\ Until \in Nat

Runners == Tickers \cup Wakers

VARIABLES
  pc,         \* where the goroutine is
  now,        \* the time of the day
  tick,       \* tick[t]: the tick in ticker.C, which has room for one
  tickTime,   \* tickTime[r]: the time the runner's Run was given
  running,    \* h.running
  stopped,    \* whether h.stopCh is closed
  cancelled,  \* whether the context of Start is cancelled
  reports,    \* reports[r]: how often the runner's latest Run called onResult
  late        \* history: how many flows each runner has started since the
              \* active hours ended

time == <<now, tickTime>>
ends == <<stopped, cancelled>>
vars == <<pc, now, tick, tickTime, running, stopped, cancelled, reports, late>>

InFlight == {"flow", "report", "reset"}
-----------------------------------------------------------------------------

Init ==
  /\ pc = [r \in Runners |-> "off"]
  /\ now \in Times
  /\ tick = [t \in Tickers |-> NoTick]
  /\ tickTime = [r \in Runners |-> NoTick]
  /\ running = FALSE
  /\ stopped = FALSE
  /\ cancelled = FALSE
  /\ reports = [r \in Runners |-> 0]
  /\ late = [r \in Runners |-> 0]

Goto(r, next) == pc' = [pc EXCEPT ![r] = next]

Report(r) == reports' = [reports EXCEPT ![r] = @ + 1]

(* Run returns to the ticker's loop, or its goroutine ends. *)
Return(r) ==
  /\ Goto(r, IF r \in Tickers THEN "wait" ELSE "off")
  /\ tickTime' = [tickTime EXCEPT ![r] = NoTick]

EnterRun(r, at) ==
  /\ Goto(r, "run")
  /\ tickTime' = [tickTime EXCEPT ![r] = at]
  /\ reports' = [reports EXCEPT ![r] = 0]

Contains(t) == From <= t /\ t < Until

(* Time goes on, to another minute of this day or of the next. *)
Pass(t) ==
  /\ t # now
  /\ now' = t
  /\ late' = IF Contains(t) THEN [r \in Runners |-> 0] ELSE late
  /\ UNCHANGED <<pc, tick, tickTime, running, ends, reports>>
-----------------------------------------------------------------------------
(* Start, Stop and the goroutine of Start *)

Start(t) ==
  /\ pc[t] = "off"
  /\ Goto(t, "wait")
  /\ UNCHANGED <<time, tick, running, ends, reports, late>>

(* The time.Ticker drops a tick if the one before has not been taken. *)
Tick(t) ==
  /\ pc[t] \notin {"off", "gone"}
  /\ tick[t] = NoTick
  /\ tick' = [tick EXCEPT ![t] = now]
  /\ UNCHANGED <<pc, time, running, ends, reports, late>>

(* The select takes any of the channels that are ready. *)
SelectTick(t) ==
  /\ pc[t] = "wait"
  /\ tick[t] # NoTick
  /\ tick' = [tick EXCEPT ![t] = NoTick]
  /\ EnterRun(t, tick[t])
  /\ UNCHANGED <<now, running, ends, late>>

(* Mutant: the channels are looked at only when there is no tick. *)
SelectEnd_NoTick(t) ==
  /\ pc[t] = "wait"
  /\ stopped \/ cancelled
  /\ tick[t] = NoTick
  /\ Goto(t, "gone")
  /\ UNCHANGED <<time, tick, running, ends, reports, late>>

SelectEnd(t) ==
  /\ pc[t] = "wait"
  /\ stopped \/ cancelled
  /\ Goto(t, "gone")
  /\ UNCHANGED <<time, tick, running, ends, reports, late>>

Stop ==
  /\ stopped' = TRUE
  /\ UNCHANGED <<pc, time, tick, running, cancelled, reports, late>>

Cancel ==
  /\ cancelled' = TRUE
  /\ UNCHANGED <<pc, time, tick, running, stopped, reports, late>>

Wake(w) ==
  /\ pc[w] = "off"
  /\ EnterRun(w, now)
  /\ UNCHANGED <<now, tick, running, ends, late>>
-----------------------------------------------------------------------------
(* Run *)

OutsideHours(r) ==
  /\ pc[r] = "run"
  /\ ~Contains(tickTime[r])
  /\ Goto(r, "skip")
  /\ UNCHANGED <<time, tick, running, ends, reports, late>>

(* Mutant: the active hours are not looked at. *)
WithinHours_Unchecked(r) ==
  /\ pc[r] = "run"
  /\ Goto(r, "swap")
  /\ UNCHANGED <<time, tick, running, ends, reports, late>>

WithinHours(r) ==
  /\ pc[r] = "run"
  /\ Contains(tickTime[r])
  /\ Goto(r, "swap")
  /\ UNCHANGED <<time, tick, running, ends, reports, late>>

(* The flow of a run starts; whether late is seen by the clock. *)
StartsFlow(r) ==
  late' = IF Contains(now) THEN late ELSE [late EXCEPT ![r] = @ + 1]

(* Mutant: the flag is set whatever it was. *)
Swap_Unchecked(r) ==
  /\ pc[r] = "swap"
  /\ running' = TRUE
  /\ Goto(r, "flow")
  /\ StartsFlow(r)
  /\ UNCHANGED <<time, tick, ends, reports>>

(* running.CompareAndSwap(false, true) *)
Swap(r) ==
  /\ pc[r] = "swap"
  /\ ~running
  /\ running' = TRUE
  /\ Goto(r, "flow")
  /\ StartsFlow(r)
  /\ UNCHANGED <<time, tick, ends, reports>>

(* Mutant: a busy run returns without a word. *)
SwapBusy_Silent(r) ==
  /\ pc[r] = "swap"
  /\ running
  /\ Return(r)
  /\ UNCHANGED <<now, tick, running, ends, reports, late>>

SwapBusy(r) ==
  /\ pc[r] = "swap"
  /\ running
  /\ Goto(r, "skip")
  /\ UNCHANGED <<time, tick, running, ends, reports, late>>

(* Mutant: Run defers the reset before it swaps, a skipped one resets too. *)
ReportSkip_Resets(r) ==
  /\ pc[r] = "skip"
  /\ Report(r)
  /\ running' = FALSE
  /\ Return(r)
  /\ UNCHANGED <<now, tick, ends, late>>

(* onResult is called with a skipped result. *)
ReportSkip(r) ==
  /\ pc[r] = "skip"
  /\ Report(r)
  /\ Return(r)
  /\ UNCHANGED <<now, tick, running, ends, late>>

(* The flow returns a result, or an error. *)
FlowEnds(r) ==
  /\ pc[r] = "flow"
  /\ Goto(r, "report")
  /\ UNCHANGED <<time, tick, running, ends, reports, late>>

(* Mutant: the error's report does not return. *)
ReportResult_Twice(r) ==
  /\ pc[r] = "report"
  /\ reports' = [reports EXCEPT ![r] = @ + 2]
  /\ Goto(r, "reset")
  /\ UNCHANGED <<time, tick, running, ends, late>>

(* onResult is called with the flow's result or an error result. *)
ReportResult(r) ==
  /\ pc[r] = "report"
  /\ Report(r)
  /\ Goto(r, "reset")
  /\ UNCHANGED <<time, tick, running, ends, late>>

(* The deferred running.Store(false). *)
Reset(r) ==
  /\ pc[r] = "reset"
  /\ running' = FALSE
  /\ Return(r)
  /\ UNCHANGED <<now, tick, ends, reports, late>>
-----------------------------------------------------------------------------

Run(r) ==
  \/ OutsideHours(r) \/ WithinHours(r)
  \/ Swap(r) \/ SwapBusy(r) \/ ReportSkip(r)
  \/ FlowEnds(r) \/ ReportResult(r) \/ Reset(r)

Next ==
  \/ \E t \in Tickers : Start(t) \/ Tick(t) \/ SelectTick(t) \/ SelectEnd(t)
  \/ \E w \in Wakers : Wake(w)
  \/ \E r \in Runners : Run(r)
  \/ Stop \/ Cancel
  \/ \E t \in Times : Pass(t)

(* Goroutines are scheduled, the flow and onResult return, and a select    *)
(* that finds a channel ready again and again takes it: Go picks among the *)
(* ready ones at random.                                                   *)
Fairness ==
  /\ \A r \in Runners : WF_vars(Run(r))
  /\ \A t \in Tickers : SF_vars(SelectEnd(t))

Spec == Init /\ [][Next]_vars /\ Fairness
-----------------------------------------------------------------------------
(* Properties *)

TypeOK ==
  /\ pc \in [Runners -> {"off", "wait", "gone", "run", "swap", "skip"}
                          \cup InFlight]
  /\ now \in Times
  /\ tick \in [Tickers -> Times \cup {NoTick}]
  /\ tickTime \in [Runners -> Times \cup {NoTick}]
  /\ running \in BOOLEAN
  /\ stopped \in BOOLEAN /\ cancelled \in BOOLEAN
  /\ reports \in [Runners -> 0..1]
  /\ late \in [Runners -> Nat]

(* Single flight: however ticks, wake-ups and direct calls of Run overlap, *)
(* no two heartbeat flows run at the same time, and none starts before the *)
(* result of the one before has been delivered.                            *)
SingleFlight ==
  \A q, r \in Runners : pc[q] \in InFlight /\ pc[r] \in InFlight => q = r

(* The flag is set exactly while a run is in flight: after a failed flow,  *)
(* or next to runs that are skipped, it neither stays set, which would     *)
(* silence the heartbeat for good, nor is it cleared under a run.          *)
FlagHasOwner == running <=> \E r \in Runners : pc[r] \in InFlight

(* After the active hours only what was under way is still done: a ticker  *)
(* starts at most two more flows before the hours begin again, for the     *)
(* tick it had taken and for the one that waited, and a wake-up at most    *)
(* the one it asked for.                                                   *)
FewFlowsAfterHours ==
  /\ \A t \in Tickers : late[t] <= 2
  /\ \A w \in Wakers : late[w] <= 1

(* A run that was asked for is answered: onResult is called, with a result *)
(* or with the reason why the run was skipped.                             *)
EveryRunReports ==
  \A r \in Runners : pc[r] = "run" ~> reports[r] = 1

(* Stop, like the cancelled context, ends the periodic runs, also if the   *)
(* flow takes longer than the interval and a tick is always waiting.       *)
StopEndsTickers ==
  \A t \in Tickers : stopped \/ cancelled ~> pc[t] \in {"off", "gone"}
=============================================================================
