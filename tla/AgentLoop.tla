------------------------------ MODULE AgentLoop ------------------------------
(***************************************************************************)
(* The agent loop and the flows around it: one run after another on one    *)
(* session.  A run passes the stored messages to Generate, with a new user *)
(* message (handleMessage), with tool responses or restarts that resume an *)
(* interrupted turn, or as they are (heartbeat).  Generate alternates      *)
(* model calls and tool executions, the tools of a turn at the same time,  *)
(* while the recorder notes each call as it ends.  From the history and    *)
(* the records the loop builds its turn records, by position alone; the    *)
(* flow turns them into the MessageCounts that Session.Save cuts by.       *)
(*                                                                         *)
(* Generate belongs to genkit: the actions of it are external.             *)
(***************************************************************************)
EXTENDS Naturals, Sequences, FiniteSets

CONSTANTS
  MaxTurns,  \* AgentLoopConfig.MaxTurns
  MaxTools,  \* bound on the tool requests of one model message
  MaxStored  \* bound: a session with more messages gets no further run

ASSUME LoopAssumption ==
  /\ MaxTurns \in Nat \ {0}
  /\ MaxTools \in Nat
  /\ MaxStored \in Nat

VARIABLES
  stored,       \* the messages of the session
  kind,         \* what the run was asked to do
  messages,     \* Generate's request, a system message first if there is one
  modelCalls,   \* how many model records the recorder has
  toolRecords,  \* the recorder's tool records, in the order they ended
  running,      \* the tool executions of the turn still running
  restarted,    \* whether an interrupted tool was executed again
  pc            \* where the run is

request == <<kind, messages>>
records == <<modelCalls, toolRecords>>
vars == <<stored, kind, messages, modelCalls, toolRecords, running, restarted,
          pc>>

Kinds == {"message", "resume", "heartbeat"}

(* call, which the code does not have: the model call of the run that the  *)
(* message leads to, comes from, or answers; 0 for a stored message.       *)
Message ==
  [role       : {"system", "user", "model", "tool"},
   resumed    : BOOLEAN,
   requests   : Nat,
   interrupts : Nat,
   call       : Nat]

Msg(role, call) ==
  [role |-> role, resumed |-> FALSE, requests |-> 0, interrupts |-> 0,
   call |-> call]

ToolRecord == [call : Nat, tool : Nat, interrupted : BOOLEAN]

Latest == messages[Len(messages)]
-----------------------------------------------------------------------------
(* What the loop makes of the history and of what was recorded             *)

(* The items at these positions, in their order. *)
Picked(items, positions) ==
  LET picked[i \in 0..Len(items)] ==
        IF i = 0 THEN <<>>
        ELSE IF i \in positions THEN Append(picked[i - 1], items[i])
        ELSE picked[i - 1]
  IN picked[Len(items)]

(* Mutant: the system message stays in the history. *)
conversationHistory_Whole(msgs) == msgs

conversationHistory(msgs) ==
  Picked(msgs, {i \in 1..Len(msgs) : msgs[i].role # "system"})

(* Where the model messages after the first prior messages are. *)
ModelsAt(history, prior) ==
  Picked([i \in 1..Len(history) |-> i],
         {i \in (prior + 1)..Len(history) : history[i].role = "model"})

Answered(history, i) == i < Len(history) /\ history[i + 1].role = "tool"

(* The last message of the turn whose model message is at i. *)
TurnEnd(history, i) == IF Answered(history, i) THEN i + 1 ELSE i

(* Mutant: the resumed message is left to the turn it answers. *)
PersistedMessageCount_NotResumed(history, after, i) ==
  1 + (IF Answered(history, i) THEN 1 ELSE 0)

(* The model message at i, the resumed tool messages before it and after   *)
(* the turn that ends at after, and the tool message that answers it.      *)
PersistedMessageCount(history, after, i) ==
  1 + Cardinality({j \in (after + 1)..(i - 1) :
                     history[j].role = "tool" /\ history[j].resumed})
    + (IF Answered(history, i) THEN 1 ELSE 0)

(* Mutant: an interrupted turn does not take its tools. *)
ToolsTaken_NoInterrupt(history, i, taken, total) ==
  IF Answered(history, i) /\ history[i].requests <= total - taken
  THEN taken + history[i].requests
  ELSE taken

(* How many tool records are taken after the turn whose model message is   *)
(* at i, if taken of total were before: as many as it requested, and all   *)
(* that are left if it was interrupted.                                    *)
ToolsTaken(history, i, taken, total) ==
  IF history[i].interrupts > 0 THEN total
  ELSE IF ~Answered(history, i) THEN taken
  ELSE IF history[i].requests <= total - taken THEN taken + history[i].requests
  ELSE total

FinishReason(history, i) ==
  IF history[i].interrupts > 0 THEN "interrupted"
  ELSE IF TurnEnd(history, i) = Len(history) THEN "stop"
  ELSE "continue"

(* One record for every model message after the first prior messages. *)
buildAgentLoopTurnRecords(history, prior) ==
  LET total == Len(toolRecords)
      at == ModelsAt(history, prior)
      after(k) == IF k = 1 THEN prior ELSE TurnEnd(history, at[k - 1])
      taken[k \in 0..Len(at)] ==
        IF k = 0 THEN 0 ELSE ToolsTaken(history, at[k], taken[k - 1], total)
  IN [k \in 1..Len(at) |->
        [count     |-> PersistedMessageCount(history, after(k), at[k]),
         summaries |-> SubSeq(toolRecords, taken[k - 1] + 1, taken[k]),
         finish    |-> FinishReason(history, at[k])]]

(* The messages the run was given: its caller's, no system message. *)
Given == Len(stored) + (IF kind = "message" THEN 1 ELSE 0)

History == conversationHistory(messages)

Turns == buildAgentLoopTurnRecords(History, Given)

(* Mutant: the user message is counted in every run. *)
MessageCount_AlwaysUser(k) == Turns[k].count + (IF k = 1 THEN 1 ELSE 0)

(* The flow counts the new user message in the first turn. *)
MessageCount(k) ==
  Turns[k].count + (IF k = 1 /\ kind = "message" THEN 1 ELSE 0)

NewMessages == SubSeq(History, Len(stored) + 1, Len(History))
-----------------------------------------------------------------------------

Init ==
  /\ stored = <<>>
  /\ kind = "message"
  /\ messages = <<>>
  /\ modelCalls = 0
  /\ toolRecords = <<>>
  /\ running = {}
  /\ restarted = FALSE
  /\ pc = "idle"

(* The flow calls the agent loop, which has a new recorder. *)
Begin(k, system) ==
  /\ pc = "idle"
  /\ Len(stored) <= MaxStored
  /\ kind' = k
  /\ messages' = (IF system THEN <<Msg("system", 0)>> ELSE <<>>) \o stored
                   \o (IF k = "message" THEN <<Msg("user", 1)>> ELSE <<>>)
  /\ modelCalls' = 0
  /\ toolRecords' = <<>>
  /\ restarted' = FALSE
  /\ pc' = IF k = "resume" THEN "resume" ELSE "model"
  /\ UNCHANGED <<stored, running>>

CanResume == messages # <<>> /\ Latest.role = "model" /\ Latest.requests > 0

(* The caller answers the interrupted requests, or has their tools run     *)
(* again, which the recorder may or may not see.                           *)
Restart(interrupted) ==
  /\ restarted' = TRUE
  /\ \/ toolRecords' = <<[call |-> 0, tool |-> 1, interrupted |-> interrupted]>>
     \/ UNCHANGED toolRecords

Resume ==
  /\ pc = "resume"
  /\ CanResume
  /\ messages' = Append(messages, [Msg("tool", 1) EXCEPT !.resumed = TRUE])
  /\ Restart(FALSE) \/ UNCHANGED <<restarted, toolRecords>>
  /\ pc' = "model"
  /\ UNCHANGED <<stored, kind, modelCalls, running>>

(* A restarted tool interrupts again: the model is not called, and the     *)
(* response has no request, for which the loop puts in its own messages.   *)
ResumeInterrupted ==
  /\ pc = "resume"
  /\ CanResume
  /\ messages' = Append(conversationHistory(messages),
                        [Latest EXCEPT !.interrupts = 1, !.call = 1])
  /\ Restart(TRUE)
  /\ pc' = "done"
  /\ UNCHANGED <<stored, kind, modelCalls, running>>

(* wrapModel: the call is recorded, then the loop ends, fails because it   *)
(* has had its turns, or runs the tools.                                   *)
CallModel(requests) ==
  /\ pc = "model"
  /\ modelCalls' = modelCalls + 1
  /\ messages' = Append(messages, [Msg("model", modelCalls + 1)
                                     EXCEPT !.requests = requests])
  /\ running' = IF requests > 0 /\ modelCalls + 1 <= MaxTurns
                THEN 1..requests ELSE {}
  /\ pc' = IF requests = 0 THEN "done"
           ELSE IF modelCalls + 1 <= MaxTurns THEN "tools" ELSE "failed"
  /\ UNCHANGED <<stored, kind, toolRecords, restarted>>

(* wrapTool: one execution ends and is recorded. *)
ToolEnds(tool, interrupted) ==
  /\ pc = "tools"
  /\ tool \in running
  /\ running' = running \ {tool}
  /\ toolRecords' = Append(toolRecords, [call |-> modelCalls, tool |-> tool,
                                         interrupted |-> interrupted])
  /\ UNCHANGED <<stored, request, modelCalls, restarted, pc>>

Interrupts ==
  Cardinality({i \in 1..Len(toolRecords) :
                 /\ toolRecords[i].call = modelCalls
                 /\ toolRecords[i].interrupted})

ToolsAnswer ==
  /\ pc = "tools" /\ running = {}
  /\ Interrupts = 0
  /\ messages' = Append(messages, Msg("tool", modelCalls))
  /\ pc' = "model"
  /\ UNCHANGED <<stored, kind, records, running, restarted>>

(* The model message is returned with its interrupts marked. *)
ToolsInterrupt ==
  /\ pc = "tools" /\ running = {}
  /\ Interrupts > 0
  /\ messages' = [messages EXCEPT ![Len(messages)].interrupts = Interrupts]
  /\ pc' = "done"
  /\ UNCHANGED <<stored, kind, records, running, restarted>>

(* The model, a tool or the resumption fails, or the context ends. *)
Fail ==
  /\ pc \in {"resume", "model", "tools"}
  /\ pc' = "failed"
  /\ running' = {}
  /\ UNCHANGED <<stored, request, records, restarted>>

(* The flow saves the new messages. *)
Save ==
  /\ pc = "done"
  /\ stored' = stored \o [i \in 1..Len(NewMessages) |->
                            [NewMessages[i] EXCEPT !.call = 0]]
  /\ messages' = <<>>
  /\ pc' = "idle"
  /\ UNCHANGED <<kind, records, running, restarted>>

(* The flow returns an error, nothing is saved. *)
GiveUp ==
  /\ pc = "failed"
  /\ messages' = <<>>
  /\ pc' = "idle"
  /\ UNCHANGED <<stored, kind, records, running, restarted>>

DeleteSession ==
  /\ pc = "idle"
  /\ stored' = <<>>
  /\ UNCHANGED <<request, records, running, restarted, pc>>

Next ==
  \/ \E k \in Kinds, system \in BOOLEAN : Begin(k, system)
  \/ Resume \/ ResumeInterrupted
  \/ \E requests \in 0..MaxTools : CallModel(requests)
  \/ \E tool \in running, interrupted \in BOOLEAN : ToolEnds(tool, interrupted)
  \/ ToolsAnswer \/ ToolsInterrupt \/ Fail
  \/ Save \/ GiveUp \/ DeleteSession

Spec == Init /\ [][Next]_vars
-----------------------------------------------------------------------------
(* Properties *)

TypeOK ==
  /\ stored \in Seq(Message)
  /\ \A i \in 1..Len(stored) : stored[i].role # "system"
  /\ kind \in Kinds
  /\ messages \in Seq(Message)
  /\ modelCalls \in 0..(MaxTurns + 1)
  /\ toolRecords \in Seq(ToolRecord)
  /\ running \subseteq 1..MaxTools
  /\ restarted \in BOOLEAN
  /\ pc \in {"idle", "resume", "model", "tools", "done", "failed"}

(* The MessageCounts of a finished run cut its new messages into turns:    *)
(* none is left over, and the k-th window holds exactly the messages of    *)
(* the k-th model call, what it was asked, its message and the tools'      *)
(* answer.  Session.Save refuses the run otherwise, or stores turns that   *)
(* replay the wrong messages.                                              *)
WindowsAreTurns ==
  pc = "done" =>
    LET n == Len(Turns)
        end[k \in 0..n] == IF k = 0 THEN 0 ELSE end[k - 1] + MessageCount(k)
    IN /\ end[n] = Len(NewMessages)
       /\ \A k \in 1..n :
            {i \in 1..Len(NewMessages) : NewMessages[i].call = k}
              = (end[k - 1] + 1)..end[k]

(* The tool executions reported with a turn are those the model asked for  *)
(* in it, although they are recorded as they end and matched by number     *)
(* only; unless interrupted tools were restarted before the first turn.    *)
SummariesAreOwn ==
  pc = "done" /\ ~restarted =>
    \A k \in 1..Len(Turns) :
      Turns[k].summaries
        = Picked(toolRecords, {i \in 1..Len(toolRecords) :
                                 toolRecords[i].call = k})
=============================================================================
