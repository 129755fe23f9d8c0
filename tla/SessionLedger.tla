---------------------------- MODULE SessionLedger ----------------------------
(***************************************************************************)
(* The session ledger: Session.Get and Session.Save over the in-memory     *)
(* operator, used by concurrent flow runs (handleMessage and heartbeat).   *)
(* A run loads the session, or creates it, runs the agent loop, which      *)
(* yields a batch of messages and turns, and saves the extended state.     *)
(* Save is not atomic: it loads the stored state, derives IDs, sequences   *)
(* and turn windows from it, and hands the result to the operator, which   *)
(* validates it against whatever is stored by then.                        *)
(*                                                                         *)
(* Message contents, timestamps, origins and media parts are left out.  An *)
(* ID stands for a fresh uuid: <<run, position>>, with NoID for "".        *)
(***************************************************************************)
EXTENDS Integers, Sequences, FiniteSets, SequencesExt

CONSTANTS
  Clients,    \* the goroutines that run flows
  Sessions,   \* the (tenant, session) keys
  NoSession,  \* the session of an idle client
  Batches,    \* what one agent loop may produce: n messages, and the
              \* MessageCount of each turn record it adds
  ModeOf,     \* ModeOf[c]: persistence mode of the Session the client uses
  NMessages,  \* the n of WithPersistenceMode(mode, n)
  MaxRuns     \* bound on the agent loops that ever finish

Modes == {"All", "SlidingWindow", "TailEndsPruning", "TokenBudget"}

ASSUME LedgerAssumption ==
  /\ NoSession \notin Sessions
  /\ Batches \subseteq [n : Nat, turns : Seq(Nat)]
  /\ ModeOf \in [Clients -> Modes]
  /\ NMessages \in Nat
  /\ MaxRuns \in Nat

VARIABLES
  live,       \* the sessions the operator's map has an entry for
  store,      \* store[s]: the SessionState stored, empty if not live
  pc,         \* where the client is in its flow
  on,         \* the session the client works on
  data,       \* the SessionState the client holds (session.Data.State)
  run,        \* the number of the client's latest agent loop
  runs,       \* how many agent loops have finished
  committed,  \* history: the runs whose Save returned nil
  outcome,    \* how the client's latest flow ended
  view        \* history: "whole" or "part" of the ledger was loaded and nobody
              \* has changed it since; "stale": somebody has, or loading failed

storeVars  == <<live, store>>
clientVars == <<pc, on, data, run>>
vars == <<live, store, pc, on, data, run, runs, committed, outcome, view>>

-----------------------------------------------------------------------------
(* Session state *)

NoID == <<0, 0>>
ID   == Nat \X Nat

Message  == [id : ID, seq : Nat]
Turn     == [id : ID, seq : Nat, first : Nat, last : Nat, count : Nat]
Snapshot == [id : ID, seq : Nat, messages : Nat, turn : Nat]
Ledger   == [msgs : Seq(Message), turns : Seq(Turn), snaps : Seq(Snapshot)]

EmptyLedger == [msgs |-> <<>>, turns |-> <<>>, snaps |-> <<>>]

(* Mutant: the sequence to go on from is taken from the first item. *)
LastSequence_First(items) == IF items = <<>> THEN 0 ELSE items[1].seq

(* The Sequence of the last item, 0 if there is none. *)
LastSequence(items) == IF items = <<>> THEN 0 ELSE items[Len(items)].seq

-----------------------------------------------------------------------------
(* Loading *)

LastN(msgs, n) == SubSeq(msgs, Len(msgs) - n + 1, Len(msgs))

filterMessages(msgs, mode, n) ==
  CASE mode = "SlidingWindow" /\ n > 0 /\ n < Len(msgs) -> LastN(msgs, n)
    [] mode = "TailEndsPruning" /\ n > 0 /\ 2 * n < Len(msgs) ->
         SubSeq(msgs, 1, n) \o LastN(msgs, n)
    [] OTHER -> msgs

(* The messages Get may return: a token budget keeps a suffix, how long    *)
(* depends on token estimates, each at least 1, against a budget of n.     *)
LoadedMessages(msgs, mode, n) ==
  IF mode = "TokenBudget"
  THEN {LastN(msgs, k) : k \in {k \in 0..Len(msgs) : k <= n}}
  ELSE {filterMessages(msgs, mode, n)}

-----------------------------------------------------------------------------
(* What a flow adds to the state it loaded: messages that have no ID and   *)
(* no sequence yet, and turn records with the flow's own IDs               *)

NewMessage == [id |-> NoID, seq |-> 0]

NewTurn(r, position, count) ==
  [id |-> <<r, position>>, seq |-> 0, first |-> 0, last |-> 0, count |-> count]

WithBatch(l, b, r) ==
  [l EXCEPT
     !.msgs  = l.msgs \o [i \in 1..b.n |-> NewMessage],
     !.turns = l.turns \o [t \in 1..Len(b.turns) |->
                             NewTurn(r, Len(l.turns) + t, b.turns[t])]]

-----------------------------------------------------------------------------
(* Saving: what Session.Save makes of the state it is given, new, when the *)
(* operator holds old                                                      *)

Truncates(old, new) ==
  \/ Len(new.msgs) < Len(old.msgs)
  \/ Len(new.turns) < Len(old.turns)
  \/ Len(new.snaps) < Len(old.snaps)

(* Number the items after the first known ones, those that have none yet. *)
AssignSequences(items, known, last) ==
  [i \in 1..Len(items) |->
     IF i > known /\ items[i].seq = 0
     THEN [items[i] EXCEPT !.seq =
             last + Cardinality({j \in (known + 1)..i : items[j].seq = 0})]
     ELSE items[i]]

AssignIDs(msgs, known, r) ==
  [i \in 1..Len(msgs) |->
     IF i > known /\ msgs[i].id = NoID
     THEN [msgs[i] EXCEPT !.id = <<r, i>>]
     ELSE msgs[i]]

NewMessages(old, new, r) ==
  AssignSequences(AssignIDs(new.msgs, Len(old.msgs), r),
                  Len(old.msgs), LastSequence(old.msgs))

(* How the MessageCounts of the new turns cut the new messages: cut[t] of  *)
(* them come before the end of turn t.  The set has one element, or none   *)
(* if the turns claim more or fewer messages than there are.               *)
Cuts(old, new) ==
  LET known == Len(old.turns)
      total == Len(new.turns)
      added == Len(new.msgs) - Len(old.msgs)
  IN {cut \in [known..total -> 0..added] :
        /\ cut[known] = 0
        /\ cut[total] = added
        /\ \A t \in (known + 1)..total :
             cut[t] = cut[t - 1] + new.turns[t].count}

TurnMismatch(old, new) ==
  /\ Len(new.msgs) > Len(old.msgs)
  /\ Len(new.turns) > Len(old.turns)
  /\ Cuts(old, new) = {}

(* Mutants: the count is subtracted the wrong way round; the turn sequence *)
(* is not counted up.                                                      *)
AutoTurn_NegativeCount(old, msgs, r) ==
  [id    |-> <<r, Len(old.turns) + 1>>,
   seq   |-> LastSequence(old.turns) + 1,
   first |-> msgs[Len(old.msgs) + 1].seq,
   last  |-> msgs[Len(msgs)].seq,
   count |-> Len(old.msgs) - Len(msgs)]

AutoTurn_NotCounted(old, msgs, r) ==
  [id    |-> <<r, Len(old.turns) + 1>>,
   seq   |-> LastSequence(old.turns),
   first |-> msgs[Len(old.msgs) + 1].seq,
   last  |-> msgs[Len(msgs)].seq,
   count |-> Len(msgs) - Len(old.msgs)]

(* The turn that covers all new messages, for a caller that gave none. *)
AutoTurn(old, msgs, r) ==
  [id    |-> <<r, Len(old.turns) + 1>>,
   seq   |-> LastSequence(old.turns) + 1,
   first |-> msgs[Len(old.msgs) + 1].seq,
   last  |-> msgs[Len(msgs)].seq,
   count |-> Len(msgs) - Len(old.msgs)]

(* Mutant: the cursor over the new messages never moves on. *)
WindowedTurns_StuckCursor(old, new, turns, msgs) ==
  [t \in 1..Len(turns) |->
     IF t > Len(old.turns) /\ turns[t].count > 0
     THEN [turns[t] EXCEPT
             !.first = msgs[Len(old.msgs) + 1].seq,
             !.last  = msgs[Len(old.msgs) + turns[t].count].seq]
     ELSE turns[t]]

(* Each new turn takes its window from the messages it claims. *)
WindowedTurns(old, new, turns, msgs) ==
  LET cut == CHOOSE f \in Cuts(old, new) : TRUE
  IN [t \in 1..Len(turns) |->
        IF t > Len(old.turns) /\ turns[t].count > 0
        THEN [turns[t] EXCEPT
                !.first = IF @ = 0 THEN msgs[Len(old.msgs) + cut[t - 1] + 1].seq
                                   ELSE @,
                !.last  = IF @ = 0 THEN msgs[Len(old.msgs) + cut[t]].seq
                                   ELSE @]
        ELSE turns[t]]

NewTurns(old, new, msgs, r) ==
  IF Len(new.turns) = Len(old.turns)
  THEN Append(new.turns, AutoTurn(old, msgs, r))
  ELSE WindowedTurns(old, new,
         AssignSequences(new.turns, Len(old.turns), LastSequence(old.turns)),
         msgs)

(* Mutant: the snapshot is taken before the turn ledger is extended. *)
NewSnapshots_BeforeTurns(old, new, msgs, turns, r) ==
  IF Len(new.snaps) = Len(old.snaps)
  THEN Append(new.snaps,
              [id       |-> <<r, Len(old.snaps) + 1>>,
               seq      |-> LastSequence(old.snaps) + 1,
               messages |-> Len(msgs),
               turn     |-> LastSequence(old.turns)])
  ELSE new.snaps

NewSnapshots(old, new, msgs, turns, r) ==
  IF Len(new.snaps) = Len(old.snaps)
  THEN Append(new.snaps,
              [id       |-> <<r, Len(old.snaps) + 1>>,
               seq      |-> LastSequence(old.snaps) + 1,
               messages |-> Len(msgs),
               turn     |-> turns[Len(turns)].seq])
  ELSE new.snaps

Prepared(old, new, r) ==
  LET msgs  == NewMessages(old, new, r)
      turns == NewTurns(old, new, msgs, r)
      snaps == NewSnapshots(old, new, msgs, turns, r)
  IN IF Len(new.msgs) > Len(old.msgs)
     THEN [msgs |-> msgs, turns |-> turns, snaps |-> snaps]
     ELSE [new EXCEPT !.msgs = msgs]

-----------------------------------------------------------------------------
(* validateAppendOnlyState, run by the operator inside SaveState *)

(* Mutant: only sequences are compared, not IDs. *)
KeepsPrefix_NoIDs(old, new) ==
  /\ Len(new) >= Len(old)
  /\ \A i \in 1..Len(old) : old[i].seq > 0 /\ new[i].seq > 0
                              => new[i].seq = old[i].seq

KeepsPrefix(old, new) ==
  /\ Len(new) >= Len(old)
  /\ \A i \in 1..Len(old) :
       /\ new[i].id = old[i].id
       /\ old[i].seq > 0 => new[i].seq = old[i].seq

StrictlyIncreasing(items) ==
  \A i, j \in 1..Len(items) :
    i < j /\ items[i].seq # 0 /\ items[j].seq # 0 => items[i].seq < items[j].seq

validateAppendOnlyState(old, new) ==
  /\ KeepsPrefix(old.msgs, new.msgs)
  /\ KeepsPrefix(old.turns, new.turns)
  /\ KeepsPrefix(old.snaps, new.snaps)
  /\ StrictlyIncreasing(new.msgs)
  /\ StrictlyIncreasing(new.turns)
  /\ StrictlyIncreasing(new.snaps)

-----------------------------------------------------------------------------
(* Replay: the messages a turn stands for, <<>> where the code returns an  *)
(* error (a window it does return has at least one message)                *)

MessagesForTurn(l, t) ==
  LET at(seq) == {i \in 1..Len(l.msgs) : l.msgs[i].seq = seq}
      latest(S) == CHOOSE i \in S : \A j \in S : j <= i
      start == latest(at(t.first))
      end   == latest(at(t.last))
      window == SubSeq(l.msgs, start, end)
  IN IF \/ t.first = 0 \/ t.last = 0 \/ t.last < t.first
        \/ at(t.first) = {} \/ at(t.last) = {} \/ end < start
        \/ t.count > 0 /\ Len(window) # t.count
     THEN <<>>
     ELSE window

-----------------------------------------------------------------------------
(* The flow of one client *)

Init ==
  /\ live = {}
  /\ store = [s \in Sessions |-> EmptyLedger]
  /\ pc = [c \in Clients |-> "idle"]
  /\ on = [c \in Clients |-> NoSession]
  /\ data = [c \in Clients |-> EmptyLedger]
  /\ run = [c \in Clients |-> 0]
  /\ runs = 0
  /\ committed = {}
  /\ outcome = [c \in Clients |-> "none"]
  /\ view = [c \in Clients |-> "stale"]

(* The flow returns: what the client held is gone. *)
Return(c, result) ==
  /\ pc' = [pc EXCEPT ![c] = "idle"]
  /\ on' = [on EXCEPT ![c] = NoSession]
  /\ data' = [data EXCEPT ![c] = EmptyLedger]
  /\ outcome' = [outcome EXCEPT ![c] = result]

(* The ledger of s becomes l: clients that loaded s hold an old state. *)
Store(s, l, except) ==
  /\ store' = [store EXCEPT ![s] = l]
  /\ view' = [c \in Clients |->
                IF on[c] = s /\ c # except /\ l # store[s] THEN "stale"
                                                         ELSE view[c]]

Start(c, s, next, state, loaded) ==
  /\ pc[c] = "idle"
  /\ pc' = [pc EXCEPT ![c] = next]
  /\ on' = [on EXCEPT ![c] = s]
  /\ data' = [data EXCEPT ![c] = state]
  /\ outcome' = [outcome EXCEPT ![c] = "none"]
  /\ view' = [view EXCEPT ![c] = loaded]
  /\ UNCHANGED <<storeVars, run, runs, committed>>

(* session.Load finds the session. *)
Load(c, s) ==
  /\ s \in live
  /\ \E msgs \in LoadedMessages(store[s].msgs, ModeOf[c], NMessages) :
       Start(c, s, "run", [store[s] EXCEPT !.msgs = msgs],
             IF msgs = store[s].msgs THEN "whole" ELSE "part")

(* session.Load finds none: the flow goes on to session.New. *)
LoadMissing(c, s) ==
  /\ s \notin live
  /\ Start(c, s, "create", EmptyLedger, "whole")

(* The operator fails to load a session that exists (the in-memory one     *)
(* only when the context is cancelled, which aborts the flow soon after):  *)
(* the flow takes any failure for a missing session.                       *)
LoadFails(c, s) ==
  /\ s \in live
  /\ Start(c, s, "create", EmptyLedger, "stale")

(* The agent loop ends and the flow adds its messages and turn records. *)
RunLoop(c, b) ==
  /\ pc[c] = "run"
  /\ runs < MaxRuns
  /\ runs' = runs + 1
  /\ run' = [run EXCEPT ![c] = runs + 1]
  /\ data' = [data EXCEPT ![c] = WithBatch(data[c], b, runs + 1)]
  /\ pc' = [pc EXCEPT ![c] = "save"]
  /\ UNCHANGED <<storeVars, on, committed, outcome, view>>

(* Session.Save up to the call of the operator's SaveState: it reads what  *)
(* is stored, and refuses the state or completes it.  A session that is    *)
(* not live loads as nil, which counts as empty.                           *)
SaveTruncates(c) ==
  /\ pc[c] \in {"create", "save"}
  /\ Truncates(store[on[c]], data[c])
  /\ Return(c, "conflict")
  /\ UNCHANGED <<storeVars, run, runs, committed, view>>

SaveMismatch(c) ==
  /\ pc[c] \in {"create", "save"}
  /\ ~Truncates(store[on[c]], data[c])
  /\ TurnMismatch(store[on[c]], data[c])
  /\ Return(c, "malformed")
  /\ UNCHANGED <<storeVars, run, runs, committed, view>>

PrepareSave(c) ==
  /\ pc[c] \in {"create", "save"}
  /\ ~Truncates(store[on[c]], data[c])
  /\ ~TurnMismatch(store[on[c]], data[c])
  /\ data' = [data EXCEPT ![c] = Prepared(store[on[c]], data[c], run[c])]
  /\ pc' = [pc EXCEPT ![c] = IF pc[c] = "create" THEN "commitNew" ELSE "commit"]
  /\ UNCHANGED <<storeVars, on, run, runs, committed, outcome, view>>

(* Mutant: the operator stores whatever it is given. *)
Acceptable_Always(c) == TRUE

(* SaveState, under the operator's mutex.  A session that is not live is   *)
(* not validated.                                                          *)
Acceptable(c) ==
  on[c] \in live => validateAppendOnlyState(store[on[c]], data[c])

SaveRejected(c) ==
  /\ pc[c] \in {"commitNew", "commit"}
  /\ ~Acceptable(c)
  /\ Return(c, "conflict")
  /\ UNCHANGED <<storeVars, run, runs, committed, view>>

(* session.New has stored the initial state: the flow goes on with it. *)
CommitNew(c) ==
  /\ pc[c] = "commitNew"
  /\ Acceptable(c)
  /\ Store(on[c], data[c], c)
  /\ live' = live \cup {on[c]}
  /\ pc' = [pc EXCEPT ![c] = "run"]
  /\ UNCHANGED <<on, data, run, runs, committed, outcome>>

CommitSave(c) ==
  /\ pc[c] = "commit"
  /\ Acceptable(c)
  /\ Store(on[c], data[c], c)
  /\ live' = live \cup {on[c]}
  /\ committed' = committed \cup {run[c]}
  /\ Return(c, "saved")
  /\ UNCHANGED <<run, runs>>

(* The agent loop fails, or the context is cancelled before a store call. *)
Abort(c) ==
  /\ pc[c] # "idle"
  /\ Return(c, "aborted")
  /\ UNCHANGED <<storeVars, run, runs, committed, view>>

DeleteSession(s) ==
  /\ s \in live
  /\ live' = live \ {s}
  /\ Store(s, EmptyLedger, NoSession)
  /\ UNCHANGED <<clientVars, runs, committed, outcome>>

-----------------------------------------------------------------------------

Flow(c) ==
  \/ \E s \in Sessions : Load(c, s) \/ LoadMissing(c, s) \/ LoadFails(c, s)
  \/ \E b \in Batches : RunLoop(c, b)
  \/ SaveTruncates(c) \/ SaveMismatch(c) \/ PrepareSave(c)
  \/ SaveRejected(c) \/ CommitNew(c) \/ CommitSave(c)
  \/ Abort(c)

(* The code: nothing keeps DeleteSession from a session that a flow uses. *)
Next ==
  \/ \E c \in Clients : Flow(c)
  \/ \E s \in Sessions : DeleteSession(s)

Spec == Init /\ [][Next]_vars

(* Callers that delete a session only when no flow uses it. *)
Quiet(s) == \A c \in Clients : on[c] # s

QuietNext ==
  \/ \E c \in Clients : Flow(c)
  \/ \E s \in Sessions : Quiet(s) /\ DeleteSession(s)

QuietSpec == Init /\ [][QuietNext]_vars
-----------------------------------------------------------------------------
(* Properties *)

(* Every variable keeps its type; the clients of one state hold well       *)
(* formed session data at every step of Save.                              *)
TypeOK ==
  /\ live \subseteq Sessions
  /\ store \in [Sessions -> Ledger]
  /\ pc \in [Clients ->
               {"idle", "create", "commitNew", "run", "save", "commit"}]
  /\ on \in [Clients -> Sessions \cup {NoSession}]
  /\ \A c \in Clients : pc[c] # "idle" => on[c] \in Sessions
  /\ data \in [Clients -> Ledger]
  /\ run \in [Clients -> Nat]
  /\ runs \in Nat
  /\ committed \subseteq Nat
  /\ outcome \in [Clients ->
                   {"none", "saved", "conflict", "malformed", "aborted"}]
  /\ view \in [Clients -> {"whole", "part", "stale"}]

(* Message sequences are positions: however the loads and saves of the     *)
(* flows interleave, the k-th stored message has Sequence k.               *)
MessagesNumbered ==
  \A s \in Sessions : \A i \in 1..Len(store[s].msgs) :
    store[s].msgs[i].seq = i

(* SessionMessage.Sequence is "the monotonic position of this message":    *)
(* stored messages are in increasing order of Sequence.                    *)
MessagesMonotonic ==
  \A s \in Sessions : StrictlyIncreasing(store[s].msgs)

(* The same for the turn ledger and for the snapshots. *)
TurnsNumbered ==
  \A s \in Sessions :
    /\ \A i \in 1..Len(store[s].turns) : store[s].turns[i].seq = i
    /\ \A i \in 1..Len(store[s].snaps) : store[s].snaps[i].seq = i

(* The turn ledger replays the history: MessagesForTurn succeeds on every  *)
(* stored turn that has messages, and the windows it returns, in turn      *)
(* order, are the stored messages, none missing, none twice.               *)
TurnsReplayHistory ==
  \A s \in Sessions :
    LET l == store[s]
    IN FlattenSeq([t \in 1..Len(l.turns) |-> MessagesForTurn(l, l.turns[t])])
         = l.msgs

(* A snapshot is a checkpoint of a ledger that was really stored: it marks *)
(* the end of a turn, counts exactly the messages up to there, and the     *)
(* latest snapshot describes the ledger as it is.                          *)
SnapshotsMarkTurns ==
  \A s \in Sessions :
    LET l == store[s]
    IN /\ \A k \in 1..Len(l.snaps) :
            \E t \in 1..Len(l.turns) :
              /\ l.snaps[k].turn = l.turns[t].seq
              /\ l.snaps[k].messages = l.turns[t].last
       /\ l.msgs # <<>> =>
            /\ l.snaps # <<>>
            /\ l.snaps[Len(l.snaps)].messages = Len(l.msgs)
            /\ l.snaps[Len(l.snaps)].turn = LastSequence(l.turns)

(* A save is refused as an append-only violation only when the client did  *)
(* not see the ledger it extends: it loaded a part of it or failed to load *)
(* it, or somebody changed it since.                                       *)
ConflictMeansStale ==
  \A c \in Clients : outcome[c] = "conflict" => view[c] # "whole"

(* "persists every new model/tool message produced by the run": the save   *)
(* of a flow that loaded the session, by whatever strategy, is not refused *)
(* as long as nobody else changes that session.                            *)
LoneFlowSaves ==
  \A c \in Clients : outcome[c] = "conflict" => view[c] = "stale"

(* Nothing but deleting a session removes what is stored in it or puts     *)
(* something else in its place: messages, turns and snapshots alike only   *)
(* ever grow at their end, also when a session is deleted, and made anew,  *)
(* under a running flow.                                                   *)
Kept(old, new) ==
  Len(old) <= Len(new) /\ \A i \in 1..Len(old) : new[i].id = old[i].id

AppendOnly ==
  [][\A s \in Sessions :
       s \in live /\ s \in live' =>
         /\ Kept(store[s].msgs, store'[s].msgs)
         /\ Kept(store[s].turns, store'[s].turns)
         /\ Kept(store[s].snaps, store'[s].snaps)]_storeVars

(* A flow whose Save returned nil added its messages as one whole batch at *)
(* the end of the log, once; a flow that failed left no trace in it.       *)
Log == INSTANCE SessionLog WITH
         BatchSizes <- {b.n : b \in Batches},
         log  <- [s \in Sessions |->
                    [i \in 1..Len(store[s].msgs) |-> store[s].msgs[i].id]],
         done <- committed

ImplementsLog == Log!Spec
-----------------------------------------------------------------------------
(* The inductive invariant behind MessagesNumbered and ImplementsLog       *)

Saving(c) == pc[c] \in {"save", "commit"}

(* What is stored was committed, at the place it was numbered for. *)
StoredInv ==
  \A s \in Sessions :
    /\ s \notin live => store[s] = EmptyLedger
    /\ \A i \in 1..Len(store[s].msgs) :
         /\ store[s].msgs[i].seq = i
         /\ store[s].msgs[i].id[1] \in committed
         /\ store[s].msgs[i].id[2] = i

(* The run a client saves is its own, and not committed yet. *)
RunsInv ==
  /\ runs <= MaxRuns
  /\ committed \subseteq 1..runs
  /\ \A c \in Clients : Saving(c) => run[c] \in (1..runs) \ committed
  /\ \A c, d \in Clients :
       Saving(c) /\ Saving(d) /\ run[c] = run[d] => c = d

(* held: what a client about to save holds, of which the first v messages  *)
(* were loaded and the first k stored when Save looked, out of stored now. *)
Unnumbered(held, stored) ==
  \E v \in 0..stored :
    /\ v <= Len(held)
    /\ Len(held) - v \in {b.n : b \in Batches}
    /\ \A i \in (v + 1)..Len(held) : held[i] = NewMessage

NumberedFor(held, stored, r) ==
  \E v, k \in 0..stored :
    /\ v <= k /\ k <= Len(held)
    /\ Len(held) - v \in {b.n : b \in Batches}
    /\ \A i \in (v + 1)..k : held[i].id = NoID
    /\ \A i \in (k + 1)..Len(held) : held[i].id = <<r, i>> /\ held[i].seq = i

HeldBy(c) ==
  LET held   == data[c].msgs
      stored == Len(store[on[c]].msgs)
  IN /\ pc[c] \in {"create", "commitNew"} => held = <<>>
     /\ pc[c] = "run" => Len(held) <= stored
     /\ pc[c] = "save" => Unnumbered(held, stored)
     /\ pc[c] = "commit" => NumberedFor(held, stored, run[c])

HeldInv == \A c \in Clients : HeldBy(c)

IInv == StoredInv /\ RunsInv /\ HeldInv
=============================================================================
