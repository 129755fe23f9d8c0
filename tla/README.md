# Verification of genkit-cowork

TLA+ models of the session store, the media store, the flows, the background
workers and the file tools of `genkit-cowork`, TLC configurations that check them on
small instances, and TLAPS proofs of what matters most for every size. Paths below are relative to
the repository's root unless they name a `.tla` or `.cfg` file of this directory.

How to run: `tlc -config ledger_races.cfg MCSessionLedger.tla`, `tlapm
SessionLedger_proofs.tla`; the module of each configuration is in the table of §3. The list of runs, mutants, findings, hazards and theorems,
and the lines of source each definition stands for, are in `PROJECT.json`.

## 1. The system and its parts

A caller sends a message to a *flow*. The flow loads the session of a tenant,
runs the *agent loop* (model calls and tool executions) on its history, and
saves the extended history. A *heartbeat* does the same periodically. Sessions
live behind a `SessionOperator`: in memory, in files, or either of them wrapped by
the *vector operator*, which indexes new messages for semantic search in the
background. Images and documents in messages go to an *asset store*, and documents
are cut into chunks for the search. The model's *tools* read, edit and write
files and run commands. Everything on the way emits events on a synchronous *event bus*.

| Component | State it keeps | Operations | Module |
|---|---|---|---|
| `memory.Session` (`sessions.go`, `turns.go`, `snapshots.go`, `token_budget.go`) | none of its own; works on the `SessionState` a caller holds: messages, turns, snapshots, assets | `Get`, `Save`, `MessagesForTurn`, pruning on load | `SessionLedger`, `TokenBudget` |
| in-memory operator (`sessions.go`) | a map of states under one mutex | `LoadState`, `SaveState` (validates append-only), `DeleteSession` | `SessionLedger` |
| file operator (`file_sessions.go`) | `state.json` per session, a map of per-session locks | the same, `ListSessions`, `atomicWriteFile` | `FileSessions` |
| vector operator (`vector_sessions.go`) | bounded job queue, pending IDs, `indexed_ids.json`, the backend's documents in memory and in its file | `SaveState`, `DeleteSession`, the worker, searches | `VectorIndex` |
| message flow (`message.go`) | the session data of one run | load or create, run the loop, build messages and turns, save | `SessionLedger`, `AgentLoop` |
| agent loop and recorder (`agent_loop.go`, `agent_loop_recorder.go`) | the records of one run | `Generate` with hooks, `buildAgentLoopTurnRecords` | `AgentLoop` |
| heartbeat (`heartbeat.go`, `heartbeat_config.go`) | the `running` flag, the stop channel, the tick that waits | `Start`, `Wake`, `Stop`, `Run` within active hours | `Heartbeat`; its flow in `AgentLoop`, `SessionLedger` |
| event bus (`event.go`) | subscribers and their `removed` marks under an RWMutex | `Subscribe`, unsubscribe, `Emit` | `EventBus` |
| media assets (`file_assets.go`, `normalizeMediaParts` in `sessions.go`) | asset files, chunk indexes, an index file with one record per asset, references in the session | `Put`, `Load`, `ListAssets`, `DeleteSessionAssets`, the media part of `Save` | `MediaAssets` |
| file tools and bash (`tools/`) | the files they work on; a shell and its pipe | read with paging, edit with diff, write, bash with a deadline | `ToolCalls`, `Truncation`, `EditDiff` |
| media chunking (`media/shared.go`) | none | `chunk` | `TextChunks` |
| reply fan-out (`reply.go`) | none | one send per selected channel | not modelled |
| media loaders, heartbeat results, memory retrieval, skills, system prompt, utilities | none | format conversion, text assembly, searches | not modelled |

**How they interact.** Flows share nothing but the operator. `Save` calls the
operator twice (`LoadState`, `SaveState`) and holds no lock in between; the
operator's append-only validation is what keeps concurrent flows apart. The
vector operator calls its base operator first and the queue afterwards; its worker
shares `indexed_ids.json` and the backend with `DeleteSession`. `Heartbeat.Run`
is called from tickers, wake-ups and direct callers, and is made single-flight
by one atomic flag. The recorder is called from the goroutines of the tools of a
turn, which genkit runs at the same time, so that the file tools meet on one file. `Save`
puts the media of new messages into the asset store before it calls the operator;
loads of assets and `DeleteSessionAssets` come from elsewhere at any time. The bus
runs handlers in the emitter's goroutine, under the read lock.

**What is hard**, and which property speaks about it, is the list `hazards` of
`PROJECT.json`. In short:

- two flows on one session between load and save; the two operator calls of
  one `Save`; a deletion between any two steps; two first messages of a new
  session; loads that see only a part of the history (sessions);
- the lock map whose entries come and go, crashes around the rename, failing
  writes, a deletion that is half done when somebody lists the sessions, the order of
  the map's mutex and the session locks (files);
- a full queue, a job queued for a deleted session, a crash that loses queue
  and pending set, a failure between indexing and recording it, documents that are out
  of memory but still in the file (vector);
- attributing messages and tool executions to turns by position and by number,
  with system messages, resumed tool messages and interrupts around (agent loop);
- overlapping runs and a flag that must never be lost; stopping when a tick is
  always waiting; a tick that waited until the active hours were over (heartbeat);
- files, chunk indexes and records that are written one after the other, an index
  rewritten as a whole, a refused save that stored its media already, a deletion that
  meets other calls (assets);
- tool calls on one file without a lock, a file emptied before it is written, offsets
  of pages, line numbers of diffs, a deadline racing the end of a shell (tools);
- an unsubscribe during an emit; readers and writers keeping each other out (bus).

**What makes each part correct.** Sessions: messages, turns and snapshots only
grow, are numbered by position, and turns replay the history; a save is all or
nothing. Files: the same through crashes and failing writes, and every call
returns. Vector: what is recorded as indexed is searchable, nothing gets stuck,
everything is indexed in the end, a deleted session is gone. Agent loop: the counts
of the turn records cut the saved batch into the turns that happened. Heartbeat:
one flow at a time, every run answered, Stop works, few flows after hours. Assets: the
index names only what is there, what was put stays, what a stored message shows can be
loaded. Tools: what the model is told of the file and of the command is true. Chunks:
every character is in one. Bus: no call after unsubscribe, a successful emit reached
everybody in order.

## 2. Modules

```
SessionLog        what the store promises to flows: one atomic append per run
  ^ implemented by (INSTANCE, refinement mapping, property ImplementsLog)
SessionLedger     Session + in-memory operator + the flows' load/create/run/save
  MCSessionLedger       SessionLedger_proofs (and about TokenBudget)
TokenBudget       what a load under a token budget keeps
AppendStore       what an operator promises: atomic append, atomic removal
  ^ implemented by (property ImplementsStore)
FileSessions      the file operator
  MCFileSessions        FileSessions_proofs
VectorIndex       the vector operator and its worker
  MCVectorIndex         VectorIndex_proofs
MediaAssets       the asset store and the media part of Save
                        MediaAssets_proofs (and about TextChunks)
AgentLoop         one run of Generate after another, the recorder, the turn records
                        AgentLoop_proofs
Heartbeat         the scheduler and the active hours
                        Heartbeat_proofs
EventBus          the bus
                        EventBus_proofs
ToolCalls         concurrent calls of the read, edit, write and bash tools, over
  Truncation          what they show of a long text (EXTENDS)
  EditDiff            what an edit makes of a file, and its diff (EXTENDS)
  MCToolCalls           ToolCalls_proofs
TextChunks        the chunker
```

Definitions named `<Name>_<Something>` with the comment "Mutant" are plausible
mistakes in `<Name>`. They are used nowhere in a model: replacing `<Name>` by one
must make TLC report the property `PROJECT.json` lists with it.

### SessionLedger

A client is a goroutine that runs `handleMessage` or the heartbeat flow. Its steps
are those between which another goroutine can get at the store: `Start`, `Load`
(`Session.Get` with the pruning of its persistence mode), `LoadMissing`
and `LoadFails` (any error of the load is taken for a missing session, as in
`message.go:120`), `PrepareSave`/`CommitNew` (the initial save of a new session),
`RunLoop`, then `PrepareSave` (the first half of `Save`: the load at `sessions.go:446`,
IDs, sequences, turn windows, snapshot) and `CommitSave` or `SaveRejected` (the
operator's validation and store, one critical section). `SaveTruncates` and
`SaveMismatch` are the early returns of `Save`, `Abort` the errors of the loop.
`DeleteSession` may happen at any time in `Spec`, and in `QuietSpec` only when no
flow is at work on the session.

State: a ledger has messages (ID, sequence), turns (ID, sequence, window, count)
and snapshots. `view` records, for the properties only, how much of the ledger the
client saw when it loaded and whether anybody has changed it since.
A batch is what one agent loop adds: n messages and the `MessageCount` of each
turn record. `AgentLoop` shows which batches the two flows produce (counts that
add up); the instance also has the others, with which a direct caller of
`Save` may come. Under a token budget the ledger loads any suffix of at most n
messages. `TokenBudget` has the loop of `applyTokenBudget` itself, estimates and all, with
the `int` that its sum wraps around in.

### FileSessions

A caller loads a state, appends one message and saves it, or deletes a session. The
steps follow the code: look up the lock (`sessionLock`, under `f.mu`), acquire it,
check (read and validate), create, write and rename the temporary file, release.
`DeleteSession` is `os.RemoveAll` and then, while the session's lock is still held, the
deletion of the map's entry (`ForgetLock`). `os.RemoveAll` is not one step: it takes the
state file and the temporary files it finds one by one (`RemoveState`, `RemoveTemp`,
until `EntriesGone`), then the directory (`RemoveDir`), and fails if somebody has put a file
there meanwhile (`RemoveFails`), which a writer with another lock may. `ListSessions` looks
at the directories between any two of these steps. Each section under `f.mu` is one step. Locks are objects: a goroutine
that looked up a lock keeps it although the entry has gone. The map is keyed by
the session ID alone, as in the code, so two tenants share an entry. With
`Faults`, every read, write and removal can fail, and `Crash` stops the process
at any step: files stay, the lock map and all calls are lost. `WaitsFor` says which
callers a deletion waits for: nobody (the code), those of the session, or
those of the session ID.

### VectorIndex

Each section under `v.mu` and each backend call under `v.backendMu` is one step:
`BaseSave`, `Mark` (which messages are neither indexed nor pending), `Enqueue` or
`QueueFull`, and for the worker `Take`, `Index`, `Record`, `Clear` with their
failures. `DeleteSession` is `BaseDelete`, `BackendDelete`, `Forget`. The local backend
keeps its documents twice: `backend` is the map it searches, `saved` the file. Whatever
writes the file writes the whole map (`Persist`), and a deletion writes it only if it
has found a document to remove; if that fails (`BackendDeleteFails`) the documents are
gone from the map and still in the file, which `unsaved` remembers for the properties.
A crash loses queue and pending set, and the map is read from the file again.

### AgentLoop

One session, one run after another. `Begin` calls the loop with the stored messages
and, for `handleMessage`, the new user message; a run may resume an interrupted
turn. genkit's `Generate` (external) alternates `CallModel` and the tools of a
turn, which end in any order (`ToolEnds`, the recorder's `wrapTool`), answer or
interrupt. `buildAgentLoopTurnRecords` and its parts are the code's cursor loop
written as functions of positions. Each message carries the model call it belongs
to, which the code does not know: that is what the properties compare with.

### MediaAssets

One session. A client saves a message with one medium, loads an asset or deletes them
all. `StartPut` is `normalizeMediaParts` for a data URI: a fresh asset ID, then the steps of
`Put` (`WriteAsset`, `Process` and `WriteChunks` for a document, `LockIndex`, `WriteIndex`,
`FinishPut`), and `Commit`, in which the operator accepts the session or not. A client
whose save was refused still holds the path in its message and may save again
(`KeepPath`): `Save` then keeps the reference but derives the AssetID from the path,
which `IDInPath` models by what it gives. `FindAsset` begins a load, which marks the
record as ingested with the record it read before. `Delete` is `os.RemoveAll`: it
takes the entries it found one by one and fails if another has appeared (`RemoveDir`).
Only reading and rewriting the index are under `assetsMu`. `CallFails` fails any
step that touches the disk, `Crash` ends all calls. What the operator does with the
session is the single step `Commit`; its own interleavings are in `SessionLedger`.

### ToolCalls, Truncation, EditDiff

One file, several callers. A text is a sequence of lines; a line is a word with a
length, which may be `odd` (typographic characters that the fuzzy match takes away),
and a file has line endings and may have a byte order mark. An edit is `EditReads`,
`EditOpens` (the file is opened and thereby emptied) and `EditFills`; a write is
`WriteOpens` and `WriteFills`. Read goes from page to page with the offset that the
page before named (`ReadsPage`). Bash is the race of `ShellExits`, `ContextEnds`
(which kills the shell), `ShellReaped` (`Run` learns that the shell has ended, after which
the end of the context makes no difference) and `PipeCloses` (children may hold it), and
`BashReturns` reads the outcome as `Exec` does. `Truncation` has the two truncations and the page,
`EditDiff` matching, replacement and the diff with its line numbers. `met` tells the
properties which calls had company. The truncations take lines one by one until the
next does not fit, as the loops of `truncate.go` do.

### TextChunks

The windows of `chunk` as a set: the k-th begins at k times the step if the one before
did not reach the end. Neither state nor TLC: the theorems, in `MediaAssets_proofs`,
are about every text.

### Heartbeat, EventBus

`Heartbeat`: tickers (the goroutines of `Start`) wait in a `select` for the tick
channel, which holds one tick, or for the end; wakers call `Run` directly. `Run` is
split at the active-hours check, the compare-and-swap, the flow, the report and the
deferred reset. `now` is a clock that moves between any times of a day, forward to
another minute or over midnight; a tick carries the time at which it fired and `Run`
decides by that time, as in the code. `late` counts, for the property only, the flows
a runner has started since the hours ended.

`EventBus`: the handlers of one event type; calls of three kinds take the RWMutex,
a waiting writer keeps new readers out; a handler takes time and may fail. `live` is
the set subscribed when an emit began, which the code does not keep.
Handlers do not call the bus: one that did could block on its own emit, and no
handler in the repository does.

## 3. Runs

| Run | Module | Question | States |
|---|---|---|---|
| `ledger_races` | `MCSessionLedger` | Two flows on one session, every shape of batch, loads under a token budget large enough to see all and free to see less: is the ledger numbered, replayable, with true snapshots; is a save refused only if it did not see the whole ledger; does the ledger implement `SessionLog`? | 130 k |
| `ledger_deleted_under_flow` | `MCSessionLedger` | *violation*: sequences are not increasing after a deletion between a flow's load and the load of its `Save` | |
| `ledger_window_outgrown` | `MCSessionLedger` | *violation*: a lone flow is refused by its own save | |
| `file_faults` | `MCFileSessions` | Three callers, two tenants with one session ID, failing I/O and crashes: is the file never torn, is there one writer, are acknowledged saves kept, is each save one atomic append? | 48 k |
| `file_live` | `MCFileSessions` | Deletions at any time: does every call return; is a session listed without a state only while a save or a deletion of it is at work? | 180 k |
| `file_foreign_delete` | `MCFileSessions` | *violation*: another tenant's deletion costs an acknowledged save | |
| `vector_faults` | `MCVectorIndex` | Is everything recorded as indexed searchable, now and after a restart; has each pending message an owner; is nothing handed over twice without a failure; does a deletion leave only what jobs put there and what could not be taken out of the file; is everything indexed in the end? | 132 k |
| `loop_turns` | `AgentLoop` | Do the turn records cut the batch into the model calls' messages and carry their own tool executions? | 317 k |
| `heartbeat_overlap` | `Heartbeat` | Single flight, the flag's owner, flows after the active hours, one report per run, Stop | 246 k |
| `events_concurrent` | `EventBus` | No call after unsubscribe, complete emits, no call blocked for ever | 9 k |
| `assets_races` | `MediaAssets` | Saves, repeated saves, loads, deletions, a failure or a crash: is what was put kept, does the index tell the truth, can what a stored message shows be loaded? | 1.8 M |
| `tools_calls` | `MCToolCalls` | Two callers on one file: is a diff the difference, does an undisturbed edit change one place only, do the pages cover the file, does bash show the end of the output and tell a killed shell from one that was done? | 2.6 M |

**Bounds and why they are enough.** Two flows are enough for a stale read, as a
save only ever meets the ledger and not the other writers; three runs give a
history that a run extended, one that lost a race and one that follows both.
The batches have no, one and two turn records, counts that match, exceed and fall short.
A deletion under a flow needs one further run to show its effect. Files: the lock
hazards need a holder, a waiter with the old lock and a newcomer with the new one,
hence three callers; two tenants for the shared map. In `file_faults` deletions wait
until nobody uses the session ID: what a deletion under a waiting caller does to
`OneWriter`, `AcknowledgedKept` and `ImplementsStore` only `file_foreign_delete` shows. Vector: a queue of one is
full with the first waiting job; three messages, one of them without text, give a
job in work, a job queued and a message refused; two faults allow a failure and a
crash after it. Agent loop: with `MaxTurns` = 2 there are up to three model calls,
two tools can end in both orders, and sessions of more than three messages get no
further run. Heartbeat: three goroutines can be in `Run` at a time, one time of the
day within the hours and one after them give late ticks, late runs and the next
morning. Bus: an emitter, a writer that waits and a reader behind it. Assets: the index
hazards need two records and two writers; one asset has a file extension and one has
not, which decides what a repeated save makes of its path; one failure or crash, as
each is a state from which all else goes on. Tools: a line that is empty, two short
ones, one that fills a page and one that exceeds it, at most 3 lines and 5 bytes to a
page (so that each limit is met first in some text), one line of diff context in files
of up to five lines (so that lines are skipped between and after changes), both
line endings and a byte order mark; three calls let two overlap and a third see the
outcome. Counters (`MaxRuns`, `MaxSaves`, `MaxMessages`, `MaxFaults`, `MaxStored`,
`MaxHandlers`, `MaxCalls`, the number of `Assets`) bound the calls ever made, not
what a call may do. Deadlock is checked except where the system stops at such a
bound: the ledger runs (`MaxRuns`), `assets_races` (no ID left) and `tools_calls`
(`MaxCalls`).

Symmetry (clients, callers, locks) is used only in runs without liveness
properties, over constants that no property names. With two workers the longest run,
`tools_calls`, takes about two and a half minutes.

**Fairness.** Only where something must eventually happen:

- `FileSessions!Fairness`: goroutines that can run do; a lock that becomes free
  again and again is eventually granted (strong fairness of `Lock` and `RLock`),
  because Go's mutexes hand over to a waiter that starves.
- `VectorIndex!Scheduled`: the worker and the callers in a call are scheduled.
  `BusySpec` adds that the session is loaded and saved again and again: the
  code retries nothing by itself, so a message whose job was dropped, failed or
  lost waits for the next save. Without this `EventuallyIndexed` is false, and that is
  what the code accepts: "messages will be retried on next save" (`vector_sessions.go:143`).
  `concepts/memory.md:69` ("Every turn written to the session is also vectorised") is
  true only in that sense.
- `Heartbeat!Fairness`: the flow and `onResult` return; a `select` that finds the
  stop channel ready again and again takes it (strong fairness of
  `SelectEnd`), as Go chooses at random among ready channels. Weak fairness would
  not be enough when a tick is always waiting; until then a tick may
  still be run after Stop.
- `EventBus!Fairness`: handlers return; strong fairness of taking the lock, since
  `sync.RWMutex` lets the readers that waited go before the next writer and queues writers.

## 4. Findings

Three runs are expected to find a violation; each is a disagreement between the
code and something the repository says:

1. `ledger_deleted_under_flow` (`sessions.go:446`): a session deleted under a flow
   comes back with sequences 1..n, 1, 2, ... and refuses every later save.
2. `ledger_window_outgrown` (`sessions.go:473`): with a window shorter than the
   history every save is refused as a truncation, although pruning is documented as
   a read-time decision.
3. `file_foreign_delete` (`file_sessions.go:161`): the lock map is keyed without the
   tenant, so a tenant's deletion breaks the mutual exclusion of another
   tenant's writers and an acknowledged save is lost. `file_faults` shows the promise
   kept when deletions wait until nobody uses the ID, and `FileSessions_proofs` proves it.

Other things the models had to say of the code, which no run is spent on. The
properties are stated so that they hold with them, and say in their comments where
they make way:

- *Vector*: a job that waits or is at work while its session is deleted is neither
  dropped nor awaited (`vector_sessions.go:245`) and puts its messages back, although the comment
  at 234 says that the entries are removed. A deletion that cannot write the backend's
  file has taken the documents out of memory already: when it is tried again it finds
  nothing to remove, writes nothing and returns nil (`vector_backend.go:126`), and a
  restart reads the documents of the deleted session back. (With `late[s]` alone on its right
  side, `DeletedButForJobs` is violated in this way.) The property allows exactly
  these two.
- *Assets*: `Save` normalises stored messages again (`sessions.go:586`) and then takes the
  file name, extension included, for the AssetID, which `Load` does not know
  (`RefsResolve` allows no AssetID instead of a wrong one). A `Put` or `Load` that meets a
  deletion can write records of what is gone back into the index (`IndexIsTrue` makes
  way). Assets of a save that is refused for good stay behind. `AssetIngestFailed` is never set.
- *Files*: `ListSessions` takes no lock (`file_sessions.go:176`) and names a session without a
  state while its deletion is half done or its first save has only made the directory.
  `ListedHaveState` allows it while such a call is at work; a deletion or a first save that
  an I/O error cuts short leaves the session listed without a state.
- *Tools*: `os.WriteFile` empties the file first, so that a call in between reads
  nothing, and of two edits at once one is lost though both report success
  (`EditTellsTruth` speaks of the file only if nobody came in between, of the diff
  always). `stripBom` takes one of the mark's three bytes off (`edit_diff.go:144`), so that an edit
  leaves two stray bytes. A fuzzy match normalises the whole file, and mixed line
  endings become uniform, without the diff showing either. An output whose last line is
  too long and ends with a newline is shown as nothing at all (`truncate.go:227`). The first
  line of a page that is too long gives no next offset. A command that was killed at
  its deadline is reported with exit code -1 and no error; one that has exited with 0 but
  is not reaped yet, with -1 and an error; and `Run` waits for children that hold the
  pipe after the shell is gone (`bash.go:143`), past the deadline, and then reports the
  shell's own code.
- *Heartbeat*: hours whose end is before their start (22:00 to 06:00) contain no time
  (`heartbeat_config.go:66`). A run goes by the time of its tick: up to two flows of a
  ticker start after hours.
- *Bus*: removed subscribers stay in the list (`event.go:98`).
- *Flows*: a loop that fails stores nothing, although its tools have run
  (`agent_loop.go:228`); turns saved without messages keep sequence 0 (`sessions.go:569`).

## 5. Proofs

All theorems hold for any values of the constants that satisfy the named
assumptions (`LedgerAssumption` and so on), which exclude nothing but confusions of
values. Where a theorem needs more, it is an assumption on the callers. Runs 1 and 3 of §4
show why the ledger's (`QuietSpec`) and the file operator's (`WaitsForID`) are needed; for the
vector operator's (`DeletesWait`) no run is spent, and the reason is given below.

**`SessionLedger_proofs`.**

- `BudgetFits`: `applyTokenBudget` returns the longest suffix whose messages, each counted
  for one token at least, cost no more than the budget, for every history, budget and
  estimator. The loop is a recursive function; that its invariant (`Held`) holds after
  every message is an induction (`Induct`). The one premise is that no estimate plus the
  budget exceeds an `int` (`Summable`): beyond it `used+cost` wraps around and the loop
  keeps the message, as an estimator that says `math.MaxInt` for "never" would see
  of any message but the latest.
- `BudgetLoads`: under the same premise, and for a budget below half the largest `int`,
  `LoadedMessages`, which knows no estimators, is
  exactly the set of what `applyTokenBudget` returns under some estimator: the
  abstraction in the ledger neither loses a load nor adds one.
- `TypeCorrect`: `Spec => []TypeOK`. `Grows`: `Spec => AppendOnly`, that no step but a
  deletion removes or changes a stored entry, with deletions at any time.
- `Invariant`: `QuietSpec => []IInv`. `IInv` is needed because `MessagesNumbered` is
  not inductive: whether a save numbers its messages well depends on what it read
  several steps before. `StoredInv` says that stored entries carry the ID of a
  committed run and the position they are at; `RunsInv` that a run about to be
  saved is not committed and belongs to one client; `HeldInv` what a client holds at each
  program counter: a loaded prefix no longer than what is stored, then its own
  batch, unnumbered before `PrepareSave` and numbered from the length seen there
  afterwards. Since nobody deletes under a flow, the store only grows in
  between, and the validator's comparison of IDs refuses every client whose
  numbers are stale: an ID of an uncommitted run is at no place of the ledger.
- `Numbered`: `QuietSpec => []MessagesNumbered`.
- `TurnsCounted`: `QuietSpec => []TurnsNumbered`, for batches that have no turns without
  messages (`TurnsHaveMessages`): `Save` stores such turns with sequence 0
  (`sessions.go:569`). `TurnsInv` says of each client that the turns it holds beyond the
  stored ones are unnumbered before `PrepareSave` and numbered by their position
  after it. There is one exception, a client whose messages another flow has outgrown:
  `Save` finds nothing new and leaves its messages without an ID (`Unsaveable`),
  so that the validator refuses it.
- `SavesAtomic`: `QuietSpec => [][AtomicSave]_vars`: a save that succeeds stores the ledger
  of that moment extended by its own batch, although `Save` loaded before and prepared
  in between. `SaveInv` makes it inductive: `HeldFrom` says, at each program counter,
  that what a client holds was made by the operators of `Save` from what it loaded and
  what its `Save` read, that what it loaded is part of what was read, and that part of
  what is stored now; and where `view` says that the client saw the whole ledger, that
  all three are the same. If the validator accepts, what was read must be what is stored,
  because otherwise an ID of another run stands where this one's batch begins.
- By `SavesAtomic`, all that is ever stored is made by saves one after another, of which a
  property of the ledger need only be shown to be kept by one such save (`StoreStep`).
  So follow `TurnsReplay` (`TurnsReplayHistory`), for every batch, by which windows
  the cut of a batch gives its turns; and `SnapshotsMark` (`SnapshotsMarkTurns`), for batches
  whose turns all have messages: a snapshot taken at a turn without any marks
  the end of no turn.
- `ConflictsReal`: `QuietSpec => []ConflictMeansStale`, under `TurnsHaveMessages`: a client
  that `SaveInv` knows to hold the ledger as it is meets none of the reasons to refuse it.
- `Implements`: `QuietSpec => ImplementsLog`: `Init` maps to the empty log,
  `CommitSave` to one `Commit` of the whole batch, `DeleteSession` to `Delete`, and every
  other step to a stutter.

`QuietSpec` is an assumption about callers, and finding 1 shows that without it
`Numbered` is false.

**`FileSessions_proofs`.** `TypeCorrect` (never a torn file) for every behaviour.
`Excludes` (`OneWriter`), `Kept` (`AcknowledgedKept`) and `Implements`
(`ImplementsStore`) under `WaitsForID`, deletions that wait while anybody uses the session
ID; finding 3 shows why. `LockInv` has the argument about the lock map: who has looked up
a lock but not finished with it keeps its entry in the map (`MappedInv`), since only a
deletion removes it and waits for them, so that a newcomer finds the same lock and not a new
one (`AloneInv`, `HeldInv`). `DataInv` says that a writer between validation and
rename still extends what is stored, because nobody else can be there. `Listed`
(`ListedHaveState`) holds under unrestricted deletions if nothing fails: a directory
without a state belongs to a save or to a deletion at work. With two writers in one
directory this is not enough: a writer whose temporary file a deletion has taken will
fail. `ListedInv` therefore counts a writer only while it is about to create its file or
still has it, and `TempInv` says that nobody else has one, so that a deletion that fails
because the directory is not empty leaves the session to such a writer, or with a state.

**`VectorIndex_proofs`.** `TypeCorrect` and `Owned` (`PendingHasOwner`) without
further assumption. `Searchable` (`IndexedAreSearchable`), `Deleted`
(`DeletedButForJobs`) and `Once` (`HandedOnce`) under `DeletesWait`: the backend loses
documents only while a deletion is between removing the state and forgetting the
index, and then nobody may store the session anew. (A save that came in between would
find its messages in `indexed_ids.json` although the backend has none.) `FileInv` relates
the backend's map to its file: what only the file has was taken out of the map by a
deletion that could not write it (`unsaved`), so that a deletion that finds nothing in the map
leaves nothing else in the file. `HandedOnce` rests on `OnceInv`: a
message on its way to the backend is in one place only (`ApartInv`), pending while it is
stored (`WaitingInv`), and what waits, or would be taken up by the next save, has
been handed over at most once per failure (`HandInv`).

**`MediaAssets_proofs`.** `TypeCorrect`, `Kept` (`AcknowledgedKept`), `Resolved`
(`RefsResolve`) and `Truthful` (`IndexIsTrue`), all for every behaviour. `KeptInv`
follows a record through the rewriting of the index: the copy that the lock's holder
has read contains every acknowledged record (`CopyInv`), because nobody else writes
in between, unless it was deleted. `TruthInv` holds until a deletion meets another call.

**`AgentLoop_proofs`.** `TypeCorrect`, `CountsCutTurns` (`WindowsAreTurns`) and
`SummariesAreTheTurns` (`SummariesAreOwn`), for every limit on turns and tools. The loop
knows its turns by position only, so `IInv` (`RunsHaveShape`) says where everything is.
`RunShape`: a system message or none, the stored messages, the user's, perhaps
the restarted model message, then model messages each answered by a tool message,
the last one not while its tools run. `Recorded`: there is a cut of the tool records
into as many pieces as there are model messages, each piece the tools of its model call
in the order in which they ended and, once all have ended, as many as were asked for; without it
nothing says that the n-th piece taken by number belongs to the n-th turn. A run in which an
interrupted tool was restarted has records of no model message, and there `IInv`
keeps only `RunShape`. From the shape follow what `buildAgentLoopTurnRecords` computes, the
recursive functions included: the positions of the model messages (`Picked`), the
counts between them, and the cursor.

**`ToolCalls_proofs`.** `TypeCorrect`, `EditTrue` (`EditTellsTruth`), `PagesCover`
(`PagesCoverFile`) and `BashTrue` (`BashTellsTruth`), for any number of callers, files,
texts and limits. `IInv` says of each caller what its call is, by where it is in it
(`InCall`); that an edit which has emptied the file had a match, so that what it will
write is a text, and finds the file as empty as it left it if nobody came in between
(`EditTold`); and of a read that nobody has disturbed that its pages are the first lines
of the file and that the next offset is behind them (`ReadSoFar`). The rest of
`EditTrue` is about the edit as a function:

- *The place.* What matches literally matches when normalised too (`NormalPlaces`), and
  two matches that do not overlap are counted as two (`OccurrencesAre`, by induction over
  the lines left, as `strings.Split` goes on behind a match). So the edit changes the first
  match, and every other one overlaps it (`PlaceIs`, `EditMakes`).
- *The diff.* The backtracking through the table gives a path through both texts: change
  k leads from `a[k-1]` and `b[k-1]` tokens to `a[k]` and `b[k]`, an equal one along equal
  tokens (`Leads`, `ChangesLead`). It holds of any table: that the subsequence is
  the longest is neither needed nor claimed. The parts are that path cut into pieces
  (`Cuts`, `PartsCut`), so the line numbers that `generateDiffString` counts, the lines it
  skips included, are the positions on the path (`DiffTells`, `ShowingTells`). What is left
  of each text without the lines that are marked is then the same, by induction along
  the path (`WithoutSame`).
- *The first changed line.* Texts that differ have tokens that differ (`TokensTell`), so a
  path between them has a change; before the first one both texts agree (`SameSoFar`).

`PageIs` and `TailIs` are the lemmas about the truncations: each shows as many whole
lines as fit, and the offset of the next page is where this one ends.

**`Heartbeat_proofs`.** `TypeCorrect`, `OneFlow` (`SingleFlight`) and `FlagOwned`
(`FlagHasOwner`), which are inductive together; `HoursKept` (`FewFlowsAfterHours`) by
`LateInv`: flows started after hours, the run that may still start one and the tick
that waits add up to at most two for a ticker.

**`EventBus_proofs`.** `TypeCorrect` (with `RoomInv`, as the bound on subscriptions
needs what the subscribers in the lock are about to add), `Unsubscribed`
(`NoCallAfterUnsubscribe`) and `CallsAll` (`EmitCallsAll`) by `BusInv`: whoever goes
through the list holds the read lock, and at each position has called exactly the
handlers before it that were live when the emit began, for no mark is set in between.

**`TextChunks`** (in `MediaAssets_proofs`). `ChunksCover`, `ChunksFit`, `WindowsOverlap`:
every visible character is in a chunk, chunks lie within the text and the size,
neighbours share the overlap.

**Induction.** What a recursive function of a model computes is proved by stating it as
a set of numbers and showing that the set has 0 and each successor (`Induct` in the
ledger's, the loop's and the tools' proofs), from the library's theorem that
the order of the natural numbers is well founded.

**Only model-checked:** the properties that hold under fairness (`CallsReturn` twice,
`EventuallyIndexed`, `EveryRunReports`, `StopEndsTickers`), since liveness and `ENABLED`
are beyond the provers. Every invariant and every other action property of a
passing run is stated by a theorem.

## 6. What is not modelled

- *Sessions*: contents, origins, timestamps, checksums, token usage; IDs and
  sequences set by a caller of `Save`; saves of turns without messages. The ledger
  itself has no sums that wrap around (`TokenBudget` has).
- *File operator*: the tenant check; machine crashes (a directory is not synced after
  the rename); the temporary files a crash leaves behind.
- *Vector*: `Search` and `SearchTenant`, which change nothing; the over-fetching of the
  local backend; the JSON of `indexed_ids.json`.
- *Assets*: bytes, checksums and MIME types; parsing of documents, of which only the
  success matters; several sessions, which share nothing but the lock; an ID that is
  put twice, which no caller does.
- *Agent loop*: whether genkit calls the tool hook for a restarted tool: both are
  allowed, and `SummariesAreOwn` leaves such runs out. The merge of configurations.
- *Heartbeat results* and reply channels: one call without state each.
- *Bus*: handlers that change an event's payload or call the bus; several buses.
- *Tools*: images, the checks of paths and directories, the spawn hook, the
  temporary file of a truncated output; an old text that begins or ends within a line;
  memory retrieval, which only searches.
- *Media loaders, skills, system prompt, shell and path utilities*: format libraries,
  text assembly and string handling without state, where a model would repeat the code.

## 7. Plan

Done: every component with state of its own, with a run each; every safety
property that a run checks proved for all values of the constants.

What is left is *search*: the over-fetching of the vector operator's search and the
tenant's filter.

There is one run per question and the list is kept short on purpose: runs whose
question a theorem answers have given way to it.
