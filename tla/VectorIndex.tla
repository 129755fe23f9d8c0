---------------------------- MODULE VectorIndex ----------------------------
(***************************************************************************)
(* VectorOperator: saving and deleting sessions of one tenant while one    *)
(* worker indexes the new messages in the background, from a bounded queue *)
(* of jobs.  What is stored, indexed_ids.json and the file of the vector   *)
(* backend survive a crash; the queue, the set of pending IDs and the      *)
(* documents in the backend's memory, which it searches, do not.           *)
(*                                                                         *)
(* The base operator is one that stores a state in a single step, if it    *)
(* extends the stored one.  Each section under v.mu is one step, and so is *)
(* each call of the backend, under v.backendMu.                            *)
(***************************************************************************)
EXTENDS Naturals, Sequences, FiniteSets

CONSTANTS
  Clients,      \* the goroutines that call the operator
  Sessions,
  NoSession,    \* the session of an idle client
  HasText,      \* the messages with text: only those are indexed
  QueueSize,    \* capacity of the jobs channel (64)
  SharedRoot,   \* the base operator deletes the directory of indexed_ids.json
  DeletesWait,  \* sessions are deleted only while no client uses them
  MaxMessages,  \* bound on the messages ever created
  MaxFaults     \* bound on the failures and crashes

Messages == 1..MaxMessages

ASSUME VectorAssumption ==
  /\ NoSession \notin Sessions
  /\ MaxMessages \in Nat /\ MaxFaults \in Nat
  /\ QueueSize \in Nat \ {0}
  /\ HasText \subseteq Messages
  /\ SharedRoot \in BOOLEAN /\ DeletesWait \in BOOLEAN

VARIABLES
  stored,    \* stored[s]: the messages the base operator holds
  indexed,   \* indexed[s]: the contents of indexed_ids.json
  backend,   \* backend[s]: the messages with a document in docStore.Data
  saved,     \* saved[s]: those with one in the file docStore.Filename
  pending,   \* pending[s]: v.pending
  jobs,      \* the queue, a sequence of [session, ids]
  worker,    \* what the worker does with its job
  job,       \* the worker's job
  pc,        \* where the client is
  on,        \* the session the client works on
  held,      \* the state the client holds, then the IDs of its job
  created,   \* how many messages have been created
  faults,    \* how many failures and crashes there were
  handed,    \* history: handed[m]: how often m was given to the backend
  unsaved,   \* history: unsaved[s]: the messages a deletion took out of
             \* docStore.Data without being able to write the file
  deleted,   \* history: the sessions whose latest change is a deletion that
             \* returned nil
  late       \* history: late[s]: the messages the worker had or was to get
             \* when the latest deletion of s cleared the backend

docs    == <<backend, saved, unsaved>>
data    == <<stored, indexed, backend, saved, unsaved>>
queue   == <<pending, jobs>>
working == <<worker, job>>
client  == <<pc, on, held>>
history == <<handed, deleted, late>>
vars == <<stored, indexed, backend, saved, unsaved, pending, jobs, worker, job,
          pc, on, held, created, faults, handed, deleted, late>>

Job   == [session : Sessions, ids : SUBSET HasText]
NoJob == [session |-> NoSession, ids |-> {}]
-----------------------------------------------------------------------------

Init ==
  /\ stored  = [s \in Sessions |-> {}]
  /\ indexed = [s \in Sessions |-> {}]
  /\ backend = [s \in Sessions |-> {}]
  /\ saved   = [s \in Sessions |-> {}]
  /\ unsaved = [s \in Sessions |-> {}]
  /\ pending = [s \in Sessions |-> {}]
  /\ jobs = <<>>
  /\ worker = "take"
  /\ job = NoJob
  /\ pc = [c \in Clients |-> "idle"]
  /\ on = [c \in Clients |-> NoSession]
  /\ held = [c \in Clients |-> {}]
  /\ created = 0
  /\ faults = 0
  /\ handed = [m \in Messages |-> 0]
  /\ deleted = {}
  /\ late = [s \in Sessions |-> {}]

Goto(c, next) == pc' = [pc EXCEPT ![c] = next]

Return(c) ==
  /\ Goto(c, "idle")
  /\ on' = [on EXCEPT ![c] = NoSession]
  /\ held' = [held EXCEPT ![c] = {}]

Fails == faults < MaxFaults /\ faults' = faults + 1

Add(f, s, ids) == f' = [f EXCEPT ![s] = @ \cup ids]

Deleting(c) == pc[c] \in {"purge", "forget"}
-----------------------------------------------------------------------------
(* SaveState, of a state that was loaded before *)

Load(c, s) ==
  /\ pc[c] = "idle"
  /\ DeletesWait => \A d \in Clients : on[d] = s => ~Deleting(d)
  /\ Goto(c, "loaded")
  /\ on' = [on EXCEPT ![c] = s]
  /\ held' = [held EXCEPT ![c] = stored[s]]
  /\ UNCHANGED <<data, queue, working, created, faults, history>>

(* The flow adds n messages to what it loaded, and saves it all. *)
BaseSave(c, n) ==
  LET new == held[c] \cup (created + 1)..(created + n)
  IN /\ pc[c] = "loaded"
     /\ created + n <= MaxMessages
     /\ created' = created + n
     /\ stored[on[c]] \subseteq held[c]
     /\ stored' = [stored EXCEPT ![on[c]] = new]
     /\ held' = [held EXCEPT ![c] = new]
     /\ deleted' = deleted \ {on[c]}
     /\ late' = [late EXCEPT ![on[c]] = {}]
     /\ Goto(c, "mark")
     /\ UNCHANGED <<indexed, docs, queue, working, on, faults, handed>>

(* The base operator refuses the state, or fails to write it. *)
BaseRejects(c) ==
  /\ pc[c] = "loaded"
  /\ \/ ~(stored[on[c]] \subseteq held[c]) /\ UNCHANGED faults
     \/ Fails
  /\ Return(c)
  /\ UNCHANGED <<data, queue, working, created, history>>

(* Mutants: messages that have no text are not left out; messages that     *)
(* wait in the queue are not.                                              *)
Unindexed_NoTextToo(c) == held[c] \ (indexed[on[c]] \cup pending[on[c]])

Unindexed_IgnoresPending(c) == (held[c] \cap HasText) \ indexed[on[c]]

Unindexed(c) ==
  (held[c] \cap HasText) \ (indexed[on[c]] \cup pending[on[c]])

(* Under v.mu: find what is neither indexed nor pending, mark it pending. *)
Mark(c) ==
  /\ pc[c] = "mark"
  /\ Unindexed(c) # {}
  /\ Add(pending, on[c], Unindexed(c))
  /\ held' = [held EXCEPT ![c] = Unindexed(c)]
  /\ Goto(c, "enqueue")
  /\ UNCHANGED <<data, jobs, working, on, created, faults, history>>

MarkNothing(c) ==
  /\ pc[c] = "mark"
  /\ Unindexed(c) = {}
  /\ Return(c)
  /\ UNCHANGED <<data, queue, working, created, faults, history>>

(* indexed_ids.json cannot be read: SaveState fails, the state is stored. *)
MarkFails(c) ==
  /\ pc[c] = "mark"
  /\ Fails
  /\ Return(c)
  /\ UNCHANGED <<data, queue, working, created, history>>

Enqueue(c) ==
  /\ pc[c] = "enqueue"
  /\ Len(jobs) < QueueSize
  /\ jobs' = Append(jobs, [session |-> on[c], ids |-> held[c]])
  /\ Return(c)
  /\ UNCHANGED <<data, pending, working, created, faults, history>>

(* Mutant: a full queue leaves the messages pending. *)
QueueFull_StillPending(c) ==
  /\ pc[c] = "enqueue"
  /\ Len(jobs) >= QueueSize
  /\ Return(c)
  /\ UNCHANGED <<data, queue, working, created, faults, history>>

(* The job is dropped, the messages wait for the next save. *)
QueueFull(c) ==
  /\ pc[c] = "enqueue"
  /\ Len(jobs) >= QueueSize
  /\ pending' = [pending EXCEPT ![on[c]] = @ \ held[c]]
  /\ Return(c)
  /\ UNCHANGED <<data, jobs, working, created, faults, history>>
-----------------------------------------------------------------------------
(* processVectorIndexJobs *)

(* Mutant: the IDs of a job are recorded before the backend has them. *)
Take_Records ==
  /\ worker = "take"
  /\ jobs # <<>>
  /\ job' = Head(jobs)
  /\ jobs' = Tail(jobs)
  /\ Add(indexed, Head(jobs).session, Head(jobs).ids)
  /\ worker' = "index"
  /\ UNCHANGED <<stored, docs, pending, client, created, faults, history>>

Take ==
  /\ worker = "take"
  /\ jobs # <<>>
  /\ job' = Head(jobs)
  /\ jobs' = Tail(jobs)
  /\ worker' = "index"
  /\ UNCHANGED <<data, pending, client, created, faults, history>>

Handed ==
  handed' = [m \in Messages |-> handed[m] + IF m \in job.ids THEN 1 ELSE 0]

(* The whole of docStore.Data is written to the file, under another name,  *)
(* and renamed: what a deletion could not write before is written now.     *)
Persist ==
  /\ saved' = backend'
  /\ unsaved' = [s \in Sessions |-> unsaved[s] \cap backend'[s]]

Index ==
  /\ worker = "index"
  /\ Add(backend, job.session, job.ids)
  /\ Persist
  /\ Handed
  /\ worker' = "record"
  /\ UNCHANGED <<stored, indexed, queue, job, client, created, faults,
                 deleted, late>>

(* The backend fails, after it stored some of the documents, but did not   *)
(* write the file.                                                         *)
IndexFails ==
  /\ worker = "index"
  /\ Fails
  /\ \E some \in SUBSET job.ids : Add(backend, job.session, some)
  /\ Handed
  /\ worker' = "clear"
  /\ UNCHANGED <<stored, indexed, saved, unsaved, queue, job, client, created,
                 deleted, late>>

(* Under v.mu: the IDs are added to indexed_ids.json. *)
Record ==
  /\ worker = "record"
  /\ Add(indexed, job.session, job.ids)
  /\ worker' = "clear"
  /\ UNCHANGED <<stored, docs, queue, job, client, created, faults, history>>

RecordFails ==
  /\ worker = "record"
  /\ Fails
  /\ worker' = "clear"
  /\ UNCHANGED <<data, queue, job, client, created, history>>

(* Under v.mu, after success and failure alike. *)
Clear ==
  /\ worker = "clear"
  /\ pending' = [pending EXCEPT ![job.session] = @ \ job.ids]
  /\ job' = NoJob
  /\ worker' = "take"
  /\ UNCHANGED <<data, jobs, client, created, faults, history>>
-----------------------------------------------------------------------------
(* DeleteSession *)

BaseDelete(c, s) ==
  /\ pc[c] = "idle"
  /\ DeletesWait => \A d \in Clients : on[d] # s
  /\ on' = [on EXCEPT ![c] = s]
  /\ Goto(c, "purge")
  /\ stored' = [stored EXCEPT ![s] = {}]
  /\ indexed' = IF SharedRoot THEN [indexed EXCEPT ![s] = {}] ELSE indexed
  /\ deleted' = deleted \ {s}
  /\ UNCHANGED <<docs, queue, working, held, created, faults, handed, late>>

(* The messages of s in the jobs of the worker and of the queue. *)
InJobs(s) ==
  {m \in Messages :
     \/ \E i \in 1..Len(jobs) : jobs[i].session = s /\ m \in jobs[i].ids
     \/ job.session = s /\ m \in job.ids}

(* Mutant: the deletion leaves the file to the next one who writes it. *)
BackendDelete_InMemory(c) ==
  /\ pc[c] = "purge"
  /\ backend' = [backend EXCEPT ![on[c]] = {}]
  /\ late' = [late EXCEPT ![on[c]] = InJobs(on[c])]
  /\ Goto(c, "forget")
  /\ UNCHANGED <<stored, indexed, saved, unsaved, queue, working, on, held,
                 created, faults, handed, deleted>>

(* The file is written only if there was a document to remove. *)
BackendDelete(c) ==
  /\ pc[c] = "purge"
  /\ backend' = [backend EXCEPT ![on[c]] = {}]
  /\ IF backend[on[c]] # {} THEN Persist ELSE UNCHANGED <<saved, unsaved>>
  /\ late' = [late EXCEPT ![on[c]] = InJobs(on[c])]
  /\ Goto(c, "forget")
  /\ UNCHANGED <<stored, indexed, queue, working, on, held, created, faults,
                 handed, deleted>>

(* The call is cancelled, or the documents are removed and the file cannot *)
(* be written.                                                             *)
BackendDeleteFails(c) ==
  /\ pc[c] = "purge"
  /\ Fails
  /\ \/ UNCHANGED <<backend, unsaved>>
     \/ /\ backend' = [backend EXCEPT ![on[c]] = {}]
        /\ Add(unsaved, on[c], backend[on[c]] \cap saved[on[c]])
  /\ Return(c)
  /\ UNCHANGED <<stored, indexed, saved, queue, working, created, history>>

(* The file cannot be removed, the pending IDs are gone. *)
ForgetFails(c) ==
  /\ pc[c] = "forget"
  /\ Fails
  /\ pending' = [pending EXCEPT ![on[c]] = {}]
  /\ Return(c)
  /\ UNCHANGED <<data, jobs, working, created, history>>

(* Mutant: the deletion forgets indexed_ids.json. *)
Forget_KeepsIndex(c) ==
  /\ pc[c] = "forget"
  /\ pending' = [pending EXCEPT ![on[c]] = {}]
  /\ deleted' = deleted \cup {on[c]}
  /\ Return(c)
  /\ UNCHANGED <<data, jobs, working, created, faults, handed, late>>

(* Under v.mu: the pending IDs go, then indexed_ids.json. *)
Forget(c) ==
  /\ pc[c] = "forget"
  /\ pending' = [pending EXCEPT ![on[c]] = {}]
  /\ indexed' = [indexed EXCEPT ![on[c]] = {}]
  /\ deleted' = deleted \cup {on[c]}
  /\ Return(c)
  /\ UNCHANGED <<stored, docs, jobs, working, created, faults, handed, late>>
-----------------------------------------------------------------------------

(* The process dies, and is started again: localvec reads its file. *)
Crash ==
  /\ Fails
  /\ backend' = saved
  /\ pending' = [s \in Sessions |-> {}]
  /\ jobs' = <<>>
  /\ worker' = "take"
  /\ job' = NoJob
  /\ pc' = [c \in Clients |-> "idle"]
  /\ on' = [c \in Clients |-> NoSession]
  /\ held' = [c \in Clients |-> {}]
  /\ UNCHANGED <<stored, indexed, saved, unsaved, created, history>>

Work == Take \/ Index \/ IndexFails \/ Record \/ RecordFails \/ Clear

(* A client goes on with the call it is in. *)
Continue(c) ==
  \/ \E n \in 0..1 : BaseSave(c, n)
  \/ BaseRejects(c)
  \/ Mark(c) \/ MarkNothing(c) \/ MarkFails(c) \/ Enqueue(c) \/ QueueFull(c)
  \/ BackendDelete(c) \/ BackendDeleteFails(c)
  \/ Forget(c) \/ ForgetFails(c)

Next ==
  \/ \E c \in Clients :
       \/ \E s \in Sessions : Load(c, s) \/ BaseDelete(c, s)
       \/ Continue(c)
  \/ Work
  \/ Crash

Spec == Init /\ [][Next]_vars

(* The worker's goroutine and the callers' are scheduled. *)
Scheduled == WF_vars(Work) /\ \A c \in Clients : WF_vars(Continue(c))

LiveSpec == Spec /\ Scheduled

(* Besides, every session is saved again and again. *)
BusySpec ==
  LiveSpec /\ \A s \in Sessions : \E c \in Clients : SF_vars(Load(c, s))
-----------------------------------------------------------------------------
(* Properties *)

TypeOK ==
  /\ stored  \in [Sessions -> SUBSET Messages]
  /\ indexed \in [Sessions -> SUBSET HasText]
  /\ backend \in [Sessions -> SUBSET HasText]
  /\ saved   \in [Sessions -> SUBSET HasText]
  /\ unsaved \in [Sessions -> SUBSET HasText]
  /\ pending \in [Sessions -> SUBSET HasText]
  /\ jobs \in Seq(Job)
  /\ Len(jobs) <= QueueSize
  /\ worker \in {"take", "index", "record", "clear"}
  /\ IF worker = "take" THEN job = NoJob ELSE job \in Job
  /\ pc \in [Clients ->
              {"idle", "loaded", "mark", "enqueue", "purge", "forget"}]
  /\ on \in [Clients -> Sessions \cup {NoSession}]
  /\ \A c \in Clients : pc[c] = "idle" <=> on[c] = NoSession
  /\ held \in [Clients -> SUBSET Messages]
  /\ \A c \in Clients : pc[c] = "enqueue" => held[c] \subseteq HasText
  /\ created \in 0..MaxMessages
  /\ faults \in 0..MaxFaults
  /\ handed \in [Messages -> Nat]
  /\ deleted \subseteq Sessions
  /\ late \in [Sessions -> SUBSET HasText]

(* A stored message that indexed_ids.json lists, and that will therefore   *)
(* never be indexed again, can be found, now and after a restart: the      *)
(* backend has its document, and so has the backend's file.                *)
IndexedAreSearchable ==
  \A s \in Sessions :
    stored[s] \cap indexed[s] \subseteq backend[s] \cap saved[s]

(* A pending message is somebody's job, who will index it or give it up:   *)
(* none is left pending for ever, out of reach of the next save.           *)
PendingHasOwner ==
  \A s \in Sessions : \A m \in pending[s] :
    \/ \E c \in Clients : pc[c] = "enqueue" /\ on[c] = s /\ m \in held[c]
    \/ m \in InJobs(s)

(* A message is given to the backend again only because something failed   *)
(* or the process died, once for each time it did, however saves, retries, *)
(* the worker and deletions interleave: a search finds no more duplicates. *)
HandedOnce == \A m \in Messages : handed[m] <= 1 + faults

(* What a deleted session leaves behind, in the backend and its file and   *)
(* in indexed_ids.json, are messages of jobs the worker had or was to get  *)
(* while the backend was cleared, and documents that an earlier deletion   *)
(* removed without being able to write the file: the next one finds no     *)
(* document, writes nothing and returns nil, and a restart reads them      *)
(* back.  If there were neither, nothing is left of the session.           *)
DeletedButForJobs ==
  \A s \in deleted :
    backend[s] \cup saved[s] \cup indexed[s] \subseteq late[s] \cup unsaved[s]

(* Every message with text is indexed in the end, in the backend's file as *)
(* well, unless its session is deleted.                                    *)
EventuallyIndexed ==
  \A m \in HasText : \A s \in Sessions :
    m \in stored[s] ~> (m \in backend[s] \cap saved[s] \/ m \notin stored[s])
=============================================================================
