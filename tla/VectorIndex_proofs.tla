------------------------- MODULE VectorIndex_proofs -------------------------
(***************************************************************************)
(* Proofs about VectorIndex: type correctness and that every pending       *)
(* message has an owner, for every behaviour; and, when sessions are       *)
(* deleted only while no caller uses them, that what is recorded as        *)
(* indexed is searchable, that a deletion leaves nothing behind but for    *)
(* the jobs under way, and that nothing is handed over twice without a     *)
(* failure.                                                                *)
(***************************************************************************)
EXTENDS VectorIndex, SequenceTheorems, TLAPS

-----------------------------------------------------------------------------
(* Type correctness *)

LEMMA InitType == Init => TypeOK
BY VectorAssumption, EmptySeq
DEF Init, TypeOK, NoJob, Messages

(* The first job of a queue, and the queue without it. *)
LEMMA HeadFact ==
  ASSUME TypeOK, jobs # <<>>
  PROVE  /\ Len(jobs) \in Nat \ {0}
         /\ Head(jobs) = jobs[1] /\ jobs[1] \in Job
         /\ Tail(jobs) \in Seq(Job)
         /\ Len(Tail(jobs)) = Len(jobs) - 1
         /\ \A i \in 1..Len(Tail(jobs)) : Tail(jobs)[i] = jobs[i + 1]
<1>1. jobs \in Seq(Job)
  BY DEF TypeOK
<1>2. Len(jobs) \in Nat \ {0}
  BY <1>1, EmptySeq
<1>3. /\ Head(jobs) \in Job /\ Tail(jobs) \in Seq(Job)
      /\ Len(Tail(jobs)) = Len(jobs) - 1
      /\ \A i \in 1..Len(Tail(jobs)) : Tail(jobs)[i] = jobs[i + 1]
  BY <1>1, HeadTailProperties
<1>4. Head(jobs) = jobs[1]
  BY <1>1, <1>2
<1> QED
  BY <1>2, <1>3, <1>4

LEMMA InJobsType ==
  ASSUME TypeOK, NEW s \in Sessions
  PROVE  InJobs(s) \subseteq HasText
<1> SUFFICES ASSUME NEW m \in InJobs(s)
             PROVE  m \in HasText
  OBVIOUS
<1>1. ASSUME NEW i \in 1..Len(jobs), m \in jobs[i].ids
      PROVE  m \in HasText
  <2>1. jobs[i] \in Job
    BY ElementOfSeq DEF TypeOK
  <2> QED
    BY <1>1, <2>1 DEF Job
<1>2. CASE job.session = s /\ m \in job.ids
  BY <1>2, VectorAssumption DEF TypeOK, Job, NoJob
<1> QED
  BY <1>1, <1>2 DEF InJobs

LEMMA SaveType ==
  ASSUME TypeOK, NEW c \in Clients,
         \/ \E n \in 0..1 : BaseSave(c, n)
         \/ BaseRejects(c) \/ Mark(c) \/ MarkNothing(c) \/ MarkFails(c)
         \/ Enqueue(c) \/ QueueFull(c)
  PROVE  TypeOK'
<1> USE VectorAssumption DEF TypeOK, data, docs, queue, working, history
<1>1. ASSUME NEW n \in 0..1, BaseSave(c, n)
      PROVE  TypeOK'
  <2> DEFINE new == held[c] \cup (created + 1)..(created + n)
  <2>1. /\ pc[c] = "loaded" /\ on[c] \in Sessions
        /\ created' \in 0..MaxMessages
        /\ stored' = [stored EXCEPT ![on[c]] = new]
        /\ held' = [held EXCEPT ![c] = new]
    BY <1>1 DEF BaseSave, Messages
  <2>2. new \subseteq Messages
    BY <1>1 DEF BaseSave, Messages
  <2> HIDE DEF new
  <2> QED
    BY <1>1, <2>1, <2>2 DEF BaseSave, Goto
<1>2. CASE BaseRejects(c)
  <2>1. faults' \in 0..MaxFaults
    BY <1>2 DEF BaseRejects, Fails
  <2> QED
    BY <1>2, <2>1 DEF BaseRejects, Return, Goto
<1>3. CASE Mark(c)
  <2>1. Unindexed(c) \subseteq HasText /\ Unindexed(c) \subseteq Messages
    BY DEF Unindexed
  <2> QED
    BY <1>3, <2>1 DEF Mark, Add, Goto
<1>4. CASE MarkNothing(c)
  BY <1>4 DEF MarkNothing, Return, Goto
<1>5. CASE MarkFails(c)
  <2>1. faults' \in 0..MaxFaults
    BY <1>5 DEF MarkFails, Fails
  <2> QED
    BY <1>5, <2>1 DEF MarkFails, Return, Goto
<1>6. CASE Enqueue(c)
  <2>1. [session |-> on[c], ids |-> held[c]] \in Job
    BY <1>6 DEF Enqueue, Job
  <2>2. jobs' \in Seq(Job) /\ Len(jobs') = Len(jobs) + 1
    BY <1>6, <2>1, AppendProperties DEF Enqueue
  <2>3. Len(jobs') <= QueueSize
    BY <1>6, <2>2, LenProperties DEF Enqueue
  <2> QED
    BY <1>6, <2>2, <2>3 DEF Enqueue, Return, Goto
<1>7. CASE QueueFull(c)
  BY <1>7 DEF QueueFull, Return, Goto
<1> QED
  BY <1>1, <1>2, <1>3, <1>4, <1>5, <1>6, <1>7

LEMMA DeleteType ==
  ASSUME TypeOK, NEW c \in Clients,
         \/ \E s \in Sessions : Load(c, s) \/ BaseDelete(c, s)
         \/ BackendDelete(c) \/ BackendDeleteFails(c)
         \/ Forget(c) \/ ForgetFails(c)
  PROVE  TypeOK'
<1> USE VectorAssumption DEF TypeOK, data, docs, queue, working, history
<1>1. ASSUME NEW s \in Sessions, Load(c, s)
      PROVE  TypeOK'
  BY <1>1 DEF Load, Goto
<1>2. ASSUME NEW s \in Sessions, BaseDelete(c, s)
      PROVE  TypeOK'
  <2>1. indexed' \in [Sessions -> SUBSET HasText]
    BY <1>2 DEF BaseDelete
  <2> QED
    BY <1>2, <2>1 DEF BaseDelete, Goto
<1>3. CASE BackendDelete(c)
  <2>1. on[c] \in Sessions /\ InJobs(on[c]) \subseteq HasText
    BY <1>3, InJobsType DEF BackendDelete
  <2>2. /\ backend' \in [Sessions -> SUBSET HasText]
        /\ late' \in [Sessions -> SUBSET HasText]
    BY <1>3, <2>1 DEF BackendDelete
  <2>3. /\ saved' \in [Sessions -> SUBSET HasText]
        /\ unsaved' \in [Sessions -> SUBSET HasText]
    <3>1. CASE Persist
      BY <2>2, <3>1 DEF Persist
    <3>2. CASE UNCHANGED <<saved, unsaved>>
      BY <3>2
    <3> QED
      BY <1>3, <3>1, <3>2 DEF BackendDelete
  <2>4. /\ pc' = [pc EXCEPT ![c] = "forget"] /\ pc[c] = "purge"
        /\ UNCHANGED <<stored, indexed, pending, jobs, worker, job, on, held,
                       created, faults, handed, deleted>>
    BY <1>3 DEF BackendDelete, Goto
  <2> QED
    BY <2>2, <2>3, <2>4
<1>4. CASE BackendDeleteFails(c)
  <2>1. faults' \in 0..MaxFaults
    BY <1>4 DEF BackendDeleteFails, Fails
  <2>2. /\ backend' \in [Sessions -> SUBSET HasText]
        /\ unsaved' \in [Sessions -> SUBSET HasText]
    <3>1. CASE UNCHANGED <<backend, unsaved>>
      BY <3>1
    <3>2. CASE /\ backend' = [backend EXCEPT ![on[c]] = {}]
               /\ Add(unsaved, on[c], backend[on[c]] \cap saved[on[c]])
      <4>1. on[c] \in Sessions
        BY <1>4 DEF BackendDeleteFails
      <4>2. backend[on[c]] \cap saved[on[c]] \subseteq HasText
        BY <4>1
      <4> QED
        BY <3>2, <4>1, <4>2 DEF Add
    <3> QED
      BY <1>4, <3>1, <3>2 DEF BackendDeleteFails
  <2>3. /\ UNCHANGED <<stored, indexed, saved, pending, jobs, worker, job,
                       created, handed, deleted, late>>
        /\ Return(c)
    BY <1>4 DEF BackendDeleteFails
  <2> QED
    BY <2>1, <2>2, <2>3 DEF Return, Goto
<1>5. CASE Forget(c)
  BY <1>5 DEF Forget, Return, Goto
<1>6. CASE ForgetFails(c)
  <2>1. faults' \in 0..MaxFaults
    BY <1>6 DEF ForgetFails, Fails
  <2> QED
    BY <1>6, <2>1 DEF ForgetFails, Return, Goto
<1> QED
  BY <1>1, <1>2, <1>3, <1>4, <1>5, <1>6

LEMMA WorkType ==
  ASSUME TypeOK, Work
  PROVE  TypeOK'
<1> USE VectorAssumption DEF TypeOK, data, docs, queue, client, history
<1>1. CASE Take
  <2>1. jobs' \in Seq(Job) /\ Len(jobs') <= QueueSize /\ job' \in Job
    BY <1>1, HeadFact DEF Take
  <2> QED
    BY <1>1, <2>1 DEF Take
<1>2. worker # "take" => /\ job.session \in Sessions
                         /\ job.ids \subseteq HasText
  BY DEF Job
<1>3. CASE Index
  <2>1. handed' \in [Messages -> Nat]
    BY <1>3 DEF Index, Handed
  <2>2. /\ backend' \in [Sessions -> SUBSET HasText]
        /\ saved' \in [Sessions -> SUBSET HasText]
        /\ unsaved' \in [Sessions -> SUBSET HasText]
    BY <1>2, <1>3 DEF Index, Add, Persist
  <2> QED
    BY <1>3, <2>1, <2>2 DEF Index
<1>4. CASE IndexFails
  <2>1. handed' \in [Messages -> Nat]
    BY <1>4 DEF IndexFails, Handed
  <2>2. backend' \in [Sessions -> SUBSET HasText]
    BY <1>2, <1>4 DEF IndexFails, Add
  <2>3. faults' \in 0..MaxFaults
    BY <1>4 DEF IndexFails, Fails
  <2> QED
    BY <1>4, <2>1, <2>2, <2>3 DEF IndexFails
<1>5. CASE Record
  BY <1>2, <1>5 DEF Record, Add
<1>6. CASE RecordFails
  <2>1. faults' \in 0..MaxFaults
    BY <1>6 DEF RecordFails, Fails
  <2> QED
    BY <1>6, <2>1 DEF RecordFails
<1>7. CASE Clear
  BY <1>2, <1>7 DEF Clear
<1> QED
  BY <1>1, <1>3, <1>4, <1>5, <1>6, <1>7 DEF Work

LEMMA CrashType ==
  ASSUME TypeOK, Crash
  PROVE  TypeOK'
<1>1. faults' \in 0..MaxFaults
  BY VectorAssumption DEF Crash, Fails, TypeOK
<1>2. jobs' \in Seq(Job) /\ Len(jobs') = 0
  BY EmptySeq DEF Crash
<1> QED
  BY <1>1, <1>2, VectorAssumption
  DEF Crash, TypeOK, data, history, NoJob, Messages

LEMMA StepType == TypeOK /\ [Next]_vars => TypeOK'
<1> SUFFICES ASSUME TypeOK, [Next]_vars
             PROVE  TypeOK'
  OBVIOUS
<1>1. CASE UNCHANGED vars
  BY <1>1 DEF vars, TypeOK
<1>2. CASE Next
  BY <1>2, SaveType, DeleteType, WorkType, CrashType DEF Next, Continue
<1> QED
  BY <1>1, <1>2

(* Every variable keeps its type: in particular only messages with text    *)
(* are ever pending, in a job, in the index or in the backend.             *)
THEOREM TypeCorrect == Spec => []TypeOK
BY InitType, StepType, PTL DEF Spec

-----------------------------------------------------------------------------
(* Pending messages *)

LEMMA OwnerInit == Init => PendingHasOwner
BY DEF Init, PendingHasOwner

(* Taking a job from the queue moves it to the worker. *)
LEMMA TakeJobs ==
  ASSUME TypeOK, Take, NEW s \in Sessions
  PROVE  InJobs(s)' = InJobs(s)
<1>1. /\ jobs # <<>> /\ job = NoJob
      /\ job' = Head(jobs) /\ jobs' = Tail(jobs)
  BY DEF Take, TypeOK
<1>2. /\ Len(jobs) \in Nat \ {0} /\ job' = jobs[1]
      /\ Len(jobs') = Len(jobs) - 1
      /\ \A i \in 1..Len(jobs') : jobs'[i] = jobs[i + 1]
  BY <1>1, HeadFact
<1>3. ASSUME NEW m \in Messages
      PROVE  (\E i \in 1..Len(jobs) :
                jobs[i].session = s /\ m \in jobs[i].ids)
             <=> \/ \E i \in 1..Len(jobs') :
                      jobs'[i].session = s /\ m \in jobs'[i].ids
                 \/ job'.session = s /\ m \in job'.ids
  <2>1. ASSUME NEW i \in 1..Len(jobs), jobs[i].session = s, m \in jobs[i].ids
        PROVE  \/ \E j \in 1..Len(jobs') :
                    jobs'[j].session = s /\ m \in jobs'[j].ids
               \/ job'.session = s /\ m \in job'.ids
    <3>1. CASE i = 1
      BY <1>2, <2>1, <3>1
    <3>2. CASE i # 1
      <4>1. i - 1 \in 1..Len(jobs') /\ jobs'[i - 1] = jobs[i]
        BY <1>2, <3>2
      <4> QED
        BY <2>1, <4>1
    <3> QED
      BY <3>1, <3>2
  <2>2. ASSUME NEW i \in 1..Len(jobs')
        PROVE  i + 1 \in 1..Len(jobs) /\ jobs'[i] = jobs[i + 1]
    BY <1>2
  <2>3. 1 \in 1..Len(jobs)
    BY <1>2
  <2> QED
    BY <1>2, <2>1, <2>2, <2>3
<1>4. \A m \in Messages : ~(job.session = s /\ m \in job.ids)
  BY <1>1, VectorAssumption DEF NoJob
<1> QED
  BY <1>3, <1>4 DEF InJobs

LEMMA OwnerStep ==
  TypeOK /\ PendingHasOwner /\ [Next]_vars => PendingHasOwner'
<1> SUFFICES ASSUME TypeOK, PendingHasOwner, [Next]_vars,
                    NEW s \in Sessions, NEW m \in pending'[s]
             PROVE  \/ \E c \in Clients :
                         pc'[c] = "enqueue" /\ on'[c] = s /\ m \in held'[c]
                    \/ m \in InJobs(s)'
  BY DEF PendingHasOwner
<1> DEFINE Holds(c) == pc[c] = "enqueue" /\ on[c] = s /\ m \in held[c]
           Owned == (\E c \in Clients : Holds(c)) \/ m \in InJobs(s)
<1>1. m \in pending[s] => Owned
  BY DEF PendingHasOwner
<1>2. ASSUME NEW c \in Clients, Mark(c)
      PROVE  (\E d \in Clients : Holds(d)') \/ m \in InJobs(s)'
  <2>1. \A d \in Clients : Holds(d) => Holds(d)'
    BY <1>2 DEF Mark, Goto, TypeOK
  <2>2. InJobs(s)' = InJobs(s)
    BY <1>2 DEF Mark, InJobs, working
  <2>3. CASE m \in pending[s]
    BY <1>1, <2>1, <2>2, <2>3
  <2>4. CASE m \notin pending[s]
    BY <1>2, <2>4 DEF Mark, Add, Goto, TypeOK
  <2> QED
    BY <2>3, <2>4
<1>3. ASSUME NEW c \in Clients, Enqueue(c)
      PROVE  (\E d \in Clients : Holds(d)') \/ m \in InJobs(s)'
  <2>1. m \in pending[s] /\ job' = job
    BY <1>3 DEF Enqueue, working
  <2>2. /\ jobs \in Seq(Job) /\ [session |-> on[c], ids |-> held[c]] \in Job
        /\ jobs' = Append(jobs, [session |-> on[c], ids |-> held[c]])
    BY <1>3, VectorAssumption DEF Enqueue, TypeOK, Job
  <2>3. /\ Len(jobs) \in Nat /\ Len(jobs') = Len(jobs) + 1
        /\ \A i \in 1..Len(jobs) : jobs'[i] = jobs[i]
        /\ jobs'[Len(jobs) + 1] = [session |-> on[c], ids |-> held[c]]
    BY <2>2, AppendProperties, LenProperties
  <2>4. InJobs(s) \subseteq InJobs(s)'
    BY <2>1, <2>3 DEF InJobs
  <2>5. Holds(c) => m \in InJobs(s)'
    <3>1. on[c] = s /\ m \in held[c] =>
            \E i \in 1..Len(jobs') : jobs'[i].session = s /\ m \in jobs'[i].ids
      BY <2>3
    <3> QED
      BY <3>1 DEF InJobs, TypeOK
  <2>6. \A d \in Clients \ {c} : Holds(d) => Holds(d)'
    BY <1>3 DEF Enqueue, Return, Goto, TypeOK
  <2> QED
    BY <1>1, <2>1, <2>4, <2>5, <2>6
<1>4. ASSUME NEW c \in Clients, QueueFull(c)
      PROVE  (\E d \in Clients : Holds(d)') \/ m \in InJobs(s)'
  <2>1. InJobs(s)' = InJobs(s)
    BY <1>4 DEF QueueFull, InJobs, working
  <2>2. m \in pending[s] /\ ~Holds(c)
    BY <1>4 DEF QueueFull, TypeOK
  <2>3. \A d \in Clients \ {c} : Holds(d) => Holds(d)'
    BY <1>4 DEF QueueFull, Return, Goto, TypeOK
  <2> QED
    BY <1>1, <2>1, <2>2, <2>3
<1>5. CASE Take
  <2>1. InJobs(s) \subseteq InJobs(s)'
    BY <1>5, TakeJobs
  <2> QED
    BY <1>1, <1>5, <2>1 DEF Take, client
<1>6. CASE Clear
  <2>1. m \in pending[s] /\ ~(job.session = s /\ m \in job.ids)
    BY <1>6 DEF Clear, TypeOK
  <2>2. m \in InJobs(s) => m \in InJobs(s)'
    BY <1>6, <2>1 DEF Clear, InJobs
  <2> QED
    BY <1>1, <1>6, <2>1, <2>2 DEF Clear, client
<1>7. CASE Crash
  BY <1>7 DEF Crash, TypeOK
<1>8. ASSUME NEW c \in Clients, Forget(c) \/ ForgetFails(c)
      PROVE  (\E d \in Clients : Holds(d)') \/ m \in InJobs(s)'
  <2>1. m \in pending[s] /\ UNCHANGED <<jobs, job>>
    BY <1>8 DEF Forget, ForgetFails, working, TypeOK
  <2>2. \A d \in Clients : Holds(d) => Holds(d)'
    BY <1>8 DEF Forget, ForgetFails, Return, Goto, TypeOK
  <2>3. InJobs(s)' = InJobs(s)
    BY <2>1 DEF InJobs
  <2> QED
    BY <1>1, <2>1, <2>2, <2>3
<1>9. ASSUME NEW c \in Clients,
             \/ \E t \in Sessions : Load(c, t) \/ BaseDelete(c, t)
             \/ \E n \in 0..1 : BaseSave(c, n)
             \/ BaseRejects(c) \/ MarkNothing(c) \/ MarkFails(c)
             \/ BackendDelete(c) \/ BackendDeleteFails(c)
      PROVE  (\E d \in Clients : Holds(d)') \/ m \in InJobs(s)'
  <2>1. UNCHANGED <<pending, jobs, job>>
    BY <1>9
    DEF Load, BaseDelete, BaseSave, BaseRejects, MarkNothing, MarkFails,
        BackendDelete, BackendDeleteFails, queue, working
  <2>2. \A d \in Clients : Holds(d) => Holds(d)'
    BY <1>9, SMTT(30)
    DEF Load, BaseDelete, BaseSave, BaseRejects, MarkNothing, MarkFails,
        BackendDelete, BackendDeleteFails, Return, Goto, TypeOK
  <2>3. InJobs(s)' = InJobs(s)
    BY <2>1 DEF InJobs
  <2> QED
    BY <1>1, <2>1, <2>2, <2>3
<1>10. CASE Index \/ IndexFails \/ Record \/ RecordFails \/ UNCHANGED vars
  <2>1. UNCHANGED <<pending, jobs, job, pc, on, held>>
    BY <1>10 DEF Index, IndexFails, Record, RecordFails, vars, queue, client
  <2>2. InJobs(s)' = InJobs(s)
    BY <2>1 DEF InJobs
  <2> QED
    BY <1>1, <2>1, <2>2
<1> QED
  BY <1>2, <1>3, <1>4, <1>5, <1>6, <1>7, <1>8, <1>9, <1>10
  DEF Next, Continue, Work

(* No message is left pending without a job or a caller that will make     *)
(* one: each way out of a job or of SaveState makes it free again.         *)
THEOREM Owned == Spec => []PendingHasOwner
BY OwnerInit, OwnerStep, TypeCorrect, PTL DEF Spec

-----------------------------------------------------------------------------
(* The index and the backend                                               *)
(*                                                                         *)
(* What the worker is about to record must be in the backend, unless it is *)
(* no longer stored.  A deletion empties the backend under the worker, so  *)
(* the messages of a deleted session must never be stored again: what a    *)
(* client saves is what is stored and new messages, and new messages are   *)
(* in no index and in no job.                                              *)

KnownInv ==
  /\ \A s \in Sessions : stored[s] \subseteq 1..created
  /\ \A s \in Sessions : indexed[s] \subseteq 1..created
  /\ \A c \in Clients : held[c] \subseteq 1..created
  /\ \A i \in 1..Len(jobs) : jobs[i].ids \subseteq 1..created
  /\ job.ids \subseteq 1..created

LoadedInv ==
  \A c \in Clients : pc[c] = "loaded" => held[c] \subseteq stored[on[c]]

DeletingInv ==
  \A c \in Clients :
    Deleting(c) =>
      /\ stored[on[c]] = {}
      /\ \A d \in Clients : on[d] = on[c] => d = c

RecordInv ==
  worker = "record" => job.ids \cap stored[job.session] \subseteq
                         backend[job.session] \cap saved[job.session]

IInv ==
  /\ KnownInv /\ LoadedInv /\ DeletingInv /\ RecordInv
  /\ IndexedAreSearchable

LEMMA InitInv == Init => IInv
BY DEF Init, IInv, KnownInv, LoadedInv, DeletingInv, Deleting, RecordInv,
       IndexedAreSearchable, NoJob

LEMMA SaveInv ==
  ASSUME TypeOK, IInv, NEW c \in Clients, NEW n \in 0..1, BaseSave(c, n)
  PROVE  IInv'
<1> DEFINE fresh == (created + 1)..(created + n)
<1>1. /\ pc[c] = "loaded" /\ on[c] \in Sessions
      /\ created \in Nat /\ created' = created + n
      /\ held[c] = stored[on[c]]
      /\ stored' = [stored EXCEPT ![on[c]] = stored[on[c]] \cup fresh]
      /\ held' = [held EXCEPT ![c] = stored[on[c]] \cup fresh]
      /\ pc' = [pc EXCEPT ![c] = "mark"]
      /\ UNCHANGED <<indexed, backend, saved, pending, jobs, worker, job, on>>
  <2>1. /\ pc[c] = "loaded" /\ on[c] \in Sessions
        /\ created \in Nat /\ created' = created + n
    BY VectorAssumption DEF BaseSave, TypeOK
  <2>2. held[c] = stored[on[c]]
    BY <2>1 DEF BaseSave, IInv, LoadedInv
  <2> QED
    BY <2>1, <2>2 DEF BaseSave, Goto, docs, queue, working
<1>2. /\ fresh \cap (1..created) = {}
      /\ fresh \subseteq 1..created'
      /\ 1..created \subseteq 1..created'
  BY <1>1
<1> HIDE DEF fresh
<1>3. KnownInv'
  BY <1>1, <1>2 DEF IInv, KnownInv, TypeOK
<1>4. LoadedInv'
  BY <1>1 DEF IInv, LoadedInv, TypeOK
<1>5. DeletingInv'
  BY <1>1 DEF IInv, DeletingInv, Deleting, TypeOK
<1>6. RecordInv'
  <2>1. ASSUME worker = "record"
        PROVE  /\ job.session \in Sessions
               /\ job.ids \cap fresh = {}
               /\ job.ids \cap stored[job.session] \subseteq
                    backend[job.session] \cap saved[job.session]
    BY <1>2, <2>1 DEF IInv, KnownInv, RecordInv, TypeOK, Job
  <2>2. \A s \in Sessions : stored'[s] \subseteq stored[s] \cup fresh
    BY <1>1 DEF TypeOK
  <2> QED
    BY <1>1, <2>1, <2>2 DEF RecordInv
<1>7. IndexedAreSearchable'
  <2>1. \A s \in Sessions : /\ stored'[s] \subseteq stored[s] \cup fresh
                            /\ indexed[s] \cap fresh = {}
    BY <1>1, <1>2 DEF IInv, KnownInv, TypeOK
  <2> QED
    BY <1>1, <2>1 DEF IInv, IndexedAreSearchable
<1> QED
  BY <1>3, <1>4, <1>5, <1>6, <1>7 DEF IInv

LEMMA LoadInv ==
  ASSUME TypeOK, IInv, DeletesWait,
         NEW c \in Clients, NEW s \in Sessions, Load(c, s)
  PROVE  IInv'
<1>1. /\ on' = [on EXCEPT ![c] = s]
      /\ pc' = [pc EXCEPT ![c] = "loaded"]
      /\ held' = [held EXCEPT ![c] = stored[s]]
      /\ \A d \in Clients : on[d] = s => ~Deleting(d)
      /\ UNCHANGED <<stored, indexed, backend, saved, jobs, worker, job,
                     created>>
  BY DEF Load, Goto, data, queue, working
<1>2. KnownInv' /\ LoadedInv'
  BY <1>1 DEF IInv, KnownInv, LoadedInv, TypeOK
<1>3. DeletingInv'
  BY <1>1 DEF IInv, DeletingInv, Deleting, TypeOK
<1> QED
  BY <1>1, <1>2, <1>3 DEF IInv, RecordInv, IndexedAreSearchable

(* The steps of the calls that change neither what is stored, nor the      *)
(* worker's job.                                                           *)
LEMMA CallInv ==
  ASSUME TypeOK, IInv, NEW c \in Clients,
         \/ BaseRejects(c) \/ Mark(c) \/ MarkNothing(c) \/ MarkFails(c)
         \/ Enqueue(c) \/ QueueFull(c)
         \/ BackendDelete(c) \/ BackendDeleteFails(c)
         \/ Forget(c) \/ ForgetFails(c)
  PROVE  IInv'
<1>1. /\ pc[c] # "idle" /\ on[c] \in Sessions
      /\ UNCHANGED <<stored, worker, job, created>>
  BY DEF BaseRejects, Mark, MarkNothing, MarkFails, Enqueue, QueueFull,
         BackendDelete, BackendDeleteFails, Forget, ForgetFails, data,
         working, TypeOK
<1>2. /\ \A d \in Clients \ {c} :
           pc'[d] = pc[d] /\ on'[d] = on[d] /\ held'[d] = held[d]
      /\ \/ pc'[c] = "idle" /\ on'[c] = NoSession
         \/ pc'[c] = "enqueue" /\ on'[c] = on[c]
         \/ pc[c] = "purge" /\ pc'[c] = "forget" /\ on'[c] = on[c]
      /\ held'[c] \subseteq held[c]
  BY DEF BaseRejects, Mark, MarkNothing, MarkFails, Enqueue, QueueFull,
         BackendDelete, BackendDeleteFails, Forget, ForgetFails, Return, Goto,
         Unindexed, TypeOK
<1>3. \A i \in 1..Len(jobs') : jobs'[i].ids \subseteq 1..created
  <2>1. CASE Enqueue(c)
    <3>1. /\ jobs \in Seq(Job)
          /\ [session |-> on[c], ids |-> held[c]] \in Job
          /\ jobs' = Append(jobs, [session |-> on[c], ids |-> held[c]])
      BY <1>1, <2>1, VectorAssumption DEF Enqueue, TypeOK, Job
    <3>2. /\ Len(jobs) \in Nat /\ Len(jobs') = Len(jobs) + 1
          /\ \A i \in 1..Len(jobs) : jobs'[i] = jobs[i]
          /\ jobs'[Len(jobs) + 1].ids = held[c]
      BY <3>1, AppendProperties, LenProperties
    <3> QED
      BY <3>2 DEF IInv, KnownInv
  <2>2. CASE ~Enqueue(c)
    <3>1. jobs' = jobs
      BY <2>2
      DEF BaseRejects, Mark, MarkNothing, MarkFails, QueueFull, BackendDelete,
          BackendDeleteFails, Forget, ForgetFails, queue
    <3> QED
      BY <3>1 DEF IInv, KnownInv
  <2> QED
    BY <2>1, <2>2
<1>4. \A s \in Sessions :
        /\ indexed'[s] \subseteq indexed[s]
        /\ \/ backend[s] \cap saved[s] \subseteq backend'[s] \cap saved'[s]
           \/ s = on[c] /\ Deleting(c)
  BY DEF Persist, docs, BaseRejects, Mark, MarkNothing, MarkFails, Enqueue,
         QueueFull,
         BackendDelete, BackendDeleteFails, Forget, ForgetFails, data,
         Deleting, TypeOK
<1>5. KnownInv'
  BY <1>1, <1>2, <1>3, <1>4 DEF IInv, KnownInv
<1>6. LoadedInv'
  BY <1>1, <1>2 DEF IInv, LoadedInv
<1>7. DeletingInv'
  BY <1>1, <1>2, VectorAssumption DEF IInv, DeletingInv, Deleting, TypeOK
<1>8. \A s \in Sessions :
        \/ stored[s] = {}
        \/ backend[s] \cap saved[s] \subseteq backend'[s] \cap saved'[s]
  BY <1>4 DEF IInv, DeletingInv
<1>9. RecordInv'
  BY <1>1, <1>8 DEF IInv, RecordInv, TypeOK, Job
<1>10. IndexedAreSearchable'
  BY <1>1, <1>4, <1>8 DEF IInv, IndexedAreSearchable
<1> QED
  BY <1>5, <1>6, <1>7, <1>9, <1>10 DEF IInv

LEMMA BaseDeleteInv ==
  ASSUME TypeOK, IInv, DeletesWait,
         NEW c \in Clients, NEW s \in Sessions, BaseDelete(c, s)
  PROVE  IInv'
<1>1. /\ \A d \in Clients : on[d] # s
      /\ on' = [on EXCEPT ![c] = s]
      /\ pc' = [pc EXCEPT ![c] = "purge"]
      /\ stored' = [stored EXCEPT ![s] = {}]
      /\ \A t \in Sessions : indexed'[t] \subseteq indexed[t]
      /\ UNCHANGED <<backend, saved, jobs, worker, job, held, created>>
  BY DEF BaseDelete, Goto, docs, queue, working, TypeOK
<1>2. \A t \in Sessions : stored'[t] \subseteq stored[t]
  BY <1>1 DEF TypeOK
<1>3. KnownInv'
  BY <1>1, <1>2 DEF IInv, KnownInv
<1>4. LoadedInv'
  <2> SUFFICES ASSUME NEW d \in Clients, pc'[d] = "loaded"
               PROVE  held'[d] \subseteq stored'[on'[d]]
    BY DEF LoadedInv
  <2>1. d # c /\ pc[d] = "loaded" /\ on'[d] = on[d] /\ on[d] # s
    BY <1>1 DEF TypeOK
  <2>2. stored'[on[d]] = stored[on[d]]
    BY <1>1, <2>1, VectorAssumption DEF TypeOK
  <2> QED
    BY <1>1, <2>1, <2>2 DEF IInv, LoadedInv
<1>5. DeletingInv'
  <2> SUFFICES ASSUME NEW d \in Clients, Deleting(d)'
               PROVE  /\ stored'[on'[d]] = {}
                      /\ \A e \in Clients : on'[e] = on'[d] => e = d
    BY DEF DeletingInv
  <2>1. CASE d = c
    BY <1>1, <2>1 DEF TypeOK
  <2>2. CASE d # c
    <3>1. Deleting(d) /\ on'[d] = on[d] /\ on[d] \in Sessions /\ on[d] # s
      BY <1>1, <2>2, VectorAssumption DEF Deleting, TypeOK
    <3>2. stored'[on[d]] = stored[on[d]]
      BY <1>1, <3>1 DEF TypeOK
    <3> QED
      BY <1>1, <3>1, <3>2 DEF IInv, DeletingInv, TypeOK
  <2> QED
    BY <2>1, <2>2
<1>6. RecordInv'
  BY <1>1, <1>2 DEF IInv, RecordInv, TypeOK, Job
<1>7. IndexedAreSearchable'
  BY <1>1, <1>2 DEF IInv, IndexedAreSearchable
<1> QED
  BY <1>3, <1>4, <1>5, <1>6, <1>7 DEF IInv

LEMMA WorkInv ==
  ASSUME TypeOK, IInv, Work
  PROVE  IInv'
<1>1. UNCHANGED <<stored, pc, on, held, created>>
  BY DEF Work, Take, Index, IndexFails, Record, RecordFails, Clear, data,
         client
<1>2. LoadedInv' /\ DeletingInv'
  BY <1>1 DEF IInv, LoadedInv, DeletingInv, Deleting
<1>3. CASE Take
  <2>1. /\ Len(jobs) \in Nat \ {0} /\ job' = jobs[1]
        /\ Len(jobs') = Len(jobs) - 1
        /\ \A i \in 1..Len(jobs') : jobs'[i] = jobs[i + 1]
        /\ worker' = "index" /\ UNCHANGED <<indexed, backend, saved>>
    BY <1>3, HeadFact DEF Take, data
  <2>2. ASSUME NEW i \in 1..Len(jobs')
        PROVE  jobs'[i].ids \subseteq 1..created
    <3>1. i + 1 \in 1..Len(jobs) /\ jobs'[i] = jobs[i + 1]
      BY <2>1
    <3> QED
      BY <3>1 DEF IInv, KnownInv
  <2>3. KnownInv'
    BY <1>1, <2>1, <2>2 DEF IInv, KnownInv
  <2> QED
    BY <1>1, <1>2, <2>1, <2>3 DEF IInv, RecordInv, IndexedAreSearchable
<1>4. CASE Index
  <2>1. /\ job.session \in Sessions /\ worker' = "record"
        /\ backend' = [backend EXCEPT ![job.session] = @ \cup job.ids]
        /\ saved' = backend'
        /\ UNCHANGED <<indexed, jobs, job>>
    BY <1>4 DEF Index, Persist, Add, queue, TypeOK, Job
  <2>2. KnownInv' /\ RecordInv'
    BY <1>1, <2>1 DEF IInv, KnownInv, RecordInv, TypeOK
  <2>3. IndexedAreSearchable'
    BY <1>1, <2>1 DEF IInv, IndexedAreSearchable, TypeOK
  <2> QED
    BY <1>2, <2>2, <2>3 DEF IInv
<1>5. CASE IndexFails
  <2>1. /\ worker' = "clear" /\ UNCHANGED <<indexed, saved, jobs, job>>
        /\ \A s \in Sessions : backend[s] \subseteq backend'[s]
    BY <1>5 DEF IndexFails, Add, queue, TypeOK
  <2> QED
    BY <1>1, <1>2, <2>1
    DEF IInv, KnownInv, RecordInv, IndexedAreSearchable
<1>6. CASE Record
  <2>1. /\ job.session \in Sessions /\ worker = "record" /\ worker' = "clear"
        /\ indexed' = [indexed EXCEPT ![job.session] = @ \cup job.ids]
        /\ UNCHANGED <<backend, saved, jobs, job>>
    BY <1>6 DEF Record, Add, docs, queue, TypeOK, Job
  <2>2. KnownInv' /\ RecordInv'
    BY <1>1, <2>1 DEF IInv, KnownInv, RecordInv, TypeOK
  <2>3. IndexedAreSearchable'
    BY <1>1, <2>1 DEF IInv, RecordInv, IndexedAreSearchable, TypeOK
  <2> QED
    BY <1>2, <2>2, <2>3 DEF IInv
<1>7. CASE RecordFails \/ Clear
  <2>1. /\ worker' \in {"clear", "take"}
        /\ UNCHANGED <<indexed, backend, saved, jobs>>
        /\ job'.ids \subseteq job.ids
    BY <1>7 DEF RecordFails, Clear, data, queue, NoJob
  <2> QED
    BY <1>1, <1>2, <2>1
    DEF IInv, KnownInv, RecordInv, IndexedAreSearchable
<1> QED
  BY <1>3, <1>4, <1>5, <1>6, <1>7 DEF Work

LEMMA CrashInv ==
  ASSUME TypeOK, IInv, Crash
  PROVE  IInv'
BY DEF Crash, IInv, KnownInv, LoadedInv, DeletingInv, Deleting, RecordInv,
       IndexedAreSearchable, NoJob, data, TypeOK

LEMMA StepInv ==
  ASSUME DeletesWait
  PROVE  TypeOK /\ IInv /\ [Next]_vars => IInv'
<1> SUFFICES ASSUME TypeOK, IInv, [Next]_vars
             PROVE  IInv'
  OBVIOUS
<1>1. CASE UNCHANGED vars
  BY <1>1
  DEF vars, IInv, KnownInv, LoadedInv, DeletingInv, Deleting, RecordInv,
      IndexedAreSearchable
<1>2. CASE Next
  BY <1>2, SaveInv, LoadInv, CallInv, BaseDeleteInv, WorkInv, CrashInv
  DEF Next, Continue
<1> QED
  BY <1>1, <1>2

LEMMA Inductive ==
  ASSUME DeletesWait
  PROVE  Spec => []IInv
<1>1. TypeOK /\ IInv /\ [Next]_vars => IInv'
  BY StepInv
<1> QED
  BY <1>1, InitInv, TypeCorrect, PTL DEF Spec

(* If sessions are deleted only while no caller uses them, every stored    *)
(* message that is recorded as indexed is found by a search, whatever      *)
(* fails and wherever the process dies.                                    *)
THEOREM Searchable ==
  ASSUME DeletesWait
  PROVE  Spec => []IndexedAreSearchable
<1>1. IInv => IndexedAreSearchable
  BY DEF IInv
<1> QED
  BY <1>1, Inductive, PTL

-----------------------------------------------------------------------------
(* What a deletion leaves behind                                           *)
(*                                                                         *)
(* From the moment the backend is cleared until the session is saved       *)
(* again, what its jobs hold and what they have put back are messages      *)
(* that were in its jobs at that moment: no caller makes a new job.  What  *)
(* the file has and the memory has not was left there by a deletion that   *)
(* could not write it, so a deletion that finds the memory empty leaves    *)
(* nothing else in the file.                                               *)

FileInv == \A s \in Sessions : saved[s] \subseteq backend[s] \cup unsaved[s]

LEMMA FileInit == Init => FileInv
BY DEF Init, FileInv

LEMMA FileStep == TypeOK /\ FileInv /\ [Next]_vars => FileInv'
<1> SUFFICES ASSUME TypeOK, FileInv, [Next]_vars
             PROVE  FileInv'
  OBVIOUS
<1>1. CASE UNCHANGED <<backend, saved, unsaved>>
  BY <1>1 DEF FileInv
<1>2. CASE Index \/ Crash
  BY <1>2 DEF Index, Persist, Crash, FileInv, TypeOK
<1>3. CASE IndexFails
  BY <1>3 DEF IndexFails, Add, FileInv, TypeOK
<1>4. ASSUME NEW c \in Clients, BackendDelete(c)
      PROVE  FileInv'
  <2>1. CASE backend[on[c]] = {}
    <3>1. \A s \in Sessions : backend'[s] = backend[s]
      BY <1>4, <2>1 DEF BackendDelete, TypeOK
    <3> QED
      BY <1>4, <2>1, <3>1 DEF BackendDelete, FileInv
  <2>2. CASE backend[on[c]] # {}
    BY <1>4, <2>2 DEF BackendDelete, Persist, FileInv
  <2> QED
    BY <2>1, <2>2
<1>5. ASSUME NEW c \in Clients, BackendDeleteFails(c)
      PROVE  FileInv'
  BY <1>5 DEF BackendDeleteFails, Add, FileInv, TypeOK
<1>6. ASSUME NEW c \in Clients,
             \/ \E s \in Sessions : Load(c, s) \/ BaseDelete(c, s)
             \/ \E n \in 0..1 : BaseSave(c, n)
             \/ BaseRejects(c) \/ Mark(c) \/ MarkNothing(c) \/ MarkFails(c)
             \/ Enqueue(c) \/ QueueFull(c) \/ Forget(c) \/ ForgetFails(c)
      PROVE  UNCHANGED <<backend, saved, unsaved>>
  BY <1>6
  DEF Load, BaseDelete, BaseSave, BaseRejects, Mark, MarkNothing, MarkFails,
      Enqueue, QueueFull, Forget, ForgetFails, data, docs
<1>7. CASE Take \/ Record \/ RecordFails \/ Clear \/ UNCHANGED vars
  BY <1>1, <1>7 DEF Take, Record, RecordFails, Clear, vars, data, docs
<1> QED
  BY <1>1, <1>2, <1>3, <1>4, <1>5, <1>6, <1>7 DEF Next, Continue, Work

Cleared(s) ==
  s \in deleted \/ \E c \in Clients : pc[c] = "forget" /\ on[c] = s

LeftInv ==
  \A s \in Sessions :
    /\ Cleared(s) =>
         /\ InJobs(s) \subseteq late[s]
         /\ backend[s] \cup saved[s] \subseteq late[s] \cup unsaved[s]
    /\ s \in deleted =>
         /\ indexed[s] \subseteq late[s]
         /\ \A c \in Clients : on[c] = s => pc[c] = "loaded"

(* Of s only new gets into memory or file, and what a deletion could not   *)
(* take out of the file is known as long as it is there.                   *)
Keeps(s, new) ==
  /\ backend'[s] \cup saved'[s] \subseteq backend[s] \cup saved[s] \cup new
  /\ unsaved[s] \cap (backend'[s] \cup saved'[s]) \subseteq unsaved'[s]

LEMMA LeftInit == Init => LeftInv
BY DEF Init, LeftInv, Cleared

LEMMA LeftWork ==
  ASSUME TypeOK, LeftInv, Work
  PROVE  LeftInv'
<1>1. UNCHANGED <<pc, on, deleted, late>>
  BY DEF Work, Take, Index, IndexFails, Record, RecordFails, Clear, client,
         history
<1>2. \A s \in Sessions : Cleared(s)' = Cleared(s)
  BY <1>1 DEF Cleared
<1>3. \A s \in Sessions : InJobs(s)' \subseteq InJobs(s)
  <2>1. CASE Take
    BY <2>1, TakeJobs
  <2>2. CASE ~Take
    <3>1. /\ jobs' = jobs
          /\ \/ job' = job
             \/ job'.ids = {}
      BY <2>2
      DEF Work, Index, IndexFails, Record, RecordFails, Clear, queue, NoJob
    <3> QED
      BY <3>1 DEF InJobs
  <2> QED
    BY <2>1, <2>2
<1>4. ASSUME NEW s \in Sessions
      PROVE  /\ Keeps(s, InJobs(s))
             /\ indexed'[s] \subseteq indexed[s] \cup InJobs(s)
  <2>1. worker # "take" => /\ job.session \in Sessions
                           /\ job.ids \subseteq InJobs(job.session)
    BY VectorAssumption DEF InJobs, TypeOK, Job
  <2>2. CASE Index \/ IndexFails
    <3>1. PICK some \in SUBSET job.ids :
            backend' = [backend EXCEPT ![job.session] = @ \cup some]
      BY <2>2 DEF Index, IndexFails, Add
    <3>2. worker # "take" /\ UNCHANGED indexed
      BY <2>2 DEF Index, IndexFails
    <3>3. \/ saved' = backend' /\ unsaved'[s] = unsaved[s] \cap backend'[s]
          \/ UNCHANGED <<saved, unsaved>>
      BY <2>2 DEF Index, IndexFails, Persist
    <3>4. backend'[s] \subseteq backend[s] \cup InJobs(s)
      BY <2>1, <3>1, <3>2 DEF TypeOK
    <3> QED
      BY <3>2, <3>3, <3>4 DEF Keeps
  <2>3. CASE Record
    BY <2>1, <2>3 DEF Record, Add, Keeps, docs, TypeOK
  <2>4. CASE Take \/ RecordFails \/ Clear
    BY <2>4 DEF Take, RecordFails, Clear, Keeps, data
  <2> QED
    BY <2>2, <2>3, <2>4 DEF Work
<1> QED
  BY <1>1, <1>2, <1>3, <1>4 DEF LeftInv, Cleared, Keeps

(* A job adds its messages to those of its session, and of no other.       *)
LEMMA EnqueueJobs ==
  ASSUME TypeOK, NEW c \in Clients, Enqueue(c),
         NEW s \in Sessions, s # on[c]
  PROVE  InJobs(s)' = InJobs(s)
<1>1. /\ jobs \in Seq(Job) /\ [session |-> on[c], ids |-> held[c]] \in Job
      /\ jobs' = Append(jobs, [session |-> on[c], ids |-> held[c]])
      /\ job' = job
  BY VectorAssumption DEF Enqueue, TypeOK, Job, working
<1>2. /\ Len(jobs) \in Nat /\ Len(jobs') = Len(jobs) + 1
      /\ \A i \in 1..Len(jobs) : jobs'[i] = jobs[i]
      /\ jobs'[Len(jobs) + 1].session = on[c]
  BY <1>1, AppendProperties, LenProperties
<1>3. ASSUME NEW m \in Messages
      PROVE  (\E i \in 1..Len(jobs) :
                jobs[i].session = s /\ m \in jobs[i].ids)
             <=> \E i \in 1..Len(jobs') :
                   jobs'[i].session = s /\ m \in jobs'[i].ids
  BY <1>2
<1> QED
  BY <1>1, <1>3 DEF InJobs

LEMMA LeftCall ==
  ASSUME TypeOK, IInv, FileInv, LeftInv, NEW c \in Clients, Continue(c)
  PROVE  LeftInv'
<1>1. pc[c] # "idle" /\ on[c] \in Sessions /\ UNCHANGED <<worker, job>>
  BY DEF Continue, BaseSave, BaseRejects, Mark, MarkNothing, MarkFails, Enqueue,
         QueueFull, BackendDelete, BackendDeleteFails, Forget, ForgetFails,
         working, TypeOK
<1>2. \A d \in Clients \ {c} : pc'[d] = pc[d] /\ on'[d] = on[d]
  BY DEF Continue, BaseSave, BaseRejects, Mark, MarkNothing, MarkFails, Enqueue,
         QueueFull, BackendDelete, BackendDeleteFails, Forget, ForgetFails,
         Return, Goto, TypeOK
<1>3. on'[c] \in {on[c], NoSession}
  BY DEF Continue, BaseSave, BaseRejects, Mark, MarkNothing, MarkFails, Enqueue,
         QueueFull, BackendDelete, BackendDeleteFails, Forget, ForgetFails,
         Return, Goto, TypeOK
<1>4. ASSUME NEW s \in Sessions, s # on[c]
      PROVE  /\ Cleared(s)' = Cleared(s)
             /\ (s \in deleted)' = (s \in deleted)
             /\ Keeps(s, {}) /\ indexed'[s] = indexed[s]
             /\ late'[s] = late[s]
             /\ InJobs(s)' = InJobs(s)
             /\ \A d \in Clients : on'[d] = s => on[d] = s /\ pc'[d] = pc[d]
  <2>1. /\ (s \in deleted)' = (s \in deleted)
        /\ backend'[s] = backend[s] /\ indexed'[s] = indexed[s]
        /\ late'[s] = late[s]
        /\ \/ saved' = backend' /\ unsaved'[s] = unsaved[s] \cap backend'[s]
           \/ saved'[s] = saved[s] /\ unsaved'[s] = unsaved[s]
    BY <1>1, <1>4
    DEF Continue, BaseSave, BaseRejects, Mark, MarkNothing, MarkFails, Enqueue,
        QueueFull, BackendDelete, BackendDeleteFails, Forget, ForgetFails,
        Persist, Add, data, docs, history, TypeOK
  <2>2. on'[c] # s /\ on[c] # s
    BY <1>3, <1>4, VectorAssumption
  <2>3. InJobs(s)' = InJobs(s)
    <3>1. CASE Enqueue(c)
      BY <1>1, <1>4, <3>1, EnqueueJobs
    <3>2. CASE ~Enqueue(c)
      <4>1. jobs' = jobs
        BY <3>2
        DEF Continue, BaseSave, BaseRejects, Mark, MarkNothing, MarkFails,
            QueueFull, BackendDelete, BackendDeleteFails, Forget, ForgetFails,
            queue
      <4> QED
        BY <1>1, <4>1 DEF InJobs
    <3> QED
      BY <3>1, <3>2
  <2> QED
    BY <1>2, <2>1, <2>2, <2>3 DEF Cleared, Keeps
<1>5. ASSUME NEW s \in Sessions, s = on[c]
      PROVE  /\ Cleared(s)' =>
                  /\ InJobs(s)' \subseteq late'[s]
                  /\ backend'[s] \cup saved'[s] \subseteq
                       late'[s] \cup unsaved'[s]
             /\ s \in deleted' =>
                  /\ indexed'[s] \subseteq late'[s]
                  /\ \A d \in Clients : on'[d] = s => pc'[d] = "loaded"
  <2>1. Deleting(c) => \A d \in Clients \ {c} : on'[d] # s
    BY <1>2, <1>5 DEF IInv, DeletingInv
  <2>2. s \in deleted => pc[c] = "loaded"
    BY <1>5 DEF LeftInv
  <2>3. CASE BackendDelete(c)
    <3>1. /\ backend'[s] = {} /\ late'[s] = InJobs(s)
          /\ UNCHANGED <<jobs, job, deleted>>
      BY <1>1, <1>5, <2>3 DEF BackendDelete, queue, working, TypeOK
    <3>2. InJobs(s)' = InJobs(s) /\ s \notin deleted
      BY <2>2, <2>3, <3>1 DEF InJobs, BackendDelete
    <3>3. saved'[s] \subseteq unsaved'[s]
      <4>1. CASE backend[s] = {}
        BY <1>5, <2>3, <4>1 DEF BackendDelete, FileInv
      <4>2. CASE backend[s] # {}
        BY <1>5, <2>3, <3>1, <4>2 DEF BackendDelete, Persist
      <4> QED
        BY <4>1, <4>2
    <3> QED
      BY <3>1, <3>2, <3>3
  <2>4. CASE Forget(c)
    <3>1. /\ Cleared(s) /\ indexed'[s] = {} /\ on'[c] = NoSession
          /\ UNCHANGED <<backend, saved, unsaved, late, jobs, job>>
      BY <1>1, <1>5, <2>4
      DEF Forget, Return, Cleared, docs, working, TypeOK
    <3>2. InJobs(s)' = InJobs(s)
      BY <3>1 DEF InJobs
    <3>3. Deleting(c)
      BY <2>4 DEF Forget, Deleting
    <3> QED
      BY <2>1, <3>1, <3>2, <3>3, VectorAssumption DEF LeftInv
  <2>5. CASE BackendDeleteFails(c) \/ ForgetFails(c)
    <3>1. /\ Deleting(c) /\ s \notin deleted /\ deleted' = deleted
          /\ on'[c] = NoSession
      BY <2>2, <2>5
      DEF BackendDeleteFails, ForgetFails, Return, Deleting, history, TypeOK
    <3>2. ~Cleared(s)'
      BY <2>1, <3>1, VectorAssumption DEF Cleared
    <3> QED
      BY <3>1, <3>2
  <2>6. ASSUME NEW n \in 0..1, BaseSave(c, n)
        PROVE  s \notin deleted' /\ ~Cleared(s)'
    <3>1. /\ pc[c] = "loaded" /\ s \notin deleted' /\ on' = on
          /\ pc' = [pc EXCEPT ![c] = "mark"]
      BY <1>5, <2>6 DEF BaseSave, Goto
    <3>2. ASSUME NEW d \in Clients, pc'[d] = "forget", on'[d] = s
          PROVE  FALSE
      <4>1. d # c /\ pc[d] = "forget" /\ on[d] = on[c]
        BY <1>5, <3>1, <3>2 DEF TypeOK
      <4> QED
        BY <4>1 DEF IInv, DeletingInv, Deleting
    <3> QED
      BY <3>1, <3>2 DEF Cleared
  <2>7. CASE \/ BaseRejects(c) \/ Mark(c) \/ MarkNothing(c) \/ MarkFails(c)
             \/ Enqueue(c) \/ QueueFull(c)
    <3>1. /\ pc[c] \in {"loaded", "mark", "enqueue"}
          /\ pc'[c] # "forget"
          /\ UNCHANGED <<backend, saved, unsaved, indexed, late, deleted, job>>
      BY <2>7
      DEF BaseRejects, Mark, MarkNothing, MarkFails, Enqueue, QueueFull,
          Return, Goto, data, working, history, TypeOK
    <3>2. \A d \in Clients : ~(pc'[d] = "forget" /\ on'[d] = s)
      BY <1>2, <1>5, <3>1 DEF IInv, DeletingInv, Deleting
    <3>3. CASE s \in deleted
      <4>1. BaseRejects(c)
        BY <2>2, <2>7, <3>3
        DEF Mark, MarkNothing, MarkFails, Enqueue, QueueFull
      <4>2. jobs' = jobs /\ on'[c] = NoSession
        BY <4>1 DEF BaseRejects, Return, queue, TypeOK
      <4>3. InJobs(s)' = InJobs(s)
        BY <3>1, <4>2 DEF InJobs
      <4> QED
        BY <1>2, <3>1, <3>3, <4>2, <4>3, VectorAssumption DEF LeftInv, Cleared
    <3> QED
      BY <3>1, <3>2, <3>3 DEF Cleared
  <2> QED
    BY <2>3, <2>4, <2>5, <2>6, <2>7 DEF Continue
<1> QED
  BY <1>4, <1>5 DEF LeftInv, Keeps

LEMMA LeftStart ==
  ASSUME TypeOK, IInv, LeftInv, DeletesWait, NEW c \in Clients,
         NEW s \in Sessions, Load(c, s) \/ BaseDelete(c, s)
  PROVE  LeftInv'
<1>1. /\ pc[c] = "idle" /\ on' = [on EXCEPT ![c] = s]
      /\ pc' \in {[pc EXCEPT ![c] = "loaded"], [pc EXCEPT ![c] = "purge"]}
      /\ UNCHANGED <<backend, saved, unsaved, jobs, job, late>>
  BY DEF Load, BaseDelete, Goto, data, docs, queue, working, history
<1>2. \A t \in Sessions : InJobs(t)' = InJobs(t)
  BY <1>1 DEF InJobs
<1>3. /\ deleted' \subseteq deleted
      /\ \A t \in Sessions : indexed'[t] \subseteq indexed[t]
  BY DEF Load, BaseDelete, data, history, TypeOK
<1>4. \A t \in Sessions : Cleared(t)' => Cleared(t)
  BY <1>1, <1>3 DEF Cleared, TypeOK
<1>5. ASSUME NEW t \in Sessions, t \in deleted', NEW d \in Clients,
             on'[d] = t
      PROVE  pc'[d] = "loaded"
  <2>1. CASE d # c
    BY <1>1, <1>3, <1>5, <2>1 DEF LeftInv, TypeOK
  <2>2. CASE d = c
    <3>1. t = s
      BY <1>1, <1>5, <2>2 DEF TypeOK
    <3>2. Load(c, s)
      BY <1>5, <3>1 DEF BaseDelete
    <3> QED
      BY <2>2, <3>2 DEF Load, Goto, TypeOK
  <2> QED
    BY <2>1, <2>2
<1> QED
  BY <1>1, <1>2, <1>3, <1>4, <1>5 DEF LeftInv

LEMMA LeftStep ==
  ASSUME DeletesWait
  PROVE  TypeOK /\ IInv /\ FileInv /\ LeftInv /\ [Next]_vars => LeftInv'
<1> SUFFICES ASSUME TypeOK, IInv, FileInv, LeftInv, [Next]_vars
             PROVE  LeftInv'
  OBVIOUS
<1>1. CASE UNCHANGED vars
  BY <1>1 DEF vars, LeftInv, Cleared, InJobs
<1>2. CASE Crash
  <2>1. \A s \in Sessions : InJobs(s)' = {}
    BY <1>2, EmptySeq DEF Crash, InJobs, NoJob
  <2>2. /\ \A c \in Clients : pc'[c] = "idle" /\ on'[c] = NoSession
        /\ UNCHANGED <<saved, unsaved, indexed, deleted, late>>
        /\ backend' = saved
    BY <1>2 DEF Crash, history
  <2> QED
    BY <2>1, <2>2, VectorAssumption DEF LeftInv, Cleared
<1> QED
  BY <1>1, <1>2, LeftWork, LeftCall, LeftStart DEF Next

(* If sessions are deleted only while no caller uses them, a deletion that *)
(* returned nil leaves in the backend, in its file and in the index        *)
(* nothing but what the jobs under way bring back, and what an earlier     *)
(* deletion removed without being able to write the file; nothing at all   *)
(* if there is neither, and then a restart brings nothing back.            *)
THEOREM Deleted ==
  ASSUME DeletesWait
  PROVE  Spec => []DeletedButForJobs
<1>1. TypeOK /\ IInv /\ FileInv /\ LeftInv /\ [Next]_vars => LeftInv'
  BY LeftStep
<1>2. TypeOK /\ LeftInv => DeletedButForJobs
  BY DEF LeftInv, Cleared, DeletedButForJobs, TypeOK
<1> QED
  BY <1>1, <1>2, LeftInit, FileInit, FileStep, TypeCorrect, Inductive, PTL
  DEF Spec
-----------------------------------------------------------------------------
(* How often a message is given to the backend                             *)
(*                                                                         *)
(* A message on its way to the backend is in one place only: with a client *)
(* that is about to enqueue it, in one job of the queue, or in the job of  *)
(* the worker.  As long as it is stored, it is pending meanwhile, so that  *)
(* no other client takes it up.                                            *)

Enqueuing(c) == IF pc[c] = "enqueue" THEN held[c] ELSE {}

ApartInv ==
  /\ \A c, d \in Clients : c # d => Enqueuing(c) \cap Enqueuing(d) = {}
  /\ \A c \in Clients : \A i \in 1..Len(jobs) :
       Enqueuing(c) \cap jobs[i].ids = {}
  /\ \A c \in Clients : Enqueuing(c) \cap job.ids = {}
  /\ \A i, j \in 1..Len(jobs) : i # j => jobs[i].ids \cap jobs[j].ids = {}
  /\ \A i \in 1..Len(jobs) : jobs[i].ids \cap job.ids = {}

WaitingInv ==
  \A s \in Sessions : \A m \in stored[s] :
    /\ \A c \in Clients : m \in Enqueuing(c) => on[c] = s /\ m \in pending[s]
    /\ \A i \in 1..Len(jobs) :
         m \in jobs[i].ids => jobs[i].session = s /\ m \in pending[s]
    /\ m \in job.ids => job.session = s /\ m \in pending[s]

StoredOnce ==
  /\ \A s, t \in Sessions : s # t => stored[s] \cap stored[t] = {}
  /\ \A c \in Clients : pc[c] = "mark" => held[c] \subseteq stored[on[c]]

(* A message has been handed over for nothing, or not at all, as long as   *)
(* it waits, or the next save would take it up.                            *)
HandInv ==
  /\ HandedOnce
  /\ \A m \in Messages : m > created => handed[m] = 0
  /\ \A c \in Clients : \A m \in Enqueuing(c) : handed[m] <= faults
  /\ \A i \in 1..Len(jobs) : \A m \in jobs[i].ids : handed[m] <= faults
  /\ worker = "index" => \A m \in job.ids : handed[m] <= faults
  /\ \A s \in Sessions : \A m \in (stored[s] \cap HasText) \ indexed[s] :
       handed[m] <= faults \/ (worker = "record" /\ m \in job.ids)

OnceInv == ApartInv /\ WaitingInv /\ StoredOnce /\ HandInv

LEMMA OnceInit == Init => OnceInv
BY EmptySeq, VectorAssumption
DEF Init, OnceInv, ApartInv, WaitingInv, StoredOnce, HandInv, HandedOnce,
    Enqueuing, NoJob

LEMMA WaitingType ==
  ASSUME TypeOK
  PROVE  /\ \A c \in Clients : Enqueuing(c) \subseteq Messages
         /\ \A i \in 1..Len(jobs) : jobs[i].ids \subseteq Messages
         /\ job.ids \subseteq Messages
<1>1. HasText \subseteq Messages
  BY VectorAssumption
<1>2. \A c \in Clients : Enqueuing(c) \subseteq Messages
  BY <1>1 DEF Enqueuing, TypeOK
<1>3. ASSUME NEW i \in 1..Len(jobs)
      PROVE  jobs[i].ids \subseteq Messages
  <2>1. jobs[i] \in Job
    BY <1>3, ElementOfSeq DEF TypeOK
  <2> QED
    BY <1>1, <2>1 DEF Job
<1>4. job.ids \subseteq Messages
  BY <1>1 DEF TypeOK, Job, NoJob
<1> QED
  BY <1>2, <1>3, <1>4

(* The new messages of a save are on no way, and have not been handed over.*)
LEMMA OnceSave ==
  ASSUME TypeOK, IInv, OnceInv, NEW c \in Clients, NEW n \in 0..1,
         BaseSave(c, n)
  PROVE  OnceInv'
<1> DEFINE fresh == (created + 1)..(created + n)
<1>1. /\ pc[c] = "loaded" /\ on[c] \in Sessions
      /\ created \in Nat /\ created' = created + n
      /\ held[c] = stored[on[c]]
      /\ stored' = [stored EXCEPT ![on[c]] = stored[on[c]] \cup fresh]
      /\ held' = [held EXCEPT ![c] = stored[on[c]] \cup fresh]
      /\ pc' = [pc EXCEPT ![c] = "mark"]
      /\ UNCHANGED <<indexed, pending, jobs, worker, job, on, faults, handed>>
  <2>1. /\ pc[c] = "loaded" /\ on[c] \in Sessions
        /\ created \in Nat /\ created' = created + n
    BY VectorAssumption DEF BaseSave, TypeOK
  <2>2. held[c] = stored[on[c]]
    BY <2>1 DEF BaseSave, IInv, LoadedInv
  <2> QED
    BY <2>1, <2>2 DEF BaseSave, Goto, queue, working
<1>2. \A m \in fresh : m \notin 1..created /\ m > created
  BY <1>1
<1> HIDE DEF fresh
<1>3. \A d \in Clients : /\ Enqueuing(d)' = Enqueuing(d)
                         /\ Enqueuing(d) \subseteq 1..created
  BY <1>1 DEF Enqueuing, TypeOK, IInv, KnownInv
<1>4. ApartInv'
  BY <1>1, <1>3 DEF OnceInv, ApartInv
<1>5. \A s \in Sessions : /\ stored'[s] \subseteq stored[s] \cup fresh
                          /\ stored[s] \subseteq stored'[s]
                          /\ s # on[c] => stored'[s] = stored[s]
                          /\ stored[s] \cap fresh = {}
  BY <1>1, <1>2 DEF TypeOK, IInv, KnownInv
<1>6. WaitingInv'
  <2> SUFFICES ASSUME NEW s \in Sessions, NEW m \in stored'[s]
               PROVE  /\ \A d \in Clients : m \in Enqueuing(d) =>
                           on[d] = s /\ m \in pending[s]
                      /\ \A i \in 1..Len(jobs) : m \in jobs[i].ids =>
                           jobs[i].session = s /\ m \in pending[s]
                      /\ m \in job.ids =>
                           job.session = s /\ m \in pending[s]
    BY <1>1, <1>3 DEF WaitingInv
  <2>1. CASE m \in stored[s]
    BY <2>1 DEF OnceInv, WaitingInv
  <2>2. CASE m \in fresh
    BY <1>2, <1>3, <2>2 DEF IInv, KnownInv
  <2> QED
    BY <1>5, <2>1, <2>2
<1>7. StoredOnce'
  BY <1>1, <1>5 DEF OnceInv, StoredOnce, TypeOK
<1>8. HandInv'
  <2>1. \A m \in Messages : m > created' => m > created
    BY <1>1 DEF Messages
  <2>2. ASSUME NEW s \in Sessions,
               NEW m \in (stored'[s] \cap HasText) \ indexed[s]
        PROVE  handed[m] <= faults \/ (worker = "record" /\ m \in job.ids)
    <3>1. CASE m \in stored[s]
      BY <2>2, <3>1 DEF OnceInv, HandInv
    <3>2. CASE m \in fresh
      <4>1. m \in Messages /\ handed[m] = 0
        BY <1>2, <2>2, <3>2, VectorAssumption DEF OnceInv, HandInv
      <4> QED
        BY <4>1 DEF TypeOK
    <3> QED
      BY <1>5, <2>2, <3>1, <3>2
  <2> QED
    BY <1>1, <1>3, <2>1, <2>2 DEF OnceInv, HandInv, HandedOnce
<1> QED
  BY <1>4, <1>6, <1>7, <1>8 DEF OnceInv

(* A client takes up what is stored, neither indexed nor pending.          *)
LEMMA OnceMark ==
  ASSUME TypeOK, IInv, OnceInv, NEW c \in Clients, Mark(c)
  PROVE  OnceInv'
<1> DEFINE new == Unindexed(c)
<1>1. /\ pc[c] = "mark" /\ on[c] \in Sessions
      /\ pending' = [pending EXCEPT ![on[c]] = @ \cup new]
      /\ held' = [held EXCEPT ![c] = new]
      /\ pc' = [pc EXCEPT ![c] = "enqueue"]
      /\ UNCHANGED <<stored, indexed, jobs, worker, job, on, created, faults,
                     handed>>
  BY DEF Mark, Add, Goto, data, working, history, TypeOK
<1>2. /\ new \subseteq stored[on[c]] /\ new \subseteq HasText
      /\ new \cap indexed[on[c]] = {} /\ new \cap pending[on[c]] = {}
  BY <1>1 DEF Unindexed, OnceInv, StoredOnce
<1> HIDE DEF new
<1>3. /\ Enqueuing(c)' = new
      /\ \A d \in Clients \ {c} : Enqueuing(d)' = Enqueuing(d)
  BY <1>1 DEF Enqueuing, TypeOK
<1>4. \A m \in new : /\ \A d \in Clients : m \notin Enqueuing(d)
                     /\ \A i \in 1..Len(jobs) : m \notin jobs[i].ids
                     /\ m \notin job.ids
                     /\ handed[m] <= faults
  BY <1>1, <1>2 DEF OnceInv, WaitingInv, HandInv
<1>5. ApartInv'
  BY <1>1, <1>3, <1>4 DEF OnceInv, ApartInv
<1>6. WaitingInv'
  <2>1. \A s \in Sessions : pending[s] \subseteq pending'[s]
    BY <1>1 DEF TypeOK
  <2>2. new \subseteq pending'[on[c]]
    BY <1>1 DEF TypeOK
  <2>3. \A s \in Sessions : \A m \in stored[s] \cap new : s = on[c]
    BY <1>1, <1>2 DEF OnceInv, StoredOnce
  <2> QED
    BY <1>1, <1>3, <2>1, <2>2, <2>3 DEF OnceInv, WaitingInv
<1>7. StoredOnce'
  BY <1>1 DEF OnceInv, StoredOnce, TypeOK
<1>8. HandInv'
  BY <1>1, <1>3, <1>4 DEF OnceInv, HandInv, HandedOnce
<1> QED
  BY <1>5, <1>6, <1>7, <1>8 DEF OnceInv

LEMMA OnceEnqueue ==
  ASSUME TypeOK, OnceInv, NEW c \in Clients, Enqueue(c)
  PROVE  OnceInv'
<1> DEFINE last == Len(jobs) + 1
<1>1. /\ jobs \in Seq(Job) /\ [session |-> on[c], ids |-> held[c]] \in Job
      /\ jobs' = Append(jobs, [session |-> on[c], ids |-> held[c]])
  BY VectorAssumption DEF Enqueue, TypeOK, Job
<1>2. /\ Len(jobs) \in Nat /\ Len(jobs') = last
      /\ \A i \in 1..Len(jobs) : jobs'[i] = jobs[i]
      /\ jobs'[last].session = on[c] /\ jobs'[last].ids = Enqueuing(c)
  BY <1>1, AppendProperties, LenProperties DEF Enqueue, Enqueuing
<1>3. \A i \in 1..Len(jobs') : i \in 1..Len(jobs) \/ i = last
  BY <1>2
<1>4. /\ UNCHANGED <<stored, indexed, pending, worker, job, created, faults,
                     handed>>
      /\ Enqueuing(c)' = {} /\ pc'[c] = "idle"
      /\ \A d \in Clients \ {c} :
           /\ Enqueuing(d)' = Enqueuing(d)
           /\ pc'[d] = pc[d] /\ on'[d] = on[d] /\ held'[d] = held[d]
  BY DEF Enqueue, Return, Goto, Enqueuing, data, working, history, TypeOK
<1> HIDE DEF last
<1>5. ApartInv'
  BY <1>2, <1>3, <1>4 DEF OnceInv, ApartInv
<1>6. WaitingInv'
  BY <1>2, <1>3, <1>4 DEF OnceInv, WaitingInv
<1>7. StoredOnce'
  BY <1>4 DEF OnceInv, StoredOnce
<1>8. HandInv'
  BY <1>2, <1>3, <1>4 DEF OnceInv, HandInv, HandedOnce
<1> QED
  BY <1>5, <1>6, <1>7, <1>8 DEF OnceInv

(* The messages of a dropped job are pending no longer, and nowhere else.  *)
LEMMA OnceDrop ==
  ASSUME TypeOK, OnceInv, NEW c \in Clients, QueueFull(c)
  PROVE  OnceInv'
<1>1. /\ UNCHANGED <<stored, indexed, jobs, worker, job, created, faults,
                     handed>>
      /\ Enqueuing(c)' = {} /\ pc'[c] = "idle"
      /\ \A d \in Clients \ {c} :
           /\ Enqueuing(d)' = Enqueuing(d)
           /\ pc'[d] = pc[d] /\ on'[d] = on[d] /\ held'[d] = held[d]
      /\ \A s \in Sessions : pending[s] \ Enqueuing(c) \subseteq pending'[s]
  BY DEF QueueFull, Return, Goto, Enqueuing, data, working, history, TypeOK
<1>2. ApartInv'
  BY <1>1 DEF OnceInv, ApartInv
<1>3. WaitingInv'
  BY <1>1 DEF OnceInv, WaitingInv, ApartInv
<1>4. StoredOnce'
  BY <1>1 DEF OnceInv, StoredOnce
<1>5. HandInv'
  BY <1>1 DEF OnceInv, HandInv, HandedOnce
<1> QED
  BY <1>2, <1>3, <1>4, <1>5 DEF OnceInv

(* The steps of the calls that touch neither what is stored nor any job.   *)
(* Only a deletion takes pending marks away, or clears the index, and then *)
(* nothing of the session is stored.                                       *)
LEMMA OnceCall ==
  ASSUME TypeOK, IInv, OnceInv, NEW c \in Clients,
         \/ \E s \in Sessions : Load(c, s)
         \/ BaseRejects(c) \/ MarkNothing(c) \/ MarkFails(c)
         \/ BackendDelete(c) \/ BackendDeleteFails(c)
         \/ Forget(c) \/ ForgetFails(c)
  PROVE  OnceInv'
<1>1. UNCHANGED <<stored, jobs, worker, job, created, handed>>
  BY DEF Load, BaseRejects, MarkNothing, MarkFails, BackendDelete,
         BackendDeleteFails, Forget, ForgetFails, data, queue, working,
         history
<1>2. faults \in Nat /\ faults' \in Nat /\ faults <= faults'
  BY VectorAssumption
  DEF Load, BaseRejects, MarkNothing, MarkFails, BackendDelete,
      BackendDeleteFails, Forget, ForgetFails, Fails, TypeOK
<1>3. /\ \A d \in Clients : Enqueuing(d)' = Enqueuing(d)
      /\ \A d \in Clients : pc'[d] \in {"enqueue", "mark"} =>
           pc'[d] = pc[d] /\ on'[d] = on[d] /\ held'[d] = held[d]
  BY DEF Load, BaseRejects, MarkNothing, MarkFails, BackendDelete,
         BackendDeleteFails, Forget, ForgetFails, Return, Goto, Enqueuing,
         TypeOK
<1>4. \A s \in Sessions :
        \/ pending'[s] = pending[s] /\ indexed'[s] = indexed[s]
        \/ stored[s] = {}
  <2>1. \A s \in Sessions :
          \/ pending'[s] = pending[s] /\ indexed'[s] = indexed[s]
          \/ s = on[c] /\ Deleting(c)
    BY DEF Load, BaseRejects, MarkNothing, MarkFails, BackendDelete,
           BackendDeleteFails, Forget, ForgetFails, data, queue, Deleting,
           TypeOK
  <2> QED
    BY <2>1 DEF IInv, DeletingInv
<1>5. ApartInv'
  BY <1>1, <1>3 DEF OnceInv, ApartInv
<1>6. WaitingInv'
  <2> SUFFICES ASSUME NEW s \in Sessions, NEW m \in stored[s]
               PROVE  /\ \A d \in Clients : m \in Enqueuing(d)' =>
                           on'[d] = s /\ m \in pending'[s]
                      /\ \A i \in 1..Len(jobs) : m \in jobs[i].ids =>
                           jobs[i].session = s /\ m \in pending'[s]
                      /\ m \in job.ids =>
                           job.session = s /\ m \in pending'[s]
    BY <1>1 DEF WaitingInv
  <2>1. pending'[s] = pending[s]
    BY <1>4
  <2>2. \A d \in Clients : m \in Enqueuing(d)' =>
          m \in Enqueuing(d) /\ on'[d] = on[d]
    BY <1>3 DEF Enqueuing
  <2> QED
    BY <2>1, <2>2 DEF OnceInv, WaitingInv
<1>7. StoredOnce'
  BY <1>1, <1>3 DEF OnceInv, StoredOnce
<1>8. HandInv'
  <2>1. \A m \in Messages : handed[m] \in Nat
    BY DEF TypeOK
  <2>2. /\ HandedOnce'
        /\ \A m \in Messages : handed[m] <= faults => handed[m] <= faults'
    BY <1>1, <1>2, <2>1 DEF OnceInv, HandInv, HandedOnce
  <2>3. /\ \A d \in Clients : Enqueuing(d) \subseteq Messages
        /\ \A i \in 1..Len(jobs) : jobs[i].ids \subseteq Messages
        /\ job.ids \subseteq Messages
    BY WaitingType
  <2>4. \A s \in Sessions :
          stored[s] \subseteq Messages /\
          (stored[s] # {} => indexed'[s] = indexed[s])
    BY <1>4 DEF TypeOK
  <2> QED
    BY <1>1, <1>3, <2>2, <2>3, <2>4 DEF OnceInv, HandInv
<1> QED
  BY <1>5, <1>6, <1>7, <1>8 DEF OnceInv

LEMMA OnceDelete ==
  ASSUME TypeOK, IInv, OnceInv, DeletesWait,
         NEW c \in Clients, NEW s \in Sessions, BaseDelete(c, s)
  PROVE  OnceInv'
<1>1. /\ \A d \in Clients : on[d] # s
      /\ UNCHANGED <<pending, jobs, worker, job, held, created, faults,
                     handed>>
      /\ stored' = [stored EXCEPT ![s] = {}]
      /\ \A t \in Sessions \ {s} : indexed'[t] = indexed[t]
      /\ \A d \in Clients : Enqueuing(d)' = Enqueuing(d)
      /\ \A d \in Clients : pc'[d] \in {"enqueue", "mark"} =>
           pc'[d] = pc[d] /\ on'[d] = on[d] /\ on[d] \in Sessions
  BY VectorAssumption
  DEF BaseDelete, Goto, Enqueuing, queue, working, TypeOK
<1>2. /\ stored'[s] = {}
      /\ \A t \in Sessions \ {s} : stored'[t] = stored[t]
  BY <1>1 DEF TypeOK
<1>3. ApartInv'
  BY <1>1 DEF OnceInv, ApartInv
<1>4. WaitingInv'
  <2> SUFFICES ASSUME NEW t \in Sessions \ {s}, NEW m \in stored[t]
               PROVE  /\ \A d \in Clients : m \in Enqueuing(d)' =>
                           on'[d] = t /\ m \in pending[t]
                      /\ \A i \in 1..Len(jobs) : m \in jobs[i].ids =>
                           jobs[i].session = t /\ m \in pending[t]
                      /\ m \in job.ids =>
                           job.session = t /\ m \in pending[t]
    BY <1>1, <1>2 DEF WaitingInv
  <2>1. \A d \in Clients : m \in Enqueuing(d)' =>
          m \in Enqueuing(d) /\ on'[d] = on[d]
    BY <1>1 DEF Enqueuing
  <2> QED
    BY <2>1 DEF OnceInv, WaitingInv
<1>5. StoredOnce'
  BY <1>1, <1>2 DEF OnceInv, StoredOnce
<1>6. HandInv'
  <2>1. ASSUME NEW t \in Sessions,
               NEW m \in (stored'[t] \cap HasText) \ indexed'[t]
        PROVE  handed[m] <= faults \/ (worker = "record" /\ m \in job.ids)
    <3>1. t # s /\ m \in (stored[t] \cap HasText) \ indexed[t]
      BY <1>1, <1>2, <2>1
    <3> QED
      BY <3>1 DEF OnceInv, HandInv
  <2> QED
    BY <1>1, <2>1 DEF OnceInv, HandInv, HandedOnce
<1> QED
  BY <1>3, <1>4, <1>5, <1>6 DEF OnceInv

LEMMA OnceTake ==
  ASSUME TypeOK, OnceInv, Take
  PROVE  OnceInv'
<1>1. /\ Len(jobs) \in Nat \ {0} /\ job' = jobs[1]
      /\ Len(jobs') = Len(jobs) - 1
      /\ \A i \in 1..Len(jobs') : jobs'[i] = jobs[i + 1]
      /\ worker = "take" /\ worker' = "index"
      /\ UNCHANGED <<stored, indexed, pending, pc, on, held, created, faults,
                     handed>>
  BY HeadFact DEF Take, data, client, history
<1>2. /\ 1 \in 1..Len(jobs)
      /\ \A i \in 1..Len(jobs') : i + 1 \in 1..Len(jobs) /\ i + 1 # 1
      /\ \A i, j \in 1..Len(jobs') : i # j => i + 1 # j + 1
  BY <1>1
<1>3. \A c \in Clients : Enqueuing(c)' = Enqueuing(c)
  BY <1>1 DEF Enqueuing
<1>4. ApartInv'
  BY <1>1, <1>2, <1>3 DEF OnceInv, ApartInv
<1>5. WaitingInv'
  BY <1>1, <1>2, <1>3 DEF OnceInv, WaitingInv
<1>6. StoredOnce'
  BY <1>1 DEF OnceInv, StoredOnce
<1>7. HandInv'
  BY <1>1, <1>2, <1>3 DEF OnceInv, HandInv, HandedOnce
<1> QED
  BY <1>4, <1>5, <1>6, <1>7 DEF OnceInv

(* What the job gives to the backend waits nowhere else.  It may have been *)
(* handed over once more than there were failures, until the call fails or *)
(* the messages are recorded.                                              *)
LEMMA OnceHand ==
  ASSUME TypeOK, IInv, OnceInv, Index \/ IndexFails
  PROVE  OnceInv'
<1>1. /\ worker = "index"
      /\ handed' = [m \in Messages |->
                      handed[m] + IF m \in job.ids THEN 1 ELSE 0]
      /\ UNCHANGED <<stored, indexed, pending, jobs, job, pc, on, held,
                     created>>
  BY DEF Index, IndexFails, Handed, queue, client
<1>2. \A c \in Clients : Enqueuing(c)' = Enqueuing(c)
  BY <1>1 DEF Enqueuing
<1>3. ApartInv' /\ WaitingInv' /\ StoredOnce'
  BY <1>1, <1>2 DEF OnceInv, ApartInv, WaitingInv, StoredOnce
<1>4. /\ faults \in Nat /\ created \in Nat
      /\ \A m \in Messages : handed[m] \in Nat /\ m \in Nat
      /\ \A m \in Messages \ job.ids : handed'[m] = handed[m]
      /\ \A m \in Messages \cap job.ids : handed'[m] = handed[m] + 1
  <2>1. handed \in [Messages -> Nat]
    BY DEF TypeOK
  <2>2. faults \in Nat /\ created \in Nat /\ \A m \in Messages : m \in Nat
    BY VectorAssumption DEF TypeOK, Messages
  <2>3. \A m \in Messages :
          handed'[m] = handed[m] + IF m \in job.ids THEN 1 ELSE 0
    BY <1>1
  <2> QED
    BY <2>1, <2>2, <2>3
<1>5. /\ \A d \in Clients : Enqueuing(d) \subseteq Messages \ job.ids
      /\ \A i \in 1..Len(jobs) : jobs[i].ids \subseteq Messages \ job.ids
      /\ job.ids \subseteq Messages
  <2>1. /\ \A d \in Clients : Enqueuing(d) \subseteq Messages
        /\ \A i \in 1..Len(jobs) : jobs[i].ids \subseteq Messages
        /\ job.ids \subseteq Messages
    BY WaitingType
  <2> QED
    BY <2>1 DEF OnceInv, ApartInv
<1>6. \A m \in Messages : handed'[m] <= 1 + faults
  <2>1. \A m \in Messages \cap job.ids : handed[m] <= faults
    BY <1>1 DEF OnceInv, HandInv
  <2>2. \A m \in Messages \ job.ids : handed[m] <= 1 + faults
    BY DEF OnceInv, HandInv, HandedOnce
  <2> QED
    BY <1>4, <2>1, <2>2
<1>7. \A m \in Messages : m > created => handed'[m] = 0
  <2>1. \A m \in Messages : m > created => m \notin job.ids
    BY <1>4 DEF IInv, KnownInv
  <2> QED
    BY <1>4, <2>1 DEF OnceInv, HandInv
<1>8. CASE Index
  <2>1. worker' = "record" /\ faults' = faults
    BY <1>8 DEF Index
  <2>2. /\ \A d \in Clients : \A m \in Enqueuing(d) : handed'[m] <= faults
        /\ \A i \in 1..Len(jobs) : \A m \in jobs[i].ids : handed'[m] <= faults
    BY <1>4, <1>5 DEF OnceInv, HandInv
  <2>3. \A s \in Sessions : \A m \in (stored[s] \cap HasText) \ indexed[s] :
          handed'[m] <= faults \/ m \in job.ids
    BY <1>1, <1>4, VectorAssumption DEF OnceInv, HandInv
  <2>4. HandInv'
    BY <1>1, <1>2, <1>6, <1>7, <2>1, <2>2, <2>3 DEF HandInv, HandedOnce
  <2> QED
    BY <1>3, <2>4 DEF OnceInv
<1>9. CASE IndexFails
  <2>1. worker' = "clear" /\ faults' = faults + 1
    BY <1>9 DEF IndexFails, Fails
  <2>2. \A m \in Messages : handed'[m] <= faults' /\ handed'[m] <= 1 + faults'
    BY <1>4, <1>6, <2>1
  <2>3. HandInv'
    BY <1>1, <1>2, <1>5, <1>7, <2>1, <2>2, VectorAssumption
    DEF HandInv, HandedOnce
  <2> QED
    BY <1>3, <2>3 DEF OnceInv
<1> QED
  BY <1>8, <1>9

LEMMA OnceRecord ==
  ASSUME TypeOK, OnceInv, Record
  PROVE  OnceInv'
<1>1. /\ worker = "record" /\ worker' = "clear" /\ job.session \in Sessions
      /\ indexed' = [indexed EXCEPT ![job.session] = @ \cup job.ids]
      /\ UNCHANGED <<stored, pending, jobs, job, pc, on, held, created,
                     faults, handed>>
  BY DEF Record, Add, queue, client, history, TypeOK, Job
<1>2. \A c \in Clients : Enqueuing(c)' = Enqueuing(c)
  BY <1>1 DEF Enqueuing
<1>3. ApartInv' /\ WaitingInv' /\ StoredOnce'
  BY <1>1, <1>2 DEF OnceInv, ApartInv, WaitingInv, StoredOnce
<1>4. ASSUME NEW s \in Sessions,
             NEW m \in (stored[s] \cap HasText) \ indexed'[s]
      PROVE  handed[m] <= faults
  <2>1. m \notin job.ids
    BY <1>1, <1>4 DEF OnceInv, WaitingInv, TypeOK
  <2>2. m \notin indexed[s]
    BY <1>1, <1>4 DEF TypeOK
  <2> QED
    BY <1>4, <2>1, <2>2 DEF OnceInv, HandInv
<1>5. HandInv'
  BY <1>1, <1>2, <1>4 DEF OnceInv, HandInv, HandedOnce
<1> QED
  BY <1>3, <1>5 DEF OnceInv

LEMMA OnceClear ==
  ASSUME TypeOK, OnceInv, Clear
  PROVE  OnceInv'
<1>1. /\ worker = "clear" /\ worker' = "take" /\ job'.ids = {}
      /\ \A s \in Sessions : pending[s] \ job.ids \subseteq pending'[s]
      /\ UNCHANGED <<stored, indexed, jobs, pc, on, held, created, faults,
                     handed>>
  BY DEF Clear, data, client, history, NoJob, TypeOK
<1>2. \A c \in Clients : Enqueuing(c)' = Enqueuing(c)
  BY <1>1 DEF Enqueuing
<1>3. ApartInv'
  BY <1>1, <1>2 DEF OnceInv, ApartInv
<1>4. WaitingInv'
  BY <1>1, <1>2 DEF OnceInv, WaitingInv, ApartInv
<1>5. StoredOnce'
  BY <1>1 DEF OnceInv, StoredOnce
<1>6. HandInv'
  BY <1>1, <1>2 DEF OnceInv, HandInv, HandedOnce
<1> QED
  BY <1>3, <1>4, <1>5, <1>6 DEF OnceInv

(* A failed record, or a crash, allows for what was handed over.           *)
LEMMA OnceLost ==
  ASSUME TypeOK, OnceInv, RecordFails \/ Crash
  PROVE  OnceInv'
<1>1. /\ faults' = faults + 1 /\ faults \in Nat
      /\ UNCHANGED <<stored, indexed, created, handed>>
      /\ worker' \in {"clear", "take"}
      /\ \A m \in Messages : handed[m] \in Nat
  BY DEF RecordFails, Crash, Fails, data, history, TypeOK
<1>2. \A m \in Messages : handed[m] <= faults'
  BY <1>1 DEF OnceInv, HandInv, HandedOnce
<1>3. CASE RecordFails
  <2>1. UNCHANGED <<pending, jobs, job, pc, on, held>>
    BY <1>3 DEF RecordFails, queue, client
  <2>2. \A c \in Clients : Enqueuing(c)' = Enqueuing(c)
    BY <2>1 DEF Enqueuing
  <2>3. ApartInv' /\ WaitingInv' /\ StoredOnce'
    BY <1>1, <2>1, <2>2 DEF OnceInv, ApartInv, WaitingInv, StoredOnce
  <2>4. /\ \A d \in Clients : Enqueuing(d) \subseteq Messages
        /\ \A i \in 1..Len(jobs) : jobs[i].ids \subseteq Messages
    BY WaitingType
  <2>5. HandInv'
    BY <1>1, <1>2, <2>1, <2>2, <2>4, VectorAssumption
    DEF OnceInv, HandInv, HandedOnce
  <2> QED
    BY <2>3, <2>5 DEF OnceInv
<1>4. CASE Crash
  <2>1. /\ \A c \in Clients : Enqueuing(c)' = {} /\ pc'[c] = "idle"
        /\ Len(jobs') = 0 /\ job'.ids = {}
    BY <1>4, EmptySeq DEF Crash, Enqueuing, NoJob
  <2>2. ApartInv' /\ WaitingInv' /\ StoredOnce'
    BY <1>1, <2>1 DEF OnceInv, ApartInv, WaitingInv, StoredOnce
  <2>3. HandInv'
    BY <1>1, <1>2, <2>1, VectorAssumption DEF OnceInv, HandInv, HandedOnce
  <2> QED
    BY <2>2, <2>3 DEF OnceInv
<1> QED
  BY <1>3, <1>4

LEMMA OnceStep ==
  ASSUME DeletesWait
  PROVE  TypeOK /\ IInv /\ OnceInv /\ [Next]_vars => OnceInv'
<1> SUFFICES ASSUME TypeOK, IInv, OnceInv, [Next]_vars
             PROVE  OnceInv'
  OBVIOUS
<1>1. CASE UNCHANGED vars
  BY <1>1
  DEF vars, OnceInv, ApartInv, WaitingInv, StoredOnce, HandInv, HandedOnce,
      Enqueuing
<1>2. CASE Next
  BY <1>2, OnceSave, OnceMark, OnceEnqueue, OnceDrop, OnceCall, OnceDelete,
     OnceTake, OnceHand, OnceRecord, OnceClear, OnceLost
  DEF Next, Continue, Work
<1> QED
  BY <1>1, <1>2

(* If sessions are deleted only while no caller uses them, a message is    *)
(* given to the backend once, and once more at most for each failure or    *)
(* crash, for any number of callers and any capacity of the queue.         *)
THEOREM Once ==
  ASSUME DeletesWait
  PROVE  Spec => []HandedOnce
<1>1. TypeOK /\ IInv /\ OnceInv /\ [Next]_vars => OnceInv'
  BY OnceStep
<1>2. OnceInv => HandedOnce
  BY DEF OnceInv, HandInv
<1> QED
  BY <1>1, <1>2, OnceInit, TypeCorrect, Inductive, PTL DEF Spec
=============================================================================
