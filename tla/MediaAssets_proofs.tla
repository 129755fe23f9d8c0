------------------------- MODULE MediaAssets_proofs -------------------------
(***************************************************************************)
(* Proofs about MediaAssets, for any number of clients and assets, with    *)
(* deletions, failures and crashes at any time: type correctness, that an  *)
(* acknowledged asset is kept, that the index tells the truth unless a     *)
(* deletion met another call or was cut short, and that what a stored      *)
(* message shows can be loaded; and about TextChunks, for every document   *)
(* and configuration: that the chunks cover its text.                      *)
(***************************************************************************)
EXTENDS MediaAssets, TextChunks, TLAPS

-----------------------------------------------------------------------------
(* Type correctness                                                        *)

TypeInv ==
  /\ TypeOK
  /\ \A c \in Clients : pc[c] \in Working \ {"remove"} => asset[c] \in used
  /\ \A c \in Clients : pc[c] = "commit" => part[c] \in used
  /\ \A a \in Assets : index[a] # "none" => a \in used
  /\ \A c \in Clients, a \in Assets : copy[c][a] # "none" => a \in used

LEMMA InitType == Init => TypeInv
<1> SUFFICES ASSUME Init PROVE TypeInv
  OBVIOUS
<1> USE AssetsAssumption DEF Init, Working, Status, Empty
<1>1. TypeOK
  <2>1. dir \in BOOLEAN /\ torn \in BOOLEAN
    OBVIOUS
  <2>2. faults \in 0..MaxFaults
    OBVIOUS
  <2>3. /\ files \subseteq used /\ chunks \subseteq used
        /\ acked \subseteq used /\ gone \subseteq used
        /\ used \subseteq Assets
        /\ owner \in Clients \cup {Nobody}
    OBVIOUS
  <2>4. refs \subseteq [asset : used, id : used \cup {NoAsset}]
    OBVIOUS
  <2>5. /\ pc \in [Clients -> Working \cup {"idle", "save", "commit"}]
        /\ asset \in [Clients -> used \cup {NoAsset}]
        /\ part \in [Clients -> used \cup {NoAsset}]
        /\ seen \in [Clients -> SUBSET used]
        /\ index \in [Assets -> Status]
        /\ status \in [Clients -> Status]
        /\ copy \in [Clients -> [Assets -> Status]]
    OBVIOUS
  <2>6. todo \in [Clients -> SUBSET ({"asset", "chunks", "index"}
                                       \X (Assets \cup {NoAsset}))]
    OBVIOUS
  <2> QED
    BY <2>1, <2>2, <2>3, <2>4, <2>5, <2>6 DEF TypeOK
<1> QED
  BY <1>1 DEF TypeInv

LEMMA EntriesType ==
  ASSUME TypeInv
  PROVE  Entries \subseteq {"asset", "chunks", "index"}
                              \X (Assets \cup {NoAsset})
<1>1. \A a \in files \cup chunks : a \in Assets
  BY DEF TypeInv, TypeOK
<1> QED
  BY <1>1 DEF Entries

LEMMA SaveType ==
  ASSUME TypeInv, NEW c \in Clients,
         LoadSession(c) \/ SaveTruncates(c) \/ StartPut(c) \/ KeepPath(c)
  PROVE  TypeInv'
<1> USE AssetsAssumption
    DEF TypeInv, TypeOK, Working, Status, Empty, Goto, Return,
        disk, call, session, history
<1>1. CASE LoadSession(c)
  <2>1. {r.asset : r \in refs} \subseteq used
    OBVIOUS
  <2> QED
    BY <1>1, <2>1 DEF LoadSession
<1>2. CASE SaveTruncates(c)
  BY <1>2 DEF SaveTruncates
<1>3. CASE StartPut(c)
  <2>1. PICK a \in Assets \ used :
          /\ asset' = [asset EXCEPT ![c] = a]
          /\ used' = used \cup {a}
          /\ gone' = IF Deleting THEN gone \cup {a} ELSE gone
    BY <1>3 DEF StartPut
  <2>2. /\ status' = [status EXCEPT ![c] = "pending"]
        /\ dir' = TRUE /\ torn' = (torn \/ Deleting)
        /\ pc' = [pc EXCEPT ![c] = "write"]
        /\ UNCHANGED <<files, chunks, index, owner, copy, todo, part, seen,
                       refs, faults, acked>>
    BY <1>3 DEF StartPut
  <2>3. used \subseteq used' /\ used' \subseteq Assets
    BY <2>1
  <2>4. refs' \subseteq [asset : used', id : used' \cup {NoAsset}]
    BY <2>2, <2>3
  <2>5. torn' \in BOOLEAN
    BY <2>2 DEF Deleting
  <2> QED
    BY <2>1, <2>2, <2>3, <2>4, <2>5
<1>4. CASE KeepPath(c)
  BY <1>4 DEF KeepPath
<1> QED
  BY <1>1, <1>2, <1>3, <1>4

LEMMA CommitType ==
  ASSUME TypeInv, NEW c \in Clients, Commit(c)
  PROVE  TypeInv'
<1> USE AssetsAssumption DEF TypeInv, TypeOK
<1>1. /\ pc[c] = "commit" /\ part[c] \in used
      /\ pc' = [pc EXCEPT ![c] = "idle"]
      /\ asset' = [asset EXCEPT ![c] = NoAsset]
      /\ status' = [status EXCEPT ![c] = "none"]
      /\ copy' = [copy EXCEPT ![c] = Empty]
      /\ todo' = [todo EXCEPT ![c] = {}]
      /\ UNCHANGED <<dir, files, chunks, index, owner, seen, used, faults,
                     acked, gone, torn>>
  BY DEF Commit, Return, Goto, disk, history
<1>2. \A a \in used : IDInPath(a) \in used \cup {NoAsset}
  BY DEF IDInPath
<1>3. /\ refs' \subseteq [asset : used, id : used \cup {NoAsset}]
      /\ \A d \in Clients : part'[d] \in {part[d], NoAsset}
      /\ \A d \in Clients : d # c => part'[d] = part[d]
      /\ part' \in [Clients -> used \cup {NoAsset}]
  BY <1>1, <1>2 DEF Commit
<1> QED
  BY <1>1, <1>3 DEF Working, Status, Empty

LEMMA WorkType ==
  ASSUME TypeInv, NEW c \in Clients,
         \/ WriteAsset(c) \/ Process(c) \/ WriteChunks(c) \/ LockIndex(c)
         \/ CallFails(c)
         \/ \E a \in Assets : FindAsset(c, a)
  PROVE  TypeInv'
<1> USE AssetsAssumption
    DEF TypeInv, TypeOK, Working, Status, Empty, Goto, Return,
        disk, call, session, history
<1>1. CASE WriteAsset(c)
  BY <1>1 DEF WriteAsset
<1>2. CASE Process(c)
  BY <1>2 DEF Process
<1>3. CASE WriteChunks(c)
  BY <1>3 DEF WriteChunks
<1>4. CASE LockIndex(c)
  BY <1>4 DEF LockIndex
<1>5. CASE CallFails(c)
  BY <1>5 DEF CallFails, Fails
<1>6. ASSUME NEW a \in Assets, FindAsset(c, a)
      PROVE  TypeInv'
  BY <1>6 DEF FindAsset, Deleting
<1> QED
  BY <1>1, <1>2, <1>3, <1>4, <1>5, <1>6

LEMMA IndexType ==
  ASSUME TypeInv, NEW c \in Clients, FinishPut(c) \/ FinishLoad(c)
  PROVE  TypeInv'
<1> USE AssetsAssumption
    DEF TypeInv, TypeOK, Working, Status, Empty, Goto, Return, WriteIndex
<1>1. asset[c] \in used /\ pc[c] \in {"rewrite", "remark"}
  BY DEF FinishPut, FinishLoad
<1>2. /\ index' = [copy[c] EXCEPT ![asset[c]] = status[c]]
      /\ copy[c] \in [Assets -> Status]
      /\ index' \in [Assets -> Status]
      /\ \A a \in Assets : index'[a] # "none" => a \in used
  BY <1>1 DEF FinishPut, FinishLoad
<1>3. CASE FinishPut(c)
  BY <1>1, <1>2, <1>3 DEF FinishPut
<1>4. CASE FinishLoad(c)
  BY <1>1, <1>2, <1>4 DEF FinishLoad
<1> QED
  BY <1>3, <1>4

LEMMA DeleteType ==
  ASSUME TypeInv, NEW c \in Clients,
         Delete(c) \/ RemoveEntry(c) \/ RemoveDir(c) \/ RemoveFails(c)
  PROVE  TypeInv'
<1> USE AssetsAssumption
    DEF TypeInv, TypeOK, Working, Status, Empty, Goto, Return,
        disk, call, session, history
<1>1. CASE Delete(c)
  BY <1>1, EntriesType DEF Delete
<1>2. CASE RemoveEntry(c)
  <2>1. PICK e \in todo[c] :
          /\ todo' = [todo EXCEPT ![c] = @ \ {e}]
          /\ files' = files \ {a \in Assets : e = <<"asset", a>>}
          /\ chunks' = chunks \ {a \in Assets : e = <<"chunks", a>>}
          /\ index' = IF e = <<"index", NoAsset>> THEN Empty ELSE index
    BY <1>2 DEF RemoveEntry
  <2>2. index' \in [Assets -> Status]
        /\ \A a \in Assets : index'[a] # "none" => a \in used
    BY <2>1
  <2>3. files' \subseteq used /\ chunks' \subseteq used
    BY <2>1
  <2>4. UNCHANGED <<dir, owner, pc, asset, status, copy, part, seen, refs,
                    used, faults, acked, gone, torn>>
    BY <1>2 DEF RemoveEntry
  <2> QED
    BY <2>1, <2>2, <2>3, <2>4
<1>3. CASE RemoveDir(c)
  BY <1>3 DEF RemoveDir
<1>4. CASE RemoveFails(c)
  BY <1>4 DEF RemoveFails, Fails
<1> QED
  BY <1>1, <1>2, <1>3, <1>4

LEMMA CrashType ==
  ASSUME TypeInv, Crash
  PROVE  TypeInv'
BY AssetsAssumption
DEF TypeInv, TypeOK, Working, Status, Empty, Crash, Fails, disk, Deleting

LEMMA StepType == TypeInv /\ [Next]_vars => TypeInv'
<1> SUFFICES ASSUME TypeInv, [Next]_vars
             PROVE  TypeInv'
  OBVIOUS
<1>1. CASE UNCHANGED vars
  BY <1>1 DEF vars, TypeInv, TypeOK
<1>2. CASE Next
  BY <1>2, SaveType, CommitType, WorkType, IndexType, DeleteType, CrashType
  DEF Next
<1> QED
  BY <1>1, <1>2

LEMMA TypeInvariant == Spec => []TypeInv
BY InitType, StepType, PTL DEF Spec

(* Every variable keeps its type: only assets that were given an ID have   *)
(* files, chunks, records or references.                                   *)
THEOREM TypeCorrect == Spec => []TypeOK
<1>1. TypeInv => TypeOK
  BY DEF TypeInv
<1> QED
  BY <1>1, TypeInvariant, PTL

-----------------------------------------------------------------------------
(* What a stored message shows                                             *)
(*                                                                         *)
(* A path gets into a message, and a message into the session, only after  *)
(* Put has returned nil.                                                   *)

PathInv ==
  /\ \A c \in Clients :
       /\ part[c] # NoAsset => part[c] \in acked
       /\ pc[c] = "commit" => part[c] # NoAsset
       /\ seen[c] \subseteq acked
  /\ \A r \in refs : r.asset \in acked /\ r.id \in {r.asset, NoAsset}

LEMMA InitPath == Init => PathInv
BY DEF Init, PathInv

LEMMA StepPath == TypeInv /\ PathInv /\ [Next]_vars => PathInv'
<1> SUFFICES ASSUME TypeInv, PathInv, [Next]_vars
             PROVE  PathInv'
  OBVIOUS
<1> USE AssetsAssumption
    DEF TypeInv, TypeOK, PathInv, Goto, Return, session, history
<1>1. CASE UNCHANGED vars
  BY <1>1 DEF vars
<1>2. CASE Crash
  BY <1>2 DEF Crash
<1>3. ASSUME NEW c \in Clients, LoadSession(c)
      PROVE  PathInv'
  BY <1>3 DEF LoadSession
<1>4. ASSUME NEW c \in Clients, StartPut(c) \/ KeepPath(c)
      PROVE  PathInv'
  BY <1>4 DEF StartPut, KeepPath
<1>5. ASSUME NEW c \in Clients, Commit(c)
      PROVE  PathInv'
  <2>1. PICK x \in acked : x = part[c]
    BY <1>5 DEF Commit
  <2>2. \A a \in acked : IDInPath(a) \in {a, NoAsset}
    BY DEF IDInPath
  <2>3. \A r \in refs' : r.asset \in acked /\ r.id \in {r.asset, NoAsset}
    <3>1. CASE refs' = refs
      BY <3>1
    <3>2. CASE refs' # refs
      <4> DEFINE id == IF asset[c] = x THEN x ELSE IDInPath(x)
      <4>1. refs' = {[asset |-> a, id |-> IDInPath(a)] : a \in seen[c]}
                      \cup {[asset |-> x, id |-> id]}
        BY <1>5, <2>1, <3>2 DEF Commit
      <4>2. id \in {x, NoAsset}
        BY <2>2
      <4> QED
        BY <2>1, <2>2, <4>1, <4>2
    <3> QED
      BY <3>1, <3>2
  <2>4. /\ \A d \in Clients : part'[d] \in {part[d], NoAsset}
        /\ \A d \in Clients : d # c => part'[d] = part[d]
        /\ pc' = [pc EXCEPT ![c] = "idle"]
        /\ UNCHANGED <<seen, acked>>
    BY <1>5 DEF Commit
  <2> QED
    BY <2>3, <2>4
<1>6. ASSUME NEW c \in Clients, FinishPut(c)
      PROVE  PathInv'
  <2>1. asset[c] \in used /\ asset[c] # NoAsset
    BY <1>6 DEF FinishPut, Working
  <2> QED
    BY <1>6, <2>1 DEF FinishPut, WriteIndex
<1>7. ASSUME NEW c \in Clients,
             \/ WriteAsset(c) \/ Process(c) \/ WriteChunks(c)
             \/ LockIndex(c) \/ FinishLoad(c) \/ RemoveEntry(c)
             \/ \E a \in Assets : FindAsset(c, a)
      PROVE  PathInv'
  BY <1>7 DEF WriteAsset, Process, WriteChunks, LockIndex, FinishLoad,
              WriteIndex, RemoveEntry, FindAsset
<1>8. ASSUME NEW c \in Clients,
             \/ SaveTruncates(c) \/ CallFails(c)
             \/ Delete(c) \/ RemoveDir(c) \/ RemoveFails(c)
      PROVE  PathInv'
  BY <1>8 DEF SaveTruncates, CallFails, Delete, RemoveDir, RemoveFails
<1> QED
  BY <1>1, <1>2, <1>3, <1>4, <1>5, <1>6, <1>7, <1>8 DEF Next

-----------------------------------------------------------------------------
(* Acknowledged assets                                                     *)
(*                                                                         *)
(* Whoever rewrites the index holds the lock, so that its copy has every   *)
(* record there is; what a deletion takes away was given its ID before the *)
(* deletion began, or while it was under way.                              *)

Holding == {"rewrite", "remark"}

LockInv == \A c \in Clients : pc[c] \in Holding => owner = c

GoneInv == Deleting => used \subseteq gone

PutInv ==
  \A c \in Clients :
    /\ pc[c] \in {"upsert", "rewrite"} /\ asset[c] \notin gone
         => asset[c] \in files
    /\ pc[c] \in {"write", "upsert", "rewrite"} => status[c] = "pending"
    /\ pc[c] \in {"chunks", "mark", "remark"} => status[c] # "none"

CopyInv ==
  \A c \in Clients : pc[c] \in Holding =>
    \A a \in acked \ gone : copy[c][a] # "none"

KeptInv == LockInv /\ GoneInv /\ PutInv /\ CopyInv /\ AcknowledgedKept

LEMMA InitKept == Init => KeptInv
BY DEF Init, KeptInv, LockInv, GoneInv, PutInv, CopyInv, AcknowledgedKept,
       Holding, Deleting

(* A step of one caller that only takes it elsewhere.                      *)
LEMMA QuietKept ==
  ASSUME TypeInv, KeptInv, NEW c \in Clients,
         \/ LoadSession(c) \/ SaveTruncates(c) \/ KeepPath(c) \/ Commit(c)
         \/ Process(c) \/ WriteChunks(c) \/ CallFails(c)
         \/ \E a \in Assets : FindAsset(c, a)
  PROVE  KeptInv'
<1>1. UNCHANGED <<files, index, used, acked, gone>>
  BY DEF LoadSession, SaveTruncates, KeepPath, Commit, Process, WriteChunks,
         CallFails, FindAsset, disk, session, history
<1>2. /\ \A d \in Clients \ {c} :
           /\ pc'[d] = pc[d] /\ asset'[d] = asset[d]
           /\ status'[d] = status[d] /\ copy'[d] = copy[d]
      /\ owner' = owner \/ owner = c
      /\ pc'[c] \in {"idle", "save", "commit", "process", "chunks", "mark"}
      /\ pc'[c] \in {"chunks", "mark"} => status'[c] # "none"
  BY DEF LoadSession, SaveTruncates, KeepPath, Commit, Process, WriteChunks,
         CallFails, FindAsset, Goto, Return, disk, session, history,
         TypeInv, TypeOK, KeptInv, PutInv
<1> QED
  BY <1>1, <1>2
  DEF KeptInv, LockInv, GoneInv, PutInv, CopyInv, AcknowledgedKept, Holding,
      Deleting

LEMMA PutKept ==
  ASSUME TypeInv, KeptInv, NEW c \in Clients,
         StartPut(c) \/ WriteAsset(c) \/ LockIndex(c)
  PROVE  KeptInv'
<1> USE AssetsAssumption
    DEF TypeInv, TypeOK, KeptInv, LockInv, GoneInv, PutInv, CopyInv,
        AcknowledgedKept, Holding, Deleting, Goto, disk, session, history
<1>1. CASE StartPut(c)
  BY <1>1 DEF StartPut
<1>2. CASE WriteAsset(c)
  BY <1>2 DEF WriteAsset
<1>3. CASE LockIndex(c)
  BY <1>3 DEF LockIndex
<1> QED
  BY <1>1, <1>2, <1>3

LEMMA IndexKept ==
  ASSUME TypeInv, KeptInv, NEW c \in Clients, FinishPut(c) \/ FinishLoad(c)
  PROVE  KeptInv'
<1>1. /\ pc[c] \in Holding /\ owner = c
      /\ asset[c] \in used /\ status[c] # "none"
      /\ \A a \in acked \ gone : copy[c][a] # "none"
      /\ copy[c] \in [Assets -> Status]
      /\ index' = [copy[c] EXCEPT ![asset[c]] = status[c]]
      /\ UNCHANGED <<files, used, gone>>
  BY DEF FinishPut, FinishLoad, WriteIndex, KeptInv, LockInv, PutInv, CopyInv,
         Holding, Working, TypeInv, TypeOK
<1>2. \/ acked' = acked
      \/ acked' = acked \cup {asset[c]} /\ pc[c] = "rewrite"
  BY DEF FinishPut, FinishLoad
<1>3. /\ \A d \in Clients \ {c} :
           /\ pc'[d] = pc[d] /\ asset'[d] = asset[d]
           /\ status'[d] = status[d] /\ copy'[d] = copy[d]
      /\ pc'[c] \in {"idle", "commit"}
  BY DEF FinishPut, FinishLoad, Goto, Return, TypeInv, TypeOK
<1>4. \A d \in Clients \ {c} : pc[d] \notin Holding
  BY <1>1 DEF KeptInv, LockInv
<1>5. \A a \in acked' \ gone : a \in files /\ index'[a] # "none"
  BY <1>1, <1>2 DEF KeptInv, PutInv, AcknowledgedKept, TypeInv, TypeOK
<1> QED
  BY <1>1, <1>3, <1>4, <1>5
  DEF KeptInv, LockInv, GoneInv, PutInv, CopyInv, AcknowledgedKept, Holding,
      Deleting

LEMMA DeleteKept ==
  ASSUME TypeInv, KeptInv, NEW c \in Clients,
         Delete(c) \/ RemoveEntry(c) \/ RemoveDir(c) \/ RemoveFails(c)
  PROVE  KeptInv'
<1>1. /\ UNCHANGED <<owner, used, acked>>
      /\ gone' = used \/ gone' = gone
      /\ \A d \in Clients \ {c} :
           /\ pc'[d] = pc[d] /\ asset'[d] = asset[d]
           /\ status'[d] = status[d] /\ copy'[d] = copy[d]
      /\ pc'[c] \in {"idle", "remove"}
  BY DEF Delete, RemoveEntry, RemoveDir, RemoveFails, Goto, Return, disk,
         session, history, TypeInv, TypeOK
<1>2. /\ gone \subseteq gone'
      /\ UNCHANGED <<files, index>> \/ used \subseteq gone'
      /\ pc'[c] = "remove" => used \subseteq gone'
  BY DEF Delete, RemoveEntry, RemoveDir, RemoveFails, Goto, disk,
         session, history, KeptInv, GoneInv, Deleting, TypeInv, TypeOK
<1>3. \A d \in Clients : asset[d] \in used \cup {NoAsset}
  BY DEF TypeInv, TypeOK
<1>4. LockInv' /\ GoneInv'
  BY <1>1, <1>2 DEF KeptInv, LockInv, GoneInv, Holding, Deleting
<1>5. CopyInv' /\ AcknowledgedKept'
  BY <1>1, <1>2 DEF KeptInv, CopyInv, AcknowledgedKept, Holding, TypeInv, TypeOK
<1>6. PutInv'
  BY <1>1, <1>2 DEF KeptInv, PutInv, TypeInv, Working
<1> QED
  BY <1>4, <1>5, <1>6 DEF KeptInv

LEMMA StepKept == TypeInv /\ KeptInv /\ [Next]_vars => KeptInv'
<1> SUFFICES ASSUME TypeInv, KeptInv, [Next]_vars
             PROVE  KeptInv'
  OBVIOUS
<1>1. CASE UNCHANGED vars
  BY <1>1
  DEF vars, KeptInv, LockInv, GoneInv, PutInv, CopyInv, AcknowledgedKept,
      Deleting
<1>2. CASE Crash
  BY <1>2
  DEF Crash, disk, KeptInv, LockInv, GoneInv, PutInv, CopyInv,
      AcknowledgedKept, Holding, Deleting
<1> QED
  BY <1>1, <1>2, QuietKept, PutKept, IndexKept, DeleteKept DEF Next

LEMMA KeptInvariant == Spec => []KeptInv
BY InitKept, StepKept, TypeInvariant, PTL DEF Spec

(* An asset whose Put returned nil keeps its file and its record until a   *)
(* deletion, whatever other calls, failures and crashes there are.         *)
THEOREM Kept == Spec => []AcknowledgedKept
<1>1. KeptInv => AcknowledgedKept
  BY DEF KeptInv
<1> QED
  BY <1>1, KeptInvariant, PTL

(* What a stored message shows can be loaded unless it was deleted, and    *)
(* its AssetID, if there is one, is that asset's.                          *)
THEOREM Resolved == Spec => []RefsResolve
<1>1. PathInv /\ KeptInv => RefsResolve
  BY DEF PathInv, KeptInv, AcknowledgedKept, RefsResolve
<1>2. Spec => []PathInv
  BY InitPath, StepPath, TypeInvariant, PTL DEF Spec
<1> QED
  BY <1>1, <1>2, KeptInvariant, PTL

-----------------------------------------------------------------------------
(* The index                                                               *)
(*                                                                         *)
(* As long as no deletion meets another call, a deletion is alone at work  *)
(* and has found every entry there is; without one, the index and the      *)
(* copies of it that are about to be written tell the truth.               *)

True(records) ==
  \A a \in Assets :
    /\ records[a] # "none" => a \in files
    /\ records[a] = "completed" => a \in chunks

AloneInv ==
  \A c \in Clients : pc[c] = "remove" =>
    /\ \A d \in Clients \ {c} : pc[d] \notin Working
    /\ Entries \subseteq todo[c]

DoneInv ==
  \A c \in Clients :
    /\ pc[c] \in {"upsert", "rewrite", "chunks", "mark", "remark"}
         => asset[c] \in files
    /\ pc[c] \in {"mark", "remark"} => asset[c] \in chunks
    /\ pc[c] \in Holding => True(copy[c])

WholeInv == AloneInv /\ DoneInv /\ (~Deleting => True(index))

TruthInv == ~torn => WholeInv

LEMMA InitTruth == Init => TruthInv
BY DEF Init, TruthInv, WholeInv, AloneInv, DoneInv, True, Empty, Holding,
       Deleting

LEMMA NoEntries ==
  ASSUME TypeInv, Entries = {}
  PROVE  True(index)
<1>1. index = Empty
  BY DEF Entries
<1> QED
  BY <1>1 DEF True, Empty

(* A step of one caller that leaves the disk alone. *)
LEMMA QuietTruth ==
  ASSUME TypeInv, TruthInv, NEW c \in Clients,
         \/ LoadSession(c) \/ SaveTruncates(c) \/ KeepPath(c) \/ Commit(c)
         \/ StartPut(c) \/ Process(c) \/ LockIndex(c) \/ CallFails(c)
         \/ \E a \in Assets : FindAsset(c, a)
  PROVE  TruthInv'
<1> SUFFICES ASSUME ~torn'
             PROVE  WholeInv'
  BY DEF TruthInv
<1>1. /\ UNCHANGED <<files, chunks, index>>
      /\ \A d \in Clients \ {c} :
           /\ pc'[d] = pc[d] /\ asset'[d] = asset[d]
           /\ copy'[d] = copy[d] /\ todo'[d] = todo[d]
      /\ pc[c] # "remove" /\ pc'[c] # "remove"
  BY DEF LoadSession, SaveTruncates, KeepPath, Commit, StartPut, Process,
         LockIndex, CallFails, FindAsset, Goto, Return, disk, session, history,
         TypeInv, TypeOK
<1>2. ~torn /\ WholeInv /\ Deleting' = Deleting
  <2>1. ~torn
    BY DEF LoadSession, SaveTruncates, KeepPath, Commit, StartPut, Process,
           LockIndex, CallFails, FindAsset, session, history
  <2> QED
    BY <1>1, <2>1 DEF TruthInv, Deleting
<1>3. pc'[c] \in Working => pc[c] \in Working \/ ~Deleting
  BY DEF LoadSession, SaveTruncates, KeepPath, Commit, StartPut, Process,
         LockIndex, CallFails, FindAsset, Goto, Return, history,
         TypeInv, TypeOK, Working
<1>4. AloneInv'
  BY <1>1, <1>2, <1>3 DEF WholeInv, AloneInv, Entries, Deleting
<1>5. /\ pc'[c] \in {"upsert", "rewrite", "chunks", "mark", "remark"}
           => asset[c] \in files /\ asset'[c] = asset[c]
      /\ pc'[c] \in {"mark", "remark"} => asset[c] \in chunks
      /\ pc'[c] \in Holding => copy'[c] = index /\ ~Deleting
  <2>1. CASE LockIndex(c)
    BY <1>2, <2>1 DEF LockIndex, Goto, Holding, WholeInv, AloneInv, DoneInv,
                      Deleting, Working, TypeInv, TypeOK
  <2>2. CASE Process(c)
    BY <2>2 DEF Process, Goto, Holding, TypeInv, TypeOK
  <2>3. CASE ~LockIndex(c) /\ ~Process(c)
    <3>1. pc'[c] \in {"idle", "save", "commit", "write", "process"}
      BY <2>3 DEF LoadSession, SaveTruncates, KeepPath, Commit, StartPut,
                  CallFails, FindAsset, Goto, Return, TypeInv, TypeOK
    <3> QED
      BY <3>1 DEF Holding
  <2> QED
    BY <2>1, <2>2, <2>3
<1>6. DoneInv'
  BY <1>1, <1>2, <1>5 DEF WholeInv, DoneInv, True, Holding
<1> QED
  BY <1>1, <1>2, <1>4, <1>6 DEF WholeInv, True

LEMMA WriteTruth ==
  ASSUME TypeInv, TruthInv, NEW c \in Clients,
         WriteAsset(c) \/ WriteChunks(c)
  PROVE  TruthInv'
<1> SUFFICES ASSUME ~torn'
             PROVE  WholeInv'
  BY DEF TruthInv
<1>1. /\ UNCHANGED <<index, asset, copy, todo>>
      /\ files \subseteq files' /\ chunks \subseteq chunks'
      /\ \A d \in Clients \ {c} : pc'[d] = pc[d]
      /\ pc[c] \in Working \ {"remove"} /\ pc'[c] \in {"upsert", "mark"}
      /\ pc'[c] = "upsert" => asset[c] \in files'
      /\ pc'[c] = "mark" => pc[c] = "chunks" /\ asset[c] \in chunks'
  BY DEF WriteAsset, WriteChunks, Goto, session, history, Working,
         TypeInv, TypeOK
<1>2. WholeInv
  BY DEF TruthInv, WriteAsset, WriteChunks, history
<1>3. ~Deleting /\ ~Deleting'
  BY <1>1, <1>2 DEF WholeInv, AloneInv, Deleting, Working
<1>4. DoneInv'
  BY <1>1, <1>2 DEF WholeInv, DoneInv, True, Holding
<1> QED
  BY <1>1, <1>2, <1>3, <1>4 DEF WholeInv, AloneInv, True, Deleting

LEMMA IndexTruth ==
  ASSUME TypeInv, KeptInv, TruthInv, NEW c \in Clients,
         FinishPut(c) \/ FinishLoad(c)
  PROVE  TruthInv'
<1> SUFFICES ASSUME ~torn'
             PROVE  WholeInv'
  BY DEF TruthInv
<1>1. /\ pc[c] \in Holding /\ pc'[c] \in {"idle", "commit"}
      /\ \A d \in Clients \ {c} :
           pc'[d] = pc[d] /\ asset'[d] = asset[d] /\ copy'[d] = copy[d]
      /\ UNCHANGED <<files, chunks>>
      /\ index' = [copy[c] EXCEPT ![asset[c]] = status[c]]
      /\ copy[c] \in [Assets -> Status]
  BY DEF FinishPut, FinishLoad, WriteIndex, Goto, Return, Holding,
         TypeInv, TypeOK
<1>2. WholeInv
  BY DEF TruthInv, FinishPut, FinishLoad, WriteIndex
<1>3. ~Deleting /\ ~Deleting'
  BY <1>1, <1>2 DEF WholeInv, AloneInv, Deleting, Working, Holding
<1>4. /\ True(copy[c]) /\ asset[c] \in files
      /\ status[c] = "completed" => asset[c] \in chunks
  BY <1>1, <1>2 DEF WholeInv, DoneInv, Holding, KeptInv, PutInv
<1>5. True(index)'
  BY <1>1, <1>4 DEF True
<1>6. DoneInv'
  BY <1>1, <1>2 DEF WholeInv, DoneInv, True, Holding
<1> QED
  BY <1>3, <1>5, <1>6 DEF WholeInv, AloneInv, Deleting

LEMMA DeleteTruth ==
  ASSUME TypeInv, TruthInv, NEW c \in Clients, Delete(c)
  PROVE  TruthInv'
<1> SUFFICES ASSUME ~torn'
             PROVE  WholeInv'
  BY DEF TruthInv
<1>1. /\ UNCHANGED <<files, chunks, index, asset, copy>>
      /\ pc' = [pc EXCEPT ![c] = "remove"]
      /\ todo' = [todo EXCEPT ![c] = Entries]
      /\ \A d \in Clients : pc[d] \notin Working
  BY DEF Delete, disk, session, Goto
<1>2. /\ pc'[c] = "remove" /\ todo'[c] = Entries /\ Entries' = Entries
      /\ \A d \in Clients \ {c} : pc'[d] = pc[d]
  BY <1>1 DEF TypeInv, TypeOK, Entries
<1>3. AloneInv' /\ Deleting'
  BY <1>1, <1>2 DEF AloneInv, Deleting, Working
<1>4. DoneInv'
  BY <1>1, <1>2 DEF DoneInv, Working, Holding
<1> QED
  BY <1>3, <1>4 DEF WholeInv

LEMMA RemoveTruth ==
  ASSUME TypeInv, TruthInv, NEW c \in Clients, RemoveEntry(c)
  PROVE  TruthInv'
<1> SUFFICES ASSUME ~torn'
             PROVE  WholeInv'
  BY DEF TruthInv
<1>1. PICK e \in todo[c] :
        /\ todo' = [todo EXCEPT ![c] = @ \ {e}]
        /\ files' = files \ {a \in Assets : e = <<"asset", a>>}
        /\ chunks' = chunks \ {a \in Assets : e = <<"chunks", a>>}
        /\ index' = IF e = <<"index", NoAsset>> THEN Empty ELSE index
  BY DEF RemoveEntry
<1>2. pc[c] = "remove" /\ UNCHANGED <<pc, asset, copy>> /\ WholeInv
  BY DEF RemoveEntry, TruthInv, history
<1>3. /\ \A d \in Clients \ {c} : pc[d] \notin Working
      /\ Entries \subseteq todo[c]
  BY <1>2 DEF WholeInv, AloneInv
<1>4. Entries' \subseteq Entries \ {e}
  <2>1. /\ files' \subseteq files /\ chunks' \subseteq chunks
        /\ \A a \in files' : e # <<"asset", a>>
        /\ \A a \in chunks' : e # <<"chunks", a>>
        /\ index' # Empty => index' = index /\ e # <<"index", NoAsset>>
    BY <1>1 DEF TypeInv, TypeOK
  <2> QED
    BY <2>1 DEF Entries
<1>5. AloneInv' /\ Deleting'
  BY <1>1, <1>2, <1>3, <1>4 DEF AloneInv, Deleting, Working, TypeInv, TypeOK
<1>6. DoneInv'
  BY <1>2, <1>3 DEF DoneInv, Working, Holding
<1> QED
  BY <1>5, <1>6 DEF WholeInv

(* The directory is gone, or the deletion leaves something and others are  *)
(* at work.                                                                *)
LEMMA RemovedTruth ==
  ASSUME TypeInv, TruthInv, NEW c \in Clients, RemoveDir(c)
  PROVE  TruthInv'
<1> SUFFICES ASSUME ~torn'
             PROVE  WholeInv'
  BY DEF TruthInv
<1>1. /\ pc[c] = "remove" /\ todo[c] = {} /\ pc'[c] = "idle"
      /\ UNCHANGED <<files, chunks, index>>
      /\ \A d \in Clients \ {c} : pc'[d] = pc[d]
  BY DEF RemoveDir, Goto, Return, TypeInv, TypeOK
<1>2. Entries = {} /\ \A d \in Clients \ {c} : pc[d] \notin Working
  <2>1. CASE torn
    BY <2>1 DEF RemoveDir
  <2>2. CASE ~torn
    BY <1>1, <2>2 DEF TruthInv, WholeInv, AloneInv
  <2> QED
    BY <2>1, <2>2
<1>3. True(index)
  BY <1>2, NoEntries
<1>4. \A d \in Clients : pc'[d] \notin Working
  BY <1>1, <1>2 DEF Working
<1> QED
  BY <1>1, <1>3, <1>4
  DEF WholeInv, AloneInv, DoneInv, True, Working, Holding

LEMMA CrashTruth ==
  ASSUME TypeInv, TruthInv, Crash
  PROVE  TruthInv'
BY DEF Crash, disk, TruthInv, WholeInv, AloneInv, DoneInv, True, Holding,
       Deleting

LEMMA StepTruth == TypeInv /\ KeptInv /\ TruthInv /\ [Next]_vars => TruthInv'
<1> SUFFICES ASSUME TypeInv, KeptInv, TruthInv, [Next]_vars
             PROVE  TruthInv'
  OBVIOUS
<1>1. CASE UNCHANGED vars
  BY <1>1
  DEF vars, TruthInv, WholeInv, AloneInv, DoneInv, True, Holding, Deleting,
      Entries
<1>2. ASSUME NEW c \in Clients, RemoveFails(c)
      PROVE  TruthInv'
  BY <1>2 DEF RemoveFails, TruthInv
<1> QED
  BY <1>1, <1>2, QuietTruth, WriteTruth, IndexTruth, DeleteTruth,
     RemoveTruth, RemovedTruth, CrashTruth
  DEF Next

(* Each record has its file, and one that is marked as ingested its chunk  *)
(* index, wherever calls fail or the process dies, unless a deletion met   *)
(* another call or was cut short.                                          *)
THEOREM Truthful == Spec => []IndexIsTrue
<1>1. TruthInv => IndexIsTrue
  BY DEF TruthInv, WholeInv, True, IndexIsTrue
<1>2. Spec => []TruthInv
  BY InitTruth, StepTruth, TypeInvariant, KeptInvariant, PTL DEF Spec
<1> QED
  BY <1>1, <1>2, PTL

-----------------------------------------------------------------------------
(* The chunks of a document (TextChunks)                                   *)

LEMMA StepBounds ==
  ASSUME NEW c \in Chunkers
  PROVE  /\ ChunkSize(c) \in Nat \ {0}
         /\ Overlap(c) \in 0..(ChunkSize(c) - 1)
         /\ Step(c) \in 1..ChunkSize(c)
<1>1. c.chunkSize \in Int /\ c.overlap \in Int
  BY DEF Chunkers
<1>2. ChunkSize(c) \in Nat \ {0}
  BY <1>1 DEF ChunkSize
<1>3. Overlap(c) \in 0..(ChunkSize(c) - 1)
  BY <1>1, <1>2 DEF Overlap
<1> QED
  BY <1>2, <1>3 DEF Step

(* Every number lies between two neighbouring multiples of a step.         *)
LEMMA Multiple ==
  ASSUME NEW s \in Nat \ {0}, NEW d \in Nat
  PROVE  \E q \in Nat : q * s <= d /\ d < q * s + s
<1> DEFINE q == d \div s
<1>1. d = s * q + (d % s) /\ d % s \in 0..(s - 1)
  OBVIOUS
<1>2. q \in Nat
  OBVIOUS
<1> HIDE DEF q
<1>3. s * q = q * s /\ q * s \in Nat
  BY <1>2
<1>4. q * s <= d /\ d < q * s + s
  BY <1>1, <1>3
<1> WITNESS q \in Nat
<1> QED
  BY <1>4

LEMMA Products ==
  ASSUME NEW k \in Nat, NEW s \in Nat \ {0}
  PROVE  k * s \in Nat /\ k <= k * s /\ (k + 1) * s = k * s + s
  OBVIOUS

(* No text of a document is lost to the search: every visible character is *)
(* in some chunk, whatever the configuration of the chunker.               *)
THEOREM ChunksCover ==
  ASSUME NEW c \in Chunkers, NEW n \in Nat,
         NEW visible \in [0..(n - 1) -> BOOLEAN],
         NEW i \in 0..(n - 1), visible[i]
  PROVE  \E piece \in chunk(c, n, visible) :
           piece.start <= i /\ i < piece.end
<1> DEFINE size == ChunkSize(c)
           step == Step(c)
<1>1. size \in Nat \ {0} /\ step \in 1..size
  BY StepBounds
<1> HIDE DEF size, step
<1>2. PICK k \in 0..(n - 1) :
        /\ k = 0 \/ (k - 1) * step + size < n
        /\ k * step \in Nat /\ k * step <= i /\ i < k * step + size
  <2>1. CASE i < size
    BY <2>1, <1>1
  <2>2. CASE i >= size
    <3>1. PICK q \in Nat : q * step <= i - size /\ i - size < q * step + step
      <4>1. i - size \in Nat /\ step \in Nat \ {0}
        BY <2>2, <1>1
      <4> QED
        BY <4>1, Multiple
    <3>2. /\ q * step \in Nat /\ q <= q * step
          /\ (q + 1) * step = q * step + step
      BY <1>1, Products
    <3>3. q + 1 \in 0..(n - 1) /\ (q + 1) - 1 = q
      BY <3>1, <3>2, <1>1
    <3>4. /\ (q + 1) * step \in Nat /\ (q + 1) * step <= i
          /\ i < (q + 1) * step + size
          /\ ((q + 1) - 1) * step + size < n
      BY <3>1, <3>2, <3>3, <1>1
    <3> QED
      BY <3>3, <3>4
  <2> QED
    BY <2>1, <2>2, <1>1
<1>3. k \in Windows(c, n)
  BY <1>2 DEF Windows, size, step
<1>4. Start(c, k) = k * step /\ i < End(c, n, k)
  BY <1>1, <1>2 DEF Start, End, size, step
<1>5. i \in Start(c, k)..(End(c, n, k) - 1)
  BY <1>1, <1>2, <1>4 DEF Start, End, size, step
<1>6. [start |-> Start(c, k), end |-> End(c, n, k)] \in chunk(c, n, visible)
  BY <1>3, <1>5 DEF chunk
<1> QED
  BY <1>2, <1>4, <1>6

(* A chunk lies within the text, is not empty and no longer than it may    *)
(* be, so that the embedder takes it whole.                                *)
THEOREM ChunksFit ==
  ASSUME NEW c \in Chunkers, NEW n \in Nat,
         NEW visible \in [0..(n - 1) -> BOOLEAN],
         NEW piece \in chunk(c, n, visible)
  PROVE  /\ piece.start \in 0..(n - 1)
         /\ piece.end \in (piece.start + 1)..n
         /\ piece.end - piece.start <= ChunkSize(c)
<1>1. PICK k \in Windows(c, n) :
        piece = [start |-> Start(c, k), end |-> End(c, n, k)]
  BY DEF chunk
<1>2. ChunkSize(c) \in Nat \ {0} /\ Step(c) \in 1..ChunkSize(c)
  BY StepBounds
<1>3. k \in Nat /\ k < n /\ k * Step(c) \in Nat
  BY <1>2, Products DEF Windows
<1>4. k * Step(c) < n
  <2>1. CASE k = 0
    BY <2>1, <1>2, <1>3
  <2>2. CASE k # 0
    <3>1. k - 1 \in Nat /\ (k - 1) * Step(c) + ChunkSize(c) < n
      BY <2>2, <1>3 DEF Windows
    <3>2. ((k - 1) + 1) * Step(c) = (k - 1) * Step(c) + Step(c)
          /\ (k - 1) * Step(c) \in Nat
      BY <3>1, <1>2, Products
    <3>3. (k - 1) + 1 = k
      BY <1>3
    <3> QED
      BY <3>1, <3>2, <3>3, <1>2
  <2> QED
    BY <2>1, <2>2
<1> QED
  BY <1>1, <1>2, <1>3, <1>4, SMTT(30) DEF Start, End

(* Neighbouring windows share exactly the overlap that was asked for, so   *)
(* that a sentence shorter than it is whole in one of them.                *)
THEOREM WindowsOverlap ==
  ASSUME NEW c \in Chunkers, NEW n \in Nat, NEW k \in Nat,
         k + 1 \in Windows(c, n)
  PROVE  End(c, n, k) - Start(c, k + 1) = Overlap(c)
<1>1. /\ ChunkSize(c) \in Nat \ {0}
      /\ Overlap(c) \in 0..(ChunkSize(c) - 1)
      /\ Step(c) = ChunkSize(c) - Overlap(c)
  BY StepBounds DEF Step
<1>2. (k + 1) - 1 = k /\ k + 1 # 0
  OBVIOUS
<1>3. k * Step(c) + ChunkSize(c) < n
  BY <1>2 DEF Windows
<1>4. k * Step(c) \in Nat /\ (k + 1) * Step(c) = k * Step(c) + Step(c)
  <2>1. Step(c) \in Nat \ {0}
    BY <1>1
  <2> QED
    BY <2>1, Products
<1> QED
  BY <1>1, <1>3, <1>4 DEF Start, End
=============================================================================
