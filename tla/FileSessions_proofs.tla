------------------------ MODULE FileSessions_proofs ------------------------
(***************************************************************************)
(* Proofs about FileSessions: type correctness, which says that no state   *)
(* file is ever torn, for every behaviour; and, when a session is deleted  *)
(* only while nobody uses its session ID, that the locks keep writers      *)
(* apart, that acknowledged saves are kept through failures and crashes,   *)
(* and that FileSessions implements AppendStore.                           *)
(***************************************************************************)
EXTENDS FileSessions, SequenceTheorems, TLAPS

-----------------------------------------------------------------------------
(* Type correctness                                                        *)
(*                                                                         *)
(* state.json is whole because only a whole temporary file is renamed.     *)

Saving == {"lock"} \cup Writing

TypeInv ==
  /\ TypeOK
  /\ \A p \in Procs : pc[p] = "rename" => temp[p] # Partial
  /\ \A p \in Procs : pc[p] \in Saving => state[p] # <<>>

LEMMA InitType == Init => TypeInv
BY FileAssumption, EmptySeq
DEF Init, TypeInv, TypeOK, States, Entry, Saving, Writing, Holding, Deleting

LEMMA ContentsType ==
  ASSUME TypeOK, NEW k \in Keys
  PROVE  Contents(k) \in States
BY EmptySeq DEF TypeOK, Contents, States

LEMMA LastType ==
  ASSUME NEW s \in States, s # <<>>
  PROVE  /\ Len(s) \in Nat \ {0}
         /\ s[Len(s)] \in Entry
<1>1. Len(s) \in Nat \ {0}
  BY EmptySeq DEF States
<1> QED
  BY <1>1, ElementOfSeq DEF States

(* A lock that is looked up is the session ID's from then on. *)
LEMMA LockFact ==
  ASSUME TypeOK, NEW p \in Procs, NEW k \in Keys, sessionLock(p, Session(k))
  PROVE  /\ Session(k) \in Sessions
         /\ locks' = [locks EXCEPT ![Session(k)] = lk'[p]]
         /\ lk'[p] \in Locks /\ lk' = [lk EXCEPT ![p] = lk'[p]]
         /\ locks[Session(k)] \in {NoLock, lk'[p]}
         /\ locks[Session(k)] = NoLock => Fresh(lk'[p])
<1>1. Session(k) \in Sessions
  BY DEF Session, Keys
<1>2. PICK l \in Locks :
        /\ IF locks[Session(k)] = NoLock THEN Fresh(l)
                                         ELSE l = locks[Session(k)]
        /\ lk' = [lk EXCEPT ![p] = l]
        /\ locks' = [locks EXCEPT ![Session(k)] = l]
  BY DEF sessionLock
<1>3. lk'[p] = l
  BY <1>2 DEF TypeOK
<1> QED
  BY <1>1, <1>2, <1>3

LEMMA CallType ==
  ASSUME TypeInv, NEW p \in Procs,
         \/ \E k \in Keys : CallLoad(p, k) \/ CallDelete(p, k)
         \/ CallSave(p) \/ Leave(p) \/ Acquire(p)
  PROVE  TypeInv'
<1> USE FileAssumption
    DEF TypeInv, TypeOK, Saving, Writing, Holding, Deleting, disk
<1>1. ASSUME NEW k \in Keys, CallLoad(p, k) \/ CallDelete(p, k)
      PROVE  TypeInv'
  <2>1. /\ locks' \in [Sessions -> Locks \cup {NoLock}]
        /\ lk' \in [Procs -> Locks \cup {NoLock}]
        /\ \A q \in Procs : lk'[q] = lk[q] \/ (q = p /\ lk'[q] \in Locks)
        /\ lk'[p] \in Locks
    BY <1>1, LockFact DEF CallLoad, CallDelete
  <2> QED
    BY <1>1, <2>1 DEF CallLoad, CallDelete, Goto
<1>2. CASE CallSave(p)
  <2>1. key[p] \in Keys
    BY <1>2 DEF CallSave
  <2>2. /\ locks' \in [Sessions -> Locks \cup {NoLock}]
        /\ lk' \in [Procs -> Locks \cup {NoLock}]
        /\ \A q \in Procs : lk'[q] = lk[q] \/ (q = p /\ lk'[q] \in Locks)
        /\ lk'[p] \in Locks
    BY <1>2, <2>1, LockFact DEF CallSave
  <2>3. saves + 1 \in Entry /\ saves' \in 0..MaxSaves
    BY <1>2 DEF CallSave, Entry
  <2>4. /\ Append(state[p], saves + 1) \in States
        /\ Append(state[p], saves + 1) # <<>>
    BY <2>3, AppendProperties DEF States
  <2>5. state' = [state EXCEPT ![p] = Append(state[p], saves + 1)]
    BY <1>2 DEF CallSave
  <2> QED
    BY <1>2, <2>1, <2>2, <2>3, <2>4, <2>5 DEF CallSave, Goto
<1>3. CASE Leave(p)
  BY <1>3, EmptySeq DEF Leave, Return, Goto, States
<1>4. CASE Acquire(p)
  BY <1>4 DEF Acquire, RLock, Lock, Goto
<1> QED
  BY <1>1, <1>2, <1>3, <1>4

LEMMA StepOfType ==
  ASSUME TypeInv, NEW p \in Procs, Step(p)
  PROVE  TypeInv'
<1> USE FileAssumption
    DEF TypeInv, TypeOK, Saving, Writing, Holding, Deleting, disk
<1>1. key[p] \in Keys
  BY DEF Step, ReadFails, Read, CheckPasses, CheckFails, CreateTemp, WriteTemp,
         Rename, WriteFails, Saved, RemoveState, RemoveTemp, EntriesGone,
         RemoveDir, RemoveFails, ForgetLock, Removed
<1>2. <<>> \in States /\ Absent \notin States /\ Partial \notin States
  BY EmptySeq DEF States
<1>3. CASE ReadFails(p) \/ CheckFails(p) \/ RemoveFails(p) \/ Removed(p)
  BY <1>1, <1>2, <1>3
  DEF ReadFails, CheckFails, RemoveFails, Removed, Return, Goto
<1>4. CASE WriteFails(p)
  BY <1>1, <1>2, <1>4 DEF WriteFails, Return, Goto
<1>5. CASE Read(p)
  <2>1. Contents(key[p]) \in States
    BY <1>1, ContentsType
  <2> QED
    BY <1>1, <1>5, <2>1 DEF Read, Goto
<1>6. CASE CheckPasses(p) \/ CreateTemp(p)
  BY <1>1, <1>6 DEF CheckPasses, CreateTemp, Goto
<1>7. CASE WriteTemp(p)
  BY <1>1, <1>2, <1>7 DEF WriteTemp, Goto
<1>8. CASE Rename(p)
  BY <1>1, <1>8 DEF Rename, Goto
<1>9. CASE Saved(p)
  <2>1. state[p][Len(state[p])] \in Entry
    BY <1>9, LastType DEF Saved
  <2> QED
    BY <1>1, <1>2, <1>9, <2>1 DEF Saved, Return, Goto
<1>10. CASE \/ RemoveState(p) \/ RemoveTemp(p)
            \/ EntriesGone(p) \/ RemoveDir(p)
  BY <1>1, <1>10
  DEF RemoveState, RemoveTemp, EntriesGone, RemoveDir, Goto, calls
<1>11. CASE ForgetLock(p)
  <2>1. Session(key[p]) \in Sessions
    BY <1>1 DEF Session, Keys
  <2> QED
    BY <1>1, <1>11, <2>1 DEF ForgetLock, Goto
<1> QED
  BY <1>3, <1>4, <1>5, <1>6, <1>7, <1>8, <1>9, <1>10, <1>11 DEF Step

LEMMA StepType == TypeInv /\ [Next]_vars => TypeInv'
<1> SUFFICES ASSUME TypeInv, [Next]_vars
             PROVE  TypeInv'
  OBVIOUS
<1>1. CASE UNCHANGED vars
  BY <1>1 DEF vars, TypeInv, TypeOK
<1>2. CASE Crash
  BY <1>2, FileAssumption, EmptySeq
  DEF Crash, TypeInv, TypeOK, States, Saving, Writing, Holding, Deleting
<1> QED
  BY <1>1, <1>2, CallType, StepOfType DEF Next

LEMMA TypeInvariant == Spec => []TypeInv
BY InitType, StepType, PTL DEF Spec

(* Every variable keeps its type; so state.json is absent or a whole state *)
(* at any time, also if the process dies while it is written.              *)
THEOREM TypeCorrect == Spec => []TypeOK
<1>1. TypeInv => TypeOK
  BY DEF TypeInv
<1> QED
  BY <1>1, TypeInvariant, PTL

-----------------------------------------------------------------------------
(* The locks                                                               *)
(*                                                                         *)
(* Two writers of a session exclude each other because they hold the same  *)
(* lock: the one in the map.  It can only be taken out of the map by a     *)
(* deletion, and then nobody else is using a session with that ID.         *)

(* A session is deleted only while nobody uses its ID. *)
WaitsForID == \A j, k \in Keys : Session(j) = Session(k) => j \in WaitsFor[k]

AloneInv ==
  \A p, q \in Procs :
    /\ pc[p] \in {"dlock"} \cup Deleting
    /\ pc[q] # "idle"
    /\ Session(key[p]) = Session(key[q])
    => p = q

MappedInv ==
  \A p \in Procs :
    pc[p] \notin {"idle", "loaded", "removed"} =>
      lk[p] = locks[Session(key[p])]

HeldInv ==
  \A p, q \in Procs :
    pc[p] \in Holding /\ pc[q] \in Holding /\ lk[p] = lk[q] => p = q

LockInv == AloneInv /\ MappedInv /\ HeldInv

LEMMA InitLock == Init => LockInv
BY DEF Init, LockInv, AloneInv, MappedInv, HeldInv, Holding, Writing, Deleting

LEMMA AloneCall ==
  ASSUME TypeOK, LockInv, WaitsForID, NEW p \in Procs, NEW k \in Keys,
         CallLoad(p, k) \/ CallDelete(p, k)
  PROVE  AloneInv'
<1> SUFFICES ASSUME NEW q \in Procs, NEW r \in Procs,
                    pc'[q] \in {"dlock"} \cup Deleting, pc'[r] # "idle",
                    Session(key'[q]) = Session(key'[r]), q # r
             PROVE  FALSE
  BY DEF AloneInv
<1>1. /\ pc[p] = "idle" /\ pc'[p] \in {"rlock", "dlock"} /\ key'[p] = k
      /\ \A o \in Procs \ {p} : pc'[o] = pc[o] /\ key'[o] = key[o]
      /\ pc'[p] = "dlock" <=> CallDelete(p, k)
  BY DEF CallLoad, CallDelete, Goto, TypeOK
<1>2. CASE q # p /\ r # p
  BY <1>1, <1>2 DEF LockInv, AloneInv
<1>3. CASE r = p
  <2>1. /\ pc[q] \in {"dlock"} \cup Deleting
        /\ Using(q, key[q]) /\ key[q] \in Keys
        /\ Session(key[q]) = Session(k)
    BY <1>1, <1>3 DEF Using, TypeOK, Deleting
  <2>2. k \in WaitsFor[key[q]]
    BY <2>1 DEF WaitsForID
  <2>3. Undisturbed(k)
    BY DEF CallLoad, CallDelete
  <2> QED
    BY <2>1, <2>2, <2>3 DEF Undisturbed
<1>4. CASE q = p
  <2>1. CallDelete(p, k)
    BY <1>1, <1>4 DEF Deleting
  <2>2. Using(r, key[r]) /\ key[r] \in Keys /\ Session(key[r]) = Session(k)
    BY <1>1, <1>4 DEF Using, TypeOK
  <2>3. key[r] \in WaitsFor[k]
    BY <2>2 DEF WaitsForID
  <2> QED
    BY <2>1, <2>2, <2>3 DEF CallDelete
<1> QED
  BY <1>2, <1>3, <1>4

(* A lock is looked up: the locks of the others stay those in the map.     *)
LEMMA LookUp ==
  ASSUME TypeOK, LockInv, NEW p \in Procs, NEW k \in Keys,
         sessionLock(p, Session(k)),
         pc' \in [Procs -> {"rlock", "lock", "dlock"} \cup
                             {pc[q] : q \in Procs}],
         pc'[p] \in {"rlock", "lock", "dlock"},
         \A q \in Procs \ {p} : pc'[q] = pc[q] /\ key'[q] = key[q],
         key'[p] = k
  PROVE  MappedInv' /\ HeldInv'
<1>1. /\ Session(k) \in Sessions
      /\ locks' = [locks EXCEPT ![Session(k)] = lk'[p]]
      /\ lk'[p] \in Locks /\ lk' = [lk EXCEPT ![p] = lk'[p]]
      /\ locks[Session(k)] \in {NoLock, lk'[p]}
  BY LockFact
<1>2. HeldInv'
  BY <1>1 DEF LockInv, HeldInv, Holding, Writing, Deleting, TypeOK
<1>3. MappedInv'
  <2> SUFFICES ASSUME NEW q \in Procs,
                      pc'[q] \notin {"idle", "loaded", "removed"}
               PROVE  lk'[q] = locks'[Session(key'[q])]
    BY DEF MappedInv
  <2>1. CASE q = p
    BY <1>1, <2>1 DEF TypeOK
  <2>2. CASE q # p
    <3>1. /\ lk'[q] = lk[q] /\ lk[q] \in Locks
          /\ key'[q] = key[q] /\ key[q] \in Keys
          /\ lk[q] = locks[Session(key[q])]
      BY <1>1, <2>2 DEF LockInv, MappedInv, TypeOK
    <3>2. Session(key[q]) \in Sessions
      BY <3>1 DEF Session, Keys
    <3>3. CASE Session(key[q]) = Session(k)
      BY <1>1, <3>1, <3>3, FileAssumption DEF TypeOK
    <3>4. CASE Session(key[q]) # Session(k)
      BY <1>1, <3>1, <3>2, <3>4 DEF TypeOK
    <3> QED
      BY <3>3, <3>4
  <2> QED
    BY <2>1, <2>2
<1> QED
  BY <1>2, <1>3

LEMMA CallLock ==
  ASSUME TypeInv, LockInv, WaitsForID, NEW p \in Procs,
         \/ \E k \in Keys : CallLoad(p, k) \/ CallDelete(p, k)
         \/ CallSave(p)
  PROVE  LockInv'
<1> USE DEF TypeInv
<1>1. ASSUME NEW k \in Keys, CallLoad(p, k) \/ CallDelete(p, k)
      PROVE  LockInv'
  <2>1. /\ sessionLock(p, Session(k)) /\ key'[p] = k
        /\ pc' \in {[pc EXCEPT ![p] = "rlock"], [pc EXCEPT ![p] = "dlock"]}
        /\ key' = [key EXCEPT ![p] = k]
    BY <1>1 DEF CallLoad, CallDelete, Goto, TypeOK
  <2>2. MappedInv' /\ HeldInv'
    BY <2>1, LookUp DEF TypeOK
  <2> QED
    BY <1>1, <2>2, AloneCall DEF LockInv
<1>2. CASE CallSave(p)
  <2>1. /\ sessionLock(p, Session(key[p])) /\ key' = key
        /\ pc[p] = "loaded" /\ pc' = [pc EXCEPT ![p] = "lock"]
        /\ key[p] \in Keys
    BY <1>2 DEF CallSave, Goto, TypeOK
  <2>2. MappedInv' /\ HeldInv'
    BY <2>1, LookUp DEF TypeOK
  <2>3. AloneInv'
    BY <2>1 DEF LockInv, AloneInv, Deleting, TypeOK
  <2> QED
    BY <2>2, <2>3 DEF LockInv
<1> QED
  BY <1>1, <1>2

(* The other steps of a call: it goes on, or returns. *)
LEMMA OtherLock ==
  ASSUME TypeInv, LockInv, NEW p \in Procs,
         Leave(p) \/ Acquire(p) \/ Step(p)
  PROVE  LockInv'
<1> USE DEF TypeInv
<1>1. CASE Lock(p)
  <2>1. /\ UNCHANGED <<locks, key, lk>>
        /\ pc[p] \in {"lock", "dlock"}
        /\ pc' = [pc EXCEPT ![p] = IF pc[p] = "lock" THEN "check" ELSE "remove"]
        /\ \A q \in Procs : lk[q] = lk[p] => pc[q] \notin Holding
    BY <1>1 DEF Lock, Goto, Free
  <2>2. AloneInv' /\ MappedInv'
    BY <2>1 DEF LockInv, AloneInv, MappedInv, Deleting, TypeOK
  <2>3. HeldInv'
    BY <2>1 DEF LockInv, HeldInv, TypeOK
  <2> QED
    BY <2>2, <2>3 DEF LockInv
<1>2. CASE ForgetLock(p)
  <2>1. /\ UNCHANGED <<key, lk>>
        /\ pc[p] = "forget" /\ pc' = [pc EXCEPT ![p] = "removed"]
        /\ locks' = [locks EXCEPT ![Session(key[p])] = NoLock]
        /\ key[p] \in Keys
    BY <1>2 DEF ForgetLock, Goto, TypeOK
  <2>2. AloneInv' /\ HeldInv'
    BY <2>1
    DEF LockInv, AloneInv, HeldInv, Holding, Deleting, TypeOK
  <2>3. MappedInv'
    <3> SUFFICES ASSUME NEW q \in Procs,
                        pc'[q] \notin {"idle", "loaded", "removed"}
                 PROVE  lk'[q] = locks'[Session(key'[q])]
      BY DEF MappedInv
    <3>1. q # p /\ pc[q] \notin {"idle", "loaded", "removed"}
      BY <2>1 DEF TypeOK
    <3>2. key[q] \in Keys /\ Session(key[q]) # Session(key[p])
      BY <2>1, <3>1 DEF LockInv, AloneInv, Deleting, TypeOK
    <3>3. Session(key[q]) \in Sessions
      BY <3>2 DEF Session, Keys
    <3> QED
      BY <2>1, <3>1, <3>2, <3>3 DEF LockInv, MappedInv, TypeOK
  <2> QED
    BY <2>2, <2>3 DEF LockInv
<1>3. ASSUME UNCHANGED <<locks, key>>, pc[p] # "idle",
             \A q \in Procs \ {p} : pc'[q] = pc[q] /\ lk'[q] = lk[q],
             \/ pc'[p] = "loaded"
             \/ lk'[p] = lk[p] /\ pc[p] = "rlock" /\ pc'[p] = "read"
             \/ lk'[p] = lk[p] /\ pc[p] \in Writing /\ pc'[p] \in Writing
             \/ /\ lk'[p] = lk[p]
                /\ pc[p] \in Deleting \ {"removed"}
                /\ pc'[p] \in Deleting \ {"removed"}
      PROVE  LockInv'
  <2>1. AloneInv'
    BY <1>3 DEF LockInv, AloneInv, Deleting, Writing
  <2>2. MappedInv'
    BY <1>3 DEF LockInv, MappedInv, Deleting, Writing
  <2>3. HeldInv'
    BY <1>3 DEF LockInv, HeldInv, Holding, Deleting, Writing
  <2> QED
    BY <2>1, <2>2, <2>3 DEF LockInv
<1>4. ASSUME UNCHANGED locks, Return(p)
      PROVE  LockInv'
  <2>1. /\ pc'[p] = "idle" /\ pc' = [pc EXCEPT ![p] = "idle"]
        /\ \A q \in Procs \ {p} : pc'[q] = pc[q] /\ lk'[q] = lk[q]
                                  /\ key'[q] = key[q]
    BY <1>4 DEF Return, Goto, TypeOK
  <2> QED
    BY <1>4, <2>1
    DEF LockInv, AloneInv, MappedInv, HeldInv, Holding, Deleting, Writing
<1>5. CASE RLock(p) \/ Read(p)
  BY <1>3, <1>5 DEF RLock, Read, Goto, TypeOK
<1>6. CASE CheckPasses(p) \/ CreateTemp(p) \/ WriteTemp(p) \/ Rename(p)
  BY <1>3, <1>6
  DEF CheckPasses, CreateTemp, WriteTemp, Rename, Goto, Writing, TypeOK
<1>7. CASE \/ RemoveState(p) \/ RemoveTemp(p)
           \/ EntriesGone(p) \/ RemoveDir(p)
  BY <1>3, <1>7
  DEF RemoveState, RemoveTemp, EntriesGone, RemoveDir, Goto, Deleting, calls,
      TypeOK
<1>8. CASE \/ Leave(p) \/ ReadFails(p) \/ CheckFails(p) \/ WriteFails(p)
           \/ Saved(p) \/ RemoveFails(p) \/ Removed(p)
  BY <1>4, <1>8
  DEF Leave, ReadFails, CheckFails, WriteFails, Saved, RemoveFails, Removed
<1> QED
  BY <1>1, <1>2, <1>5, <1>6, <1>7, <1>8 DEF Acquire, Step

LEMMA StepLock ==
  ASSUME WaitsForID
  PROVE  TypeInv /\ LockInv /\ [Next]_vars => LockInv'
<1> SUFFICES ASSUME TypeInv, LockInv, [Next]_vars
             PROVE  LockInv'
  OBVIOUS
<1>1. CASE UNCHANGED vars
  BY <1>1 DEF vars, LockInv, AloneInv, MappedInv, HeldInv
<1>2. CASE Crash
  BY <1>2
  DEF Crash, LockInv, AloneInv, MappedInv, HeldInv, Holding, Writing, Deleting
<1> QED
  BY <1>1, <1>2, CallLock, OtherLock DEF Next

LEMMA LockInvariant ==
  ASSUME WaitsForID
  PROVE  Spec => []LockInv
<1>1. TypeInv /\ LockInv /\ [Next]_vars => LockInv'
  BY StepLock
<1> QED
  BY <1>1, InitLock, TypeInvariant, PTL DEF Spec

LEMMA Excluded == TypeOK /\ LockInv => OneWriter
<1> SUFFICES ASSUME TypeOK, LockInv, NEW p \in Procs, NEW q \in Procs,
                    pc[p] \in Holding, pc[q] \in Holding, key[p] = key[q]
             PROVE  p = q
  BY DEF OneWriter
<1>1. CASE pc[p] \in Deleting \/ pc[q] \in Deleting
  BY <1>1 DEF LockInv, AloneInv, Holding, Writing, Deleting
<1>2. CASE pc[p] \in Writing /\ pc[q] \in Writing
  <2>1. lk[p] = lk[q]
    BY <1>2 DEF LockInv, MappedInv, Writing
  <2> QED
    BY <2>1 DEF LockInv, HeldInv
<1> QED
  BY <1>1, <1>2 DEF Holding

(* If a session is deleted only while nobody uses its ID, no two callers   *)
(* ever write to, or remove, one session at the same time, through all     *)
(* failures and crashes.                                                   *)
THEOREM Excludes ==
  ASSUME WaitsForID
  PROVE  Spec => []OneWriter
<1>1. TypeInv => TypeOK
  BY DEF TypeInv
<1> QED
  BY <1>1, Excluded, TypeInvariant, LockInvariant, PTL

-----------------------------------------------------------------------------
(* The states                                                              *)
(*                                                                         *)
(* What a caller is about to write is what is stored and one new entry:    *)
(* the state it loaded was stored once, the stored state only grew since,  *)
(* and the check has refused it if it grew at all, as the new entry is in  *)
(* no state but the caller's own.                                          *)

NewID(s) == s[Len(s)]

Pending(p) == pc[p] \in {"lock", "check", "create", "write", "rename"}

(* The new entry is a number no other save has got.                        *)
NewInv ==
  \A p \in Procs :
    Pending(p) =>
      /\ NewID(state[p]) <= saves
      /\ \A k \in Keys : \A i \in 1..Len(Contents(k)) :
           Contents(k)[i] # NewID(state[p])
      /\ \A q \in Procs :
           Pending(q) /\ NewID(state[q]) = NewID(state[p]) => q = p

KnownInv ==
  \A k \in Keys : \A i \in 1..Len(Contents(k)) : Contents(k)[i] <= saves

(* The first n entries of s are the first n that are stored. *)
Agrees(s, stored, n) ==
  n <= Len(stored) /\ \A i \in 1..n : s[i] = stored[i]

(* A caller that is at this place, with state s and temporary file t.      *)
Fits(at, s, stored, t) ==
  /\ at = "loaded" => Agrees(s, stored, Len(s))
  /\ at \in {"lock", "check"} => Agrees(s, stored, Len(s) - 1)
  /\ at \in {"create", "write", "rename"} =>
       Len(s) = Len(stored) + 1 /\ Agrees(s, stored, Len(s) - 1)
  /\ at = "rename" => t \in {Absent, s}
  /\ at = "saved" => \E i \in 1..Len(stored) : stored[i] = NewID(s)

StateOf(p) == Fits(pc[p], state[p], Contents(key[p]), temp[p])

StateInv == \A p \in Procs : StateOf(p)

DataInv == NewInv /\ KnownInv /\ StateInv /\ AcknowledgedKept

LEMMA InitData == Init => DataInv
BY EmptySeq
DEF Init, DataInv, NewInv, KnownInv, StateInv, StateOf, Fits, Pending,
    AcknowledgedKept, Contents

LEMMA StateFact ==
  ASSUME TypeInv, NEW p \in Procs
  PROVE  /\ state[p] \in Seq(Entry) /\ Len(state[p]) \in Nat
         /\ pc[p] \in Saving => /\ Len(state[p]) \in Nat \ {0}
                                /\ NewID(state[p]) \in Entry
         /\ pc[p] # "idle" => key[p] \in Keys
<1>1. state[p] \in Seq(Entry)
  BY DEF TypeInv, TypeOK, States
<1> QED
  BY <1>1, LastType, EmptySeq, LenProperties
  DEF TypeInv, TypeOK, States, NewID

(* A step that leaves the stored states and the other callers alone. *)
LEMMA QuietData ==
  ASSUME TypeInv, DataInv, NEW p \in Procs, UNCHANGED <<file, acked, saves>>,
         \A q \in Procs \ {p} :
           /\ pc'[q] = pc[q] /\ key'[q] = key[q] /\ state'[q] = state[q]
           /\ temp'[q] \in {temp[q], Absent},
         Pending(p)' => Pending(p) /\ state'[p] = state[p],
         StateOf(p)'
  PROVE  DataInv'
<1>1. \A k \in Keys : Contents(k)' = Contents(k)
  BY DEF Contents
<1>2. KnownInv' /\ AcknowledgedKept'
  BY <1>1 DEF DataInv, KnownInv, AcknowledgedKept
<1>3. \A q \in Procs : Pending(q)' => Pending(q) /\ state'[q] = state[q]
  BY DEF Pending
<1>4. NewInv'
  BY <1>1, <1>3 DEF DataInv, NewInv
<1>5. ASSUME NEW q \in Procs, q # p
      PROVE  StateOf(q)'
  <2>1. Fits(pc[q], state[q], Contents(key[q]), temp[q])
    BY DEF DataInv, StateInv, StateOf
  <2>2. Fits(pc[q], state[q], Contents(key[q]), Absent)
    BY <2>1 DEF Fits
  <2>3. Fits(pc[q], state[q], Contents(key[q]), temp'[q])
    BY <1>5, <2>1, <2>2
  <2> QED
    BY <1>5, <2>3 DEF StateOf, Contents
<1> QED
  BY <1>2, <1>4, <1>5 DEF DataInv, StateInv

(* The other callers when the state of p's session is replaced: none is    *)
(* writing to it; the ones that loaded or wait have loaded a part of it.   *)
LEMMA ReplaceData ==
  ASSUME TypeInv, DataInv, OneWriter, NEW p \in Procs,
         pc[p] \in Holding, NEW new \in States,
         file' = [file EXCEPT ![key[p]] = new],
         Len(Contents(key[p])) <= Len(new),
         \A i \in 1..Len(Contents(key[p])) : new[i] = Contents(key[p])[i],
         NEW q \in Procs, q # p,
         pc'[q] = pc[q], key'[q] = key[q], state'[q] = state[q],
         temp'[q] = temp[q]
  PROVE  StateOf(q)'
<1> DEFINE old == Contents(key[q])
           now == Contents(key[q])'
<1>1. Fits(pc[q], state[q], old, temp[q])
  BY DEF DataInv, StateInv, StateOf
<1>2. CASE pc[q] = "idle"
  BY <1>2 DEF StateOf, Fits
<1>3. CASE pc[q] # "idle" /\ key[q] # key[p]
  <2>1. file'[key[q]] = file[key[q]]
    BY <1>3, StateFact DEF TypeInv, TypeOK
  <2> QED
    BY <1>1, <2>1 DEF StateOf, Contents
<1>4. CASE pc[q] # "idle" /\ key[q] = key[p]
  <2>1. pc[q] \notin Holding
    BY <1>4 DEF OneWriter
  <2>2. file'[key[q]] = new /\ new # Absent
    BY <1>4, StateFact, FileAssumption DEF TypeInv, TypeOK
  <2>3. Fits(pc[q], state[q], new, temp[q])
    <3>1. /\ Len(state[q]) \in Nat /\ Len(old) \in Nat /\ Len(new) \in Nat
          /\ Len(old) <= Len(new)
          /\ \A i \in 1..Len(old) : new[i] = old[i]
      BY <1>4, StateFact, ContentsType, LenProperties DEF TypeInv, States
    <3> HIDE DEF old
    <3>2. pc[q] \in {"loaded", "lock"} \/ pc[q] \in {"rlock", "read", "dlock"}
      BY <1>4, <2>1 DEF TypeInv, TypeOK
    <3>3. ASSUME NEW n \in Int, Agrees(state[q], old, n)
          PROVE  Agrees(state[q], new, n)
      BY <3>1, <3>3 DEF Agrees
    <3> QED
      BY <1>1, <3>1, <3>2, <3>3 DEF Fits
  <2> QED
    BY <2>2, <2>3 DEF StateOf, Contents
<1> QED
  BY <1>2, <1>3, <1>4

LEMMA ReadData ==
  ASSUME TypeInv, DataInv, NEW p \in Procs,
         \/ \E k \in Keys : CallLoad(p, k) \/ CallDelete(p, k)
         \/ RLock(p) \/ ReadFails(p) \/ Read(p) \/ Leave(p) \/ CheckFails(p)
         \/ ForgetLock(p) \/ Removed(p)
  PROVE  DataInv'
<1>1. UNCHANGED <<file, temp, acked, saves>>
  BY DEF CallLoad, CallDelete, RLock, ReadFails, Read, Leave, CheckFails,
         ForgetLock, Removed, disk
<1>2. \A q \in Procs \ {p} :
        pc'[q] = pc[q] /\ key'[q] = key[q] /\ state'[q] = state[q]
  BY DEF CallLoad, CallDelete, RLock, ReadFails, Read, Leave, CheckFails,
         ForgetLock, Removed, Return, Goto, TypeInv, TypeOK
<1>3. /\ pc'[p] \in {"idle", "rlock", "read", "loaded", "dlock", "removed"}
      /\ pc'[p] = "loaded" => Read(p)
  BY DEF CallLoad, CallDelete, RLock, ReadFails, Read, Leave, CheckFails,
         ForgetLock, Removed, Return, Goto, TypeInv, TypeOK
<1>4. StateOf(p)'
  <2>1. CASE Read(p)
    <3>1. key[p] \in Keys
      BY <2>1, StateFact DEF Read
    <3>2. state'[p] = Contents(key[p]) /\ Contents(key[p]) \in States
      BY <2>1, <3>1, ContentsType DEF Read, TypeInv, TypeOK
    <3>3. Agrees(state'[p], Contents(key[p]), Len(state'[p]))
      BY <3>2, LenProperties DEF Agrees, States
    <3>4. /\ pc'[p] = "loaded"
          /\ key'[p] = key[p] /\ file' = file
      BY <2>1, <1>1 DEF Read, Goto, TypeInv, TypeOK
    <3>5. Fits(pc'[p], state'[p], Contents(key[p]), temp'[p])
      BY <3>3, <3>4 DEF Fits
    <3> QED
      BY <3>4, <3>5 DEF StateOf, Contents
  <2>2. CASE ~Read(p)
    BY <1>3, <2>2 DEF StateOf, Fits
  <2> QED
    BY <2>1, <2>2
<1>5. ~Pending(p)'
  BY <1>3 DEF Pending
<1> QED
  BY <1>1, <1>2, <1>4, <1>5, QuietData

LEMMA CallSaveData ==
  ASSUME TypeInv, DataInv, NEW p \in Procs, CallSave(p)
  PROVE  DataInv'
<1> DEFINE new == Append(state[p], saves + 1)
<1>1. /\ pc[p] = "loaded" /\ key[p] \in Keys /\ state[p] \in Seq(Entry)
      /\ saves \in Nat /\ saves + 1 \in Entry /\ saves' = saves + 1
      /\ pc' = [pc EXCEPT ![p] = "lock"]
      /\ state' = [state EXCEPT ![p] = new]
      /\ UNCHANGED <<file, temp, key, acked>>
  BY StateFact, FileAssumption
  DEF CallSave, Goto, disk, TypeInv, TypeOK, Entry
<1>2. /\ Len(state[p]) \in Nat /\ Len(new) = Len(state[p]) + 1
      /\ \A i \in 1..Len(state[p]) : new[i] = state[p][i]
      /\ NewID(new) = saves + 1
  BY <1>1, AppendProperties, LenProperties DEF NewID
<1>3. pc'[p] = "lock" /\ state'[p] = new
  BY <1>1 DEF TypeInv, TypeOK
<1> HIDE DEF new
<1>4. \A k \in Keys : Contents(k)' = Contents(k)
  BY <1>1 DEF Contents
<1>5. ASSUME NEW k \in Keys, NEW i \in 1..Len(Contents(k))
      PROVE  Contents(k)[i] <= saves /\ Contents(k)[i] \in Entry
  <2>1. Contents(k) \in Seq(Entry)
    BY ContentsType DEF TypeInv, States
  <2> QED
    BY <2>1, ElementOfSeq DEF DataInv, KnownInv
<1>6. KnownInv' /\ AcknowledgedKept'
  BY <1>1, <1>4, <1>5 DEF DataInv, KnownInv, AcknowledgedKept, Entry
<1>7. \A q \in Procs \ {p} :
        /\ Pending(q)' <=> Pending(q)
        /\ state'[q] = state[q]
  BY <1>1 DEF Pending, TypeInv, TypeOK
<1>8. \A q \in Procs \ {p} :
        Pending(q) => /\ NewID(state[q]) <= saves
                      /\ NewID(state[q]) \in Entry
  BY StateFact DEF DataInv, NewInv, Pending, Saving, Writing
<1>9. NewInv'
  <2> SUFFICES ASSUME NEW q \in Procs, Pending(q)'
               PROVE  /\ NewID(state'[q]) <= saves'
                      /\ \A k \in Keys : \A i \in 1..Len(Contents(k)') :
                           Contents(k)'[i] # NewID(state'[q])
                      /\ \A r \in Procs :
                           Pending(r)' /\ NewID(state'[r]) = NewID(state'[q])
                             => r = q
    BY DEF NewInv
  <2>1. CASE q = p
    BY <1>1, <1>2, <1>3, <1>4, <1>5, <1>7, <1>8, <2>1 DEF Entry
  <2>2. CASE q # p
    <3>1. Pending(q) /\ state'[q] = state[q] /\ NewID(state[q]) <= saves
          /\ NewID(state[q]) \in Entry
      BY <1>7, <1>8, <2>2
    <3>2. \A r \in Procs : Pending(r)' /\ NewID(state'[r]) = NewID(state[q])
            => r # p /\ Pending(r) /\ state'[r] = state[r]
      BY <1>1, <1>2, <1>3, <1>7, <3>1 DEF Entry
    <3> QED
      BY <1>1, <1>4, <3>1, <3>2 DEF DataInv, NewInv, Entry
  <2> QED
    BY <2>1, <2>2
<1>10. StateInv'
  <2> SUFFICES ASSUME NEW q \in Procs
               PROVE  StateOf(q)'
    BY DEF StateInv
  <2>1. Fits(pc[q], state[q], Contents(key[q]), temp[q])
    BY DEF DataInv, StateInv, StateOf
  <2>2. CASE q = p
    <3>1. Agrees(state[p], Contents(key[p]), Len(state[p]))
      BY <1>1, <2>1, <2>2 DEF Fits
    <3>2. Agrees(new, Contents(key[p]), Len(new) - 1)
      BY <1>2, <3>1 DEF Agrees
    <3>3. Fits("lock", new, Contents(key[p]), temp[p])
      BY <3>2 DEF Fits
    <3> QED
      BY <1>1, <1>3, <2>2, <3>3 DEF StateOf, Contents
  <2>3. CASE q # p
    <3>1. pc'[q] = pc[q] /\ state'[q] = state[q]
      BY <1>1, <2>3 DEF TypeInv, TypeOK
    <3> QED
      BY <1>1, <2>1, <3>1 DEF StateOf, Contents
  <2> QED
    BY <2>2, <2>3
<1> QED
  BY <1>6, <1>9, <1>10 DEF DataInv

(* From the lock to the temporary file. *)
LEMMA PrepareData ==
  ASSUME TypeInv, DataInv, NEW p \in Procs,
         Lock(p) \/ CheckPasses(p) \/ CreateTemp(p) \/ WriteTemp(p)
           \/ WriteFails(p)
  PROVE  DataInv'
<1>1. UNCHANGED <<file, acked, saves>>
  BY DEF Lock, CheckPasses, CreateTemp, WriteTemp, WriteFails, disk
<1>2. \A q \in Procs \ {p} :
        /\ pc'[q] = pc[q] /\ key'[q] = key[q] /\ state'[q] = state[q]
        /\ temp'[q] = temp[q]
  BY DEF Lock, CheckPasses, CreateTemp, WriteTemp, WriteFails, Return, Goto,
         disk, TypeInv, TypeOK
<1>3. Pending(p)' => Pending(p) /\ state'[p] = state[p]
  BY DEF Lock, CheckPasses, CreateTemp, WriteTemp, WriteFails, Return, Goto,
         Pending, TypeInv, TypeOK
<1>4. Fits(pc[p], state[p], Contents(key[p]), temp[p])
  BY DEF DataInv, StateInv, StateOf
<1>5. ASSUME Lock(p) \/ CheckPasses(p) \/ CreateTemp(p) \/ WriteTemp(p)
      PROVE  key' = key /\ state' = state /\ key[p] \in Keys
  BY <1>5, StateFact DEF Lock, CheckPasses, CreateTemp, WriteTemp
<1>6. CASE CheckPasses(p)
  <2>1. /\ pc[p] = "check" /\ pc'[p] = "create"
        /\ Extends(key[p], state[p])
    BY <1>6 DEF CheckPasses, Goto, TypeInv, TypeOK
  <2> DEFINE old == Contents(key[p])
  <2>2. /\ Len(state[p]) \in Nat \ {0} /\ Len(old) \in Nat
        /\ Agrees(state[p], old, Len(state[p]) - 1)
        /\ Len(old) <= Len(state[p])
    BY <1>4, <1>5, <1>6, <2>1, StateFact, ContentsType, LenProperties
    DEF Fits, Extends, Saving, Writing, TypeInv, States
  <2>3. Len(old) # Len(state[p])
    <3> SUFFICES ASSUME Len(old) = Len(state[p])
                 PROVE  FALSE
      OBVIOUS
    <3>1. /\ Len(old) \in 1..Len(old)
          /\ old[Len(old)] = NewID(state[p])
      BY <2>1, <2>2 DEF Extends, NewID
    <3>2. Pending(p) /\ key[p] \in Keys
      BY <1>5, <1>6, <2>1 DEF Pending
    <3> QED
      BY <3>1, <3>2 DEF DataInv, NewInv
  <2>4. Len(state[p]) = Len(old) + 1
    BY <2>2, <2>3 DEF Agrees
  <2>5. Fits("create", state[p], old, temp'[p])
    BY <2>2, <2>4 DEF Fits
  <2>6. StateOf(p)'
    BY <1>1, <1>5, <1>6, <2>1, <2>5 DEF StateOf, Contents
  <2> QED
    BY <1>1, <1>2, <1>3, <2>6, QuietData
<1>7. CASE Lock(p) \/ CreateTemp(p) \/ WriteTemp(p)
  <2>1. \/ pc[p] = "lock" /\ pc'[p] = "check"
        \/ pc'[p] = "remove"
        \/ pc[p] = "create" /\ pc'[p] = "write"
        \/ pc[p] = "write" /\ pc'[p] = "rename" /\ temp'[p] = state[p]
    <3>1. CASE Lock(p)
      BY <3>1 DEF Lock, Goto, TypeInv, TypeOK
    <3>2. CASE CreateTemp(p)
      BY <3>2 DEF CreateTemp, Goto, TypeInv, TypeOK
    <3>3. CASE WriteTemp(p)
      BY <3>3 DEF WriteTemp, Goto, TypeInv, TypeOK
    <3> QED
      BY <1>7, <3>1, <3>2, <3>3
  <2>2. Fits(pc'[p], state[p], Contents(key[p]), temp'[p])
    BY <1>4, <2>1 DEF Fits
  <2>3. StateOf(p)'
    BY <1>1, <1>5, <1>7, <2>1, <2>2 DEF StateOf, Contents
  <2> QED
    BY <1>1, <1>2, <1>3, <2>3, QuietData
<1>8. CASE WriteFails(p)
  <2>1. pc'[p] = "idle"
    BY <1>8 DEF WriteFails, Return, Goto, TypeInv, TypeOK
  <2>2. StateOf(p)'
    BY <2>1 DEF StateOf, Fits
  <2> QED
    BY <1>1, <1>2, <1>3, <2>2, QuietData
<1> QED
  BY <1>6, <1>7, <1>8

(* The stored state is replaced by itself and the new entry. *)
LEMMA RenameFact ==
  ASSUME TypeInv, DataInv, NEW p \in Procs, Rename(p)
  PROVE  /\ key[p] \in Keys
         /\ file' = [file EXCEPT ![key[p]] = state[p]]
         /\ NewID(state[p]) \in Entry
         /\ state[p] \in States
         /\ Len(Contents(key[p])) \in Nat
         /\ Len(state[p]) = Len(Contents(key[p])) + 1
         /\ \A i \in 1..Len(Contents(key[p])) :
              state[p][i] = Contents(key[p])[i]
<1>1. pc[p] = "rename" /\ temp[p] # Absent /\ key[p] \in Keys
  BY StateFact DEF Rename
<1>2. Fits("rename", state[p], Contents(key[p]), temp[p])
  BY <1>1 DEF DataInv, StateInv, StateOf
<1>3. temp[p] = state[p]
  BY <1>1, <1>2 DEF Fits
<1>4. /\ NewID(state[p]) \in Entry /\ state[p] \in States
      /\ Len(state[p]) \in Nat
  BY <1>1, StateFact DEF Saving, Writing, TypeInv, TypeOK
<1>5. Len(Contents(key[p])) \in Nat
  BY <1>1, ContentsType, LenProperties DEF TypeInv, States
<1>6. /\ Len(state[p]) = Len(Contents(key[p])) + 1
      /\ Agrees(state[p], Contents(key[p]), Len(state[p]) - 1)
  BY <1>2 DEF Fits
<1> QED
  BY <1>1, <1>3, <1>4, <1>5, <1>6 DEF Rename, Agrees

LEMMA RenameData ==
  ASSUME TypeInv, DataInv, OneWriter, NEW p \in Procs, Rename(p)
  PROVE  DataInv'
<1>11. PICK k0 \in Keys : k0 = key[p]
  BY RenameFact
<1>12. PICK old \in States : old = Contents(k0)
  BY ContentsType DEF TypeInv, TypeOK
<1>13. PICK new \in States : new = state[p]
  BY RenameFact
<1>1. /\ file' = [file EXCEPT ![k0] = new]
      /\ NewID(new) \in Entry
      /\ Len(old) \in Nat /\ Len(new) = Len(old) + 1
      /\ \A i \in 1..Len(old) : new[i] = old[i]
  BY <1>11, <1>12, <1>13, RenameFact
<1>2. /\ pc[p] = "rename" /\ pc'[p] = "saved"
      /\ UNCHANGED <<key, state, saves, acked>>
      /\ \A q \in Procs \ {p} : pc'[q] = pc[q] /\ temp'[q] = temp[q]
  BY DEF Rename, Goto, TypeInv, TypeOK
<1>3. Contents(k0)' = new
  BY <1>1, <1>2, FileAssumption DEF Contents, TypeInv, TypeOK
<1>4. \A k \in Keys \ {k0} : Contents(k)' = Contents(k)
  BY <1>1 DEF Contents, TypeInv, TypeOK
<1>5. Pending(p) /\ ~Pending(p)' /\ new[Len(new)] = NewID(new)
      /\ \A q \in Procs \ {p} : Pending(q)' <=> Pending(q)
  BY <1>2 DEF Pending, NewID
<1>6. /\ NewID(new) <= saves
      /\ \A q \in Procs : Pending(q) /\ NewID(state[q]) = NewID(new) => q = p
  BY <1>13, <1>5 DEF DataInv, NewInv
<1>7. KnownInv'
  <2> SUFFICES ASSUME NEW k \in Keys, NEW i \in 1..Len(Contents(k)')
               PROVE  Contents(k)'[i] <= saves
    BY <1>2 DEF KnownInv
  <2>1. CASE k = k0
    <3>1. i \in 1..Len(old) \/ i = Len(new)
      BY <1>1, <1>3, <2>1
    <3> QED
      BY <1>12, <1>1, <1>3, <1>5, <1>6, <2>1, <3>1 DEF DataInv, KnownInv
  <2>2. CASE k # k0
    BY <1>4, <2>2 DEF DataInv, KnownInv
  <2> QED
    BY <2>1, <2>2
<1>8. NewInv'
  <2> SUFFICES ASSUME NEW q \in Procs, q # p, Pending(q),
                      NEW k \in Keys, NEW i \in 1..Len(Contents(k)')
               PROVE  Contents(k)'[i] # NewID(state[q])
    BY <1>2, <1>5 DEF DataInv, NewInv
  <2>1. CASE k = k0
    <3>1. i \in 1..Len(old) \/ i = Len(new)
      BY <1>1, <1>3, <2>1
    <3> QED
      BY <1>12, <1>1, <1>3, <1>5, <1>6, <2>1, <3>1 DEF DataInv, NewInv
  <2>2. CASE k # k0
    BY <1>4, <2>2 DEF DataInv, NewInv
  <2> QED
    BY <2>1, <2>2
<1>9. AcknowledgedKept'
  <2> SUFFICES ASSUME NEW k \in Keys, NEW id \in acked[k]
               PROVE  \E i \in 1..Len(Contents(k)') : Contents(k)'[i] = id
    BY <1>2 DEF AcknowledgedKept
  <2>1. PICK i \in 1..Len(Contents(k)) : Contents(k)[i] = id
    BY DEF DataInv, AcknowledgedKept
  <2>2. CASE k = k0
    <3>1. i \in 1..Len(new) /\ new[i] = id
      BY <1>12, <1>1, <2>1, <2>2
    <3> QED
      BY <1>3, <2>2, <3>1
  <2>3. CASE k # k0
    BY <1>4, <2>1, <2>3
  <2> QED
    BY <2>2, <2>3
<1>10. StateInv'
  <2>1. StateOf(p)'
    <3>1. Len(new) \in 1..Len(new)
      BY <1>1
    <3>2. Fits("saved", new, new, temp'[p])
      BY <1>5, <3>1 DEF Fits
    <3>3. file'[k0] = new /\ new # Absent
      BY <1>1, FileAssumption DEF TypeInv, TypeOK
    <3> QED
      BY <1>11, <1>13, <1>2, <3>2, <3>3 DEF StateOf, Contents
  <2>2. ASSUME NEW q \in Procs, q # p
        PROVE  StateOf(q)'
    <3>1. pc[p] \in Holding
      BY <1>2 DEF Holding, Writing
    <3>2. /\ new \in States
          /\ file' = [file EXCEPT ![key[p]] = new]
          /\ Len(Contents(key[p])) <= Len(new)
          /\ \A i \in 1..Len(Contents(key[p])) : new[i] = Contents(key[p])[i]
      BY <1>11, <1>12, <1>1
    <3>3. /\ pc'[q] = pc[q] /\ key'[q] = key[q] /\ state'[q] = state[q]
          /\ temp'[q] = temp[q]
      BY <1>2, <2>2
    <3> QED
      BY <2>2, <3>1, <3>2, <3>3, ReplaceData
  <2> QED
    BY <2>1, <2>2 DEF StateInv
<1> QED
  BY <1>7, <1>8, <1>9, <1>10 DEF DataInv

LEMMA SavedData ==
  ASSUME TypeInv, DataInv, NEW p \in Procs, Saved(p)
  PROVE  DataInv'
<1>1. /\ pc[p] = "saved" /\ key[p] \in Keys /\ pc'[p] = "idle"
      /\ acked' = [acked EXCEPT ![key[p]] = @ \cup {NewID(state[p])}]
      /\ UNCHANGED <<file, temp, saves>>
      /\ \A q \in Procs \ {p} :
           pc'[q] = pc[q] /\ key'[q] = key[q] /\ state'[q] = state[q]
  BY StateFact DEF Saved, Return, Goto, NewID, disk, TypeInv, TypeOK
<1>2. \A k \in Keys : Contents(k)' = Contents(k)
  BY <1>1 DEF Contents
<1>3. \E i \in 1..Len(Contents(key[p])) :
        Contents(key[p])[i] = NewID(state[p])
  BY <1>1 DEF DataInv, StateInv, StateOf, Fits
<1>4. AcknowledgedKept'
  BY <1>1, <1>2, <1>3 DEF DataInv, AcknowledgedKept, TypeInv, TypeOK
<1>5. \A q \in Procs : Pending(q)' => Pending(q) /\ q # p
  BY <1>1 DEF Pending
<1>6. NewInv' /\ KnownInv'
  BY <1>1, <1>2, <1>5 DEF DataInv, NewInv, KnownInv
<1>7. ASSUME NEW q \in Procs
      PROVE  StateOf(q)'
  <2>1. CASE q = p
    BY <1>1, <2>1 DEF StateOf, Fits
  <2>2. CASE q # p
    BY <1>1, <2>2 DEF DataInv, StateInv, StateOf, Contents
  <2> QED
    BY <2>1, <2>2
<1> QED
  BY <1>4, <1>6, <1>7 DEF DataInv, StateInv

(* The entries of p's session are removed, and nobody uses it. *)
Removes(p) == \/ RemoveState(p) \/ RemoveTemp(p) \/ EntriesGone(p)
              \/ RemoveDir(p) \/ RemoveFails(p)

LEMMA RemoveData ==
  ASSUME TypeInv, LockInv, DataInv, NEW p \in Procs, Removes(p)
  PROVE  DataInv'
<1> USE DEF Removes
<1>1. /\ pc[p] \in {"remove", "rmdir"} /\ key[p] \in Keys
      /\ pc'[p] \in {"remove", "rmdir", "forget", "idle"}
      /\ saves' = saves
      /\ \A q \in Procs \ {p} :
           pc'[q] = pc[q] /\ key'[q] = key[q] /\ state'[q] = state[q]
      /\ \/ UNCHANGED <<file, acked>>
         \/ /\ file' = [file EXCEPT ![key[p]] = Absent]
            /\ acked' = [acked EXCEPT ![key[p]] = {}]
  BY StateFact
  DEF RemoveState, RemoveTemp, EntriesGone, RemoveDir, RemoveFails, Return,
      Goto, disk, calls, TypeInv, TypeOK
<1>2. \A q \in Procs \ {p} : pc[q] # "idle" => key[q] # key[p]
  BY <1>1 DEF LockInv, AloneInv, Deleting
<1>3. \A q \in Procs \ {p} : temp'[q] = temp[q] \/ pc[q] = "idle"
  BY <1>2
  DEF RemoveState, RemoveTemp, EntriesGone, RemoveDir, RemoveFails, disk,
      TypeInv, TypeOK
<1>4. \A k \in Keys : \/ Contents(k)' = Contents(k) /\ acked'[k] = acked[k]
                      \/ Contents(k)' = <<>> /\ acked'[k] = {}
  BY <1>1 DEF Contents, TypeInv, TypeOK
<1>5. Len(<<>>) = 0
  BY EmptySeq
<1>6. KnownInv' /\ AcknowledgedKept'
  BY <1>1, <1>4, <1>5 DEF DataInv, KnownInv, AcknowledgedKept
<1>7. \A q \in Procs : Pending(q)' => Pending(q) /\ q # p
  BY <1>1 DEF Pending
<1>8. NewInv'
  BY <1>1, <1>4, <1>5, <1>7 DEF DataInv, NewInv
<1>9. ASSUME NEW q \in Procs
      PROVE  StateOf(q)'
  <2>1. CASE q = p \/ pc[q] = "idle"
    BY <1>1, <2>1 DEF StateOf, Fits
  <2>2. CASE q # p /\ pc[q] # "idle"
    <3>1. key[q] # key[p] /\ key[q] \in Keys /\ temp'[q] = temp[q]
      BY <1>2, <1>3, <2>2, StateFact
    <3>2. file'[key[q]] = file[key[q]]
      BY <1>1, <3>1 DEF TypeInv, TypeOK
    <3> QED
      BY <1>1, <2>2, <3>1, <3>2 DEF DataInv, StateInv, StateOf, Contents
  <2> QED
    BY <2>1, <2>2
<1> QED
  BY <1>6, <1>8, <1>9 DEF DataInv, StateInv

LEMMA CrashData ==
  ASSUME DataInv, Crash
  PROVE  DataInv'
<1>1. UNCHANGED <<file, saves, acked>> /\ \A p \in Procs : pc'[p] = "idle"
  BY DEF Crash
<1>2. \A k \in Keys : Contents(k)' = Contents(k)
  BY <1>1 DEF Contents
<1>3. NewInv' /\ StateInv'
  BY <1>1 DEF NewInv, Pending, StateInv, StateOf, Fits
<1> QED
  BY <1>1, <1>2, <1>3 DEF DataInv, KnownInv, AcknowledgedKept

LEMMA StepData ==
  TypeInv /\ LockInv /\ DataInv /\ [Next]_vars => DataInv'
<1> SUFFICES ASSUME TypeInv, LockInv, DataInv, [Next]_vars
             PROVE  DataInv'
  OBVIOUS
<1>1. CASE UNCHANGED vars
  BY <1>1
  DEF vars, DataInv, NewInv, KnownInv, StateInv, StateOf, Pending,
      AcknowledgedKept, Contents
<1>2. OneWriter
  BY Excluded DEF TypeInv
<1> QED
  BY <1>1, <1>2, ReadData, CallSaveData, PrepareData, RenameData, SavedData,
     RemoveData, CrashData
  DEF Next, Acquire, Step, Removes

LEMMA DataInvariant ==
  ASSUME WaitsForID
  PROVE  Spec => []DataInv
BY InitData, StepData, TypeInvariant, LockInvariant, PTL DEF Spec

(* If a session is deleted only while nobody uses its ID, a save that      *)
(* returned nil stays stored until the session is deleted, through         *)
(* concurrent saves, failing writes and crashes at any step.               *)
THEOREM Kept ==
  ASSUME WaitsForID
  PROVE  Spec => []AcknowledgedKept
<1>1. DataInv => AcknowledgedKept
  BY DEF DataInv
<1> QED
  BY <1>1, DataInvariant, PTL

-----------------------------------------------------------------------------
(* FileSessions implements AppendStore *)

LEMMA InitStore == Init => Store!Init
BY DEF Init, Contents, Store!Init

LEMMA SameStore ==
  ASSUME file' = file
  PROVE  [Store!Next]_[k \in Keys |-> Contents(k)]
BY DEF Contents

(* The stored state is replaced by what it was and one entry more.         *)
LEMMA RenameStore ==
  ASSUME TypeInv, DataInv, NEW p \in Procs, Rename(p)
  PROVE  Store!Next
<1>1. PICK k0 \in Keys : k0 = key[p]
  BY RenameFact
<1>2. PICK old \in States : old = Contents(k0)
  BY ContentsType DEF TypeInv, TypeOK
<1>3. PICK id \in Entry : id = NewID(state[p])
  BY RenameFact
<1>4. PICK new \in States : new = state[p]
  BY RenameFact
<1>5. new = Append(old, id)
  <2>1. /\ old \in Seq(Entry) /\ new \in Seq(Entry)
        /\ Append(old, id) \in Seq(Entry)
        /\ Len(old) \in Nat
        /\ Len(Append(old, id)) = Len(old) + 1
        /\ Append(old, id)[Len(old) + 1] = id
        /\ \A i \in 1..Len(old) : Append(old, id)[i] = old[i]
    BY AppendProperties, LenProperties DEF States
  <2>2. /\ Len(new) = Len(old) + 1
        /\ \A i \in 1..Len(old) : new[i] = old[i]
        /\ new[Len(new)] = id
    BY <1>1, <1>2, <1>3, <1>4, RenameFact DEF NewID
  <2>3. \A i \in 1..Len(new) : new[i] = Append(old, id)[i]
    BY <2>1, <2>2
  <2> QED
    BY <2>1, <2>2, <2>3, SeqEqual
<1>6. /\ file' = [file EXCEPT ![k0] = new]
      /\ new # Absent
  BY <1>1, <1>4, RenameFact, FileAssumption
<1>7. \A k \in Keys :
        Contents(k)' = IF k = k0 THEN Append(old, id) ELSE Contents(k)
  BY <1>5, <1>6 DEF Contents, TypeInv, TypeOK
<1>8. Store!Save(k0, id)
  BY <1>2, <1>7 DEF Store!Save
<1> QED
  BY <1>8 DEF Store!Next, Entry

LEMMA RemoveStore ==
  ASSUME TypeInv, NEW p \in Procs, RemoveState(p)
  PROVE  Store!Next
<1>1. PICK k0 \in Keys : k0 = key[p]
  BY StateFact DEF RemoveState
<1>2. file' = [file EXCEPT ![k0] = Absent]
  BY <1>1 DEF RemoveState
<1>3. \A k \in Keys : Contents(k)' = IF k = k0 THEN <<>> ELSE Contents(k)
  BY <1>2 DEF Contents, TypeInv, TypeOK
<1>4. Store!Delete(k0)
  BY <1>3 DEF Store!Delete
<1> QED
  BY <1>4 DEF Store!Next

LEMMA OtherStore ==
  ASSUME NEW p \in Procs,
         \/ \E k \in Keys : CallLoad(p, k) \/ CallDelete(p, k)
         \/ CallSave(p) \/ Leave(p) \/ Acquire(p)
         \/ ReadFails(p) \/ Read(p) \/ CheckPasses(p) \/ CheckFails(p)
         \/ CreateTemp(p) \/ WriteTemp(p) \/ WriteFails(p) \/ Saved(p)
         \/ RemoveTemp(p) \/ EntriesGone(p) \/ RemoveDir(p) \/ RemoveFails(p)
         \/ ForgetLock(p) \/ Removed(p)
  PROVE  file' = file
BY DEF CallLoad, CallDelete, CallSave, Leave, Acquire, RLock, Lock,
       ReadFails, Read, CheckPasses, CheckFails, CreateTemp, WriteTemp,
       WriteFails, Saved, RemoveTemp, EntriesGone, RemoveDir, RemoveFails,
       ForgetLock, Removed, disk

LEMMA StepStore ==
  TypeInv /\ DataInv /\ [Next]_vars
    => [Store!Next]_[k \in Keys |-> Contents(k)]
<1> SUFFICES ASSUME TypeInv, DataInv, [Next]_vars
             PROVE  [Store!Next]_[k \in Keys |-> Contents(k)]
  OBVIOUS
<1>1. CASE UNCHANGED vars \/ Crash
  BY <1>1, SameStore DEF vars, Crash
<1>2. ASSUME NEW p \in Procs,
             \/ \E k \in Keys : CallLoad(p, k) \/ CallDelete(p, k)
             \/ CallSave(p) \/ Leave(p) \/ Acquire(p) \/ Step(p)
      PROVE  [Store!Next]_[k \in Keys |-> Contents(k)]
  <2>1. CASE Rename(p)
    BY <2>1, RenameStore
  <2>2. CASE RemoveState(p)
    BY <2>2, RemoveStore
  <2>3. CASE ~(Rename(p) \/ RemoveState(p))
    <3>1. file' = file
      BY <1>2, <2>3, OtherStore DEF Step
    <3> QED
      BY <3>1, SameStore
  <2> QED
    BY <2>1, <2>2, <2>3
<1> QED
  BY <1>1, <1>2 DEF Next

(* If a session is deleted only while nobody uses its ID, the operator     *)
(* with its locks, temporary files, failures and crashes implements a map  *)
(* of histories: a save that renames its file appends one entry to one     *)
(* history, a delete empties one, and nothing else changes any.            *)
THEOREM Implements ==
  ASSUME WaitsForID
  PROVE  Spec => ImplementsStore
BY InitStore, StepStore, TypeInvariant, DataInvariant, PTL
DEF Spec, ImplementsStore, Store!Spec
-----------------------------------------------------------------------------
(* Listed sessions                                                         *)

(* Somebody will make the state file, or finds that its directory is gone; *)
(* or somebody will remove the directory.  Only a save at work has a       *)
(* temporary file, so a deletion that finds the directory in use leaves    *)
(* the session to that save, or with the file it has made.                 *)
Making(p, k) ==
  /\ key[p] = k
  /\ pc[p] = "create" \/ (pc[p] \in {"write", "rename"} /\ temp[p] # Absent)

Unmaking(p, k) == key[p] = k /\ pc[p] \in {"remove", "rmdir"}

TempInv == \A p \in Procs : temp[p] # Absent => pc[p] \in {"write", "rename"}

ListedInv ==
  /\ TempInv
  /\ \A k \in dirs : file[k] = Absent =>
       \E p \in Procs : Making(p, k) \/ Unmaking(p, k)

LEMMA InitListed == Init => ListedInv
BY DEF Init, ListedInv, TempInv

LEMMA EmptyExtends ==
  ASSUME TypeInv, NEW p \in Procs, pc[p] = "check", file[key[p]] = Absent
  PROVE  Extends(key[p], state[p])
<1>1. Contents(key[p]) = <<>> /\ Len(state[p]) \in Nat
  BY StateFact DEF Contents
<1> QED
  BY <1>1, EmptySeq DEF Extends

(* What others do to a key's file and directory does not end the work of   *)
(* the callers that make or remove it.                                     *)
LEMMA KeepsListed ==
  ASSUME TypeInv, ListedInv, TempInv', NEW p \in Procs,
         UNCHANGED <<dirs, file>>,
         \A q \in Procs \ {p} :
           pc'[q] = pc[q] /\ key'[q] = key[q] /\ temp'[q] = temp[q],
         \A k \in dirs :
           Making(p, k) \/ Unmaking(p, k) => Making(p, k)' \/ Unmaking(p, k)'
  PROVE  ListedInv'
BY DEF ListedInv, Making, Unmaking

LEMMA StepTemp == TypeInv /\ TempInv /\ [Next]_vars => TempInv'
<1> SUFFICES ASSUME TypeInv, TempInv, [Next]_vars
             PROVE  TempInv'
  OBVIOUS
<1> USE DEF TypeInv, TypeOK, TempInv
<1>1. CASE UNCHANGED vars \/ Crash
  BY <1>1 DEF vars, Crash
<1>2. ASSUME NEW p \in Procs,
             \/ \E k \in Keys : CallLoad(p, k) \/ CallDelete(p, k)
             \/ CallSave(p) \/ Leave(p) \/ Acquire(p)
             \/ ReadFails(p) \/ Read(p) \/ CheckPasses(p) \/ CheckFails(p)
             \/ Saved(p)
      PROVE  TempInv'
  BY <1>2
  DEF CallLoad, CallDelete, CallSave, Leave, Acquire, RLock, Lock, ReadFails,
      Read, CheckPasses, CheckFails, Saved, Return, Goto, disk
<1>3. ASSUME NEW p \in Procs,
             CreateTemp(p) \/ WriteTemp(p) \/ Rename(p) \/ WriteFails(p)
      PROVE  TempInv'
  BY <1>3 DEF CreateTemp, WriteTemp, Rename, WriteFails, Return, Goto
<1>4. ASSUME NEW p \in Procs, RemoveTemp(p)
      PROVE  TempInv'
  BY <1>4 DEF RemoveTemp, calls
<1>5. ASSUME NEW p \in Procs,
             \/ RemoveState(p) \/ EntriesGone(p) \/ RemoveDir(p)
             \/ RemoveFails(p) \/ ForgetLock(p) \/ Removed(p)
      PROVE  TempInv'
  BY <1>5
  DEF RemoveState, EntriesGone, RemoveDir, RemoveFails, ForgetLock, Removed,
      Return, Goto, disk, calls
<1> QED
  BY <1>1, <1>2, <1>3, <1>4, <1>5 DEF Next, Step

LEMMA StepListed ==
  ASSUME ~Faults
  PROVE  TypeInv /\ ListedInv /\ [Next]_vars => ListedInv'
<1> SUFFICES ASSUME TypeInv, ListedInv, [Next]_vars
             PROVE  ListedInv'
  OBVIOUS
<1>a. TempInv /\ TempInv'
  BY StepTemp DEF ListedInv
<1>1. CASE UNCHANGED vars \/ Crash
  BY <1>1 DEF vars, Crash, ListedInv, TempInv, Making, Unmaking
(* The callers that make a file or remove it go on; k is not new.          *)
<1>2. ASSUME NEW p \in Procs,
             \/ \E k \in Keys : CallLoad(p, k) \/ CallDelete(p, k)
             \/ CallSave(p) \/ Leave(p) \/ Acquire(p)
             \/ ReadFails(p) \/ Read(p) \/ Saved(p)
             \/ ForgetLock(p) \/ Removed(p)
      PROVE  ListedInv'
  <2>1. /\ UNCHANGED <<dirs, file, temp>>
        /\ pc[p] \notin {"create", "write", "rename", "remove", "rmdir"}
        /\ \A q \in Procs \ {p} : pc'[q] = pc[q] /\ key'[q] = key[q]
    BY <1>2 DEF CallLoad, CallDelete, CallSave, Leave, Acquire, RLock, Lock,
                ReadFails, Read, Saved, ForgetLock, Removed,
                Return, Goto, disk, TypeInv, TypeOK
  <2> QED
    BY <1>a, <2>1, KeepsListed DEF Making, Unmaking
<1>3. ASSUME NEW p \in Procs, CheckPasses(p) \/ CheckFails(p)
      PROVE  ListedInv'
  <2>1. /\ UNCHANGED <<file, temp>> /\ dirs' = dirs \cup {key[p]}
        /\ pc[p] = "check"
        /\ \A q \in Procs \ {p} : pc'[q] = pc[q] /\ key'[q] = key[q]
        /\ CheckPasses(p) => pc'[p] = "create" /\ key'[p] = key[p]
    BY <1>3 DEF CheckPasses, CheckFails, Return, Goto, TypeInv, TypeOK
  <2>2. ASSUME file[key[p]] = Absent
        PROVE  CheckPasses(p)
    BY <1>3, <2>1, <2>2, EmptyExtends, FileAssumption DEF CheckFails
  <2>3. \A q \in Procs, k \in Keys :
          Making(q, k) \/ Unmaking(q, k) => Making(q, k)' \/ Unmaking(q, k)'
    BY <2>1 DEF Making, Unmaking
  <2> SUFFICES ASSUME NEW k \in dirs', file'[k] = Absent
               PROVE  \E q \in Procs : Making(q, k)' \/ Unmaking(q, k)'
    BY <1>a DEF ListedInv
  <2>4. CASE k \in dirs
    <3>1. PICK q \in Procs : Making(q, k) \/ Unmaking(q, k)
      BY <2>1, <2>4 DEF ListedInv
    <3> QED
      BY <2>3, <2>4, <3>1 DEF TypeInv, TypeOK
  <2>5. CASE k = key[p]
    <3>1. file[key[p]] = Absent
      BY <2>1, <2>5
    <3>2. Making(p, k)'
      BY <2>1, <2>2, <2>5, <3>1 DEF Making
    <3> QED
      BY <3>2
  <2> QED
    BY <2>1, <2>4, <2>5
<1>4. ASSUME NEW p \in Procs, CreateTemp(p) \/ WriteTemp(p)
      PROVE  ListedInv'
  <2>1. /\ UNCHANGED <<file, dirs, key>>
        /\ pc[p] \in {"create", "write"}
        /\ pc'[p] \in {"write", "rename"} /\ temp'[p] # Absent
        /\ \A q \in Procs \ {p} : pc'[q] = pc[q] /\ temp'[q] = temp[q]
    BY <1>4, FileAssumption
    DEF CreateTemp, WriteTemp, Goto, TypeInv, TypeOK
  <2> QED
    BY <1>a, <2>1, KeepsListed DEF Making, Unmaking
<1>5. ASSUME NEW p \in Procs, Rename(p)
      PROVE  ListedInv'
  <2>1. /\ file' = [file EXCEPT ![key[p]] = temp[p]] /\ temp[p] # Absent
        /\ UNCHANGED <<dirs, key>> /\ pc[p] = "rename"
        /\ \A q \in Procs \ {p} : pc'[q] = pc[q] /\ temp'[q] = temp[q]
    BY <1>5 DEF Rename, Goto, TypeInv, TypeOK
  <2>2. \A q \in Procs, k \in Keys :
          k # key[p] /\ (Making(q, k) \/ Unmaking(q, k))
            => Making(q, k)' \/ Unmaking(q, k)'
    BY <2>1 DEF Making, Unmaking
  <2> QED
    BY <1>a, <2>1, <2>2 DEF ListedInv, TypeInv, TypeOK
<1>6. ASSUME NEW p \in Procs, WriteFails(p)
      PROVE  ListedInv'
  <2>1. /\ UNCHANGED <<dirs, file>>
        /\ \A q \in Procs \ {p} : /\ pc'[q] = pc[q] /\ key'[q] = key[q]
                                  /\ temp'[q] = temp[q]
        /\ \A k \in dirs : ~Making(p, k) /\ ~Unmaking(p, k)
    BY <1>6 DEF WriteFails, Return, Goto, Making, Unmaking, TypeInv, TypeOK
  <2> QED
    BY <1>a, <2>1, KeepsListed
(* The entries are removed; p is at work until the directory is gone.      *)
<1>7. ASSUME NEW p \in Procs, RemoveState(p) \/ RemoveTemp(p) \/ EntriesGone(p)
      PROVE  ListedInv'
  <2>1. /\ UNCHANGED <<dirs, key>> /\ key[p] \in Keys
        /\ pc[p] = "remove" /\ pc'[p] \in {"remove", "rmdir"}
        /\ \A q \in Procs \ {p} : pc'[q] = pc[q]
        /\ \A k \in Keys : k # key[p] => file'[k] = file[k]
        /\ \A q \in Procs : key[q] # key[p] => temp'[q] = temp[q]
    BY <1>7 DEF RemoveState, RemoveTemp, EntriesGone, Goto, disk, calls,
                TypeInv, TypeOK
  <2>2. Unmaking(p, key[p])'
    BY <2>1 DEF Unmaking
  <2>3. \A q \in Procs, k \in Keys :
          k # key[p] /\ (Making(q, k) \/ Unmaking(q, k))
            => Making(q, k)' \/ Unmaking(q, k)'
    BY <2>1 DEF Making, Unmaking
  <2> QED
    BY <1>a, <2>1, <2>2, <2>3 DEF ListedInv, TypeInv, TypeOK
<1>8. ASSUME NEW p \in Procs, RemoveDir(p)
      PROVE  ListedInv'
  <2>1. /\ dirs' = dirs \ {key[p]} /\ UNCHANGED <<file, temp, key>>
        /\ pc[p] = "rmdir"
        /\ \A q \in Procs \ {p} : pc'[q] = pc[q]
    BY <1>8 DEF RemoveDir, Goto, TypeInv, TypeOK
  <2>2. \A q \in Procs, k \in Keys :
          k # key[p] /\ (Making(q, k) \/ Unmaking(q, k))
            => Making(q, k)' \/ Unmaking(q, k)'
    BY <2>1 DEF Making, Unmaking
  <2> QED
    BY <1>a, <2>1, <2>2 DEF ListedInv, TypeInv, TypeOK
(* The directory is not empty: a save is at work in it, or has its file.   *)
<1>9. ASSUME NEW p \in Procs, RemoveFails(p)
      PROVE  ListedInv'
  <2>1. /\ UNCHANGED <<dirs, file, temp>>
        /\ pc[p] = "rmdir" /\ ~Empty(key[p])
        /\ \A q \in Procs \ {p} : pc'[q] = pc[q] /\ key'[q] = key[q]
    BY <1>9 DEF RemoveFails, Return, Goto, disk, TypeInv, TypeOK
  <2>2. \A q \in Procs \ {p}, k \in Keys :
          Making(q, k) \/ Unmaking(q, k) => Making(q, k)' \/ Unmaking(q, k)'
    BY <2>1 DEF Making, Unmaking
  <2>3. ASSUME file[key[p]] = Absent
        PROVE  \E q \in Procs \ {p} : Making(q, key[p])
    <3>1. PICK q \in Procs : key[q] = key[p] /\ temp[q] # Absent
      BY <2>1, <2>3 DEF Empty
    <3>2. q # p /\ pc[q] \in {"write", "rename"}
      BY <1>a, <2>1, <3>1 DEF TempInv
    <3> QED
      BY <3>1, <3>2 DEF Making
  <2> SUFFICES ASSUME NEW k \in dirs, file[k] = Absent
               PROVE  \E q \in Procs : Making(q, k)' \/ Unmaking(q, k)'
    BY <1>a, <2>1 DEF ListedInv
  <2>4. k \in Keys
    BY DEF TypeInv, TypeOK
  <2>5. CASE k = key[p]
    BY <2>2, <2>3, <2>4, <2>5
  <2>6. CASE k # key[p]
    <3>1. PICK q \in Procs : Making(q, k) \/ Unmaking(q, k)
      BY DEF ListedInv
    <3>2. q # p
      BY <2>1, <2>6, <3>1 DEF Making, Unmaking
    <3> QED
      BY <2>2, <2>4, <3>1, <3>2
  <2> QED
    BY <2>5, <2>6
<1> QED
  BY <1>1, <1>2, <1>3, <1>4, <1>5, <1>6, <1>7, <1>8, <1>9 DEF Next, Step

(* If no read or write fails and no crash happens, ListSessions names a    *)
(* session without a state only while a save of it, or a deletion that has *)
(* not come to the directory yet, is at work: however saves and deletions, *)
(* taken entry by entry, run into each other, none of them leaves such a   *)
(* session behind.                                                         *)
THEOREM Listed ==
  ASSUME ~Faults
  PROVE  Spec => []ListedHaveState
<1>1. ListedInv => ListedHaveState
  BY DEF ListedInv, Making, Unmaking, ListedHaveState
<1>2. TypeInv /\ ListedInv /\ [Next]_vars => ListedInv'
  BY StepListed
<1> QED
  BY <1>1, <1>2, InitListed, TypeInvariant, PTL DEF Spec
=============================================================================
