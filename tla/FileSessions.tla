---------------------------- MODULE FileSessions ----------------------------
(***************************************************************************)
(* The file-backed session operator: LoadState, SaveState and              *)
(* DeleteSession of concurrent callers over state files, with the map of   *)
(* per-session locks, the temporary file and rename of atomicWriteFile,    *)
(* failing writes and crashes of the process.                              *)
(*                                                                         *)
(* A state is the sequence of its messages' IDs, and the append-only check *)
(* that the stored IDs are a prefix of the new ones (what SessionLedger    *)
(* models in detail).  A caller loads a state, appends one message with a  *)
(* fresh ID and saves it.                                                  *)
(***************************************************************************)
EXTENDS Naturals, Sequences, FiniteSets

CONSTANTS
  Procs,     \* the goroutines that call the operator
  Tenants,
  Sessions,  \* session IDs; two tenants may use the same one
  Locks,     \* the RWMutex objects there can be
  NoLock,    \* no entry in the lock map
  NoKey,     \* the key of an idle caller
  Absent,    \* no state file, no temporary file
  Partial,   \* a file that is not written to its end
  Faults,    \* whether reads and writes fail and the process crashes
  WaitsFor,  \* WaitsFor[k]: the keys nobody may be using when k is deleted
  MaxSaves   \* bound on the saves ever started

Keys   == Tenants \X Sessions
Entry  == 1..MaxSaves
States == Seq(Entry)

ASSUME FileAssumption ==
  /\ NoLock \notin Locks
  /\ NoKey \notin Keys
  /\ Absent \notin States /\ Partial \notin States /\ Absent # Partial
  /\ Faults \in BOOLEAN
  /\ WaitsFor \in [Keys -> SUBSET Keys]
  /\ MaxSaves \in Nat

VARIABLES
  locks,  \* locks[s]: the lock the map holds for session ID s
  dirs,   \* the keys whose session directory exists
  file,   \* file[k]: the contents of state.json
  temp,   \* temp[p]: the contents of p's temporary file
  pc,     \* where the caller is in its call
  key,    \* the key the caller works on
  lk,     \* the lock the caller looked up
  state,  \* the state the caller holds: loaded, or to be saved
  saves,  \* how many saves have been started
  acked   \* history: acked[k]: the IDs of the saves that returned nil, since
          \* k was last deleted

disk  == <<dirs, file, temp>>
calls == <<pc, key, lk, state>>
vars  == <<locks, dirs, file, temp, pc, key, lk, state, saves, acked>>

Session(k) == k[2]

Writing == {"check", "create", "write", "rename", "saved"}
Deleting == {"remove", "rmdir", "forget", "removed"}
Holding == Writing \cup Deleting   \* lk.Lock() has returned
-----------------------------------------------------------------------------

Init ==
  /\ locks = [s \in Sessions |-> NoLock]
  /\ dirs = {}
  /\ file = [k \in Keys |-> Absent]
  /\ temp = [p \in Procs |-> Absent]
  /\ pc = [p \in Procs |-> "idle"]
  /\ key = [p \in Procs |-> NoKey]
  /\ lk = [p \in Procs |-> NoLock]
  /\ state = [p \in Procs |-> <<>>]
  /\ saves = 0
  /\ acked = [k \in Keys |-> {}]

Contents(k) == IF file[k] = Absent THEN <<>> ELSE file[k]

(* A lock nobody refers to any more may be a new one. *)
Fresh(l) == l \notin {locks[s] : s \in Sessions} \cup {lk[p] : p \in Procs}

(* Mutant: the locks are not kept, every call makes its own. *)
sessionLock_Forgotten(p, s) ==
  \E l \in Locks :
    /\ Fresh(l)
    /\ lk' = [lk EXCEPT ![p] = l]
    /\ UNCHANGED locks

(* The lock of session ID s, made if needed; f.mu makes it one step. *)
sessionLock(p, s) ==
  \E l \in Locks :
    /\ IF locks[s] = NoLock THEN Fresh(l) ELSE l = locks[s]
    /\ lk' = [lk EXCEPT ![p] = l]
    /\ locks' = [locks EXCEPT ![s] = l]

(* The lock is free for a writer, for a reader. *)
Free(l) == \A p \in Procs : lk[p] = l => pc[p] \notin Holding \cup {"read"}
FreeToRead(l) == \A p \in Procs : lk[p] = l => pc[p] \notin Holding

Goto(p, next) == pc' = [pc EXCEPT ![p] = next]

(* The call returns and its deferred unlock runs. *)
Return(p) ==
  /\ Goto(p, "idle")
  /\ key' = [key EXCEPT ![p] = NoKey]
  /\ lk' = [lk EXCEPT ![p] = NoLock]
  /\ state' = [state EXCEPT ![p] = <<>>]
-----------------------------------------------------------------------------
(* LoadState *)

Using(p, k) == pc[p] # "idle" /\ key[p] = k

(* No caller is deleting a session that has to be left alone meanwhile. *)
Undisturbed(k) ==
  \A p \in Procs, j \in Keys :
    Using(p, j) /\ pc[p] \in {"dlock"} \cup Deleting => k \notin WaitsFor[j]

CallLoad(p, k) ==
  /\ pc[p] = "idle"
  /\ Undisturbed(k)
  /\ sessionLock(p, Session(k))
  /\ Goto(p, "rlock")
  /\ key' = [key EXCEPT ![p] = k]
  /\ UNCHANGED <<disk, state, saves, acked>>

RLock(p) ==
  /\ pc[p] = "rlock"
  /\ FreeToRead(lk[p])
  /\ Goto(p, "read")
  /\ UNCHANGED <<locks, disk, key, lk, state, saves, acked>>

(* Reading fails, or the state file does not parse. *)
ReadFails(p) ==
  /\ pc[p] = "read"
  /\ Faults \/ file[key[p]] = Partial
  /\ Return(p)
  /\ UNCHANGED <<locks, disk, saves, acked>>

Read(p) ==
  /\ pc[p] = "read"
  /\ file[key[p]] # Partial
  /\ state' = [state EXCEPT ![p] = Contents(key[p])]
  /\ lk' = [lk EXCEPT ![p] = NoLock]
  /\ Goto(p, "loaded")
  /\ UNCHANGED <<locks, disk, key, saves, acked>>

(* The flow that loaded the state fails, or had nothing to save. *)
Leave(p) ==
  /\ pc[p] = "loaded"
  /\ Return(p)
  /\ UNCHANGED <<locks, disk, saves, acked>>
-----------------------------------------------------------------------------
(* SaveState *)

CallSave(p) ==
  /\ pc[p] = "loaded"
  /\ saves < MaxSaves
  /\ saves' = saves + 1
  /\ state' = [state EXCEPT ![p] = Append(state[p], saves + 1)]
  /\ sessionLock(p, Session(key[p]))
  /\ Goto(p, "lock")
  /\ UNCHANGED <<disk, key, acked>>

Lock(p) ==
  /\ pc[p] \in {"lock", "dlock"}
  /\ Free(lk[p])
  /\ Goto(p, IF pc[p] = "lock" THEN "check" ELSE "remove")
  /\ UNCHANGED <<locks, disk, key, lk, state, saves, acked>>

(* Mutant: only the lengths are compared. *)
Extends_Lengths(k, new) == Len(new) >= Len(Contents(k))

(* validateAppendOnlyState of the existing state, if there is one *)
Extends(k, new) ==
  /\ Len(Contents(k)) <= Len(new)
  /\ \A i \in 1..Len(Contents(k)) : new[i] = Contents(k)[i]

(* Create the directory, read the existing state and compare. *)
CheckPasses(p) ==
  /\ pc[p] = "check"
  /\ file[key[p]] # Partial
  /\ Extends(key[p], state[p])
  /\ dirs' = dirs \cup {key[p]}
  /\ Goto(p, "create")
  /\ UNCHANGED <<locks, file, temp, key, lk, state, saves, acked>>

CheckFails(p) ==
  /\ pc[p] = "check"
  /\ Faults \/ file[key[p]] = Partial \/ ~Extends(key[p], state[p])
  /\ \/ dirs' = dirs \cup {key[p]}
     \/ Faults /\ UNCHANGED dirs
  /\ Return(p)
  /\ UNCHANGED <<locks, file, temp, saves, acked>>

(* atomicWriteFile: a temporary file in the session's directory is         *)
(* created, written and synced, and renamed to state.json.                 *)
CreateTemp(p) ==
  /\ pc[p] = "create"
  /\ key[p] \in dirs
  /\ temp' = [temp EXCEPT ![p] = Partial]
  /\ Goto(p, "write")
  /\ UNCHANGED <<locks, dirs, file, key, lk, state, saves, acked>>

WriteTemp(p) ==
  /\ pc[p] = "write"
  /\ temp[p] # Absent
  /\ temp' = [temp EXCEPT ![p] = state[p]]
  /\ Goto(p, "rename")
  /\ UNCHANGED <<locks, dirs, file, key, lk, state, saves, acked>>

(* Mutant: the file is renamed while it is being written. *)
Rename_Unsynced(p) ==
  /\ pc[p] \in {"write", "rename"}
  /\ temp[p] # Absent
  /\ file' = [file EXCEPT ![key[p]] = temp[p]]
  /\ temp' = [temp EXCEPT ![p] = Absent]
  /\ Goto(p, "saved")
  /\ UNCHANGED <<locks, dirs, key, lk, state, saves, acked>>

Rename(p) ==
  /\ pc[p] = "rename"
  /\ temp[p] # Absent
  /\ file' = [file EXCEPT ![key[p]] = temp[p]]
  /\ temp' = [temp EXCEPT ![p] = Absent]
  /\ Goto(p, "saved")
  /\ UNCHANGED <<locks, dirs, key, lk, state, saves, acked>>

(* The directory or the temporary file is gone, or the disk fails; the     *)
(* temporary file is removed.                                              *)
WriteFails(p) ==
  /\ pc[p] \in {"create", "write", "rename"}
  /\ \/ Faults
     \/ pc[p] = "create" /\ key[p] \notin dirs
     \/ pc[p] # "create" /\ temp[p] = Absent
  /\ temp' = [temp EXCEPT ![p] = Absent]
  /\ Return(p)
  /\ UNCHANGED <<locks, dirs, file, saves, acked>>

Saved(p) ==
  /\ pc[p] = "saved"
  /\ acked' = [acked EXCEPT ![key[p]] = @ \cup {state[p][Len(state[p])]}]
  /\ Return(p)
  /\ UNCHANGED <<locks, disk, saves>>
-----------------------------------------------------------------------------
(* DeleteSession *)

CallDelete(p, k) ==
  /\ pc[p] = "idle"
  /\ Undisturbed(k)
  /\ \A q \in Procs, j \in WaitsFor[k] : ~Using(q, j)
  /\ sessionLock(p, Session(k))
  /\ Goto(p, "dlock")
  /\ key' = [key EXCEPT ![p] = k]
  /\ UNCHANGED <<disk, state, saves, acked>>

(* os.RemoveAll of the session's directory: its entries, listed once, are  *)
(* removed one by one in any order, the directory at the end.  What others *)
(* put there before the listing ends is taken along.                       *)
Empty(k) ==
  file[k] = Absent /\ \A q \in Procs : key[q] = k => temp[q] = Absent

RemoveState(p) ==
  /\ pc[p] = "remove"
  /\ file[key[p]] # Absent
  /\ file' = [file EXCEPT ![key[p]] = Absent]
  /\ acked' = [acked EXCEPT ![key[p]] = {}]
  /\ UNCHANGED <<locks, dirs, temp, calls, saves>>

RemoveTemp(p) ==
  /\ pc[p] = "remove"
  /\ \E q \in Procs :
       /\ key[q] = key[p]
       /\ temp[q] # Absent
       /\ temp' = [temp EXCEPT ![q] = Absent]
  /\ UNCHANGED <<locks, dirs, file, calls, saves, acked>>

EntriesGone(p) ==
  /\ pc[p] = "remove"
  /\ Empty(key[p])
  /\ Goto(p, "rmdir")
  /\ UNCHANGED <<locks, disk, key, lk, state, saves, acked>>

(* Mutant: the entries are removed, the directory stays. *)
RemoveDir_Stays(p) ==
  /\ pc[p] = "rmdir"
  /\ Empty(key[p])
  /\ Goto(p, "forget")
  /\ UNCHANGED <<locks, disk, key, lk, state, saves, acked>>

RemoveDir(p) ==
  /\ pc[p] = "rmdir"
  /\ Empty(key[p])
  /\ dirs' = dirs \ {key[p]}
  /\ Goto(p, "forget")
  /\ UNCHANGED <<locks, file, temp, key, lk, state, saves, acked>>

(* An entry cannot be removed, or others have put one into the directory   *)
(* since the listing.  The lock's entry stays as well.                     *)
RemoveFails(p) ==
  /\ pc[p] \in {"remove", "rmdir"}
  /\ Faults \/ (pc[p] = "rmdir" /\ ~Empty(key[p]))
  /\ Return(p)
  /\ UNCHANGED <<locks, disk, saves, acked>>

(* Mutant: the callers that wait for a session lock keep f.mu meanwhile.   *)
ForgetLock_MuKept(p) ==
  /\ pc[p] = "forget"
  /\ \A q \in Procs : pc[q] \notin {"rlock", "lock", "dlock"}
  /\ locks' = [locks EXCEPT ![Session(key[p])] = NoLock]
  /\ Goto(p, "removed")
  /\ UNCHANGED <<disk, key, lk, state, saves, acked>>

(* The lock's entry is deleted, under f.mu, while the lock is still held. *)
ForgetLock(p) ==
  /\ pc[p] = "forget"
  /\ locks' = [locks EXCEPT ![Session(key[p])] = NoLock]
  /\ Goto(p, "removed")
  /\ UNCHANGED <<disk, key, lk, state, saves, acked>>

Removed(p) ==
  /\ pc[p] = "removed"
  /\ Return(p)
  /\ UNCHANGED <<locks, disk, saves, acked>>
-----------------------------------------------------------------------------

(* The process dies: locks and calls are gone, the files stay. *)
Crash ==
  /\ Faults
  /\ \E p \in Procs : pc[p] # "idle"
  /\ locks' = [s \in Sessions |-> NoLock]
  /\ temp' = [p \in Procs |-> Absent]
  /\ pc' = [p \in Procs |-> "idle"]
  /\ key' = [p \in Procs |-> NoKey]
  /\ lk' = [p \in Procs |-> NoLock]
  /\ state' = [p \in Procs |-> <<>>]
  /\ UNCHANGED <<dirs, file, saves, acked>>

Step(p) ==
  \/ ReadFails(p) \/ Read(p)
  \/ CheckPasses(p) \/ CheckFails(p)
  \/ CreateTemp(p) \/ WriteTemp(p) \/ Rename(p) \/ WriteFails(p) \/ Saved(p)
  \/ RemoveState(p) \/ RemoveTemp(p) \/ EntriesGone(p) \/ RemoveDir(p)
  \/ RemoveFails(p) \/ ForgetLock(p) \/ Removed(p)

Acquire(p) == RLock(p) \/ Lock(p)

Next ==
  \/ \E p \in Procs :
       \/ \E k \in Keys : CallLoad(p, k) \/ CallDelete(p, k)
       \/ CallSave(p) \/ Leave(p) \/ Acquire(p) \/ Step(p)
  \/ Crash

(* Goroutines that can run do, and a mutex that is free again and again is *)
(* eventually granted: Go's mutexes hand over to the longest waiter.       *)
Fairness ==
  \A p \in Procs : WF_vars(Step(p)) /\ SF_vars(RLock(p)) /\ SF_vars(Lock(p))

Spec == Init /\ [][Next]_vars

LiveSpec == Spec /\ Fairness
-----------------------------------------------------------------------------
(* Properties *)

(* Among the types is atomicWriteFile's promise: state.json is never left  *)
(* in a partial state, wherever the process crashes.                       *)
TypeOK ==
  /\ locks \in [Sessions -> Locks \cup {NoLock}]
  /\ dirs \subseteq Keys
  /\ file \in [Keys -> {Absent} \cup States]
  /\ temp \in [Procs -> {Absent, Partial} \cup States]
  /\ pc \in [Procs -> {"idle", "rlock", "read", "loaded", "lock", "dlock"}
                        \cup Holding]
  /\ key \in [Procs -> Keys \cup {NoKey}]
  /\ \A p \in Procs : pc[p] = "idle" <=> key[p] = NoKey
  /\ lk \in [Procs -> Locks \cup {NoLock}]
  /\ \A p \in Procs : pc[p] \notin {"idle", "loaded"} => lk[p] \in Locks
  /\ state \in [Procs -> States]
  /\ saves \in 0..MaxSaves
  /\ acked \in [Keys -> SUBSET Entry]

(* A save that returned nil stays stored until the session is deleted: no  *)
(* later save of a caller that did not know of it, no crash and no failed  *)
(* write takes it back.                                                    *)
AcknowledgedKept ==
  \A k \in Keys : \A id \in acked[k] :
    \E i \in 1..Len(Contents(k)) : Contents(k)[i] = id

(* The per-session lock: while one caller is between reading the state it  *)
(* validates against and renaming its file, no other caller writes or      *)
(* removes that session.                                                   *)
OneWriter ==
  \A p, q \in Procs :
    pc[p] \in Holding /\ pc[q] \in Holding /\ key[p] = key[q] => p = q

(* ListSessions, which looks at directories and takes no lock, names a     *)
(* session without a state only while a call is at work on it: a save that *)
(* has made the directory but not the file, or a deletion that is half     *)
(* done.  None of them, whoever it meets, leaves such a session behind.    *)
ListedHaveState ==
  \A k \in dirs : file[k] = Absent =>
    \E p \in Procs :
      key[p] = k /\ pc[p] \in {"create", "write", "rename", "remove", "rmdir"}

(* Every call returns: nobody waits for ever for a lock. *)
CallsReturn ==
  \A p \in Procs :
    pc[p] \in {"rlock", "lock", "dlock"} ~> pc[p] \in {"idle", "loaded"}

(* Every save is one atomic append, every delete one atomic removal.       *)
Store == INSTANCE AppendStore WITH history <- [k \in Keys |-> Contents(k)]

ImplementsStore == Store!Spec
=============================================================================
