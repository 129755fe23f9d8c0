---------------------------- MODULE MediaAssets ----------------------------
(***************************************************************************)
(* FileMediaAssetStore: the media of one session, kept as one file per     *)
(* asset, one chunk index per loaded asset, and one index file with a      *)
(* record per asset.  Session.Save puts the media of a new message here    *)
(* before it hands the session to the operator.  Assets are loaded, which  *)
(* marks their records as ingested, and the whole directory is deleted.    *)
(*                                                                         *)
(* Only the rewriting of the index is done under a lock, assetsMu.  A file *)
(* is written by atomicWriteFile, in one step, which fails if its          *)
(* directory has gone; os.RemoveAll removes the entries it found one by    *)
(* one.  An asset ID is a fresh uuid, as in normalizeMediaParts, so that   *)
(* what a file holds is told by its ID.                                    *)
(***************************************************************************)
EXTENDS Naturals, FiniteSets

CONSTANTS
  Clients,    \* the goroutines that save messages, load or delete assets
  Assets,     \* the asset IDs that may ever be given
  NoAsset,
  Nobody,     \* the owner of a free lock
  WithExt,    \* the assets whose MIME type has a file extension
  MaxFaults   \* bound on the failures and crashes

ASSUME AssetsAssumption ==
  /\ NoAsset \notin Assets
  /\ Nobody \notin Clients
  /\ WithExt \subseteq Assets
  /\ MaxFaults \in Nat

VARIABLES
  dir,      \* the assets directory exists
  files,    \* the assets whose file exists
  chunks,   \* the assets whose chunk index exists
  index,    \* index[a]: the IngestStatus in the record of a, or "none"
  owner,    \* who holds assetsMu
  pc,       \* where the client is in its call
  asset,    \* the asset the call is about
  status,   \* the IngestStatus of the record the call will write
  copy,     \* the index as the holder of the lock has read it
  todo,     \* the entries a deletion has found and not yet removed
  part,     \* the path in the client's message, NoAsset for a data URI
  seen,     \* the references of the session as the client loaded it
  refs,     \* SessionState.Assets as stored: [asset, id], where id is
            \* the AssetID, or NoAsset for one the store does not know
  used,     \* the asset IDs given so far
  faults,
  acked,    \* history: the assets whose Put returned nil
  gone,     \* history: the assets that a deletion found or met
  torn      \* history: a deletion met another call or did not finish, and
            \* none has removed everything since

disk    == <<dir, files, chunks, index>>
call    == <<pc, asset, status, copy, todo>>
session == <<part, seen, refs>>
history == <<acked, gone, torn>>
vars == <<dir, files, chunks, index, owner, pc, asset, status, copy, todo,
          part, seen, refs, used, faults, acked, gone, torn>>

Status == {"none", "pending", "completed"}

Empty == [a \in Assets |-> "none"]

Entries ==
  {<<"asset", a>> : a \in files} \cup {<<"chunks", a>> : a \in chunks}
    \cup IF index = Empty THEN {} ELSE {<<"index", NoAsset>>}

(* The calls that are at work in the directory. *)
Working ==
  {"write", "upsert", "rewrite", "process", "chunks", "mark", "remark",
   "remove"}

Deleting == \E c \in Clients : pc[c] = "remove"
-----------------------------------------------------------------------------

Init ==
  /\ dir = FALSE
  /\ files = {} /\ chunks = {}
  /\ index = Empty
  /\ owner = Nobody
  /\ pc = [c \in Clients |-> "idle"]
  /\ asset = [c \in Clients |-> NoAsset]
  /\ status = [c \in Clients |-> "none"]
  /\ copy = [c \in Clients |-> Empty]
  /\ todo = [c \in Clients |-> {}]
  /\ part = [c \in Clients |-> NoAsset]
  /\ seen = [c \in Clients |-> {}]
  /\ refs = {}
  /\ used = {}
  /\ faults = 0
  /\ acked = {} /\ gone = {}
  /\ torn = FALSE

Goto(c, next) == pc' = [pc EXCEPT ![c] = next]

Return(c) ==
  /\ Goto(c, "idle")
  /\ asset' = [asset EXCEPT ![c] = NoAsset]
  /\ status' = [status EXCEPT ![c] = "none"]
  /\ copy' = [copy EXCEPT ![c] = Empty]
  /\ todo' = [todo EXCEPT ![c] = {}]

Fails == faults < MaxFaults /\ faults' = faults + 1
-----------------------------------------------------------------------------
(* Session.Save with one new media message *)

(* The session is loaded, for a message with a data URI or for the one     *)
(* whose save was refused, whose part names a file by now.                 *)
LoadSession(c) ==
  /\ pc[c] = "idle"
  /\ Goto(c, "save")
  /\ seen' = [seen EXCEPT ![c] = {r.asset : r \in refs}]
  /\ \E text \in {part[c], NoAsset} : part' = [part EXCEPT ![c] = text]
  /\ UNCHANGED <<disk, owner, asset, status, copy, todo, refs, used, faults,
                 history>>

(* The state to save has fewer messages than are stored by now. *)
Truncates(c) == Cardinality(refs) > Cardinality(seen[c]) + 1

SaveTruncates(c) ==
  /\ pc[c] = "save"
  /\ Truncates(c)
  /\ Return(c)
  /\ UNCHANGED <<disk, owner, session, used, faults, history>>

(* normalizeMediaParts: a data URI is put in the store, under a fresh ID. *)
StartPut(c) ==
  /\ pc[c] = "save"
  /\ ~Truncates(c)
  /\ part[c] = NoAsset
  /\ \E a \in Assets \ used :
       /\ asset' = [asset EXCEPT ![c] = a]
       /\ used' = used \cup {a}
       /\ gone' = IF Deleting THEN gone \cup {a} ELSE gone
  /\ status' = [status EXCEPT ![c] = "pending"]
  /\ dir' = TRUE
  /\ torn' = (torn \/ Deleting)
  /\ Goto(c, "write")
  /\ UNCHANGED <<files, chunks, index, owner, copy, todo, session, faults,
                 acked>>

(* The part already is an absolute path: nothing is put. *)
KeepPath(c) ==
  /\ pc[c] = "save"
  /\ ~Truncates(c)
  /\ part[c] # NoAsset
  /\ Goto(c, "commit")
  /\ UNCHANGED <<disk, owner, asset, status, copy, todo, session, used, faults,
                 history>>

(* Mutant: the record is made before the file. *)
WriteAsset_RecordFirst(c) ==
  /\ pc[c] = "write"
  /\ dir
  /\ index' = [index EXCEPT ![asset[c]] = "pending"]
  /\ files' \in {files, files \cup {asset[c]}}
  /\ Goto(c, "upsert")
  /\ UNCHANGED <<dir, chunks, owner, asset, status, copy, todo, session, used,
                 faults, history>>

WriteAsset(c) ==
  /\ pc[c] = "write"
  /\ dir
  /\ files' = files \cup {asset[c]}
  /\ Goto(c, "upsert")
  /\ UNCHANGED <<dir, chunks, index, owner, asset, status, copy, todo, session,
                 used, faults, history>>

(* The AssetID of a reference made from a path: the name of the file.      *)
IDInPath(a) == IF a \in WithExt THEN NoAsset ELSE a

(* SaveState stores the session, or refuses it if another save came first. *)
(* Save goes through the parts of all messages, also of the stored ones,   *)
(* and makes the references of those that hold a path anew.                *)
Commit(c) ==
  LET id  == IF asset[c] = part[c] THEN part[c] ELSE IDInPath(part[c])
      old == {[asset |-> a, id |-> IDInPath(a)] : a \in seen[c]}
  IN /\ pc[c] = "commit"
     /\ IF seen[c] = {r.asset : r \in refs}
        THEN /\ refs' = old \cup {[asset |-> part[c], id |-> id]}
             /\ part' = [part EXCEPT ![c] = NoAsset]
        ELSE UNCHANGED <<refs, part>>
     /\ Return(c)
     /\ UNCHANGED <<disk, owner, seen, used, faults, history>>
-----------------------------------------------------------------------------
(* Load *)

FindAsset(c, a) ==
  /\ pc[c] = "idle"
  /\ index[a] # "none"
  /\ asset' = [asset EXCEPT ![c] = a]
  /\ Goto(c, "process")
  /\ torn' = (torn \/ Deleting)
  /\ UNCHANGED <<disk, owner, status, copy, todo, session, used, faults, acked,
                 gone>>

(* The file is read and cut into documents, of which there may be none.    *)
Process(c) ==
  /\ pc[c] = "process"
  /\ asset[c] \in files
  /\ \E ingested \in {"pending", "completed"} :
       status' = [status EXCEPT ![c] = ingested]
  /\ Goto(c, "chunks")
  /\ UNCHANGED <<disk, owner, asset, copy, todo, session, used, faults,
                 history>>

(* Mutant: the chunk index is not written before the record is. *)
WriteChunks_Never(c) ==
  /\ pc[c] = "chunks"
  /\ dir
  /\ Goto(c, "mark")
  /\ UNCHANGED <<disk, owner, asset, status, copy, todo, session, used, faults,
                 history>>

WriteChunks(c) ==
  /\ pc[c] = "chunks"
  /\ dir
  /\ chunks' = chunks \cup {asset[c]}
  /\ Goto(c, "mark")
  /\ UNCHANGED <<dir, files, index, owner, asset, status, copy, todo, session,
                 used, faults, history>>
-----------------------------------------------------------------------------
(* upsertAssetRecord, the last part of Put and of Load *)

(* Mutant: assetsMu is not taken. *)
LockIndex_Unlocked(c) ==
  /\ pc[c] \in {"upsert", "mark"}
  /\ copy' = [copy EXCEPT ![c] = index]
  /\ Goto(c, IF pc[c] = "upsert" THEN "rewrite" ELSE "remark")
  /\ UNCHANGED <<disk, owner, asset, status, todo, session, used, faults,
                 history>>

LockIndex(c) ==
  /\ pc[c] \in {"upsert", "mark"}
  /\ owner = Nobody
  /\ owner' = c
  /\ copy' = [copy EXCEPT ![c] = index]
  /\ Goto(c, IF pc[c] = "upsert" THEN "rewrite" ELSE "remark")
  /\ UNCHANGED <<disk, asset, status, todo, session, used, faults, history>>

(* The index is written, into a new directory if the old one has gone. *)
WriteIndex(c) ==
  /\ index' = [copy[c] EXCEPT ![asset[c]] = status[c]]
  /\ dir' = TRUE
  /\ owner' = Nobody
  /\ UNCHANGED <<files, chunks, seen, refs, used, faults, gone, torn>>

(* Put returns the path, which replaces the data URI in the message. *)
FinishPut(c) ==
  /\ pc[c] = "rewrite"
  /\ WriteIndex(c)
  /\ part' = [part EXCEPT ![c] = asset[c]]
  /\ acked' = acked \cup {asset[c]}
  /\ Goto(c, "commit")
  /\ UNCHANGED <<asset, status, copy, todo>>

FinishLoad(c) ==
  /\ pc[c] = "remark"
  /\ WriteIndex(c)
  /\ Return(c)
  /\ UNCHANGED <<part, acked>>

(* A directory or a file that the next step needs has gone. *)
Missing(c) ==
  \/ pc[c] \in {"write", "chunks"} /\ ~dir
  \/ pc[c] = "process" /\ asset[c] \notin files

(* Mutant: Save ignores the error of Put. *)
CallFails_Ignored(c) ==
  /\ pc[c] \in Working \ {"remove"}
  /\ (Missing(c) /\ UNCHANGED faults) \/ Fails
  /\ owner' = IF owner = c THEN Nobody ELSE owner
  /\ IF pc[c] \in {"write", "upsert", "rewrite"}
     THEN Goto(c, "commit") /\ UNCHANGED <<asset, status, copy, todo>>
     ELSE Return(c)
  /\ UNCHANGED <<disk, session, used, history>>

(* The call returns an error, and releases the lock if it holds it.  The   *)
(* message keeps its data URI if it was being put.                         *)
CallFails(c) ==
  /\ pc[c] \in Working \ {"remove"}
  /\ (Missing(c) /\ UNCHANGED faults) \/ Fails
  /\ owner' = IF owner = c THEN Nobody ELSE owner
  /\ Return(c)
  /\ UNCHANGED <<disk, session, used, history>>
-----------------------------------------------------------------------------
(* DeleteSessionAssets: os.RemoveAll, which takes no lock *)

Delete(c) ==
  /\ pc[c] = "idle"
  /\ dir
  /\ todo' = [todo EXCEPT ![c] = Entries]
  /\ Goto(c, "remove")
  /\ gone' = used
  /\ torn' = (torn \/ \E d \in Clients : pc[d] \in Working)
  /\ UNCHANGED <<disk, owner, asset, status, copy, session, used, faults,
                 acked>>

RemoveEntry(c) ==
  /\ pc[c] = "remove"
  /\ \E e \in todo[c] :
       /\ todo' = [todo EXCEPT ![c] = @ \ {e}]
       /\ files' = files \ {a \in Assets : e = <<"asset", a>>}
       /\ chunks' = chunks \ {a \in Assets : e = <<"chunks", a>>}
       /\ index' = IF e = <<"index", NoAsset>> THEN Empty ELSE index
  /\ UNCHANGED <<dir, owner, pc, asset, status, copy, session, used, faults,
                 history>>

(* The directory goes too, unless it was written to in the meantime; it    *)
(* may have been removed, and made again, by another deletion.  All is     *)
(* well again if nothing is left and no other call is at work.             *)
RemoveDir(c) ==
  /\ pc[c] = "remove"
  /\ todo[c] = {}
  /\ dir' = (dir /\ Entries # {})
  /\ torn' = (torn /\ (Entries # {}
                        \/ \E d \in Clients \ {c} : pc[d] \in Working))
  /\ Return(c)
  /\ UNCHANGED <<files, chunks, index, owner, session, used, faults, acked,
                 gone>>

RemoveFails(c) ==
  /\ pc[c] = "remove"
  /\ Fails
  /\ torn' = TRUE
  /\ Return(c)
  /\ UNCHANGED <<disk, owner, session, used, acked, gone>>
-----------------------------------------------------------------------------

(* The process dies and is started again: only the disk is left. *)
Crash ==
  /\ Fails
  /\ owner' = Nobody
  /\ pc' = [c \in Clients |-> "idle"]
  /\ asset' = [c \in Clients |-> NoAsset]
  /\ status' = [c \in Clients |-> "none"]
  /\ copy' = [c \in Clients |-> Empty]
  /\ todo' = [c \in Clients |-> {}]
  /\ part' = [c \in Clients |-> NoAsset]
  /\ seen' = [c \in Clients |-> {}]
  /\ torn' = (torn \/ Deleting)
  /\ UNCHANGED <<disk, refs, used, acked, gone>>

Next ==
  \/ \E c \in Clients :
       \/ LoadSession(c) \/ SaveTruncates(c) \/ StartPut(c) \/ KeepPath(c)
       \/ WriteAsset(c) \/ Commit(c)
       \/ \E a \in Assets : FindAsset(c, a)
       \/ Process(c) \/ WriteChunks(c)
       \/ LockIndex(c) \/ FinishPut(c) \/ FinishLoad(c) \/ CallFails(c)
       \/ Delete(c) \/ RemoveEntry(c) \/ RemoveDir(c) \/ RemoveFails(c)
  \/ Crash

Spec == Init /\ [][Next]_vars
-----------------------------------------------------------------------------
(* Properties *)

TypeOK ==
  /\ dir \in BOOLEAN /\ torn \in BOOLEAN
  /\ files \subseteq used /\ chunks \subseteq used
  /\ index \in [Assets -> Status]
  /\ owner \in Clients \cup {Nobody}
  /\ pc \in [Clients -> Working \cup {"idle", "save", "commit"}]
  /\ asset \in [Clients -> used \cup {NoAsset}]
  /\ status \in [Clients -> Status]
  /\ copy \in [Clients -> [Assets -> Status]]
  /\ todo \in [Clients -> SUBSET ({"asset", "chunks", "index"}
                                    \X (Assets \cup {NoAsset}))]
  /\ part \in [Clients -> used \cup {NoAsset}]
  /\ seen \in [Clients -> SUBSET used]
  /\ refs \subseteq [asset : used, id : used \cup {NoAsset}]
  /\ used \subseteq Assets /\ acked \subseteq used /\ gone \subseteq used
  /\ faults \in 0..MaxFaults

(* An asset whose Put returned nil stays on disk and stays listed until a  *)
(* deletion: no other Put, no Load that rewrites the index with the record *)
(* it read before, no failure and no crash takes it away.                  *)
AcknowledgedKept ==
  \A a \in acked \ gone : a \in files /\ index[a] # "none"

(* The index tells the truth, wherever a call fails or the process dies:   *)
(* each record has its file, and one that is marked as ingested its chunk  *)
(* index, unless a deletion ran into another call or was cut short.        *)
IndexIsTrue ==
  ~torn /\ ~Deleting =>
    \A a \in Assets :
      /\ index[a] # "none" => a \in files
      /\ index[a] = "completed" => a \in chunks

(* What a stored message shows can be loaded: its asset is on disk and     *)
(* listed unless it was deleted, also if the save had to be repeated; and  *)
(* the AssetID of its reference, if it names one, names that asset.        *)
RefsResolve ==
  \A r \in refs :
    /\ r.asset \notin gone => r.asset \in files /\ index[r.asset] # "none"
    /\ r.id \in {r.asset, NoAsset}
=============================================================================
