----------------------------- MODULE SessionLog -----------------------------
(***************************************************************************)
(* What the session store promises to the flows that write to it: every    *)
(* session is one log, a run adds its whole batch of messages to the end   *)
(* of one log in a single step and at most once, and nothing but deleting  *)
(* the session ever removes an entry.  SessionLedger is shown to implement *)
(* this module.                                                            *)
(***************************************************************************)
EXTENDS Naturals, Sequences

CONSTANTS
  Sessions,    \* the (tenant, session) keys
  BatchSizes,  \* how many messages one run may add
  MaxRuns      \* bound on the runs that ever produce a batch

VARIABLES
  log,   \* log[s]: the entries of session s, oldest first
  done   \* the runs whose batch is in a log, or was in one since deleted

logVars == <<log, done>>

(* An entry is identified by the run that produced it and its position. *)
Entries(r, from, n) == [i \in 1..n |-> <<r, from + i>>]

Init ==
  /\ log = [s \in Sessions |-> <<>>]
  /\ done = {}

Commit(s, r, n) ==
  /\ r \notin done
  /\ log' = [log EXCEPT ![s] = log[s] \o Entries(r, Len(log[s]), n)]
  /\ done' = done \cup {r}

Delete(s) ==
  /\ log' = [log EXCEPT ![s] = <<>>]
  /\ UNCHANGED done

Next ==
  \E s \in Sessions :
    \/ \E r \in 1..MaxRuns, n \in BatchSizes : Commit(s, r, n)
    \/ Delete(s)

Spec == Init /\ [][Next]_logVars
=============================================================================
