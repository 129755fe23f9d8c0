---------------------------- MODULE AppendStore ----------------------------
(***************************************************************************)
(* What a SessionOperator promises: a map from (tenant, session) keys to   *)
(* histories, where a save adds one entry to the end of one history in a   *)
(* single step and a delete empties one.  FileSessions is shown to         *)
(* implement this module.                                                  *)
(***************************************************************************)
EXTENDS Naturals, Sequences

CONSTANTS Keys, MaxSaves

VARIABLE history

Init == history = [k \in Keys |-> <<>>]

Save(k, id) == history' = [history EXCEPT ![k] = Append(history[k], id)]

Delete(k) == history' = [history EXCEPT ![k] = <<>>]

Next ==
  \E k \in Keys : Delete(k) \/ \E id \in 1..MaxSaves : Save(k, id)

Spec == Init /\ [][Next]_history
=============================================================================
