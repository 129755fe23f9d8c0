--------------------------- MODULE MCFileSessions ---------------------------
(* Small instances of FileSessions for TLC. *)
EXTENDS FileSessions, TLC

(* Deletions wait for the callers of the same session ID, whatever their   *)
(* tenant; for those of the same session; for nobody.                      *)
SameID  == [k \in Keys |-> {j \in Keys : Session(j) = Session(k)}]
SameKey == [k \in Keys |-> {k}]
Nobody  == [k \in Keys |-> {}]

Symmetry == Permutations(Procs) \cup Permutations(Locks)
=============================================================================
