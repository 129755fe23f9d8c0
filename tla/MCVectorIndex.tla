---------------------------- MODULE MCVectorIndex ----------------------------
(* Small instances of VectorIndex for TLC. *)
EXTENDS VectorIndex, TLC

(* The first message has only media parts. *)
SomeText == Messages \ {1}

Symmetry == Permutations(Clients) \cup Permutations(Sessions)
=============================================================================
