--------------------------- MODULE MCSessionLedger ---------------------------
(* Small instances of SessionLedger for TLC. *)
EXTENDS SessionLedger, TLC

CONSTANTS c1, c2, s1, s2

(* The agent loop's turn records claim exactly its messages; a caller of   *)
(* Save may give no turn, or turns that do not match.                      *)
Whole    == [n |-> 2, turns |-> <<2>>]
Split    == [n |-> 3, turns |-> <<2, 1>>]
Untold   == [n |-> 1, turns |-> <<>>]
Nothing  == [n |-> 0, turns |-> <<>>]
Mismatch == [n |-> 1, turns |-> <<2>>]
Short    == [n |-> 3, turns |-> <<1>>]

SomeBatches == {Whole, Split, Untold, Nothing, Mismatch, Short}
FewBatches  == {Whole, Split, Untold}

AllMode  == [c \in Clients |-> "All"]
Budget   == [c \in Clients |-> "TokenBudget"]
Window   == [c \in Clients |-> "SlidingWindow"]

Symmetry == Permutations(Clients)
=============================================================================
