--------------------------- MODULE MCFetchWithAuth ---------------------------
(* Small instances of FetchWithAuth for TLC.                               *)
EXTENDS FetchWithAuth, TLC

\* Tabs and calls are alike; sessions and tokens are taken in a fixed order.
Symmetry == {p @@ q : p \in Permutations(Tabs), q \in Permutations(Calls)}
=============================================================================
