-------------------------- MODULE MCRefreshTokens --------------------------
(* Small instances of RefreshTokens for TLC.                               *)
EXTENDS RefreshTokens, TLC

\* Requests and tokens are interchangeable: the model never orders them.
Symmetry == Permutations(Requests) \cup Permutations(Tokens)
=============================================================================
