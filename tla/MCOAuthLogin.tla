---------------------------- MODULE MCOAuthLogin ----------------------------
(* Small instances of OAuthLogin for TLC.                                  *)
EXTENDS OAuthLogin, TLC

Symmetry ==
  {p @@ q : p \in Permutations(Requests), q \in Permutations(People)}
=============================================================================
