------------------------ MODULE MCEmailVerification ------------------------
(* Small instances of EmailVerification for TLC.                           *)
EXTENDS EmailVerification, TLC

Symmetry ==
  Permutations(Signups) \cup Permutations(Clicks) \cup Permutations(Callbacks)
=============================================================================
