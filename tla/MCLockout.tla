----------------------------- MODULE MCLockout -----------------------------
(* Small instances of Lockout for TLC.                                     *)
EXTENDS Lockout, TLC

Symmetry == Permutations(Requests)
=============================================================================
