---------------------------- MODULE MCLoginForm ----------------------------
(* Small instances of LoginForm for TLC.                                   *)
EXTENDS LoginForm, TLC

Symmetry == Permutations(Requests)
=============================================================================
