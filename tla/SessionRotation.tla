--------------------------- MODULE SessionRotation ---------------------------
(***************************************************************************)
(* What the refresh-token tables promise, with no requests, transactions   *)
(* or failures in sight.  A session is opened once, by a login, and from   *)
(* then on has at most one live refresh token.  Using the token replaces   *)
(* it by a fresh one in a single step; a session that loses its token      *)
(* without getting a new one is closed and never comes back.               *)
(***************************************************************************)
CONSTANTS Sessions,   \* the logins that may open a session
          Tokens      \* refresh-token values

VARIABLES live,       \* live[s]: the unrevoked tokens of session s
          opened,     \* sessions that have been opened
          used        \* tokens that have ever been handed to the table

vars == <<live, opened, used>>

Init ==
  /\ live = [s \in Sessions |-> {}]
  /\ opened = {}
  /\ used = {}

\* A login opens session s with the fresh token t.
Open(s, t) ==
  /\ s \notin opened
  /\ t \notin used
  /\ live' = [live EXCEPT ![s] = {t}]
  /\ opened' = opened \cup {s}
  /\ used' = used \cup {t}

\* The live token of s is exchanged for the fresh token t: the old one dies
\* and the new one is born in the same step.
Rotate(s, t) ==
  /\ live[s] # {}
  /\ t \notin used
  /\ live' = [live EXCEPT ![s] = {t}]
  /\ used' = used \cup {t}
  /\ UNCHANGED opened

\* The sessions in S end (a logout ends one, a cleanup may end several).
Close(S) ==
  /\ live' = [s \in Sessions |-> IF s \in S THEN {} ELSE live[s]]
  /\ UNCHANGED <<opened, used>>

Next ==
  \/ \E s \in Sessions, t \in Tokens : Open(s, t) \/ Rotate(s, t)
  \/ \E S \in SUBSET Sessions : Close(S)

Spec == Init /\ [][Next]_vars
=============================================================================
