---------------------- MODULE EmailVerificationProofs ----------------------
(***************************************************************************)
(* The safety of EmailVerification for any number of signups, clicks and   *)
(* callbacks.  The argument follows the account: as long as there is none, *)
(* no request has created one, and at most one has an insert that is not   *)
(* committed; once there is one, the request that created it is on its way *)
(* to store the only key there will ever be; and from then on the key can  *)
(* only die.                                                               *)
(***************************************************************************)
EXTENDS EmailVerification, TLAPS

\* The outcomes of a request that has created the account.
Creators == {"token", "mail", "created", "undelivered", "registered"}

\* Who can have created the account.
AccountOK ==
  /\ \A r \in Requests : pc[r] \in Creators => account # "none"
  /\ \A p, q \in Requests : pc[p] \in Creators /\ pc[q] \in Creators => p = q
  /\ \A r \in Requests : pc[r] = "commit" => account = "none"
  /\ \A p, q \in Requests : pc[p] = "commit" /\ pc[q] = "commit" => p = q

\* The key comes after the account, the mail after the key, and clicks after
\* the mail.
KeyOK ==
  /\ key # "none" => account # "none"
  /\ mailed => key # "none"
  /\ \A r \in Clicks : pc[r] # "idle" => mailed
  /\ \A r \in Requests : pc[r] = "token" => account = "unverified" /\ key = "none"
  /\ \A r \in Requests : pc[r] = "mail" => key # "none"

\* A click that got past the deletion, or came late, leaves no key behind.
ClicksOK ==
  /\ \A r \in Requests : pc[r] \in {"get", "del", "update", "verified"} => r \in Clicks
  /\ \A r \in Requests : pc[r] \in {"insert", "commit", "link", "registered", "linked"} => r \in Callbacks
  /\ \A r \in Clicks : pc[r] \in {"update", "verified"} => key # "stored"
  /\ \A r \in Clicks : late[r] => key # "stored" /\ pc[r] \in {"get", "invalid", "lost"}

Inv ==
  /\ TypeOK /\ AccountOK /\ KeyOK /\ ClicksOK
  /\ VerifiedLinkDead /\ VerifiedTruthful /\ NotWasted

\* There is no account, no key and no request yet.
LEMMA InvInit == Init => Inv
BY DEF Init, Inv, TypeOK, AccountOK, KeyOK, ClicksOK, VerifiedLinkDead, VerifiedTruthful, NotWasted,
   Creators, Requests

\* Every step of a signup, a click or a callback keeps the invariant.
LEMMA InvNext ==
  ASSUME Inv, [Next]_vars
  PROVE  Inv'
<1> USE RequestsAssumption
    DEF Inv, TypeOK, AccountOK, KeyOK, ClicksOK, VerifiedLinkDead, VerifiedTruthful, NotWasted,
        Creators, Requests, Working, Outcomes, Goto
<1>1. ASSUME NEW r \in Signups, SignUp(r) PROVE Inv'
  BY <1>1 DEF SignUp, Arrive
<1>2. ASSUME NEW r \in Clicks, Click(r) PROVE Inv'
  BY <1>2 DEF Click, Arrive
<1>3. ASSUME NEW r \in Callbacks, TxFind(r) PROVE Inv'
  BY <1>3 DEF TxFind, Arrive
<1>4. ASSUME NEW r \in Requests, CreateUser(r) PROVE Inv'
  BY <1>4 DEF CreateUser, Inserted
<1>5. ASSUME NEW r \in Requests, CreateToken(r) PROVE Inv'
  BY <1>5 DEF CreateToken
<1>6. ASSUME NEW r \in Requests, SendEmail(r) PROVE Inv'
  BY <1>6 DEF SendEmail
<1>7. ASSUME NEW r \in Requests, GetToken(r) PROVE Inv'
  BY <1>7 DEF GetToken
<1>8. ASSUME NEW r \in Requests, DelToken(r) PROVE Inv'
  BY <1>8 DEF DelToken
<1>9. ASSUME NEW r \in Requests, MarkVerified(r) PROVE Inv'
  BY <1>9 DEF MarkVerified
<1>10. ASSUME NEW r \in Requests, TxCreateUser(r) PROVE Inv'
  BY <1>10 DEF TxCreateUser, Inserted
<1>11. ASSUME NEW r \in Requests, TxCommit(r) PROVE Inv'
  BY <1>11 DEF TxCommit
<1>12. ASSUME NEW r \in Requests, StoreError(r) PROVE Inv'
  BY <1>12 DEF StoreError
<1>13. CASE LoseToken
  BY <1>13 DEF LoseToken
<1>14. CASE Crash
  BY <1>14 DEF Crash
<1>15. CASE UNCHANGED vars
  BY <1>15 DEF vars
<1> QED
  BY <1>1, <1>2, <1>3, <1>4, <1>5, <1>6, <1>7, <1>8, <1>9, <1>10, <1>11, <1>12,
     <1>13, <1>14, <1>15 DEF Next, Step

\* The parts hold together, for any signups, clicks and callbacks.
THEOREM Invariant == Spec => []Inv
BY InvInit, InvNext, PTL DEF Spec

\* The variables keep their types.
THEOREM TypeCorrect == Spec => []TypeOK
<1>1. Inv => TypeOK
  BY DEF Inv
<1> QED  BY <1>1, Invariant, PTL

\* Any number of signups and callbacks create one account between them.
THEOREM OneAccountHolds == Spec => []OneAccount
<1>1. Inv => OneAccount
  BY DEF Inv, AccountOK, Creators, OneAccount
<1> QED  BY <1>1, Invariant, PTL

\* No key that could verify it is left behind by a verified account.
THEOREM LinkDead == Spec => []VerifiedLinkDead
<1>1. Inv => VerifiedLinkDead
  BY DEF Inv
<1> QED  BY <1>1, Invariant, PTL

\* A burnt link has verified its account, is about to, or a store failed.
THEOREM NotWastedHolds == Spec => []NotWasted
<1>1. Inv => NotWasted
  BY DEF Inv
<1> QED  BY <1>1, Invariant, PTL

\* Who is told that the address is verified can log in, and came in time.
THEOREM Truthful == Spec => []VerifiedTruthful
<1>1. Inv => VerifiedTruthful
  BY DEF Inv
<1> QED  BY <1>1, Invariant, PTL
=============================================================================
