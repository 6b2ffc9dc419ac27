------------------------- MODULE EmailVerification -------------------------
(***************************************************************************)
(* The ways one email address comes by an account: AuthService.signUp and  *)
(* the link that verifies it (EmailVerificationService and GET             *)
(* /auth/verify-email), and the transaction of handleOAuthLogin, for a     *)
(* provider that vouches for the address.                                  *)
(*                                                                         *)
(* The account lives in PostgreSQL, the link's token in Redis, and neither *)
(* step of a handler is atomic with the next: signUp looks the address up  *)
(* before it creates the account, verifyToken reads the token before it    *)
(* deletes it, and deletes it before it marks the account.                 *)
(***************************************************************************)
CONSTANTS Signups,    \* signup requests for the address
          Clicks,     \* requests of the link in the verification email
          Callbacks   \* OAuth callbacks whose profile has the address

ASSUME RequestsAssumption ==
  /\ Signups \cap Clicks = {}
  /\ Callbacks \cap (Signups \cup Clicks) = {}

VARIABLES
  account,   \* the User row of the address
  key,       \* the verify: key in Redis that belongs to the account
  mailed,    \* the link has reached the mailbox (or the console)
  pc,        \* pc[r]: the await request r has reached, or its outcome
  late,      \* late[r]: the key was not there when r arrived (history)
  failed     \* a click was cut off between the two stores (history)

vars == <<account, key, mailed, pc, late, failed>>

Requests == Signups \cup Clicks \cup Callbacks

Working  == {"create", "token", "mail", "get", "del", "update",
             "insert", "commit", "link"}
Outcomes == {"created", "undelivered", "conflict", "verified", "invalid",
             "registered", "linked", "error", "lost"}

TypeOK ==
  /\ account \in {"none", "unverified", "verified"}
  /\ key \in {"none", "stored", "burnt", "expired"}
  /\ mailed \in BOOLEAN
  /\ pc \in [Requests -> {"idle"} \cup Working \cup Outcomes]
  /\ late \in [Requests -> BOOLEAN]
  /\ failed \in BOOLEAN

Init ==
  /\ account = "none"
  /\ key = "none"
  /\ mailed = FALSE
  /\ pc = [r \in Requests |-> "idle"]
  /\ late = [r \in Requests |-> FALSE]
  /\ failed = FALSE

Goto(r, l) == pc' = [pc EXCEPT ![r] = l]

\* An insert of the address waits for another that is not committed yet.
Inserted == \E r \in Callbacks : pc[r] = "commit"

Arrive(r, l) ==
  /\ pc[r] = "idle"
  /\ late' = [late EXCEPT ![r] = key # "stored"]
  /\ Goto(r, l)
  /\ UNCHANGED <<account, key, mailed, failed>>

-----------------------------------------------------------------------------
(* signUp.                                                                 *)

\* The address is looked up; it must be free.
SignUp(r) ==
  Arrive(r, IF account = "none" THEN "create" ELSE "conflict")

\* Mutant: two rows for one address.
CreateUserTwice(r) ==
  /\ pc[r] = "create" /\ ~Inserted
  /\ account' = "unverified"
  /\ Goto(r, "token")
  /\ UNCHANGED <<key, mailed, late, failed>>

\* Mutant: P2002 falls into the exception filter's default branch.
CreateUserUnmapped(r) ==
  /\ pc[r] = "create" /\ ~Inserted
  /\ IF account = "none"
       THEN account' = "unverified" /\ Goto(r, "token")
       ELSE UNCHANGED account /\ Goto(r, "badrequest")
  /\ UNCHANGED <<key, mailed, late, failed>>

\* user.create, after the password was hashed; User.email is unique, so the
\* loser of a race gets P2002, which the exception filter turns into a 409.
CreateUser(r) ==
  /\ pc[r] = "create" /\ ~Inserted
  /\ IF account = "none"
       THEN account' = "unverified" /\ Goto(r, "token")
       ELSE UNCHANGED account /\ Goto(r, "conflict")
  /\ UNCHANGED <<key, mailed, late, failed>>

\* createToken: SET ... EX 86400.
CreateToken(r) ==
  /\ pc[r] = "token"
  /\ key' = "stored"
  /\ Goto(r, "mail")
  /\ UNCHANGED <<account, mailed, late, failed>>

\* sendVerificationEmail succeeds or throws; a throw is reported to the user.
SendEmail(r) ==
  /\ pc[r] = "mail"
  /\ \/ mailed' = TRUE /\ Goto(r, "created")
     \/ UNCHANGED mailed /\ Goto(r, "undelivered")
  /\ UNCHANGED <<account, key, late, failed>>

-----------------------------------------------------------------------------
(* verifyEmail and verifyToken.                                            *)

Click(r) == mailed /\ Arrive(r, "get")

\* GET verify:<id>, then the secret is compared: the link's is right.
GetToken(r) ==
  /\ pc[r] = "get"
  /\ Goto(r, IF key = "stored" THEN "del" ELSE "invalid")
  /\ UNCHANGED <<account, key, mailed, late, failed>>

\* Mutant: the account is marked first, the token deleted afterwards.
MarkBeforeDel(r) ==
  /\ pc[r] = "del"
  /\ account' = "verified"
  /\ Goto(r, "update")
  /\ UNCHANGED <<key, mailed, late, failed>>

\* DEL verify:<id>, whether or not the key is still there.
DelToken(r) ==
  /\ pc[r] = "del"
  /\ key' = IF key = "stored" THEN "burnt" ELSE key
  /\ Goto(r, "update")
  /\ UNCHANGED <<account, mailed, late, failed>>

\* Mutant: a failure to mark the account is not reported.
MarkUnchecked(r) ==
  /\ pc[r] = "update"
  /\ account' \in {account, "verified"}
  /\ Goto(r, "verified")
  /\ UNCHANGED <<key, mailed, late, failed>>

\* user.update: emailVerified = true, then the redirect to ?verified=1.
MarkVerified(r) ==
  /\ pc[r] = "update"
  /\ account' = "verified"
  /\ Goto(r, "verified")
  /\ UNCHANGED <<key, mailed, late, failed>>

-----------------------------------------------------------------------------
(* The transaction of handleOAuthLogin.                                    *)

\* The address is looked up, for an account to link.
TxFind(r) ==
  Arrive(r, IF account = "none" THEN "insert" ELSE "link")

\* The account of a new user is inserted; the provider has verified it.
TxCreateUser(r) ==
  /\ pc[r] = "insert" /\ ~Inserted
  /\ Goto(r, IF account = "none" THEN "commit" ELSE "conflict")
  /\ UNCHANGED <<account, key, mailed, late, failed>>

TxCommit(r) ==
  \/ /\ pc[r] = "commit"
     /\ account' = "verified"
     /\ Goto(r, "registered")
     /\ UNCHANGED <<key, mailed, late, failed>>
  \/ /\ pc[r] = "link"
     /\ Goto(r, "linked")
     /\ UNCHANGED <<account, key, mailed, late, failed>>

-----------------------------------------------------------------------------
\* PostgreSQL or Redis fails: signUp throws, verifyEmail redirects to the
\* error page like for a bad link.
StoreError(r) ==
  /\ pc[r] \in Working \ {"mail"}
  /\ Goto(r, IF r \in Clicks THEN "invalid" ELSE "error")
  /\ failed' = (failed \/ pc[r] = "update")
  /\ UNCHANGED <<account, key, mailed, late>>

\* 24 hours pass, or Redis evicts the key (allkeys-lru).
LoseToken ==
  /\ key = "stored"
  /\ key' = "expired"
  /\ UNCHANGED <<account, mailed, pc, late, failed>>

Crash ==
  /\ \E r \in Requests : pc[r] \in Working
  /\ pc' = [r \in Requests |-> IF pc[r] \in Working THEN "lost" ELSE pc[r]]
  /\ failed' = (failed \/ \E r \in Clicks : pc[r] = "update")
  /\ UNCHANGED <<account, key, mailed, late>>

Step(r) ==
  \/ CreateUser(r) \/ CreateToken(r) \/ SendEmail(r)
  \/ GetToken(r) \/ DelToken(r) \/ MarkVerified(r)
  \/ TxCreateUser(r) \/ TxCommit(r)

Next ==
  \/ \E r \in Signups : SignUp(r)
  \/ \E r \in Clicks : Click(r)
  \/ \E r \in Callbacks : TxFind(r)
  \/ \E r \in Requests : Step(r) \/ StoreError(r)
  \/ LoseToken
  \/ Crash

Spec == Init /\ [][Next]_vars

-----------------------------------------------------------------------------
(* Properties.                                                             *)

\* However many signups and callbacks race for the address, one of them creates
\* the account (the unique index on User.email, behind both lookups).
OneAccount ==
  LET created == {"token", "mail", "created", "undelivered", "commit", "registered"}
  IN  \A p, q \in Requests : pc[p] \in created /\ pc[q] \in created => p = q

\* The link of a verified account is dead, whichever way it was verified: the
\* token is burnt before the account is marked (the order of DEL and update in
\* verifyToken), and none is made for an account that a provider vouches for.
VerifiedLinkDead == account = "verified" => key # "stored"

\* A link is not used up for nothing: once it is burnt, the account is verified
\* or a click is about to mark it, however many clicks run side by side, unless
\* PostgreSQL failed or the server stopped between the DEL and the update of
\* verifyToken and verifyEmail.  Then the user has neither, and no other link.
NotWasted ==
  key = "burnt" =>
    account = "verified" \/ failed \/ \E r \in Clicks : pc[r] = "update"

\* Who is told that the address is verified can log in: the redirect to
\* ?verified=1, and the new user of a callback.  A click that arrives when the
\* key is gone, used or expired, is not told so.
VerifiedTruthful ==
  /\ \A r \in Clicks : pc[r] = "verified" => account = "verified" /\ ~late[r]
  /\ \A r \in Callbacks : pc[r] = "registered" => account = "verified"
=============================================================================
