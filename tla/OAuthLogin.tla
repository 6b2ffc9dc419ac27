----------------------------- MODULE OAuthLogin -----------------------------
(***************************************************************************)
(* Sign-in with GitHub or Google: the redirect with its state cookie, the  *)
(* callback, the exchange of the code for a profile, and handleOAuthLogin, *)
(* which finds, links or creates the account.                              *)
(*                                                                         *)
(* Each person owns one email address, one browser and one identity at     *)
(* each provider; an account is named after the address it belongs to.     *)
(***************************************************************************)
CONSTANTS Requests,  \* sign-ins: a redirect and its callback
          People,    \* see above
          Unknown,   \* the id 'unknown' of fetchUserProfile
          None

ASSUME ConstantsAssumption ==
  /\ Unknown \notin People /\ None \notin People /\ None # Unknown
  /\ None \notin Requests

Providers == {"github", "google"}
Ids       == People \cup {Unknown}   \* provider ids, named after their owners

VARIABLES
  users,    \* the accounts in table User
  local,    \* those that have a password
  locked,   \* those whose lockedUntil is in the future
  link,     \* table OAuthAccount: link[v][i] is the account of id i at v
  cookie,   \* cookie[p][v]: the sign-in p's browser holds the state of
  pc,       \* pc[r]: how far the sign-in is, or its outcome
  who,      \* who[r]: the person who signs in
  provider, \* provider[r]: where
  profile,  \* profile[r]: what completeAuthorization returned
  account,  \* account[r]: the account found, linked or created
  created,  \* created[r]: r's transaction inserted the User row
  open      \* open[r]: who[r]'s account was unlocked at some time since r's
            \* callback (history)

accounts == <<users, local, locked, link>>
request  == <<who, provider, profile, account, created>>
vars     == <<accounts, cookie, pc, request, open>>

Profiles == [id : Ids, email : People, verified : BOOLEAN]

\* The states of an open transaction, of a running handler, and of its end.
InTx     == {"find", "create", "link", "commit"}
Running  == {"exchange", "lookup", "issue"} \cup InTx
Outcomes == {"expired", "refused", "unverified", "locked", "conflict", "error", "in"}

TypeOK ==
  /\ users \subseteq People /\ local \subseteq users /\ locked \subseteq local
  /\ link \in [Providers -> [Ids -> users \cup {None}]]
  /\ cookie \in [People -> [Providers -> Requests \cup {None}]]
  /\ pc \in [Requests -> {"idle", "away"} \cup Running \cup Outcomes]
  /\ who \in [Requests -> People]
  /\ provider \in [Requests -> Providers]
  /\ profile \in [Requests -> Profiles]
  /\ account \in [Requests -> users \cup {None}]
  /\ created \in [Requests -> BOOLEAN]
  /\ open \in [Requests -> BOOLEAN]

Init ==
  /\ users = {} /\ local = {} /\ locked = {}
  /\ link = [v \in Providers |-> [i \in Ids |-> None]]
  /\ cookie = [p \in People |-> [v \in Providers |-> None]]
  /\ pc = [r \in Requests |-> "idle"]
  /\ who \in [Requests -> People]
  /\ provider \in [Requests -> Providers]
  /\ profile = [r \in Requests |-> [id |-> who[r], email |-> who[r], verified |-> TRUE]]
  /\ account = [r \in Requests |-> None]
  /\ created = [r \in Requests |-> FALSE]
  /\ open = [r \in Requests |-> FALSE]

Goto(r, l) == pc' = [pc EXCEPT ![r] = l]

-----------------------------------------------------------------------------
(* The two visits of the browser.                                          *)

\* GET /auth/<provider>: the state goes into a cookie, over an older one.
Start(r) ==
  /\ pc[r] = "idle"
  /\ Goto(r, "away")
  /\ cookie' = [cookie EXCEPT ![who[r]][provider[r]] = r]
  /\ UNCHANGED <<accounts, request, open>>

\* GET /auth/<provider>/callback: the cookie is cleared, whatever it holds,
\* and must be the one of this sign-in; after 5 minutes it is gone.
Callback(r) ==
  /\ pc[r] = "away"
  /\ cookie' = [cookie EXCEPT ![who[r]][provider[r]] = None]
  /\ \/ cookie[who[r]][provider[r]] = r /\ Goto(r, "exchange")
     \/ Goto(r, "expired")
  /\ open' = [open EXCEPT ![r] = who[r] \notin locked]
  /\ UNCHANGED <<accounts, request>>

\* The provider is asked for the profile.  An address it has verified is the
\* owner's; one it has not verified may be anybody's.  GitHub's second request
\* may fail, and then the id is unknown.
Answers(r) ==
  {f \in Profiles :
     /\ f.id = who[r] \/ (f.id = Unknown /\ provider[r] = "github")
     /\ f.verified => f.email = who[r]}

\* Mutant: without an answer there is no id.
ExchangeNull(r) ==
  /\ pc[r] = "exchange"
  /\ \E f \in Answers(r) :
       profile' = [profile EXCEPT ![r] = [f EXCEPT !.id = IF @ = Unknown THEN None ELSE @]]
  /\ Goto(r, "lookup")
  /\ UNCHANGED <<accounts, cookie, who, provider, account, created, open>>

Exchange(r) ==
  /\ pc[r] = "exchange"
  /\ \E f \in Answers(r) : profile' = [profile EXCEPT ![r] = f]
  /\ Goto(r, "lookup")
  /\ UNCHANGED <<accounts, cookie, who, provider, account, created, open>>

\* There is no code in the callback, or the provider does not answer.
ExchangeFails(r) ==
  /\ pc[r] = "exchange"
  /\ Goto(r, "refused")
  /\ UNCHANGED <<accounts, cookie, request, open>>

-----------------------------------------------------------------------------
(* handleOAuthLogin.                                                       *)

Owner(r) == link[provider[r]][profile[r].id]

\* The identity is known: its account is signed in unless it is locked.
FindLinked(r) ==
  /\ pc[r] = "lookup"
  /\ Owner(r) # None
  /\ IF Owner(r) \in locked
     THEN Goto(r, "locked") /\ UNCHANGED account
     ELSE Goto(r, "issue") /\ account' = [account EXCEPT ![r] = Owner(r)]
  /\ UNCHANGED <<accounts, cookie, who, provider, profile, created, open>>

\* Mutant: the address is taken as the provider has it.
FindNothingTrusting(r) ==
  /\ pc[r] = "lookup"
  /\ Owner(r) = None
  /\ Goto(r, "find")
  /\ UNCHANGED <<accounts, cookie, request, open>>

\* The identity is new: its address must be verified.
FindNothing(r) ==
  /\ pc[r] = "lookup"
  /\ Owner(r) = None
  /\ Goto(r, IF profile[r].verified THEN "find" ELSE "unverified")
  /\ UNCHANGED <<accounts, cookie, request, open>>

Email(r) == profile[r].email

\* Mutant: a locked account can be linked.
TxFindLocked(r) ==
  /\ pc[r] = "find"
  /\ Goto(r, IF Email(r) \in users THEN "link" ELSE "create")
  /\ UNCHANGED <<accounts, cookie, request, open>>

\* The transaction looks for an account with that address; a locked one is
\* refused, and the transaction rolled back.
TxFind(r) ==
  /\ pc[r] = "find"
  /\ Goto(r, IF Email(r) \in locked THEN "locked"
             ELSE IF Email(r) \in users THEN "link" ELSE "create")
  /\ UNCHANGED <<accounts, cookie, request, open>>

\* Inserts that are not committed yet; an insert of the same key waits.
Inserted(p)   == \E q \in Requests : created[q] /\ Email(q) = p /\ pc[q] \in InTx
LinkPending(r) ==
  \E q \in Requests :
    pc[q] = "commit" /\ provider[q] = provider[r] /\ profile[q].id = profile[r].id

\* Mutant: the user is created with this.prisma instead of tx.
TxCreateUserOutside(r) ==
  /\ pc[r] = "create"
  /\ ~Inserted(Email(r))
  /\ IF Email(r) \in users
     THEN Goto(r, "conflict") /\ UNCHANGED users
     ELSE Goto(r, "link") /\ users' = users \cup {Email(r)}
  /\ UNCHANGED <<local, locked, link, cookie, request, open>>

\* tx.user.create; the address may have been taken in the meantime (P2002).
TxCreateUser(r) ==
  /\ pc[r] = "create"
  /\ ~Inserted(Email(r))
  /\ IF Email(r) \in users
     THEN Goto(r, "conflict") /\ UNCHANGED created
     ELSE Goto(r, "link") /\ created' = [created EXCEPT ![r] = TRUE]
  /\ UNCHANGED <<accounts, cookie, who, provider, profile, account, open>>

\* tx.oAuthAccount.create; the identity may have been linked in the meantime.
TxCreateLink(r) ==
  /\ pc[r] = "link"
  /\ ~LinkPending(r)
  /\ Goto(r, IF Owner(r) = None THEN "commit" ELSE "conflict")
  /\ UNCHANGED <<accounts, cookie, request, open>>

TxCommit(r) ==
  /\ pc[r] = "commit"
  /\ users' = users \cup {Email(r)}
  /\ link' = [link EXCEPT ![provider[r]][profile[r].id] = Email(r)]
  /\ account' = [account EXCEPT ![r] = Email(r)]
  /\ created' = [created EXCEPT ![r] = FALSE]
  /\ Goto(r, "issue")
  /\ UNCHANGED <<local, locked, cookie, who, provider, profile, open>>

\* issueTokenPair, the audit record, and the cookies: the person is in.
Issue(r) ==
  /\ pc[r] = "issue"
  /\ Goto(r, "in")
  /\ UNCHANGED <<accounts, cookie, request, open>>

\* A statement fails, or the transaction times out and is rolled back.
DbError(r) ==
  /\ pc[r] \in {"lookup", "issue"} \cup InTx
  /\ Goto(r, "error")
  /\ UNCHANGED <<accounts, cookie, request, open>>

Crash ==
  /\ \E r \in Requests : pc[r] \in Running
  /\ pc' = [r \in Requests |-> IF pc[r] \in Running THEN "error" ELSE pc[r]]
  /\ UNCHANGED <<accounts, cookie, request, open>>

-----------------------------------------------------------------------------
(* What else happens to accounts: EmailVerification and Lockout.           *)

SignUp(p) ==
  /\ p \notin users
  /\ ~Inserted(p)
  /\ users' = users \cup {p}
  /\ local' = local \cup {p}
  /\ UNCHANGED <<locked, link, cookie, pc, request, open>>

Lock(p) ==
  /\ p \in local \ locked
  /\ locked' = locked \cup {p}
  /\ UNCHANGED <<users, local, link, cookie, pc, request, open>>

Unlock(p) ==
  /\ p \in locked
  /\ locked' = locked \ {p}
  /\ open' = [r \in Requests |-> open[r] \/ (pc[r] \in Running /\ who[r] = p)]
  /\ UNCHANGED <<users, local, link, cookie, pc, request>>

Next ==
  \/ \E r \in Requests :
       \/ Start(r) \/ Callback(r) \/ Exchange(r) \/ ExchangeFails(r)
       \/ FindLinked(r) \/ FindNothing(r)
       \/ TxFind(r) \/ TxCreateUser(r) \/ TxCreateLink(r) \/ TxCommit(r)
       \/ Issue(r) \/ DbError(r)
  \/ \E p \in People : SignUp(p) \/ Lock(p) \/ Unlock(p)
  \/ Crash

Spec == Init /\ [][Next]_vars

-----------------------------------------------------------------------------
(* Properties.                                                             *)

\* schema.prisma: an OAuthAccount belongs to the id that the provider assigns
\* to the user.  Whoever signs in comes into his own account ...
OwnAccount ==
  \A r \in Requests : pc[r] \in {"issue", "in"} => account[r] = who[r]

\* ... provided that GitHub answered both requests, and whatever unverified
\* addresses the profiles have.
OwnAccountIfKnown ==
  \A r \in Requests :
    pc[r] \in {"issue", "in"} /\ profile[r].id # Unknown => account[r] = who[r]

\* Nobody gets into his account when it was locked all the while since the
\* callback: neither by a link that exists nor by creating one.
LockHolds ==
  \A r \in Requests :
    pc[r] \in {"issue", "in"} /\ account[r] = who[r] => open[r]

\* The account and its link are created together: there is never an account
\* without a password that nobody can sign in to.
OAuthUsersLinked ==
  \A p \in users \ local : \E v \in Providers, i \in Ids : link[v][i] = p
=============================================================================
