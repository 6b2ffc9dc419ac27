---------------------------- MODULE RefreshTokens ----------------------------
(***************************************************************************)
(* The life of refresh tokens in AuthService: issued by a login, rotated   *)
(* by refresh, revoked by logout, deleted by the nightly cleanup.          *)
(*                                                                         *)
(* Every handler runs as a separate request, and other requests may run    *)
(* between any two of its awaits, so each await is a step of its own.      *)
(* PostgreSQL runs at READ COMMITTED: the refresh transaction locks the    *)
(* row it revokes, other statements on that row wait, and nothing it wrote *)
(* is visible before it commits.  Prisma aborts the transaction after its  *)
(* timeout while the handler goes on, unaware, to its next database call.  *)
(* The server process may crash and restart at any moment.                 *)
(***************************************************************************)
CONSTANTS Requests,   \* HTTP requests; each one is served at most once
          Tokens,     \* raw refresh tokens, 64 random bytes: never drawn twice
          None        \* no token, no session

ASSUME NoneAssumption == None \notin Requests \cup Tokens

VARIABLES
  row,       \* row[t]: the committed state of t in table RefreshToken
  session,   \* session[t]: the login that started the chain t belongs to
  expired,   \* tokens whose expiresAt has passed
  op,        \* op[r]: the endpoint request r called
  pc,        \* pc[r]: the await request r has reached, or its outcome
  tok,       \* tok[r]: the token in the request's cookie
  new,       \* new[r]: the token request r has created
  tx,        \* tx[r]: the request's interactive transaction
  stale      \* stale[r]: tok[r] was unusable when r arrived (history)

db      == <<row, session, expired>>
request == <<op, tok, stale>>
vars    == <<db, request, pc, new, tx>>

Final    == {"ok", "unauthorized", "error", "lost"}
InFlight == {"find", "revoke", "create", "audit", "commit", "update", "store"}

TypeOK ==
  /\ row \in [Tokens -> {"unissued", "active", "revoked", "deleted"}]
  /\ session \in [Tokens -> Requests \cup {None}]
  /\ expired \in SUBSET Tokens
  /\ op \in [Requests -> {"none", "login", "refresh", "logout"}]
  /\ pc \in [Requests -> {"idle"} \cup InFlight \cup Final]
  /\ tok \in [Requests -> Tokens \cup {None}]
  /\ new \in [Requests -> Tokens \cup {None}]
  /\ tx \in [Requests -> {"none", "open", "aborted"}]
  /\ stale \in [Requests -> BOOLEAN]

Init ==
  /\ row = [t \in Tokens |-> "unissued"]
  /\ session = [t \in Tokens |-> None]
  /\ expired = {}
  /\ op = [r \in Requests |-> "none"]
  /\ pc = [r \in Requests |-> "idle"]
  /\ tok = [r \in Requests |-> None]
  /\ new = [r \in Requests |-> None]
  /\ tx = [r \in Requests |-> "none"]
  /\ stale = [r \in Requests |-> FALSE]

-----------------------------------------------------------------------------
(* Helpers.                                                                *)

\* A token nobody has drawn yet: randomBytes(64).
Fresh(t) == row[t] = "unissued" /\ \A q \in Requests : new[q] # t

\* Tokens that reached a browser: the answer that carried them arrived.
Held == {t \in Tokens : \E q \in Requests : pc[q] = "ok" /\ new[q] = t}

\* An uncommitted transaction has revoked t and so holds its row lock.
Locked(t) == \E q \in Requests : tx[q] = "open" /\ tok[q] = t

\* Mutant: the lookup forgets expiresAt.
findIgnoringExpiry(t, activeOnly) ==
  /\ row[t] \in {"active", "revoked"}
  /\ activeOnly => row[t] = "active"

\* The lookup by tokenId, then the checks; the secret of a held token matches.
findMatchingRefreshToken(t, activeOnly) ==
  /\ row[t] \in {"active", "revoked"}
  /\ activeOnly => row[t] = "active" /\ t \notin expired

Goto(r, l) == pc' = [pc EXCEPT ![r] = l]

\* The handler returns; a client timeout or a broken connection may still
\* lose the answer.
Answer(r) == \E outcome \in {"ok", "lost"} : Goto(r, outcome)

\* A request arrives for endpoint o with token t in its cookie.
Arrive(r, o, t, first) ==
  /\ pc[r] = "idle"
  /\ op' = [op EXCEPT ![r] = o]
  /\ tok' = [tok EXCEPT ![r] = t]
  /\ stale' = [stale EXCEPT ![r] =
                 t # None /\ (row[t] # "active" \/ t \in expired)]
  /\ Goto(r, first)
  /\ UNCHANGED <<db, new, tx>>

-----------------------------------------------------------------------------
(* login, and the OAuth callbacks: past the credential checks they store   *)
(* the session's first token outside any transaction.                      *)

Login(r) == Arrive(r, "login", None, "store")

storeRefreshToken(r) ==
  /\ pc[r] = "store"
  /\ \E t \in Tokens :
       /\ Fresh(t)
       /\ row' = [row EXCEPT ![t] = "active"]
       /\ session' = [session EXCEPT ![t] = r]
       /\ new' = [new EXCEPT ![r] = t]
  /\ Goto(r, "audit")
  /\ UNCHANGED <<expired, request, tx>>

-----------------------------------------------------------------------------
(* refresh.                                                                *)

Refresh(r) == \E t \in Held : Arrive(r, "refresh", t, "find")

RefreshFind(r) ==
  /\ pc[r] = "find"
  /\ op[r] = "refresh"
  /\ Goto(r, IF findMatchingRefreshToken(tok[r], TRUE)
             THEN "revoke" ELSE "unauthorized")
  /\ UNCHANGED <<db, request, new, tx>>

\* Mutant: updateMany without revoked: false.
RevokeUnconditionally(r) ==
  /\ pc[r] = "revoke"
  /\ ~Locked(tok[r])
  /\ row[tok[r]] # "deleted"
  /\ tx' = [tx EXCEPT ![r] = "open"]
  /\ Goto(r, "create")
  /\ UNCHANGED <<db, request, new>>

\* updateMany ... WHERE revoked = false: one row changed, lock held.
RevokeWon(r) ==
  /\ pc[r] = "revoke"
  /\ ~Locked(tok[r])
  /\ row[tok[r]] = "active"
  /\ tx' = [tx EXCEPT ![r] = "open"]
  /\ Goto(r, "create")
  /\ UNCHANGED <<db, request, new>>

\* The same statement finds the row revoked or gone: count = 0, roll back.
RevokeLost(r) ==
  /\ pc[r] = "revoke"
  /\ ~Locked(tok[r])
  /\ row[tok[r]] # "active"
  /\ Goto(r, "unauthorized")
  /\ UNCHANGED <<db, request, new, tx>>

\* Mutant: issueTokenPair(this.prisma, user), committed on its own at once.
CreateOutsideTx(r) ==
  /\ pc[r] = "create"
  /\ \E t \in Tokens :
       /\ Fresh(t)
       /\ new' = [new EXCEPT ![r] = t]
       /\ row' = [row EXCEPT ![t] = "active"]
       /\ session' = [session EXCEPT ![t] = session[tok[r]]]
  /\ Goto(r, "audit")
  /\ UNCHANGED <<expired, request, tx>>

\* issueTokenPair(tx, user): the new row is created inside the transaction;
\* if that was aborted meanwhile, the call throws.
CreateInTx(r) ==
  /\ pc[r] = "create"
  /\ \/ /\ tx[r] = "open"
        /\ \E t \in Tokens : Fresh(t) /\ new' = [new EXCEPT ![r] = t]
        /\ Goto(r, "audit")
        /\ UNCHANGED tx
     \/ /\ tx[r] = "aborted"
        /\ tx' = [tx EXCEPT ![r] = "none"]
        /\ Goto(r, "error")
        /\ UNCHANGED new
  /\ UNCHANGED <<db, request>>

\* Mutant: the new row is created, the old one stays active.
CommitKeepingOld(r) ==
  /\ pc[r] = "commit"
  /\ tx[r] = "open"
  /\ row' = [row EXCEPT ![new[r]] = "active"]
  /\ session' = [session EXCEPT ![new[r]] = session[tok[r]]]
  /\ tx' = [tx EXCEPT ![r] = "none"]
  /\ Answer(r)
  /\ UNCHANGED <<expired, request, new>>

\* Mutant: the new row is attributed to the old token, not to its owner.
CommitMisattributed(r) ==
  /\ pc[r] = "commit"
  /\ tx[r] = "open"
  /\ row' = [row EXCEPT ![tok[r]] = "revoked", ![new[r]] = "active"]
  /\ session' = [session EXCEPT ![new[r]] = tok[r]]
  /\ tx' = [tx EXCEPT ![r] = "none"]
  /\ Answer(r)
  /\ UNCHANGED <<expired, request, new>>

\* The callback returns and Prisma commits: both rows change at once.
Commit(r) ==
  /\ pc[r] = "commit"
  /\ tx[r] = "open"
  /\ row' = [row EXCEPT ![tok[r]] = "revoked", ![new[r]] = "active"]
  /\ session' = [session EXCEPT ![new[r]] = session[tok[r]]]
  /\ tx' = [tx EXCEPT ![r] = "none"]
  /\ Answer(r)
  /\ UNCHANGED <<expired, request, new>>

\* Mutant: the error of the commit is swallowed.
CommitErrorSwallowed(r) ==
  /\ pc[r] = "commit"
  /\ tx[r] = "aborted"
  /\ tx' = [tx EXCEPT ![r] = "none"]
  /\ Answer(r)
  /\ UNCHANGED <<db, request, new>>

\* The commit of an aborted transaction is refused.
CommitRefused(r) ==
  /\ pc[r] = "commit"
  /\ tx[r] = "aborted"
  /\ tx' = [tx EXCEPT ![r] = "none"]
  /\ Goto(r, "error")
  /\ UNCHANGED <<db, request, new>>

\* The transaction exceeds its timeout, or its connection fails: the
\* database undoes it and frees the lock; the handler has not noticed.
TxAbort(r) ==
  /\ tx[r] = "open"
  /\ tx' = [tx EXCEPT ![r] = "aborted"]
  /\ new' = [new EXCEPT ![r] = None]
  /\ UNCHANGED <<db, request, pc>>

-----------------------------------------------------------------------------
(* logout.                                                                 *)

Logout(r) == \E t \in Held : Arrive(r, "logout", t, "find")

\* Mutant: the lookup keeps its default activeOnly = true.
LogoutFindActiveOnly(r) ==
  /\ pc[r] = "find"
  /\ op[r] = "logout"
  /\ IF findMatchingRefreshToken(tok[r], TRUE)
       THEN Goto(r, "update") ELSE Answer(r)
  /\ UNCHANGED <<db, request, new, tx>>

\* activeOnly = false: an expired token is revoked too; an unknown one is
\* silently accepted.
LogoutFind(r) ==
  /\ pc[r] = "find"
  /\ op[r] = "logout"
  /\ IF findMatchingRefreshToken(tok[r], FALSE)
       THEN Goto(r, "update") ELSE Answer(r)
  /\ UNCHANGED <<db, request, new, tx>>

\* Mutant: the update is retried until the row is there.
LogoutUpdateRetrying(r) ==
  /\ pc[r] = "update"
  /\ ~Locked(tok[r])
  /\ row[tok[r]] # "deleted"
  /\ row' = [row EXCEPT ![tok[r]] = "revoked"]
  /\ Goto(r, "audit")
  /\ UNCHANGED <<session, expired, request, new, tx>>

\* update ... WHERE id: throws P2025 if the row was deleted meanwhile.
LogoutUpdate(r) ==
  /\ pc[r] = "update"
  /\ ~Locked(tok[r])
  /\ \/ /\ row[tok[r]] # "deleted"
        /\ row' = [row EXCEPT ![tok[r]] = "revoked"]
        /\ Goto(r, "audit")
     \/ /\ row[tok[r]] = "deleted"
        /\ Goto(r, "error")
        /\ UNCHANGED row
  /\ UNCHANGED <<session, expired, request, new, tx>>

-----------------------------------------------------------------------------
(* Steps common to the handlers, and the rest of the world.                *)

\* audit.log writes on a connection of its own, outside the transaction,
\* and swallows its failure; no handler reads the record.
AuditLog(r) ==
  /\ pc[r] = "audit"
  /\ IF op[r] = "refresh" THEN Goto(r, "commit") ELSE Answer(r)
  /\ UNCHANGED <<db, request, new, tx>>

\* A statement outside a transaction fails: the handler throws.
DbError(r) ==
  /\ pc[r] \in {"find", "revoke", "update", "store"}
  /\ Goto(r, "error")
  /\ UNCHANGED <<db, request, new, tx>>

\* Mutant: only expired rows are deleted.
cleanupExpiredOnly ==
  LET old == {t \in expired : row[t] = "active"}
  IN  /\ old # {}
      /\ \A t \in old : ~Locked(t)
      /\ row' = [t \in Tokens |-> IF t \in old THEN "deleted" ELSE row[t]]
      /\ UNCHANGED <<session, expired, request, pc, new, tx>>

\* deleteMany: one statement, which waits for the locks of the rows it wants.
cleanupOldTokens ==
  LET old == {t \in Tokens : \/ row[t] = "revoked"
                             \/ row[t] = "active" /\ t \in expired}
  IN  /\ old # {}
      /\ \A t \in old : ~Locked(t)
      /\ row' = [t \in Tokens |-> IF t \in old THEN "deleted" ELSE row[t]]
      /\ UNCHANGED <<session, expired, request, pc, new, tx>>

\* expiresAt passes.
Expire(t) ==
  /\ row[t] = "active"
  /\ t \notin expired
  /\ expired' = expired \cup {t}
  /\ UNCHANGED <<row, session, request, pc, new, tx>>

\* The process dies: requests in flight get no answer, open transactions
\* roll back.
Crash ==
  /\ \E r \in Requests : pc[r] \in InFlight
  /\ pc' = [r \in Requests |-> IF pc[r] \in InFlight THEN "lost" ELSE pc[r]]
  /\ new' = [r \in Requests |-> IF tx[r] = "open" THEN None ELSE new[r]]
  /\ tx' = [r \in Requests |-> "none"]
  /\ UNCHANGED <<db, request>>

\* What the event loop and the database do for a request in flight.
Step(r) ==
  \/ storeRefreshToken(r)
  \/ RefreshFind(r) \/ RevokeWon(r) \/ RevokeLost(r)
  \/ CreateInTx(r) \/ Commit(r) \/ CommitRefused(r)
  \/ LogoutFind(r) \/ LogoutUpdate(r)
  \/ AuditLog(r)

Next ==
  \/ \E r \in Requests : Login(r) \/ Refresh(r) \/ Logout(r)
  \/ \E r \in Requests : Step(r) \/ TxAbort(r) \/ DbError(r)
  \/ \E t \in Tokens : Expire(t)
  \/ cleanupOldTokens
  \/ Crash

Spec == Init /\ [][Next]_vars

\* The event loop resumes every handler whose await has settled, and the
\* cron job runs every night.  Nothing forces clients, clocks or failures.
Fairness == WF_vars(cleanupOldTokens) /\ \A r \in Requests : WF_vars(Step(r))

FairSpec == Spec /\ Fairness

-----------------------------------------------------------------------------
(* Properties.                                                             *)

\* Refresh request r has exchanged its token: its transaction committed.
Rotated(r) == op[r] = "refresh" /\ new[r] # None /\ tx[r] = "none"

\* A refresh token is exchanged at most once, however many requests present
\* it at the same time and wherever their transactions abort or the server
\* restarts (the conditional updateMany in refresh).
SingleUse ==
  \A q, r \in Requests : Rotated(q) /\ Rotated(r) /\ tok[q] = tok[r] => q = r

\* The tokens descended from one login never include two that are unrevoked:
\* revoking the old row and creating the new one is one transaction.
OneLivePerSession ==
  \A t, u \in Tokens :
    row[t] = "active" /\ row[u] = "active" /\ session[t] = session[u] => t = u

\* A token that died without being exchanged (by logout, or by the cleanup
\* after it expired) leaves its session with no usable token at all.  So the
\* only way a session outlives the logout of its token is a refresh of that
\* very token that committed before the logout's update.
SessionEndsWithToken ==
  \A t, u \in Tokens :
    /\ row[t] \in {"revoked", "deleted"}
    /\ row[u] = "active"
    /\ session[t] = session[u]
    => \E q \in Requests : Rotated(q) /\ tok[q] = t

\* A refresh that arrived when its token was already revoked, deleted or
\* expired never obtains a new one.  (A token that expires after the lookup
\* may still be exchanged: the transaction does not look at expiresAt again.)
StaleNeverRotates ==
  \A r \in Requests : op[r] = "refresh" /\ stale[r] => new[r] = None

\* The answer tells the truth: 200 means the exchange is committed, an error
\* means it never happened and the presented token was not spent on it.
AnswerTruthful ==
  \A r \in Requests : op[r] = "refresh" =>
    /\ pc[r] = "ok" => Rotated(r)
    /\ pc[r] \in {"unauthorized", "error"} => new[r] = None /\ tx[r] = "none"

\* Once logout has answered 200, the token it was given is dead, whether it
\* was active, expired, already exchanged or already deleted by the cleanup.
LogoutSticks ==
  \A r \in Requests :
    op[r] = "logout" /\ pc[r] = "ok" => row[tok[r]] \in {"revoked", "deleted"}

\* Every request that arrives is answered, or lost with the process: no
\* handler waits for ever for a row lock.
EveryRequestEnds ==
  \A r \in Requests : pc[r] \in InFlight ~> pc[r] \in Final

\* Revoked rows do not pile up: the nightly job deletes each of them.
RevokedRowsGo ==
  \A t \in Tokens : row[t] = "revoked" ~> row[t] = "deleted"

\* The tables implement the abstract session rotation.
LiveTokens(s) == {t \in Tokens : row[t] = "active" /\ session[t] = s}

SR == INSTANCE SessionRotation WITH
        Sessions <- Requests,
        live     <- [s \in Requests |-> LiveTokens(s)],
        opened   <- {s \in Requests : \E t \in Tokens : session[t] = s},
        used     <- {t \in Tokens : row[t] # "unissued"}

Rotation == SR!Spec
=============================================================================
