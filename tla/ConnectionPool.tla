--------------------------- MODULE ConnectionPool ---------------------------
(***************************************************************************)
(* The requests of the server and the database connections they share.     *)
(*                                                                         *)
(* A refresh runs two lookups and then a transaction, which keeps its      *)
(* connection while audit.log waits for a second one.  A sign-up looks the *)
(* address up, creates the user, waits for the mail server and is          *)
(* recorded.  A request with a single statement, as GET /users/me or GET   *)
(* /health/ready, is one that has its answer at the lookup.                *)
(*                                                                         *)
(* PrismaService bounds the pool, the wait for a connection and the        *)
(* transaction; the pool and its timers are those of pg and of Prisma.     *)
(***************************************************************************)
EXTENDS Naturals, FiniteSets

CONSTANTS Requests,   \* HTTP requests: numbers, each kind in its order of arrival
          Refreshes,  \* those of them that are POST /auth/refresh
          PoolMax     \* DB_POOL_MAX

ASSUME PoolAssumption ==
  /\ Requests \subseteq Nat /\ IsFiniteSet(Requests)
  /\ Refreshes \subseteq Requests
  /\ PoolMax \in Nat \ {0}

VARIABLES
  pc,      \* pc[r]: what the handler of request r is at
  want,    \* requests in the queue of the pool
  stmt,    \* requests that hold a connection for one statement
  open,    \* refreshes whose transaction is open and holds a connection
  gone,    \* pending requests whose client has closed its connection
  ending   \* $disconnect has been called

pool     == <<want, stmt, open>>
poolVars == <<pc, pool, gone, ending>>

Stages == {"lookup", "user", "begin", "exchange", "audit", "commit", "outbound"}

TypeOK ==
  /\ pc \in [Requests -> Stages \cup {"new", "ended"}]
  /\ want \subseteq Requests
  /\ stmt \subseteq Requests
  /\ open \subseteq Refreshes
  /\ gone \subseteq Requests
  /\ ending \in BOOLEAN

Init ==
  /\ pc = [r \in Requests |-> "new"]
  /\ want = {} /\ stmt = {} /\ open = {}
  /\ gone = {}
  /\ ending = FALSE

Pending == {r \in Requests : pc[r] \in Stages}

\* The clients that still wait for their answer: the connections that
\* server.close waits for.
Waiting == Pending \ gone

InUse == Cardinality(stmt) + Cardinality(open)

-----------------------------------------------------------------------------
Goto(r, stage) ==
  /\ pc' = [pc EXCEPT ![r] = stage]
  /\ UNCHANGED gone

\* The request is answered, whatever the answer.
End(r) ==
  /\ pc' = [pc EXCEPT ![r] = "ended"]
  /\ gone' = gone \ {r}

Accept(r) ==
  /\ pc[r] = "new"
  /\ \A q \in Requests : q < r /\ (q \in Refreshes <=> r \in Refreshes) => pc[q] # "new"
  /\ Goto(r, "lookup")
  /\ want' = want \cup {r}
  /\ UNCHANGED <<stmt, open, ending>>

\* fetchWithTimeout gives up after 10 s and the proxy after 30 s, or the page
\* is left.  The handler is not told.
GiveUp(r) ==
  /\ r \in Waiting
  /\ gone' = gone \cup {r}
  /\ UNCHANGED <<pc, pool, ending>>

\* The pool has a connection for a request that waits for one.
Connect(r) ==
  /\ r \in want
  /\ ~ending
  /\ InUse < PoolMax
  /\ want' = want \ {r}
  /\ IF pc[r] = "begin"
     THEN open' = open \cup {r} /\ Goto(r, "exchange") /\ UNCHANGED stmt
     ELSE stmt' = stmt \cup {r} /\ UNCHANGED <<open, pc, gone>>
  /\ UNCHANGED ending

\* Release of the connection of a statement.
Release(r) ==
  /\ r \in stmt
  /\ stmt' = stmt \ {r}
  /\ UNCHANGED <<open, ending>>

\* The lookup of a token or an address is done; then that of the token's user,
\* or the insert of the new user.  Then the refresh begins its transaction, and
\* the sign-up sends its mail, which nothing bounds the time of.
Lookup(r) ==
  /\ pc[r] = "lookup"
  /\ Release(r)
  /\ want' = want \cup {r}
  /\ Goto(r, "user")

User(r) ==
  /\ pc[r] = "user"
  /\ Release(r)
  /\ IF r \in Refreshes
     THEN want' = want \cup {r} /\ Goto(r, "begin")
     ELSE Goto(r, "outbound") /\ UNCHANGED want

\* The handler has its answer already: the token or its user is not there, the
\* address is taken, or the one statement was all the request needed.
AnswerEarly(r) ==
  /\ pc[r] \in {"lookup", "user"}
  /\ Release(r)
  /\ End(r)
  /\ UNCHANGED want

\* The mail is sent, or refused; the sign-up is recorded.
MailSent(r) ==
  /\ pc[r] = "outbound"
  /\ Goto(r, "audit")
  /\ want' = want \cup {r}
  /\ UNCHANGED <<stmt, open, ending>>

\* The old token is revoked and the new one created, in the transaction, and
\* audit.log asks for a connection of its own.
Exchange(r) ==
  /\ pc[r] = "exchange"
  /\ r \in open
  /\ Goto(r, "audit")
  /\ want' = want \cup {r}
  /\ UNCHANGED <<stmt, open, ending>>

\* Mutant: who loses the race leaves the transaction as it is.
ExchangeLostOpen(r) ==
  /\ pc[r] = "exchange"
  /\ End(r)
  /\ UNCHANGED <<pool, ending>>

\* Another exchange of the token was first, or a statement fails, or the
\* transaction is over: the callback throws and Prisma rolls back.
ExchangeLost(r) ==
  /\ pc[r] = "exchange"
  /\ open' = open \ {r}
  /\ End(r)
  /\ UNCHANGED <<want, stmt, ending>>

\* What follows audit.log, which swallows its errors.
Recorded(r) == IF r \in Refreshes THEN Goto(r, "commit") ELSE End(r)

Audit(r) ==
  /\ pc[r] = "audit"
  /\ Release(r)
  /\ Recorded(r)
  /\ UNCHANGED want

\* The callback returns; Prisma commits, or throws if the transaction is over.
Commit(r) ==
  /\ pc[r] = "commit"
  /\ open' = open \ {r}
  /\ End(r)
  /\ UNCHANGED <<want, stmt, ending>>

\* A statement throws: audit.log goes on, everyone else answers with the error.
Throw(r) == IF pc[r] = "audit" THEN Recorded(r) ELSE End(r)

\* A statement fails, or passes statement_timeout.
StatementFails(r) ==
  /\ Release(r)
  /\ Throw(r)
  /\ UNCHANGED want

\* Mutant: the record waits for its connection as long as it takes.
ConnectTimeoutUnlessAudit(r) ==
  /\ r \in want
  /\ pc[r] # "audit"
  /\ want' = want \ {r}
  /\ End(r)
  /\ UNCHANGED <<stmt, open, ending>>

\* connectionTimeoutMillis, or for a transaction maxWait, or the pool has been
\* closed.
ConnectTimeout(r) ==
  /\ r \in want
  /\ want' = want \ {r}
  /\ Throw(r)
  /\ UNCHANGED <<stmt, open, ending>>

\* transactionOptions.timeout: Prisma rolls back, behind the handler's back.
TxTimeout(r) ==
  /\ r \in open
  /\ open' = open \ {r}
  /\ UNCHANGED <<pc, want, stmt, gone, ending>>

\* $disconnect cancels the transactions and closes the pool, which waits for
\* the statements that are running.
Disconnect ==
  /\ ending' = TRUE
  /\ open' = {}
  /\ UNCHANGED <<pc, want, stmt, gone>>

Disconnected == ending /\ stmt = {}

-----------------------------------------------------------------------------
\* A handler goes on when its statement is done, or has failed.
Handling(r) ==
  \/ Lookup(r) \/ User(r) \/ AnswerEarly(r)
  \/ Exchange(r) \/ ExchangeLost(r) \/ Audit(r) \/ Commit(r)
  \/ StatementFails(r)

Next ==
  \E r \in Requests :
    \/ Accept(r) \/ GiveUp(r) \/ Connect(r)
    \/ Handling(r) \/ MailSent(r)
    \/ ConnectTimeout(r) \/ TxTimeout(r)

Spec == Init /\ [][Next]_poolVars

-----------------------------------------------------------------------------
(* Properties.                                                             *)

\* The pool never has more connections than PrismaService allows, and those in
\* use are in the hands of handlers that run: none is kept by a handler that
\* has ended, thrown or lost its transaction.
PoolAccounted ==
  /\ InUse <= PoolMax
  /\ want \cup stmt \cup gone \subseteq Pending
  /\ want \cap stmt = {}
  /\ \A r \in open : pc[r] \in {"exchange", "audit", "commit"}
=============================================================================
