# secure-login-demo in TLA+

TLA+ specifications, TLC models and TLAPS proofs for the authentication
system in this repository: a NestJS API over PostgreSQL and Redis, and its
React client. The modules are translated from the source; `PROJECT.json` maps
each definition to the lines it stands for.

## The system

| Component | State | Operations | Hard parts |
|---|---|---|---|
| Refresh-token sessions (`auth.service.ts`, `tokencleanup.service.ts`) | table `RefreshToken` | login issues, refresh rotates in an interactive transaction, logout revokes, a nightly job deletes | concurrent use of one token, transaction timeouts, deletion between two awaits, crashes, lost answers |
| Account lockout (`login`, `handleFailedLogin`) | three columns of `User` | read, bcrypt, write back | lost updates: the row is read long before it is written |
| Signup and email verification (`signUp`, `email-verification.service.ts`) | `User.emailVerified`, key `verify:<id>` in Redis | sign up, mail, click | two stores without a transaction, check-then-create, check-then-delete |
| OAuth sign-in (`handleOAuthLogin`, `github-oauth.service.ts`, `google-oidc.service.ts`) | `User`, `OAuthAccount`, a state cookie | start, callback, link or create | concurrent callbacks, overwritten cookies |
| API client (`frontend/src/lib/api.ts`) | `isRefreshing`, `refreshPromise`, `refreshSubscribers` | fetch, refresh once, notify, retry | callbacks in any order, several tabs on one cookie jar |
| Audit log | table `AuditLog` | insert on a connection of its own, errors swallowed | written before the transaction it reports commits |
| Connection pool (`prisma.service.ts`) | at most 20 connections | acquire, release, time out | a transaction that needs a second connection |
| Rate limiting (`redis-throttler-storage.service.ts`, `app.module.ts`) | a counter with expiry per key | increment | expiry renewed on each hit |
| Startup and shutdown (`main.ts`, `keyvault.ts`) | server, timer | bootstrap, SIGTERM, SIGINT | crashes half way, requests pending, a second signal |
| Seeding (`prisma/seed.ts`) | the administrator's `User` row | look up, create | a crash in between, an address that is taken |
| Pages (`App.tsx`, `LoginPage.tsx`, `SignupPage.tsx`, `ProfilePage.tsx`, `HomePage.tsx`) | what is shown, `loading` | mount, submit, log out, navigate | calls that outlive the page that made them |
| Access tokens and roles | none (signed token) | verify | none: no code changes a role |

The components meet in the database (login and OAuth issue the tokens that
refresh and logout use; login and OAuth read the lock that login sets; login
requires the flag that verification sets) and in the browser's cookies (the
API client presents whatever token the jar holds when it sends). Every request
takes its connections from the one pool, the server's life begins and ends
them, and the pages make the calls of the API client.

For each of them, what makes it correct:

- *sessions*: a token is exchanged once; a session has one live token; the
  exchange is atomic; logout and expiry are final; the answer is truthful;
- *lockout*: three failures lock, only three failures lock, the lock lasts;
- *verification*: one account per address, a link works once, and "verified" is
  true;
- *OAuth*: one identity, one user; a locked account stays locked by any door;
- *API client*: one refresh at a time, every waiting call is resumed, each
  call is sent at most twice, a live session is not given up;
- *pool*: the bound is kept, every connection comes back, nobody waits for
  ever;
- *startup, seeding, shutdown*: the seed is neither skipped nor repeated, a
  signal ends the process and cuts no client off;
- *pages*: nothing loads or submits for ever, and what is shown is true.

`PROJECT.json` lists under `hazards` what can go wrong in this code and a test
would hardly reach, each at its line, with the properties that watch it.

## Modules

| Module | What it is |
|---|---|
| `SessionRotation` | what the refresh-token tables promise, with no requests or failures in sight |
| `RefreshTokens` | login, refresh, logout and cleanup, await by await; implements `SessionRotation` |
| `RefreshTokensProofs` | its invariants and the refinement, proved |
| `Lockout` | the lock of one account: login, handleFailedLogin, the OAuth lock check |
| `LockoutProofs` | its safety and the form's, proved |
| `EmailVerification` | signups for one address, clicks on its link, and OAuth callbacks that want the address |
| `EmailVerificationProofs` | its safety, proved |
| `FetchWithAuth` | the API client in several tabs on one cookie jar; its server is `SessionRotation` |
| `FetchWithAuthProofs` | its safety, proved |
| `Pages` | the pages on the API client, extends `FetchWithAuth` |
| `PagesProofs` | its safety, proved |
| `LoginForm` | the login form: posts through `fetchWithAuth`, extends `Lockout` |
| `OAuthLogin` | redirect, callback, profile, and the account found, linked or created |
| `OAuthLoginProofs` | its safety, proved |
| `ConnectionPool` | the requests of the server and the connections they share |
| `Server` | bootstrap with the seed, requests, `gracefulShutdown`; extends `ConnectionPool` |
| `ServerProofs` | the safety of both, proved |
| `Throttler` | the storage of the rate limits, and the guard that asks it |
| `ThrottlerProofs` | what its count is worth, proved |
| `MC*` | symmetry sets for TLC |

The rows of one table live in several modules. Each module keeps of the others'
rows what its own properties need: `Lockout` has one verified account,
`EmailVerification` one address, `OAuthLogin` every account but one step for a
sign-up, `RefreshTokens` the tokens of accounts that exist. The compositions
are those whose interleavings matter: the API client over the session store,
the form over the lock, the pages over the API client, the two doors to one
address, and requests, pool and server life.

### RefreshTokens

A request is one run of a handler. `pc[r]` names the await it has reached, and
every await is a step, because Node runs other handlers there. `row[t]` is the
committed state of a token's row, `tok[r]` the token in the request's cookie,
`new[r]` the token it created, `tx[r]` its interactive transaction.

- A transaction's writes show when it commits: `RevokeWon` only takes the row
  lock, `Commit` changes both rows. Statements on a locked row wait (guard
  `~Locked`), and look at the row again when they get it, as PostgreSQL does
  at READ COMMITTED: `updateMany ... revoked: false` then finds nothing
  (`RevokeLost`).
- `TxAbort` is Prisma's 10 s timeout or a failed statement. The handler does
  not notice: its next call in the transaction throws (`CreateInTx`,
  `CommitRefused`), but the audit record in between is written on another
  connection all the same.
- `DbError` is the failure of a statement outside a transaction. `Answer` may
  lose the answer. `Crash` takes all requests in flight, and rolls open
  transactions back.
- Cookies carry tokens that some answer delivered (`Held`), of any age.

Left out: a request without a cookie (it reaches no table); the lookup of the
user in refresh (the code never deletes users, so it finds one; it is merged
with the token lookup, and can fail like it); collisions of 64 random bytes;
the credential checks before a login stores its token (they are `Lockout`'s);
the loss of a connection between the server applying a commit and
acknowledging it. The cleanup statement takes effect at one point, when no row
it wants is locked.

`session[t]` is the login that started the chain `t` belongs to; `stale[r]`
records history for the properties.

### Lockout

One local account with a verified address. `user` is the row, `copy[r]` the
row as the request read it and then the row it is going to write, which is the
whole point: `handleFailedLogin` computes the new counters from the copy.
Timestamps are ticks; 0 is null. `Window` stands for the minute, `LockTime`
for the 15 minutes, and all that is assumed of them is `Window < LockTime`.
The audit record and the delay of 100 or 300 ms before the answer are one step
(`Refuse`). An OAuth sign-in reads the lock and writes no counter.
`verdict`, `at` and `overlap` are history.

### EmailVerification

One address. `account` is its row, `key` its token in Redis: `burnt` after
verifyToken's DEL, `expired` when 24 hours or an eviction (the production
Redis runs with `allkeys-lru`) took it. A failure of either store makes signUp
throw and makes verifyEmail redirect to the error page. The secret in the link
is the right one; links with a wrong secret, or no token, change nothing and
are left out, and so is the password check at the top of signUp.

`Callbacks` are the transactions of handleOAuthLogin for a provider that vouches
for the address: they look the address up in the transaction, and create the
user verified. An insert that is not committed makes the other insert wait
(`Inserted`), and one of them then loses to the unique index. `OAuthLogin` has
what comes before and after the transaction, and many addresses.

### FetchWithAuth

A call `c` is one run of `fetchWithAuth` by a page in tab `tab[c]`; `pc[c]` says whether its own
request (`call`) or the refresh it leads (`refresh`) is on the wire, or it is on
its tab's list (`waiting`). `isRefreshing` and `subscribers` are the module's
variables, one copy per tab; `refreshPromise` is set exactly when
`isRefreshing` is. What a settled refresh does (`Settle`: reset the flag, notify,
retry) runs in the microtasks of one event, so it is one step.

The server's steps on tokens are those of `SessionRotation`, which
`RefreshTokens` is shown to implement: sign-in opens a session, refresh rotates
it, and logout or the expiry of the refresh token closes it. A token stands for
the pair that was issued with it: `fresh` holds those whose access token is
valid, and `jar` is what the cookies hold. Time (`Age`) ends an access token
after its 15 minutes (`Expire`), and a session whose refresh token nobody has
exchanged for seven days (`SessionExpires`); the cookie, whose `maxAge` is as
long but counted from the answer, is dropped no earlier (`JarExpires`). The
nightly cleanup deletes only rows that are revoked or expired, which refresh
refuses anyway, so it is no step here. Requests are in flight for seconds: a
session does not expire while one is, because the request fares then as one that
leaves a moment later. Requests carry the jar as it was when they were sent
(`cookie`), answers change it when they arrive (`SetCookies`), and timeouts and
page loads lose them (`Lose`). The calls are fetchMe, login, logout and signup.
A sign-in through OAuth sets the same cookies outside of `fetchWithAuth`; it is
left out.

### Pages

`view[t]` is the page a tab shows, with what RootPage's state makes of it;
`busy[t]` the form's `loading`. A call belongs to the page that is mounted if
`made[c]`: a page that is left does not abort its calls, and their `then` still
runs, but sets the state of nobody. `Reload`, `OpenForm` and the end of a
logout (`window.location.href`) load the document, which aborts everything and
resets the module of the API client; `GoForm`, `GoRoot` and `navigate("/")` do
not. Calls are used again when they have ended, so that three of them suffice
for any history. The user's deeds are bounded by `MaxActs`. VerifyEmailPage and
OAuthButtons are links and make no calls.

### LoginForm

`Lockout` with one form: `Submit` and `Repost` are its `Login`, and the form's
variables say which request answers which submission. The refresh between the
two posts changes nothing here and is not shown. `wrongs` counts the
submissions of a wrong password (history).

### OAuthLogin

A sign-in `r` is one redirect and its callback. The state in the cookie is `r`
itself, the PKCE verifier and the nonce go with it. An account, an address and a
provider id are named after the person they belong to: `profile[r]` may hold
another person's address (unverified) or the id `Unknown`. In the transaction
(`InTx`), an insert waits for an uncommitted one of the same key and then fails
(`conflict`), as PostgreSQL's unique indexes make it. Sign-up, locking and
unlocking are one step each; their details are in the modules above. Profiles
without an address are like unverified ones.

### ConnectionPool

A handler is somewhere in `pc[r]`, waits for a connection (`want`), runs a
statement on one (`stmt`) or holds one in its transaction (`open`). A refresh
holds one and asks for another (`Exchange`); a sign-up holds none while it
waits for the mail server, which nothing bounds. Three clocks matter:
`connectionTimeoutMillis` and `maxWait` (`ConnectTimeout`), the transaction's
timeout (`TxTimeout`, which the handler is not told of) and the client's
(`GiveUp`, likewise). `audit.log` swallows its errors and all others throw
(`Throw`). The other handlers of the code hold connections in one of these two
shapes, or for a single statement (`AnswerEarly`).

### Server

`boot` is how far bootstrap is, `seed` whether this process was told to seed,
`account` the row that the seed looks for. The process may die anywhere (`Die`)
and be started again, with another environment. Each signal runs a
`gracefulShutdown` of its own (`handler[s]`). `ConnectionPool`'s steps leave the
server's variables alone, but for a sign-up with the administrator's address.
What `server.close` and `app.close` do is Node's and Nest's. `server.close` stops new connections and closes those that idle, and waits for
the others; a client that gave up closes its connection, and its handler goes on
unseen. A connection that was active when the server closed may be kept alive
once its request is answered (`kept`), and then bring another request
(`ServerAccept`) or be closed, after 5 s at the latest (`KeepAliveEnds`). The
nginx of the compose files asks the backend for no connection to be kept, but
`docker-compose.yml` publishes the backend's own port as well. A second signal
calls `close` on a server that is closed already; Node registers that callback
for the same end of the last connection, so one step (`Drained`) calls back for
all signals that have come.

The seed looks the address up and then inserts it under the unique index; the
server does not serve meanwhile, so an insert that finds the address taken
stays out of reach, and `SeedCreate` asks for it in its guard.

### Throttler

One client and one route. `counter` is the key with its count and expiry;
`Count` is INCR on a key that has expired. `Guard` is `@nestjs/throttler`'s: it
refuses if the record says `isBlocked`, which the code always answers with
false. `Evict` is the production Redis making room (`allkeys-lru`); a counter may
go like any key. `at`, `passed` and `evicted` are history.

## Runs

| Run | Shows |
|---|---|
| `refresh_safety` | with four requests and three tokens: `SingleUse`, `OneLivePerSession`, `SessionEndsWithToken`, `StaleNeverRotates`, `AnswerTruthful`, `LogoutSticks`, and `Rotation`, the refinement of `SessionRotation` |
| `refresh_liveness` | `EveryRequestEnds` and `RevokedRowsGo` |
| `lockout_safety` | `SerialThreeStrikes` and `NoFalseLock` |
| `lockout_concurrent` | violation: three overlapping failures do not lock |
| `email_safety` | three signups, three clicks, two callbacks: `OneAccount`, `VerifiedLinkDead`, `NotWasted`, `VerifiedTruthful` |
| `fetch_safety` | three calls in one or two tabs: `SingleFlight`, `NoneForgotten`, `AtMostTwoSends`, `SessionKept`, `SilentInOneTab` |
| `pages_live` | one tab: `LoadingEnds`, `SubmitEnds`, `CallsEnd`, and `ShowsSession` |
| `form_three` | violation: two submissions lock the account |
| `oauth_safety` | `OwnAccountIfKnown`, `LockHolds`, `OAuthUsersLinked` |
| `oauth_unknown` | violation: two GitHub users share the id 'unknown' |
| `server_live` | `PoolAccounted`, `Graceful`, `SeededFirst`, `AccountKept`, `Exits`, `EveryRequestEnds` |
| `throttler_limit` | violation: the third request in a window with a limit of two passes |

`email_safety`'s `VerifiedTruthful` says of a click that is answered "verified"
that the account is verified, and that the key was there when the click
arrived. `NotWasted` says that a link which is burnt has verified the account or
is about to, unless PostgreSQL failed or the server stopped between the DEL and
the update (`failed`).

`SessionKept`, `SilentInOneTab` and `ShowsSession` end with the session's seven
days: until then a browser that loses no answer and does not log out keeps its
session, is never told 401 in a single tab, and sees the page that fits. After
them only the second half of `ShowsSession` gives way, for a ProfilePage that
was left open.

A logout that races a refresh of the same token does not always end the
session: if the refresh commits first, the logout revokes a dead row and
answers 200, while the new token lives. `SessionEndsWithToken` says that this
is the only way a session outlives its logout.

Bounds. Four requests and three tokens let a login be followed by two rotations
of its session and a logout that races one of them, or two logins by two
requests; the counterexamples of the mutants need at most four requests.
Liveness uses three requests and as many tokens, so that a token is never
missing (the real supply is endless). In Lockout the window is one tick, the
lock two, and the clock runs to four: the third strike may fall at the first
tick or the third, the fourth attempt inside or after the lock. In
EmailVerification three signups and three clicks are one more than any race
needs, and two callbacks race with each other and with them. In FetchWithAuth
three calls in two tabs make a leader, a subscriber and a second tab that races
them, and in one tab a leader with two subscribers; three tokens in two sessions
allow two rotations, or a sign-in and a rotation. Pages has one tab, because
calls of different tabs do not wait for each other, three calls (a refresh's
leader, a subscriber and what a new page makes), three deeds of the user, and
the same tokens. LoginForm's four requests are two submissions. In OAuthLogin
three sign-ins let two of one person race while another person meets them.
Server has two refreshes on a pool of two, which is the least that fills the
pool with transactions that each want one more connection, and a third request
that is a sign-up or a single statement; two starts let the second find what the
first left half done, and the second of two signals finds the server closed.
Throttler has one request more than the limit.

Fairness. Node resumes each handler whose await has settled and PostgreSQL
grants a lock that is free: weak fairness of each request's steps. The cron
job runs every night: weak fairness of the cleanup. Clients' requests, clocks,
failures and aborts are never forced. In Server the handlers go on, the wait
for a connection is bounded, clients give up (`api.ts` after 10 s, the proxy
after 30 s), connections that idle are closed (Node's 5 s),
`server.close` calls back, and the shutdown ends by itself or by its timer; nothing is assumed of who is given a connection, of the
transaction's timeout or of the mail server. So `EveryRequestEnds` allows a
sign-up to wait for its mail, and `Exits` holds all the same, because its
client does not. `Exits` also rests on there being finitely many requests:
a client that kept one connection busy for ever would put the exit off. In Pages the browser's timer fires and what awaits a settled
promise runs; the server owes nothing. Requests are served at most once, so
the system may stop when all are; deadlock is not checked for that reason, and
`EveryRequestEnds` says what it would have said.

## Discrepancies

Four runs are expected to find a violation; `findings` in `PROJECT.json` gives
the line and the words it disagrees with. Seen while modelling, and not run:

- A login that began before the lock was set writes `lockedUntil` back as it
  read it, or clears it (`auth.service.ts:259` and `:534`), and so ends the
  lock early: `UpdateUser` with an old `copy`.
- A refused refresh (`auth.service.ts:287` and `:313`) and a refusal inside the
  OAuth transaction (`:449`) throw before they reach the audit log.
- An account that was never verified cannot get a new link: signing up again,
  as the pages advise, is answered 409 (`auth.service.ts:136`).
- Two tabs that refresh with one cookie: the server refuses the second, whose
  page then shows the user as signed out although the session is alive
  (`api.ts:94`). Hence `SilentInOneTab`, and not for two.
- Two clicks that both read the token before either deletes it
  (`email-verification.service.ts:37` and `:49`) both succeed, though
  `README.md:86` calls the token one-time. It verifies the account it was meant
  for, and no more.
- The expiry of a rate limit's counter is renewed with every hit
  (`redis-throttler-storage.service.ts:20`), so if the limit were enforced, a
  client that keeps a steady slow pace would be refused for good. The limits of
  `app.module.ts:26` and the controller (100 a minute, 5 on sign-up and
  login) are not the 10 of `README.md:110` either.
- The timer that should force the exit is armed when `server.close` has called
  back (`main.ts:106`), that is when no connection is left. The process exits
  because clients give up, not because of the timer, and a second signal does
  not hasten it.
- `server.close` does not wait for a handler whose client has given up: the
  shutdown takes the database away between two of its statements.
- The seed finds an ordinary user with the administrator's address, says
  "already exists" and leaves it one (`prisma/seed.ts:25`): the server runs
  without an administrator.
- A login that is left in flight, and succeeds when RootPage is mounted
  already, goes unnoticed: `navigate("/")` (`LoginPage.tsx:22`) does not mount it
  again, and it goes on showing HomePage. `ShowsSession` excludes it (`smooth`).
- A ProfilePage that is left open goes on showing the profile after the session
  has expired (`auth.service.ts:68`), until the user does something:
  `ProfilePage.tsx` makes no call. Hence "expired" in `ShowsSession`.
- A refresh token that expires between its check (`auth.service.ts:106`) and the
  transaction is exchanged all the same: `updateMany` (`:301`) asks only that
  it is not revoked.
- A wrong password whose row was read before its owner logged in can still be
  the third strike afterwards (`auth.service.ts:529`), and locks his account.
- An answer with a new refresh token that is lost, or that the client has given
  up after 10 s (`api.ts:18`), ends the session: the browser keeps the old token,
  which is revoked. `SessionKept` excuses it (`lost`).
- If the update that marks the account fails, or the server stops before it,
  the link is burnt and the account unverified
  (`email-verification.service.ts:49`), and there is no other link.
- The timer of `fetchWithTimeout` is cleared when the headers have come
  (`api.ts:32`): a body that stalls (`:115`) is waited for without end. `Pages`
  assumes that an answer which has begun is read to its end.

## Mutants

Every property of a passing run has a mutant: the handler with a plausible bug,
defined next to the original, under which TLC finds the property violated.

## Proofs

`RefreshTokensProofs` proves, for any sets of requests and tokens (only that
`None` is neither), every invariant of `refresh_safety` and the refinement.
None of the properties is inductive. The strengthening has layers: `ControlOK`
says what a program counter implies for the cookie, the new token and the
transaction (TypeOK needs it: `Commit` copies the session of the cookie's
token, which must exist); `RowsOK` says how requests and rows agree. Its heart
is that the token of an open transaction is active and locked by no other,
and that an exchanged token is dead: hence `SingleUse`. `OneLivePerSession`
and `SessionEndsWithToken` are inductive given these. For the refinement,
`storeRefreshToken` is `Open`, `Commit` is `Rotate`, logout and cleanup are
`Close` of the sessions whose active token dies (`DyingCloses`), and all else
stutters.

`LockoutProofs` proves for any attempts and any times with
`Window < LockTime` that the counter never passes three and that nobody is
locked without three strikes. The argument is about every copy of the row in
circulation: each carries its evidence (`Evidence`), the wrong passwords it
counts, and a copy whose counter is three was locked until after its window.

Through the form, three wrong passwords need not be three submissions.
`FormLockTakesTwo` takes the evidence of a lock, three different requests, and
`PostsOK`, by which one wrong submission accounts for two requests at most.

`SerialLocks` follows the row itself, while attempts do not overlap: it knows
(`Knows`) of every refused attempt since the last right password, one failure
within `Window` makes its counter two, two make it lock, and an attempt that got
past the lock check came before the third strike or after the lock
(`LockKept`). The copy that a handler is about to write knows one attempt more.

`FetchWithAuthProofs` is for any tabs, calls, sessions and tokens. `TabsOK` ties
a tab's flag to its only refresh and its list to the calls that wait; `SendsOK`
counts what was sent; `TokensOK` says that a token in an answer is in one answer
only, live, and in nobody else's request. Hence nobody can exchange it before
it is in the jar, and `SessionKept`. `SilentOK` adds what a single tab has while
nothing goes wrong: its refresh carries a live token, so it is not refused.

`PagesProofs` begins with the API client under its pages, in any number of tabs.
Their steps do three things to calls: make one, drop those that have ended,
or, when a document is loaded, drop all of a tab's (`SortedSteps`); each keeps the
client's invariant, and so `ClientUnderPages` has its guarantees again, for
calls that are used any number of times. `PagesShape` says which call a page
waits for and that it is the only one; `FormsOK`, that a form is there until its
call has ended; `JarOK`, that until a session expires the jar is empty or holds a live session,
or one that is being renewed (`Kept`) or ended. `RootPageTruthful` is for one tab. Its invariant
(`RestOK`) is about what each call would let RootPage conclude: a request has
cookies only if the jar has, or the session has expired, and only a dead token is
refused (`CookiesOK`); so what a fetchMe is told is true (`CheckOK`); and when a
login has filled the jar while a refresh is on its way to be refused, that
refusal comes too late to matter, because RootPage has been mounted since
(`LateOK`). While a logout is under way nothing is claimed; it ends by loading
the document. With two tabs the property is false: a page is not told that
another tab has logged out.

`EmailVerificationProofs`: at most one request has created the account or has an
insert pending (`AccountOK`); the key comes after the account and the mail
after the key (`KeyOK`); a click past the deletion leaves no key (`ClicksOK`).
`NotWasted` names the click that owes the mark, and is inductive with these.

`OAuthLoginProofs`: a profile's id is its person's or unknown, and only a
verified profile enters the transaction (`ProfileOK`); whoever is past the check
of the lock was unlocked since the callback (`OpenOK`); links lead to their
owners and a pending one is the only one of its identity (`LinksOK`), so that
a commit never overwrites a link.

`ServerProofs`, for any requests, pool and bounds: `PoolShape` says which
connections a handler may have or want at each of its places, `LifeShape` how
the server, its signals, its seed and the account agree. `AccountKept` is an
action property proved from the same invariant.

`ThrottlerProofs`, for any finite set of requests, any limit and any ttl but zero
(`Sized`), as long as Redis evicts nothing: the key outlives each hit by a ttl,
because every hit renews it, so the count does not fall in that time
(`KeyLives`) and hits within a ttl of each other get different numbers
(`NumbersDiffer`). More than `Limit` of them do not fit in `1..Limit`, by the
pigeonhole principle.

Every invariant and action property of the runs, and the refinement, is proved.
Two theorems say what no run checks, because they are what is left of the
promises that two violations break: `LimitIsSeen` (the count that `increment`
returns would be enough to keep the limit that is not kept) and
`FormLockTakesTwo` (not three submissions lock, but not one either).
Only model-checked: the liveness properties (`EveryRequestEnds`,
`RevokedRowsGo`, `Exits`, `LoadingEnds`, `SubmitEnds`, `CallsEnd`), since TLAPS has
neither ENABLED nor the induction on time that fairness arguments need.

## Plan

Done: every part with state of its own, and proofs of the safety of all of them.
Left, in this order:

1. `Pages` in two tabs: what a page may claim after another tab's logout.
2. The order of the audit records against the transactions they report.

## Not modelled

- Access tokens and roles (`jwt.strategy.ts`, `roles.guard.ts`, `users/`): checks
  of a signed token by one request at a time. `FetchWithAuth` knows whether it
  has expired. The role it carries cannot lag behind the row, because no code
  changes a role.
- Health check, correlation ids, DTO validation: stateless. As requests of one
  statement they are in `ConnectionPool`.
- VerifyEmailPage and OAuthButtons: links, no calls and no state.
- The rows of the audit log: no handler reads them. Their writing is a step of
  `RefreshTokens` and `ConnectionPool`, and the words they hold are not a
  property's matter.
- Which HTTP status an exception becomes: the outcomes say error, conflict or
  refused.
- Configuration (compose files, nginx, Vite); the eviction policy it gives Redis
  is in `EmailVerification` and `Throttler`, and the proxy's timeout in `ConnectionPool`.
- `backend/src/generated/prisma`: some 7,700 of the repository's 10,900 lines of
  implementation. They are generated types without behaviour of their own. What
  the queries do is modelled where they are made.
