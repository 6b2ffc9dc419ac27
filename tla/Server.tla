------------------------------- MODULE Server -------------------------------
(***************************************************************************)
(* The life of the server: bootstrap of main.ts with the Key Vault, the    *)
(* migrations and the seed, the requests of ConnectionPool, and            *)
(* gracefulShutdown on SIGTERM and SIGINT.  The process may die at any     *)
(* moment, and is started again; the database is what it leaves behind.    *)
(*                                                                         *)
(* server.close and app.close are Node's and Nest's.  server.close stops   *)
(* accepting connections, closes those that are idle and calls back when   *)
(* the last of the others is closed, also when the server is closed        *)
(* already; app.close calls onModuleDestroy first.                         *)
(***************************************************************************)
EXTENDS ConnectionPool

CONSTANTS MaxSignals,  \* bound: deliveries of SIGTERM or SIGINT to one process
          MaxBoots     \* bound: how often the process is started

ASSUME BoundsAssumption == MaxSignals \in Nat /\ MaxBoots \in Nat

VARIABLES
  boot,     \* how far bootstrap is
  seed,     \* RUN_MIGRATIONS and ADMIN_PASSWORD are both set for this process
  account,  \* the User row of ADMIN_EMAIL
  server,   \* whether the HTTP server accepts connections
  kept,     \* connections, by their last request, that a server that is closed
            \* has answered on and keeps alive
  handler,  \* handler[s]: how far the shutdown begun by signal s is
  boots     \* how often the process was started (bound)

process    == <<boot, seed, account, server, handler, boots>>
life       == <<process, kept>>
serverVars == <<poolVars, life>>

Signals == 1..MaxSignals

Booting == {"loading", "migrating", "seeding", "creating", "building", "connecting"}

ServerTypeOK ==
  /\ TypeOK
  /\ boot \in Booting \cup {"down", "listening", "up"}
  /\ seed \in BOOLEAN
  /\ account \in {"none", "admin", "user"}
  /\ server \in {"open", "closed"}
  /\ kept \subseteq Requests
  /\ handler \in [Signals -> {"none", "draining", "closing"}]
  /\ boots \in 0..MaxBoots

ServerInit ==
  /\ Init
  /\ boot = "down"
  /\ seed = FALSE
  /\ account = "none"
  /\ server = "closed"
  /\ kept = {}
  /\ handler = [s \in Signals |-> "none"]
  /\ boots = 0

Running   == boot # "down"
Signalled == \E s \in Signals : handler[s] # "none"

-----------------------------------------------------------------------------
(* bootstrap.                                                              *)

Enter(from, to) ==
  /\ boot = from
  /\ boot' = to

\* The container starts.  The operator may have changed its environment.
Start ==
  /\ boots < MaxBoots
  /\ Enter("down", "loading")
  /\ seed' \in BOOLEAN
  /\ boots' = boots + 1
  /\ UNCHANGED <<poolVars, account, server, kept, handler>>

BootStep == UNCHANGED <<poolVars, seed, server, kept, handler, boots>>

\* The secrets are all there, and make a DATABASE_URL.  RUN_MIGRATIONS may be
\* set and ADMIN_PASSWORD not.
loadSecrets ==
  /\ Enter("loading", "migrating") \/ (~seed /\ Enter("loading", "building"))
  /\ BootStep /\ UNCHANGED account

Migrate ==
  /\ Enter("migrating", "seeding")
  /\ BootStep /\ UNCHANGED account

\* Mutant: the seed is an upsert, so that the address need not be looked up.
SeedUpsert ==
  /\ Enter("seeding", "building")
  /\ account' = IF seed THEN "admin" ELSE account
  /\ BootStep

\* The seed script: without a password, or if the address is taken, it is done.
SeedFind ==
  /\ Enter("seeding", IF seed /\ account = "none" THEN "creating" ELSE "building")
  /\ BootStep /\ UNCHANGED account

\* Mutant: a seed that fails does not stop the server.
SeedCreateLenient ==
  /\ Enter("creating", "building")
  /\ account' \in {"admin", account}
  /\ BootStep

\* The address is unique: had somebody taken it since, the insert would fail,
\* and with it the seed.
SeedCreate ==
  /\ Enter("creating", "building")
  /\ account = "none"
  /\ account' = "admin"
  /\ BootStep

\* NestFactory.create, and the checks of JWT_SECRET and FRONTEND_URL.
Build ==
  /\ Enter("building", "connecting")
  /\ BootStep /\ UNCHANGED account

\* app.listen: onModuleInit connects to the database, and the server accepts.
Listen ==
  /\ Enter("connecting", "listening")
  /\ server' = "open"
  /\ UNCHANGED <<poolVars, seed, account, kept, handler, boots>>

\* The signal handlers are installed.
Arm ==
  /\ Enter("listening", "up")
  /\ BootStep /\ UNCHANGED account

\* The process is gone, with its handlers and its connections; PostgreSQL
\* rolls back, and clients that wait are cut off.
Die ==
  /\ boot' = "down"
  /\ server' = "closed"
  /\ kept' = {}
  /\ handler' = [s \in Signals |-> "none"]
  /\ pc' = [r \in Requests |-> IF r \in Pending THEN "ended" ELSE pc[r]]
  /\ want' = {} /\ stmt' = {} /\ open' = {} /\ gone' = {}
  /\ ending' = FALSE
  /\ UNCHANGED <<seed, account, boots>>

\* A step of bootstrap throws, or the script it runs fails.
BootFails == boot \in Booting /\ Die

\* The process is killed.
Crash == Running /\ Die

-----------------------------------------------------------------------------
(* Requests.                                                               *)

\* A request comes on a new connection, or on one that was kept alive.
ServerAccept(r) ==
  /\ \/ server = "open" /\ UNCHANGED kept
     \/ \E q \in kept : kept' = kept \ {q}
  /\ Accept(r)
  /\ UNCHANGED process

\* The connection of a request that is answered is kept alive or closed, as its
\* client asked: what matters of those that are kept is whether they are closed
\* by server.close, as all are that are idle then.
Keep(r) ==
  \/ UNCHANGED kept
  \/ server = "closed" /\ r \in Waiting /\ pc'[r] = "ended" /\ kept' = kept \cup {r}

Serve(r) ==
  /\ \/ GiveUp(r) \/ Connect(r) \/ Handling(r) \/ MailSent(r)
     \/ ConnectTimeout(r) \/ TxTimeout(r)
  /\ Keep(r)
  /\ UNCHANGED process

\* A connection that was kept alive is closed, by its client or after the 5 s of
\* keepAliveTimeout.
KeepAliveEnds(q) ==
  /\ q \in kept
  /\ kept' = kept \ {q}
  /\ UNCHANGED <<poolVars, process>>

\* A sign-up with the address of the administrator.
SignUp(r) ==
  /\ account = "none"
  /\ r \notin Refreshes
  /\ User(r)
  /\ account' = "user"
  /\ UNCHANGED <<boot, seed, server, kept, handler, boots>>

-----------------------------------------------------------------------------
(* gracefulShutdown.                                                       *)

\* Mutant: the application is closed without waiting for server.close.
SignalImpatient(s) ==
  /\ boot = "up"
  /\ handler[s] = "none"
  /\ server' = "closed"
  /\ kept' = {}
  /\ handler' = [handler EXCEPT ![s] = "closing"]
  /\ Disconnect
  /\ UNCHANGED <<boot, seed, account, boots>>

\* Signal s arrives: server.close.  Before the handlers are installed it does
\* nothing: the process is the container's first, which the default action
\* spares.
Signal(s) ==
  /\ boot = "up"
  /\ handler[s] = "none"
  /\ \A q \in 1..(s-1) : handler[q] # "none"
  /\ server' = "closed"
  /\ kept' = {}
  /\ handler' = [handler EXCEPT ![s] = "draining"]
  /\ UNCHANGED <<poolVars, boot, seed, account, boots>>

\* The last connection is closed, and server.close calls back, for every signal
\* that has come: the timer is armed, and app.close called.
Drained ==
  /\ \E s \in Signals : handler[s] = "draining"
  /\ Waiting = {} /\ kept = {}
  /\ handler' = [s \in Signals |-> IF handler[s] = "draining" THEN "closing" ELSE handler[s]]
  /\ Disconnect
  /\ UNCHANGED <<boot, seed, account, server, kept, boots>>

\* Mutant: process.exit is forgotten.
AppClosedStaying(s) ==
  /\ handler[s] = "closing"
  /\ Disconnected
  /\ handler' = [handler EXCEPT ![s] = "closed"]
  /\ UNCHANGED <<poolVars, boot, seed, account, server, kept, boots>>

\* app.close is done ...
AppClosed(s) ==
  /\ handler[s] = "closing"
  /\ Disconnected
  /\ Die

\* ... or it throws, or has taken 10 s.
Forced(s) ==
  /\ handler[s] = "closing"
  /\ Die

-----------------------------------------------------------------------------
Bootstrap ==
  \/ Start \/ loadSecrets \/ Migrate \/ SeedFind \/ SeedCreate
  \/ Build \/ Listen \/ Arm \/ BootFails

Shutdown == Drained \/ \E s \in Signals : Signal(s) \/ AppClosed(s) \/ Forced(s)

ServerNext ==
  \/ Bootstrap \/ Crash \/ Shutdown
  \/ \E r \in Requests : ServerAccept(r) \/ Serve(r) \/ SignUp(r) \/ KeepAliveEnds(r)

ServerSpec == ServerInit /\ [][ServerNext]_serverVars

\* Handlers go on, the wait for a connection is bounded, clients give up, idle
\* connections are closed, server.close calls back and the timer of the shutdown
\* fires.  Nothing is assumed of who is given a connection, of the timeout of
\* transactions, nor of the mail server.
Fairness ==
  /\ \A r \in Requests :
       /\ WF_serverVars(Handling(r) /\ Keep(r) /\ UNCHANGED process)
       /\ WF_serverVars(ConnectTimeout(r) /\ Keep(r) /\ UNCHANGED process)
       /\ WF_serverVars(GiveUp(r) /\ Keep(r) /\ UNCHANGED process)
       /\ WF_serverVars(KeepAliveEnds(r))
  /\ WF_serverVars(Drained)
  /\ \A s \in Signals : WF_serverVars(AppClosed(s) \/ Forced(s))

LiveServerSpec == ServerSpec /\ Fairness

-----------------------------------------------------------------------------
(* Properties.                                                             *)

\* main.ts: "Graceful shutdown complete."  The database is not taken away, and
\* the process does not exit of its own accord, while a client waits for its
\* answer: neither when further signals have come, nor when a request was made
\* on a connection kept alive after the server had been closed.
Graceful == ending => Waiting = {}

\* A process that was sent a signal exits, whatever its requests are doing and
\* though the timer that forces it is armed only when nobody waits any more.
\* (Requests that are made for ever on a connection kept alive put it off.)
Exits == Signalled ~> ~Running

\* Every request ends, or waits for the mail server, also when refreshes hold
\* the whole pool and each of them waits for one more connection to write its
\* audit record.
EveryRequestEnds ==
  \A r \in Requests : r \in Pending ~> pc[r] \in {"ended", "outbound"}

\* A server that was told to seed, and has the administrator's password, does
\* not serve before there is an account with the administrator's address.
SeededFirst ==
  server = "open" /\ seed => account # "none"

\* However often the server is started, and wherever it dies, the seed never
\* replaces an account.
AccountKept == [][account # "none" => account' = account]_serverVars
=============================================================================
