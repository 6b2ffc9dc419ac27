---------------------------- MODULE ServerProofs ----------------------------
(* The safety properties of Server, for any requests, pool and bounds.     *)
EXTENDS Server, FiniteSetTheorems, TLAPS

-----------------------------------------------------------------------------
(* The pool.                                                               *)

\* What the place of a handler implies for the connections it has or wants.
PoolShape ==
  /\ \A r \in want : pc[r] \in {"lookup", "user", "begin", "audit"}
  /\ \A r \in stmt : pc[r] \in {"lookup", "user", "audit"}
  /\ \A r \in open : pc[r] \in {"exchange", "audit", "commit"}
  /\ \A r \in gone : pc[r] \in Stages
  /\ want \cap stmt = {}
  /\ \A r \in Requests : pc[r] \in {"begin", "exchange"} => r \in Refreshes

PoolInv == TypeOK /\ PoolShape /\ InUse <= PoolMax

\* A step of a request that has been accepted.
PoolStep(r) ==
  \/ GiveUp(r) \/ Connect(r) \/ Handling(r) \/ MailSent(r)
  \/ ConnectTimeout(r) \/ TxTimeout(r)

\* No handler is taken to where its connections do not belong.
LEMMA ShapeStep ==
  ASSUME TypeOK, PoolShape, NEW r \in Requests, Accept(r) \/ PoolStep(r)
  PROVE  TypeOK' /\ PoolShape'
<1> USE PoolAssumption DEF TypeOK, PoolShape, Stages
<1>1. CASE Accept(r)
  BY <1>1 DEF Accept, Goto
<1>2. CASE GiveUp(r)
  BY <1>2 DEF GiveUp, Waiting, Pending, pool
<1>3. CASE Connect(r)
  <2>1. CASE pc[r] = "begin"
    BY <1>3, <2>1 DEF Connect, Goto
  <2>2. CASE pc[r] # "begin"
    BY <1>3, <2>2 DEF Connect
  <2> QED  BY <2>1, <2>2
<1>4. CASE Lookup(r)
  BY <1>4 DEF Lookup, Release, Goto
<1>5. CASE User(r)
  BY <1>5 DEF User, Release, Goto
<1>6. CASE AnswerEarly(r)
  BY <1>6 DEF AnswerEarly, Release, End
<1>7. CASE Exchange(r)
  BY <1>7 DEF Exchange, Goto
<1>8. CASE ExchangeLost(r)
  BY <1>8 DEF ExchangeLost, End
<1>9. CASE Audit(r)
  BY <1>9 DEF Audit, Release, Recorded, Goto, End
<1>10. CASE Commit(r)
  BY <1>10 DEF Commit, End
<1>11. CASE StatementFails(r)
  BY <1>11 DEF StatementFails, Throw, Release, Recorded, Goto, End
<1>12. CASE MailSent(r)
  BY <1>12 DEF MailSent, Goto
<1>13. CASE ConnectTimeout(r)
  BY <1>13 DEF ConnectTimeout, Throw, Recorded, Goto, End
<1>14. CASE TxTimeout(r)
  BY <1>14 DEF TxTimeout
<1> QED
  BY <1>1, <1>2, <1>3, <1>4, <1>5, <1>6, <1>7, <1>8, <1>9, <1>10, <1>11,
     <1>12, <1>13, <1>14 DEF PoolStep, Handling

\* Connections that are given back are fewer.
LEMMA Fewer ==
  ASSUME TypeOK, InUse <= PoolMax, stmt' \subseteq stmt, open' \subseteq open
  PROVE  InUse' <= PoolMax
<1>1. IsFiniteSet(stmt) /\ IsFiniteSet(open)
  BY PoolAssumption, FS_Subset DEF TypeOK
<1>2. /\ Cardinality(stmt) \in Nat /\ Cardinality(open) \in Nat
      /\ IsFiniteSet(stmt') /\ IsFiniteSet(open')
      /\ Cardinality(stmt') <= Cardinality(stmt)
      /\ Cardinality(open') <= Cardinality(open)
  BY <1>1, FS_Subset, FS_CardinalityType
<1>3. Cardinality(stmt') \in Nat /\ Cardinality(open') \in Nat
  BY <1>2, FS_CardinalityType
<1> QED
  BY <1>2, <1>3, PoolAssumption DEF InUse

\* Only Connect takes a connection, and it takes one that is free.
LEMMA InUseStep ==
  ASSUME TypeOK, InUse <= PoolMax, NEW r \in Requests, Accept(r) \/ PoolStep(r)
  PROVE  InUse' <= PoolMax
<1>1. CASE Connect(r)
  <2>1. IsFiniteSet(stmt) /\ IsFiniteSet(open)
    BY PoolAssumption, FS_Subset DEF TypeOK
  <2>2. Cardinality(stmt) \in Nat /\ Cardinality(open) \in Nat
    BY <2>1, FS_CardinalityType
  <2>a. Cardinality(stmt \cup {r}) \in {Cardinality(stmt), Cardinality(stmt) + 1}
    BY <2>1, FS_AddElement
  <2>b. Cardinality(open \cup {r}) \in {Cardinality(open), Cardinality(open) + 1}
    BY <2>1, FS_AddElement
  <2>3. CASE pc[r] = "begin"
    <3>1. open' = open \cup {r} /\ stmt' = stmt /\ InUse < PoolMax
      BY <1>1, <2>3 DEF Connect
    <3>2. /\ Cardinality(open') \in {Cardinality(open), Cardinality(open) + 1}
          /\ Cardinality(stmt') = Cardinality(stmt)
      BY <3>1, <2>b
    <3> QED  BY <2>2, <3>1, <3>2, PoolAssumption DEF InUse
  <2>4. CASE pc[r] # "begin"
    <3>1. stmt' = stmt \cup {r} /\ open' = open /\ InUse < PoolMax
      BY <1>1, <2>4 DEF Connect
    <3>2. /\ Cardinality(stmt') \in {Cardinality(stmt), Cardinality(stmt) + 1}
          /\ Cardinality(open') = Cardinality(open)
      BY <3>1, <2>a
    <3> QED  BY <2>2, <3>1, <3>2, PoolAssumption DEF InUse
  <2> QED  BY <2>3, <2>4
<1>2. CASE ~Connect(r)
  <2>1. stmt' \subseteq stmt /\ open' \subseteq open
    BY <1>2 DEF PoolStep, Handling, Accept, GiveUp, Lookup, User, AnswerEarly,
       Exchange, ExchangeLost, Audit, Commit, StatementFails, MailSent,
       ConnectTimeout, TxTimeout, Release, pool
  <2> QED  BY <2>1, Fewer
<1> QED  BY <1>1, <1>2

\* A request's step keeps the pool within its bound.
LEMMA PoolInvStep ==
  ASSUME PoolInv, NEW r \in Requests, Accept(r) \/ PoolStep(r)
  PROVE  PoolInv'
BY ShapeStep, InUseStep DEF PoolInv

\* Requests that have been accepted become no more, and nobody who has gone
\* comes back to wait.
LEMMA NoMoreWaiting ==
  ASSUME TypeOK, PoolShape, NEW r \in Requests, PoolStep(r)
  PROVE  Pending' \subseteq Pending /\ Waiting' \subseteq Waiting
<1>1. pc[r] \in Stages
  BY DEF PoolStep, Handling, PoolShape, Stages, GiveUp, Waiting, Pending, Connect,
     Lookup, User, AnswerEarly, Exchange, ExchangeLost, Audit, Commit,
     StatementFails, Release, MailSent, ConnectTimeout, TxTimeout
<1>2. /\ \A q \in Requests \ {r} : pc'[q] = pc[q]
      /\ gone \ {r} \subseteq gone'
      /\ r \in gone => r \in gone' \/ pc'[r] = "ended"
  <2> USE DEF TypeOK
  <2>1. CASE GiveUp(r)
    BY <2>1 DEF GiveUp
  <2>2. CASE Connect(r)
    <3>1. CASE pc[r] = "begin"  BY <2>2, <3>1 DEF Connect, Goto
    <3>2. CASE pc[r] # "begin"  BY <2>2, <3>2 DEF Connect
    <3> QED  BY <3>1, <3>2
  <2>3. CASE Handling(r)
    BY <2>3 DEF Handling, Lookup, User, AnswerEarly, Exchange, ExchangeLost, Audit,
       Commit, StatementFails, Throw, Recorded, Goto, End
  <2>4. CASE MailSent(r)
    BY <2>4 DEF MailSent, Goto
  <2>5. CASE ConnectTimeout(r)
    BY <2>5 DEF ConnectTimeout, Throw, Recorded, Goto, End
  <2>6. CASE TxTimeout(r)
    BY <2>6 DEF TxTimeout
  <2> QED  BY <2>1, <2>2, <2>3, <2>4, <2>5, <2>6 DEF PoolStep
<1> QED
  BY <1>1, <1>2 DEF Pending, Waiting, Stages

\* The server's steps that leave the pool alone, or empty it.
LEMMA PoolInvDie ==
  ASSUME PoolInv, Die
  PROVE  PoolInv' /\ Pending' = {} /\ Waiting' = {}
<1>1. TypeOK' /\ PoolShape' /\ Pending' = {} /\ Waiting' = {}
  BY PoolAssumption DEF PoolInv, TypeOK, PoolShape, Stages, Die, Pending, Waiting
<1>2. InUse' <= PoolMax
  BY Fewer DEF PoolInv, Die
<1> QED
  BY <1>1, <1>2 DEF PoolInv

\* prisma.$disconnect: every statement that was running is cut off.
LEMMA PoolInvDisconnect ==
  ASSUME PoolInv, Disconnect
  PROVE  PoolInv' /\ Pending' = Pending /\ Waiting' = Waiting
<1>1. TypeOK' /\ PoolShape' /\ Pending' = Pending /\ Waiting' = Waiting
  BY DEF PoolInv, TypeOK, PoolShape, Disconnect, Pending, Waiting
<1>2. InUse' <= PoolMax
  BY Fewer DEF PoolInv, Disconnect
<1> QED
  BY <1>1, <1>2 DEF PoolInv

\* A step that leaves the pool's variables alone.
LEMMA PoolInvSame ==
  ASSUME PoolInv, UNCHANGED poolVars
  PROVE  PoolInv' /\ Pending' = Pending /\ Waiting' = Waiting
BY DEF PoolInv, TypeOK, PoolShape, InUse, poolVars, pool, Pending, Waiting

\* What the shape of the pool says about its accounts.
LEMMA PoolInvImplies ==
  ASSUME PoolInv
  PROVE  PoolAccounted
BY DEF PoolInv, TypeOK, PoolShape, PoolAccounted, Pending, Stages

-----------------------------------------------------------------------------
(* The life of the server.                                                 *)

\* What the parts of the server know of each other.
LifeShape ==
  /\ server = "open" => boot \in {"listening", "up"}
  /\ Pending # {} => boot \in {"listening", "up"}
  /\ kept # {} => boot \in {"listening", "up"}
  /\ Signalled => boot = "up" /\ server = "closed"
  /\ ending => Signalled /\ kept = {}
  /\ boot = "creating" => account = "none"
  /\ seed /\ boot \in {"building", "connecting", "listening", "up"} => account # "none"

ServerInv == ServerTypeOK /\ PoolInv /\ LifeShape /\ Graceful

\* The server starts with an empty pool, no signal and nobody waiting.
THEOREM ServerInvInit == ServerInit => ServerInv
<1> SUFFICES ASSUME ServerInit PROVE ServerInv
  OBVIOUS
<1>1. TypeOK /\ PoolShape /\ Pending = {}
  BY PoolAssumption DEF ServerInit, Init, TypeOK, PoolShape, Pending, Stages
<1>2. InUse <= PoolMax
  BY PoolAssumption, FS_EmptySet DEF ServerInit, Init, InUse
<1>3. ServerTypeOK
  <2>1. boots \in 0..MaxBoots
    BY BoundsAssumption DEF ServerInit
  <2>2. handler \in [Signals -> {"none", "draining", "closing"}]
    BY DEF ServerInit
  <2> QED  BY <1>1, <2>1, <2>2 DEF ServerInit, ServerTypeOK, Booting
<1>4. ~Signalled
  BY DEF ServerInit, Signalled
<1>5. LifeShape /\ Graceful
  BY <1>1, <1>4 DEF ServerInit, Init, LifeShape, Graceful
<1> QED
  BY <1>1, <1>2, <1>3, <1>5 DEF ServerInv, PoolInv

\* Every step of the server, of a handler or of the pool keeps the invariant.
THEOREM ServerInvNext == ServerInv /\ [ServerNext]_serverVars => ServerInv'
<1> SUFFICES ASSUME ServerInv, [ServerNext]_serverVars PROVE ServerInv'
  OBVIOUS
<1> USE BoundsAssumption DEF ServerInv, ServerTypeOK, Booting
\* bootstrap
<1>1. CASE Start \/ loadSecrets \/ Migrate \/ SeedFind \/ SeedCreate \/ Build \/ Listen \/ Arm
  <2>1. UNCHANGED <<poolVars, kept, handler>>
    BY <1>1 DEF Start, loadSecrets, Migrate, SeedFind, SeedCreate, Build, Listen, Arm, BootStep
  <2>2. PoolInv' /\ Pending' = Pending /\ Waiting' = Waiting /\ ending' = ending
    BY <2>1, PoolInvSame DEF poolVars
  <2>3. Signalled' = Signalled
    BY <2>1 DEF Signalled
  <2>4. Graceful'
    BY <2>1, <2>2 DEF Graceful
  <2>5. ServerTypeOK' /\ LifeShape'
    <3> USE <2>1, <2>2, <2>3 DEF PoolInv, LifeShape, Enter, BootStep
    <3>1. CASE Start        BY <3>1 DEF Start
    <3>2. CASE loadSecrets  BY <3>2 DEF loadSecrets
    <3>3. CASE Migrate      BY <3>3 DEF Migrate
    <3>4. CASE SeedFind     BY <3>4 DEF SeedFind
    <3>5. CASE SeedCreate   BY <3>5 DEF SeedCreate
    <3>6. CASE Build        BY <3>6 DEF Build
    <3>7. CASE Listen       BY <3>7 DEF Listen
    <3>8. CASE Arm          BY <3>8 DEF Arm
    <3> QED  BY <1>1, <3>1, <3>2, <3>3, <3>4, <3>5, <3>6, <3>7, <3>8
  <2> QED  BY <2>2, <2>4, <2>5
\* the process ends
<1>2. CASE Die
  <2>1. PoolInv' /\ Pending' = {} /\ ending' = FALSE
    BY <1>2, PoolInvDie DEF Die
  <2>2. ~Signalled'
    BY <1>2 DEF Die, Signalled
  <2>3. ServerTypeOK' /\ LifeShape' /\ Graceful'
    BY <1>2, <2>1, <2>2 DEF Die, PoolInv, LifeShape, Graceful
  <2> QED  BY <2>1, <2>3
\* requests
<1>3. ASSUME NEW r \in Requests, ServerAccept(r) PROVE ServerInv'
  <2>1. Accept(r) /\ UNCHANGED process /\ kept' \subseteq kept /\ (server = "open" \/ kept # {})
    BY <1>3 DEF ServerAccept
  <2>2. PoolInv'
    BY <2>1, PoolInvStep
  <2>3. Signalled' = Signalled /\ ending' = ending /\ ~ending
    BY <2>1 DEF process, Signalled, Accept, LifeShape
  <2>4. ServerTypeOK' /\ LifeShape' /\ Graceful'
    BY <2>1, <2>2, <2>3 DEF process, PoolInv, LifeShape, Graceful
  <2> QED  BY <2>2, <2>4
<1>4. ASSUME NEW r \in Requests, Serve(r) \/ SignUp(r) PROVE ServerInv'
  <2>1. /\ PoolStep(r) /\ UNCHANGED <<boot, seed, server, handler, boots>>
        /\ kept' = kept \/ (r \in Waiting /\ kept' = kept \cup {r})
    BY <1>4 DEF Serve, SignUp, PoolStep, Handling, process, Keep
  <2>2. PoolInv' /\ Pending' \subseteq Pending /\ Waiting' \subseteq Waiting
    BY <2>1, PoolInvStep, NoMoreWaiting DEF PoolInv
  <2>3. Signalled' = Signalled /\ ending' = ending
    BY <2>1 DEF Signalled, PoolStep, Handling, GiveUp, Connect, Lookup, User,
       AnswerEarly, Exchange, ExchangeLost, Audit, Commit, StatementFails, Release,
       MailSent, ConnectTimeout, TxTimeout
  <2>4. \/ account' = account
        \/ account' = "user" /\ Pending # {}
    BY <1>4 DEF Serve, SignUp, process, User, Pending, Stages
  <2>5. kept' \subseteq Requests /\ (ending => kept' = kept)
    BY <2>1 DEF Graceful
  <2>6. kept' # {} => boot \in {"listening", "up"}
    BY <2>1 DEF LifeShape, Waiting
  <2>7. ServerTypeOK' /\ LifeShape' /\ Graceful'
    BY <2>1, <2>2, <2>3, <2>4, <2>5, <2>6 DEF PoolInv, LifeShape, Graceful
  <2> QED  BY <2>2, <2>7
<1>8. ASSUME NEW q \in Requests, KeepAliveEnds(q) PROVE ServerInv'
  <2>1. UNCHANGED <<poolVars, process>> /\ kept' \subseteq kept
    BY <1>8 DEF KeepAliveEnds
  <2>2. PoolInv' /\ Pending' = Pending /\ Waiting' = Waiting /\ ending' = ending
    BY <2>1, PoolInvSame DEF poolVars
  <2>3. Signalled' = Signalled
    BY <2>1 DEF process, Signalled
  <2>4. ServerTypeOK' /\ LifeShape' /\ Graceful'
    BY <2>1, <2>2, <2>3 DEF process, PoolInv, LifeShape, Graceful
  <2> QED  BY <2>2, <2>4
\* gracefulShutdown
<1>5. ASSUME NEW s \in Signals, Signal(s) PROVE ServerInv'
  <2>1. PoolInv' /\ Pending' = Pending /\ Waiting' = Waiting /\ ending' = ending
    BY <1>5, PoolInvSame DEF Signal, poolVars
  <2>2. Signalled'
    BY <1>5 DEF Signal, Signalled
  <2>3. ServerTypeOK' /\ LifeShape' /\ Graceful'
    BY <1>5, <2>1, <2>2 DEF Signal, PoolInv, LifeShape, Graceful
  <2> QED  BY <2>1, <2>3
<1>6. CASE Drained
  <2>1. PoolInv' /\ Pending' = Pending /\ Waiting' = {}
    BY <1>6, PoolInvDisconnect DEF Drained
  <2>2. Signalled /\ Signalled'
    BY <1>6 DEF Drained, Signalled
  <2>3. ServerTypeOK' /\ LifeShape' /\ Graceful'
    BY <1>6, <2>1, <2>2 DEF Drained, PoolInv, LifeShape, Graceful
  <2> QED  BY <2>1, <2>3
<1>7. CASE UNCHANGED serverVars
  <2>1. PoolInv' /\ Pending' = Pending /\ Waiting' = Waiting /\ ending' = ending
    BY <1>7, PoolInvSame DEF serverVars, poolVars
  <2>2. UNCHANGED life /\ Signalled' = Signalled
    BY <1>7 DEF serverVars, life, process, Signalled
  <2>3. ServerTypeOK' /\ LifeShape' /\ Graceful'
    BY <2>1, <2>2 DEF life, process, PoolInv, LifeShape, Graceful
  <2> QED  BY <2>1, <2>3
<1> QED
  BY <1>1, <1>2, <1>3, <1>4, <1>5, <1>6, <1>7, <1>8
  DEF ServerNext, Bootstrap, BootFails, Crash, Shutdown, AppClosed, Forced

\* The invariant holds over any number of requests, signals and starts.
THEOREM ServerInvariant == ServerSpec => []ServerInv
BY ServerInvInit, ServerInvNext, PTL DEF ServerSpec

-----------------------------------------------------------------------------
(* What follows.                                                           *)

\* The variables of the server and of its pool keep their types.
THEOREM ServerTypeCorrect == ServerSpec => []ServerTypeOK
<1>1. ServerInv => ServerTypeOK
  BY DEF ServerInv
<1> QED  BY <1>1, ServerInvariant, PTL

\* DB_POOL_MAX is never passed, and no connection outlives the handler that
\* holds it, whatever fails, times out or is cut off.
THEOREM PoolAccountedFor == ServerSpec => []PoolAccounted
<1>1. ServerInv => PoolAccounted
  BY PoolInvImplies DEF ServerInv
<1> QED  BY <1>1, ServerInvariant, PTL

\* After any number of signals, and with connections that are kept alive after
\* the first, the database is closed and the process exits only when no client
\* waits.
THEOREM GracefulHolds == ServerSpec => []Graceful
<1>1. ServerInv => Graceful
  BY DEF ServerInv
<1> QED  BY <1>1, ServerInvariant, PTL

\* A server told to seed does not serve without the administrator's account.
THEOREM SeededBeforeServing == ServerSpec => []SeededFirst
<1>1. ServerInv => SeededFirst
  BY DEF ServerInv, LifeShape, SeededFirst
<1> QED  BY <1>1, ServerInvariant, PTL

\* Neither the seed nor a sign-up replaces an account, over any number of
\* starts and crashes.
THEOREM AccountKeptHolds == ServerSpec => AccountKept
<1>1. ServerInv /\ [ServerNext]_serverVars => [account # "none" => account' = account]_serverVars
  <2> SUFFICES ASSUME ServerInv, ServerNext, account # "none"
               PROVE  account' = account
    BY DEF serverVars
  <2>1. boot # "creating"
    BY DEF ServerInv, LifeShape
  <2> QED
    BY <2>1 DEF ServerNext, Bootstrap, Start, loadSecrets, Migrate, SeedFind, SeedCreate,
       Build, Listen, Arm, BootStep, BootFails, Crash, Die, Enter, ServerAccept, Serve,
       SignUp, KeepAliveEnds, process, Shutdown, Signal, Drained, AppClosed, Forced
<1> QED  BY <1>1, ServerInvariant, PTL DEF ServerSpec, AccountKept
=============================================================================
