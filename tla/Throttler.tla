------------------------------ MODULE Throttler ------------------------------
(***************************************************************************)
(* RedisThrottlerStorage for one client and one route, and the             *)
(* ThrottlerGuard that asks it before every handler.  The guard is that of *)
(* @nestjs/throttler: it refuses a request if the record says isBlocked,   *)
(* and leaves it to the storage to compare the hits with the limit.        *)
(***************************************************************************)
EXTENDS Naturals, FiniteSets

CONSTANTS Requests,
          Limit,    \* the limit of the route
          Ttl,      \* its ttl, in ticks
          MaxTime   \* bound: the clock

VARIABLES
  now,      \* the time
  counter,  \* the key in Redis: its count and when it expires
  pc,       \* pc[r]: what request r is at
  hits,     \* hits[r]: the totalHits r was told
  at,       \* at[r]: when r was counted, or 0 (history)
  passed,   \* passed[r]: when the guard let r pass, or 0 (history)
  evicted   \* Redis has dropped the key before its time (history)

history == <<at, passed, evicted>>
vars    == <<now, counter, pc, hits, history>>

TypeOK ==
  /\ now \in 1..MaxTime
  /\ counter \in [count : 0..Cardinality(Requests), expires : 1..(MaxTime + Ttl)]
  /\ pc \in [Requests -> {"new", "counted", "passed", "refused", "failed"}]
  /\ hits \in [Requests -> 0..Cardinality(Requests)]
  /\ at \in [Requests -> 0..MaxTime]
  /\ passed \in [Requests -> 0..MaxTime]
  /\ evicted \in BOOLEAN

Init ==
  /\ now = 1
  /\ counter = [count |-> 0, expires |-> 1]
  /\ pc = [r \in Requests |-> "new"]
  /\ hits = [r \in Requests |-> 0]
  /\ at = [r \in Requests |-> 0]
  /\ passed = [r \in Requests |-> 0]
  /\ evicted = FALSE

\* The record that increment returns.
isBlocked(r) == FALSE

-----------------------------------------------------------------------------
Count == IF counter.expires <= now THEN 0 ELSE counter.count

\* INCR and PEXPIRE, in one MULTI: every hit renews the expiry.
Increment(r) ==
  /\ pc[r] = "new"
  /\ counter' = [count |-> Count + 1, expires |-> now + Ttl]
  /\ hits' = [hits EXCEPT ![r] = Count + 1]
  /\ pc' = [pc EXCEPT ![r] = "counted"]
  /\ at' = [at EXCEPT ![r] = now]
  /\ UNCHANGED <<now, passed, evicted>>

\* PTTL follows, on its own; then the guard decides.
Guard(r) ==
  /\ pc[r] = "counted"
  /\ IF isBlocked(r)
     THEN pc' = [pc EXCEPT ![r] = "refused"] /\ UNCHANGED passed
     ELSE /\ pc' = [pc EXCEPT ![r] = "passed"]
          /\ passed' = [passed EXCEPT ![r] = now]
  /\ UNCHANGED <<now, counter, hits, at, evicted>>

\* Redis cannot be reached, before or after the hit is counted: the guard
\* throws.
RedisError(r) ==
  /\ pc[r] \in {"new", "counted"}
  /\ pc' = [pc EXCEPT ![r] = "failed"]
  /\ UNCHANGED <<now, counter, hits, history>>

\* Redis needs room: in production it may drop any key (allkeys-lru).
Evict ==
  /\ Count > 0
  /\ counter' = [counter EXCEPT !.count = 0]
  /\ evicted' = TRUE
  /\ UNCHANGED <<now, pc, hits, at, passed>>

Tick ==
  /\ now < MaxTime
  /\ now' = now + 1
  /\ UNCHANGED <<counter, pc, hits, history>>

Next ==
  \/ \E r \in Requests : Increment(r) \/ Guard(r) \/ RedisError(r)
  \/ Evict
  \/ Tick

Spec == Init /\ [][Next]_vars

-----------------------------------------------------------------------------
(* Properties.                                                             *)

\* Whoever would look at totalHits could keep the limit: of more requests than
\* the limit that are counted within Ttl of each other, one is told so, however
\* the hits before them were spread and whichever of them fail.  An eviction
\* makes Redis forget.
LimitSeen ==
  ~evicted =>
    \A S \in SUBSET Requests :
      /\ \A r, q \in S : at[r] # 0 /\ at[r] < at[q] + Ttl
      /\ Cardinality(S) > Limit
      => \E r \in S : hits[r] > Limit

\* README.md: a client makes at most so many requests a minute on a route.
LimitHolds ==
  Cardinality({r \in Requests : passed[r] # 0 /\ now - passed[r] < Ttl}) <= Limit
=============================================================================
