--------------------------- MODULE ThrottlerProofs ---------------------------
(***************************************************************************)
(* What the throttler's counter is worth, for any number of requests, any  *)
(* limit and any ttl: as long as Redis keeps the key, the hits it tells of *)
(* are enough to keep the limit.                                           *)
(*                                                                         *)
(* The count begins anew only after a pause of Ttl, so it never falls      *)
(* while a hit is younger than Ttl, and two such hits are told different   *)
(* numbers.  More than Limit different numbers do not fit in 1..Limit.     *)
(***************************************************************************)
EXTENDS Throttler, FiniteSetTheorems, TLAPS

\* What the constants are: a limit, a ttl and a clock that can run.
Sized ==
  /\ IsFiniteSet(Requests)
  /\ Limit \in Nat
  /\ Ttl \in Nat \ {0}
  /\ MaxTime \in Nat \ {0}

Counted == {r \in Requests : at[r] # 0}

\* r and q were counted within Ttl of each other, r not before q.
Follows(r, q) == at[q] <= at[r] /\ at[r] < at[q] + Ttl

\* No hit is counted that no request made.
HitsOK ==
  /\ counter.count <= Cardinality(Counted)
  /\ \A r \in Requests :
       /\ pc[r] = "new" => at[r] = 0
       /\ at[r] # 0 => hits[r] # 0
       /\ at[r] <= now

\* A hit younger than Ttl keeps the key alive, and the count above it.
KeyLives ==
  \A r \in Counted :
    now < at[r] + Ttl =>
      /\ counter.expires >= at[r] + Ttl
      /\ hits[r] <= counter.count

\* Hits within Ttl of each other have numbers of their own.
NumbersDiffer ==
  \A r, q \in Counted : r # q /\ Follows(r, q) => hits[r] # hits[q]

Inv == TypeOK /\ HitsOK /\ (~evicted => KeyLives /\ NumbersDiffer)

-----------------------------------------------------------------------------
\* The requests counted so far can be counted.
LEMMA CountedFinite ==
  ASSUME Sized
  PROVE  /\ IsFiniteSet(Counted)
         /\ Cardinality(Counted) \in Nat
         /\ Cardinality(Counted) <= Cardinality(Requests)
         /\ Cardinality(Requests) \in Nat
<1>1. Counted \subseteq Requests
  BY DEF Counted
<1> QED
  BY <1>1, FS_Subset, FS_CardinalityType DEF Sized

\* Nothing is counted at the start.
LEMMA InitInv ==
  ASSUME Sized, Init
  PROVE  Inv
<1>1. TypeOK
  <2>1. /\ 1 \in 1 .. MaxTime /\ 0 \in 0 .. MaxTime
        /\ 1 \in 1 .. (MaxTime + Ttl)
        /\ 0 \in 0 .. Cardinality(Requests)
    BY CountedFinite DEF Sized
  <2> QED
    BY <2>1 DEF Init, TypeOK
<1>2. HitsOK
  BY CountedFinite DEF Sized, Init, HitsOK
<1>3. Counted = {}
  BY DEF Init, Counted
<1> QED
  BY <1>1, <1>2, <1>3 DEF Inv, KeyLives, NumbersDiffer

\* A request that had not been counted adds one to those that have.
LEMMA IncrementCounts ==
  ASSUME Sized, TypeOK, HitsOK, NEW r \in Requests, Increment(r)
  PROVE  /\ at[r] = 0 /\ at'[r] = now
         /\ hits'[r] = Count + 1
         /\ \A q \in Requests \ {r} : at'[q] = at[q] /\ hits'[q] = hits[q]
         /\ Counted' = Counted \cup {r}
         /\ Count \in 0 .. counter.count
         /\ Cardinality(Counted') = Cardinality(Counted) + 1
         /\ Cardinality(Counted') <= Cardinality(Requests)
<1>1. /\ at[r] = 0 /\ at'[r] = now /\ now # 0
      /\ hits'[r] = Count + 1
      /\ \A q \in Requests \ {r} : at'[q] = at[q] /\ hits'[q] = hits[q]
  BY DEF Increment, TypeOK, HitsOK
<1>2. Counted' = Counted \cup {r} /\ r \notin Counted
  BY <1>1 DEF Counted
<1>3. Count \in 0 .. counter.count
  BY CountedFinite DEF Count, TypeOK
<1>4. Cardinality(Counted') = Cardinality(Counted) + 1
  BY <1>2, CountedFinite, FS_AddElement
<1>5. Counted' \subseteq Requests
  BY DEF Counted
<1>6. Cardinality(Counted') <= Cardinality(Requests)
  BY <1>5, FS_Subset DEF Sized
<1> QED
  BY <1>1, <1>2, <1>3, <1>4, <1>6

\* Counting a request keeps the invariant.
LEMMA IncrementKeeps ==
  ASSUME Sized, Inv, NEW r \in Requests, Increment(r)
  PROVE  Inv'
<1> USE DEF Sized
<1>1. /\ TypeOK /\ HitsOK
      /\ ~evicted => KeyLives /\ NumbersDiffer
  BY DEF Inv
<1>2. /\ at[r] = 0 /\ at'[r] = now
      /\ hits'[r] = Count + 1
      /\ \A q \in Requests \ {r} : at'[q] = at[q] /\ hits'[q] = hits[q]
      /\ Counted' = Counted \cup {r}
      /\ Count \in 0 .. counter.count
      /\ Cardinality(Counted') = Cardinality(Counted) + 1
      /\ Cardinality(Counted') <= Cardinality(Requests)
  BY <1>1, IncrementCounts
<1>3. /\ counter' = [count |-> Count + 1, expires |-> now + Ttl]
      /\ pc' = [pc EXCEPT ![r] = "counted"]
      /\ UNCHANGED <<now, passed, evicted>>
  BY DEF Increment
<1>4. /\ now \in 1 .. MaxTime
      /\ counter.count \in Nat /\ counter.expires \in Nat
      /\ Cardinality(Counted) \in Nat /\ Cardinality(Requests) \in Nat
  BY <1>1, CountedFinite DEF TypeOK
<1>5. Count + 1 \in 0 .. Cardinality(Requests)
  BY <1>1, <1>2, <1>4 DEF HitsOK
<1>6. TypeOK'
  BY <1>1, <1>3, <1>5 DEF TypeOK, Increment
<1>7. HitsOK'
  BY <1>1, <1>2, <1>3, <1>4 DEF HitsOK, TypeOK
<1>8. ASSUME ~evicted PROVE KeyLives' /\ NumbersDiffer'
  <2>1. ASSUME NEW q \in Counted, q # r, now < at[q] + Ttl
        PROVE  hits[q] <= Count
    BY <1>1, <1>4, <1>8, <2>1 DEF KeyLives, Count, Counted, TypeOK
  <2>2. \A q \in Counted : at[q] \in Nat /\ at[q] <= now /\ hits[q] \in Nat
    BY <1>1, CountedFinite DEF TypeOK, HitsOK, Counted
  <2>3. r \notin Counted /\ \A q \in Counted : at'[q] = at[q] /\ hits'[q] = hits[q]
    BY <1>2 DEF Counted
  <2>4. KeyLives'
    BY <1>2, <1>3, <1>4, <2>1, <2>2, <2>3 DEF KeyLives
  <2>5. NumbersDiffer'
    BY <1>1, <1>2, <1>4, <1>8, <2>1, <2>2, <2>3 DEF NumbersDiffer, Follows
  <2> QED  BY <2>4, <2>5
<1> QED
  BY <1>3, <1>6, <1>7, <1>8 DEF Inv

\* Every step keeps the invariant.
LEMMA InvStep ==
  ASSUME Sized, Inv, [Next]_vars
  PROVE  Inv'
<1> USE DEF Sized, history
<1>1. ASSUME NEW r \in Requests, Increment(r) PROVE Inv'
  BY <1>1, IncrementKeeps
<1>2. ASSUME NEW r \in Requests, Guard(r) \/ RedisError(r) PROVE Inv'
  <2>1. /\ UNCHANGED <<now, counter, hits, at, evicted>>
        /\ TypeOK'
        /\ \A q \in Requests : pc'[q] = "new" => pc[q] = "new"
    BY <1>2 DEF Guard, RedisError, Inv, TypeOK
  <2>2. HitsOK'
    BY <2>1 DEF Inv, HitsOK, Counted
  <2> QED
    BY <2>1, <2>2 DEF Inv, KeyLives, NumbersDiffer, Follows, Counted
<1>3. CASE Evict
  <2>1. TypeOK' /\ evicted'
    BY <1>3, CountedFinite DEF Evict, Inv, TypeOK
  <2>2. HitsOK'
    BY <1>3, CountedFinite DEF Evict, Inv, HitsOK, TypeOK, Counted
  <2> QED
    BY <2>1, <2>2 DEF Inv
<1>4. CASE Tick
  <2>1. TypeOK' /\ now' = now + 1 /\ UNCHANGED <<counter, pc, hits, at, evicted>>
    BY <1>4 DEF Tick, Inv, TypeOK
  <2>2. \A r \in Requests : at[r] \in Nat /\ now \in Nat
    BY DEF Inv, TypeOK
  <2>3. HitsOK'
    BY <2>1, <2>2 DEF Inv, HitsOK, Counted
  <2>4. KeyLives => KeyLives'
    BY <2>1, <2>2 DEF KeyLives, Counted
  <2>5. NumbersDiffer => NumbersDiffer'
    BY <2>1 DEF NumbersDiffer, Follows, Counted
  <2> QED
    BY <2>1, <2>3, <2>4, <2>5 DEF Inv
<1>5. CASE UNCHANGED vars
  BY <1>5 DEF vars, Inv, TypeOK, HitsOK, KeyLives, NumbersDiffer, Follows, Counted
<1> QED
  BY <1>1, <1>2, <1>3, <1>4, <1>5 DEF Next

\* The invariant, and the pigeonhole principle, give the property.
LEMMA InvLimitSeen ==
  ASSUME Sized, Inv
  PROVE  LimitSeen
<1> SUFFICES ASSUME ~evicted, NEW S \in SUBSET Requests,
                    \A r, q \in S : at[r] # 0 /\ at[r] < at[q] + Ttl,
                    Cardinality(S) > Limit,
                    \A r \in S : ~(hits[r] > Limit)
             PROVE  FALSE
  BY DEF LimitSeen
<1> USE DEF Sized
<1>1. /\ TypeOK /\ HitsOK /\ NumbersDiffer
      /\ S \subseteq Counted
      /\ Cardinality(Requests) \in Nat
  BY CountedFinite DEF Inv, Counted
<1>2. \A r \in S : hits[r] \in 1 .. Limit /\ at[r] \in Nat
  BY <1>1 DEF TypeOK, HitsOK
<1>3. IsFiniteSet(1 .. Limit) /\ Cardinality(1 .. Limit) = Limit
  BY FS_Interval
<1>4. IsFiniteSet(S)
  BY FS_Subset
<1> DEFINE number == [r \in S |-> hits[r]]
<1>5. number \in [S -> 1 .. Limit] /\ Cardinality(1 .. Limit) < Cardinality(S)
  BY <1>2, <1>3
<1> HIDE DEF number
<1>6. PICK r, q \in S : r # q /\ number[r] = number[q]
  <2> DEFINE T == 1 .. Limit
  <2>1. IsFiniteSet(T) /\ Cardinality(T) < Cardinality(S) /\ number \in [S -> T]
    BY <1>3, <1>5
  <2> HIDE DEF T
  <2> QED
    BY <1>4, <2>1, FS_PigeonHole
<1>7. hits[r] = hits[q]
  BY <1>6 DEF number
<1>8. Follows(r, q) \/ Follows(q, r)
  BY <1>2 DEF Follows
<1> QED
  BY <1>1, <1>6, <1>7, <1>8 DEF NumbersDiffer

-----------------------------------------------------------------------------
\* The throttler's invariant, for any requests, limit and ttl.
THEOREM ThrottlerInvariant ==
  ASSUME Sized
  PROVE  Spec => []Inv
<1>1. Init => Inv
  BY InitInv
<1>2. Inv /\ [Next]_vars => Inv'
  BY InvStep
<1> QED  BY <1>1, <1>2, PTL DEF Spec

\* The count never exceeds the requests there are: no hit is counted twice.
THEOREM TypeCorrect ==
  ASSUME Sized
  PROVE  Spec => []TypeOK
<1>1. Inv => TypeOK
  BY DEF Inv
<1>2. Spec => []Inv
  BY ThrottlerInvariant
<1> QED  BY <1>1, <1>2, PTL

\* Whoever compared totalHits with the limit could keep it: of more than Limit
\* requests counted within Ttl of each other, one is told so, unless Redis has
\* dropped the key.
THEOREM LimitIsSeen ==
  ASSUME Sized
  PROVE  Spec => []LimitSeen
<1>1. Inv => LimitSeen
  BY InvLimitSeen
<1>2. Spec => []Inv
  BY ThrottlerInvariant
<1> QED  BY <1>1, <1>2, PTL
=============================================================================
