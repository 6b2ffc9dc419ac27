--------------------------- MODULE OAuthLoginProofs ---------------------------
(***************************************************************************)
(* Proofs about OAuthLogin, for any sign-ins of any people: who signs in   *)
(* with an identity of his own comes into his own account, and into none   *)
(* that is locked.                                                         *)
(***************************************************************************)
EXTENDS OAuthLogin, TLAPS

\* What is known of a sign-in: the profile is the person's own, as far as the
\* provider vouches for it; only a verified one reaches the transaction; and
\* open remembers every moment the account was unlocked.
ProfileOK ==
  \A r \in Requests :
    /\ profile[r].id \in {who[r], Unknown}
    /\ profile[r].verified => profile[r].email = who[r]
    /\ pc[r] \in InTx => profile[r].verified

OpenOK ==
  \A r \in Requests :
    /\ pc[r] \in Running /\ who[r] \notin locked => open[r]
    /\ pc[r] \in {"create", "link", "commit"} => open[r]

\* A link leads to its owner, and a transaction that has inserted one is the
\* only one and inserts where none was.
LinksOK ==
  /\ \A v \in Providers, p \in People : link[v][p] \in {p, None}
  /\ \A r \in Requests : pc[r] = "commit" => Owner(r) = None
  /\ \A q, r \in Requests :
       /\ pc[q] = "commit" /\ pc[r] = "commit"
       /\ provider[q] = provider[r] /\ profile[q].id = profile[r].id
       => q = r

Inv ==
  /\ TypeOK /\ ProfileOK /\ OpenOK /\ LinksOK
  /\ OwnAccountIfKnown /\ LockHolds /\ OAuthUsersLinked

-----------------------------------------------------------------------------
(* The invariant.                                                          *)

\* The start: no account, no link, no handler.
LEMMA InvInit == Init => Inv
<1> SUFFICES ASSUME Init PROVE Inv
  OBVIOUS
<1>1. TypeOK
  BY DEF Init, TypeOK, Profiles, Ids, Running, InTx, Outcomes
<1>2. ProfileOK /\ OpenOK /\ LinksOK
  BY DEF Init, ProfileOK, OpenOK, LinksOK, InTx, Running, Ids
<1>3. OwnAccountIfKnown /\ LockHolds /\ OAuthUsersLinked
  BY DEF Init, OwnAccountIfKnown, LockHolds, OAuthUsersLinked
<1> QED  BY <1>1, <1>2, <1>3 DEF Inv

\* A handler that is still on its way, or gives up, disturbs nothing: r's step
\* leaves the accounts alone and ends in a state that promises no more.
Moves(r) ==
  /\ pc' = [pc EXCEPT ![r] = pc'[r]]
  /\ pc'[r] \in {"idle", "away"} \cup Running \cup Outcomes
  /\ UNCHANGED <<accounts, request>>

\* The steps that only move the handler on.
LEMMA MoveStep ==
  ASSUME Inv, NEW r \in Requests, Moves(r),
         cookie' \in [People -> [Providers -> Requests \cup {None}]],
         open' = [open EXCEPT ![r] = open'[r]], open'[r] \in BOOLEAN,
         open[r] => open'[r] \/ pc[r] = "away",
         pc'[r] \in InTx => profile[r].verified,
         pc'[r] \in Running /\ who[r] \notin locked => open'[r],
         pc'[r] \in {"create", "link", "commit"} => open'[r],
         pc'[r] = "commit" => Owner(r) = None /\ ~LinkPending(r),
         pc'[r] \in {"issue", "in"} => pc[r] = "issue"
  PROVE  Inv'
<1> USE DEF Moves, accounts, request
<1>1. TypeOK'
  BY DEF Inv, TypeOK
<1>a. \A q \in Requests : q # r => pc'[q] = pc[q] /\ open'[q] = open[q]
  BY DEF Inv, TypeOK
<1>2. ProfileOK'
  BY <1>a DEF Inv, ProfileOK
<1>3. OpenOK'
  BY <1>a DEF Inv, OpenOK
<1>4. LinksOK'
  <2>1. \A q \in Requests : Owner(q)' = Owner(q)
    BY DEF Owner
  <2> QED  BY <1>a, <2>1 DEF Inv, LinksOK, LinkPending
<1>5. OwnAccountIfKnown'
  BY <1>a DEF Inv, OwnAccountIfKnown
<1>6. LockHolds'
  <2>1. pc[r] = "issue" => pc[r] # "away"
    OBVIOUS
  <2> QED  BY <1>a, <2>1 DEF Inv, LockHolds
<1>7. OAuthUsersLinked'
  BY DEF Inv, OAuthUsersLinked
<1> QED  BY <1>1, <1>2, <1>3, <1>4, <1>5, <1>6, <1>7 DEF Inv

\* Every step keeps the invariant.
LEMMA InvNext == Inv /\ [Next]_vars => Inv'
<1> SUFFICES ASSUME Inv, [Next]_vars PROVE Inv'
  OBVIOUS
<1>t. TypeOK
  BY DEF Inv
<1>1. ASSUME NEW r \in Requests, Start(r) PROVE Inv'
  <2>1. Moves(r) /\ pc'[r] = "away"
    BY <1>1, <1>t DEF Start, Goto, Moves, TypeOK
  <2>2. cookie' \in [People -> [Providers -> Requests \cup {None}]]
    BY <1>1, <1>t DEF Start, TypeOK
  <2>3. open' = [open EXCEPT ![r] = open'[r]] /\ open'[r] = open[r] /\ open[r] \in BOOLEAN
    BY <1>1, <1>t DEF Start, TypeOK
  <2> QED  BY <2>1, <2>2, <2>3, MoveStep DEF Running, InTx
<1>2. ASSUME NEW r \in Requests, Callback(r) PROVE Inv'
  <2>1. Moves(r) /\ pc'[r] \in {"exchange", "expired"} /\ pc[r] = "away"
    BY <1>2, <1>t DEF Callback, Goto, Moves, TypeOK, Running, Outcomes
  <2>2. cookie' \in [People -> [Providers -> Requests \cup {None}]]
    BY <1>2, <1>t DEF Callback, TypeOK
  <2>3. /\ open' = [open EXCEPT ![r] = open'[r]] /\ open'[r] \in BOOLEAN
        /\ open'[r] = (who[r] \notin locked)
    BY <1>2, <1>t DEF Callback, TypeOK
  <2> QED  BY <2>1, <2>2, <2>3, MoveStep DEF Running, InTx
<1>3. ASSUME NEW r \in Requests, Exchange(r) PROVE Inv'
  <2> USE DEF Exchange, Goto
  <2>1. /\ pc' = [pc EXCEPT ![r] = "lookup"] /\ pc[r] = "exchange"
        /\ UNCHANGED <<accounts, cookie, who, provider, account, created, open>>
    BY <1>3
  <2>2. PICK f \in Answers(r) : profile' = [profile EXCEPT ![r] = f]
    BY <1>3
  <2>3. f \in Profiles /\ f.id \in {who[r], Unknown} /\ (f.verified => f.email = who[r])
    BY <2>2 DEF Answers
  <2>4. \A q \in Requests : q # r => pc'[q] = pc[q] /\ profile'[q] = profile[q]
    BY <2>1, <2>2, <1>t DEF TypeOK
  <2>5. pc'[r] = "lookup" /\ profile'[r] = f
    BY <2>1, <2>2, <1>t DEF TypeOK
  <2>6. TypeOK'
    BY <2>1, <2>2, <2>3, <1>t DEF TypeOK, accounts, Running
  <2>7. ProfileOK'
    BY <2>1, <2>3, <2>4, <2>5 DEF Inv, ProfileOK, InTx
  <2>8. OpenOK'
    BY <2>1, <2>4, <2>5 DEF Inv, OpenOK, accounts, Running
  <2>9. LinksOK'
    BY <2>1, <2>4, <2>5 DEF Inv, LinksOK, Owner, accounts
  <2>10. OwnAccountIfKnown' /\ LockHolds'
    BY <2>1, <2>4, <2>5 DEF Inv, OwnAccountIfKnown, LockHolds
  <2>11. OAuthUsersLinked'
    BY <2>1 DEF Inv, OAuthUsersLinked, accounts
  <2> QED  BY <2>6, <2>7, <2>8, <2>9, <2>10, <2>11 DEF Inv
<1>4. ASSUME NEW r \in Requests,
             \/ ExchangeFails(r) \/ FindNothing(r) \/ TxFind(r)
             \/ TxCreateLink(r) \/ Issue(r) \/ DbError(r)
      PROVE  Inv'
  <2> USE DEF ExchangeFails, FindNothing, TxFind, TxCreateLink, Issue, DbError, Goto
  <2>1. Moves(r) /\ UNCHANGED <<cookie, open>>
    BY <1>4, <1>t DEF Moves, TypeOK, accounts, request, Running, InTx, Outcomes
  <2>2. open' = [open EXCEPT ![r] = open'[r]] /\ open'[r] = open[r] /\ open[r] \in BOOLEAN
    BY <2>1, <1>t DEF TypeOK
  <2>3. pc'[r] \in Running => pc[r] \in Running
    BY <1>4, <1>t DEF TypeOK, Running, InTx
  <2>4. pc'[r] \in InTx => profile[r].verified
    BY <1>4, <1>t DEF Inv, ProfileOK, TypeOK, InTx
  <2>5. pc'[r] \in {"create", "link", "commit"} => open[r]
    <3>1. pc[r] = "find" /\ Email(r) \notin locked => open[r]
      BY DEF Inv, ProfileOK, OpenOK, Email, Running, InTx
    <3> QED  BY <1>4, <1>t, <3>1 DEF Inv, OpenOK, TypeOK
  <2>6. pc'[r] = "commit" => Owner(r) = None /\ ~LinkPending(r)
    BY <1>4, <1>t DEF TypeOK
  <2>7. pc'[r] \in {"issue", "in"} => pc[r] = "issue"
    BY <1>4, <1>t DEF TypeOK
  <2>8. cookie' \in [People -> [Providers -> Requests \cup {None}]]
    BY <2>1, <1>t DEF TypeOK
  <2>9. pc'[r] \in Running /\ who[r] \notin locked => open'[r]
    BY <2>2, <2>3 DEF Inv, OpenOK
  <2> QED  BY <2>1, <2>2, <2>4, <2>5, <2>6, <2>7, <2>8, <2>9, MoveStep
<1>5. ASSUME NEW r \in Requests, FindLinked(r) PROVE Inv'
  <2>1. CASE Owner(r) \in locked
    <3>1. Moves(r) /\ pc'[r] = "locked" /\ UNCHANGED <<cookie, open>>
      BY <1>5, <2>1, <1>t DEF FindLinked, Goto, Moves, TypeOK, request, Outcomes
    <3>2. open' = [open EXCEPT ![r] = open'[r]] /\ open'[r] = open[r] /\ open[r] \in BOOLEAN
      BY <3>1, <1>t DEF TypeOK
    <3> QED  BY <3>1, <3>2, <1>t, MoveStep DEF TypeOK, Running, InTx
  <2>2. CASE Owner(r) \notin locked
    <3>1. /\ pc' = [pc EXCEPT ![r] = "issue"] /\ pc[r] = "lookup"
          /\ account' = [account EXCEPT ![r] = Owner(r)] /\ Owner(r) # None
          /\ UNCHANGED <<accounts, cookie, who, provider, profile, created, open>>
      BY <1>5, <2>2 DEF FindLinked, Goto
    <3>2. \A q \in Requests : q # r => pc'[q] = pc[q] /\ account'[q] = account[q]
      BY <3>1, <1>t DEF TypeOK
    <3>3. pc'[r] = "issue" /\ account'[r] = Owner(r)
      BY <3>1, <1>t DEF TypeOK
    <3>4. Owner(r) \in users
      BY <3>1, <1>t DEF TypeOK, Owner, Profiles
    <3>5. TypeOK'
      BY <3>1, <3>4, <1>t DEF TypeOK, accounts, Running
    <3>6. ProfileOK' /\ OpenOK'
      BY <3>1, <3>2, <3>3 DEF Inv, ProfileOK, OpenOK, accounts, InTx, Running
    <3>7. LinksOK'
      BY <3>1, <3>2, <3>3 DEF Inv, LinksOK, Owner, accounts
    <3>8. profile[r].id # Unknown => Owner(r) = who[r]
      BY <3>1, <1>t DEF Inv, ProfileOK, LinksOK, Owner, TypeOK
    <3>9. OwnAccountIfKnown'
      BY <3>1, <3>2, <3>3, <3>8 DEF Inv, OwnAccountIfKnown
    <3>10. LockHolds'
      BY <3>1, <3>2, <3>3, <2>2 DEF Inv, LockHolds, OpenOK, Running
    <3>11. OAuthUsersLinked'
      BY <3>1 DEF Inv, OAuthUsersLinked, accounts
    <3> QED  BY <3>5, <3>6, <3>7, <3>9, <3>10, <3>11 DEF Inv
  <2> QED  BY <2>1, <2>2
<1>6. ASSUME NEW r \in Requests, TxCreateUser(r) PROVE Inv'
  <2>1. /\ pc' = [pc EXCEPT ![r] = pc'[r]] /\ pc'[r] \in {"link", "conflict"}
        /\ pc[r] = "create" /\ created' \in [Requests -> BOOLEAN]
        /\ UNCHANGED <<accounts, cookie, who, provider, profile, account, open>>
    BY <1>6, <1>t DEF TxCreateUser, Goto, TypeOK, request
  <2>2. \A q \in Requests : q # r => pc'[q] = pc[q]
    BY <2>1, <1>t DEF TypeOK
  <2>3. TypeOK'
    BY <2>1, <1>t DEF TypeOK, accounts, Running, InTx, Outcomes
  <2>4. ProfileOK' /\ OpenOK'
    BY <2>1, <2>2 DEF Inv, ProfileOK, OpenOK, accounts, InTx, Running
  <2>5. LinksOK'
    BY <2>1, <2>2 DEF Inv, LinksOK, Owner, accounts
  <2>6. OwnAccountIfKnown' /\ LockHolds' /\ OAuthUsersLinked'
    BY <2>1, <2>2 DEF Inv, OwnAccountIfKnown, LockHolds, OAuthUsersLinked, accounts
  <2> QED  BY <2>3, <2>4, <2>5, <2>6 DEF Inv
<1>7. ASSUME NEW r \in Requests, TxCommit(r) PROVE Inv'
  <2> DEFINE v == provider[r]  i == profile[r].id
  <2>1. /\ pc[r] = "commit" /\ pc' = [pc EXCEPT ![r] = "issue"]
        /\ users' = users \cup {Email(r)}
        /\ link' = [link EXCEPT ![v][i] = Email(r)]
        /\ account' = [account EXCEPT ![r] = Email(r)]
        /\ created' = [created EXCEPT ![r] = FALSE]
        /\ UNCHANGED <<local, locked, cookie, who, provider, profile, open>>
    BY <1>7 DEF TxCommit, Goto
  <2>2. Email(r) = who[r] /\ who[r] \in People /\ open[r] /\ Owner(r) = None
    BY <2>1, <1>t DEF Inv, ProfileOK, OpenOK, LinksOK, Email, InTx, TypeOK
  <2>3. v \in Providers /\ i \in Ids /\ i \in {who[r], Unknown}
    BY <1>t DEF TypeOK, Profiles, Inv, ProfileOK
  <2>4. /\ \A q \in Requests : q # r => pc'[q] = pc[q] /\ account'[q] = account[q]
        /\ pc'[r] = "issue" /\ account'[r] = who[r]
    BY <2>1, <2>2, <1>t DEF TypeOK
  <2>5. \A w \in Providers, j \in Ids :
          link'[w][j] = IF w = v /\ j = i THEN who[r] ELSE link[w][j]
    BY <2>1, <2>2, <2>3, <1>t DEF TypeOK
  <2>6. TypeOK'
    <3>1. link' \in [Providers -> [Ids -> users' \cup {None}]]
      BY <2>1, <2>2, <2>3, <1>t DEF TypeOK
    <3>2. account' \in [Requests -> users' \cup {None}]
      BY <2>1, <2>2, <1>t DEF TypeOK
    <3> QED  BY <2>1, <2>2, <3>1, <3>2, <1>t DEF TypeOK, Running
  <2>7. ProfileOK'
    BY <2>1, <2>4 DEF Inv, ProfileOK, InTx
  <2>8. OpenOK'
    BY <2>1, <2>4 DEF Inv, OpenOK, Running
  <2>9. LinksOK'
    <3>1. \A w \in Providers, p \in People : link'[w][p] \in {p, None}
      BY <2>3, <2>5, ConstantsAssumption DEF Inv, LinksOK, Ids
    <3>2. ASSUME NEW q \in Requests, pc'[q] = "commit" PROVE Owner(q)' = None
      <4>1. q # r /\ pc[q] = "commit"
        BY <3>2, <2>4
      <4>2. ~(provider[q] = v /\ profile[q].id = i) /\ Owner(q) = None
        BY <4>1, <2>1 DEF Inv, LinksOK
      <4>3. provider[q] \in Providers /\ profile[q].id \in Ids
        BY <1>t DEF TypeOK, Profiles
      <4> QED  BY <4>2, <4>3, <2>1, <2>5 DEF Owner
    <3>3. \A q, s \in Requests :
            /\ pc'[q] = "commit" /\ pc'[s] = "commit"
            /\ provider[q] = provider[s] /\ profile[q].id = profile[s].id
            => q = s
      BY <2>4 DEF Inv, LinksOK
    <3> QED  BY <3>1, <3>2, <3>3, <2>1 DEF LinksOK
  <2>10. OwnAccountIfKnown'
    BY <2>1, <2>4 DEF Inv, OwnAccountIfKnown
  <2>11. LockHolds'
    BY <2>1, <2>2, <2>4 DEF Inv, LockHolds
  <2>12. OAuthUsersLinked'
    <3> SUFFICES ASSUME NEW p \in users' \ local
                 PROVE  \E w \in Providers, j \in Ids : link'[w][j] = p
      BY <2>1 DEF OAuthUsersLinked
    <3>1. CASE p = who[r]
      BY <3>1, <2>3, <2>5
    <3>2. CASE p # who[r]
      <4>1. p \in users \ local /\ p # None
        BY <3>2, <2>1, <2>2, <1>t, ConstantsAssumption DEF TypeOK
      <4>2. PICK w \in Providers, j \in Ids : link[w][j] = p
        BY <4>1 DEF Inv, OAuthUsersLinked
      <4>3. ~(w = v /\ j = i)
        BY <4>1, <4>2, <2>2 DEF Owner
      <4> QED  BY <4>2, <4>3, <2>5
    <3> QED  BY <3>1, <3>2
  <2> QED  BY <2>6, <2>7, <2>8, <2>9, <2>10, <2>11, <2>12 DEF Inv
<1>8. ASSUME NEW p \in People, SignUp(p) \/ Lock(p) \/ Unlock(p) PROVE Inv'
  <2> USE DEF SignUp, Lock, Unlock
  <2>1. UNCHANGED <<link, cookie, pc, request>>
    BY <1>8
  <2>2. \A r \in Requests : open'[r] \in BOOLEAN /\ (open[r] => open'[r])
    BY <1>8, <1>t DEF TypeOK
  <2>3. TypeOK'
    <3>1. users \subseteq users' /\ users' \subseteq People
      BY <1>8, <1>t DEF TypeOK
    <3>2. local' \subseteq users' /\ locked' \subseteq local'
      BY <1>8, <1>t DEF TypeOK
    <3>3. open' \in [Requests -> BOOLEAN]
      BY <1>8, <1>t DEF TypeOK
    <3> QED  BY <2>1, <3>1, <3>2, <3>3, <1>t DEF TypeOK, request
  <2>4. ProfileOK' /\ LinksOK' /\ OwnAccountIfKnown'
    BY <2>1 DEF Inv, ProfileOK, LinksOK, OwnAccountIfKnown, Owner, request
  <2>5. OpenOK'
    BY <1>8, <1>t, <2>1, <2>2 DEF Inv, OpenOK, TypeOK, request
  <2>6. LockHolds'
    BY <2>1, <2>2 DEF Inv, LockHolds, request
  <2>7. OAuthUsersLinked'
    BY <1>8, <2>1 DEF Inv, OAuthUsersLinked
  <2> QED  BY <2>3, <2>4, <2>5, <2>6, <2>7 DEF Inv
<1>9. CASE Crash
  <2>1. /\ \A r \in Requests : pc'[r] = IF pc[r] \in Running THEN "error" ELSE pc[r]
        /\ pc' \in [Requests -> {"idle", "away"} \cup Running \cup Outcomes]
        /\ UNCHANGED <<accounts, cookie, request, open>>
    BY <1>9, <1>t DEF Crash, TypeOK, Outcomes
  <2>2. TypeOK'
    BY <2>1, <1>t DEF TypeOK, accounts, request
  <2>3. ProfileOK' /\ OpenOK' /\ LinksOK'
    BY <2>1 DEF Inv, ProfileOK, OpenOK, LinksOK, Owner, accounts, request, Running, InTx
  <2>4. OwnAccountIfKnown' /\ LockHolds' /\ OAuthUsersLinked'
    BY <2>1 DEF Inv, OwnAccountIfKnown, LockHolds, OAuthUsersLinked, accounts, request, Running
  <2> QED  BY <2>2, <2>3, <2>4 DEF Inv
<1>10. CASE UNCHANGED vars
  <2>1. UNCHANGED <<accounts, request, cookie, pc, open>>
    BY <1>10 DEF vars
  <2>2. TypeOK' /\ ProfileOK' /\ OpenOK' /\ LinksOK'
    BY <2>1 DEF Inv, TypeOK, ProfileOK, OpenOK, LinksOK, Owner, accounts, request
  <2>3. OwnAccountIfKnown' /\ LockHolds' /\ OAuthUsersLinked'
    BY <2>1 DEF Inv, OwnAccountIfKnown, LockHolds, OAuthUsersLinked, accounts, request
  <2> QED  BY <2>2, <2>3 DEF Inv
<1> QED
  BY <1>1, <1>2, <1>3, <1>4, <1>5, <1>6, <1>7, <1>8, <1>9, <1>10 DEF Next

-----------------------------------------------------------------------------
(* The theorems.                                                           *)

\* The parts hold together in every reachable state.
THEOREM Invariant == Spec => []Inv
BY InvInit, InvNext, PTL DEF Spec

\* The variables keep their types.
THEOREM TypeCorrect == Spec => []TypeOK
<1>1. Inv => TypeOK
  BY DEF Inv
<1> QED  BY <1>1, Invariant, PTL

\* Whoever signs in with an id that the provider gave comes into his own
\* account, however many callbacks and sign-ups run at the same time.
THEOREM OwnAccountHolds == Spec => []OwnAccountIfKnown
<1>1. Inv => OwnAccountIfKnown
  BY DEF Inv
<1> QED  BY <1>1, Invariant, PTL

\* An account that was locked all the while lets its owner in by no provider.
THEOREM LockKept == Spec => []LockHolds
<1>1. Inv => LockHolds
  BY DEF Inv
<1> QED  BY <1>1, Invariant, PTL

\* No account is left without a password and without a link.
THEOREM NoneUnreachable == Spec => []OAuthUsersLinked
<1>1. Inv => OAuthUsersLinked
  BY DEF Inv
<1> QED  BY <1>1, Invariant, PTL
=============================================================================
