---------------------------- MODULE PagesProofs ----------------------------
(***************************************************************************)
(* The safety of Pages for any calls, sessions and tokens.  The API client *)
(* keeps its invariant under the steps of the pages, in any number of tabs *)
(* (BrowserOK).  What RootPage shows is proved for one tab: a page cannot  *)
(* know what another tab has done to the cookies they share.               *)
(***************************************************************************)
EXTENDS Pages, FetchWithAuthProofs

-----------------------------------------------------------------------------
(* What the steps of the pages do to the calls.                            *)

Posted(c, k) ==
  /\ pc'[c] = "call" /\ kind'[c] = k /\ isRetry'[c] = FALSE /\ cookie'[c] = jar
  /\ reply'[c] = "none" /\ sends'[c] = 1

Renewed(d) ==
  /\ pc'[d] = "idle" /\ kind'[d] = "me" /\ isRetry'[d] = FALSE /\ cookie'[d] = None
  /\ reply'[d] = "none" /\ sends'[d] = 0

Untouched(d) == pc'[d] = pc[d] /\ kind'[d] = kind[d] /\ Same(d)

\* Update, call by call.
LEMMA UpdateCalls ==
  ASSUME TypeOK, NEW D \in SUBSET Calls, NEW c \in Calls \cup {None}, NEW k \in AllKinds,
         Update(D, c, k)
  PROVE  /\ pc' \in [Calls -> {"idle", "call", "refresh", "waiting", "done", "gone"}]
         /\ kind' \in [Calls -> AllKinds]
         /\ isRetry' \in [Calls -> BOOLEAN]
         /\ cookie' \in [Calls -> Tokens \cup {None}]
         /\ reply' \in [Calls -> Replies]
         /\ sends' \in [Calls -> Nat]
         /\ UNCHANGED <<tables, jar, tab>>
         /\ c \in Calls => Posted(c, k)
         /\ \A d \in D \ {c} : Renewed(d)
         /\ \A d \in Calls \ (D \cup {c}) : Untouched(d)
<1> USE DEF TypeOK, Update, Replies, AllKinds
<1> DEFINE renewed == D \cup ({c} \cap Calls)
<1>1. /\ renewed \in SUBSET Calls
      /\ \A d \in Calls : d \in renewed <=> d \in D \/ d = c
  OBVIOUS
<1>2. /\ pc' = [d \in Calls |-> IF d = c THEN "call" ELSE IF d \in renewed THEN "idle" ELSE pc[d]]
      /\ kind' = [d \in Calls |-> IF d = c THEN k ELSE IF d \in renewed THEN "me" ELSE kind[d]]
      /\ isRetry' = [d \in Calls |-> d \notin renewed /\ isRetry[d]]
      /\ cookie' = [d \in Calls |-> IF d = c THEN jar ELSE IF d \in renewed THEN None ELSE cookie[d]]
      /\ reply' = [d \in Calls |-> IF d \in renewed THEN "none" ELSE reply[d]]
      /\ sends' = [d \in Calls |-> IF d = c THEN 1 ELSE IF d \in renewed THEN 0 ELSE sends[d]]
  OBVIOUS
<1> HIDE DEF renewed, Update
<1>3. /\ pc' \in [Calls -> {"idle", "call", "refresh", "waiting", "done", "gone"}]
      /\ kind' \in [Calls -> AllKinds]
      /\ isRetry' \in [Calls -> BOOLEAN]
      /\ cookie' \in [Calls -> Tokens \cup {None}]
      /\ reply' \in [Calls -> Replies]
      /\ sends' \in [Calls -> Nat]
  BY <1>2
<1>4. \A d \in Calls : isRetry'[d] = (d \notin renewed /\ isRetry[d])
  BY <1>2
<1>5. c \in Calls => Posted(c, k)
  BY <1>1, <1>2, <1>4 DEF Posted
<1>6. \A d \in D \ {c} : Renewed(d)
  BY <1>1, <1>2, <1>4 DEF Renewed
<1>7. ASSUME NEW d \in Calls \ (D \cup {c}) PROVE Untouched(d)
  <2>1. d \notin renewed /\ d # c
    BY <1>1
  <2>2. isRetry'[d] = isRetry[d]
    BY <1>4, <2>1
  <2> QED  BY <1>2, <2>1, <2>2 DEF Untouched, Same
<1>8. UNCHANGED <<tables, jar, tab>>
  BY DEF Update
<1> QED  BY <1>3, <1>5, <1>6, <1>7, <1>8

\* Inside the document, calls that are done with are dropped, and one is made.
InDocument(D, c) ==
  /\ \A d \in D : pc[d] = "done"
  /\ c \in Calls => pc[c] = "idle" \/ c \in D
  /\ Quietly

\* When tab t loads a document, all its calls are dropped.
Loaded(t, D, c) ==
  /\ D \subseteq CallsOf(t) /\ \A d \in CallsOf(t) \ D : pc[d] = "idle"
  /\ c \in Calls => tab[c] = t
  /\ isRefreshing' = [isRefreshing EXCEPT ![t] = FALSE]
  /\ subscribers' = [subscribers EXCEPT ![t] = {}]
  /\ Lose(D)

\* Either way the API client is left in order.
LEMMA UpdateKeepsInv ==
  ASSUME Inv, NEW t \in Tabs, NEW D \in SUBSET Calls, NEW c \in Calls \cup {None},
         NEW k \in AllKinds, Update(D, c, k), InDocument(D, c) \/ Loaded(t, D, c)
  PROVE  Inv'
<1> USE ConstantsAssumption, PagesAssumption
<1>i. TypeOK /\ TabsOK /\ SendsOK /\ TokensOK /\ SessionKept
  BY DEF Inv
<1>1. /\ pc' \in [Calls -> {"idle", "call", "refresh", "waiting", "done", "gone"}]
      /\ kind' \in [Calls -> AllKinds]
      /\ isRetry' \in [Calls -> BOOLEAN]
      /\ cookie' \in [Calls -> Tokens \cup {None}]
      /\ reply' \in [Calls -> Replies]
      /\ sends' \in [Calls -> Nat]
      /\ UNCHANGED <<tables, jar, tab>>
  BY <1>i, UpdateCalls
<1>2. /\ c \in Calls => Posted(c, k)
      /\ \A d \in D \ {c} : Renewed(d)
      /\ \A d \in Calls \ (D \cup {c}) : Untouched(d)
  BY <1>i, UpdateCalls
<1>3. TypeOK'
  <2>1. /\ isRefreshing' \in [Tabs -> BOOLEAN]
        /\ subscribers' \in [Tabs -> SUBSET Calls]
        /\ events' \subseteq {"lost", "logout", "error", "expired"}
    BY <1>i DEF TypeOK, InDocument, Loaded, Quietly, tabs, Lose
  <2> QED  BY <1>i, <1>1, <2>1 DEF TypeOK, Replies, tables
<1>4. TabsOK'
  <2>1. \A d \in Calls : pc'[d] \in {"refresh", "waiting"} =>
          d \notin D /\ d # c /\ pc'[d] = pc[d]
    BY <1>2 DEF Posted, Renewed, Untouched
  <2>2. CASE InDocument(D, c)
    <3>1. \A d \in Calls : pc[d] \in {"refresh", "waiting"} => pc'[d] = pc[d]
      BY <1>2, <2>2 DEF InDocument, Untouched
    <3>2. UNCHANGED <<isRefreshing, subscribers, tab>>
      BY <1>1, <2>2 DEF InDocument, Quietly, tabs
    <3>3. \A d \in Calls : /\ pc'[d] = "refresh" <=> pc[d] = "refresh"
                           /\ pc'[d] = "waiting" <=> pc[d] = "waiting"
      BY <2>1, <3>1
    <3> QED  BY <1>i, <3>2, <3>3 DEF TabsOK
  <2>3. CASE Loaded(t, D, c)
    <3>1. \A d \in Calls : tab[d] # t => d \notin D /\ d # c
      BY <2>3 DEF Loaded, CallsOf
    <3>2. \A d \in Calls : tab[d] # t => pc'[d] = pc[d]
      BY <1>2, <3>1 DEF Untouched
    <3>3. \A d \in Calls : tab[d] = t => pc'[d] \notin {"refresh", "waiting"}
      BY <2>1, <2>3 DEF Loaded, CallsOf
    <3>4. \A u \in Tabs : /\ isRefreshing'[u] = (u # t /\ isRefreshing[u])
                          /\ subscribers'[u] = IF u = t THEN {} ELSE subscribers[u]
      BY <1>i, <2>3 DEF Loaded, TypeOK
    <3>5. tab' = tab
      BY <1>1
    <3>6. \A u \in Tabs : isRefreshing'[u] <=> \E d \in Calls : tab[d] = u /\ pc'[d] = "refresh"
      <4> SUFFICES ASSUME NEW u \in Tabs
                   PROVE  isRefreshing'[u] <=> \E d \in Calls : tab[d] = u /\ pc'[d] = "refresh"
        OBVIOUS
      <4>1. CASE u = t
        BY <3>3, <3>4, <4>1
      <4>2. CASE u # t
        <5>1. isRefreshing'[u] <=> isRefreshing[u]
          BY <3>4, <4>2
        <5>2. isRefreshing[u] <=> \E d \in Calls : tab[d] = u /\ pc[d] = "refresh"
          BY <1>i DEF TabsOK
        <5>3. \A d \in Calls : tab[d] = u => pc'[d] = pc[d]
          BY <3>2, <4>2
        <5> QED  BY <5>1, <5>2, <5>3
      <4> QED  BY <4>1, <4>2
    <3>7. \A d \in Calls : pc'[d] = "waiting" => isRefreshing'[tab'[d]]
      <4> SUFFICES ASSUME NEW d \in Calls, pc'[d] = "waiting" PROVE isRefreshing'[tab[d]]
        BY <3>5
      <4>1. tab[d] # t /\ tab[d] \in Tabs
        BY <1>i, <3>3 DEF TypeOK
      <4>2. isRefreshing[tab[d]]
        BY <1>i, <3>2, <4>1 DEF TabsOK
      <4> QED  BY <3>4, <4>1, <4>2
    <3>8. \A u \in Tabs, d \in Calls : d \in subscribers'[u] <=> tab[d] = u /\ pc'[d] = "waiting"
      BY <1>i, <3>2, <3>3, <3>4 DEF TabsOK
    <3>9. \A d, e \in Calls : pc'[d] = "refresh" /\ pc'[e] = "refresh" /\ tab[d] = tab[e] => d = e
      BY <1>i, <3>2, <3>3 DEF TabsOK
    <3> QED  BY <3>5, <3>6, <3>7, <3>8, <3>9 DEF TabsOK
  <2> QED  BY <2>2, <2>3
<1>5. SendsOK'
  BY <1>i, <1>2 DEF SendsOK, Posted, Renewed, Untouched, Same
<1>6. TokensOK' /\ SessionKept'
  <2>1. /\ events \subseteq events'
        /\ Clean' => \A d \in D \ {c} : reply[d] \notin Tokens
        /\ c \in Calls => (Clean' => reply[c] \notin Tokens)
    <3>1. CASE InDocument(D, c)
      BY <1>i, <3>1 DEF InDocument, Quietly, TokensOK
    <3>2. CASE Loaded(t, D, c)
      <4>1. \A d \in Calls : reply[d] \in Tokens => OnTheWire(d) /\ pc[d] # "idle"
        BY <1>i DEF TokensOK, OnTheWire
      <4>2. events' = IF \E d \in D : OnTheWire(d) /\ reply[d] \in Tokens
                      THEN events \cup {"lost"} ELSE events
        BY <3>2 DEF Loaded, Lose
      <4>3. c \in Calls => c \in D \/ pc[c] = "idle"
        BY <3>2 DEF Loaded, CallsOf
      <4> QED  BY <4>1, <4>2, <4>3 DEF Clean
    <3> QED  BY <3>1, <3>2
  <2>2. \A d \in Calls : cookie'[d] \in {cookie[d], jar', None}
    BY <1>1, <1>2 DEF Posted, Renewed, Untouched, Same
  <2>3. \A d \in Calls : reply'[d] \in Tokens => reply'[d] = reply[d] /\ pc'[d] = pc[d]
    BY <1>2 DEF Posted, Renewed, Untouched, Same
  <2>4. Clean' => \A d \in Calls : reply[d] \in Tokens =>
          reply'[d] = reply[d] /\ pc'[d] = pc[d] /\ cookie'[d] = cookie[d]
    BY <1>2, <2>1 DEF Untouched, Same
  <2>5. \A d \in Calls : pc'[d] = "call" /\ kind'[d] = "logout" /\ reply'[d] = "ok"
          => pc[d] = "call" /\ kind[d] = "logout" /\ reply[d] = "ok"
    BY <1>2 DEF Posted, Renewed, Untouched, Same
  <2>6. \A d \in Calls : pc'[d] = "idle" =>
          (pc[d] = "idle" /\ reply'[d] = reply[d]) \/ reply'[d] = "none"
    BY <1>2 DEF Posted, Renewed, Untouched, Same
  <2>7. UNCHANGED <<live, opened, used, fresh, jar>>
    BY <1>1 DEF tables
  <2> QED  BY <1>i, <1>3, <2>1, <2>2, <2>3, <2>4, <2>5, <2>6, <2>7, BrowserStep
<1> QED  BY <1>3, <1>4, <1>5, <1>6 DEF Inv

-----------------------------------------------------------------------------
(* The steps of the pages are of four kinds, besides those that only post. *)

\* A logout is never rejected, a login's answer is the only one that brings a
\* token, and what went wrong has been noted.
CallShape(c) ==
  /\ pc[c] # "gone"
  /\ kind[c] = "logout" /\ pc[c] # "idle" =>
       pc[c] \in {"call", "done"} /\ reply[c] \in {"none", "ok", "error", "timeout"}
  /\ pc[c] = "done" => reply[c] # "none"
  /\ pc[c] = "waiting" => reply[c] = "401"
  /\ pc[c] = "call" /\ reply[c] \in Tokens => kind[c] = "login"
  /\ reply[c] = "error" => "error" \in events
  /\ reply[c] = "timeout" => smooth = FALSE

\* A call that a page waits for is that of RootPage, or of the form that was
\* submitted, and the only one.
MadeShape ==
  /\ \A c \in Calls : made[c] =>
       /\ pc[c] # "idle"
       /\ \/ kind[c] = "me" /\ view[tab[c]] = "loading"
          \/ kind[c] \in Forms /\ view[tab[c]] = kind[c] /\ busy[tab[c]]
  /\ \A c, d \in Calls : made[c] /\ made[d] /\ tab[c] = tab[d] => c = d

PagesShape == MadeShape /\ \A c \in Calls : CallShape(c)

\* The document is loaded, with RootPage or a form.
LoadsPage(t) ==
  \E D \in SUBSET Calls, c \in Calls \cup {None}, v \in Forms \cup {"loading"} :
    /\ v = "loading" <=> c \in Calls
    /\ c \in Calls => pc[c] = "idle" \/ c \in D
    /\ Update(D, c, "me") /\ Loaded(t, D, c) /\ Mount(t, v, c)
    /\ smooth' => smooth /\ \A d \in D : kind[d] = "me" \/ (kind[d] = "logout" /\ pc[d] = "done")

\* RootPage is mounted: by a link, or when a login has succeeded.
MountsRoot(t) ==
  \E D \in SUBSET Calls, c \in Calls :
    /\ tab[c] = t /\ Update(D, c, "me") /\ InDocument(D, c) /\ Mount(t, "loading", c)
    /\ \A d \in D : kind[d] = "login" /\ tab[d] = t
    /\ view[t] \notin RootViews
    /\ smooth' => smooth /\ (busy[t] => D # {})

\* A call has ended, and the page it was made by, if any, stays or says so.
EndsCall(c) ==
  /\ pc[c] = "done" /\ kind[c] # "logout"
  /\ Update({c}, None, "me") /\ Quietly
  /\ made' = [made EXCEPT ![c] = FALSE]
  /\ smooth' = smooth
  /\ \E b \in BOOLEAN :
       /\ busy' = [busy EXCEPT ![tab[c]] = b]
       /\ b = (busy[tab[c]] /\ ~(made[c] /\ kind[c] # "me"))
  /\ IF made[c] /\ kind[c] = "me"
     THEN view' = [view EXCEPT ![tab[c]] = IF reply[c] = "ok" THEN "profile" ELSE "home"]
     ELSE view' = view \/ (made[c] /\ view' = [view EXCEPT ![tab[c]] = "sent"])

\* What the user does.
LEMMA UserSteps ==
  ASSUME PagesTypeOK, PagesShape, NEW t \in Tabs, User(t)
  PROVE  \/ LoadsPage(t) \/ MountsRoot(t) \/ Submit(t) \/ Logout(t)
         \/ \E f \in Forms : GoForm(t, f)
<1> USE PagesAssumption
<1>0. \A d \in CallsOf(t) :
        pc[d] \notin {"call", "refresh", "waiting", "done"} => pc[d] = "idle"
  BY DEF PagesTypeOK, TypeOK, PagesShape, CallShape, CallsOf
<1> DEFINE running == {d \in CallsOf(t) : pc[d] \in {"call", "refresh", "waiting", "done"}}
<1>1. CASE Reload(t)
  <2>1. PICK c \in Calls : Free(t, c) /\ Abort(t, {}, c, "me") /\ Mount(t, "loading", c)
    BY <1>1 DEF Reload, LoadRoot
  <2>2. /\ Lose(running) /\ Update(running, c, "me")
        /\ smooth' = (smooth /\ \A d \in running : kind[d] = "me")
        /\ isRefreshing' = [isRefreshing EXCEPT ![t] = FALSE]
        /\ subscribers' = [subscribers EXCEPT ![t] = {}]
    <3>1. running \ {} = running /\ running \cup {} = running
      OBVIOUS
    <3> QED  BY <2>1, <3>1 DEF Abort
  <2>3. Loaded(t, running, c) /\ running \in SUBSET Calls /\ pc[c] = "idle"
    BY <1>0, <2>1, <2>2 DEF Loaded, Free, CallsOf
  <2>4. LoadsPage(t)
    BY <2>1, <2>2, <2>3 DEF LoadsPage
  <2> QED  BY <2>4
<1>2. ASSUME NEW f \in Forms, OpenForm(t, f) PROVE LoadsPage(t)
  <2>1. Abort(t, {}, None, "me") /\ Mount(t, f, None)
    BY <1>2 DEF OpenForm
  <2>2. /\ Lose(running) /\ Update(running, None, "me")
        /\ smooth' = (smooth /\ \A d \in running : kind[d] = "me")
        /\ isRefreshing' = [isRefreshing EXCEPT ![t] = FALSE]
        /\ subscribers' = [subscribers EXCEPT ![t] = {}]
    <3>1. running \ {} = running /\ running \cup {} = running
      OBVIOUS
    <3> QED  BY <2>1, <3>1 DEF Abort
  <2>3. Loaded(t, running, None) /\ running \in SUBSET Calls
    BY <1>0, <2>1, <2>2 DEF Loaded, CallsOf
  <2>4. f # "loading"
    BY DEF Forms
  <2> QED  BY <2>1, <2>2, <2>3, <2>4 DEF LoadsPage
<1>3. CASE GoRoot(t)
  <2>1. PICK c \in Calls : /\ Free(t, c) /\ Update({}, c, "me")
                           /\ Mount(t, "loading", c) /\ Quietly
    BY <1>3 DEF GoRoot, MountRoot
  <2>2. view[t] \notin RootViews /\ (smooth' => smooth /\ ~busy[t])
    BY <1>3 DEF GoRoot, Leave
  <2> QED  BY <2>1, <2>2 DEF MountsRoot, Free, InDocument
<1> QED  BY <1>1, <1>2, <1>3 DEF User

\* What the callers of fetchWithAuth do.
LEMMA CallerSteps ==
  ASSUME PagesTypeOK, PagesShape, NEW c \in Calls, Continue(c)
  PROVE  EndsCall(c) \/ MountsRoot(tab[c]) \/ LoadsPage(tab[c])
<1> USE PagesAssumption
<1> DEFINE t == tab[c]
<1>t. /\ t \in Tabs /\ busy \in [Tabs -> BOOLEAN] /\ made \in [Calls -> BOOLEAN]
      /\ view \in [Tabs -> RootViews \cup Forms \cup {"sent"}]
  BY DEF PagesTypeOK, TypeOK
<1>d. ASSUME Done(c), pc[c] = "done", kind[c] \in Forms, smooth' = smooth,
             view' = view \/ (made[c] /\ view' = [view EXCEPT ![t] = "sent"])
      PROVE  EndsCall(c)
  <2>1. kind[c] # "logout" /\ kind[c] # "me"
    BY <1>d DEF Forms
  <2>2. \E b \in BOOLEAN : /\ busy' = [busy EXCEPT ![t] = b]
                           /\ b = (busy[t] /\ ~(made[c] /\ kind[c] # "me"))
    BY <1>t, <1>d, <2>1 DEF Done
  <2> QED  BY <1>d, <2>1, <2>2 DEF EndsCall, Done
<1>1. CASE FetchMeDone(c)
  <2>1. busy' = busy /\ busy[t] \in BOOLEAN
    BY <1>1, <1>t DEF FetchMeDone
  <2>2. busy' = [busy EXCEPT ![t] = busy[t]]
    BY <1>t, <2>1
  <2>3. \E b \in BOOLEAN : /\ busy' = [busy EXCEPT ![t] = b]
                           /\ b = (busy[t] /\ ~(made[c] /\ kind[c] # "me"))
    BY <1>1, <2>1, <2>2 DEF FetchMeDone, Ended
  <2> QED  BY <1>1, <2>3 DEF FetchMeDone, EndsCall, Ended, Show
<1>2. CASE LoginSucceeded(c)
  <2>1. CASE view[t] \in RootViews
    BY <1>2, <1>d, <2>1 DEF LoginSucceeded, Ended, Forms
  <2>2. CASE view[t] \notin RootViews
    <3>1. PICK e \in Calls : /\ Free(t, e) \/ e \in {c}
                             /\ Update({c}, e, "me") /\ Mount(t, "loading", e) /\ Quietly
      BY <1>2, <2>2 DEF LoginSucceeded, MountRoot
    <3>2. /\ tab[e] = t /\ InDocument({c}, e) /\ {c} \in SUBSET Calls
          /\ \A d \in {c} : kind[d] = "login" /\ tab[d] = t
          /\ smooth' = smooth
      BY <1>2, <3>1 DEF LoginSucceeded, Ended, Free, InDocument
    <3> QED  BY <2>2, <3>1, <3>2 DEF MountsRoot
  <2> QED  BY <2>1, <2>2
<1>3. CASE SignUpSucceeded(c)
  BY <1>3, <1>d DEF SignUpSucceeded, Ended, Forms, Show
<1>4. CASE SubmitFailed(c)
  BY <1>4, <1>d DEF SubmitFailed, Ended, Forms
<1>5. CASE LogoutDone(c)
  <2> DEFINE running == {d \in CallsOf(t) : pc[d] \in {"call", "refresh", "waiting", "done"}} \ {c}
             D       == running \cup {c}
  <2>1. PICK e \in Calls : /\ Free(t, e) \/ e \in {c}
                           /\ Abort(t, {c}, e, "me") /\ Mount(t, "loading", e)
    BY <1>5 DEF LogoutDone, LoadRoot
  <2>2. pc[c] = "done" /\ kind[c] = "logout"
    BY <1>5 DEF LogoutDone, Ended
  <2>3. /\ Lose(running) /\ Update(D, e, "me")
        /\ smooth' = (smooth /\ \A d \in running : kind[d] = "me")
        /\ isRefreshing' = [isRefreshing EXCEPT ![t] = FALSE]
        /\ subscribers' = [subscribers EXCEPT ![t] = {}]
    BY <2>1 DEF Abort
  <2>4. Lose(D)
    BY <2>2, <2>3 DEF Lose, OnTheWire
  <2>5. /\ D \in SUBSET Calls /\ D \subseteq CallsOf(t)
        /\ \A d \in CallsOf(t) \ D : pc[d] = "idle"
    BY DEF CallsOf, PagesTypeOK, TypeOK, PagesShape, CallShape
  <2>6. Loaded(t, D, e) /\ (pc[e] = "idle" \/ e \in D)
    BY <2>1, <2>3, <2>4, <2>5 DEF Loaded, Free
  <2>7. smooth' => smooth /\ \A d \in D : kind[d] = "me" \/ (kind[d] = "logout" /\ pc[d] = "done")
    BY <2>2, <2>3
  <2> HIDE DEF D
  <2> QED  BY <2>1, <2>3, <2>5, <2>6, <2>7 DEF LoadsPage
<1> QED  BY <1>1, <1>2, <1>3, <1>4, <1>5 DEF Continue

-----------------------------------------------------------------------------
(* The API client under the pages, types, and PagesShape.                  *)

\* A step of the API client, seen from the pages.
ClientStep ==
  \/ \E c \in Calls : (Serve(c) \/ Proceed(c)) /\ UNCHANGED ui
  \/ \E c \in Calls : Timeout(c) /\ smooth' = FALSE /\ UNCHANGED <<view, busy, made, acts>>
  \/ Age /\ UNCHANGED ui

\* PagesNext, sorted by what the steps do.
LEMMA SortedSteps ==
  ASSUME PagesTypeOK, PagesShape, [PagesNext]_pagesVars
  PROVE  \/ ClientStep
         \/ \E t \in Tabs : \/ LoadsPage(t) \/ MountsRoot(t) \/ Submit(t) \/ Logout(t)
                            \/ \E f \in Forms : GoForm(t, f)
         \/ \E c \in Calls : EndsCall(c)
         \/ UNCHANGED pagesVars
<1>1. ASSUME NEW c \in Calls, Continue(c)
      PROVE  EndsCall(c) \/ \E t \in Tabs : MountsRoot(t) \/ LoadsPage(t)
  <2>1. tab[c] \in Tabs
    BY DEF PagesTypeOK, TypeOK
  <2> QED  BY <1>1, <2>1, CallerSteps
<1>2. ASSUME NEW t \in Tabs, User(t)
      PROVE  \/ LoadsPage(t) \/ MountsRoot(t) \/ Submit(t) \/ Logout(t)
             \/ \E f \in Forms : GoForm(t, f)
  BY <1>2, UserSteps
<1> QED
  BY <1>1, <1>2 DEF PagesNext, ClientStep

\* A submission and a logout post a call.
LEMMA Posts ==
  ASSUME PagesTypeOK, NEW t \in Tabs, Submit(t) \/ Logout(t)
  PROVE  \E c \in Calls, k \in AllKinds :
           /\ tab[c] = t /\ pc[c] = "idle"
           /\ Update({}, c, k) /\ InDocument({}, c)
           /\ view' = view /\ smooth' = smooth
           /\ \/ Logout(t) /\ k = "logout" /\ made' = made /\ busy' = busy
              \/ /\ Submit(t) /\ k = view[t] /\ k \in Forms /\ ~busy[t]
                 /\ made' = [made EXCEPT ![c] = TRUE] /\ busy' = [busy EXCEPT ![t] = TRUE]
<1>1. CASE Submit(t)
  <2>1. PICK c \in Calls : /\ Free(t, c) /\ Update({}, c, view[t])
                           /\ made' = [made EXCEPT ![c] = TRUE]
    BY <1>1 DEF Submit
  <2>2. view[t] \in AllKinds
    BY <1>1 DEF Submit, AllKinds, Forms
  <2> QED  BY <1>1, <2>1, <2>2 DEF Submit, Free, InDocument
<1>2. CASE Logout(t)
  <2>1. PICK c \in Calls : Free(t, c) /\ Update({}, c, "logout")
    BY <1>2 DEF Logout
  <2>2. "logout" \in AllKinds
    BY DEF AllKinds
  <2> QED  BY <1>2, <2>1, <2>2 DEF Logout, Free, InDocument
<1> QED  BY <1>1, <1>2

\* Whatever the pages do, the API client's invariant holds.
LEMMA InvStep ==
  ASSUME Inv, PagesTypeOK, PagesShape, [PagesNext]_pagesVars
  PROVE  Inv'
<1> USE PagesAssumption
<1>k. "me" \in AllKinds
  BY DEF AllKinds
<1>1. CASE [Next]_vars
  <2>1. TypeOK'
    BY <1>1, TypeStep DEF Inv
  <2> QED  BY <1>1, <2>1, TabsStep, SendsStep, TokensStep DEF Inv
<1>2. CASE ClientStep
  BY <1>1, <1>2 DEF ClientStep, Next
<1>3. ASSUME NEW t \in Tabs, LoadsPage(t) PROVE Inv'
  BY <1>k, <1>3, UpdateKeepsInv DEF LoadsPage
<1>4. ASSUME NEW t \in Tabs, MountsRoot(t) PROVE Inv'
  BY <1>k, <1>4, UpdateKeepsInv DEF MountsRoot
<1>5. ASSUME NEW t \in Tabs, Submit(t) \/ Logout(t) PROVE Inv'
  <2>1. PICK c \in Calls, k \in AllKinds : Update({}, c, k) /\ InDocument({}, c)
    BY <1>5, Posts
  <2>2. {} \in SUBSET Calls /\ c \in Calls \cup {None}
    OBVIOUS
  <2> QED  BY <2>1, <2>2, UpdateKeepsInv
<1>6. ASSUME NEW c \in Calls, EndsCall(c) PROVE Inv'
  <2>1. /\ {c} \in SUBSET Calls /\ None \in Calls \cup {None}
        /\ Update({c}, None, "me") /\ InDocument({c}, None)
    BY <1>6 DEF EndsCall, InDocument
  <2>2. tab[c] \in Tabs
    BY DEF PagesTypeOK, TypeOK
  <2> QED  BY <1>k, <2>1, <2>2, UpdateKeepsInv
<1>7. CASE UNCHANGED vars
  BY <1>1, <1>7
<1> QED
  BY <1>2, <1>3, <1>4, <1>5, <1>6, <1>7, SortedSteps DEF GoForm, pagesVars

\* Every step keeps the types.
LEMMA PagesTypeStep ==
  ASSUME PagesTypeOK, PagesShape, TypeOK', [PagesNext]_pagesVars
  PROVE  PagesTypeOK'
<1> USE PagesAssumption
<1>0. "loading" \in RootViews /\ "profile" \in RootViews /\ "home" \in RootViews
  BY DEF RootViews
<1>1. smooth' \in BOOLEAN /\ acts' \in 0..MaxActs
  <2>0. smooth \in BOOLEAN /\ acts \in 0..MaxActs /\ MaxActs \in Nat
    BY DEF PagesTypeOK
  <2>1. ASSUME NEW t \in Tabs, User(t) PROVE smooth' \in BOOLEAN /\ acts' \in 0..MaxActs
    <3>1. Act
      BY <2>1 DEF User, Reload, OpenForm, GoForm, GoRoot, Submit, Logout
    <3>2. acts' \in 0..MaxActs
      BY <2>0, <3>1 DEF Act
    <3>3. \A D : \A c, k : Abort(t, D, c, k) => smooth' \in BOOLEAN
      BY DEF Abort
    <3>4. smooth' \in BOOLEAN
      BY <2>0, <2>1, <3>3 DEF User, Reload, OpenForm, GoForm, GoRoot, Submit, Logout, LoadRoot, Leave
    <3> QED  BY <3>2, <3>4
  <2>2. ASSUME NEW c \in Calls, Continue(c) PROVE smooth' \in BOOLEAN /\ acts' \in 0..MaxActs
    <3>1. \A t, D, e, k : Abort(t, D, e, k) => smooth' \in BOOLEAN
      BY DEF Abort
    <3> QED
      BY <2>0, <2>2, <3>1 DEF Continue, FetchMeDone, LoginSucceeded, SignUpSucceeded,
         SubmitFailed, LogoutDone, LoadRoot
  <2>3. CASE ClientStep \/ UNCHANGED pagesVars
    BY <2>0, <2>3 DEF ClientStep, ui, pagesVars
  <2> QED  BY <2>1, <2>2, <2>3 DEF PagesNext, ClientStep
<1> DEFINE Shown == /\ view \in [Tabs -> RootViews \cup Forms \cup {"sent"}]
                    /\ busy \in [Tabs -> BOOLEAN]
                    /\ made \in [Calls -> BOOLEAN]
<1>2. Shown'
  <2>1. ASSUME NEW t \in Tabs, NEW v \in Forms \cup {"loading"}, NEW c, Mount(t, v, c)
        PROVE  Shown'
    BY <1>0, <2>1 DEF Mount, Show, PagesTypeOK
  <2>2. ASSUME NEW t \in Tabs,
               LoadsPage(t) \/ MountsRoot(t) \/ \E f \in Forms : GoForm(t, f)
        PROVE  Shown'
    BY <2>1, <2>2 DEF LoadsPage, MountsRoot, GoForm
  <2>3. ASSUME NEW t \in Tabs, Submit(t) \/ Logout(t) PROVE Shown'
    BY <2>3, Posts DEF PagesTypeOK
  <2>4. ASSUME NEW c \in Calls, EndsCall(c) PROVE Shown'
    <3>1. tab[c] \in Tabs
      BY DEF PagesTypeOK, TypeOK
    <3> QED  BY <1>0, <2>4, <3>1 DEF EndsCall, PagesTypeOK
  <2>5. CASE ClientStep \/ UNCHANGED pagesVars
    BY <2>5 DEF ClientStep, ui, pagesVars, PagesTypeOK
  <2> QED  BY <2>2, <2>3, <2>4, <2>5, SortedSteps
<1> QED  BY <1>1, <1>2 DEF PagesTypeOK

\* What the server answers to which call.
LEMMA ServeReplies ==
  ASSUME TypeOK, NEW c \in Calls, Serve(c)
  PROVE  /\ reply'[c] \in Tokens \cup {"ok", "401", "error"}
         /\ reply'[c] = "error" => "error" \in events'
         /\ pc[c] = "call" /\ reply'[c] \in Tokens => kind[c] = "login"
         /\ pc[c] = "call" /\ kind[c] = "logout" => reply'[c] \in {"ok", "error"}
         /\ events \subseteq events'
<1> USE ConstantsAssumption DEF TypeOK, Replies, Answer
<1>1. CASE ServeMe(c)        BY <1>1 DEF ServeMe
<1>2. CASE RefuseLogin(c)    BY <1>2 DEF RefuseLogin
<1>3. CASE AcceptLogin(c)    BY <1>3, NewTokenIsNew DEF AcceptLogin
<1>4. CASE ServeLogout(c)    BY <1>4 DEF ServeLogout
<1>5. CASE ServeSignUp(c)    BY <1>5 DEF ServeSignUp
<1>6. CASE ServeRefresh(c)   BY <1>6, NewTokenIsNew DEF ServeRefresh
<1>7. CASE RefuseRefresh(c)  BY <1>7 DEF RefuseRefresh
<1>8. CASE ServerError(c)    BY <1>8 DEF ServerError, Unserved, OnTheWire
<1> QED
  BY <1>1, <1>2, <1>3, <1>4, <1>5, <1>6, <1>7, <1>8 DEF Serve

\* The API client neither makes nor drops a call, and answers as it should.
LEMMA ClientShape ==
  ASSUME Inv, PagesShape, ClientStep
  PROVE  /\ \A c \in Calls : CallShape(c)'
         /\ \A c \in Calls : pc'[c] = "idle" <=> pc[c] = "idle"
         /\ UNCHANGED <<kind, tab, view, busy, made>>
         /\ smooth' \in {smooth, FALSE}
         /\ events \subseteq events'
<1> USE ConstantsAssumption
<1>i. TypeOK /\ TabsOK /\ TokensOK
  BY DEF Inv
<1>s. \A c \in Calls : CallShape(c)
  BY DEF PagesShape
<1>u. /\ UNCHANGED <<view, busy, made>>
      /\ smooth' \in {smooth, FALSE}
  BY DEF ClientStep, ui
<1>f. smooth = FALSE => smooth' = FALSE
  BY <1>u
<1> DEFINE Goal == /\ \A c \in Calls : CallShape(c)'
                   /\ \A c \in Calls : pc'[c] = "idle" <=> pc[c] = "idle"
                   /\ UNCHANGED <<kind, tab>>
                   /\ events \subseteq events'
<1>1. ASSUME NEW c \in Calls, Serve(c) PROVE Goal
  <2>1. /\ pc[c] \in {"call", "refresh"}
        /\ \A d \in Calls \ {c} : reply'[d] = reply[d]
        /\ UNCHANGED <<pc, kind, tab>>
    BY <1>1, <1>i, ServeAnswers
  <2>2. /\ reply'[c] \in Tokens \cup {"ok", "401", "error"}
        /\ reply'[c] = "error" => "error" \in events'
        /\ pc[c] = "call" /\ reply'[c] \in Tokens => kind[c] = "login"
        /\ pc[c] = "call" /\ kind[c] = "logout" => reply'[c] \in {"ok", "error"}
        /\ events \subseteq events'
    BY <1>1, <1>i, ServeReplies
  <2> QED  BY <1>s, <1>f, <2>1, <2>2 DEF CallShape
<1>2. ASSUME NEW c \in Calls, Return(c) \/ Subscribe(c) \/ StartRefresh(c) PROVE Goal
  <2>1. /\ pc[c] = "call"
        /\ \/ pc'[c] = "done" /\ reply'[c] \in {reply[c], "ok"} /\ reply[c] # "none"
           \/ pc'[c] = "waiting" /\ reply'[c] = "401" /\ reply[c] = "401"
           \/ pc'[c] = "refresh" /\ reply'[c] = "none" /\ reply[c] = "401"
        /\ \A d \in Calls \ {c} : pc'[d] = pc[d] /\ reply'[d] = reply[d]
        /\ UNCHANGED <<kind, tab, events>>
    BY <1>2, <1>i DEF Return, Subscribe, StartRefresh, Rejected, TypeOK
  <2> QED  BY <1>s, <1>f, <2>1 DEF CallShape
<1>3. ASSUME NEW c \in Calls, Settles(c) PROVE Goal
  <2>0. jar' \in Tokens \cup {None}
    BY <1>3, <1>i DEF Settles, RefreshSucceeded, RefreshFailed, RefreshTimeout, SetCookies, TypeOK
  <2>1. /\ pc[c] = "refresh"
        /\ UNCHANGED <<tab, kind>>
        /\ SentAgain(c)
        /\ \A d \in Calls : Waits(c, d) => SentAgain(d) \/ (pc'[d] = "done" /\ Same(d))
        /\ \A d \in Calls \ {c} : ~Waits(c, d) => pc'[d] = pc[d] /\ Same(d)
    BY <1>3, <1>i, <2>0, SettleResumes
  <2>2. events \subseteq events'
    BY <1>3 DEF Settles, RefreshSucceeded, RefreshFailed, RefreshTimeout
  <2>3. \A d \in Calls :
          \/ pc'[d] = "call" /\ reply'[d] = "none" /\ pc[d] \in {"refresh", "waiting"}
          \/ pc'[d] = "done" /\ reply'[d] = reply[d] /\ pc[d] = "waiting"
          \/ pc'[d] = pc[d] /\ reply'[d] = reply[d]
    BY <2>1 DEF SentAgain, Same, Waits
  <2> QED  BY <1>s, <1>f, <2>1, <2>2, <2>3 DEF CallShape
<1>4. ASSUME NEW c \in Calls, CallTimeout(c), smooth' = FALSE PROVE Goal
  <2>1. /\ pc[c] = "call" /\ pc'[c] = "done" /\ reply'[c] = "timeout"
        /\ \A d \in Calls \ {c} : pc'[d] = pc[d] /\ reply'[d] = reply[d]
        /\ UNCHANGED <<kind, tab>> /\ events \subseteq events'
    BY <1>4, <1>i DEF CallTimeout, Lose, TypeOK
  <2> QED  BY <1>s, <1>4, <2>1 DEF CallShape
<1>5. ASSUME Age PROVE Goal
  <2>1. UNCHANGED <<pc, kind, tab, reply>> /\ events \subseteq events'
    BY <1>5 DEF Age, Expire, SessionExpires, JarExpires, calls
  <2> QED  BY <1>s, <1>f, <2>1 DEF CallShape
<1>6. Goal
  BY <1>1, <1>2, <1>3, <1>4, <1>5 DEF ClientStep, Proceed, Timeout, Settles
<1> QED  BY <1>6, <1>u

\* Nobody waits at the start.
LEMMA ShapeInit == PagesInit => PagesShape
BY ConstantsAssumption DEF PagesInit, Init, PagesShape, MadeShape, CallShape

\* What the pages do to the calls keeps their shape.
LEMMA UpdateKeepsCallShape ==
  ASSUME TypeOK, PagesShape, NEW D \in SUBSET Calls, NEW c \in Calls \cup {None},
         NEW k \in AllKinds, Update(D, c, k),
         events \subseteq events', smooth = FALSE => smooth' = FALSE
  PROVE  \A d \in Calls : CallShape(d)'
<1> USE ConstantsAssumption
<1>1. /\ c \in Calls => Posted(c, k)
      /\ \A d \in D \ {c} : Renewed(d)
      /\ \A d \in Calls \ (D \cup {c}) : Untouched(d)
  BY UpdateCalls
<1> QED
  BY <1>1 DEF PagesShape, CallShape, Posted, Renewed, Untouched, Same, TypeOK, AllKinds

\* Every step keeps the shape.
LEMMA ShapeStep ==
  ASSUME Inv, PagesTypeOK, PagesShape, PagesTypeOK', [PagesNext]_pagesVars
  PROVE  PagesShape'
<1> USE PagesAssumption
<1>k. "me" \in AllKinds
  BY DEF AllKinds
<1>i. TypeOK /\ MadeShape
  BY DEF Inv, PagesShape
<1>t. /\ tab \in [Calls -> Tabs] /\ made \in [Calls -> BOOLEAN]
      /\ view \in [Tabs -> RootViews \cup Forms \cup {"sent"}]
      /\ busy \in [Tabs -> BOOLEAN] /\ smooth \in BOOLEAN /\ smooth' \in BOOLEAN
  BY DEF PagesTypeOK, TypeOK
<1>m. ASSUME NEW t \in Tabs, NEW v \in Forms \cup {"loading"}, NEW c \in Calls \cup {None},
             NEW D \in SUBSET Calls, Update(D, c, "me"), Mount(t, v, c),
             \A d \in D : tab[d] = t \/ ~made[d],
             c \in Calls => v = "loading" /\ tab[c] = t
      PROVE  MadeShape'
  <2>1. /\ c \in Calls => Posted(c, "me")
        /\ \A d \in Calls \ (D \cup {c}) : Untouched(d)
        /\ tab' = tab
    BY <1>k, <1>i, <1>m, UpdateCalls
  <2>2. \A d \in Calls : made'[d] = (d = c \/ (tab[d] # t /\ made[d]))
    BY <1>m DEF Mount
  <2>3. /\ view'[t] = v
        /\ \A u \in Tabs \ {t} : view'[u] = view[u] /\ busy'[u] = busy[u]
    BY <1>m, <1>t DEF Mount, Show
  <2>4. \A d \in Calls : made'[d] =>
          /\ pc'[d] # "idle"
          /\ \/ kind'[d] = "me" /\ view'[tab[d]] = "loading"
             \/ kind'[d] \in Forms /\ view'[tab[d]] = kind'[d] /\ busy'[tab[d]]
    <3> SUFFICES ASSUME NEW d \in Calls, made'[d]
                 PROVE  /\ pc'[d] # "idle"
                        /\ \/ kind'[d] = "me" /\ view'[tab[d]] = "loading"
                           \/ kind'[d] \in Forms /\ view'[tab[d]] = kind'[d] /\ busy'[tab[d]]
      OBVIOUS
    <3>1. CASE d = c
      BY <1>m, <2>1, <2>3, <3>1 DEF Posted
    <3>2. CASE d # c
      <4>1. tab[d] # t /\ made[d] /\ tab[d] \in Tabs
        BY <1>t, <2>2, <3>2
      <4>2. Untouched(d)
        BY <1>m, <2>1, <3>2, <4>1
      <4> QED  BY <1>i, <2>3, <4>1, <4>2 DEF MadeShape, Untouched
    <3> QED  BY <3>1, <3>2
  <2>5. \A d, e \in Calls : made'[d] /\ made'[e] /\ tab[d] = tab[e] => d = e
    BY <1>i, <1>m, <2>2 DEF MadeShape
  <2> QED  BY <2>1, <2>4, <2>5 DEF MadeShape
<1>1. CASE ClientStep
  <2>1. /\ \A c \in Calls : CallShape(c)'
        /\ \A c \in Calls : pc'[c] = "idle" <=> pc[c] = "idle"
        /\ UNCHANGED <<kind, tab, view, busy, made>>
    BY <1>1, ClientShape
  <2>2. MadeShape'
    BY <1>i, <2>1 DEF MadeShape
  <2> QED  BY <2>1, <2>2 DEF PagesShape
<1>2. ASSUME NEW t \in Tabs, LoadsPage(t) PROVE PagesShape'
  <2>1. PICK D \in SUBSET Calls, c \in Calls \cup {None}, v \in Forms \cup {"loading"} :
          /\ v = "loading" <=> c \in Calls
          /\ Update(D, c, "me") /\ Loaded(t, D, c) /\ Mount(t, v, c)
          /\ smooth' => smooth
    BY <1>2 DEF LoadsPage
  <2>2. MadeShape'
    BY <1>m, <2>1 DEF Loaded, CallsOf
  <2>3. \A d \in Calls : CallShape(d)'
    BY <1>k, <1>i, <1>t, <2>1, UpdateKeepsCallShape DEF Loaded, Lose
  <2> QED  BY <2>2, <2>3 DEF PagesShape
<1>3. ASSUME NEW t \in Tabs, MountsRoot(t) PROVE PagesShape'
  <2>1. PICK D \in SUBSET Calls, c \in Calls :
          /\ tab[c] = t /\ Update(D, c, "me") /\ InDocument(D, c) /\ Mount(t, "loading", c)
          /\ \A d \in D : tab[d] = t
          /\ smooth' => smooth
    BY <1>3 DEF MountsRoot
  <2>2. MadeShape'
    BY <1>m, <2>1
  <2>3. \A d \in Calls : CallShape(d)'
    BY <1>k, <1>i, <1>t, <2>1, UpdateKeepsCallShape DEF InDocument, Quietly
  <2> QED  BY <2>2, <2>3 DEF PagesShape
<1>4. ASSUME NEW t \in Tabs, Submit(t) \/ Logout(t) PROVE PagesShape'
  <2>1. PICK c \in Calls, k \in AllKinds :
           /\ tab[c] = t /\ pc[c] = "idle"
           /\ Update({}, c, k) /\ InDocument({}, c)
           /\ view' = view /\ smooth' = smooth
           /\ \/ k = "logout" /\ made' = made /\ busy' = busy
              \/ /\ k = view[t] /\ k \in Forms /\ ~busy[t]
                 /\ made' = [made EXCEPT ![c] = TRUE] /\ busy' = [busy EXCEPT ![t] = TRUE]
    BY <1>4, Posts
  <2>2. {} \in SUBSET Calls /\ c \in Calls \cup {None}
    OBVIOUS
  <2>3. \A d \in Calls : CallShape(d)'
    BY <1>i, <2>1, <2>2, UpdateKeepsCallShape DEF InDocument, Quietly
  <2>4. /\ Posted(c, k) /\ \A d \in Calls \ {c} : Untouched(d)
        /\ tab' = tab
    BY <1>i, <2>1, <2>2, UpdateCalls
  <2>5. ~made[c]
    BY <1>i, <2>1 DEF MadeShape
  <2>6. CASE k = "logout" /\ made' = made /\ busy' = busy
    <3>1. \A d \in Calls : made[d] => pc'[d] = pc[d] /\ kind'[d] = kind[d]
      BY <2>4, <2>5 DEF Untouched
    <3>2. UNCHANGED <<made, view, busy, tab>>
      BY <2>1, <2>4, <2>6
    <3>3. MadeShape'
      BY <1>i, <3>1, <3>2 DEF MadeShape
    <3> QED  BY <2>3, <3>3 DEF PagesShape
  <2>7. CASE /\ k = view[t] /\ k \in Forms /\ ~busy[t]
             /\ made' = [made EXCEPT ![c] = TRUE] /\ busy' = [busy EXCEPT ![t] = TRUE]
    <3>1. \A d \in Calls : made[d] => tab[d] # t
      BY <1>i, <2>7 DEF MadeShape, Forms
    <3>2. \A d \in Calls : made'[d] = (d = c \/ made[d])
      BY <1>t, <2>7
    <3>3. busy'[t] = TRUE /\ \A u \in Tabs : busy[u] => busy'[u]
      BY <1>t, <2>7
    <3>4. pc'[c] # "idle" /\ kind'[c] \in Forms /\ view'[tab[c]] = kind'[c] /\ busy'[tab[c]]
      BY <2>1, <2>4, <2>7, <3>3 DEF Posted
    <3>5. ASSUME NEW d \in Calls, d # c, made[d]
          PROVE  /\ pc'[d] # "idle"
                 /\ \/ kind'[d] = "me" /\ view'[tab[d]] = "loading"
                    \/ kind'[d] \in Forms /\ view'[tab[d]] = kind'[d] /\ busy'[tab[d]]
      <4>1. pc'[d] = pc[d] /\ kind'[d] = kind[d] /\ tab[d] \in Tabs
        BY <1>t, <2>4, <3>5 DEF Untouched
      <4> QED  BY <1>i, <2>1, <3>3, <3>5, <4>1 DEF MadeShape
    <3>6. \A d, e \in Calls : made'[d] /\ made'[e] /\ tab[d] = tab[e] => d = e
      BY <1>i, <2>1, <3>1, <3>2 DEF MadeShape
    <3>7. \A d \in Calls : made'[d] =>
            /\ pc'[d] # "idle"
            /\ \/ kind'[d] = "me" /\ view'[tab[d]] = "loading"
               \/ kind'[d] \in Forms /\ view'[tab[d]] = kind'[d] /\ busy'[tab[d]]
      BY <3>2, <3>4, <3>5
    <3>8. tab' = tab
      BY <2>4
    <3>9. MadeShape'
      BY <3>6, <3>7, <3>8 DEF MadeShape
    <3> QED  BY <2>3, <3>9 DEF PagesShape
  <2> QED  BY <2>1, <2>6, <2>7
<1>5. ASSUME NEW t \in Tabs, NEW f \in Forms, GoForm(t, f) PROVE PagesShape'
  <2>1. Mount(t, f, None) /\ UNCHANGED vars /\ (smooth' => smooth)
    BY <1>5 DEF GoForm, Leave
  <2>2. \A d \in Calls : CallShape(d)'
    BY <1>t, <2>1 DEF vars, calls, PagesShape, CallShape
  <2>3. \A d \in Calls : made'[d] = (tab[d] # t /\ made[d])
    BY <2>1 DEF Mount
  <2>4. \A u \in Tabs \ {t} : view'[u] = view[u] /\ busy'[u] = busy[u]
    BY <1>t, <2>1 DEF Mount, Show
  <2>5. MadeShape'
    BY <1>i, <1>t, <2>1, <2>3, <2>4 DEF MadeShape, vars, calls
  <2> QED  BY <2>2, <2>5 DEF PagesShape
<1>6. ASSUME NEW c \in Calls, EndsCall(c) PROVE PagesShape'
  <2>1. {c} \in SUBSET Calls /\ None \in Calls \cup {None} /\ Update({c}, None, "me")
    BY <1>6 DEF EndsCall
  <2>2. \A d \in Calls : CallShape(d)'
    BY <1>k, <1>i, <1>6, <2>1, UpdateKeepsCallShape DEF EndsCall, Quietly
  <2>3. Renewed(c) /\ (\A d \in Calls \ {c} : Untouched(d)) /\ tab' = tab
    BY <1>k, <1>i, <2>1, UpdateCalls
  <2>4. \A d \in Calls : made'[d] = (d # c /\ made[d])
    BY <1>t, <1>6 DEF EndsCall
  <2>5. \A u \in Tabs : u # tab[c] \/ ~made[c] => view'[u] = view[u] /\ busy'[u] = busy[u]
    BY <1>t, <1>6 DEF EndsCall
  <2>6. \A d \in Calls \ {c} : made[d] => tab[d] # tab[c] \/ ~made[c]
    BY <1>i DEF MadeShape
  <2>7. \A d \in Calls : made'[d] =>
          /\ pc'[d] # "idle"
          /\ \/ kind'[d] = "me" /\ view'[tab[d]] = "loading"
             \/ kind'[d] \in Forms /\ view'[tab[d]] = kind'[d] /\ busy'[tab[d]]
    BY <1>i, <1>t, <2>3, <2>4, <2>5, <2>6 DEF MadeShape, Untouched
  <2>8. MadeShape'
    BY <1>i, <2>3, <2>4, <2>7 DEF MadeShape
  <2> QED  BY <2>2, <2>8 DEF PagesShape
<1>7. CASE UNCHANGED pagesVars
  BY <1>7 DEF pagesVars, ui, vars, calls, PagesShape, MadeShape, CallShape
<1> QED
  BY <1>1, <1>2, <1>3, <1>4, <1>5, <1>6, <1>7, SortedSteps

-----------------------------------------------------------------------------
(* When nothing has gone wrong, in any number of tabs.                     *)

Undisturbed == smooth /\ {"lost", "error"} \cap events = {}

\* The session has expired.
Expired == "expired" \in events

\* What goes wrong stays so.
LEMMA OnceDisturbed ==
  ASSUME Inv, PagesTypeOK, PagesShape, [PagesNext]_pagesVars, Undisturbed'
  PROVE  Undisturbed /\ (Expired => Expired')
<1>1. CASE ClientStep
  <2>1. smooth' \in {smooth, FALSE} /\ events \subseteq events'
    BY <1>1, ClientShape
  <2> QED  BY <2>1 DEF Undisturbed, Expired
<1>2. ASSUME NEW t \in Tabs, LoadsPage(t) PROVE Undisturbed /\ (Expired => Expired')
  BY <1>2 DEF LoadsPage, Loaded, Lose, Undisturbed, Expired
<1>3. ASSUME NEW t \in Tabs, MountsRoot(t) PROVE Undisturbed /\ (Expired => Expired')
  BY <1>3 DEF MountsRoot, InDocument, Quietly, Undisturbed, Expired
<1>4. ASSUME NEW t \in Tabs, Submit(t) \/ Logout(t) PROVE Undisturbed /\ (Expired => Expired')
  BY <1>4 DEF Submit, Logout, Quietly, Undisturbed, Expired
<1>5. ASSUME NEW t \in Tabs, NEW f \in Forms, GoForm(t, f) PROVE Undisturbed /\ (Expired => Expired')
  BY <1>5 DEF GoForm, Leave, vars, Undisturbed, Expired
<1>6. ASSUME NEW c \in Calls, EndsCall(c) PROVE Undisturbed /\ (Expired => Expired')
  BY <1>6 DEF EndsCall, Quietly, Undisturbed, Expired
<1>7. CASE UNCHANGED pagesVars
  BY <1>7 DEF pagesVars, ui, vars, Undisturbed, Expired
<1> QED  BY <1>1, <1>2, <1>3, <1>4, <1>5, <1>6, <1>7, SortedSteps

\* A form is there until its call has ended.
FormsOK ==
  Undisturbed => \A c \in Calls : kind[c] \in Forms /\ pc[c] # "idle" => made[c]

\* No form has been submitted at the start.
LEMMA FormsInit == PagesInit => FormsOK
BY DEF PagesInit, Init, FormsOK

\* A form that is left while it waits is noted.
LEMMA FormsStep ==
  ASSUME Inv, PagesTypeOK, PagesShape, FormsOK, PagesTypeOK', [PagesNext]_pagesVars
  PROVE  FormsOK'
<1> USE PagesAssumption
<1>k. "me" \in AllKinds /\ "me" \notin Forms /\ "logout" \notin Forms
  BY DEF AllKinds, Forms
<1> SUFFICES ASSUME Undisturbed', NEW d \in Calls, kind'[d] \in Forms, pc'[d] # "idle"
             PROVE  made'[d]
  BY DEF FormsOK
<1>u. Undisturbed
  BY OnceDisturbed
<1>i. /\ TypeOK /\ MadeShape
      /\ \A c \in Calls : kind[c] \in Forms /\ pc[c] # "idle" => made[c]
  BY <1>u DEF Inv, PagesShape, FormsOK
<1>t. /\ tab \in [Calls -> Tabs] /\ made \in [Calls -> BOOLEAN]
      /\ busy \in [Tabs -> BOOLEAN] /\ smooth'
  BY DEF PagesTypeOK, TypeOK, Undisturbed
<1>a. ASSUME NEW D \in SUBSET Calls, NEW c \in Calls \cup {None}, Update(D, c, "me")
      PROVE  d \notin D /\ d # c /\ made[d] /\ kind[d] \in Forms
  <2>1. /\ c \in Calls => Posted(c, "me")
        /\ \A e \in D \ {c} : Renewed(e)
        /\ \A e \in Calls \ (D \cup {c}) : Untouched(e)
    BY <1>k, <1>i, <1>a, UpdateCalls
  <2>2. d \notin D /\ d # c
    BY <1>k, <2>1 DEF Posted, Renewed
  <2> QED  BY <1>i, <2>1, <2>2 DEF Untouched
<1>1. CASE ClientStep
  <2>1. /\ \A c \in Calls : pc'[c] = "idle" <=> pc[c] = "idle"
        /\ UNCHANGED <<kind, made>>
    BY <1>1, ClientShape
  <2> QED  BY <1>i, <2>1
<1>2. ASSUME NEW t \in Tabs, LoadsPage(t) PROVE made'[d]
  <2>1. PICK D \in SUBSET Calls, c \in Calls \cup {None}, v \in Forms \cup {"loading"} :
          Update(D, c, "me") /\ Loaded(t, D, c) /\ Mount(t, v, c)
    BY <1>2 DEF LoadsPage
  <2>2. made[d] /\ d \notin D
    BY <1>a, <2>1
  <2>3. tab[d] # t
    BY <1>i, <2>1, <2>2 DEF Loaded, CallsOf, MadeShape
  <2> QED  BY <2>1, <2>2, <2>3 DEF Mount
<1>3. ASSUME NEW t \in Tabs, MountsRoot(t) PROVE made'[d]
  <2>1. PICK D \in SUBSET Calls, c \in Calls :
          /\ Update(D, c, "me") /\ InDocument(D, c) /\ Mount(t, "loading", c)
          /\ \A e \in D : kind[e] = "login" /\ tab[e] = t
          /\ busy[t] => D # {}
    BY <1>3, <1>t DEF MountsRoot
  <2>2. made[d] /\ kind[d] \in Forms /\ d \notin D
    BY <1>a, <2>1
  <2>3. ASSUME tab[d] = t PROVE FALSE
    <3>1. busy[t]
      BY <1>i, <1>k, <2>2, <2>3 DEF MadeShape
    <3>2. PICK e \in D : kind[e] = "login" /\ tab[e] = t /\ pc[e] = "done"
      BY <2>1, <3>1 DEF InDocument
    <3>3. made[e]
      BY <1>i, <3>2 DEF Forms
    <3> QED  BY <1>i, <2>2, <2>3, <3>2, <3>3 DEF MadeShape
  <2> QED  BY <2>1, <2>2, <2>3 DEF Mount
<1>4. ASSUME NEW t \in Tabs, Submit(t) \/ Logout(t) PROVE made'[d]
  <2>1. PICK c \in Calls, k \in AllKinds :
           /\ Update({}, c, k)
           /\ \/ k = "logout" /\ made' = made
              \/ made' = [made EXCEPT ![c] = TRUE]
    BY <1>4, Posts
  <2>2. {} \in SUBSET Calls /\ c \in Calls \cup {None}
    OBVIOUS
  <2>3. Posted(c, k) /\ \A e \in Calls \ {c} : Untouched(e)
    BY <1>i, <2>1, <2>2, UpdateCalls
  <2>4. CASE d = c
    BY <1>k, <1>t, <2>1, <2>3, <2>4 DEF Posted
  <2>5. CASE d # c
    BY <1>i, <1>t, <2>1, <2>3, <2>5 DEF Untouched
  <2> QED  BY <2>4, <2>5
<1>5. ASSUME NEW t \in Tabs, NEW f \in Forms, GoForm(t, f) PROVE made'[d]
  <2>1. made[d] /\ kind[d] \in Forms
    BY <1>5, <1>i DEF GoForm, vars, calls
  <2>2. ~busy[t] /\ Mount(t, f, None)
    BY <1>5, <1>t DEF GoForm, Leave
  <2>3. tab[d] # t
    BY <1>i, <1>k, <2>1, <2>2 DEF MadeShape
  <2> QED  BY <2>1, <2>2, <2>3 DEF Mount
<1>6. ASSUME NEW c \in Calls, EndsCall(c) PROVE made'[d]
  <2>1. {c} \in SUBSET Calls /\ None \in Calls \cup {None} /\ Update({c}, None, "me")
    BY <1>6 DEF EndsCall
  <2>2. made[d] /\ d # c
    BY <1>a, <2>1
  <2> QED  BY <1>6, <1>t, <2>2 DEF EndsCall
<1>7. CASE UNCHANGED pagesVars
  BY <1>7, <1>i DEF pagesVars, ui, vars, calls
<1> QED  BY <1>1, <1>2, <1>3, <1>4, <1>5, <1>6, <1>7, SortedSteps

\* The cookies are gone, or are those of a live session, or of one that is being
\* renewed or ended; until a session expires.
JarGood ==
  jar = None \/ Kept \/ \E c \in Calls : kind[c] = "logout" /\ pc[c] = "call"

JarOK == Undisturbed /\ ~Expired => JarGood

\* The user is signed in at the start.
LEMMA JarInit == PagesInit => JarOK
<1>1. PagesInit => Kept
  BY ConstantsAssumption, TokensInit DEF PagesInit, Init, SessionKept, Kept
<1> QED  BY <1>1 DEF JarOK, JarGood

\* No call of a tab is given up that the cookies depend on.
LEMMA UpdateKeepsJar ==
  ASSUME Inv, NEW D \in SUBSET Calls, NEW c \in Calls \cup {None}, NEW k \in AllKinds,
         Update(D, c, k),
         c \in Calls => pc[c] = "idle" \/ c \in D,
         \A d \in D : /\ pc[d] = "refresh" => reply[d] \notin Tokens
                      /\ kind[d] = "logout" => pc[d] = "done"
  PROVE  JarGood => JarGood'
<1> USE PagesAssumption
<1>i. TypeOK /\ TokensOK
  BY DEF Inv
<1>1. /\ jar' = jar /\ live' = live
      /\ \A d \in Calls \ (D \cup {c}) : Untouched(d)
  BY <1>i, UpdateCalls DEF tables
<1>2. Kept => Kept'
  <2>1. \A d \in Calls : pc[d] = "refresh" /\ reply[d] \in Tokens =>
          reply'[d] = reply[d] /\ pc'[d] = pc[d] /\ cookie'[d] = cookie[d]
    BY <1>1 DEF Untouched, Same
  <2> QED  BY <1>i, <1>1, <2>1, BrowserKeeps
<1>3. \A d \in Calls : kind[d] = "logout" /\ pc[d] = "call" => kind'[d] = kind[d] /\ pc'[d] = pc[d]
  BY <1>1 DEF Untouched
<1> QED  BY <1>1, <1>2, <1>3 DEF JarGood

\* Every step keeps the session of the cookies, or logs out.
LEMMA JarStep ==
  ASSUME Inv, PagesTypeOK, PagesShape, JarOK, Inv', PagesShape', [PagesNext]_pagesVars
  PROVE  JarOK'
<1> USE PagesAssumption, ConstantsAssumption
<1>k. "me" \in AllKinds
  BY DEF AllKinds
<1> SUFFICES ASSUME Undisturbed', ~Expired' PROVE JarGood'
  BY DEF JarOK
<1>i. /\ TypeOK /\ TabsOK /\ TokensOK /\ Undisturbed /\ JarGood
      /\ \A c \in Calls : CallShape(c)
  BY OnceDisturbed DEF Inv, JarOK, PagesShape
<1>n. \A c \in Calls : reply[c] \notin {"error", "timeout"}
  BY <1>i DEF Undisturbed, CallShape
<1>a. ASSUME NEW c \in Calls, Serve(c) PROVE JarGood'
  <2>1. /\ reply[c] = "none" /\ \A d \in Calls \ {c} : reply'[d] = reply[d]
        /\ UNCHANGED <<jar, pc, kind, cookie>>
    BY <1>a, <1>i, ServeAnswers
  <2>2. CASE AcceptLogin(c)
    <3>1. NewToken \in Tokens \ used /\ NewSession \in Sessions \ opened
      BY <2>2, <1>i, NewTokenIsNew, NewSessionIsNew DEF AcceptLogin
    <3>2. live[NewSession] = {}
      BY <1>i, <3>1 DEF TokensOK
    <3>3. Kept => Kept'
      BY <1>i, <2>1, <2>2, <3>1, <3>2, IssueKeeps DEF AcceptLogin, Answer, Server!Open
    <3> QED  BY <1>i, <2>1, <3>3 DEF JarGood
  <2>3. CASE ServeRefresh(c)
    <3>1. NewToken \in Tokens \ used
      BY <2>3, <1>i, NewTokenIsNew DEF ServeRefresh
    <3>2. Kept => Kept'
      BY <1>i, <2>1, <2>3, <3>1, IssueKeeps DEF ServeRefresh, Answer, Server!Rotate
    <3> QED  BY <1>i, <2>1, <3>2 DEF JarGood
  <2>4. CASE ServeLogout(c)
    BY <2>1, <2>4 DEF ServeLogout, JarGood
  <2>5. CASE ServeMe(c) \/ RefuseLogin(c) \/ ServeSignUp(c) \/ RefuseRefresh(c) \/ ServerError(c)
    <3>1. live' = live
      BY <2>5 DEF ServeMe, RefuseLogin, ServeSignUp, RefuseRefresh, ServerError, tables
    <3>2. Kept => Kept'
      BY <1>i, <2>1, <3>1, BrowserKeeps
    <3> QED  BY <1>i, <2>1, <3>2 DEF JarGood
  <2> QED  BY <1>a, <2>2, <2>3, <2>4, <2>5 DEF Serve
<1>b. ASSUME NEW c \in Calls, Return(c) PROVE JarGood'
  <2>1. /\ live' = live /\ pc[c] = "call" /\ reply[c] # "none" /\ jar' = SetCookies(c)
        /\ \A d \in Calls \ {c} : pc'[d] = pc[d] /\ reply'[d] = reply[d] /\ cookie'[d] = cookie[d]
        /\ kind' = kind
    BY <1>b, <1>i DEF Return, TypeOK, tables
  <2>2. CASE reply[c] \in Tokens
    BY <1>i, <2>1, <2>2 DEF SetCookies, TokensOK, Live, JarGood, Kept
  <2>3. CASE reply[c] \notin Tokens /\ kind[c] = "logout"
    BY <1>i, <1>n, <2>1, <2>3 DEF SetCookies, CallShape, JarGood
  <2>4. CASE reply[c] \notin Tokens /\ kind[c] # "logout"
    <3>1. jar' = jar
      BY <2>1, <2>4 DEF SetCookies
    <3>2. Kept => Kept'
      BY <1>i, <2>1, <2>4, <3>1, BrowserKeeps
    <3> QED  BY <1>i, <2>1, <2>4, <3>1, <3>2 DEF JarGood
  <2> QED  BY <2>2, <2>3, <2>4
<1>c. ASSUME NEW c \in Calls, Subscribe(c) \/ StartRefresh(c) PROVE JarGood'
  <2>1. /\ live' = live /\ jar' = jar /\ pc[c] = "call" /\ reply[c] = "401"
        /\ \A d \in Calls \ {c} : pc'[d] = pc[d] /\ reply'[d] = reply[d] /\ cookie'[d] = cookie[d]
        /\ kind' = kind
    BY <1>c, <1>i DEF Subscribe, StartRefresh, Rejected, TypeOK, tables
  <2>2. kind[c] # "logout"
    BY <1>i, <2>1 DEF CallShape
  <2>3. Kept => Kept'
    BY <1>i, <2>1, BrowserKeeps
  <2> QED  BY <1>i, <2>1, <2>2, <2>3 DEF JarGood
<1>d. ASSUME NEW c \in Calls, RefreshSucceeded(c) \/ RefreshFailed(c) PROVE JarGood'
  <2>1. /\ jar' \in Tokens \cup {None}
        /\ \/ reply[c] \in Tokens /\ jar' = reply[c]
           \/ reply[c] \notin Tokens /\ jar' = jar
    BY <1>d, <1>i DEF RefreshSucceeded, RefreshFailed, SetCookies, TypeOK
  <2>2. /\ pc[c] = "refresh" /\ live' = live /\ kind' = kind
        /\ \A d \in Calls \ {c} : ~Waits(c, d) => pc'[d] = pc[d] /\ Same(d)
    BY <1>d, <1>i, <2>1, SettleResumes DEF Settles, tables
  <2>3. \A d \in Calls \ {c} : pc[d] # "waiting" =>
          pc'[d] = pc[d] /\ reply'[d] = reply[d] /\ cookie'[d] = cookie[d]
    BY <2>2 DEF Waits, Same
  <2>4. Kept => Kept'
    BY <1>i, <2>1, <2>2, <2>3, BrowserKeeps
  <2>5. jar' # jar => jar' \in Live'
    BY <1>i, <2>1, <2>2 DEF TokensOK, Live
  <2> QED  BY <1>i, <2>2, <2>3, <2>4, <2>5 DEF JarGood, Kept
<1>e. CASE Age
  <2>1. ASSUME NEW t \in Tokens, Expire(t) PROVE JarGood'
    BY <2>1, <1>i DEF Expire, calls, JarGood, Kept, Live
  <2>2. ASSUME NEW s \in Sessions, SessionExpires(s) PROVE JarGood'
    <3>1. /\ \A q \in Sessions : live'[q] = IF q = s THEN {} ELSE live[q]
          /\ UNCHANGED <<jar, pc, kind>> /\ jar \notin live[s]
          /\ \A c \in Calls : pc[c] \notin {"call", "refresh"}
      BY <2>2, <1>i DEF SessionExpires, Server!Close, OnTheWire, calls, Expired, TypeOK
    <3> QED  BY <1>i, <3>1 DEF JarGood, Kept, Live
  <2>3. CASE JarExpires
    BY <2>3 DEF JarExpires, JarGood
  <2> QED  BY <1>e, <2>1, <2>2, <2>3 DEF Age
<1>1. CASE ClientStep
  BY <1>1, <1>a, <1>b, <1>c, <1>d, <1>e DEF ClientStep, Proceed, Undisturbed
<1>2. ASSUME NEW t \in Tabs, LoadsPage(t) PROVE JarGood'
  <2>1. PICK D \in SUBSET Calls, c \in Calls \cup {None} :
          /\ c \in Calls => pc[c] = "idle" \/ c \in D
          /\ Update(D, c, "me") /\ Lose(D)
          /\ \A d \in D : kind[d] = "me" \/ (kind[d] = "logout" /\ pc[d] = "done")
    BY <1>2 DEF LoadsPage, Loaded, Undisturbed
  <2>2. \A d \in D : pc[d] = "refresh" => reply[d] \notin Tokens
    BY <2>1 DEF Lose, OnTheWire, Undisturbed
  <2>3. \A d \in D : kind[d] = "logout" => pc[d] = "done"
    BY <2>1
  <2> QED  BY <1>k, <1>i, <2>1, <2>2, <2>3, UpdateKeepsJar
<1>3. ASSUME NEW t \in Tabs, MountsRoot(t) PROVE JarGood'
  <2>1. PICK D \in SUBSET Calls, c \in Calls : Update(D, c, "me") /\ InDocument(D, c)
    BY <1>3 DEF MountsRoot
  <2> QED  BY <1>k, <1>i, <2>1, UpdateKeepsJar DEF InDocument
<1>4. ASSUME NEW t \in Tabs, Submit(t) \/ Logout(t) PROVE JarGood'
  <2>1. PICK c \in Calls, k \in AllKinds : Update({}, c, k) /\ pc[c] = "idle"
    BY <1>4, Posts
  <2>2. {} \in SUBSET Calls /\ c \in Calls \cup {None}
    OBVIOUS
  <2> QED  BY <1>i, <2>1, <2>2, UpdateKeepsJar
<1>5. ASSUME NEW c \in Calls, EndsCall(c) PROVE JarGood'
  <2>1. {c} \in SUBSET Calls /\ None \in Calls \cup {None} /\ Update({c}, None, "me") /\ pc[c] = "done"
    BY <1>5 DEF EndsCall
  <2> QED  BY <1>k, <1>i, <2>1, UpdateKeepsJar
<1>6. CASE UNCHANGED vars
  BY <1>6, <1>i DEF vars, tables, calls, JarGood, Kept, Live
<1> QED
  BY <1>1, <1>2, <1>3, <1>4, <1>5, <1>6, SortedSteps DEF GoForm, pagesVars

-----------------------------------------------------------------------------
(* One tab, in which nothing has gone wrong and nobody is logging out.     *)

SingleTab == \A t, u \in Tabs : t = u

LoggingOut == \E c \in Calls : kind[c] = "logout" /\ pc[c] # "idle"

\* The fetchMe that RootPage waits for.
Awaited(c) == made[c] /\ kind[c] = "me"

\* RootPage does not show a form to the user of a session that is kept, nor a
\* profile to the user of none, but for one that has expired.
ViewOK(t) ==
  /\ view[t] = "home" => ~Kept
  /\ view[t] = "profile" => jar # None \/ Expired

\* A request has cookies only if the jar has; only a refresh of a token that is
\* dead is refused, and as long as one may succeed the session is kept.
CookiesOK(c) ==
  /\ pc[c] \in {"call", "refresh"} /\ cookie[c] # None => jar # None \/ Expired
  /\ pc[c] = "refresh" /\ reply[c] = "401" => cookie[c] \notin Live
  /\ pc[c] = "refresh" /\ (reply[c] \in Tokens \/ cookie[c] \in Live) => Kept

\* What RootPage is told in the end is true, and a retry, which is not refreshed
\* again, is as good as a fresh login if there is a session at all.
CheckOK(c) ==
  Awaited(c) =>
    /\ pc[c] \in {"call", "done"} /\ reply[c] = "ok" => jar # None \/ Expired
    /\ pc[c] = "call" /\ isRetry[c] /\ reply[c] = "none" => cookie[c] \in fresh \/ ~Kept
    /\ pc[c] = "call" /\ isRetry[c] /\ reply[c] = "401" => ~Kept
    /\ pc[c] = "done" /\ reply[c] = "401" => ~Kept

\* A refresh that will fail is late when a login has filled the jar meanwhile.
\* RootPage has been mounted since, or never asked: it does not wait for it.
LateOK(c) ==
  pc[c] = "refresh" /\ reply[c] \notin Tokens /\ cookie[c] \notin Live /\ Kept =>
    /\ jar \in fresh
    /\ \A d \in Calls : Awaited(d) =>
         /\ pc[d] \in {"call", "done"} /\ reply[d] # "401"
         /\ pc[d] = "call" /\ reply[d] = "none" => cookie[d] = jar

Truthful ==
  /\ \A t \in Tabs : ViewOK(t)
  /\ \A c \in Calls : CookiesOK(c) /\ CheckOK(c) /\ LateOK(c)

RestOK == Undisturbed /\ ~LoggingOut => Truthful

\* The tab shows the profile at the start, and no call has been made.
LEMMA RestInit == PagesInit => RestOK
<1>1. PagesInit => jar # None
  BY ConstantsAssumption DEF PagesInit, Init
<1> QED  BY <1>1, ConstantsAssumption DEF PagesInit, Init, RestOK, Truthful, ViewOK, CookiesOK,
        CheckOK, Awaited, LateOK

\* The session is as it was if no token comes or goes.
LEMMA KeptSame ==
  ASSUME TypeOK, TypeOK', live' = live, jar' = jar,
         \A c \in Calls : (pc[c] = "refresh" /\ reply[c] \in Tokens)
                             \/ (pc'[c] = "refresh" /\ reply'[c] \in Tokens) =>
           pc'[c] = pc[c] /\ reply'[c] = reply[c] /\ cookie'[c] = cookie[c]
  PROVE  Kept' <=> Kept
<1>1. Live' = Live /\ Live \subseteq Tokens
  BY DEF Live, TypeOK
<1> QED  BY <1>1 DEF Kept

\* A token that is issued does not make good a session that was lost.
LEMMA KeptBefore ==
  ASSUME TypeOK, TypeOK', TokensOK, jar' = jar,
         \A t \in used : t \in Live' => t \in Live,
         \A c \in Calls : pc'[c] = "refresh" /\ reply'[c] \in Tokens =>
           pc[c] = "refresh" /\ reply'[c] = reply[c] /\ cookie'[c] = cookie[c]
  PROVE  Kept' => Kept
<1>1. Live' \subseteq Tokens
  BY DEF Live, TypeOK
<1>2. jar \in Live' => jar \in Live
  BY <1>1, ConstantsAssumption DEF TokensOK
<1>3. ASSUME NEW c \in Calls, pc'[c] = "refresh", cookie'[c] = jar, reply'[c] \in Live'
      PROVE  Kept
  <2>1. reply'[c] \in Tokens
    BY <1>1, <1>3
  <2> QED  BY <1>3, <2>1 DEF TokensOK, Kept
<1> QED  BY <1>2, <1>3 DEF Kept

\* The API client keeps it so.
LEMMA ClientRest ==
  ASSUME SingleTab, Inv, PagesTypeOK, PagesShape, FormsOK, JarOK, Undisturbed, Undisturbed',
         ~LoggingOut, Truthful, ClientStep, Inv'
  PROVE  Truthful'
<1> USE PagesAssumption, ConstantsAssumption
<1>i. /\ TypeOK /\ TypeOK' /\ TabsOK /\ TokensOK /\ MadeShape
      /\ \A c \in Calls : CallShape(c)
      /\ \A t \in Tabs : ViewOK(t)
      /\ \A c \in Calls : CookiesOK(c) /\ CheckOK(c) /\ LateOK(c)
  BY DEF Inv, PagesShape, Truthful
<1>n. \A c \in Calls : /\ reply[c] \notin {"error", "timeout"}
                       /\ kind[c] = "logout" => pc[c] = "idle"
  BY <1>i DEF Undisturbed, CallShape, LoggingOut
<1>o. \A c, d \in Calls : pc[c] = "refresh" /\ pc[d] = "refresh" => c = d
  BY <1>i DEF SingleTab, TypeOK, TabsOK
<1>u. /\ UNCHANGED <<view, made, kind>> /\ \A d \in Calls : Awaited(d)' = Awaited(d)
      /\ Expired => Expired'
  BY ClientShape DEF Awaited, Expired
<1> SUFFICES /\ \A t \in Tabs : ViewOK(t)'
             /\ \A d \in Calls : CookiesOK(d)' /\ CheckOK(d)' /\ LateOK(d)'
  BY DEF Truthful
<1> DEFINE Goal == /\ \A t \in Tabs : ViewOK(t)'
                   /\ \A d \in Calls : CookiesOK(d)' /\ CheckOK(d)' /\ LateOK(d)'
<1>a. ASSUME NEW c \in Calls, Serve(c) PROVE Goal
  <2>1. /\ reply[c] = "none" /\ \A d \in Calls \ {c} : reply'[d] = reply[d]
        /\ UNCHANGED <<jar, pc, isRetry, cookie>>
    BY <1>a, <1>i, ServeAnswers
  <2>2. ASSUME live' = live, reply'[c] \notin Tokens PROVE (Kept' <=> Kept) /\ Live' = Live
    <3>1. \A d \in Calls : reply[d] \in Tokens \/ reply'[d] \in Tokens => d # c
      BY <2>1, <2>2
    <3> QED  BY <1>i, <2>1, <2>2, <3>1, KeptSame DEF Live
  <2>3. CASE ServeMe(c)
    <3>1. /\ pc[c] = "call" /\ UNCHANGED <<live, fresh>>
          /\ reply'[c] = IF cookie[c] \in fresh THEN "ok" ELSE "401"
      BY <2>3, <1>i DEF ServeMe, Answer, TypeOK, tables
    <3>2. (Kept' <=> Kept) /\ Live' = Live
      BY <2>2, <3>1
    <3>3. reply'[c] = "ok" => jar # None \/ Expired
      BY <1>i, <3>1 DEF TypeOK, CookiesOK
    <3>4. isRetry[c] /\ reply'[c] = "401" /\ Awaited(c) => ~Kept
      BY <1>i, <2>1, <3>1 DEF CheckOK
    <3>5. \A d \in Calls : CookiesOK(d)'
      BY <1>i, <1>u, <2>1, <3>1, <3>2 DEF CookiesOK
    <3>6. \A d \in Calls : CheckOK(d)'
      BY <1>i, <1>u, <2>1, <3>1, <3>2, <3>3, <3>4 DEF CheckOK
    <3>7. \A d \in Calls : LateOK(d)'
      BY <1>i, <1>u, <2>1, <3>1, <3>2 DEF LateOK
    <3>8. \A t \in Tabs : ViewOK(t)'
      BY <1>i, <1>u, <2>1, <3>2 DEF ViewOK
    <3> QED  BY <3>5, <3>6, <3>7, <3>8
  <2>4. CASE RefuseLogin(c) \/ ServeSignUp(c)
    <3>1. /\ pc[c] = "call" /\ kind[c] # "me" /\ reply'[c] \in {"401", "ok"}
          /\ UNCHANGED <<live, fresh>>
      BY <2>4, <1>i DEF RefuseLogin, ServeSignUp, Answer, TypeOK, tables
    <3>2. (Kept' <=> Kept) /\ Live' = Live
      BY <2>2, <3>1
    <3> QED
      BY <1>i, <1>u, <2>1, <3>1, <3>2 DEF ViewOK, CookiesOK, CheckOK, LateOK, Awaited
  <2>5. CASE AcceptLogin(c)
    <3>1. NewToken \in Tokens \ used /\ NewSession \in Sessions \ opened
      BY <2>5, <1>i, NewTokenIsNew, NewSessionIsNew DEF AcceptLogin
    <3>2. live[NewSession] = {}
      BY <1>i, <3>1 DEF TokensOK
    <3>3. /\ live' = [live EXCEPT ![NewSession] = {NewToken}]
          /\ reply' = [reply EXCEPT ![c] = NewToken]
          /\ pc[c] = "call" /\ kind[c] # "me" /\ fresh \subseteq fresh'
      BY <2>5 DEF AcceptLogin, Answer, Server!Open
    <3>4. Live' = Live \cup {NewToken}
      BY <1>i, <3>1, <3>2, <3>3 DEF Live, TypeOK
    <3>5. Kept => Kept'
      BY <1>i, <2>1, <3>1, <3>2, <3>3, IssueKeeps
    <3>6. reply'[c] = NewToken
      BY <1>i, <3>3 DEF TypeOK
    <3>7. Kept' => Kept
      BY <1>i, <2>1, <3>1, <3>3, <3>4, KeptBefore
    <3>8. \A d \in Calls : cookie[d] \in Live' <=> cookie[d] \in Live
      BY <1>i, <3>1, <3>4 DEF TokensOK
    <3> QED
      BY <1>i, <1>u, <2>1, <3>1, <3>3, <3>5, <3>6, <3>7, <3>8
      DEF ViewOK, CookiesOK, CheckOK, LateOK, Awaited
  <2>6. CASE ServeRefresh(c)
    <3>1. NewToken \in Tokens \ used
      BY <2>6, <1>i, NewTokenIsNew DEF ServeRefresh
    <3>2. /\ pc[c] = "refresh" /\ fresh \subseteq fresh' /\ reply'[c] \in Tokens
          /\ cookie[c] \in Live
      BY <2>6, <3>1, <1>i DEF ServeRefresh, Answer, TypeOK, Live
    <3>3. \A d \in Calls \ {c} : pc[d] # "refresh"
      BY <1>o, <3>2
    <3>4. Kept
      BY <1>i, <3>2 DEF CookiesOK
    <3>5. Kept'
      BY <1>i, <2>1, <2>6, <3>1, <3>4, IssueKeeps DEF ServeRefresh, Answer, Server!Rotate
    <3> QED
      BY <1>i, <1>u, <2>1, <3>2, <3>3, <3>4, <3>5 DEF ViewOK, CookiesOK, CheckOK, LateOK
  <2>7. CASE RefuseRefresh(c)
    <3>1. /\ pc[c] = "refresh" /\ reply'[c] = "401" /\ cookie[c] \notin Live
          /\ UNCHANGED <<live, fresh>>
      BY <2>7, <1>i DEF RefuseRefresh, Answer, TypeOK, tables
    <3>2. (Kept' <=> Kept) /\ Live' = Live
      BY <2>2, <3>1
    <3> QED
      BY <1>i, <1>u, <2>1, <3>1, <3>2 DEF ViewOK, CookiesOK, CheckOK, LateOK
  <2>8. ~ServeLogout(c) /\ ~ServerError(c)
    BY <1>n DEF ServeLogout, ServerError, Undisturbed
  <2> QED  BY <1>a, <2>3, <2>4, <2>5, <2>6, <2>7, <2>8 DEF Serve
<1>b. ASSUME NEW c \in Calls, Return(c) PROVE Goal
  <2>1. /\ UNCHANGED <<live, fresh, isRetry>> /\ jar' = SetCookies(c)
        /\ pc[c] = "call" /\ pc'[c] = "done" /\ cookie'[c] = None
        /\ reply[c] # "none" /\ (reply[c] = "401" => isRetry[c])
        /\ reply'[c] = IF reply[c] \in Tokens THEN "ok" ELSE reply[c]
        /\ \A d \in Calls \ {c} : pc'[d] = pc[d] /\ reply'[d] = reply[d] /\ cookie'[d] = cookie[d]
    BY <1>b, <1>i DEF Return, TypeOK, tables
  <2>l. Live' = Live
    BY <2>1 DEF Live
  <2>2. CASE reply[c] \in Tokens
    <3>1. kind[c] = "login" /\ made[c] /\ view[tab[c]] = "login"
      BY <1>i, <2>1, <2>2 DEF CallShape, FormsOK, MadeShape, Forms
    <3>2. \A t \in Tabs : view[t] = "login"
      BY <1>i, <3>1 DEF SingleTab, TypeOK
    <3>3. \A d \in Calls : ~Awaited(d)
      BY <1>i, <3>2 DEF Awaited, MadeShape, Forms, TypeOK
    <3>4. jar' \in fresh /\ jar' # None /\ jar' \in Live'
      BY <1>i, <2>1, <2>2, <2>l DEF SetCookies, TokensOK
    <3>5. Kept'
      BY <3>4 DEF Kept
    <3> QED
      BY <1>i, <1>u, <2>1, <2>l, <3>2, <3>3, <3>4, <3>5 DEF ViewOK, CookiesOK, CheckOK, LateOK
  <2>3. CASE reply[c] \notin Tokens
    <3>1. jar' = jar
      BY <1>n, <2>1, <2>3 DEF SetCookies
    <3>2. Kept' <=> Kept
      BY <1>i, <2>1, <2>3, <3>1, KeptSame
    <3> QED
      BY <1>i, <1>u, <2>1, <2>l, <2>3, <3>1, <3>2 DEF ViewOK, CookiesOK, CheckOK, LateOK
  <2> QED  BY <2>2, <2>3
<1>c. ASSUME NEW c \in Calls, Subscribe(c) PROVE Goal
  <2>1. /\ UNCHANGED <<live, fresh, isRetry, jar, reply>>
        /\ pc[c] = "call" /\ reply[c] = "401"
        /\ pc'[c] = "waiting" /\ cookie'[c] = None
        /\ \A d \in Calls \ {c} : pc'[d] = pc[d] /\ cookie'[d] = cookie[d]
    BY <1>c, <1>i DEF Subscribe, Rejected, TypeOK, tables
  <2>2. (Kept' <=> Kept) /\ Live' = Live
    BY <1>i, <2>1, KeptSame DEF Live
  <2> QED
    BY <1>i, <1>u, <2>1, <2>2 DEF ViewOK, CookiesOK, CheckOK, LateOK
<1>d. ASSUME NEW c \in Calls, StartRefresh(c) PROVE Goal
  <2>1. /\ UNCHANGED <<live, fresh, isRetry, jar>> /\ pc[c] = "call"
        /\ pc'[c] = "refresh" /\ cookie'[c] = jar /\ reply'[c] = "none"
        /\ \A d \in Calls \ {c} : pc'[d] = pc[d] /\ cookie'[d] = cookie[d] /\ reply'[d] = reply[d]
    BY <1>d, <1>i DEF StartRefresh, Rejected, TypeOK, tables
  <2>2. \A d \in Calls : pc[d] # "refresh"
    BY <1>d, <1>i DEF StartRefresh, SingleTab, TypeOK, TabsOK
  <2>3. Kept <=> jar \in Live
    BY <2>2 DEF Kept
  <2>4. (Kept' <=> Kept) /\ Live' = Live
    BY <1>i, <2>1, <2>2, KeptSame DEF Live
  <2> QED
    BY <1>i, <1>u, <2>1, <2>2, <2>3, <2>4 DEF ViewOK, CookiesOK, CheckOK, LateOK
<1>e. ASSUME NEW c \in Calls, Settles(c), jar' \in Tokens \cup {None}
      PROVE  /\ pc[c] = "refresh" /\ UNCHANGED <<live, fresh>> /\ SentAgain(c)
             /\ \A d \in Calls : pc[d] = "waiting" => SentAgain(d) \/ (pc'[d] = "done" /\ Same(d))
             /\ \A d \in Calls \ {c} : pc[d] # "waiting" => pc'[d] = pc[d] /\ Same(d)
             /\ \A d \in Calls : pc'[d] # "refresh"
  <2>1. /\ pc[c] = "refresh" /\ UNCHANGED <<live, fresh>> /\ SentAgain(c)
        /\ \A d \in Calls : Waits(c, d) => SentAgain(d) \/ (pc'[d] = "done" /\ Same(d))
        /\ \A d \in Calls \ {c} : ~Waits(c, d) => pc'[d] = pc[d] /\ Same(d)
    BY <1>e, <1>i, SettleResumes DEF tables
  <2>2. \A d \in Calls : Waits(c, d) <=> pc[d] = "waiting"
    BY <1>i DEF Waits, SingleTab, TypeOK
  <2>3. \A d \in Calls : pc'[d] # "refresh"
    BY <1>o, <2>1, <2>2 DEF SentAgain
  <2> QED  BY <2>1, <2>2, <2>3
<1>f. ASSUME NEW c \in Calls, RefreshSucceeded(c) PROVE Goal
  <2>1. pc[c] = "refresh" /\ reply[c] \in Tokens /\ jar' = reply[c]
    BY <1>f DEF RefreshSucceeded, SetCookies
  <2>2. /\ UNCHANGED <<live, fresh>>
        /\ \A d \in Calls \ {c} : pc[d] # "waiting" => pc'[d] = pc[d] /\ Same(d)
        /\ \A d \in Calls : pc'[d] # "refresh"
    BY <1>e, <1>f, <2>1 DEF Settles
  <2>3. \A d \in Calls : d = c \/ pc[d] = "waiting" => SentAgain(d)
    <3>1. \A d \in Calls : pc[d] = "waiting" => pc'[d] = "call"
      BY <1>f, <1>i, SuccessResumes DEF Waits, SingleTab, TypeOK
    <3> QED  BY <1>e, <1>f, <2>1, <3>1 DEF Settles
  <2>4. Kept /\ jar' # None /\ jar' \in fresh'
    BY <1>i, <2>1, <2>2 DEF CookiesOK, TokensOK
  <2>5. \A d \in Calls : CookiesOK(d)'
    BY <2>2, <2>4 DEF CookiesOK
  <2>6. \A d \in Calls : CheckOK(d)'
    BY <1>i, <1>u, <2>2, <2>3, <2>4 DEF CheckOK, SentAgain, Same
  <2> QED  BY <1>i, <1>u, <2>2, <2>4, <2>5, <2>6 DEF ViewOK, LateOK
<1>g. ASSUME NEW c \in Calls, RefreshFailed(c) PROVE Goal
  <2>1. pc[c] = "refresh" /\ reply[c] = "401" /\ jar' = jar
    BY <1>g, <1>n DEF RefreshFailed
  <2>2. /\ UNCHANGED <<live, fresh>> /\ SentAgain(c)
        /\ \A d \in Calls : pc[d] = "waiting" => SentAgain(d) \/ (pc'[d] = "done" /\ Same(d))
        /\ \A d \in Calls \ {c} : pc[d] # "waiting" => pc'[d] = pc[d] /\ Same(d)
        /\ \A d \in Calls : pc'[d] # "refresh"
    BY <1>e, <1>g, <1>i, <2>1 DEF Settles, TypeOK
  <2>3. Kept' <=> Kept
    BY <1>i, <1>o, <2>1, <2>2, KeptSame
  <2>4. Kept => jar \in fresh /\ \A d \in Calls : Awaited(d) => pc[d] \in {"call", "done"}
    BY <1>i, <2>1 DEF CookiesOK, LateOK
  <2>5. \A d \in Calls : CookiesOK(d)'
    <3> SUFFICES ASSUME NEW d \in Calls, pc'[d] = "call", cookie'[d] # None
                 PROVE  jar # None \/ Expired
      BY <1>u, <2>1, <2>2 DEF CookiesOK
    <3>1. CASE SentAgain(d)
      BY <2>1, <3>1 DEF SentAgain
    <3>2. CASE pc'[d] = pc[d] /\ Same(d)
      BY <1>i, <3>2 DEF CookiesOK, Same
    <3> QED  BY <2>2, <3>1, <3>2
  <2>6. \A d \in Calls : CheckOK(d)'
    <3> SUFFICES ASSUME NEW d \in Calls, Awaited(d) PROVE CheckOK(d)'
      BY <1>u DEF CheckOK
    <3>1. CASE SentAgain(d)
      BY <2>1, <2>2, <2>3, <2>4, <3>1 DEF CheckOK, SentAgain
    <3>2. CASE pc[d] = "waiting" /\ pc'[d] = "done" /\ Same(d)
      <4>1. ~Kept /\ reply'[d] = "401"
        BY <1>i, <2>4, <3>2 DEF CallShape, Same
      <4> QED  BY <2>3, <3>2, <4>1 DEF CheckOK
    <3>3. CASE pc'[d] = pc[d] /\ Same(d)
      BY <1>i, <1>u, <2>1, <2>2, <2>3, <3>3 DEF CheckOK, Same
    <3> QED  BY <2>2, <3>1, <3>2, <3>3
  <2> QED  BY <1>i, <1>u, <2>1, <2>2, <2>3, <2>5, <2>6 DEF ViewOK, LateOK
<1>h. ASSUME NEW t \in Tokens, Expire(t) PROVE Goal
  <2>1. /\ fresh' = fresh \ {t}
        /\ \A c \in Calls : pc[c] = "refresh" /\ jar = t => cookie[c] = t
        /\ \A c \in Calls : pc[c] = "call" /\ reply[c] = "none" /\ isRetry[c] => cookie[c] # t
        /\ UNCHANGED <<live, jar, pc, isRetry, cookie, reply>>
    BY <1>h DEF Expire, calls, Unserved, OnTheWire
  <2>2. (Kept' <=> Kept) /\ Live' = Live
    BY <1>i, <2>1, KeptSame DEF Live
  <2>3. \A d \in Calls : LateOK(d)'
    <3>1. ASSUME NEW d \in Calls, pc[d] = "refresh", reply[d] \notin Tokens, cookie[d] \notin Live,
                 Kept
          PROVE  jar # t
      <4>1. jar \in Live
        BY <1>o, <1>i, <3>1 DEF Kept, Live, TypeOK
      <4> QED  BY <2>1, <3>1, <4>1
    <3> QED  BY <1>i, <1>u, <2>1, <2>2, <3>1 DEF LateOK
  <2> QED
    BY <1>i, <1>u, <2>1, <2>2, <2>3 DEF ViewOK, CookiesOK, CheckOK
<1>j. ASSUME (\E s \in Sessions : SessionExpires(s)) \/ JarExpires PROVE Goal
  <2>1. /\ UNCHANGED <<fresh, pc, isRetry, cookie, reply>>
        /\ \A c \in Calls : pc[c] \notin {"call", "refresh"}
        /\ Live' \subseteq Live /\ jar' \in {jar, None}
    BY <1>j, <1>i
    DEF SessionExpires, JarExpires, Server!Close, Live, OnTheWire, calls, tables, TypeOK
  <2>2. Kept' => Kept
    BY <1>i, <2>1, ConstantsAssumption DEF Kept, Live, TypeOK
  <2>3. jar' # jar => Expired
    <3>1. jar' # jar => jar # None /\ jar \notin Live
      BY <1>j DEF SessionExpires, JarExpires
    <3>2. ~Expired => jar = None \/ jar \in Live
      BY <2>1 DEF JarOK, JarGood, Kept
    <3> QED  BY <3>1, <3>2
  <2> QED
    BY <1>i, <1>u, <2>1, <2>2, <2>3 DEF ViewOK, CookiesOK, CheckOK, LateOK
<1> QED
  BY <1>a, <1>b, <1>c, <1>d, <1>f, <1>g, <1>h, <1>j DEF ClientStep, Age, Proceed, Undisturbed

\* What is so after a step within the document, but for the calls that the step
\* is about.
OthersOK(D, c) ==
  /\ \A d \in Calls : CookiesOK(d)'
  /\ \A d \in Calls : Awaited(d) /\ d \notin D /\ d # c => CheckOK(d)'
  /\ \A d \in Calls : pc'[d] = "refresh" /\ reply'[d] \notin Tokens /\ cookie'[d] \notin Live
                       /\ Kept =>
       /\ jar \in fresh
       /\ \A e \in Calls : Awaited(e) /\ e \notin D /\ e # c =>
            /\ pc'[e] \in {"call", "done"} /\ reply'[e] # "401"
            /\ pc'[e] = "call" /\ reply'[e] = "none" => cookie'[e] = jar

\* The pages keep it so; when a page is loaded it need not have been so before.
LEMMA PagesRest ==
  ASSUME SingleTab, Inv, PagesTypeOK, PagesShape, Undisturbed, ~LoggingOut => Truthful,
         ~LoggingOut', Inv', PagesTypeOK', [PagesNext]_pagesVars, ~ClientStep
  PROVE  Truthful'
<1> USE PagesAssumption, ConstantsAssumption
<1>k. "me" \in AllKinds /\ {"me", "logout"} \cap Forms = {}
      /\ {"profile", "home", "loading"} \subseteq RootViews
  BY DEF AllKinds, Forms, RootViews
<1>i. /\ TypeOK /\ TypeOK' /\ TokensOK /\ MadeShape
      /\ \A c \in Calls : CallShape(c)
      /\ tab \in [Calls -> Tabs] /\ made \in [Calls -> BOOLEAN]
      /\ view \in [Tabs -> RootViews \cup Forms \cup {"sent"}]
  BY DEF Inv, PagesShape, PagesTypeOK, TypeOK
<1>n. \A c \in Calls : reply[c] \notin {"error", "timeout"}
  BY <1>i DEF Undisturbed, CallShape
<1>t. ~LoggingOut => /\ \A t \in Tabs : ViewOK(t)
                     /\ \A c \in Calls : CookiesOK(c) /\ CheckOK(c) /\ LateOK(c)
  BY DEF Truthful
<1> DEFINE Goal == /\ \A t \in Tabs : ViewOK(t)'
                   /\ \A d \in Calls : CookiesOK(d)' /\ CheckOK(d)' /\ LateOK(d)'
<1>a. ASSUME NEW D \in SUBSET Calls, NEW c \in Calls \cup {None}, NEW k \in AllKinds,
             Update(D, c, k)
      PROVE  /\ c \in Calls => Posted(c, k)
             /\ \A d \in D \ {c} : Renewed(d)
             /\ \A d \in Calls \ (D \cup {c}) : Untouched(d)
             /\ UNCHANGED <<jar, live, fresh, tab>>
  BY <1>a, <1>i, UpdateCalls DEF tables
<1>b. ASSUME NEW D \in SUBSET Calls, NEW c \in Calls \cup {None}, NEW k \in AllKinds,
             Update(D, c, k), InDocument(D, c), \A d \in D : kind[d] # "logout"
      PROVE  ~LoggingOut /\ OthersOK(D, c) /\ (Kept' <=> Kept) /\ (Expired' <=> Expired)
  <2>1. /\ c \in Calls => Posted(c, k)
        /\ \A d \in D \ {c} : Renewed(d)
        /\ \A d \in Calls \ (D \cup {c}) : Untouched(d)
        /\ UNCHANGED <<jar, live, fresh>>
    BY <1>a, <1>b
  <2>2. ~LoggingOut
    <3> SUFFICES ASSUME NEW d \in Calls, kind[d] = "logout", pc[d] # "idle" PROVE FALSE
      BY DEF LoggingOut
    <3>1. d \notin D /\ d # c
      BY <1>b DEF InDocument
    <3> QED  BY <2>1, <3>1 DEF Untouched, LoggingOut
  <2>k. \A d \in Calls : pc[d] = "refresh" \/ pc'[d] = "refresh" => Untouched(d)
    BY <1>b, <2>1 DEF InDocument, Posted, Renewed
  <2>l. (Kept' <=> Kept) /\ Live' = Live
    BY <1>i, <2>1, <2>k, KeptSame DEF Untouched, Same, Live
  <2>e. Expired' <=> Expired
    BY <1>b DEF InDocument, Quietly, Expired
  <2>3. \A d \in Calls : CookiesOK(d)'
    BY <1>t, <2>1, <2>2, <2>l, <2>e DEF CookiesOK, Posted, Renewed, Untouched, Same
  <2>4. \A d \in Calls : Awaited(d) /\ d \notin D /\ d # c => CheckOK(d)'
    BY <1>t, <2>1, <2>2, <2>l, <2>e DEF CheckOK, Untouched, Same
  <2>5. ASSUME NEW d \in Calls, pc'[d] = "refresh", reply'[d] \notin Tokens,
               cookie'[d] \notin Live, Kept
        PROVE  /\ jar \in fresh
               /\ \A e \in Calls : Awaited(e) /\ e \notin D /\ e # c =>
                    /\ pc'[e] \in {"call", "done"} /\ reply'[e] # "401"
                    /\ pc'[e] = "call" /\ reply'[e] = "none" => cookie'[e] = jar
    <3>1. pc[d] = "refresh" /\ cookie[d] = cookie'[d] /\ reply[d] = reply'[d]
      BY <2>k, <2>5 DEF Untouched, Same
    <3> QED  BY <1>t, <2>1, <2>2, <2>5, <3>1 DEF LateOK, Untouched, Same
  <2> QED  BY <2>2, <2>3, <2>4, <2>5, <2>l, <2>e DEF OthersOK
<1>1. ASSUME NEW t \in Tabs, LoadsPage(t) PROVE Goal
  <2>1. PICK D \in SUBSET Calls, c \in Calls \cup {None}, v \in Forms \cup {"loading"} :
          /\ Update(D, c, "me") /\ Loaded(t, D, c) /\ Mount(t, v, c)
    BY <1>1 DEF LoadsPage
  <2>2. /\ c \in Calls => Posted(c, "me")
        /\ \A d \in D \ {c} : Renewed(d)
        /\ \A d \in Calls \ (D \cup {c}) : Untouched(d)
        /\ UNCHANGED <<jar, live, fresh>>
    BY <1>a, <1>k, <2>1
  <2>3. \A d \in Calls : pc'[d] = "idle" \/ Posted(d, "me")
    <3>1. \A d \in Calls \ D : pc[d] = "idle"
      BY <1>i, <2>1 DEF Loaded, CallsOf, SingleTab
    <3> QED  BY <2>2, <3>1 DEF Renewed, Untouched
  <2>4. \A u \in Tabs : view'[u] = v
    BY <1>i, <2>1 DEF Mount, Show, SingleTab
  <2>5. v \notin {"home", "profile"}
    BY DEF Forms
  <2> QED
    BY <2>2, <2>3, <2>4, <2>5 DEF ViewOK, CookiesOK, CheckOK, LateOK, Posted
<1>2. ASSUME NEW t \in Tabs, MountsRoot(t) PROVE Goal
  <2>1. PICK D \in SUBSET Calls, c \in Calls :
          /\ Update(D, c, "me") /\ InDocument(D, c) /\ Mount(t, "loading", c)
          /\ \A d \in D : kind[d] = "login"
    BY <1>2 DEF MountsRoot
  <2>2. Posted(c, "me") /\ jar' = jar /\ fresh' = fresh /\ tab' = tab /\ Live' = Live
    BY <1>a, <1>k, <2>1 DEF Live
  <2>3. \A u \in Tabs : view'[u] = "loading"
    BY <1>i, <2>1 DEF Mount, Show, SingleTab
  <2>4. \A d \in Calls : made'[d] = (d = c)
    BY <1>i, <2>1 DEF Mount, SingleTab
  <2>5. OthersOK(D, c) /\ (Kept' <=> Kept)
    BY <1>b, <1>k, <2>1
  <2> QED
    BY <2>2, <2>3, <2>4, <2>5 DEF OthersOK, ViewOK, CheckOK, LateOK, Posted, Awaited
<1>3. ASSUME NEW t \in Tabs, Submit(t) PROVE Goal
  <2>1. PICK c \in Calls, k \in AllKinds :
           /\ Update({}, c, k) /\ InDocument({}, c)
           /\ view' = view /\ k \in Forms /\ made' = [made EXCEPT ![c] = TRUE]
           /\ pc[c] = "idle"
    <3>1. ~Logout(t)
      BY <1>3 DEF Submit, Logout, Forms
    <3> QED  BY <1>3, <3>1, Posts
  <2>2. {} \in SUBSET Calls /\ c \in Calls \cup {None} /\ \A d \in {} : kind[d] # "logout"
    OBVIOUS
  <2>3. /\ Posted(c, k) /\ UNCHANGED <<jar, fresh>> /\ Live' = Live
        /\ \A d \in Calls \ {c} : Untouched(d)
    BY <1>a, <2>1, <2>2 DEF Live
  <2>4. ~Awaited(c)' /\ \A d \in Calls \ {c} : Awaited(d)' = Awaited(d)
    BY <1>i, <1>k, <2>1, <2>3 DEF Awaited, Posted, Untouched
  <2>5. ~LoggingOut /\ OthersOK({}, c) /\ (Kept' <=> Kept) /\ (Expired' <=> Expired)
    BY <1>b, <2>1, <2>2
  <2>6. \A d \in Calls : CheckOK(d)'
    BY <2>4, <2>5 DEF CheckOK, OthersOK
  <2>7. \A d \in Calls : LateOK(d)'
    BY <2>3, <2>4, <2>5 DEF LateOK, OthersOK
  <2>8. \A u \in Tabs : ViewOK(u)'
    BY <1>t, <2>1, <2>3, <2>5 DEF ViewOK
  <2> QED  BY <2>5, <2>6, <2>7, <2>8 DEF OthersOK
<1>4. ASSUME NEW t \in Tabs PROVE ~Logout(t)
  <2> SUFFICES ASSUME Logout(t) PROVE FALSE
    OBVIOUS
  <2>1. PICK c \in Calls : Update({}, c, "logout")
    BY DEF Logout
  <2>2. "logout" \in AllKinds /\ {} \in SUBSET Calls /\ c \in Calls \cup {None}
    BY DEF AllKinds
  <2>3. Posted(c, "logout")
    BY <1>a, <2>1, <2>2
  <2> QED  BY <2>3 DEF Posted, LoggingOut
<1>5. ASSUME NEW t \in Tabs, NEW f \in Forms, GoForm(t, f) PROVE Goal
  <2>1. UNCHANGED <<live, fresh, jar, pc, kind, isRetry, cookie, reply, tab>> /\ Mount(t, f, None)
    BY <1>5 DEF GoForm, vars, tables, calls
  <2>k. (Kept' <=> Kept) /\ (Expired' <=> Expired) /\ Live' = Live
    BY <1>5, <1>i, <2>1, KeptSame DEF GoForm, vars, Expired, Live
  <2>2. ~LoggingOut
    BY <2>1 DEF LoggingOut
  <2>3. \A d \in Calls : Awaited(d)' => Awaited(d)
    BY <2>1 DEF Mount, Awaited
  <2>4. \A u \in Tabs : view'[u] = f
    BY <1>i, <2>1 DEF Mount, Show, SingleTab
  <2>5. f \notin {"home", "profile"}
    BY DEF Forms
  <2> QED
    BY <1>t, <2>1, <2>2, <2>3, <2>4, <2>5, <2>k DEF ViewOK, CookiesOK, CheckOK, LateOK
<1>6. ASSUME NEW c \in Calls, EndsCall(c) PROVE Goal
  <2>1. /\ {c} \in SUBSET Calls /\ None \in Calls \cup {None} /\ None \notin Calls
        /\ Update({c}, None, "me") /\ InDocument({c}, None)
        /\ \A d \in {c} : kind[d] # "logout"
    BY <1>6 DEF EndsCall, InDocument
  <2>2. /\ UNCHANGED <<jar, fresh>> /\ Live' = Live
        /\ \A d \in Calls \ {c} : Untouched(d)
    BY <1>a, <1>k, <2>1 DEF Live
  <2>3. \A d \in Calls : Awaited(d)' => Awaited(d) /\ d # c
    BY <1>6, <1>i, <2>2 DEF EndsCall, Awaited, Untouched
  <2>4. ~LoggingOut /\ OthersOK({c}, None) /\ (Kept' <=> Kept) /\ (Expired' <=> Expired)
    BY <1>b, <1>k, <2>1
  <2>5. \A d \in Calls : CheckOK(d)'
    BY <2>1, <2>3, <2>4 DEF CheckOK, OthersOK
  <2>6. \A d \in Calls : LateOK(d)'
    BY <2>1, <2>2, <2>3, <2>4 DEF LateOK, OthersOK
  <2>7. \A u \in Tabs : ViewOK(u)'
    <3>1. CASE Awaited(c)
      <4>1. \A u \in Tabs : view'[u] = IF reply[c] = "ok" THEN "profile" ELSE "home"
        BY <1>6, <1>i, <3>1 DEF EndsCall, Awaited, SingleTab
      <4>2. pc[c] = "done" /\ reply[c] \in {"ok", "401"}
        BY <1>6, <1>i, <1>n DEF EndsCall, CallShape, TokensOK, TypeOK
      <4>3. IF reply[c] = "ok" THEN jar # None \/ Expired ELSE ~Kept
        BY <1>t, <2>4, <3>1, <4>2 DEF CheckOK
      <4> QED  BY <2>2, <2>4, <4>1, <4>3 DEF ViewOK
    <3>2. CASE ~Awaited(c)
      <4>1. \A u \in Tabs : view'[u] = view[u] \/ view'[u] = "sent"
        BY <1>6, <1>i, <3>2 DEF EndsCall, Awaited, SingleTab
      <4> QED  BY <1>t, <2>2, <2>4, <4>1 DEF ViewOK
    <3> QED  BY <3>1, <3>2
  <2> QED  BY <2>4, <2>5, <2>6, <2>7 DEF OthersOK
<1>7. ASSUME UNCHANGED pagesVars PROVE Goal
  <2>1. UNCHANGED <<live, fresh, jar, pc, kind, isRetry, cookie, reply, made, view>>
    BY <1>7 DEF pagesVars, ui, vars, tables, calls
  <2>k. (Kept' <=> Kept) /\ (Expired' <=> Expired) /\ Live' = Live
    BY <1>7, <1>i, <2>1, KeptSame DEF pagesVars, vars, Expired, Live
  <2>2. ~LoggingOut /\ \A d \in Calls : Awaited(d)' = Awaited(d)
    BY <2>1 DEF LoggingOut, Awaited
  <2> QED
    BY <1>t, <2>1, <2>2, <2>k DEF ViewOK, CookiesOK, CheckOK, LateOK
<1> HIDE DEF Goal
<1>8. Goal
  BY <1>1, <1>2, <1>3, <1>4, <1>5, <1>6, <1>7, SortedSteps
<1> QED  BY <1>8 DEF Goal, Truthful

\* Every step of a single tab keeps its page truthful.
LEMMA RestStep ==
  ASSUME SingleTab, Inv, PagesTypeOK, PagesShape, FormsOK, JarOK, RestOK,
         Inv', PagesTypeOK', [PagesNext]_pagesVars
  PROVE  RestOK'
<1> SUFFICES ASSUME Undisturbed', ~LoggingOut' PROVE Truthful'
  BY DEF RestOK
<1>1. Undisturbed /\ (~LoggingOut => Truthful)
  BY OnceDisturbed DEF RestOK
<1>2. CASE ClientStep
  <2>1. ~LoggingOut
    BY <1>2, ClientShape DEF LoggingOut
  <2> QED  BY <1>1, <1>2, <2>1, ClientRest
<1>3. CASE ~ClientStep
  BY <1>1, <1>3, PagesRest
<1> QED  BY <1>2, <1>3

-----------------------------------------------------------------------------
(* The theorems.                                                           *)

BrowserOK == Inv /\ PagesTypeOK /\ PagesShape /\ FormsOK /\ JarOK

\* The parts hold together, whatever the user does in however many tabs.
THEOREM PagesInvariant == PagesSpec => []BrowserOK
<1>1. PagesInit => BrowserOK
  <2> SUFFICES ASSUME PagesInit PROVE BrowserOK
    OBVIOUS
  <2>1. Inv
    BY TypeInit, TabsInit, SendsInit, TokensInit DEF PagesInit, Inv
  <2>2. PagesTypeOK
    BY <2>1, PagesAssumption DEF Inv, PagesInit, PagesTypeOK, RootViews
  <2> QED  BY <2>1, <2>2, ShapeInit, FormsInit, JarInit DEF BrowserOK
<1>2. BrowserOK /\ [PagesNext]_pagesVars => BrowserOK'
  <2> SUFFICES ASSUME BrowserOK, [PagesNext]_pagesVars PROVE BrowserOK'
    OBVIOUS
  <2> USE DEF BrowserOK
  <2>1. Inv'
    BY InvStep
  <2>2. PagesTypeOK'
    BY <2>1, PagesTypeStep DEF Inv
  <2>3. PagesShape'
    BY <2>2, ShapeStep
  <2> QED  BY <2>1, <2>2, <2>3, FormsStep, JarStep
<1> QED  BY <1>1, <1>2, PTL DEF PagesSpec

\* The variables of the pages keep their types.
THEOREM PagesTypes == PagesSpec => []PagesTypeOK
<1>1. BrowserOK => PagesTypeOK
  BY DEF BrowserOK
<1> QED  BY <1>1, PagesInvariant, PTL

\* Pages that come and go, and loads that abort what is in flight, leave the
\* API client as it should be: one refresh in flight in a tab, nobody forgotten,
\* no call sent more than twice, and the session kept unless its token is lost
\* or expires.
THEOREM ClientUnderPages ==
  PagesSpec => [](SingleFlight /\ NoneForgotten /\ AtMostTwoSends /\ SessionKept)
<1>1. BrowserOK => SingleFlight /\ NoneForgotten /\ AtMostTwoSends /\ SessionKept
  BY DEF BrowserOK, Inv, TypeOK, TabsOK, SendsOK, SingleFlight, NoneForgotten, AtMostTwoSends
<1> QED  BY <1>1, PagesInvariant, PTL

\* In a browser with one tab, when everything has come to rest and nothing has
\* gone wrong, RootPage sends nobody away whose cookies hold a live session, and
\* shows the profile only if they do, or if a session has expired meanwhile.
THEOREM RootPageTruthful ==
  ASSUME SingleTab
  PROVE  PagesSpec => []ShowsSession
<1>1. BrowserOK /\ RestOK /\ BrowserOK' /\ [PagesNext]_pagesVars => RestOK'
  BY RestStep DEF BrowserOK
<1>2. BrowserOK /\ RestOK => ShowsSession
  <2> SUFFICES ASSUME BrowserOK, RestOK, Undisturbed,
                      NEW t \in Tabs, view[t] \in {"profile", "home"},
                      \A c \in CallsOf(t) : pc[c] = "idle"
               PROVE  /\ view[t] = "home" => jar \notin Live
                      /\ view[t] = "profile" => jar \in Live \/ "expired" \in events
    BY DEF ShowsSession, Undisturbed
  <2>1. TypeOK /\ JarOK
    BY DEF BrowserOK, Inv
  <2>2. \A c \in Calls : pc[c] = "idle"
    BY <2>1 DEF CallsOf, TypeOK, SingleTab
  <2>3. ViewOK(t)
    BY <2>2 DEF RestOK, LoggingOut, Truthful
  <2>4. CASE view[t] = "home"
    BY <2>3, <2>4 DEF ViewOK, Kept
  <2>5. CASE view[t] = "profile"
    BY <2>1, <2>2, <2>3, <2>5 DEF ViewOK, JarOK, JarGood, Kept, Expired
  <2> QED  BY <2>4, <2>5
<1> QED  BY <1>1, <1>2, RestInit, PagesInvariant, PTL DEF PagesSpec
=============================================================================
