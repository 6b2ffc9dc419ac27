---------------------------- MODULE FetchWithAuth ----------------------------
(***************************************************************************)
(* The API client of frontend/src/lib/api.ts in one browser: any number of *)
(* tabs, each with its own copy of the module's variables, all of them on  *)
(* one cookie jar.  The server is SessionRotation: what it does to tokens  *)
(* takes effect in one step, and its answers may be lost, late, or arrive  *)
(* in any order.                                                           *)
(*                                                                         *)
(* A call is a run of fetchWithAuth.  The first call of a tab to be        *)
(* answered 401 refreshes the tokens; calls answered 401 meanwhile         *)
(* subscribe to the outcome.                                               *)
(***************************************************************************)
EXTENDS Naturals

CONSTANTS Tabs,      \* the tabs of the browser
          Calls,     \* the calls that are made, each in a tab of its own choice
          Kinds,     \* the calls that are made: a subset of AllKinds
          Sessions,  \* see SessionRotation
          Tokens,    \* a refresh token; its access token goes by the same name
          None       \* no cookie

AllKinds == {"me", "login", "logout", "signup"}   \* fetchMe, login, ...

ASSUME ConstantsAssumption ==
  /\ Sessions # {} /\ Tokens # {}
  /\ Kinds \subseteq AllKinds
  /\ None \notin Tokens
  /\ {"none", "ok", "401", "error", "timeout"} \cap Tokens = {}

VARIABLES
  live, opened, used,  \* the server's tables: see SessionRotation; live has the
                       \* tokens that are neither revoked nor expired
  fresh,         \* tokens whose access token has not expired
  jar,           \* the token in the browser's cookies
  isRefreshing,  \* isRefreshing[t]: tab t has a refreshPromise
  subscribers,   \* subscribers[t]: the calls in refreshSubscribers
  tab,           \* tab[c]: the tab whose page makes call c; it never changes
  pc,            \* pc[c]: what call c is waiting for
  kind,          \* kind[c]: what the call is for
  isRetry,       \* isRetry[c]: the third parameter of fetchWithAuth
  cookie,        \* cookie[c]: the token c's request carries
  reply,         \* reply[c]: the answer on its way to c, then c's result
  sends,         \* sends[c]: how often c's request was sent (history)
  events         \* what has gone wrong so far (history)

tables == <<live, opened, used, fresh>>
tabs   == <<isRefreshing, subscribers>>
calls  == <<tab, pc, kind, isRetry, cookie, reply, sends>>
vars   == <<tables, jar, tabs, calls, events>>

Server == INSTANCE SessionRotation

Live == UNION {live[s] : s \in Sessions}

\* A session and a token that nobody has had: one is as good as another.
NewSession == CHOOSE s \in Sessions : s \notin opened
NewToken   == CHOOSE t \in Tokens : t \notin used

TypeOK ==
  /\ live \in [Sessions -> SUBSET Tokens]
  /\ opened \subseteq Sessions
  /\ used \subseteq Tokens
  /\ fresh \subseteq Tokens
  /\ jar \in Tokens \cup {None}
  /\ isRefreshing \in [Tabs -> BOOLEAN]
  /\ subscribers \in [Tabs -> SUBSET Calls]
  /\ tab \in [Calls -> Tabs]
  /\ pc \in [Calls -> {"idle", "call", "refresh", "waiting", "done", "gone"}]
  /\ kind \in [Calls -> AllKinds]
  /\ isRetry \in [Calls -> BOOLEAN]
  /\ cookie \in [Calls -> Tokens \cup {None}]
  /\ reply \in [Calls -> Tokens \cup {"none", "ok", "401", "error", "timeout"}]
  /\ sends \in [Calls -> Nat]
  /\ events \subseteq {"lost", "logout", "error", "expired"}

\* A browser whose user has signed in.
Init ==
  /\ LET s == CHOOSE s \in Sessions : TRUE
         t == CHOOSE t \in Tokens : TRUE
     IN  /\ live = [q \in Sessions |-> IF q = s THEN {t} ELSE {}]
         /\ opened = {s}
         /\ used = {t}
         /\ fresh = {t}
         /\ jar = t
  /\ isRefreshing = [t \in Tabs |-> FALSE]
  /\ subscribers = [t \in Tabs |-> {}]
  /\ tab \in [Calls -> Tabs]
  /\ pc = [c \in Calls |-> "idle"]
  /\ kind = [c \in Calls |-> "me"]
  /\ isRetry = [c \in Calls |-> FALSE]
  /\ cookie = [c \in Calls |-> None]
  /\ reply = [c \in Calls |-> "none"]
  /\ sends = [c \in Calls |-> 0]
  /\ events = {}

-----------------------------------------------------------------------------
(* Requests and the server.                                                *)

OnTheWire(c) == pc[c] \in {"call", "refresh"}
Unserved(c)  == OnTheWire(c) /\ reply[c] = "none"

\* A page makes a call: its request leaves with the cookies of the jar.
Call(c, k) ==
  /\ pc[c] = "idle"
  /\ pc' = [pc EXCEPT ![c] = "call"]
  /\ kind' = [kind EXCEPT ![c] = k]
  /\ cookie' = [cookie EXCEPT ![c] = jar]
  /\ sends' = [sends EXCEPT ![c] = 1]
  /\ UNCHANGED <<tables, jar, tabs, tab, isRetry, reply, events>>

Answer(c, a) ==
  /\ reply' = [reply EXCEPT ![c] = a]
  /\ UNCHANGED <<jar, tabs, tab, pc, kind, isRetry, cookie, sends>>

\* GET /users/me: the access token decides.
ServeMe(c) ==
  /\ pc[c] = "call" /\ Unserved(c) /\ kind[c] = "me"
  /\ Answer(c, IF cookie[c] \in fresh THEN "ok" ELSE "401")
  /\ UNCHANGED <<tables, events>>

\* POST /auth/login with credentials that are refused ...
RefuseLogin(c) ==
  /\ pc[c] = "call" /\ Unserved(c) /\ kind[c] = "login"
  /\ Answer(c, "401")
  /\ UNCHANGED <<tables, events>>

\* ... or accepted.
AcceptLogin(c) ==
  /\ pc[c] = "call" /\ Unserved(c) /\ kind[c] = "login"
  /\ opened # Sessions /\ used # Tokens
  /\ Server!Open(NewSession, NewToken)
  /\ Answer(c, NewToken)
  /\ fresh' = fresh \cup {NewToken}
  /\ UNCHANGED events

\* POST /auth/logout ends the session of the token it carries.
ServeLogout(c) ==
  /\ pc[c] = "call" /\ Unserved(c) /\ kind[c] = "logout"
  /\ Server!Close({s \in Sessions : cookie[c] \in live[s]})
  /\ Answer(c, "ok")
  /\ events' = events \cup {"logout"}
  /\ UNCHANGED fresh

\* POST /auth/signup with a new address.
ServeSignUp(c) ==
  /\ pc[c] = "call" /\ Unserved(c) /\ kind[c] = "signup"
  /\ Answer(c, "ok")
  /\ UNCHANGED <<tables, events>>

\* POST /auth/refresh exchanges a live token for a fresh one ...
ServeRefresh(c) ==
  /\ pc[c] = "refresh" /\ Unserved(c)
  /\ used # Tokens
  /\ \E s \in Sessions : cookie[c] \in live[s] /\ Server!Rotate(s, NewToken)
  /\ Answer(c, NewToken)
  /\ fresh' = fresh \cup {NewToken}
  /\ UNCHANGED events

\* ... and refuses any other: one that was exchanged, revoked or deleted, or has
\* expired, and a request without one.
RefuseRefresh(c) ==
  /\ pc[c] = "refresh" /\ Unserved(c)
  /\ cookie[c] \notin Live
  /\ Answer(c, "401")
  /\ UNCHANGED <<tables, events>>

\* The server, or the proxy before it, answers with an error other than 401, as
\* a conflict is.
ServerError(c) ==
  /\ Unserved(c)
  /\ Answer(c, "error")
  /\ events' = events \cup {"error"}
  /\ UNCHANGED tables

\* An access token expires 15 minutes after it was issued, and no request is in
\* flight for longer than seconds.  So a token does not expire while it is still
\* in an answer, nor while a refresh is in flight that left before it came; and
\* a retry is as well off without its token as it would be if the token ran out
\* on the way.  A token that neither the jar nor a request holds is past caring.
Expire(t) ==
  /\ t \in fresh
  /\ jar = t \/ \E c \in Calls : cookie[c] = t
  /\ \A c \in Calls : OnTheWire(c) => reply[c] # t
  /\ \A c \in Calls : pc[c] = "refresh" /\ jar = t => cookie[c] = t
  /\ \A c \in Calls : Unserved(c) /\ isRetry[c] => cookie[c] # t
  /\ fresh' = fresh \ {t}
  /\ UNCHANGED <<live, opened, used, jar, tabs, calls, events>>

\* Seven days after it was issued, and its access token long gone, a refresh
\* token expires: it is refused from then on.  (The cleanup deletes only rows
\* that are dead already.)  A request that is in flight then fares as one that
\* leaves a moment later.
SessionExpires(s) ==
  /\ live[s] # {}
  /\ live[s] \cap fresh = {}
  /\ \A c \in Calls : ~OnTheWire(c)
  /\ Server!Close({s})
  /\ events' = IF jar \in live[s] THEN events \cup {"expired"} ELSE events
  /\ UNCHANGED <<fresh, jar, tabs, calls>>

\* The browser drops a cookie when its maxAge is over, which is as long as the
\* token's life but counted from the answer: it is never dropped before the
\* token in it has died.
JarExpires ==
  /\ jar # None
  /\ jar \notin Live \cup fresh
  /\ \A c \in Calls : ~OnTheWire(c)
  /\ jar' = None
  /\ UNCHANGED <<tables, tabs, calls, events>>

\* Time passes.
Age ==
  \/ \E t \in Tokens : Expire(t)
  \/ \E s \in Sessions : SessionExpires(s)
  \/ JarExpires

-----------------------------------------------------------------------------
(* fetchWithAuth.                                                          *)

\* setAuthCookies and clearAuthCookies: what c's answer leaves in the jar.
SetCookies(c) ==
  IF reply[c] \in Tokens THEN reply[c]
  ELSE IF kind[c] = "logout" /\ reply[c] = "ok" THEN None
  ELSE jar

\* Mutant: an answer without cookies is put in the jar as well.
ReturnStoringAnswer(c) ==
  /\ pc[c] = "call"
  /\ reply[c] # "none"
  /\ reply[c] # "401" \/ isRetry[c]
  /\ pc' = [pc EXCEPT ![c] = "done"]
  /\ jar' = IF reply[c] \in {"401", "error"} THEN jar ELSE reply[c]
  /\ UNCHANGED <<tables, tabs, tab, kind, isRetry, cookie, reply, sends, events>>

\* The answer is passed on to the caller; its cookies, if any, are set.
Return(c) ==
  /\ pc[c] = "call"
  /\ reply[c] # "none"
  /\ reply[c] # "401" \/ isRetry[c]
  /\ pc' = [pc EXCEPT ![c] = "done"]
  /\ jar' = SetCookies(c)
  /\ reply' = [reply EXCEPT ![c] = IF @ \in Tokens THEN "ok" ELSE @]
  /\ cookie' = [cookie EXCEPT ![c] = None]
  /\ UNCHANGED <<tables, tabs, tab, kind, isRetry, sends, events>>

Rejected(c) == pc[c] = "call" /\ reply[c] = "401" /\ ~isRetry[c]

\* The tab is refreshing already: the call waits for the outcome.
Subscribe(c) ==
  /\ Rejected(c)
  /\ isRefreshing[tab[c]]
  /\ pc' = [pc EXCEPT ![c] = "waiting"]
  /\ cookie' = [cookie EXCEPT ![c] = None]
  /\ subscribers' = [subscribers EXCEPT ![tab[c]] = @ \cup {c}]
  /\ UNCHANGED <<tables, jar, isRefreshing, tab, kind, isRetry, reply, sends, events>>

\* Mutant: nobody looks whether the tab is refreshing already.
StartRefreshUnguarded(c) ==
  /\ Rejected(c)
  /\ isRefreshing' = [isRefreshing EXCEPT ![tab[c]] = TRUE]
  /\ pc' = [pc EXCEPT ![c] = "refresh"]
  /\ cookie' = [cookie EXCEPT ![c] = jar]
  /\ reply' = [reply EXCEPT ![c] = "none"]
  /\ UNCHANGED <<tables, jar, subscribers, tab, kind, isRetry, sends, events>>

\* The call sends the tab's refresh.
StartRefresh(c) ==
  /\ Rejected(c)
  /\ ~isRefreshing[tab[c]]
  /\ isRefreshing' = [isRefreshing EXCEPT ![tab[c]] = TRUE]
  /\ pc' = [pc EXCEPT ![c] = "refresh"]
  /\ cookie' = [cookie EXCEPT ![c] = jar]
  /\ reply' = [reply EXCEPT ![c] = "none"]
  /\ UNCHANGED <<tables, jar, subscribers, tab, kind, isRetry, sends, events>>

\* Mutant: the third argument is forgotten.
ResumeAfresh(R, F) ==
  /\ pc' = [c \in Calls |-> IF c \in R THEN "call" ELSE IF c \in F THEN "done" ELSE pc[c]]
  /\ cookie' = [c \in Calls |-> IF c \in R THEN jar' ELSE cookie[c]]
  /\ reply' = [c \in Calls |-> IF c \in R THEN "none" ELSE reply[c]]
  /\ sends' = [c \in Calls |-> IF c \in R THEN sends[c] + 1 ELSE sends[c]]
  /\ UNCHANGED <<tables, tab, kind, isRetry>>

\* The calls in R are sent again, as retries; those in F fail with their 401.
Resume(R, F) ==
  /\ pc' = [c \in Calls |-> IF c \in R THEN "call" ELSE IF c \in F THEN "done" ELSE pc[c]]
  /\ isRetry' = [c \in Calls |-> c \in R \/ isRetry[c]]
  /\ cookie' = [c \in Calls |-> IF c \in R THEN jar' ELSE cookie[c]]
  /\ reply' = [c \in Calls |-> IF c \in R THEN "none" ELSE reply[c]]
  /\ sends' = [c \in Calls |-> IF c \in R THEN sends[c] + 1 ELSE sends[c]]
  /\ UNCHANGED <<tables, tab, kind>>

\* Mutant: a refresh that fails notifies nobody.
SettleForgetting(c, success) ==
  LET t == tab[c]
  IN  /\ isRefreshing' = [isRefreshing EXCEPT ![t] = FALSE]
      /\ IF success
         THEN /\ Resume(subscribers[t] \cup {c}, {})
              /\ subscribers' = [subscribers EXCEPT ![t] = {}]
         ELSE Resume({c}, {}) /\ UNCHANGED subscribers

\* The end of c's refresh: the subscribers are notified, and c sends its own
\* request again whatever the outcome.  No event comes between: it is all
\* done in the microtasks of one.
Settle(c, success) ==
  LET t == tab[c]
  IN  /\ isRefreshing' = [isRefreshing EXCEPT ![t] = FALSE]
      /\ subscribers' = [subscribers EXCEPT ![t] = {}]
      /\ IF success THEN Resume(subscribers[t] \cup {c}, {})
                    ELSE Resume({c}, subscribers[t])

RefreshSucceeded(c) ==
  /\ pc[c] = "refresh" /\ reply[c] \in Tokens
  /\ jar' = SetCookies(c)
  /\ Settle(c, TRUE)
  /\ UNCHANGED events

\* Mutant: a refused refresh clears the cookies, as a logout does.
RefreshFailedClearing(c) ==
  /\ pc[c] = "refresh" /\ reply[c] \in {"401", "error"}
  /\ jar' = IF reply[c] = "401" THEN None ELSE jar
  /\ Settle(c, FALSE)
  /\ UNCHANGED events

RefreshFailed(c) ==
  /\ pc[c] = "refresh" /\ reply[c] \in {"401", "error"}
  /\ UNCHANGED <<jar, events>>
  /\ Settle(c, FALSE)

-----------------------------------------------------------------------------
(* Lost answers.  A request that is given up before it was served may be   *)
(* served later; that differs in nothing from being served just before.    *)

Lose(C) ==
  events' = IF \E c \in C : OnTheWire(c) /\ reply[c] \in Tokens
            THEN events \cup {"lost"} ELSE events

\* fetchWithTimeout gives up after 10 s, or the network fails: fetch throws.
CallTimeout(c) ==
  /\ pc[c] = "call"
  /\ Lose({c})
  /\ pc' = [pc EXCEPT ![c] = "done"]
  /\ reply' = [reply EXCEPT ![c] = "timeout"]
  /\ cookie' = [cookie EXCEPT ![c] = None]
  /\ UNCHANGED <<tables, jar, tabs, tab, kind, isRetry, sends>>

RefreshTimeout(c) ==
  /\ pc[c] = "refresh"
  /\ events' = events \cup {IF reply[c] \in Tokens THEN "lost" ELSE "error"}
  /\ UNCHANGED jar
  /\ Settle(c, FALSE)

\* The page is unloaded, by the user or by logout: requests in flight are
\* aborted, and the module starts afresh.
Unload(t) ==
  LET running == {c \in Calls : tab[c] = t /\ pc[c] \in {"call", "refresh", "waiting"}}
  IN  /\ running # {}
      /\ Lose(running)
      /\ pc' = [c \in Calls |-> IF c \in running THEN "gone" ELSE pc[c]]
      /\ isRefreshing' = [isRefreshing EXCEPT ![t] = FALSE]
      /\ subscribers' = [subscribers EXCEPT ![t] = {}]
      /\ reply' = [c \in Calls |-> IF c \in running THEN "none" ELSE reply[c]]
      /\ cookie' = [c \in Calls |-> IF c \in running THEN None ELSE cookie[c]]
      /\ UNCHANGED <<tables, jar, tab, kind, isRetry, sends>>

-----------------------------------------------------------------------------
\* The server answers c.
Serve(c) ==
  \/ ServeMe(c) \/ RefuseLogin(c) \/ AcceptLogin(c) \/ ServeLogout(c)
  \/ ServeSignUp(c) \/ ServeRefresh(c) \/ RefuseRefresh(c) \/ ServerError(c)

\* fetchWithAuth goes on with c.
Proceed(c) ==
  \/ Return(c) \/ Subscribe(c) \/ StartRefresh(c)
  \/ RefreshSucceeded(c) \/ RefreshFailed(c)

Timeout(c) == CallTimeout(c) \/ RefreshTimeout(c)

Next ==
  \/ \E c \in Calls, k \in Kinds : Call(c, k)
  \/ \E c \in Calls : Serve(c) \/ Proceed(c) \/ Timeout(c)
  \/ Age
  \/ \E t \in Tabs : Unload(t)

Spec == Init /\ [][Next]_vars

-----------------------------------------------------------------------------
(* Properties.                                                             *)

\* A tab never has two refreshes in flight, and its flag says whether it has
\* one: two would present the same token, and one would be refused.
SingleFlight ==
  /\ \A c, d \in Calls :
       pc[c] = "refresh" /\ pc[d] = "refresh" /\ tab[c] = tab[d] => c = d
  /\ \A t \in Tabs :
       isRefreshing[t] <=> \E c \in Calls : tab[c] = t /\ pc[c] = "refresh"

\* A call that waits is on the list of a refresh that is still in flight.
NoneForgotten ==
  \A c \in Calls :
    pc[c] = "waiting" => isRefreshing[tab[c]] /\ c \in subscribers[tab[c]]

\* frontend/README.md: the original request is retried once.
AtMostTwoSends == \A c \in Calls : sends[c] <= 2

\* However many tabs race for the exchange of one token: as long as no
\* answer with a new token is lost, nobody logs out and no session is left
\* unused for the seven days of its refresh token, the cookies hold a live
\* token, or it is on its way to the tab that won.
SessionKept ==
  {"lost", "logout", "expired"} \cap events = {} =>
    \/ jar \in Live
    \/ \E c \in Calls : pc[c] = "refresh" /\ cookie[c] = jar /\ reply[c] \in Live

\* frontend/README.md: the access token is refreshed silently.  As long as no
\* error, loss or logout has occurred, the refresh token has not expired and the
\* calls are made in one tab, no fetchMe of a browser that is signed in comes
\* back with a 401.  Tabs do not share refreshPromise, and between two of them
\* it can.
SilentInOneTab ==
  LET made == {c \in Calls : pc[c] # "idle"}
  IN  events = {} /\ (\A c, d \in made : tab[c] = tab[d]) =>
        \A c \in made : kind[c] = "me" /\ pc[c] = "done" => reply[c] # "401"
=============================================================================
