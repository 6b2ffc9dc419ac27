------------------------ MODULE FetchWithAuthProofs ------------------------
(***************************************************************************)
(* The safety of FetchWithAuth for any number of tabs, calls, sessions and *)
(* tokens.  The invariant has three parts: the flag and the list of a tab  *)
(* agree with its calls (TabsOK), a call knows how often it was sent       *)
(* (SendsOK), and a token on its way to the browser is in nobody else's    *)
(* hands, so that nobody can exchange it before it arrives (TokensOK).     *)
(***************************************************************************)
EXTENDS FetchWithAuth, TLAPS

\* The tab's leader is its only refresh, and its subscribers are the calls that
\* wait, which they do only while there is a leader.
TabsOK ==
  /\ \A t \in Tabs : isRefreshing[t] <=> \E c \in Calls : tab[c] = t /\ pc[c] = "refresh"
  /\ \A c, d \in Calls :
       pc[c] = "refresh" /\ pc[d] = "refresh" /\ tab[c] = tab[d] => c = d
  /\ \A c \in Calls : pc[c] = "waiting" => isRefreshing[tab[c]]
  /\ \A t \in Tabs, c \in Calls :
       c \in subscribers[t] <=> tab[c] = t /\ pc[c] = "waiting"

SendsOK ==
  \A c \in Calls :
    /\ pc[c] = "idle" => ~isRetry[c]
    /\ pc[c] \in {"refresh", "waiting"} => sends[c] = 1 /\ ~isRetry[c]
    /\ pc[c] = "call" => sends[c] = (IF isRetry[c] THEN 2 ELSE 1)
    /\ sends[c] <= 2

\* No token has been lost, no session has ended.
Clean == {"lost", "logout", "expired"} \cap events = {}

\* The session of the jar's token is alive, or being renewed.
Kept ==
  \/ jar \in Live
  \/ \E c \in Calls : pc[c] = "refresh" /\ cookie[c] = jar /\ reply[c] \in Live

\* What the browser has comes from the server; and a token on its way is live
\* and fresh, in one answer only, and not yet in the jar or in a request.
TokensOK ==
  /\ \A s \in Sessions : live[s] \subseteq used /\ (s \notin opened => live[s] = {})
  /\ \A s \in Sessions : \A a, b \in live[s] : a = b
  /\ jar \in used \cup {None}
  /\ \A c \in Calls : cookie[c] \in used \cup {None}
  /\ \A c \in Calls : reply[c] \in Tokens =>
       /\ pc[c] \in {"call", "refresh"}
       /\ reply[c] \in used
       /\ reply[c] # jar
       /\ \A d \in Calls : cookie[d] # reply[c]
       /\ \A d \in Calls : reply[d] = reply[c] => d = c
  /\ \A c \in Calls : reply[c] \in Tokens => reply[c] \in Live \cap fresh
  /\ \A c \in Calls :
       /\ pc[c] = "call" /\ kind[c] = "logout" /\ reply[c] = "ok" => "logout" \in events
       /\ pc[c] = "idle" => reply[c] = "none"

Inv == TypeOK /\ TabsOK /\ SendsOK /\ TokensOK /\ SessionKept

-----------------------------------------------------------------------------
(* What the steps do to the calls.                                         *)

\* While the supply lasts, a token that is issued was never issued before.
LEMMA NewTokenIsNew ==
  ASSUME TypeOK, used # Tokens
  PROVE  NewToken \in Tokens \ used
<1>1. \E t \in Tokens : t \notin used
  BY DEF TypeOK
<1> QED  BY <1>1 DEF NewToken

\* The same of a session that a login opens.
LEMMA NewSessionIsNew ==
  ASSUME TypeOK, opened # Sessions
  PROVE  NewSession \in Sessions \ opened
<1>1. \E s \in Sessions : s \notin opened
  BY DEF TypeOK
<1> QED  BY <1>1 DEF NewSession

Replies == Tokens \cup {"none", "ok", "401", "error", "timeout"}

\* The server only answers.
LEMMA ServeAnswers ==
  ASSUME TypeOK, NEW c \in Calls, Serve(c)
  PROVE  /\ reply[c] = "none" /\ pc[c] \in {"call", "refresh"}
         /\ reply' \in [Calls -> Replies]
         /\ \A d \in Calls \ {c} : reply'[d] = reply[d]
         /\ reply'[c] \in Tokens => reply'[c] = NewToken /\ NewToken \in Tokens \ used
         /\ reply'[c] = "ok" /\ kind[c] = "logout" => "logout" \in events'
         /\ UNCHANGED <<jar, tabs, tab, pc, kind, isRetry, cookie, sends>>
<1> USE ConstantsAssumption DEF TypeOK, Replies, Answer, Unserved, OnTheWire
<1>1. CASE ServeMe(c)        BY <1>1 DEF ServeMe
<1>2. CASE RefuseLogin(c)    BY <1>2 DEF RefuseLogin
<1>3. CASE AcceptLogin(c)
  <2>1. NewToken \in Tokens \ used
    BY <1>3, NewTokenIsNew DEF AcceptLogin
  <2> QED  BY <1>3, <2>1 DEF AcceptLogin
<1>4. CASE ServeLogout(c)    BY <1>4 DEF ServeLogout
<1>5. CASE ServeSignUp(c)    BY <1>5 DEF ServeSignUp
<1>6. CASE ServeRefresh(c)
  <2>1. NewToken \in Tokens \ used
    BY <1>6, NewTokenIsNew DEF ServeRefresh
  <2> QED  BY <1>6, <2>1 DEF ServeRefresh
<1>7. CASE RefuseRefresh(c)  BY <1>7 DEF RefuseRefresh
<1>8. CASE ServerError(c)    BY <1>8 DEF ServerError
<1> QED
  BY <1>1, <1>2, <1>3, <1>4, <1>5, <1>6, <1>7, <1>8 DEF Serve

\* The end of a refresh: its leader is sent again, those who wait for it are
\* too, or are done, and it is nothing to the others.
Settles(c) == RefreshSucceeded(c) \/ RefreshFailed(c) \/ RefreshTimeout(c)

Waits(c, d) == tab[d] = tab[c] /\ pc[d] = "waiting"

SentAgain(d) ==
  /\ pc'[d] = "call" /\ isRetry'[d] = TRUE /\ cookie'[d] = jar'
  /\ reply'[d] = "none" /\ sends'[d] = sends[d] + 1

Same(d) ==
  /\ isRetry'[d] = isRetry[d] /\ cookie'[d] = cookie[d]
  /\ reply'[d] = reply[d] /\ sends'[d] = sends[d]

\* What becomes of the calls that a settled refresh resumes.
LEMMA ResumeCalls ==
  ASSUME TypeOK, NEW R \in SUBSET Calls, NEW F \in SUBSET Calls, Resume(R, F),
         jar' \in Tokens \cup {None}
  PROVE  /\ pc' \in [Calls -> {"idle", "call", "refresh", "waiting", "done", "gone"}]
         /\ isRetry' \in [Calls -> BOOLEAN]
         /\ cookie' \in [Calls -> Tokens \cup {None}]
         /\ reply' \in [Calls -> Replies]
         /\ sends' \in [Calls -> Nat]
         /\ UNCHANGED <<tables, tab, kind>>
         /\ \A d \in R : SentAgain(d)
         /\ \A d \in F \ R : pc'[d] = "done" /\ Same(d)
         /\ \A d \in Calls \ (R \cup F) : pc'[d] = pc[d] /\ Same(d)
<1> USE DEF TypeOK, Resume, Replies
<1>1. /\ pc' \in [Calls -> {"idle", "call", "refresh", "waiting", "done", "gone"}]
      /\ isRetry' \in [Calls -> BOOLEAN]
      /\ cookie' \in [Calls -> Tokens \cup {None}]
      /\ reply' \in [Calls -> Replies]
      /\ sends' \in [Calls -> Nat]
  OBVIOUS
<1>2. \A d \in Calls : isRetry'[d] = (d \in R \/ isRetry[d])
  OBVIOUS
<1>3. \A d \in R : SentAgain(d)
  BY <1>2 DEF SentAgain
<1>4. \A d \in Calls \ R : Same(d)
  <2>1. \A d \in Calls \ R : isRetry'[d] = isRetry[d]
    BY <1>2
  <2> QED  BY <2>1 DEF Same
<1>5. /\ \A d \in F \ R : pc'[d] = "done"
      /\ \A d \in Calls \ (R \cup F) : pc'[d] = pc[d]
  OBVIOUS
<1>6. UNCHANGED <<tables, tab, kind>>
  OBVIOUS
<1> QED
  BY <1>1, <1>3, <1>4, <1>5, <1>6

\* A refresh that settles takes its whole list with it.
LEMMA SettleResumes ==
  ASSUME TypeOK, TabsOK, NEW c \in Calls, Settles(c), jar' \in Tokens \cup {None}
  PROVE  /\ pc[c] = "refresh"
         /\ isRefreshing' = [isRefreshing EXCEPT ![tab[c]] = FALSE]
         /\ subscribers' = [subscribers EXCEPT ![tab[c]] = {}]
         /\ UNCHANGED <<tables, tab, kind>>
         /\ pc' \in [Calls -> {"idle", "call", "refresh", "waiting", "done", "gone"}]
         /\ isRetry' \in [Calls -> BOOLEAN]
         /\ cookie' \in [Calls -> Tokens \cup {None}]
         /\ reply' \in [Calls -> Replies]
         /\ sends' \in [Calls -> Nat]
         /\ SentAgain(c)
         /\ \A d \in Calls : Waits(c, d) => SentAgain(d) \/ (pc'[d] = "done" /\ Same(d))
         /\ \A d \in Calls \ {c} : ~Waits(c, d) => pc'[d] = pc[d] /\ Same(d)
<1> DEFINE S == subscribers[tab[c]]
<1>1. S \in SUBSET Calls /\ \A d \in Calls : d \in S <=> Waits(c, d)
  BY DEF TypeOK, TabsOK, Waits
<1>2. pc[c] = "refresh" /\ c \notin S
  BY <1>1 DEF Settles, RefreshSucceeded, RefreshFailed, RefreshTimeout, Waits
<1>3. CASE Settle(c, TRUE)
  <2>1. Resume(S \cup {c}, {})
    BY <1>3 DEF Settle
  <2>2. S \cup {c} \in SUBSET Calls /\ {} \in SUBSET Calls
    BY <1>1
  <2> HIDE DEF S
  <2>3. /\ isRefreshing' = [isRefreshing EXCEPT ![tab[c]] = FALSE]
        /\ subscribers' = [subscribers EXCEPT ![tab[c]] = {}]
    BY <1>3 DEF Settle
  <2> QED  BY <1>1, <1>2, <2>1, <2>2, <2>3, ResumeCalls
<1>4. CASE Settle(c, FALSE)
  <2>1. Resume({c}, S)
    BY <1>4 DEF Settle
  <2> HIDE DEF S
  <2>3. /\ isRefreshing' = [isRefreshing EXCEPT ![tab[c]] = FALSE]
        /\ subscribers' = [subscribers EXCEPT ![tab[c]] = {}]
    BY <1>4 DEF Settle
  <2>4. {c} \in SUBSET Calls
    OBVIOUS
  <2> QED  BY <1>1, <1>2, <2>1, <2>3, <2>4, ResumeCalls
<1> QED
  BY <1>3, <1>4 DEF Settles, RefreshSucceeded, RefreshFailed, RefreshTimeout

\* If it succeeds, all who wait are sent again.
LEMMA SuccessResumes ==
  ASSUME TypeOK, TabsOK, NEW c \in Calls, RefreshSucceeded(c)
  PROVE  \A d \in Calls : Waits(c, d) => pc'[d] = "call"
<1>1. Resume(subscribers[tab[c]] \cup {c}, {})
  BY DEF RefreshSucceeded, Settle
<1>2. \A d \in Calls : Waits(c, d) => d \in subscribers[tab[c]]
  BY DEF Waits, TabsOK, TypeOK
<1> QED  BY <1>1, <1>2 DEF Resume

-----------------------------------------------------------------------------
(* Types.                                                                  *)

\* The variables start with their types.
LEMMA TypeInit == Init => TypeOK
BY ConstantsAssumption DEF Init, TypeOK, AllKinds

\* Every step keeps the types.
LEMMA TypeStep ==
  ASSUME TypeOK, TabsOK, [Next]_vars
  PROVE  TypeOK'
<1> USE ConstantsAssumption DEF TypeOK, tables, tabs, calls
<1>1. ASSUME NEW c \in Calls, NEW k \in Kinds, Call(c, k) PROVE TypeOK'
  BY <1>1 DEF Call
<1>2. ASSUME NEW c \in Calls, Serve(c) PROVE TypeOK'
  <2>1. /\ reply' \in [Calls -> Replies]
        /\ UNCHANGED <<jar, tabs, tab, pc, kind, isRetry, cookie, sends>>
    BY <1>2, ServeAnswers
  <2>2. /\ live' \in [Sessions -> SUBSET Tokens]
        /\ opened' \subseteq Sessions
        /\ used' \subseteq Tokens
        /\ fresh' \subseteq Tokens
        /\ events' \subseteq {"lost", "logout", "error", "expired"}
    <3>1. CASE AcceptLogin(c)
      BY <3>1, NewTokenIsNew, NewSessionIsNew DEF AcceptLogin, Server!Open
    <3>2. CASE ServeRefresh(c)
      BY <3>2, NewTokenIsNew DEF ServeRefresh, Server!Rotate
    <3>3. CASE ServeLogout(c)
      BY <3>3 DEF ServeLogout, Server!Close
    <3> QED
      BY <1>2, <3>1, <3>2, <3>3 DEF Serve, ServeMe, RefuseLogin, ServeSignUp,
         RefuseRefresh, ServerError
  <2> QED  BY <2>1, <2>2 DEF Replies
<1>3. ASSUME NEW c \in Calls, Return(c) \/ Subscribe(c) \/ StartRefresh(c) \/ CallTimeout(c)
      PROVE  TypeOK'
  <2>1. CASE Return(c)        BY <2>1 DEF Return, SetCookies
  <2>2. CASE Subscribe(c)     BY <2>2 DEF Subscribe
  <2>3. CASE StartRefresh(c)  BY <2>3 DEF StartRefresh
  <2>4. CASE CallTimeout(c)   BY <2>4 DEF CallTimeout, Lose
  <2> QED  BY <1>3, <2>1, <2>2, <2>3, <2>4
<1>4. ASSUME NEW c \in Calls, Settles(c) PROVE TypeOK'
  <2>1. jar' \in Tokens \cup {None} /\ events' \subseteq {"lost", "logout", "error", "expired"}
    BY <1>4 DEF Settles, RefreshSucceeded, RefreshFailed, RefreshTimeout, SetCookies
  <2>2. /\ isRefreshing' \in [Tabs -> BOOLEAN]
        /\ subscribers' \in [Tabs -> SUBSET Calls]
        /\ UNCHANGED <<tables, tab, kind>>
    BY <1>4, <2>1, SettleResumes
  <2>3. /\ pc' \in [Calls -> {"idle", "call", "refresh", "waiting", "done", "gone"}]
        /\ isRetry' \in [Calls -> BOOLEAN]
        /\ cookie' \in [Calls -> Tokens \cup {None}]
        /\ reply' \in [Calls -> Replies]
        /\ sends' \in [Calls -> Nat]
    BY <1>4, <2>1, SettleResumes
  <2> QED  BY <2>1, <2>2, <2>3 DEF Replies
<1>5. CASE Age
  <2>1. ASSUME NEW t \in Tokens, Expire(t) PROVE TypeOK'
    BY <2>1 DEF Expire
  <2>2. ASSUME NEW s \in Sessions, SessionExpires(s) PROVE TypeOK'
    BY <2>2 DEF SessionExpires, Server!Close
  <2>3. CASE JarExpires
    BY <2>3 DEF JarExpires
  <2> QED  BY <1>5, <2>1, <2>2, <2>3 DEF Age
<1>6. ASSUME NEW t \in Tabs, Unload(t) PROVE TypeOK'
  BY <1>6 DEF Unload, Lose
<1>7. CASE UNCHANGED vars
  BY <1>7 DEF vars
<1> QED
  BY <1>1, <1>2, <1>3, <1>4, <1>5, <1>6, <1>7 DEF Next, Proceed, Timeout, Settles

-----------------------------------------------------------------------------
(* The flag and the list of a tab.                                         *)

\* Nobody refreshes and nobody waits at the start.
LEMMA TabsInit == Init => TabsOK
BY DEF Init, TabsOK

\* Every step keeps a tab's flag, leader and list together.
LEMMA TabsStep ==
  ASSUME TypeOK, TabsOK, TypeOK', [Next]_vars
  PROVE  TabsOK'
<1> USE DEF TypeOK, TabsOK
<1>1. ASSUME NEW c \in Calls,
             (\E k \in Kinds : Call(c, k)) \/ Return(c) \/ CallTimeout(c)
      PROVE  TabsOK'
  BY <1>1 DEF Call, Return, CallTimeout, tabs
<1>2. ASSUME NEW c \in Calls, Serve(c) PROVE TabsOK'
  BY <1>2, ServeAnswers DEF tabs
<1>3. ASSUME NEW c \in Calls, Subscribe(c) PROVE TabsOK'
  BY <1>3 DEF Subscribe, Rejected
<1>4. ASSUME NEW c \in Calls, StartRefresh(c) PROVE TabsOK'
  BY <1>4 DEF StartRefresh, Rejected
<1>5. ASSUME NEW c \in Calls, Settles(c) PROVE TabsOK'
  <2>1. /\ pc[c] = "refresh"
        /\ isRefreshing' = [isRefreshing EXCEPT ![tab[c]] = FALSE]
        /\ subscribers' = [subscribers EXCEPT ![tab[c]] = {}]
        /\ tab' = tab
        /\ SentAgain(c)
        /\ \A d \in Calls : Waits(c, d) => SentAgain(d) \/ (pc'[d] = "done" /\ Same(d))
        /\ \A d \in Calls \ {c} : ~Waits(c, d) => pc'[d] = pc[d] /\ Same(d)
    BY <1>5, SettleResumes
  <2>2. /\ pc'[c] = "call"
        /\ \A d \in Calls : Waits(c, d) => pc'[d] \in {"call", "done"}
        /\ \A d \in Calls \ {c} : ~Waits(c, d) => pc'[d] = pc[d]
    BY <2>1 DEF SentAgain
  <2>3. \A d \in Calls :
          /\ pc'[d] = "refresh" => pc[d] = "refresh" /\ d # c /\ tab[d] # tab[c]
          /\ pc'[d] = "waiting" <=> pc[d] = "waiting" /\ tab[d] # tab[c]
          /\ pc[d] = "refresh" /\ d # c => pc'[d] = "refresh"
    BY <2>1, <2>2 DEF Waits
  <2>4. \A t \in Tabs : isRefreshing'[t] = (t # tab[c] /\ isRefreshing[t])
    BY <2>1
  <2>5. \A t \in Tabs : subscribers'[t] = IF t = tab[c] THEN {} ELSE subscribers[t]
    BY <2>1
  <2>6. \A t \in Tabs : isRefreshing'[t] <=> \E d \in Calls : tab[d] = t /\ pc'[d] = "refresh"
    BY <2>1, <2>3, <2>4
  <2>7. \A d \in Calls : pc'[d] = "waiting" => isRefreshing'[tab[d]]
    BY <2>3, <2>4
  <2>8. \A t \in Tabs, d \in Calls : d \in subscribers'[t] <=> tab[d] = t /\ pc'[d] = "waiting"
    BY <2>3, <2>5
  <2> QED  BY <2>1, <2>3, <2>6, <2>7, <2>8
<1>6. CASE Age
  <2>1. ASSUME NEW t \in Tokens, Expire(t) PROVE TabsOK'
    BY <2>1 DEF Expire, tabs, calls
  <2>2. ASSUME NEW s \in Sessions, SessionExpires(s) PROVE TabsOK'
    BY <2>2 DEF SessionExpires, tabs, calls
  <2>3. CASE JarExpires
    BY <2>3 DEF JarExpires, tabs, calls
  <2> QED  BY <1>6, <2>1, <2>2, <2>3 DEF Age
<1>7. ASSUME NEW t \in Tabs, Unload(t) PROVE TabsOK'
  BY <1>7 DEF Unload
<1>8. CASE UNCHANGED vars
  BY <1>8 DEF vars, tabs, calls
<1> QED
  BY <1>1, <1>2, <1>3, <1>4, <1>5, <1>6, <1>7, <1>8 DEF Next, Proceed, Timeout, Settles

-----------------------------------------------------------------------------
(* Retries.                                                                *)

\* Nothing has been sent at the start.
LEMMA SendsInit == Init => SendsOK
BY DEF Init, SendsOK

\* Every step keeps count of what was sent.
LEMMA SendsStep ==
  ASSUME TypeOK, TabsOK, SendsOK, TypeOK', [Next]_vars
  PROVE  SendsOK'
<1> USE DEF TypeOK, SendsOK
<1>1. ASSUME NEW c \in Calls,
             (\E k \in Kinds : Call(c, k)) \/ Return(c) \/ CallTimeout(c)
                \/ Subscribe(c) \/ StartRefresh(c)
      PROVE  SendsOK'
  BY <1>1 DEF Call, Return, CallTimeout, Subscribe, StartRefresh, Rejected
<1>2. ASSUME NEW c \in Calls, Serve(c) PROVE SendsOK'
  BY <1>2, ServeAnswers
<1>3. ASSUME NEW c \in Calls, Settles(c) PROVE SendsOK'
  <2>1. /\ pc[c] = "refresh"
        /\ SentAgain(c)
        /\ \A d \in Calls : Waits(c, d) => SentAgain(d) \/ (pc'[d] = "done" /\ Same(d))
        /\ \A d \in Calls \ {c} : ~Waits(c, d) => pc'[d] = pc[d] /\ Same(d)
    BY <1>3, SettleResumes
  <2> QED  BY <2>1 DEF SentAgain, Same, Waits
<1>4. CASE Age
  BY <1>4 DEF Age, Expire, SessionExpires, JarExpires, calls
<1>5. ASSUME NEW t \in Tabs, Unload(t) PROVE SendsOK'
  BY <1>5 DEF Unload
<1>6. CASE UNCHANGED vars
  BY <1>6 DEF vars, calls
<1> QED
  BY <1>1, <1>2, <1>3, <1>4, <1>5, <1>6 DEF Next, Proceed, Timeout, Settles

-----------------------------------------------------------------------------
(* Who has which token.                                                    *)

\* At the start the jar holds the one token of the one open session.
LEMMA TokensInit == Init => TokensOK /\ SessionKept
<1> SUFFICES ASSUME Init PROVE TokensOK /\ SessionKept
  OBVIOUS
<1>1. \A c \in Calls : reply[c] \notin Tokens /\ reply[c] # "ok"
  BY ConstantsAssumption DEF Init
<1>2. PICK s \in Sessions, t \in Tokens :
        /\ live = [q \in Sessions |-> IF q = s THEN {t} ELSE {}]
        /\ opened = {s} /\ used = {t} /\ jar = t
  BY ConstantsAssumption DEF Init
<1>3. t \in live[s]
  BY <1>2
<1>4. jar \in Live
  BY <1>2, <1>3 DEF Live
<1> QED
  BY <1>1, <1>2, <1>4, ConstantsAssumption DEF Init, TokensOK, SessionKept

\* What the browser does keeps the session, if it loses no token.
LEMMA BrowserKeeps ==
  ASSUME TypeOK, TokensOK, live' = live,
         jar' = jar \/ \E c \in Calls : reply[c] \in Tokens /\ jar' = reply[c],
         \A c \in Calls : pc[c] = "refresh" /\ reply[c] \in Tokens =>
           \/ reply'[c] = reply[c] /\ pc'[c] = pc[c] /\ cookie'[c] = cookie[c]
           \/ jar' = reply[c]
  PROVE  Kept => Kept'
<1>1. Live' = Live /\ \A c \in Calls : reply[c] \in Tokens => reply[c] \in Live
  BY DEF Live, TokensOK
<1>2. CASE jar' # jar
  BY <1>1, <1>2 DEF Kept
<1>3. CASE jar' = jar /\ jar \in Live
  BY <1>1, <1>3 DEF Kept
<1>4. ASSUME jar' = jar,
             NEW c \in Calls, pc[c] = "refresh", cookie[c] = jar, reply[c] \in Live
      PROVE  Kept'
  <2>1. reply[c] \in Tokens
    BY <1>4 DEF Live, TypeOK
  <2> QED  BY <1>1, <1>4, <2>1 DEF Kept
<1> QED  BY <1>2, <1>3, <1>4 DEF Kept

\* A step of the browser: a token that arrives is put in the jar, or lost, and
\* requests leave with what the jar holds.
LEMMA BrowserStep ==
  ASSUME TypeOK, TypeOK', TokensOK, SessionKept,
         UNCHANGED <<live, opened, used>>,
         events \subseteq events',
         \A c \in Calls : reply[c] \in fresh => reply[c] \in fresh',
         \A d \in Calls : cookie'[d] \in {cookie[d], jar', None},
         \A d \in Calls : reply'[d] \in Tokens => reply'[d] = reply[d] /\ pc'[d] = pc[d],
         \/ jar' = jar
         \/ jar' = None /\ "logout" \in events'
         \/ \E c \in Calls : reply[c] \in Tokens /\ jar' = reply[c] /\ reply'[c] \notin Tokens,
         Clean' => \A c \in Calls : reply[c] \in Tokens =>
           \/ reply'[c] = reply[c] /\ pc'[c] = pc[c] /\ cookie'[c] = cookie[c]
           \/ jar' = reply[c],
         \A c \in Calls : pc'[c] = "call" /\ kind'[c] = "logout" /\ reply'[c] = "ok"
           => pc[c] = "call" /\ kind[c] = "logout" /\ reply[c] = "ok",
         \A c \in Calls : pc'[c] = "idle" =>
           (pc[c] = "idle" /\ reply'[c] = reply[c]) \/ reply'[c] = "none"
  PROVE  TokensOK' /\ SessionKept'
<1> USE ConstantsAssumption DEF TokensOK
<1>1. Live' = Live /\ (Clean' => Clean)
  BY DEF Live, Clean
<1>2. jar' \in used \cup {None}
  OBVIOUS
<1>3. \A c \in Calls : cookie'[c] \in used \cup {None}
  BY <1>2
<1>4. \A c \in Calls : reply'[c] \in Tokens =>
        /\ pc'[c] \in {"call", "refresh"}
        /\ reply'[c] \in used
        /\ reply'[c] # jar'
        /\ \A d \in Calls : cookie'[d] # reply'[c]
        /\ \A d \in Calls : reply'[d] = reply'[c] => d = c
  <2> SUFFICES ASSUME NEW c \in Calls, reply'[c] \in Tokens
               PROVE  /\ pc'[c] \in {"call", "refresh"}
                      /\ reply'[c] \in used
                      /\ reply'[c] # jar'
                      /\ \A d \in Calls : cookie'[d] # reply'[c]
                      /\ \A d \in Calls : reply'[d] = reply'[c] => d = c
    OBVIOUS
  <2>1. reply'[c] = reply[c] /\ pc'[c] = pc[c]
    OBVIOUS
  <2>2. reply'[c] # jar'
    BY <2>1
  <2> QED  BY <2>1, <2>2
<1>5. \A c \in Calls : reply'[c] \in Tokens => reply'[c] \in Live \cap fresh'
  BY <1>1
<1>6. SessionKept'
  <2>1. Clean' => Kept
    BY <1>1 DEF SessionKept, Clean, Kept
  <2>2. Clean' => (jar' = jar \/ \E c \in Calls : reply[c] \in Tokens /\ jar' = reply[c])
    BY DEF Clean
  <2>3. Clean' => Kept'
    BY <2>1, <2>2, BrowserKeeps
  <2> QED  BY <2>3 DEF SessionKept, Clean, Kept
<1>7. /\ \A s \in Sessions : live'[s] \subseteq used' /\ (s \notin opened' => live'[s] = {})
      /\ \A s \in Sessions : \A a, b \in live'[s] : a = b
      /\ used' = used
  OBVIOUS
<1>8. \A c \in Calls :
        /\ pc'[c] = "call" /\ kind'[c] = "logout" /\ reply'[c] = "ok" => "logout" \in events'
        /\ pc'[c] = "idle" => reply'[c] = "none"
  OBVIOUS
<1> QED
  BY <1>1, <1>2, <1>3, <1>4, <1>5, <1>6, <1>7, <1>8

\* A token that is issued replaces none that another call or the jar relies on.
LEMMA IssueKeeps ==
  ASSUME TypeOK, TokensOK, NEW c \in Calls, NEW s \in Sessions, NEW n \in Tokens \ used,
         reply[c] = "none",
         reply' = [reply EXCEPT ![c] = n],
         UNCHANGED <<jar, pc, cookie>>,
         live' = [live EXCEPT ![s] = {n}],
         live[s] = {} \/ (cookie[c] \in live[s] /\ pc[c] = "refresh")
  PROVE  /\ n \in Live'
         /\ \A t \in Live : t # cookie[c] \/ pc[c] # "refresh" => t \in Live'
         /\ Kept => Kept'
<1> USE ConstantsAssumption DEF TypeOK, TokensOK
<1>1. reply'[c] = n /\ \A d \in Calls \ {c} : reply'[d] = reply[d]
  OBVIOUS
<1>2. live'[s] = {n} /\ \A q \in Sessions \ {s} : live'[q] = live[q]
  OBVIOUS
<1>3. n \in Live'
  BY <1>2 DEF Live
<1>4. \A t \in Live : t # cookie[c] \/ pc[c] # "refresh" => t \in Live'
  <2> SUFFICES ASSUME NEW q \in Sessions, NEW t \in live[q], t # cookie[c] \/ pc[c] # "refresh"
               PROVE  t \in Live'
    BY DEF Live
  <2>1. q # s
    OBVIOUS
  <2> QED  BY <1>2, <2>1 DEF Live
<1>5. CASE jar \in Live
  BY <1>1, <1>3, <1>4, <1>5 DEF Kept
<1>6. ASSUME NEW d \in Calls, pc[d] = "refresh", cookie[d] = jar, reply[d] \in Live
      PROVE  Kept'
  <2>1. reply[d] \in Tokens
    BY <1>6 DEF Live
  <2> QED  BY <1>1, <1>4, <1>6, <2>1 DEF Kept
<1> QED  BY <1>3, <1>4, <1>5, <1>6 DEF Kept

\* The server issues token n in a session that was not open, or in place of the
\* token that the request carries.
LEMMA TokensIssued ==
  ASSUME TypeOK, TypeOK', TokensOK, SessionKept, NEW c \in Calls, NEW s \in Sessions,
         NEW n \in Tokens \ used,
         reply[c] = "none", pc[c] \in {"call", "refresh"},
         reply' = [reply EXCEPT ![c] = n],
         UNCHANGED <<jar, pc, kind, cookie, events>>,
         live' = [live EXCEPT ![s] = {n}],
         fresh' = fresh \cup {n},
         used' = used \cup {n},
         \/ live[s] = {} /\ opened' = opened \cup {s}
         \/ cookie[c] \in live[s] /\ pc[c] = "refresh" /\ opened' = opened
  PROVE  TokensOK' /\ SessionKept'
<1> USE ConstantsAssumption DEF TypeOK, TokensOK
<1>1. reply'[c] = n /\ \A d \in Calls \ {c} : reply'[d] = reply[d]
  OBVIOUS
<1>2. live'[s] = {n} /\ \A q \in Sessions \ {s} : live'[q] = live[q]
  OBVIOUS
<1>3. n \in Live' /\ \A t \in Live : t # cookie[c] => t \in Live'
  BY IssueKeeps
<1>5. Clean' = Clean
  BY DEF Clean
<1>6. \A d \in Calls : reply[d] \in Tokens => reply[d] # cookie[c] /\ d # c
  OBVIOUS
<1>7. \A d \in Calls : reply'[d] \in Tokens => reply'[d] \in Live' \cap fresh'
  BY <1>1, <1>3, <1>6
<1>8. SessionKept'
  <2>1. Kept => Kept'
    BY IssueKeeps
  <2> QED  BY <1>5, <2>1 DEF SessionKept, Clean, Kept
<1>9. /\ \A q \in Sessions : live'[q] \subseteq used' /\ (q \notin opened' => live'[q] = {})
      /\ \A q \in Sessions : \A a, b \in live'[q] : a = b
  BY <1>2
<1>10. \A d \in Calls : reply'[d] \in Tokens =>
        /\ pc[d] \in {"call", "refresh"}
        /\ reply'[d] \in used'
        /\ reply'[d] # jar
        /\ \A e \in Calls : cookie[e] # reply'[d]
        /\ \A e \in Calls : reply'[e] = reply'[d] => e = d
  BY <1>1
<1>11. \A d \in Calls :
        /\ pc'[d] = "call" /\ kind'[d] = "logout" /\ reply'[d] = "ok" => "logout" \in events'
        /\ pc'[d] = "idle" => reply'[d] = "none"
  BY <1>1
<1> QED
  BY <1>7, <1>8, <1>9, <1>10, <1>11

\* Every step keeps the tokens of the jar and of the calls accounted for.
LEMMA TokensStep ==
  ASSUME TypeOK, TabsOK, TokensOK, SessionKept, TypeOK', [Next]_vars
  PROVE  TokensOK' /\ SessionKept'
<1> USE ConstantsAssumption DEF TypeOK, tables, tabs, calls
<1>1. ASSUME NEW c \in Calls, NEW k \in Kinds, Call(c, k) PROVE TokensOK' /\ SessionKept'
  <2>1. reply[c] \notin Tokens
    BY <1>1 DEF Call, TokensOK
  <2>2. /\ cookie'[c] = jar /\ pc'[c] = "call"
        /\ \A d \in Calls \ {c} : pc'[d] = pc[d] /\ cookie'[d] = cookie[d] /\ kind'[d] = kind[d]
        /\ UNCHANGED <<tables, jar, events, reply>>
    BY <1>1 DEF Call
  <2>3. reply[c] = "none"
    BY <1>1 DEF Call, TokensOK
  <2> QED  BY <2>1, <2>2, <2>3, BrowserStep
<1>2. ASSUME NEW c \in Calls, Serve(c) PROVE TokensOK' /\ SessionKept'
  <2>1. CASE AcceptLogin(c)
    <3>1. NewToken \in Tokens \ used /\ NewSession \in Sessions \ opened
      BY <2>1, NewTokenIsNew, NewSessionIsNew DEF AcceptLogin
    <3>2. live[NewSession] = {}
      BY <3>1 DEF TokensOK
    <3> QED  BY <2>1, <3>1, <3>2, TokensIssued DEF AcceptLogin, Answer, Unserved, OnTheWire, Server!Open
  <2>2. CASE ServeRefresh(c)
    <3>1. NewToken \in Tokens \ used
      BY <2>2, NewTokenIsNew DEF ServeRefresh
    <3> QED  BY <2>2, <3>1, TokensIssued DEF ServeRefresh, Answer, Unserved, OnTheWire, Server!Rotate
  <2>3. CASE ServeLogout(c)
    <3>1. /\ "logout" \in events' /\ ~Clean'
          /\ \A s \in Sessions : live'[s] = IF cookie[c] \in live[s] THEN {} ELSE live[s]
          /\ UNCHANGED <<opened, used, fresh, jar, pc, kind, cookie>>
          /\ reply' = [reply EXCEPT ![c] = "ok"] /\ pc[c] # "idle"
      BY <2>3 DEF ServeLogout, Answer, Unserved, OnTheWire, Clean, Server!Close
    <3>2. \A t \in Live : t \notin Live' => \E s \in Sessions : t \in live[s] /\ cookie[c] \in live[s]
      BY <3>1 DEF Live
    <3>3. \A d \in Calls : reply[d] \in Tokens => reply[d] \in Live'
      BY <3>2 DEF TokensOK
    <3> QED  BY <3>1, <3>3 DEF TokensOK, SessionKept, Clean
  <2>4. CASE ServeMe(c) \/ RefuseLogin(c) \/ ServeSignUp(c) \/ RefuseRefresh(c) \/ ServerError(c)
    <3>1. /\ reply[c] = "none"
          /\ \A d \in Calls \ {c} : reply'[d] = reply[d]
          /\ reply'[c] \in {"ok", "401", "error"}
          /\ reply'[c] = "ok" => kind[c] # "logout"
          /\ pc[c] # "idle"
          /\ UNCHANGED <<tables, jar, pc, kind, cookie>>
          /\ events \subseteq events'
      BY <2>4 DEF ServeMe, RefuseLogin, ServeSignUp, RefuseRefresh, ServerError, Answer,
         Unserved, OnTheWire
    <3> QED  BY <3>1, BrowserStep
  <2> QED  BY <1>2, <2>1, <2>2, <2>3, <2>4 DEF Serve
<1>3. ASSUME NEW c \in Calls, Return(c) PROVE TokensOK' /\ SessionKept'
  <2>1. /\ reply'[c] \notin Tokens /\ cookie'[c] = None /\ pc'[c] = "done"
        /\ \A d \in Calls \ {c} : reply'[d] = reply[d] /\ pc'[d] = pc[d] /\ cookie'[d] = cookie[d]
        /\ UNCHANGED <<tables, events, kind>>
    BY <1>3 DEF Return
  <2>2. /\ \/ jar' = jar
           \/ jar' = None /\ "logout" \in events'
           \/ reply[c] \in Tokens /\ jar' = reply[c]
        /\ reply[c] \in Tokens => jar' = reply[c]
    BY <1>3 DEF Return, SetCookies, TokensOK
  <2> QED  BY <2>1, <2>2, BrowserStep
<1>4. ASSUME NEW c \in Calls, Subscribe(c) \/ StartRefresh(c) PROVE TokensOK' /\ SessionKept'
  <2>1. /\ reply[c] = "401" /\ reply'[c] \in {"401", "none"}
        /\ cookie'[c] \in {jar, None} /\ pc'[c] \in {"waiting", "refresh"}
        /\ \A d \in Calls \ {c} : reply'[d] = reply[d] /\ pc'[d] = pc[d] /\ cookie'[d] = cookie[d]
        /\ UNCHANGED <<tables, jar, events, kind>>
    BY <1>4 DEF Subscribe, StartRefresh, Rejected
  <2> QED  BY <2>1, BrowserStep
<1>5. ASSUME NEW c \in Calls, CallTimeout(c) PROVE TokensOK' /\ SessionKept'
  <2>1. /\ reply'[c] = "timeout" /\ cookie'[c] = None /\ pc'[c] = "done"
        /\ \A d \in Calls \ {c} : reply'[d] = reply[d] /\ pc'[d] = pc[d] /\ cookie'[d] = cookie[d]
        /\ UNCHANGED <<tables, jar, kind>>
        /\ events \subseteq events'
        /\ reply[c] \in Tokens => ~Clean'
    BY <1>5 DEF CallTimeout, Lose, OnTheWire, Clean
  <2> QED  BY <2>1, BrowserStep
<1>6. ASSUME NEW c \in Calls, Settles(c) PROVE TokensOK' /\ SessionKept'
  <2>1. /\ pc[c] = "refresh"
        /\ UNCHANGED <<tables, kind>>
        /\ SentAgain(c)
        /\ \A d \in Calls : Waits(c, d) => SentAgain(d) \/ (pc'[d] = "done" /\ Same(d))
        /\ \A d \in Calls \ {c} : ~Waits(c, d) => pc'[d] = pc[d] /\ Same(d)
    BY <1>6, SettleResumes
  <2>2. \A d \in Calls : Waits(c, d) => reply[d] \notin Tokens
    BY DEF Waits, TokensOK
  <2>3. /\ events \subseteq events'
        /\ jar' = jar \/ (reply[c] \in Tokens /\ jar' = reply[c])
        /\ Clean' /\ reply[c] \in Tokens => jar' = reply[c]
    BY <1>6 DEF Settles, RefreshSucceeded, RefreshFailed, RefreshTimeout, SetCookies, Clean
  <2>4. /\ reply'[c] = "none" /\ cookie'[c] = jar'
        /\ \A d \in Calls : cookie'[d] \in {cookie[d], jar', None}
        /\ \A d \in Calls : reply'[d] \in Tokens => reply'[d] = reply[d] /\ pc'[d] = pc[d]
        /\ \A d \in Calls \ {c} : reply[d] \in Tokens =>
             reply'[d] = reply[d] /\ pc'[d] = pc[d] /\ cookie'[d] = cookie[d]
        /\ \A d \in Calls : pc'[d] = "call" /\ reply'[d] = "ok" => pc[d] = "call" /\ reply[d] = "ok"
        /\ \A d \in Calls : pc'[d] = "idle" => pc[d] = "idle" /\ reply'[d] = reply[d]
    BY <2>1, <2>2 DEF SentAgain, Same
  <2> QED  BY <2>1, <2>3, <2>4, BrowserStep
<1>7. ASSUME NEW t \in Tokens, Expire(t) PROVE TokensOK' /\ SessionKept'
  <2>1. \A c \in Calls : reply[c] \in fresh => reply[c] \in fresh'
    <3>1. \A c \in Calls : reply[c] \in Tokens => reply[c] # t
      BY <1>7 DEF Expire, TokensOK, OnTheWire
    <3> QED  BY <1>7, <3>1 DEF Expire
  <2> QED  BY <1>7, <2>1, BrowserStep DEF Expire
<1>a. ASSUME NEW s \in Sessions, SessionExpires(s) PROVE TokensOK' /\ SessionKept'
  <2>1. /\ \A q \in Sessions : live'[q] = IF q = s THEN {} ELSE live[q]
        /\ UNCHANGED <<opened, used, fresh, jar, pc, kind, cookie, reply>>
        /\ events \subseteq events'
    BY <1>a DEF SessionExpires, Server!Close
  <2>2. \A c \in Calls : pc[c] # "refresh" /\ reply[c] \notin Tokens
    BY <1>a DEF SessionExpires, OnTheWire, TokensOK
  <2>3. ASSUME Clean' PROVE Kept'
    <3>1. jar \notin live[s] /\ events' = events
      BY <1>a, <2>3 DEF SessionExpires, Clean
    <3>2. jar \in Live
      BY <2>2, <2>3, <3>1 DEF SessionKept, Clean
    <3> QED  BY <2>1, <3>1, <3>2 DEF Live, Kept
  <2> QED  BY <2>1, <2>2, <2>3 DEF TokensOK, SessionKept, Clean, Kept
<1>b. CASE JarExpires
  <2>1. /\ UNCHANGED <<live, opened, used, fresh, events, pc, kind, cookie, reply>>
        /\ jar' = None /\ jar \notin Live
    BY <1>b DEF JarExpires
  <2>2. \A c \in Calls : pc[c] # "refresh" /\ reply[c] \notin Tokens
    BY <1>b DEF JarExpires, OnTheWire, TokensOK
  <2>3. ~Clean'
    BY <2>1, <2>2 DEF SessionKept, Clean
  <2> QED  BY <2>1, <2>2, <2>3 DEF TokensOK, SessionKept, Clean
<1>8. ASSUME NEW t \in Tabs, Unload(t) PROVE TokensOK' /\ SessionKept'
  <2>1. /\ UNCHANGED <<tables, jar, kind>>
        /\ events \subseteq events'
        /\ \A d \in Calls : \/ reply'[d] = reply[d] /\ pc'[d] = pc[d] /\ cookie'[d] = cookie[d]
                            \/ /\ reply'[d] = "none" /\ pc'[d] = "gone" /\ cookie'[d] = None
                               /\ Clean' /\ pc[d] \in {"call", "refresh"} => reply[d] \notin Tokens
    BY <1>8 DEF Unload, Lose, OnTheWire, Clean
  <2>2. \A d \in Calls : reply[d] \in Tokens => pc[d] \in {"call", "refresh"}
    BY DEF TokensOK
  <2> QED  BY <2>1, <2>2, BrowserStep
<1>9. CASE UNCHANGED vars
  BY <1>9, BrowserStep DEF vars
<1> QED
  BY <1>1, <1>2, <1>3, <1>4, <1>5, <1>6, <1>7, <1>8, <1>9, <1>a, <1>b
  DEF Next, Age, Proceed, Timeout, Settles

-----------------------------------------------------------------------------
(* The theorems.                                                           *)

\* The parts hold together.
THEOREM Invariant == Spec => []Inv
<1>1. Init => Inv
  BY TypeInit, TabsInit, SendsInit, TokensInit DEF Inv
<1>2. Inv /\ [Next]_vars => Inv'
  <2> SUFFICES ASSUME Inv, [Next]_vars PROVE Inv'
    OBVIOUS
  <2>1. TypeOK'
    BY TypeStep DEF Inv
  <2> QED  BY <2>1, TabsStep, SendsStep, TokensStep DEF Inv
<1> QED  BY <1>1, <1>2, PTL DEF Spec

\* The variables keep their types, for any tabs, calls, sessions and tokens.
THEOREM TypeCorrect == Spec => []TypeOK
<1>1. Inv => TypeOK
  BY DEF Inv
<1> QED  BY <1>1, Invariant, PTL

\* A tab never has two refreshes in flight.
THEOREM OneFlight == Spec => []SingleFlight
<1>1. Inv => SingleFlight
  BY DEF Inv, TabsOK, SingleFlight
<1> QED  BY <1>1, Invariant, PTL

\* A call that waits is on the list of a refresh that is in flight.
THEOREM WaitersKnown == Spec => []NoneForgotten
<1>1. Inv => NoneForgotten
  BY DEF Inv, TypeOK, TabsOK, NoneForgotten
<1> QED  BY <1>1, Invariant, PTL

\* No call is sent more than twice.
THEOREM RetriedOnce == Spec => []AtMostTwoSends
<1>1. Inv => AtMostTwoSends
  BY DEF Inv, SendsOK, AtMostTwoSends
<1> QED  BY <1>1, Invariant, PTL

\* However many tabs race, a browser that loses no answer, does not log out and
\* lets no refresh token expire keeps its session.
THEOREM RaceKeepsSession == Spec => []SessionKept
<1>1. Inv => SessionKept
  BY DEF Inv
<1> QED  BY <1>1, Invariant, PTL
-----------------------------------------------------------------------------
(* One tab, in which nothing goes wrong.  A refresh presents the session's *)
(* live token, because no other is in flight that might exchange it, so it *)
(* is not refused; and what is sent again carries a fresh token.           *)

OneTab == \A c, d \in Calls : pc[c] # "idle" /\ pc[d] # "idle" => tab[c] = tab[d]

SilentOK ==
  events = {} /\ OneTab =>
    \A c \in Calls :
      /\ pc[c] = "refresh" =>
           reply[c] \in Tokens \/ (reply[c] = "none" /\ cookie[c] \in Live)
      /\ pc[c] = "call" /\ isRetry[c] /\ reply[c] = "none" => cookie[c] \in fresh
      /\ pc[c] = "call" /\ isRetry[c] /\ kind[c] = "me" => reply[c] # "401"
      /\ pc[c] = "done" /\ kind[c] = "me" => reply[c] # "401"

\* Nothing has been sent at the start.
LEMMA SilentInit == Init => SilentOK
BY ConstantsAssumption DEF Init, SilentOK

\* Every step of a single tab keeps its refreshes unrefused.
LEMMA SilentStep ==
  ASSUME Inv, SilentOK, TypeOK', [Next]_vars
  PROVE  SilentOK'
<1> SUFFICES ASSUME events' = {}, OneTab'
             PROVE  \A c \in Calls :
                      /\ pc'[c] = "refresh" =>
                           reply'[c] \in Tokens \/ (reply'[c] = "none" /\ cookie'[c] \in Live')
                      /\ pc'[c] = "call" /\ isRetry'[c] /\ reply'[c] = "none" => cookie'[c] \in fresh'
                      /\ pc'[c] = "call" /\ isRetry'[c] /\ kind'[c] = "me" => reply'[c] # "401"
                      /\ pc'[c] = "done" /\ kind'[c] = "me" => reply'[c] # "401"
  BY DEF SilentOK
<1> DEFINE Silent(c) ==
      /\ pc[c] = "refresh" =>
           reply[c] \in Tokens \/ (reply[c] = "none" /\ cookie[c] \in Live)
      /\ pc[c] = "call" /\ isRetry[c] /\ reply[c] = "none" => cookie[c] \in fresh
      /\ pc[c] = "call" /\ isRetry[c] /\ kind[c] = "me" => reply[c] # "401"
      /\ pc[c] = "done" /\ kind[c] = "me" => reply[c] # "401"
<1>s. SUFFICES \A c \in Calls : Silent(c)'
  OBVIOUS
<1>i. /\ TypeOK /\ TabsOK /\ SendsOK /\ TokensOK /\ SessionKept
      /\ events = {} /\ OneTab => \A c \in Calls : Silent(c)
  BY DEF Inv, SilentOK
<1> USE ConstantsAssumption DEF TypeOK, tables, tabs, calls
<1>1. ASSUME NEW c \in Calls, NEW k \in Kinds, Call(c, k) PROVE \A d \in Calls : Silent(d)'
  <2>1. events = {} /\ OneTab
    BY <1>1 DEF Call, OneTab
  <2>2. /\ pc'[c] = "call" /\ ~isRetry'[c] /\ reply'[c] = "none"
        /\ \A d \in Calls \ {c} :
             /\ pc'[d] = pc[d] /\ cookie'[d] = cookie[d] /\ kind'[d] = kind[d]
        /\ UNCHANGED <<live, fresh, reply, isRetry>>
    BY <1>1, <1>i DEF Call, SendsOK, TokensOK
  <2> QED  BY <1>i, <2>1, <2>2 DEF Live
<1>2. ASSUME NEW c \in Calls, Serve(c) PROVE \A d \in Calls : Silent(d)'
  <2>1. /\ reply[c] = "none" /\ pc[c] \in {"call", "refresh"}
        /\ \A d \in Calls \ {c} : reply'[d] = reply[d]
        /\ UNCHANGED <<pc, kind, isRetry, cookie, tab>>
    BY <1>2, <1>i, ServeAnswers DEF Inv
  <2>2. events = {} /\ OneTab
    BY <1>2, <2>1 DEF OneTab, Serve, ServeMe, RefuseLogin, AcceptLogin, ServeLogout, ServeSignUp,
       ServeRefresh, RefuseRefresh, ServerError
  <2>3. \A d \in Calls : Silent(d)
    BY <1>i, <2>2
  <2>4. CASE AcceptLogin(c)
    <3>1. NewSession \in Sessions \ opened
      BY <2>4, <1>i, NewSessionIsNew DEF AcceptLogin
    <3>2. live[NewSession] = {}
      BY <1>i, <3>1 DEF TokensOK
    <3>3. Live \subseteq Live'
      BY <2>4, <3>1, <3>2 DEF AcceptLogin, Server!Open, Live
    <3>4. fresh \subseteq fresh' /\ reply'[c] \in fresh' /\ reply'[c] \in Tokens /\ pc[c] = "call"
      BY <2>4, <1>i, NewTokenIsNew DEF AcceptLogin, Answer
    <3> QED  BY <2>1, <2>3, <3>3, <3>4
  <2>5. CASE ServeRefresh(c)
    <3>1. ASSUME NEW d \in Calls, pc[d] = "refresh" PROVE d = c
      <4>1. pc[c] = "refresh"
        BY <2>5 DEF ServeRefresh
      <4>2. tab[d] = tab[c]
        BY <2>2, <3>1, <4>1 DEF OneTab
      <4> QED  BY <1>i, <3>1, <4>1, <4>2 DEF TabsOK
    <3>2. fresh \subseteq fresh' /\ reply'[c] \in fresh' /\ reply'[c] \in Tokens /\ pc[c] = "refresh"
      BY <2>5, <1>i, NewTokenIsNew DEF ServeRefresh, Answer
    <3> QED  BY <2>1, <2>3, <3>1, <3>2
  <2>6. CASE ServeMe(c)
    <3>1. /\ pc[c] = "call" /\ reply'[c] = IF cookie[c] \in fresh THEN "ok" ELSE "401"
          /\ UNCHANGED <<live, fresh>>
      BY <2>6, <1>i DEF ServeMe, Answer
    <3> QED  BY <2>1, <2>3, <3>1 DEF Live
  <2>7. CASE RefuseLogin(c) \/ ServeSignUp(c)
    <3>1. /\ pc[c] = "call" /\ kind[c] # "me" /\ reply'[c] \in {"ok", "401"}
          /\ UNCHANGED <<live, fresh>>
      BY <2>7, <1>i DEF RefuseLogin, ServeSignUp, Answer
    <3> QED  BY <2>1, <2>3, <3>1 DEF Live
  <2>8. ~RefuseRefresh(c)
    BY <2>1, <2>3 DEF RefuseRefresh
  <2>9. ~ServeLogout(c) /\ ~ServerError(c)
    BY DEF ServeLogout, ServerError
  <2> QED  BY <1>2, <2>4, <2>5, <2>6, <2>7, <2>8, <2>9 DEF Serve
<1>3. ASSUME NEW c \in Calls,
             Return(c) \/ CallTimeout(c) \/ Subscribe(c)
      PROVE  \A d \in Calls : Silent(d)'
  <2>1. /\ pc[c] = "call" /\ pc'[c] \in {"done", "waiting"} /\ reply'[c] \notin Tokens
        /\ pc'[c] = "done" /\ reply'[c] = "401" => isRetry[c] /\ reply[c] = "401"
        /\ \A d \in Calls \ {c} : reply'[d] = reply[d] /\ pc'[d] = pc[d] /\ cookie'[d] = cookie[d]
        /\ UNCHANGED <<live, fresh, kind, isRetry, tab>>
        /\ events \subseteq events'
    BY <1>3, <1>i DEF Return, CallTimeout, Subscribe, Rejected, Lose
  <2>2. events = {} /\ OneTab
    BY <2>1 DEF OneTab
  <2> QED  BY <1>i, <2>1, <2>2 DEF Live
<1>4. ASSUME NEW c \in Calls, StartRefresh(c) PROVE \A d \in Calls : Silent(d)'
  <2>1. /\ pc[c] = "call" /\ pc'[c] = "refresh" /\ reply'[c] = "none" /\ cookie'[c] = jar
        /\ ~isRefreshing[tab[c]]
        /\ \A d \in Calls \ {c} : reply'[d] = reply[d] /\ pc'[d] = pc[d] /\ cookie'[d] = cookie[d]
        /\ UNCHANGED <<live, fresh, kind, isRetry, tab, events>>
    BY <1>4, <1>i DEF StartRefresh, Rejected
  <2>2. events = {} /\ OneTab
    BY <2>1 DEF OneTab
  <2>3. \A d \in Calls : pc[d] # "refresh"
    BY <1>i, <2>1, <2>2 DEF OneTab, TabsOK
  <2>4. jar \in Live
    BY <1>i, <2>2, <2>3 DEF SessionKept
  <2> QED  BY <1>i, <2>1, <2>2, <2>4 DEF Live
<1>5. ASSUME NEW c \in Calls, Settles(c) PROVE \A d \in Calls : Silent(d)'
  <2>1. /\ pc[c] = "refresh"
        /\ UNCHANGED <<tables, tab, kind>>
        /\ SentAgain(c)
        /\ \A d \in Calls : Waits(c, d) => SentAgain(d) \/ (pc'[d] = "done" /\ Same(d))
        /\ \A d \in Calls \ {c} : ~Waits(c, d) => pc'[d] = pc[d] /\ Same(d)
    BY <1>5, <1>i, SettleResumes
  <2>2. events = {}
    BY <1>5 DEF Settles, RefreshSucceeded, RefreshFailed, RefreshTimeout
  <2>3. OneTab
    <3>1. \A d \in Calls : pc[d] # "idle" => pc'[d] # "idle"
      BY <2>1 DEF SentAgain
    <3> QED  BY <2>1, <3>1 DEF OneTab
  <2>4. \A d \in Calls : Silent(d)
    BY <1>i, <2>2, <2>3
  <2>5. RefreshSucceeded(c)
    BY <1>5, <2>1, <2>4 DEF Settles, RefreshFailed, RefreshTimeout
  <2>6. jar' = reply[c] /\ reply[c] \in fresh
    BY <1>i, <2>5 DEF RefreshSucceeded, SetCookies, TokensOK
  <2>7. \A d \in Calls : Waits(c, d) => SentAgain(d)
    <3>1. \A d \in Calls : Waits(c, d) => pc'[d] = "call"
      BY <1>i, <2>5, SuccessResumes
    <3> QED  BY <2>1, <3>1
  <2> QED  BY <2>1, <2>4, <2>6, <2>7 DEF SentAgain, Same, Live
<1>6. ASSUME NEW t \in Tokens, Expire(t) PROVE \A d \in Calls : Silent(d)'
  <2>1. /\ fresh' = fresh \ {t}
        /\ \A c \in Calls : OnTheWire(c) => reply[c] # t
        /\ \A c \in Calls : Unserved(c) /\ isRetry[c] => cookie[c] # t
        /\ UNCHANGED <<live, pc, kind, isRetry, cookie, reply, tab, events>>
    BY <1>6 DEF Expire
  <2>2. \A d \in Calls : Silent(d)
    BY <1>i, <2>1 DEF OneTab
  <2>3. \A c \in Calls : reply[c] \in Tokens => OnTheWire(c)
    BY <1>i DEF TokensOK, OnTheWire
  <2> QED  BY <2>1, <2>2, <2>3 DEF Live, Unserved, OnTheWire
<1>a. ASSUME (\E s \in Sessions : SessionExpires(s)) \/ JarExpires
      PROVE  \A d \in Calls : Silent(d)'
  <2>1. /\ UNCHANGED <<fresh, pc, kind, isRetry, cookie, reply, tab>>
        /\ events \subseteq events'
        /\ \A c \in Calls : pc[c] # "refresh"
    BY <1>a DEF SessionExpires, JarExpires, OnTheWire
  <2>2. events = {} /\ OneTab
    BY <2>1 DEF OneTab
  <2> QED  BY <1>i, <2>1, <2>2
<1>7. ASSUME NEW t \in Tabs, Unload(t) PROVE \A d \in Calls : Silent(d)'
  <2>1. /\ UNCHANGED <<live, fresh, kind, isRetry, tab>>
        /\ events \subseteq events'
        /\ \A d \in Calls : \/ reply'[d] = reply[d] /\ pc'[d] = pc[d] /\ cookie'[d] = cookie[d]
                            \/ reply'[d] = "none" /\ pc'[d] = "gone"
    BY <1>7, <1>i DEF Unload, Lose
  <2>2. events = {} /\ OneTab
    BY <2>1 DEF OneTab
  <2> QED  BY <1>i, <2>1, <2>2 DEF Live
<1>8. CASE UNCHANGED vars
  <2>1. UNCHANGED <<live, fresh, pc, kind, isRetry, cookie, reply, tab, events>>
    BY <1>8 DEF vars
  <2>2. events = {} /\ OneTab
    BY <2>1 DEF OneTab
  <2> QED  BY <1>i, <2>1, <2>2 DEF Live
<1> QED
  BY <1>1, <1>2, <1>3, <1>4, <1>5, <1>6, <1>7, <1>8, <1>a
  DEF Next, Age, Proceed, Timeout, Settles

\* In a single tab in which nothing goes wrong, no fetchMe of a browser that is
\* signed in comes back with a 401, however its calls overlap, until its refresh
\* token expires.
THEOREM SilentRefresh == Spec => []SilentInOneTab
<1>1. SilentOK => SilentInOneTab
  BY DEF SilentOK, OneTab, SilentInOneTab
<1>2. Inv /\ SilentOK /\ [Next]_vars /\ TypeOK' => SilentOK'
  BY SilentStep
<1>3. Spec => []TypeOK
  BY TypeCorrect
<1> QED  BY <1>1, <1>2, <1>3, SilentInit, Invariant, PTL DEF Spec
=============================================================================
