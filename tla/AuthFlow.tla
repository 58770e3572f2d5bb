------------------------------- MODULE AuthFlow -------------------------------
(***************************************************************************)
(* One browser, its cookies and its tabs, against the login gate and the   *)
(* form tokens of internal/server/server.go and internal/server/csrf.go.   *)
(*                                                                         *)
(* Every page with a form carries a token signed with a secret of the      *)
(* process and puts the same token into one cookie, which the next such    *)
(* page overwrites.  A session cookie has one of two names, chosen by the  *)
(* secureCookies option, and both names are read.  Requests take effect at *)
(* the server one by one (SessionStore has what happens within), but their *)
(* answers, and the cookies they set, arrive in any order or not at all.   *)
(* The browser reaches the server over HTTPS with either option.           *)
(***************************************************************************)
EXTENDS Naturals

CONSTANTS
  Tab,
  Token,      \* form tokens that may be drawn
  Session,    \* login sessions that may be created
  None,
  TTL,        \* csrfTokenTTL, in ticks
  Second,     \* ticks in a second
  MaxClock,   \* bound: the clock stays in 0..MaxClock
  MaxProcess  \* bound: processes started after the first

ASSUME FlowAssumption ==
  /\ Second \in Nat \ {0}
  /\ {TTL, MaxClock, MaxProcess} \subseteq Nat
  /\ None \notin Session \cup Token \cup Tab
  /\ {"none", "out"} \cap Session = {}

VARIABLES
  clock,
  process,  \* the running process: csrfSecret differs in each
  secure,   \* its secureCookies option
  minted,   \* minted[k]: process, time and expiry of token k, or None
  used,     \* sessions created so far
  live,     \* sessions that TouchSession accepts
  jar,      \* the browser's cookies
  tab,      \* the browser's tabs
  \* history
  newest,   \* the tab whose page with a form arrived last, or None
  login     \* "out", or the session set under this process's name, by the
            \* last answer that changed the session cookies; else "none"

vars == <<clock, process, secure, minted, used, live, jar, tab, newest, login>>

CookieName == {"jobhunt_session", "__Host-jobhunt_session"}

Jar == [csrf : Token \cup {None}, session : [CookieName -> Session \cup {None}]]

Kind == {"page", "loginGet", "loginPost", "form", "logout"}

\* What an answer does to the session cookies.
SetCookie == [op : {"keep", "clear"}] \cup
             [op : {"set"}, name : CookieName, value : Session]

\* form is the token of the page the tab shows, if that page has a form; sent
\* the cookies and the token a request carries, reply and page its answer.
TabState ==
  [phase : {"idle", "sent", "answered"}, kind : Kind, form : Token \cup {None},
   sent : Jar, token : Token \cup {None}, reply : SetCookie,
   page : Token \cup {None}]

NoCookies == [csrf |-> None, session |-> [n \in CookieName |-> None]]

BlankTab == [phase |-> "idle", kind |-> "page", form |-> None, sent |-> NoCookies,
             token |-> None, reply |-> [op |-> "keep"], page |-> None]

Mint == [process : 0..MaxProcess, at : 0..MaxClock, expires : Nat]

ASSUME MintAssumption == None \notin Mint

\* A token lives for its TTL, less what is cut off to a whole second.
Lifetime(m) == m.at + TTL - Second < m.expires /\ m.expires <= m.at + TTL

TypeOK ==
  /\ clock \in 0..MaxClock /\ process \in 0..MaxProcess /\ secure \in BOOLEAN
  /\ minted \in [Token -> {None} \cup Mint]
  /\ \A k \in Token : minted[k] # None => Lifetime(minted[k])
  /\ live \subseteq used /\ used \subseteq Session
  /\ jar \in Jar
  /\ tab \in [Tab -> TabState]
  /\ newest \in Tab \cup {None}
  /\ login \in {"none", "out"} \cup Session

Init ==
  /\ clock = 0 /\ process = 0 /\ secure \in BOOLEAN
  /\ minted = [k \in Token |-> None]
  /\ used = {} /\ live = {}
  /\ jar = NoCookies
  /\ tab = [t \in Tab |-> BlankTab]
  /\ newest = None /\ login = "none"

------------------------------------------------------------------------------
(* csrf.go *)

\* Unix(): whole seconds.
Unix(t) == t - (t % Second)

\* The cookie is gone once its Expires, also in whole seconds, has passed.
Unexpired(k) == k # None /\ minted[k] # None /\ clock < minted[k].expires

\* validateCSRFToken: signature of this process, and not expired.
validateCSRFToken(k) ==
  minted[k].process = process /\ clock < minted[k].expires

\* verifyCSRF: the cookie is there, equals the field, and is valid.
verifyCSRF(cookie, field) ==
  cookie # None /\ field # None /\ cookie = field /\ validateCSRFToken(cookie)

------------------------------------------------------------------------------
(* The login gate *)

\* The name setSessionCookie writes and sessionCookieNames puts first.
SessionCookieName(option) ==
  IF option THEN "__Host-jobhunt_session" ELSE "jobhunt_session"

\* Mutant: the plain name is read first whatever the option.
requestSessionCookie_PlainFirst(cookies) ==
  IF cookies.session["jobhunt_session"] # None
  THEN cookies.session["jobhunt_session"]
  ELSE cookies.session["__Host-jobhunt_session"]

\* requestSessionCookie: the first of the two that is there, dead or alive.
requestSessionCookie(cookies) ==
  LET first == cookies.session[SessionCookieName(secure)]
      other == cookies.session[SessionCookieName(~secure)]
  IN IF first # None THEN first ELSE other

Authorized(cookies) == requestSessionCookie(cookies) \in live

\* Mutant: only the name in use is cleared.
clearSessionCookies_CurrentName(session) ==
  [session EXCEPT ![SessionCookieName(secure)] = None]

clearSessionCookies(session) == [n \in CookieName |-> None]

------------------------------------------------------------------------------
(* The browser sends *)

Send(t, kind) ==
  LET cookies == [jar EXCEPT !.csrf = IF Unexpired(@) THEN @ ELSE None] IN
  /\ tab[t].phase = "idle"
  /\ kind \in {"loginPost", "form", "logout"} => tab[t].form # None
  /\ tab' = [tab EXCEPT ![t].phase = "sent", ![t].kind = kind, ![t].sent = cookies,
                        ![t].token = tab[t].form]
  /\ UNCHANGED <<clock, process, secure, minted, used, live, jar, newest, login>>

------------------------------------------------------------------------------
(* The server answers *)

Reply(t, reply, page) ==
  tab' = [tab EXCEPT ![t].phase = "answered", ![t].reply = reply, ![t].page = page]

\* issueCSRFToken: a page with a form, and its cookie.
AnswerForm(t) ==
  \E k \in Token :
    /\ minted[k] = None
    /\ minted' = [minted EXCEPT ![k] =
         [process |-> process, at |-> clock, expires |-> Unix(clock + TTL)]]
    /\ Reply(t, [op |-> "keep"], k)
    /\ UNCHANGED <<used, live>>

\* A redirect or an error: no form, no form token.
AnswerPlain(t, reply) == Reply(t, reply, None) /\ UNCHANGED minted

Keep == [op |-> "keep"]

\* A guarded page: without a session the browser is sent to the login page.
ServePage(t) ==
  /\ tab[t].kind = "page"
  /\ \/ Authorized(tab[t].sent) /\ AnswerForm(t)
     \/ AnswerPlain(t, Keep) /\ UNCHANGED <<used, live>>

\* loginGet: with a session the browser is sent on.
ServeLoginGet(t) ==
  /\ tab[t].kind = "loginGet"
  /\ \/ Authorized(tab[t].sent) /\ AnswerPlain(t, Keep) /\ UNCHANGED <<used, live>>
     \/ ~Authorized(tab[t].sent) /\ AnswerForm(t)

\* loginPost: a stale token or a wrong password shows the form again, the
\* right one creates a session whatever session the browser has already.  A body
\* that does not parse and a failing CreateSession are answered with an error page.
ServeLoginPost(t) ==
  /\ tab[t].kind = "loginPost"
  /\ \/ AnswerForm(t)
     \/ AnswerPlain(t, Keep) /\ UNCHANGED <<used, live>>
     \/ /\ verifyCSRF(tab[t].sent.csrf, tab[t].token)
        /\ \E s \in Session \ used :
             /\ used' = used \cup {s} /\ live' = live \cup {s}
             /\ AnswerPlain(t, [op |-> "set", name |-> SessionCookieName(secure),
                                value |-> s])

\* Every other form: refused with an error page, shown again because of its
\* fields, or accepted with a redirect.
ServeForm(t) ==
  /\ tab[t].kind = "form"
  /\ \/ AnswerPlain(t, Keep) /\ UNCHANGED <<used, live>>
     \/ /\ Authorized(tab[t].sent) /\ verifyCSRF(tab[t].sent.csrf, tab[t].token)
        /\ AnswerForm(t)

\* logoutPost revokes the session of the request and clears both cookies.
ServeLogout(t) ==
  /\ tab[t].kind = "logout"
  /\ \/ AnswerPlain(t, Keep) /\ UNCHANGED <<used, live>>
     \/ /\ Authorized(tab[t].sent) /\ verifyCSRF(tab[t].sent.csrf, tab[t].token)
        /\ live' = live \ {requestSessionCookie(tab[t].sent)}
        /\ AnswerPlain(t, [op |-> "clear"])
        /\ UNCHANGED used

Serve(t) ==
  /\ tab[t].phase = "sent"
  /\ ServePage(t) \/ ServeLoginGet(t) \/ ServeLoginPost(t) \/ ServeForm(t) \/ ServeLogout(t)
  /\ UNCHANGED <<clock, process, secure, jar, newest, login>>

------------------------------------------------------------------------------
(* The answer arrives *)

\* Mutant: the cookie is set only where there is none.
NewCsrfCookie_KeepsOld(old, k) == IF k # None /\ old = None THEN k ELSE old

NewCsrfCookie(old, k) == IF k # None THEN k ELSE old

Deliver(t) ==
  LET reply == tab[t].reply
      k == tab[t].page
  IN
  /\ tab[t].phase = "answered"
  /\ jar' = [csrf |-> NewCsrfCookie(jar.csrf, k),
             session |-> CASE reply.op = "keep" -> jar.session
                           [] reply.op = "clear" -> clearSessionCookies(jar.session)
                           [] reply.op = "set" ->
                                [jar.session EXCEPT ![reply.name] = reply.value]]
  /\ tab' = [tab EXCEPT ![t] = [BlankTab EXCEPT !.form = k]]
  /\ newest' = IF k # None THEN t ELSE IF newest = t THEN None ELSE newest
  /\ login' = CASE reply.op = "keep" -> login
                [] reply.op = "clear" -> "out"
                [] reply.op = "set" ->
                     IF reply.name = SessionCookieName(secure) THEN reply.value ELSE "none"
  /\ UNCHANGED <<clock, process, secure, minted, used, live>>

\* The request or its answer is lost; the page shown stays.
Lose(t) ==
  /\ tab[t].phase # "idle"
  /\ tab' = [tab EXCEPT ![t] = [BlankTab EXCEPT !.form = tab[t].form]]
  /\ UNCHANGED <<clock, process, secure, minted, used, live, jar, newest, login>>

------------------------------------------------------------------------------
(* The environment *)

\* Timeouts, or a logout elsewhere (SessionStore).
EndSession(s) ==
  /\ s \in live
  /\ live' = live \ {s}
  /\ UNCHANGED <<clock, process, secure, minted, used, jar, tab, newest, login>>

\* A new process has a new secret and may have the other option; the sessions
\* are in the database.  History: the option may make the browser's other
\* cookie count, so the last login is no longer held against it.
Restart ==
  /\ process < MaxProcess
  /\ process' = process + 1
  /\ secure' \in BOOLEAN
  /\ tab' = [t \in Tab |-> IF tab[t].phase = "sent"
                           THEN [BlankTab EXCEPT !.form = tab[t].form] ELSE tab[t]]
  /\ login' = IF login = "out" THEN "out" ELSE "none"
  /\ UNCHANGED <<clock, minted, used, live, jar, newest>>

Tick ==
  /\ clock < MaxClock
  /\ clock' = clock + 1
  /\ UNCHANGED <<process, secure, minted, used, live, jar, tab, newest, login>>

Next ==
  \/ \E t \in Tab : (\E kind \in Kind : Send(t, kind)) \/ Serve(t) \/ Deliver(t) \/ Lose(t)
  \/ \E s \in Session : EndSession(s)
  \/ Restart \/ Tick

Spec == Init /\ [][Next]_vars
------------------------------------------------------------------------------
(* Properties *)

\* The page with a form that arrived last can be submitted: unless the process
\* has been replaced since it was served, its token is accepted for all of its
\* TTL but the last fraction of a second, whatever pages and answers of other
\* tabs are on their way (docs/OPERATIONS.md: refreshing the page is enough).
LastPageWorks ==
  newest # None =>
    LET k == tab[newest].form
        cookie == IF Unexpired(jar.csrf) THEN jar.csrf ELSE None
    IN
    /\ k # None
    /\ minted[k].process = process /\ clock <= minted[k].at + TTL - Second
         => verifyCSRF(cookie, k)

\* After a login the next request runs under the session just created, even
\* where the browser still holds a cookie of the other name from a time when
\* secureCookies was set differently: no stale cookie shadows the new one.
LoginGrantsAccess == login \in live => requestSessionCookie(jar) = login

\* After a logout the browser holds no session cookie of either name, whatever
\* was set under the other name by an earlier process.
LogoutClearsBrowser == login = "out" => \A n \in CookieName : jar.session[n] = None
==============================================================================
