---------------------------- MODULE AuthFlowProofs ----------------------------
(***************************************************************************)
(* Theorems about AuthFlow, for any number of tabs, tokens, sessions and   *)
(* processes and any lifetime of a token.  The inductive invariant says    *)
(* what the browser's one form cookie and its two session cookies have to  *)
(* do with the answers that arrived last.                                  *)
(***************************************************************************)
EXTENDS AuthFlow, TLAPS

\* Whatever a tab shows or is about to show was minted.
FormsMinted ==
  \A t \in Tab : \A k \in {tab[t].form, tab[t].page} : k # None => minted[k] # None

\* The form cookie is the one of the page that arrived last.
CookieOfNewest == newest # None => tab[newest].form # None /\ jar.csrf = tab[newest].form

\* The last login's cookie is the one under the name that is read first.
CookieOfLogin == login \in Session => jar.session[SessionCookieName(secure)] = login

IInv == TypeOK /\ FormsMinted /\ CookieOfNewest /\ CookieOfLogin /\ LogoutClearsBrowser

-------------------------------------------------------------------------------
(* Lemmas *)

\* Cutting an instant to whole seconds takes less than a second off it.
LEMMA UnixBounds ==
  ASSUME NEW t \in Nat
  PROVE  Unix(t) \in Nat /\ t - Second < Unix(t) /\ Unix(t) <= t
<1>1. t % Second \in 0..(Second - 1) /\ t % Second <= t
  BY FlowAssumption
<1>. QED BY <1>1, FlowAssumption DEF Unix

LEMMA NameTyped ==
  ASSUME NEW option \in BOOLEAN
  PROVE  SessionCookieName(option) \in CookieName
BY DEF SessionCookieName, CookieName

LEMMA BlankTyped ==
  ASSUME NEW k \in Token \cup {None}
  PROVE  LET blank == [BlankTab EXCEPT !.form = k] IN
         blank \in TabState /\ blank.form = k /\ blank.page = None /\ blank.phase = "idle"
<1>1. NoCookies \in Jar
  BY DEF NoCookies, Jar
<1>2. [op |-> "keep"] \in SetCookie
  BY DEF SetCookie
<1>. QED BY <1>1, <1>2 DEF BlankTab, TabState, Kind

LEMMA InitIInv == Init => IInv
<1>. SUFFICES ASSUME Init PROVE IInv
  OBVIOUS
<1>1. BlankTab \in TabState /\ BlankTab.form = None /\ BlankTab.page = None
  <2>1. NoCookies \in Jar /\ [op |-> "keep"] \in SetCookie
    BY DEF NoCookies, Jar, SetCookie
  <2>. QED BY <2>1 DEF BlankTab, TabState, Kind
<1>2. TypeOK
  BY <1>1, FlowAssumption DEF Init, TypeOK, NoCookies, Jar
<1>3. FormsMinted
  BY <1>1 DEF Init, FormsMinted
<1>4. CookieOfNewest /\ CookieOfLogin /\ LogoutClearsBrowser
  BY FlowAssumption DEF Init, CookieOfNewest, CookieOfLogin, LogoutClearsBrowser
<1>. QED BY <1>2, <1>3, <1>4 DEF IInv

\* The server answers with a form and a token for it, or with a page without one.
LEMMA ServeAnswers ==
  ASSUME TypeOK, NEW t \in Tab, Serve(t)
  PROVE  /\ UNCHANGED <<clock, process, secure, jar, newest, login>>
         /\ live' \subseteq used' /\ used' \subseteq Session
         /\ \/ AnswerForm(t)
            \/ \E reply \in SetCookie : AnswerPlain(t, reply)
<1>. Keep \in SetCookie /\ [op |-> "clear"] \in SetCookie
  BY DEF Keep, SetCookie
<1>1. UNCHANGED <<clock, process, secure, jar, newest, login>>
  BY DEF Serve
<1>2. CASE ServePage(t) \/ ServeLoginGet(t) \/ ServeForm(t)
  BY <1>1, <1>2 DEF ServePage, ServeLoginGet, ServeForm, AnswerForm, TypeOK
<1>3. CASE ServeLoginPost(t)
  <2>1. CASE AnswerForm(t)
    BY <1>1, <2>1 DEF AnswerForm, TypeOK
  <2>2. ASSUME NEW s \in Session \ used,
               used' = used \cup {s} /\ live' = live \cup {s}
                 /\ AnswerPlain(t, [op |-> "set", name |-> SessionCookieName(secure), value |-> s])
        PROVE  /\ live' \subseteq used' /\ used' \subseteq Session
               /\ \E reply \in SetCookie : AnswerPlain(t, reply)
    <3>1. [op |-> "set", name |-> SessionCookieName(secure), value |-> s] \in SetCookie
      BY NameTyped DEF SetCookie, TypeOK
    <3>. QED BY <2>2, <3>1 DEF TypeOK
  <2>3. CASE AnswerPlain(t, Keep) /\ UNCHANGED <<used, live>>
    BY <1>1, <2>3 DEF TypeOK
  <2>. QED BY <1>1, <1>3, <2>1, <2>2, <2>3 DEF ServeLoginPost
<1>4. CASE ServeLogout(t)
  BY <1>1, <1>4 DEF ServeLogout, TypeOK
<1>. QED BY <1>1, <1>2, <1>3, <1>4 DEF Serve

-------------------------------------------------------------------------------
(* The steps *)

LEMMA SendIInv ==
  ASSUME IInv, NEW t \in Tab, NEW kind \in Kind, Send(t, kind)
  PROVE  IInv'
<1>. DEFINE cookies == [jar EXCEPT !.csrf = IF Unexpired(@) THEN @ ELSE None]
<1>1. cookies \in Jar
  BY DEF IInv, TypeOK, Jar
<1>2. tab[t] \in TabState /\ tab \in [Tab -> TabState]
  BY DEF IInv, TypeOK
<1>. HIDE DEF cookies
<1>3. /\ tab' = [tab EXCEPT ![t].phase = "sent", ![t].kind = kind, ![t].sent = cookies,
                            ![t].token = tab[t].form]
      /\ UNCHANGED <<clock, process, secure, minted, used, live, jar, newest, login>>
  BY DEF Send, cookies
<1>4. /\ tab'[t] = [tab[t] EXCEPT !.phase = "sent", !.kind = kind, !.sent = cookies,
                                  !.token = tab[t].form]
      /\ \A u \in Tab \ {t} : tab'[u] = tab[u]
  BY <1>2, <1>3
<1>5. tab'[t] \in TabState /\ tab'[t].form = tab[t].form /\ tab'[t].page = tab[t].page
  BY <1>1, <1>2, <1>4 DEF TabState
<1>6. TypeOK'
  BY <1>2, <1>3, <1>5 DEF IInv, TypeOK, Lifetime
<1>7. FormsMinted'
  <2>1. \A u \in Tab : tab'[u].form = tab[u].form /\ tab'[u].page = tab[u].page
    BY <1>4, <1>5
  <2>. QED BY <1>3, <2>1 DEF IInv, FormsMinted
<1>8. CookieOfNewest'
  BY <1>3, <1>4, <1>5 DEF IInv, CookieOfNewest, TypeOK
<1>9. CookieOfLogin' /\ LogoutClearsBrowser'
  BY <1>3 DEF IInv, CookieOfLogin, LogoutClearsBrowser
<1>. QED BY <1>6, <1>7, <1>8, <1>9 DEF IInv

LEMMA ServeIInv ==
  ASSUME IInv, NEW t \in Tab, Serve(t)
  PROVE  IInv'
<1>1. TypeOK /\ tab[t] \in TabState /\ tab \in [Tab -> TabState]
  BY DEF IInv, TypeOK
<1>2. /\ UNCHANGED <<clock, process, secure, jar, newest, login>>
      /\ live' \subseteq used' /\ used' \subseteq Session
  BY <1>1, ServeAnswers
<1>3. ASSUME NEW reply \in SetCookie, NEW page \in Token \cup {None}, Reply(t, reply, page)
      PROVE  /\ tab' \in [Tab -> TabState]
             /\ tab'[t].form = tab[t].form /\ tab'[t].page = page
             /\ \A u \in Tab \ {t} : tab'[u] = tab[u]
  <2>1. /\ tab'[t] = [tab[t] EXCEPT !.phase = "answered", !.reply = reply, !.page = page]
        /\ \A u \in Tab \ {t} : tab'[u] = tab[u]
    BY <1>1, <1>3 DEF Reply
  <2>2. tab'[t] \in TabState /\ tab'[t].form = tab[t].form /\ tab'[t].page = page
    BY <1>1, <2>1 DEF TabState
  <2>3. tab' = [tab EXCEPT ![t] = tab'[t]]
    BY <1>1, <1>3, <2>1 DEF Reply
  <2>. QED BY <1>1, <2>1, <2>2, <2>3
<1>4. CASE AnswerForm(t)
  <2>. DEFINE m == [process |-> process, at |-> clock, expires |-> Unix(clock + TTL)]
  <2>1. PICK k \in Token : /\ minted[k] = None /\ minted' = [minted EXCEPT ![k] = m]
                           /\ Reply(t, [op |-> "keep"], k)
    BY <1>4 DEF AnswerForm
  <2>2. clock + TTL \in Nat /\ process \in 0..MaxProcess /\ clock \in 0..MaxClock
    BY <1>1, FlowAssumption DEF TypeOK
  <2>3. m \in Mint /\ Lifetime(m)
    BY <2>2, UnixBounds, FlowAssumption DEF Mint, Lifetime
  <2>. HIDE DEF m
  <2>4. /\ minted' \in [Token -> {None} \cup Mint] /\ minted'[k] = m /\ m # None
        /\ \A j \in Token \ {k} : minted'[j] = minted[j]
    BY <1>1, <2>1, <2>3, MintAssumption DEF TypeOK
  <2>5. [op |-> "keep"] \in SetCookie
    BY DEF SetCookie
  <2>6. /\ tab' \in [Tab -> TabState]
        /\ tab'[t].form = tab[t].form /\ tab'[t].page = k
        /\ \A u \in Tab \ {t} : tab'[u] = tab[u]
    BY <1>3, <2>1, <2>5
  <2>7. TypeOK'
    <3>1. \A j \in Token : minted'[j] # None => Lifetime(minted'[j])
      BY <1>1, <2>3, <2>4 DEF TypeOK
    <3>. QED BY <1>1, <1>2, <2>4, <2>6, <3>1 DEF TypeOK, Lifetime
  <2>8. FormsMinted'
    <3>1. \A j \in Token : minted[j] # None => minted'[j] # None
      BY <2>1, <2>4
    <3>2. \A u \in Tab : {tab[u].form, tab[u].page} \subseteq Token \cup {None}
      BY <1>1 DEF TabState
    <3>. QED BY <2>4, <2>6, <3>1, <3>2 DEF IInv, FormsMinted
  <2>9. CookieOfNewest'
    BY <1>1, <1>2, <2>6 DEF IInv, CookieOfNewest, TypeOK
  <2>10. CookieOfLogin' /\ LogoutClearsBrowser'
    BY <1>2 DEF IInv, CookieOfLogin, LogoutClearsBrowser
  <2>. QED BY <2>7, <2>8, <2>9, <2>10 DEF IInv
<1>5. CASE \E reply \in SetCookie : AnswerPlain(t, reply)
  <2>1. PICK reply \in SetCookie : Reply(t, reply, None) /\ UNCHANGED minted
    BY <1>5 DEF AnswerPlain
  <2>2. /\ tab' \in [Tab -> TabState]
        /\ tab'[t].form = tab[t].form /\ tab'[t].page = None
        /\ \A u \in Tab \ {t} : tab'[u] = tab[u]
    BY <1>3, <2>1
  <2>3. TypeOK'
    BY <1>1, <1>2, <2>1, <2>2 DEF TypeOK, Lifetime
  <2>4. FormsMinted'
    BY <2>1, <2>2 DEF IInv, FormsMinted
  <2>5. CookieOfNewest'
    BY <1>1, <1>2, <2>2 DEF IInv, CookieOfNewest, TypeOK
  <2>6. CookieOfLogin' /\ LogoutClearsBrowser'
    BY <1>2 DEF IInv, CookieOfLogin, LogoutClearsBrowser
  <2>. QED BY <2>3, <2>4, <2>5, <2>6 DEF IInv
<1>. QED BY <1>1, <1>4, <1>5, ServeAnswers

LEMMA DeliverIInv ==
  ASSUME IInv, NEW t \in Tab, Deliver(t)
  PROVE  IInv'
<1>. DEFINE reply == tab[t].reply
            k == tab[t].page
            session == CASE reply.op = "keep" -> jar.session
                         [] reply.op = "clear" -> clearSessionCookies(jar.session)
                         [] reply.op = "set" ->
                              [jar.session EXCEPT ![reply.name] = reply.value]
            blank == [BlankTab EXCEPT !.form = k]
<1>1. TypeOK /\ tab \in [Tab -> TabState] /\ tab[t] \in TabState /\ jar \in Jar
  BY DEF IInv, TypeOK
<1>2. k \in Token \cup {None} /\ reply \in SetCookie
  BY <1>1 DEF TabState
<1>3. blank \in TabState /\ blank.form = k /\ blank.page = None
  BY <1>2, BlankTyped
<1>4. /\ jar' = [csrf |-> NewCsrfCookie(jar.csrf, k), session |-> session]
      /\ tab' = [tab EXCEPT ![t] = blank]
      /\ newest' = IF k # None THEN t ELSE IF newest = t THEN None ELSE newest
      /\ login' = CASE reply.op = "keep" -> login
                    [] reply.op = "clear" -> "out"
                    [] reply.op = "set" ->
                         IF reply.name = SessionCookieName(secure) THEN reply.value ELSE "none"
      /\ UNCHANGED <<clock, process, secure, minted, used, live>>
  BY DEF Deliver
<1>5. \/ reply.op = "keep" /\ session = jar.session /\ login' = login
      \/ /\ reply.op = "clear" /\ login' = "out"
         /\ session = [n \in CookieName |-> None]
      \/ /\ reply.op = "set" /\ reply.name \in CookieName /\ reply.value \in Session
         /\ session = [jar.session EXCEPT ![reply.name] = reply.value]
         /\ login' = IF reply.name = SessionCookieName(secure) THEN reply.value ELSE "none"
  BY <1>2, <1>4 DEF SetCookie, clearSessionCookies
<1>6. jar.session \in [CookieName -> Session \cup {None}]
  BY <1>1 DEF Jar
<1>. HIDE DEF session, blank, reply, k
<1>7. session \in [CookieName -> Session \cup {None}]
  BY <1>5, <1>6
<1>8. /\ jar' \in Jar /\ jar'.session = session
      /\ jar'.csrf = IF k # None THEN k ELSE jar.csrf
  BY <1>1, <1>2, <1>4, <1>7 DEF Jar, NewCsrfCookie
<1>9. /\ tab' \in [Tab -> TabState] /\ tab'[t].form = k /\ tab'[t].page = None
      /\ \A u \in Tab \ {t} : tab'[u] = tab[u]
  BY <1>1, <1>3, <1>4
<1>10. TypeOK'
  <2>1. login' \in {"none", "out"} \cup Session
    BY <1>1, <1>5 DEF TypeOK
  <2>2. newest' \in Tab \cup {None}
    BY <1>1, <1>4 DEF TypeOK
  <2>. QED BY <1>1, <1>4, <1>8, <1>9, <2>1, <2>2 DEF TypeOK, Lifetime
<1>11. FormsMinted'
  <2>1. k # None => minted'[k] # None
    BY <1>4 DEF IInv, FormsMinted, k
  <2>2. ASSUME NEW u \in Tab \ {t}, NEW j \in {tab'[u].form, tab'[u].page}, j # None
        PROVE  minted'[j] # None
    BY <1>4, <1>9, <2>2 DEF IInv, FormsMinted
  <2>. QED BY <1>9, <2>1, <2>2 DEF FormsMinted
<1>12. CookieOfNewest'
  BY <1>1, <1>4, <1>8, <1>9, FlowAssumption DEF IInv, CookieOfNewest, TypeOK
<1>13. CookieOfLogin'
  BY <1>4, <1>5, <1>6, <1>8, FlowAssumption DEF IInv, CookieOfLogin
<1>14. LogoutClearsBrowser'
  BY <1>5, <1>6, <1>8, FlowAssumption DEF IInv, LogoutClearsBrowser
<1>. QED BY <1>10, <1>11, <1>12, <1>13, <1>14 DEF IInv

\* A request or an answer is lost: the tab shows what it showed.
LEMMA BlankedIInv ==
  ASSUME IInv, NEW S \in SUBSET Tab,
         tab' = [t \in Tab |-> IF t \in S THEN [BlankTab EXCEPT !.form = tab[t].form] ELSE tab[t]],
         process' \in 0..MaxProcess, secure' \in BOOLEAN,
         \/ UNCHANGED <<secure, login>>
         \/ login' = IF login = "out" THEN "out" ELSE "none",
         UNCHANGED <<clock, minted, used, live, jar, newest>>
  PROVE  IInv'
<1>1. TypeOK /\ tab \in [Tab -> TabState]
  BY DEF IInv, TypeOK
<1>2. \A t \in Tab : /\ tab'[t] \in TabState
                     /\ tab'[t].form = tab[t].form /\ tab'[t].page \in {None, tab[t].page}
  <2>1. SUFFICES ASSUME NEW t \in Tab
                 PROVE  /\ tab'[t] \in TabState
                        /\ tab'[t].form = tab[t].form /\ tab'[t].page \in {None, tab[t].page}
    OBVIOUS
  <2>2. tab[t].form \in Token \cup {None}
    BY <1>1 DEF TabState
  <2>3. CASE t \in S
    BY <2>2, <2>3, BlankTyped
  <2>4. CASE t \notin S
    BY <1>1, <2>4
  <2>. QED BY <2>3, <2>4
<1>3. TypeOK'
  <2>1. tab' \in [Tab -> TabState]
    BY <1>2
  <2>. QED BY <1>1, <2>1 DEF TypeOK, Lifetime
<1>4. FormsMinted'
  BY <1>2 DEF IInv, FormsMinted
<1>5. CookieOfNewest'
  BY <1>1, <1>2 DEF IInv, CookieOfNewest, TypeOK
<1>6. CookieOfLogin' /\ LogoutClearsBrowser'
  BY FlowAssumption DEF IInv, CookieOfLogin, LogoutClearsBrowser
<1>. QED BY <1>3, <1>4, <1>5, <1>6 DEF IInv

LEMMA NextIInv == IInv /\ [Next]_vars => IInv'
<1>. SUFFICES ASSUME IInv, [Next]_vars PROVE IInv'
  OBVIOUS
<1>1. ASSUME NEW t \in Tab, NEW kind \in Kind, Send(t, kind) PROVE IInv'
  BY <1>1, SendIInv
<1>2. ASSUME NEW t \in Tab, Serve(t) PROVE IInv'
  BY <1>2, ServeIInv
<1>3. ASSUME NEW t \in Tab, Deliver(t) PROVE IInv'
  BY <1>3, DeliverIInv
<1>4. ASSUME NEW t \in Tab, Lose(t) PROVE IInv'
  <2>1. tab' = [u \in Tab |-> IF u \in {t} THEN [BlankTab EXCEPT !.form = tab[u].form] ELSE tab[u]]
    BY <1>4 DEF Lose, IInv, TypeOK
  <2>. QED BY <1>4, <2>1, BlankedIInv DEF Lose, IInv, TypeOK
<1>5. ASSUME NEW s \in Session, EndSession(s) PROVE IInv'
  BY <1>5 DEF EndSession, IInv, TypeOK, Lifetime, FormsMinted, CookieOfNewest, CookieOfLogin,
              LogoutClearsBrowser
<1>6. CASE Restart
  <2>. DEFINE S == {t \in Tab : tab[t].phase = "sent"}
  <2>1. tab' = [t \in Tab |-> IF t \in S THEN [BlankTab EXCEPT !.form = tab[t].form] ELSE tab[t]]
    BY <1>6 DEF Restart
  <2>2. process' \in 0..MaxProcess
    BY <1>6, FlowAssumption DEF Restart, IInv, TypeOK
  <2>. QED BY <1>6, <2>1, <2>2, BlankedIInv DEF Restart
<1>7. CASE Tick
  <2>1. clock' \in 0..MaxClock
    BY <1>7, FlowAssumption DEF Tick, IInv, TypeOK
  <2>. QED BY <1>7, <2>1 DEF Tick, IInv, TypeOK, Lifetime, FormsMinted, CookieOfNewest,
                             CookieOfLogin, LogoutClearsBrowser
<1>8. CASE UNCHANGED vars
  BY <1>8 DEF vars, IInv, TypeOK, Lifetime, FormsMinted, CookieOfNewest, CookieOfLogin,
              LogoutClearsBrowser
<1>. QED BY <1>1, <1>2, <1>3, <1>4, <1>5, <1>6, <1>7, <1>8 DEF Next

LEMMA Inductive == Spec => []IInv
<1>1. Init => IInv
  BY InitIInv
<1>2. IInv /\ [Next]_vars => IInv'
  BY NextIInv
<1>. QED BY <1>1, <1>2, PTL DEF Spec

-------------------------------------------------------------------------------
(* The theorems *)

\* Cookies, tokens and tabs keep their types, and every token its whole lifetime.
THEOREM TypeCorrect == Spec => []TypeOK
<1>1. IInv => TypeOK
  BY DEF IInv
<1>. QED BY <1>1, Inductive, PTL

\* The form that arrived last is accepted by the process that made it for all of the
\* token's lifetime but the last fraction of a second, in whatever order answers come.
THEOREM LastPageCorrect == Spec => []LastPageWorks
<1>1. IInv => LastPageWorks
  <2>. SUFFICES ASSUME IInv, newest # None
                PROVE  LET k == tab[newest].form
                           cookie == IF Unexpired(jar.csrf) THEN jar.csrf ELSE None
                       IN  /\ k # None
                           /\ minted[k].process = process /\ clock <= minted[k].at + TTL - Second
                                => verifyCSRF(cookie, k)
    BY DEF LastPageWorks
  <2>. DEFINE k == tab[newest].form
              m == minted[k]
  <2>1. k # None /\ jar.csrf = k
    BY DEF IInv, CookieOfNewest
  <2>2. k \in Token /\ newest \in Tab
    BY <2>1 DEF IInv, TypeOK, TabState
  <2>3. m # None
    BY <2>1, <2>2 DEF IInv, FormsMinted
  <2>4. m \in Mint /\ Lifetime(m) /\ clock \in Nat
    BY <2>2, <2>3 DEF IInv, TypeOK
  <2>5. clock <= m.at + TTL - Second => clock < m.expires
    BY <2>4, FlowAssumption DEF Lifetime, Mint
  <2>. QED BY <2>1, <2>3, <2>5 DEF Unexpired, verifyCSRF, validateCSRFToken
<1>. QED BY <1>1, Inductive, PTL

\* No dead cookie shadows the session of the last login.
THEOREM LoginCorrect == Spec => []LoginGrantsAccess
<1>1. IInv => LoginGrantsAccess
  <2>. SUFFICES ASSUME IInv, login \in live PROVE requestSessionCookie(jar) = login
    BY DEF LoginGrantsAccess
  <2>1. login \in Session /\ jar.session[SessionCookieName(secure)] = login
    BY DEF IInv, TypeOK, CookieOfLogin
  <2>. QED BY <2>1, FlowAssumption DEF requestSessionCookie
<1>. QED BY <1>1, Inductive, PTL

\* An answered logout leaves no session cookie of either name.
THEOREM LogoutCorrect == Spec => []LogoutClearsBrowser
<1>1. IInv => LogoutClearsBrowser
  BY DEF IInv
<1>. QED BY <1>1, Inductive, PTL
===============================================================================
