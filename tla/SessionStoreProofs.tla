-------------------------- MODULE SessionStoreProofs --------------------------
(***************************************************************************)
(* Proofs about SessionStore for any number of sessions and requests and   *)
(* any timeouts.  The inductive invariant joins the type of the state to   *)
(* what the table (TableOK), the touches (TouchesOK) and the requests in   *)
(* flight (FlightOK) know of each other.                                   *)
(***************************************************************************)
EXTENDS SessionStore, TLAPS

\* What is stored of a session and what has been written to it agree.
TableOK ==
  \A s \in Session : row[s].state # "unused" =>
    /\ row[s].expires = row[s].created + Absolute
    /\ row[s].lastSeen \in seen[s]
    /\ latest[s] \in seen[s]
    /\ \A t \in seen[s] : /\ row[s].created <= t
                          /\ t < row[s].created + Absolute
                          /\ t <= latest[s]

\* What a request has learnt at each step stays true although the row may
\* change under it: seen only grows, out only grows, the cap is fixed.
FlightOK ==
  /\ \A s \in delivered : row[s].state # "unused"
  /\ \A s \in out : row[s].state \in {"revoked", "deleted"}
  /\ \A r \in Request :
       /\ ~req[r].fresh => req[r].session \in out
       /\ req[r].step = "inserted" =>
            /\ req[r].session \in Session
            /\ row[req[r].session].state # "unused"
       /\ req[r].step \in {"looking", "found", "touched", "granted", "revoking"} =>
            req[r].session \in delivered
       /\ req[r].step = "found" =>
            /\ req[r].now < row[req[r].session].created + Absolute
            /\ req[r].now < latest[req[r].session] + Idle
       /\ req[r].step \in {"touched", "granted", "revoking"} =>
            req[r].now \in seen[req[r].session]
       /\ req[r].step \in {"creating", "granted", "revoking"} => req[r].fresh

IInv == TypeOK /\ TableOK /\ NoIdleGap /\ FlightOK

------------------------------------------------------------------------------
\* The empty table satisfies the invariant.
LEMMA InitIInv == Init => IInv
  BY SessionAssumption DEF Init, IInv, TypeOK, TableOK, NoIdleGap, FlightOK,
     Running, Row, RowState, Req, Step, NoRow, Resting

\* Steps that leave the table and its history alone: the request's own record
\* is all that has to be checked.
LEMMA QuietStep ==
  ASSUME IInv, UNCHANGED <<row, delivered, seen, latest, out>>,
         clock' \in 0..MaxClock, NEW r \in Request, NEW v \in Req,
         req' = [req EXCEPT ![r] = v],
         ~v.fresh => v.session \in out,
         v.step # "inserted",
         v.step \in {"looking", "found", "touched", "granted", "revoking"} =>
           v.session \in delivered,
         v.step = "found" =>
           /\ v.now < row[v.session].created + Absolute
           /\ v.now < latest[v.session] + Idle,
         v.step \in {"touched", "granted", "revoking"} => v.now \in seen[v.session],
         v.step \in {"creating", "granted", "revoking"} => v.fresh
  PROVE  IInv'
<1>1. TypeOK'
  BY DEF IInv, TypeOK
<1>2. TableOK'
  BY DEF IInv, TableOK
<1>3. NoIdleGap'
  BY DEF IInv, NoIdleGap
<1>4. FlightOK'
  <2>1. \A q \in Request \ {r} : req'[q] = req[q]
    BY DEF IInv, TypeOK
  <2>2. req'[r] = v
    BY DEF IInv, TypeOK
  <2>. QED
    BY <2>1, <2>2 DEF IInv, FlightOK, Running
<1>. QED
  BY <1>1, <1>2, <1>3, <1>4 DEF IInv

\* Answering is a quiet step.
LEMMA AnswerStep ==
  ASSUME IInv, UNCHANGED <<clock, row, delivered, seen, latest, out>>,
         NEW r \in Request, Answer(r)
  PROVE  IInv'
<1>1. Resting \in Req
  BY SessionAssumption DEF Resting, Req, Step
<1>2. clock' \in 0..MaxClock
  BY DEF IInv, TypeOK
<1>. QED
  BY <1>1, <1>2, QuietStep DEF Answer, Resting

\* The steps of a request that only read the table.
LEMMA ReadOnlySteps ==
  ASSUME IInv, NEW r \in Request,
         \/ BeginCreate(r) \/ (\E s \in Session : BeginTouch(r, s))
         \/ LookupSession(r) \/ RecheckSession(r) \/ Respond(r)
         \/ BeginLogout(r) \/ BeginCleanup(r) \/ Fail(r)
  PROVE  IInv'
<1>. USE SessionAssumption
<1>0. /\ UNCHANGED <<clock, row, delivered, seen, latest, out>>
      /\ clock' \in 0..MaxClock
      /\ clock \in 0..MaxClock /\ req[r] \in Req /\ delivered \subseteq Session
  BY DEF IInv, TypeOK, BeginCreate, BeginTouch, LookupSession, RecheckSession,
     Respond, BeginLogout, BeginCleanup, Fail, history
<1>1. CASE Answer(r)
  BY <1>0, <1>1, AnswerStep
<1>2. ASSUME NEW step \in {"creating", "cleaning"}, Begin(r, step, None)
      PROVE  IInv'
  <2>. DEFINE v == [step |-> step, session |-> None, now |-> clock,
                    fresh |-> None \notin out]
  <2>1. v \in Req
    BY <1>0 DEF Req, Step
  <2>2. None \notin out
    BY DEF IInv, TypeOK
  <2>. QED
    BY <1>0, <1>2, <2>1, <2>2, QuietStep DEF Begin
<1>3. ASSUME NEW s \in Session, BeginTouch(r, s)
      PROVE  IInv'
  <2>. DEFINE v == [step |-> "looking", session |-> s, now |-> clock,
                    fresh |-> s \notin out]
  <2>1. v \in Req
    BY <1>0 DEF Req, Step
  <2>. QED
    BY <1>0, <1>3, <2>1, QuietStep DEF BeginTouch, Begin
<1>4. CASE LookupSession(r) /\ Goto(r, "found")
  <2>. DEFINE v == [req[r] EXCEPT !.step = "found"]
               s == req[r].session
  <2>1. v \in Req /\ v.session = s /\ v.now = req[r].now /\ v.fresh = req[r].fresh
        /\ v.step = "found"
    BY <1>0 DEF Req, Step
  <2>2. req' = [req EXCEPT ![r] = v]
    BY <1>4 DEF Goto
  <2>3. s \in delivered /\ s \in Session /\ (~req[r].fresh => s \in out)
    BY <1>0, <1>4 DEF IInv, FlightOK, LookupSession
  <2>4. Active(s, req[r].now)
    <3>1. CASE Answer(r)
      <4>1. req'[r].step = "found" /\ req'[r].step = "idle"
        BY <1>4, <3>1, <2>1 DEF IInv, TypeOK, Goto, Answer, Resting
      <4>. QED  BY <4>1
    <3>. QED  BY <1>4, <3>1 DEF LookupSession
  <2>5. /\ req[r].now < row[s].created + Absolute
        /\ row[s].lastSeen <= latest[s]
    BY <2>3, <2>4 DEF Active, IInv, TableOK
  <2>6. req[r].now < latest[s] + Idle
    <3>1. /\ row[s].lastSeen \in Nat /\ latest[s] \in Nat /\ req[r].now \in Nat
          /\ Idle \in Nat
      BY <2>3, <1>0 DEF IInv, TypeOK, Row, Req
    <3>. QED  BY <3>1, <2>4, <2>5 DEF Active
  <2>. QED
    BY <1>0, <2>1, <2>2, <2>3, <2>5, <2>6, QuietStep
<1>5. CASE RecheckSession(r) /\ Goto(r, "granted")
  <2>. DEFINE v == [req[r] EXCEPT !.step = "granted"]
               s == req[r].session
  <2>1. v \in Req /\ v.session = s /\ v.now = req[r].now /\ v.fresh = req[r].fresh
        /\ v.step = "granted"
    BY <1>0 DEF Req, Step
  <2>2. req' = [req EXCEPT ![r] = v]
    BY <1>5 DEF Goto
  <2>3. s \in delivered /\ s \in Session /\ (~req[r].fresh => s \in out)
        /\ req[r].now \in seen[s]
    BY <1>0, <1>5 DEF IInv, FlightOK, RecheckSession
  <2>4. row[s].state = "live"
    <3>1. CASE Answer(r)
      <4>1. req'[r].step = "granted" /\ req'[r].step = "idle"
        BY <1>5, <3>1, <2>1 DEF IInv, TypeOK, Goto, Answer, Resting
      <4>. QED  BY <4>1
    <3>. QED  BY <1>5, <3>1 DEF RecheckSession, Active
  <2>5. req[r].fresh
    BY <2>3, <2>4 DEF IInv, FlightOK
  <2>. QED
    BY <1>0, <2>1, <2>2, <2>3, <2>5, QuietStep
<1>6. CASE BeginLogout(r)
  <2>. DEFINE v == [req[r] EXCEPT !.step = "revoking"]
               s == req[r].session
  <2>1. v \in Req /\ v.session = s /\ v.now = req[r].now /\ v.fresh = req[r].fresh
        /\ v.step = "revoking"
    BY <1>0 DEF Req, Step
  <2>2. req' = [req EXCEPT ![r] = v]
    BY <1>6 DEF BeginLogout, Goto
  <2>3. s \in delivered /\ req[r].now \in seen[s] /\ req[r].fresh
    BY <1>0, <1>6 DEF IInv, FlightOK, BeginLogout, Running
  <2>. QED
    BY <1>0, <2>1, <2>2, <2>3, QuietStep
<1>. QED
  BY <1>1, <1>2, <1>3, <1>4, <1>5, <1>6 DEF BeginCreate, BeginTouch,
     LookupSession, RecheckSession, Respond, BeginLogout, BeginCleanup, Fail

\* CreateSession's INSERT starts the history of a session at one instant.
LEMMA InsertStep ==
  ASSUME IInv, NEW r \in Request, NEW s \in Session, InsertSession(r, s)
  PROVE  IInv'
<1>. DEFINE now == req[r].now
<1>0. /\ now \in Nat /\ Absolute \in Nat /\ Absolute > 0 /\ s # None
      /\ \A q \in Request : req[q] \in Req
      /\ s \notin delivered /\ s \notin out
      /\ row[s].state = "unused"
  BY SessionAssumption DEF IInv, TypeOK, FlightOK, InsertSession, Req
<1>1. /\ row'[s] = [state |-> "live", created |-> now, lastSeen |-> now,
                    expires |-> now + Absolute]
      /\ seen'[s] = {now} /\ latest'[s] = now
      /\ \A q \in Session \ {s} : /\ row'[q] = row[q] /\ seen'[q] = seen[q]
                                  /\ latest'[q] = latest[q]
  BY DEF IInv, TypeOK, InsertSession
<1>2. /\ req'[r].step = "inserted" /\ req'[r].session = s
      /\ req'[r].fresh = req[r].fresh /\ req'[r].now = now
      /\ req'[r] \in Req
      /\ \A q \in Request \ {r} : req'[q] = req[q]
  BY <1>0 DEF IInv, TypeOK, InsertSession, Req, Step
<1>3. TypeOK'
  <2>1. row'[s] \in Row
    BY <1>0, <1>1 DEF Row, RowState
  <2>2. req' \in [Request -> Req]
    BY <1>2 DEF IInv, TypeOK, InsertSession
  <2>. QED
    BY <1>0, <2>1, <2>2 DEF IInv, TypeOK, InsertSession
<1>4. TableOK'
  BY <1>0, <1>1 DEF IInv, TableOK
<1>5. NoIdleGap'
  BY <1>0, <1>1 DEF IInv, NoIdleGap
<1>6. FlightOK'
  <2>1. UNCHANGED <<delivered, out>>
    BY DEF InsertSession
  <2>2. req[r].fresh
    BY <1>0 DEF IInv, FlightOK, InsertSession, TypeOK
  <2>3. \A q \in Request \ {r} :
          /\ req[q].step \in {"looking", "found", "touched", "granted", "revoking"} =>
               req[q].session \in Session /\ req[q].session # s
          /\ req[q].step = "inserted" => req[q].session \in Session /\ req[q].session # s
    BY <1>0 DEF IInv, FlightOK, TypeOK
  <2>. QED
    <3>1. \A q \in Request \ {r} :
            /\ ~req'[q].fresh => req'[q].session \in out'
            /\ req'[q].step = "inserted" =>
                 /\ req'[q].session \in Session
                 /\ row'[req'[q].session].state # "unused"
            /\ req'[q].step \in {"looking", "found", "touched", "granted", "revoking"} =>
                 req'[q].session \in delivered'
            /\ req'[q].step = "found" =>
                 /\ req'[q].now < row'[req'[q].session].created + Absolute
                 /\ req'[q].now < latest'[req'[q].session] + Idle
            /\ req'[q].step \in {"touched", "granted", "revoking"} =>
                 req'[q].now \in seen'[req'[q].session]
            /\ req'[q].step \in {"creating", "granted", "revoking"} => req'[q].fresh
      BY <1>1, <1>2, <2>1, <2>3 DEF IInv, FlightOK
    <3>2. /\ \A q \in delivered' : row'[q].state # "unused"
          /\ \A q \in out' : row'[q].state \in {"revoked", "deleted"}
      BY <1>0, <1>1, <2>1 DEF IInv, FlightOK, TypeOK
    <3>3. /\ row'[s].state # "unused"
          /\ req'[r].fresh
      BY <1>1, <1>2, <2>2
    <3>. QED
      BY <1>2, <3>1, <3>2, <3>3 DEF FlightOK
<1>. QED
  BY <1>3, <1>4, <1>5, <1>6 DEF IInv

\* The read-back hands the token out only for a row that was stored.
LEMMA ReadBackStep ==
  ASSUME IInv, NEW r \in Request, ReadBackSession(r)
  PROVE  IInv'
<1>1. /\ req'[r] = Resting
      /\ \A q \in Request \ {r} : req'[q] = req[q]
      /\ UNCHANGED <<clock, row, seen, latest, out>>
      /\ delivered \subseteq delivered'
      /\ \A s \in delivered' : s \in Session /\ row[s].state # "unused"
  BY DEF IInv, TypeOK, FlightOK, ReadBackSession, Answer, history, Stored
<1>2. TypeOK'
  <2>1. Resting \in Req
    BY SessionAssumption DEF Resting, Req, Step
  <2>. QED
    BY <1>1, <2>1 DEF IInv, TypeOK, ReadBackSession, Answer
<1>3. TableOK' /\ NoIdleGap'
  BY <1>1 DEF IInv, TableOK, NoIdleGap
<1>4. FlightOK'
  BY <1>1 DEF IInv, FlightOK, Running, Resting
<1>. QED
  BY <1>2, <1>3, <1>4 DEF IInv

\* TouchSession's UPDATE: the instants added between the old and the new
\* latest touch all lie within Idle of the old one.
LEMMA UpdateStep ==
  ASSUME IInv, NEW r \in Request, UpdateLastSeen(r)
  PROVE  IInv'
<1>. DEFINE s == req[r].session
            now == req[r].now
<1>1. CASE Answer(r) /\ UNCHANGED <<row, seen, latest>>
  BY <1>1, AnswerStep DEF UpdateLastSeen
<1>2. CASE /\ row[s].state = "live" /\ row[s].created <= now
           /\ row' = [row EXCEPT ![s].lastSeen = now]
           /\ seen' = [seen EXCEPT ![s] = @ \cup {now}]
           /\ latest' = [latest EXCEPT ![s] = IF now > @ THEN now ELSE @]
           /\ Goto(r, "touched")
  <2>0. /\ s \in delivered /\ s \in Session /\ row[s].state = "live"
        /\ now \in Nat /\ Idle \in Nat /\ Absolute \in Nat
        /\ row[s] \in Row /\ latest[s] \in Nat /\ seen[s] \subseteq Nat
        /\ now < row[s].created + Absolute /\ now < latest[s] + Idle
        /\ UNCHANGED <<clock, delivered, out>>
    BY <1>2, SessionAssumption DEF IInv, TypeOK, FlightOK, UpdateLastSeen, Req
  <2>1. /\ row'[s].state = "live" /\ row'[s].created = row[s].created
        /\ row'[s].expires = row[s].expires /\ row'[s].lastSeen = now
        /\ row'[s] \in Row
        /\ seen'[s] = seen[s] \cup {now}
        /\ latest'[s] = IF now > latest[s] THEN now ELSE latest[s]
        /\ \A q \in Session \ {s} : /\ row'[q] = row[q] /\ seen'[q] = seen[q]
                                    /\ latest'[q] = latest[q]
    BY <1>2, <2>0 DEF IInv, TypeOK, Row
  <2>2. /\ req'[r].step = "touched" /\ req'[r].session = s /\ req'[r].now = now
        /\ req'[r].fresh = req[r].fresh /\ req'[r] \in Req
        /\ \A q \in Request \ {r} : req'[q] = req[q]
    BY <1>2 DEF IInv, TypeOK, Goto, Req, Step
  <2>3. TypeOK'
    <3>1. row' \in [Session -> Row] /\ req' \in [Request -> Req]
      BY <1>2, <2>1, <2>2 DEF IInv, TypeOK, Goto
    <3>. QED
      BY <1>2, <2>0, <3>1 DEF IInv, TypeOK
  <2>4. TableOK'
    <3>1. \A t \in seen'[s] : /\ row'[s].created <= t
                              /\ t < row'[s].created + Absolute
                              /\ t <= latest'[s]
      <4>1. \A t \in seen[s] : /\ row[s].created <= t
                               /\ t < row[s].created + Absolute
                               /\ t <= latest[s]
        BY <2>0 DEF IInv, TableOK
      <4>. QED  BY <1>2, <2>0, <2>1, <4>1
    <3>2. latest[s] \in seen[s] /\ row[s].expires = row[s].created + Absolute
      BY <2>0 DEF IInv, TableOK
    <3>. QED
      BY <2>0, <2>1, <3>1, <3>2 DEF IInv, TableOK
  <2>5. NoIdleGap'
    <3>1. ASSUME NEW t \in row[s].created + 1 .. latest'[s]
          PROVE  \E u \in seen'[s] : u < t /\ t < u + Idle
      <4>0. t \in Nat /\ row[s].created \in Nat
        BY <2>0, <2>1, <3>1 DEF Row
      <4>1. CASE t <= latest[s]
        <5>1. t \in row[s].created + 1 .. latest[s]
          BY <2>0, <3>1, <4>0, <4>1
        <5>. QED
          BY <2>0, <2>1, <5>1 DEF IInv, NoIdleGap
      <4>2. CASE t > latest[s]
        <5>1. latest[s] \in seen'[s] /\ latest[s] < t /\ t <= now
          BY <2>0, <2>1, <3>1, <4>0, <4>2 DEF IInv, TableOK
        <5>. QED
          BY <2>0, <4>0, <5>1
      <4>. QED
        BY <2>0, <4>0, <4>1, <4>2
    <3>2. ASSUME NEW q \in Session, row'[q].state # "unused"
          PROVE  \A t \in row'[q].created + 1 .. latest'[q] :
                   \E u \in seen'[q] : u < t /\ t < u + Idle
      <4>1. CASE q = s
        BY <2>1, <3>1, <4>1
      <4>2. CASE q # s
        BY <2>1, <3>2, <4>2 DEF IInv, NoIdleGap
      <4>. QED  BY <4>1, <4>2
    <3>. QED
      BY <3>2 DEF NoIdleGap
  <2>6. FlightOK'
    <3>1. \A q \in Request : req[q].step = "found" =>
            /\ req[q].session \in Session /\ req[q].now \in Nat
            /\ req[q].now < latest'[req[q].session] + Idle
            /\ req[q].now < row'[req[q].session].created + Absolute
      <4>1. \A x \in Session : latest[x] <= latest'[x] /\ latest'[x] \in Nat
                               /\ latest[x] \in Nat /\ row'[x].created = row[x].created
        BY <2>0, <2>1 DEF IInv, TypeOK
      <4>2. \A q \in Request : req[q].step = "found" =>
              /\ req[q].session \in Session /\ req[q].now \in Nat
              /\ req[q].now < latest[req[q].session] + Idle
              /\ req[q].now < row[req[q].session].created + Absolute
        BY DEF IInv, FlightOK, TypeOK, Req
      <4>. QED
        BY <2>0, <4>1, <4>2
    <3>2. \A x \in Session : seen[x] \subseteq seen'[x] /\ row'[x].state = row[x].state
      BY <2>0, <2>1
    <3>. QED
      BY <2>0, <2>1, <2>2, <3>1, <3>2 DEF IInv, FlightOK, Running, TypeOK
  <2>. QED
    BY <2>3, <2>4, <2>5, <2>6 DEF IInv
<1>. QED
  BY <1>1, <1>2 DEF UpdateLastSeen

\* Logout and cleanup: steps that only end rows.
LEMMA EndStep ==
  ASSUME IInv, NEW r \in Request, NEW E \in SUBSET Session,
         UNCHANGED <<clock, delivered, seen, latest>>, Answer(r),
         row' \in [Session -> Row],
         \A s \in Session : /\ row'[s].created = row[s].created
                            /\ row'[s].lastSeen = row[s].lastSeen
                            /\ row'[s].expires = row[s].expires
                            /\ row'[s].state = row[s].state
                                 \/ /\ row[s].state # "unused"
                                    /\ row'[s].state \in {"revoked", "deleted"},
         out' = out \cup E,
         \A s \in E : row'[s].state \in {"revoked", "deleted"}
  PROVE  IInv'
<1>1. TypeOK'
  <2>1. Resting \in Req
    BY SessionAssumption DEF Resting, Req, Step
  <2>. QED
    BY <2>1 DEF IInv, TypeOK, Answer
<1>2. TableOK' /\ NoIdleGap'
  BY DEF IInv, TableOK, NoIdleGap
<1>3. FlightOK'
  <2>1. /\ req'[r] = Resting /\ \A q \in Request \ {r} : req'[q] = req[q]
        /\ delivered \subseteq Session /\ out \subseteq Session
    BY DEF IInv, TypeOK, Answer
  <2>. QED
    BY <2>1 DEF IInv, FlightOK, Running, Resting
<1>. QED
  BY <1>1, <1>2, <1>3 DEF IInv

LEMMA RevokeStep ==
  ASSUME IInv, NEW r \in Request, RevokeSession(r)
  PROVE  IInv'
<1>. DEFINE s == req[r].session
<1>1. s \in Session /\ row[s].state # "unused" /\ row[s] \in Row
  BY DEF IInv, TypeOK, FlightOK, RevokeSession
<1>2. /\ row'[s].created = row[s].created
      /\ row'[s].lastSeen = row[s].lastSeen
      /\ row'[s].expires = row[s].expires
      /\ row'[s].state \in {"revoked", "deleted"}
      /\ row'[s] \in Row
      /\ \A q \in Session \ {s} : row'[q] = row[q]
  BY <1>1 DEF IInv, TypeOK, RevokeSession, Row, RowState
<1>3. row' \in [Session -> Row]
  BY <1>1, <1>2 DEF IInv, TypeOK, RevokeSession
<1>4. {s} \in SUBSET Session
  BY <1>1
<1>. QED
  BY <1>1, <1>2, <1>3, <1>4, EndStep DEF RevokeSession

LEMMA CleanupStep ==
  ASSUME IInv, NEW r \in Request, CleanupExpiredSessions(r)
  PROVE  IInv'
<1>1. \A s \in Session :
        /\ row'[s] \in Row
        /\ row'[s].created = row[s].created
        /\ row'[s].lastSeen = row[s].lastSeen
        /\ row'[s].expires = row[s].expires
        /\ row'[s].state = row[s].state
             \/ /\ row[s].state # "unused"
                /\ row'[s].state \in {"revoked", "deleted"}
  <2>. SUFFICES ASSUME NEW s \in Session
                PROVE  /\ row'[s] \in Row
                       /\ row'[s].created = row[s].created
                       /\ row'[s].lastSeen = row[s].lastSeen
                       /\ row'[s].expires = row[s].expires
                       /\ row'[s].state = row[s].state
                            \/ /\ row[s].state # "unused"
                               /\ row'[s].state \in {"revoked", "deleted"}
    OBVIOUS
  <2>1. row[s] \in Row
    BY DEF IInv, TypeOK
  <2>2. CASE row'[s] = row[s]
    BY <2>1, <2>2
  <2>3. CASE row[s].state # "unused" /\ row'[s] = [row[s] EXCEPT !.state = "deleted"]
    BY <2>1, <2>3 DEF Row, RowState
  <2>. QED
    BY <2>2, <2>3 DEF CleanupExpiredSessions, Stored
<1>2. row' \in [Session -> Row]
  BY <1>1 DEF CleanupExpiredSessions
<1>3. out' = out \cup {} /\ {} \in SUBSET Session
  BY DEF CleanupExpiredSessions, history
<1>. QED
  BY <1>1, <1>2, <1>3, EndStep DEF CleanupExpiredSessions, history

\* The environment's steps.
LEMMA EnvironmentStep ==
  ASSUME IInv, Restart \/ Tick \/ StepBack \/ UNCHANGED vars
  PROVE  IInv'
<1>1. CASE Restart
  <2>1. Resting \in Req
    BY SessionAssumption DEF Resting, Req, Step
  <2>. QED
    BY <1>1, <2>1 DEF IInv, TypeOK, TableOK, NoIdleGap, FlightOK, Running,
       Restart, Resting, history
<1>2. CASE Tick \/ StepBack
  <2>1. clock' \in 0..MaxClock
    BY <1>2, SessionAssumption DEF IInv, TypeOK, Tick, StepBack
  <2>. QED
    BY <1>2, <2>1 DEF IInv, TypeOK, TableOK, NoIdleGap, FlightOK, Running,
       Tick, StepBack, history
<1>3. CASE UNCHANGED vars
  BY <1>3 DEF IInv, TypeOK, TableOK, NoIdleGap, FlightOK, Running, vars
<1>. QED
  BY <1>1, <1>2, <1>3

\* The invariant is preserved by every step of the system.
LEMMA NextIInv == IInv /\ [Next]_vars => IInv'
<1>1. ASSUME IInv, NEW r \in Request, Handle(r)
      PROVE  IInv'
  BY <1>1, ReadOnlySteps, InsertStep, ReadBackStep, UpdateStep, RevokeStep,
     CleanupStep DEF Handle
<1>. QED
  BY <1>1, EnvironmentStep DEF Next

LEMMA Invariance == Spec => []IInv
  BY InitIInv, NextIInv, PTL DEF Spec

------------------------------------------------------------------------------
\* The state always has its type.
THEOREM TypeCorrect == Spec => []TypeOK
  BY Invariance, PTL DEF IInv

\* A logout that was answered is final, for any number of requests in flight.
THEOREM LogoutCorrect == Spec => []LogoutIsFinal
<1>1. IInv => LogoutIsFinal
  BY DEF IInv, FlightOK, LogoutIsFinal, Running
<1>. QED
  BY <1>1, Invariance, PTL

\* No interleaving of touches carries a session past its lifetime.
THEOREM LifetimeCorrect == Spec => []LifetimeBounded
<1>1. IInv => LifetimeBounded
  BY DEF IInv, TableOK, LifetimeBounded
<1>. QED
  BY <1>1, Invariance, PTL

\* No interleaving of touches carries a session over an idle gap.
THEOREM IdleCorrect == Spec => []NoIdleGap
  BY Invariance, PTL DEF IInv

\* Every running request was recorded as activity of its session.
THEOREM GrantedCorrect == Spec => []GrantedWasTouched
<1>1. IInv => GrantedWasTouched
  BY DEF IInv, FlightOK, GrantedWasTouched, Running
<1>. QED
  BY <1>1, Invariance, PTL

\* Nothing writes to a revoked or deleted row, and nothing revives it.
THEOREM EndedRowsCorrect == Spec => EndedRowsAreFrozen
<1>. DEFINE Frozen == \A s \in Session : row[s].state \in {"revoked", "deleted"} =>
                        /\ row'[s].state \in {"revoked", "deleted"}
                        /\ row'[s].lastSeen = row[s].lastSeen
<1>1. ASSUME TypeOK, NEW r \in Request, Handle(r)
      PROVE  Frozen
  <2>1. CASE UNCHANGED row
    BY <2>1
  <2>2. ASSUME NEW s \in Session, InsertSession(r, s)
        PROVE  Frozen
    BY <1>1, <2>2 DEF InsertSession, TypeOK
  <2>3. CASE UpdateLastSeen(r)
    BY <1>1, <2>3 DEF UpdateLastSeen, TypeOK, Row
  <2>4. CASE RevokeSession(r)
    BY <1>1, <2>4 DEF RevokeSession, TypeOK, Row
  <2>5. CASE CleanupExpiredSessions(r)
    <3>. SUFFICES ASSUME NEW s \in Session
                  PROVE  \/ row'[s] = row[s]
                         \/ row'[s] = [row[s] EXCEPT !.state = "deleted"]
      BY <1>1 DEF TypeOK, Row
    <3>. QED
      BY <2>5 DEF CleanupExpiredSessions
  <2>. QED
    BY <1>1, <2>1, <2>2, <2>3, <2>4, <2>5 DEF Handle, BeginCreate,
       ReadBackSession, BeginTouch, LookupSession, RecheckSession, Respond,
       BeginLogout, BeginCleanup, Fail
<1>2. TypeOK /\ [Next]_vars => [Frozen]_vars
  <2>1. CASE Restart \/ Tick \/ StepBack
    BY <2>1 DEF Restart, Tick, StepBack
  <2>. QED
    BY <1>1, <2>1 DEF Next
<1>. QED
  BY <1>2, TypeCorrect, PTL DEF Spec, EndedRowsAreFrozen


------------------------------------------------------------------------------
(* The store implements the atomic contract *)

\* The contract's variables as they are computed from the store's.
Phase(s) == IF row[s].state \in {"unused", "live"} THEN row[s].state ELSE "ended"

Holder(r) == IF Running(r) THEN req[r].session ELSE None

LEMMA ContractInit == Init => Contract!Init
  BY DEF Init, Contract!Init, Running, NoRow, Resting

\* Steps that touch at most the instant of the last touch are invisible.
LEMMA ContractStutter ==
  ASSUME \A s \in Session : Phase(s)' = Phase(s) /\ row'[s].expires = row[s].expires,
         \A q \in Request : Holder(q)' = Holder(q)
  PROVE  UNCHANGED Contract!vars
  BY DEF Contract!vars, Phase, Holder

\* A set of requests is answered while nothing happens to the table.
LEMMA ContractRelease ==
  ASSUME UNCHANGED row, NEW R \in SUBSET Request,
         \A q \in Request : Holder(q)' = IF q \in R THEN None ELSE Holder(q)
  PROVE  Contract!Next
<1>1. Contract!Release(R)
  BY DEF Contract!Release, Holder
<1>. QED
  BY <1>1 DEF Contract!Next

\* Rows end, one request at most is answered.
LEMMA ContractEnd ==
  ASSUME NEW S \in SUBSET Session, NEW R \in SUBSET Request,
         \A s \in Session : /\ row'[s].expires = row[s].expires
                            /\ Phase(s)' = IF s \in S /\ Phase(s) # "unused"
                                           THEN "ended" ELSE Phase(s),
         \A q \in Request : Holder(q)' = IF q \in R THEN None ELSE Holder(q)
  PROVE  Contract!Next
<1>1. Contract!Release(R)
  BY DEF Contract!Release, Holder
<1>2. Contract!End(S)
  BY DEF Contract!End, Phase
<1>. QED
  BY <1>1, <1>2 DEF Contract!Next

\* The answered request holds nothing any more; the others are as they were.
LEMMA AnswerHolder ==
  ASSUME IInv, NEW r \in Request, Answer(r)
  PROVE  \A q \in Request : Holder(q)' = IF q \in {r} THEN None ELSE Holder(q)
  BY DEF Answer, Holder, Running, Resting, IInv, TypeOK

\* A request that moves between two steps in neither of which it runs.
LEMMA GotoHolder ==
  ASSUME IInv, NEW r \in Request, NEW step, Goto(r, step),
         Running(r) <=> step \in {"granted", "revoking"}
  PROVE  \A q \in Request : Holder(q)' = Holder(q)
<1>1. /\ req'[r].step = step /\ req'[r].session = req[r].session
      /\ \A q \in Request \ {r} : req'[q] = req[q]
  BY DEF Goto, IInv, TypeOK, Req
<1>. QED
  BY <1>1 DEF Holder, Running

\* Issuing and granting at an instant of the clock are steps of the contract.
LEMMA ContractSteps ==
  ASSUME NEW s \in Session, NEW now \in 0..MaxClock
  PROVE  /\ Contract!Issue(s, now) => Contract!Next
         /\ \A r \in Request : Contract!Grant(r, s, now) => Contract!Next
  BY DEF Contract!Next

\* Login: the INSERT is the instant at which the contract issues a session.
LEMMA InsertContract ==
  ASSUME IInv, NEW r \in Request, NEW s \in Session, InsertSession(r, s)
  PROVE  Contract!Next
<1>1. PICK now \in 0..MaxClock : now = req[r].now
  BY DEF IInv, TypeOK, Req
<1>2. /\ row[s].state = "unused"
      /\ row'[s].state = "live" /\ row'[s].expires = now + Absolute
      /\ \A q \in Session \ {s} : row'[q] = row[q]
  BY <1>1 DEF IInv, TypeOK, InsertSession
<1>3. \A q \in Request : Holder(q)' = Holder(q)
  <2>1. ~Running(r) /\ req'[r].step = "inserted"
        /\ \A q \in Request \ {r} : req'[q] = req[q]
    BY DEF IInv, TypeOK, InsertSession, Running, Req
  <2>. QED
    BY <2>1 DEF Holder, Running
<1>4. Contract!Issue(s, now)
  BY <1>2, <1>3 DEF Contract!Issue, Holder
<1>. QED
  BY <1>4, ContractSteps

\* Authorisation: the last read of TouchSession is the instant of the grant.
LEMMA RecheckContract ==
  ASSUME IInv, NEW r \in Request, RecheckSession(r)
  PROVE  Contract!Next
<1>1. CASE Answer(r)
  BY <1>1, AnswerHolder, ContractRelease DEF RecheckSession
<1>2. CASE Active(req[r].session, req[r].now) /\ Goto(r, "granted")
  <2>1. PICK now \in 0..MaxClock : now = req[r].now
    BY DEF IInv, TypeOK, Req
  <2>2. PICK s \in Session : s = req[r].session
    BY DEF IInv, TypeOK, FlightOK, RecheckSession
  <2>3. ~Running(r) /\ UNCHANGED row
    BY DEF RecheckSession, Running
  <2>4. /\ req'[r].step = "granted" /\ req'[r].session = s
        /\ \A q \in Request \ {r} : req'[q] = req[q]
    BY <1>2, <2>2 DEF IInv, TypeOK, Req, Goto
  <2>5. \A q \in Request : Holder(q)' = IF q = r THEN s ELSE Holder(q)
    BY <2>4 DEF Holder, Running
  <2>6. Contract!Grant(r, s, now)
    BY <1>2, <2>1, <2>2, <2>3, <2>5 DEF Contract!Grant, Holder, Active
  <2>. QED
    BY <2>6, ContractSteps
<1>. QED
  BY <1>1, <1>2 DEF RecheckSession

\* Logout ends its session in the step that answers it.
LEMMA RevokeContract ==
  ASSUME IInv, NEW r \in Request, RevokeSession(r)
  PROVE  Contract!Next
<1>. DEFINE s == req[r].session
<1>1. s \in Session /\ row[s] \in Row /\ row[s].state # "unused"
  BY DEF IInv, TypeOK, FlightOK, RevokeSession
<1>2. /\ row'[s].expires = row[s].expires
      /\ row'[s].state \in {"revoked", "deleted"}
      /\ \A q \in Session \ {s} : row'[q] = row[q]
  BY <1>1 DEF IInv, TypeOK, RevokeSession, Row, RowState
<1>3. \A q \in Session : /\ row'[q].expires = row[q].expires
                         /\ Phase(q)' = IF q \in {s} /\ Phase(q) # "unused"
                                        THEN "ended" ELSE Phase(q)
  BY <1>1, <1>2 DEF Phase
<1>4. {s} \in SUBSET Session /\ {r} \in SUBSET Request
  BY <1>1
<1>5. Answer(r)
  BY DEF RevokeSession
<1>. QED
  BY <1>3, <1>4, <1>5, AnswerHolder, ContractEnd

\* Cleanup ends the sessions it deletes.
LEMMA CleanupContract ==
  ASSUME IInv, NEW r \in Request, CleanupExpiredSessions(r)
  PROVE  Contract!Next
<1>. DEFINE S == {s \in Session : Stored(s) /\ Expired(s, req[r].now)}
<1>1. ASSUME NEW q \in Session
      PROVE  /\ row'[q].expires = row[q].expires
             /\ Phase(q)' = IF q \in S /\ Phase(q) # "unused"
                            THEN "ended" ELSE Phase(q)
  <2>0. row[q] \in Row
    BY DEF IInv, TypeOK
  <2>1. CASE q \in S
    <3>1. row'[q] = [row[q] EXCEPT !.state = "deleted"]
      BY <2>1 DEF CleanupExpiredSessions
    <3>2. row'[q].state = "deleted" /\ row'[q].expires = row[q].expires
      BY <2>0, <3>1 DEF Row
    <3>3. row[q].state # "unused"
      BY <2>1 DEF Stored
    <3>. QED
      BY <2>1, <3>2, <3>3 DEF Phase
  <2>2. CASE q \notin S
    <3>1. row'[q] = row[q]
      BY <2>2 DEF CleanupExpiredSessions
    <3>. QED
      BY <2>2, <3>1 DEF Phase
  <2>. QED
    BY <2>1, <2>2
<1>2. S \in SUBSET Session /\ {r} \in SUBSET Request /\ Answer(r)
  BY DEF CleanupExpiredSessions
<1>. HIDE DEF S
<1>. QED
  BY <1>1, <1>2, AnswerHolder, ContractEnd

\* A step of a request is a step of the contract or invisible to it.
LEMMA HandleContract ==
  ASSUME IInv, NEW r \in Request, Handle(r)
  PROVE  [Contract!Next]_Contract!vars
<1>0. req[r] \in Req
  BY DEF IInv, TypeOK
<1>1. CASE UNCHANGED row /\ \A q \in Request : Holder(q)' = Holder(q)
  BY <1>1, ContractStutter DEF Phase
<1>2. CASE UNCHANGED row /\ Answer(r)
  BY <1>2, AnswerHolder, ContractRelease
<1>3. ASSUME NEW s, NEW step, Begin(r, step, s), UNCHANGED row,
             step \notin {"granted", "revoking"}
      PROVE  [Contract!Next]_Contract!vars
  <2>1. /\ ~Running(r) /\ req'[r].step = step
        /\ \A q \in Request \ {r} : req'[q] = req[q]
    <3>1. req[r].step = "idle"
      BY <1>3 DEF Begin
    <3>. QED
      BY <1>3, <3>1 DEF Begin, Running, IInv, TypeOK
  <2>2. \A q \in Request : Holder(q)' = Holder(q)
    BY <1>3, <2>1 DEF Holder, Running
  <2>. QED
    BY <1>1, <1>3, <2>2
<1>4. CASE LookupSession(r)
  BY <1>1, <1>2, <1>4, GotoHolder DEF LookupSession, Running
<1>5. CASE BeginLogout(r)
  BY <1>1, <1>5, GotoHolder DEF BeginLogout, Running
<1>6. CASE UpdateLastSeen(r)
  <2>. DEFINE s == req[r].session
  <2>1. CASE Answer(r) /\ UNCHANGED row
    BY <1>2, <2>1
  <2>2. CASE row' = [row EXCEPT ![s].lastSeen = req[r].now] /\ Goto(r, "touched")
    <3>1. \A q \in Session : Phase(q)' = Phase(q) /\ row'[q].expires = row[q].expires
      BY <2>2 DEF Phase, IInv, TypeOK, Row
    <3>2. \A q \in Request : Holder(q)' = Holder(q)
      BY <1>6, <2>2, GotoHolder DEF UpdateLastSeen, Running
    <3>. QED
      BY <3>1, <3>2, ContractStutter
  <2>. QED
    BY <1>6, <2>1, <2>2 DEF UpdateLastSeen
<1>7. CASE BeginCreate(r) \/ BeginCleanup(r) \/ \E s \in Session : BeginTouch(r, s)
  BY <1>3, <1>7 DEF BeginCreate, BeginCleanup, BeginTouch
<1>8. CASE ReadBackSession(r) \/ Respond(r) \/ Fail(r)
  BY <1>2, <1>8 DEF ReadBackSession, Respond, Fail
<1>. QED
  BY <1>4, <1>5, <1>6, <1>7, <1>8, InsertContract, RecheckContract,
     RevokeContract, CleanupContract DEF Handle

\* The multi-statement store implements the atomic contract: a session is
\* issued, grants and ends in single instants, however requests interleave,
\* fail or are cut off by a restart.
THEOREM StoreImplementsContract == Spec => ImplementsContract
<1>1. ASSUME IInv, [Next]_vars
      PROVE  [Contract!Next]_Contract!vars
  <2>1. CASE Restart
    <3>1. \A q \in Request : Holder(q)' = IF q \in Request THEN None ELSE Holder(q)
      BY <2>1 DEF Restart, Holder, Running, Resting
    <3>2. Request \in SUBSET Request
      OBVIOUS
    <3>. QED
      BY <2>1, <3>1, <3>2, ContractRelease DEF Restart
  <2>2. CASE Tick \/ StepBack \/ UNCHANGED vars
    BY <2>2 DEF Tick, StepBack, vars, Contract!vars, Running
  <2>. QED
    BY <1>1, <2>1, <2>2, HandleContract DEF Next
<1>. QED
  BY <1>1, ContractInit, Invariance, PTL DEF Spec, ImplementsContract, Contract!Spec
==============================================================================
