----------------------------- MODULE SessionStore -----------------------------
(***************************************************************************)
(* Server-side login sessions: internal/store/sqlite/session_store.go and  *)
(* the handlers of internal/server/server.go that call it.                 *)
(*                                                                         *)
(* Every SQL statement is one atomic step and everything between two       *)
(* statements of one store call is a point where other requests, a         *)
(* cancelled context or a process restart may intervene.  A store call     *)
(* reads the wall clock once, on entry (currentTime), and uses that value  *)
(* in every later statement.  Times are milliseconds, the resolution       *)
(* formatTime writes.                                                      *)
(***************************************************************************)
EXTENDS Naturals, FiniteSets

CONSTANTS
  Session,    \* session ids (and their tokens) that may be generated
  Request,    \* request goroutines
  Idle,       \* Policy.IdleTimeout
  Absolute,   \* Policy.AbsoluteTimeout
  MaxClock,   \* bound: the wall clock stays in 0..MaxClock
  None        \* no session

ASSUME SessionAssumption ==
  /\ Idle \in Nat \ {0}
  /\ Absolute \in Nat
  /\ MaxClock \in Nat
  /\ None \notin Session

VARIABLES
  clock,      \* wall clock, which an administrator or NTP may step back
  row,        \* the sessions table
  delivered,  \* sessions whose token reached the browser
  req,        \* in-flight requests
  \* history
  seen,       \* seen[s]: creation and touch times written for s
  latest,     \* latest[s]: the greatest of seen[s]
  out         \* sessions whose logout was answered with a redirect

vars == <<clock, row, delivered, req, seen, latest, out>>

RowState == {"unused", "live", "revoked", "deleted"}

Row == [state: RowState, created: Nat, lastSeen: Nat, expires: Nat]

Step == {"idle", "creating", "inserted", "looking", "found", "touched",
         "granted", "revoking", "cleaning"}

\* "fresh" is history: the session had not been logged out when r began.
Req == [step: Step, session: Session \cup {None}, now: 0..MaxClock, fresh: BOOLEAN]

NoRow == [state |-> "unused", created |-> 0, lastSeen |-> 0, expires |-> 0]

Resting == [step |-> "idle", session |-> None, now |-> 0, fresh |-> TRUE]

TypeOK ==
  /\ clock \in 0..MaxClock
  /\ row \in [Session -> Row]
  /\ delivered \subseteq Session
  /\ req \in [Request -> Req]
  /\ seen \in [Session -> SUBSET Nat]
  /\ latest \in [Session -> Nat]
  /\ out \subseteq Session

Init ==
  /\ clock = 0
  /\ row = [s \in Session |-> NoRow]
  /\ delivered = {}
  /\ req = [r \in Request |-> Resting]
  /\ seen = [s \in Session |-> {}]
  /\ latest = [s \in Session |-> 0]
  /\ out = {}

------------------------------------------------------------------------------
(* Helpers *)

\* A row that SELECT can find.
Stored(s) == row[s].state \in {"live", "revoked"}

\* Mutant: the cap is inclusive.
Active_CapInclusive(s, now) ==
  row[s].state = "live" /\ now <= row[s].expires /\ now < row[s].lastSeen + Idle

\* Mutant: the idle limit is inclusive.
Active_IdleInclusive(s, now) ==
  row[s].state = "live" /\ now < row[s].expires /\ now <= row[s].lastSeen + Idle

\* sessionActive: the row as stored now, judged at the caller's instant.
Active(s, now) ==
  /\ row[s].state = "live"
  /\ now < row[s].expires
  /\ now < row[s].lastSeen + Idle

\* deleteExpiredSessionsSQL's WHERE clause.
Expired(s, now) ==
  \/ row[s].expires <= now
  \/ row[s].lastSeen + Idle <= now

Answer(r) == req' = [req EXCEPT ![r] = Resting]

Goto(r, step) == req' = [req EXCEPT ![r].step = step]

Begin(r, step, s) ==
  /\ req[r].step = "idle"
  /\ req' = [req EXCEPT ![r] =
       [step |-> step, session |-> s, now |-> clock, fresh |-> s \notin out]]

history == <<seen, latest, out>>

------------------------------------------------------------------------------
(* CreateSession, called by loginPost once the password is accepted *)

BeginCreate(r) ==
  /\ Begin(r, "creating", None)
  /\ UNCHANGED <<clock, row, delivered, history>>

\* The schema's CHECK (expires_at > created_at) refuses an empty lifetime;
\* such a login can only Fail.
InsertSession(r, s) ==
  LET now == req[r].now IN
  /\ req[r].step = "creating"
  /\ row[s].state = "unused"
  /\ Absolute > 0
  /\ row' = [row EXCEPT ![s] = [state |-> "live", created |-> now,
                                lastSeen |-> now, expires |-> now + Absolute]]
  /\ req' = [req EXCEPT ![r].step = "inserted", ![r].session = s]
  /\ seen' = [seen EXCEPT ![s] = {now}]
  /\ latest' = [latest EXCEPT ![s] = now]
  /\ UNCHANGED <<clock, delivered, out>>

\* The read-back, then setSessionCookie.
ReadBackSession(r) ==
  LET s == req[r].session IN
  /\ req[r].step = "inserted"
  /\ delivered' = IF Stored(s) THEN delivered \cup {s} ELSE delivered
  /\ Answer(r)
  /\ UNCHANGED <<clock, row, history>>

------------------------------------------------------------------------------
(* TouchSession, called by authorizeSession for every guarded request *)

BeginTouch(r, s) ==
  /\ s \in delivered
  /\ Begin(r, "looking", s)
  /\ UNCHANGED <<clock, row, delivered, history>>

\* Mutant: a valid request is let through without being recorded.
LookupSession_NoTouch(r) ==
  /\ req[r].step = "looking"
  /\ IF Active(req[r].session, req[r].now) THEN Goto(r, "granted") ELSE Answer(r)
  /\ UNCHANGED <<clock, row, delivered, history>>

LookupSession(r) ==
  /\ req[r].step = "looking"
  /\ IF Active(req[r].session, req[r].now) THEN Goto(r, "found") ELSE Answer(r)
  /\ UNCHANGED <<clock, row, delivered, history>>

\* Mutant: the UPDATE has no "revoked_at IS NULL".
UpdateLastSeen_AnyRow(r) ==
  LET s == req[r].session
      now == req[r].now
  IN
  /\ req[r].step = "found"
  /\ Stored(s) /\ row[s].created <= now
  /\ row' = [row EXCEPT ![s].lastSeen = now]
  /\ seen' = [seen EXCEPT ![s] = @ \cup {now}]
  /\ latest' = [latest EXCEPT ![s] = IF now > @ THEN now ELSE @]
  /\ Goto(r, "touched")
  /\ UNCHANGED <<clock, delivered, out>>

\* UPDATE ... WHERE id = ? AND revoked_at IS NULL, which writes the captured
\* instant whatever the row holds by now.  No row: ErrNotFound.  An instant
\* before created_at violates CHECK (last_seen_at >= created_at): an error.
UpdateLastSeen(r) ==
  LET s == req[r].session
      now == req[r].now
      wrote == row[s].state = "live" /\ row[s].created <= now
  IN
  /\ req[r].step = "found"
  /\ \/ /\ wrote
        /\ row' = [row EXCEPT ![s].lastSeen = now]
        /\ seen' = [seen EXCEPT ![s] = @ \cup {now}]
        /\ latest' = [latest EXCEPT ![s] = IF now > @ THEN now ELSE @]
        /\ Goto(r, "touched")
     \/ /\ ~wrote
        /\ Answer(r)
        /\ UNCHANGED <<row, seen, latest>>
  /\ UNCHANGED <<clock, delivered, out>>

\* Mutant: the touched row is not judged again.
RecheckSession_Trusting(r) ==
  /\ req[r].step = "touched"
  /\ Goto(r, "granted")
  /\ UNCHANGED <<clock, row, delivered, history>>

RecheckSession(r) ==
  /\ req[r].step = "touched"
  /\ IF Active(req[r].session, req[r].now) THEN Goto(r, "granted") ELSE Answer(r)
  /\ UNCHANGED <<clock, row, delivered, history>>

\* The guarded handler has run and its response is sent.
Respond(r) ==
  /\ req[r].step = "granted"
  /\ Answer(r)
  /\ UNCHANGED <<clock, row, delivered, history>>

------------------------------------------------------------------------------
(* logoutPost: a guarded request that revokes its own session *)

BeginLogout(r) ==
  /\ req[r].step = "granted"
  /\ Goto(r, "revoking")
  /\ UNCHANGED <<clock, row, delivered, history>>

\* Mutant: a failed revocation is answered like a successful one.
RevokeSession_ErrorIgnored(r) ==
  LET s == req[r].session IN
  /\ req[r].step = "revoking"
  /\ row' \in {row, [row EXCEPT ![s].state = IF @ = "live" THEN "revoked" ELSE @]}
  /\ out' = out \cup {s}
  /\ Answer(r)
  /\ UNCHANGED <<clock, delivered, seen, latest>>

\* RevokeSession.  No unrevoked row is ErrNotFound, which logoutPost treats
\* like success.
RevokeSession(r) ==
  LET s == req[r].session IN
  /\ req[r].step = "revoking"
  /\ row' = [row EXCEPT ![s].state = IF @ = "live" THEN "revoked" ELSE @]
  /\ out' = out \cup {s}
  /\ Answer(r)
  /\ UNCHANGED <<clock, delivered, seen, latest>>

------------------------------------------------------------------------------
(* CleanupExpiredSessions, an operation of the store that no scheduler of  *)
(* the program calls                                                       *)

BeginCleanup(r) ==
  /\ Begin(r, "cleaning", None)
  /\ UNCHANGED <<clock, row, delivered, history>>

CleanupExpiredSessions(r) ==
  /\ req[r].step = "cleaning"
  /\ row' = [s \in Session |->
               IF Stored(s) /\ Expired(s, req[r].now)
               THEN [row[s] EXCEPT !.state = "deleted"] ELSE row[s]]
  /\ Answer(r)
  /\ UNCHANGED <<clock, delivered, history>>

------------------------------------------------------------------------------
(* Failures and the environment *)

\* A statement fails or the client goes away: the handler stops here, and
\* what its earlier statements committed stays.
Fail(r) ==
  /\ req[r].step # "idle"
  /\ Answer(r)
  /\ UNCHANGED <<clock, row, delivered, history>>

Restart ==
  /\ req' = [r \in Request |-> Resting]
  /\ UNCHANGED <<clock, row, delivered, history>>

Tick ==
  /\ clock < MaxClock
  /\ clock' = clock + 1
  /\ UNCHANGED <<row, delivered, req, history>>

StepBack ==
  /\ clock' \in 0..clock
  /\ UNCHANGED <<row, delivered, req, history>>

Handle(r) ==
  \/ BeginCreate(r)
  \/ \E s \in Session : InsertSession(r, s)
  \/ ReadBackSession(r)
  \/ \E s \in Session : BeginTouch(r, s)
  \/ LookupSession(r)
  \/ UpdateLastSeen(r)
  \/ RecheckSession(r)
  \/ Respond(r)
  \/ BeginLogout(r)
  \/ RevokeSession(r)
  \/ BeginCleanup(r)
  \/ CleanupExpiredSessions(r)
  \/ Fail(r)

Next == (\E r \in Request : Handle(r)) \/ Restart \/ Tick \/ StepBack

Spec == Init /\ [][Next]_vars
------------------------------------------------------------------------------
(* Properties *)

Running(r) == req[r].step \in {"granted", "revoking"}

\* Once a logout has been answered, no request that begins afterwards runs
\* under that session, whatever lookups and touches of it were in flight.
LogoutIsFinal ==
  /\ \A s \in out : row[s].state # "live"
  /\ \A r \in Request : Running(r) => req[r].fresh

\* However touches interleave, are delayed or fail, every one of them that
\* was written lies inside the lifetime fixed at login, and the stored row
\* keeps to it.
LifetimeBounded ==
  \A s \in Session : row[s].state # "unused" =>
    /\ row[s].lastSeen \in seen[s]
    /\ \A t \in seen[s] : row[s].created <= t /\ t < row[s].created + Absolute

\* A session that is in use was never silent for a whole idle window: every
\* instant between its login and its latest touch is within Idle of an
\* earlier touch.  A delayed touch cannot bring back a session over a gap.
NoIdleGap ==
  \A s \in Session : row[s].state # "unused" =>
    \A t \in row[s].created + 1 .. latest[s] :
      \E u \in seen[s] : u < t /\ t < u + Idle

\* A request runs only on the strength of a touch of its own session, written
\* at the request's own instant.
GrantedWasTouched ==
  \A r \in Request : Running(r) => req[r].now \in seen[req[r].session]

\* A revoked or deleted row is never written again: a touch whose lookup
\* preceded the logout does not refresh, and nothing revives the row.
EndedRowsAreFrozen ==
  [][\A s \in Session : row[s].state \in {"revoked", "deleted"} =>
       /\ row'[s].state \in {"revoked", "deleted"}
       /\ row'[s].lastSeen = row[s].lastSeen]_vars

\* The store implements the atomic contract: the decisive instant of an
\* authorisation is its last read.
Contract == INSTANCE SessionContract WITH
  Instant <- 0..MaxClock,
  phase <- [s \in Session |-> IF row[s].state \in {"unused", "live"}
                              THEN row[s].state ELSE "ended"],
  cap <- [s \in Session |-> row[s].expires],
  granted <- [r \in Request |-> IF Running(r) THEN req[r].session ELSE None]

ImplementsContract == Contract!Spec
==============================================================================
