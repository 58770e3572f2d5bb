--------------------------- MODULE SessionContract ---------------------------
(***************************************************************************)
(* What a login session promises, with every operation atomic.  A session  *)
(* is issued once with a cap on its lifetime, ends once and for good, and  *)
(* while it is live it may grant requests whose own start lies before the  *)
(* cap.  Nothing is said here of tables, statements or races.              *)
(***************************************************************************)
EXTENDS Naturals

CONSTANTS
  Session, Request,
  Absolute,  \* lifetime of a session
  Instant,   \* the instants at which things happen
  None       \* no session

VARIABLES
  phase,    \* phase[s] \in {"unused", "live", "ended"}
  cap,      \* cap[s]: the instant from which s grants nothing
  granted   \* granted[r]: the session r runs under, or None

vars == <<phase, cap, granted>>

Init ==
  /\ phase = [s \in Session |-> "unused"]
  /\ cap = [s \in Session |-> 0]
  /\ granted = [r \in Request |-> None]

Issue(s, now) ==
  /\ phase[s] = "unused"
  /\ phase' = [phase EXCEPT ![s] = "live"]
  /\ cap' = [cap EXCEPT ![s] = now + Absolute]
  /\ UNCHANGED granted

\* Logout ends one session, an expiry sweep any number of them.
End(S) ==
  /\ phase' = [s \in Session |->
                 IF s \in S /\ phase[s] # "unused" THEN "ended" ELSE phase[s]]
  /\ UNCHANGED cap

Grant(r, s, now) ==
  /\ granted[r] = None
  /\ phase[s] = "live"
  /\ now < cap[s]
  /\ granted' = [granted EXCEPT ![r] = s]
  /\ UNCHANGED <<phase, cap>>

\* Requests are answered one by one; a restart drops all of them.
Release(R) ==
  granted' = [r \in Request |-> IF r \in R THEN None ELSE granted[r]]

Next ==
  \/ \E s \in Session, now \in Instant : Issue(s, now)
  \/ \E r \in Request, s \in Session, now \in Instant : Grant(r, s, now)
  \/ \E R \in SUBSET Request : Release(R) /\ UNCHANGED <<phase, cap>>
  \/ \E S \in SUBSET Session, R \in SUBSET Request : End(S) /\ Release(R)

Spec == Init /\ [][Next]_vars
==============================================================================
