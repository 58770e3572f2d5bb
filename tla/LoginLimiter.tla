----------------------------- MODULE LoginLimiter -----------------------------
(***************************************************************************)
(* The in-process throttle and lockout of POST /login: loginAttemptLimiter *)
(* and loginPost in internal/server/server.go.                             *)
(*                                                                         *)
(* One attempt takes the limiter's mutex twice: in Check, and again in     *)
(* RecordFailure or RecordSuccess once the slow password hash has been     *)
(* verified.  Both use the instant the attempt read on entry, so the       *)
(* limiter sees instants out of order.  The clock is Go's monotonic clock, *)
(* counted in seconds; the zero time is 0.                                 *)
(***************************************************************************)
EXTENDS Integers, FiniteSets

CONSTANTS
  Username, Client,  \* as loginAttemptKeys normalises them
  Owner,             \* the configured username
  Attempt,           \* goroutines serving POST /login
  FreeFailures, LockFailures, LockoutDuration, MaxThrottle,  \* the policy given
  MaxClock,          \* bound: the clock stays in 0..MaxClock
  MaxFailures        \* bound: no attempt starts on a bucket with this many

\* newLoginAttemptLimiter's replacement of unusable policy values.
Free == IF FreeFailures <= 0 THEN 5 ELSE FreeFailures

Lock == IF LockFailures <= Free THEN Free + 5 ELSE LockFailures

Lockout == IF LockoutDuration <= 0 THEN 15 * 60 ELSE LockoutDuration

ThrottleCap == IF MaxThrottle <= 0 THEN 30 ELSE MaxThrottle

ASSUME LimiterAssumption ==
  /\ Owner \in Username
  /\ {FreeFailures, LockFailures, LockoutDuration, MaxThrottle} \subseteq Int
  /\ MaxClock \in Nat /\ MaxFailures \in Nat
  /\ IsFiniteSet(Attempt)

VARIABLES
  clock,    \* s.now()
  bucket,   \* l.buckets; a missing bucket is the zero bucket
  attempt,  \* the login requests in flight
  tried     \* history: passwords verified under a key since it was last reset

vars == <<clock, bucket, attempt, tried>>

KeysOf(u, c) == {<<"username", u>>, <<"client", c>>, <<"pair", u, c>>}

Key == UNION {KeysOf(u, c) : u \in Username, c \in Client}

Bucket == [failures: Nat, throttleUntil: Nat, lockedUntil: Nat]

NoBucket == [failures |-> 0, throttleUntil |-> 0, lockedUntil |-> 0]

\* "refused" has been turned away by Check, "wrong" by the password.
Step == {"idle", "started", "verifying", "refused", "wrong", "right"}

Login == [step: Step, user: Username, client: Client, now: 0..MaxClock]

TypeOK ==
  /\ clock \in 0..MaxClock
  /\ bucket \in [Key -> Bucket]
  /\ attempt \in [Attempt -> Login]
  /\ tried \in [Key -> Nat]

Init ==
  /\ clock = 0
  /\ bucket = [k \in Key |-> NoBucket]
  /\ \E c \in Client :
       attempt = [a \in Attempt |-> [step |-> "idle", user |-> Owner,
                                     client |-> c, now |-> 0]]
  /\ tried = [k \in Key |-> 0]

------------------------------------------------------------------------------
(* The limiter *)

KeysOfAttempt(a) == KeysOf(attempt[a].user, attempt[a].client)

\* Mutant: the end of the throttle is taken for that of the lockout.
ExpireBucket_ByThrottle(now, b) ==
  IF b.lockedUntil = 0 \/ b.throttleUntil > now THEN b ELSE NoBucket

ExpireBucket(now, b) ==
  IF b.lockedUntil = 0 \/ b.lockedUntil > now THEN b ELSE NoBucket

Barred(now, b) == b.throttleUntil > now \/ b.lockedUntil > now

Smaller(x, y) == IF x < y THEN x ELSE y

Larger(x, y) == IF x > y THEN x ELSE y

\* Mutant: reaching the threshold leaves the throttle in place.
Counted_StillThrottled(now, b) ==
  LET failures == b.failures + 1 IN
  [failures |-> failures,
   throttleUntil |-> IF failures > Free
                     THEN Larger(b.throttleUntil, now + Smaller(failures - Free, ThrottleCap))
                     ELSE b.throttleUntil,
   lockedUntil |-> IF failures >= Lock /\ b.lockedUntil <= now THEN now + Lockout
                   ELSE b.lockedUntil]

\* Mutant: every failure at or past the threshold locks anew.
Counted_Relocks(now, b) ==
  LET failures == b.failures + 1 IN
  [failures |-> failures,
   throttleUntil |-> IF failures >= Lock THEN 0
                     ELSE IF failures > Free
                     THEN Larger(b.throttleUntil, now + Smaller(failures - Free, ThrottleCap))
                     ELSE b.throttleUntil,
   lockedUntil |-> IF failures >= Lock THEN now + Lockout ELSE b.lockedUntil]

\* Mutant: the delay is not capped.
Counted_Uncapped(now, b) ==
  LET failures == b.failures + 1 IN
  [failures |-> failures,
   throttleUntil |-> IF failures >= Lock THEN 0
                     ELSE IF failures > Free
                     THEN Larger(b.throttleUntil, now + (failures - Free))
                     ELSE b.throttleUntil,
   lockedUntil |-> IF failures >= Lock /\ b.lockedUntil <= now THEN now + Lockout
                   ELSE b.lockedUntil]

\* One more failure at instant now in a bucket that has been expired.
Counted(now, b) ==
  LET failures == b.failures + 1
      delay == Smaller(failures - Free, ThrottleCap)
  IN
  [failures |-> failures,
   throttleUntil |->
     IF failures >= Lock THEN 0
     ELSE IF failures > Free THEN Larger(b.throttleUntil, now + delay)
     ELSE b.throttleUntil,
   lockedUntil |->
     IF failures >= Lock /\ b.lockedUntil <= now THEN now + Lockout
     ELSE b.lockedUntil]

Move(a, step) == attempt' = [attempt EXCEPT ![a].step = step]

\* History: what tried becomes when the buckets of keys K become b.
TriesLeft(K, b) ==
  [k \in Key |-> IF k \in K /\ b[k] = NoBucket /\ bucket[k] # NoBucket
                 THEN 0 ELSE tried[k]]

------------------------------------------------------------------------------
(* loginPost *)

\* The request is parsed, its form token accepted and the clock read.
Begin(a, u, c) ==
  /\ attempt[a].step = "idle"
  /\ \A k \in KeysOf(u, c) : bucket[k].failures < MaxFailures
  /\ attempt' = [attempt EXCEPT ![a] =
       [step |-> "started", user |-> u, client |-> c, now |-> clock]]
  /\ UNCHANGED <<clock, bucket, tried>>

\* Check drops the buckets that expired and merges the status of the rest.
Check(a) ==
  LET now == attempt[a].now
      K == KeysOfAttempt(a)
      b == [k \in Key |-> IF k \in K THEN ExpireBucket(now, bucket[k])
                          ELSE bucket[k]]
      barred == \E k \in K : Barred(now, b[k])
      left == TriesLeft(K, b)
  IN
  /\ attempt[a].step = "started"
  /\ bucket' = b
  /\ \/ barred /\ Move(a, "refused") /\ tried' = left
     \/ /\ ~barred
        /\ Move(a, "verifying")
        /\ tried' = [k \in Key |-> left[k] + IF k \in K THEN 1 ELSE 0]
  /\ UNCHANGED clock

\* loginAuth.authorize: no lock is held while the hash is computed.
Verify(a) ==
  /\ attempt[a].step = "verifying"
  /\ \/ Move(a, "wrong")
     \/ attempt[a].user = Owner /\ Move(a, "right")
  /\ UNCHANGED <<clock, bucket, tried>>

\* Mutant: only the pair of username and client is counted.
RecordFailure_PairOnly(a) ==
  LET now == attempt[a].now
      k == <<"pair", attempt[a].user, attempt[a].client>>
      expired == [bucket EXCEPT ![k] = ExpireBucket(now, @)]
  IN
  /\ attempt[a].step \in {"refused", "wrong"}
  /\ bucket' = [expired EXCEPT ![k] = Counted(now, @)]
  /\ tried' = TriesLeft({k}, expired)
  /\ Move(a, "idle")
  /\ UNCHANGED clock

\* An attempt that Check refused counts like one with a wrong password.
RecordFailure(a) ==
  LET now == attempt[a].now
      K == KeysOfAttempt(a)
      expired == [k \in Key |-> IF k \in K THEN ExpireBucket(now, bucket[k])
                                ELSE bucket[k]]
  IN
  /\ attempt[a].step \in {"refused", "wrong"}
  /\ bucket' = [k \in Key |-> IF k \in K THEN Counted(now, expired[k])
                              ELSE bucket[k]]
  /\ tried' = TriesLeft(K, expired)
  /\ Move(a, "idle")
  /\ UNCHANGED clock

\* The session is then created (module SessionStore).
RecordSuccess(a) ==
  /\ attempt[a].step = "right"
  /\ bucket' = [k \in Key |-> IF k \in KeysOfAttempt(a) THEN NoBucket
                              ELSE bucket[k]]
  /\ tried' = [k \in Key |-> IF k \in KeysOfAttempt(a) THEN 0 ELSE tried[k]]
  /\ Move(a, "idle")
  /\ UNCHANGED clock

\* The limiter lives in memory: a restart forgets it.
Restart ==
  /\ bucket' = [k \in Key |-> NoBucket]
  /\ attempt' = [a \in Attempt |-> [attempt[a] EXCEPT !.step = "idle"]]
  /\ tried' = [k \in Key |-> 0]
  /\ UNCHANGED clock

Tick ==
  /\ clock < MaxClock
  /\ clock' = clock + 1
  /\ UNCHANGED <<bucket, attempt, tried>>

Serve(a) ==
  \/ \E u \in Username, c \in Client : Begin(a, u, c)
  \/ Check(a)
  \/ Verify(a)
  \/ RecordFailure(a)
  \/ RecordSuccess(a)

Next == (\E a \in Attempt : Serve(a)) \/ Restart \/ Tick

Spec == Init /\ [][Next]_vars

------------------------------------------------------------------------------
(* Properties *)

\* The three fields of a bucket agree: exactly the buckets that reached the
\* lock threshold are locked, a locked one is not also throttled, and one
\* between the thresholds has been throttled.  An instant that arrives late
\* does not bring a bucket into a half-reset form.
BucketsAgree ==
  \A k \in Key :
    LET b == bucket[k] IN
    /\ b.failures >= Lock <=> b.lockedUntil # 0
    /\ b.lockedUntil # 0 => b.throttleUntil = 0
    /\ b.throttleUntil # 0 <=> Free < b.failures /\ b.failures < Lock

\* Attempts made during a lockout are counted but never prolong it.
LockoutNotExtended ==
  [][\A k \in Key : bucket[k].lockedUntil # 0 =>
       bucket'[k].lockedUntil \in {0, bucket[k].lockedUntil}]_vars

\* Nobody is kept waiting longer than the policy says from now on: once no
\* attempt arrives, a password is looked at again after Lockout at most.
WaitBounded ==
  \A k \in Key : /\ bucket[k].throttleUntil <= clock + ThrottleCap
                 /\ bucket[k].lockedUntil <= clock + Lockout

\* While the process runs, a lockout is lifted before its time only by an
\* attempt that completes with the right password under the locked key; no
\* late instant of another attempt does it.
EarlyUnlockNeedsPassword ==
  [][\A k \in Key : bucket[k].lockedUntil > clock /\ bucket'[k].lockedUntil = 0 =>
       \/ \E a \in Attempt : /\ attempt[a].step = "right"
                             /\ attempt'[a].step = "idle"
                             /\ k \in KeysOfAttempt(a)
       \/ Restart]_vars

\* Requests that overtake each other between Check and RecordFailure get in
\* more guesses than the threshold, but never more than one per request in
\* flight.
GuessesBounded == \A k \in Key : tried[k] <= Lock - 1 + Cardinality(Attempt)
==============================================================================
