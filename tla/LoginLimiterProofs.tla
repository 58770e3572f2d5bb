-------------------------- MODULE LoginLimiterProofs --------------------------
(***************************************************************************)
(* Proofs about LoginLimiter for every policy, any usernames and clients   *)
(* and any finite number of attempts in flight.  The inductive invariant   *)
(* adds to the buckets' own consistency that no instant in use lies ahead  *)
(* of the clock, and that every password verified under a key is counted   *)
(* in its bucket or belongs to an attempt still on its way there.          *)
(***************************************************************************)
EXTENDS LoginLimiter, FiniteSetTheorems, TLAPS

\* Attempts that passed Check under key k and have not been recorded.
InFlight(k) ==
  {a \in Attempt : /\ attempt[a].step \in {"verifying", "wrong", "right"}
                   /\ k \in KeysOfAttempt(a)}

InstantsPast == \A a \in Attempt : attempt[a].now <= clock

TriesCounted ==
  \A k \in Key : tried[k] <= bucket[k].failures + Cardinality(InFlight(k))

IInv ==
  /\ TypeOK
  /\ InstantsPast
  /\ BucketsAgree
  /\ WaitBounded
  /\ TriesCounted
  /\ GuessesBounded

------------------------------------------------------------------------------
(* The policy and the operations on one bucket *)

\* Whatever policy is given, the one in force is usable.
LEMMA PolicyUsable ==
  /\ Free \in Nat \ {0} /\ Lock \in Nat /\ Lock > Free
  /\ Lockout \in Nat \ {0} /\ ThrottleCap \in Nat \ {0}
  BY LimiterAssumption DEF Free, Lock, Lockout, ThrottleCap

\* What BucketsAgree and WaitBounded say of one bucket.
Sound(b, now) ==
  /\ b.failures >= Lock <=> b.lockedUntil # 0
  /\ b.lockedUntil # 0 => b.throttleUntil = 0
  /\ b.throttleUntil # 0 <=> Free < b.failures /\ b.failures < Lock
  /\ b.throttleUntil <= now + ThrottleCap
  /\ b.lockedUntil <= now + Lockout

LEMMA EmptySound ==
  ASSUME NEW t \in Nat
  PROVE  NoBucket \in Bucket /\ Sound(NoBucket, t)
  BY PolicyUsable DEF NoBucket, Bucket, Sound

LEMMA ExpireSound ==
  ASSUME NEW b \in Bucket, NEW t \in Nat, NEW now \in Nat, Sound(b, t)
  PROVE  /\ ExpireBucket(now, b) \in Bucket
         /\ Sound(ExpireBucket(now, b), t)
         /\ ExpireBucket(now, b) \in {b, NoBucket}
         /\ ExpireBucket(now, b).lockedUntil = 0 \/ ExpireBucket(now, b).lockedUntil > now
  BY EmptySound DEF ExpireBucket, NoBucket

\* Counting a failure at an instant not ahead of the clock keeps a bucket
\* sound and never moves a lock that is in force.
LEMMA CountSound ==
  ASSUME NEW b \in Bucket, NEW t \in Nat, NEW now \in Nat, now <= t, Sound(b, t),
         b.lockedUntil = 0 \/ b.lockedUntil > now
  PROVE  /\ Counted(now, b) \in Bucket
         /\ Sound(Counted(now, b), t)
         /\ Counted(now, b).failures = b.failures + 1
         /\ b.lockedUntil # 0 => Counted(now, b).lockedUntil = b.lockedUntil
<1>. DEFINE f == b.failures + 1
            d == Smaller(f - Free, ThrottleCap)
            u == Larger(b.throttleUntil, now + d)
            c == Counted(now, b)
<1>1. /\ b.failures \in Nat /\ b.throttleUntil \in Nat /\ b.lockedUntil \in Nat
  BY DEF Bucket
<1>2. f > Free => /\ d \in Nat \ {0} /\ d <= ThrottleCap
                  /\ u \in Nat \ {0} /\ u <= t + ThrottleCap
  BY <1>1, PolicyUsable DEF Smaller, Larger, Sound
<1>3. /\ c.failures = f
      /\ c.throttleUntil = IF f >= Lock THEN 0
                           ELSE IF f > Free THEN u ELSE b.throttleUntil
      /\ c.lockedUntil = IF f >= Lock /\ b.lockedUntil <= now THEN now + Lockout
                         ELSE b.lockedUntil
      /\ c = [failures |-> c.failures, throttleUntil |-> c.throttleUntil,
              lockedUntil |-> c.lockedUntil]
  BY DEF Counted
<1>. HIDE DEF c, u, d
<1>4. c \in Bucket
  BY <1>1, <1>2, <1>3, PolicyUsable DEF Bucket
<1>5. Sound(c, t)
  BY <1>1, <1>2, <1>3, PolicyUsable DEF Sound
<1>6. b.lockedUntil # 0 => c.lockedUntil = b.lockedUntil
  BY <1>1, <1>3
<1>. QED
  BY <1>3, <1>4, <1>5, <1>6 DEF c

------------------------------------------------------------------------------
(* The keys of an attempt, and the attempts of a key *)

LEMMA KeysAreKeys ==
  ASSUME NEW u \in Username, NEW c \in Client
  PROVE  KeysOf(u, c) \subseteq Key
  BY DEF Key

LEMMA AttemptKeys ==
  ASSUME TypeOK, NEW a \in Attempt
  PROVE  KeysOfAttempt(a) \subseteq Key
  BY KeysAreKeys DEF TypeOK, Login, KeysOfAttempt

LEMMA InFlightFinite ==
  ASSUME NEW k
  PROVE  /\ IsFiniteSet(InFlight(k))
         /\ Cardinality(InFlight(k)) \in Nat
         /\ Cardinality(Attempt) \in Nat
         /\ Cardinality(InFlight(k)) <= Cardinality(Attempt)
<1>1. InFlight(k) \subseteq Attempt /\ IsFiniteSet(Attempt)
  BY LimiterAssumption DEF InFlight
<1>. QED
  BY <1>1, FS_Subset, FS_CardinalityType

\* The bucket-wise reading of the invariant.
LEMMA SoundBuckets ==
  ASSUME TypeOK
  PROVE  BucketsAgree /\ WaitBounded <=> \A k \in Key : Sound(bucket[k], clock)
  BY DEF BucketsAgree, WaitBounded, Sound

------------------------------------------------------------------------------
LEMMA InitIInv == Init => IInv
<1>. SUFFICES ASSUME Init PROVE IInv
  OBVIOUS
<1>1. /\ clock = 0 /\ 0 \in Nat
      /\ bucket = [k \in Key |-> NoBucket] /\ tried = [k \in Key |-> 0]
      /\ \A k \in Key : NoBucket \in Bucket /\ Sound(NoBucket, 0)
  BY EmptySound DEF Init
<1>2. TypeOK
  BY <1>1, LimiterAssumption DEF Init, TypeOK, Login, Step
<1>3. InstantsPast
  BY <1>1 DEF Init, InstantsPast
<1>4. \A k \in Key : Sound(bucket[k], clock)
  BY <1>1
<1>5. TriesCounted /\ GuessesBounded
  <2>1. \A k \in Key : tried[k] = 0 /\ bucket[k].failures = 0
    BY <1>1 DEF NoBucket
  <2>. QED
    BY <2>1, InFlightFinite, PolicyUsable DEF TriesCounted, GuessesBounded
<1>. QED
  BY <1>2, <1>3, <1>4, <1>5, SoundBuckets DEF IInv

\* A step of one attempt that keeps the clock and the instants; what is left
\* to show is about the buckets and the counts.
LEMMA StepIInv ==
  ASSUME IInv, TypeOK', UNCHANGED clock,
         \A a \in Attempt : attempt'[a].now \in {attempt[a].now, clock},
         \A k \in Key : Sound(bucket'[k], clock),
         \A k \in Key : /\ tried'[k] <= bucket'[k].failures + Cardinality(InFlight(k)')
                        /\ tried'[k] <= Lock - 1 + Cardinality(Attempt)
  PROVE  IInv'
<1>1. InstantsPast'
  <2>1. clock \in Nat /\ clock <= clock
    BY LimiterAssumption DEF IInv, TypeOK
  <2>. QED
    BY <2>1 DEF IInv, InstantsPast
<1>2. BucketsAgree' /\ WaitBounded'
  BY DEF BucketsAgree, WaitBounded, Sound
<1>3. TriesCounted' /\ GuessesBounded'
  BY DEF TriesCounted, GuessesBounded
<1>. QED
  BY <1>1, <1>2, <1>3 DEF IInv

\* What the invariant says of one key.
LEMMA KeyFacts ==
  ASSUME IInv, NEW k \in Key
  PROVE  /\ bucket[k] \in Bucket /\ bucket[k].failures \in Nat
         /\ Sound(bucket[k], clock) /\ clock \in Nat
         /\ tried[k] \in Nat
         /\ tried[k] <= bucket[k].failures + Cardinality(InFlight(k))
         /\ tried[k] <= Lock - 1 + Cardinality(Attempt)
  BY SoundBuckets, LimiterAssumption DEF IInv, TypeOK, Bucket, TriesCounted, GuessesBounded

\* How one attempt's move changes the attempts in flight.
LEMMA MoveFlight ==
  ASSUME TypeOK, NEW a \in Attempt, NEW step \in Step, Move(a, step)
  PROVE  /\ attempt' \in [Attempt -> Login]
         /\ \A q \in Attempt : attempt'[q].now = attempt[q].now
         /\ \A k : InFlight(k)' =
              IF step \in {"verifying", "wrong", "right"} /\ k \in KeysOfAttempt(a)
              THEN InFlight(k) \cup {a} ELSE InFlight(k) \ {a}
<1>1. /\ attempt'[a].step = step /\ attempt'[a].user = attempt[a].user
      /\ attempt'[a].client = attempt[a].client /\ attempt'[a].now = attempt[a].now
      /\ attempt'[a] \in Login
      /\ \A q \in Attempt \ {a} : attempt'[q] = attempt[q]
  BY DEF Move, TypeOK, Login
<1>2. attempt' \in [Attempt -> Login]
  BY <1>1 DEF Move, TypeOK
<1>3. ASSUME NEW k
      PROVE  InFlight(k)' =
               IF step \in {"verifying", "wrong", "right"} /\ k \in KeysOfAttempt(a)
               THEN InFlight(k) \cup {a} ELSE InFlight(k) \ {a}
  BY <1>1 DEF InFlight, KeysOfAttempt
<1>. QED
  BY <1>1, <1>2, <1>3

\* Counting one attempt more or less.
LEMMA FlightSize ==
  ASSUME NEW k, NEW a \in Attempt
  PROVE  /\ a \notin InFlight(k) =>
              Cardinality(InFlight(k) \cup {a}) = Cardinality(InFlight(k)) + 1
         /\ a \in InFlight(k) =>
              Cardinality(InFlight(k) \ {a}) = Cardinality(InFlight(k)) - 1
         /\ a \notin InFlight(k) => InFlight(k) \ {a} = InFlight(k)
         /\ a \in InFlight(k) => InFlight(k) \cup {a} = InFlight(k)
<1>1. IsFiniteSet(InFlight(k))
  BY InFlightFinite
<1>. QED
  BY <1>1, FS_AddElement, FS_RemoveElement

LEMMA BeginStep ==
  ASSUME IInv, NEW a \in Attempt, NEW u \in Username, NEW c \in Client, Begin(a, u, c)
  PROVE  IInv'
<1>1. clock \in 0..MaxClock /\ TypeOK
  BY DEF IInv, TypeOK
<1>2. /\ attempt'[a] = [step |-> "started", user |-> u, client |-> c, now |-> clock]
      /\ \A q \in Attempt \ {a} : attempt'[q] = attempt[q]
      /\ attempt[a].step = "idle"
  BY <1>1 DEF Begin, TypeOK
<1>3. TypeOK'
  <2>1. attempt'[a] \in Login
    BY <1>1, <1>2 DEF Login, Step
  <2>. QED
    BY <1>1, <2>1 DEF Begin, TypeOK
<1>4. \A k : InFlight(k)' = InFlight(k)
  BY <1>2 DEF InFlight, KeysOfAttempt
<1>. QED
  BY <1>2, <1>3, <1>4, KeyFacts, StepIInv DEF Begin

LEMMA VerifyStep ==
  ASSUME IInv, NEW a \in Attempt, Verify(a)
  PROVE  IInv'
<1>1. TypeOK /\ attempt[a].step = "verifying"
  BY DEF IInv, Verify
<1>2. PICK step \in {"wrong", "right"} : Move(a, step)
  BY DEF Verify
<1>3. /\ attempt' \in [Attempt -> Login]
      /\ \A q \in Attempt : attempt'[q].now = attempt[q].now
      /\ \A k : InFlight(k)' = IF k \in KeysOfAttempt(a)
                               THEN InFlight(k) \cup {a} ELSE InFlight(k) \ {a}
  BY <1>1, <1>2, MoveFlight DEF Step
<1>4. \A k : InFlight(k)' = InFlight(k)
  <2>1. \A k : a \in InFlight(k) <=> k \in KeysOfAttempt(a)
    BY <1>1 DEF InFlight
  <2>. QED
    BY <1>3, <2>1, FlightSize
<1>5. TypeOK'
  BY <1>1, <1>3 DEF Verify, TypeOK
<1>. QED
  BY <1>3, <1>4, <1>5, KeyFacts, StepIInv DEF Verify

\* A bucket as an attempt finds it once it has been expired, and the tries
\* left of it.
Found(a, k) == ExpireBucket(attempt[a].now, bucket[k])

LeftOf(a, k) ==
  IF Found(a, k) = NoBucket /\ bucket[k] # NoBucket THEN 0 ELSE tried[k]

LEMMA FoundFacts ==
  ASSUME IInv, NEW a \in Attempt, NEW k \in Key
  PROVE  /\ Found(a, k) \in Bucket /\ Found(a, k).failures \in Nat
         /\ Sound(Found(a, k), clock)
         /\ Found(a, k).lockedUntil = 0 \/ Found(a, k).lockedUntil > attempt[a].now
         /\ attempt[a].now \in Nat /\ attempt[a].now <= clock /\ clock \in Nat
         /\ LeftOf(a, k) \in Nat
         /\ LeftOf(a, k) <= Found(a, k).failures + Cardinality(InFlight(k))
         /\ LeftOf(a, k) <= Lock - 1 + Cardinality(Attempt)
<1>1. /\ attempt[a].now \in Nat /\ attempt[a].now <= clock
      /\ bucket[k] \in Bucket /\ clock \in Nat /\ Sound(bucket[k], clock)
  BY KeyFacts DEF IInv, TypeOK, Login, InstantsPast
<1>2. /\ Found(a, k) \in Bucket
      /\ Sound(Found(a, k), clock)
      /\ Found(a, k) \in {bucket[k], NoBucket}
      /\ Found(a, k).lockedUntil = 0 \/ Found(a, k).lockedUntil > attempt[a].now
  BY <1>1, ExpireSound DEF Found
<1>3. Found(a, k).failures \in Nat
  BY <1>2 DEF Bucket
<1>4. /\ LeftOf(a, k) \in Nat
      /\ LeftOf(a, k) <= Found(a, k).failures + Cardinality(InFlight(k))
      /\ LeftOf(a, k) <= Lock - 1 + Cardinality(Attempt)
  BY <1>2, <1>3, KeyFacts, InFlightFinite, PolicyUsable DEF LeftOf
<1>. QED
  BY <1>1, <1>2, <1>3, <1>4

LEMMA CheckStep ==
  ASSUME IInv, NEW a \in Attempt, Check(a)
  PROVE  IInv'
<1>. DEFINE K == KeysOfAttempt(a)
<1>1. /\ TypeOK /\ attempt[a].step = "started" /\ UNCHANGED clock /\ K \subseteq Key
      /\ bucket' = [k \in Key |-> IF k \in K THEN Found(a, k) ELSE bucket[k]]
  BY AttemptKeys DEF IInv, Check, Found
<1>2. \A k \in Key : Sound(bucket'[k], clock) /\ bucket'[k] \in Bucket
  BY <1>1, FoundFacts, KeyFacts
<1>3. \A k : a \notin InFlight(k)
  BY <1>1 DEF InFlight
<1>4. \A k \in Key \ K : tried[k] <= bucket'[k].failures + Cardinality(InFlight(k))
  BY <1>1, KeyFacts
<1>5. CASE /\ Move(a, "refused")
           /\ tried' = [k \in Key |-> IF k \in K THEN LeftOf(a, k) ELSE tried[k]]
  <2>1. /\ attempt' \in [Attempt -> Login]
        /\ \A q \in Attempt : attempt'[q].now = attempt[q].now
        /\ \A k : InFlight(k)' = InFlight(k)
    <3>1. "refused" \in Step /\ "refused" \notin {"verifying", "wrong", "right"}
      BY DEF Step
    <3>2. /\ attempt' \in [Attempt -> Login]
          /\ \A q \in Attempt : attempt'[q].now = attempt[q].now
          /\ \A k : InFlight(k)' = InFlight(k) \ {a}
      BY <1>1, <1>5, <3>1, MoveFlight
    <3>. QED
      BY <1>3, <3>2
  <2>2. TypeOK'
    BY <1>1, <1>2, <1>5, <2>1, FoundFacts DEF TypeOK
  <2>. QED
    BY <1>1, <1>2, <1>4, <1>5, <2>1, <2>2, FoundFacts, KeyFacts, StepIInv
<1>6. CASE /\ \A k \in K : ~Barred(attempt[a].now, Found(a, k))
           /\ Move(a, "verifying")
           /\ tried' = [k \in Key |-> IF k \in K THEN LeftOf(a, k) + 1 ELSE tried[k]]
  <2>1. /\ attempt' \in [Attempt -> Login]
        /\ \A q \in Attempt : attempt'[q].now = attempt[q].now
        /\ \A k : InFlight(k)' = IF k \in K THEN InFlight(k) \cup {a} ELSE InFlight(k)
    <3>1. "verifying" \in Step
      BY DEF Step
    <3>2. /\ attempt' \in [Attempt -> Login]
          /\ \A q \in Attempt : attempt'[q].now = attempt[q].now
          /\ \A k : InFlight(k)' = IF k \in K THEN InFlight(k) \cup {a}
                                   ELSE InFlight(k) \ {a}
      BY <1>1, <1>6, <3>1, MoveFlight
    <3>. QED
      BY <1>3, <3>2
  <2>2. TypeOK'
    BY <1>1, <1>2, <1>6, <2>1, FoundFacts DEF TypeOK
  <2>3. ASSUME NEW k \in K
        PROVE  /\ tried'[k] <= bucket'[k].failures + Cardinality(InFlight(k)')
               /\ tried'[k] <= Lock - 1 + Cardinality(Attempt)
    <3>0. k \in Key
      BY <1>1
    <3>1. /\ tried'[k] = LeftOf(a, k) + 1 /\ bucket'[k] = Found(a, k)
          /\ Cardinality(InFlight(k)') = Cardinality(InFlight(k)) + 1
      BY <1>1, <1>3, <1>6, <2>1, <3>0, FlightSize
    <3>2. Found(a, k).failures < Lock
      <4>1. ~(Found(a, k).lockedUntil > attempt[a].now)
        BY <1>6 DEF Barred
      <4>. QED
        BY <3>0, <4>1, FoundFacts, PolicyUsable DEF Sound
    <3>3. Cardinality(InFlight(k)') <= Cardinality(Attempt)
      <4>1. InFlight(k)' \subseteq Attempt
        BY <2>1 DEF InFlight
      <4>. QED
        BY <4>1, LimiterAssumption, FS_Subset
    <3>. QED
      BY <3>0, <3>1, <3>2, <3>3, FoundFacts, InFlightFinite, PolicyUsable
  <2>4. \A k \in Key \ K :
          /\ tried'[k] <= bucket'[k].failures + Cardinality(InFlight(k)')
          /\ tried'[k] <= Lock - 1 + Cardinality(Attempt)
    BY <1>4, <1>6, <2>1, KeyFacts
  <2>. QED
    BY <1>1, <1>2, <2>1, <2>2, <2>3, <2>4, StepIInv
<1>7. \A k \in Key : TriesLeft(K, bucket')[k] = IF k \in K THEN LeftOf(a, k) ELSE tried[k]
  BY <1>1 DEF TriesLeft, LeftOf
<1>8. \/ Move(a, "refused") /\ tried' = TriesLeft(K, bucket')
      \/ /\ \A k \in K : ~Barred(attempt[a].now, bucket'[k])
         /\ Move(a, "verifying")
         /\ tried' = [k \in Key |-> TriesLeft(K, bucket')[k] + IF k \in K THEN 1 ELSE 0]
  BY <1>1 DEF Check
<1>9. CASE Move(a, "refused") /\ tried' = TriesLeft(K, bucket')
  <2>1. tried' = [k \in Key |-> IF k \in K THEN LeftOf(a, k) ELSE tried[k]]
    BY <1>1, <1>9 DEF TriesLeft, LeftOf
  <2>. QED
    BY <1>5, <1>9, <2>1
<1>10. CASE /\ \A k \in K : ~Barred(attempt[a].now, bucket'[k])
            /\ Move(a, "verifying")
            /\ tried' = [k \in Key |-> TriesLeft(K, bucket')[k] + IF k \in K THEN 1 ELSE 0]
  <2>1. \A k \in K : ~Barred(attempt[a].now, Found(a, k))
    BY <1>1, <1>10
  <2>2. \A k \in Key : tried[k] \in Nat
    BY <1>1 DEF TypeOK
  <2>3. tried' = [k \in Key |-> IF k \in K THEN LeftOf(a, k) + 1 ELSE tried[k]]
    BY <1>7, <1>10, <2>2
  <2>. QED
    BY <1>6, <1>10, <2>1, <2>3
<1>. QED
  BY <1>8, <1>9, <1>10

LEMMA RecordFailureStep ==
  ASSUME IInv, NEW a \in Attempt, RecordFailure(a)
  PROVE  IInv'
<1>. DEFINE K == KeysOfAttempt(a)
            now == attempt[a].now
<1>1. /\ TypeOK /\ attempt[a].step \in {"refused", "wrong"} /\ UNCHANGED clock
      /\ K \subseteq Key /\ Move(a, "idle")
      /\ bucket' = [k \in Key |-> IF k \in K THEN Counted(now, Found(a, k)) ELSE bucket[k]]
      /\ tried' = [k \in Key |-> IF k \in K THEN LeftOf(a, k) ELSE tried[k]]
  BY AttemptKeys DEF IInv, RecordFailure, Found, LeftOf, TriesLeft
<1>2. /\ attempt' \in [Attempt -> Login]
      /\ \A q \in Attempt : attempt'[q].now = attempt[q].now
      /\ \A k : InFlight(k)' = InFlight(k) \ {a}
  <2>1. "idle" \in Step /\ "idle" \notin {"verifying", "wrong", "right"}
    BY DEF Step
  <2>. QED
    BY <1>1, <2>1, MoveFlight
<1>3. ASSUME NEW k \in K
      PROVE  /\ bucket'[k] \in Bucket /\ Sound(bucket'[k], clock)
             /\ tried'[k] \in Nat
             /\ tried'[k] <= bucket'[k].failures + Cardinality(InFlight(k)')
             /\ tried'[k] <= Lock - 1 + Cardinality(Attempt)
  <2>0. k \in Key /\ bucket'[k] = Counted(now, Found(a, k)) /\ tried'[k] = LeftOf(a, k)
    BY <1>1
  <2>1. /\ bucket'[k] \in Bucket /\ Sound(bucket'[k], clock)
        /\ bucket'[k].failures = Found(a, k).failures + 1
    BY <2>0, FoundFacts, CountSound
  <2>2. /\ Cardinality(InFlight(k)') \in Nat
        /\ Cardinality(InFlight(k)') >= Cardinality(InFlight(k)) - 1
    <3>1. PICK F : F = InFlight(k) /\ IsFiniteSet(F)
      BY InFlightFinite
    <3>2. /\ Cardinality(F \ {a}) = IF a \in F THEN Cardinality(F) - 1 ELSE Cardinality(F)
          /\ Cardinality(F \ {a}) \in Nat /\ Cardinality(F) \in Nat
      BY <3>1, FS_RemoveElement, FS_CardinalityType
    <3>. QED
      BY <1>2, <3>1, <3>2
  <2>. QED
    BY <2>0, <2>1, <2>2, FoundFacts, InFlightFinite
<1>4. ASSUME NEW k \in Key \ K
      PROVE  /\ bucket'[k] \in Bucket /\ Sound(bucket'[k], clock)
             /\ tried'[k] \in Nat
             /\ tried'[k] <= bucket'[k].failures + Cardinality(InFlight(k)')
             /\ tried'[k] <= Lock - 1 + Cardinality(Attempt)
  <2>1. a \notin InFlight(k)
    BY DEF InFlight
  <2>. QED
    BY <1>1, <1>2, <2>1, KeyFacts
<1>5. TypeOK'
  BY <1>1, <1>2, <1>3, <1>4 DEF TypeOK
<1>. QED
  BY <1>1, <1>2, <1>3, <1>4, <1>5, StepIInv

LEMMA RecordSuccessStep ==
  ASSUME IInv, NEW a \in Attempt, RecordSuccess(a)
  PROVE  IInv'
<1>. DEFINE K == KeysOfAttempt(a)
<1>1. /\ TypeOK /\ UNCHANGED clock /\ Move(a, "idle")
      /\ bucket' = [k \in Key |-> IF k \in K THEN NoBucket ELSE bucket[k]]
      /\ tried' = [k \in Key |-> IF k \in K THEN 0 ELSE tried[k]]
  BY DEF IInv, RecordSuccess
<1>2. /\ attempt' \in [Attempt -> Login]
      /\ \A q \in Attempt : attempt'[q].now = attempt[q].now
      /\ \A k : InFlight(k)' = InFlight(k) \ {a}
  <2>1. "idle" \in Step /\ "idle" \notin {"verifying", "wrong", "right"}
    BY DEF Step
  <2>. QED
    BY <1>1, <2>1, MoveFlight
<1>3. ASSUME NEW k \in Key
      PROVE  /\ bucket'[k] \in Bucket /\ Sound(bucket'[k], clock)
             /\ tried'[k] \in Nat
             /\ tried'[k] <= bucket'[k].failures + Cardinality(InFlight(k)')
             /\ tried'[k] <= Lock - 1 + Cardinality(Attempt)
  <2>1. CASE k \in K
    <3>1. /\ bucket'[k] = NoBucket /\ tried'[k] = 0
          /\ NoBucket \in Bucket /\ NoBucket.failures = 0 /\ Sound(NoBucket, clock)
      BY <1>1, <2>1, KeyFacts, EmptySound DEF NoBucket
    <3>2. Cardinality(InFlight(k)') \in Nat
      BY <1>2, InFlightFinite, FS_RemoveElement, FS_CardinalityType
    <3>. QED
      BY <3>1, <3>2, InFlightFinite, PolicyUsable
  <2>2. CASE k \notin K
    <3>1. a \notin InFlight(k)
      BY <2>2 DEF InFlight
    <3>. QED
      BY <1>1, <1>2, <2>2, <3>1, KeyFacts
  <2>. QED
    BY <2>1, <2>2
<1>4. TypeOK'
  BY <1>1, <1>2, <1>3 DEF TypeOK
<1>. QED
  BY <1>1, <1>2, <1>3, <1>4, StepIInv

LEMMA RestartStep ==
  ASSUME IInv, Restart
  PROVE  IInv'
<1>1. \A a \in Attempt : /\ attempt'[a] \in Login
                         /\ attempt'[a].now = attempt[a].now
                         /\ attempt'[a].step = "idle"
  BY DEF IInv, TypeOK, Restart, Login, Step
<1>2. /\ clock \in Nat /\ NoBucket \in Bucket
      /\ \A k \in Key : /\ bucket'[k] = NoBucket /\ tried'[k] = 0
                        /\ NoBucket.failures = 0 /\ Sound(NoBucket, clock)
  BY EmptySound, LimiterAssumption DEF IInv, TypeOK, Restart, NoBucket
<1>3. TypeOK'
  BY <1>1, <1>2 DEF IInv, TypeOK, Restart
<1>4. \A k : InFlight(k)' = {}
  BY <1>1 DEF InFlight
<1>. QED
  BY <1>1, <1>2, <1>3, <1>4, InFlightFinite, PolicyUsable, FS_EmptySet, StepIInv DEF Restart

LEMMA TickStep ==
  ASSUME IInv, Tick
  PROVE  IInv'
<1>1. clock \in Nat /\ clock' = clock + 1 /\ clock' \in 0..MaxClock
      /\ UNCHANGED <<bucket, attempt, tried>>
  BY LimiterAssumption DEF IInv, TypeOK, Tick
<1>2. TypeOK'
  BY <1>1 DEF IInv, TypeOK
<1>3. InstantsPast'
  BY <1>1 DEF IInv, InstantsPast, TypeOK, Login
<1>4. BucketsAgree' /\ WaitBounded'
  BY <1>1, PolicyUsable DEF IInv, BucketsAgree, WaitBounded, TypeOK, Bucket
<1>5. TriesCounted' /\ GuessesBounded'
  BY <1>1 DEF IInv, TriesCounted, GuessesBounded, InFlight, KeysOfAttempt
<1>. QED
  BY <1>2, <1>3, <1>4, <1>5 DEF IInv

\* The invariant is preserved by every step.
LEMMA NextIInv == IInv /\ [Next]_vars => IInv'
<1>1. ASSUME IInv, UNCHANGED vars
      PROVE  IInv'
  BY <1>1 DEF IInv, TypeOK, InstantsPast, BucketsAgree, WaitBounded,
     TriesCounted, GuessesBounded, InFlight, KeysOfAttempt, vars
<1>. QED
  BY <1>1, BeginStep, CheckStep, VerifyStep, RecordFailureStep,
     RecordSuccessStep, RestartStep, TickStep DEF Next, Serve

LEMMA Invariance == Spec => []IInv
  BY InitIInv, NextIInv, PTL DEF Spec

------------------------------------------------------------------------------
\* The state always has its type.
THEOREM TypeCorrect == Spec => []TypeOK
  BY Invariance, PTL DEF IInv

\* The fields of a bucket agree for every policy and in every order of calls.
THEOREM BucketsCorrect == Spec => []BucketsAgree
  BY Invariance, PTL DEF IInv

\* No attempt has to wait longer than the policy says.
THEOREM WaitCorrect == Spec => []WaitBounded
  BY Invariance, PTL DEF IInv

\* However many requests race between Check and RecordFailure, the number of
\* passwords verified under one key before its bucket is reset is bounded.
THEOREM GuessesCorrect == Spec => []GuessesBounded
  BY Invariance, PTL DEF IInv

------------------------------------------------------------------------------
(* What a step may not do to a lockout *)

\* A step that expires a bucket or counts a failure in it leaves its lock as
\* it is, unless the attempt's own instant lies past the lock's end.
LEMMA LockKept ==
  ASSUME IInv, NEW a \in Attempt, NEW k \in Key, bucket[k].lockedUntil # 0,
         bucket'[k] \in {bucket[k], Found(a, k), Counted(attempt[a].now, Found(a, k))}
  PROVE  /\ bucket'[k].lockedUntil \in {0, bucket[k].lockedUntil}
         /\ bucket[k].lockedUntil > clock => bucket'[k].lockedUntil # 0
<1>1. /\ bucket[k] \in Bucket /\ bucket[k].lockedUntil \in Nat
      /\ attempt[a].now \in Nat /\ attempt[a].now <= clock /\ clock \in Nat
  BY KeyFacts, FoundFacts DEF Bucket
<1>2. CASE bucket[k].lockedUntil > attempt[a].now
  <2>1. Found(a, k) = bucket[k]
    BY <1>2 DEF Found, ExpireBucket
  <2>2. Counted(attempt[a].now, Found(a, k)).lockedUntil = bucket[k].lockedUntil
    BY <1>1, <1>2, <2>1, FoundFacts, CountSound
  <2>. QED
    BY <2>1, <2>2
<1>3. CASE ~(bucket[k].lockedUntil > attempt[a].now)
  <2>1. Found(a, k) = NoBucket
    BY <1>3 DEF Found, ExpireBucket
  <2>2. Counted(attempt[a].now, NoBucket).lockedUntil = 0
    BY PolicyUsable DEF Counted, NoBucket
  <2>3. NoBucket.lockedUntil = 0
    BY DEF NoBucket
  <2>. QED
    BY <1>1, <1>3, <2>1, <2>2, <2>3
<1>. QED
  BY <1>2, <1>3

\* What each step does to the lock of one bucket.
LEMMA LockStep ==
  ASSUME IInv, [Next]_vars, NEW k \in Key, bucket[k].lockedUntil # 0
  PROVE  \/ bucket'[k] = bucket[k]
         \/ \E a \in Attempt :
              bucket'[k] \in {Found(a, k), Counted(attempt[a].now, Found(a, k))}
         \/ /\ bucket'[k].lockedUntil = 0
            /\ \/ \E a \in Attempt : /\ attempt[a].step = "right"
                                     /\ attempt'[a].step = "idle"
                                     /\ k \in KeysOfAttempt(a)
               \/ Restart
<1>1. CASE UNCHANGED bucket
  BY <1>1
<1>2. ASSUME NEW a \in Attempt, Check(a) \/ RecordFailure(a)
      PROVE  bucket'[k] \in {bucket[k], Found(a, k), Counted(attempt[a].now, Found(a, k))}
  BY <1>2 DEF Check, RecordFailure, Found
<1>3. ASSUME NEW a \in Attempt, RecordSuccess(a)
      PROVE  \/ bucket'[k] = bucket[k]
             \/ /\ bucket'[k].lockedUntil = 0 /\ attempt[a].step = "right"
                /\ attempt'[a].step = "idle" /\ k \in KeysOfAttempt(a)
  BY <1>3 DEF RecordSuccess, NoBucket, Move, IInv, TypeOK
<1>4. ASSUME Restart
      PROVE  bucket'[k].lockedUntil = 0
  BY <1>4 DEF Restart, NoBucket
<1>. QED
  BY <1>1, <1>2, <1>3, <1>4 DEF Next, Serve, Begin, Verify, Tick, vars

\* Attempts during a lockout never prolong it, whatever the order in which
\* they reach the limiter.
THEOREM LockoutCorrect == Spec => LockoutNotExtended
<1>1. ASSUME IInv, [Next]_vars, NEW k \in Key, bucket[k].lockedUntil # 0
      PROVE  bucket'[k].lockedUntil \in {0, bucket[k].lockedUntil}
  BY <1>1, LockStep, LockKept
<1>2. IInv /\ [Next]_vars =>
        [\A k \in Key : bucket[k].lockedUntil # 0 =>
           bucket'[k].lockedUntil \in {0, bucket[k].lockedUntil}]_vars
  BY <1>1
<1>. QED
  BY <1>2, Invariance, PTL DEF Spec, LockoutNotExtended

\* Only the right password, or a restart, lifts a lockout early.
THEOREM EarlyUnlockCorrect == Spec => EarlyUnlockNeedsPassword
<1>1. ASSUME IInv, [Next]_vars, NEW k \in Key,
             bucket[k].lockedUntil > clock, bucket'[k].lockedUntil = 0
      PROVE  \/ \E a \in Attempt : /\ attempt[a].step = "right"
                                   /\ attempt'[a].step = "idle"
                                   /\ k \in KeysOfAttempt(a)
             \/ Restart
  <2>1. bucket[k].lockedUntil # 0
    BY <1>1, LimiterAssumption DEF IInv, TypeOK
  <2>. QED
    BY <1>1, <2>1, LockStep, LockKept
<1>2. IInv /\ [Next]_vars =>
        [\A k \in Key : bucket[k].lockedUntil > clock /\ bucket'[k].lockedUntil = 0 =>
           \/ \E a \in Attempt : /\ attempt[a].step = "right"
                                 /\ attempt'[a].step = "idle"
                                 /\ k \in KeysOfAttempt(a)
           \/ Restart]_vars
  BY <1>1
<1>. QED
  BY <1>2, Invariance, PTL DEF Spec, EarlyUnlockNeedsPassword
==============================================================================
