----------------------------- MODULE IpApiProofs ----------------------------
(***************************************************************************)
(* Proofs about RateLimiter, for every rate, period and number of callers; *)
(* and about IpApi, which draws from it, for any number of retries.        *)
(***************************************************************************)
EXTENDS IpApi, FiniteSetTheorems, WellFoundedInduction, TLAPS

(* What is granted and what could be granted now never exceed a full       *)
(* bucket and what the window brought.                                     *)
Potential == Token * granted + Refill <= Capacity + Num * window

IInv == TypeOK /\ Potential
-----------------------------------------------------------------------------
LEMMA ConstantFacts ==
  /\ Token \in Nat \ {0} /\ Capacity \in Nat \ {0}
  /\ Num \in Nat \ {0} /\ Per \in Nat \ {0}
  /\ MaxCalls \in Nat /\ MaxWindow \in Nat
  /\ Capacity = Num * Per
<1>1. \A a, b \in Nat \ {0} : a * b \in Nat \ {0}
  OBVIOUS
<1>2. QED
  BY <1>1, RateLimiterAssumption DEF Token, Capacity

LEMMA LeastFacts ==
  ASSUME NEW a \in Int, NEW b \in Int
  PROVE  /\ Least(a, b) \in {a, b} /\ Least(a, b) <= a /\ Least(a, b) <= b
BY DEF Least

(* A refill stays within the bucket.                                       *)
LEMMA RefillFacts ==
  ASSUME TypeOK
  PROVE  /\ elapsed * Num \in Nat /\ Refill \in 0..Capacity
         /\ Refill = IF Capacity <= tokens + elapsed * Num
                     THEN Capacity ELSE tokens + elapsed * Num
<1>1. elapsed \in Nat /\ tokens \in Nat
  BY ConstantFacts DEF TypeOK
<1>2. elapsed * Num \in Nat
  BY <1>1, ConstantFacts
<1>3. QED
  BY <1>1, <1>2, ConstantFacts DEF Refill, Least

LEMMA InitIInv == Init => IInv
<1> SUFFICES ASSUME Init PROVE IInv
  OBVIOUS
<1>1. TypeOK
  BY ConstantFacts DEF Init, TypeOK
<1>2. Refill <= Capacity
  BY <1>1, RefillFacts, ConstantFacts
<1>3. Token * granted = 0 /\ Num * window = 0
  BY ConstantFacts DEF Init
<1>4. Potential
  BY <1>1, <1>2, <1>3, RefillFacts, ConstantFacts DEF Potential
<1>5. QED
  BY <1>1, <1>4 DEF IInv

(* A granted call moves one token from the bucket to the window's count.   *)
LEMMA GrantsIInv ==
  ASSUME IInv, NEW c \in Callers, Grants(c), calls' \in [Callers -> 0..MaxCalls]
  PROVE  IInv'
<1> USE ConstantFacts
<1>1. Refill \in 0..Capacity
  BY RefillFacts DEF IInv
<1>2. TypeOK'
  <2>1. tokens' \in 0..Capacity
    BY <1>1 DEF Grants
  <2>2. elapsed' \in 0..Per /\ granted' \in Nat
    BY DEF IInv, TypeOK, Grants
  <2>3. stage' \in [Callers -> {"idle", "asleep"}]
    BY DEF IInv, TypeOK, Grants
  <2>4. left' \in [Callers -> Nat] /\ window' \in 0..MaxWindow
    BY DEF IInv, TypeOK, Grants
  <2>5. QED
    BY <2>1, <2>2, <2>3, <2>4 DEF TypeOK
<1>3. Refill' = tokens' /\ tokens' = Refill - Token
  <2>1. tokens' = Refill - Token /\ elapsed' * Num = 0
    BY DEF Grants
  <2>2. tokens' \in Int /\ tokens' <= Capacity
    BY <1>1, <2>1
  <2>3. QED
    BY <2>1, <2>2 DEF Refill, Least
<1>4. Token * granted' = Token * granted + Token
  <2>1. granted \in Nat /\ granted' = granted + 1
    BY DEF IInv, TypeOK, Grants
  <2>2. \A a, b \in Nat : a * (b + 1) = a * b + a
    OBVIOUS
  <2>3. QED
    BY <2>1, <2>2
<1>5. Token * granted \in Nat /\ Num * window \in Nat
  BY DEF IInv, TypeOK
<1>6. Potential'
  BY <1>1, <1>3, <1>4, <1>5 DEF IInv, Potential, Grants
<1>7. QED
  BY <1>2, <1>6 DEF IInv

LEMMA SleepsIInv ==
  ASSUME IInv, NEW c \in Callers, Sleeps(c), calls' \in [Callers -> 0..MaxCalls]
  PROVE  IInv'
<1> USE ConstantFacts
<1>1. Refill \in 0..Capacity
  BY RefillFacts DEF IInv
<1>2. SleepTime(Refill) \in Nat
  <2>1. Token - Refill + Num - 1 \in Nat
    BY <1>1 DEF Sleeps
  <2>2. \A a \in Nat, b \in Nat \ {0} : a \div b \in Nat
    OBVIOUS
  <2>3. QED
    BY <2>1, <2>2 DEF SleepTime
<1>3. TypeOK'
  <2>1. tokens' \in 0..Capacity
    BY <1>1 DEF Sleeps
  <2>2. elapsed' \in 0..Per /\ granted' \in Nat
    BY DEF IInv, TypeOK, Sleeps
  <2>3. stage' \in [Callers -> {"idle", "asleep"}]
    BY DEF IInv, TypeOK, Sleeps
  <2>4. left' \in [Callers -> Nat] /\ window' \in 0..MaxWindow
    BY <1>2 DEF IInv, TypeOK, Sleeps
  <2>5. QED
    BY <2>1, <2>2, <2>3, <2>4 DEF TypeOK
<1>4. Refill' = Refill
  <2>1. tokens' = Refill /\ elapsed' * Num = 0
    BY DEF Sleeps
  <2>2. QED
    BY <1>1, <2>1 DEF Refill, Least
<1>5. Potential'
  BY <1>4 DEF IInv, Potential, Sleeps
<1>6. QED
  BY <1>3, <1>5 DEF IInv

(* A tick brings at most Num to the bucket, and Num to the window.         *)
LEMMA TickIInv ==
  ASSUME IInv, Tick
  PROVE  IInv'
<1> USE ConstantFacts
<1>1. /\ elapsed \in Nat /\ tokens \in Nat /\ window \in Nat /\ granted \in Nat
      /\ elapsed * Num \in Nat /\ Refill \in 0..Capacity
  BY RefillFacts DEF IInv, TypeOK
<1>2. TypeOK'
  <2>1. elapsed' \in 0..Per
    BY <1>1 DEF Tick, Least, IInv, TypeOK
  <2>2. left' \in [Callers -> Nat]
    BY DEF Tick, IInv, TypeOK
  <2>3. window' \in 0..MaxWindow
    BY DEF Tick, IInv, TypeOK
  <2>4. QED
    BY <2>1, <2>2, <2>3 DEF Tick, IInv, TypeOK
<1>3. \A a, b \in Nat : (a + 1) * b = a * b + b /\ b * (a + 1) = b * a + b
  OBVIOUS
<1>4. elapsed' * Num <= elapsed * Num + Num /\ elapsed' * Num \in Nat
  <2>1. CASE elapsed' = elapsed + 1
    BY <1>1, <1>3, <2>1
  <2>2. CASE elapsed' = Per /\ Per <= elapsed + 1
    <3>1. elapsed = Per \/ elapsed + 1 = Per
      BY <1>1, <2>2 DEF IInv, TypeOK
    <3>2. QED
      BY <1>1, <1>3, <2>2, <3>1
  <2>3. QED
    BY <1>1, <2>1, <2>2 DEF Tick, Least
<1>5. Refill' <= Refill + Num
  BY <1>1, <1>4 DEF Tick, Refill, Least
<1>6. Num * window' = Num * window + Num
  BY <1>1, <1>3 DEF Tick
<1>7. Token * granted \in Nat /\ Num * window \in Nat /\ Refill' \in Int
  <2>1. Refill' \in Int
    BY <1>2, RefillFacts, <1>1, <1>4 DEF Refill, Least, Tick
  <2>2. QED
    BY <1>1, <2>1
<1>8. Potential'
  <2> DEFINE g == Token * granted
             w == Num * window
             r == Refill
             r1 == Refill'
  <2>1. g + r <= Capacity + w
    BY DEF IInv, Potential
  <2>2. g \in Int /\ w \in Int /\ r \in Int /\ r1 \in Int /\ r1 <= r + Num
    BY <1>1, <1>5, <1>7
  <2> HIDE DEF g, w, r, r1
  <2>3. g + r1 <= Capacity + (w + Num)
    BY <2>1, <2>2
  <2>4. Token * granted + Refill' <= Capacity + (Num * window + Num)
    BY <2>3 DEF g, w, r1
  <2>5. granted' = granted
    BY DEF Tick
  <2>6. QED
    BY <1>6, <2>4, <2>5 DEF Potential
<1>9. QED
  BY <1>2, <1>8 DEF IInv

LEMMA NextIInv == IInv /\ [Next]_vars => IInv'
<1> SUFFICES ASSUME IInv, [Next]_vars PROVE IInv'
  OBVIOUS
<1> USE ConstantFacts
<1>1. ASSUME NEW c \in Callers, Acquire(c)
      PROVE  IInv'
  <2>1. calls' \in [Callers -> 0..MaxCalls]
    BY <1>1 DEF Acquire, IInv, TypeOK
  <2>2. QED
    BY <1>1, <2>1, GrantsIInv, SleepsIInv DEF Acquire
<1>2. ASSUME NEW c \in Callers, Wake(c)
      PROVE  IInv'
  <2>1. calls' \in [Callers -> 0..MaxCalls]
    BY <1>2 DEF Wake, IInv, TypeOK
  <2>2. QED
    BY <1>2, <2>1, GrantsIInv, SleepsIInv DEF Wake
<1>3. CASE Tick
  BY <1>3, TickIInv
<1>4. CASE OpenWindow
  <2>1. TypeOK'
    BY <1>4 DEF OpenWindow, IInv, TypeOK
  <2>2. Refill' = Refill
    BY <1>4 DEF OpenWindow, Refill
  <2>3. Token * granted' = 0 /\ Num * window' = 0
    BY <1>4 DEF OpenWindow
  <2>4. Refill \in 0..Capacity
    BY RefillFacts DEF IInv
  <2>5. Potential'
    BY <2>2, <2>3, <2>4 DEF Potential
  <2>6. QED
    BY <2>1, <2>5 DEF IInv
<1>5. CASE UNCHANGED vars
  BY <1>5 DEF vars, IInv, TypeOK, Potential, Refill
<1>6. QED
  BY <1>1, <1>2, <1>3, <1>4, <1>5 DEF Next

LEMMA IInvAlways == Spec => []IInv
  BY InitIInv, NextIInv, PTL DEF Spec

(* The bucket's variables stay within their types: in particular it never  *)
(* holds more than its capacity nor less than nothing (ratelimit.py).      *)
THEOREM TypeCorrect == Spec => []TypeOK
<1>1. IInv => TypeOK
  BY DEF IInv
<1>2. QED
  BY <1>1, IInvAlways, PTL

(* Whatever the rate and however many callers wait, a stretch of time sees *)
(* no more calls granted than a full bucket and its refill.                *)
THEOREM BurstBoundAlways == Spec => []BurstBound
<1>1. IInv => BurstBound
  <2> SUFFICES ASSUME IInv PROVE BurstBound
    OBVIOUS
  <2>1. Refill \in 0..Capacity
    BY RefillFacts DEF IInv
  <2>2. Token * granted \in Nat /\ Num * window \in Nat
    BY ConstantFacts DEF IInv, TypeOK
  <2>3. QED
    BY <2>1, <2>2, ConstantFacts DEF IInv, Potential, BurstBound
<1>2. QED
  BY <1>1, IInvAlways, PTL
-----------------------------------------------------------------------------
(* The retries the requests under way still have: one pair each.           *)
RetriesLeft ==
  {q \in Callers \X (1..Retries) :
     phase[q[1]] \in {"sending", "backoff"} /\ attempt[q[1]] < q[2]}

HttpTypes ==
  /\ phase \in [Callers -> {"idle", "limiter", "sending", "backoff"}]
  /\ attempt \in [Callers -> 0..Retries]
  /\ \A c \in Callers : phase[c] = "backoff" => attempt[c] < Retries
  /\ limited \in BOOLEAN
  /\ sent \in Nat

(* A granted call is paid for with its request and its retries, sent or    *)
(* left; the retries of each caller are granted once more, for what was    *)
(* under way when the window opened.                                       *)
Account ==
  limited => sent + Cardinality(RetriesLeft)
               <= (1 + Retries) * granted + Retries * Cardinality(Callers)

ApiIInv == HttpTypes /\ Account
-----------------------------------------------------------------------------
(* Every step of the lookups is one of the limiter, or leaves it alone.    *)
LEMMA StepsOfLimiter == [ApiNext]_apiVars => [Next]_vars
<1> SUFFICES ASSUME [ApiNext]_apiVars PROVE [Next]_vars
  OBVIOUS
<1>1. ASSUME NEW c \in Callers,
             AsksLimiter(c) \/ Wakes(c)
      PROVE  Next
  BY <1>1 DEF AsksLimiter, Wakes, Next
<1>2. ASSUME NEW c \in Callers,
             \/ LocalHit(c) \/ Unlimited(c) \/ Retry(c)
             \/ Answered(c) \/ BacksOff(c) \/ Exhausted(c)
      PROVE  UNCHANGED vars
  BY <1>2 DEF LocalHit, Unlimited, Retry, Answered, BacksOff, Exhausted
<1>3. ApiTick \/ ApiWindow => Next
  BY DEF ApiTick, ApiWindow, Next
<1>4. UNCHANGED apiVars => UNCHANGED vars
  BY DEF apiVars
<1>5. QED
  BY <1>1, <1>2, <1>3, <1>4 DEF ApiNext, Resumes, Responds

(* The lookups use the limiter as it is meant to be used: whatever holds   *)
(* of it holds under them.                                                 *)
THEOREM UsesLimiter == ApiSpec => Spec
<1>1. ApiInit => Init
  BY DEF ApiInit
<1>2. QED
  BY <1>1, StepsOfLimiter, PTL DEF ApiSpec, Spec

(* However lookups, retries and backoffs interleave, a stretch of time     *)
(* sees no more calls granted than a full bucket and its refill.           *)
THEOREM LookupsInBounds == ApiSpec => []BurstBound
BY UsesLimiter, BurstBoundAlways, PTL
-----------------------------------------------------------------------------
LEMMA LeftFacts ==
  /\ IsFiniteSet(RetriesLeft) /\ Cardinality(RetriesLeft) \in Nat
  /\ Cardinality(RetriesLeft) <= Retries * Cardinality(Callers)
<1>1. IsFiniteSet(1..Retries) /\ Cardinality(1..Retries) = Retries
  BY FS_Interval, IpApiAssumption
<1>2. /\ IsFiniteSet(Callers \X (1..Retries))
      /\ Cardinality(Callers \X (1..Retries)) = Cardinality(Callers) * Retries
  BY <1>1, FS_Product, IpApiAssumption
<1>3. RetriesLeft \subseteq Callers \X (1..Retries)
  BY DEF RetriesLeft
<1>4. Cardinality(RetriesLeft) <= Cardinality(Callers) * Retries
  BY <1>2, <1>3, FS_Subset
<1>5. Cardinality(Callers) * Retries = Retries * Cardinality(Callers)
  BY FS_CardinalityType, IpApiAssumption
<1>6. QED
  BY <1>2, <1>3, <1>4, <1>5, FS_Subset, FS_CardinalityType

(* The bounds of the account are numbers.                                  *)
LEMMA AccountFacts ==
  ASSUME NEW g \in Nat
  PROVE  /\ (1 + Retries) * g \in Nat /\ Retries * Cardinality(Callers) \in Nat
         /\ (1 + Retries) * (g + 1) = (1 + Retries) * g + 1 + Retries
<1>1. Cardinality(Callers) \in Nat
  BY FS_CardinalityType, IpApiAssumption
<1>2. Retries \in Nat
  BY IpApiAssumption
<1>3. \A a, b \in Nat : a * b \in Nat /\ a * (b + 1) = a * b + a
  OBVIOUS
<1>4. QED
  BY <1>1, <1>2, <1>3

(* A set that only loses pairs does not grow.                              *)
LEMMA LeftShrinks ==
  ASSUME RetriesLeft' \subseteq RetriesLeft
  PROVE  Cardinality(RetriesLeft') <= Cardinality(RetriesLeft)
BY LeftFacts, FS_Subset

(* A first request, if granted just now, brings its retries with it.       *)
LEMMA SendsAccount ==
  ASSUME ApiIInv, NEW c \in Callers, phase[c] \in {"idle", "limiter"}, Sends(c),
         granted \in Nat, limited => granted' = granted + 1
  PROVE  ApiIInv'
<1>1. HttpTypes'
  BY IpApiAssumption DEF ApiIInv, HttpTypes, Sends, modeVars
<1>2. Account'
  <2> SUFFICES ASSUME limited
               PROVE  sent' + Cardinality(RetriesLeft')
                        <= (1 + Retries) * granted' + Retries * Cardinality(Callers)
    BY DEF Account, Sends, modeVars
  <2> DEFINE Own == {c} \X (1..Retries)
  <2>1. RetriesLeft' \subseteq RetriesLeft \cup Own
    BY DEF RetriesLeft, Sends, ApiIInv, HttpTypes
  <2>2. IsFiniteSet(Own) /\ Cardinality(Own) = Retries
    <3>1. IsFiniteSet(1..Retries) /\ Cardinality(1..Retries) = Retries
      BY FS_Interval, IpApiAssumption
    <3>2. IsFiniteSet({c}) /\ Cardinality({c}) = 1
      BY FS_Singleton
    <3>3. /\ IsFiniteSet(Own)
          /\ Cardinality(Own) = Cardinality({c}) * Cardinality(1..Retries)
      BY <3>1, <3>2, FS_Product
    <3>4. 1 * Retries = Retries
      BY IpApiAssumption
    <3>5. QED
      BY <3>1, <3>2, <3>3, <3>4
  <2> HIDE DEF Own
  <2>3. /\ IsFiniteSet(RetriesLeft \cup Own)
        /\ Cardinality(RetriesLeft \cup Own)
             = Cardinality(RetriesLeft) + Retries - Cardinality(RetriesLeft \cap Own)
    BY <2>2, LeftFacts, FS_Union
  <2>4. Cardinality(RetriesLeft \cap Own) \in Nat
    BY LeftFacts, FS_Intersection, FS_CardinalityType
  <2>5. Cardinality(RetriesLeft') <= Cardinality(RetriesLeft \cup Own)
    BY <2>1, <2>3, FS_Subset
  <2>6. Cardinality(RetriesLeft') <= Cardinality(RetriesLeft) + Retries
    <3>1. Cardinality(RetriesLeft') \in Nat
      BY <2>1, <2>3, FS_Subset, FS_CardinalityType
    <3>2. QED
      BY <2>3, <2>4, <2>5, <3>1, LeftFacts, IpApiAssumption
  <2>7. Cardinality(RetriesLeft') \in Nat
    BY <2>1, <2>3, FS_Subset, FS_CardinalityType
  <2>8. granted' = granted + 1 /\ sent' = sent + 1
    BY DEF Sends
  <2>9. sent + Cardinality(RetriesLeft)
          <= (1 + Retries) * granted + Retries * Cardinality(Callers)
    BY DEF ApiIInv, Account
  <2>10. sent \in Nat
    BY DEF ApiIInv, HttpTypes
  <2>11. /\ (1 + Retries) * granted \in Nat /\ Retries * Cardinality(Callers) \in Nat
         /\ (1 + Retries) * granted' = (1 + Retries) * granted + 1 + Retries
    BY <2>8, AccountFacts
  <2>12. QED
    BY <2>6, <2>7, <2>8, <2>9, <2>10, <2>11, LeftFacts, IpApiAssumption
<1>3. QED
  BY <1>1, <1>2 DEF ApiIInv

(* Whatever sends nothing, grants nothing and forgets retries at most      *)
(* keeps the account.                                                      *)
LEMMA QuietAccount ==
  ASSUME ApiIInv, granted \in Nat, HttpTypes', limited' = limited,
         sent' = sent, granted' = granted, RetriesLeft' \subseteq RetriesLeft
  PROVE  ApiIInv'
<1>1. Cardinality(RetriesLeft') \in Nat
  BY LeftFacts, FS_Subset, FS_CardinalityType
<1>2. Cardinality(RetriesLeft') <= Cardinality(RetriesLeft)
  BY LeftShrinks
<1>3. /\ (1 + Retries) * granted \in Nat /\ Retries * Cardinality(Callers) \in Nat
      /\ sent \in Nat
  BY AccountFacts DEF ApiIInv, HttpTypes
<1>4. limited => sent + Cardinality(RetriesLeft')
                   <= (1 + Retries) * granted + Retries * Cardinality(Callers)
  BY <1>1, <1>2, <1>3, LeftFacts DEF ApiIInv, Account
<1>5. QED
  BY <1>4 DEF ApiIInv, Account

(* A retry is sent and no longer left.                                     *)
LEMMA RetryAccount ==
  ASSUME ApiIInv, granted \in Nat, NEW c \in Callers, Retry(c)
  PROVE  ApiIInv'
<1> DEFINE n == attempt[c] + 1
<1>1. n \in 1..Retries /\ attempt[c] \in Nat /\ Retries \in Nat
  BY IpApiAssumption DEF ApiIInv, HttpTypes, Retry
<1>2. HttpTypes'
  BY <1>1 DEF ApiIInv, HttpTypes, Retry, modeVars
<1>3. <<c, n>> \in RetriesLeft
  BY <1>1 DEF RetriesLeft, Retry
<1>4. RetriesLeft' \subseteq RetriesLeft \ {<<c, n>>}
  <2>1. ASSUME NEW q \in RetriesLeft' PROVE q \in RetriesLeft \ {<<c, n>>}
    <3>1. /\ q \in Callers \X (1..Retries)
          /\ phase'[q[1]] \in {"sending", "backoff"} /\ attempt'[q[1]] < q[2]
      BY DEF RetriesLeft
    <3>2. q[1] \in Callers /\ q[2] \in Nat
      BY <3>1
    <3>3. CASE q[1] = c
      <4>1. attempt'[c] = n
        BY DEF Retry, ApiIInv, HttpTypes
      <4>2. n < q[2]
        BY <3>1, <3>3, <4>1
      <4>3. phase[q[1]] = "backoff" /\ attempt[q[1]] < q[2]
        BY <1>1, <3>2, <3>3, <4>2 DEF Retry
      <4>4. q # <<c, n>>
        BY <1>1, <4>2
      <4>5. QED
        BY <3>1, <4>3, <4>4 DEF RetriesLeft
    <3>4. CASE q[1] # c
      <4>1. phase'[q[1]] = phase[q[1]] /\ attempt'[q[1]] = attempt[q[1]]
        BY <3>2, <3>4 DEF Retry, ApiIInv, HttpTypes
      <4>2. QED
        BY <3>1, <3>4, <4>1 DEF RetriesLeft
    <3>5. QED
      BY <3>3, <3>4
  <2>2. QED
    BY <2>1
<1>5. /\ IsFiniteSet(RetriesLeft \ {<<c, n>>})
      /\ Cardinality(RetriesLeft \ {<<c, n>>}) = Cardinality(RetriesLeft) - 1
  BY <1>3, LeftFacts, FS_RemoveElement
<1>6. /\ Cardinality(RetriesLeft') \in Nat
      /\ Cardinality(RetriesLeft') <= Cardinality(RetriesLeft) - 1
  BY <1>4, <1>5, FS_Subset, FS_CardinalityType
<1>7. sent' = sent + 1 /\ granted' = granted /\ limited' = limited /\ sent \in Nat
  BY DEF Retry, vars, modeVars, ApiIInv, HttpTypes
<1>8. (1 + Retries) * granted \in Nat /\ Retries * Cardinality(Callers) \in Nat
  BY AccountFacts
<1>9. limited => sent' + Cardinality(RetriesLeft')
                   <= (1 + Retries) * granted + Retries * Cardinality(Callers)
  BY <1>6, <1>7, <1>8, LeftFacts DEF ApiIInv, Account
<1>10. QED
  BY <1>2, <1>7, <1>9 DEF ApiIInv, Account

LEMMA ApiInitIInv == ApiInit => ApiIInv
<1> SUFFICES ASSUME ApiInit PROVE ApiIInv
  OBVIOUS
<1>1. HttpTypes
  BY IpApiAssumption DEF ApiInit, HttpTypes
<1>2. RetriesLeft = {}
  BY DEF ApiInit, RetriesLeft
<1>3. Cardinality(RetriesLeft) = 0
  BY <1>2, FS_EmptySet
<1>4. sent = 0 /\ granted = 0
  BY DEF ApiInit, Init
<1>5. (1 + Retries) * 0 \in Nat /\ Retries * Cardinality(Callers) \in Nat
  BY AccountFacts
<1>6. QED
  BY <1>1, <1>3, <1>4, <1>5 DEF ApiIInv, Account

LEMMA ApiNextIInv == ApiIInv /\ TypeOK /\ [ApiNext]_apiVars => ApiIInv'
<1> SUFFICES ASSUME ApiIInv, TypeOK, [ApiNext]_apiVars PROVE ApiIInv'
  OBVIOUS
<1>1. granted \in Nat
  BY DEF TypeOK
<1>2. ASSUME NEW c \in Callers, phase[c] \in {"idle", "limiter"},
             Grants(c) \/ Sleeps(c), Proceeds(c)
      PROVE  ApiIInv'
  <2>1. CASE Grants(c)
    <3>1. granted' = granted + 1 /\ granted' # granted
      BY <1>1, <2>1 DEF Grants
    <3>2. Sends(c)
      BY <1>2, <3>1 DEF Proceeds
    <3>3. QED
      BY <1>1, <1>2, <3>1, <3>2, SendsAccount
  <2>2. CASE Sleeps(c)
    <3>1. granted' = granted
      BY <2>2 DEF Sleeps
    <3>2. Queues(c)
      BY <1>2, <3>1 DEF Proceeds
    <3>3. HttpTypes' /\ RetriesLeft' \subseteq RetriesLeft
      BY <3>2 DEF Queues, ApiIInv, HttpTypes, RetriesLeft, modeVars
    <3>4. QED
      BY <1>1, <3>1, <3>2, <3>3, QuietAccount DEF Queues, modeVars
  <2>3. QED
    BY <1>2, <2>1, <2>2
<1>3. ASSUME NEW c \in Callers, LocalHit(c) PROVE ApiIInv'
  <2>1. HttpTypes' /\ RetriesLeft' \subseteq RetriesLeft
    BY <1>3 DEF LocalHit, ApiIInv, HttpTypes, RetriesLeft, modeVars, httpVars
  <2>2. QED
    BY <1>1, <1>3, <2>1, QuietAccount DEF LocalHit, vars, modeVars, httpVars
<1>4. ASSUME NEW c \in Callers, AsksLimiter(c) PROVE ApiIInv'
  BY <1>2, <1>4 DEF AsksLimiter, Begins, Acquire
<1>5. ASSUME NEW c \in Callers, Wakes(c) PROVE ApiIInv'
  BY <1>2, <1>5 DEF Wakes, Wake
<1>6. ASSUME NEW c \in Callers, Unlimited(c) PROVE ApiIInv'
  BY <1>1, <1>6, SendsAccount DEF Unlimited, Begins
<1>7. ASSUME NEW c \in Callers, Answered(c) \/ Exhausted(c) PROVE ApiIInv'
  <2>1. HttpTypes' /\ RetriesLeft' \subseteq RetriesLeft
    BY <1>7, IpApiAssumption
    DEF Answered, Exhausted, ApiIInv, HttpTypes, RetriesLeft, modeVars
  <2>2. QED
    BY <1>1, <1>7, <2>1, QuietAccount DEF Answered, Exhausted, vars, modeVars
<1>8. ASSUME NEW c \in Callers, BacksOff(c) PROVE ApiIInv'
  <2>1. HttpTypes' /\ RetriesLeft' \subseteq RetriesLeft
    BY <1>8 DEF BacksOff, ApiIInv, HttpTypes, RetriesLeft, modeVars
  <2>2. QED
    BY <1>1, <1>8, <2>1, QuietAccount DEF BacksOff, vars, modeVars
<1>9. ASSUME NEW c \in Callers, Retry(c) PROVE ApiIInv'
  BY <1>1, <1>9, RetryAccount
<1>10. CASE ApiTick
  <2>1. HttpTypes' /\ RetriesLeft' \subseteq RetriesLeft
    BY <1>10 DEF ApiTick, ApiIInv, HttpTypes, RetriesLeft, modeVars
  <2>2. QED
    BY <1>1, <1>10, <2>1, QuietAccount DEF ApiTick, Tick, modeVars
<1>11. CASE ApiWindow
  <2>1. HttpTypes'
    BY <1>11 DEF ApiWindow, ApiIInv, HttpTypes, modeVars
  <2>2. RetriesLeft' = RetriesLeft /\ sent' = 0 /\ granted' = 0
    BY <1>11 DEF ApiWindow, OpenWindow, RetriesLeft
  <2>3. (1 + Retries) * 0 = 0 /\ Retries * Cardinality(Callers) \in Nat
    BY AccountFacts, IpApiAssumption
  <2>4. QED
    BY <2>1, <2>2, <2>3, LeftFacts DEF ApiIInv, Account
<1>12. CASE UNCHANGED apiVars
  <2>1. HttpTypes' /\ RetriesLeft' \subseteq RetriesLeft
    BY <1>12 DEF apiVars, ApiIInv, HttpTypes, RetriesLeft, modeVars, httpVars
  <2>2. QED
    BY <1>1, <1>12, <2>1, QuietAccount DEF apiVars, vars, modeVars, httpVars
<1>13. QED
  BY <1>3, <1>4, <1>5, <1>6, <1>7, <1>8, <1>9, <1>10, <1>11, <1>12
  DEF ApiNext, Resumes, Responds

(* Behind a limiter with a rate no stretch of time sees more requests      *)
(* than the calls granted in it and their retries, and the retries of one  *)
(* request a caller from before.                                           *)
THEOREM SentBoundAlways == ApiSpec => []SentBound
<1>1. ApiIInv /\ TypeOK => SentBound
  <2> SUFFICES ASSUME ApiIInv, TypeOK, limited
               PROVE  sent <= (1 + Retries) * granted + Retries * Cardinality(Callers)
    BY DEF SentBound
  <2>1. sent + Cardinality(RetriesLeft)
          <= (1 + Retries) * granted + Retries * Cardinality(Callers)
    BY DEF ApiIInv, Account
  <2>2. (1 + Retries) * granted \in Nat /\ Retries * Cardinality(Callers) \in Nat
    BY AccountFacts DEF TypeOK
  <2>3. sent \in Nat
    BY DEF ApiIInv, HttpTypes
  <2>4. QED
    BY <2>1, <2>2, <2>3, LeftFacts
<1>2. ApiSpec => []TypeOK
  BY UsesLimiter, TypeCorrect, PTL
<1>3. ApiSpec => []ApiIInv
  BY <1>2, ApiInitIInv, ApiNextIInv, PTL DEF ApiSpec
<1>4. QED
  BY <1>1, <1>2, <1>3, PTL
-----------------------------------------------------------------------------
LEMMA NatHasLeast ==
  ASSUME NEW T \in SUBSET Nat, T # {}
  PROVE  \E x \in T : \A y \in T : x <= y
<1>1. PICK x \in T : \A y \in T : <<y, x>> \notin OpToRel(<, Nat)
  BY NatLessThanWellFounded, WFMin
<1>2. \A y \in T : ~(y < x)
  BY <1>1 DEF OpToRel
<1>3. QED
  BY <1>2

(* The doubled backoffs exist, up to the last retry, and are numbers: by   *)
(* a least counterexample.                                                 *)
LEMMA BackoffFacts == Backoff \in [0..Retries -> Nat]
<1> DEFINE Eq(f, m) == f = [n \in 0..m |-> IF n = 0 THEN BackoffUnit ELSE 2 * f[n - 1]]
           Has(m) == \E f : f \in [0..m -> Nat] /\ Eq(f, m)
           Bad == {m \in 0..Retries : ~Has(m)}
<1>1. Retries \in Nat /\ BackoffUnit \in Nat
  BY IpApiAssumption
<1> HIDE DEF Eq, Has
<1>2. Has(Retries)
  <2>1. SUFFICES ASSUME Bad # {} PROVE FALSE
    BY <1>1
  <2>2. PICK m \in Bad : \A k \in Bad : m <= k
    <3>1. Bad \in SUBSET Nat
      BY <1>1
    <3>2. QED
      BY <3>1, <2>1, NatHasLeast
  <2>3. [n \in 0..0 |-> BackoffUnit] \in [0..0 -> Nat] /\ Eq([n \in 0..0 |-> BackoffUnit], 0)
    BY <1>1 DEF Eq
  <2>4. m # 0
    BY <2>2, <2>3 DEF Has
  <2>5. m \in 1..Retries /\ m - 1 \in 0..Retries /\ m - 1 \notin Bad
    BY <1>1, <2>2, <2>4
  <2>6. PICK f : f \in [0..(m - 1) -> Nat] /\ Eq(f, m - 1)
    BY <2>5 DEF Has
  <2> DEFINE g == [n \in 0..m |-> IF n \in 0..(m - 1) THEN f[n] ELSE 2 * f[m - 1]]
  <2>7. g \in [0..m -> Nat]
    BY <2>5, <2>6
  <2>8. \A n \in 0..m : g[n] = IF n = 0 THEN BackoffUnit ELSE 2 * g[n - 1]
    <3> SUFFICES ASSUME NEW n \in 0..m
                 PROVE  g[n] = IF n = 0 THEN BackoffUnit ELSE 2 * g[n - 1]
      OBVIOUS
    <3>1. n # 0 => n - 1 \in 0..(m - 1) /\ g[n - 1] = f[n - 1]
      BY <2>5
    <3>2. CASE n = m
      BY <3>1, <3>2, <2>5
    <3>3. CASE n # m
      <4>1. n \in 0..(m - 1) /\ g[n] = f[n]
        BY <3>3, <2>5
      <4>2. f[n] = IF n = 0 THEN BackoffUnit ELSE 2 * f[n - 1]
        BY <4>1, <2>6 DEF Eq
      <4>3. QED
        BY <4>1, <4>2, <3>1
    <3>4. QED
      BY <3>2, <3>3
  <2>9. Eq(g, m)
    BY <2>8 DEF Eq
  <2>10. Has(m)
    BY <2>7, <2>9 DEF Has
  <2>11. QED
    BY <2>2, <2>10
<1>3. \A g : g = [n \in 0..Retries |-> IF n = 0 THEN BackoffUnit ELSE 2 * g[n - 1]] => g \in [0..Retries -> Nat]
  <2> SUFFICES ASSUME NEW g,
                      g = [n \in 0..Retries |-> IF n = 0 THEN BackoffUnit ELSE 2 * g[n - 1]]
               PROVE  g \in [0..Retries -> Nat]
    OBVIOUS
  <2> DEFINE Odd == {n \in 0..Retries : g[n] \notin Nat}
  <2>1. SUFFICES ASSUME Odd # {} PROVE FALSE
    OBVIOUS
  <2>2. Odd \in SUBSET Nat
    BY <1>1
  <2>3. PICK m \in Odd : \A k \in Odd : m <= k
    BY <2>1, <2>2, NatHasLeast
  <2>4. m # 0
    BY <1>1, <2>3
  <2>5. m - 1 \in 0..Retries /\ m - 1 \notin Odd
    <3>1. m \in 0..Retries
      OBVIOUS
    <3>2. m - 1 \in 0..Retries /\ ~(m <= m - 1)
      BY <1>1, <2>4, <3>1
    <3>3. QED
      BY <2>3, <3>2
  <2>6. g[m - 1] \in Nat /\ g[m] = 2 * g[m - 1]
    BY <2>3, <2>4, <2>5
  <2>7. QED
    BY <2>6, <2>3
<1>4. Backoff = [n \in 0..Retries |-> IF n = 0 THEN BackoffUnit ELSE 2 * Backoff[n - 1]]
  BY <1>2 DEF Has, Backoff, Eq
<1>5. QED
  BY <1>3, <1>4

(* The limiter's sleepers are the lookups that wait for it, and backoffs   *)
(* are numbers of ticks.                                                   *)
Waits ==
  /\ mmdb \in {"none", "opened", "broken"}
  /\ pause \in [Callers -> Nat]
  /\ lookups \in [Callers -> 0..MaxCalls]
  /\ \A c \in Callers : (stage[c] = "asleep") = (phase[c] = "limiter")

LEMMA ApiInitWaits == ApiInit => Waits
<1>1. MaxCalls \in Nat
  BY ConstantFacts
<1>2. QED
  BY <1>1 DEF ApiInit, Init, Waits

LEMMA ApiNextWaits ==
  ASSUME Waits, HttpTypes, TypeOK, [ApiNext]_apiVars
  PROVE  Waits'
<1>1. MaxCalls \in Nat /\ \A c \in Callers : lookups[c] < MaxCalls => lookups[c] + 1 \in 0..MaxCalls
  BY ConstantFacts DEF Waits
<1>2. ASSUME NEW c \in Callers, AsksLimiter(c) \/ Wakes(c) PROVE Waits'
  <2>1. /\ Grants(c) \/ Sleeps(c)
        /\ Proceeds(c)
        /\ lookups' = lookups \/ (lookups[c] < MaxCalls /\ lookups' = [lookups EXCEPT ![c] = @ + 1])
    BY <1>2 DEF AsksLimiter, Wakes, Acquire, Wake, Begins
  <2>2. lookups' \in [Callers -> 0..MaxCalls]
    BY <1>1, <2>1 DEF Waits
  <2>3. CASE Grants(c)
    <3>1. granted' # granted
      BY <2>3 DEF Grants, TypeOK
    <3>2. Sends(c)
      BY <2>1, <3>1 DEF Proceeds
    <3>3. QED
      BY <2>2, <2>3, <3>2 DEF Sends, Grants, Waits, HttpTypes, TypeOK, modeVars
  <2>4. CASE Sleeps(c)
    <3>1. granted' = granted
      BY <2>4 DEF Sleeps
    <3>2. Queues(c)
      BY <2>1, <3>1 DEF Proceeds
    <3>3. QED
      BY <2>2, <2>4, <3>2 DEF Queues, Sleeps, Waits, HttpTypes, TypeOK, modeVars
  <2>5. QED
    BY <2>1, <2>3, <2>4
<1>3. ASSUME NEW c \in Callers, LocalHit(c) PROVE Waits'
  BY <1>1, <1>3 DEF LocalHit, Begins, Waits, vars, modeVars, httpVars
<1>4. ASSUME NEW c \in Callers, Unlimited(c) PROVE Waits'
  BY <1>1, <1>4 DEF Unlimited, Begins, Sends, Waits, HttpTypes, TypeOK, vars, modeVars
<1>5. ASSUME NEW c \in Callers, Answered(c) \/ Exhausted(c) \/ Retry(c) PROVE Waits'
  BY <1>5 DEF Answered, Exhausted, Retry, Waits, HttpTypes, TypeOK, vars, modeVars
<1>6. ASSUME NEW c \in Callers, BacksOff(c) PROVE Waits'
  <2>1. attempt[c] \in 0..Retries
    BY DEF HttpTypes
  <2>2. Backoff[attempt[c]] \in Nat
    BY <2>1, BackoffFacts
  <2>3. QED
    BY <1>6, <2>2 DEF BacksOff, Waits, HttpTypes, TypeOK, vars, modeVars
<1>7. CASE ApiTick
  BY <1>7 DEF ApiTick, Tick, Waits, modeVars
<1>8. CASE ApiWindow
  BY <1>8 DEF ApiWindow, OpenWindow, Waits, modeVars
<1>9. CASE UNCHANGED apiVars
  BY <1>9 DEF apiVars, Waits, vars, modeVars, httpVars
<1>10. QED
  BY <1>2, <1>3, <1>4, <1>5, <1>6, <1>7, <1>8, <1>9 DEF ApiNext, Resumes, Responds

(* The type invariant of the lookups: a lookup waits for the limiter       *)
(* exactly while the limiter has it asleep, retries are counted up to the  *)
(* last and the doubled backoffs stay numbers.                             *)
THEOREM ApiTypes == ApiSpec => []ApiTypeOK
<1>1. ApiSpec => []TypeOK
  BY UsesLimiter, TypeCorrect, PTL
<1>2. ApiSpec => []ApiIInv
  BY <1>1, ApiInitIInv, ApiNextIInv, PTL DEF ApiSpec
<1>3. Waits /\ ApiIInv /\ TypeOK /\ [ApiNext]_apiVars => Waits'
  BY ApiNextWaits DEF ApiIInv
<1>4. ApiSpec => []Waits
  BY <1>1, <1>2, <1>3, ApiInitWaits, PTL DEF ApiSpec
<1>5. TypeOK /\ ApiIInv /\ Waits => ApiTypeOK
  BY DEF ApiIInv, HttpTypes, Waits, ApiTypeOK
<1>6. QED
  BY <1>1, <1>2, <1>4, <1>5, PTL
=============================================================================
