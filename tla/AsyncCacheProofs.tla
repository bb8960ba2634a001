-------------------------- MODULE AsyncCacheProofs --------------------------
(***************************************************************************)
(* Proofs about AsyncCache, for any callers, keys and results.             *)
(***************************************************************************)
EXTENDS AsyncCache, TLAPS

(* A call in progress has its key, and one that is over has its outcome.   *)
CallState ==
  \A c \in Callers :
    /\ stage[c] # "idle" => key[c] \in Keys
    /\ stage[c] \in {"woken", "done"} => got[c] # Nothing

IInv == /\ TypeOK /\ CallState
        /\ SingleFlight /\ NoOrphan /\ InFlightIsLed /\ Agreement
-----------------------------------------------------------------------------
LEMMA InitIInv == Init => IInv
<1> SUFFICES ASSUME Init PROVE IInv
  OBVIOUS
<1>1. TypeOK
  BY DEF Init, TypeOK, Stages
<1>2. CallState /\ SingleFlight /\ NoOrphan /\ InFlightIsLed /\ Agreement
  BY AsyncCacheAssumption
  DEF Init, CallState, SingleFlight, NoOrphan, InFlightIsLed, Agreement
<1>3. QED
  BY <1>1, <1>2 DEF IInv

(* The caller whose factory ends hands its outcome r to the waiters, and   *)
(* the key is free again; the value, if there is one, is new.              *)
LEMMA ResolveIInv ==
  ASSUME IInv, NEW c \in Callers, stage[c] = "leading",
         NEW r \in Results \cup {Raised}, Resolve(c, r), key' = key,
         leader' = [leader EXCEPT ![key[c]] = Nothing],
         \/ r = Raised /\ values' = values
         \/ r \in Results /\ values' = [values EXCEPT ![key[c]] = r]
  PROVE  IInv'
<1> USE AsyncCacheAssumption
<1> DEFINE k == key[c]
<1>1. k \in Keys /\ leader[k] = c /\ values[k] = Nothing
  BY DEF IInv, CallState, SingleFlight
<1>2. TypeOK'
  BY <1>1 DEF IInv, TypeOK, Resolve, Stages
<1>3. \A w \in Callers : stage'[w] \in {"woken", "done"} =>
        \/ (w = c \/ (stage[w] = "waiting" /\ key[w] = k)) /\ got'[w] = r
        \/ stage[w] = stage'[w] /\ got'[w] = got[w]
  BY DEF Resolve, IInv, TypeOK
<1>4. \A w \in Callers : stage'[w] \notin {"woken", "done"} =>
        /\ stage'[w] = stage[w] /\ got'[w] = got[w] /\ w # c
        /\ stage[w] = "waiting" => key[w] # k
  BY DEF Resolve, IInv, TypeOK
<1>5. CallState'
  BY <1>1, <1>3, <1>4 DEF IInv, CallState
<1>6. \A w \in Callers : stage[w] = "leading" /\ w # c => key[w] # k
  BY <1>1 DEF IInv, SingleFlight
<1>7. SingleFlight'
  BY <1>1, <1>4, <1>6 DEF IInv, TypeOK, CallState, SingleFlight
<1>8. NoOrphan'
  <2> SUFFICES ASSUME NEW w \in Callers, stage'[w] = "waiting"
               PROVE  \E l \in Callers : /\ leader'[key'[w]] = l
                                         /\ stage'[l] = "leading" /\ key'[l] = key'[w]
    BY DEF NoOrphan
  <2>1. stage[w] = "waiting" /\ key[w] # k /\ key[w] \in Keys
    BY <1>4 DEF IInv, CallState
  <2>2. PICK l \in Callers : leader[key[w]] = l /\ stage[l] = "leading" /\ key[l] = key[w]
    BY <2>1 DEF IInv, NoOrphan
  <2>3. stage'[l] = "leading"
    BY <2>1, <2>2 DEF Resolve, IInv, TypeOK
  <2>4. leader'[key[w]] = l
    BY <2>1, <2>2 DEF IInv, TypeOK
  <2>5. QED
    BY <2>2, <2>3, <2>4
<1>9. InFlightIsLed'
  <2> SUFFICES ASSUME NEW j \in Keys, NEW w \in Callers, leader'[j] = w
               PROVE  stage'[w] = "leading" /\ key'[w] = j
    BY DEF InFlightIsLed
  <2>1. j # k /\ leader[j] = w
    BY <1>1 DEF IInv, TypeOK
  <2>2. stage[w] = "leading" /\ key[w] = j
    BY <2>1 DEF IInv, InFlightIsLed
  <2>3. QED
    BY <2>1, <2>2 DEF Resolve, IInv, TypeOK
<1>10. Agreement'
  <2> SUFFICES ASSUME NEW w \in Callers, stage'[w] \in {"woken", "done"}
               PROVE  got'[w] = Raised \/ got'[w] = values'[key'[w]]
    BY DEF Agreement
  <2>1. CASE (w = c \/ (stage[w] = "waiting" /\ key[w] = k)) /\ got'[w] = r
    BY <1>1, <2>1 DEF IInv, TypeOK
  <2>2. CASE stage[w] = stage'[w] /\ got'[w] = got[w]
    <3>1. key[w] \in Keys /\ got[w] # Nothing
      BY <2>2 DEF IInv, CallState
    <3>2. got[w] = Raised \/ (got[w] = values[key[w]] /\ key[w] # k)
      BY <1>1, <2>2, <3>1 DEF IInv, Agreement
    <3>3. QED
      BY <2>2, <3>1, <3>2 DEF IInv, TypeOK
  <2>3. QED
    BY <1>3, <2>1, <2>2
<1>11. QED
  BY <1>2, <1>5, <1>7, <1>8, <1>9, <1>10 DEF IInv

LEMMA NextIInv == IInv /\ [Next]_cacheVars => IInv'
<1> SUFFICES ASSUME IInv, [Next]_cacheVars PROVE IInv'
  OBVIOUS
<1> USE AsyncCacheAssumption
<1>1. ASSUME NEW c \in Callers, NEW k \in Keys, Hit(c, k)
      PROVE  IInv'
  <2>1. TypeOK' /\ CallState'
    BY <1>1 DEF IInv, TypeOK, Stages, Hit, CallState
  <2>2. SingleFlight' /\ InFlightIsLed' /\ Agreement'
    BY <1>1 DEF IInv, TypeOK, Hit, CallState, SingleFlight, InFlightIsLed, Agreement
  <2>3. NoOrphan'
    BY <1>1 DEF IInv, TypeOK, Hit, CallState, NoOrphan
  <2>4. QED
    BY <2>1, <2>2, <2>3 DEF IInv
<1>2. ASSUME NEW c \in Callers, NEW k \in Keys, Join(c, k)
      PROVE  IInv'
  <2>1. TypeOK' /\ CallState'
    BY <1>2 DEF IInv, TypeOK, Stages, Join, CallState
  <2>2. SingleFlight' /\ InFlightIsLed' /\ Agreement'
    BY <1>2 DEF IInv, TypeOK, Join, CallState, SingleFlight, InFlightIsLed, Agreement
  <2>3. NoOrphan'
    <3>1. PICK l \in Callers : leader[k] = l
      BY <1>2 DEF Join, IInv, TypeOK
    <3>2. stage[l] = "leading" /\ key[l] = k /\ l # c
      BY <1>2, <3>1 DEF Join, IInv, InFlightIsLed
    <3>3. QED
      BY <1>2, <3>1, <3>2 DEF IInv, TypeOK, Join, CallState, NoOrphan
  <2>4. QED
    BY <2>1, <2>2, <2>3 DEF IInv
<1>3. ASSUME NEW c \in Callers, NEW k \in Keys, Lead(c, k)
      PROVE  IInv'
  <2>1. TypeOK' /\ CallState'
    BY <1>3 DEF IInv, TypeOK, Stages, Lead, CallState
  <2>2. SingleFlight'
    BY <1>3 DEF IInv, TypeOK, Lead, CallState, SingleFlight
  <2>3. InFlightIsLed' /\ Agreement'
    BY <1>3 DEF IInv, TypeOK, Lead, CallState, InFlightIsLed, Agreement
  <2>4. NoOrphan'
    BY <1>3 DEF IInv, TypeOK, Lead, CallState, NoOrphan
  <2>5. QED
    BY <2>1, <2>2, <2>3, <2>4 DEF IInv
<1>4. ASSUME NEW c \in Callers, NEW v \in Results, Returns(c, v)
      PROVE  IInv'
  BY <1>4, ResolveIInv DEF Returns
<1>5. ASSUME NEW c \in Callers, Fails(c)
      PROVE  IInv'
  BY <1>5, ResolveIInv DEF Fails
<1>6. ASSUME NEW c \in Callers, Resume(c)
      PROVE  IInv'
  BY <1>6 DEF IInv, TypeOK, Stages, Resume, CallState, SingleFlight, NoOrphan,
     InFlightIsLed, Agreement
<1>7. ASSUME NEW c \in Callers, Leave(c)
      PROVE  IInv'
  <2>1. TypeOK' /\ CallState'
    BY <1>7 DEF IInv, TypeOK, Stages, Leave, CallState
  <2>2. SingleFlight' /\ InFlightIsLed' /\ Agreement'
    BY <1>7 DEF IInv, TypeOK, Leave, CallState, SingleFlight, InFlightIsLed, Agreement
  <2>3. NoOrphan'
    BY <1>7 DEF IInv, TypeOK, Leave, CallState, NoOrphan
  <2>4. QED
    BY <2>1, <2>2, <2>3 DEF IInv
<1>8. CASE UNCHANGED cacheVars
  BY <1>8 DEF cacheVars, IInv, TypeOK, CallState, SingleFlight, NoOrphan,
     InFlightIsLed, Agreement
<1>9. QED
  BY <1>1, <1>2, <1>3, <1>4, <1>5, <1>6, <1>7, <1>8 DEF Next, Get, Runs

(* Whose call a step of get begins, and about which key.                   *)
LEMMA GetCalls ==
  ASSUME IInv, NEW c \in Callers, NEW k \in Keys, Get(c, k)
  PROVE  \A e \in Callers : stage'[e] # "idle" =>
           (e = c /\ key'[e] = k) \/ (stage[e] # "idle" /\ key'[e] = key[e])
BY DEF IInv, TypeOK, Get, Hit, Join, Lead

(* While a call goes on nobody begins or changes one.                      *)
LEMMA RunCalls ==
  ASSUME IInv, NEW c \in Callers, (\E v \in Results : Returns(c, v)) \/ Fails(c) \/ Resume(c)
  PROVE  \A e \in Callers : stage'[e] # "idle" => stage[e] # "idle" /\ key'[e] = key[e]
BY DEF IInv, TypeOK, Returns, Fails, Resume, Resolve

(* The end of a call: its outcome is the exception or the cached value.    *)
LEMMA LeaveCalls ==
  ASSUME IInv, NEW c \in Callers, Leave(c)
  PROVE  /\ values' = values /\ stage[c] # "idle" /\ key[c] \in Keys
         /\ got[c] = Raised \/ (got[c] \in Results /\ got[c] = values[key[c]])
         /\ \A e \in Callers : stage'[e] # "idle" =>
              e # c /\ stage[e] # "idle" /\ key'[e] = key[e]
<1>1. stage[c] = "done" /\ got[c] # Nothing /\ key[c] \in Keys
  BY DEF IInv, CallState, Leave
<1>2. got[c] = Raised \/ (got[c] \in Results /\ got[c] = values[key[c]])
  BY <1>1 DEF IInv, TypeOK, Agreement
<1>3. \A e \in Callers : stage'[e] # "idle" => e # c /\ stage[e] # "idle" /\ key'[e] = key[e]
  BY DEF IInv, TypeOK, Leave
<1>4. QED
  BY <1>1, <1>2, <1>3 DEF Leave

LEMMA IInvAlways == Spec => []IInv
  BY InitIInv, NextIInv, PTL DEF Spec

(* The cache's variables stay within their types (cache.py).               *)
THEOREM TypeCorrect == Spec => []TypeOK
<1>1. IInv => TypeOK
  BY DEF IInv
<1>2. QED
  BY <1>1, IInvAlways, PTL

(* A key's factory has one runner at a time, and none once the key has its *)
(* value: concurrent misses share one computation (cache.py, get).         *)
THEOREM SingleFlightAlways == Spec => []SingleFlight
<1>1. IInv => SingleFlight
  BY DEF IInv
<1>2. QED
  BY <1>1, IInvAlways, PTL

(* Whoever waits in get waits for a caller that runs the factory of the    *)
(* same key: no failure leaves a waiter behind.                            *)
THEOREM NoOrphanAlways == Spec => []NoOrphan
<1>1. IInv => NoOrphan
  BY DEF IInv
<1>2. QED
  BY <1>1, IInvAlways, PTL

(* Whoever leaves get with a value leaves with the cached one.             *)
THEOREM AgreementAlways == Spec => []Agreement
<1>1. IInv => Agreement
  BY DEF IInv
<1>2. QED
  BY <1>1, IInvAlways, PTL

(* No step replaces a cached value.                                        *)
LEMMA CachedStays ==
  ASSUME IInv, [Next]_cacheVars, NEW k \in Keys, values[k] # Nothing
  PROVE  values'[k] = values[k]
<1>1. ASSUME NEW c \in Callers, NEW v \in Results, Returns(c, v)
      PROVE  values'[k] = values[k]
  BY <1>1 DEF IInv, TypeOK, CallState, SingleFlight, Returns
<1>2. QED
  BY <1>1 DEF Next, Get, Runs, Hit, Join, Lead, Fails, Resume, Leave, cacheVars

(* A cached value is never replaced.                                       *)
THEOREM CachedForGoodAlways == Spec => CachedForGood
<1>1. IInv /\ [Next]_cacheVars =>
        [\A k \in Keys : values[k] # Nothing => values'[k] = values[k]]_cacheVars
  BY CachedStays
<1>2. QED
  BY <1>1, IInvAlways, PTL DEF Spec, CachedForGood
=============================================================================
