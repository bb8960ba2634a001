----------------------------- MODULE AsyncCache -----------------------------
(***************************************************************************)
(* The single-flight cache of online/cache.py.  A caller that misses on a  *)
(* key leads: it registers a future for the key and awaits its factory.    *)
(* Callers that miss while it does await that future.  When the factory    *)
(* returns, the value is cached and the future resolved; when it raises,   *)
(* nothing is cached and the exception goes to all who wait.               *)
(*                                                                         *)
(* get is called by coroutines of one event loop: an action is the code    *)
(* between two awaits.  Resolving a future makes its waiters ready; each   *)
(* resumes later, in a step of its own, with what the future held.         *)
(***************************************************************************)
CONSTANTS
  Callers,   \* the coroutines that call get
  Keys,      \* cache keys
  Results,   \* what a factory may return
  Raised,    \* in place of a result: the factory's exception
  Nothing    \* no result, no key, no leader

ASSUME AsyncCacheAssumption ==
  /\ Raised \notin Results
  /\ Nothing \notin Results \cup Keys \cup Callers
  /\ Raised # Nothing

VARIABLES
  values,    \* _values: the cached result of each key
  leader,    \* _inflight: who computes the key
  stage,     \* where each caller is in get
  key,       \* the key it asked for
  got        \* what its get returned or raised

cacheVars == <<values, leader, stage, key, got>>

Stages == {"idle", "leading", "waiting", "woken", "done"}

TypeOK ==
  /\ values \in [Keys -> Results \cup {Nothing}]
  /\ leader \in [Keys -> Callers \cup {Nothing}]
  /\ stage \in [Callers -> Stages]
  /\ key \in [Callers -> Keys \cup {Nothing}]
  /\ got \in [Callers -> Results \cup {Raised, Nothing}]

Init ==
  /\ values = [k \in Keys |-> Nothing]
  /\ leader = [k \in Keys |-> Nothing]
  /\ stage = [c \in Callers |-> "idle"]
  /\ key = [c \in Callers |-> Nothing]
  /\ got = [c \in Callers |-> Nothing]

(* get finds the value.                                                    *)
Hit(c, k) ==
  /\ stage[c] = "idle"
  /\ values[k] # Nothing
  /\ stage' = [stage EXCEPT ![c] = "done"]
  /\ key' = [key EXCEPT ![c] = k]
  /\ got' = [got EXCEPT ![c] = values[k]]
  /\ UNCHANGED <<values, leader>>

(* get finds the key in flight and awaits its future.                      *)
Join(c, k) ==
  /\ stage[c] = "idle"
  /\ values[k] = Nothing
  /\ leader[k] # Nothing
  /\ stage' = [stage EXCEPT ![c] = "waiting"]
  /\ key' = [key EXCEPT ![c] = k]
  /\ UNCHANGED <<values, leader, got>>

(* The lookup of _inflight missing: every caller leads (used to test the   *)
(* properties).                                                            *)
LeadAlways(c, k) ==
  /\ stage[c] = "idle"
  /\ values[k] = Nothing
  /\ leader' = [leader EXCEPT ![k] = c]
  /\ stage' = [stage EXCEPT ![c] = "leading"]
  /\ key' = [key EXCEPT ![c] = k]
  /\ UNCHANGED <<values, got>>

(* get misses: the caller registers its future and awaits the factory.     *)
Lead(c, k) ==
  /\ stage[c] = "idle"
  /\ values[k] = Nothing
  /\ leader[k] = Nothing
  /\ leader' = [leader EXCEPT ![k] = c]
  /\ stage' = [stage EXCEPT ![c] = "leading"]
  /\ key' = [key EXCEPT ![c] = k]
  /\ UNCHANGED <<values, got>>

(* The future never resolved: the leader alone goes on (used to test the   *)
(* properties).                                                            *)
ResolveLeaderOnly(c, r) ==
  /\ stage' = [stage EXCEPT ![c] = "done"]
  /\ got' = [got EXCEPT ![c] = r]

(* The future of c's key is resolved with r: c goes on with r, and who     *)
(* waits for that key is ready to.                                         *)
Resolve(c, r) ==
  LET k == key[c]
      waiters == {w \in Callers : stage[w] = "waiting" /\ key[w] = k}
  IN /\ stage' = [w \in Callers |-> IF w = c THEN "done"
                                    ELSE IF w \in waiters THEN "woken" ELSE stage[w]]
     /\ got' = [w \in Callers |-> IF w = c \/ w \in waiters THEN r ELSE got[w]]

(* The value handed out but not cached (used to test the properties).      *)
ReturnsUncached(c, v) ==
  /\ stage[c] = "leading"
  /\ leader' = [leader EXCEPT ![key[c]] = Nothing]
  /\ Resolve(c, v)
  /\ UNCHANGED <<values, key>>

(* The factory returned v, which is cached before the future is resolved.  *)
Returns(c, v) ==
  /\ stage[c] = "leading"
  /\ values' = [values EXCEPT ![key[c]] = v]
  /\ leader' = [leader EXCEPT ![key[c]] = Nothing]
  /\ Resolve(c, v)
  /\ UNCHANGED key

(* The future left in _inflight by a failure (used to test the             *)
(* properties).                                                            *)
FailsInFlight(c) ==
  /\ stage[c] = "leading"
  /\ Resolve(c, Raised)
  /\ UNCHANGED <<values, leader, key>>

(* The exception cached like a value (used to test the properties).        *)
FailsCached(c) ==
  /\ stage[c] = "leading"
  /\ values' = [values EXCEPT ![key[c]] = Raised]
  /\ leader' = [leader EXCEPT ![key[c]] = Nothing]
  /\ Resolve(c, Raised)
  /\ UNCHANGED key

(* The factory raised.                                                     *)
Fails(c) ==
  /\ stage[c] = "leading"
  /\ leader' = [leader EXCEPT ![key[c]] = Nothing]
  /\ Resolve(c, Raised)
  /\ UNCHANGED <<values, key>>

(* A waiter resumes with what its future holds.                            *)
Resume(c) ==
  /\ stage[c] = "woken"
  /\ stage' = [stage EXCEPT ![c] = "done"]
  /\ UNCHANGED <<values, leader, key, got>>

(* The caller is done with this call.                                      *)
Leave(c) ==
  /\ stage[c] = "done"
  /\ stage' = [stage EXCEPT ![c] = "idle"]
  /\ key' = [key EXCEPT ![c] = Nothing]
  /\ got' = [got EXCEPT ![c] = Nothing]
  /\ UNCHANGED <<values, leader>>

Get(c, k) == Hit(c, k) \/ Join(c, k) \/ Lead(c, k)

Runs(c) == (\E v \in Results : Returns(c, v)) \/ Fails(c) \/ Resume(c) \/ Leave(c)

Next == \E c \in Callers : (\E k \in Keys : Get(c, k)) \/ Runs(c)

Spec == Init /\ [][Next]_cacheVars

FairSpec == Spec /\ \A c \in Callers : WF_cacheVars(Runs(c))
-----------------------------------------------------------------------------
(* Concurrent misses share one computation: only the registered leader of  *)
(* a key runs a factory for it, and none runs once the key has its value - *)
(* so that a key is fetched successfully at most once (cache.py).          *)
SingleFlight ==
  \A c \in Callers : stage[c] = "leading" =>
    leader[key[c]] = c /\ values[key[c]] = Nothing

(* No caller awaits a future nobody will resolve: a waiter's key has a     *)
(* leader, and the leader runs its factory.                                *)
NoOrphan ==
  \A c \in Callers : stage[c] = "waiting" =>
    \E l \in Callers : leader[key[c]] = l /\ stage[l] = "leading" /\ key[l] = key[c]

(* A registered leader is a caller that runs the factory for that key: a   *)
(* failure leaves no entry in flight.                                      *)
InFlightIsLed ==
  \A k \in Keys : \A c \in Callers :
    leader[k] = c => stage[c] = "leading" /\ key[c] = k

(* Who leaves get with a value leaves with the cached one, long as it may  *)
(* have taken to resume: all callers of a key agree.                       *)
Agreement ==
  \A c \in Callers : stage[c] \in {"woken", "done"} =>
    got[c] = Raised \/ got[c] = values[key[c]]

(* A cached value stays: no later call replaces it.                        *)
CachedForGood ==
  [][\A k \in Keys : values[k] # Nothing => values'[k] = values[k]]_cacheVars

(* Every call of get comes to an end.                                      *)
GetEnds == \A c \in Callers : (stage[c] # "idle") ~> (stage[c] = "done")
=============================================================================
