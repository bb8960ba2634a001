----------------------------- MODULE RateLimiter ----------------------------
(***************************************************************************)
(* The token bucket of online/ratelimit.py, which bounds the requests to   *)
(* a lookup service (ip-api: 45 a minute).                                 *)
(*                                                                         *)
(* The rate is the fraction Num / Den of a token in Per ticks of the       *)
(* clock.  Tokens are counted in units of 1 / (Per * Den), in which the    *)
(* bucket holds Num * Per, one token is Per * Den and one tick brings Num: *)
(* the code's floating-point arithmetic without its rounding.  The clock   *)
(* is relative: the time since the last refill, and what is left of each   *)
(* sleep.  A rate of 0 or less is no limiter and is left out.              *)
(*                                                                         *)
(* acquire holds the lock without awaiting anything: one turn of its loop  *)
(* is one action.                                                          *)
(***************************************************************************)
EXTENDS Integers

CONSTANTS
  Callers,    \* the coroutines that call acquire
  Num, Den,   \* rate = Num / Den tokens ...
  Per,        \* ... per so many ticks
  MaxCalls,   \* bound: how often each caller calls acquire
  MaxWindow   \* bound: the length of the observed window

ASSUME RateLimiterAssumption ==
  /\ Num \in Nat \ {0} /\ Den \in Nat \ {0} /\ Per \in Nat \ {0}
  /\ MaxCalls \in Nat /\ MaxWindow \in Nat

Token    == Per * Den   \* one token
Capacity == Num * Per   \* self.rate tokens

VARIABLES
  tokens,    \* _tokens
  elapsed,   \* the time since _updated
  stage,     \* per caller: "idle", or "asleep" in acquire
  left,      \* what is left of its sleep
  calls,     \* calls it has made
  window,    \* the age of the observed window
  granted    \* the calls granted in it

vars == <<tokens, elapsed, stage, left, calls, window, granted>>

Least(a, b) == IF a <= b THEN a ELSE b

TypeOK ==
  /\ tokens \in 0..Capacity
  /\ elapsed \in 0..Per
  /\ stage \in [Callers -> {"idle", "asleep"}]
  /\ left \in [Callers -> Nat]
  /\ calls \in [Callers -> 0..MaxCalls]
  /\ window \in 0..MaxWindow
  /\ granted \in Nat

(* The bucket starts full.                                                 *)
Init ==
  /\ tokens = Capacity
  /\ elapsed = 0
  /\ stage = [c \in Callers |-> "idle"]
  /\ left = [c \in Callers |-> 0]
  /\ calls = [c \in Callers |-> 0]
  /\ window = 0
  /\ granted = 0

(* The bucket not limited to its capacity (used to test the properties).   *)
RefillUncapped == tokens + elapsed * Num

(* _refill: the tokens after the time since the last one.                  *)
Refill == Least(Capacity, tokens + elapsed * Num)

(* The sleep until one token will have accrued, in whole ticks.            *)
SleepTime(have) == (Token - have + Num - 1) \div Num

(* The turn of the loop of a caller that finds a token.                    *)
Grants(c) ==
  /\ Refill >= Token
  /\ tokens' = Refill - Token
  /\ elapsed' = 0
  /\ stage' = [stage EXCEPT ![c] = "idle"]
  /\ granted' = granted + 1
  /\ UNCHANGED <<left, window>>

(* The turn of the loop of a caller that finds none.                       *)
Sleeps(c) ==
  /\ Refill < Token
  /\ tokens' = Refill
  /\ elapsed' = 0
  /\ stage' = [stage EXCEPT ![c] = "asleep"]
  /\ left' = [left EXCEPT ![c] = SleepTime(Refill)]
  /\ UNCHANGED <<window, granted>>

(* acquire is called.                                                      *)
Acquire(c) ==
  /\ stage[c] = "idle"
  /\ calls[c] < MaxCalls
  /\ calls' = [calls EXCEPT ![c] = @ + 1]
  /\ Grants(c) \/ Sleeps(c)

(* A sleep is over - its time at the earliest - and the loop turns again.  *)
Wake(c) ==
  /\ stage[c] = "asleep"
  /\ left[c] = 0
  /\ Grants(c) \/ Sleeps(c)
  /\ UNCHANGED calls

(* Time passes.  Beyond Per the bucket is full: the elapsed time need not  *)
(* be counted further.  A window is observed for MaxWindow ticks.          *)
Tick ==
  /\ window < MaxWindow
  /\ elapsed' = Least(Per, elapsed + 1)
  /\ left' = [c \in Callers |-> IF left[c] = 0 THEN 0 ELSE left[c] - 1]
  /\ window' = window + 1
  /\ UNCHANGED <<tokens, stage, calls, granted>>

(* A new window is observed, from any moment on.                           *)
OpenWindow ==
  /\ window' = 0
  /\ granted' = 0
  /\ UNCHANGED <<tokens, elapsed, stage, left, calls>>

Next ==
  \/ \E c \in Callers : Acquire(c) \/ Wake(c)
  \/ Tick
  \/ OpenWindow

Spec == Init /\ [][Next]_vars
-----------------------------------------------------------------------------
(* In no stretch of time, from whichever moment, are more calls granted    *)
(* than a full bucket and what the time brings: (calls - rate) / time      *)
(* never exceeds rate / per, however many callers wake together.           *)
BurstBound == Token * granted <= Capacity + Num * window
=============================================================================
