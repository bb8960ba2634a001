------------------------------- MODULE IpApi -------------------------------
(***************************************************************************)
(* Live geolocation (online/geo_live.py): an address is looked up in the   *)
(* local MaxMind databases, if there are any, and failing that at ip-api,  *)
(* through the limiter of RateLimiter and with the retries of get_json     *)
(* (online/http.py).  A request is answered, for good or as "no data", or  *)
(* fails for a moment: an exception, a 429 or a server error.              *)
(*                                                                         *)
(* An online run makes its limiter unlimited when it is given a database   *)
(* (online/runner.py); a single online lookup always limits.  What is      *)
(* found is left out.                                                      *)
(***************************************************************************)
EXTENDS RateLimiter, FiniteSets

CONSTANTS
  Retries,       \* get_json's retries
  BackoffUnit    \* its backoff, in ticks

ASSUME IpApiAssumption ==
  /\ Retries \in Nat /\ BackoffUnit \in Nat
  /\ IsFiniteSet(Callers)

VARIABLES
  mmdb,       \* databases: "none" asked for, "opened", or "broken"
  limited,    \* the limiter has a rate
  phase,      \* per caller: "idle", "limiter", "sending" or "backoff"
  attempt,    \* ... its retries of this request
  pause,      \* ... what is left of its backoff
  lookups,    \* ... lookups it has begun
  sent        \* requests sent in the observed window

httpVars == <<phase, attempt, pause, sent>>
modeVars == <<mmdb, limited>>
apiVars  == <<vars, modeVars, httpVars, lookups>>

ApiTypeOK ==
  /\ TypeOK
  /\ mmdb \in {"none", "opened", "broken"} /\ limited \in BOOLEAN
  /\ phase \in [Callers -> {"idle", "limiter", "sending", "backoff"}]
  /\ attempt \in [Callers -> 0..Retries]
  /\ pause \in [Callers -> Nat]
  /\ lookups \in [Callers -> 0..MaxCalls]
  /\ sent \in Nat
  /\ \A c \in Callers : (stage[c] = "asleep") = (phase[c] = "limiter")

ApiInit ==
  /\ Init
  /\ mmdb \in {"none", "opened", "broken"}
  /\ limited \in BOOLEAN /\ (mmdb = "none" => limited)
  /\ phase = [c \in Callers |-> "idle"]
  /\ attempt = [c \in Callers |-> 0]
  /\ pause = [c \in Callers |-> 0]
  /\ lookups = [c \in Callers |-> 0]
  /\ sent = 0

(* The sleep before the retry after n: twice as long each time.            *)
Backoff[n \in 0..Retries] == IF n = 0 THEN BackoffUnit ELSE 2 * Backoff[n - 1]

Begins(c) ==
  /\ phase[c] = "idle"
  /\ lookups[c] < MaxCalls
  /\ lookups' = [lookups EXCEPT ![c] = @ + 1]

(* lookup finds the address in a database.                                 *)
LocalHit(c) ==
  /\ Begins(c)
  /\ mmdb = "opened"
  /\ UNCHANGED <<vars, modeVars, httpVars>>

(* The first request, once the limiter lets c through.                     *)
Sends(c) ==
  /\ phase' = [phase EXCEPT ![c] = "sending"]
  /\ attempt' = [attempt EXCEPT ![c] = 0]
  /\ sent' = sent + 1
  /\ UNCHANGED <<modeVars, pause>>

Queues(c) ==
  /\ phase' = [phase EXCEPT ![c] = "limiter"]
  /\ UNCHANGED <<modeVars, attempt, pause, sent>>

(* The limiter's turn decides which.                                       *)
Proceeds(c) == IF granted' = granted THEN Queues(c) ELSE Sends(c)

(* lookup comes to ip-api, and to a limiter with a rate ...                *)
AsksLimiter(c) ==
  /\ Begins(c)
  /\ limited
  /\ Acquire(c)
  /\ Proceeds(c)

Wakes(c) ==
  /\ phase[c] = "limiter"
  /\ Wake(c)
  /\ Proceeds(c)
  /\ UNCHANGED lookups

(* ... or without one.                                                     *)
Unlimited(c) ==
  /\ Begins(c)
  /\ ~limited
  /\ Sends(c)
  /\ UNCHANGED vars

(* The answer, data or none: the lookup is over.                           *)
Answered(c) ==
  /\ phase[c] = "sending"
  /\ phase' = [phase EXCEPT ![c] = "idle"]
  /\ attempt' = [attempt EXCEPT ![c] = 0]
  /\ UNCHANGED <<vars, modeVars, pause, lookups, sent>>

(* One retry more than there are (used to test the properties).            *)
BacksOffPast(c) ==
  /\ phase[c] = "sending" /\ attempt[c] <= Retries
  /\ phase' = [phase EXCEPT ![c] = "backoff"]
  /\ pause' = [pause EXCEPT ![c] = Backoff[attempt[c]]]
  /\ UNCHANGED <<vars, modeVars, attempt, lookups, sent>>

(* The request fails and is worth another: c sleeps.                       *)
BacksOff(c) ==
  /\ phase[c] = "sending" /\ attempt[c] < Retries
  /\ phase' = [phase EXCEPT ![c] = "backoff"]
  /\ pause' = [pause EXCEPT ![c] = Backoff[attempt[c]]]
  /\ UNCHANGED <<vars, modeVars, attempt, lookups, sent>>

(* The attempt not counted (used to test the properties).                  *)
RetriesForever(c) ==
  /\ phase[c] = "backoff" /\ pause[c] = 0
  /\ phase' = [phase EXCEPT ![c] = "sending"]
  /\ sent' = sent + 1
  /\ UNCHANGED <<vars, modeVars, attempt, pause, lookups>>

(* The backoff is over: the request is sent again, without the limiter.    *)
Retry(c) ==
  /\ phase[c] = "backoff" /\ pause[c] = 0
  /\ phase' = [phase EXCEPT ![c] = "sending"]
  /\ attempt' = [attempt EXCEPT ![c] = @ + 1]
  /\ sent' = sent + 1
  /\ UNCHANGED <<vars, modeVars, pause, lookups>>

(* The last attempt fails: no data.                                        *)
Exhausted(c) ==
  /\ phase[c] = "sending" /\ attempt[c] >= Retries
  /\ phase' = [phase EXCEPT ![c] = "idle"]
  /\ attempt' = [attempt EXCEPT ![c] = 0]
  /\ UNCHANGED <<vars, modeVars, pause, lookups, sent>>

Resumes(c) == Wakes(c) \/ Retry(c)

Responds(c) == Answered(c) \/ BacksOff(c) \/ Exhausted(c)

(* Time passes for the limiter and for the backoffs.                       *)
ApiTick ==
  /\ Tick
  /\ pause' = [c \in Callers |-> IF pause[c] = 0 THEN 0 ELSE pause[c] - 1]
  /\ UNCHANGED <<modeVars, phase, attempt, lookups, sent>>

ApiWindow ==
  /\ OpenWindow
  /\ sent' = 0
  /\ UNCHANGED <<modeVars, phase, attempt, pause, lookups>>

ApiNext ==
  \/ \E c \in Callers :
       \/ LocalHit(c) \/ AsksLimiter(c) \/ Unlimited(c)
       \/ Resumes(c) \/ Responds(c)
  \/ ApiTick
  \/ ApiWindow

ApiSpec == ApiInit /\ [][ApiNext]_apiVars

(* Sleepers are woken, time goes on, and every request ends: the client    *)
(* has a timeout.                                                          *)
ApiFairness ==
  /\ \A c \in Callers : WF_apiVars(Resumes(c)) /\ WF_apiVars(Responds(c))
  /\ WF_apiVars(ApiTick)
  /\ WF_apiVars(ApiWindow /\ window = MaxWindow)

ApiFairSpec == ApiSpec /\ ApiFairness
-----------------------------------------------------------------------------
(* What the limiter makes of it: each call it grants is worth up to        *)
(* 1 + Retries requests, and those who were granted before the window      *)
(* opened may still send their retries.  So ip-api sees no more requests   *)
(* than that, however the retries of one fall together with the calls of   *)
(* others.                                                                 *)
SentBound ==
  limited => sent <= (1 + Retries) * granted + Retries * Cardinality(Callers)

(* Every lookup comes to an end, with data or without: it is not retried   *)
(* for ever, and no newcomer keeps it waiting for a token for ever.        *)
LookupEnds == \A c \in Callers : (phase[c] # "idle") ~> (phase[c] = "idle")

(* "one HTTP call per IP, hard-limited to 45 req/min by a shared rate      *)
(* limiter" (geo_live.py): no stretch of time sees more requests than the  *)
(* limiter would grant.                                                    *)
HardLimited == Token * sent <= Capacity + Num * window
=============================================================================
