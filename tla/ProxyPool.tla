----------------------------- MODULE ProxyPool -----------------------------
(***************************************************************************)
(* The SOCKS5 proxy provider of online/proxy.py.  The first coroutine that *)
(* needs it loads the pool under a lock - from a local file, from the      *)
(* cache on disk, or from the first list that can be fetched - and all     *)
(* then take the shuffled proxies in turn.                                 *)
(*                                                                         *)
(* Coroutines of one event loop: an action is the code between two awaits. *)
(* The lock is held across an await by the loader alone.  A process may be *)
(* killed at any moment, within the write of the cache too; the cache file *)
(* is all it leaves.  A list is the set of its lines: the pool is          *)
(* shuffled, so their order does not matter, and parsing drops what names  *)
(* no proxy and what is repeated.                                          *)
(***************************************************************************)
EXTENDS Integers, Sequences, FiniteSets, SequencesExt

CONSTANTS
  Clients,    \* the coroutines that call the provider
  Proxies,    \* host:port lines
  Junk,       \* any other line: a comment, a torn or malformed entry
  UrlCount,   \* how many list URLs there are
  Nothing     \* no file, no client, no proxy

ASSUME ProxyPoolAssumption ==
  /\ IsFiniteSet(Proxies) /\ Junk \notin Proxies
  /\ Nothing \notin Clients \cup Proxies
  /\ \A lines \in SUBSET (Proxies \cup {Junk}) : lines # Nothing
  /\ UrlCount \in Nat \ {0}

Files == SUBSET (Proxies \cup {Junk})

VARIABLES
  cacheFile,  \* the cache on disk, or Nothing
  fresh,      \* its mtime is within the TTL
  local,      \* --proxy-file: the lines of the local file, or Nothing
  loaded,     \* _loaded
  pool,       \* _proxies
  turn,       \* _idx modulo the size of the pool, counted from 1
  holder,     \* who holds _lock while it loads
  vain,       \* how many URLs the load has asked in vain
  place,      \* per client: "away", "waiting" for _lock to load, "ready"
  handed      \* how often this process has handed out each proxy

diskVars == <<cacheFile, fresh>>
loadVars == <<local, loaded, pool, holder, vain>>
poolVars == <<diskVars, loadVars, turn, place, handed>>

Places == {"away", "waiting", "ready"}

PoolTypeOK ==
  /\ cacheFile \in {Nothing} \cup Files
  /\ fresh \in BOOLEAN
  /\ local \in {Nothing} \cup Files
  /\ loaded \in BOOLEAN
  /\ pool \in Seq(Proxies)
  /\ turn \in Nat \ {0} /\ (pool # <<>> => turn <= Len(pool))
  /\ holder \in Clients \cup {Nothing}
  /\ vain \in 0..UrlCount
  /\ place \in [Clients -> Places]
  /\ handed \in [Proxies -> Nat]

(* What parse_proxies keeps of a file or a list.                           *)
Parse(lines) == lines \cap Proxies

(* A provider as __init__ makes it, with local file l.                     *)
NewProvider(l) ==
  /\ local' = l
  /\ loaded' = FALSE /\ pool' = <<>> /\ turn' = 1
  /\ holder' = Nothing /\ vain' = 0
  /\ place' = [c \in Clients |-> "away"]
  /\ handed' = [p \in Proxies |-> 0]

PoolInit ==
  /\ cacheFile \in {Nothing} \cup Files
  /\ fresh \in BOOLEAN
  /\ local \in {Nothing} \cup Files
  /\ loaded = FALSE /\ pool = <<>> /\ turn = 1
  /\ holder = Nothing /\ vain = 0
  /\ place = [c \in Clients |-> "away"]
  /\ handed = [p \in Proxies |-> 0]

(* ensure_loaded or acquire is called: acquire looks at _loaded before it  *)
(* goes for the lock.                                                      *)
EnsureLoaded(c) ==
  /\ place[c] = "away"
  /\ place' = [place EXCEPT ![c] = "waiting"]
  /\ UNCHANGED <<diskVars, loadVars, turn, handed>>

Acquire(c) ==
  /\ place[c] = "away"
  /\ place' = [place EXCEPT ![c] = IF loaded THEN "ready" ELSE "waiting"]
  /\ UNCHANGED <<diskVars, loadVars, turn, handed>>

(* The lock not given back (used to test the properties).                  *)
LoadKeepsLock(c, S) ==
  /\ pool' \in SetToSeqs(S)
  /\ turn' = 1
  /\ loaded' = TRUE
  /\ holder' = c
  /\ place' = [place EXCEPT ![c] = "ready"]
  /\ UNCHANGED <<local, handed>>

(* A load ends with the proxies in S, whose shuffle becomes the pool; c    *)
(* gives the lock back.                                                    *)
Load(c, S) ==
  /\ pool' \in SetToSeqs(S)
  /\ turn' = 1
  /\ loaded' = TRUE
  /\ holder' = Nothing
  /\ place' = [place EXCEPT ![c] = "ready"]
  /\ UNCHANGED <<local, handed>>

(* c asks for the first URL, with the lock held.                           *)
BeginFetch(c) ==
  /\ holder' = c
  /\ vain' = 0
  /\ UNCHANGED <<local, loaded, pool, turn, place, handed>>

(* The cache is young enough and has a proxy in it.                        *)
CacheServes == cacheFile # Nothing /\ fresh /\ Parse(cacheFile) # {}

(* _loaded not looked at again under the lock (used to test the            *)
(* properties).                                                            *)
BeginLoadAgain(c) ==
  /\ place[c] = "waiting" /\ holder = Nothing
  /\ \/ local # Nothing /\ Load(c, Parse(local)) /\ UNCHANGED vain
     \/ local = Nothing /\ CacheServes /\ Load(c, Parse(cacheFile)) /\ UNCHANGED vain
     \/ local = Nothing /\ ~CacheServes /\ BeginFetch(c)
  /\ UNCHANGED diskVars

(* The lock is free and c finds the pool not loaded: _load, up to its      *)
(* first await.                                                            *)
BeginLoad(c) ==
  /\ place[c] = "waiting" /\ holder = Nothing
  /\ ~loaded
  /\ \/ local # Nothing /\ Load(c, Parse(local)) /\ UNCHANGED vain
     \/ local = Nothing /\ CacheServes /\ Load(c, Parse(cacheFile)) /\ UNCHANGED vain
     \/ local = Nothing /\ ~CacheServes /\ BeginFetch(c)
  /\ UNCHANGED diskVars

(* The lock is free and c finds the pool loaded since it looked.           *)
Recheck(c) ==
  /\ place[c] = "waiting" /\ holder = Nothing
  /\ loaded
  /\ place' = [place EXCEPT ![c] = "ready"]
  /\ UNCHANGED <<diskVars, loadVars, turn, handed>>

(* The URL in turn fails or lists no proxy, and another is left.           *)
FetchNext(c) ==
  /\ holder = c /\ vain + 1 < UrlCount
  /\ vain' = vain + 1
  /\ UNCHANGED <<diskVars, local, loaded, pool, holder, turn, place, handed>>

(* The last URL fails, and the old cache is not tried (used to test the    *)
(* properties).                                                            *)
FetchFailsBare(c) ==
  /\ holder = c /\ vain + 1 = UrlCount
  /\ vain' = UrlCount
  /\ Load(c, {})
  /\ UNCHANGED diskVars

(* The last URL fails too: an old cache serves after all, if there is one. *)
FetchFails(c) ==
  /\ holder = c /\ vain + 1 = UrlCount
  /\ vain' = UrlCount
  /\ Load(c, IF cacheFile = Nothing THEN {} ELSE Parse(cacheFile))
  /\ UNCHANGED diskVars

(* What a write of S that breaks off leaves: some of its lines, the last   *)
(* of them torn - which may make another proxy of it, or else is no line   *)
(* that counts.                                                            *)
Parts(S) ==
  {whole \cup torn : whole \in SUBSET S, torn \in {{}} \cup {{p} : p \in Proxies}}

(* The URL in turn lists S, which is written over the cache - an OSError   *)
(* leaves the old one or a part of the new - and becomes the pool.         *)
Fetched(c, S) ==
  /\ holder = c
  /\ S # {}
  /\ Load(c, S)
  /\ \/ cacheFile' = S /\ fresh' = TRUE
     \/ UNCHANGED diskVars
     \/ cacheFile' \in Parts(S) /\ fresh' = TRUE
  /\ vain' = 0

(* ensure_loaded returns to who called it.                                 *)
Return(c) ==
  /\ place[c] = "ready"
  /\ place' = [place EXCEPT ![c] = "away"]
  /\ UNCHANGED <<diskVars, loadVars, turn, handed>>

(* What acquire returns: the proxy whose turn it is.                       *)
Turn == IF pool = <<>> THEN Nothing ELSE pool[turn]

(* The turn not taken modulo the size of the pool (used to test the        *)
(* properties).                                                            *)
TakeUnbounded(c) ==
  /\ place[c] = "ready"
  /\ place' = [place EXCEPT ![c] = "away"]
  /\ IF pool = <<>> THEN UNCHANGED <<turn, handed>>
     ELSE /\ turn' = turn + 1
          /\ handed' = [handed EXCEPT ![pool[turn]] = @ + 1]
  /\ UNCHANGED <<diskVars, loadVars>>

(* acquire returns Turn, and the next proxy has the turn.                  *)
Take(c) ==
  /\ place[c] = "ready"
  /\ place' = [place EXCEPT ![c] = "away"]
  /\ IF pool = <<>> THEN UNCHANGED <<turn, handed>>
     ELSE /\ turn' = IF turn = Len(pool) THEN 1 ELSE turn + 1
          /\ handed' = [handed EXCEPT ![pool[turn]] = @ + 1]
  /\ UNCHANGED <<diskVars, loadVars>>

(* The TTL of the cache passes.                                            *)
Expire ==
  /\ fresh /\ cacheFile # Nothing
  /\ fresh' = FALSE
  /\ UNCHANGED <<cacheFile, loadVars, turn, place, handed>>

(* The process ends, or is killed - in the write of the cache perhaps,     *)
(* which leaves a part of the list with a new mtime - and another begins,  *)
(* with local file l.                                                      *)
Restart(l) ==
  /\ NewProvider(l)
  /\ \/ UNCHANGED diskVars
     \/ holder # Nothing /\ cacheFile' \in Parts(Proxies) /\ fresh' = TRUE

(* The steps of the provider itself, once a client has called it.          *)
Loading(c) ==
  \/ BeginLoad(c) \/ Recheck(c) \/ FetchNext(c) \/ FetchFails(c)
  \/ \E S \in SUBSET Proxies : Fetched(c, S)

PoolNext ==
  \/ \E c \in Clients :
       EnsureLoaded(c) \/ Acquire(c) \/ Loading(c) \/ Return(c) \/ Take(c)
  \/ Expire
  \/ \E l \in {Nothing} \cup Files : Restart(l)

PoolSpec == PoolInit /\ [][PoolNext]_poolVars
-----------------------------------------------------------------------------
(* The proxies take turns: however many coroutines raced to load the pool  *)
(* and draw from it, none of it has been used twice more than another.     *)
EvenTurns ==
  \A i, j \in DOMAIN pool : handed[pool[i]] <= handed[pool[j]] + 1

(* A process goes without proxies only when none was to be had: no line of *)
(* the local file names one; or every URL was asked in vain and the cache  *)
(* has none - also after a kill that left a new, empty cache.              *)
NeverStarved ==
  loaded /\ pool = <<>> =>
    IF local # Nothing THEN Parse(local) = {}
    ELSE vain = UrlCount /\ (cacheFile = Nothing \/ Parse(cacheFile) = {})
=============================================================================
