------------------------ MODULE ProxyFallbackProofs ------------------------
(***************************************************************************)
(* Proofs about ProxyPool, for any clients, proxies and URLs, and about    *)
(* ProxyFallback: what it does to the provider are the provider's steps,   *)
(* so what holds of the pool holds of every run; and no line of the input  *)
(* is lost, retried too little or written twice.                           *)
(***************************************************************************)
EXTENDS ProxyFallback, FiniteSetTheorems, TLAPS

(* Each round gives every proxy one turn: those before the one whose turn  *)
(* it is are one round ahead.                                              *)
Rounds ==
  pool # <<>> =>
    \E r \in Nat : \A i \in 1..Len(pool) :
      handed[pool[i]] = IF i < turn THEN r + 1 ELSE r

AllDifferent ==
  \A i, j \in 1..Len(pool) : pool[i] = pool[j] => i = j

(* Nothing is handed out of a pool that is not loaded, and who holds the   *)
(* lock has not loaded it.                                                 *)
NotLoaded ==
  /\ ~loaded => pool = <<>> /\ handed = [p \in Proxies |-> 0]
  /\ holder # Nothing => ~loaded

(* Only a provider without a local file fetches lists.                     *)
FetchesNoLocal == holder # Nothing => local = Nothing /\ vain < UrlCount

PoolIInv == /\ PoolTypeOK /\ Rounds /\ AllDifferent
            /\ NotLoaded /\ FetchesNoLocal /\ NeverStarved
-----------------------------------------------------------------------------
(* A shuffle of S is a sequence of all its members, each of them once.     *)
LEMMA Shuffle ==
  ASSUME NEW S \in SUBSET Proxies, NEW q \in SetToSeqs(S)
  PROVE  /\ q \in Seq(Proxies)
         /\ \A i, j \in 1..Len(q) : q[i] = q[j] => i = j
         /\ q = <<>> <=> S = {}
<1>1. IsFiniteSet(S)
  BY ProxyPoolAssumption, FS_Subset
<1>2. Cardinality(S) \in Nat /\ (Cardinality(S) = 0 <=> S = {})
  BY <1>1, FS_CardinalityType, FS_EmptySet
<1>3. /\ q \in [1..Cardinality(S) -> S]
      /\ \A i, j \in 1..Cardinality(S) : i # j => q[i] # q[j]
  BY DEF SetToSeqs
<1>4. q \in Seq(S) /\ Len(q) = Cardinality(S)
  BY <1>2, <1>3
<1>5. q \in Seq(Proxies)
  BY <1>4
<1>6. q = <<>> <=> Len(q) = 0
  BY <1>4
<1>7. QED
  BY <1>2, <1>3, <1>4, <1>5, <1>6

LEMMA PoolInitIInv == PoolInit => PoolIInv
<1> SUFFICES ASSUME PoolInit PROVE PoolIInv
  OBVIOUS
<1>1. PoolTypeOK
  <2>1. pool \in Seq(Proxies) /\ turn \in Nat \ {0} /\ (pool # <<>> => turn <= Len(pool))
    BY DEF PoolInit
  <2>2. /\ cacheFile \in {Nothing} \cup Files /\ fresh \in BOOLEAN
        /\ local \in {Nothing} \cup Files /\ loaded \in BOOLEAN
        /\ holder \in Clients \cup {Nothing}
    BY DEF PoolInit
  <2>3. /\ vain \in 0..UrlCount /\ place \in [Clients -> Places]
        /\ handed \in [Proxies -> Nat]
    BY ProxyPoolAssumption DEF PoolInit, Places
  <2>4. QED
    BY <2>1, <2>2, <2>3 DEF PoolTypeOK
<1>2. pool = <<>> /\ ~loaded /\ holder = Nothing /\ handed = [p \in Proxies |-> 0]
  BY DEF PoolInit
<1>3. QED
  BY <1>1, <1>2
  DEF PoolIInv, Rounds, AllDifferent, NotLoaded, FetchesNoLocal, NeverStarved

(* A provider made anew has handed out nothing.                            *)
LEMMA NewProviderIInv ==
  ASSUME PoolIInv, NEW l \in {Nothing} \cup Files, NewProvider(l),
         cacheFile' \in {Nothing} \cup Files, fresh' \in BOOLEAN
  PROVE  PoolIInv'
<1>1. PoolTypeOK'
  <2>1. /\ pool' \in Seq(Proxies) /\ turn' \in Nat \ {0}
        /\ pool' # <<>> => turn' <= Len(pool')
    BY DEF NewProvider
  <2>2. /\ local' \in {Nothing} \cup Files /\ loaded' \in BOOLEAN
        /\ holder' \in Clients \cup {Nothing}
    BY DEF NewProvider
  <2>3. /\ vain' \in 0..UrlCount /\ place' \in [Clients -> Places]
        /\ handed' \in [Proxies -> Nat]
    BY ProxyPoolAssumption DEF NewProvider, Places
  <2>4. QED
    BY <2>1, <2>2, <2>3 DEF PoolTypeOK
<1>2. /\ pool' = <<>> /\ ~loaded' /\ holder' = Nothing
      /\ handed' = [p \in Proxies |-> 0]
  BY DEF NewProvider
<1>3. QED
  BY <1>1, <1>2
  DEF PoolIInv, Rounds, AllDifferent, NotLoaded, FetchesNoLocal, NeverStarved

(* A load begins a first round; S is empty only if nothing was to be had.  *)
LEMMA LoadIInv ==
  ASSUME PoolIInv, NEW c \in Clients, NEW S \in SUBSET Proxies, Load(c, S), ~loaded,
         cacheFile' \in {Nothing} \cup Files, fresh' \in BOOLEAN, vain' \in 0..UrlCount,
         S = {} => IF local # Nothing THEN Parse(local) = {}
                   ELSE vain' = UrlCount /\ (cacheFile' = Nothing \/ Parse(cacheFile') = {})
  PROVE  PoolIInv'
<1>1. /\ pool' \in Seq(Proxies) /\ AllDifferent'
      /\ pool' = <<>> <=> S = {}
  BY Shuffle DEF Load, AllDifferent
<1>2. PoolTypeOK'
  <2>1. turn' = 1 /\ (pool' # <<>> => turn' <= Len(pool'))
    BY <1>1 DEF Load
  <2>2. QED
    BY <1>1, <2>1 DEF PoolIInv, PoolTypeOK, Load, Places
<1>3. Rounds'
  <2>1. handed' = [p \in Proxies |-> 0] /\ turn' = 1
    BY DEF PoolIInv, NotLoaded, Load
  <2>2. \A i \in 1..Len(pool') : pool'[i] \in Proxies /\ ~(i < turn')
    BY <1>1, <2>1
  <2>3. \A i \in 1..Len(pool') : handed'[pool'[i]] = IF i < turn' THEN 0 + 1 ELSE 0
    BY <2>1, <2>2
  <2>4. QED
    BY <2>3 DEF Rounds
<1>4. NotLoaded' /\ FetchesNoLocal'
  BY DEF Load, NotLoaded, FetchesNoLocal
<1>5. NeverStarved'
  BY <1>1 DEF NeverStarved, Load
<1>6. QED
  BY <1>1, <1>2, <1>3, <1>4, <1>5 DEF PoolIInv

LEMMA BeginLoadIInv ==
  ASSUME PoolIInv, NEW c \in Clients, BeginLoad(c)
  PROVE  PoolIInv'
<1>1. cacheFile' \in {Nothing} \cup Files /\ fresh' \in BOOLEAN /\ ~loaded
  BY DEF BeginLoad, diskVars, PoolIInv, PoolTypeOK
<1>2. CASE local # Nothing /\ Load(c, Parse(local)) /\ UNCHANGED vain
  <2>1. Parse(local) \in SUBSET Proxies /\ vain' \in 0..UrlCount
    BY <1>2 DEF Parse, PoolIInv, PoolTypeOK
  <2>2. QED
    BY <1>1, <1>2, <2>1, LoadIInv
<1>3. CASE local = Nothing /\ CacheServes /\ Load(c, Parse(cacheFile)) /\ UNCHANGED vain
  <2>1. /\ Parse(cacheFile) \in SUBSET Proxies /\ Parse(cacheFile) # {}
        /\ vain' \in 0..UrlCount
    BY <1>3 DEF Parse, CacheServes, PoolIInv, PoolTypeOK
  <2>2. QED
    BY <1>1, <1>3, <2>1, LoadIInv
<1>4. CASE local = Nothing /\ ~CacheServes /\ BeginFetch(c)
  <2>1. PoolTypeOK'
    BY <1>1, <1>4, ProxyPoolAssumption DEF BeginFetch, PoolIInv, PoolTypeOK
  <2>2. /\ pool' = pool /\ handed' = handed /\ turn' = turn
        /\ loaded' = loaded /\ local' = local /\ vain' = 0
    BY <1>4 DEF BeginFetch
  <2>3. QED
    BY <1>1, <1>4, <2>1, <2>2, ProxyPoolAssumption
    DEF PoolIInv, Rounds, AllDifferent, NotLoaded, FetchesNoLocal, NeverStarved
<1>5. QED
  BY <1>2, <1>3, <1>4 DEF BeginLoad

LEMMA FetchIInv ==
  ASSUME PoolIInv, NEW c \in Clients,
         FetchNext(c) \/ FetchFails(c) \/ \E S \in SUBSET Proxies : Fetched(c, S)
  PROVE  PoolIInv'
<1>1. ~loaded /\ local = Nothing /\ holder = c
  BY ProxyPoolAssumption
  DEF FetchNext, FetchFails, Fetched, PoolIInv, NotLoaded, FetchesNoLocal
<1>2. CASE FetchNext(c)
  <2>1. PoolTypeOK'
    BY <1>2, ProxyPoolAssumption DEF FetchNext, diskVars, PoolIInv, PoolTypeOK
  <2>2. vain' < UrlCount
    BY <1>2 DEF FetchNext
  <2>3. QED
    BY <1>1, <1>2, <2>1, <2>2
    DEF FetchNext, diskVars, PoolIInv, Rounds, AllDifferent, NotLoaded,
        FetchesNoLocal, NeverStarved
<1>3. CASE FetchFails(c)
  <2> DEFINE S == IF cacheFile = Nothing THEN {} ELSE Parse(cacheFile)
  <2>1. /\ S \in SUBSET Proxies /\ Load(c, S)
        /\ cacheFile' \in {Nothing} \cup Files /\ fresh' \in BOOLEAN
        /\ cacheFile' = cacheFile
        /\ vain' = UrlCount /\ vain' \in 0..UrlCount
    BY <1>3, ProxyPoolAssumption DEF FetchFails, Parse, diskVars, PoolIInv, PoolTypeOK
  <2>2. S = {} => cacheFile' = Nothing \/ Parse(cacheFile') = {}
    BY <2>1
  <2> HIDE DEF S
  <2>3. QED
    BY <1>1, <2>1, <2>2, LoadIInv
<1>4. ASSUME NEW S \in SUBSET Proxies, Fetched(c, S)
      PROVE  PoolIInv'
  <2>1. S # {} /\ Load(c, S) /\ vain' = 0 /\ vain' \in 0..UrlCount
    BY <1>4, ProxyPoolAssumption DEF Fetched
  <2>2. Parts(S) \subseteq Files /\ S \in Files
    BY DEF Parts, Files
  <2>3. cacheFile' \in {Nothing} \cup Files /\ fresh' \in BOOLEAN
    BY <1>4, <2>2 DEF Fetched, diskVars, PoolIInv, PoolTypeOK
  <2>4. QED
    BY <1>1, <2>1, <2>3, LoadIInv
<1>5. QED
  BY <1>2, <1>3, <1>4

(* What changes no more than where a client is.                            *)
LEMMA PlaceIInv ==
  ASSUME PoolIInv, place' \in [Clients -> Places],
         UNCHANGED <<diskVars, loadVars, turn, handed>>
  PROVE  PoolIInv'
<1>1. PoolTypeOK'
  BY DEF diskVars, loadVars, PoolIInv, PoolTypeOK
<1>2. Rounds' /\ AllDifferent' /\ NotLoaded' /\ FetchesNoLocal' /\ NeverStarved'
  BY DEF diskVars, loadVars, PoolIInv, Rounds, AllDifferent, NotLoaded,
         FetchesNoLocal, NeverStarved, Parse
<1>3. QED
  BY <1>1, <1>2 DEF PoolIInv

(* The turn moves on, into a new round after the last proxy.               *)
LEMMA TakeIInv ==
  ASSUME PoolIInv, NEW c \in Clients, Take(c)
  PROVE  PoolIInv'
<1>1. place' \in [Clients -> Places]
  BY DEF Take, PoolIInv, PoolTypeOK, Places
<1>2. CASE pool = <<>>
  BY <1>1, <1>2, PlaceIInv DEF Take
<1>3. CASE pool # <<>>
  <2> DEFINE n == Len(pool)
  <2>1. /\ pool \in Seq(Proxies) /\ n \in Nat \ {0} /\ turn \in 1..n
        /\ handed \in [Proxies -> Nat] /\ pool[turn] \in Proxies
    BY <1>3 DEF PoolIInv, PoolTypeOK
  <2>2. /\ turn' = IF turn = n THEN 1 ELSE turn + 1
        /\ handed' = [handed EXCEPT ![pool[turn]] = @ + 1]
        /\ UNCHANGED <<diskVars, loadVars>>
    BY <1>3 DEF Take
  <2>3. PoolTypeOK'
    BY <1>1, <2>1, <2>2 DEF PoolIInv, PoolTypeOK, diskVars, loadVars
  <2>4. PICK r \in Nat : \A i \in 1..n : handed[pool[i]] = IF i < turn THEN r + 1 ELSE r
    BY <1>3 DEF PoolIInv, Rounds
  <2>5. \A i \in 1..n : pool[i] \in Proxies /\ (pool[i] = pool[turn] <=> i = turn)
    BY <2>1 DEF PoolIInv, AllDifferent
  <2>6. \A i \in 1..n : handed'[pool[i]] = IF i = turn THEN handed[pool[i]] + 1 ELSE handed[pool[i]]
    BY <2>1, <2>2, <2>5
  <2>7. \A i \in 1..n : handed'[pool[i]] = IF i <= turn THEN r + 1 ELSE r
    BY <2>1, <2>4, <2>6
  <2>8. \E q \in Nat : \A i \in 1..n : handed'[pool[i]] = IF i < turn' THEN q + 1 ELSE q
    <3>1. CASE turn = n
      <4>1. \A i \in 1..n : i <= turn /\ ~(i < turn')
        BY <2>1, <2>2, <3>1
      <4>2. r + 1 \in Nat
        OBVIOUS
      <4>3. WITNESS r + 1 \in Nat
      <4>4. QED
        BY <2>7, <4>1
    <3>2. CASE turn # n
      <4>1. \A i \in 1..n : handed'[pool[i]] = IF i < turn' THEN r + 1 ELSE r
        BY <2>1, <2>2, <2>7, <3>2
      <4>2. QED
        BY <4>1
    <3>3. QED
      BY <3>1, <3>2
  <2>9. Rounds' /\ AllDifferent'
    BY <2>2, <2>8 DEF loadVars, Rounds, PoolIInv, AllDifferent
  <2>10. loaded /\ UNCHANGED <<cacheFile, fresh, local, loaded, pool, holder, vain>>
    BY <1>3, <2>2 DEF PoolIInv, NotLoaded, diskVars, loadVars
  <2>11. NotLoaded' /\ FetchesNoLocal' /\ NeverStarved'
    BY <2>10 DEF PoolIInv, NotLoaded, FetchesNoLocal, NeverStarved, Parse
  <2>12. QED
    BY <2>3, <2>9, <2>11 DEF PoolIInv
<1>4. QED
  BY <1>2, <1>3

LEMMA PoolStepIInv == PoolIInv /\ [PoolNext]_poolVars => PoolIInv'
<1> SUFFICES ASSUME PoolIInv, [PoolNext]_poolVars PROVE PoolIInv'
  OBVIOUS
<1>1. ASSUME NEW c \in Clients, EnsureLoaded(c) PROVE PoolIInv'
  BY <1>1, PlaceIInv DEF EnsureLoaded, PoolIInv, PoolTypeOK, Places
<1>2. ASSUME NEW c \in Clients, Acquire(c) PROVE PoolIInv'
  BY <1>2, PlaceIInv DEF Acquire, PoolIInv, PoolTypeOK, Places
<1>3. ASSUME NEW c \in Clients, Loading(c) PROVE PoolIInv'
  <2>1. CASE Recheck(c)
    BY <2>1, PlaceIInv DEF Recheck, PoolIInv, PoolTypeOK, Places
  <2>2. QED
    BY <1>3, <2>1, BeginLoadIInv, FetchIInv DEF Loading
<1>4. ASSUME NEW c \in Clients, Return(c) PROVE PoolIInv'
  BY <1>4, PlaceIInv DEF Return, PoolIInv, PoolTypeOK, Places
<1>5. ASSUME NEW c \in Clients, Take(c) PROVE PoolIInv'
  BY <1>5, TakeIInv
<1>6. CASE Expire
  <2>1. /\ UNCHANGED <<cacheFile, local, loaded, pool, holder, vain, turn, place, handed>>
        /\ fresh' \in BOOLEAN
    BY <1>6 DEF Expire, loadVars
  <2>2. PoolTypeOK'
    BY <2>1 DEF PoolIInv, PoolTypeOK
  <2>3. Rounds' /\ AllDifferent' /\ NotLoaded' /\ FetchesNoLocal' /\ NeverStarved'
    BY <2>1 DEF PoolIInv, Rounds, AllDifferent, NotLoaded, FetchesNoLocal,
                NeverStarved, Parse
  <2>4. QED
    BY <2>2, <2>3 DEF PoolIInv
<1>7. ASSUME NEW l \in {Nothing} \cup Files, Restart(l) PROVE PoolIInv'
  <2>1. Parts(Proxies) \subseteq Files
    BY DEF Parts, Files
  <2>2. cacheFile' \in {Nothing} \cup Files /\ fresh' \in BOOLEAN
    BY <1>7, <2>1 DEF Restart, diskVars, PoolIInv, PoolTypeOK
  <2>3. QED
    BY <1>7, <2>2, NewProviderIInv DEF Restart
<1>8. CASE UNCHANGED poolVars
  BY <1>8, PlaceIInv DEF poolVars, PoolIInv, PoolTypeOK
<1>9. QED
  BY <1>1, <1>2, <1>3, <1>4, <1>5, <1>6, <1>7, <1>8 DEF PoolNext

LEMMA PoolInvariant == PoolSpec => []PoolIInv
BY PoolInitIInv, PoolStepIInv, PTL DEF PoolSpec

LEMMA RoundsAreEven == PoolIInv => EvenTurns
<1> SUFFICES ASSUME PoolIInv, pool # <<>>, NEW i \in DOMAIN pool, NEW j \in DOMAIN pool
             PROVE  handed[pool[i]] <= handed[pool[j]] + 1
  BY DEF EvenTurns, PoolIInv, PoolTypeOK
<1>1. i \in 1..Len(pool) /\ j \in 1..Len(pool)
  BY DEF PoolIInv, PoolTypeOK
<1>2. PICK r \in Nat : \A k \in 1..Len(pool) : handed[pool[k]] = IF k < turn THEN r + 1 ELSE r
  BY DEF PoolIInv, Rounds
<1>3. QED
  BY <1>1, <1>2

(* However the coroutines race to load the pool and draw from it, no proxy *)
(* is used twice more than another (proxy.py, acquire).                    *)
THEOREM TakenInTurn == PoolSpec => []EvenTurns
BY PoolInvariant, RoundsAreEven, PTL

(* An empty pool means that none was to be had - after any kills and with  *)
(* whatever they left of the cache (proxy.py, _load).                      *)
THEOREM EmptyOnlyIfNone == PoolSpec => []NeverStarved
<1>1. PoolIInv => NeverStarved
  BY DEF PoolIInv
<1>2. QED
  BY <1>1, PoolInvariant, PTL
-----------------------------------------------------------------------------
(* Every step of a run is a step of the provider, or none of its concern.  *)
LEMMA StepOfPool == [Next]_vars => [PoolNext]_poolVars
<1> SUFFICES ASSUME [Next]_vars PROVE [PoolNext]_poolVars
  OBVIOUS
<1> USE ProxyFallbackAssumption
<1>1. ASSUME NEW k \in {"check", "render"}, NEW p \in BOOLEAN, NEW first \in BOOLEAN,
             NEW l \in LocalFiles, Begin(k, p, l, first)
      PROVE  PoolNext
  BY <1>1 DEF Begin, PoolNext
<1>2. CASE LoadFirst \/ Loaded
  BY <1>2 DEF LoadFirst, Loaded, PoolNext
<1>3. ASSUME NEW c \in Clients, PoolStep(c) PROVE PoolNext
  BY <1>3 DEF PoolStep, PoolNext
<1>4. ASSUME NEW w \in Workers, Worker(w) PROVE [PoolNext]_poolVars
  <2>1. w \in Clients
    OBVIOUS
  <2>2. CASE TakeItem(w) \/ Answered(w) \/ Unanswered(w) \/ Raises(w) \/ GivesUp(w)
    BY <2>2 DEF TakeItem, Answered, Unanswered, Raises, GivesUp
  <2>3. CASE Asks(w) \/ GetsProxy(w)
    BY <2>1, <2>3 DEF Asks, GetsProxy, PoolNext
  <2>4. QED
    BY <1>4, <2>2, <2>3 DEF Worker
<1>5. CASE Finishing
  BY <1>5 DEF Finishing, WriteSuccess, WriteFailed, Rendered
<1>6. CASE Expire
  BY <1>6 DEF PoolNext
<1>7. CASE Kill
  BY <1>7 DEF Kill, PoolNext
<1>8. CASE UNCHANGED vars
  BY <1>8 DEF vars
<1>9. QED
  BY <1>1, <1>2, <1>3, <1>4, <1>5, <1>6, <1>7, <1>8 DEF Next

(* The checker and the renderer use the provider as it is meant to be      *)
(* used: a run is a behaviour of ProxyPool.                                *)
THEOREM RunsUsePool == Spec => PoolSpec
<1>1. Init => PoolInit
  BY DEF Init
<1>2. QED
  BY <1>1, StepOfPool, PTL DEF Spec, PoolSpec

(* And so the workers of every run take the proxies in even turns and are  *)
(* left without them only if there are none.                               *)
THEOREM RunsTakeTurns == Spec => [](EvenTurns /\ NeverStarved)
BY RunsUsePool, TakenInTurn, EmptyOnlyIfNone, PTL
-----------------------------------------------------------------------------
(* Who is let through to the pool finds it loaded.                         *)
ReadyIsLoaded == \A c \in Clients : place[c] = "ready" => loaded

(* The run's own variables have their types.                               *)
WorkTypes ==
  /\ run \in {"none", "loading", "working", "half", "over"}
  /\ runs \in 0..MaxRuns
  /\ kind \in {"check", "render"}
  /\ proxied \in BOOLEAN
  /\ queue \in Seq(Range(Input))
  /\ item \in [Workers -> Range(Input) \cup {Nothing}]
  /\ step \in [Workers -> {"idle", "direct", "asking", "probing", "next", "out"}]
  /\ attempt \in [Workers -> 0..MaxAttempts]
  /\ results \in Seq(Results)

(* A worker has an item between its turns and no other time, asks for a    *)
(* proxy only with an attempt left, and goes when nothing is left; the     *)
(* files are written when all are gone.                                    *)
AtWork ==
  /\ \A w \in Workers :
       /\ item[w] = Nothing <=> step[w] \in {"idle", "out"}
       /\ step[w] = "asking" => attempt[w] < MaxAttempts
       /\ step[w] = "out" => queue = <<>>
  /\ run \in {"half", "over"} => AllOut

Busy == {w \in Workers : item[w] # Nothing}

(* Every line of the input is in the queue, with a worker or in the        *)
(* results, and each once.                                                 *)
Ledger ==
  /\ IsFiniteSet(Busy)
  /\ run \in {"loading", "working", "half"} =>
       /\ Len(queue) + Cardinality(Busy) + Len(results) = Len(Input)
       /\ \A x \in Range(Input) :
            \/ \E i \in 1..Len(queue) : queue[i] = x
            \/ \E w \in Workers : item[w] = x
            \/ \E i \in 1..Len(results) : results[i].item = x

FileTypes ==
  \A file \in {success, failed} :
    DOMAIN file \subseteq 1..Len(Input) /\ Range(file) \subseteq Range(Input)

(* The first file is there before the second.                              *)
Written == run = "half" => kind = "check" /\ success = File(TRUE)

RunIInv == /\ WorkTypes /\ AtWork /\ Ledger /\ FileTypes /\ Written
           /\ RetriedInFull /\ FilesPartition

(* A provider is made with nobody let through, and a load lets through     *)
(* when it is over.                                                        *)
LEMMA ReadyStep == PoolIInv /\ ReadyIsLoaded /\ [PoolNext]_poolVars => ReadyIsLoaded'
<1> SUFFICES ASSUME PoolIInv, ReadyIsLoaded, [PoolNext]_poolVars PROVE ReadyIsLoaded'
  OBVIOUS
<1>1. place \in [Clients -> Places]
  BY DEF PoolIInv, PoolTypeOK
<1>2. ASSUME NEW c \in Clients, EnsureLoaded(c) \/ Acquire(c) \/ Return(c) \/ Take(c)
      PROVE  ReadyIsLoaded'
  BY <1>1, <1>2 DEF EnsureLoaded, Acquire, Return, Take, loadVars, ReadyIsLoaded
<1>3. ASSUME NEW c \in Clients, Loading(c) PROVE ReadyIsLoaded'
  BY <1>1, <1>3
  DEF Loading, BeginLoad, Recheck, FetchNext, FetchFails, Fetched, Load, BeginFetch,
      loadVars, ReadyIsLoaded
<1>4. ASSUME NEW l \in {Nothing} \cup Files, Restart(l) PROVE ReadyIsLoaded'
  BY <1>4 DEF Restart, NewProvider, ReadyIsLoaded
<1>5. Expire \/ UNCHANGED poolVars => ReadyIsLoaded'
  BY DEF Expire, loadVars, poolVars, ReadyIsLoaded
<1>6. QED
  BY <1>2, <1>3, <1>4, <1>5 DEF PoolNext

(* What is loaded is not loaded again.                                     *)
LEMMA PoolKept ==
  ASSUME PoolIInv, NEW c \in Clients, Loading(c), loaded
  PROVE  UNCHANGED <<loaded, pool>>
BY ProxyPoolAssumption
DEF PoolIInv, NotLoaded, Loading, BeginLoad, Recheck, FetchNext, FetchFails, Fetched, loadVars

(* While a provider lasts and no result is added, what was said of the     *)
(* results holds.                                                          *)
LEMMA RetriedStays ==
  ASSUME RetriedInFull, UNCHANGED <<results, proxied>>, loaded => UNCHANGED <<loaded, pool>>
  PROVE  RetriedInFull'
BY DEF RetriedInFull

(* What the files hold is only looked at when the run is over.             *)
LEMMA FilesStay ==
  ASSUME FileTypes, FilesPartition, UNCHANGED <<fileVars, kind>>, run' = "over" => run = "over"
  PROVE  FileTypes' /\ FilesPartition'
BY DEF FileTypes, FilesPartition, fileVars

(* The invariant of a run holds before the first ...                      *)
LEMMA RunInitIInv == Init => RunIInv
<1> SUFFICES ASSUME Init PROVE RunIInv
  OBVIOUS
<1>1. WorkTypes
  <2>1. MaxAttempts \in Nat /\ MaxRuns \in Nat
    BY ProxyFallbackAssumption
  <2>2. queue \in Seq(Range(Input)) /\ results \in Seq(Results)
    BY DEF Init
  <2>3. /\ item \in [Workers -> Range(Input) \cup {Nothing}]
        /\ step \in [Workers -> {"idle", "direct", "asking", "probing", "next", "out"}]
        /\ attempt \in [Workers -> 0..MaxAttempts]
    BY <2>1 DEF Init
  <2>4. proxied \in BOOLEAN
    BY DEF Init
  <2>5. QED
    BY <2>1, <2>2, <2>3, <2>4 DEF Init, WorkTypes
<1>2. AtWork
  BY DEF Init, AtWork
<1>3. Ledger
  <2>1. Busy = {}
    BY DEF Init, Busy
  <2>2. QED
    BY <2>1, FS_EmptySet DEF Init, Ledger
<1>4. FileTypes /\ Written /\ RetriedInFull /\ FilesPartition
  BY DEF Init, FileTypes, Written, RetriedInFull, FilesPartition, Range
<1>5. QED
  BY <1>1, <1>2, <1>3, <1>4 DEF RunIInv

(* A run begins, or is killed: the workers have nothing, the results are   *)
(* empty and the files what they were.                                     *)
LEMMA AnewIInv ==
  ASSUME RunIInv, Idle, UNCHANGED fileVars,
         kind' \in {"check", "render"}, proxied' \in BOOLEAN, runs' \in 0..MaxRuns,
         \/ /\ run' \in {"loading", "working"} /\ queue' = Input
            /\ step' = [w \in Workers |-> "idle"]
         \/ run' = "none" /\ queue' = <<>> /\ step' = [w \in Workers |-> "out"]
  PROVE  RunIInv'
<1>1. /\ item' = [w \in Workers |-> Nothing] /\ attempt' = [w \in Workers |-> 0]
      /\ results' = <<>>
  BY DEF Idle
<1>2. WorkTypes'
  <2>1. MaxAttempts \in Nat /\ Input \in Seq(Range(Input))
    BY ProxyFallbackAssumption
  <2>2. queue' \in Seq(Range(Input)) /\ results' \in Seq(Results)
    <3>1. <<>> \in Seq(Range(Input)) /\ <<>> \in Seq(Results)
      OBVIOUS
    <3>2. QED
      BY <1>1, <2>1, <3>1, Zenon
  <2>3. /\ item' \in [Workers -> Range(Input) \cup {Nothing}]
        /\ step' \in [Workers -> {"idle", "direct", "asking", "probing", "next", "out"}]
        /\ attempt' \in [Workers -> 0..MaxAttempts]
    BY <1>1, <2>1
  <2>4. QED
    BY <2>2, <2>3 DEF WorkTypes
<1>3. AtWork'
  BY <1>1 DEF AtWork
<1>4. Ledger'
  <2>1. Busy' = {}
    BY <1>1 DEF Busy
  <2>2. IsFiniteSet(Busy') /\ Cardinality(Busy') = 0
    BY <2>1, FS_EmptySet
  <2>3. Len(Input) \in Nat /\ \A x \in Range(Input) : \E i \in 1..Len(Input) : Input[i] = x
    BY ProxyFallbackAssumption DEF Range
  <2>4. QED
    BY <1>1, <2>2, <2>3 DEF Ledger
<1>5. FileTypes' /\ Written' /\ FilesPartition'
  BY DEF RunIInv, FileTypes, fileVars, Written, FilesPartition
<1>6. RetriedInFull'
  BY <1>1 DEF RetriedInFull, Range
<1>7. QED
  BY <1>2, <1>3, <1>4, <1>5, <1>6 DEF RunIInv

(* A worker goes on with its item.                                         *)
LEMMA MovesIInv ==
  ASSUME RunIInv, NEW w \in Workers, step[w] \notin {"idle", "out"},
         NEW s \in {"direct", "asking", "probing", "next"}, step' = [step EXCEPT ![w] = s],
         attempt' \in [Workers -> 0..MaxAttempts], \A v \in Workers \ {w} : attempt'[v] = attempt[v],
         s = "asking" => attempt'[w] < MaxAttempts,
         UNCHANGED <<queue, item, results, fileVars, runVars>>,
         loaded => UNCHANGED <<loaded, pool>>
  PROVE  RunIInv'
<1>1. WorkTypes'
  BY DEF RunIInv, WorkTypes, runVars
<1>2. AtWork'
  BY DEF RunIInv, WorkTypes, AtWork, AllOut, runVars
<1>3. Busy' = Busy
  BY DEF Busy
<1>4. Ledger'
  BY <1>3 DEF RunIInv, Ledger, runVars
<1>5. Written' /\ RetriedInFull'
  BY RetriedStays DEF RunIInv, Written, File, runVars, fileVars
<1>6. FileTypes' /\ FilesPartition'
  BY FilesStay DEF RunIInv, runVars
<1>7. QED
  BY <1>1, <1>2, <1>4, <1>5, <1>6 DEF RunIInv

(* A worker is through with its item: one worker less has one, and there   *)
(* is one result more.                                                     *)
LEMMA ConcludesIInv ==
  ASSUME RunIInv, NEW w \in Workers, step[w] \notin {"idle", "out"},
         NEW r \in Results, r.item = item[w], results' = Append(results, r),
         item' = [item EXCEPT ![w] = Nothing], step' = [step EXCEPT ![w] = "idle"],
         attempt' = [attempt EXCEPT ![w] = 0], UNCHANGED <<queue, fileVars, runVars>>,
         UNCHANGED <<loaded, pool>>,
         ~r.ok /\ ~r.raised /\ r.attempts < MaxAttempts => ~proxied \/ (loaded /\ pool = <<>>)
  PROVE  RunIInv'
<1>1. /\ results' = Append(results, r)
      /\ item' = [item EXCEPT ![w] = Nothing] /\ step' = [step EXCEPT ![w] = "idle"]
      /\ attempt' = [attempt EXCEPT ![w] = 0] /\ UNCHANGED <<queue, fileVars, runVars>>
  OBVIOUS
<1>2. item[w] \in Range(Input) /\ item[w] # Nothing
  BY DEF RunIInv, WorkTypes, AtWork
<1>3. /\ results \in Seq(Results) /\ results' \in Seq(Results)
      /\ Len(results') = Len(results) + 1 /\ Len(results) \in Nat
      /\ results'[Len(results')] = r
      /\ \A i \in 1..Len(results) : results'[i] = results[i]
      /\ \A i \in 1..Len(results') : i = Len(results') \/ i \in 1..Len(results)
  <2>1. results \in Seq(Results)
    BY DEF RunIInv, WorkTypes
  <2>2. QED
    BY <1>1, <2>1
<1>4. WorkTypes'
  BY <1>1, <1>3, ProxyFallbackAssumption DEF RunIInv, WorkTypes, runVars
<1>5. run \notin {"half", "over"}
  BY DEF RunIInv, AtWork, AllOut
<1>6. AtWork'
  BY <1>1, <1>5 DEF RunIInv, WorkTypes, AtWork, runVars
<1>7. Ledger'
  <2>1. w \in Busy /\ Busy' = Busy \ {w} /\ IsFiniteSet(Busy)
    BY <1>1, <1>2 DEF RunIInv, WorkTypes, Busy, Ledger
  <2>2. /\ IsFiniteSet(Busy') /\ Cardinality(Busy') = Cardinality(Busy) - 1
        /\ Cardinality(Busy) \in Nat
    BY <2>1, FS_RemoveElement, FS_CardinalityType
  <2>3. ASSUME run' \in {"loading", "working", "half"}
        PROVE  Len(queue') + Cardinality(Busy') + Len(results') = Len(Input)
    <3>1. Len(queue) + Cardinality(Busy) + Len(results) = Len(Input) /\ Len(queue) \in Nat
      BY <1>1, <2>3 DEF RunIInv, Ledger, WorkTypes, runVars
    <3>2. QED
      BY <1>1, <1>3, <2>2, <3>1
  <2>4. ASSUME run' \in {"loading", "working", "half"}, NEW x \in Range(Input)
        PROVE  \/ \E i \in 1..Len(queue') : queue'[i] = x
               \/ \E v \in Workers : item'[v] = x
               \/ \E i \in 1..Len(results') : results'[i].item = x
    <3>1. CASE item[w] = x
      <4>1. Len(results') \in 1..Len(results') /\ results'[Len(results')].item = x
        BY <1>3, <3>1
      <4>2. QED
        BY <4>1
    <3>2. CASE item[w] # x
      <4>1. \/ \E i \in 1..Len(queue) : queue[i] = x
            \/ \E v \in Workers : item[v] = x
            \/ \E i \in 1..Len(results) : results[i].item = x
        BY <1>1, <2>4 DEF RunIInv, Ledger, runVars
      <4>2. \A v \in Workers : item[v] = x => item'[v] = x
        BY <1>1, <3>2 DEF RunIInv, WorkTypes
      <4>3. \A i \in 1..Len(results) : i \in 1..Len(results')
        BY <1>3
      <4>4. QED
        BY <1>1, <1>3, <4>1, <4>2, <4>3
    <3>3. QED
      BY <3>1, <3>2
  <2>5. QED
    BY <2>2, <2>3, <2>4 DEF Ledger
<1>8. RetriedInFull'
  <2>1. proxied' = proxied
    BY <1>1 DEF runVars
  <2>2. \A q \in Range(results') : q = r \/ q \in Range(results)
    BY <1>3 DEF Range
  <2>3. QED
    BY <2>1, <2>2 DEF RunIInv, RetriedInFull
<1>9. FileTypes' /\ FilesPartition' /\ Written'
  BY <1>1, <1>5, FilesStay DEF RunIInv, runVars, Written
<1>10. QED
  BY <1>4, <1>6, <1>7, <1>8, <1>9 DEF RunIInv

(* The result of a worker with an item.                                    *)
LEMMA ConcludedRow ==
  ASSUME RunIInv, NEW w \in Workers, step[w] \notin {"idle", "out"}, NEW n \in 0..MaxAttempts
  PROVE  /\ [item |-> item[w], ok |-> TRUE, attempts |-> 0, raised |-> FALSE] \in Results
         /\ [item |-> item[w], ok |-> FALSE, attempts |-> 0, raised |-> TRUE] \in Results
         /\ [item |-> item[w], ok |-> FALSE, attempts |-> n, raised |-> FALSE] \in Results
<1>1. item[w] \in Range(Input) /\ 0 \in 0..MaxAttempts
  BY ProxyFallbackAssumption DEF RunIInv, WorkTypes, AtWork
<1>2. QED
  BY <1>1 DEF Results

(* The head of the queue goes to a worker, or there is none.               *)
LEMMA TakeItemIInv ==
  ASSUME RunIInv, NEW w \in Workers, TakeItem(w)
  PROVE  RunIInv'
<1>1. /\ run = "working" /\ step[w] = "idle" /\ item[w] = Nothing
      /\ UNCHANGED <<results, fileVars, runVars, poolVars>>
  BY DEF TakeItem, RunIInv, AtWork
<1>2. RetriedInFull' /\ FileTypes' /\ FilesPartition' /\ Written'
  BY <1>1, RetriedStays, FilesStay DEF RunIInv, runVars, poolVars, loadVars, Written
<1>3. CASE queue = <<>>
  <2>1. step' = [step EXCEPT ![w] = "out"] /\ UNCHANGED <<queue, item, attempt>>
    BY <1>3 DEF TakeItem
  <2>2. WorkTypes' /\ AtWork'
    BY <1>1, <1>3, <2>1 DEF RunIInv, WorkTypes, AtWork, AllOut, runVars
  <2>3. Ledger'
    <3>1. Busy' = Busy
      BY <2>1 DEF Busy
    <3>2. QED
      BY <1>1, <2>1, <3>1 DEF RunIInv, Ledger, runVars
  <2>4. QED
    BY <1>2, <2>2, <2>3 DEF RunIInv
<1>4. CASE queue # <<>>
  <2>1. /\ item' = [item EXCEPT ![w] = Head(queue)] /\ queue' = Tail(queue)
        /\ attempt' = [attempt EXCEPT ![w] = 0] /\ step' = [step EXCEPT ![w] = "direct"]
    BY <1>4 DEF TakeItem
  <2>2. /\ queue \in Seq(Range(Input)) /\ Len(queue) \in Nat /\ Len(queue) >= 1
        /\ Len(queue') = Len(queue) - 1 /\ queue' \in Seq(Range(Input))
        /\ Head(queue) = queue[1] /\ Head(queue) \in Range(Input)
        /\ \A i \in 1..Len(queue) : i = 1 \/ (i - 1 \in 1..Len(queue') /\ queue'[i - 1] = queue[i])
    BY <1>4, <2>1 DEF RunIInv, WorkTypes
  <2>3. Head(queue) # Nothing
    BY <2>2, ProxyFallbackAssumption
  <2>4. WorkTypes'
    BY <1>1, <2>1, <2>2, ProxyFallbackAssumption DEF RunIInv, WorkTypes, runVars
  <2>5. \A v \in Workers : step[v] # "out"
    BY <1>4 DEF RunIInv, AtWork
  <2>6. AtWork'
    BY <1>1, <2>1, <2>3, <2>5 DEF RunIInv, WorkTypes, AtWork, runVars
  <2>7. Ledger'
    <3>1. w \notin Busy /\ Busy' = Busy \cup {w} /\ IsFiniteSet(Busy)
      BY <1>1, <2>1, <2>3 DEF RunIInv, WorkTypes, Busy, Ledger
    <3>2. /\ IsFiniteSet(Busy') /\ Cardinality(Busy') = Cardinality(Busy) + 1
          /\ Cardinality(Busy) \in Nat
      BY <3>1, FS_AddElement, FS_CardinalityType
    <3>3. Len(queue') + Cardinality(Busy') + Len(results') = Len(Input)
      <4>1. Len(queue) + Cardinality(Busy) + Len(results) = Len(Input) /\ Len(results) \in Nat
        BY <1>1 DEF RunIInv, Ledger, WorkTypes
      <4>2. QED
        BY <1>1, <2>2, <3>2, <4>1
    <3>4. ASSUME NEW x \in Range(Input)
          PROVE  \/ \E i \in 1..Len(queue') : queue'[i] = x
                 \/ \E v \in Workers : item'[v] = x
                 \/ \E i \in 1..Len(results') : results'[i].item = x
      <4>1. \/ \E i \in 1..Len(queue) : queue[i] = x
            \/ \E v \in Workers : item[v] = x
            \/ \E i \in 1..Len(results) : results[i].item = x
        BY <1>1 DEF RunIInv, Ledger
      <4>2. ASSUME NEW i \in 1..Len(queue), queue[i] = x
            PROVE  item'[w] = x \/ \E j \in 1..Len(queue') : queue'[j] = x
        <5>1. CASE i = 1
          BY <2>1, <2>2, <4>2, <5>1 DEF RunIInv, WorkTypes
        <5>2. CASE i # 1
          BY <2>2, <4>2, <5>2
        <5>3. QED
          BY <5>1, <5>2
      <4>3. \A v \in Workers : item[v] = x => item'[v] = x
        BY <1>1, <2>1, ProxyFallbackAssumption DEF RunIInv, WorkTypes
      <4>4. QED
        BY <1>1, <4>1, <4>2, <4>3
    <3>5. QED
      BY <3>2, <3>3, <3>4 DEF Ledger
  <2>8. QED
    BY <1>2, <2>4, <2>6, <2>7 DEF RunIInv
<1>5. QED
  BY <1>3, <1>4

(* When the workers are gone the results are the whole input.              *)
LEMMA AllThrough ==
  ASSUME RunIInv, AllOut, run \in {"working", "half"}
  PROVE  /\ Len(results) = Len(Input) /\ Len(Input) \in Nat
         /\ \A x \in Range(Input) : \E i \in 1..Len(results) : results[i].item = x
         /\ \A i \in 1..Len(results) : results[i] \in Results
<1>1. queue = <<>> /\ \A w \in Workers : item[w] = Nothing
  BY ProxyFallbackAssumption DEF RunIInv, AtWork, AllOut
<1>2. Busy = {}
  BY <1>1 DEF Busy
<1>3. Len(queue) = 0 /\ Cardinality(Busy) = 0
  BY <1>1, <1>2, FS_EmptySet
<1>4. Len(results) \in Nat /\ \A i \in 1..Len(results) : results[i] \in Results
  BY DEF RunIInv, WorkTypes
<1>5. \A x \in Range(Input) : x # Nothing
  BY ProxyFallbackAssumption
<1>6. QED
  BY <1>1, <1>3, <1>4, <1>5 DEF RunIInv, Ledger

(* Two parts of an interval have as many members together as it has.       *)
LEMMA TwoParts ==
  ASSUME NEW n \in Nat, NEW A, NEW B, A \cup B = 1..n, A \cap B = {}
  PROVE  Cardinality(A) + Cardinality(B) = n
<1>1. IsFiniteSet(1..n) /\ Cardinality(1..n) = n
  BY FS_Interval
<1>2. IsFiniteSet(A) /\ IsFiniteSet(B)
  BY <1>1, FS_Subset
<1>3. Cardinality(A \cup B) = Cardinality(A) + Cardinality(B) - Cardinality(A \cap B)
  BY <1>2, FS_Union
<1>4. Cardinality(A) \in Nat /\ Cardinality(B) \in Nat /\ Cardinality(A \cap B) = 0
  BY <1>2, FS_CardinalityType, FS_EmptySet
<1>5. Cardinality(A \cup B) = n
  BY <1>1
<1>6. QED
  BY <1>3, <1>4, <1>5

(* The two files that are written of the results.                          *)
LEMMA TwoFiles ==
  ASSUME RunIInv, AllOut, run \in {"working", "half"}
  PROVE  /\ \A ok \in BOOLEAN : /\ DOMAIN File(ok) \subseteq 1..Len(Input)
                                /\ Range(File(ok)) \subseteq Range(Input)
         /\ Cardinality(DOMAIN File(TRUE)) + Cardinality(DOMAIN File(FALSE)) = Len(Input)
         /\ Range(File(TRUE)) \cup Range(File(FALSE)) = Range(Input)
<1>1. /\ DOMAIN results = 1..Len(Input) /\ Len(Input) \in Nat
      /\ \A x \in Range(Input) : \E i \in DOMAIN results : results[i].item = x
      /\ \A i \in DOMAIN results : results[i].item \in Range(Input) /\ results[i].ok \in BOOLEAN
  <2>1. results \in Seq(Results)
    BY DEF RunIInv, WorkTypes
  <2>2. DOMAIN results = 1..Len(results)
    BY <2>1
  <2>3. QED
    BY <2>2, AllThrough DEF Results
<1>2. \A ok \in BOOLEAN : /\ DOMAIN File(ok) = {i \in DOMAIN results : results[i].ok = ok}
                         /\ \A i \in DOMAIN File(ok) : File(ok)[i] = results[i].item
  BY DEF File
<1>3. \A ok \in BOOLEAN : DOMAIN File(ok) \subseteq 1..Len(Input) /\ Range(File(ok)) \subseteq Range(Input)
  <2> SUFFICES ASSUME NEW ok \in BOOLEAN
               PROVE  DOMAIN File(ok) \subseteq 1..Len(Input) /\ Range(File(ok)) \subseteq Range(Input)
    OBVIOUS
  <2>1. DOMAIN File(ok) \subseteq DOMAIN results
    BY <1>2, Zenon
  <2>2. \A i \in DOMAIN File(ok) : File(ok)[i] \in Range(Input)
    BY <1>1, <1>2, <2>1, Zenon
  <2>3. Range(File(ok)) \subseteq Range(Input)
    BY <2>2, Zenon DEF Range
  <2>4. QED
    BY <1>1, <2>1, <2>3, Zenon
<1>4. /\ DOMAIN File(TRUE) \cup DOMAIN File(FALSE) = 1..Len(Input)
      /\ DOMAIN File(TRUE) \cap DOMAIN File(FALSE) = {}
  BY <1>1, <1>2
<1>5. Cardinality(DOMAIN File(TRUE)) + Cardinality(DOMAIN File(FALSE)) = Len(Input)
  BY <1>1, <1>4, TwoParts, Zenon
<1>6. \A x \in Range(Input) : x \in Range(File(TRUE)) \cup Range(File(FALSE))
  <2> SUFFICES ASSUME NEW x \in Range(Input)
               PROVE  x \in Range(File(TRUE)) \cup Range(File(FALSE))
    OBVIOUS
  <2>1. PICK i \in DOMAIN results : results[i].item = x
    BY <1>1
  <2>2. i \in DOMAIN File(results[i].ok) /\ File(results[i].ok)[i] = x /\ results[i].ok \in BOOLEAN
    BY <1>1, <1>2, <2>1
  <2>3. x \in Range(File(results[i].ok))
    BY <2>2 DEF Range
  <2>4. QED
    BY <2>2, <2>3
<1>7. QED
  BY <1>3, <1>5, <1>6

(* The first file, the second, or the end of a run that writes none.       *)
LEMMA FinishingIInv ==
  ASSUME RunIInv, Finishing
  PROVE  RunIInv'
<1>1. UNCHANGED <<poolVars, workVars, runs, kind, proxied>>
  BY DEF Finishing, WriteSuccess, WriteFailed, Rendered
<1>2. /\ run \in {"working", "half"} /\ AllOut
      /\ run' \in {"half", "over"}
  BY DEF Finishing, WriteSuccess, WriteFailed, Rendered, RunIInv, AtWork
<1>3. WorkTypes' /\ AtWork'
  BY <1>1, <1>2 DEF workVars, RunIInv, WorkTypes, AtWork, AllOut
<1>4. Ledger'
  <2>1. Busy' = Busy
    BY <1>1 DEF workVars, Busy
  <2>2. QED
    BY <1>1, <1>2, <2>1 DEF workVars, RunIInv, Ledger
<1>5. RetriedInFull'
  BY <1>1, RetriedStays DEF RunIInv, workVars, poolVars, loadVars
<1>6. FileTypes' /\ FilesPartition' /\ Written'
  <2>1. \A ok \in BOOLEAN : File(ok)' = File(ok)
    BY <1>1 DEF File, workVars
  <2>2. CASE WriteSuccess
    <3>1. success' = File(TRUE) /\ failed' = failed /\ run' = "half" /\ kind = "check"
      BY <2>2 DEF WriteSuccess
    <3>2. QED
      BY <1>1, <1>2, <2>1, <3>1, TwoFiles DEF RunIInv, FileTypes, FilesPartition, Written
  <2>3. CASE WriteFailed
    <3>1. failed' = File(FALSE) /\ success' = success /\ run' = "over" /\ success = File(TRUE)
      BY <2>3 DEF WriteFailed, RunIInv, Written
    <3>2. QED
      BY <1>1, <1>2, <3>1, TwoFiles DEF RunIInv, FileTypes, FilesPartition, Written
  <2>4. CASE Rendered
    BY <1>1, <2>4 DEF Rendered, fileVars, RunIInv, FileTypes, FilesPartition, Written
  <2>5. QED
    BY <2>2, <2>3, <2>4 DEF Finishing
<1>7. QED
  BY <1>3, <1>4, <1>5, <1>6 DEF RunIInv

(* A step of the provider between the workers' turns.                      *)
LEMMA ProviderIInv ==
  ASSUME RunIInv, UNCHANGED <<workVars, fileVars, runs, kind, proxied>>,
         run' = run \/ (run = "loading" /\ run' = "working"),
         loaded => UNCHANGED <<loaded, pool>>
  PROVE  RunIInv'
<1>1. WorkTypes' /\ AtWork'
  BY DEF workVars, RunIInv, WorkTypes, AtWork, AllOut
<1>2. Ledger'
  <2>1. Busy' = Busy
    BY DEF workVars, Busy
  <2>2. QED
    BY <2>1 DEF workVars, RunIInv, Ledger
<1>3. RetriedInFull' /\ FileTypes' /\ FilesPartition'
  BY RetriedStays, FilesStay DEF RunIInv, workVars
<1>4. Written'
  BY DEF RunIInv, Written, File, workVars, fileVars
<1>5. QED
  BY <1>1, <1>2, <1>3, <1>4 DEF RunIInv

(* A worker's turn.                                                        *)
LEMMA WorkerIInv ==
  ASSUME RunIInv, PoolIInv, ReadyIsLoaded, NEW w \in Workers, Worker(w)
  PROVE  RunIInv'
<1>1. CASE TakeItem(w)
  BY <1>1, TakeItemIInv
<1>2. CASE Answered(w) \/ Raises(w) \/ GivesUp(w)
  <2>1. attempt[w] \in 0..MaxAttempts /\ MaxAttempts \in Nat
    BY ProxyFallbackAssumption DEF RunIInv, WorkTypes
  <2>2. step[w] \notin {"idle", "out"} /\ UNCHANGED <<loaded, pool>>
    BY <1>2 DEF Answered, Raises, GivesUp, poolVars, loadVars
  <2>3. CASE Answered(w)
    <3>1. Concludes(w, TRUE, 0, FALSE)
      BY <2>3 DEF Answered
    <3>2. QED
      BY <2>1, <2>2, <3>1, ConcludedRow, ConcludesIInv DEF Concludes
  <2>4. CASE Raises(w)
    <3>1. Concludes(w, FALSE, 0, TRUE)
      BY <2>4 DEF Raises
    <3>2. QED
      BY <2>1, <2>2, <3>1, ConcludedRow, ConcludesIInv DEF Concludes
  <2>5. CASE GivesUp(w)
    <3> DEFINE r == [item |-> item[w], ok |-> FALSE, attempts |-> attempt[w], raised |-> FALSE]
    <3>1. Concludes(w, FALSE, attempt[w], FALSE) /\ (~proxied \/ attempt[w] >= MaxAttempts)
      BY <2>5 DEF GivesUp
    <3>2. r \in Results
      BY <2>1, <2>2, ConcludedRow, Zenon
    <3>3. r.item = item[w] /\ (r.attempts < MaxAttempts => ~proxied)
      BY <2>1, <3>1
    <3>4. results' = Append(results, r)
      BY <3>1 DEF Concludes
    <3> HIDE DEF r
    <3>5. QED
      BY <2>2, <3>1, <3>2, <3>3, <3>4, ConcludesIInv DEF Concludes
  <2>6. QED
    BY <1>2, <2>3, <2>4, <2>5
<1>3. CASE Unanswered(w)
  <2>1. /\ step[w] \notin {"idle", "out"} /\ step' = [step EXCEPT ![w] = "next"]
        /\ attempt' \in [Workers -> 0..MaxAttempts] /\ attempt' = attempt
        /\ UNCHANGED <<queue, item, results, fileVars, runVars>>
        /\ UNCHANGED <<loaded, pool>>
    BY <1>3 DEF Unanswered, RunIInv, WorkTypes, poolVars, loadVars
  <2>2. QED
    BY <2>1, MovesIInv
<1>4. CASE Asks(w)
  <2>1. /\ step[w] \notin {"idle", "out"} /\ step' = [step EXCEPT ![w] = "asking"]
        /\ attempt' \in [Workers -> 0..MaxAttempts] /\ attempt' = attempt
        /\ attempt[w] < MaxAttempts
        /\ UNCHANGED <<queue, item, results, fileVars, runVars>>
        /\ UNCHANGED <<loaded, pool>>
    BY <1>4 DEF Asks, Acquire, RunIInv, WorkTypes, loadVars
  <2>2. QED
    BY <2>1, MovesIInv
<1>5. CASE GetsProxy(w)
  <2>1. /\ step[w] = "asking" /\ loaded /\ UNCHANGED <<loaded, pool>>
        /\ attempt[w] \in 0..MaxAttempts /\ attempt[w] < MaxAttempts /\ MaxAttempts \in Nat
    BY <1>5, ProxyFallbackAssumption
    DEF GetsProxy, Take, loadVars, ReadyIsLoaded, RunIInv, WorkTypes, AtWork
  <2>2. CASE Turn = Nothing
    <3>1. pool = <<>>
      <4>1. pool # <<>> => pool[turn] \in Proxies
        BY DEF PoolIInv, PoolTypeOK
      <4>2. QED
        BY <2>2, <4>1, ProxyPoolAssumption DEF Turn
    <3>2. Concludes(w, FALSE, attempt[w], FALSE)
      BY <1>5, <2>2 DEF GetsProxy
    <3>3. QED
      BY <2>1, <3>1, <3>2, ConcludedRow, ConcludesIInv DEF Concludes
  <2>3. CASE Turn # Nothing
    <3>1. /\ attempt' = [attempt EXCEPT ![w] = @ + 1] /\ step' = [step EXCEPT ![w] = "probing"]
          /\ UNCHANGED <<queue, item, results, fileVars, runVars>>
      BY <1>5, <2>3 DEF GetsProxy
    <3>2. /\ attempt' \in [Workers -> 0..MaxAttempts]
          /\ \A v \in Workers \ {w} : attempt'[v] = attempt[v]
      BY <2>1, <3>1 DEF RunIInv, WorkTypes
    <3>3. QED
      BY <2>1, <3>1, <3>2, MovesIInv
  <2>4. QED
    BY <2>2, <2>3
<1>6. QED
  BY <1>1, <1>2, <1>3, <1>4, <1>5 DEF Worker

(* ... and is kept by every step, as the provider keeps its own.           *)
LEMMA RunStepIInv ==
  RunIInv /\ PoolIInv /\ ReadyIsLoaded /\ [Next]_vars => RunIInv'
<1> SUFFICES ASSUME RunIInv, PoolIInv, ReadyIsLoaded, [Next]_vars PROVE RunIInv'
  OBVIOUS
<1>1. ASSUME NEW k \in {"check", "render"}, NEW p \in BOOLEAN, NEW first \in BOOLEAN,
             NEW l \in LocalFiles, Begin(k, p, l, first)
      PROVE  RunIInv'
  <2>1. runs' \in 0..MaxRuns /\ run' \in {"loading", "working"} /\ Idle /\ UNCHANGED fileVars
    BY <1>1, ProxyFallbackAssumption DEF Begin, RunIInv, WorkTypes
  <2>2. /\ kind' \in {"check", "render"} /\ proxied' \in BOOLEAN
        /\ queue' = Input /\ step' = [w \in Workers |-> "idle"]
    BY <1>1 DEF Begin
  <2>3. QED
    BY <2>1, <2>2, AnewIInv
<1>2. CASE LoadFirst \/ Loaded
  <2>1. UNCHANGED <<loaded, pool>>
    BY <1>2 DEF LoadFirst, Loaded, EnsureLoaded, Return, loadVars
  <2>2. QED
    BY <1>2, <2>1, ProviderIInv DEF LoadFirst, Loaded, runVars
<1>3. ASSUME NEW c \in Clients, PoolStep(c) PROVE RunIInv'
  BY <1>3, PoolKept, ProviderIInv DEF PoolStep, runVars
<1>4. ASSUME NEW w \in Workers, Worker(w) PROVE RunIInv'
  BY <1>4, WorkerIInv
<1>5. CASE Finishing
  BY <1>5, FinishingIInv
<1>6. CASE (Expire /\ UNCHANGED <<workVars, fileVars, runVars>>) \/ UNCHANGED vars
  BY <1>6, ProviderIInv DEF Expire, vars, runVars, poolVars, loadVars
<1>7. CASE Kill
  BY <1>7, AnewIInv DEF Kill, RunIInv, WorkTypes
<1>8. QED
  BY <1>1, <1>2, <1>3, <1>4, <1>5, <1>6, <1>7 DEF Next

(* So it holds always.                                                     *)
LEMMA RunInvariant == Spec => [](RunIInv /\ PoolIInv)
<1>1. PoolInit => ReadyIsLoaded
  BY DEF PoolInit, ReadyIsLoaded
<1>2. PoolSpec => []ReadyIsLoaded
  BY <1>1, PoolInitIInv, PoolStepIInv, ReadyStep, PTL DEF PoolSpec
<1>3. Spec => [](PoolIInv /\ ReadyIsLoaded)
  BY <1>2, RunsUsePool, PoolInvariant, PTL
<1>4. QED
  BY <1>3, RunInitIInv, RunStepIInv, PTL DEF Spec

(* The provider, the workers, their results and the files have their types *)
(* at every moment of every run.                                           *)
THEOREM RunTypes == Spec => []TypeOK
<1>1. RunIInv /\ PoolIInv => TypeOK
  BY DEF RunIInv, WorkTypes, FileTypes, PoolIInv, TypeOK
<1>2. QED
  BY <1>1, RunInvariant, PTL

(* An item is given up with attempts left only without a provider, with an *)
(* empty pool, or by an exception: a pool once loaded stays what it is for *)
(* the rest of the run (check_resource, render_page).                      *)
THEOREM RetriedInFullAlways == Spec => []RetriedInFull
<1>1. RunIInv => RetriedInFull
  BY DEF RunIInv
<1>2. QED
  BY <1>1, RunInvariant, PTL

(* When a check is over its two files have a row for every line of the     *)
(* input, for any number of workers and after any kills of runs before     *)
(* (run_check).                                                            *)
THEOREM FilesPartitionAlways == Spec => []FilesPartition
<1>1. RunIInv => FilesPartition
  BY DEF RunIInv
<1>2. QED
  BY <1>1, RunInvariant, PTL
=============================================================================
