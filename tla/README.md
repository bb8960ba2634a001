# A TLA+ model of domain-enrich

domain-enrich takes a list of domains and fills one SQLite row for each with
DNS, geolocation, network, whois, threat and popularity data, either by joining
downloaded dumps (the offline pipeline) or by live lookups (the online run).
This directory models its control flow, checks it with TLC on small instances
and proves the central facts with TLAPS for all instances.

Paths below are relative to `src/domain_enrich/`.

## 1. Inventory

| component | state it keeps | operations | what makes it correct |
|---|---|---|---|
| online run (`online/runner.py`) | input list, force set, pending list, bounded queue, worker tasks | normalise, force resets, load pending, produce, `worker`, gather, finish | no pending domain is dropped, none is handled twice, a finished row has its dossier or its error, the run ends |
| batched writer (`online/writer.py`) | `_buf`, one writer thread with its queue | `submit`, `flush`, `call`, `close` | every operation is in exactly one transaction, the partial last one too |
| dossier files (`online/dossier.py`) | one file per domain | `write_dossier`, `dossier_complete` | a file is there complete or not at all |
| domain chain (`runner._process_domain`) | addresses, what was found so far | eight lookups in turn | first non-empty answer in address order, render slots conserved |
| single-flight cache (`online/cache.py`) | `_values`, `_inflight` | `get` | one computation per key, no orphaned waiter, one value for all |
| rate limiter (`online/ratelimit.py`) | `_tokens`, `_updated` | `acquire` | bound on grants, every caller is granted |
| offline pipeline (`pipeline.py`) | `meta` status per stage | `run`, one function per stage, `--force` | resuming gives what an uninterrupted run gives |
| store (`store.py`) | `domains` and `meta` tables, row flags | COALESCE writers, pending queries, `batch`, `mark_stage`, `reset_flag` | a value stays; a batch is all or nothing |
| offline sources (`sources/`) | the dump being joined | `run_brno`, `run_rapid7`, ... | which of several records wins; derived columns match what they derive from |
| network whois index (`sources/rir.py`) | networks, buckets, wide ranges, organisations, contacts | `add_lines`, `lookup` | the most specific network of an address is found, with the organisation and mailbox it refers to |
| export (`export.py`) | chunk, parquet schema, files | CSV, parquet | all rows are in each file |
| proxy pool (`online/proxy.py`) | `_proxies`, `_idx`, `_loaded`, a lock, the cache file | `ensure_loaded`, `acquire` | one load, even use, no starving while there are proxies |
| availability checker, page rendering (`online/checker.py`, `render.py`) | work queue, results, two files | `check_resource`, `run_check`, `render_page` | each item is answered once, attempts are used up but not exceeded, the run ends |
| live lookups (`online/*_live.py`) | none | one or more requests each | a miss is not an error |
| HTTP helper (`online/http.py`) | attempt of the request | `get_json` | bounded retries, within what the service allows |
| single-domain lookup (`pipeline.lookup_domain`) | a store in memory | the joins in turn | shows what a run's table would show |
| command line, normalisation, scripts | none | option parsing, string conversion, downloads | - |

How they meet: the workers of the online run share the writer's buffer, the two
caches, the limiters and the render semaphore on one event loop; the writer's
thread is the only one that touches SQLite. The offline stages meet only in the
table: each reads columns an earlier one wrote (geo reads `ips`, peeringdb reads
`asn`) and writes with COALESCE. The checker and rendering share the proxy
provider's pool and lock among their workers, and its cache file with the runs
before and after; lookups of addresses share one limiter. Both modes outlive the process through the
database, the online one also through the dossier directory.

What is hard: a kill between two durable writes (dossier and row, transaction
and stage mark); one bad operation rolling back the operations of other domains;
a worker that dies; sentinels and a bounded queue; waiters of a failed fetch;
sleepers and newcomers competing for tokens,
and retries that do not ask for one; a lock held across a download; a cache file
torn by a kill; values that are filled once and
then stay although what they derive from, or what the user gives, changes.
`PROJECT.json` lists each hazard at its line.

## 2. Modules

| module | models |
|---|---|
| `OnlineRun` | `run_online`, `AsyncWriter`, dossiers and the rows they touch, over several runs |
| `DomainLifecycle` | abstract: the status of each domain; implemented by `OnlineRun` |
| `AsyncCache` | `AsyncCache.get` |
| `DomainChain` | `_process_domain` for several domains; two instances of `AsyncCache` and the render semaphore |
| `RateLimiter` | the token bucket |
| `IpApi` | `geo_live.lookup` and `get_json`, over `RateLimiter` |
| `ProxyPool` | `ProxyProvider` with its cache file: what it promises any client |
| `ProxyFallback` | `run_check` and `render_page` over `ProxyPool`, over several runs |
| `Pipeline` | `pipeline.run`, the stage subcommands and `lookup_domain`, over `store.py` and `sources/` |
| `RirIndex` | the ranges of `sources/rir.py`: how they are filed and found |
| `RirWhois` | over it: organisations, contacts and the whole of `lookup` |
| `Export` | `export.py` and the stage's marks |
| `MC...` | the constants of each for TLC |
| `OnlineRunProofs`, `OnlineRunPlacesProofs` | theorems about `OnlineRun`: flags and dossiers; where a domain is, and its life cycle |
| `AsyncCacheProofs`, `DomainChainProofs` | theorems about the cache, and about the chains that use two of them |
| `IpApiProofs` | theorems about `RateLimiter` and `IpApi` |
| `ProxyFallbackProofs` | theorems about `ProxyPool` and `ProxyFallback` |
| `RirWhoisProofs` | theorems about `RirIndex` and `RirWhois` |
| `PipelineProofs` | theorems about `Pipeline` |

### OnlineRun

Durable variables: `known` (rows), `normalized` (`meta`), `flags`, `data` (all
COALESCE columns), `page`, `error` and `unrendered` (the columns `update_page`
overwrites: `page_error` is a process error, or that of a page load, or null),
`dossier` (files). What a column or a file holds is the number of the run that
fetched it, 0 for NULL or no file: enough to tell first from latest and row from
file. Whether a page could be loaded is chosen when its row is committed
(`Apply`), as nothing depends on it before. Everything else is the process and is gone after `Crash` or any other end.

An action is the code between two awaits that can suspend. `AsyncWriter`'s lock
is held across no await, so `SubmitOp` appends, finds the batch full and swaps
the buffer in one action; the transaction is a later step (`CommitBatch`,
`RollbackWorker`, `RollbackMain`) of the writer thread, which takes batches in
order. `WriteDossier` is the `os.replace`: before it nothing is visible.
`Raises` stands for any exception of the chain or of `write_dossier`.
A rolled-back batch raises in the worker that submitted it: in the `try` it
becomes a failure of that worker's domain, in the `except` clause it kills the
worker, under the last flush it ends the run. `GatherRaises` ends the run as
soon as a worker has died and the producer has finished. Batches in the
executor's queue then either ran before (the interleaving with `CommitBatch`) or
are cancelled.

With a dossier directory given (the command line requires one) is the only mode
modelled. The eight flags are a sequence, of which two stand for all in the
runs: the set/reset loop treats them alike, and only the last is ever read.

### DomainLifecycle

`unknown -> pending -> written -> recorded`, with `failed` and `spoiled` for
processing errors and `Reset` for `--force`. `OnlineRun` maps its durable
variables to a status per domain (`Status`); the mapping has a seventh value
"phantom", a flagged row with neither dossier nor error, which the abstract
module does not have, so that `Lifecycle` also says it never occurs. Each step
of any coroutine, kill or restart is one abstract step or a stutter.

### AsyncCache and DomainChain

A future is the `stage` of those who wait for it: `Resolve` makes them ready,
each goes on in a `Resume` of its own later. `DomainChain` instantiates it twice
and lets `Ask...` be `get`'s start, `Await...` its factory or future, `Take...`
what the loop does with the outcome. `dns`, `tls`, `rdap` before and `threat`,
`popularity` after the loop share nothing between domains and are one step each.
Cancellation of a single task does not occur: nothing in the code cancels one,
short of the end of the process.

### RateLimiter and IpApi

Tokens are counted in units small enough that a rate `Num/Den` per `Per` ticks
is exact; rounding of floats is left out, and sleeps are rounded up to a tick.
`window` and `granted` observe an interval that may be opened at any moment.

`IpApi` is its client: `AsksLimiter` and `Wakes` are the limiter's actions, joined
with what the lookup does next. Each caller is one lookup at a time; which of them
share an address is `AsyncCache`'s concern. `mmdb` says whether databases were
asked for and could be opened, and `limited` whether the limiter has a rate: with
a database given `run_online` makes it unlimited, a single lookup does not. The
outcome of a request is a choice: an answer (data or none), or a failure that is
worth a retry. `sent` counts the requests of the observed interval, retries
included, beside `granted`.

### ProxyPool and ProxyFallback

`ProxyPool` is the provider alone, called in any way. `place` is where each
coroutine is in `ensure_loaded` or `acquire`, `holder` who awaits a download with
the lock held; elsewhere the lock is held across no await, so it needs no state.
Who gets a free lock is left open, which covers asyncio's first come, first served.
A list is the set of its lines, as order is lost in the shuffle and parsing drops
repetitions; `Junk` stands for every line that names no proxy. `turn` is `_idx`
modulo the size of the pool. A kill, or an `OSError`, within the write of the cache
leaves some of the lines and one that is torn (`Parts`), which may even read as
another proxy. `handed` counts, for the properties, how often each has been drawn.

`ProxyFallback` composes it with its two clients. Both take an item, try it
directly and then through proxies; they differ in what an exception does (`Raises`
is the checker's only) and in their end (two files; nothing). `Begin` is a process
with its options: `first` says that the pool is loaded before the work starts, as
it always is by the checker and by a run with its own browser, `p` that there is a
provider, `l` its local file. `Kill` may fall anywhere, between the two files too.
A file of results is a function from the place of a row in `results` to its item
(`File`): the rows of one kind in their order. Each file is written in one step;
that a kill within the writing leaves a part of it is not modelled, nothing reads
these files again. There is at least one worker;
`--concurrency 0`, with which `run_check` writes two empty files, is not modelled.

### Pipeline

A user follows a script of commands: `run`, or one stage's subcommand, which is
a command giving that stage's files only. The variables distinguish what the
process sees (`rows`, `done`) from what is committed (`disk`): `JoinRow` changes
the first, `EndJoin` and the single-statement transactions commit, `Crash`
discards. The stage functions have one shape, with the differences the code has:
three look for their files after `_maybe_reset` (`LooksLater`), brno does not
look at all and joins file by file with a transaction each and a last one for
its flags, five flag all rows at the end and seven row by row. What a file says
is data (`Content`): per key, the columns it has. Parsing is left out; MaxMind's
City and ASN databases are one file, and so are the RIR dumps of a run, whose merge
`RirWhois` models. `ContentAssumption` says what the parsers of
a stage's source yield: values for the columns its writer takes (`Yields`), of the
type these have, and for lists a value on every line, as lines without one are
skipped. `ips` is none of them; the store alone joins it from the addresses.
An exception in a source is `Crash`: rolled back and propagated to the end of
the program. `LookupDomain` is `lookup_domain`: its own list of joins, on one row
of a store in memory, as a function of the files.

### RirIndex and RirWhois

`Add` is one network object of the dump, `IndexNet` its filing. Addresses are
numbers, a shift by s bits is a division by `Width`. Ranges may be reversed, as
they are in dumps: such a one is filed nowhere, or as wide, and holds nothing.
Among ranges of equal size the answer is any that the scan meets first - a bucketed
one before a wide one.

`RirWhois` adds the other objects of the dumps, one action for each kind (roles,
persons and IRT objects are contacts alike), and resolves the references of the
network found, as `lookup` does, at the time of asking. An empty attribute and a
missing one are both `Nothing`. `read` observes the objects for `WhoisFromDumps`,
which states the answer from them alone. A dump that turns out corrupt ends early;
what was read of it stays, so that any state is one such a dump leaves.

### Export

One column for each way a value is flattened; of a value there is what decides the
type that pyarrow infers for its chunk. `Flush` is a chunk's `write_table`, which
refuses another schema than the file's; that behaviour of pyarrow is external.

## 3. Runs

All passing runs finish within about three minutes. "Violation" runs refute one
statement a document or comment makes; see `findings` in `PROJECT.json` for the
quotes.

| run | bounds | shows |
|---|---|---|
| `OnlineRun_safe` | 3 domains, 2 workers, batches of 2, 3 runs, 2 kills, 2 errors, 2 rollbacks; all force sets | nothing dropped, handled once, flagged rows finished, rows match dossiers, normalisation complete, finished domains' dossiers stay, life cycle |
| `OnlineRun_live` | 3 domains, 2 workers, batches of 1, 4 runs, 1 kill, 2 rollbacks, 2 errors | runs end, domains are settled |
| `AsyncCache_get` | 3 callers, 2 keys, 2 results | single flight, no orphan, agreement, values stay, `get` ends |
| `DomainChain_shared` | 2 domains, 2 addresses in both orders, 1 render slot | first answer taken, slots conserved, every chain ends |
| `IpApi_retries` | 3 lookups, 3/2 grants per 2 ticks, 1 retry, window of 4 | grants and requests bounded, every lookup ends (a rate below one is not run: see below) |
| `ProxyFallback_runs` | 2 workers, 2 items, 2 proxies, 2 URLs, 2 attempts, 2 runs, kills anywhere | even turns, no starving, files partition the input, retries in full, runs end |
| `Pipeline_scripts` | 3 domains, all 12 stages, 2 kills, ten scripts | final table is the one the files determine and a lookup shows; geolocation of the shown addresses; values stay |
| `RirIndex_lookup` | 4 objects in any order: up to 3 networks of any range in two address spaces, 1 organisation, 2 contacts, 2 mailboxes | bucket lookup agrees with a full scan; references lead to what the dumps say last |
| `OnlineRun_gap` | violation | a kill leaves a row empty that has a dossier, and not even `--force online` fills it |
| `OnlineRun_hang` | violation | the last worker dies while the producer waits at the full queue: the run never ends |
| `IpApi_limit` | violation | ip-api is asked beyond the limit |
| `Export_chunks` | violation | an export ends with part of the rows |

Why the bounds are enough to see the interesting cases: three domains with
batches of two give a full batch and a partial one; two workers one that waits
for a flush while the other appends; three runs a killed one, a forced one and
one after both; two rollbacks one in a worker and one under its `except` clause,
or under the last flush. `OnlineRun_live` has three domains and two sentinels for a
queue of four, so that the producer waits for room, and two errors and two
rollbacks, so that one worker dies, or both in one run or in two; of its four runs
one is left after the kill and these, which is what settling a domain needs. With
batches of one every operation is a flush that may fail. In the cache three callers are a
leader, a waiter and a latecomer. At 3/2 tokens the bucket holds one call and a
half, so that sleepers find a part of a token; a window of 4 ticks is two periods
and longer than a backoff. Two workers and the main coroutine race for the first
load, two proxies and two attempts make rounds that workers share unevenly, two
runs are one that leaves a cache, whole or torn, and one that finds it. In
`RirIndex` ranges start and end within buckets and at their edges, and some are
wide; four objects are a network, the organisation and the contact it refers to and
one that overrides or competes. All networks make the same references, as nothing
depends on whose they are. The overlap of the files in `MCPipeline` is the point of each: sources
disagree on a domain's addresses, an address is unknown to geolocation, lists of
different strength name the same domain.
`MaxRuns`, `MaxCrashes`, `MaxErrors`, `MaxFaults`, `MaxCalls`, `MaxWindow`,
`MaxNets`, `MaxObjects` and `MaxRows` are bounds of the model, not of the code.

`SameAsUninterrupted` states a row from the files alone: each column holds the
first value, in the pipeline's order, that a stage offers to this row
(`DeterminedByFiles`), without flags, transactions or order of commands. That the
subcommands and forced re-runs come to the same is due to COALESCE and holds only
while the files are the same (`SameThroughout`, five of the ten scripts).
`LookupAgrees` compares the same tables with what `lookup_domain`, with its own
order of joins, makes of the files. The other five scripts give missing, empty or
exchanged files, stages out of order, and an input list that grows.

`SentBound` says what the limiter is worth: retries are not granted, so each grant
stands for up to `1 + Retries` requests, and those granted before the interval may
still send theirs. `HardLimited` is what geo_live.py says instead.

`RunEnds` excepts one situation, `Stranded`: the producer waits at the full queue
and all workers are dead. As each of them took an item before it died, there must be more than
two items a worker: five for two workers, or three for one, and there
`OnlineRun_hang` has it happen. In `OnlineRun_live` the
exception is never used: all workers may die, but what is left then has room in the
queue, and gather raises.

`DossierWrittenOnce` and `FirstValueStays` are what the documents promise: of
finished domains, in runs that force no online stage, and of stages that are not
forced. The code does more, and this is where it and the documents part: no dossier
is rewritten under `--force online` or for a row with a `page_error`
(`NoRunRewritesDossier`), and no value is recomputed by a forced stage
(`NoStageReplacesValues`). Both are proved, and recorded as findings.

`FailedHasNoDossier` claims nothing after a rollback: that reports a failure for
a domain whose dossier exists ("spoiled" in the life cycle).

Met while modelling and visible in the model, without a run of their own (those for
which a theorem is named are findings too):

- A batch that rolls back leaves its other domains unrecorded for good, as a kill
  does (`OnlineRun_gap`).
- A page that could not be loaded has a `page_error` in its row and a dossier, and is
  never tried again, although the online design (its section "Resume semantics") has a
  row skipped only if `page_error` is null: `unrendered` is read by no action
  (`NoRunRewritesDossier`).
- A full bucket and the refill together let nearly twice `rate` calls through
  within `per`, where ratelimit.py:5 has "and no more". A rate between 0 and 1
  never grants, as the bucket never holds a whole token.
- A kill within a stage loses the rows it had joined, as a stage is one
  transaction; src/README.md:33-34 has flags that "let a re-run continue mid-stage
  without redoing finished rows".
- `--force geo` with a newer database keeps the old values (COALESCE), where
  cli.py:83 has "Re-run a stage from scratch" and INSTRUCTIONS.md:311 likewise
  (`NoStageReplacesValues`). Forcing `brno` after completing a truncated dump
  does not reach the stages already done.
- `ips` stays with the first source's addresses when a later one adds AAAA
  records; the first threat label stays, not the strongest.
- A line like 999.1.1.1:1080 passes `parse_proxies` and no client can be built for
  it: the item whose turn it is is given up (`Raises`), reported with 0 attempts.
- A kill between the two files of a check leaves a pair of different runs.

## 4. Fairness

Weak fairness of each coroutine, the writer thread and the main coroutine: the
event loop runs what is ready and the thread drains its queue; every network
request and page load has a timeout, so a lookup comes to an end. Nothing is
assumed of kills, errors or rollbacks. `WF_vars(StartSome)` says that the user
starts the program again after a kill, without which nothing could be settled.
`DomainChain` has strong fairness of `EnterRender`: `asyncio.Semaphore` wakes
waiters in order.

`IpApi` assumes that time goes on, sleepers wake and every request ends (the client
has a timeout). That the limiter's lock is fair is not assumed: `LookupEnds` holds
because calls are finite, as a newcomer may take the token a sleeper waits for.
`ProxyFallback` assumes that each coroutine is resumed and that probes, pages and
downloads time out, as each is given one. Nothing is assumed of kills, so that
`RunEnds` counts a killed run as ended.

## 5. Proofs

| theorem | says |
|---|---|
| `OnlineRunProofs!TypeCorrect` | `Spec => []TypeOK` |
| `OnlineRunProofs!FlaggedIsFinishedAlways` | `Spec => []FlaggedIsFinished` |
| `OnlineRunPlacesProofs!HandledOnceAlways`, `NothingDroppedAlways`, `FinishedRunRecordsAlways` | no domain lost or taken twice |
| `OnlineRunPlacesProofs!RowMatchesDossierAlways`, `DossierWrittenOnceAlways`, `FailedHasNoDossierAlways`, `NormalizedIsCompleteAlways` | what rows, files and marks say of each other |
| `OnlineRunPlacesProofs!NoRunRewritesDossier` | no step of any run, forced or over failed pages, writes a dossier that is there |
| `OnlineRunPlacesProofs!RunIsLifecycle` | `Spec => Lifecycle`: every step of a run is a step of the life cycle or a stutter |
| `AsyncCacheProofs!TypeCorrect`, `SingleFlightAlways`, `NoOrphanAlways`, `AgreementAlways`, `CachedForGoodAlways` | the safety of the cache |
| `DomainChainProofs!UsesCaches`, `OneLookupPerAddress` | `Spec` implies that of both caches, hence their single flight |
| `DomainChainProofs!TypeCorrect`, `FirstAnswerTakenAlways`, `SlotsConservedAlways` | the safety of the chains |
| `IpApiProofs!TypeCorrect`, `BurstBoundAlways` | the safety of the bucket |
| `IpApiProofs!UsesLimiter`, `LookupsInBounds`, `ApiTypes`, `SentBoundAlways` | `ApiSpec => Spec` of the limiter, hence its bound; the lookups' types and the bound on requests |
| `ProxyFallbackProofs!TakenInTurn`, `EmptyOnlyIfNone` | the safety of the provider under any client |
| `ProxyFallbackProofs!RunsUsePool`, `RunsTakeTurns` | `Spec => PoolSpec`: the runs implement the provider's specification, hence its safety |
| `ProxyFallbackProofs!RunTypes`, `RetriedInFullAlways`, `FilesPartitionAlways` | the safety of the runs |
| `RirWhoisProofs!IndexTypes`, `LookupMostSpecific` | the index answers like a scan |
| `RirWhoisProofs!WhoisTypes`, `FilesIndex`, `AnswersFromDumps` | `WhoisSpec => Spec` of the index; what an address is told is what the dumps say |
| `PipelineProofs!TypeCorrect`, `FirstValueStaysAlways`, `GeoOfShownIpsAlways` | the safety of the table |
| `PipelineProofs!NoStageReplacesValues` | no stage, a forced one included, replaces a committed value, but for a better rank |
| `PipelineProofs!SameAsUninterruptedAlways` | a script on the same files ends with the table they determine, wherever it was killed |
| `PipelineProofs!DeterminedOnce`, `LookupAgreesAlways` | that table is unique and, row by row, what `lookup_domain` shows |

Assumptions are the named `ASSUME` of each module and nothing else: sizes are
naturals, `None` is no domain, results differ from exceptions, there are finitely
many callers (`IpApi`) and proxies and at least one worker (`ProxyFallback`), files
and scripts are lists, a script has a command, parsers yield what their writers take
(`ContentAssumption`), and NULL is none of the values that stages make of several -
names, lists that match, joined addresses (`NullAssumption`). They hold for any number of workers, domains, callers, proxies, URLs, files and retries, any batch
size, rate, period and bucket width, and for any value of the bounds.

*OnlineRun.* `FlaggedIsFinished` is not inductive: it needs that whoever sets the
flag has the dossier or sets the error. `DossierFirst` says that every result
about to be submitted, buffered or in a batch has its dossier on disk;
`StartedOnce` that workers and batches exist only in a started run, so that a
dossier's run number is not 0; `HoldersHold` that a worker past `get` holds a
domain. `IInv` is their conjunction with the type invariant, and `NextIInv` shows
each action to preserve it. The interesting steps are `WriteDossier` (the fact is
made), `SubmitOp` (carried from the worker to buffer and batch) and `CommitBatch`
(carried to the row).

The other invariants of `OnlineRun` turn on where a domain is. `PlacesInv` says that
the producer's list, the queue, the workers, the buffer and the batches exclude each
other and hold no domain twice, and what makes that so: only what the run set out to
process is anywhere (`InScope`), who waits for a batch has its own domain in it
(`Awaiting`), the pool is empty until the pending list is read (`PoolEmpty`), the
sentinels come after all items and a worker leaves at one only (`PillsLast`), and
after the workers nothing is left but the last batch (`Ending`). `HandledOnce` is
part of it. `NothingDropped` is then inductive with `NotYet` (what is with the
producer has no terminal flag). `RowMatchesDossier` needs that no dossier is there
before its domain is processed (`Unwritten`) and that every result under way is of
the dossier this run wrote (`AllFresh`); `FailedHasNoDossier` that every failure
under way has none. `RunIsLifecycle` goes through the actions once more: with these
invariants each changes the status of at most the domains of one batch, as
`DomainLifecycle` allows.

*AsyncCache.* `SingleFlight`, `NoOrphan` and `Agreement` need each other:
`InFlightIsLed` (an entry in flight has its leader) and `CallState` complete the
inductive invariant; `ResolveIInv` covers the end of a factory, with or without a
value. `CachedForGood` follows, as a leader's key has no value.

*DomainChain.* `AsyncCacheProofs` is instantiated twice, so that what it proves of
any callers and keys holds of both caches (`OneLookupPerAddress`) as soon as the
chains are shown to use them as that module says (`UsesCaches`); `Calling` says that
a call under way belongs to a chain that stands at that lookup. `FirstAnswerTaken`
speaks of the end of a chain; `Records` states it of the addresses asked so far, and
its preservation rests on the caches' action property, as the cached answers it
refers to must not change (`CachedStays`) - other chains keep writing to the same
caches. `Slots` adds to `SlotsConserved` that finitely many chains render.

*RateLimiter.* `BurstBound` is strengthened to `Potential`: what is granted and
what could be granted now never exceed a full bucket and what the window brought.

*IpApi.* `SentBound` is no fact about `sent` alone: whether the next retry is paid
for depends on how many are left. `RetriesLeft` is the set of (caller, retry) pairs
still to be sent, and `Account` bounds `sent` plus its size; a retry moves one pair
to `sent`, a grant adds one request and at most `Retries` pairs, the opening of a
window finds at most `Retries` pairs a caller. `Backoff`, the sleep that doubles
with each retry, is a recursive function; that it exists and has numbers as values
is shown by a least counterexample, as is every induction here.

*ProxyFallback.* `EvenTurns` compares any two proxies; the invariant behind it is
`Rounds`: the proxies before `turn` have been drawn once more than the others. It
needs that a pool has no proxy twice (`Shuffle`, from the definition of
`SetToSeqs`), and that a pool is loaded once, while nothing has been drawn
(`NotLoaded`: who holds the lock has not loaded). The rest is the implementation:
`StepOfPool` maps every step of a run to a step of the provider or a stutter, kill
and restart to `Restart`.
Of the runs, `FilesPartition` is about the end and rests on the `Ledger`: every line
of the input is in the queue, with a worker or in the results, and their numbers add
up. `AtWork` says when a worker has an item, `ReadyIsLoaded` that who asks the pool
finds it loaded, so that an empty answer means an empty pool, as `RetriedInFull` has
it.

*RirIndex.* Each object is among the wide ones or in every bucket between those of
its ends (`Filed`). Division is monotone (`DivMonotone`), so an address in the range
has its bucket among these, and the scan meets the range. The answer is the least
of the hits by size, then position, which exists by well-founded induction on the
numbers.

*RirWhois.* The maps hold at every moment the last word of what was read
(`MapsUpToDate`); an object changes the last word on its own handle only
(`OrgSaidNext`, `MailSaidNext`). The network is `RirIndex`'s, as each step is one of
its steps or a stutter, and the first handle with a mailbox is the least number of a
set that is not empty.

*Pipeline.* `NoStageReplacesValues`, of which `FirstValueStays` is a part, is about commits, which take over what the transaction
has done to the rows. `Transaction` says that a row differs from the committed one
only when the transaction under way has joined it, so that each is joined once from
the committed values, and the difference is an improvement (`Kept`). `Place` says where in a command
a join can be, and that its files are some of those given. `GeoOfShownIps` holds of
rows and committed rows alike (`Located`): geo is joined only to rows that have
addresses, no other stage has a geolocation to offer (`OfferIs`, from
`ContentAssumption` and the least position of a hit), and addresses once there stay.

`SameAsUninterrupted` speaks of the end of a script, and nothing in a state between
tells what was joined: flags are cleared by `--force`, marks may be "pending" after
a kill, and each stage offers according to columns that earlier ones fill. The
invariant is about the offers instead. They come in *slots*, Brno's files one by one
and then the stages (`SlotOffer`); a row has `Prefix` n when each column is the first
value that the first n slots offer this very row. Joined with one of these slots or
with the next, it has `Prefix` still (`JoinExtends`): the offers of the slots before
do not change with the row, as addresses come from the first stages, without a key,
the AS number from geo, and ranks from one stage (`SlotIs`, `SameOffers`). `Reached`
says that a row has the prefix up to a slot and perhaps more. Of it `History` is
made: rows never fall behind (`Grows`), a flag set, a stage "done", a command that
is over and a stage behind in this one each mean that the stage is `Settled`
(`FlagsTell`, `MarksTell`, `LinesTell`), so is what the stage under way has joined
(`InWork`), and the input is complete before any stage is done (`InputKnown`). It
holds of scripts that satisfy `SameThroughout` and is inductive with `IInv`; a stage
about to join finds its rows at the slot before (`BaseReached`), because whatever
was given earlier is settled (`GivenInOrder`). At the end all stages with files are
settled, which is the last slot, and the slots offer what `OffersTo` does.

`LookupAgrees` follows: `lookup_domain` goes through the slots one after the other
(`LookupUpto`, its two recursive functions unfolded), and there is one row only that
has the prefix of all (`OneRow`): two such rows have the same addresses, hence the
same AS number, hence the same offers.

## 6. What is model-checked only

Liveness (`RunEnds` of both modules, `AllSettled`, `GetEnds`, `ChainEnds`, `LookupEnds`) is out of
the prover's reach. All safety properties that passing runs check are proved; what
the violation runs refute is TLC's alone, as are the instances of the assumptions.

The provers know nothing of `SelectSeq`, of powers, and of set images over tuples
(`{e : <<x, y>> \in S}`), so the models have recursive functions and sets of pairs
instead (`Existing`, `File`, `Backoff`, `PtrOffer`).

## 7. What is not modelled, and the plan

Left out: parsing of dump formats, string normalisation, option parsing, schema
migration, download scripts and images (no behaviour over time); what the live
lookups request and read (one request each, or several in a row, no state between
them); the single online lookup, which is one domain of `DomainChain` without dossier or database.

Order of the work, most important behaviour first; all of it is done.

1. `OnlineRun` with `DomainLifecycle`, its first theorems.
2. `AsyncCache`, `RateLimiter`, with proofs.
3. `DomainChain`, composing the caches.
4. `Pipeline` over store and sources.
5. `ProxyPool` and `ProxyFallback`, with proofs.
6. `IpApi` over `RateLimiter`, with proofs.
7. `RirIndex` and `RirWhois` with proofs; `Export`.
8. Proofs of all invariants and action properties the passing runs check, and of
   the refinements `Lifecycle`, `UsesLimiter`, `RunsUsePool` and `UsesCaches`;
   `SameAsUninterrupted` and `LookupAgrees`, about whole scripts, last.

What could follow: the reported gaps (section 3) repaired in the model, to see which
change of the code closes them, and proofs about `Export`, of which a run refutes
what its comment says.
