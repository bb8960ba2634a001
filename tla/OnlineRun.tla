------------------------------ MODULE OnlineRun ------------------------------
(***************************************************************************)
(* The online enrichment run: online/runner.py (run_online) with the       *)
(* batched SQLite writer of online/writer.py, the dossier files of         *)
(* online/dossier.py and the rows of store.py it touches.                  *)
(*                                                                         *)
(* One process at a time runs run_online.  Its coroutines are the main     *)
(* coroutine (normalise, force resets, pending list, then producer of the  *)
(* queue), a pool of workers, and the single writer thread that applies    *)
(* batches of buffered operations as SQLite transactions.  A kill loses    *)
(* everything but the database and the dossier files; the user may then    *)
(* start the program again on the same database and dossier directory.     *)
(*                                                                         *)
(* The coroutines are scheduled cooperatively: an action is the code       *)
(* between two awaits that can suspend.  In particular AsyncWriter's lock  *)
(* is never contended (no await happens under it), so that appending to    *)
(* the buffer, seeing it full and swapping it is one action.               *)
(*                                                                         *)
(* What a domain's data is worth is the number of the run that fetched it, *)
(* 0 standing for NULL or for a missing file.  The per-domain chain of     *)
(* lookups is one step here: it returns a record or raises.                *)
(***************************************************************************)
EXTENDS Naturals, Sequences, FiniteSets

CONSTANTS
  Domains,       \* the domains an input list may name
  Workers,       \* the worker coroutines of the pool (--concurrency)
  BatchSize,     \* AsyncWriter._batch_size
  OnlineFlags,   \* ONLINE_FLAGS in order, each named by its stage ("odns" for
                 \* s_odns); the last one is "render", the terminal flag
  InputChoices,  \* the input lists a run may be given; {} is no --input
  ForceChoices,  \* the --force sets a run may be given
  NoItem,        \* Python's None: the queue's sentinel, a worker without item
  MaxRuns,       \* bound: how often the program is started
  MaxCrashes,    \* bound: how often it is killed
  MaxErrors,     \* bound: how often processing one domain raises
  MaxFaults      \* bound: how often a batch transaction raises

ASSUME OnlineRunAssumption ==
  /\ IsFiniteSet(Workers) /\ Workers # {}
  /\ NoItem \notin Domains
  /\ "main" \notin Workers
  /\ BatchSize \in Nat \ {0}
  /\ OnlineFlags \in Seq(STRING) /\ OnlineFlags # <<>>
  /\ InputChoices \subseteq SUBSET Domains
  /\ ForceChoices \subseteq SUBSET STRING
  /\ MaxRuns \in Nat /\ MaxCrashes \in Nat
  /\ MaxErrors \in Nat /\ MaxFaults \in Nat

VARIABLES
  \* durable: the database ...
  known,       \* the domains that have a row
  normalized,  \* meta: stage normalize is done
  flags,       \* flags[d]: the ONLINE_FLAGS set in d's row
  data,        \* data[d]: the enrichment columns (COALESCE: first value stays)
  page,        \* page[d]: the page_* columns (overwritten by update_page)
  error,       \* error[d]: page_error says "process error"
  unrendered,  \* the domains whose page_error is that of a page load
  \* ... and the dossier directory
  dossier,     \* dossier[d]: <d>.dossier.gz
  \* volatile: the process
  phase,       \* where the main coroutine is; "idle" is no process
  force,       \* the --force set of this run
  toAdd,       \* input domains normalisation has not inserted yet
  resetAt,     \* index of the flag the force-reset loop is at
  scope,       \* the pending list of this run
  todo,        \* what the producer has not put in the queue yet
  pills,       \* sentinels it has still to put
  queue,       \* the bounded asyncio.Queue
  pc, item,    \* per worker: where it is, the domain it holds
  buf,         \* AsyncWriter._buf
  exec,        \* the writer thread's work queue: batches and who awaits them
  \* counters and history
  runs, crashes, errors, faults,
  lost         \* domains whose operation was in a rolled-back batch of this run

durable  == <<known, normalized, flags, data, page, error, unrendered, dossier>>
rowVars  == <<flags, data, page, error, unrendered>>
poolVars == <<todo, pills, queue, pc, item>>
vars == <<known, normalized, flags, data, page, error, unrendered, dossier,
          phase, force, toAdd, resetAt, scope, todo, pills, queue, pc, item,
          buf, exec, runs, crashes, errors, faults, lost>>

FlagSet  == {OnlineFlags[i] : i \in DOMAIN OnlineFlags}
Terminal == OnlineFlags[Len(OnlineFlags)]
QueueCap == 2 * Cardinality(Workers)

Flagged(d) == Terminal \in flags[d]

Op    == [domain : Domains, kind : {"result", "failure"}]
Batch == [owner : Workers \cup {"main"}, ops : Seq(Op)]

OpDomains(ops) == {ops[i].domain : i \in DOMAIN ops}

Phases == {"idle", "normalize", "reset", "run", "flush", "finish"}
Places == {"off", "get", "process", "dossier", "submit", "write",
           "except", "failwrite", "exit", "dead"}

TypeOK ==
  /\ known \subseteq Domains
  /\ normalized \in BOOLEAN
  /\ flags \in [Domains -> SUBSET FlagSet]
  /\ data \in [Domains -> 0..MaxRuns]
  /\ page \in [Domains -> 0..MaxRuns]
  /\ error \in [Domains -> BOOLEAN]
  /\ unrendered \subseteq Domains
  /\ dossier \in [Domains -> 0..MaxRuns]
  /\ phase \in Phases
  /\ force \in SUBSET STRING
  /\ toAdd \subseteq Domains
  /\ resetAt \in 1..(Len(OnlineFlags) + 1)
  /\ scope \subseteq known
  /\ todo \subseteq scope
  /\ pills \in 0..Cardinality(Workers)
  /\ queue \in Seq(Domains \cup {NoItem})
  /\ pc \in [Workers -> Places]
  /\ item \in [Workers -> Domains \cup {NoItem}]
  /\ buf \in Seq(Op)
  /\ exec \in Seq(Batch)
  /\ runs \in 0..MaxRuns
  /\ crashes \in 0..MaxCrashes
  /\ errors \in 0..MaxErrors
  /\ faults \in 0..MaxFaults
  /\ lost \subseteq Domains
-----------------------------------------------------------------------------
(* No process: nothing volatile.                                           *)
NoProcess ==
  /\ phase = "idle"
  /\ force = {}
  /\ toAdd = {}
  /\ resetAt = 1
  /\ scope = {}
  /\ todo = {}
  /\ pills = 0
  /\ queue = <<>>
  /\ pc = [w \in Workers |-> "off"]
  /\ item = [w \in Workers |-> NoItem]
  /\ buf = <<>>
  /\ exec = <<>>
  /\ lost = {}

(* A fresh database and an empty dossier directory.                        *)
Init ==
  /\ known = {}
  /\ normalized = FALSE
  /\ flags = [d \in Domains |-> {}]
  /\ data = [d \in Domains |-> 0]
  /\ page = [d \in Domains |-> 0]
  /\ error = [d \in Domains |-> FALSE]
  /\ unrendered = {}
  /\ dossier = [d \in Domains |-> 0]
  /\ runs = 0 /\ crashes = 0 /\ errors = 0 /\ faults = 0
  /\ NoProcess

(* The process ends, for whatever reason: all that is volatile is gone.    *)
Ends ==
  /\ phase' = "idle"
  /\ force' = {}
  /\ toAdd' = {}
  /\ resetAt' = 1
  /\ scope' = {}
  /\ todo' = {}
  /\ pills' = 0
  /\ queue' = <<>>
  /\ pc' = [w \in Workers |-> "off"]
  /\ item' = [w \in Workers |-> NoItem]
  /\ buf' = <<>>
  /\ exec' = <<>>
  /\ lost' = {}
-----------------------------------------------------------------------------
(* The main coroutine.                                                     *)

(* run-online is started.  Normalisation is skipped without --input and    *)
(* when its stage is done, unless --force normalize.                       *)
Start(inp, f) ==
  /\ phase = "idle"
  /\ runs < MaxRuns
  /\ runs' = runs + 1
  /\ force' = f
  /\ LET normalizes == inp # {} /\ ("normalize" \in f \/ ~normalized)
     IN /\ phase' = IF normalizes THEN "normalize" ELSE "reset"
        /\ toAdd' = IF normalizes THEN inp ELSE {}
  /\ UNCHANGED <<durable, resetAt, scope, poolVars, buf, exec,
                 crashes, errors, faults, lost>>

(* One chunk of the input is inserted (INSERT OR IGNORE) in a transaction  *)
(* of its own.                                                             *)
NormalizeChunk ==
  /\ phase = "normalize"
  /\ \E chunk \in SUBSET toAdd :
       /\ chunk # {}
       /\ known' = known \cup chunk
       /\ toAdd' = toAdd \ chunk
  /\ UNCHANGED <<normalized, rowVars, dossier, phase, force, resetAt, scope,
                 poolVars, buf, exec, runs, crashes, errors, faults, lost>>

(* The stage marked done before the last chunk is in (used to test the     *)
(* properties).                                                            *)
MarkNormalizedEarly ==
  /\ phase = "normalize"
  /\ normalized' = TRUE
  /\ phase' = IF toAdd = {} THEN "reset" ELSE "normalize"
  /\ UNCHANGED <<known, rowVars, dossier, force, toAdd, resetAt, scope,
                 poolVars, buf, exec, runs, crashes, errors, faults, lost>>

MarkNormalized ==
  /\ phase = "normalize"
  /\ toAdd = {}
  /\ normalized' = TRUE
  /\ phase' = "reset"
  /\ UNCHANGED <<known, rowVars, dossier, force, toAdd, resetAt, scope,
                 poolVars, buf, exec, runs, crashes, errors, faults, lost>>

(* --force STAGE names one flag, --force online and --force render all.    *)
ResetRequested(f) == f \in force \/ "online" \in force \/ "render" \in force

(* One turn of the force-reset loop; each reset is its own transaction.    *)
ResetFlag ==
  /\ phase = "reset"
  /\ resetAt <= Len(OnlineFlags)
  /\ flags' = [d \in Domains |->
                 IF ResetRequested(OnlineFlags[resetAt])
                 THEN flags[d] \ {OnlineFlags[resetAt]} ELSE flags[d]]
  /\ resetAt' = resetAt + 1
  /\ UNCHANGED <<known, normalized, data, page, error, unrendered, dossier,
                 phase, force, toAdd, scope, poolVars, buf, exec, runs, crashes, errors,
                 faults, lost>>

(* Only the row flag deciding, not the dossier on disk (used to test the   *)
(* properties).                                                            *)
PendingByFlag == {d \in known : ~Flagged(d)}

(* Rows whose s_render is not set and that have no dossier yet.            *)
Pending == {d \in known : ~Flagged(d) /\ dossier[d] = 0}

(* One sentinel for the whole pool (used to test the properties).          *)
LoadPendingOneSentinel ==
  /\ phase = "reset"
  /\ resetAt = Len(OnlineFlags) + 1
  /\ scope' = Pending
  /\ todo' = Pending
  /\ IF Pending = {}
     THEN /\ phase' = "finish"
          /\ UNCHANGED <<pills, pc>>
     ELSE /\ phase' = "run"
          /\ pills' = 1
          /\ pc' = [w \in Workers |-> "get"]
  /\ UNCHANGED <<durable, force, toAdd, resetAt, queue, item, buf, exec, runs,
                 crashes, errors, faults, lost>>

(* The pending list is read; with nothing to do the run goes straight to   *)
(* its end, else the workers are started.                                  *)
LoadPending ==
  /\ phase = "reset"
  /\ resetAt = Len(OnlineFlags) + 1
  /\ scope' = Pending
  /\ todo' = Pending
  /\ IF Pending = {}
     THEN /\ phase' = "finish"
          /\ UNCHANGED <<pills, pc>>
     ELSE /\ phase' = "run"
          /\ pills' = Cardinality(Workers)
          /\ pc' = [w \in Workers |-> "get"]
  /\ UNCHANGED <<durable, force, toAdd, resetAt, queue, item, buf, exec, runs,
                 crashes, errors, faults, lost>>

(* The producer puts a pending domain in the bounded queue.  The SELECT    *)
(* has no ORDER BY: any order.                                             *)
PutItem ==
  /\ phase = "run"
  /\ Len(queue) < QueueCap
  /\ \E d \in todo : /\ todo' = todo \ {d}
                     /\ queue' = Append(queue, d)
  /\ UNCHANGED <<durable, phase, force, toAdd, resetAt, scope, pills, pc, item,
                 buf, exec, runs, crashes, errors, faults, lost>>

(* One sentinel too many (used to test the properties).                    *)
PutSentinelOffByOne ==
  /\ phase = "run"
  /\ todo = {}
  /\ pills >= 0
  /\ Len(queue) < QueueCap
  /\ pills' = pills - 1
  /\ queue' = Append(queue, NoItem)
  /\ UNCHANGED <<durable, phase, force, toAdd, resetAt, scope, todo, pc, item,
                 buf, exec, runs, crashes, errors, faults, lost>>

(* ... and, after the last one, a sentinel for each worker.                *)
PutSentinel ==
  /\ phase = "run"
  /\ todo = {}
  /\ pills > 0
  /\ Len(queue) < QueueCap
  /\ pills' = pills - 1
  /\ queue' = Append(queue, NoItem)
  /\ UNCHANGED <<durable, phase, force, toAdd, resetAt, scope, todo, pc, item,
                 buf, exec, runs, crashes, errors, faults, lost>>

Gathering == phase = "run" /\ todo = {} /\ pills = 0

(* The last, partial batch forgotten (used to test the properties).        *)
GatherWithoutFlush ==
  /\ Gathering
  /\ \A w \in Workers : pc[w] = "exit"
  /\ phase' = "finish"
  /\ UNCHANGED <<durable, force, toAdd, resetAt, scope, poolVars, buf, exec,
                 runs, crashes, errors, faults, lost>>

(* All workers returned: the last, partial batch is flushed.               *)
GatherAndFlush ==
  /\ Gathering
  /\ \A w \in Workers : pc[w] = "exit"
  /\ IF buf = <<>>
     THEN phase' = "finish" /\ UNCHANGED exec
     ELSE phase' = "flush" /\ exec' = Append(exec, [owner |-> "main", ops |-> buf])
  /\ buf' = <<>>
  /\ UNCHANGED <<durable, force, toAdd, resetAt, scope, poolVars, runs, crashes,
                 errors, faults, lost>>

(* A worker died of an exception: gather raises it at once, and the        *)
(* process ends without a last flush, cancelling what still runs.          *)
GatherRaises ==
  /\ Gathering
  /\ \E w \in Workers : pc[w] = "dead"
  /\ Ends
  /\ UNCHANGED <<durable, runs, crashes, errors, faults>>

(* The aggregate is exported from the database and the writer closed (its  *)
(* flush finds the buffer empty).                                          *)
Finish ==
  /\ phase = "finish"
  /\ Ends
  /\ UNCHANGED <<durable, runs, crashes, errors, faults>>

(* The process is killed.                                                  *)
Crash ==
  /\ phase # "idle"
  /\ crashes < MaxCrashes
  /\ crashes' = crashes + 1
  /\ Ends
  /\ UNCHANGED <<durable, runs, errors, faults>>
-----------------------------------------------------------------------------
(* The workers.                                                            *)

Goto(w, place) == pc' = [pc EXCEPT ![w] = place]

(* The worker takes the next item; the sentinel makes it return.           *)
Get(w) ==
  /\ pc[w] = "get"
  /\ queue # <<>>
  /\ queue' = Tail(queue)
  /\ item' = [item EXCEPT ![w] = Head(queue)]
  /\ Goto(w, IF Head(queue) = NoItem THEN "exit" ELSE "process")
  /\ UNCHANGED <<durable, phase, force, toAdd, resetAt, scope, todo, pills, buf,
                 exec, runs, crashes, errors, faults, lost>>

(* The update submitted before the dossier is written (used to test the    *)
(* properties).                                                            *)
ProcessThenSubmit(w) ==
  /\ pc[w] = "process"
  /\ Goto(w, "submit")
  /\ UNCHANGED <<durable, phase, force, toAdd, resetAt, scope, todo, pills,
                 queue, item, buf, exec, runs, crashes, errors, faults, lost>>

(* The chain of lookups returned a record.                                 *)
Process(w) ==
  /\ pc[w] = "process"
  /\ Goto(w, "dossier")
  /\ UNCHANGED <<durable, phase, force, toAdd, resetAt, scope, todo, pills,
                 queue, item, buf, exec, runs, crashes, errors, faults, lost>>

(* write_dossier, in a thread: a temporary file renamed over the final     *)
(* one, so that it is there complete or not at all.                        *)
WriteDossier(w) ==
  /\ pc[w] = "dossier"
  /\ dossier' = [dossier EXCEPT ![item[w]] = runs]
  /\ Goto(w, "submit")
  /\ UNCHANGED <<known, normalized, rowVars, phase, force, toAdd, resetAt,
                 scope, todo, pills, queue, item, buf, exec, runs, crashes,
                 errors, faults, lost>>

(* The final file written in place: an error leaves a part of it there     *)
(* (used to test the properties).                                          *)
RaisesHalfWritten(w) ==
  /\ pc[w] \in {"process", "dossier"}
  /\ errors < MaxErrors
  /\ errors' = errors + 1
  /\ dossier' = [dossier EXCEPT ![item[w]] = IF pc[w] = "dossier" THEN runs ELSE @]
  /\ Goto(w, "except")
  /\ UNCHANGED <<known, normalized, rowVars, phase, force, toAdd, resetAt,
                 scope, todo, pills, queue, item, buf, exec, runs, crashes,
                 faults, lost>>

(* The chain or write_dossier raises (a malformed answer, a full disk).    *)
Raises(w) ==
  /\ pc[w] \in {"process", "dossier"}
  /\ errors < MaxErrors
  /\ errors' = errors + 1
  /\ Goto(w, "except")
  /\ UNCHANGED <<durable, phase, force, toAdd, resetAt, scope, todo, pills,
                 queue, item, buf, exec, runs, crashes, faults, lost>>

(* A flush that leaves the buffer as it is (used to test the properties).  *)
SubmitKeepingBuffer(w, kind, waiting) ==
  LET filled == Append(buf, [domain |-> item[w], kind |-> kind])
  IN IF Len(filled) < BatchSize
     THEN /\ buf' = filled
          /\ Goto(w, "get")
          /\ item' = [item EXCEPT ![w] = NoItem]
          /\ UNCHANGED exec
     ELSE /\ buf' = filled
          /\ exec' = Append(exec, [owner |-> w, ops |-> filled])
          /\ Goto(w, waiting)
          /\ UNCHANGED item

(* A flush that takes the batch before the operation is in it, and empties *)
(* the buffer after (used to test the properties).                         *)
SubmitLosingLast(w, kind, waiting) ==
  LET filled == Append(buf, [domain |-> item[w], kind |-> kind])
  IN IF Len(filled) < BatchSize
     THEN /\ buf' = filled
          /\ Goto(w, "get")
          /\ item' = [item EXCEPT ![w] = NoItem]
          /\ UNCHANGED exec
     ELSE /\ buf' = <<>>
          /\ exec' = Append(exec, [owner |-> w, ops |-> buf])
          /\ Goto(w, waiting)
          /\ UNCHANGED item

(* AsyncWriter.submit: the operation is buffered; when that fills the      *)
(* batch, the buffer is swapped and handed to the writer thread, and the   *)
(* worker awaits the transaction.                                          *)
SubmitOp(w, kind, waiting) ==
  LET filled == Append(buf, [domain |-> item[w], kind |-> kind])
  IN IF Len(filled) < BatchSize
     THEN /\ buf' = filled
          /\ Goto(w, "get")
          /\ item' = [item EXCEPT ![w] = NoItem]
          /\ UNCHANGED exec
     ELSE /\ buf' = <<>>
          /\ exec' = Append(exec, [owner |-> w, ops |-> filled])
          /\ Goto(w, waiting)
          /\ UNCHANGED item

Submit(w) ==
  /\ pc[w] = "submit"
  /\ SubmitOp(w, "result", "write")
  /\ UNCHANGED <<durable, phase, force, toAdd, resetAt, scope, todo, pills,
                 queue, runs, crashes, errors, faults, lost>>

(* The exception only logged (used to test the properties).                *)
SwallowException(w) ==
  /\ pc[w] = "except"
  /\ Goto(w, "get")
  /\ item' = [item EXCEPT ![w] = NoItem]
  /\ UNCHANGED <<durable, phase, force, toAdd, resetAt, scope, todo, pills,
                 queue, buf, exec, runs, crashes, errors, faults, lost>>

(* The except clause submits fail_op for the domain the worker holds.      *)
SubmitFailure(w) ==
  /\ pc[w] = "except"
  /\ SubmitOp(w, "failure", "failwrite")
  /\ UNCHANGED <<durable, phase, force, toAdd, resetAt, scope, todo, pills,
                 queue, runs, crashes, errors, faults, lost>>
-----------------------------------------------------------------------------
(* The writer thread: one transaction a batch.                             *)

HasResult(ops, d) == [domain |-> d, kind |-> "result"] \in {ops[i] : i \in DOMAIN ops}

(* The last operation of the batch on d is its result (update_page         *)
(* overwrites: the last one wins).                                         *)
LastIsResult(ops, d) ==
  \E i \in DOMAIN ops :
    /\ ops[i] = [domain |-> d, kind |-> "result"]
    /\ \A j \in DOMAIN ops : ops[j].domain = d => j <= i

(* db_op and fail_op of a whole batch.  A result may hold the error of its *)
(* page load, which no proxy could help.                                   *)
Apply(ops) ==
  /\ data' = [d \in Domains |->
               IF HasResult(ops, d) /\ data[d] = 0 THEN runs ELSE data[d]]
  /\ page' = [d \in Domains |->
               IF d \notin OpDomains(ops) THEN page[d]
               ELSE IF LastIsResult(ops, d) THEN runs ELSE 0]
  /\ error' = [d \in Domains |->
               IF d \notin OpDomains(ops) THEN error[d] ELSE ~LastIsResult(ops, d)]
  /\ \E failed \in SUBSET {d \in OpDomains(ops) : LastIsResult(ops, d)} :
       unrendered' = (unrendered \ OpDomains(ops)) \cup failed
  /\ flags' = [d \in Domains |->
               IF d \in OpDomains(ops) THEN FlagSet ELSE flags[d]]

(* The coroutine that awaited the flush goes on after its success.         *)
Succeeds(owner) ==
  IF owner = "main"
  THEN phase' = "finish" /\ UNCHANGED <<pc, item>>
  ELSE /\ Goto(owner, "get")
       /\ item' = [item EXCEPT ![owner] = NoItem]
       /\ UNCHANGED phase

CommitBatch ==
  /\ exec # <<>>
  /\ Apply(Head(exec).ops)
  /\ exec' = Tail(exec)
  /\ Succeeds(Head(exec).owner)
  /\ UNCHANGED <<known, normalized, dossier, force, toAdd, resetAt, scope, todo,
                 pills, queue, buf, runs, crashes, errors, faults, lost>>

(* The transaction raises and is rolled back as a whole (a value SQLite    *)
(* cannot bind, a locked database).  In its submitting worker that is an   *)
(* exception of the domain the worker holds; under the except clause       *)
(* itself it kills the worker, under the last flush the run.               *)
RollbackWorker ==
  /\ exec # <<>>
  /\ faults < MaxFaults
  /\ Head(exec).owner # "main"
  /\ faults' = faults + 1
  /\ lost' = lost \cup OpDomains(Head(exec).ops)
  /\ exec' = Tail(exec)
  /\ LET w == Head(exec).owner
     IN Goto(w, IF pc[w] = "write" THEN "except" ELSE "dead")
  /\ UNCHANGED <<durable, phase, force, toAdd, resetAt, scope, todo, pills,
                 queue, item, buf, runs, crashes, errors>>

RollbackMain ==
  /\ exec # <<>>
  /\ faults < MaxFaults
  /\ Head(exec).owner = "main"
  /\ faults' = faults + 1
  /\ Ends
  /\ UNCHANGED <<durable, runs, crashes, errors>>
-----------------------------------------------------------------------------
Main ==
  \/ NormalizeChunk \/ MarkNormalized \/ ResetFlag \/ LoadPending
  \/ PutItem \/ PutSentinel \/ GatherAndFlush \/ GatherRaises \/ Finish

Worker(w) ==
  \/ Get(w) \/ Process(w) \/ WriteDossier(w) \/ Raises(w)
  \/ Submit(w) \/ SubmitFailure(w)

Writer == CommitBatch \/ RollbackWorker \/ RollbackMain

StartSome == \E inp \in InputChoices, f \in ForceChoices : Start(inp, f)

(* The program is not started again.                                       *)
Rest == phase = "idle" /\ runs = MaxRuns /\ UNCHANGED vars

Next ==
  \/ StartSome
  \/ Main
  \/ \E w \in Workers : Worker(w)
  \/ Writer
  \/ Crash
  \/ Rest

Spec == Init /\ [][Next]_vars

(* The event loop runs every coroutine that is ready and the writer        *)
(* thread drains its queue; the user starts the program again as long as   *)
(* the bound allows.  Nothing is assumed of crashes.                       *)
Fairness ==
  /\ WF_vars(StartSome)
  /\ WF_vars(Main)
  /\ \A w \in Workers : WF_vars(Worker(w))
  /\ WF_vars(Writer)

FairSpec == Spec /\ Fairness
-----------------------------------------------------------------------------
(* Properties.                                                             *)

InQueue(d) == \E i \in DOMAIN queue : queue[i] = d
(* A worker awaiting a flush has handed its operation over.                *)
Held(d)    == \E w \in Workers : item[w] = d /\ pc[w] \notin {"write", "failwrite", "dead"}
Buffered(d) == d \in OpDomains(buf)
InBatch(d) == \E i \in DOMAIN exec : d \in OpDomains(exec[i].ops)

(* Between the pending list and the export, a pending domain is with the   *)
(* producer, in the queue, with a worker, buffered, in a batch, recorded,  *)
(* or was in a batch that was rolled back: the pool, the two ways into the *)
(* buffer and the partial last batch drop none.                            *)
NothingDropped ==
  phase \in {"run", "flush", "finish"} =>
    \A d \in scope : \/ d \in todo \/ InQueue(d) \/ Held(d)
                     \/ Buffered(d) \/ InBatch(d)
                     \/ Flagged(d) \/ d \in lost

(* No domain is processed by two workers or written twice: the places a    *)
(* domain can be in exclude each other, and none of them is taken twice.   *)
HandledOnce ==
  /\ \A i, j \in DOMAIN queue : queue[i] = queue[j] /\ queue[i] # NoItem => i = j
  /\ \A v, w \in Workers : item[v] = item[w] /\ item[v] # NoItem => v = w
  /\ \A i, j \in DOMAIN buf : buf[i].domain = buf[j].domain => i = j
  /\ \A i, j \in DOMAIN exec : i # j =>
       OpDomains(exec[i].ops) \cap OpDomains(exec[j].ops) = {}
  /\ \A d \in scope :
       /\ d \in todo => ~InQueue(d) /\ ~Held(d) /\ ~Buffered(d) /\ ~InBatch(d)
       /\ InQueue(d) => ~Held(d) /\ ~Buffered(d) /\ ~InBatch(d)
       /\ Held(d) => ~Buffered(d) /\ ~InBatch(d)
       /\ Buffered(d) => ~InBatch(d)

(* A row whose s_render is set has finished online processing: whatever    *)
(* was killed, rolled back or forced before, its dossier is on disk or the *)
(* row says that processing it failed (runner.py, ONLINE_FLAGS).           *)
FlaggedIsFinished == \A d \in Domains : Flagged(d) => dossier[d] # 0 \/ error[d]

(* The row never disagrees with the dossier file it points to: page_* and  *)
(* the enrichment columns are those of the run that wrote the dossier.     *)
RowMatchesDossier ==
  \A d \in Domains : /\ page[d] # 0 => page[d] = dossier[d]
                     /\ data[d] # 0 => data[d] = dossier[d]

(* When the aggregate is exported, each domain the run set out to process  *)
(* is recorded, but for those in a batch that was rolled back.             *)
FinishedRunRecords ==
  phase = "finish" => \A d \in scope : Flagged(d) \/ d \in lost

(* A domain reported as failed has no dossier: as long as no transaction   *)
(* fails, the report and the file never contradict each other.             *)
FailedHasNoDossier ==
  faults = 0 => \A d \in Domains : Flagged(d) /\ error[d] => dossier[d] = 0

(* Normalisation is marked done only once a whole input list has its rows, *)
(* wherever in it an earlier run was killed.                               *)
NormalizedIsComplete ==
  normalized => \E inp \in InputChoices \ {{}} : inp \subseteq known

OnlineForced == \E f \in FlagSet : ResetRequested(f)

(* page_error is not null.                                                 *)
PageError(d) == error[d] \/ d \in unrendered

(* "Kill anytime and re-run - finished domains (dossier present / s_render *)
(* set) are skipped" (README): however often runs are killed and started   *)
(* again, and whatever transaction is rolled back, no run writes again, or *)
(* removes, the dossier of a domain that is finished.  Of a run that       *)
(* forces an online stage, and of a row with a page_error, the documents   *)
(* say the contrary and nothing is claimed.                                *)
DossierWrittenOnce ==
  [][~OnlineForced =>
       \A d \in Domains : dossier[d] # 0 /\ ~PageError(d) => dossier'[d] = dossier[d]]_vars

(* The producer waits for room in a queue that nobody reads any more: all  *)
(* workers have died of an exception before the last sentinel is in it,    *)
(* and gather, which would raise it, is not reached.                       *)
Stranded ==
  /\ phase = "run"
  /\ todo # {} \/ pills > 0
  /\ Len(queue) = QueueCap
  /\ \A w \in Workers : pc[w] = "dead"

(* A started run comes to its end or, and only so, stays with its producer *)
(* stranded: sentinels, a full queue, the batches and the workers that die *)
(* while others live leave nothing else waiting for ever.                  *)
RunEnds == (phase # "idle") ~> (phase = "idle" \/ Stranded)

(* Every listed domain is settled in the end - its dossier written or its  *)
(* failure recorded - although runs are killed, their writes fail and      *)
(* their workers die, given a run after these that none of it befalls.     *)
Settled(d) == d \in known /\ (Flagged(d) \/ dossier[d] # 0)
AllSettled == <>[](\A d \in UNION InputChoices : Settled(d))
-----------------------------------------------------------------------------
(* The life of a domain, as the durable state alone shows it.  A flagged   *)
(* row with neither dossier nor error has no place in it.                  *)
Status(d) ==
  IF d \notin known THEN "unknown"
  ELSE IF ~Flagged(d) THEN IF dossier[d] = 0 THEN "pending" ELSE "written"
  ELSE IF error[d] THEN IF dossier[d] = 0 THEN "failed" ELSE "spoiled"
  ELSE IF dossier[d] = 0 THEN "phantom" ELSE "recorded"

Life == INSTANCE DomainLifecycle WITH status <- [d \in Domains |-> Status(d)]

(* The run implements the life cycle: coroutines, batches, kills, resets   *)
(* and restarts move domains only as DomainLifecycle allows.               *)
Lifecycle == Life!Spec
-----------------------------------------------------------------------------
(* What the documents say, and the code does not do (checked by runs that  *)
(* TLC refutes).                                                           *)

(* When a run with --force online completes, no row of the table is empty: *)
(* it reprocesses, whatever dossier is there ("finished domains (dossier   *)
(* present / s_render set) are skipped.  --force online (or --force        *)
(* render) reprocesses", README), and so makes up at the latest for what a *)
(* killed run left out ("preserving the offline mode's resume guarantees", *)
(* writer.py; "kill anytime and re-run", README).                          *)
ForcedRunFillsGaps ==
  phase = "finish" /\ "online" \in force => \A d \in known : data[d] # 0 \/ error[d]

(* "never let one domain stall" (runner.py): a run ends, whatever the      *)
(* exceptions of its domains and transactions.                             *)
NoStall == (phase # "idle") ~> (phase = "idle")
=============================================================================
