--------------------------- MODULE ProxyFallback ---------------------------
(***************************************************************************)
(* The two clients of the proxy pool: the availability checker             *)
(* (online/checker.py), which probes a list of resources, and page         *)
(* rendering (online/render.py), which downloads a page per domain.  Both  *)
(* try an item directly first and then through one proxy after another, at *)
(* most MaxAttempts; both share the provider among their workers.          *)
(*                                                                         *)
(* The checker keeps its results in memory and writes two files when every *)
(* worker is through.  A run may be killed anywhere, and its cache of      *)
(* proxies is what the next one finds.  What a probe or a page is worth is *)
(* left out: it is answered or it is not.                                  *)
(***************************************************************************)
EXTENDS ProxyPool

CONSTANTS
  Workers,      \* concurrent checks, or slots of the render semaphore
  Main,         \* the coroutine of the run itself
  Input,        \* the lines of the input file, all different
  MaxAttempts,  \* --max-proxy-attempts
  LocalFiles,   \* the local files a run may be given, Nothing for none
  MaxRuns       \* bound: runs, one after another

ASSUME ProxyFallbackAssumption ==
  /\ Workers \cup {Main} = Clients /\ Main \notin Workers
  /\ Workers # {}
  /\ MaxAttempts \in Nat /\ MaxRuns \in Nat
  /\ LocalFiles \subseteq {Nothing} \cup Files
  /\ Input \in Seq(Range(Input)) /\ Nothing \notin Range(Input)

VARIABLES
  run,       \* "none", "loading", "working", "half" (one file written), "over"
  runs,      \* runs begun
  kind,      \* "check" or "render"
  proxied,   \* there is a provider: not --no-proxy
  queue,     \* the items no worker has taken
  item,      \* per worker: the item it is at, or Nothing
  step,      \* ... "idle", "direct", "asking", "probing", "next" or "out"
  attempt,   \* ... the proxies it has tried the item through
  results,   \* what was found of each item: the attempts matter if it failed
  success,   \* the file of the items that answered, as it is on disk: the
             \* item of each row, by the row's place in results
  failed     \* the file of those that did not, likewise

workVars == <<queue, item, step, attempt, results>>
fileVars == <<success, failed>>
runVars  == <<run, runs, kind, proxied>>
vars     == <<poolVars, workVars, fileVars, runVars>>

Results == [item : Range(Input), ok : BOOLEAN, attempts : 0..MaxAttempts, raised : BOOLEAN]

TypeOK ==
  /\ PoolTypeOK
  /\ run \in {"none", "loading", "working", "half", "over"}
  /\ runs \in 0..MaxRuns
  /\ kind \in {"check", "render"}
  /\ proxied \in BOOLEAN
  /\ queue \in Seq(Range(Input))
  /\ item \in [Workers -> Range(Input) \cup {Nothing}]
  /\ step \in [Workers -> {"idle", "direct", "asking", "probing", "next", "out"}]
  /\ attempt \in [Workers -> 0..MaxAttempts]
  /\ results \in Seq(Results)
  /\ \A file \in {success, failed} :
       DOMAIN file \subseteq 1..Len(Input) /\ Range(file) \subseteq Range(Input)

Init ==
  /\ PoolInit /\ cacheFile = Nothing /\ ~fresh /\ local = Nothing
  /\ run = "none" /\ runs = 0 /\ kind = "check" /\ proxied = FALSE
  /\ queue = <<>> /\ results = <<>>
  /\ item = [w \in Workers |-> Nothing]
  /\ step = [w \in Workers |-> "out"]
  /\ attempt = [w \in Workers |-> 0]
  /\ success = <<>> /\ failed = <<>>

Idle ==
  /\ item' = [w \in Workers |-> Nothing]
  /\ attempt' = [w \in Workers |-> 0]
  /\ results' = <<>>

(* A process begins a run.  With a provider the checker, and the online    *)
(* run that launches its own browser, load the pool first; an online run   *)
(* that is handed a browser leaves that to the first page that needs it.   *)
(* Without one nothing is loaded.                                          *)
Begin(k, p, l, first) ==
  /\ run \in {"none", "over"} /\ runs < MaxRuns
  /\ k = "check" => first
  /\ ~p => first /\ l = Nothing
  /\ runs' = runs + 1 /\ kind' = k /\ proxied' = p
  /\ queue' = Input
  /\ Idle
  /\ step' = [w \in Workers |-> "idle"]
  /\ Restart(l)
  /\ run' = IF p /\ first THEN "loading" ELSE "working"
  /\ UNCHANGED fileVars

(* ensure_loaded, called and returned from by the run.                     *)
LoadFirst ==
  /\ run = "loading"
  /\ EnsureLoaded(Main)
  /\ UNCHANGED <<workVars, fileVars, runVars>>

Loaded ==
  /\ run = "loading"
  /\ Return(Main)
  /\ run' = "working"
  /\ UNCHANGED <<workVars, fileVars, runs, kind, proxied>>

(* A worker takes an item and tries it directly, or finds none left.       *)
TakeItem(w) ==
  /\ run = "working"
  /\ step[w] = "idle"
  /\ IF queue = <<>>
     THEN step' = [step EXCEPT ![w] = "out"] /\ UNCHANGED <<queue, item, attempt>>
     ELSE /\ item' = [item EXCEPT ![w] = Head(queue)]
          /\ queue' = Tail(queue)
          /\ attempt' = [attempt EXCEPT ![w] = 0]
          /\ step' = [step EXCEPT ![w] = "direct"]
  /\ UNCHANGED <<poolVars, results, fileVars, runVars>>

(* The worker is through with its item.                                    *)
Concludes(w, ok, attempts, raised) ==
  /\ results' = Append(results, [item |-> item[w], ok |-> ok,
                                 attempts |-> attempts, raised |-> raised])
  /\ item' = [item EXCEPT ![w] = Nothing]
  /\ step' = [step EXCEPT ![w] = "idle"]
  /\ attempt' = [attempt EXCEPT ![w] = 0]
  /\ UNCHANGED <<queue, fileVars, runVars>>

(* The direct try, or the one through a proxy, is answered.                *)
Answered(w) ==
  /\ step[w] \in {"direct", "probing"}
  /\ Concludes(w, TRUE, 0, FALSE)
  /\ UNCHANGED poolVars

(* It is not: both schemes failed.                                         *)
Unanswered(w) ==
  /\ step[w] \in {"direct", "probing"}
  /\ step' = [step EXCEPT ![w] = "next"]
  /\ UNCHANGED <<poolVars, queue, item, attempt, results, fileVars, runVars>>

(* An exception lost with its item (used to test the properties).          *)
RaisesSilently(w) ==
  /\ kind = "check"
  /\ step[w] \in {"direct", "probing"}
  /\ item' = [item EXCEPT ![w] = Nothing]
  /\ step' = [step EXCEPT ![w] = "idle"]
  /\ attempt' = [attempt EXCEPT ![w] = 0]
  /\ UNCHANGED <<poolVars, queue, results, fileVars, runVars>>

(* The checker cannot build its client - for a proxy it takes for an       *)
(* invalid address, say: the worker gives the item up, as never attempted. *)
(* (Rendering counts a context it cannot create as unanswered.)            *)
Raises(w) ==
  /\ kind = "check"
  /\ step[w] \in {"direct", "probing"}
  /\ Concludes(w, FALSE, 0, TRUE)
  /\ UNCHANGED poolVars

(* One try through a proxy less (used to test the properties).             *)
GivesUpEarly(w) ==
  /\ step[w] = "next"
  /\ ~proxied \/ attempt[w] + 1 >= MaxAttempts
  /\ Concludes(w, FALSE, attempt[w], FALSE)
  /\ UNCHANGED poolVars

(* The next round of the loop over the attempts: the worker asks for a     *)
(* proxy.                                                                  *)
Asks(w) ==
  /\ step[w] = "next"
  /\ proxied /\ attempt[w] < MaxAttempts
  /\ Acquire(w)
  /\ step' = [step EXCEPT ![w] = "asking"]
  /\ UNCHANGED <<queue, item, attempt, results, fileVars, runVars>>

(* No provider, or no attempt left.                                        *)
GivesUp(w) ==
  /\ step[w] = "next"
  /\ ~proxied \/ attempt[w] >= MaxAttempts
  /\ Concludes(w, FALSE, attempt[w], FALSE)
  /\ UNCHANGED poolVars

(* acquire returns a proxy, which is tried - or none, which ends the loop. *)
GetsProxy(w) ==
  /\ step[w] = "asking"
  /\ Take(w)
  /\ IF Turn = Nothing
     THEN Concludes(w, FALSE, attempt[w], FALSE)
     ELSE /\ attempt' = [attempt EXCEPT ![w] = @ + 1]
          /\ step' = [step EXCEPT ![w] = "probing"]
          /\ UNCHANGED <<queue, item, results, fileVars, runVars>>

AllOut == \A w \in Workers : step[w] = "out"

(* The file of the results that answered, or did not.                      *)
File(ok) == [i \in {i \in DOMAIN results : results[i].ok = ok} |-> results[i].item]

(* gather returns; the checker writes the items that answered ...          *)
WriteSuccess ==
  /\ run = "working" /\ AllOut /\ kind = "check"
  /\ success' = File(TRUE)
  /\ run' = "half"
  /\ UNCHANGED <<poolVars, workVars, failed, runs, kind, proxied>>

(* ... and those that did not.                                             *)
WriteFailed ==
  /\ run = "half"
  /\ failed' = File(FALSE)
  /\ run' = "over"
  /\ UNCHANGED <<poolVars, workVars, success, runs, kind, proxied>>

(* The pages of a run are rendered.                                        *)
Rendered ==
  /\ run = "working" /\ AllOut /\ kind = "render"
  /\ run' = "over"
  /\ UNCHANGED <<poolVars, workVars, fileVars, runs, kind, proxied>>

(* The run is killed: the disk keeps what is on it.                        *)
Kill ==
  /\ run \in {"loading", "working", "half"}
  /\ Restart(Nothing)
  /\ Idle
  /\ queue' = <<>>
  /\ step' = [w \in Workers |-> "out"]
  /\ run' = "none"
  /\ UNCHANGED <<fileVars, runs, kind, proxied>>

PoolStep(c) == Loading(c) /\ UNCHANGED <<workVars, fileVars, runVars>>

Worker(w) ==
  \/ TakeItem(w) \/ Answered(w) \/ Unanswered(w) \/ Raises(w)
  \/ Asks(w) \/ GetsProxy(w) \/ GivesUp(w)

Finishing == WriteSuccess \/ WriteFailed \/ Rendered

Next ==
  \/ \E k \in {"check", "render"}, p, first \in BOOLEAN, l \in LocalFiles : Begin(k, p, l, first)
  \/ LoadFirst \/ Loaded
  \/ \E c \in Clients : PoolStep(c)
  \/ \E w \in Workers : Worker(w)
  \/ Finishing
  \/ Expire /\ UNCHANGED <<workVars, fileVars, runVars>>
  \/ Kill

Spec == Init /\ [][Next]_vars

(* The event loop resumes what is ready, and every request ends: clients,  *)
(* page loads and list downloads have their timeouts.                      *)
Fairness ==
  /\ WF_vars(LoadFirst) /\ WF_vars(Loaded) /\ WF_vars(Finishing)
  /\ \A c \in Clients : WF_vars(PoolStep(c))
  /\ \A w \in Workers : WF_vars(Worker(w))

FairSpec == Spec /\ Fairness
-----------------------------------------------------------------------------
(* When a check is over its two files are a partition of the input: each   *)
(* line has one row in one of them, whatever failed or raised for it, and  *)
(* none is left of a run before.                                           *)
FilesPartition ==
  run = "over" /\ kind = "check" =>
    /\ Cardinality(DOMAIN success) + Cardinality(DOMAIN failed) = Len(Input)
    /\ Range(success) \cup Range(failed) = Range(Input)

(* "Max proxy retries per resource before marking it failed" (cli.py): an  *)
(* item is given up with attempts left only if there is no provider or its *)
(* pool is empty - or, in the checker, if an exception cut its turn short. *)
RetriedInFull ==
  \A r \in Range(results) :
    ~r.ok /\ ~r.raised /\ r.attempts < MaxAttempts => ~proxied \/ (loaded /\ pool = <<>>)

(* A run comes to its end, unless it is killed: no worker waits for a lock *)
(* whose holder is gone.                                                   *)
RunEnds == (run \in {"loading", "working", "half"}) ~> (run \in {"none", "over"})
=============================================================================
