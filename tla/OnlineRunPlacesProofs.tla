------------------------ MODULE OnlineRunPlacesProofs -----------------------
(***************************************************************************)
(* Proofs about OnlineRun that turn on where a domain is: with the         *)
(* producer, in the queue, with a worker, in the buffer or in a batch.     *)
(* For every value of the constants.                                       *)
(***************************************************************************)
EXTENDS OnlineRunProofs

(* A worker has the domain, wherever it is with it.                        *)
Carried(d) == \E w \in Workers : item[w] = d

(* No two operations on one domain.                                        *)
DistinctOps(ops) == \A i, j \in DOMAIN ops : ops[i].domain = ops[j].domain => i = j

(* No batch shares a domain or its owner with another.                     *)
DistinctBatches(bs) ==
  /\ \A i, j \in DOMAIN bs : i # j =>
       /\ OpDomains(bs[i].ops) \cap OpDomains(bs[j].ops) = {}
       /\ bs[i].owner # bs[j].owner
  /\ \A i \in DOMAIN bs : DistinctOps(bs[i].ops)

(* No place has a domain twice.                                            *)
Distinct ==
  /\ \A i, j \in DOMAIN queue : queue[i] = queue[j] /\ queue[i] # NoItem => i = j
  /\ \A v, w \in Workers : item[v] = item[w] /\ item[v] # NoItem => v = w
  /\ DistinctOps(buf)
  /\ DistinctBatches(exec)

(* The places a domain can be in exclude each other.                       *)
Exclusive ==
  \A d \in Domains :
    /\ d \in todo => ~InQueue(d) /\ ~Carried(d) /\ ~Buffered(d) /\ ~InBatch(d)
    /\ InQueue(d) => ~Carried(d) /\ ~Buffered(d) /\ ~InBatch(d)
    /\ Held(d) => ~Buffered(d) /\ ~InBatch(d)
    /\ Buffered(d) => ~InBatch(d)

(* Only what the run set out to process is anywhere.                       *)
InScope ==
  \A d \in Domains : InQueue(d) \/ Carried(d) \/ Buffered(d) \/ InBatch(d) => d \in scope

(* Who has handed over a batch waits for it, with its own domain in it.    *)
Awaiting ==
  \A i \in DOMAIN exec :
    IF exec[i].owner = "main" THEN phase = "flush"
    ELSE /\ pc[exec[i].owner] \in {"write", "failwrite"}
         /\ item[exec[i].owner] \in OpDomains(exec[i].ops)

(* A worker that waits for an item, or has none to wait for, holds none.   *)
FreeHands == \A w \in Workers : pc[w] \in {"off", "get", "exit"} => item[w] = NoItem

(* Before the pending list is read there is nothing in the pool.           *)
PoolEmpty ==
  phase \in {"idle", "normalize", "reset"} =>
    /\ scope = {} /\ queue = <<>> /\ buf = <<>> /\ exec = <<>>
    /\ \A w \in Workers : pc[w] = "off"

(* The sentinels come after all items.                                     *)
PillsLast ==
  /\ \A i, j \in DOMAIN queue : i < j /\ queue[i] = NoItem => queue[j] = NoItem
  /\ \A i \in DOMAIN queue : queue[i] = NoItem => todo = {}
  /\ \A w \in Workers : pc[w] = "exit" =>
       todo = {} /\ \A i \in DOMAIN queue : queue[i] = NoItem

(* After the workers there is nothing left but the last batch.             *)
Ending ==
  /\ phase \in {"flush", "finish"} =>
       /\ todo = {} /\ buf = <<>>
       /\ \A i \in DOMAIN queue : queue[i] = NoItem
       /\ \A w \in Workers : pc[w] \in {"off", "exit"}
  /\ phase = "finish" => exec = <<>>

PlacesInv ==
  /\ Distinct /\ Exclusive /\ InScope /\ Awaiting
  /\ FreeHands /\ PoolEmpty /\ PillsLast /\ Ending
-----------------------------------------------------------------------------
(* Operations and batches as sequences.                                    *)
LEMMA OpDomainsType ==
  ASSUME NEW ops \in Seq(Op)
  PROVE  OpDomains(ops) \subseteq Domains
<1>1. \A i \in DOMAIN ops : ops[i] \in Op
  OBVIOUS
<1>2. \A i \in DOMAIN ops : ops[i].domain \in Domains
  BY <1>1 DEF Op
<1>3. QED
  BY <1>2 DEF OpDomains

(* One more operation adds its domain.                                     *)
LEMMA OpDomainsAppend ==
  ASSUME NEW ops \in Seq(Op), NEW op \in Op
  PROVE  OpDomains(Append(ops, op)) = OpDomains(ops) \cup {op.domain}
<1> DEFINE more == Append(ops, op)
           n == Len(ops)
<1>1. /\ n \in Nat /\ DOMAIN ops = 1..n /\ DOMAIN more = 1..(n + 1)
      /\ more[n + 1] = op /\ \A i \in 1..n : more[i] = ops[i]
  OBVIOUS
<1> HIDE DEF more, n
<1>2. 1..(n + 1) = (1..n) \cup {n + 1}
  BY <1>1
<1>3. OpDomains(more) = {more[i].domain : i \in (1..n) \cup {n + 1}}
  BY <1>1, <1>2 DEF OpDomains
<1>4. OpDomains(ops) = {ops[i].domain : i \in 1..n}
  BY <1>1 DEF OpDomains
<1>5. OpDomains(more) = OpDomains(ops) \cup {op.domain}
  BY <1>1, <1>3, <1>4
<1>6. QED
  BY <1>5 DEF more

(* An operation on a new domain keeps the operations distinct.             *)
LEMMA DistinctAppend ==
  ASSUME NEW ops \in Seq(Op), NEW op \in Op,
         DistinctOps(ops), op.domain \notin OpDomains(ops)
  PROVE  DistinctOps(Append(ops, op))
<1> DEFINE more == Append(ops, op)
           n == Len(ops)
<1>1. /\ n \in Nat /\ DOMAIN ops = 1..n /\ DOMAIN more = 1..(n + 1)
      /\ more[n + 1] = op /\ \A i \in 1..n : more[i] = ops[i]
  OBVIOUS
<1> HIDE DEF more, n
<1>2. \A i \in 1..n : ops[i].domain # op.domain
  BY <1>1 DEF OpDomains
<1>3. \A i \in 1..(n + 1) : i = n + 1 \/ i \in 1..n
  BY <1>1
<1>4. DistinctOps(more)
  BY <1>1, <1>2, <1>3 DEF DistinctOps
<1>5. QED
  BY <1>4 DEF more

(* The domains of some batches.                                            *)
BatchDomains(bs) == UNION {OpDomains(bs[i].ops) : i \in DOMAIN bs}

(* A domain is in a batch when it is one of the batches' domains, ...      *)
LEMMA InBatchIs == \A d : InBatch(d) <=> d \in BatchDomains(exec)
BY DEF InBatch, BatchDomains

(* ... and after the step the same.                                        *)
LEMMA InBatchIsNext == \A d : InBatch(d)' <=> d \in BatchDomains(exec')
BY DEF InBatch, BatchDomains

(* A batch of new domains and a new owner joins the others.                *)
LEMMA BatchesAppend ==
  ASSUME NEW bs \in Seq(Batch), NEW b \in Batch, DistinctBatches(bs),
         DistinctOps(b.ops), OpDomains(b.ops) \cap BatchDomains(bs) = {},
         \A i \in DOMAIN bs : bs[i].owner # b.owner
  PROVE  /\ DistinctBatches(Append(bs, b))
         /\ BatchDomains(Append(bs, b)) = BatchDomains(bs) \cup OpDomains(b.ops)
<1> DEFINE more == Append(bs, b)
           n == Len(bs)
<1>1. /\ n \in Nat /\ DOMAIN bs = 1..n /\ DOMAIN more = 1..(n + 1)
      /\ more[n + 1] = b /\ \A i \in 1..n : more[i] = bs[i]
  OBVIOUS
<1> HIDE DEF more, n
<1>2. \A i \in 1..(n + 1) : i = n + 1 \/ i \in 1..n
  BY <1>1
<1>3. \A i \in 1..n : OpDomains(bs[i].ops) \cap OpDomains(b.ops) = {}
  BY <1>1 DEF BatchDomains
<1>4. DistinctBatches(more)
  <2>1. \A i \in 1..(n + 1) : DistinctOps(more[i].ops)
    BY <1>1, <1>2 DEF DistinctBatches
  <2>2. ASSUME NEW i \in 1..(n + 1), NEW j \in 1..(n + 1), i # j
        PROVE  /\ OpDomains(more[i].ops) \cap OpDomains(more[j].ops) = {}
               /\ more[i].owner # more[j].owner
    <3>1. CASE i \in 1..n /\ j \in 1..n
      BY <1>1, <2>2, <3>1 DEF DistinctBatches
    <3>2. CASE i = n + 1 /\ j \in 1..n
      BY <1>1, <1>3, <3>2
    <3>3. CASE i \in 1..n /\ j = n + 1
      BY <1>1, <1>3, <3>3
    <3>4. QED
      BY <1>2, <2>2, <3>1, <3>2, <3>3
  <2>3. QED
    BY <1>1, <2>1, <2>2 DEF DistinctBatches
<1>5. BatchDomains(more) = BatchDomains(bs) \cup OpDomains(b.ops)
  <2>1. ASSUME NEW d
        PROVE  d \in BatchDomains(more) <=> d \in BatchDomains(bs) \/ d \in OpDomains(b.ops)
    BY <1>1, <1>2 DEF BatchDomains
  <2>2. QED
    BY <2>1
<1>6. QED
  BY <1>4, <1>5 DEF more

(* The batches without the first one.                                      *)
LEMMA BatchesTail ==
  ASSUME NEW bs \in Seq(Batch), bs # <<>>, DistinctBatches(bs)
  PROVE  /\ Tail(bs) \in Seq(Batch) /\ Head(bs) = bs[1] /\ 1 \in DOMAIN bs
         /\ \A i \in DOMAIN Tail(bs) : i + 1 \in DOMAIN bs /\ Tail(bs)[i] = bs[i + 1] /\ i + 1 # 1
         /\ DistinctBatches(Tail(bs))
         /\ OpDomains(Head(bs).ops) \cap BatchDomains(Tail(bs)) = {}
         /\ BatchDomains(bs) = OpDomains(Head(bs).ops) \cup BatchDomains(Tail(bs))
<1> DEFINE rest == Tail(bs)
           n == Len(bs)
<1>1. /\ n \in Nat /\ n >= 1 /\ DOMAIN bs = 1..n /\ DOMAIN rest = 1..(n - 1)
      /\ rest \in Seq(Batch) /\ Head(bs) = bs[1]
      /\ \A i \in 1..(n - 1) : rest[i] = bs[i + 1]
  OBVIOUS
<1> HIDE DEF rest, n
<1>2. \A i \in 1..(n - 1) : i + 1 \in 1..n /\ i + 1 # 1
  BY <1>1
<1>3. \A i \in 1..n : i = 1 \/ (i - 1 \in 1..(n - 1) /\ rest[i - 1] = bs[i])
  BY <1>1
<1>4. /\ \A i, j \in 1..n : i # j => /\ OpDomains(bs[i].ops) \cap OpDomains(bs[j].ops) = {}
                                     /\ bs[i].owner # bs[j].owner
      /\ \A i \in 1..n : DistinctOps(bs[i].ops)
  BY <1>1 DEF DistinctBatches
<1>5. /\ DistinctBatches(rest)
      /\ \A i \in 1..(n - 1) : OpDomains(bs[1].ops) \cap OpDomains(rest[i].ops) = {}
  <2>1. \A i \in 1..(n - 1) : DistinctOps(rest[i].ops)
    BY <1>1, <1>2, <1>4
  <2>2. ASSUME NEW i \in 1..(n - 1), NEW j \in 1..(n - 1), i # j
        PROVE  /\ OpDomains(rest[i].ops) \cap OpDomains(rest[j].ops) = {}
               /\ rest[i].owner # rest[j].owner
    <3>1. i + 1 \in 1..n /\ j + 1 \in 1..n /\ i + 1 # j + 1
      BY <1>2, <2>2
    <3>2. /\ OpDomains(bs[i + 1].ops) \cap OpDomains(bs[j + 1].ops) = {}
          /\ bs[i + 1].owner # bs[j + 1].owner
      BY <1>4, <3>1
    <3>3. QED
      BY <1>1, <3>2
  <2>3. ASSUME NEW i \in 1..(n - 1)
        PROVE  OpDomains(bs[1].ops) \cap OpDomains(rest[i].ops) = {}
    <3>1. i + 1 \in 1..n /\ 1 \in 1..n /\ 1 # i + 1
      BY <1>1, <1>2
    <3>2. OpDomains(bs[1].ops) \cap OpDomains(bs[i + 1].ops) = {}
      BY <1>4, <3>1
    <3>3. QED
      BY <1>1, <3>2
  <2>4. QED
    BY <1>1, <2>1, <2>2, <2>3 DEF DistinctBatches
<1>6. OpDomains(bs[1].ops) \cap BatchDomains(rest) = {}
  BY <1>1, <1>5 DEF BatchDomains
<1>7. ASSUME NEW d
      PROVE  d \in BatchDomains(bs) <=> d \in OpDomains(bs[1].ops) \/ d \in BatchDomains(rest)
  <2>1. d \in BatchDomains(bs) <=> \E i \in 1..n : d \in OpDomains(bs[i].ops)
    BY <1>1 DEF BatchDomains
  <2>2. d \in BatchDomains(rest) <=> \E i \in 1..(n - 1) : d \in OpDomains(rest[i].ops)
    BY <1>1 DEF BatchDomains
  <2>3. 1 \in 1..n
    BY <1>1
  <2>4. QED
    BY <1>1, <1>2, <1>3, <2>1, <2>2, <2>3
<1>8. QED
  BY <1>1, <1>2, <1>5, <1>6, <1>7 DEF rest
-----------------------------------------------------------------------------
(* Steps that leave the pool alone.                                        *)
PoolPart == <<scope, todo, queue, pc, item, buf, exec>>

(* Main's steps before the pending list is read.                           *)
LEMMA PlacesStutter ==
  ASSUME PlacesInv, UNCHANGED PoolPart,
         phase' = phase \/ {phase, phase'} \subseteq {"idle", "normalize", "reset"}
  PROVE  PlacesInv'
<1>1. UNCHANGED <<scope, todo, queue, pc, item, buf, exec>>
  BY DEF PoolPart
<1>2. Distinct' /\ FreeHands' /\ PillsLast'
  BY <1>1 DEF PlacesInv, Distinct, FreeHands, PillsLast
<1>3. Exclusive' /\ InScope'
  BY <1>1 DEF PlacesInv, Exclusive, InScope, InQueue, Carried, Held, Buffered, InBatch, OpDomains
<1>4. PoolEmpty' /\ Awaiting' /\ Ending'
  <2>1. CASE phase' = phase
    BY <1>1, <2>1 DEF PlacesInv, PoolEmpty, Awaiting, Ending
  <2>2. CASE phase \in {"idle", "normalize", "reset"} /\ phase' \in {"idle", "normalize", "reset"}
    BY <1>1, <2>2 DEF PlacesInv, PoolEmpty, Awaiting, Ending
  <2>3. QED
    BY <2>1, <2>2
<1>5. QED
  BY <1>2, <1>3, <1>4 DEF PlacesInv

(* The end of the process leaves nothing anywhere.                         *)
LEMMA PlacesNone ==
  ASSUME Ends
  PROVE  PlacesInv'
<1>1. Distinct' /\ FreeHands' /\ PillsLast'
  BY DEF Ends, Distinct, DistinctOps, DistinctBatches, FreeHands, PillsLast
<1>2. Exclusive' /\ InScope'
  BY ConstantFacts DEF Ends, Exclusive, InScope, InQueue, Carried, Held, Buffered, InBatch, OpDomains
<1>3. PoolEmpty' /\ Awaiting' /\ Ending'
  BY DEF Ends, PoolEmpty, Awaiting, Ending
<1>4. QED
  BY <1>1, <1>2, <1>3 DEF PlacesInv

(* A worker that has a domain belongs to a run that is not over.           *)
LEMMA WorkerRuns ==
  ASSUME TypeInv, PlacesInv, NEW w \in Workers, pc[w] \notin {"off", "exit"}
  PROVE  phase = "run"
BY DEF TypeInv, TypeOK, PlacesInv, PoolEmpty, Ending, Phases

(* A worker goes on with the domain it holds.                              *)
LEMMA PlacesGoto ==
  ASSUME TypeInv, PlacesInv, NEW w \in Workers, NEW place,
         pc[w] \in {"process", "dossier"}, place \in {"dossier", "submit", "except"},
         Goto(w, place), UNCHANGED <<phase, scope, todo, queue, item, buf, exec>>
  PROVE  PlacesInv'
<1>1. phase = "run"
  BY WorkerRuns
<1>2. /\ pc'[w] = place /\ \A v \in Workers \ {w} : pc'[v] = pc[v]
      /\ UNCHANGED <<phase, scope, todo, queue, item, buf, exec>>
  BY DEF Goto, TypeInv, TypeOK
<1>3. Distinct' /\ FreeHands' /\ PillsLast'
  BY <1>2 DEF PlacesInv, Distinct, FreeHands, PillsLast
<1>4. Exclusive' /\ InScope'
  <2>1. \A d \in Domains : /\ InQueue(d)' <=> InQueue(d)
                           /\ Carried(d)' <=> Carried(d)
                           /\ Buffered(d)' <=> Buffered(d)
                           /\ InBatch(d)' <=> InBatch(d)
    BY <1>2 DEF InQueue, Carried, Buffered, InBatch, OpDomains
  <2>2. \A d \in Domains : Held(d)' => Held(d)
    BY <1>2 DEF Held
  <2>3. QED
    BY <1>2, <2>1, <2>2 DEF PlacesInv, Exclusive, InScope
<1>5. Awaiting'
  <2>1. \A i \in DOMAIN exec : exec[i].owner = "main" \/ pc'[exec[i].owner] = pc[exec[i].owner]
    <3>1. \A i \in DOMAIN exec : exec[i] \in Batch
      BY DEF TypeInv, TypeOK
    <3>2. \A i \in DOMAIN exec : exec[i].owner \in Workers \cup {"main"}
      BY <3>1 DEF Batch
    <3>3. QED
      BY <1>2, <3>2 DEF PlacesInv, Awaiting
  <2>2. QED
    BY <1>2, <2>1 DEF PlacesInv, Awaiting, OpDomains
<1>6. PoolEmpty' /\ Ending'
  BY <1>1, <1>2 DEF PoolEmpty, Ending
<1>7. QED
  BY <1>3, <1>4, <1>5, <1>6 DEF PlacesInv
-----------------------------------------------------------------------------
(* The pending list is taken into the pool.                                *)
LEMMA PlacesLoad ==
  ASSUME TypeInv, PlacesInv, LoadPending
  PROVE  PlacesInv'
<1>1. /\ queue = <<>> /\ buf = <<>> /\ exec = <<>>
      /\ UNCHANGED <<queue, item, buf, exec>> /\ scope' = Pending /\ todo' = Pending
      /\ \A w \in Workers : pc[w] = "off" /\ item[w] = NoItem
  BY DEF LoadPending, PlacesInv, PoolEmpty, FreeHands
<1>2. \/ phase' = "finish" /\ pc' = pc /\ todo' = {}
      \/ phase' = "run" /\ pc' = [w \in Workers |-> "get"]
  BY DEF LoadPending
<1>3. \A w \in Workers : pc'[w] \in {"off", "get"}
  BY <1>1, <1>2
<1>4. Distinct' /\ FreeHands' /\ PillsLast'
  BY <1>1, <1>3 DEF Distinct, DistinctOps, DistinctBatches, FreeHands, PillsLast
<1>5. Exclusive' /\ InScope'
  <2>1. \A d \in Domains : ~InQueue(d)' /\ ~Carried(d)' /\ ~Held(d)' /\ ~Buffered(d)' /\ ~InBatch(d)'
    BY <1>1, ConstantFacts DEF InQueue, Carried, Held, Buffered, InBatch, OpDomains
  <2>2. QED
    BY <1>1, <2>1 DEF Exclusive, InScope
<1>6. PoolEmpty' /\ Awaiting' /\ Ending'
  BY <1>1, <1>2 DEF PoolEmpty, Awaiting, Ending
<1>7. QED
  BY <1>4, <1>5, <1>6 DEF PlacesInv

(* The queue, one longer.                                                  *)
LEMMA QueueAppend ==
  ASSUME TypeInv, NEW x \in Domains \cup {NoItem}, queue' = Append(queue, x)
  PROVE  /\ Len(queue) \in Nat /\ DOMAIN queue = 1..Len(queue)
         /\ DOMAIN queue' = 1..(Len(queue) + 1)
         /\ queue'[Len(queue) + 1] = x
         /\ \A i \in 1..Len(queue) : queue'[i] = queue[i]
         /\ \A i \in 1..(Len(queue) + 1) : i = Len(queue) + 1 \/ i \in 1..Len(queue)
         /\ \A d : InQueue(d)' <=> InQueue(d) \/ d = x
<1> DEFINE n == Len(queue)
<1>1. queue \in Seq(Domains \cup {NoItem})
  BY DEF TypeInv, TypeOK
<1>2. /\ n \in Nat /\ DOMAIN queue = 1..n /\ DOMAIN queue' = 1..(n + 1)
      /\ queue'[n + 1] = x /\ \A i \in 1..n : queue'[i] = queue[i]
  BY <1>1
<1>3. \A i \in 1..(n + 1) : i = n + 1 \/ i \in 1..n
  BY <1>2
<1>4. 1..n \subseteq 1..(n + 1) /\ n + 1 \in 1..(n + 1)
  BY <1>2
<1>5. \A d : InQueue(d)' <=> InQueue(d) \/ d = x
  BY <1>2, <1>3, <1>4 DEF InQueue
<1>6. QED
  BY <1>2, <1>3, <1>5

(* An item moves from the list to the queue.                               *)
LEMMA PlacesPutItem ==
  ASSUME TypeInv, PlacesInv, PutItem
  PROVE  PlacesInv'
<1> DEFINE n == Len(queue)
<1>1. PICK d \in todo : todo' = todo \ {d} /\ queue' = Append(queue, d)
  BY DEF PutItem
<1>2. /\ UNCHANGED <<phase, scope, pc, item, buf, exec>> /\ phase = "run"
      /\ d \in Domains /\ d # NoItem /\ d \in scope
  BY <1>1, ConstantFacts DEF PutItem, TypeInv, TypeOK
<1>3. ~InQueue(d) /\ ~Carried(d) /\ ~Buffered(d) /\ ~InBatch(d)
  BY <1>1, <1>2 DEF PlacesInv, Exclusive
<1>4. /\ n \in Nat /\ DOMAIN queue = 1..n /\ DOMAIN queue' = 1..(n + 1)
      /\ queue'[n + 1] = d /\ \A i \in 1..n : queue'[i] = queue[i]
      /\ \A i \in 1..(n + 1) : i = n + 1 \/ i \in 1..n
      /\ \A e : InQueue(e)' <=> InQueue(e) \/ e = d
  BY <1>1, <1>2, QueueAppend
<1> HIDE DEF n
<1>5. \A i \in 1..n : queue[i] # d /\ queue[i] # NoItem
  <2>1. \A i \in 1..n : queue[i] # d
    BY <1>3, <1>4 DEF InQueue
  <2>2. \A i \in 1..n : queue[i] # NoItem
    BY <1>1, <1>4 DEF PlacesInv, PillsLast
  <2>3. QED
    BY <2>1, <2>2
<1>6. Distinct' /\ FreeHands'
  <2>1. \A i, j \in 1..(n + 1) : queue'[i] = queue'[j] => i = j
    BY <1>4, <1>5 DEF PlacesInv, Distinct
  <2>2. QED
    BY <1>2, <1>4, <2>1 DEF PlacesInv, Distinct, FreeHands
<1>7. PillsLast'
  <2>1. \A w \in Workers : pc[w] # "exit"
    BY <1>1 DEF PlacesInv, PillsLast
  <2>2. \A i \in 1..(n + 1) : queue'[i] # NoItem
    BY <1>2, <1>4, <1>5
  <2>3. QED
    BY <1>2, <1>4, <2>1, <2>2 DEF PillsLast
<1>8. Exclusive' /\ InScope'
  <2>1. \A e \in Domains : /\ Carried(e)' <=> Carried(e)
                           /\ Held(e)' <=> Held(e)
                           /\ Buffered(e)' <=> Buffered(e)
                           /\ InBatch(e)' <=> InBatch(e)
    BY <1>2 DEF Carried, Held, Buffered, InBatch, OpDomains
  <2>2. QED
    BY <1>1, <1>2, <1>3, <1>4, <2>1 DEF PlacesInv, Exclusive, InScope
<1>9. PoolEmpty' /\ Awaiting' /\ Ending'
  BY <1>2 DEF PlacesInv, PoolEmpty, Awaiting, Ending, OpDomains
<1>10. QED
  BY <1>6, <1>7, <1>8, <1>9 DEF PlacesInv

(* A sentinel is put behind the items.                                     *)
LEMMA PlacesPutSentinel ==
  ASSUME TypeInv, PlacesInv, PutSentinel
  PROVE  PlacesInv'
<1> DEFINE n == Len(queue)
<1>1. /\ UNCHANGED <<phase, scope, todo, pc, item, buf, exec>> /\ phase = "run"
      /\ todo = {} /\ queue' = Append(queue, NoItem)
  BY DEF PutSentinel
<1>2. /\ n \in Nat /\ DOMAIN queue = 1..n /\ DOMAIN queue' = 1..(n + 1)
      /\ queue'[n + 1] = NoItem /\ \A i \in 1..n : queue'[i] = queue[i]
      /\ \A i \in 1..(n + 1) : i = n + 1 \/ i \in 1..n
      /\ \A e : InQueue(e)' <=> InQueue(e) \/ e = NoItem
  BY <1>1, QueueAppend
<1> HIDE DEF n
<1>3. Distinct' /\ FreeHands'
  <2>1. \A i, j \in 1..(n + 1) : queue'[i] = queue'[j] /\ queue'[i] # NoItem => i = j
    BY <1>2 DEF PlacesInv, Distinct
  <2>2. QED
    BY <1>1, <1>2, <2>1 DEF PlacesInv, Distinct, FreeHands
<1>4. PillsLast'
  <2>1. \A i, j \in 1..(n + 1) : i < j /\ queue'[i] = NoItem => queue'[j] = NoItem
    <3>1. \A i, j \in 1..(n + 1) : i < j => i \in 1..n
      BY <1>2
    <3>2. QED
      BY <1>2, <3>1 DEF PlacesInv, PillsLast
  <2>2. \A w \in Workers : pc'[w] = "exit" => \A i \in 1..(n + 1) : queue'[i] = NoItem
    BY <1>1, <1>2 DEF PlacesInv, PillsLast
  <2>3. QED
    BY <1>1, <1>2, <2>1, <2>2 DEF PillsLast
<1>5. Exclusive' /\ InScope'
  <2>1. \A e \in Domains : /\ Carried(e)' <=> Carried(e)
                           /\ Held(e)' <=> Held(e)
                           /\ Buffered(e)' <=> Buffered(e)
                           /\ InBatch(e)' <=> InBatch(e)
    BY <1>1 DEF Carried, Held, Buffered, InBatch, OpDomains
  <2>2. \A e \in Domains : InQueue(e)' <=> InQueue(e)
    BY <1>2, ConstantFacts
  <2>3. QED
    BY <1>1, <2>1, <2>2 DEF PlacesInv, Exclusive, InScope
<1>6. PoolEmpty' /\ Awaiting' /\ Ending'
  BY <1>1 DEF PlacesInv, PoolEmpty, Awaiting, Ending, OpDomains
<1>7. QED
  BY <1>3, <1>4, <1>5, <1>6 DEF PlacesInv
-----------------------------------------------------------------------------
(* A worker takes the head of the queue.                                   *)
LEMMA PlacesGet ==
  ASSUME TypeInv, PlacesInv, NEW w \in Workers, Get(w)
  PROVE  PlacesInv'
<1> DEFINE n == Len(queue)
           x == Head(queue)
<1>1. /\ UNCHANGED <<phase, scope, todo, buf, exec>> /\ pc[w] = "get" /\ item[w] = NoItem
      /\ pc'[w] = IF x = NoItem THEN "exit" ELSE "process"
      /\ item'[w] = x
      /\ \A v \in Workers \ {w} : pc'[v] = pc[v] /\ item'[v] = item[v]
  BY DEF Get, Goto, TypeInv, TypeOK, PlacesInv, FreeHands
<1>2. /\ n \in Nat /\ n >= 1 /\ DOMAIN queue = 1..n /\ DOMAIN queue' = 1..(n - 1)
      /\ x = queue[1] /\ x \in Domains \cup {NoItem}
      /\ \A i \in 1..(n - 1) : queue'[i] = queue[i + 1] /\ i + 1 \in 1..n /\ i + 1 # 1
  <2>1. queue \in Seq(Domains \cup {NoItem}) /\ queue # <<>> /\ queue' = Tail(queue)
    BY DEF Get, TypeInv, TypeOK
  <2>2. QED
    BY <2>1
<1>3. phase = "run"
  BY <1>1, WorkerRuns
<1> HIDE DEF n, x
<1>4. 1 \in 1..n
  BY <1>2
<1>5. \A d \in Domains : InQueue(d)' => InQueue(d) /\ d # x
  <2>1. ASSUME NEW i \in 1..(n - 1), queue'[i] \in Domains
        PROVE  InQueue(queue'[i]) /\ queue'[i] # x
    <3>1. queue'[i] = queue[i + 1] /\ i + 1 \in 1..n /\ i + 1 # 1
      BY <1>2
    <3>2. queue[i + 1] # NoItem
      BY <2>1, <3>1, ConstantFacts
    <3>3. \A k \in 1..n : queue[i + 1] = queue[k] => i + 1 = k
      BY <1>2, <3>1, <3>2 DEF PlacesInv, Distinct
    <3>4. queue[i + 1] # queue[1]
      BY <1>4, <3>1, <3>3
    <3>5. QED
      BY <1>2, <3>1, <3>4 DEF InQueue
  <2>2. QED
    BY <1>2, <2>1 DEF InQueue
<1>6. x \in Domains => x \in scope /\ x \notin todo /\ InQueue(x) /\ ~Carried(x) /\ ~Buffered(x) /\ ~InBatch(x)
  <2>1. x \in Domains => InQueue(x)
    BY <1>2, <1>4 DEF InQueue
  <2>2. QED
    BY <2>1 DEF PlacesInv, Exclusive, InScope
<1>7. Distinct' /\ FreeHands'
  <2>1. \A i, j \in 1..(n - 1) : queue'[i] = queue'[j] /\ queue'[i] # NoItem => i = j
    <3>1. ASSUME NEW i \in 1..(n - 1), NEW j \in 1..(n - 1),
                 queue'[i] = queue'[j], queue'[i] # NoItem
          PROVE  i = j
      <4>1. i + 1 = j + 1
        BY <1>2, <3>1 DEF PlacesInv, Distinct
      <4>2. QED
        BY <1>2, <4>1
    <3>2. QED
      BY <3>1
  <2>2. \A u, v \in Workers : item'[u] = item'[v] /\ item'[u] # NoItem => u = v
    <3>1. x # NoItem => \A v \in Workers : item[v] # x
      BY <1>2, <1>6 DEF Carried
    <3>2. QED
      BY <1>1, <3>1 DEF PlacesInv, Distinct
  <2>3. Distinct'
    BY <1>1, <1>2, <2>1, <2>2 DEF PlacesInv, Distinct
  <2>4. FreeHands'
    BY <1>1 DEF PlacesInv, FreeHands
  <2>5. QED
    BY <2>3, <2>4
<1>8. PillsLast'
  <2>1. \A i, j \in 1..n : i < j /\ queue[i] = NoItem => queue[j] = NoItem
    BY <1>2 DEF PlacesInv, PillsLast
  <2>2. \A i, j \in 1..(n - 1) : i < j /\ queue'[i] = NoItem => queue'[j] = NoItem
    <3>1. ASSUME NEW i \in 1..(n - 1), NEW j \in 1..(n - 1), i < j, queue'[i] = NoItem
          PROVE  queue'[j] = NoItem
      <4>1. i + 1 < j + 1 /\ queue[i + 1] = NoItem /\ i + 1 \in 1..n /\ j + 1 \in 1..n
        BY <1>2, <3>1
      <4>2. queue[j + 1] = NoItem
        BY <2>1, <4>1
      <4>3. QED
        BY <1>2, <4>2
    <3>2. QED
      BY <3>1
  <2>3. \A i \in 1..(n - 1) : queue'[i] = NoItem => todo = {}
    BY <1>2 DEF PlacesInv, PillsLast
  <2>4. x = NoItem => todo = {} /\ \A i \in 1..n : queue[i] = NoItem
    <3>1. \A i \in 1..n : i = 1 \/ 1 < i
      BY <1>2
    <3>2. QED
      BY <1>2, <1>4, <2>1, <3>1 DEF PlacesInv, PillsLast
  <2>5. ASSUME NEW v \in Workers, pc'[v] = "exit"
        PROVE  todo = {} /\ \A i \in 1..n : queue[i] = NoItem
    BY <1>1, <1>2, <2>4, <2>5 DEF PlacesInv, PillsLast
  <2>6. QED
    BY <1>1, <1>2, <2>2, <2>3, <2>5 DEF PillsLast
<1>9. Exclusive' /\ InScope'
  <2>1. \A d \in Domains : /\ Carried(d)' => Carried(d) \/ d = x
                           /\ Held(d)' => Held(d) \/ d = x
    BY <1>1 DEF Carried, Held
  <2>2. \A d \in Domains : (Buffered(d)' <=> Buffered(d)) /\ (InBatch(d)' <=> InBatch(d))
    BY <1>1 DEF Buffered, InBatch, OpDomains
  <2>3. QED
    BY <1>1, <1>5, <1>6, <2>1, <2>2 DEF PlacesInv, Exclusive, InScope
<1>10. Awaiting'
  <2>1. \A i \in DOMAIN exec : exec[i].owner = "main" \/ exec[i].owner \in Workers \ {w}
    <3>1. \A i \in DOMAIN exec : exec[i] \in Batch
      BY DEF TypeInv, TypeOK
    <3>2. \A i \in DOMAIN exec : exec[i].owner \in Workers \cup {"main"}
      BY <3>1 DEF Batch
    <3>3. QED
      BY <1>1, <3>2 DEF PlacesInv, Awaiting
  <2>2. QED
    BY <1>1, <2>1 DEF PlacesInv, Awaiting, OpDomains
<1>11. PoolEmpty' /\ Ending'
  BY <1>1, <1>3 DEF PoolEmpty, Ending
<1>12. QED
  BY <1>7, <1>8, <1>9, <1>10, <1>11 DEF PlacesInv

(* Only one domain, that of the worker, joins the buffer or the batch it   *)
(* becomes.                                                                *)
LEMMA PlacesSubmit ==
  ASSUME TypeInv, PlacesInv, NEW w \in Workers, NEW kind \in {"result", "failure"},
         NEW waiting \in {"write", "failwrite"}, pc[w] \in {"submit", "except"},
         SubmitOp(w, kind, waiting), UNCHANGED <<phase, scope, todo, queue>>
  PROVE  /\ PlacesInv'
         /\ item[w] \in scope
         /\ \/ /\ exec' = exec
               /\ buf' = Append(buf, [domain |-> item[w], kind |-> kind])
            \/ /\ exec' = Append(exec, [owner |-> w, ops |-> Append(buf, [domain |-> item[w], kind |-> kind])])
               /\ buf' = <<>>
         /\ \A d \in Domains : Held(d)' => Held(d) /\ d # item[w]
         /\ \A d \in Domains : Held(d) /\ d # item[w] => Held(d)'
         /\ \A d \in Domains : Buffered(d)' \/ InBatch(d)' <=>
              Buffered(d) \/ InBatch(d) \/ d = item[w]
<1> DEFINE d == item[w]
           op == [domain |-> d, kind |-> kind]
           filled == Append(buf, op)
           b == [owner |-> w, ops |-> filled]
<1>1. d \in Domains /\ d # NoItem /\ op \in Op /\ op.domain = d
  BY ConstantFacts DEF TypeInv, HoldersHold, Holding, Op
<1>2. phase = "run"
  BY WorkerRuns
<1>3. Held(d) /\ Carried(d)
  BY DEF Held, Carried
<1>4. d \in scope /\ d \notin todo /\ ~InQueue(d) /\ ~Buffered(d) /\ ~InBatch(d)
  BY <1>1, <1>3 DEF PlacesInv, Exclusive, InScope
<1>5. buf \in Seq(Op) /\ exec \in Seq(Batch) /\ filled \in Seq(Op) /\ b \in Batch
      /\ b.owner = w /\ b.ops = filled
  BY <1>1 DEF TypeInv, TypeOK, Batch
<1>6. OpDomains(filled) = OpDomains(buf) \cup {d} /\ DistinctOps(filled)
  <2> HIDE DEF op
  <2>1. d \notin OpDomains(buf) /\ DistinctOps(buf)
    BY <1>4 DEF Buffered, PlacesInv, Distinct
  <2>2. QED
    BY <1>1, <1>5, <2>1, OpDomainsAppend, DistinctAppend
<1>7. UNCHANGED <<phase, scope, todo, queue>>
  OBVIOUS
<1>8. \A v \in Workers \ {w} : item[v] # d
  BY <1>1 DEF PlacesInv, Distinct
<1>9. \A i \in DOMAIN exec : exec[i].owner = "main" \/ exec[i].owner \in Workers \ {w}
  <2>1. \A i \in DOMAIN exec : exec[i] \in Batch
    BY <1>5
  <2>2. \A i \in DOMAIN exec : exec[i].owner \in Workers \cup {"main"}
    BY <2>1 DEF Batch
  <2>3. QED
    BY <2>2 DEF PlacesInv, Awaiting
<1>10. CASE /\ exec' = exec /\ buf' = filled
            /\ pc' = [pc EXCEPT ![w] = "get"] /\ item' = [item EXCEPT ![w] = NoItem]
  <2> HIDE DEF op, filled, b
  <2>1. /\ pc'[w] = "get" /\ item'[w] = NoItem
        /\ \A v \in Workers \ {w} : pc'[v] = pc[v] /\ item'[v] = item[v]
    BY <1>10 DEF TypeInv, TypeOK
  <2>2. \A e \in Domains : /\ InQueue(e)' <=> InQueue(e)
                           /\ Carried(e)' => Carried(e)
                           /\ Held(e)' => Held(e) /\ e # d
                           /\ Held(e) /\ e # d => Held(e)'
                           /\ Buffered(e)' <=> Buffered(e) \/ e = d
                           /\ InBatch(e)' <=> InBatch(e)
    <3>1. \A e \in Domains : /\ InQueue(e)' <=> InQueue(e)
                             /\ Buffered(e)' <=> Buffered(e) \/ e = d
                             /\ InBatch(e)' <=> InBatch(e)
      BY <1>6, <1>7, <1>10 DEF InQueue, Buffered, InBatch
    <3>2. \A e \in Domains : /\ Carried(e)' => Carried(e)
                             /\ Held(e)' => Held(e) /\ e # d
      BY <1>8, <2>1, ConstantFacts DEF Carried, Held
    <3>3. \A e \in Domains : Held(e) /\ e # d => Held(e)'
      BY <2>1 DEF Held
    <3>4. QED
      BY <3>1, <3>2, <3>3
  <2>3. Exclusive' /\ InScope'
    BY <1>4, <1>7, <2>2 DEF PlacesInv, Exclusive, InScope
  <2>4. Distinct' /\ FreeHands' /\ PillsLast'
    <3>1. Distinct'
      BY <1>6, <1>7, <1>10, <2>1 DEF PlacesInv, Distinct
    <3>2. FreeHands' /\ PillsLast'
      BY <1>7, <2>1 DEF PlacesInv, FreeHands, PillsLast
    <3>3. QED
      BY <3>1, <3>2
  <2>5. Awaiting'
    BY <1>7, <1>9, <1>10, <2>1 DEF PlacesInv, Awaiting
  <2>6. PoolEmpty' /\ Ending'
    BY <1>2, <1>7 DEF PoolEmpty, Ending
  <2>7. PlacesInv'
    BY <2>3, <2>4, <2>5, <2>6 DEF PlacesInv
  <2>8. QED
    BY <1>4, <1>10, <2>2, <2>7 DEF op, filled
<1>11. CASE /\ exec' = Append(exec, b) /\ buf' = <<>>
            /\ pc' = [pc EXCEPT ![w] = waiting] /\ item' = item
  <2>1. /\ pc'[w] = waiting /\ \A v \in Workers : item'[v] = item[v]
        /\ \A v \in Workers \ {w} : pc'[v] = pc[v]
    BY <1>11 DEF TypeInv, TypeOK
  <2> HIDE DEF op, filled, b
  <2>2. /\ DistinctBatches(exec')
        /\ BatchDomains(exec') = BatchDomains(exec) \cup OpDomains(filled)
    <3>1. OpDomains(filled) \cap BatchDomains(exec) = {}
      <4>1. ASSUME NEW e \in OpDomains(filled) PROVE e \notin BatchDomains(exec)
        <5>1. e \in Domains
          BY <1>5, OpDomainsType
        <5>2. e = d \/ Buffered(e)
          BY <1>6 DEF Buffered
        <5>3. ~InBatch(e)
          BY <1>4, <5>1, <5>2 DEF PlacesInv, Exclusive
        <5>4. QED
          BY <5>3, InBatchIs
      <4>2. QED
        BY <4>1
    <3>2. \A i \in DOMAIN exec : exec[i].owner # b.owner
      BY <1>5, <1>9, OnlineRunAssumption
    <3>3. DistinctBatches(exec) /\ DistinctOps(b.ops)
      BY <1>5, <1>6 DEF PlacesInv, Distinct
    <3>4. QED
      BY <1>5, <1>11, <3>1, <3>2, <3>3, BatchesAppend
  <2>3. \A e \in Domains : /\ InQueue(e)' <=> InQueue(e)
                           /\ Carried(e)' <=> Carried(e)
                           /\ Held(e)' => Held(e) /\ e # d
                           /\ Held(e) /\ e # d => Held(e)'
                           /\ ~Buffered(e)'
                           /\ InBatch(e)' <=> InBatch(e) \/ Buffered(e) \/ e = d
    <3>1. \A e \in Domains : /\ InQueue(e)' <=> InQueue(e)
                             /\ Carried(e)' <=> Carried(e)
      BY <1>7, <2>1 DEF InQueue, Carried
    <3>2. \A e \in Domains : Held(e)' => Held(e) /\ e # d
      BY <1>8, <2>1 DEF Held
    <3>3. \A e \in Domains : Held(e) /\ e # d => Held(e)'
      BY <2>1 DEF Held
    <3>4. \A e \in Domains : ~Buffered(e)'
      BY <1>11 DEF Buffered, OpDomains
    <3>5. \A e \in Domains : InBatch(e)' <=> InBatch(e) \/ Buffered(e) \/ e = d
      BY <1>6, <2>2, InBatchIs, InBatchIsNext DEF Buffered
    <3>6. QED
      BY <3>1, <3>2, <3>3, <3>4, <3>5
  <2>4. Exclusive' /\ InScope'
    BY <1>4, <1>7, <2>3 DEF PlacesInv, Exclusive, InScope
  <2>5. Distinct' /\ FreeHands' /\ PillsLast'
    <3>1. DistinctOps(buf')
      BY <1>11 DEF DistinctOps
    <3>2. Distinct'
      BY <1>7, <1>11, <2>2, <3>1 DEF PlacesInv, Distinct
    <3>3. FreeHands' /\ PillsLast'
      BY <1>7, <2>1 DEF PlacesInv, FreeHands, PillsLast
    <3>4. QED
      BY <3>2, <3>3
  <2>6. Awaiting'
    <3>1. \A i \in DOMAIN exec' : exec'[i] = b \/ (i \in DOMAIN exec /\ exec'[i] = exec[i])
      BY <1>5, <1>11
    <3>2. b.owner # "main" /\ pc'[b.owner] \in {"write", "failwrite"}
          /\ item'[b.owner] \in OpDomains(b.ops)
      BY <1>5, <1>6, <2>1, OnlineRunAssumption
    <3>3. ASSUME NEW i \in DOMAIN exec
          PROVE  IF exec[i].owner = "main" THEN phase' = "flush"
                 ELSE /\ pc'[exec[i].owner] \in {"write", "failwrite"}
                      /\ item'[exec[i].owner] \in OpDomains(exec[i].ops)
      BY <1>7, <1>9, <2>1 DEF PlacesInv, Awaiting
    <3>4. QED
      BY <3>1, <3>2, <3>3 DEF Awaiting
  <2>7. PoolEmpty' /\ Ending'
    BY <1>2, <1>7 DEF PoolEmpty, Ending
  <2>8. PlacesInv'
    BY <2>4, <2>5, <2>6, <2>7 DEF PlacesInv
  <2>9. QED
    BY <1>4, <1>11, <2>3, <2>8 DEF op, filled, b
<1>12. QED
  BY <1>10, <1>11 DEF SubmitOp, Goto
(* What is left in the buffer becomes the last batch.                      *)
LEMMA PlacesGather ==
  ASSUME TypeInv, PlacesInv, GatherAndFlush
  PROVE  /\ PlacesInv'
         /\ exec = <<>>
         /\ exec' = <<>> \/ exec' = <<[owner |-> "main", ops |-> buf]>>
         /\ \A d \in Domains : Buffered(d)' \/ InBatch(d)' <=> Buffered(d) \/ InBatch(d)
<1> DEFINE b == [owner |-> "main", ops |-> buf]
<1>1. /\ UNCHANGED <<scope, todo, queue, pc, item>> /\ phase = "run" /\ todo = {}
      /\ buf' = <<>> /\ \A w \in Workers : pc[w] = "exit"
      /\ \/ buf = <<>> /\ phase' = "finish" /\ exec' = exec
         \/ phase' = "flush" /\ exec' = Append(exec, b)
  BY DEF GatherAndFlush, Gathering, poolVars
<1>2. \A i \in DOMAIN queue : queue[i] = NoItem
  BY <1>1, OnlineRunAssumption DEF PlacesInv, PillsLast
<1>3. exec \in Seq(Batch) /\ buf \in Seq(Op) /\ b \in Batch /\ b.ops = buf /\ b.owner = "main"
  BY DEF TypeInv, TypeOK, Batch
<1>4. exec = <<>>
  <2>1. ASSUME exec # <<>> PROVE FALSE
    <3>1. 1 \in DOMAIN exec /\ exec[1] \in Batch
      BY <1>3, <2>1
    <3>2. exec[1].owner \in Workers
      BY <1>1, <3>1 DEF PlacesInv, Awaiting, Batch
    <3>3. QED
      BY <1>1, <3>1, <3>2, OnlineRunAssumption DEF PlacesInv, Awaiting
  <2>2. QED
    BY <2>1
<1>5. exec' = <<>> \/ exec' = <<b>>
  BY <1>1, <1>4
<1> HIDE DEF b
<1>6. /\ DistinctBatches(exec')
      /\ BatchDomains(exec') = OpDomains(buf)
  <2>1. CASE buf = <<>> /\ exec' = <<>>
    BY <2>1 DEF DistinctBatches, BatchDomains, OpDomains
  <2>2. CASE exec' = <<b>>
    <3>1. DOMAIN exec' = {1} /\ exec'[1] = b
      BY <2>2
    <3>2. DistinctOps(b.ops)
      BY <1>3 DEF PlacesInv, Distinct
    <3>3. BatchDomains(exec') = OpDomains(b.ops)
      BY <3>1 DEF BatchDomains
    <3>4. QED
      BY <1>3, <3>1, <3>2, <3>3 DEF DistinctBatches
  <2>3. QED
    BY <1>1, <1>4, <1>5, <2>1, <2>2
<1>7. \A e \in Domains : /\ InQueue(e)' <=> InQueue(e)
                         /\ Carried(e)' <=> Carried(e)
                         /\ Held(e)' <=> Held(e)
                         /\ ~Buffered(e)' /\ ~InBatch(e)
                         /\ InBatch(e)' <=> Buffered(e)
  <2>1. \A e \in Domains : /\ InQueue(e)' <=> InQueue(e)
                           /\ Carried(e)' <=> Carried(e)
                           /\ Held(e)' <=> Held(e)
    BY <1>1 DEF InQueue, Carried, Held
  <2>2. \A e \in Domains : ~Buffered(e)' /\ ~InBatch(e)
    BY <1>1, <1>4 DEF Buffered, InBatch, OpDomains
  <2>3. \A e \in Domains : InBatch(e)' <=> Buffered(e)
    BY <1>6, InBatchIsNext DEF Buffered
  <2>4. QED
    BY <2>1, <2>2, <2>3
<1>8. Exclusive' /\ InScope'
  BY <1>1, <1>7 DEF PlacesInv, Exclusive, InScope
<1>9. Distinct' /\ FreeHands' /\ PillsLast'
  <2>1. DistinctOps(buf')
    BY <1>1 DEF DistinctOps
  <2>2. Distinct'
    BY <1>1, <1>6, <2>1 DEF PlacesInv, Distinct
  <2>3. FreeHands' /\ PillsLast'
    BY <1>1 DEF PlacesInv, FreeHands, PillsLast
  <2>4. QED
    BY <2>2, <2>3
<1>10. Awaiting'
  <2>1. \A i \in DOMAIN exec' : exec'[i].owner = "main" /\ phase' = "flush"
    BY <1>1, <1>3, <1>4, <1>5
  <2>2. QED
    BY <2>1 DEF Awaiting
<1>11. PoolEmpty' /\ Ending'
  BY <1>1, <1>2, <1>4 DEF PoolEmpty, Ending
<1>12. PlacesInv'
  BY <1>8, <1>9, <1>10, <1>11 DEF PlacesInv
<1>13. QED
  BY <1>4, <1>5, <1>7, <1>12 DEF b

(* The first batch leaves: what is true of it and of those behind it.      *)
LEMMA FirstBatch ==
  ASSUME TypeInv, PlacesInv, exec # <<>>, exec' = Tail(exec)
  PROVE  LET b == Head(exec)
         IN /\ b \in Batch /\ b.ops \in Seq(Op) /\ OpDomains(b.ops) \subseteq Domains
            /\ b = exec[1] /\ 1 \in DOMAIN exec
            /\ b.owner \in Workers \cup {"main"}
            /\ exec' \in Seq(Batch) /\ DistinctBatches(exec') /\ DistinctOps(b.ops)
            /\ \A d \in Domains : /\ InBatch(d) <=> d \in OpDomains(b.ops) \/ InBatch(d)'
                                  /\ ~(d \in OpDomains(b.ops) /\ InBatch(d)')
            /\ \A i \in DOMAIN exec' : /\ exec'[i] \in Batch
                                       /\ \E j \in DOMAIN exec : exec'[i] = exec[j]
                                       /\ exec'[i].owner # b.owner
<1> DEFINE b == Head(exec)
<1>1. exec \in Seq(Batch) /\ DistinctBatches(exec)
  BY DEF TypeInv, TypeOK, PlacesInv, Distinct
<1>2. /\ exec' \in Seq(Batch) /\ b = exec[1] /\ 1 \in DOMAIN exec
      /\ \A i \in DOMAIN exec' : i + 1 \in DOMAIN exec /\ exec'[i] = exec[i + 1] /\ i + 1 # 1
      /\ DistinctBatches(exec')
      /\ OpDomains(b.ops) \cap BatchDomains(exec') = {}
      /\ BatchDomains(exec) = OpDomains(b.ops) \cup BatchDomains(exec')
  BY <1>1, BatchesTail
<1>3. b \in Batch
  BY <1>1, <1>2
<1> HIDE DEF b
<1>4. b.ops \in Seq(Op) /\ b.owner \in Workers \cup {"main"}
  BY <1>3 DEF Batch
<1>5. OpDomains(b.ops) \subseteq Domains
  BY <1>4, OpDomainsType
<1>6. DistinctOps(b.ops)
  BY <1>1, <1>2 DEF DistinctBatches
<1>7. \A d \in Domains : /\ InBatch(d) <=> d \in OpDomains(b.ops) \/ InBatch(d)'
                         /\ ~(d \in OpDomains(b.ops) /\ InBatch(d)')
  BY <1>2, InBatchIs, InBatchIsNext
<1>8. ASSUME NEW i \in DOMAIN exec'
      PROVE  /\ exec'[i] \in Batch
             /\ \E j \in DOMAIN exec : exec'[i] = exec[j]
             /\ exec'[i].owner # b.owner
  <2>1. i + 1 \in DOMAIN exec /\ exec'[i] = exec[i + 1] /\ i + 1 # 1
    BY <1>2, <1>8
  <2>2. exec[i + 1].owner # exec[1].owner
    BY <1>1, <1>2, <2>1 DEF DistinctBatches
  <2>3. exec[i + 1] \in Batch
    BY <1>1, <2>1
  <2>4. QED
    BY <1>2, <2>1, <2>2, <2>3
<1>9. QED
  BY <1>2, <1>3, <1>4, <1>5, <1>6, <1>7, <1>8 DEF b

(* A batch is committed.                                                   *)
LEMMA PlacesCommit ==
  ASSUME TypeInv, PlacesInv, CommitBatch
  PROVE  /\ PlacesInv'
         /\ \A d \in Domains : Held(d)' <=> Held(d)
         /\ phase \in {"run", "flush"}
<1> DEFINE b == Head(exec)
           o == b.owner
<1>1. /\ exec # <<>> /\ exec' = Tail(exec) /\ Succeeds(o)
      /\ UNCHANGED <<scope, todo, queue, buf>>
  BY DEF CommitBatch
<1>2. /\ b = exec[1] /\ 1 \in DOMAIN exec /\ o \in Workers \cup {"main"}
      /\ exec' \in Seq(Batch) /\ DistinctBatches(exec')
      /\ \A d \in Domains : /\ InBatch(d) <=> d \in OpDomains(b.ops) \/ InBatch(d)'
                            /\ ~(d \in OpDomains(b.ops) /\ InBatch(d)')
      /\ \A i \in DOMAIN exec' : /\ exec'[i] \in Batch
                                 /\ \E j \in DOMAIN exec : exec'[i] = exec[j]
                                 /\ exec'[i].owner # o
      /\ OpDomains(b.ops) \subseteq Domains
  BY <1>1, FirstBatch
<1>3. IF o = "main" THEN phase = "flush"
      ELSE pc[o] \in {"write", "failwrite"} /\ item[o] \in OpDomains(b.ops)
  BY <1>2 DEF PlacesInv, Awaiting
<1> HIDE DEF b, o
<1>4. CASE o = "main"
  <2>1. phase = "flush" /\ phase' = "finish" /\ UNCHANGED <<pc, item>>
    BY <1>1, <1>3, <1>4 DEF Succeeds
  <2>2. exec' = <<>>
    <3>1. ASSUME NEW i \in DOMAIN exec' PROVE FALSE
      <4>1. exec'[i].owner # "main" /\ exec'[i] \in Batch
        BY <1>2, <1>4, <3>1
      <4>2. PICK j \in DOMAIN exec : exec'[i] = exec[j]
        BY <1>2, <3>1
      <4>3. exec[j].owner \in Workers /\ pc[exec[j].owner] \in {"write", "failwrite"}
        BY <4>1, <4>2 DEF Batch, PlacesInv, Awaiting
      <4>4. QED
        BY <2>1, <4>3 DEF PlacesInv, Ending
    <3>2. QED
      BY <1>2, <3>1
  <2>3. \A e \in Domains : /\ InQueue(e)' <=> InQueue(e)
                           /\ Carried(e)' <=> Carried(e)
                           /\ Held(e)' <=> Held(e)
                           /\ Buffered(e)' <=> Buffered(e)
    BY <1>1, <2>1 DEF InQueue, Carried, Held, Buffered, OpDomains
  <2>4. Exclusive' /\ InScope'
    BY <1>1, <1>2, <2>3 DEF PlacesInv, Exclusive, InScope
  <2>5. Distinct' /\ FreeHands' /\ PillsLast'
    <3>1. Distinct'
      BY <1>1, <1>2, <2>1 DEF PlacesInv, Distinct
    <3>2. FreeHands' /\ PillsLast'
      BY <1>1, <2>1 DEF PlacesInv, FreeHands, PillsLast
    <3>3. QED
      BY <3>1, <3>2
  <2>6. Awaiting' /\ PoolEmpty' /\ Ending'
    BY <1>1, <2>1, <2>2 DEF PlacesInv, Awaiting, PoolEmpty, Ending
  <2>7. PlacesInv'
    BY <2>4, <2>5, <2>6 DEF PlacesInv
  <2>8. QED
    BY <2>1, <2>3, <2>7
<1>5. CASE o # "main"
  <2>1. /\ o \in Workers /\ phase' = phase /\ pc'[o] = "get" /\ item'[o] = NoItem
        /\ \A v \in Workers \ {o} : pc'[v] = pc[v] /\ item'[v] = item[v]
    BY <1>1, <1>2, <1>5 DEF Succeeds, Goto, TypeInv, TypeOK
  <2>2. phase = "run"
    BY <1>3, <1>5, <2>1, WorkerRuns
  <2>3. \A e \in Domains : /\ InQueue(e)' <=> InQueue(e)
                           /\ Carried(e)' => Carried(e)
                           /\ Held(e)' <=> Held(e)
                           /\ Buffered(e)' <=> Buffered(e)
    <3>1. \A e \in Domains : /\ InQueue(e)' <=> InQueue(e)
                             /\ Buffered(e)' <=> Buffered(e)
      BY <1>1 DEF InQueue, Buffered, OpDomains
    <3>2. \A e \in Domains : Carried(e)' => Carried(e)
      BY <2>1, ConstantFacts DEF Carried
    <3>3. \A e \in Domains : Held(e)' <=> Held(e)
      BY <1>3, <1>5, <2>1, ConstantFacts DEF Held
    <3>4. QED
      BY <3>1, <3>2, <3>3
  <2>4. Exclusive' /\ InScope'
    BY <1>1, <1>2, <2>3 DEF PlacesInv, Exclusive, InScope
  <2>5. Distinct' /\ FreeHands' /\ PillsLast'
    <3>1. Distinct'
      BY <1>1, <1>2, <2>1 DEF PlacesInv, Distinct
    <3>2. FreeHands' /\ PillsLast'
      BY <1>1, <2>1 DEF PlacesInv, FreeHands, PillsLast
    <3>3. QED
      BY <3>1, <3>2
  <2>6. Awaiting'
    <3>1. ASSUME NEW i \in DOMAIN exec'
          PROVE  IF exec'[i].owner = "main" THEN phase' = "flush"
                 ELSE /\ pc'[exec'[i].owner] \in {"write", "failwrite"}
                      /\ item'[exec'[i].owner] \in OpDomains(exec'[i].ops)
      <4>1. exec'[i].owner # o /\ exec'[i] \in Batch
        BY <1>2, <3>1
      <4>2. PICK j \in DOMAIN exec : exec'[i] = exec[j]
        BY <1>2, <3>1
      <4>3. IF exec[j].owner = "main" THEN phase = "flush"
            ELSE /\ pc[exec[j].owner] \in {"write", "failwrite"}
                 /\ item[exec[j].owner] \in OpDomains(exec[j].ops)
        BY DEF PlacesInv, Awaiting
      <4>4. exec[j].owner # o /\ exec[j].owner \in Workers \cup {"main"}
        BY <4>1, <4>2 DEF Batch
      <4>5. QED
        BY <2>1, <4>2, <4>3, <4>4
    <3>2. QED
      BY <3>1 DEF Awaiting
  <2>7. PoolEmpty' /\ Ending'
    BY <2>1, <2>2 DEF PoolEmpty, Ending
  <2>8. PlacesInv'
    BY <2>4, <2>5, <2>6, <2>7 DEF PlacesInv
  <2>9. QED
    BY <2>2, <2>3, <2>8
<1>6. QED
  BY <1>4, <1>5

(* A batch of a worker is rolled back: the worker has its domain again, or *)
(* is dead.                                                                *)
LEMMA PlacesRollback ==
  ASSUME TypeInv, PlacesInv, RollbackWorker
  PROVE  /\ PlacesInv'
         /\ \A d \in Domains : Held(d)' => Held(d) \/ d \in OpDomains(Head(exec).ops)
         /\ \A d \in Domains : Held(d) => Held(d)'
         /\ phase = "run"
<1> DEFINE b == Head(exec)
           o == b.owner
<1>1. /\ exec # <<>> /\ exec' = Tail(exec) /\ o # "main"
      /\ UNCHANGED <<phase, scope, todo, queue, item, buf>>
  BY DEF RollbackWorker
<1>2. /\ b = exec[1] /\ 1 \in DOMAIN exec /\ o \in Workers \cup {"main"}
      /\ exec' \in Seq(Batch) /\ DistinctBatches(exec')
      /\ \A d \in Domains : /\ InBatch(d) <=> d \in OpDomains(b.ops) \/ InBatch(d)'
                            /\ ~(d \in OpDomains(b.ops) /\ InBatch(d)')
      /\ \A i \in DOMAIN exec' : /\ exec'[i] \in Batch
                                 /\ \E j \in DOMAIN exec : exec'[i] = exec[j]
                                 /\ exec'[i].owner # o
      /\ OpDomains(b.ops) \subseteq Domains
  BY <1>1, FirstBatch
<1>3. pc[o] \in {"write", "failwrite"} /\ item[o] \in OpDomains(b.ops) /\ o \in Workers
  BY <1>1, <1>2 DEF PlacesInv, Awaiting
<1>4. pc'[o] \in {"except", "dead"} /\ \A v \in Workers \ {o} : pc'[v] = pc[v]
  BY <1>3 DEF RollbackWorker, Goto, TypeInv, TypeOK
<1> HIDE DEF b, o
<1>5. phase = "run"
  BY <1>3, WorkerRuns
<1>6. \A e \in Domains : /\ InQueue(e)' <=> InQueue(e)
                         /\ Carried(e)' <=> Carried(e)
                         /\ Held(e)' => Held(e) \/ (e = item[o] /\ e \in OpDomains(b.ops))
                         /\ Held(e) => Held(e)'
                         /\ Buffered(e)' <=> Buffered(e)
  <2>1. \A e \in Domains : /\ InQueue(e)' <=> InQueue(e)
                           /\ Carried(e)' <=> Carried(e)
                           /\ Buffered(e)' <=> Buffered(e)
    BY <1>1 DEF InQueue, Carried, Buffered, OpDomains
  <2>2. \A e \in Domains : /\ Held(e)' => Held(e) \/ (e = item[o] /\ e \in OpDomains(b.ops))
                           /\ Held(e) => Held(e)'
    BY <1>1, <1>3, <1>4 DEF Held
  <2>3. QED
    BY <2>1, <2>2
<1>7. Exclusive' /\ InScope'
  BY <1>1, <1>2, <1>6 DEF PlacesInv, Exclusive, InScope
<1>8. Distinct' /\ FreeHands' /\ PillsLast'
  <2>1. Distinct'
    BY <1>1, <1>2 DEF PlacesInv, Distinct
  <2>2. FreeHands' /\ PillsLast'
    BY <1>1, <1>4 DEF PlacesInv, FreeHands, PillsLast
  <2>3. QED
    BY <2>1, <2>2
<1>9. Awaiting'
  <2>1. ASSUME NEW i \in DOMAIN exec'
        PROVE  IF exec'[i].owner = "main" THEN phase' = "flush"
               ELSE /\ pc'[exec'[i].owner] \in {"write", "failwrite"}
                    /\ item'[exec'[i].owner] \in OpDomains(exec'[i].ops)
    <3>1. exec'[i].owner # o /\ exec'[i] \in Batch
      BY <1>2, <2>1
    <3>2. PICK j \in DOMAIN exec : exec'[i] = exec[j]
      BY <1>2, <2>1
    <3>3. IF exec[j].owner = "main" THEN phase = "flush"
          ELSE /\ pc[exec[j].owner] \in {"write", "failwrite"}
               /\ item[exec[j].owner] \in OpDomains(exec[j].ops)
      BY DEF PlacesInv, Awaiting
    <3>4. exec[j].owner # o /\ exec[j].owner \in Workers \cup {"main"}
      BY <3>1, <3>2 DEF Batch
    <3>5. QED
      BY <1>1, <1>4, <3>2, <3>3, <3>4
  <2>2. QED
    BY <2>1 DEF Awaiting
<1>10. PoolEmpty' /\ Ending'
  BY <1>1, <1>5 DEF PoolEmpty, Ending
<1>11. PlacesInv'
  BY <1>7, <1>8, <1>9, <1>10 DEF PlacesInv
<1>12. QED
  BY <1>5, <1>6, <1>11 DEF b

(* Each step keeps every domain in one place.                              *)
LEMMA NextPlaces == TypeInv /\ PlacesInv /\ [Next]_vars => PlacesInv'
<1> SUFFICES ASSUME TypeInv, PlacesInv, [Next]_vars PROVE PlacesInv'
  OBVIOUS
<1>1. CASE StartSome
  BY <1>1, PlacesStutter DEF StartSome, Start, PoolPart, poolVars
<1>2. CASE NormalizeChunk \/ MarkNormalized \/ ResetFlag
  BY <1>2, PlacesStutter DEF NormalizeChunk, MarkNormalized, ResetFlag, PoolPart, poolVars
<1>3. CASE GatherRaises \/ Finish \/ Crash \/ RollbackMain
  BY <1>3, PlacesNone DEF GatherRaises, Finish, Crash, RollbackMain
<1>4. CASE UNCHANGED vars
  BY <1>4, PlacesStutter DEF vars, PoolPart
<1>5. ASSUME NEW w \in Workers, Process(w) \/ WriteDossier(w) \/ Raises(w)
      PROVE  PlacesInv'
  <2>1. CASE Process(w)
    BY <2>1, PlacesGoto DEF Process
  <2>2. CASE WriteDossier(w)
    BY <2>2, PlacesGoto DEF WriteDossier
  <2>3. CASE Raises(w)
    BY <2>3, PlacesGoto DEF Raises
  <2>4. QED
    BY <1>5, <2>1, <2>2, <2>3
<1>6. ASSUME NEW w \in Workers, Submit(w) \/ SubmitFailure(w)
      PROVE  PlacesInv'
  <2>1. CASE Submit(w)
    BY <2>1, PlacesSubmit DEF Submit
  <2>2. CASE SubmitFailure(w)
    BY <2>2, PlacesSubmit DEF SubmitFailure
  <2>3. QED
    BY <1>6, <2>1, <2>2
<1>7. CASE Main
  BY <1>2, <1>3, <1>7, PlacesLoad, PlacesPutItem, PlacesPutSentinel, PlacesGather DEF Main
<1>8. ASSUME NEW w \in Workers, Worker(w)
      PROVE  PlacesInv'
  BY <1>5, <1>6, <1>8, PlacesGet DEF Worker
<1>9. CASE Writer
  BY <1>3, <1>9, PlacesCommit, PlacesRollback DEF Writer
<1>10. QED
  BY <1>1, <1>3, <1>4, <1>7, <1>8, <1>9 DEF Next, Rest

(* At first no domain is anywhere.                                         *)
LEMMA InitPlaces == Init => PlacesInv
<1> SUFFICES ASSUME Init PROVE PlacesInv
  OBVIOUS
<1>1. Distinct /\ FreeHands /\ PillsLast
  BY DEF Init, NoProcess, Distinct, DistinctOps, DistinctBatches, FreeHands, PillsLast
<1>2. Exclusive /\ InScope
  BY ConstantFacts DEF Init, NoProcess, Exclusive, InScope, InQueue, Carried, Held,
     Buffered, InBatch, OpDomains
<1>3. PoolEmpty /\ Awaiting /\ Ending
  BY DEF Init, NoProcess, PoolEmpty, Awaiting, Ending
<1>4. QED
  BY <1>1, <1>2, <1>3 DEF PlacesInv

(* No domain is processed by two workers or written twice: producer,       *)
(* queue, workers, buffer and batches never share a domain, however        *)
(* coroutines interleave and transactions fail (run_online's pool and      *)
(* AsyncWriter).                                                           *)
THEOREM HandledOnceAlways == Spec => []HandledOnce
<1>1. TypeInv /\ PlacesInv => HandledOnce
  <2> SUFFICES ASSUME TypeInv, PlacesInv PROVE HandledOnce
    OBVIOUS
  <2>1. scope \subseteq Domains
    BY DEF TypeInv, TypeOK
  <2>2. \A d \in Domains : Held(d) => Carried(d)
    BY DEF Held, Carried
  <2>3. \A i, j \in DOMAIN buf : buf[i].domain = buf[j].domain => i = j
    BY DEF PlacesInv, Distinct, DistinctOps
  <2>4. \A i, j \in DOMAIN exec : i # j => OpDomains(exec[i].ops) \cap OpDomains(exec[j].ops) = {}
    BY DEF PlacesInv, Distinct, DistinctBatches
  <2>5. QED
    BY <2>1, <2>2, <2>3, <2>4 DEF PlacesInv, Distinct, Exclusive, HandledOnce
<1>2. TypeInv /\ PlacesInv /\ [Next]_vars => (TypeInv /\ PlacesInv)'
  BY NextTypeInv, NextPlaces
<1>3. QED
  BY <1>1, <1>2, InitTypeInv, InitPlaces, PTL DEF Spec
-----------------------------------------------------------------------------
(* The pool has the domain, wherever in it.                                *)
Pooled(d) == d \in todo \/ InQueue(d) \/ Held(d) \/ Buffered(d) \/ InBatch(d)

(* The queue without its head.                                             *)
LEMMA QueueTail ==
  ASSUME TypeInv, queue # <<>>, queue' = Tail(queue)
  PROVE  \A d : InQueue(d) <=> InQueue(d)' \/ d = Head(queue)
<1> DEFINE n == Len(queue)
<1>1. queue \in Seq(Domains \cup {NoItem})
  BY DEF TypeInv, TypeOK
<1>2. /\ n \in Nat /\ n >= 1 /\ DOMAIN queue = 1..n /\ DOMAIN queue' = 1..(n - 1)
      /\ Head(queue) = queue[1] /\ \A i \in 1..(n - 1) : queue'[i] = queue[i + 1]
  BY <1>1
<1> HIDE DEF n
<1>3. \A i \in 1..n : i = 1 \/ (i - 1 \in 1..(n - 1) /\ queue'[i - 1] = queue[i])
  BY <1>2
<1>4. 1 \in 1..n /\ \A i \in 1..(n - 1) : i + 1 \in 1..n
  BY <1>2
<1>5. ASSUME NEW d, InQueue(d)
      PROVE  InQueue(d)' \/ d = Head(queue)
  BY <1>2, <1>3, <1>5 DEF InQueue
<1>6. ASSUME NEW d, InQueue(d)'
      PROVE  InQueue(d)
  <2>1. PICK i \in 1..(n - 1) : queue'[i] = d
    BY <1>2, <1>6 DEF InQueue
  <2>2. i + 1 \in DOMAIN queue /\ queue[i + 1] = d
    BY <1>2, <1>4, <2>1
  <2>3. QED
    BY <2>2 DEF InQueue
<1>7. InQueue(Head(queue))
  BY <1>2, <1>4 DEF InQueue
<1>8. QED
  BY <1>5, <1>6, <1>7

(* The pool keeps its domains.                                             *)
PoolKept == \A d \in Domains : Pooled(d)' <=> Pooled(d)

(* From the queue to the worker.                                           *)
LEMMA PoolKeptGet ==
  ASSUME TypeInv, PlacesInv, NEW w \in Workers, Get(w)
  PROVE  PoolKept
<1>1. /\ \A d : InQueue(d) <=> InQueue(d)' \/ d = Head(queue)
      /\ UNCHANGED <<todo, buf, exec>>
      /\ pc[w] = "get" /\ item[w] = NoItem
      /\ pc'[w] = (IF Head(queue) = NoItem THEN "exit" ELSE "process") /\ item'[w] = Head(queue)
      /\ \A v \in Workers \ {w} : pc'[v] = pc[v] /\ item'[v] = item[v]
  BY QueueTail DEF Get, Goto, PlacesInv, FreeHands, TypeInv, TypeOK
<1>2. \A d \in Domains : Held(d)' <=> Held(d) \/ d = Head(queue)
  BY <1>1, ConstantFacts DEF Held
<1>3. \A d \in Domains : (Buffered(d)' <=> Buffered(d)) /\ (InBatch(d)' <=> InBatch(d))
  BY <1>1 DEF Buffered, InBatch, OpDomains
<1>4. QED
  BY <1>1, <1>2, <1>3 DEF PoolKept, Pooled

(* With the worker, before it submits.                                     *)
LEMMA PoolKeptGoto ==
  ASSUME TypeInv, NEW w \in Workers, NEW place,
         pc[w] \in {"process", "dossier"}, place \in {"dossier", "submit", "except"},
         Goto(w, place), UNCHANGED <<todo, queue, item, buf, exec>>
  PROVE  PoolKept
<1>1. /\ pc'[w] = place /\ \A v \in Workers \ {w} : pc'[v] = pc[v]
      /\ UNCHANGED <<todo, queue, item, buf, exec>>
  BY DEF Goto, TypeInv, TypeOK
<1>2. \A d \in Domains : Held(d)' <=> Held(d)
  BY <1>1 DEF Held
<1>3. \A d \in Domains : /\ InQueue(d)' <=> InQueue(d)
                         /\ Buffered(d)' <=> Buffered(d)
                         /\ InBatch(d)' <=> InBatch(d)
  BY <1>1 DEF InQueue, Buffered, InBatch, OpDomains
<1>4. QED
  BY <1>1, <1>2, <1>3 DEF PoolKept, Pooled

(* From the worker to the buffer or a batch.                               *)
LEMMA PoolKeptSubmit ==
  ASSUME TypeInv, PlacesInv, NEW w \in Workers, Submit(w) \/ SubmitFailure(w)
  PROVE  PoolKept
<1>1. PICK kind \in {"result", "failure"}, waiting \in {"write", "failwrite"} :
        pc[w] \in {"submit", "except"} /\ SubmitOp(w, kind, waiting)
        /\ UNCHANGED <<phase, scope, todo, queue>>
  BY DEF Submit, SubmitFailure
<1>2. /\ \A d \in Domains : Held(d)' => Held(d) /\ d # item[w]
      /\ \A d \in Domains : Held(d) /\ d # item[w] => Held(d)'
      /\ \A d \in Domains : Buffered(d)' \/ InBatch(d)' <=>
           Buffered(d) \/ InBatch(d) \/ d = item[w]
  BY <1>1, PlacesSubmit
<1>3. Held(item[w])
  BY <1>1 DEF Held
<1>4. \A d \in Domains : InQueue(d)' <=> InQueue(d)
  BY <1>1 DEF InQueue
<1>5. QED
  BY <1>1, <1>2, <1>3, <1>4 DEF PoolKept, Pooled

(* From the producer to the queue.                                         *)
LEMMA PoolKeptPut ==
  ASSUME TypeInv, PutItem \/ PutSentinel
  PROVE  PoolKept
<1>1. UNCHANGED <<pc, item, buf, exec>>
  BY DEF PutItem, PutSentinel
<1>2. \A d \in Domains : /\ Held(d)' <=> Held(d)
                         /\ Buffered(d)' <=> Buffered(d)
                         /\ InBatch(d)' <=> InBatch(d)
  BY <1>1 DEF Held, Buffered, InBatch, OpDomains
<1>3. CASE PutItem
  <2>1. PICK d \in todo : todo' = todo \ {d} /\ queue' = Append(queue, d)
    BY <1>3 DEF PutItem
  <2>2. d \in Domains
    BY DEF TypeInv, TypeOK
  <2>3. \A e : InQueue(e)' <=> InQueue(e) \/ e = d
    BY <2>1, <2>2, QueueAppend
  <2>4. QED
    BY <1>2, <2>1, <2>3 DEF PoolKept, Pooled
<1>4. CASE PutSentinel
  <2>1. todo' = todo /\ queue' = Append(queue, NoItem)
    BY <1>4 DEF PutSentinel
  <2>2. \A e : InQueue(e)' <=> InQueue(e) \/ e = NoItem
    BY <2>1, QueueAppend
  <2>3. QED
    BY <1>2, <2>1, <2>2, ConstantFacts DEF PoolKept, Pooled
<1>5. QED
  BY <1>3, <1>4

(* From the buffer to the last batch.                                      *)
LEMMA PoolKeptGather ==
  ASSUME TypeInv, PlacesInv, GatherAndFlush
  PROVE  PoolKept
<1>1. \A d \in Domains : Buffered(d)' \/ InBatch(d)' <=> Buffered(d) \/ InBatch(d)
  BY PlacesGather
<1>2. UNCHANGED <<todo, queue, pc, item>>
  BY DEF GatherAndFlush, poolVars
<1>3. \A d \in Domains : (InQueue(d)' <=> InQueue(d)) /\ (Held(d)' <=> Held(d))
  BY <1>2 DEF InQueue, Held
<1>4. QED
  BY <1>1, <1>2, <1>3 DEF PoolKept, Pooled

(* Nowhere.                                                                *)
LEMMA PoolKeptStutter ==
  ASSUME UNCHANGED PoolPart
  PROVE  PoolKept
<1>1. UNCHANGED <<todo, queue, pc, item, buf, exec>>
  BY DEF PoolPart
<1>2. QED
  BY <1>1 DEF PoolKept, Pooled, InQueue, Held, Buffered, InBatch, OpDomains

(* What the first batch does not take with it stays.                       *)
LEMMA PoolCommit ==
  ASSUME TypeInv, PlacesInv, CommitBatch
  PROVE  /\ OpDomains(Head(exec).ops) \subseteq scope
         /\ \A d \in Domains :
              /\ Pooled(d) <=> Pooled(d)' \/ d \in OpDomains(Head(exec).ops)
              /\ ~(Pooled(d)' /\ d \in OpDomains(Head(exec).ops))
<1> DEFINE ops == Head(exec).ops
<1>1. exec # <<>> /\ exec' = Tail(exec) /\ UNCHANGED <<todo, queue, buf>>
  BY DEF CommitBatch
<1>2. /\ OpDomains(ops) \subseteq Domains
      /\ \A d \in Domains : /\ InBatch(d) <=> d \in OpDomains(ops) \/ InBatch(d)'
                            /\ ~(d \in OpDomains(ops) /\ InBatch(d)')
  BY <1>1, FirstBatch
<1> HIDE DEF ops
<1>3. \A d \in Domains : Held(d)' <=> Held(d)
  BY PlacesCommit
<1>4. \A d \in Domains : (InQueue(d)' <=> InQueue(d)) /\ (Buffered(d)' <=> Buffered(d))
  BY <1>1 DEF InQueue, Buffered, OpDomains
<1>5. \A d \in Domains : InBatch(d) => /\ d \in scope /\ d \notin todo
                                       /\ ~InQueue(d) /\ ~Held(d) /\ ~Buffered(d)
  BY DEF PlacesInv, Exclusive, InScope
<1>6. OpDomains(ops) \subseteq scope
  BY <1>2, <1>5
<1>7. \A d \in Domains : /\ Pooled(d) <=> Pooled(d)' \/ d \in OpDomains(ops)
                         /\ ~(Pooled(d)' /\ d \in OpDomains(ops))
  BY <1>1, <1>2, <1>3, <1>4, <1>5 DEF Pooled
<1>8. QED
  BY <1>6, <1>7 DEF ops

(* A rollback takes at most the batch, and leaves the worker its domain.   *)
LEMMA PoolRollback ==
  ASSUME TypeInv, PlacesInv, RollbackWorker
  PROVE  \A d \in Domains : /\ Pooled(d)' => Pooled(d)
                            /\ Pooled(d) => Pooled(d)' \/ d \in OpDomains(Head(exec).ops)
<1> DEFINE ops == Head(exec).ops
<1>1. exec # <<>> /\ exec' = Tail(exec) /\ UNCHANGED <<todo, queue, buf>>
  BY DEF RollbackWorker
<1>2. \A d \in Domains : InBatch(d) <=> d \in OpDomains(ops) \/ InBatch(d)'
  BY <1>1, FirstBatch
<1>3. \A d \in Domains : /\ Held(d)' => Held(d) \/ d \in OpDomains(ops)
                         /\ Held(d) => Held(d)'
  BY PlacesRollback
<1> HIDE DEF ops
<1>4. \A d \in Domains : (InQueue(d)' <=> InQueue(d)) /\ (Buffered(d)' <=> Buffered(d))
  BY <1>1 DEF InQueue, Buffered, OpDomains
<1>5. \A d \in Domains : /\ Pooled(d)' => Pooled(d)
                         /\ Pooled(d) => Pooled(d)' \/ d \in OpDomains(ops)
  BY <1>1, <1>2, <1>3, <1>4 DEF Pooled
<1>6. QED
  BY <1>5 DEF ops

(* Before the pending list is read, and after the end, the pool has none.  *)
LEMMA PoolNone ==
  /\ TypeInv /\ PlacesInv /\ phase \in {"idle", "normalize", "reset"} => \A d \in Domains : ~Pooled(d)
  /\ Ends => \A d \in Domains : ~Pooled(d)'
<1>1. ASSUME TypeInv, PlacesInv, phase \in {"idle", "normalize", "reset"}
      PROVE  \A d \in Domains : ~Pooled(d)
  <2>1. /\ todo = {} /\ queue = <<>> /\ buf = <<>> /\ exec = <<>>
        /\ \A w \in Workers : item[w] = NoItem
    BY <1>1 DEF PlacesInv, PoolEmpty, FreeHands, TypeInv, TypeOK
  <2>2. QED
    BY <2>1, ConstantFacts DEF Pooled, InQueue, Held, Buffered, InBatch, OpDomains
<1>2. ASSUME Ends
      PROVE  \A d \in Domains : ~Pooled(d)'
  BY <1>2, ConstantFacts DEF Ends, Pooled, InQueue, Held, Buffered, InBatch, OpDomains
<1>3. QED
  BY <1>1, <1>2

(* The pending list is all the pool has when the workers start.            *)
LEMMA PoolLoad ==
  ASSUME TypeInv, PlacesInv, LoadPending
  PROVE  \A d \in Domains : Pooled(d)' <=> d \in Pending
<1>1. /\ queue = <<>> /\ buf = <<>> /\ exec = <<>>
      /\ UNCHANGED <<queue, item, buf, exec>> /\ todo' = Pending
      /\ \A w \in Workers : item[w] = NoItem
  BY DEF LoadPending, PlacesInv, PoolEmpty, FreeHands
<1>2. \A d \in Domains : ~InQueue(d)' /\ ~Held(d)' /\ ~Buffered(d)' /\ ~InBatch(d)'
  BY <1>1, ConstantFacts DEF InQueue, Held, Buffered, InBatch, OpDomains
<1>3. QED
  BY <1>1, <1>2 DEF Pooled
-----------------------------------------------------------------------------
(* What becomes of a domain: it is not recorded while the pool has it, and *)
(* it does not leave the pool otherwise.                                   *)
NotYet == \A d \in Domains : Pooled(d) => ~Flagged(d)

FateInv == NotYet /\ NothingDropped

(* A step that keeps the pool's domains, sets no flag and takes on none.   *)
LEMMA FateKept ==
  ASSUME TypeInv, FateInv, PoolKept, \A d \in Domains : Flagged(d)' <=> Flagged(d),
         UNCHANGED <<scope, lost>>,
         phase' = phase \/ {phase, phase'} \subseteq {"run", "flush", "finish"}
  PROVE  FateInv'
<1>1. NotYet'
  BY DEF FateInv, NotYet, PoolKept
<1>2. scope \subseteq Domains
  BY DEF TypeInv, TypeOK
<1>3. NothingDropped <=>
        (phase \in {"run", "flush", "finish"} =>
           \A d \in scope : Pooled(d) \/ Flagged(d) \/ d \in lost)
  BY DEF NothingDropped, Pooled
<1>4. NothingDropped' <=>
        (phase' \in {"run", "flush", "finish"} =>
           \A d \in scope' : Pooled(d)' \/ Flagged(d)' \/ d \in lost')
  BY DEF NothingDropped, Pooled
<1>5. NothingDropped'
  BY <1>2, <1>3, <1>4 DEF FateInv, PoolKept
<1>6. QED
  BY <1>1, <1>5 DEF FateInv

(* No step drops a domain or records one the pool still has.               *)
LEMMA NextFate == TypeInv /\ PlacesInv /\ FateInv /\ [Next]_vars => FateInv'
<1> SUFFICES ASSUME TypeInv, PlacesInv, FateInv, [Next]_vars PROVE FateInv'
  OBVIOUS
<1>1. NothingDropped' <=>
        (phase' \in {"run", "flush", "finish"} =>
           \A d \in scope' : Pooled(d)' \/ Flagged(d)' \/ d \in lost')
  BY DEF NothingDropped, Pooled
<1>2. /\ scope \subseteq Domains
      /\ phase \in {"run", "flush", "finish"} =>
           \A d \in scope : Pooled(d) \/ Flagged(d) \/ d \in lost
  BY DEF FateInv, NothingDropped, Pooled, TypeInv, TypeOK
<1>3. CASE StartSome \/ NormalizeChunk \/ MarkNormalized \/ ResetFlag
  <2>1. /\ phase \in {"idle", "normalize", "reset"} /\ phase' \in {"normalize", "reset"}
        /\ UNCHANGED PoolPart
    BY <1>3 DEF StartSome, Start, NormalizeChunk, MarkNormalized, ResetFlag, PoolPart, poolVars
  <2>2. \A d \in Domains : ~Pooled(d)'
    BY <2>1, PoolNone, PoolKeptStutter DEF PoolKept
  <2>3. QED
    BY <1>1, <2>1, <2>2 DEF FateInv, NotYet
<1>4. CASE LoadPending
  <2>1. /\ scope' = Pending /\ flags' = flags /\ \A d \in Domains : Pooled(d)' <=> d \in Pending
    BY <1>4, PoolLoad DEF LoadPending, durable
  <2>2. Pending \subseteq Domains /\ \A d \in Pending : ~Flagged(d)
    BY DEF Pending, TypeInv, TypeOK
  <2>3. QED
    BY <1>1, <2>1, <2>2 DEF FateInv, NotYet, Flagged
<1>5. CASE PutItem \/ PutSentinel
  <2>1. PoolKept
    BY <1>5, PoolKeptPut
  <2>2. UNCHANGED <<flags, scope, lost, phase>>
    BY <1>5 DEF PutItem, PutSentinel, durable
  <2>3. QED
    BY <2>1, <2>2, FateKept DEF Flagged
<1>6. CASE GatherAndFlush
  <2>1. PoolKept
    BY <1>6, PoolKeptGather
  <2>2. UNCHANGED <<flags, scope, lost>> /\ phase = "run" /\ phase' \in {"flush", "finish"}
    BY <1>6 DEF GatherAndFlush, Gathering, durable
  <2>3. QED
    BY <2>1, <2>2, FateKept DEF Flagged
<1>7. CASE GatherRaises \/ Finish \/ Crash \/ RollbackMain
  <2>1. Ends
    BY <1>7 DEF GatherRaises, Finish, Crash, RollbackMain
  <2>2. \A d \in Domains : ~Pooled(d)'
    BY <2>1, PoolNone
  <2>3. phase' = "idle"
    BY <2>1 DEF Ends
  <2>4. QED
    BY <1>1, <2>2, <2>3 DEF FateInv, NotYet
<1>8. ASSUME NEW w \in Workers, Worker(w)
      PROVE  FateInv'
  <2>1. PoolKept
    <3>1. CASE Process(w)
      BY <3>1, PoolKeptGoto DEF Process
    <3>2. CASE WriteDossier(w)
      BY <3>2, PoolKeptGoto DEF WriteDossier
    <3>3. CASE Raises(w)
      BY <3>3, PoolKeptGoto DEF Raises
    <3>4. QED
      BY <1>8, <3>1, <3>2, <3>3, PoolKeptGet, PoolKeptSubmit DEF Worker
  <2>2. UNCHANGED <<flags, scope, lost, phase>>
    BY <1>8 DEF Worker, Get, Process, WriteDossier, Raises, Submit, SubmitFailure, durable, rowVars
  <2>3. QED
    BY <2>1, <2>2, FateKept DEF Flagged
<1>9. CASE CommitBatch
  <2> DEFINE ops == Head(exec).ops
  <2>1. /\ OpDomains(ops) \subseteq scope
        /\ \A d \in Domains : /\ Pooled(d) <=> Pooled(d)' \/ d \in OpDomains(ops)
                              /\ ~(Pooled(d)' /\ d \in OpDomains(ops))
    BY <1>9, PoolCommit
  <2>2. UNCHANGED <<scope, lost>> /\ phase \in {"run", "flush"}
    BY <1>9, PlacesCommit DEF CommitBatch
  <2>3. flags' = [d \in Domains |-> IF d \in OpDomains(ops) THEN FlagSet ELSE flags[d]]
    BY <1>9 DEF CommitBatch, Apply
  <2> HIDE DEF ops
  <2>4. Terminal \in FlagSet
    BY ConstantFacts DEF Terminal, FlagSet, OnlineRunAssumption
  <2>5. \A d \in Domains : Flagged(d)' <=> Flagged(d) \/ d \in OpDomains(ops)
    BY <2>3, <2>4 DEF Flagged
  <2>6. NotYet'
    BY <2>1, <2>5 DEF FateInv, NotYet
  <2>7. NothingDropped'
    BY <1>1, <1>2, <2>1, <2>2, <2>5
  <2>8. QED
    BY <2>6, <2>7 DEF FateInv
<1>10. CASE RollbackWorker
  <2> DEFINE ops == Head(exec).ops
  <2>1. \A d \in Domains : /\ Pooled(d)' => Pooled(d)
                           /\ Pooled(d) => Pooled(d)' \/ d \in OpDomains(ops)
    BY <1>10, PoolRollback
  <2>2. UNCHANGED <<flags, scope, phase>> /\ lost' = lost \cup OpDomains(ops)
    BY <1>10 DEF RollbackWorker, durable
  <2> HIDE DEF ops
  <2>3. NotYet'
    BY <2>1, <2>2 DEF FateInv, NotYet, Flagged
  <2>4. NothingDropped'
    BY <1>1, <1>2, <2>1, <2>2 DEF Flagged
  <2>5. QED
    BY <2>3, <2>4 DEF FateInv
<1>11. CASE UNCHANGED vars
  <2>1. PoolKept
    BY <1>11, PoolKeptStutter DEF vars, PoolPart
  <2>2. QED
    BY <1>11, <2>1, FateKept DEF vars, Flagged
<1>12. QED
  BY <1>3, <1>4, <1>5, <1>6, <1>7, <1>8, <1>9, <1>10, <1>11 DEF Next, Main, Writer, Rest

(* At first there is nothing to drop.                                      *)
LEMMA InitFate == Init => FateInv
BY DEF Init, NoProcess, FateInv, NotYet, NothingDropped, Flagged

(* Between the pending list and the export a pending domain is always with *)
(* the producer, in the queue, with a worker, buffered, in a batch or      *)
(* recorded, or was in a batch that was rolled back (run_online's pool and *)
(* AsyncWriter.submit, flush).                                             *)
THEOREM NothingDroppedAlways == Spec => []NothingDropped
<1>1. TypeInv /\ PlacesInv /\ FateInv /\ [Next]_vars => (TypeInv /\ PlacesInv /\ FateInv)'
  BY NextTypeInv, NextPlaces, NextFate
<1>2. FateInv => NothingDropped
  BY DEF FateInv
<1>3. QED
  BY <1>1, <1>2, InitTypeInv, InitPlaces, InitFate, PTL DEF Spec

(* When the aggregate is exported, each domain the run set out to process  *)
(* is recorded, but for those in a batch that was rolled back: the last,   *)
(* partial batch and the sentinels leave nothing behind (run_online).      *)
THEOREM FinishedRunRecordsAlways == Spec => []FinishedRunRecords
<1>1. TypeInv /\ PlacesInv /\ FateInv => FinishedRunRecords
  <2> SUFFICES ASSUME TypeInv, PlacesInv, FateInv, phase = "finish", NEW d \in scope
               PROVE  Flagged(d) \/ d \in lost
    BY DEF FinishedRunRecords
  <2>1. d \in Domains /\ d # NoItem
    BY ConstantFacts DEF TypeInv, TypeOK
  <2>2. d \notin todo /\ ~Buffered(d) /\ ~InBatch(d)
    BY DEF PlacesInv, Ending, Buffered, InBatch, OpDomains
  <2>3. ~InQueue(d)
    BY <2>1 DEF PlacesInv, Ending, InQueue
  <2>4. ~Held(d)
    BY <2>1 DEF PlacesInv, Ending, FreeHands, Held
  <2>5. QED
    BY <2>2, <2>3, <2>4 DEF FateInv, NothingDropped
<1>2. TypeInv /\ PlacesInv /\ FateInv /\ [Next]_vars => (TypeInv /\ PlacesInv /\ FateInv)'
  BY NextTypeInv, NextPlaces, NextFate
<1>3. QED
  BY <1>1, <1>2, InitTypeInv, InitPlaces, InitFate, PTL DEF Spec
-----------------------------------------------------------------------------
(* Dossiers: none is there before its domain is processed, and a result on *)
(* its way into the database is that of the dossier this run wrote.        *)
Unwritten ==
  /\ \A d \in Domains : d \in todo \/ InQueue(d) => dossier[d] = 0
  /\ \A w \in Workers : pc[w] \in {"process", "dossier"} => dossier[item[w]] = 0

Fresh(ops) == \A i \in DOMAIN ops :
                ops[i].kind = "result" => dossier[ops[i].domain] = runs

AllFresh ==
  /\ \A w \in Workers : pc[w] = "submit" => dossier[item[w]] = runs
  /\ Fresh(buf)
  /\ \A i \in DOMAIN exec : Fresh(exec[i].ops)

DossierInv == Unwritten /\ AllFresh /\ RowMatchesDossier

(* Steps that write neither file nor row and move no result.               *)
NoDossierStep ==
  /\ UNCHANGED <<data, page, dossier, buf, exec>>
  /\ runs' = runs \/ (buf = <<>> /\ exec = <<>>)
  /\ \A d \in Domains : d \in todo' \/ InQueue(d)' =>
       d \in todo \/ InQueue(d) \/ dossier[d] = 0
  /\ \A v \in Workers : pc'[v] \in {"process", "dossier"} => dossier[item'[v]] = 0
  /\ \A v \in Workers : pc'[v] = "submit" =>
       pc[v] = "submit" /\ item'[v] = item[v] /\ runs' = runs

(* They keep what the invariant says of the dossiers.                      *)
LEMMA DossierKept ==
  ASSUME DossierInv, NoDossierStep
  PROVE  DossierInv'
<1> USE DEF NoDossierStep
<1>1. Unwritten'
  BY DEF DossierInv, Unwritten
<1>2. Fresh(buf)' /\ \A i \in DOMAIN exec' : Fresh(exec[i].ops)'
  BY DEF DossierInv, AllFresh, Fresh
<1>3. AllFresh'
  BY <1>2 DEF DossierInv, AllFresh
<1>4. RowMatchesDossier'
  BY DEF DossierInv, RowMatchesDossier
<1>5. QED
  BY <1>1, <1>3, <1>4 DEF DossierInv

(* The end of the process takes all results on their way with it.          *)
LEMMA DossierNone ==
  ASSUME DossierInv, Ends, UNCHANGED durable
  PROVE  DossierInv'
<1>1. Unwritten' /\ AllFresh'
  BY DEF Ends, Unwritten, InQueue, AllFresh, Fresh
<1>2. RowMatchesDossier'
  BY DEF DossierInv, RowMatchesDossier, durable
<1>3. QED
  BY <1>1, <1>2 DEF DossierInv

(* A batch of fresh results is fresh with one more.                        *)
LEMMA FreshAppend ==
  ASSUME NEW ops \in Seq(Op), NEW op \in Op, Fresh(ops),
         op.kind = "result" => dossier[op.domain] = runs
  PROVE  Fresh(Append(ops, op))
<1>1. \A i \in DOMAIN Append(ops, op) :
        IF i = Len(ops) + 1 THEN Append(ops, op)[i] = op
        ELSE i \in DOMAIN ops /\ Append(ops, op)[i] = ops[i]
  OBVIOUS
<1>2. QED
  BY <1>1 DEF Fresh

(* A fresh batch joins the others.                                         *)
LEMMA AllFreshAppend ==
  ASSUME NEW batches \in Seq(Batch), NEW b \in Batch, Fresh(b.ops),
         \A i \in DOMAIN batches : Fresh(batches[i].ops)
  PROVE  \A i \in DOMAIN Append(batches, b) : Fresh(Append(batches, b)[i].ops)
<1>1. \A i \in DOMAIN Append(batches, b) :
        IF i = Len(batches) + 1 THEN Append(batches, b)[i] = b
        ELSE i \in DOMAIN batches /\ Append(batches, b)[i] = batches[i]
  OBVIOUS
<1>2. QED
  BY <1>1

(* A worker hands its operation over.                                      *)
LEMMA DossierSubmit ==
  ASSUME TypeInv, PlacesInv, DossierInv, NEW w \in Workers, Submit(w) \/ SubmitFailure(w)
  PROVE  DossierInv'
<1>1. PICK kind \in {"result", "failure"}, waiting \in {"write", "failwrite"} :
        /\ pc[w] \in {"submit", "except"} /\ (kind = "result" => pc[w] = "submit")
        /\ SubmitOp(w, kind, waiting)
  BY DEF Submit, SubmitFailure
<1>2. UNCHANGED <<durable, phase, scope, todo, queue, runs>>
  BY DEF Submit, SubmitFailure
<1> DEFINE op == [domain |-> item[w], kind |-> kind]
           filled == Append(buf, op)
           b == [owner |-> w, ops |-> filled]
<1>3. op \in Op /\ (op.kind = "result" => dossier[op.domain] = runs)
  BY <1>1 DEF TypeInv, HoldersHold, Holding, Op, DossierInv, AllFresh
<1>4. buf \in Seq(Op) /\ exec \in Seq(Batch) /\ filled \in Seq(Op)
  BY <1>3 DEF TypeInv, TypeOK
<1>5. b \in Batch /\ b.ops = filled
  BY <1>4 DEF Batch
<1>6. /\ \/ exec' = exec /\ buf' = filled
         \/ exec' = Append(exec, b) /\ buf' = <<>>
      /\ \A v \in Workers : pc'[v] \in {"process", "dossier", "submit"} =>
           pc[v] = pc'[v] /\ item'[v] = item[v]
  <2>1. \/ exec' = exec /\ buf' = filled
        \/ exec' = Append(exec, b) /\ buf' = <<>>
    BY <1>1 DEF SubmitOp
  <2>2. /\ pc'[w] = "get" \/ pc'[w] = waiting
        /\ \A v \in Workers \ {w} : pc'[v] = pc[v] /\ item'[v] = item[v]
    BY <1>1 DEF SubmitOp, Goto, TypeInv, TypeOK
  <2>3. QED
    BY <2>1, <2>2
<1>7. Fresh(filled)
  BY <1>3, <1>4, FreshAppend DEF DossierInv, AllFresh
<1> HIDE DEF op, filled, b
<1>8. \A i \in DOMAIN Append(exec, b) : Fresh(Append(exec, b)[i].ops)
  BY <1>4, <1>5, <1>7, AllFreshAppend DEF DossierInv, AllFresh
<1>9. Fresh(<<>>)
  BY DEF Fresh
<1>10. Fresh(buf') /\ \A i \in DOMAIN exec' : Fresh(exec'[i].ops)
  BY <1>6, <1>7, <1>8, <1>9 DEF DossierInv, AllFresh
<1>11. Fresh(buf)' /\ \A i \in DOMAIN exec' : Fresh(exec[i].ops)'
  BY <1>2, <1>10 DEF Fresh, durable
<1>12. AllFresh'
  BY <1>2, <1>6, <1>11 DEF DossierInv, AllFresh, durable
<1>13. Unwritten' /\ RowMatchesDossier'
  BY <1>2, <1>6 DEF DossierInv, Unwritten, InQueue, RowMatchesDossier, durable
<1>14. QED
  BY <1>12, <1>13 DEF DossierInv

(* The dossier of a domain is written by the one worker that holds it,     *)
(* with nothing in the row, the buffer or a batch yet.                     *)
LEMMA DossierWrite ==
  ASSUME TypeInv, PlacesInv, DossierInv, NEW w \in Workers, WriteDossier(w)
  PROVE  DossierInv' /\ item[w] \in Domains /\ dossier[item[w]] = 0
         /\ dossier' = [dossier EXCEPT ![item[w]] = runs]
<1> DEFINE d == item[w]
<1>1. d \in Domains /\ dossier[d] = 0 /\ d # NoItem
  BY ConstantFacts DEF WriteDossier, DossierInv, Unwritten, TypeInv, HoldersHold, Holding
<1>2. /\ dossier' = [dossier EXCEPT ![d] = runs]
      /\ UNCHANGED <<data, page, todo, queue, item, buf, exec, runs>>
      /\ pc[w] = "dossier" /\ pc'[w] = "submit"
      /\ \A v \in Workers \ {w} : pc'[v] = pc[v]
  BY DEF WriteDossier, Goto, rowVars, TypeInv, TypeOK
<1>3. dossier'[d] = runs /\ \A e \in Domains \ {d} : dossier'[e] = dossier[e]
  BY <1>1, <1>2 DEF TypeInv, TypeOK
<1>4. \A v \in Workers \ {w} : item[v] # d
  BY <1>1 DEF PlacesInv, Distinct
<1>5. d \notin todo /\ ~InQueue(d)
  <2>1. Carried(d)
    BY DEF Carried
  <2>2. QED
    BY <1>1, <2>1 DEF PlacesInv, Exclusive
<1> HIDE DEF d
<1>6. \A v \in Workers : pc[v] \in Holding => item[v] \in Domains
  BY DEF TypeInv, HoldersHold
<1>7. Unwritten'
  <2>1. \A e \in Domains : e \in todo' \/ InQueue(e)' => dossier'[e] = 0
    BY <1>2, <1>3, <1>5 DEF DossierInv, Unwritten, InQueue
  <2>2. \A v \in Workers : pc'[v] \in {"process", "dossier"} => dossier'[item'[v]] = 0
    BY <1>2, <1>3, <1>4, <1>6 DEF DossierInv, Unwritten, Holding
  <2>3. QED
    BY <2>1, <2>2 DEF Unwritten
<1>8. ASSUME NEW ops \in Seq(Op), Fresh(ops)
      PROVE  \A i \in DOMAIN ops : ops[i].kind = "result" => dossier'[ops[i].domain] = runs
  <2>1. \A i \in DOMAIN ops : ops[i] \in Op
    OBVIOUS
  <2>2. QED
    BY <1>3, <1>8, <2>1 DEF Fresh, Op
<1>9. AllFresh'
  <2>1. \A v \in Workers : pc'[v] = "submit" => dossier'[item'[v]] = runs
    <3>1. ASSUME NEW v \in Workers, pc'[v] = "submit", v # w
          PROVE  dossier'[item'[v]] = runs
      BY <1>2, <1>3, <1>6, <3>1 DEF DossierInv, AllFresh, Holding
    <3>2. QED
      BY <1>2, <1>3, <3>1 DEF d
  <2>2. buf \in Seq(Op) /\ \A i \in DOMAIN exec : exec[i].ops \in Seq(Op)
    <3>1. \A i \in DOMAIN exec : exec[i] \in Batch
      BY DEF TypeInv, TypeOK
    <3>2. QED
      BY <3>1 DEF Batch, TypeInv, TypeOK
  <2>3. QED
    BY <1>2, <1>8, <2>1, <2>2 DEF DossierInv, AllFresh, Fresh
<1>10. RowMatchesDossier'
  BY <1>1, <1>2, <1>3 DEF DossierInv, RowMatchesDossier, TypeInv, TypeOK
<1>11. QED
  BY <1>1, <1>2, <1>7, <1>9, <1>10 DEF DossierInv, d

(* A batch brings the row to its dossier.                                  *)
LEMMA DossierCommit ==
  ASSUME TypeInv, PlacesInv, DossierInv, CommitBatch
  PROVE  DossierInv'
<1> DEFINE ops == Head(exec).ops
           o == Head(exec).owner
<1>1. /\ exec # <<>> /\ exec' = Tail(exec) /\ Apply(ops) /\ Succeeds(o)
      /\ UNCHANGED <<dossier, todo, queue, buf, runs>>
  BY DEF CommitBatch
<1>2. /\ Head(exec) = exec[1] /\ 1 \in DOMAIN exec /\ ops \in Seq(Op)
      /\ o \in Workers \cup {"main"}
      /\ \A i \in DOMAIN exec' : \E j \in DOMAIN exec : exec'[i] = exec[j]
  BY <1>1, FirstBatch
<1>3. Fresh(ops)
  BY <1>2 DEF DossierInv, AllFresh
<1> HIDE DEF ops, o
<1>4. \A v \in Workers : pc'[v] \in {"process", "dossier", "submit"} =>
        pc[v] = pc'[v] /\ item'[v] = item[v]
  BY <1>1, <1>2 DEF Succeeds, Goto, TypeInv, TypeOK
<1>5. AllFresh' /\ Unwritten'
  <2>1. Fresh(buf)' /\ \A i \in DOMAIN exec' : Fresh(exec'[i].ops)
    BY <1>1, <1>2 DEF DossierInv, AllFresh, Fresh
  <2>2. \A i \in DOMAIN exec' : Fresh(exec[i].ops)'
    BY <1>1, <2>1 DEF Fresh
  <2>3. QED
    BY <1>1, <1>4, <2>1, <2>2 DEF DossierInv, AllFresh, Unwritten, InQueue
<1>6. RowMatchesDossier'
  <2> SUFFICES ASSUME NEW d \in Domains
               PROVE  /\ page'[d] # 0 => page'[d] = dossier[d]
                      /\ data'[d] # 0 => data'[d] = dossier[d]
    BY <1>1 DEF RowMatchesDossier
  <2>1. HasResult(ops, d) => dossier[d] = runs
    BY <1>3 DEF HasResult, Fresh
  <2>2. LastIsResult(ops, d) => dossier[d] = runs
    BY <1>3 DEF LastIsResult, Fresh
  <2>3. page'[d] = (IF d \notin OpDomains(ops) THEN page[d]
                    ELSE IF LastIsResult(ops, d) THEN runs ELSE 0)
    BY <1>1 DEF Apply
  <2>4. data'[d] = (IF HasResult(ops, d) /\ data[d] = 0 THEN runs ELSE data[d])
    BY <1>1 DEF Apply
  <2>5. QED
    BY <2>1, <2>2, <2>3, <2>4 DEF DossierInv, RowMatchesDossier
<1>7. QED
  BY <1>5, <1>6 DEF DossierInv

(* Each step keeps files, rows and results on their way together.          *)
LEMMA NextDossier == TypeInv /\ PlacesInv /\ DossierInv /\ [Next]_vars => DossierInv'
<1> SUFFICES ASSUME TypeInv, PlacesInv, DossierInv, [Next]_vars PROVE DossierInv'
  OBVIOUS
<1>1. CASE StartSome
  <2>1. phase = "idle" /\ UNCHANGED <<data, page, dossier, buf, exec, todo, queue, pc, item>>
    BY <1>1 DEF StartSome, Start, durable, poolVars
  <2>2. buf = <<>> /\ exec = <<>> /\ \A w \in Workers : pc[w] = "off"
    BY <2>1 DEF PlacesInv, PoolEmpty
  <2>3. QED
    BY <2>1, <2>2, DossierKept DEF NoDossierStep, InQueue
<1>2. ASSUME UNCHANGED <<data, page, dossier, buf, exec, todo, queue, pc, item, runs>>
      PROVE  DossierInv'
  <2>1. \A d \in Domains : d \in todo' \/ InQueue(d)' => d \in todo \/ InQueue(d) \/ dossier[d] = 0
    BY <1>2 DEF InQueue
  <2>2. \A v \in Workers : pc'[v] \in {"process", "dossier"} => dossier[item'[v]] = 0
    BY <1>2 DEF DossierInv, Unwritten
  <2>3. \A v \in Workers : pc'[v] = "submit" => pc[v] = "submit" /\ item'[v] = item[v] /\ runs' = runs
    BY <1>2
  <2>4. QED
    BY <1>2, <2>1, <2>2, <2>3, DossierKept DEF NoDossierStep
<1>3. CASE NormalizeChunk \/ MarkNormalized \/ ResetFlag \/ UNCHANGED vars
  BY <1>2, <1>3 DEF NormalizeChunk, MarkNormalized, ResetFlag, vars, rowVars, poolVars
<1>4. CASE LoadPending
  <2>1. /\ UNCHANGED <<data, page, dossier, buf, exec, queue, item, runs>>
        /\ todo' = Pending /\ \A w \in Workers : pc'[w] \in {"off", "get"}
    BY <1>4, PlacesLoad DEF LoadPending, durable, PlacesInv, PoolEmpty
  <2>2. \A d \in Domains : d \in todo' \/ InQueue(d)' => d \in todo \/ InQueue(d) \/ dossier[d] = 0
    BY <2>1 DEF Pending, InQueue
  <2>3. \A v \in Workers : pc'[v] \in {"process", "dossier"} => dossier[item'[v]] = 0
    BY <2>1
  <2>4. \A v \in Workers : pc'[v] = "submit" => pc[v] = "submit" /\ item'[v] = item[v] /\ runs' = runs
    BY <2>1
  <2>5. QED
    BY <2>1, <2>2, <2>3, <2>4, DossierKept DEF NoDossierStep
<1>5. CASE PutItem \/ PutSentinel
  <2>1. UNCHANGED <<data, page, dossier, buf, exec, pc, item, runs>>
    BY <1>5 DEF PutItem, PutSentinel, durable
  <2>2. \A d \in Domains : d \in todo' \/ InQueue(d)' => d \in todo \/ InQueue(d)
    <3>1. CASE PutItem
      <4>1. PICK e \in todo : todo' = todo \ {e} /\ queue' = Append(queue, e)
        BY <3>1 DEF PutItem
      <4>2. e \in Domains
        BY DEF TypeInv, TypeOK
      <4>3. QED
        BY <4>1, <4>2, QueueAppend
    <3>2. CASE PutSentinel
      <4>1. todo' = todo /\ queue' = Append(queue, NoItem)
        BY <3>2 DEF PutSentinel
      <4>2. QED
        BY <4>1, QueueAppend, ConstantFacts
    <3>3. QED
      BY <1>5, <3>1, <3>2
  <2>3. \A d \in Domains : d \in todo' \/ InQueue(d)' => d \in todo \/ InQueue(d) \/ dossier[d] = 0
    BY <2>2
  <2>4. \A v \in Workers : pc'[v] \in {"process", "dossier"} => dossier[item'[v]] = 0
    BY <2>1 DEF DossierInv, Unwritten
  <2>5. \A v \in Workers : pc'[v] = "submit" => pc[v] = "submit" /\ item'[v] = item[v] /\ runs' = runs
    BY <2>1
  <2>6. QED
    BY <2>1, <2>3, <2>4, <2>5, DossierKept DEF NoDossierStep
<1>6. CASE GatherAndFlush
  <2> DEFINE b == [owner |-> "main", ops |-> buf]
  <2>1. /\ UNCHANGED <<data, page, dossier, todo, queue, pc, item, runs>> /\ buf' = <<>>
        /\ exec' = exec \/ exec' = Append(exec, b)
    BY <1>6 DEF GatherAndFlush, durable, poolVars
  <2>2. b \in Batch /\ exec \in Seq(Batch) /\ b.ops = buf
    BY DEF Batch, TypeInv, TypeOK
  <2> HIDE DEF b
  <2>3. \A i \in DOMAIN Append(exec, b) : Fresh(Append(exec, b)[i].ops)
    BY <2>2, AllFreshAppend DEF DossierInv, AllFresh
  <2>4. \A i \in DOMAIN exec' : Fresh(exec'[i].ops)
    BY <2>1, <2>3 DEF DossierInv, AllFresh
  <2>5. Fresh(buf)' /\ \A i \in DOMAIN exec' : Fresh(exec[i].ops)'
    BY <2>1, <2>4 DEF Fresh
  <2>6. QED
    BY <2>1, <2>5 DEF DossierInv, AllFresh, Unwritten, InQueue, RowMatchesDossier
<1>7. CASE GatherRaises \/ Finish \/ Crash \/ RollbackMain
  BY <1>7, DossierNone DEF GatherRaises, Finish, Crash, RollbackMain
<1>8. ASSUME NEW w \in Workers, Get(w)
      PROVE  DossierInv'
  <2>1. /\ UNCHANGED <<data, page, dossier, buf, exec, todo, runs>>
        /\ pc'[w] = (IF Head(queue) = NoItem THEN "exit" ELSE "process") /\ item'[w] = Head(queue)
        /\ \A v \in Workers \ {w} : pc'[v] = pc[v] /\ item'[v] = item[v]
    BY <1>8 DEF Get, Goto, durable, TypeInv, TypeOK
  <2>2. \A d : InQueue(d) <=> InQueue(d)' \/ d = Head(queue)
    BY <1>8, QueueTail DEF Get
  <2>3. Head(queue) \in Domains \cup {NoItem}
    BY <1>8 DEF Get, TypeInv, TypeOK
  <2>4. \A d \in Domains : d \in todo' \/ InQueue(d)' => d \in todo \/ InQueue(d) \/ dossier[d] = 0
    BY <2>1, <2>2
  <2>5. \A v \in Workers : pc'[v] \in {"process", "dossier"} => dossier[item'[v]] = 0
    BY <2>1, <2>2, <2>3 DEF DossierInv, Unwritten
  <2>6. \A v \in Workers : pc'[v] = "submit" => pc[v] = "submit" /\ item'[v] = item[v] /\ runs' = runs
    BY <2>1
  <2>7. QED
    BY <2>1, <2>4, <2>5, <2>6, DossierKept DEF NoDossierStep
<1>9. ASSUME NEW w \in Workers, Process(w) \/ Raises(w)
      PROVE  DossierInv'
  <2>1. /\ UNCHANGED <<data, page, dossier, buf, exec, todo, queue, item, runs>>
        /\ pc[w] \in {"process", "dossier"} /\ pc'[w] \in {"dossier", "except"}
        /\ \A v \in Workers \ {w} : pc'[v] = pc[v]
    BY <1>9 DEF Process, Raises, Goto, durable, TypeInv, TypeOK
  <2>2. \A d \in Domains : d \in todo' \/ InQueue(d)' => d \in todo \/ InQueue(d) \/ dossier[d] = 0
    BY <2>1 DEF InQueue
  <2>3. \A v \in Workers : pc'[v] \in {"process", "dossier"} => dossier[item'[v]] = 0
    BY <2>1 DEF DossierInv, Unwritten
  <2>4. \A v \in Workers : pc'[v] = "submit" => pc[v] = "submit" /\ item'[v] = item[v] /\ runs' = runs
    BY <2>1
  <2>5. QED
    BY <2>1, <2>2, <2>3, <2>4, DossierKept DEF NoDossierStep
<1>10. CASE RollbackWorker
  <2>1. /\ exec # <<>> /\ exec' = Tail(exec)
        /\ UNCHANGED <<data, page, dossier, buf, todo, queue, item, runs>>
    BY <1>10 DEF RollbackWorker, durable
  <2>2. \A i \in DOMAIN exec' : \E j \in DOMAIN exec : exec'[i] = exec[j]
    BY <2>1, FirstBatch
  <2>3. \A v \in Workers : pc'[v] \in {"process", "dossier", "submit"} => pc[v] = pc'[v]
    <3>1. Head(exec).owner \in Workers
      BY <1>10, <2>1, FirstBatch DEF RollbackWorker
    <3>2. QED
      BY <1>10, <3>1 DEF RollbackWorker, Goto, TypeInv, TypeOK
  <2>4. Fresh(buf)' /\ \A i \in DOMAIN exec' : Fresh(exec[i].ops)'
    <3>1. Fresh(buf') /\ \A i \in DOMAIN exec' : Fresh(exec'[i].ops)
      BY <2>1, <2>2 DEF DossierInv, AllFresh
    <3>2. QED
      BY <2>1, <3>1 DEF Fresh
  <2>5. QED
    BY <2>1, <2>3, <2>4 DEF DossierInv, AllFresh, Unwritten, InQueue, RowMatchesDossier
<1>11. ASSUME NEW w \in Workers, Worker(w)
       PROVE  DossierInv'
  BY <1>8, <1>9, <1>11, DossierWrite, DossierSubmit DEF Worker
<1>12. QED
  BY <1>1, <1>3, <1>4, <1>5, <1>6, <1>7, <1>10, <1>11, DossierCommit
  DEF Next, Main, Writer, Rest

(* At first there is no dossier.                                           *)
LEMMA InitDossier == Init => DossierInv
BY DEF Init, NoProcess, DossierInv, Unwritten, AllFresh, Fresh, RowMatchesDossier, InQueue

(* The row never disagrees with the dossier file it points to: page_* and  *)
(* the enrichment columns are those of the run that wrote the dossier,     *)
(* over kills, retries and forced runs (runner.py, store.update_page).     *)
THEOREM RowMatchesDossierAlways == Spec => []RowMatchesDossier
<1>1. TypeInv /\ PlacesInv /\ DossierInv /\ [Next]_vars => (TypeInv /\ PlacesInv /\ DossierInv)'
  BY NextTypeInv, NextPlaces, NextDossier
<1>2. DossierInv => RowMatchesDossier
  BY DEF DossierInv
<1>3. QED
  BY <1>1, <1>2, InitTypeInv, InitPlaces, InitDossier, PTL DEF Spec

(* A dossier, once complete, is never written again nor removed: only the  *)
(* one worker that holds the domain writes it, and only when the pending   *)
(* list found none (run_online's worker, write_dossier).  This is what the *)
(* code does in every run, one with --force online and one over rows with  *)
(* a page_error included, for which the documents promise the contrary.    *)
THEOREM NoRunRewritesDossier ==
  Spec => [][\A d \in Domains : dossier[d] # 0 => dossier'[d] = dossier[d]]_vars
<1>1. TypeInv /\ PlacesInv /\ DossierInv /\ [Next]_vars => (TypeInv /\ PlacesInv /\ DossierInv)'
  BY NextTypeInv, NextPlaces, NextDossier
<1>2. TypeInv /\ PlacesInv /\ DossierInv /\ [Next]_vars
        => [\A d \in Domains : dossier[d] # 0 => dossier'[d] = dossier[d]]_vars
  <2> SUFFICES ASSUME TypeInv, PlacesInv, DossierInv, Next, NEW d \in Domains, dossier[d] # 0
               PROVE  dossier'[d] = dossier[d]
    OBVIOUS
  <2>1. ASSUME NEW w \in Workers, WriteDossier(w)
        PROVE  dossier'[d] = dossier[d]
    BY <2>1, DossierWrite DEF TypeInv, TypeOK
  <2>2. CASE dossier' = dossier
    BY <2>2
  <2>3. dossier' = dossier \/ \E w \in Workers : WriteDossier(w)
    BY DEF Next, StartSome, Start, Main, NormalizeChunk, MarkNormalized, ResetFlag, LoadPending,
       PutItem, PutSentinel, GatherAndFlush, GatherRaises, Finish, Worker, Get, Process,
       Raises, Submit, SubmitFailure, Writer, CommitBatch, RollbackWorker, RollbackMain, Crash,
       Rest, vars, durable
  <2>4. QED
    BY <2>1, <2>2, <2>3
<1>3. QED
  BY <1>1, <1>2, InitTypeInv, InitPlaces, InitDossier, PTL DEF Spec

(* "Finished domains are skipped" (README): no run that forces no online   *)
(* stage writes or removes the dossier of a row without page_error.        *)
THEOREM DossierWrittenOnceAlways == Spec => DossierWrittenOnce
<1>1. [\A d \in Domains : dossier[d] # 0 => dossier'[d] = dossier[d]]_vars
        => [~OnlineForced =>
              \A d \in Domains : dossier[d] # 0 /\ ~PageError(d)
                                  => dossier'[d] = dossier[d]]_vars
  OBVIOUS
<1>2. QED
  BY <1>1, NoRunRewritesDossier, PTL DEF DossierWrittenOnce
-----------------------------------------------------------------------------
(* Failures: as long as no transaction fails, a domain whose failure is    *)
(* noted, buffered, in a batch or recorded has no dossier.                 *)
NoFile(ops) == \A i \in DOMAIN ops :
                 ops[i].kind = "failure" => dossier[ops[i].domain] = 0

FailuresNoFile ==
  faults = 0 =>
    /\ \A w \in Workers : pc[w] = "except" => dossier[item[w]] = 0
    /\ NoFile(buf)
    /\ \A i \in DOMAIN exec : NoFile(exec[i].ops)

FailureInv == FailuresNoFile /\ FailedHasNoDossier

(* Steps that write neither file nor row and move no failure.              *)
NoFailureStep ==
  /\ UNCHANGED <<dossier, error, buf, exec, faults>>
  /\ \A d \in Domains : Flagged(d)' => Flagged(d)
  /\ \A v \in Workers : pc'[v] = "except" =>
       (pc[v] = "except" /\ item'[v] = item[v]) \/ dossier[item'[v]] = 0

(* They keep what the invariant says of the failures.                      *)
LEMMA FailureKept ==
  ASSUME FailureInv, NoFailureStep
  PROVE  FailureInv'
<1>1. faults = 0 => /\ NoFile(buf)'
                    /\ \A i \in DOMAIN exec' : NoFile(exec[i].ops)'
  BY DEF NoFailureStep, FailureInv, FailuresNoFile, NoFile
<1>2. FailuresNoFile'
  BY <1>1 DEF NoFailureStep, FailureInv, FailuresNoFile
<1>3. FailedHasNoDossier'
  BY DEF NoFailureStep, FailureInv, FailedHasNoDossier
<1>4. QED
  BY <1>2, <1>3 DEF FailureInv

(* The end of the process takes all failures on their way with it.         *)
LEMMA FailureNone ==
  ASSUME TypeInv, FailureInv, Ends, UNCHANGED durable, faults' = 0 => faults = 0
  PROVE  FailureInv'
<1>1. FailuresNoFile'
  BY DEF Ends, FailuresNoFile, NoFile
<1>2. FailedHasNoDossier'
  BY DEF FailureInv, FailedHasNoDossier, Flagged, durable
<1>3. QED
  BY <1>1, <1>2 DEF FailureInv

(* One more failure without a dossier.                                     *)
LEMMA NoFileAppend ==
  ASSUME NEW ops \in Seq(Op), NEW op \in Op, NoFile(ops),
         op.kind = "failure" => dossier[op.domain] = 0
  PROVE  NoFile(Append(ops, op))
<1>1. \A i \in DOMAIN Append(ops, op) :
        IF i = Len(ops) + 1 THEN Append(ops, op)[i] = op
        ELSE i \in DOMAIN ops /\ Append(ops, op)[i] = ops[i]
  OBVIOUS
<1>2. QED
  BY <1>1 DEF NoFile

(* A batch of such failures joins the others.                              *)
LEMMA AllNoFileAppend ==
  ASSUME NEW batches \in Seq(Batch), NEW b \in Batch, NoFile(b.ops),
         \A i \in DOMAIN batches : NoFile(batches[i].ops)
  PROVE  \A i \in DOMAIN Append(batches, b) : NoFile(Append(batches, b)[i].ops)
<1>1. \A i \in DOMAIN Append(batches, b) :
        IF i = Len(batches) + 1 THEN Append(batches, b)[i] = b
        ELSE i \in DOMAIN batches /\ Append(batches, b)[i] = batches[i]
  OBVIOUS
<1>2. QED
  BY <1>1

(* A worker hands its operation over.                                      *)
LEMMA FailureSubmit ==
  ASSUME TypeInv, FailureInv, NEW w \in Workers, Submit(w) \/ SubmitFailure(w)
  PROVE  FailureInv'
<1>1. PICK kind \in {"result", "failure"}, waiting \in {"write", "failwrite"} :
        /\ pc[w] \in {"submit", "except"} /\ (kind = "failure" => pc[w] = "except")
        /\ SubmitOp(w, kind, waiting)
  BY DEF Submit, SubmitFailure
<1>2. UNCHANGED <<dossier, error, flags, faults>>
  BY DEF Submit, SubmitFailure, durable
<1> DEFINE op == [domain |-> item[w], kind |-> kind]
           filled == Append(buf, op)
           b == [owner |-> w, ops |-> filled]
<1>3. FailedHasNoDossier'
  BY <1>2 DEF FailureInv, FailedHasNoDossier, Flagged
<1>4. ASSUME faults = 0
      PROVE  FailuresNoFile'
  <2>1. op \in Op /\ (op.kind = "failure" => dossier[op.domain] = 0)
    BY <1>1, <1>4 DEF TypeInv, HoldersHold, Holding, Op, FailureInv, FailuresNoFile
  <2>2. buf \in Seq(Op) /\ exec \in Seq(Batch) /\ filled \in Seq(Op)
    BY <2>1 DEF TypeInv, TypeOK
  <2>3. b \in Batch /\ b.ops = filled
    BY <2>2 DEF Batch
  <2>4. \/ exec' = exec /\ buf' = filled
        \/ exec' = Append(exec, b) /\ buf' = <<>>
    BY <1>1 DEF SubmitOp
  <2>5. /\ pc'[w] = "get" \/ pc'[w] = waiting
        /\ \A v \in Workers \ {w} : pc'[v] = pc[v] /\ item'[v] = item[v]
    BY <1>1 DEF SubmitOp, Goto, TypeInv, TypeOK
  <2>6. NoFile(filled)
    BY <1>4, <2>1, <2>2, NoFileAppend DEF FailureInv, FailuresNoFile
  <2> HIDE DEF op, filled, b
  <2>7. \A i \in DOMAIN Append(exec, b) : NoFile(Append(exec, b)[i].ops)
    BY <1>4, <2>2, <2>3, <2>6, AllNoFileAppend DEF FailureInv, FailuresNoFile
  <2>8. NoFile(<<>>)
    BY DEF NoFile
  <2>9. NoFile(buf') /\ \A i \in DOMAIN exec' : NoFile(exec'[i].ops)
    BY <1>4, <2>4, <2>6, <2>7, <2>8 DEF FailureInv, FailuresNoFile
  <2>10. NoFile(buf)' /\ \A i \in DOMAIN exec' : NoFile(exec[i].ops)'
    BY <1>2, <2>9 DEF NoFile
  <2>11. QED
    BY <1>2, <1>4, <2>5, <2>10 DEF FailureInv, FailuresNoFile
<1>5. FailuresNoFile'
  BY <1>2, <1>4 DEF FailuresNoFile
<1>6. QED
  BY <1>3, <1>5 DEF FailureInv

(* The domain whose dossier is written is in no failure and has no row     *)
(* that says so: its worker has it, and nobody else.                       *)
LEMMA FailureWrite ==
  ASSUME TypeInv, PlacesInv, FateInv, DossierInv, FailureInv,
         NEW w \in Workers, WriteDossier(w)
  PROVE  FailureInv'
<1> DEFINE d == item[w]
<1>1. /\ d \in Domains /\ d # NoItem /\ pc[w] = "dossier"
      /\ dossier' = [dossier EXCEPT ![d] = runs]
  BY DossierWrite, ConstantFacts DEF WriteDossier
<1>2. UNCHANGED <<flags, error, buf, exec, item, faults>> /\ pc' = [pc EXCEPT ![w] = "submit"]
  BY DEF WriteDossier, Goto, rowVars
<1>3. \A e \in Domains \ {d} : dossier'[e] = dossier[e]
  BY <1>1 DEF TypeInv, TypeOK
<1>4. Held(d)
  BY <1>1 DEF Held
<1>5. ~Flagged(d) /\ ~Buffered(d) /\ ~InBatch(d)
  BY <1>1, <1>4 DEF PlacesInv, Exclusive, FateInv, NotYet, Pooled
<1>6. \A v \in Workers \ {w} : item[v] # d
  BY <1>1 DEF PlacesInv, Distinct
<1> HIDE DEF d
<1>7. ASSUME NEW ops \in Seq(Op), NoFile(ops), d \notin OpDomains(ops)
      PROVE  NoFile(ops)'
  <2>1. \A i \in DOMAIN ops : ops[i] \in Op /\ ops[i].domain # d
    BY <1>7 DEF OpDomains
  <2>2. QED
    BY <1>3, <1>7, <2>1 DEF NoFile, Op
<1>8. FailedHasNoDossier'
  BY <1>2, <1>3, <1>5 DEF FailureInv, FailedHasNoDossier, Flagged
<1>9. ASSUME faults = 0
      PROVE  FailuresNoFile'
  <2>1. \A v \in Workers : pc'[v] = "except" => dossier'[item'[v]] = 0
    <3>1. SUFFICES ASSUME NEW v \in Workers, pc'[v] = "except" PROVE dossier'[item[v]] = 0
      BY <1>2
    <3>2. v # w /\ pc[v] = "except"
      BY <1>2, <3>1 DEF TypeInv, TypeOK
    <3>3. item[v] \in Domains \ {d} /\ dossier[item[v]] = 0
      BY <1>6, <1>9, <3>2 DEF TypeInv, HoldersHold, Holding, FailureInv, FailuresNoFile
    <3>4. QED
      BY <1>3, <3>3
  <2>2. buf \in Seq(Op) /\ \A i \in DOMAIN exec : exec[i].ops \in Seq(Op)
    <3>1. \A i \in DOMAIN exec : exec[i] \in Batch
      BY DEF TypeInv, TypeOK
    <3>2. QED
      BY <3>1 DEF Batch, TypeInv, TypeOK
  <2>3. NoFile(buf)'
    BY <1>2, <1>5, <1>7, <1>9, <2>2 DEF FailureInv, FailuresNoFile, Buffered, NoFile
  <2>4. ASSUME NEW i \in DOMAIN exec
        PROVE  NoFile(exec[i].ops)'
    <3> DEFINE ops == exec[i].ops
    <3>1. ops \in Seq(Op) /\ NoFile(ops) /\ d \notin OpDomains(ops)
      BY <1>5, <1>9, <2>2 DEF FailureInv, FailuresNoFile, InBatch
    <3>2. \A k \in DOMAIN ops : ops[k].kind = "failure" => dossier'[ops[k].domain] = 0
      <4> HIDE DEF ops
      <4>1. \A k \in DOMAIN ops : ops[k] \in Op /\ ops[k].domain # d
        BY <3>1 DEF OpDomains
      <4>2. QED
        BY <1>3, <3>1, <4>1 DEF NoFile, Op
    <3>3. QED
      BY <1>2, <3>2 DEF NoFile
  <2>5. QED
    BY <1>2, <2>1, <2>3, <2>4 DEF FailuresNoFile
<1>10. FailuresNoFile'
  BY <1>2, <1>9 DEF FailuresNoFile
<1>11. QED
  BY <1>8, <1>10 DEF FailureInv

(* A batch records as failed only domains whose single operation in it is  *)
(* a failure.                                                              *)
LEMMA FailureCommit ==
  ASSUME TypeInv, PlacesInv, FailureInv, CommitBatch
  PROVE  FailureInv'
<1> DEFINE ops == Head(exec).ops
           o == Head(exec).owner
<1>1. /\ exec # <<>> /\ exec' = Tail(exec) /\ Apply(ops) /\ Succeeds(o)
      /\ UNCHANGED <<dossier, buf, faults>>
  BY DEF CommitBatch
<1>2. /\ Head(exec) = exec[1] /\ 1 \in DOMAIN exec /\ ops \in Seq(Op) /\ DistinctOps(ops)
      /\ o \in Workers \cup {"main"}
      /\ \A i \in DOMAIN exec' : \E j \in DOMAIN exec : exec'[i] = exec[j]
  BY <1>1, FirstBatch
<1>3. faults = 0 => NoFile(ops)
  BY <1>2 DEF FailureInv, FailuresNoFile
<1> HIDE DEF ops, o
<1>4. \A v \in Workers : pc'[v] = "except" => pc[v] = "except" /\ item'[v] = item[v]
  BY <1>1, <1>2 DEF Succeeds, Goto, TypeInv, TypeOK
<1>5. FailuresNoFile'
  <2>1. faults = 0 => /\ NoFile(buf)
                      /\ \A i \in DOMAIN exec' : NoFile(exec'[i].ops)
    BY <1>2 DEF FailureInv, FailuresNoFile
  <2>2. faults = 0 => /\ NoFile(buf)'
                      /\ \A i \in DOMAIN exec' : NoFile(exec[i].ops)'
    BY <1>1, <2>1 DEF NoFile
  <2>3. QED
    BY <1>1, <1>4, <2>2 DEF FailureInv, FailuresNoFile
<1>6. FailedHasNoDossier'
  <2> SUFFICES ASSUME faults = 0, NEW d \in Domains, Flagged(d)', error'[d]
               PROVE  dossier[d] = 0
    BY <1>1 DEF FailedHasNoDossier
  <2>1. CASE d \in OpDomains(ops)
    <3>1. ~LastIsResult(ops, d)
      BY <1>1, <2>1 DEF Apply
    <3>2. PICK i \in DOMAIN ops : ops[i].domain = d
      BY <2>1 DEF OpDomains
    <3>3. ops[i] \in Op
      BY <1>2
    <3>4. \A j \in DOMAIN ops : ops[j].domain = d => j = i
      BY <1>2, <3>2 DEF DistinctOps
    <3>5. DOMAIN ops \subseteq Nat
      BY <1>2
    <3>6. \A j \in DOMAIN ops : ops[j].domain = d => j <= i
      BY <3>4, <3>5
    <3>7. ops[i] # [domain |-> d, kind |-> "result"]
      BY <3>1, <3>6 DEF LastIsResult
    <3>8. ops[i].kind = "failure"
      BY <3>2, <3>3, <3>7 DEF Op
    <3>9. QED
      BY <1>3, <3>2, <3>8 DEF NoFile
  <2>2. CASE d \notin OpDomains(ops)
    <3>1. flags'[d] = flags[d] /\ error'[d] = error[d]
      BY <1>1, <2>2 DEF Apply
    <3>2. QED
      BY <3>1 DEF FailureInv, FailedHasNoDossier, Flagged
  <2>3. QED
    BY <2>1, <2>2
<1>7. QED
  BY <1>5, <1>6 DEF FailureInv

(* Each step keeps failures and dossiers apart.                            *)
LEMMA NextFailure ==
  TypeInv /\ PlacesInv /\ FateInv /\ DossierInv /\ FailureInv /\ [Next]_vars => FailureInv'
<1> SUFFICES ASSUME TypeInv, PlacesInv, FateInv, DossierInv, FailureInv, [Next]_vars
             PROVE  FailureInv'
  OBVIOUS
<1>1. CASE StartSome \/ NormalizeChunk \/ MarkNormalized \/ ResetFlag \/ UNCHANGED vars
  <2>1. UNCHANGED <<dossier, error, buf, exec, faults, pc, item>>
    BY <1>1 DEF StartSome, Start, NormalizeChunk, MarkNormalized, ResetFlag, vars, durable,
       rowVars, poolVars
  <2>2. \A d \in Domains : Flagged(d)' => Flagged(d)
    BY <1>1 DEF StartSome, Start, NormalizeChunk, MarkNormalized, ResetFlag, vars, durable,
       rowVars, Flagged
  <2>3. QED
    BY <2>1, <2>2, FailureKept DEF NoFailureStep
<1>2. CASE LoadPending \/ PutItem \/ PutSentinel
  <2>1. UNCHANGED <<dossier, error, flags, buf, exec, faults, item>>
    BY <1>2 DEF LoadPending, PutItem, PutSentinel, durable
  <2>2. \A v \in Workers : pc'[v] = "except" => pc[v] = "except"
    BY <1>2 DEF LoadPending, PutItem, PutSentinel
  <2>3. QED
    BY <2>1, <2>2, FailureKept DEF NoFailureStep, Flagged
<1>3. CASE GatherAndFlush
  <2> DEFINE b == [owner |-> "main", ops |-> buf]
  <2>1. /\ UNCHANGED <<flags, error, dossier, pc, item, faults>> /\ buf' = <<>>
        /\ exec' = exec \/ exec' = Append(exec, b)
    BY <1>3 DEF GatherAndFlush, durable, poolVars
  <2>2. b \in Batch /\ exec \in Seq(Batch) /\ b.ops = buf
    BY DEF Batch, TypeInv, TypeOK
  <2> HIDE DEF b
  <2>3. faults = 0 => \A i \in DOMAIN exec' : NoFile(exec'[i].ops)
    BY <2>1, <2>2, AllNoFileAppend DEF FailureInv, FailuresNoFile
  <2>4. faults = 0 => NoFile(buf)' /\ \A i \in DOMAIN exec' : NoFile(exec[i].ops)'
    BY <2>1, <2>3 DEF NoFile
  <2>5. FailuresNoFile'
    BY <2>1, <2>4 DEF FailureInv, FailuresNoFile
  <2>6. FailedHasNoDossier'
    BY <2>1 DEF FailureInv, FailedHasNoDossier, Flagged
  <2>7. QED
    BY <2>5, <2>6 DEF FailureInv
<1>4. CASE GatherRaises \/ Finish \/ Crash \/ RollbackMain
  <2>1. faults \in Nat
    BY ConstantFacts DEF TypeInv, TypeOK
  <2>2. QED
    BY <1>4, <2>1, FailureNone DEF GatherRaises, Finish, Crash, RollbackMain
<1>5. ASSUME NEW w \in Workers, Get(w) \/ Process(w) \/ Raises(w)
      PROVE  FailureInv'
  <2>1. /\ UNCHANGED <<dossier, error, flags, buf, exec, faults>>
        /\ \A v \in Workers \ {w} : pc'[v] = pc[v] /\ item'[v] = item[v]
    BY <1>5 DEF Get, Process, Raises, Goto, durable, TypeInv, TypeOK
  <2>2. pc'[w] = "except" => pc[w] \in {"process", "dossier"} /\ item'[w] = item[w]
    BY <1>5 DEF Get, Process, Raises, Goto, TypeInv, TypeOK
  <2>3. QED
    BY <2>1, <2>2, FailureKept DEF NoFailureStep, Flagged, DossierInv, Unwritten
<1>6. CASE RollbackWorker
  <2>1. faults' # 0
    BY <1>6, ConstantFacts DEF RollbackWorker, TypeInv, TypeOK
  <2>2. QED
    BY <2>1 DEF FailureInv, FailuresNoFile, FailedHasNoDossier
<1>7. ASSUME NEW w \in Workers, Worker(w)
      PROVE  FailureInv'
  BY <1>5, <1>7, FailureWrite, FailureSubmit DEF Worker
<1>8. QED
  BY <1>1, <1>2, <1>3, <1>4, <1>6, <1>7, FailureCommit DEF Next, Main, Writer, Rest

(* At first there is no failure.                                           *)
LEMMA InitFailure == Init => FailureInv
BY DEF Init, NoProcess, FailureInv, FailuresNoFile, NoFile, FailedHasNoDossier, Flagged

(* As long as no transaction fails, a domain reported as failed has no     *)
(* dossier: report and file never contradict each other (run_online's      *)
(* except clause and fail_op).                                             *)
THEOREM FailedHasNoDossierAlways == Spec => []FailedHasNoDossier
<1> DEFINE Inv == TypeInv /\ PlacesInv /\ FateInv /\ DossierInv /\ FailureInv
<1>1. Inv /\ [Next]_vars => Inv'
  BY NextTypeInv, NextPlaces, NextFate, NextDossier, NextFailure
<1>2. Init => Inv
  BY InitTypeInv, InitPlaces, InitFate, InitDossier, InitFailure
<1>3. Inv => FailedHasNoDossier
  BY DEF FailureInv
<1>4. QED
  BY <1>1, <1>2, <1>3, PTL DEF Spec
-----------------------------------------------------------------------------
(* Normalisation: what of the input has no row yet is still to be added.   *)
InputComing ==
  phase = "normalize" =>
    \E inp \in InputChoices \ {{}} : inp \subseteq known \cup toAdd

InputInv == InputComing /\ NormalizedIsComplete

(* Each step keeps the rest of the input to come.                          *)
LEMMA NextInput == InputInv /\ [Next]_vars => InputInv'
<1> SUFFICES ASSUME InputInv, [Next]_vars PROVE InputInv'
  OBVIOUS
<1>1. ASSUME NEW inp \in InputChoices, NEW f \in ForceChoices, Start(inp, f)
      PROVE  InputInv'
  <2>1. UNCHANGED <<known, normalized>>
    BY <1>1 DEF Start, durable
  <2>2. phase' = "normalize" => inp # {} /\ toAdd' = inp
    BY <1>1 DEF Start
  <2>3. QED
    BY <2>1, <2>2 DEF InputInv, InputComing, NormalizedIsComplete
<1>2. CASE NormalizeChunk
  <2>1. known \subseteq known' /\ known' \cup toAdd' = known \cup toAdd
        /\ UNCHANGED <<normalized, phase>>
    BY <1>2 DEF NormalizeChunk
  <2>2. QED
    BY <2>1 DEF InputInv, InputComing, NormalizedIsComplete
<1>3. CASE MarkNormalized
  <2>1. /\ phase = "normalize" /\ toAdd = {} /\ phase' = "reset" /\ known' = known
    BY <1>3 DEF MarkNormalized
  <2>2. QED
    BY <2>1 DEF InputInv, InputComing, NormalizedIsComplete
<1>4. ASSUME UNCHANGED <<known, normalized>>,
             phase' = "normalize" => phase = "normalize" /\ toAdd' = toAdd
      PROVE  InputInv'
  BY <1>4 DEF InputInv, InputComing, NormalizedIsComplete
<1>5. CASE ResetFlag \/ LoadPending \/ PutItem \/ PutSentinel \/ GatherAndFlush
  BY <1>4, <1>5 DEF ResetFlag, LoadPending, PutItem, PutSentinel, GatherAndFlush, durable
<1>6. CASE GatherRaises \/ Finish \/ Crash \/ RollbackMain
  BY <1>4, <1>6 DEF GatherRaises, Finish, Crash, RollbackMain, Ends, durable
<1>7. ASSUME NEW w \in Workers, Worker(w)
      PROVE  InputInv'
  BY <1>4, <1>7 DEF Worker, Get, Process, WriteDossier, Raises, Submit, SubmitFailure, durable
<1>8. CASE CommitBatch \/ RollbackWorker
  BY <1>4, <1>8 DEF CommitBatch, Succeeds, RollbackWorker, durable
<1>9. CASE UNCHANGED vars
  BY <1>4, <1>9 DEF vars
<1>10. QED
  BY <1>1, <1>2, <1>3, <1>5, <1>6, <1>7, <1>8, <1>9 DEF Next, StartSome, Main, Writer, Rest

(* The stage mark of normalisation is only there when a whole input list   *)
(* has its rows, wherever in it an earlier run was killed (run_online's    *)
(* normalise, Database.mark_stage).                                        *)
THEOREM NormalizedIsCompleteAlways == Spec => []NormalizedIsComplete
<1>1. Init => InputInv
  BY DEF Init, NoProcess, InputInv, InputComing, NormalizedIsComplete
<1>2. InputInv => NormalizedIsComplete
  BY DEF InputInv
<1>3. QED
  BY <1>1, <1>2, NextInput, PTL DEF Spec
-----------------------------------------------------------------------------
(* The refinement.                                                         *)

(* A domain without a row has no flag and no dossier.                      *)
Unknown == \A d \in Domains \ known : ~Flagged(d) /\ dossier[d] = 0

LifeInv ==
  TypeInv /\ StartedOnce /\ FlaggedIsFinished /\ PlacesInv /\ FateInv /\ DossierInv /\ Unknown

(* Where the durable state stays, so does the status.                      *)
LEMMA SameStatus ==
  ASSUME UNCHANGED <<known, flags, error, dossier>>
  PROVE  UNCHANGED [d \in Domains |-> Status(d)] /\ (Unknown => Unknown')
<1>1. \A d \in Domains : Status(d)' = Status(d)
  BY DEF Status, Flagged
<1>2. Unknown => Unknown'
  BY DEF Unknown, Flagged
<1>3. QED
  BY <1>1, <1>2

(* A chunk of the input is Add.                                            *)
LEMMA LifeAdd ==
  ASSUME LifeInv, NormalizeChunk
  PROVE  Life!Next /\ Unknown'
<1>1. PICK chunk \in SUBSET toAdd : known' = known \cup chunk
  BY DEF NormalizeChunk
<1>2. UNCHANGED <<flags, error, dossier>> /\ toAdd \subseteq Domains
  BY DEF NormalizeChunk, rowVars, LifeInv, TypeInv, TypeOK
<1>3. \A d \in Domains : Status(d)' =
        IF d \in chunk /\ Status(d) = "unknown" THEN "pending" ELSE Status(d)
  <2>1. ASSUME NEW d \in Domains, d \in chunk \ known
        PROVE  Status(d) = "unknown" /\ Status(d)' = "pending"
    BY <1>1, <1>2, <2>1 DEF Status, Flagged, LifeInv, Unknown
  <2>2. ASSUME NEW d \in Domains, d \notin chunk \ known
        PROVE  Status(d)' = Status(d) /\ (d \in chunk => Status(d) # "unknown")
    BY <1>1, <1>2, <2>2 DEF Status, Flagged
  <2>3. QED
    BY <2>1, <2>2
<1>4. Life!Add(chunk)
  BY <1>3 DEF Life!Add
<1>5. Unknown'
  BY <1>1, <1>2 DEF LifeInv, Unknown, Flagged
<1>6. QED
  BY <1>1, <1>2, <1>4, <1>5 DEF Life!Next

(* A dossier written is Write.                                             *)
LEMMA LifeWrite ==
  ASSUME LifeInv, NEW w \in Workers, WriteDossier(w)
  PROVE  Life!Next /\ Unknown'
<1>0. PICK d \in Domains : d = item[w]
  BY DossierWrite DEF LifeInv
<1>1. /\ dossier[d] = 0 /\ dossier' = [dossier EXCEPT ![d] = runs]
      /\ UNCHANGED <<known, flags, error>>
  BY <1>0, DossierWrite DEF LifeInv, WriteDossier, rowVars
<1>2. runs # 0
  BY DEF LifeInv, StartedOnce, WriteDossier
<1>3. d \in known /\ ~Flagged(d)
  <2>1. Held(d) /\ Carried(d)
    BY <1>0 DEF WriteDossier, Held, Carried
  <2>2. QED
    BY <1>1, <2>1 DEF LifeInv, FateInv, NotYet, Pooled, PlacesInv, InScope, TypeInv, TypeOK
<1>4. dossier'[d] = runs /\ \A e \in Domains \ {d} : dossier'[e] = dossier[e]
  BY <1>1 DEF LifeInv, TypeInv, TypeOK
<1>5. Status(d) = "pending" /\ Status(d)' = "written"
  BY <1>1, <1>2, <1>3, <1>4 DEF Status, Flagged
<1>6. \A e \in Domains \ {d} : Status(e)' = Status(e)
  BY <1>1, <1>4 DEF Status, Flagged
<1>7. Life!Write(d)
  BY <1>1, <1>5, <1>6 DEF Life!Write
<1>8. Unknown'
  BY <1>1, <1>3, <1>4 DEF LifeInv, Unknown, Flagged
<1>9. QED
  BY <1>1, <1>7, <1>8 DEF Life!Next

(* A committed batch is Record: its results are Good, its failures Bad.    *)
LEMMA LifeRecord ==
  ASSUME LifeInv, CommitBatch
  PROVE  Life!Next /\ Unknown'
<1> DEFINE ops == Head(exec).ops
           Good == {d \in OpDomains(ops) : LastIsResult(ops, d)}
           Bad == {d \in OpDomains(ops) : ~LastIsResult(ops, d)}
<1>1. Apply(ops) /\ UNCHANGED <<known, dossier>> /\ exec # <<>>
  BY DEF CommitBatch
<1>2. /\ OpDomains(ops) \subseteq scope
      /\ \A d \in Domains : Pooled(d) <=> Pooled(d)' \/ d \in OpDomains(ops)
  BY PoolCommit DEF LifeInv
<1>3. Fresh(ops) /\ phase # "idle"
  <2>1. Head(exec) = exec[1] /\ 1 \in DOMAIN exec
    BY <1>1, FirstBatch DEF LifeInv, CommitBatch
  <2>2. QED
    BY <1>1, <2>1 DEF LifeInv, DossierInv, AllFresh, StartedOnce
<1> HIDE DEF ops
<1>4. \A d \in OpDomains(ops) : d \in known /\ d \in Domains /\ ~Flagged(d)
  BY <1>2 DEF LifeInv, TypeInv, TypeOK, FateInv, NotYet
<1>5. Terminal \in FlagSet
  BY ConstantFacts DEF Terminal, FlagSet, OnlineRunAssumption
<1>6. \A d \in OpDomains(ops) : Flagged(d)' /\ (error'[d] <=> ~LastIsResult(ops, d))
  BY <1>1, <1>4, <1>5 DEF Apply, Flagged
<1>7. \A d \in Domains \ OpDomains(ops) : flags'[d] = flags[d] /\ error'[d] = error[d]
  BY <1>1 DEF Apply
<1>8. \A d \in Good : dossier[d] # 0
  BY <1>3 DEF Fresh, LastIsResult, LifeInv, StartedOnce
<1>9. \A d \in Good : Status(d) = "written" /\ Status(d)' = "recorded"
  BY <1>1, <1>4, <1>6, <1>8 DEF Status, Flagged
<1>10. \A d \in Bad : /\ Status(d) = IF dossier[d] = 0 THEN "pending" ELSE "written"
                      /\ Status(d)' = IF dossier[d] = 0 THEN "failed" ELSE "spoiled"
  BY <1>1, <1>4, <1>6 DEF Status, Flagged
<1>11. \A d \in Domains \ (Good \cup Bad) : Status(d)' = Status(d)
  BY <1>1, <1>7 DEF Status, Flagged
<1>12. Good \in SUBSET Domains /\ Bad \in SUBSET Domains /\ Good \cap Bad = {}
  BY <1>4
<1> HIDE DEF Good, Bad
<1>13. \A d \in Domains : Status(d)' =
         IF d \in Good THEN "recorded"
         ELSE IF d \in Bad THEN IF Status(d) = "written" THEN "spoiled" ELSE "failed"
              ELSE Status(d)
  BY <1>9, <1>10, <1>11, <1>12
<1>14. Life!Record(Good, Bad)
  BY <1>9, <1>10, <1>12, <1>13 DEF Life!Record
<1>15. Unknown'
  <2>1. \A d \in Domains \ known : d \notin OpDomains(ops)
    BY <1>4
  <2>2. QED
    BY <1>1, <1>7, <2>1 DEF LifeInv, Unknown, Flagged
<1>16. QED
  BY <1>12, <1>14, <1>15 DEF Life!Next

(* The reset of the terminal flag is Reset, of another flag nothing.       *)
LEMMA LifeReset ==
  ASSUME LifeInv, ResetFlag
  PROVE  (Life!Next \/ UNCHANGED [d \in Domains |-> Status(d)]) /\ Unknown'
<1> DEFINE f == OnlineFlags[resetAt]
<1>1. /\ flags' = [d \in Domains |-> IF ResetRequested(f) THEN flags[d] \ {f} ELSE flags[d]]
      /\ UNCHANGED <<known, error, dossier>>
  BY DEF ResetFlag
<1> HIDE DEF f
<1>2. Unknown'
  BY <1>1 DEF LifeInv, Unknown, Flagged
<1>3. CASE ResetRequested(f) /\ f = Terminal
  <2>1. \A d \in Domains : ~Flagged(d)'
    BY <1>1, <1>3 DEF Flagged
  <2>2. \A d \in Domains : Flagged(d) => dossier[d] # 0 \/ error[d]
    BY DEF LifeInv, FlaggedIsFinished
  <2>3. \A d \in Domains : Status(d)' =
          IF Status(d) \in {"recorded", "spoiled"} THEN "written"
          ELSE IF Status(d) = "failed" THEN "pending" ELSE Status(d)
    BY <1>1, <2>1, <2>2 DEF Status
  <2>4. Life!Reset
    BY <2>3 DEF Life!Reset
  <2>5. QED
    BY <1>2, <2>4 DEF Life!Next
<1>4. CASE ~(ResetRequested(f) /\ f = Terminal)
  <2>1. \A d \in Domains : Flagged(d)' <=> Flagged(d)
    BY <1>1, <1>4 DEF Flagged
  <2>2. \A d \in Domains : Status(d)' = Status(d)
    BY <1>1, <2>1 DEF Status
  <2>3. QED
    BY <1>2, <2>2
<1>5. QED
  BY <1>3, <1>4

(* Each other step leaves every status as it is.                           *)
LEMMA NextLife ==
  LifeInv /\ [Next]_vars =>
    (Life!Next \/ UNCHANGED [d \in Domains |-> Status(d)]) /\ Unknown'
<1> SUFFICES ASSUME LifeInv, [Next]_vars
             PROVE  (Life!Next \/ UNCHANGED [d \in Domains |-> Status(d)]) /\ Unknown'
  OBVIOUS
<1> DEFINE rows == <<known, flags, error, dossier>>
<1>1. CASE UNCHANGED rows
  BY <1>1, SameStatus DEF LifeInv
<1>2. StartSome \/ MarkNormalized \/ LoadPending \/ PutItem \/ PutSentinel \/ GatherAndFlush
      \/ GatherRaises \/ Finish \/ Crash \/ RollbackWorker \/ RollbackMain \/ UNCHANGED vars
      => UNCHANGED rows
  BY DEF StartSome, Start, MarkNormalized, LoadPending, PutItem, PutSentinel, GatherAndFlush,
     GatherRaises, Finish, Crash, RollbackWorker, RollbackMain, vars, durable, rowVars
<1>3. ASSUME NEW w \in Workers, Worker(w)
      PROVE  UNCHANGED rows \/ WriteDossier(w)
  BY <1>3 DEF Worker, Get, Process, Raises, Submit, SubmitFailure, durable, rowVars
<1> HIDE DEF rows
<1>4. QED
  BY <1>1, <1>2, <1>3, LifeAdd, LifeWrite, LifeRecord, LifeReset
  DEF Next, Main, Writer, Rest

(* The run implements the life cycle of a domain: coroutines, batches,     *)
(* kills, resets and restarts move domains only as DomainLifecycle allows. *)
THEOREM RunIsLifecycle == Spec => Lifecycle
<1> DEFINE Inv == LifeInv /\ IInv
<1>1. Init => Inv
  <2>1. Init => Unknown
    BY DEF Init, Unknown, Flagged
  <2>2. QED
    BY <2>1, InitIInv, InitPlaces, InitFate, InitDossier DEF IInv, LifeInv
<1>2. Inv /\ [Next]_vars => Inv'
  BY NextIInv, NextPlaces, NextFate, NextDossier, NextLife DEF IInv, LifeInv
<1>3. Init => Life!Init
  BY DEF Init, Life!Init, Status
<1>4. Inv /\ [Next]_vars => [Life!Next]_([d \in Domains |-> Status(d)])
  BY NextLife
<1>5. QED
  BY <1>1, <1>2, <1>3, <1>4, PTL DEF Spec, Lifecycle, Life!Spec
=============================================================================
