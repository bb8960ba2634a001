--------------------------- MODULE OnlineRunProofs --------------------------
(***************************************************************************)
(* Proofs about OnlineRun, for every value of its constants.               *)
(***************************************************************************)
EXTENDS OnlineRun, FiniteSetTheorems, TLAPS

(* The places in which a worker holds a domain.                            *)
Holding == {"process", "dossier", "submit", "write", "except", "failwrite"}

HoldersHold == \A w \in Workers : pc[w] \in Holding => item[w] \in Domains

(* Workers and batches belong to a process, and a process was started.     *)
StartedOnce ==
  /\ phase # "idle" => runs # 0
  /\ \A w \in Workers : pc[w] # "off" => phase # "idle"
  /\ exec # <<>> => phase # "idle"

(* The dossier comes first: a result that is about to be submitted, is     *)
(* buffered or is in a batch has its dossier on disk.                      *)
Backed(ops) == \A i \in DOMAIN ops :
                 ops[i].kind = "result" => dossier[ops[i].domain] # 0

DossierFirst ==
  /\ \A w \in Workers : pc[w] = "submit" => dossier[item[w]] # 0
  /\ Backed(buf)
  /\ \A i \in DOMAIN exec : Backed(exec[i].ops)

TypeInv == TypeOK /\ HoldersHold

IInv == TypeInv /\ StartedOnce /\ DossierFirst /\ FlaggedIsFinished
-----------------------------------------------------------------------------
(* What the assumptions on the constants come to.                          *)
LEMMA ConstantFacts ==
  /\ Cardinality(Workers) \in Nat \ {0}
  /\ Len(OnlineFlags) \in Nat \ {0}
  /\ NoItem \notin Domains
  /\ BatchSize \in Nat \ {0}
  /\ MaxRuns \in Nat /\ MaxCrashes \in Nat /\ MaxErrors \in Nat /\ MaxFaults \in Nat
<1>1. Cardinality(Workers) \in Nat
  BY FS_CardinalityType, OnlineRunAssumption
<1>2. Cardinality(Workers) # 0
  BY FS_EmptySet, OnlineRunAssumption
<1>3. QED
  BY <1>1, <1>2, OnlineRunAssumption

(* What the end of the process leaves behind is well typed.                *)
LEMMA EndsTypeInv ==
  ASSUME TypeInv, Ends, UNCHANGED durable,
         runs' \in 0..MaxRuns, crashes' \in 0..MaxCrashes,
         errors' \in 0..MaxErrors, faults' \in 0..MaxFaults
  PROVE  TypeInv'
<1> USE ConstantFacts
<1>1. TypeOK'
  <2>1. queue' \in Seq(Domains \cup {NoItem}) /\ buf' \in Seq(Op) /\ exec' \in Seq(Batch)
    BY DEF Ends
  <2>2. pc' \in [Workers -> Places] /\ item' \in [Workers -> Domains \cup {NoItem}]
    BY DEF Ends, Places
  <2>3. /\ known' \subseteq Domains /\ normalized' \in BOOLEAN
        /\ flags' \in [Domains -> SUBSET FlagSet] /\ error' \in [Domains -> BOOLEAN]
        /\ data' \in [Domains -> 0..MaxRuns] /\ page' \in [Domains -> 0..MaxRuns]
        /\ dossier' \in [Domains -> 0..MaxRuns] /\ unrendered' \subseteq Domains
    BY DEF TypeInv, TypeOK, durable
  <2>4. /\ phase' \in Phases /\ force' \in SUBSET STRING /\ toAdd' \subseteq Domains
        /\ resetAt' \in 1..(Len(OnlineFlags) + 1) /\ pills' \in 0..Cardinality(Workers)
        /\ scope' \subseteq known' /\ todo' \subseteq scope' /\ lost' \subseteq Domains
    BY DEF Ends, Phases
  <2>5. QED
    BY <2>1, <2>2, <2>3, <2>4 DEF TypeOK
<1>2. HoldersHold'
  BY DEF HoldersHold, Holding, Ends
<1>3. QED
  BY <1>1, <1>2 DEF TypeInv

(* A worker goes on with the domain it has.                                *)
LEMMA GotoTypeInv ==
  ASSUME TypeInv, NEW w \in Workers, NEW place \in Places, Goto(w, place),
         item' = item, place \in Holding => item[w] \in Domains
  PROVE  /\ pc' \in [Workers -> Places]
         /\ item' \in [Workers -> Domains \cup {NoItem}]
         /\ HoldersHold'
<1>1. pc' = [pc EXCEPT ![w] = place] /\ pc \in [Workers -> Places]
  BY DEF Goto, TypeInv, TypeOK
<1>2. \A v \in Workers : pc'[v] \in Holding => item[v] \in Domains
  BY <1>1 DEF TypeInv, HoldersHold
<1>3. QED
  BY <1>1, <1>2 DEF TypeInv, TypeOK, HoldersHold

(* Each step of the specification keeps the types.                         *)
LEMMA NextTypeInv == TypeInv /\ [Next]_vars => TypeInv'
<1> SUFFICES ASSUME TypeInv, [Next]_vars PROVE TypeInv'
  OBVIOUS
<1> USE ConstantFacts DEF TypeInv
<1>1. ASSUME NEW inp \in InputChoices, NEW f \in ForceChoices, Start(inp, f)
      PROVE  TypeInv'
  <2>1. /\ runs' \in 0..MaxRuns /\ phase' \in Phases
        /\ force' \in SUBSET STRING /\ toAdd' \subseteq Domains
    BY <1>1, OnlineRunAssumption DEF Start, TypeOK, Phases
  <2>2. UNCHANGED <<durable, resetAt, scope, poolVars, buf, exec,
                    crashes, errors, faults, lost>>
    BY <1>1 DEF Start
  <2>3. QED
    BY <2>1, <2>2 DEF TypeOK, HoldersHold, durable, poolVars
<1>2. CASE NormalizeChunk
  BY <1>2 DEF NormalizeChunk, TypeOK, HoldersHold, rowVars, poolVars
<1>3. CASE MarkNormalized
  BY <1>3 DEF MarkNormalized, TypeOK, HoldersHold, rowVars, poolVars, Phases
<1>4. CASE ResetFlag
  BY <1>4 DEF ResetFlag, TypeOK, HoldersHold, poolVars
<1>5. CASE LoadPending
  <2>1. Pending \subseteq known
    BY DEF Pending
  <2>2. pc' \in [Workers -> Places] /\ HoldersHold'
    BY <1>5 DEF LoadPending, TypeOK, HoldersHold, Holding, Places
  <2>3. pills' \in 0..Cardinality(Workers) /\ phase' \in Phases
    BY <1>5 DEF LoadPending, TypeOK, Phases
  <2>4. QED
    BY <1>5, <2>1, <2>2, <2>3 DEF LoadPending, TypeOK, durable
<1>6. CASE PutItem
  <2>1. queue' \in Seq(Domains \cup {NoItem}) /\ todo' \subseteq scope
    <3>1. PICK d \in todo : todo' = todo \ {d} /\ queue' = Append(queue, d)
      BY <1>6 DEF PutItem
    <3>2. todo \subseteq scope /\ scope \subseteq Domains
          /\ queue \in Seq(Domains \cup {NoItem})
      BY DEF TypeOK
    <3>3. QED
      BY <3>1, <3>2
  <2>2. HoldersHold'
    BY <1>6 DEF PutItem, HoldersHold
  <2>3. QED
    BY <1>6, <2>1, <2>2 DEF PutItem, TypeOK, durable
<1>7. CASE PutSentinel
  <2>1. queue' \in Seq(Domains \cup {NoItem}) /\ pills' \in 0..Cardinality(Workers)
    BY <1>7 DEF PutSentinel, TypeOK
  <2>2. HoldersHold'
    BY <1>7 DEF PutSentinel, HoldersHold
  <2>3. QED
    BY <1>7, <2>1, <2>2 DEF PutSentinel, TypeOK, durable
<1>8. CASE GatherAndFlush
  <2>1. buf' \in Seq(Op)
    BY <1>8 DEF GatherAndFlush, TypeOK
  <2>2. exec' \in Seq(Batch)
    <3>1. [owner |-> "main", ops |-> buf] \in Batch
      BY DEF TypeOK, Batch
    <3>2. \/ exec' = exec
          \/ exec' = Append(exec, [owner |-> "main", ops |-> buf])
      BY <1>8 DEF GatherAndFlush
    <3>3. exec \in Seq(Batch)
      BY DEF TypeOK
    <3>4. QED
      BY <3>1, <3>2, <3>3
  <2>3. QED
    BY <1>8, <2>1, <2>2 DEF GatherAndFlush, TypeOK, HoldersHold, durable,
       poolVars, Phases
<1>9. CASE GatherRaises
  BY <1>9, EndsTypeInv DEF GatherRaises, TypeOK
<1>10. CASE Finish
  BY <1>10, EndsTypeInv DEF Finish, TypeOK
<1>11. CASE Crash
  <2>1. crashes' \in 0..MaxCrashes
    BY <1>11 DEF Crash, TypeOK
  <2>2. QED
    BY <1>11, <2>1, EndsTypeInv DEF Crash, TypeOK
<1>12. ASSUME NEW w \in Workers, Get(w)
       PROVE  TypeInv'
  <2>1. queue' \in Seq(Domains \cup {NoItem}) /\ Head(queue) \in Domains \cup {NoItem}
    BY <1>12 DEF Get, TypeOK
  <2>2. /\ pc' \in [Workers -> Places]
        /\ item' \in [Workers -> Domains \cup {NoItem}]
    BY <1>12, <2>1 DEF Get, Goto, TypeOK, Places
  <2>3. HoldersHold'
    BY <1>12, <2>1 DEF Get, Goto, TypeOK, HoldersHold, Holding
  <2>4. QED
    BY <1>12, <2>1, <2>2, <2>3 DEF Get, TypeOK, durable
<1>13. ASSUME NEW w \in Workers, Process(w)
       PROVE  TypeInv'
  <2>1. /\ pc' \in [Workers -> Places]
        /\ item' \in [Workers -> Domains \cup {NoItem}]
        /\ HoldersHold'
    BY <1>13, GotoTypeInv DEF Process, HoldersHold, Holding, Places
  <2>2. QED
    BY <1>13, <2>1 DEF Process, TypeOK, durable
<1>14. ASSUME NEW w \in Workers, WriteDossier(w)
       PROVE  TypeInv'
  BY <1>14 DEF WriteDossier, Goto, TypeOK, HoldersHold, Holding, rowVars, Places
<1>15. ASSUME NEW w \in Workers, Raises(w)
       PROVE  TypeInv'
  <2>1. /\ pc' \in [Workers -> Places]
        /\ item' \in [Workers -> Domains \cup {NoItem}]
        /\ HoldersHold'
    BY <1>15, GotoTypeInv DEF Raises, HoldersHold, Holding, Places
  <2>2. QED
    BY <1>15, <2>1 DEF Raises, TypeOK, durable
<1>16. ASSUME NEW w \in Workers, NEW kind \in {"result", "failure"},
              NEW waiting \in {"write", "failwrite"},
              pc[w] \in Holding, SubmitOp(w, kind, waiting)
       PROVE  /\ buf' \in Seq(Op) /\ exec' \in Seq(Batch)
              /\ pc' \in [Workers -> Places]
              /\ item' \in [Workers -> Domains \cup {NoItem}]
              /\ HoldersHold'
  <2> DEFINE op == [domain |-> item[w], kind |-> kind]
  <2>1. op \in Op
    BY <1>16 DEF HoldersHold, Op
  <2>2. Append(buf, op) \in Seq(Op)
    BY <2>1 DEF TypeOK
  <2>3. [owner |-> w, ops |-> Append(buf, op)] \in Batch
    BY <2>2 DEF Batch
  <2>4. exec' \in Seq(Batch)
    <3>1. exec' = exec \/ exec' = Append(exec, [owner |-> w, ops |-> Append(buf, op)])
      BY <1>16 DEF SubmitOp
    <3>2. exec \in Seq(Batch)
      BY DEF TypeOK
    <3>3. QED
      BY <2>3, <3>1, <3>2
  <2>5. buf' \in Seq(Op)
    <3>1. buf' = <<>> \/ buf' = Append(buf, op)
      BY <1>16 DEF SubmitOp
    <3>2. <<>> \in Seq(Op)
      OBVIOUS
    <3>3. QED
      BY <2>2, <3>1, <3>2, Zenon
  <2>6. pc' \in [Workers -> Places]
    BY <1>16 DEF SubmitOp, Goto, TypeOK, Places
  <2>7. item' \in [Workers -> Domains \cup {NoItem}]
    BY <1>16 DEF SubmitOp, TypeOK
  <2>8. HoldersHold'
    <3>1. item' = item \/ (pc'[w] = "get" /\ item' = [item EXCEPT ![w] = NoItem])
      BY <1>16 DEF SubmitOp, Goto, TypeOK
    <3>2. \A v \in Workers : v # w => pc'[v] = pc[v] /\ item'[v] = item[v]
      BY <1>16 DEF SubmitOp, Goto, TypeOK
    <3>3. QED
      BY <1>16, <3>1, <3>2 DEF HoldersHold, Holding
  <2>9. QED
    BY <2>4, <2>5, <2>6, <2>7, <2>8
<1>17. ASSUME NEW w \in Workers, Submit(w)
       PROVE  TypeInv'
  BY <1>16, <1>17 DEF Submit, TypeOK, Holding, durable
<1>18. ASSUME NEW w \in Workers, SubmitFailure(w)
       PROVE  TypeInv'
  BY <1>16, <1>18 DEF SubmitFailure, TypeOK, Holding, durable
<1>19. CASE CommitBatch
  <2>1. /\ data' \in [Domains -> 0..MaxRuns] /\ page' \in [Domains -> 0..MaxRuns]
        /\ error' \in [Domains -> BOOLEAN] /\ flags' \in [Domains -> SUBSET FlagSet]
        /\ unrendered' \subseteq Domains
    <3> DEFINE ops == Head(exec).ops
    <3>1. Apply(ops) /\ runs \in 0..MaxRuns /\ 0 \in 0..MaxRuns
      BY <1>19 DEF CommitBatch, TypeOK
    <3>2. data' \in [Domains -> 0..MaxRuns]
      BY <3>1 DEF Apply, TypeOK
    <3>3. page' \in [Domains -> 0..MaxRuns]
      BY <3>1 DEF Apply, TypeOK
    <3>4. error' \in [Domains -> BOOLEAN]
      <4>1. \A d \in Domains : LastIsResult(ops, d) \in BOOLEAN
        BY DEF LastIsResult
      <4>2. \A d \in Domains : (IF d \notin OpDomains(ops) THEN error[d]
                                ELSE ~LastIsResult(ops, d)) \in BOOLEAN
        BY <4>1 DEF TypeOK
      <4>3. error' = [d \in Domains |-> IF d \notin OpDomains(ops) THEN error[d]
                                        ELSE ~LastIsResult(ops, d)]
        BY <3>1 DEF Apply
      <4>4. QED
        BY <4>2, <4>3, Zenon
    <3>5. flags' \in [Domains -> SUBSET FlagSet]
      BY <3>1 DEF Apply, TypeOK
    <3>6. unrendered' \subseteq Domains
      <4>1. OpDomains(ops) \subseteq Domains
        <5>1. Head(exec) \in Batch
          BY <1>19 DEF CommitBatch, TypeOK
        <5>2. ops \in Seq(Op)
          BY <5>1 DEF Batch
        <5> HIDE DEF ops
        <5>3. \A i \in DOMAIN ops : ops[i] \in Op
          BY <5>2
        <5>4. QED
          BY <5>3 DEF OpDomains, Op
      <4>2. QED
        BY <3>1, <4>1 DEF Apply, TypeOK
    <3>7. QED
      BY <3>2, <3>3, <3>4, <3>5, <3>6
  <2>2. Head(exec) \in Batch /\ exec' \in Seq(Batch)
    BY <1>19 DEF CommitBatch, TypeOK
  <2>3. /\ phase' \in Phases /\ pc' \in [Workers -> Places]
        /\ item' \in [Workers -> Domains \cup {NoItem}] /\ HoldersHold'
    <3> DEFINE o == Head(exec).owner
    <3>1. Succeeds(o)
      BY <1>19 DEF CommitBatch
    <3>2. CASE o = "main"
      BY <3>1, <3>2 DEF Succeeds, TypeOK, HoldersHold, Phases
    <3>3. CASE o # "main"
      <4>1. /\ o \in Workers /\ phase' = phase
            /\ pc' = [pc EXCEPT ![o] = "get"] /\ item' = [item EXCEPT ![o] = NoItem]
        BY <2>2, <3>1, <3>3 DEF Succeeds, Batch, Goto
      <4>2. HoldersHold'
        BY <4>1 DEF TypeOK, HoldersHold, Holding
      <4>3. QED
        BY <4>1, <4>2 DEF TypeOK, Places
    <3>4. QED
      BY <3>2, <3>3
  <2>4. QED
    BY <1>19, <2>1, <2>2, <2>3 DEF CommitBatch, TypeOK
<1>20. CASE RollbackWorker
  <2>1. Head(exec) \in Batch /\ exec' \in Seq(Batch)
    BY <1>20 DEF RollbackWorker, TypeOK
  <2>2. OpDomains(Head(exec).ops) \subseteq Domains
    <3> DEFINE ops == Head(exec).ops
    <3>1. ops \in Seq(Op)
      BY <2>1 DEF Batch
    <3> HIDE DEF ops
    <3>2. \A i \in DOMAIN ops : ops[i] \in Op
      BY <3>1
    <3>3. \A i \in DOMAIN ops : ops[i].domain \in Domains
      BY <3>2 DEF Op
    <3>4. OpDomains(ops) \subseteq Domains
      BY <3>3 DEF OpDomains
    <3>5. QED
      BY <3>4 DEF ops
  <2>3. pc' \in [Workers -> Places] /\ HoldersHold'
    <3> DEFINE o == Head(exec).owner
    <3>1. o \in Workers
      BY <1>20, <2>1 DEF RollbackWorker, Batch
    <3>2. pc' = [pc EXCEPT ![o] = IF pc[o] = "write" THEN "except" ELSE "dead"]
      BY <1>20 DEF RollbackWorker, Goto
    <3>3. item' = item
      BY <1>20 DEF RollbackWorker
    <3>4. QED
      BY <3>1, <3>2, <3>3 DEF TypeOK, HoldersHold, Holding, Places
  <2>4. faults' \in 0..MaxFaults /\ lost' \subseteq Domains
    BY <1>20, <2>2 DEF RollbackWorker, TypeOK
  <2>5. UNCHANGED <<durable, phase, force, toAdd, resetAt, scope, todo, pills,
                    queue, item, buf, runs, crashes, errors>>
    BY <1>20 DEF RollbackWorker
  <2>6. QED
    BY <2>1, <2>3, <2>4, <2>5 DEF TypeOK, durable
<1>21. CASE RollbackMain
  <2>1. faults' \in 0..MaxFaults
    BY <1>21 DEF RollbackMain, TypeOK
  <2>2. QED
    BY <1>21, <2>1, EndsTypeInv DEF RollbackMain, TypeOK
<1>22. CASE UNCHANGED vars
  <2>1. TypeOK'
    BY <1>22 DEF vars, TypeOK
  <2>2. HoldersHold'
    BY <1>22 DEF vars, HoldersHold
  <2>3. QED
    BY <2>1, <2>2
<1>23. CASE Main
  BY <1>2, <1>3, <1>4, <1>5, <1>6, <1>7, <1>8, <1>9, <1>10, <1>23 DEF Main
<1>24. ASSUME NEW w \in Workers, Worker(w)
       PROVE  TypeInv'
  BY <1>12, <1>13, <1>14, <1>15, <1>17, <1>18, <1>24 DEF Worker
<1>25. CASE Writer
  BY <1>19, <1>20, <1>21, <1>25 DEF Writer
<1> HIDE DEF TypeInv
<1>26. QED
  BY <1>1, <1>11, <1>22, <1>23, <1>24, <1>25 DEF Next, StartSome, Rest

(* The initial state is well typed.                                        *)
LEMMA InitTypeInv == Init => TypeInv
<1> SUFFICES ASSUME Init PROVE TypeInv
  OBVIOUS
<1>1. /\ pc \in [Workers -> Places]
      /\ item \in [Workers -> Domains \cup {NoItem}] /\ HoldersHold
  BY DEF Init, NoProcess, HoldersHold, Holding, Places
<1>2. /\ phase \in Phases /\ force \in SUBSET STRING /\ toAdd \subseteq Domains
      /\ resetAt \in 1..(Len(OnlineFlags) + 1) /\ pills \in 0..Cardinality(Workers)
      /\ scope \subseteq known /\ todo \subseteq scope /\ lost \subseteq Domains
  BY ConstantFacts DEF Init, NoProcess, Phases
<1>3. /\ known \subseteq Domains /\ normalized \in BOOLEAN
      /\ flags \in [Domains -> SUBSET FlagSet] /\ error \in [Domains -> BOOLEAN]
      /\ unrendered \subseteq Domains
  BY DEF Init
<1>4. /\ data \in [Domains -> 0..MaxRuns] /\ page \in [Domains -> 0..MaxRuns]
      /\ dossier \in [Domains -> 0..MaxRuns]
      /\ runs \in 0..MaxRuns /\ crashes \in 0..MaxCrashes
      /\ errors \in 0..MaxErrors /\ faults \in 0..MaxFaults
  BY ConstantFacts DEF Init
<1>5. /\ queue \in Seq(Domains \cup {NoItem})
      /\ buf \in Seq(Op) /\ exec \in Seq(Batch)
  BY DEF Init, NoProcess
<1>6. QED
  BY <1>1, <1>2, <1>3, <1>4, <1>5 DEF TypeInv, TypeOK

(* The state of every run stays within its types, whatever the number of   *)
(* domains, workers, runs and failures (run_online's variables and rows).  *)
THEOREM TypeCorrect == Spec => []TypeOK
<1>1. TypeInv => TypeOK
  BY DEF TypeInv
<1>2. QED
  BY <1>1, InitTypeInv, NextTypeInv, PTL DEF Spec
-----------------------------------------------------------------------------
(* The end of the process forgets everything DossierFirst is about.        *)
LEMMA EndsIInv ==
  ASSUME TypeInv, Ends, UNCHANGED durable, FlaggedIsFinished
  PROVE  (StartedOnce /\ DossierFirst /\ FlaggedIsFinished)'
<1>1. StartedOnce'
  BY DEF StartedOnce, Ends
<1>2. DossierFirst'
  BY DEF DossierFirst, Backed, Ends
<1>3. FlaggedIsFinished'
  BY DEF FlaggedIsFinished, Flagged, durable
<1>4. QED
  BY <1>1, <1>2, <1>3

(* A batch is backed by dossiers when its last operation is and the ones   *)
(* before it are.                                                          *)
LEMMA BackedAppend ==
  ASSUME NEW ops \in Seq(Op), NEW op \in Op, Backed(ops),
         op.kind = "result" => dossier[op.domain] # 0
  PROVE  Backed(Append(ops, op))
<1>1. \A i \in DOMAIN Append(ops, op) :
        IF i = Len(ops) + 1 THEN Append(ops, op)[i] = op
        ELSE i \in DOMAIN ops /\ Append(ops, op)[i] = ops[i]
  OBVIOUS
<1>2. QED
  BY <1>1 DEF Backed

(* The batches stay backed when one that is backed joins them.             *)
LEMMA AllBackedAppend ==
  ASSUME NEW batches \in Seq(Batch), NEW b \in Batch, Backed(b.ops),
         \A i \in DOMAIN batches : Backed(batches[i].ops)
  PROVE  \A i \in DOMAIN Append(batches, b) : Backed(Append(batches, b)[i].ops)
<1>1. \A i \in DOMAIN Append(batches, b) :
        IF i = Len(batches) + 1 THEN Append(batches, b)[i] = b
        ELSE i \in DOMAIN batches /\ Append(batches, b)[i] = batches[i]
  OBVIOUS
<1>2. QED
  BY <1>1

(* Each step keeps the dossier ahead of the row.                           *)
LEMMA NextIInv == IInv /\ [Next]_vars => IInv'
<1> SUFFICES ASSUME IInv, [Next]_vars PROVE IInv'
  OBVIOUS
<1> USE ConstantFacts DEF IInv
<1>1. TypeInv'
  BY NextTypeInv
<1> DEFINE Ahead == StartedOnce /\ DossierFirst /\ FlaggedIsFinished
<1> SUFFICES Ahead'
  BY <1>1
<1>2. ASSUME NEW inp \in InputChoices, NEW f \in ForceChoices, Start(inp, f)
      PROVE  Ahead'
  BY <1>2 DEF Start, durable, poolVars, StartedOnce, DossierFirst, Backed,
     FlaggedIsFinished, Flagged, TypeInv, TypeOK
<1>3. CASE NormalizeChunk
  BY <1>3 DEF NormalizeChunk, rowVars, poolVars, StartedOnce, DossierFirst,
     Backed, FlaggedIsFinished, Flagged
<1>4. CASE MarkNormalized
  BY <1>4 DEF MarkNormalized, rowVars, poolVars, StartedOnce, DossierFirst,
     Backed, FlaggedIsFinished, Flagged
<1>5. CASE ResetFlag
  <2>1. \A d \in Domains : flags'[d] \subseteq flags[d]
    BY <1>5 DEF ResetFlag
  <2>2. FlaggedIsFinished'
    BY <1>5, <2>1 DEF ResetFlag, FlaggedIsFinished, Flagged
  <2>3. QED
    BY <1>5, <2>2 DEF ResetFlag, poolVars, StartedOnce, DossierFirst, Backed
<1>6. CASE LoadPending
  BY <1>6 DEF LoadPending, durable, StartedOnce, DossierFirst, Backed,
     FlaggedIsFinished, Flagged
<1>7. CASE PutItem
  BY <1>7 DEF PutItem, durable, StartedOnce, DossierFirst, Backed,
     FlaggedIsFinished, Flagged
<1>8. CASE PutSentinel
  BY <1>8 DEF PutSentinel, durable, StartedOnce, DossierFirst, Backed,
     FlaggedIsFinished, Flagged
<1>9. CASE GatherAndFlush
  <2> DEFINE b == [owner |-> "main", ops |-> buf]
  <2>1. b \in Batch /\ Backed(b.ops) /\ exec \in Seq(Batch)
    BY DEF TypeInv, TypeOK, Batch, DossierFirst
  <2>2. \A i \in DOMAIN exec : Backed(exec[i].ops)
    BY DEF DossierFirst
  <2>3. \A i \in DOMAIN Append(exec, b) : Backed(Append(exec, b)[i].ops)
    BY <2>1, <2>2, AllBackedAppend
  <2>4. exec' = exec \/ exec' = Append(exec, b)
    BY <1>9 DEF GatherAndFlush
  <2>5. \A i \in DOMAIN exec' : Backed(exec'[i].ops)
    BY <2>2, <2>3, <2>4
  <2>6. dossier' = dossier /\ buf' = <<>> /\ pc' = pc /\ item' = item
    BY <1>9 DEF GatherAndFlush, durable, poolVars
  <2>7. DossierFirst'
    BY <2>5, <2>6 DEF DossierFirst, Backed
  <2>8. QED
    BY <1>9, <2>7 DEF GatherAndFlush, Gathering, durable, poolVars, StartedOnce,
       FlaggedIsFinished, Flagged
<1>10. CASE GatherRaises
  BY <1>10, EndsIInv DEF GatherRaises
<1>11. CASE Finish
  BY <1>11, EndsIInv DEF Finish
<1>12. CASE Crash
  BY <1>12, EndsIInv DEF Crash
<1>13. ASSUME NEW w \in Workers, Get(w)
       PROVE  Ahead'
  BY <1>13 DEF Get, Goto, durable, StartedOnce, DossierFirst, Backed,
     FlaggedIsFinished, Flagged, TypeInv, TypeOK
<1>14. ASSUME NEW w \in Workers, Process(w)
       PROVE  Ahead'
  BY <1>14 DEF Process, Goto, durable, StartedOnce, DossierFirst, Backed,
     FlaggedIsFinished, Flagged, TypeInv, TypeOK
<1>15. ASSUME NEW w \in Workers, WriteDossier(w)
       PROVE  Ahead'
  <2>1. runs # 0 /\ item[w] \in Domains
    BY <1>15 DEF WriteDossier, StartedOnce, TypeInv, HoldersHold, Holding
  <2>2. \A d \in Domains : dossier[d] # 0 => dossier'[d] # 0
    BY <1>15, <2>1 DEF WriteDossier, TypeInv, TypeOK
  <2>3. dossier'[item[w]] # 0
    BY <1>15, <2>1 DEF WriteDossier, TypeInv, TypeOK
  <2>4. \A v \in Workers : pc'[v] = "submit" => dossier'[item'[v]] # 0
    BY <1>15, <2>2, <2>3 DEF WriteDossier, Goto, DossierFirst, TypeInv, TypeOK,
       HoldersHold, Holding
  <2>5. ASSUME NEW ops \in Seq(Op), Backed(ops)
        PROVE  \A i \in DOMAIN ops :
                 ops[i].kind = "result" => dossier'[ops[i].domain] # 0
    <3>1. \A i \in DOMAIN ops : ops[i] \in Op
      BY <2>5
    <3>2. QED
      BY <2>2, <2>5, <3>1 DEF Backed, Op
  <2>6. DossierFirst'
    <3>1. buf' = buf /\ exec' = exec /\ buf \in Seq(Op)
      BY <1>15 DEF WriteDossier, TypeInv, TypeOK
    <3>2. \A i \in DOMAIN exec : exec[i].ops \in Seq(Op)
      <4>1. exec \in Seq(Batch)
        BY DEF TypeInv, TypeOK
      <4>2. \A i \in DOMAIN exec : exec[i] \in Batch
        BY <4>1
      <4>3. QED
        BY <4>2 DEF Batch
    <3>3. QED
      BY <2>4, <2>5, <3>1, <3>2 DEF DossierFirst, Backed
  <2>7. FlaggedIsFinished'
    BY <1>15, <2>2 DEF WriteDossier, rowVars, FlaggedIsFinished, Flagged
  <2>8. StartedOnce'
    BY <1>15 DEF WriteDossier, Goto, StartedOnce, TypeInv, TypeOK
  <2>9. QED
    BY <2>6, <2>7, <2>8
<1>16. ASSUME NEW w \in Workers, Raises(w)
       PROVE  Ahead'
  BY <1>16 DEF Raises, Goto, durable, StartedOnce, DossierFirst, Backed,
     FlaggedIsFinished, Flagged, TypeInv, TypeOK
<1>17. ASSUME NEW w \in Workers, NEW kind \in {"result", "failure"},
              NEW waiting \in {"write", "failwrite"},
              pc[w] \in Holding, kind = "result" => pc[w] = "submit",
              SubmitOp(w, kind, waiting), UNCHANGED <<durable, phase, runs>>
       PROVE  Ahead'
  <2> DEFINE op == [domain |-> item[w], kind |-> kind]
             b  == [owner |-> w, ops |-> Append(buf, op)]
  <2>1. op \in Op /\ (op.kind = "result" => dossier[op.domain] # 0)
    BY <1>17 DEF TypeInv, HoldersHold, Op, DossierFirst
  <2>2. buf \in Seq(Op) /\ exec \in Seq(Batch)
    BY DEF TypeInv, TypeOK
  <2>3. Backed(Append(buf, op))
    BY <2>1, <2>2, BackedAppend DEF DossierFirst
  <2>4. Append(buf, op) \in Seq(Op)
    BY <2>1, <2>2
  <2>5. b \in Batch /\ b.ops = Append(buf, op)
    BY <2>4 DEF Batch
  <2>6. \A i \in DOMAIN Append(exec, b) : Backed(Append(exec, b)[i].ops)
    <3> HIDE DEF b
    <3>1. Backed(b.ops)
      BY <2>3, <2>5
    <3>2. QED
      BY <2>2, <2>5, <3>1, AllBackedAppend DEF DossierFirst
  <2>7. /\ exec' = exec \/ exec' = Append(exec, b)
        /\ buf' = <<>> \/ buf' = Append(buf, op)
        /\ dossier' = dossier
    BY <1>17 DEF SubmitOp, durable
  <2>8. Backed(<<>>)
    BY DEF Backed
  <2>9. Backed(buf')
    BY <2>3, <2>7, <2>8
  <2>10. \A i \in DOMAIN exec' : Backed(exec'[i].ops)
    BY <2>6, <2>7 DEF DossierFirst
  <2>11. \A v \in Workers : pc'[v] = "submit" => dossier'[item'[v]] # 0
    BY <1>17, <2>7 DEF SubmitOp, Goto, DossierFirst, TypeInv, TypeOK
  <2>12. DossierFirst'
    BY <2>7, <2>9, <2>10, <2>11 DEF DossierFirst, Backed
  <2>13. StartedOnce'
    BY <1>17 DEF SubmitOp, Goto, StartedOnce, Holding, TypeInv, TypeOK
  <2>14. FlaggedIsFinished'
    BY <1>17 DEF durable, FlaggedIsFinished, Flagged
  <2>15. QED
    BY <2>12, <2>13, <2>14
<1>18. ASSUME NEW w \in Workers, Submit(w)
       PROVE  Ahead'
  BY <1>17, <1>18 DEF Submit, Holding
<1>19. ASSUME NEW w \in Workers, SubmitFailure(w)
       PROVE  Ahead'
  BY <1>17, <1>19 DEF SubmitFailure, Holding
<1>20. ASSUME exec # <<>>, exec' = Tail(exec), UNCHANGED <<dossier, buf>>,
              \A v \in Workers : pc'[v] = "submit" => pc[v] = "submit" /\ item'[v] = item[v]
       PROVE  DossierFirst'
  <2>1. \A i \in DOMAIN Tail(exec) :
          i + 1 \in DOMAIN exec /\ Tail(exec)[i] = exec[i + 1]
    BY <1>20 DEF TypeInv, TypeOK
  <2>2. \A i \in DOMAIN exec' : Backed(exec'[i].ops)
    BY <1>20, <2>1 DEF DossierFirst
  <2>3. QED
    BY <1>20, <2>2 DEF DossierFirst, Backed
<1>21. CASE CommitBatch
  <2> DEFINE ops == Head(exec).ops
             o == Head(exec).owner
  <2>1. Head(exec) = exec[1] /\ 1 \in DOMAIN exec /\ exec[1] \in Batch
    BY <1>21 DEF CommitBatch, TypeInv, TypeOK
  <2>2. Backed(ops) /\ ops \in Seq(Op) /\ o \in Workers \cup {"main"}
    BY <2>1 DEF DossierFirst, Batch
  <2>3. DossierFirst'
    <3>1. \A v \in Workers : pc'[v] = "submit" => pc[v] = "submit" /\ item'[v] = item[v]
      BY <1>21, <2>2 DEF CommitBatch, Succeeds, Goto, TypeInv, TypeOK
    <3>2. QED
      BY <1>20, <1>21, <3>1 DEF CommitBatch
  <2>4. StartedOnce'
    <3>1. phase # "idle" /\ runs # 0 /\ runs' = runs
      BY <1>21 DEF CommitBatch, StartedOnce
    <3>2. phase' # "idle"
      BY <1>21, <3>1 DEF CommitBatch, Succeeds
    <3>3. QED
      BY <3>1, <3>2 DEF StartedOnce
  <2>5. FlaggedIsFinished'
    <3> SUFFICES ASSUME NEW d \in Domains, Flagged(d)', ~error'[d]
                 PROVE  dossier'[d] # 0
      BY DEF FlaggedIsFinished
    <3> HIDE DEF ops
    <3>1. Apply(ops) /\ dossier' = dossier
      BY <1>21 DEF CommitBatch, ops
    <3>2. CASE d \in OpDomains(ops)
      <4>1. error'[d] = ~LastIsResult(ops, d)
        BY <3>1, <3>2 DEF Apply
      <4>2. PICK i \in DOMAIN ops : ops[i] = [domain |-> d, kind |-> "result"]
        BY <4>1 DEF LastIsResult
      <4>3. QED
        BY <2>2, <3>1, <4>2 DEF Backed
    <3>3. CASE d \notin OpDomains(ops)
      <4>1. flags'[d] = flags[d] /\ error'[d] = error[d]
        BY <3>1, <3>3 DEF Apply
      <4>2. QED
        BY <3>1, <4>1 DEF FlaggedIsFinished, Flagged
    <3>4. QED
      BY <3>2, <3>3
  <2>6. QED
    BY <2>3, <2>4, <2>5
<1>22. CASE RollbackWorker
  <2>1. Head(exec).owner \in Workers
    <3>1. Head(exec) \in Batch
      BY <1>22 DEF RollbackWorker, TypeInv, TypeOK
    <3>2. QED
      BY <1>22, <3>1 DEF RollbackWorker, Batch
  <2>2. \A v \in Workers : pc'[v] = "submit" => pc[v] = "submit" /\ item'[v] = item[v]
    BY <1>22, <2>1 DEF RollbackWorker, Goto, TypeInv, TypeOK
  <2>3. DossierFirst'
    BY <1>20, <1>22, <2>2 DEF RollbackWorker, durable
  <2>4. StartedOnce'
    BY <1>22 DEF RollbackWorker, StartedOnce
  <2>5. FlaggedIsFinished'
    BY <1>22 DEF RollbackWorker, durable, FlaggedIsFinished, Flagged
  <2>6. QED
    BY <2>3, <2>4, <2>5
<1>23. CASE RollbackMain
  BY <1>23, EndsIInv DEF RollbackMain
<1>24. CASE UNCHANGED vars
  BY <1>24 DEF vars, StartedOnce, DossierFirst, Backed, FlaggedIsFinished, Flagged
<1>25. QED
  BY <1>2, <1>3, <1>4, <1>5, <1>6, <1>7, <1>8, <1>9, <1>10, <1>11, <1>12, <1>13,
     <1>14, <1>15, <1>16, <1>18, <1>19, <1>21, <1>22, <1>23, <1>24
  DEF Next, StartSome, Main, Worker, Writer, Rest

(* The initial state satisfies the inductive invariant.                    *)
LEMMA InitIInv == Init => IInv
<1> SUFFICES ASSUME Init PROVE IInv
  OBVIOUS
<1>1. TypeInv
  BY InitTypeInv
<1>2. StartedOnce /\ DossierFirst
  BY DEF Init, NoProcess, StartedOnce, DossierFirst, Backed
<1>3. FlaggedIsFinished
  BY DEF Init, FlaggedIsFinished, Flagged
<1>4. QED
  BY <1>1, <1>2, <1>3 DEF IInv

(* A row whose s_render is set has a dossier on disk or an error, whatever *)
(* was killed, rolled back or forced before (runner.py, ONLINE_FLAGS).     *)
THEOREM FlaggedIsFinishedAlways == Spec => []FlaggedIsFinished
<1>1. IInv => FlaggedIsFinished
  BY DEF IInv
<1>2. QED
  BY <1>1, InitIInv, NextIInv, PTL DEF Spec
=============================================================================
