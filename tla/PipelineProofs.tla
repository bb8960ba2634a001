--------------------------- MODULE PipelineProofs ---------------------------
(***************************************************************************)
(* Proofs about Pipeline, for any files, scripts and number of kills: its  *)
(* types, that committed values stay, that geolocation belongs to the      *)
(* addresses a row shows, and that a script which gives the same files     *)
(* throughout ends, wherever it was killed, with the table these files     *)
(* determine, which is the row that lookup_domain shows.                   *)
(***************************************************************************)
EXTENDS Pipeline, WellFoundedInduction, TLAPS

(* The tables are over the domains; a row differs from the committed one   *)
(* only when the transaction under way has joined it, and then it is an    *)
(* improvement on it: each row is joined once per transaction.             *)
Tables == DOMAIN rows = Domains /\ DOMAIN disk.rows = Domains

Kept(c, old, new) ==
  old # Null => new = old \/ (c = "rank" /\ new < old)

Transaction ==
  /\ \A d \in Domains : d \in left \/ step # "work" => rows[d] = disk.rows[d]
  /\ \A d \in Domains, c \in Columns : Kept(c, disk.rows[d][c], rows[d][c])

(* Where in a command the joins are.                                       *)
Place ==
  /\ phase # "idle" => line <= Len(script)
  /\ step \in {"work", "flags"} => phase = "stages" /\ stage <= Len(StageOrder)
  /\ step = "work" =>
       /\ unread # <<>>
       /\ Range(unread) \subseteq Range(Given)

(* The addresses of a row are a list ...                                   *)
IsIndexed(q) == DOMAIN q \in SUBSET Nat
Indexed(row) == row.ips # Null => IsIndexed(row.ips)

(* ... and its geolocation is one that a file has for them.                *)
Fits(row) ==
  row.geo # Null =>
    /\ row.ips # Null
    /\ \E f \in DOMAIN Content :
         LET offer == FirstHit(f, row.ips)
         IN "geo" \in DOMAIN offer /\ offer.geo = row.geo

Located ==
  /\ \A d \in Domains : /\ Indexed(rows[d]) /\ Indexed(disk.rows[d])
                       /\ Fits(rows[d]) /\ Fits(disk.rows[d])
  /\ step = "work" => \A d \in left : HasKey(Stage, rows[d])

IInv == TypeOK /\ Tables /\ Transaction /\ Place /\ Located
-----------------------------------------------------------------------------
LEMMA NatHasLeast ==
  ASSUME NEW T \in SUBSET Nat, T # {}
  PROVE  \E x \in T : \A y \in T : x <= y
<1>1. PICK x \in T : \A y \in T : <<y, x>> \notin OpToRel(<, Nat)
  BY NatLessThanWellFounded, WFMin
<1>2. \A y \in T : ~(y < x)
  BY <1>1 DEF OpToRel
<1>3. QED
  BY <1>2

LEMMA NatHasGreatest ==
  ASSUME NEW N \in Nat, NEW T \in SUBSET (0..N), T # {}
  PROVE  \E x \in T : \A y \in T : y <= x
<1> DEFINE U == {N - y : y \in T}
<1>1. U \in SUBSET Nat /\ U # {}
  <2>1. \A y \in T : y \in 0..N
    OBVIOUS
  <2>2. \A y \in T : N - y \in Nat
    BY <2>1
  <2>3. QED
    BY <2>2
<1>2. PICK u \in U : \A v \in U : u <= v
  <2> HIDE DEF U
  <2>1. QED
    BY <1>1, NatHasLeast
<1>3. PICK x \in T : u = N - x
  BY <1>2
<1>4. ASSUME NEW y \in T PROVE y <= x
  <2>1. y \in 0..N /\ x \in 0..N /\ N - y \in U
    OBVIOUS
  <2> HIDE DEF U
  <2>2. N - x <= N - y
    BY <1>2, <1>3, <2>1
  <2>3. QED
    BY <2>1, <2>2
<1>5. QED
  BY <1>4

(* Existing unfolded: by a least counterexample to its function's being    *)
(* there.                                                                  *)
LEMMA ExistingUnfolds ==
  ASSUME NEW files, NEW T, files \in Seq(T)
  PROVE  \E g : /\ Existing(files) = g[Len(files)]
               /\ g[0] = <<>>
               /\ \A n \in 1..Len(files) :
                    g[n] = IF files[n] \in DOMAIN Content THEN Append(g[n - 1], files[n])
                           ELSE g[n - 1]
<1> DEFINE N == Len(files)
           next(q, n) == IF files[n] \in DOMAIN Content THEN Append(q, files[n]) ELSE q
           Eq(f, m) == f = [n \in 0..m |-> IF n = 0 THEN <<>> ELSE next(f[n - 1], n)]
           Bad == {m \in 0..N : ~ \E f : Eq(f, m)}
           among[n \in 0..Len(files)] ==
             IF n = 0 THEN <<>>
             ELSE IF files[n] \in DOMAIN Content THEN Append(among[n - 1], files[n])
             ELSE among[n - 1]
<1>1. N \in Nat /\ \A n \in 1..N : files[n] \in T
  OBVIOUS
<1> HIDE DEF Eq
<1>2. \E f : Eq(f, N)
  <2>1. SUFFICES ASSUME Bad # {} PROVE FALSE
    BY <1>1
  <2>2. PICK m \in Bad : \A k \in Bad : m <= k
    <3>1. Bad \in SUBSET Nat
      BY <1>1
    <3>2. QED
      BY <3>1, <2>1, NatHasLeast
  <2>3. Eq([n \in 0..0 |-> <<>>], 0)
    BY DEF Eq
  <2>4. m # 0
    BY <2>2, <2>3
  <2>5. m \in 1..N /\ m - 1 \in 0..N /\ m - 1 \notin Bad
    BY <1>1, <2>2, <2>4
  <2>6. PICK f : Eq(f, m - 1)
    BY <2>5
  <2> DEFINE g == [n \in 0..m |-> IF n \in 0..(m-1) THEN f[n] ELSE next(f[m - 1], m)]
  <2>7. \A n \in 0..m : n # 0 => g[n - 1] = f[n - 1]
    BY <2>5
  <2>8. \A n \in 0..m : g[n] = IF n = 0 THEN <<>> ELSE next(g[n - 1], n)
    <3> SUFFICES ASSUME NEW n \in 0..m
                 PROVE  g[n] = IF n = 0 THEN <<>> ELSE next(g[n - 1], n)
      OBVIOUS
    <3>1. CASE n = m
      <4>1. g[n] = next(f[m - 1], m)
        BY <3>1, <2>5
      <4>2. QED
        BY <4>1, <2>7, <3>1, <2>4
    <3>2. CASE n # m
      <4>1. n \in 0..(m-1)
        BY <3>2, <2>5
      <4>2. g[n] = f[n]
        BY <4>1
      <4>3. f[n] = IF n = 0 THEN <<>> ELSE next(f[n - 1], n)
        BY <4>1, <2>6 DEF Eq
      <4>4. QED
        BY <4>2, <4>3, <2>7
    <3>3. QED
      BY <3>1, <3>2
  <2>9. Eq(g, m)
    BY <2>8 DEF Eq
  <2>10. QED
    BY <2>9, <2>2
<1>3. among = [n \in 0..N |-> IF n = 0 THEN <<>> ELSE next(among[n - 1], n)]
  BY <1>2 DEF Eq
<1>4. Existing(files) = among[N]
  BY DEF Existing, among
<1> HIDE DEF among
<1>5. among[0] = <<>>
  <2>1. 0 \in 0..N /\ among[0] = IF 0 = 0 THEN <<>> ELSE next(among[0 - 1], 0)
    BY <1>1, <1>3
  <2>2. QED
    BY <2>1
<1>6. ASSUME NEW n \in 1..N PROVE among[n] = next(among[n - 1], n)
  <2>1. n \in 0..N /\ n # 0
    BY <1>1
  <2>2. QED
    BY <1>3, <2>1
<1>7. QED
  BY <1>4, <1>5, <1>6

(* The files that exist are a list of some of those given ...              *)
LEMMA ExistingIsSome ==
  ASSUME NEW files, NEW T, files \in Seq(T)
  PROVE  Existing(files) \in Seq(T \cap DOMAIN Content)
<1> DEFINE N == Len(files)
           S == T \cap DOMAIN Content
<1>1. N \in Nat /\ \A n \in 1..N : files[n] \in T
  OBVIOUS
<1>2. PICK g : /\ Existing(files) = g[N]
               /\ g[0] = <<>>
               /\ \A n \in 1..N :
                    g[n] = IF files[n] \in DOMAIN Content THEN Append(g[n - 1], files[n])
                           ELSE g[n - 1]
  BY ExistingUnfolds
<1> DEFINE Odd == {n \in 0..N : g[n] \notin Seq(S)}
<1>3. Odd = {}
  <2>1. SUFFICES ASSUME Odd # {} PROVE FALSE
    OBVIOUS
  <2>2. PICK m \in Odd : \A k \in Odd : m <= k
    <3>1. Odd \in SUBSET Nat
      BY <1>1
    <3>2. QED
      BY <3>1, <2>1, NatHasLeast
  <2>3. m # 0
    <3>1. <<>> \in Seq(S)
      OBVIOUS
    <3>2. QED
      BY <1>2, <2>2, <3>1
  <2>4. m \in 1..N /\ m - 1 \in 0..N /\ m - 1 \notin Odd
    BY <1>1, <2>2, <2>3
  <2>5. g[m - 1] \in Seq(S)
    BY <2>4
  <2>6. CASE files[m] \in DOMAIN Content
    <3>1. files[m] \in S
      BY <2>6, <2>4, <1>1
    <3>2. Append(g[m - 1], files[m]) \in Seq(S)
      BY <3>1, <2>5
    <3>3. g[m] = Append(g[m - 1], files[m])
      BY <1>2, <2>4, <2>6
    <3>4. QED
      BY <3>2, <3>3, <2>2
  <2>7. CASE files[m] \notin DOMAIN Content
    BY <1>2, <2>4, <2>5, <2>7, <2>2
  <2>8. QED
    BY <2>6, <2>7
<1>4. QED
  BY <1>1, <1>2, <1>3

(* ... and all of them when all are there.                                 *)
LEMMA ExistingIsAll ==
  ASSUME NEW files, NEW T, files \in Seq(T),
         \A n \in 1..Len(files) : files[n] \in DOMAIN Content
  PROVE  Existing(files) = files
<1> DEFINE N == Len(files)
<1>1. N \in Nat
  OBVIOUS
<1>2. PICK g : /\ Existing(files) = g[N]
               /\ g[0] = <<>>
               /\ \A n \in 1..N : g[n] = Append(g[n - 1], files[n])
  BY ExistingUnfolds
<1> DEFINE Odd == {n \in 0..N : g[n] # SubSeq(files, 1, n)}
<1>3. Odd = {}
  <2>1. SUFFICES ASSUME Odd # {} PROVE FALSE
    OBVIOUS
  <2>2. PICK m \in Odd : \A k \in Odd : m <= k
    <3>1. Odd \in SUBSET Nat
      BY <1>1
    <3>2. QED
      BY <3>1, <2>1, NatHasLeast
  <2>3. m # 0
    <3>1. SubSeq(files, 1, 0) = <<>>
      OBVIOUS
    <3>2. QED
      BY <1>2, <2>2, <3>1
  <2>4. m \in 1..N /\ m - 1 \in 0..N /\ m - 1 \notin Odd
    BY <1>1, <2>2, <2>3
  <2>5. g[m] = Append(SubSeq(files, 1, m - 1), files[m])
    BY <1>2, <2>4
  <2>6. Append(SubSeq(files, 1, m - 1), files[m]) = SubSeq(files, 1, m)
    BY <2>4
  <2>7. QED
    BY <2>2, <2>5, <2>6
<1>4. g[N] = SubSeq(files, 1, N)
  BY <1>1, <1>3
<1>5. SubSeq(files, 1, N) = files
  OBVIOUS
<1>6. QED
  BY <1>2, <1>4, <1>5

LEMMA StagesAre ==
  /\ Len(StageOrder) = 12
  /\ \A i \in 1..12 : StageOrder[i] \in Stages
<1>1. Len(StageOrder) = 12 /\ DOMAIN StageOrder = 1..12
  BY DEF StageOrder
<1>2. QED
  BY <1>1 DEF Stages

(* A command under way is one of the script's, and its files are a list.   *)
LEMMA CommandIs ==
  ASSUME TypeOK, line <= Len(script)
  PROVE  /\ line \in 1..Len(script)
         /\ line + 1 \in 1..(Len(script) + 1)
         /\ cmd.input \subseteq Domains
         /\ \A st \in Stages : IsList(cmd.files[st])
<1>1. script \in Scripts /\ line \in 1..(Len(script) + 1)
  BY DEF TypeOK
<1>2. Len(script) \in Nat /\ DOMAIN script = 1..Len(script)
  BY <1>1, PipelineAssumption DEF IsList
<1>3. line \in 1..Len(script) /\ line + 1 \in 1..(Len(script) + 1)
  BY <1>1, <1>2
<1>4. QED
  BY <1>1, <1>2, <1>3, PipelineAssumption DEF cmd

LEMMA InStageIs ==
  ASSUME TypeOK, Place, NEW at, InStage(at)
  PROVE  /\ stage \in 1..12 /\ stage + 1 \in 1..(Len(StageOrder) + 1)
         /\ Stage \in Stages
         /\ line \in 1..Len(script)
         /\ Found \in Seq(Range(Given) \cap DOMAIN Content)
<1>1. phase = "stages" /\ stage <= 12 /\ stage \in 1..13 /\ line <= Len(script)
  BY StagesAre DEF InStage, TypeOK, Place
<1>2. stage \in 1..12 /\ stage + 1 \in 1..13
  BY <1>1
<1>3. Stage \in Stages
  BY <1>2, StagesAre DEF Stage
<1>4. line \in 1..Len(script) /\ Given \in Seq(Range(Given))
  BY <1>1, <1>3, CommandIs DEF Given, IsList
<1>5. Found \in Seq(Range(Given) \cap DOMAIN Content)
  BY <1>4, ExistingIsSome DEF Found
<1>6. QED
  BY <1>2, <1>3, <1>4, <1>5, StagesAre

LEMMA ScopeIs ==
  /\ Scope \subseteq known
  /\ \A d \in Scope : HasKey(Stage, rows[d])
<1>1. Pending \subseteq known
  BY DEF Pending
<1>2. QED
  BY <1>1 DEF Scope, HasKey

(* Lists of a set of elements are lists of a larger one.                   *)
LEMMA SeqMonotone ==
  ASSUME NEW S, NEW T, S \subseteq T, NEW q \in Seq(S)
  PROVE  q \in Seq(T) /\ Range(q) \subseteq S
<1>1. QED
  BY DEF Range
-----------------------------------------------------------------------------
LEMMA InitIInv == Init => IInv
<1> SUFFICES ASSUME Init PROVE IInv
  OBVIOUS
<1>1. rows = NoRows.rows /\ disk.rows = NoRows.rows
  BY DEF Init
<1>2. /\ DOMAIN NoRows.rows = Domains
      /\ \A d \in Domains : NoRows.rows[d] = NoRow
  BY DEF NoRows
<1>3. DOMAIN NoRow = Columns /\ \A c \in Columns : NoRow[c] = Null
  BY DEF NoRow
<1>4. Tables
  BY <1>1, <1>2 DEF Tables
<1>5. Transaction
  BY <1>1, <1>2, <1>3 DEF Transaction, Kept
<1>6. Place
  BY DEF Place, Init
<1>7. Located
  BY <1>1, <1>2, <1>3 DEF Located, Indexed, Fits, Columns, Init
<1>8. TypeOK
  <2>1. line \in 1..(Len(script) + 1)
    <3>1. Len(script) \in Nat
      BY PipelineAssumption DEF Init, IsList
    <3>2. QED
      BY <3>1 DEF Init
  <2>2. stage \in 1..(Len(StageOrder) + 1)
    BY StagesAre DEF Init
  <2>3. done \in [Domains -> SUBSET Stages] /\ disk.done \in [Domains -> SUBSET Stages]
    BY DEF Init, NoRows
  <2>4. crashes \in 0..MaxCrashes
    BY PipelineAssumption DEF Init
  <2>5. meta \in [Stages \cup {"normalize", "export"} -> {"none", "pending", "running", "done"}]
    BY DEF Init
  <2>6. \A d \in Domains : DOMAIN rows[d] = Columns /\ DOMAIN disk.rows[d] = Columns
    BY <1>1, <1>2, <1>3
  <2>7. known \subseteq Domains /\ toAdd \subseteq Domains /\ left \subseteq known
        /\ unread \in Seq(DOMAIN Content) /\ step \in Steps /\ script \in Scripts
    BY DEF Init, Steps
  <2>8. QED
    BY <2>1, <2>2, <2>3, <2>4, <2>5, <2>6, <2>7 DEF TypeOK, Init
<1>9. QED
  BY <1>4, <1>5, <1>6, <1>7, <1>8 DEF IInv
-----------------------------------------------------------------------------
(* A row joined is a row, and none of its values is lost.                  *)
LEMMA CoalesceKeeps ==
  ASSUME NEW row, NEW offer
  PROVE  /\ DOMAIN Coalesce(row, offer) = Columns
         /\ \A c \in Columns : Kept(c, row[c], Coalesce(row, offer)[c])
BY DEF Coalesce, Kept

LEMMA TypeNext ==
  ASSUME IInv, Next
  PROVE  TypeOK'
<1> USE DEF IInv
<1>1. CASE Start
  <2>1. cmd.input \subseteq Domains
    BY <1>1, CommandIs DEF Start
  <2>2. QED
    BY <1>1, <2>1 DEF Start, TypeOK, MarkStage, table, inStage, user
<1>2. CASE AddChunk
  BY <1>2 DEF AddChunk, TypeOK, table, inStage, user
<1>3. CASE NormalizeDone
  BY <1>3 DEF NormalizeDone, TypeOK, MarkStage, table, inStage, user
<1>4. CASE NoFiles \/ AlreadyDone \/ NothingFound \/ StageDone
  <2>1. InStage(step) /\ stage' = stage + 1 /\ step' = "check" /\ unread' = <<>>
        /\ (meta' = meta \/ MarkStage(Stage, "done"))
        /\ UNCHANGED <<known, table, phase, toAdd, left, user>>
    BY <1>4 DEF NoFiles, AlreadyDone, NothingFound, StageDone, HasFiles, InStage, NextStage
  <2>2. stage' \in 1..(Len(StageOrder) + 1) /\ Stage \in Stages
    BY <2>1, InStageIs
  <2>3. unread' \in Seq(DOMAIN Content) /\ step' \in Steps
    BY <2>1 DEF Steps
  <2>4. QED
    BY <2>1, <2>2, <2>3 DEF TypeOK, MarkStage, table, user
<1>5. CASE ForgetFlags
  <2>1. done' \in [Domains -> SUBSET Stages]
    BY <1>5 DEF ForgetFlags, TypeOK
  <2>2. disk'.rows = rows /\ disk'.done = done' /\ rows' = rows
    BY <1>5 DEF ForgetFlags, Commit
  <2>3. step' \in Steps /\ UNCHANGED <<known, meta, phase, toAdd, stage, inStage, user>>
    BY <1>5 DEF ForgetFlags, Steps
  <2>4. QED
    BY <2>1, <2>2, <2>3 DEF TypeOK, inStage, user
<1>6. CASE MarkPending \/ NotDone
  <2>1. (meta' = meta \/ MarkStage(Stage, "pending")) /\ step' \in Steps
        /\ UNCHANGED <<known, table, phase, toAdd, stage, inStage, user>>
    BY <1>6 DEF MarkPending, NotDone, Steps
  <2>2. Stage \in Stages
    BY <1>6, InStageIs DEF MarkPending, NotDone, HasFiles
  <2>3. QED
    BY <2>1, <2>2 DEF TypeOK, MarkStage, table, inStage, user
<1>7. CASE Open
  <2>1. Found \in Seq(DOMAIN Content) /\ Stage \in Stages
    BY <1>7, InStageIs, SeqMonotone DEF Open
  <2>2. unread' \in Seq(DOMAIN Content) /\ left' \subseteq known /\ step' \in Steps
    BY <1>7, <2>1, ScopeIs DEF Open, Steps
  <2>3. QED
    BY <1>7, <2>1, <2>2 DEF Open, TypeOK, MarkStage, table, user
<1>8. CASE JoinRow
  <2>1. Stage \in Stages
    BY <1>8, InStageIs DEF JoinRow
  <2>2. PICK d \in left :
          /\ rows' = [rows EXCEPT ![d] = Coalesce(@, Offer(Stage, Joined, d, @))]
          /\ done' = IF FlagsEachRow THEN [done EXCEPT ![d] = @ \cup {Stage}] ELSE done
          /\ left' = left \ {d}
    BY <1>8 DEF JoinRow
  <2>3. done' \in [Domains -> SUBSET Stages]
    BY <2>1, <2>2 DEF TypeOK
  <2>4. \A e \in Domains : DOMAIN rows'[e] = Columns
    BY <2>2, CoalesceKeeps DEF TypeOK, Tables
  <2>5. UNCHANGED <<known, meta, disk, phase, toAdd, stage, step, unread, user>>
    BY <1>8 DEF JoinRow
  <2>6. QED
    BY <2>2, <2>3, <2>4, <2>5 DEF TypeOK, user
<1>9. CASE EndJoin
  <2>1. Stage \in Stages /\ unread # <<>> /\ unread \in Seq(DOMAIN Content)
    BY <1>9, InStageIs DEF EndJoin, InStage, Place, TypeOK
  <2>2. unread' \in Seq(DOMAIN Content)
    <3>1. Tail(unread) \in Seq(DOMAIN Content) /\ <<>> \in Seq(DOMAIN Content)
      BY <2>1
    <3>2. unread' \in {Tail(unread), <<>>}
      BY <1>9 DEF EndJoin
    <3>3. QED
      BY <3>1, <3>2
  <2>3. left' \subseteq known /\ step' \in Steps
    BY <1>9 DEF EndJoin, Steps, TypeOK
  <2>4. done' \in [Domains -> SUBSET Stages]
    BY <1>9, <2>1 DEF EndJoin, TypeOK
  <2>5. disk'.rows = rows /\ disk'.done = done' /\ rows' = rows
    BY <1>9 DEF EndJoin, Commit
  <2>6. UNCHANGED <<known, meta, phase, toAdd, stage, user>>
    BY <1>9 DEF EndJoin
  <2>7. QED
    BY <2>2, <2>3, <2>4, <2>5, <2>6 DEF TypeOK, user
<1>10. CASE FlagAll
  <2>1. Stage \in Stages
    BY <1>10, InStageIs DEF FlagAll
  <2>2. done' \in [Domains -> SUBSET Stages]
    BY <1>10, <2>1 DEF FlagAll, TypeOK
  <2>3. disk'.rows = rows /\ disk'.done = done' /\ rows' = rows
    BY <1>10 DEF FlagAll, Commit
  <2>4. left' \subseteq known /\ step' \in Steps
        /\ UNCHANGED <<known, meta, phase, toAdd, stage, unread, user>>
    BY <1>10 DEF FlagAll, Steps
  <2>5. QED
    BY <2>2, <2>3, <2>4 DEF TypeOK, user
<1>11. CASE AllStagesPassed \/ Export \/ Crash
  <2>1. phase # "idle"
    BY <1>11 DEF AllStagesPassed, Export, Crash
  <2>2. line' \in {line, line + 1} /\ script' = script
    BY <1>11 DEF AllStagesPassed, Export, Crash
  <2>3. line' \in 1..(Len(script) + 1)
    BY <2>1, <2>2, CommandIs DEF Place, TypeOK
  <2>4. Stops \/ UNCHANGED <<toAdd, stage, step, inStage>>
    BY <1>11 DEF AllStagesPassed, Export, Crash
  <2>5. toAdd' \subseteq Domains /\ stage' \in 1..(Len(StageOrder) + 1) /\ step' \in Steps
        /\ unread' \in Seq(DOMAIN Content) /\ left' \subseteq known
    <3>1. <<>> \in Seq(DOMAIN Content) /\ 1 \in 1..(Len(StageOrder) + 1)
      BY StagesAre
    <3>2. CASE Stops
      BY <3>1, <3>2 DEF Stops, Steps
    <3>3. CASE UNCHANGED <<toAdd, stage, step, inStage>>
      <4>1. known' = known
        BY <1>11 DEF AllStagesPassed, Export, Crash
      <4>2. QED
        BY <3>3, <4>1 DEF TypeOK, inStage
    <3>4. QED
      BY <2>4, <3>2, <3>3
  <2>6. phase' \in {"idle", "export", phase} /\ known' = known /\ disk' = disk
    BY <1>11 DEF AllStagesPassed, Export, Crash, Stops, table
  <2>7. meta' \in [Stages \cup {"normalize", "export"} -> {"none", "pending", "running", "done"}]
    BY <1>11 DEF AllStagesPassed, Export, Crash, MarkStage, TypeOK
  <2>8. /\ \A d \in Domains : DOMAIN rows'[d] = Columns /\ DOMAIN disk.rows[d] = Columns
        /\ done' \in [Domains -> SUBSET Stages]
    BY <1>11 DEF AllStagesPassed, Export, Crash, table, TypeOK
  <2>9. crashes' \in 0..MaxCrashes
    BY <1>11, PipelineAssumption DEF AllStagesPassed, Export, Crash, TypeOK
  <2>10. QED
    BY <2>2, <2>3, <2>5, <2>6, <2>7, <2>8, <2>9 DEF TypeOK
<1>12. CASE Rest
  BY <1>12 DEF Rest, TypeOK, vars, table, inStage, user
<1>13. QED
  BY <1>1, <1>2, <1>3, <1>4, <1>5, <1>6, <1>7, <1>8, <1>9, <1>10, <1>11, <1>12 DEF Next

LEMMA PlaceNext ==
  ASSUME IInv, Next
  PROVE  Place'
<1> USE DEF IInv
<1>1. CASE Start \/ AddChunk \/ NormalizeDone
  <2>1. /\ step' = step /\ script' = script /\ line' = line /\ phase' # "idle"
        /\ stage' = stage /\ unread' = unread
        /\ phase = "idle" => line <= Len(script)
        /\ phase # "stages"
    BY <1>1 DEF Start, AddChunk, NormalizeDone, user, inStage
  <2>2. QED
    BY <2>1 DEF Place
<1>2. CASE NoFiles \/ AlreadyDone \/ NothingFound \/ StageDone \/ ForgetFlags
           \/ MarkPending \/ NotDone \/ FlagAll
  <2>1. /\ step' \notin {"work", "flags"} /\ script' = script /\ line' = line
        /\ phase' = phase
    BY <1>2 DEF NoFiles, AlreadyDone, NothingFound, StageDone, NextStage, ForgetFlags,
         MarkPending, NotDone, FlagAll, user
  <2>2. QED
    BY <2>1 DEF Place
<1>3. CASE Open
  <2>1. Found \in Seq(Range(Given) \cap DOMAIN Content)
    BY <1>3, InStageIs DEF Open
  <2>2. Range(Found) \subseteq Range(Given)
    BY <2>1 DEF Range
  <2>3. Given' = Given /\ UNCHANGED <<script, line, phase, stage>>
    BY <1>3 DEF Open, user, Given, cmd, Stage
  <2>4. QED
    BY <1>3, <2>2, <2>3 DEF Open, Place, InStage
<1>4. CASE JoinRow
  BY <1>4 DEF JoinRow, Place, user, Given, cmd, Stage
<1>5. CASE EndJoin
  <2>1. Given' = Given /\ UNCHANGED <<script, line, phase, stage>>
    BY <1>5 DEF EndJoin, user, Given, cmd, Stage
  <2>2. phase = "stages" /\ stage <= Len(StageOrder) /\ unread # <<>> /\ step = "work"
    BY <1>5 DEF EndJoin, InStage, Place
  <2>3. Range(Tail(unread)) \subseteq Range(unread)
    <3>1. unread \in Seq(DOMAIN Content) /\ unread # <<>>
      BY <2>2 DEF TypeOK
    <3>2. QED
      BY <3>1 DEF Range
  <2>4. step' = "work" => unread' = Tail(unread) /\ unread' # <<>>
    BY <1>5 DEF EndJoin
  <2>5. QED
    BY <2>1, <2>2, <2>3, <2>4 DEF Place
<1>6. CASE AllStagesPassed \/ Export \/ Crash
  <2>1. CASE Stops
    <3>1. phase' = "idle" /\ step' = "check"
      BY <2>1 DEF Stops
    <3>2. QED
      BY <3>1 DEF Place
  <2>2. CASE ~Stops
    <3>1. /\ phase = "stages" /\ stage > Len(StageOrder) /\ UNCHANGED <<step, script, line>>
      BY <1>6, <2>2 DEF AllStagesPassed, Export, Crash
    <3>2. stage \in Nat
      BY DEF TypeOK
    <3>3. step \notin {"work", "flags"}
      BY <3>1, <3>2, StagesAre DEF Place
    <3>4. QED
      BY <3>1, <3>3 DEF Place
  <2>3. QED
    BY <2>1, <2>2
<1>7. CASE Rest
  BY <1>7 DEF Rest, vars, Place, user, table, inStage, Given, cmd, Stage
<1>8. QED
  BY <1>1, <1>2, <1>3, <1>4, <1>5, <1>6, <1>7 DEF Next

(* What a step does to the tables: it joins a row, commits, loses what was *)
(* not committed, or leaves them alone.                                    *)
Commits == disk'.rows = rows /\ rows' = rows
Joins ==
  /\ InStage("work") /\ disk' = disk /\ step' = step /\ UNCHANGED <<stage, script, line>>
  /\ \E d \in left :
       /\ rows' = [rows EXCEPT ![d] = Coalesce(@, Offer(Stage, Joined, d, @))]
       /\ left' = left \ {d}
Loses == rows' = disk.rows /\ disk' = disk
LeavesAlone ==
  /\ rows' = rows /\ disk' = disk
  /\ \/ step # "work"
     \/ step = "work" /\ UNCHANGED <<step, left, stage, script, line>>

LEMMA TableSteps ==
  ASSUME IInv, Next
  PROVE  Commits \/ Joins \/ Loses \/ LeavesAlone
<1> USE DEF IInv
<1>1. CASE ForgetFlags \/ EndJoin \/ FlagAll
  <2>1. rows' = rows /\ Commit
    BY <1>1 DEF ForgetFlags, EndJoin, FlagAll
  <2>2. QED
    BY <2>1 DEF Commit, Commits
<1>2. CASE JoinRow
  BY <1>2 DEF JoinRow, Joins, user
<1>3. CASE Crash
  BY <1>3 DEF Crash, Loses
<1>4. CASE Start \/ AddChunk \/ NormalizeDone \/ NoFiles \/ MarkPending \/ AlreadyDone
           \/ NotDone \/ NothingFound \/ Open \/ StageDone \/ AllStagesPassed \/ Export
  <2>1. rows' = rows /\ disk' = disk
    BY <1>4 DEF Start, AddChunk, NormalizeDone, NoFiles, MarkPending, AlreadyDone,
         NotDone, NothingFound, Open, StageDone, AllStagesPassed, Export, table
  <2>2. step # "work"
    <3>1. phase # "stages" \/ stage > Len(StageOrder) \/ step # "work"
      BY <1>4 DEF Start, AddChunk, NormalizeDone, NoFiles, MarkPending, AlreadyDone,
           NotDone, NothingFound, Open, StageDone, AllStagesPassed, Export, HasFiles, InStage
    <3>2. stage \in Nat
      BY DEF TypeOK
    <3>3. QED
      BY <3>1, <3>2, StagesAre DEF Place
  <2>3. QED
    BY <2>1, <2>2 DEF LeavesAlone
<1>5. CASE Rest
  BY <1>5 DEF Rest, vars, user, table, inStage, LeavesAlone
<1>6. QED
  BY <1>1, <1>2, <1>3, <1>4, <1>5 DEF Next

LEMMA TransactionNext ==
  ASSUME IInv, Next
  PROVE  Tables' /\ Transaction'
<1> USE DEF IInv
<1>1. \A c \in Columns : \A v : Kept(c, v, v)
  BY DEF Kept
<1>2. CASE Commits
  BY <1>1, <1>2 DEF Commits, Tables, Transaction
<1>3. CASE Loses
  BY <1>1, <1>3 DEF Loses, Tables, Transaction
<1>4. CASE LeavesAlone
  BY <1>4 DEF LeavesAlone, Tables, Transaction
<1>5. CASE Joins
  <2>1. step = "work" /\ disk' = disk /\ step' = step
    BY <1>5 DEF Joins, InStage
  <2>2. PICK d \in left :
          /\ rows' = [rows EXCEPT ![d] = Coalesce(@, Offer(Stage, Joined, d, @))]
          /\ left' = left \ {d}
    BY <1>5 DEF Joins
  <2>3. d \in Domains
    BY DEF TypeOK
  <2>4. /\ DOMAIN rows' = Domains
        /\ rows'[d] = Coalesce(rows[d], Offer(Stage, Joined, d, rows[d]))
        /\ \A e \in Domains \ {d} : rows'[e] = rows[e]
    BY <2>2, <2>3 DEF Tables
  <2>5. rows[d] = disk.rows[d]
    BY <2>3 DEF Transaction
  <2>6. \A c \in Columns : Kept(c, disk.rows[d][c], rows'[d][c])
    BY <2>4, <2>5, CoalesceKeeps
  <2>7. \A e \in Domains, c \in Columns : Kept(c, disk'.rows[e][c], rows'[e][c])
    BY <2>1, <2>4, <2>6 DEF Transaction
  <2>8. \A e \in Domains : e \in left' \/ step' # "work" => rows'[e] = disk'.rows[e]
    BY <2>1, <2>2, <2>4 DEF Transaction
  <2>9. QED
    BY <2>1, <2>4, <2>7, <2>8 DEF Tables, Transaction
<1>6. QED
  BY <1>2, <1>3, <1>4, <1>5, TableSteps

(* What a committing step does to a committed value.                       *)
LEMMA KeepsNext ==
  ASSUME IInv, Next, NEW d \in Domains, NEW c \in Columns
  PROVE  Kept(c, disk.rows[d][c], disk'.rows[d][c])
<1>1. \A v : Kept(c, v, v)
  BY DEF Kept
<1>2. disk'.rows = rows \/ disk' = disk
  BY TableSteps DEF Commits, Joins, Loses, LeavesAlone
<1>3. QED
  BY <1>1, <1>2 DEF IInv, Transaction
-----------------------------------------------------------------------------
(* What a stage may offer.                                                 *)

(* The files are there and hold what the source of stage s yields.         *)
Parsed(s, files) ==
  /\ files \in Seq(DOMAIN Content)
  /\ \A i \in DOMAIN files : \A k \in DOMAIN Content[files[i]] :
       /\ DOMAIN Content[files[i]][k] \subseteq Yields[s]
       /\ s \in ListStages => DOMAIN Content[files[i]][k] = Yields[s]
  /\ \A hit \in SUBSET Range(files) : hit # Null

(* The columns that a stage writes.                                        *)
Writes(s) ==
  Yields[s] \cup (IF s \in {"brno", "rapid7", "zone"} THEN {"ips"} ELSE {})
            \cup (IF s \in {"threat", "ipthreat"} THEN {"sources"} ELSE {})

(* An offer of values for these columns.                                   *)
IsOffer(s, offer) ==
  /\ DOMAIN offer \subseteq Writes(s)
  /\ \A c \in DOMAIN offer : offer[c] # Null
  /\ "ips" \in DOMAIN offer => IsIndexed(offer["ips"])
  /\ "rank" \in DOMAIN offer => offer["rank"] \in Nat

(* Every value of the offer is one that a file has.                        *)
Sourced(files, offer) ==
  \A c \in DOMAIN offer : \E i \in DOMAIN files :
    \E k \in DOMAIN Content[files[i]] :
      c \in DOMAIN Content[files[i]][k] /\ offer[c] = Content[files[i]][k][c]

(* Some of the files given to a stage.                                     *)
LEMMA GivenParsed ==
  ASSUME script \in Scripts, NEW i \in DOMAIN script, NEW s \in Stages,
         NEW files \in Seq(Range(script[i].files[s]) \cap DOMAIN Content)
  PROVE  Parsed(s, files)
<1> DEFINE R == Range(script[i].files[s])
<1>1. /\ \A hit \in SUBSET R : hit # Null
      /\ \A f \in R \cap DOMAIN Content : \A k \in DOMAIN Content[f] :
           /\ DOMAIN Content[f][k] \subseteq Yields[s]
           /\ s \in ListStages => DOMAIN Content[f][k] = Yields[s]
  BY ContentAssumption, NullAssumption
<1> HIDE DEF R
<1>2. files \in Seq(R \cap DOMAIN Content)
  BY DEF R
<1>3. files \in Seq(DOMAIN Content) /\ Range(files) \subseteq R
  BY <1>2, SeqMonotone
<1>4. \A j \in DOMAIN files : files[j] \in R \cap DOMAIN Content
  BY <1>2
<1>5. QED
  BY <1>1, <1>3, <1>4 DEF Parsed

LEMMA NoOfferIs ==
  ASSUME NEW s
  PROVE  DOMAIN NoOffer = {} /\ IsOffer(s, NoOffer)
BY DEF NoOffer, IsOffer

LEMMA LeastIs ==
  ASSUME NEW H \in SUBSET Nat, H # {}
  PROVE  (CHOOSE i \in H : \A j \in H : i <= j) \in H
BY NatHasLeast

LEMMA HitIs ==
  ASSUME NEW f, NEW keys, IsIndexed(keys)
  PROVE  \/ FirstHit(f, keys) = NoOffer
         \/ \E k \in DOMAIN Content[f] : FirstHit(f, keys) = Content[f][k]
<1> DEFINE hits == {i \in DOMAIN keys : keys[i] \in DOMAIN Content[f]}
           first == CHOOSE i \in hits : \A j \in hits : i <= j
<1>1. hits \in SUBSET Nat
  BY DEF IsIndexed
<1>2. CASE hits = {}
  BY <1>2 DEF FirstHit
<1>3. CASE hits # {}
  <2>1. first \in hits
    BY <1>1, <1>3, LeastIs
  <2>2. FirstHit(f, keys) = Content[f][keys[first]]
    BY <1>3 DEF FirstHit
  <2>3. QED
    BY <2>1, <2>2
<1>4. QED
  BY <1>2, <1>3

LEMMA HitSourced ==
  ASSUME NEW files, 1 \in DOMAIN files, NEW keys, IsIndexed(keys)
  PROVE  Sourced(files, FirstHit(files[1], keys))
<1>1. DOMAIN NoOffer = {}
  BY DEF NoOffer
<1>2. QED
  BY <1>1, HitIs DEF Sourced

LEMMA FirstRecordSourced ==
  ASSUME NEW files \in Seq(DOMAIN Content), NEW d
  PROVE  Sourced(files, FirstRecord(files, d))
<1> DEFINE hit == {i \in DOMAIN files : d \in DOMAIN Content[files[i]]}
           first == CHOOSE i \in hit : \A j \in hit : i <= j
<1>1. hit \in SUBSET Nat
  OBVIOUS
<1>2. CASE hit = {}
  BY <1>2 DEF FirstRecord, NoOffer, Sourced
<1>3. CASE hit # {}
  <2>1. first \in hit
    BY <1>1, <1>3, LeastIs
  <2>2. FirstRecord(files, d) = Content[files[first]][d]
    BY <1>3 DEF FirstRecord
  <2>3. QED
    BY <2>1, <2>2 DEF Sourced
<1>4. QED
  BY <1>2, <1>3

LEMMA AllRecordsSourced ==
  ASSUME NEW files \in Seq(DOMAIN Content), NEW d
  PROVE  Sourced(files, AllRecords(files, d))
<1> DEFINE hit == {i \in DOMAIN files : d \in DOMAIN Content[files[i]]}
           has(c) == {i \in hit : c \in DOMAIN Content[files[i]][d]}
           first(c) == CHOOSE i \in has(c) : \A j \in has(c) : i <= j
<1>1. DOMAIN AllRecords(files, d) = {c \in Columns : has(c) # {}}
  BY DEF AllRecords
<1>2. ASSUME NEW c \in DOMAIN AllRecords(files, d)
      PROVE  first(c) \in has(c) /\ AllRecords(files, d)[c] = Content[files[first(c)]][d][c]
  <2>1. has(c) \in SUBSET Nat /\ has(c) # {}
    BY <1>1, <1>2
  <2>2. first(c) \in has(c)
    BY <2>1, LeastIs
  <2>3. c \in {x \in Columns : has(x) # {}}
    BY <1>1, <1>2
  <2>4. AllRecords(files, d)[c] = Content[files[first(c)]][d][c]
    BY <2>3 DEF AllRecords
  <2>5. QED
    BY <2>2, <2>4
<1> HIDE DEF first
<1>3. QED
  BY <1>2 DEF Sourced

(* What the sourced values are, by the assumption on the parsers.          *)
LEMMA SourcedIs ==
  ASSUME NEW s \in Stages, NEW files, Parsed(s, files), NEW offer, Sourced(files, offer)
  PROVE  /\ DOMAIN offer \subseteq Yields[s]
         /\ \A c \in DOMAIN offer :
              /\ offer[c] # Null
              /\ c \in {"a", "aaaa", "ip_data"} => IsList(offer[c]) /\ offer[c] \in ValuesOf(c)
              /\ c = "rank" => offer[c] \in Nat
<1> SUFFICES ASSUME NEW c \in DOMAIN offer
             PROVE  /\ c \in Yields[s] /\ offer[c] # Null
                    /\ c \in {"a", "aaaa", "ip_data"} =>
                         IsList(offer[c]) /\ offer[c] \in ValuesOf(c)
                    /\ c = "rank" => offer[c] \in Nat
  OBVIOUS
<1>1. PICK i \in DOMAIN files : \E k \in DOMAIN Content[files[i]] :
        c \in DOMAIN Content[files[i]][k] /\ offer[c] = Content[files[i]][k][c]
  BY DEF Sourced
<1>2. PICK k \in DOMAIN Content[files[i]] :
        c \in DOMAIN Content[files[i]][k] /\ offer[c] = Content[files[i]][k][c]
  BY <1>1
<1> DEFINE f == files[i]
<1>3. f \in DOMAIN Content /\ c \in Yields[s]
  BY <1>2 DEF Parsed
<1>4. /\ Content[f][k][c] # Null
      /\ c \in {"a", "aaaa", "ip_data"} => IsList(Content[f][k][c])
      /\ c = "rank" => Content[f][k][c] \in Nat
  BY <1>2, <1>3, ContentAssumption
<1>5. Content[f][k][c] \in ValuesOf(c)
  BY <1>2, <1>3 DEF ValuesOf
<1>6. QED
  BY <1>2, <1>3, <1>4, <1>5

(* Only a Brno, forward DNS or zone record has an ips column, and it is    *)
(* put together here.                                                      *)
LEMMA YieldsNoIps == \A s \in Stages : "ips" \notin Yields[s] /\ "sources" \notin Yields[s]
BY DEF Stages, StageOrder, Yields

LEMMA SourcedOffer ==
  ASSUME NEW s \in Stages, NEW files, Parsed(s, files), NEW offer, Sourced(files, offer)
  PROVE  IsOffer(s, offer)
<1>1. DOMAIN offer \subseteq Writes(s)
  BY SourcedIs DEF Writes
<1>2. "ips" \notin DOMAIN offer
  BY SourcedIs, YieldsNoIps
<1>3. QED
  BY <1>1, <1>2, SourcedIs DEF IsOffer

LEMMA JoinedLists ==
  ASSUME NEW p, NEW q, NEW r, IsList(p), IsList(q), IsList(r)
  PROVE  IsIndexed(p \o q \o r)
<1> DEFINE T == Range(p) \cup Range(q) \cup Range(r)
<1>1. p \in Seq(T) /\ q \in Seq(T) /\ r \in Seq(T)
  <2>1. p \in Seq(Range(p)) /\ q \in Seq(Range(q)) /\ r \in Seq(Range(r))
    BY DEF IsList
  <2>2. Range(p) \subseteq T /\ Range(q) \subseteq T /\ Range(r) \subseteq T
    OBVIOUS
  <2> HIDE DEF T
  <2>3. QED
    BY <2>1, <2>2, SeqMonotone
<1> HIDE DEF T
<1>2. p \o q \o r \in Seq(T)
  BY <1>1
<1>3. QED
  BY <1>2 DEF IsIndexed

LEMMA WithIpsOffer ==
  ASSUME NEW s \in {"brno", "rapid7", "zone"}, NEW files, Parsed(s, files),
         NEW offer, Sourced(files, offer)
  PROVE  IsOffer(s, WithIps(offer))
<1> DEFINE part(c) == IF c \in DOMAIN offer THEN offer[c] ELSE <<>>
           ips == part("a") \o part("aaaa") \o part("ip_data")
           more == IF ips = <<>> THEN {} ELSE {"ips"}
           new == WithIps(offer)
           lists == ValuesOf("a") \cup ValuesOf("aaaa") \cup ValuesOf("ip_data") \cup {<<>>}
<1>1. s \in Stages
  BY DEF Stages, StageOrder
<1>2. \A c \in {"a", "aaaa", "ip_data"} : IsList(part(c)) /\ part(c) \in lists
  <2>1. IsList(<<>>)
    BY DEF IsList
  <2>2. ASSUME NEW c \in {"a", "aaaa", "ip_data"} PROVE IsList(part(c)) /\ part(c) \in lists
    <3>1. CASE c \in DOMAIN offer
      <4>1. IsList(offer[c]) /\ offer[c] \in ValuesOf(c)
        BY <1>1, <3>1, SourcedIs
      <4>2. QED
        BY <3>1, <4>1
    <3>2. CASE c \notin DOMAIN offer
      BY <3>2, <2>1
    <3>3. QED
      BY <3>1, <3>2
  <2>3. QED
    BY <2>2
<1> HIDE DEF part
<1>3. IsIndexed(ips) /\ ips # Null
  <2>1. IsIndexed(ips)
    BY <1>2, JoinedLists
  <2>2. part("a") \in lists /\ part("aaaa") \in lists /\ part("ip_data") \in lists
    BY <1>2
  <2>3. QED
    BY <2>1, <2>2, NullAssumption
<1> HIDE DEF ips, lists
<1>4. new = [c \in DOMAIN offer \cup more |-> IF c = "ips" THEN ips ELSE offer[c]]
  BY DEF WithIps, ips, part
<1> HIDE DEF new
<1>5. DOMAIN new \subseteq Writes(s)
  BY <1>1, <1>4, SourcedIs DEF Writes
<1>6. \A c \in DOMAIN new : new[c] = ips \/ (c \in DOMAIN offer /\ new[c] = offer[c])
  BY <1>4
<1>7. \A c \in DOMAIN new : new[c] # Null
  BY <1>1, <1>3, <1>6, SourcedIs
<1>8. /\ "ips" \in DOMAIN new => new["ips"] = ips
      /\ "rank" \in DOMAIN new => "rank" \in DOMAIN offer /\ new["rank"] = offer["rank"]
  BY <1>4
<1>9. QED
  BY <1>1, <1>3, <1>5, <1>7, <1>8, SourcedIs DEF IsOffer, new

(* What a list that matches says.                                          *)
LEMMA ListsIs ==
  ASSUME NEW s \in ListStages, NEW files, Parsed(s, files), NEW keys, IsIndexed(keys),
         NEW f \in Lists(files, keys)
  PROVE  /\ f \in Range(files) \cap DOMAIN Content
         /\ FirstHit(f, keys) # NoOffer
         /\ \A c \in Yields[s] :
              /\ FirstHit(f, keys)[c] \in ValuesOf(c)
              /\ c = "label" => FirstHit(f, keys)[c] \in DOMAIN LabelRank
              /\ c = "rank" => FirstHit(f, keys)[c] \in Nat
<1>1. PICK i \in DOMAIN files : f = files[i]
  BY DEF Lists
<1>2. FirstHit(f, keys) # NoOffer
  BY DEF Lists
<1>3. f \in Range(files) \cap DOMAIN Content
  BY <1>1 DEF Range, Parsed
<1>4. PICK k \in DOMAIN Content[f] : FirstHit(f, keys) = Content[f][k]
  BY <1>2, HitIs
<1>5. DOMAIN Content[f][k] = Yields[s]
  BY <1>1, <1>4 DEF Parsed
<1>6. ASSUME NEW c \in Yields[s]
      PROVE  /\ Content[f][k][c] \in ValuesOf(c)
             /\ c = "label" => Content[f][k][c] \in DOMAIN LabelRank
             /\ c = "rank" => Content[f][k][c] \in Nat
  <2>1. c \in DOMAIN Content[f][k]
    BY <1>5
  <2>2. /\ c = "label" => Content[f][k][c] \in DOMAIN LabelRank
        /\ c = "rank" => Content[f][k][c] \in Nat
    BY <1>3, <2>1, ContentAssumption
  <2>3. Content[f][k][c] \in ValuesOf(c)
    BY <1>3, <2>1 DEF ValuesOf
  <2>4. QED
    BY <2>2, <2>3
<1>7. QED
  BY <1>2, <1>3, <1>4, <1>6

LEMMA StrongestIs ==
  ASSUME NEW T \in SUBSET DOMAIN LabelRank, T # {}
  PROVE  \E l \in T : \A m \in T : LabelRank[m] <= LabelRank[l]
<1>1. DOMAIN LabelRank = {"benign", "blocklisted", "phishing", "malware"}
  BY DEF LabelRank
<1>2. /\ LabelRank["benign"] = 0 /\ LabelRank["blocklisted"] = 1
      /\ LabelRank["phishing"] = 2 /\ LabelRank["malware"] = 3
  BY DEF LabelRank
<1>3. CASE "malware" \in T
  BY <1>1, <1>2, <1>3
<1>4. CASE "malware" \notin T /\ "phishing" \in T
  BY <1>1, <1>2, <1>4
<1>5. CASE "malware" \notin T /\ "phishing" \notin T /\ "blocklisted" \in T
  BY <1>1, <1>2, <1>5
<1>6. CASE "malware" \notin T /\ "phishing" \notin T /\ "blocklisted" \notin T
  BY <1>1, <1>2, <1>6
<1>7. QED
  BY <1>3, <1>4, <1>5, <1>6

LEMMA ThreatOfferIs ==
  ASSUME NEW s \in {"threat", "ipthreat"}, NEW files, Parsed(s, files), NEW keys,
         IsIndexed(keys)
  PROVE  IsOffer(s, ThreatOffer(files, keys))
<1> DEFINE hit == Lists(files, keys)
           labels == {FirstHit(f, keys).label : f \in hit}
           best == CHOOSE l \in labels : \A m \in labels : LabelRank[m] <= LabelRank[l]
<1>1. s \in ListStages /\ Yields[s] = {"label"} /\ Writes(s) = {"label", "sources"}
  BY DEF ListStages, Yields, Writes
<1>2. CASE hit = {}
  BY <1>2, NoOfferIs DEF ThreatOffer
<1>3. CASE hit # {}
  <2>1. labels \subseteq DOMAIN LabelRank /\ labels \subseteq ValuesOf("label") /\ labels # {}
    BY <1>1, <1>3, ListsIs
  <2>2. best \in labels
    <3> HIDE DEF labels
    <3>1. QED
      BY <2>1, StrongestIs
  <2>3. best # Null
    <3> HIDE DEF best, labels
    <3>1. PICK f \in DOMAIN Content : \E k \in DOMAIN Content[f] :
            "label" \in DOMAIN Content[f][k] /\ Content[f][k]["label"] = best
      BY <2>1, <2>2 DEF ValuesOf
    <3>2. QED
      BY <3>1, ContentAssumption
  <2>4. hit # Null
    <3>1. hit \subseteq Range(files)
      BY <1>1, ListsIs
    <3>2. QED
      BY <3>1 DEF Parsed
  <2>5. ThreatOffer(files, keys) = [label |-> best, sources |-> hit]
    BY <1>3 DEF ThreatOffer
  <2> HIDE DEF best, hit
  <2>6. QED
    BY <2>3, <2>4, <2>5, <1>1 DEF IsOffer
<1>4. QED
  BY <1>2, <1>3

LEMMA RankOfferIs ==
  ASSUME NEW files, Parsed("tranco", files), NEW keys, IsIndexed(keys)
  PROVE  IsOffer("tranco", RankOffer(files, keys))
<1> DEFINE ranks == {FirstHit(f, keys).rank : f \in Lists(files, keys)}
           best == CHOOSE r \in ranks : \A q \in ranks : r <= q
<1>1. "tranco" \in ListStages /\ Yields["tranco"] = {"rank"} /\ Writes("tranco") = {"rank"}
  BY DEF ListStages, Yields, Writes
<1>2. CASE ranks = {}
  BY <1>2, NoOfferIs DEF RankOffer
<1>3. CASE ranks # {}
  <2>1. ranks \subseteq Nat /\ ranks \subseteq ValuesOf("rank")
    BY <1>1, ListsIs
  <2>2. RankOffer(files, keys) = [rank |-> best]
    BY <1>3 DEF RankOffer
  <2> HIDE DEF ranks
  <2>3. best \in ranks
    BY <2>1, <1>3, LeastIs
  <2> HIDE DEF best
  <2>4. best # Null
    <3>1. PICK f \in DOMAIN Content : \E k \in DOMAIN Content[f] :
            "rank" \in DOMAIN Content[f][k] /\ Content[f][k]["rank"] = best
      BY <2>1, <2>3 DEF ValuesOf
    <3>2. QED
      BY <3>1, ContentAssumption
  <2>5. QED
    BY <2>1, <2>2, <2>3, <2>4, <1>1 DEF IsOffer
<1>4. QED
  BY <1>2, <1>3

LEMMA PtrOfferIs ==
  ASSUME NEW files, Parsed("rdns", files), NEW keys, IsIndexed(keys)
  PROVE  IsOffer("rdns", PtrOffer(files, keys))
<1> DEFINE pairs == {p \in Lists(files, keys) \X DOMAIN keys :
                       FirstHit(p[1], <<keys[p[2]]>>) # NoOffer}
           values == {FirstHit(p[1], <<keys[p[2]]>>).ptr : p \in pairs}
           names == UNION values
<1>1. "rdns" \in ListStages /\ Yields["rdns"] = {"ptr"} /\ Writes("rdns") = {"ptr"}
  BY DEF ListStages, Yields, Writes
<1>2. CASE names = {}
  BY <1>2, NoOfferIs DEF PtrOffer
<1>3. CASE names # {}
  <2>1. ASSUME NEW p \in pairs
        PROVE  FirstHit(p[1], <<keys[p[2]]>>).ptr \in ValuesOf("ptr")
    <3> DEFINE f == p[1]
               one == <<keys[p[2]]>>
    <3>1. f \in Range(files) /\ FirstHit(f, one) # NoOffer
      BY <1>1, ListsIs
    <3>2. IsIndexed(one)
      BY DEF IsIndexed
    <3>3. f \in Lists(files, one)
      BY <3>1 DEF Lists, Range
    <3> HIDE DEF f, one
    <3>4. FirstHit(f, one)["ptr"] \in ValuesOf("ptr")
      BY <3>2, <3>3, <1>1, ListsIs
    <3>5. QED
      BY <3>4 DEF f, one
  <2>2. values \in SUBSET ValuesOf("ptr")
    BY <2>1
  <2>3. PtrOffer(files, keys) = [ptr |-> names]
    BY <1>3 DEF PtrOffer
  <2> HIDE DEF values
  <2>4. names # Null
    BY <2>2, NullAssumption
  <2> HIDE DEF names
  <2>5. QED
    BY <2>3, <2>4, <1>1 DEF IsOffer
<1>4. QED
  BY <1>2, <1>3

(* A stage offers values for its columns, and never NULL; addresses are a  *)
(* list, a rank is a number.                                               *)
LEMMA OfferIs ==
  ASSUME NEW s \in Stages, NEW files, Parsed(s, files), files # <<>>, NEW d, NEW row,
         Indexed(row), HasKey(s, row)
  PROVE  IsOffer(s, Offer(s, files, d, row))
<1> DEFINE offer == Offer(s, files, d, row)
<1>1. 1 \in DOMAIN files /\ files \in Seq(DOMAIN Content)
  BY DEF Parsed
<1>2. \A v : IsIndexed(<<v>>)
  BY DEF IsIndexed
<1>3. CASE s \in {"brno", "rapid7"}
  <2>1. offer = WithIps(AllRecords(files, d))
    BY <1>3 DEF Offer, BrnoOffer, FdnsOffer
  <2>2. QED
    BY <2>1, <1>1, <1>3, AllRecordsSourced, WithIpsOffer
<1>4. CASE s = "zone"
  <2>1. offer = WithIps(FirstRecord(files, d))
    BY <1>4 DEF Offer, ZoneOffer
  <2>2. QED
    BY <2>1, <1>1, <1>4, FirstRecordSourced, WithIpsOffer
<1>5. CASE s \in {"geo", "netwhois"}
  <2>1. offer = FirstHit(files[1], row.ips)
    BY <1>5 DEF Offer, GeoOffer, NetOffer
  <2>2. QED
    BY <2>1, <1>1, <1>5, HitSourced, SourcedOffer DEF HasKey, Indexed
<1>6. CASE s = "peeringdb"
  <2>1. offer = FirstHit(files[1], <<row.asn>>)
    BY <1>6 DEF Offer, AsnOffer
  <2>2. QED
    BY <2>1, <1>1, <1>2, HitSourced, SourcedOffer
<1>7. CASE s = "rdns"
  <2>1. offer = PtrOffer(files, row.ips)
    BY <1>7 DEF Offer
  <2>2. QED
    BY <2>1, <1>7, PtrOfferIs DEF HasKey, Indexed
<1>8. CASE s = "threat"
  <2>1. offer = ThreatOffer(files, <<d>>)
    BY <1>8 DEF Offer, BlocklistOffer
  <2>2. QED
    BY <2>1, <1>2, <1>8, ThreatOfferIs
<1>9. CASE s = "ipthreat"
  <2>1. offer = ThreatOffer(files, row.ips)
    BY <1>9 DEF Offer, IpThreatOffer
  <2>2. QED
    BY <2>1, <1>9, ThreatOfferIs DEF HasKey, Indexed
<1>10. CASE s = "tranco"
  <2>1. offer = RankOffer(files, <<d>>)
    BY <1>10 DEF Offer
  <2>2. QED
    BY <2>1, <1>2, <1>10, RankOfferIs
<1>11. CASE s = "ct"
  <2>1. offer = FirstRecord(files, d)
    BY <1>11 DEF Offer, SanOffer
  <2>2. QED
    BY <2>1, <1>1, FirstRecordSourced, SourcedOffer
<1>12. CASE s = "rdap"
  <2>1. offer = AllRecords(files, d)
    BY <1>12 DEF Offer, WhoisOffer
  <2>2. QED
    BY <2>1, <1>1, AllRecordsSourced, SourcedOffer
<1>13. s \in {"brno", "rapid7", "zone", "geo", "netwhois", "peeringdb", "rdns",
              "threat", "ipthreat", "tranco", "ct", "rdap"}
  BY DEF Stages, StageOrder
<1>14. QED
  BY <1>13, <1>3, <1>4, <1>5, <1>6, <1>7, <1>8, <1>9, <1>10, <1>11, <1>12
-----------------------------------------------------------------------------
(* A joined row is still located by the addresses it shows.                *)
LEMMA JoinLocated ==
  ASSUME NEW s \in Stages, NEW files, files # <<>>, NEW d, NEW row,
         DOMAIN row = Columns,
         Parsed(s, files), HasKey(s, row),
         Indexed(row), Fits(row)
  PROVE  LET new == Coalesce(row, Offer(s, files, d, row))
         IN Indexed(new) /\ Fits(new)
<1> DEFINE offer == Offer(s, files, d, row)
           new == Coalesce(row, offer)
<1> SUFFICES Indexed(new) /\ Fits(new)
  OBVIOUS
<1>2. /\ "ips" \in DOMAIN offer => IsIndexed(offer.ips)
      /\ s # "geo" => "geo" \notin DOMAIN offer
      /\ s = "geo" => "ips" \notin DOMAIN offer
  <2>1. IsOffer(s, offer)
    BY OfferIs
  <2>2. s # "geo" => "geo" \notin Writes(s)
    BY DEF Stages, StageOrder, Writes, Yields
  <2>3. "ips" \notin Writes("geo")
    BY DEF Writes, Yields
  <2> HIDE DEF offer
  <2>4. QED
    BY <2>1, <2>2, <2>3 DEF IsOffer
<1>3. s = "geo" => offer = FirstHit(files[1], row.ips)
  BY DEF Offer, GeoOffer
<1>4. files[1] \in DOMAIN Content
  BY DEF Parsed
<1> HIDE DEF offer
<1>5. \A c \in {"ips", "geo"} :
        new[c] = IF c \notin DOMAIN offer THEN row[c]
                 ELSE IF row[c] = Null THEN offer[c] ELSE row[c]
  BY DEF Coalesce, Columns
<1> HIDE DEF new
<1>6. Indexed(new)
  BY <1>2, <1>5 DEF Indexed
<1>7. Fits(new)
  <2>1. SUFFICES ASSUME new.geo # Null PROVE Fits(new)
    BY DEF Fits
  <2>2. CASE row.geo # Null
    <3>1. row.ips # Null /\ new.ips = row.ips /\ new.geo = row.geo
      BY <1>5, <2>2 DEF Fits
    <3>2. QED
      BY <3>1, <2>2 DEF Fits
  <2>3. CASE row.geo = Null
    <3>1. "geo" \in DOMAIN offer /\ new.geo = offer.geo
      BY <2>1, <2>3, <1>5
    <3>2. s = "geo"
      BY <3>1, <1>2
    <3>3. row.ips # Null /\ new.ips = row.ips
      BY <3>2, <1>2, <1>5 DEF HasKey
    <3>4. offer = FirstHit(files[1], new.ips)
      BY <3>2, <3>3, <1>3
    <3>5. QED
      BY <3>1, <3>3, <3>4, <1>4 DEF Fits
  <2>4. QED
    BY <2>2, <2>3
<1>8. QED
  BY <1>6, <1>7

(* The files of a join are some of those given to the stage.               *)
LEMMA JoinedIs ==
  ASSUME IInv, InStage("work")
  PROVE  Joined # <<>> /\ Parsed(Stage, Joined)
<1> USE DEF IInv
<1>1. unread \in Seq(DOMAIN Content) /\ unread # <<>> /\ Range(unread) \subseteq Range(Given)
  BY DEF TypeOK, Place, InStage
<1>2. Head(unread) \in DOMAIN Content /\ Head(unread) = unread[1] /\ 1 \in DOMAIN unread
  BY <1>1
<1>3. /\ Joined \in Seq(DOMAIN Content) /\ Joined # <<>>
      /\ \A i \in DOMAIN Joined : Joined[i] \in Range(unread)
  <2>1. CASE Joined = unread
    BY <1>1, <2>1 DEF Range
  <2>2. CASE Joined = <<Head(unread)>>
    BY <1>1, <1>2, <2>2 DEF Range
  <2>3. QED
    BY <2>1, <2>2 DEF Joined
<1>4. script \in Scripts /\ line \in DOMAIN script /\ Stage \in Stages
  BY InStageIs, PipelineAssumption DEF TypeOK, IsList
<1>5. Joined \in Seq(Range(Given) \cap DOMAIN Content)
  <2>1. \A i \in DOMAIN Joined : Joined[i] \in Range(Given) \cap DOMAIN Content
    BY <1>1, <1>3
  <2> HIDE DEF Joined
  <2>2. QED
    BY <1>3, <2>1
<1>6. QED
  BY <1>3, <1>4, <1>5, GivenParsed DEF Given, cmd

(* Which steps leave the program within a join.                            *)
LEMMA WithinJoin ==
  ASSUME IInv, Next, step' = "work"
  PROVE  \/ Open \/ JoinRow
         \/ Stage = "brno" /\ Stage' = Stage
         \/ UNCHANGED <<left, rows, stage, step>>
<1> USE DEF IInv
<1>1. CASE Start \/ AddChunk \/ NormalizeDone \/ NoFiles \/ MarkPending \/ AlreadyDone
           \/ NotDone \/ NothingFound \/ StageDone \/ ForgetFlags \/ FlagAll \/ Export \/ Crash
  <2>1. step' \in {"check", "pending", "open", "finish"} \/ (step' = step /\ phase # "stages")
    BY <1>1 DEF Start, AddChunk, NormalizeDone, NoFiles, MarkPending, AlreadyDone, NotDone,
         NothingFound, StageDone, ForgetFlags, FlagAll, Export, Crash, NextStage, Stops
  <2>2. QED
    BY <2>1 DEF Place
<1>2. CASE AllStagesPassed
  <2>1. stage > Len(StageOrder) /\ stage \in Nat /\ (step' = "check" \/ step' = step)
    BY <1>2 DEF AllStagesPassed, Stops, TypeOK
  <2>2. QED
    BY <2>1, StagesAre DEF Place
<1>3. CASE EndJoin
  BY <1>3 DEF EndJoin, Stage
<1>4. CASE Rest
  BY <1>4 DEF Rest, vars, table, inStage
<1>5. QED
  BY <1>1, <1>2, <1>3, <1>4 DEF Next

LEMMA LocatedNext ==
  ASSUME IInv, Next
  PROVE  Located'
<1> USE DEF IInv
<1>1. \A d \in Domains : Indexed(rows'[d]) /\ Indexed(disk'.rows[d])
                         /\ Fits(rows'[d]) /\ Fits(disk'.rows[d])
  <2>1. CASE Commits \/ Loses \/ LeavesAlone
    BY <2>1 DEF Commits, Loses, LeavesAlone, Located
  <2>2. CASE Joins
    <3>1. InStage("work") /\ disk' = disk
      BY <2>2 DEF Joins
    <3>2. PICK d \in left :
            rows' = [rows EXCEPT ![d] = Coalesce(@, Offer(Stage, Joined, d, @))]
      BY <2>2 DEF Joins
    <3>3. d \in Domains
      BY DEF TypeOK
    <3>4. /\ rows'[d] = Coalesce(rows[d], Offer(Stage, Joined, d, rows[d]))
          /\ \A e \in Domains \ {d} : rows'[e] = rows[e]
      BY <3>2, <3>3 DEF Tables
    <3>5. HasKey(Stage, rows[d])
      BY <3>1 DEF Located, InStage
    <3>6. Stage \in Stages
      BY <3>1, InStageIs
    <3>7. DOMAIN rows[d] = Columns /\ Indexed(rows[d]) /\ Fits(rows[d])
      BY <3>3 DEF TypeOK, Located
    <3>8. Indexed(rows'[d]) /\ Fits(rows'[d])
      BY <3>1, <3>4, <3>5, <3>6, <3>7, JoinedIs, JoinLocated
    <3>9. QED
      BY <3>1, <3>4, <3>8 DEF Located
  <2>3. QED
    BY <2>1, <2>2, TableSteps
<1>2. ASSUME step' = "work", NEW d \in left'
      PROVE  HasKey(Stage', rows'[d])
  <2>1. CASE Open
    <3>1. left' = Scope /\ rows' = rows /\ Stage' = Stage
      BY <2>1 DEF Open, table, Stage
    <3>2. QED
      BY <3>1, <1>2, ScopeIs
  <2>2. CASE JoinRow
    <3>1. PICK e \in left :
            /\ rows' = [rows EXCEPT ![e] = Coalesce(@, Offer(Stage, Joined, e, @))]
            /\ left' = left \ {e}
      BY <2>2 DEF JoinRow
    <3>2. step = "work" /\ Stage' = Stage
      BY <2>2 DEF JoinRow, InStage, Stage
    <3>3. d \in left /\ rows'[d] = rows[d]
      <4>1. d \in left /\ d # e
        BY <1>2, <3>1
      <4>2. d \in Domains
        BY <4>1 DEF TypeOK
      <4>3. QED
        BY <4>1, <4>2, <3>1 DEF Tables
    <3>4. QED
      BY <3>2, <3>3, <1>2 DEF Located
  <2>3. CASE Stage = "brno" /\ Stage' = Stage
    BY <2>3, <1>2 DEF HasKey
  <2>4. CASE UNCHANGED <<left, rows, stage, step>>
    BY <2>4, <1>2 DEF Located, Stage
  <2>5. QED
    BY <2>1, <2>2, <2>3, <2>4, <1>2, WithinJoin
<1>3. QED
  BY <1>1, <1>2 DEF Located

LEMMA NextIInv ==
  ASSUME IInv, [Next]_vars
  PROVE  IInv'
<1>1. CASE Next
  BY <1>1, TypeNext, TransactionNext, PlaceNext, LocatedNext DEF IInv
<1>2. CASE UNCHANGED vars
  <2>1. UNCHANGED <<known, meta, disk, rows, done, script, line, phase, toAdd, stage, step,
                    unread, left, crashes>>
    BY <1>2 DEF vars, table, inStage, user
  <2>2. TypeOK' /\ Tables' /\ Transaction'
    BY <2>1 DEF IInv, TypeOK, Tables, Transaction
  <2>3. Stage' = Stage /\ Given' = Given
    BY <2>1 DEF Stage, Given, cmd
  <2>4. Place' /\ Located'
    BY <2>1, <2>3 DEF IInv, Place, Located
  <2>5. QED
    BY <2>2, <2>4 DEF IInv
<1>3. QED
  BY <1>1, <1>2

LEMMA Invariance == Spec => []IInv
BY InitIInv, NextIInv, PTL DEF Spec

(* The type invariant of the model: a stage under way has files that       *)
(* exist and rows that are there, a command under way is one of the script.*)
THEOREM TypeCorrect == Spec => []TypeOK
<1>1. IInv => TypeOK
  BY DEF IInv
<1>2. QED
  BY <1>1, Invariance, PTL

(* COALESCE keeps the first value of a column, across stages run again,    *)
(* files changed and kills: a committed value stays, only a rank improves. *)
(* This is what the code does in every stage, a forced one included, whose *)
(* --force clears flags and no values, although the documents have it run  *)
(* from scratch.                                                           *)
THEOREM NoStageReplacesValues ==
  Spec => [][\A d \in Domains, c \in Columns :
               disk.rows[d][c] # Null =>
                 \/ disk'.rows[d][c] = disk.rows[d][c]
                 \/ c = "rank" /\ disk'.rows[d][c] < disk.rows[d][c]]_vars
<1>1. IInv /\ [Next]_vars =>
        [\A d \in Domains, c \in Columns :
           disk.rows[d][c] # Null =>
             \/ disk'.rows[d][c] = disk.rows[d][c]
             \/ c = "rank" /\ disk'.rows[d][c] < disk.rows[d][c]]_vars
  <2>1. SUFFICES ASSUME IInv, Next
                 PROVE  \A d \in Domains, c \in Columns :
                          disk.rows[d][c] # Null =>
                            \/ disk'.rows[d][c] = disk.rows[d][c]
                            \/ c = "rank" /\ disk'.rows[d][c] < disk.rows[d][c]
    OBVIOUS
  <2>2. QED
    BY <2>1, KeepsNext DEF Kept
<1>2. QED
  BY <1>1, Invariance, PTL DEF Spec

(* "A later, poorer source never clobbers a value" (store.py): no stage    *)
(* that is not forced replaces or removes a committed value.               *)
THEOREM FirstValueStaysAlways == Spec => FirstValueStays
<1>1. [\A d \in Domains, c \in Columns :
         disk.rows[d][c] # Null =>
           \/ disk'.rows[d][c] = disk.rows[d][c]
           \/ c = "rank" /\ disk'.rows[d][c] < disk.rows[d][c]]_vars
        => [~ForcedStage =>
              \A d \in Domains, c \in Columns :
                disk.rows[d][c] # Null =>
                  \/ disk'.rows[d][c] = disk.rows[d][c]
                  \/ c = "rank" /\ disk'.rows[d][c] < disk.rows[d][c]]_vars
  OBVIOUS
<1>2. QED
  BY <1>1, NoStageReplacesValues, PTL DEF FirstValueStays

(* Geolocation committed is that of the addresses the committed row shows. *)
THEOREM GeoOfShownIpsAlways == Spec => []GeoOfShownIps
<1>1. IInv => GeoOfShownIps
  BY DEF IInv, Located, Fits, GeoOfShownIps, TypeOK
<1>2. QED
  BY <1>1, Invariance, PTL
-----------------------------------------------------------------------------
(* What the stages offer a row, in slots: first the files of Brno one by   *)
(* one, then each stage with all its files.  F has the files per stage.    *)
Brnos(F) == Len(F["brno"])
Slot(F, p) == Brnos(F) + p - 1        \* the last slot of stage p
Size(F) == Slot(F, 12)

SlotStage(F, i) == IF i <= Brnos(F) THEN "brno" ELSE StageOrder[i - Brnos(F) + 1]
SlotFiles(F, i) == IF i <= Brnos(F) THEN <<F["brno"][i]>> ELSE F[SlotStage(F, i)]

(* What slot i offers the row.                                             *)
SlotOffer(F, i, d, row) ==
  IF SlotFiles(F, i) # <<>> /\ HasKey(SlotStage(F, i), row)
  THEN Offer(SlotStage(F, i), SlotFiles(F, i), d, row)
  ELSE NoOffer

Offering(F, d, row, n, c) == {i \in 1..n : c \in DOMAIN SlotOffer(F, i, d, row)}

(* The first value of column c that one of the first n slots offers.       *)
First(F, d, row, n, c) ==
  LET has == Offering(F, d, row, n, c)
  IN IF has = {} THEN Null
     ELSE SlotOffer(F, CHOOSE i \in has : \A j \in has : i <= j, d, row)[c]

(* The row has what the first n slots offer it, and nothing else.          *)
Prefix(F, d, row, n) == \A c \in Columns : row[c] = First(F, d, row, n, c)

(* ... of the first k slots, and perhaps of some more.                     *)
Reached(F, d, row, k) == \E n \in k..Size(F) : Prefix(F, d, row, n)

Filed(F) == \A s \in Stages : Parsed(s, F[s])

LEMMA OrderIs ==
  ASSUME NEW p \in 1..12
  PROVE  LET s == StageOrder[p]
         IN /\ s \in Stages
            /\ s = "brno" <=> p = 1
            /\ p > 3 => "ips" \notin Writes(s)
            /\ p # 4 => "asn" \notin Writes(s)
            /\ p # 10 => "rank" \notin Writes(s)
            /\ p <= 3 => s \in {"brno", "rapid7", "zone"}
            /\ p <= 4 => s \in {"brno", "rapid7", "zone", "geo"}
<1>1. p \in {1, 2, 3, 4, 5, 6, 7, 8, 9, 10, 11, 12}
  OBVIOUS
<1>2. QED
  BY <1>1, StagesAre DEF StageOrder, Writes, Yields

LEMMA SlotsAre ==
  ASSUME NEW F, Filed(F)
  PROVE  /\ Brnos(F) \in Nat /\ Size(F) = Brnos(F) + 11 /\ Size(F) \in Nat
         /\ \A p \in 1..13 : Slot(F, p) = Brnos(F) + p - 1 /\ Slot(F, p) \in Nat
         /\ F["brno"] \in Seq(DOMAIN Content)
<1>1. "brno" \in Stages
  BY DEF Stages, StageOrder
<1>2. F["brno"] \in Seq(DOMAIN Content) /\ Brnos(F) \in Nat
  BY <1>1 DEF Filed, Parsed, Brnos
<1>3. PICK B \in Nat : B = Brnos(F)
  BY <1>2
<1>4. \A p \in 1..13 : Slot(F, p) = B + p - 1 /\ Slot(F, p) \in Nat
  BY <1>3 DEF Slot
<1>5. Size(F) = B + 11 /\ Size(F) \in Nat
  BY <1>4 DEF Size
<1>6. QED
  BY <1>2, <1>3, <1>4, <1>5

LEMMA SlotIs ==
  ASSUME NEW F, Filed(F), NEW i \in 1..Size(F)
  PROVE  LET s == SlotStage(F, i)
         IN /\ s \in Stages /\ Parsed(s, SlotFiles(F, i))
            /\ i > Slot(F, 3) => "ips" \notin Writes(s)
            /\ i # Slot(F, 4) => "asn" \notin Writes(s)
            /\ i # Slot(F, 10) => "rank" \notin Writes(s)
            /\ i <= Slot(F, 3) => s \in {"brno", "rapid7", "zone"}
            /\ i <= Slot(F, 4) => s \in {"brno", "rapid7", "zone", "geo"}
<1> DEFINE s == SlotStage(F, i)
           Good == /\ s \in Stages /\ Parsed(s, SlotFiles(F, i))
                   /\ i > Slot(F, 3) => "ips" \notin Writes(s)
                   /\ i # Slot(F, 4) => "asn" \notin Writes(s)
                   /\ i # Slot(F, 10) => "rank" \notin Writes(s)
                   /\ i <= Slot(F, 3) => s \in {"brno", "rapid7", "zone"}
                   /\ i <= Slot(F, 4) => s \in {"brno", "rapid7", "zone", "geo"}
<1> SUFFICES Good
  OBVIOUS
<1>1. "brno" \in Stages
  BY DEF Stages, StageOrder
<1>2. PICK B \in Nat : B = Brnos(F)
  BY SlotsAre
<1>3. /\ i \in 1..(B + 11)
      /\ Slot(F, 3) = B + 2 /\ Slot(F, 4) = B + 3 /\ Slot(F, 10) = B + 9
  BY <1>2, SlotsAre
<1>4. CASE i <= B
  <2>1. s = "brno" /\ SlotFiles(F, i) = <<F["brno"][i]>>
    BY <1>2, <1>4 DEF SlotStage, SlotFiles
  <2>2. F["brno"] \in Seq(DOMAIN Content) /\ i \in DOMAIN F["brno"]
    <3>1. F["brno"] \in Seq(DOMAIN Content)
      BY SlotsAre
    <3>2. Len(F["brno"]) = B
      BY <1>2 DEF Brnos
    <3>3. QED
      BY <3>1, <3>2, <1>3, <1>4
  <2>3. Parsed("brno", <<F["brno"][i]>>)
    <3> DEFINE f == F["brno"][i]
               one == <<f>>
    <3>1. f \in DOMAIN Content /\ Range(one) \subseteq Range(F["brno"])
      BY <2>2 DEF Range
    <3>2. Parsed("brno", F["brno"])
      BY <1>1 DEF Filed
    <3>3. \A k \in DOMAIN Content[f] :
            /\ DOMAIN Content[f][k] \subseteq Yields["brno"]
            /\ "brno" \in ListStages => DOMAIN Content[f][k] = Yields["brno"]
      BY <2>2, <3>2 DEF Parsed
    <3>4. \A hit \in SUBSET Range(one) : hit # Null
      BY <3>1, <3>2 DEF Parsed
    <3> HIDE DEF f
    <3>5. one \in Seq(DOMAIN Content) /\ DOMAIN one = {1} /\ one[1] = f
      BY <3>1
    <3> HIDE DEF one
    <3>6. Parsed("brno", one)
      BY <3>3, <3>4, <3>5 DEF Parsed
    <3>7. QED
      BY <3>6 DEF one, f
  <2>4. "asn" \notin Writes("brno") /\ "rank" \notin Writes("brno")
    BY DEF Writes, Yields
  <2> HIDE DEF s
  <2>5. QED
    BY <1>1, <1>3, <1>4, <2>1, <2>3, <2>4
<1>5. CASE i > B
  <2>1. PICK p \in 2..12 : p = i - B + 1
    BY <1>2, <1>3, <1>5
  <2>2. s = StageOrder[p] /\ SlotFiles(F, i) = F[StageOrder[p]]
    BY <1>2, <1>3, <1>5, <2>1 DEF SlotStage, SlotFiles
  <2> HIDE DEF s
  <2>3. /\ i > Slot(F, 3) => p > 3
        /\ i # Slot(F, 4) => p # 4
        /\ i # Slot(F, 10) => p # 10
        /\ i <= Slot(F, 3) => p <= 3
        /\ i <= Slot(F, 4) => p <= 4
    BY <1>2, <1>3, <2>1
  <2>4. StageOrder[p] \in Stages /\ Parsed(StageOrder[p], F[StageOrder[p]])
    BY <2>1, OrderIs DEF Filed
  <2>5. QED
    BY <2>1, <2>2, <2>3, <2>4, OrderIs
<1>6. QED
  BY <1>2, <1>3, <1>4, <1>5

LEMMA SlotOfferIs ==
  ASSUME NEW F, Filed(F), NEW i \in 1..Size(F), NEW d, NEW row, Indexed(row)
  PROVE  IsOffer(SlotStage(F, i), SlotOffer(F, i, d, row))
BY SlotIs, OfferIs, NoOfferIs DEF SlotOffer

(* Offers depend on the row by its addresses and its AS number only, those *)
(* of the stages up to geo by its addresses, up to zone not at all.        *)
LEMMA SameOffers ==
  ASSUME NEW F, Filed(F), NEW i \in 1..Size(F), NEW d, NEW r1, NEW r2,
         i > Slot(F, 3) => r1.ips = r2.ips,
         i > Slot(F, 4) => r1.asn = r2.asn
  PROVE  SlotOffer(F, i, d, r1) = SlotOffer(F, i, d, r2)
<1> DEFINE s == SlotStage(F, i)
           files == SlotFiles(F, i)
<1>1. /\ i <= Slot(F, 3) => s \in {"brno", "rapid7", "zone"}
      /\ i <= Slot(F, 4) => s \in {"brno", "rapid7", "zone", "geo"}
  BY SlotIs
<1>2. Slot(F, 3) \in Nat /\ Slot(F, 4) = Slot(F, 3) + 1
  BY SlotsAre
<1> HIDE DEF s, files
<1>3. CASE i <= Slot(F, 3)
  <2>1. HasKey(s, r1) /\ HasKey(s, r2)
    BY <1>1, <1>3 DEF HasKey
  <2>2. Offer(s, files, d, r1) = Offer(s, files, d, r2)
    BY <1>1, <1>3 DEF Offer
  <2>3. QED
    BY <2>1, <2>2 DEF SlotOffer, s, files
<1>4. CASE i > Slot(F, 3) /\ i <= Slot(F, 4)
  <2>1. s \in {"brno", "rapid7", "zone", "geo"} /\ r1.ips = r2.ips
    BY <1>1, <1>4
  <2>2. HasKey(s, r1) <=> HasKey(s, r2)
    BY <2>1 DEF HasKey
  <2>3. Offer(s, files, d, r1) = Offer(s, files, d, r2)
    BY <2>1 DEF Offer, GeoOffer
  <2>4. QED
    BY <2>2, <2>3 DEF SlotOffer, s, files
<1>5. CASE i > Slot(F, 4)
  <2>1. r1.ips = r2.ips /\ r1.asn = r2.asn
    BY <1>5, <1>2
  <2>2. HasKey(s, r1) <=> HasKey(s, r2)
    BY <2>1 DEF HasKey
  <2>3. Offer(s, files, d, r1) = Offer(s, files, d, r2)
    BY <2>1 DEF Offer, GeoOffer, NetOffer, AsnOffer, IpThreatOffer
  <2>4. QED
    BY <2>2, <2>3 DEF SlotOffer, s, files
<1>6. QED
  BY <1>2, <1>3, <1>4, <1>5

(* The first value offered is there once one is, and never NULL.           *)
LEMMA FirstIs ==
  ASSUME NEW F, Filed(F), NEW d, NEW row, Indexed(row), NEW n \in 0..Size(F), NEW c
  PROVE  LET has == Offering(F, d, row, n, c)
         IN /\ has = {} => First(F, d, row, n, c) = Null
            /\ has # {} => \E j \in has :
                 /\ \A k \in has : j <= k
                 /\ First(F, d, row, n, c) = SlotOffer(F, j, d, row)[c]
                 /\ First(F, d, row, n, c) # Null
<1> DEFINE has == Offering(F, d, row, n, c)
           j == CHOOSE i \in has : \A k \in has : i <= k
<1>1. Size(F) \in Nat
  BY SlotsAre
<1>2. has \in SUBSET (1..n) /\ 1..n \subseteq 1..Size(F) /\ 1..n \subseteq Nat
  BY <1>1 DEF Offering
<1>3. \A i \in has : SlotOffer(F, i, d, row)[c] # Null
  BY <1>2, SlotOfferIs DEF Offering, IsOffer
<1>4. has # {} => j \in has /\ \A k \in has : j <= k
  <2> HIDE DEF has
  <2>1. QED
    BY <1>2, NatHasLeast
<1>5. First(F, d, row, n, c) = IF has = {} THEN Null ELSE SlotOffer(F, j, d, row)[c]
  BY DEF First
<1> HIDE DEF j
<1>6. QED
  BY <1>3, <1>4, <1>5

LEMMA FirstNext ==
  ASSUME NEW F, Filed(F), NEW d, NEW row, Indexed(row), NEW n \in 0..Size(F),
         n + 1 <= Size(F), NEW c
  PROVE  LET old == First(F, d, row, n, c)
             offer == SlotOffer(F, n + 1, d, row)
         IN First(F, d, row, n + 1, c) =
              IF old # Null THEN old ELSE IF c \in DOMAIN offer THEN offer[c] ELSE Null
<1> DEFINE old == First(F, d, row, n, c)
           next == First(F, d, row, n + 1, c)
           offer == SlotOffer(F, n + 1, d, row)
           has == Offering(F, d, row, n, c)
           more == Offering(F, d, row, n + 1, c)
<1>1. Size(F) \in Nat
  BY SlotsAre
<1>2. n + 1 \in 0..Size(F) /\ 1..(n + 1) = 1..n \cup {n + 1}
  BY <1>1
<1>3. more = has \cup (IF c \in DOMAIN offer THEN {n + 1} ELSE {})
  BY <1>2 DEF Offering
<1>4. has \subseteq 1..n
  BY DEF Offering
<1>5. CASE has # {}
  <2>1. PICK i \in has : /\ \A k \in has : i <= k
                         /\ old = SlotOffer(F, i, d, row)[c] /\ old # Null
    BY <1>5, FirstIs
  <2>2. PICK j \in more : /\ \A k \in more : j <= k
                          /\ next = SlotOffer(F, j, d, row)[c]
    BY <1>2, <1>3, <1>5, FirstIs
  <2> HIDE DEF has, more, old, next, offer
  <2>3. i = j
    <3>1. i \in more /\ j <= i
      BY <1>3, <2>1, <2>2
    <3>2. j \in has
      BY <1>1, <1>3, <1>4, <2>2, <3>1
    <3>3. QED
      BY <1>4, <2>1, <3>1, <3>2
  <2>4. QED
    BY <2>1, <2>2, <2>3 DEF old, next
<1>6. CASE has = {}
  <2>1. old = Null
    BY <1>6, FirstIs
  <2>2. CASE c \in DOMAIN offer
    <3>1. more = {n + 1}
      BY <1>3, <1>6, <2>2
    <3>2. PICK j \in more : next = SlotOffer(F, j, d, row)[c]
      BY <1>2, <3>1, FirstIs
    <3>3. next = offer[c]
      BY <3>1, <3>2
    <3> HIDE DEF next, old, offer
    <3>4. QED
      BY <3>3, <2>1, <2>2 DEF next, old, offer
  <2>3. CASE c \notin DOMAIN offer
    <3>1. more = {}
      BY <1>3, <1>6, <2>3
    <3>2. next = Null
      BY <1>2, <3>1, FirstIs
    <3> HIDE DEF next, old, offer
    <3>3. QED
      BY <3>2, <2>1, <2>3 DEF next, old, offer
  <2>4. QED
    BY <2>2, <2>3
<1>7. QED
  BY <1>5, <1>6

LEMMA FirstSame ==
  ASSUME NEW F, NEW d, NEW r1, NEW r2, NEW n \in Nat,
         \A i \in 1..n : SlotOffer(F, i, d, r1) = SlotOffer(F, i, d, r2), NEW c
  PROVE  First(F, d, r1, n, c) = First(F, d, r2, n, c)
<1> DEFINE has == Offering(F, d, r1, n, c)
<1>1. has = Offering(F, d, r2, n, c) /\ has \subseteq 1..n
  BY DEF Offering
<1>2. CASE has = {}
  BY <1>1, <1>2 DEF First
<1>3. CASE has # {}
  <2> DEFINE j == CHOOSE i \in has : \A k \in has : i <= k
  <2>1. j \in has
    <3> HIDE DEF has
    <3>1. has \in SUBSET Nat
      BY <1>1
    <3>2. QED
      BY <3>1, <1>3, LeastIs
  <2>2. First(F, d, r1, n, c) = SlotOffer(F, j, d, r1)[c]
    BY <1>3 DEF First
  <2>3. First(F, d, r2, n, c) = SlotOffer(F, j, d, r2)[c]
    BY <1>1, <1>3 DEF First
  <2>4. SlotOffer(F, j, d, r1) = SlotOffer(F, j, d, r2)
    BY <1>1, <2>1
  <2>5. QED
    BY <2>2, <2>3, <2>4
<1>4. QED
  BY <1>2, <1>3

(* A row that has what n slots offer, joined again with one of them or     *)
(* with the next, has what they all offer.                                 *)
LEMMA JoinExtends ==
  ASSUME NEW F, Filed(F), NEW d, NEW row, Indexed(row),
         NEW n \in 0..Size(F), Prefix(F, d, row, n),
         NEW k \in 1..Size(F), k <= n + 1
  PROVE  LET new == Coalesce(row, SlotOffer(F, k, d, row))
         IN Prefix(F, d, new, IF k <= n THEN n ELSE k)
<1> DEFINE offer == SlotOffer(F, k, d, row)
           new == Coalesce(row, offer)
           m == IF k <= n THEN n ELSE k
<1> SUFFICES Prefix(F, d, new, m)
  OBVIOUS
<1>1. Size(F) \in Nat /\ m \in 0..Size(F)
  BY SlotsAre
<1>2. \A c \in Columns : row[c] = First(F, d, row, n, c)
  BY DEF Prefix
<1>3. IsOffer(SlotStage(F, k), offer)
  BY SlotOfferIs
<1>4. ASSUME NEW c \in Columns, c \in DOMAIN offer, row[c] # Null
      PROVE  new[c] = row[c]
  <2>1. CASE c # "rank"
    BY <1>4, <2>1 DEF Coalesce
  <2>2. CASE c = "rank"
    <3>1. PICK j \in Offering(F, d, row, n, c) : row[c] = SlotOffer(F, j, d, row)[c]
      BY <1>2, <1>4, FirstIs
    <3>2. j \in 1..n /\ c \in DOMAIN SlotOffer(F, j, d, row)
      BY DEF Offering
    <3>3. j \in 1..Size(F)
      BY <1>1, <3>2
    <3>4. "rank" \in Writes(SlotStage(F, j)) /\ "rank" \in Writes(SlotStage(F, k))
      BY <1>3, <1>4, <2>2, <3>2, <3>3, SlotOfferIs DEF IsOffer
    <3>5. j = k
      BY <3>3, <3>4, SlotIs
    <3>6. row[c] = offer[c] /\ offer[c] \in Nat
      BY <1>3, <1>4, <2>2, <3>1, <3>5 DEF IsOffer
    <3> HIDE DEF offer
    <3>7. QED
      BY <3>6, <1>4 DEF Coalesce
  <2>3. QED
    BY <2>1, <2>2
<1>5. ASSUME NEW c \in Columns, k <= n, c \in DOMAIN offer
      PROVE  row[c] # Null
  <2>1. k \in Offering(F, d, row, n, c)
    BY <1>5 DEF Offering
  <2>2. First(F, d, row, n, c) # Null
    BY <2>1, FirstIs
  <2>3. QED
    BY <1>2, <2>2
<1> HIDE DEF offer
<1>6. ASSUME NEW c \in Columns
      PROVE  new[c] = First(F, d, row, m, c)
  <2>1. new[c] = IF row[c] # Null THEN row[c] ELSE IF c \in DOMAIN offer THEN offer[c] ELSE Null
    <3>1. CASE c \in DOMAIN offer /\ row[c] # Null
      BY <1>4, <3>1
    <3>2. CASE c \notin DOMAIN offer \/ row[c] = Null
      BY <3>2 DEF Coalesce
    <3>3. QED
      BY <3>1, <3>2
  <2>2. CASE k <= n
    <3>1. new[c] = row[c] /\ m = n
      BY <1>5, <2>1, <2>2
    <3>2. QED
      BY <3>1, <1>2
  <2>3. CASE ~(k <= n)
    <3>1. k = n + 1 /\ m = n + 1 /\ n + 1 <= Size(F)
      BY <2>3, <1>1
    <3>2. First(F, d, row, n + 1, c) =
            IF row[c] # Null THEN row[c]
            ELSE IF c \in DOMAIN offer THEN offer[c] ELSE Null
      BY <1>2, <3>1, FirstNext DEF offer
    <3> HIDE DEF new, m
    <3>3. QED
      BY <2>1, <3>1, <3>2
  <2>4. QED
    BY <2>2, <2>3
<1>7. ASSUME NEW i \in 1..m
      PROVE  SlotOffer(F, i, d, new) = SlotOffer(F, i, d, row)
  <2>1. i \in 1..Size(F)
    BY <1>1
  <2>2. "ips" \in Columns /\ "asn" \in Columns
    BY DEF Columns
  <2>3. ASSUME NEW c \in Columns, new[c] # row[c]
        PROVE  k = n + 1 /\ i <= k /\ c \in Writes(SlotStage(F, k))
    <3>1. ~(k <= n)
      <4>1. CASE k <= n
        BY <1>6, <1>2, <2>3, <4>1
      <4>2. QED
        BY <4>1
    <3>2. c \in DOMAIN offer
      BY <2>3 DEF Coalesce
    <3>3. QED
      BY <3>1, <3>2, <1>1, <1>3 DEF IsOffer
  <2> HIDE DEF new, m
  <2>4. i > Slot(F, 3) => new["ips"] = row["ips"]
    <3>1. Slot(F, 3) \in Nat
      BY SlotsAre
    <3>2. QED
      BY <2>2, <2>3, <3>1, SlotIs
  <2>5. i > Slot(F, 4) => new["asn"] = row["asn"]
    <3>1. Slot(F, 4) \in Nat
      BY SlotsAre
    <3>2. QED
      BY <2>2, <2>3, <3>1, SlotIs
  <2>6. QED
    BY <2>1, <2>4, <2>5, SameOffers
<1> HIDE DEF new, m
<1>8. QED
  BY <1>1, <1>6, <1>7, FirstSame DEF Prefix

(* The slots of a stage after brno, and those of brno.                     *)
LEMMA StageSlot ==
  ASSUME NEW F, Filed(F), NEW p \in 1..12, p # 1, NEW d, NEW row
  PROVE  LET s == StageOrder[p]
         IN SlotOffer(F, Slot(F, p), d, row) =
              IF F[s] # <<>> /\ HasKey(s, row) THEN Offer(s, F[s], d, row) ELSE NoOffer
<1> DEFINE i == Slot(F, p)
<1>1. PICK B \in Nat : B = Brnos(F)
  BY SlotsAre
<1>2. i = B + p - 1
  <2>1. p \in 1..13
    OBVIOUS
  <2>2. QED
    BY <1>1, <2>1, SlotsAre
<1> HIDE DEF i
<1>3. ~(i <= Brnos(F)) /\ i - Brnos(F) + 1 = p
  BY <1>1, <1>2
<1>4. SlotStage(F, i) = StageOrder[p] /\ SlotFiles(F, i) = F[StageOrder[p]]
  BY <1>3 DEF SlotStage, SlotFiles
<1>5. QED
  BY <1>4 DEF SlotOffer, i

LEMMA BrnoSlot ==
  ASSUME NEW F, NEW i, i <= Brnos(F), NEW d, NEW row
  PROVE  SlotOffer(F, i, d, row) = Offer("brno", <<F["brno"][i]>>, d, row)
BY DEF SlotOffer, SlotStage, SlotFiles, HasKey

LEMMA ReachedJoin ==
  ASSUME NEW F, Filed(F), NEW d, NEW row, Indexed(row),
         NEW k \in 1..Size(F), Reached(F, d, row, k - 1)
  PROVE  LET new == Coalesce(row, SlotOffer(F, k, d, row))
         IN /\ Reached(F, d, new, k)
            /\ \A j \in 0..Size(F) : Reached(F, d, row, j) => Reached(F, d, new, j)
<1> DEFINE new == Coalesce(row, SlotOffer(F, k, d, row))
<1>1. Size(F) \in Nat
  BY SlotsAre
<1>2. ASSUME NEW n \in 0..Size(F), k - 1 <= n, Prefix(F, d, row, n),
             NEW j \in 0..Size(F), j <= n \/ j <= k
      PROVE  Reached(F, d, new, j)
  <2> DEFINE m == IF k <= n THEN n ELSE k
  <2>1. Prefix(F, d, new, m)
    BY <1>1, <1>2, JoinExtends
  <2>2. m \in j..Size(F)
    BY <1>1, <1>2
  <2> HIDE DEF new, m
  <2>3. QED
    BY <2>1, <2>2 DEF Reached
<1>3. PICK n \in (k - 1)..Size(F) : Prefix(F, d, row, n)
  BY DEF Reached
<1>4. n \in 0..Size(F) /\ k - 1 <= n /\ k \in 0..Size(F)
  BY <1>1
<1>5. Reached(F, d, new, k)
  BY <1>1, <1>2, <1>3, <1>4
<1>6. ASSUME NEW j \in 0..Size(F), Reached(F, d, row, j)
      PROVE  Reached(F, d, new, j)
  <2>1. PICK l \in j..Size(F) : Prefix(F, d, row, l)
    BY <1>6 DEF Reached
  <2>2. CASE l <= n
    BY <1>1, <1>2, <1>3, <1>4, <2>1, <2>2
  <2>3. CASE n < l
    <3>1. l \in 0..Size(F) /\ k - 1 <= l /\ j <= l
      BY <1>1, <1>4, <2>1, <2>3
    <3>2. QED
      BY <1>2, <2>1, <3>1
  <2>4. QED
    BY <1>1, <1>4, <2>2, <2>3
<1> HIDE DEF new
<1>7. Reached(F, d, new, k) /\ \A j \in 0..Size(F) : Reached(F, d, row, j) => Reached(F, d, new, j)
  BY <1>5, <1>6
<1>8. QED
  BY <1>7 DEF new

LEMMA ReachedLess ==
  ASSUME NEW F, Filed(F), NEW d, NEW row, NEW k \in Nat, Reached(F, d, row, k),
         NEW j \in 0..k
  PROVE  Reached(F, d, row, j)
<1>1. PICK n \in k..Size(F) : Prefix(F, d, row, n)
  BY DEF Reached
<1>2. n \in j..Size(F)
  BY SlotsAre
<1>3. QED
  BY <1>1, <1>2 DEF Reached

(* A slot that offers nothing is passed.                                   *)
LEMMA ReachedBeyond ==
  ASSUME NEW F, Filed(F), NEW d, NEW row, Indexed(row),
         NEW k \in 1..Size(F), Reached(F, d, row, k - 1),
         SlotOffer(F, k, d, row) = NoOffer
  PROVE  Reached(F, d, row, k)
<1>1. Size(F) \in Nat
  BY SlotsAre
<1>2. PICK n \in (k - 1)..Size(F) : Prefix(F, d, row, n)
  BY DEF Reached
<1>3. CASE n >= k
  <2>1. n \in k..Size(F)
    BY <1>1, <1>3
  <2>2. QED
    BY <1>2, <2>1 DEF Reached
<1>4. CASE n < k
  <2>1. n + 1 = k /\ n \in 0..Size(F) /\ n + 1 <= Size(F)
    BY <1>1, <1>4
  <2>2. \A c : c \notin DOMAIN SlotOffer(F, n + 1, d, row)
    BY <2>1, NoOfferIs
  <2>3. ASSUME NEW c \in Columns PROVE row[c] = First(F, d, row, n + 1, c)
    BY <1>2, <2>1, <2>2, FirstNext DEF Prefix
  <2>4. Prefix(F, d, row, k) /\ k \in k..Size(F)
    BY <1>1, <2>1, <2>3 DEF Prefix
  <2>5. QED
    BY <2>4 DEF Reached
<1>5. QED
  BY <1>1, <1>3, <1>4

(* A row has what all stages before one offer it, if it has it of each of  *)
(* those with files.                                                       *)
LEMMA BaseReached ==
  ASSUME NEW F, Filed(F), NEW d, NEW row, Indexed(row), NEW p \in 1..13, p # 1,
         Reached(F, d, row, 0),
         \A q \in 1..(p - 1) : F[StageOrder[q]] = <<>> \/ Reached(F, d, row, Slot(F, q))
  PROVE  Reached(F, d, row, Slot(F, p) - 1)
<1> DEFINE T == {n \in 0..Size(F) : Prefix(F, d, row, n)}
<1>1. PICK B \in Nat : B = Brnos(F)
  BY SlotsAre
<1>2. /\ Size(F) = B + 11 /\ Size(F) \in Nat
      /\ \A q \in 1..13 : Slot(F, q) = B + q - 1 /\ Slot(F, q) \in Nat
  BY <1>1, SlotsAre
<1>3. T # {} /\ T \in SUBSET (0..(B + 11))
  BY <1>2 DEF Reached
<1>4. PICK n \in T : \A l \in T : l <= n
  <2> HIDE DEF T
  <2>1. B + 11 \in Nat
    OBVIOUS
  <2>2. QED
    BY <1>3, <2>1, NatHasGreatest
<1>5. n \in 0..(B + 11) /\ Prefix(F, d, row, n)
  BY <1>3, <1>4
<1>6. ASSUME NEW j \in Nat, Reached(F, d, row, j) PROVE j <= n
  <2>1. PICK l \in j..Size(F) : Prefix(F, d, row, l)
    BY <1>6 DEF Reached
  <2>2. l \in T
    BY <1>2, <2>1
  <2>3. QED
    BY <1>2, <1>4, <1>5, <2>2
<1> HIDE DEF T
<1>7. SUFFICES ASSUME n < B + p - 2 PROVE FALSE
  <2>0. Slot(F, p) = B + p - 1
    BY <1>2
  <2>1. Slot(F, p) - 1 = B + p - 2
    BY <2>0
  <2>2. n >= B + p - 2 => n \in (B + p - 2)..Size(F)
    BY <1>2, <1>5
  <2>3. QED
    BY <1>5, <2>1, <2>2 DEF Reached
<1>8. CASE n < B
  <2>1. F["brno"] # <<>> /\ StageOrder[1] = "brno" /\ 1 \in 1..(p - 1)
    BY <1>1, <1>5, <1>8 DEF Brnos, StageOrder
  <2>2. Reached(F, d, row, B)
    <3>1. Slot(F, 1) = B
      BY <1>2
    <3>2. QED
      BY <2>1, <3>1
  <2>3. QED
    BY <1>5, <1>6, <1>8, <2>2
<1>9. CASE n >= B
  <2>1. PICK q \in 1..(p - 1) : q # 1 /\ q = n - B + 2
    BY <1>5, <1>7, <1>9
  <2>2. q \in 1..12 /\ q # 1 /\ q \in 1..(p - 1) /\ Slot(F, q) = n + 1 /\ n + 1 \in 1..Size(F)
    <3>0. q \in 1..12 /\ q \in 1..13
      OBVIOUS
    <3>1. q \in 1..12 /\ Slot(F, q) = B + q - 1
      BY <1>2, <3>0
    <3>2. Slot(F, q) = n + 1
      BY <1>5, <2>1, <3>1
    <3>3. n + 1 \in 1..Size(F)
      <4>1. n + 1 \in 1..(B + 11)
        BY <1>5, <1>7
      <4>2. QED
        BY <4>1, <1>2
    <3>4. QED
      BY <2>1, <3>1, <3>2, <3>3
  <2>3. CASE F[StageOrder[q]] = <<>>
    <3>1. SlotOffer(F, n + 1, d, row) = NoOffer
      BY <2>2, <2>3, StageSlot
    <3>2. Reached(F, d, row, n)
      <4>1. n \in n..Size(F)
        <5>1. n \in n..(B + 11)
          BY <1>5
        <5>2. QED
          BY <5>1, <1>2
      <4>2. QED
        BY <1>5, <4>1 DEF Reached
    <3>3. Reached(F, d, row, n + 1)
      <4> DEFINE k == n + 1
      <4>1. k \in 1..Size(F) /\ SlotOffer(F, k, d, row) = NoOffer /\ Reached(F, d, row, k - 1)
        <5>1. k - 1 = n
          BY <1>5
        <5> HIDE DEF k
        <5>2. Reached(F, d, row, k - 1)
          BY <5>1, <3>2
        <5>3. QED
          BY <5>2, <2>2, <3>1 DEF k
      <4> HIDE DEF k
      <4>2. Reached(F, d, row, k)
        BY <4>1, ReachedBeyond
      <4>3. QED
        BY <4>2 DEF k
    <3>4. QED
      BY <1>5, <1>6, <3>3
  <2>4. CASE Reached(F, d, row, Slot(F, q))
    BY <1>5, <1>6, <2>2, <2>4
  <2>5. QED
    BY <2>2, <2>3, <2>4
<1>10. QED
  BY <1>5, <1>8, <1>9

LEMMA NothingReached ==
  ASSUME NEW F, Filed(F), NEW d
  PROVE  Reached(F, d, NoRow, 0)
<1>1. ASSUME NEW c \in Columns PROVE NoRow[c] = First(F, d, NoRow, 0, c)
  BY DEF NoRow, First, Offering
<1>2. 0 \in 0..Size(F)
  BY SlotsAre
<1>3. QED
  BY <1>1, <1>2 DEF Reached, Prefix
-----------------------------------------------------------------------------
(* The history behind a table, when a script gives the same files          *)
(* throughout.                                                             *)
Files == [s \in Stages |-> FilesOf(s)]

(* How far the row is that is committed, and the one the process sees.     *)
Saved(d, k) == Reached(Files, d, disk.rows[d], k)
Shown(d, k) == Reached(Files, d, rows[d], k)

(* Stage p is behind: every row has what is offered up to it.              *)
Settled(p) == \A d \in known : Saved(d, Slot(Files, p))

(* The table gets the whole input, before any stage begins.                *)
TheInput == script[1].input

InputKnown ==
  /\ known \cup toAdd \subseteq TheInput
  /\ phase = "normalize" => known \cup toAdd = TheInput
  /\ phase \in {"stages", "export"} => known = TheInput
  /\ meta["normalize"] = "done" => known = TheInput
  /\ line > Len(script) => known = TheInput
  /\ line <= Len(script) => (cmd.input = {} => known = TheInput)
  /\ \A s \in Stages : meta[s] = "done" => known = TheInput
  /\ \A i \in 1..(line - 1) : script[i].retry => known = TheInput

Rests == phase \in {"idle", "normalize"} => stage = 1 /\ step = "check"

(* A row is never behind the one committed.                                *)
Grows ==
  \A d \in Domains :
    /\ Saved(d, 0)
    /\ \A k \in 0..Size(Files) : Saved(d, k) => Shown(d, k)

(* A flag set tells that the row is past the stage, "done" that all are,   *)
(* and so do the commands that are over, and the stages passed.            *)
Flagged(s) == s \notin {"brno", "rapid7", "zone", "ct", "rdap"}

FlagsTell ==
  \A p \in 1..12 : Flagged(StageOrder[p]) =>
    \A d \in Domains :
      /\ StageOrder[p] \in disk.done[d] => Saved(d, Slot(Files, p))
      /\ StageOrder[p] \in done[d] => Shown(d, Slot(Files, p))

MarksTell == \A p \in 1..12 : meta[StageOrder[p]] = "done" => Settled(p)

Behind(p) == (phase = "stages" /\ p < stage) \/ phase = "export"

LinesTell ==
  \A p \in 1..12 :
    /\ \A i \in 1..(line - 1) : script[i].retry /\ Gives(i, StageOrder[p]) => Settled(p)
    /\ Behind(p) /\ Gives(line, StageOrder[p]) => Settled(p)

(* Within a stage: brno is past b files and joins the next, the other      *)
(* stages join theirs.                                                     *)
BrnoAt(b) ==
  /\ unread = SubSeq(Given, b + 1, Len(Given))
  /\ \A d \in known : Saved(d, b) /\ (d \notin left => Shown(d, b + 1))

InWork ==
  phase = "stages" /\ stage <= 12 =>
    /\ step # "check" => Given # <<>>
    /\ step \in {"flags", "finish"} => Settled(stage)
    /\ step = "work" =>
         IF Stage = "brno" THEN \E b \in 0..(Len(Given) - 1) : BrnoAt(b)
         ELSE unread = Given /\ \A d \in known \ left : Shown(d, Slot(Files, stage))

History ==
  InputKnown /\ Rests /\ Grows /\ FlagsTell /\ MarksTell /\ LinesTell /\ InWork

HistoryTold == SameThroughout => History
-----------------------------------------------------------------------------
LEMMA ScriptIs ==
  ASSUME TypeOK
  PROVE  /\ script \in Scripts /\ script # <<>> /\ 1 \in DOMAIN script
         /\ Len(script) \in Nat /\ DOMAIN script = 1..Len(script)
         /\ line \in 1..(Len(script) + 1)
         /\ \A i \in DOMAIN script : \A s \in Stages :
              script[i].files[s] \in Seq(Range(script[i].files[s]))
<1>1. script \in Scripts /\ line \in 1..(Len(script) + 1)
  BY DEF TypeOK
<1>2. script \in Seq(Range(script)) /\ script # <<>>
  BY <1>1, PipelineAssumption DEF IsList
<1>3. Len(script) \in Nat /\ DOMAIN script = 1..Len(script) /\ Len(script) # 0
  BY <1>2
<1>4. \A i \in DOMAIN script : \A s \in Stages :
        script[i].files[s] \in Seq(Range(script[i].files[s]))
  BY <1>1, PipelineAssumption DEF IsList
<1>5. QED
  BY <1>1, <1>2, <1>3, <1>4

LEMMA FilesFiled ==
  ASSUME TypeOK
  PROVE  Filed(Files)
<1> SUFFICES ASSUME NEW s \in Stages PROVE Parsed(s, FilesOf(s))
  BY DEF Filed, Files
<1> DEFINE gives == {i \in DOMAIN script : script[i].files[s] # <<>>}
           last == CHOOSE i \in gives : \A j \in gives : j <= i
<1>1. CASE gives = {}
  <2>1. FilesOf(s) = <<>>
    BY <1>1 DEF FilesOf
  <2>2. <<>> \in Seq(Range(script[1].files[s]) \cap DOMAIN Content)
    OBVIOUS
  <2>3. QED
    BY <2>1, <2>2, ScriptIs, GivenParsed
<1>2. CASE gives # {}
  <2>1. gives \in SUBSET (0..Len(script)) /\ Len(script) \in Nat
    BY ScriptIs
  <2>2. last \in gives
    <3> HIDE DEF gives
    <3>1. QED
      BY <1>2, <2>1, NatHasGreatest
  <2>3. FilesOf(s) = Existing(script[last].files[s])
    BY <1>2 DEF FilesOf
  <2> HIDE DEF last
  <2>4. last \in DOMAIN script
    BY <2>2
  <2>5. FilesOf(s) \in Seq(Range(script[last].files[s]) \cap DOMAIN Content)
    BY <2>3, <2>4, ScriptIs, ExistingIsSome
  <2>6. QED
    BY <2>4, <2>5, ScriptIs, GivenParsed
<1>3. QED
  BY <1>1, <1>2

(* With the same files throughout, the files of a stage are what any       *)
(* command gives that gives some, and all of them are found.               *)
LEMMA FilesAre ==
  ASSUME TypeOK, SameFilesGiven, NEW s \in Stages
  PROVE  /\ \A i \in DOMAIN script : Gives(i, s) =>
              /\ Files[s] = script[i].files[s]
              /\ Existing(script[i].files[s]) = script[i].files[s]
         /\ Files[s] # <<>> => \E i \in DOMAIN script : Gives(i, s)
<1> DEFINE gives == {i \in DOMAIN script : script[i].files[s] # <<>>}
           last == CHOOSE i \in gives : \A j \in gives : j <= i
<1>1. Files[s] = FilesOf(s)
  BY DEF Files
<1>2. ASSUME NEW i \in DOMAIN script, Gives(i, s)
      PROVE  Existing(script[i].files[s]) = script[i].files[s]
  <2>1. script[i].files[s] \in Seq(Range(script[i].files[s]))
    BY ScriptIs
  <2>2. \A n \in DOMAIN script[i].files[s] : script[i].files[s][n] \in DOMAIN Content
    BY <1>2 DEF SameFilesGiven
  <2>3. DOMAIN script[i].files[s] = 1..Len(script[i].files[s])
    BY <2>1
  <2>4. QED
    BY <2>1, <2>2, <2>3, ExistingIsAll
<1>3. CASE gives = {}
  BY <1>1, <1>3 DEF FilesOf, Gives
<1>4. CASE gives # {}
  <2>1. gives \in SUBSET (0..Len(script)) /\ Len(script) \in Nat
    BY ScriptIs
  <2>2. last \in gives
    <3> HIDE DEF gives
    <3>1. QED
      BY <1>4, <2>1, NatHasGreatest
  <2>3. FilesOf(s) = Existing(script[last].files[s])
    BY <1>4 DEF FilesOf
  <2> HIDE DEF last
  <2>4. last \in DOMAIN script /\ Gives(last, s)
    BY <2>2 DEF Gives
  <2>5. Files[s] = script[last].files[s]
    BY <1>1, <1>2, <2>3, <2>4
  <2>6. ASSUME NEW i \in DOMAIN script, Gives(i, s)
        PROVE  Files[s] = script[i].files[s]
    BY <2>4, <2>5, <2>6 DEF SameFilesGiven
  <2>7. QED
    BY <1>2, <2>4, <2>6
<1>5. QED
  BY <1>3, <1>4

(* The rows of a stage that a command gave before are past it.             *)
LEMMA LinesBehind ==
  ASSUME TypeOK, SameThroughout, LinesTell, NEW p \in 1..12,
         Behind(p) \/ line > Len(script),
         NEW k \in DOMAIN script, k <= line, Gives(k, StageOrder[p])
  PROVE  Settled(p)
<1>1. line \in 1..(Len(script) + 1) /\ Len(script) \in Nat /\ DOMAIN script = 1..Len(script)
  BY ScriptIs
<1>2. /\ \A i \in 1..(line - 1) : script[i].retry /\ Gives(i, StageOrder[p]) => Settled(p)
      /\ Behind(p) /\ Gives(line, StageOrder[p]) => Settled(p)
  BY DEF LinesTell
<1>3. ASSUME NEW i \in DOMAIN script, i <= line, script[i].retry, Gives(i, StageOrder[p])
      PROVE  Settled(p)
  <2>1. CASE i = line
    BY <1>1, <1>2, <1>3, <2>1
  <2>2. CASE i # line
    <3>1. i \in 1..(line - 1)
      BY <1>1, <1>3, <2>2
    <3>2. QED
      BY <1>2, <1>3, <3>1
  <2>3. QED
    BY <2>1, <2>2
<1>4. CASE k = line
  BY <1>1, <1>2, <1>4
<1>5. CASE k # line /\ ~script[k].retry
  <2>1. k < Len(script) /\ script[k + 1].retry /\ script[k + 1].files = script[k].files
    BY <1>5 DEF SameThroughout, GivenUpForTheSame
  <2>2. k + 1 \in DOMAIN script /\ k + 1 <= line
    BY <1>1, <1>5, <2>1
  <2>3. Gives(k + 1, StageOrder[p])
    BY <2>1 DEF Gives
  <2>4. QED
    BY <1>3, <2>1, <2>2, <2>3
<1>6. QED
  BY <1>3, <1>4, <1>5

(* The rows are past all stages before one whose files are given.          *)
LEMMA BaseIs ==
  ASSUME IInv, Grows, NEW p \in 1..13, p # 1, NEW d \in known,
         \A q \in 1..(p - 1) : Files[StageOrder[q]] = <<>> \/ Settled(q)
  PROVE  Saved(d, Slot(Files, p) - 1)
<1>1. d \in Domains
  BY DEF IInv, TypeOK
<1>2. Filed(Files) /\ Indexed(disk.rows[d]) /\ Reached(Files, d, disk.rows[d], 0)
  BY <1>1, FilesFiled DEF IInv, Located, Grows, Saved
<1>3. \A q \in 1..(p - 1) : Files[StageOrder[q]] = <<>>
                            \/ Reached(Files, d, disk.rows[d], Slot(Files, q))
  BY DEF Settled, Saved
<1>4. Reached(Files, d, disk.rows[d], Slot(Files, p) - 1)
  BY <1>2, <1>3, BaseReached
<1>5. QED
  BY <1>4 DEF Saved

LEMMA StageBase ==
  ASSUME IInv, SameThroughout, Grows, LinesTell,
         phase = "stages", stage \in 1..12, stage # 1, Given # <<>>, NEW d \in known
  PROVE  Shown(d, Slot(Files, stage) - 1)
<1>1. TypeOK /\ DOMAIN StageOrder = 1..12
  BY StagesAre DEF IInv, StageOrder
<1>2. line \in DOMAIN script
  BY <1>1, ScriptIs, CommandIs DEF IInv, Place
<1>3. Gives(line, StageOrder[stage])
  BY DEF Gives, Given, cmd, Stage
<1>4. ASSUME NEW q \in 1..(stage - 1), Files[StageOrder[q]] # <<>>
      PROVE  Settled(q)
  <2>1. q \in 1..12 /\ q < stage
    OBVIOUS
  <2>2. StageOrder[q] \in Stages
    BY <2>1, OrderIs
  <2>3. PICK i \in DOMAIN script : Gives(i, StageOrder[q])
    BY <1>1, <1>4, <2>2, FilesAre DEF SameThroughout
  <2>4. PICK k \in 1..line : Gives(k, StageOrder[q])
    BY <1>1, <1>2, <1>3, <2>1, <2>3 DEF SameThroughout, GivenInOrder
  <2>5. k \in DOMAIN script /\ k <= line
    BY <1>1, <1>2, ScriptIs
  <2>6. Behind(q)
    BY <2>1 DEF Behind
  <2>7. QED
    BY <1>1, <2>1, <2>4, <2>5, <2>6, LinesBehind
<1>5. Saved(d, Slot(Files, stage) - 1)
  <2>1. stage \in 1..13
    OBVIOUS
  <2>2. QED
    BY <1>4, <2>1, BaseIs
<1>6. Slot(Files, stage) - 1 \in 0..Size(Files)
  <2>1. PICK B \in Nat : B = Brnos(Files)
    BY <1>1, FilesFiled, SlotsAre
  <2>2. Slot(Files, stage) = B + stage - 1 /\ Size(Files) = B + 11
    <3>1. stage \in 1..13
      OBVIOUS
    <3>2. QED
      BY <1>1, <2>1, <3>1, FilesFiled, SlotsAre
  <2>3. QED
    BY <2>2
<1>7. d \in Domains
  BY <1>1 DEF TypeOK
<1>8. QED
  BY <1>5, <1>6, <1>7 DEF Grows

LEMMA GivenIs ==
  ASSUME IInv, SameThroughout, phase = "stages", stage \in 1..12, Given # <<>>
  PROVE  Files[Stage] = Given /\ Found = Given /\ Given \in Seq(Range(Given))
<1>1. TypeOK /\ Stage \in Stages
  BY StagesAre DEF IInv, Stage
<1>2. line \in DOMAIN script
  BY <1>1, ScriptIs, CommandIs DEF IInv, Place
<1>3. Gives(line, Stage)
  BY DEF Gives, Given, cmd
<1>4. QED
  BY <1>1, <1>2, <1>3, FilesAre, ScriptIs DEF SameThroughout, Found, Given, cmd

(* The slot of a join: the row joined is past the ones before it.          *)
LEMMA JoinSlot ==
  ASSUME IInv, SameThroughout, Grows, LinesTell, InWork, InStage("work"), NEW d \in left
  PROVE  \E k \in 1..Size(Files) :
           /\ Shown(d, k - 1)
           /\ Offer(Stage, Joined, d, rows[d]) = SlotOffer(Files, k, d, rows[d])
           /\ IF Stage = "brno" THEN k - 1 \in 0..(Len(Given) - 1) /\ BrnoAt(k - 1)
              ELSE k = Slot(Files, stage)
<1>1. /\ TypeOK /\ Filed(Files)
      /\ phase = "stages" /\ stage \in 1..12 /\ step = "work"
      /\ d \in known /\ d \in Domains
  BY InStageIs, FilesFiled DEF IInv, TypeOK, InStage
<1>2. Given # <<>> /\ Files[Stage] = Given /\ Given \in Seq(Range(Given))
  BY <1>1, GivenIs DEF InWork
<1>3. PICK B \in Nat : B = Brnos(Files)
  BY <1>1, SlotsAre
<1>4. stage \in 1..13
  BY <1>1
<1>5. /\ Size(Files) = B + 11
      /\ Slot(Files, stage) = B + stage - 1
  BY <1>1, <1>3, <1>4, SlotsAre
<1>6. CASE Stage = "brno"
  <2>1. PICK b \in 0..(Len(Given) - 1) : BrnoAt(b)
    BY <1>1, <1>6 DEF InWork
  <2>2. Len(Given) = B /\ B \in Nat
    BY <1>2, <1>3, <1>6 DEF Brnos
  <2>3. b \in Nat /\ b + 1 \in 1..Len(Given) /\ b + 1 \in 1..(B + 11) /\ b \in 0..(B + 11)
    BY <2>2
  <2>4. b + 1 \in 1..Size(Files) /\ b \in 0..Size(Files) /\ b + 1 - 1 = b
    BY <2>3, <1>5
  <2>5. Shown(d, b)
    BY <1>1, <2>1, <2>4 DEF BrnoAt, Grows
  <2>6. Joined = <<Given[b + 1]>>
    <3>1. Head(SubSeq(Given, b + 1, Len(Given))) = Given[b + 1]
      BY <1>2, <2>3
    <3>2. QED
      BY <1>6, <2>1, <3>1 DEF Joined, BrnoAt
  <2>7. Offer(Stage, Joined, d, rows[d]) = SlotOffer(Files, b + 1, d, rows[d])
    <3>1. b + 1 <= Brnos(Files)
      BY <1>3, <2>2, <2>3
    <3>2. QED
      BY <1>2, <1>6, <2>6, <3>1, BrnoSlot
  <2> DEFINE k == b + 1
  <2>8. k - 1 = b /\ k \in 1..Size(Files)
    BY <2>3, <2>4
  <2>9. Offer(Stage, Joined, d, rows[d]) = SlotOffer(Files, k, d, rows[d])
    BY <2>7
  <2> HIDE DEF k
  <2>10. QED
    BY <1>6, <2>1, <2>5, <2>8, <2>9
<1>7. CASE Stage # "brno"
  <2>1. stage # 1
    BY <1>1, <1>7 DEF Stage, StageOrder
  <2>2. Joined = Given /\ HasKey(Stage, rows[d])
    BY <1>1, <1>7 DEF InWork, Joined, IInv, Located
  <2>3. Offer(Stage, Joined, d, rows[d]) = SlotOffer(Files, Slot(Files, stage), d, rows[d])
    BY <1>1, <1>2, <2>1, <2>2, StageSlot DEF Stage
  <2>4. Shown(d, Slot(Files, stage) - 1)
    BY <1>1, <1>2, <2>1, StageBase
  <2>5. Slot(Files, stage) \in 1..Size(Files)
    BY <1>1, <1>5, <2>1
  <2>6. QED
    BY <1>7, <2>3, <2>4, <2>5
<1>8. QED
  BY <1>6, <1>7

(* What a join of one row does.                                            *)
LEMMA AfterJoin ==
  ASSUME IInv, SameThroughout, Grows, LinesTell, InWork, JoinRow
  PROVE  \E d \in left :
           /\ left' = left \ {d}
           /\ done' = IF FlagsEachRow THEN [done EXCEPT ![d] = @ \cup {Stage}] ELSE done
           /\ \A e \in Domains \ {d} : rows'[e] = rows[e]
           /\ \A k \in 0..Size(Files) : Shown(d, k) => Reached(Files, d, rows'[d], k)
           /\ IF Stage = "brno"
              THEN \E b \in 0..(Len(Given) - 1) :
                     BrnoAt(b) /\ Reached(Files, d, rows'[d], b + 1)
              ELSE Reached(Files, d, rows'[d], Slot(Files, stage))
<1>1. PICK d \in left :
        /\ rows' = [rows EXCEPT ![d] = Coalesce(@, Offer(Stage, Joined, d, @))]
        /\ done' = IF FlagsEachRow THEN [done EXCEPT ![d] = @ \cup {Stage}] ELSE done
        /\ left' = left \ {d}
  BY DEF JoinRow
<1>2. InStage("work") /\ TypeOK /\ Filed(Files)
  BY FilesFiled DEF JoinRow, IInv
<1>3. d \in Domains /\ Indexed(rows[d])
  BY DEF IInv, TypeOK, Located
<1>4. PICK k \in 1..Size(Files) :
        /\ Shown(d, k - 1)
        /\ Offer(Stage, Joined, d, rows[d]) = SlotOffer(Files, k, d, rows[d])
        /\ IF Stage = "brno" THEN k - 1 \in 0..(Len(Given) - 1) /\ BrnoAt(k - 1)
           ELSE k = Slot(Files, stage)
  BY <1>2, JoinSlot
<1>5. /\ rows'[d] = Coalesce(rows[d], SlotOffer(Files, k, d, rows[d]))
      /\ \A e \in Domains \ {d} : rows'[e] = rows[e]
  BY <1>1, <1>3, <1>4 DEF IInv, Tables
<1>6. /\ Reached(Files, d, rows'[d], k)
      /\ \A j \in 0..Size(Files) : Shown(d, j) => Reached(Files, d, rows'[d], j)
  BY <1>2, <1>3, <1>4, <1>5, ReachedJoin DEF Shown
<1>7. CASE Stage = "brno"
  <2>1. k - 1 \in 0..(Len(Given) - 1) /\ BrnoAt(k - 1) /\ (k - 1) + 1 = k
    BY <1>4, <1>7
  <2>2. QED
    BY <1>1, <1>5, <1>6, <1>7, <2>1
<1>8. CASE Stage # "brno"
  BY <1>1, <1>4, <1>5, <1>6, <1>8
<1>9. QED
  BY <1>7, <1>8
-----------------------------------------------------------------------------
Told == IInv /\ SameThroughout /\ History

LEMMA ScriptStays ==
  ASSUME Next
  PROVE  /\ script' = script /\ Files' = Files /\ TheInput' = TheInput
         /\ SameThroughout => SameThroughout'
<1>1. script' = script
  BY DEF Next, Start, AddChunk, NormalizeDone, NoFiles, ForgetFlags, MarkPending, AlreadyDone,
     NotDone, NothingFound, Open, JoinRow, EndJoin, FlagAll, StageDone, AllStagesPassed,
     Export, Crash, Rest, user, vars
<1>2. \A s : FilesOf(s)' = FilesOf(s)
  BY <1>1 DEF FilesOf
<1>3. Files' = Files
  BY <1>2 DEF Files
<1>4. SameThroughout => SameThroughout'
  BY <1>1 DEF SameThroughout, OneInput, SameFilesGiven, GivenInOrder, GivenUpForTheSame, Gives
<1>5. QED
  BY <1>1, <1>3, <1>4 DEF TheInput

(* Only a join and a kill change what the process sees, only a commit what *)
(* is committed.                                                           *)
LEMMA RowsStay ==
  ASSUME IInv, Next
  PROVE  /\ disk' = disk \/ (disk' = [rows |-> rows, done |-> done'] /\ rows' = rows)
         /\ ~JoinRow /\ ~Crash => rows' = rows
         /\ Crash => rows' = disk.rows /\ done' = disk.done
         /\ JoinRow \/ Crash => disk' = disk
<1>1. CASE Start \/ AddChunk \/ NormalizeDone \/ NoFiles \/ MarkPending \/ AlreadyDone
           \/ NotDone \/ NothingFound \/ Open \/ StageDone \/ AllStagesPassed \/ Export
  <2>1. rows' = rows /\ disk' = disk
    BY <1>1 DEF Start, AddChunk, NormalizeDone, NoFiles, MarkPending, AlreadyDone,
         NotDone, NothingFound, Open, StageDone, AllStagesPassed, Export, table
  <2>2. ~Crash \/ (rows' = disk.rows /\ done' = disk.done)
    BY DEF Crash
  <2>3. QED
    BY <2>1, <2>2
<1>2. CASE ForgetFlags \/ EndJoin \/ FlagAll
  <2>1. rows' = rows /\ Commit /\ phase = "stages" /\ phase' = phase
    BY <1>2 DEF ForgetFlags, EndJoin, FlagAll, HasFiles, InStage
  <2>2. ~Crash
    BY <2>1 DEF Crash, Stops
  <2>3. JoinRow => disk' = disk
    BY DEF JoinRow
  <2>4. QED
    BY <2>1, <2>2, <2>3 DEF Commit
<1>3. CASE JoinRow
  <2>1. phase' = phase /\ phase = "stages" /\ disk' = disk
    BY <1>3 DEF JoinRow, InStage
  <2>2. ~Crash
    BY <2>1 DEF Crash, Stops
  <2>3. QED
    BY <1>3, <2>1, <2>2
<1>4. CASE Crash
  BY <1>4 DEF Crash
<1>5. CASE Rest
  <2>1. rows' = rows /\ disk' = disk /\ phase = "idle"
    BY <1>5 DEF Rest, vars, table, Over
  <2>2. ~Crash
    BY <2>1 DEF Crash
  <2>3. QED
    BY <2>1, <2>2
<1>6. QED
  BY <1>1, <1>2, <1>3, <1>4, <1>5 DEF Next

(* Rows never fall behind, but for what a kill loses.                      *)
LEMMA RowsNext ==
  ASSUME Told, Next, NEW d \in Domains, NEW k \in 0..Size(Files)
  PROVE  /\ Saved(d, k) => Saved(d, k)'
         /\ Shown(d, k) /\ ~Crash => Shown(d, k)'
         /\ Saved(d, k)' => Shown(d, k)'
         /\ Commits /\ Shown(d, k) => Saved(d, k)'
<1> USE DEF Told, History
<1>1. Files' = Files
  BY ScriptStays
<1>2. Saved(d, k) => Shown(d, k)
  BY DEF Grows
<1>3. /\ Saved(d, k)' <=> Reached(Files, d, disk'.rows[d], k)
      /\ Shown(d, k)' <=> Reached(Files, d, rows'[d], k)
  BY <1>1 DEF Saved, Shown
<1>4. CASE JoinRow
  <2>1. disk' = disk
    BY <1>4, RowsStay
  <2>2. Shown(d, k) => Reached(Files, d, rows'[d], k)
    <3>1. PICK e \in left :
            /\ \A x \in Domains \ {e} : rows'[x] = rows[x]
            /\ \A j \in 0..Size(Files) : Shown(e, j) => Reached(Files, e, rows'[e], j)
      BY <1>4, AfterJoin
    <3>2. QED
      BY <3>1 DEF Shown
  <2>3. Saved(d, k)' <=> Saved(d, k)
    BY <1>3, <2>1 DEF Saved
  <2>4. Commits => rows' = rows /\ disk'.rows = rows
    BY DEF Commits
  <2>5. QED
    BY <1>2, <1>3, <2>2, <2>3, <2>4 DEF Shown
<1>5. CASE Crash
  <2>1. disk' = disk /\ rows' = disk.rows
    BY <1>5, RowsStay
  <2>2. QED
    BY <1>3, <1>5, <2>1 DEF Saved, Shown, Commits
<1>6. CASE ~JoinRow /\ ~Crash
  <2>1. rows' = rows /\ (disk' = disk \/ disk'.rows = rows)
    BY <1>6, RowsStay
  <2>2. QED
    BY <1>2, <1>3, <2>1 DEF Saved, Shown, Commits
<1>7. QED
  BY <1>4, <1>5, <1>6

LEMMA GrowsNext ==
  ASSUME Told, Next
  PROVE  Grows'
<1>1. Files' = Files
  BY ScriptStays
<1>2. 0 \in 0..Size(Files)
  BY FilesFiled, SlotsAre DEF Told, IInv
<1>3. \A d \in Domains : Saved(d, 0)'
  BY <1>2, RowsNext DEF Told, History, Grows
<1>4. \A d \in Domains : \A k \in 0..Size(Files) : Saved(d, k)' => Shown(d, k)'
  BY RowsNext
<1>5. QED
  BY <1>1, <1>3, <1>4 DEF Grows

(* Where a step leads.                                                     *)
LEMMA InputKnownNext ==
  ASSUME Told, Next
  PROVE  InputKnown' /\ Rests'
<1> USE DEF Told, History
<1>1. /\ script' = script /\ TheInput' = TheInput
      /\ line \in 1..(Len(script) + 1) /\ Len(script) \in Nat /\ DOMAIN script = 1..Len(script)
  BY ScriptStays, ScriptIs DEF IInv
<1>2. InputKnown /\ Rests
  OBVIOUS
<1>3. CASE Start
  <2>1. /\ known' = known /\ line' = line /\ stage' = stage /\ step' = step /\ phase = "idle"
        /\ line <= Len(script)
    BY <1>3 DEF Start, user
  <2>2. CASE cmd.input # {} /\ ("normalize" \in cmd.force \/ meta["normalize"] # "done")
    <3>1. /\ phase' = "normalize" /\ toAdd' = cmd.input
          /\ meta' = [meta EXCEPT !["normalize"] = "running"]
      BY <1>3, <2>2 DEF Start, MarkStage
    <3>2. cmd.input = TheInput
      BY <1>1, <2>1, <2>2 DEF SameThroughout, OneInput, cmd, TheInput
    <3>3. known' \cup toAdd' = TheInput
      BY <2>1, <3>1, <3>2, <1>2 DEF InputKnown
    <3>4. \A s \in Stages : meta'[s] = "done" => meta[s] = "done"
      BY <3>1 DEF IInv, TypeOK
    <3>5. meta'["normalize"] # "done"
      BY <3>1 DEF IInv, TypeOK
    <3>6. cmd' = cmd
      BY <1>1, <2>1 DEF cmd
    <3>7. QED
      BY <1>1, <1>2, <2>1, <3>1, <3>3, <3>4, <3>5, <3>6 DEF InputKnown, Rests
  <2>3. CASE ~(cmd.input # {} /\ ("normalize" \in cmd.force \/ meta["normalize"] # "done"))
    <3>1. phase' = "stages" /\ toAdd' = {} /\ meta' = meta
      BY <1>3, <2>3 DEF Start
    <3>2. known = TheInput
      BY <1>2, <2>1, <2>3 DEF InputKnown
    <3>3. QED
      BY <1>1, <2>1, <3>1, <3>2 DEF InputKnown, Rests
  <2>4. QED
    BY <2>2, <2>3
<1>4. CASE AddChunk
  <2>1. /\ known' \cup toAdd' = known \cup toAdd /\ known \subseteq known' /\ phase = "normalize"
        /\ phase' = phase /\ meta' = meta /\ line' = line /\ stage' = stage /\ step' = step
    BY <1>4 DEF AddChunk, user
  <2>2. known = TheInput => known' = TheInput
    BY <1>2, <2>1 DEF InputKnown
  <2>3. cmd' = cmd
    BY <1>1, <2>1 DEF cmd
  <2>4. QED
    BY <1>1, <1>2, <2>1, <2>2, <2>3 DEF InputKnown, Rests
<1>5. CASE NormalizeDone
  <2>1. /\ known' = known /\ toAdd' = toAdd /\ toAdd = {} /\ phase = "normalize"
        /\ phase' = "stages" /\ line' = line /\ stage' = stage /\ step' = step
    BY <1>5 DEF NormalizeDone, user
  <2>2. known = TheInput
    BY <1>2, <2>1 DEF InputKnown
  <2>3. QED
    BY <1>1, <2>1, <2>2 DEF InputKnown, Rests
<1>6. CASE InStage(step) /\ ~Crash /\ ~Start /\ ~AddChunk /\ ~NormalizeDone /\ ~AllStagesPassed
           /\ ~Export /\ ~Rest
  <2>1. phase = "stages" /\ phase' = phase /\ known' = known /\ toAdd' = toAdd /\ line' = line
    BY <1>6 DEF InStage, Next, NoFiles, ForgetFlags, MarkPending, AlreadyDone, NotDone,
         NothingFound, Open, JoinRow, EndJoin, FlagAll, StageDone, user
  <2>2. known = TheInput
    BY <1>2, <2>1 DEF InputKnown
  <2>3. QED
    BY <1>1, <1>2, <2>1, <2>2 DEF InputKnown, Rests
<1>7. CASE AllStagesPassed \/ Export
  <2>1. known' = known /\ known = TheInput /\ toAdd' \subseteq toAdd
    BY <1>2, <1>7 DEF AllStagesPassed, Export, InputKnown, Stops
  <2>2. Rests'
    BY <1>7 DEF AllStagesPassed, Export, Stops, Rests
  <2>3. phase' # "normalize"
    BY <1>7 DEF AllStagesPassed, Export, Stops
  <2>4. QED
    BY <1>1, <1>2, <2>1, <2>2, <2>3 DEF InputKnown
<1>8. CASE Crash
  <2>1. /\ known' = known /\ toAdd' = {} /\ meta' = meta /\ phase' = "idle"
        /\ stage' = 1 /\ step' = "check" /\ phase # "idle" /\ line <= Len(script)
        /\ line' = IF cmd.retry THEN line ELSE line + 1
    BY <1>8 DEF Crash, Stops, IInv, Place
  <2>2. CASE cmd.retry
    <3>1. cmd' = cmd /\ line' = line
      BY <1>1, <2>1, <2>2 DEF cmd
    <3>2. QED
      BY <1>1, <1>2, <2>1, <3>1 DEF InputKnown, Rests
  <2>3. CASE ~cmd.retry
    <3>1. line \in DOMAIN script /\ ~script[line].retry
      BY <1>1, <2>1, <2>3 DEF cmd
    <3>2. line < Len(script) /\ script[line + 1].input = script[line].input
      BY <3>1 DEF SameThroughout, GivenUpForTheSame
    <3>3. cmd'.input = cmd.input /\ line' = line + 1
      BY <1>1, <2>1, <2>3, <3>2 DEF cmd
    <3>4. \A i \in 1..(line' - 1) : script'[i].retry => i \in 1..(line - 1)
      BY <1>1, <3>1, <3>3
    <3>5. QED
      BY <1>1, <1>2, <2>1, <3>2, <3>3, <3>4 DEF InputKnown, Rests
  <2>4. QED
    BY <2>2, <2>3
<1>9. CASE Rest
  <2>1. UNCHANGED <<known, meta, script, line, phase, toAdd, stage, step>>
    BY <1>9 DEF Rest, vars
  <2>2. cmd' = cmd
    BY <2>1 DEF cmd
  <2>3. QED
    BY <1>1, <1>2, <2>1, <2>2 DEF InputKnown, Rests
<1>10. QED
  <2>1. NoFiles \/ ForgetFlags \/ MarkPending \/ AlreadyDone \/ NotDone \/ NothingFound \/ Open
        \/ JoinRow \/ EndJoin \/ FlagAll \/ StageDone => InStage(step)
    BY DEF NoFiles, ForgetFlags, MarkPending, AlreadyDone, NotDone, NothingFound, Open,
       JoinRow, EndJoin, FlagAll, StageDone, HasFiles, InStage
  <2>2. QED
    BY <1>3, <1>4, <1>5, <1>6, <1>7, <1>8, <1>9, <2>1 DEF Next

LEMMA SlotBound ==
  ASSUME TypeOK, NEW p \in 1..12
  PROVE  Slot(Files, p) \in 0..Size(Files)
<1>1. Filed(Files) /\ p \in 1..13
  BY FilesFiled
<1>2. PICK B \in Nat : B = Brnos(Files)
  BY <1>1, SlotsAre
<1>3. Slot(Files, p) = B + p - 1 /\ Size(Files) = B + 11
  BY <1>1, <1>2, SlotsAre
<1>4. QED
  BY <1>3

LEMMA OrderDistinct ==
  ASSUME NEW p \in 1..12, NEW q \in 1..12, StageOrder[p] = StageOrder[q]
  PROVE  p = q
<1>1. p \in {1, 2, 3, 4, 5, 6, 7, 8, 9, 10, 11, 12} /\ q \in {1, 2, 3, 4, 5, 6, 7, 8, 9, 10, 11, 12}
  OBVIOUS
<1>2. QED
  BY <1>1 DEF StageOrder

LEMMA SettledStays ==
  ASSUME Told, Next, NEW p \in 1..12, Settled(p), known = TheInput
  PROVE  Settled(p)'
<1>1. Files' = Files /\ TheInput' = TheInput
  BY ScriptStays
<1>2. known' \subseteq known /\ known \subseteq Domains
  BY <1>1, InputKnownNext DEF InputKnown, Told, IInv, TypeOK
<1>3. PICK k \in 0..Size(Files) : k = Slot(Files, p)
  BY SlotBound DEF Told, IInv
<1>4. ASSUME NEW d \in known' PROVE Saved(d, k)'
  BY <1>2, <1>3, RowsNext DEF Settled
<1>5. QED
  BY <1>1, <1>3, <1>4 DEF Settled, Saved

(* A commit of rows past the stage settles it.                             *)
LEMMA SettledNow ==
  ASSUME Told, Next, NEW p \in 1..12, Commits, known' = known,
         \A d \in known : Shown(d, Slot(Files, p))
  PROVE  Settled(p)'
<1>1. Files' = Files
  BY ScriptStays
<1>2. known \subseteq Domains
  BY DEF Told, IInv, TypeOK
<1>3. PICK k \in 0..Size(Files) : k = Slot(Files, p)
  BY SlotBound DEF Told, IInv
<1>4. ASSUME NEW d \in known' PROVE Saved(d, k)'
  BY <1>2, <1>3, RowsNext
<1>5. QED
  BY <1>1, <1>3, <1>4 DEF Settled, Saved

LEMMA FlagsNext ==
  ASSUME Told, Next
  PROVE  FlagsTell'
<1> USE DEF Told, History
<1>1. Files' = Files
  BY ScriptStays
<1> SUFFICES ASSUME NEW p \in 1..12, Flagged(StageOrder[p]), NEW d \in Domains,
                    NEW k \in 0..Size(Files), k = Slot(Files, p)
             PROVE  /\ StageOrder[p] \in disk'.done[d] => Saved(d, k)'
                    /\ StageOrder[p] \in done'[d] => Shown(d, k)'
  <2>1. \A p \in 1..12 : Slot(Files, p) \in 0..Size(Files)
    BY SlotBound DEF IInv
  <2>2. ASSUME NEW p \in 1..12, Flagged(StageOrder[p]), NEW d \in Domains
        PROVE  /\ StageOrder[p] \in disk'.done[d] => Reached(Files, d, disk'.rows[d], Slot(Files, p))
               /\ StageOrder[p] \in done'[d] => Reached(Files, d, rows'[d], Slot(Files, p))
    BY <1>1, <2>1, <2>2 DEF Saved, Shown
  <2>3. QED
    BY <1>1, <2>2 DEF FlagsTell, Saved, Shown
<1> DEFINE s == StageOrder[p]
<1>2. k \in 0..Size(Files) /\ s \in Stages
  BY OrderIs
<1>3. /\ s \in disk.done[d] => Saved(d, k)
      /\ s \in done[d] => Shown(d, k)
  BY DEF FlagsTell
<1>4. /\ Saved(d, k) => Saved(d, k)' /\ Shown(d, k)'
      /\ Shown(d, k) /\ ~Crash => Shown(d, k)'
      /\ Commits /\ Shown(d, k) => Saved(d, k)'
  BY <1>2, RowsNext
<1> HIDE DEF s
<1>5. CASE Start \/ AddChunk \/ NormalizeDone \/ NoFiles \/ MarkPending \/ AlreadyDone
           \/ NotDone \/ NothingFound \/ Open \/ StageDone \/ AllStagesPassed \/ Export \/ Rest
  <2>1. done' = done /\ disk' = disk
    BY <1>5 DEF Start, AddChunk, NormalizeDone, NoFiles, MarkPending, AlreadyDone,
         NotDone, NothingFound, Open, StageDone, AllStagesPassed, Export, Rest, vars, table
  <2>2. Crash => done' = disk.done
    BY RowsStay
  <2>3. QED
    BY <1>3, <1>4, <2>1, <2>2 DEF s
<1>6. CASE ForgetFlags
  <2>1. done'[d] \subseteq done[d] /\ Commits /\ disk'.done = done' /\ ~Crash
    BY <1>6 DEF ForgetFlags, Commit, Commits, HasFiles, InStage, Crash, Stops
  <2>2. QED
    BY <1>3, <1>4, <2>1 DEF s
<1>7. CASE JoinRow
  <2>1. PICK e \in left :
          /\ done' = IF FlagsEachRow THEN [done EXCEPT ![e] = @ \cup {Stage}] ELSE done
          /\ IF Stage = "brno" THEN TRUE ELSE Reached(Files, e, rows'[e], Slot(Files, stage))
    BY <1>7, AfterJoin
  <2>2. disk' = disk /\ ~Crash
    BY <1>7 DEF JoinRow, InStage, Crash, Stops
  <2>3. ASSUME s \in done'[d] PROVE Shown(d, k)'
    <3>1. CASE s \in done[d]
      BY <1>3, <1>4, <2>2, <3>1
    <3>2. CASE s \notin done[d]
      <4>1. d = e /\ s = Stage /\ Stage # "brno"
        BY <2>1, <2>3, <3>2 DEF FlagsEachRow, IInv, TypeOK
      <4>2. stage \in 1..12
        BY <1>7, InStageIs DEF JoinRow, IInv
      <4>3. p = stage
        BY <4>1, <4>2, OrderDistinct DEF s, Stage
      <4>4. QED
        BY <1>1, <2>1, <4>1, <4>3 DEF Shown
    <3>3. QED
      BY <3>1, <3>2
  <2>4. QED
    BY <1>3, <1>4, <2>2, <2>3 DEF s
<1>8. CASE EndJoin
  <2>1. Commits /\ disk'.done = done' /\ ~Crash
    BY <1>8 DEF EndJoin, Commit, Commits, InStage, Crash, Stops
  <2>2. s \in done'[d] => s \in done[d]
    <3>1. FlagsEachRow <=> Flagged(Stage)
      BY DEF FlagsEachRow, Flagged
    <3>2. CASE done' = done
      BY <3>2
    <3>3. CASE done' # done
      <4>1. ~Flagged(Stage) /\ done'[d] \subseteq done[d] \cup {Stage}
        BY <1>8, <3>1, <3>3 DEF EndJoin
      <4>2. QED
        BY <4>1 DEF s
    <3>4. QED
      BY <3>2, <3>3
  <2>3. QED
    BY <1>3, <1>4, <2>1, <2>2 DEF s
<1>9. CASE FlagAll
  <2>1. Commits /\ disk'.done = done' /\ ~Crash
    BY <1>9 DEF FlagAll, Commit, Commits, InStage, Crash, Stops
  <2>2. ASSUME s \in done'[d] PROVE Shown(d, k)
    <3>1. CASE s \in done[d]
      BY <1>3, <3>1
    <3>2. CASE s \notin done[d]
      <4>1. d \in known /\ s = Stage /\ step = "flags" /\ phase = "stages" /\ stage <= 12
        BY <1>9, <2>2, <3>2, StagesAre DEF FlagAll, InStage
      <4>2. stage \in 1..12
        BY <1>9, InStageIs DEF FlagAll, IInv
      <4>3. p = stage
        BY <4>1, <4>2, OrderDistinct DEF s, Stage
      <4>4. Settled(stage)
        BY <4>1 DEF InWork
      <4>5. Saved(d, k)
        BY <4>1, <4>3, <4>4 DEF Settled
      <4>6. QED
        BY <1>2, <4>5 DEF Grows
    <3>3. QED
      BY <3>1, <3>2
  <2>3. QED
    BY <1>4, <2>1, <2>2 DEF s
<1>10. CASE Crash
  <2>1. disk' = disk /\ done' = disk.done
    BY <1>10, RowsStay
  <2>2. QED
    BY <1>3, <1>4, <2>1 DEF s
<1>11. QED
  BY <1>5, <1>6, <1>7, <1>8, <1>9, <1>10 DEF Next

LEMMA MarksNext ==
  ASSUME Told, Next
  PROVE  MarksTell'
<1> USE DEF Told, History
<1> SUFFICES ASSUME NEW p \in 1..12, meta'[StageOrder[p]] = "done"
             PROVE  Settled(p)'
  BY DEF MarksTell
<1> DEFINE s == StageOrder[p]
<1>1. s \in Stages /\ s \notin {"normalize", "export"}
  <2>1. s \in Stages
    BY OrderIs
  <2>2. QED
    BY <2>1 DEF Stages, StageOrder
<1>2. meta[s] = "done" \/ (StageDone /\ s = Stage)
  <2>1. CASE meta' = meta
    BY <2>1
  <2>2. CASE meta' # meta
    <3>1. PICK x, st :
            /\ meta' = [meta EXCEPT ![x] = st]
            /\ \/ x \in {"normalize", "export"}
               \/ st # "done"
               \/ StageDone /\ x = Stage
      <4>1. CASE Start
        BY <4>1, <2>2 DEF Start, MarkStage
      <4>2. CASE NormalizeDone
        BY <4>2 DEF NormalizeDone, MarkStage
      <4>3. CASE MarkPending
        <5>1. meta' = [meta EXCEPT ![Stage] = "pending"] /\ "pending" # "done"
          BY <4>3 DEF MarkPending, MarkStage
        <5>2. QED
          BY <5>1
      <4>4. CASE Open
        <5>1. meta' = [meta EXCEPT ![Stage] = "running"] /\ "running" # "done"
          BY <4>4 DEF Open, MarkStage
        <5>2. QED
          BY <5>1
      <4>5. CASE StageDone
        BY <4>5 DEF StageDone, MarkStage
      <4>6. CASE AllStagesPassed \/ Export
        BY <4>6, <2>2 DEF AllStagesPassed, Export, MarkStage
      <4>7. CASE AddChunk \/ NoFiles \/ ForgetFlags \/ AlreadyDone \/ NotDone \/ NothingFound
                 \/ JoinRow \/ EndJoin \/ FlagAll \/ Crash \/ Rest
        BY <4>7, <2>2 DEF AddChunk, NoFiles, ForgetFlags, AlreadyDone, NotDone, NothingFound,
             JoinRow, EndJoin, FlagAll, Crash, Rest, vars
      <4>8. QED
        BY <4>1, <4>2, <4>3, <4>4, <4>5, <4>6, <4>7 DEF Next
    <3>2. meta \in [Stages \cup {"normalize", "export"} -> {"none", "pending", "running", "done"}]
      BY DEF IInv, TypeOK
    <3> HIDE DEF s
    <3>3. QED
      BY <3>1, <3>2, <1>1 DEF s
  <2>3. QED
    BY <2>1, <2>2
<1>3. CASE meta[s] = "done"
  <2>1. Settled(p) /\ known = TheInput
    BY <1>1, <1>3 DEF MarksTell, InputKnown
  <2>2. QED
    BY <2>1, SettledStays
<1>4. CASE StageDone /\ s = Stage
  <2>1. stage \in 1..12 /\ phase = "stages" /\ step = "finish"
    BY <1>4, InStageIs DEF StageDone, InStage, IInv
  <2>2. p = stage
    BY <1>4, <2>1, OrderDistinct DEF Stage
  <2>3. Settled(p) /\ known = TheInput
    BY <2>1, <2>2 DEF InWork, InputKnown
  <2>4. QED
    BY <2>3, SettledStays
<1>5. QED
  BY <1>2, <1>3, <1>4

LEMMA LinesNext ==
  ASSUME Told, Next
  PROVE  LinesTell'
<1> USE DEF Told, History
<1>1. /\ script' = script /\ DOMAIN script = 1..Len(script)
      /\ line \in 1..(Len(script) + 1) /\ Len(script) \in Nat
  BY ScriptStays, ScriptIs DEF IInv
<1>2. TypeOK /\ stage \in 1..13
  BY StagesAre DEF IInv, TypeOK
<1> SUFFICES ASSUME NEW p \in 1..12
             PROVE  /\ \A i \in 1..(line' - 1) :
                         script[i].retry /\ Gives(i, StageOrder[p]) => Settled(p)'
                    /\ Behind(p)' /\ script[line'].files[StageOrder[p]] # <<>> => Settled(p)'
  BY <1>1 DEF LinesTell, Gives
<1>3. /\ \A i \in 1..(line - 1) : script[i].retry /\ Gives(i, StageOrder[p]) => Settled(p)
      /\ Behind(p) /\ Gives(line, StageOrder[p]) => Settled(p)
      /\ Behind(p) => known = TheInput
  BY DEF LinesTell, InputKnown, Behind
<1>4. ASSUME NEW i \in 1..(line' - 1), script[i].retry, Gives(i, StageOrder[p])
      PROVE  Settled(p)'
  <2>1. CASE i \in 1..(line - 1)
    <3>1. Settled(p) /\ known = TheInput
      BY <1>3, <1>4, <2>1 DEF InputKnown
    <3>2. QED
      BY <3>1, SettledStays
  <2>2. CASE i \notin 1..(line - 1)
    <3>1. line' = line \/ (line' = line + 1 /\ (AllStagesPassed \/ Export \/ (Crash /\ ~cmd.retry)))
      BY DEF Next, Start, AddChunk, NormalizeDone, NoFiles, ForgetFlags, MarkPending,
         AlreadyDone, NotDone, NothingFound, Open, JoinRow, EndJoin, FlagAll, StageDone,
         AllStagesPassed, Export, Crash, Rest, user, vars
    <3>2. line' = line + 1 /\ i = line
      BY <1>1, <1>4, <2>2, <3>1
    <3>3. AllStagesPassed \/ Export
      BY <1>1, <1>4, <3>1, <3>2 DEF cmd
    <3>4. Behind(p)
      BY <1>2, <3>3, StagesAre DEF AllStagesPassed, Export, Behind
    <3>5. QED
      BY <1>3, <1>4, <3>2, <3>4, SettledStays
  <2>3. QED
    BY <2>1, <2>2
<1>5. ASSUME Behind(p)', script[line'].files[StageOrder[p]] # <<>>
      PROVE  Settled(p)'
  <2>1. ASSUME Behind(p), line' = line PROVE Settled(p)'
    BY <1>3, <1>5, <2>1, SettledStays DEF Gives
  <2>2. (phase' = "stages" /\ p < stage') \/ phase' = "export"
    BY <1>5 DEF Behind
  <2>3. CASE Start \/ AddChunk \/ NormalizeDone
    <3>1. phase \in {"idle", "normalize"} /\ stage' = stage /\ phase' # "export"
      BY <2>3 DEF Start, AddChunk, NormalizeDone
    <3>2. QED
      BY <2>2, <3>1 DEF Rests
  <2>4. CASE NoFiles \/ AlreadyDone \/ NothingFound \/ StageDone
    <3>1. /\ phase = "stages" /\ stage \in 1..12 /\ stage' = stage + 1 /\ line' = line
          /\ phase' = phase
      BY <1>2, <2>4, StagesAre DEF NoFiles, AlreadyDone, NothingFound, StageDone, HasFiles,
           InStage, NextStage, user
    <3>2. CASE p < stage
      BY <2>1, <3>1, <3>2 DEF Behind
    <3>3. CASE p = stage
      <4>1. Given # <<>>
        BY <1>5, <3>1, <3>3 DEF Given, cmd, Stage
      <4>2. Found # <<>>
        BY <3>1, <4>1, GivenIs
      <4>3. AlreadyDone \/ StageDone
        BY <2>4, <4>1, <4>2 DEF NoFiles, NothingFound
      <4>4. Settled(p)
        <5>1. CASE AlreadyDone
          BY <3>3, <5>1 DEF AlreadyDone, MarksTell, Stage
        <5>2. CASE StageDone
          BY <3>1, <3>3, <5>2 DEF StageDone, InStage, InWork
        <5>3. QED
          BY <4>3, <5>1, <5>2
      <4>5. known = TheInput
        BY <3>1 DEF InputKnown
      <4>6. QED
        BY <4>4, <4>5, SettledStays
    <3>4. QED
      BY <2>2, <3>1, <3>2, <3>3
  <2>5. CASE ForgetFlags \/ MarkPending \/ NotDone \/ Open \/ JoinRow \/ EndJoin \/ FlagAll
    <3>1. stage' = stage /\ phase' = phase /\ line' = line
      BY <2>5 DEF ForgetFlags, MarkPending, NotDone, Open, JoinRow, EndJoin, FlagAll, user
    <3>2. QED
      BY <2>1, <2>2, <3>1 DEF Behind
  <2>6. CASE AllStagesPassed
    <3>1. Behind(p)
      BY <1>2, <2>6, StagesAre DEF AllStagesPassed, Behind
    <3>2. line' = line
      BY <2>2, <2>6 DEF AllStagesPassed, Stops
    <3>3. QED
      BY <2>1, <3>1, <3>2
  <2>7. CASE Export \/ Crash \/ Rest
    <3>1. phase' = "idle"
      BY <2>7 DEF Export, Crash, Stops, Rest, Over, vars
    <3>2. QED
      BY <2>2, <3>1
  <2>8. QED
    BY <2>3, <2>4, <2>5, <2>6, <2>7 DEF Next
<1>6. QED
  BY <1>4, <1>5

(* Blocklists that are empty offer nothing.                                *)
LEMMA EmptyLists ==
  ASSUME NEW files, NEW keys, \A i \in DOMAIN files : Content[files[i]] = NoOffer
  PROVE  ThreatOffer(files, keys) = NoOffer
<1>1. \A i \in DOMAIN files : FirstHit(files[i], keys) = NoOffer
  BY NoOfferIs DEF FirstHit
<1>2. Lists(files, keys) = {}
  BY <1>1 DEF Lists
<1>3. QED
  BY <1>2 DEF ThreatOffer

(* Rows that a stage does not select need not be joined.                   *)
LEMMA OutOfScope ==
  ASSUME Told, InStage("open"), stage # 1, Given # <<>>, NEW d \in known \ Scope
  PROVE  Shown(d, Slot(Files, stage))
<1> USE DEF Told, History
<1>1. /\ TypeOK /\ Filed(Files) /\ stage \in 1..12 /\ phase = "stages"
      /\ d \in Domains /\ Indexed(rows[d])
  BY InStageIs, FilesFiled DEF IInv, TypeOK, InStage, Located
<1>2. Files[Stage] = Given /\ Found = Given
  BY <1>1, GivenIs
<1>3. Shown(d, Slot(Files, stage) - 1) /\ Slot(Files, stage) \in 1..Size(Files)
  <2>1. PICK B \in Nat : B = Brnos(Files)
    BY <1>1, SlotsAre
  <2>2. stage \in 1..13
    BY <1>1
  <2>3. Slot(Files, stage) = B + stage - 1 /\ Size(Files) = B + 11
    BY <1>1, <2>1, <2>2, SlotsAre
  <2>4. QED
    BY <1>1, <2>3, StageBase
<1>4. CASE Flagged(Stage) /\ Stage \in done[d]
  BY <1>1, <1>4 DEF FlagsTell, Stage
<1>5. CASE ~(Flagged(Stage) /\ Stage \in done[d])
  <2>1. \/ ~HasKey(Stage, rows[d])
        \/ Stage = "threat" /\ \A i \in DOMAIN Found : Content[Found[i]] = NoOffer
    <3>1. CASE Stage \in {"brno", "rapid7", "zone", "ct", "rdap"}
      BY <3>1 DEF Scope
    <3>2. CASE Stage \notin {"brno", "rapid7", "zone", "ct", "rdap"}
      <4>1. d \in Pending
        BY <1>5, <3>2 DEF Flagged, Pending
      <4>2. Stage \in {"geo", "netwhois", "peeringdb", "rdns", "threat", "ipthreat", "tranco"}
        BY <1>1, <3>2, StagesAre DEF Stage, Stages, StageOrder
      <4>3. CASE Stage \in {"geo", "netwhois", "rdns", "ipthreat"}
        BY <4>1, <4>3 DEF Scope, HasKey
      <4>4. CASE Stage = "peeringdb"
        BY <4>1, <4>4 DEF Scope, HasKey
      <4>5. CASE Stage \in {"threat", "tranco"}
        BY <4>1, <4>5 DEF Scope
      <4>6. QED
        BY <4>2, <4>3, <4>4, <4>5
    <3>3. QED
      BY <3>1, <3>2
  <2>2. SlotOffer(Files, Slot(Files, stage), d, rows[d]) = NoOffer
    <3>1. CASE ~HasKey(Stage, rows[d])
      BY <1>1, <3>1, StageSlot DEF Stage
    <3>2. CASE HasKey(Stage, rows[d]) /\ Stage = "threat"
               /\ \A i \in DOMAIN Found : Content[Found[i]] = NoOffer
      <4>1. Offer("threat", Given, d, rows[d]) = NoOffer
        BY <1>2, <3>2, EmptyLists DEF Offer, BlocklistOffer
      <4>2. QED
        BY <1>1, <1>2, <3>2, <4>1, StageSlot DEF Stage
    <3>3. QED
      BY <2>1, <3>1, <3>2
  <2>3. QED
    BY <1>1, <1>3, <2>2, ReachedBeyond DEF Shown
<1>6. QED
  BY <1>4, <1>5

LEMMA InWorkNext ==
  ASSUME Told, Next
  PROVE  InWork'
<1> USE DEF Told, History
<1>1. /\ script' = script /\ Files' = Files /\ TypeOK /\ Filed(Files)
  BY ScriptStays, FilesFiled DEF IInv
<1>2. ASSUME NEW d \in Domains, NEW k \in 0..Size(Files)
      PROVE  /\ Saved(d, k) => Saved(d, k)'
             /\ Shown(d, k) /\ ~Crash => Shown(d, k)'
             /\ Commits /\ Shown(d, k) => Saved(d, k)'
  BY RowsNext
<1>3. known \subseteq Domains /\ left \subseteq known
  BY DEF IInv, TypeOK
<1>4. CASE phase' # "stages" \/ step' = "check"
  BY <1>4 DEF InWork
<1>5. CASE Start \/ AddChunk \/ NormalizeDone
  <2>1. phase' # "stages" \/ step' = "check"
    BY <1>5 DEF Start, AddChunk, NormalizeDone, Rests
  <2>2. QED
    BY <1>4, <2>1
<1>6. CASE NoFiles \/ AlreadyDone \/ NothingFound \/ StageDone
  BY <1>4, <1>6 DEF NoFiles, AlreadyDone, NothingFound, StageDone, NextStage
<1>7. CASE AllStagesPassed \/ Export \/ Crash \/ Rest
  <2>1. CASE AllStagesPassed
    <3>1. phase' # "stages"
      BY <2>1 DEF AllStagesPassed, Stops
    <3>2. QED
      BY <1>4, <3>1
  <2>2. CASE Export \/ Crash \/ Rest
    <3>1. phase' # "stages"
      BY <2>2 DEF Export, Crash, Stops, Rest, Over, vars
    <3>2. QED
      BY <1>4, <3>1
  <2>3. QED
    BY <1>7, <2>1, <2>2
<1>8. CASE ForgetFlags \/ MarkPending \/ NotDone \/ Open \/ JoinRow \/ EndJoin \/ FlagAll
  <2>1. /\ phase = "stages" /\ phase' = phase /\ stage' = stage /\ known' = known /\ line' = line
        /\ stage \in 1..12
    BY <1>8, <1>1, StagesAre DEF ForgetFlags, MarkPending, NotDone, Open, JoinRow, EndJoin,
         FlagAll, HasFiles, InStage, user, TypeOK
  <2>2. Stage' = Stage /\ Given' = Given
    BY <1>1, <2>1 DEF Stage, Given, cmd
  <2>3. Given # <<>>
    BY <1>8, <2>1 DEF InWork, ForgetFlags, MarkPending, NotDone, Open, JoinRow, EndJoin,
         FlagAll, HasFiles, InStage
  <2>4. /\ Files[Stage] = Given /\ Found = Given /\ Given \in Seq(Range(Given))
        /\ known = TheInput
    BY <2>1, <2>3, GivenIs DEF InputKnown
  <2>5. ~Crash
    BY <2>1 DEF Crash, Stops
  <2>6. PICK B \in Nat : B = Brnos(Files)
    BY <1>1, SlotsAre
  <2>7. PICK k \in 0..Size(Files) : k = Slot(Files, stage)
    BY <1>1, <2>1, SlotBound
  <2>8. k = B + stage - 1 /\ Size(Files) = B + 11
    <3>1. stage \in 1..13
      BY <2>1
    <3>2. QED
      BY <1>1, <2>6, <2>7, <3>1, SlotsAre
  <2>9. k = Slot(Files, stage)' /\ (Stage = "brno" <=> stage = 1)
    BY <1>1, <2>1, <2>7, OrderIs DEF Stage
  <2>10. Stage = "brno" => Len(Given) = B /\ k = B
    BY <2>4, <2>6, <2>8, <2>9 DEF Brnos
  <2>11. CASE ForgetFlags \/ MarkPending \/ NotDone
    <3>1. step' \in {"pending", "open"}
      BY <2>11 DEF ForgetFlags, MarkPending, NotDone
    <3>2. QED
      BY <2>2, <2>3, <3>1 DEF InWork
  <2>12. CASE FlagAll
    <3>1. Settled(stage) /\ step' = "finish"
      BY <2>1, <2>12 DEF InWork, FlagAll, InStage
    <3>2. Settled(stage)'
      <4>1. PICK p \in 1..12 : p = stage
        BY <2>1
      <4>2. Settled(p)'
        BY <2>4, <3>1, <4>1, SettledStays
      <4>3. QED
        BY <2>1, <4>1, <4>2 DEF Settled
    <3>3. QED
      BY <2>2, <2>3, <3>1, <3>2 DEF InWork
  <2>13. CASE Open
    <3>1. /\ unread' = Given /\ left' = Scope /\ step' = "work" /\ rows' = rows /\ disk' = disk
          /\ InStage("open")
      BY <2>3, <2>4, <2>13 DEF Open, table
    <3>2. CASE Stage = "brno"
      <4>1. 0 \in 0..(Len(Given) - 1) /\ 0 \in 0..Size(Files)
        BY <2>3, <2>4, <2>6, <2>8, <2>10, <3>2
      <4>2. unread' = SubSeq(Given, 0 + 1, Len(Given))
        BY <2>4, <3>1
      <4>3. Scope = known
        BY <3>2 DEF Scope
      <4>4. \A d \in known : Saved(d, 0)'
        BY <1>2, <1>3, <4>1 DEF Grows
      <4>5. BrnoAt(0)'
        BY <2>1, <2>2, <3>1, <4>2, <4>3, <4>4 DEF BrnoAt
      <4>6. \E b \in 0..(Len(Given) - 1) : BrnoAt(b)'
        BY <4>1, <4>5
      <4>7. QED
        BY <2>2, <2>3, <3>1, <3>2, <4>6 DEF InWork
    <3>3. CASE Stage # "brno"
      <4>1. \A d \in known \ Scope : Shown(d, k)'
        BY <1>2, <1>3, <2>3, <2>5, <2>7, <2>9, <3>1, <3>3, OutOfScope
      <4>2. \A d \in known' \ left' : Shown(d, Slot(Files, stage))'
        BY <1>1, <2>1, <2>9, <3>1, <4>1 DEF Shown
      <4>3. QED
        BY <2>2, <2>3, <3>1, <3>3, <4>2 DEF InWork
    <3>4. QED
      BY <3>2, <3>3
  <2>14. CASE JoinRow
    <3>1. step = "work" /\ step' = "work" /\ unread' = unread /\ disk' = disk
      BY <2>14 DEF JoinRow, InStage
    <3>2. PICK e \in left :
            /\ left' = left \ {e}
            /\ IF Stage = "brno"
               THEN \E b \in 0..(Len(Given) - 1) :
                      BrnoAt(b) /\ Reached(Files, e, rows'[e], b + 1)
               ELSE Reached(Files, e, rows'[e], k)
      BY <2>7, <2>14, AfterJoin
    <3>3. CASE Stage = "brno"
      <4>1. PICK b \in 0..(Len(Given) - 1) :
              BrnoAt(b) /\ Reached(Files, e, rows'[e], b + 1)
        BY <3>2, <3>3
      <4>2. b \in 0..Size(Files) /\ b + 1 \in 0..Size(Files)
        <5>1. b \in 0..(B + 11) /\ b + 1 \in 0..(B + 11)
          BY <2>10, <3>3
        <5>2. QED
          BY <5>1, <2>8
      <4>3. \A d \in known : Saved(d, b)'
        BY <1>2, <1>3, <4>1, <4>2 DEF BrnoAt
      <4>4. PICK m \in 0..Size(Files) : m = b + 1
        BY <4>2
      <4>5. ASSUME NEW d \in known, d \notin left' PROVE Shown(d, m)'
        <5>1. CASE d = e
          BY <1>1, <4>1, <4>4, <5>1 DEF Shown
        <5>2. CASE d # e
          <6>1. d \notin left
            BY <3>2, <4>5, <5>2
          <6>2. Shown(d, m)
            BY <4>1, <4>4, <6>1 DEF BrnoAt
          <6>3. QED
            BY <1>2, <1>3, <2>5, <6>2
        <5>3. QED
          BY <5>1, <5>2
      <4>6. BrnoAt(b)'
        BY <2>1, <2>2, <3>1, <4>1, <4>3, <4>4, <4>5 DEF BrnoAt
      <4>7. \E x \in 0..(Len(Given) - 1) : BrnoAt(x)'
        BY <4>6
      <4>8. QED
        BY <2>2, <2>3, <3>1, <3>3, <4>7 DEF InWork
    <3>4. CASE Stage # "brno"
      <4>1. unread = Given /\ \A d \in known \ left : Shown(d, k)
        BY <2>1, <2>7, <3>1, <3>4 DEF InWork
      <4>2. ASSUME NEW d \in known \ left' PROVE Shown(d, k)'
        <5>1. CASE d = e
          BY <1>1, <3>2, <3>4, <5>1 DEF Shown
        <5>2. CASE d # e
          BY <1>2, <1>3, <2>5, <3>2, <4>1, <5>2
        <5>3. QED
          BY <5>1, <5>2
      <4>3. \A d \in known' \ left' : Shown(d, Slot(Files, stage))'
        BY <1>1, <2>1, <2>9, <4>2 DEF Shown
      <4>4. QED
        BY <2>2, <2>3, <3>1, <3>4, <4>1, <4>3 DEF InWork
    <3>5. QED
      BY <3>3, <3>4
  <2>15. CASE EndJoin
    <3>1. step = "work" /\ left = {} /\ Commits
      BY <2>15 DEF EndJoin, InStage, Commit, Commits
    <3>2. ASSUME \A d \in known : Shown(d, k) PROVE Settled(stage)'
      <4>1. PICK p \in 1..12 : p = stage
        BY <2>1
      <4>2. Settled(p)'
        BY <2>1, <2>7, <3>1, <3>2, <4>1, SettledNow
      <4>3. QED
        BY <2>1, <4>1, <4>2 DEF Settled
    <3>3. CASE Stage = "brno"
      <4>1. PICK b \in 0..(Len(Given) - 1) : BrnoAt(b)
        BY <2>1, <3>1, <3>3 DEF InWork
      <4>2. PICK m \in 0..Size(Files) : m = b + 1
        <5>1. b + 1 \in 0..(B + 11)
          BY <2>10, <3>3
        <5>2. QED
          BY <5>1, <2>8
      <4>3. \A d \in known : Shown(d, m)
        BY <3>1, <4>1, <4>2 DEF BrnoAt
      <4>4. m \in 1..Len(Given) /\ Len(Given) \in Nat
        BY <2>4, <4>2
      <4>5. Tail(unread) = SubSeq(Given, m + 1, Len(Given))
        BY <2>4, <4>1, <4>2, <4>4 DEF BrnoAt
      <4>6. CASE Tail(unread) = <<>>
        <5>1. m = Len(Given)
          <6>1. PICK L \in Nat : L = Len(Given)
            BY <4>4
          <6>2. Len(SubSeq(Given, m + 1, L)) = IF m + 1 <= L THEN L - m ELSE 0
            BY <2>4, <4>4, <6>1
          <6>3. Len(SubSeq(Given, m + 1, L)) = 0
            BY <4>5, <4>6, <6>1
          <6>4. m \in 1..L
            BY <4>4, <6>1
          <6>5. QED
            BY <6>1, <6>2, <6>3, <6>4
        <5>2. Settled(stage)' /\ step' = "flags"
          BY <2>10, <2>15, <3>2, <3>3, <4>3, <4>6, <5>1 DEF EndJoin
        <5>3. QED
          BY <2>2, <2>3, <5>2 DEF InWork
      <4>7. CASE Tail(unread) # <<>>
        <5>1. m # Len(Given)
          BY <2>4, <4>5, <4>7
        <5>2. m \in 0..(Len(Given) - 1)
          BY <4>4, <5>1
        <5>3. step' = "work" /\ left' = known /\ unread' = SubSeq(Given, m + 1, Len(Given))
          BY <2>15, <3>3, <4>5, <4>7 DEF EndJoin
        <5>4. \A d \in known : Saved(d, m)'
          BY <1>2, <1>3, <3>1, <4>3
        <5>5. BrnoAt(m)'
          BY <2>1, <2>2, <5>3, <5>4 DEF BrnoAt
        <5>6. \E x \in 0..(Len(Given) - 1) : BrnoAt(x)'
          BY <5>2, <5>5
        <5>7. QED
          BY <2>2, <2>3, <3>3, <5>3, <5>6 DEF InWork
      <4>8. QED
        BY <4>6, <4>7
    <3>4. CASE Stage # "brno"
      <4>1. \A d \in known : Shown(d, k)
        BY <2>1, <2>7, <3>1, <3>4 DEF InWork
      <4>2. Settled(stage)' /\ step' = "finish"
        BY <2>15, <3>2, <3>4, <4>1 DEF EndJoin
      <4>3. QED
        BY <2>2, <2>3, <4>2 DEF InWork
    <3>5. QED
      BY <3>3, <3>4
  <2>16. QED
    BY <1>8, <2>11, <2>12, <2>13, <2>14, <2>15
<1>9. QED
  BY <1>5, <1>6, <1>7, <1>8 DEF Next

LEMMA ToldNext ==
  ASSUME IInv, HistoryTold, [Next]_vars
  PROVE  HistoryTold'
<1>1. CASE Next
  <2>1. SameThroughout' => SameThroughout
    <3>1. script' = script
      BY <1>1, ScriptStays
    <3>2. QED
      BY <3>1 DEF SameThroughout, OneInput, SameFilesGiven, GivenInOrder, GivenUpForTheSame, Gives
  <2>2. ASSUME SameThroughout PROVE History'
    <3>1. Told
      BY <2>2 DEF Told, HistoryTold
    <3>2. QED
      BY <1>1, <3>1, InputKnownNext, GrowsNext, FlagsNext, MarksNext, LinesNext, InWorkNext
         DEF History
  <2>3. QED
    BY <2>1, <2>2 DEF HistoryTold
<1>2. CASE UNCHANGED vars
  <2>1. UNCHANGED <<known, meta, disk, rows, done, script, line, phase, toAdd, stage, step,
                    unread, left, crashes>>
    BY <1>2 DEF vars, table, inStage, user
  <2>2. \A s : FilesOf(s)' = FilesOf(s)
    BY <2>1 DEF FilesOf
  <2>3. Files' = Files
    BY <2>2 DEF Files
  <2>4. Stage' = Stage /\ Given' = Given /\ cmd' = cmd /\ TheInput' = TheInput
    BY <2>1 DEF Stage, Given, cmd, TheInput
  <2>5. SameThroughout' <=> SameThroughout
    BY <2>1 DEF SameThroughout, OneInput, SameFilesGiven, GivenInOrder, GivenUpForTheSame, Gives
  <2>6. InputKnown' <=> InputKnown
    BY <2>1, <2>4 DEF InputKnown
  <2>7. Rests' <=> Rests
    BY <2>1 DEF Rests
  <2>8. Grows' <=> Grows
    BY <2>1, <2>3 DEF Grows, Saved, Shown
  <2>9. FlagsTell' <=> FlagsTell
    BY <2>1, <2>3 DEF FlagsTell, Saved, Shown
  <2>10. \A p : Settled(p)' <=> Settled(p)
    BY <2>1, <2>3 DEF Settled, Saved
  <2>11. MarksTell' <=> MarksTell
    BY <2>1, <2>10 DEF MarksTell
  <2>12. LinesTell' <=> LinesTell
    BY <2>1, <2>10 DEF LinesTell, Behind, Gives
  <2>13. \A b : BrnoAt(b)' <=> BrnoAt(b)
    BY <2>1, <2>3, <2>4 DEF BrnoAt, Saved, Shown
  <2>14. Settled(stage)' <=> Settled(stage)
    BY <2>1, <2>3 DEF Settled, Saved
  <2>15. InWork' <=> InWork
    BY <2>1, <2>3, <2>4, <2>13, <2>14 DEF InWork, Shown
  <2>16. QED
    BY <2>5, <2>6, <2>7, <2>8, <2>9, <2>11, <2>12, <2>15 DEF HistoryTold, History
<1>3. QED
  BY <1>1, <1>2

LEMMA InitTold == Init => HistoryTold
<1> SUFFICES ASSUME Init, SameThroughout PROVE History
  BY DEF HistoryTold
<1>1. IInv /\ TypeOK /\ Filed(Files)
  BY InitIInv, FilesFiled DEF IInv
<1>2. /\ line = 1 /\ line <= Len(script) /\ cmd.input # {}
      /\ 1..(line - 1) = {}
  <2>1. line = 1 /\ Len(script) \in Nat /\ 1 \in DOMAIN script /\ DOMAIN script = 1..Len(script)
    BY <1>1, ScriptIs DEF Init
  <2>2. script[1].input # {}
    BY DEF SameThroughout, OneInput
  <2>3. QED
    BY <2>1, <2>2 DEF cmd
<1>3. \A s \in Stages : meta[s] = "none"
  BY DEF Init
<1>4. meta["normalize"] = "none"
  BY DEF Init
<1>5. InputKnown /\ Rests
  BY <1>2, <1>3, <1>4 DEF InputKnown, Rests, Init
<1>6. \A d \in Domains : rows[d] = NoRow /\ disk.rows[d] = NoRow
                         /\ done[d] = {} /\ disk.done[d] = {}
  BY DEF Init, NoRows
<1>7. Grows
  BY <1>1, <1>6, NothingReached DEF Grows, Saved, Shown
<1>8. FlagsTell
  BY <1>6 DEF FlagsTell
<1>9. MarksTell
  BY <1>3, OrderIs DEF MarksTell
<1>10. LinesTell
  BY <1>2 DEF LinesTell, Behind, Init
<1>11. InWork
  BY DEF InWork, Init
<1>12. QED
  BY <1>5, <1>7, <1>8, <1>9, <1>10, <1>11 DEF History

LEMMA HistoryAlways == Spec => [](IInv /\ HistoryTold)
<1>1. Init => IInv /\ HistoryTold
  BY InitIInv, InitTold
<1>2. IInv /\ HistoryTold /\ [Next]_vars => (IInv /\ HistoryTold)'
  BY NextIInv, ToldNext
<1>3. QED
  BY <1>1, <1>2, PTL DEF Spec
-----------------------------------------------------------------------------
(* What the slots offer is what the stages offer.                          *)
LEMMA SlotsOffer ==
  ASSUME TypeOK, NEW d, NEW row
  PROVE  /\ DOMAIN OffersTo(d, row) = 1..Size(Files)
         /\ \A i \in 1..Size(Files) : OffersTo(d, row)[i] = SlotOffer(Files, i, d, row)
<1> DEFINE brno == FilesOf("brno")
           later == Tail(StageOrder)
           first == [i \in DOMAIN brno |-> Offer("brno", <<brno[i]>>, d, row)]
           rest == [i \in DOMAIN later |->
                      IF FilesOf(later[i]) # <<>> /\ HasKey(later[i], row)
                      THEN Offer(later[i], FilesOf(later[i]), d, row) ELSE NoOffer]
<1>1. Filed(Files) /\ Files["brno"] = brno
  BY FilesFiled DEF Files, Stages, StageOrder
<1>2. PICK B \in Nat : B = Brnos(Files) /\ Size(Files) = B + 11 /\ brno \in Seq(DOMAIN Content)
  BY <1>1, SlotsAre
<1>3. Len(brno) = B /\ DOMAIN brno = 1..B
  BY <1>1, <1>2 DEF Brnos
<1>4. Len(later) = 11 /\ DOMAIN later = 1..11 /\ \A i \in 1..11 : later[i] = StageOrder[i + 1]
  BY DEF StageOrder
<1> HIDE DEF later
<1>5. /\ first = [i \in 1..B |-> first[i]] /\ rest = [i \in 1..11 |-> rest[i]]
      /\ \A i \in 1..11 : rest[i] = IF FilesOf(later[i]) # <<>> /\ HasKey(later[i], row)
                                  THEN Offer(later[i], FilesOf(later[i]), d, row)
                                  ELSE NoOffer
  BY <1>3, <1>4
<1>6. OffersTo(d, row) = first \o rest
  BY DEF OffersTo, later
<1>7. \A i \in 1..B : first[i] = SlotOffer(Files, i, d, row)
  BY <1>1, <1>2, <1>3, BrnoSlot
<1>8. ASSUME NEW i \in 1..11 PROVE rest[i] = SlotOffer(Files, B + i, d, row)
  <2>1. PICK p \in 1..12 : p = i + 1 /\ p # 1
    OBVIOUS
  <2>2. later[i] = StageOrder[p] /\ StageOrder[p] \in Stages
    BY <1>4, <2>1, OrderIs
  <2>3. Slot(Files, p) = B + i
    <3>1. p \in 1..13
      OBVIOUS
    <3>2. Slot(Files, p) = B + p - 1
      BY <1>1, <1>2, <3>1, SlotsAre
    <3>3. QED
      BY <2>1, <3>2
  <2>4. Files[StageOrder[p]] = FilesOf(StageOrder[p])
    BY <2>2 DEF Files
  <2>5. rest[i] = IF FilesOf(StageOrder[p]) # <<>> /\ HasKey(StageOrder[p], row)
                  THEN Offer(StageOrder[p], FilesOf(StageOrder[p]), d, row) ELSE NoOffer
    BY <1>5, <2>2
  <2>6. SlotOffer(Files, Slot(Files, p), d, row)
          = IF Files[StageOrder[p]] # <<>> /\ HasKey(StageOrder[p], row)
            THEN Offer(StageOrder[p], Files[StageOrder[p]], d, row) ELSE NoOffer
    BY <1>1, <2>1, StageSlot
  <2>7. QED
    BY <2>3, <2>4, <2>5, <2>6
<1> HIDE DEF first, rest
<1>9. /\ DOMAIN (first \o rest) = 1..(B + 11)
      /\ \A i \in 1..(B + 11) : (first \o rest)[i] = IF i <= B THEN first[i] ELSE rest[i - B]
  <2> DEFINE T == {first[i] : i \in 1..B} \cup {rest[i] : i \in 1..11}
  <2>1. /\ \A i \in 1..B : first[i] \in T
        /\ \A i \in 1..11 : rest[i] \in T
    OBVIOUS
  <2> HIDE DEF T
  <2>2. ASSUME NEW n \in Nat, NEW s \in [1..n -> T] PROVE s \in Seq(T) /\ Len(s) = n
    OBVIOUS
  <2>3. first \in [1..B -> T]
    BY <1>5, <2>1
  <2>4. rest \in [1..11 -> T]
    BY <1>5, <2>1
  <2>5. first \in Seq(T) /\ Len(first) = B
    BY <2>2, <2>3
  <2>6. rest \in Seq(T) /\ Len(rest) = 11
    BY <2>2, <2>4
  <2>7. ASSUME NEW s \in Seq(T), NEW t \in Seq(T)
        PROVE  /\ DOMAIN (s \o t) = 1..(Len(s) + Len(t))
               /\ \A i \in 1..(Len(s) + Len(t)) :
                    (s \o t)[i] = IF i <= Len(s) THEN s[i] ELSE t[i - Len(s)]
    OBVIOUS
  <2>8. QED
    BY <2>5, <2>6, <2>7
<1>10. ASSUME NEW i \in 1..(B + 11) PROVE (first \o rest)[i] = SlotOffer(Files, i, d, row)
  <2>1. CASE i <= B
    BY <1>7, <1>9, <2>1
  <2>2. CASE ~(i <= B)
    <3>1. i - B \in 1..11 /\ B + (i - B) = i
      BY <2>2
    <3>2. QED
      BY <1>8, <1>9, <2>2, <3>1
  <2>3. QED
    BY <2>1, <2>2
<1>11. QED
  BY <1>2, <1>6, <1>9, <1>10

LEMMA AllOffered ==
  ASSUME TypeOK, NEW d, NEW row
  PROVE  DeterminedByFiles(d, row) <=> Prefix(Files, d, row, Size(Files))
<1> DEFINE n == Size(Files)
           has(c) == {i \in DOMAIN OffersTo(d, row) : c \in DOMAIN OffersTo(d, row)[i]}
<1>1. ASSUME NEW c PROVE FirstOffered(OffersTo(d, row), c) = First(Files, d, row, n, c)
  <2>1. has(c) = Offering(Files, d, row, n, c)
    BY SlotsOffer DEF Offering
  <2>2. CASE has(c) = {}
    BY <2>1, <2>2 DEF FirstOffered, First
  <2>3. CASE has(c) # {}
    <3> DEFINE j == CHOOSE i \in has(c) : \A k \in has(c) : i <= k
    <3>1. j \in has(c) /\ j \in 1..n
      <4>1. has(c) \in SUBSET Nat /\ has(c) \subseteq 1..n
        <5>1. DOMAIN OffersTo(d, row) = 1..n
          BY SlotsOffer
        <5>2. PICK N \in Nat : N = n
          BY FilesFiled, SlotsAre DEF Files
        <5>3. 1..N \subseteq Nat
          OBVIOUS
        <5>4. QED
          BY <5>1, <5>2, <5>3
      <4> HIDE DEF has
      <4>2. QED
        BY <4>1, <2>3, LeastIs
    <3>2. FirstOffered(OffersTo(d, row), c) = OffersTo(d, row)[j][c]
      BY <2>3 DEF FirstOffered
    <3>3. First(Files, d, row, n, c) = SlotOffer(Files, j, d, row)[c]
      BY <2>1, <2>3 DEF First
    <3>4. OffersTo(d, row)[j] = SlotOffer(Files, j, d, row)
      BY <3>1, SlotsOffer
    <3>5. QED
      BY <3>2, <3>3, <3>4
  <2>4. QED
    BY <2>2, <2>3
<1>2. QED
  BY <1>1 DEF DeterminedByFiles, Prefix

(* At the end of such a script every row has what all stages offer it.     *)
LEMMA OverIs ==
  ASSUME IInv, HistoryTold, Over, SameThroughout
  PROVE  /\ known = TheInput
         /\ \A d \in known : /\ rows[d] = disk.rows[d]
                             /\ Prefix(Files, d, rows[d], Size(Files))
<1> USE DEF IInv, HistoryTold, History
<1>1. TypeOK /\ Filed(Files) /\ DOMAIN StageOrder = 1..12 /\ line \in 1..(Len(script) + 1)
      /\ Len(script) \in Nat /\ DOMAIN script = 1..Len(script)
  BY FilesFiled, ScriptIs DEF StageOrder
<1>2. line > Len(script) /\ phase = "idle"
  BY DEF Over
<1>3. known = TheInput
  BY <1>2 DEF InputKnown
<1>4. ASSUME NEW q \in 1..12, Files[StageOrder[q]] # <<>> PROVE Settled(q)
  <2>1. StageOrder[q] \in Stages
    BY OrderIs
  <2>2. PICK i \in DOMAIN script : Gives(i, StageOrder[q])
    BY <1>1, <1>4, <2>1, FilesAre DEF SameThroughout
  <2>3. i <= line
    BY <1>1, <1>2
  <2>4. QED
    BY <1>1, <1>2, <2>2, <2>3, LinesBehind
<1>5. ASSUME NEW d \in known
      PROVE  rows[d] = disk.rows[d] /\ Prefix(Files, d, rows[d], Size(Files))
  <2>1. d \in Domains /\ rows[d] = disk.rows[d]
    BY <1>2 DEF Rests, Transaction, TypeOK
  <2>2. Saved(d, Slot(Files, 13) - 1)
    <3>1. 13 \in 1..13 /\ \A q \in 1..(13 - 1) : q \in 1..12
      OBVIOUS
    <3>2. \A q \in 1..(13 - 1) : Files[StageOrder[q]] = <<>> \/ Settled(q)
      BY <1>4, <3>1
    <3>3. QED
      BY <3>1, <3>2, BaseIs
  <2>3. Slot(Files, 13) - 1 = Size(Files) /\ Size(Files) \in Nat
    <3>1. PICK B \in Nat : B = Brnos(Files)
      BY <1>1, SlotsAre
    <3>2. Slot(Files, 13) = B + 13 - 1 /\ Size(Files) = B + 11
      BY <1>1, <3>1, SlotsAre
    <3>3. QED
      BY <3>2
  <2>4. PICK n \in Size(Files)..Size(Files) : Prefix(Files, d, disk.rows[d], n)
    BY <2>2, <2>3 DEF Saved, Reached
  <2>5. n = Size(Files)
    BY <2>3
  <2>6. QED
    BY <2>1, <2>4, <2>5
<1>6. QED
  BY <1>3, <1>5

(* Killed anywhere and issued again, run whole or by subcommands, forced   *)
(* or not: once a script that gives the same files throughout is over, the *)
(* table has the whole input, and every row has the first value that a     *)
(* stage's files offer it for each column, and nothing else (run and the   *)
(* writers of store.py).                                                   *)
THEOREM SameAsUninterruptedAlways == Spec => []SameAsUninterrupted
<1>1. IInv /\ HistoryTold => SameAsUninterrupted
  BY OverIs, AllOffered DEF SameAsUninterrupted, TheInput, IInv
<1>2. QED
  BY <1>1, HistoryAlways, PTL
-----------------------------------------------------------------------------
(* The lookup of one domain goes through the slots in their order, and     *)
(* there is one row that has what all of them offer it.                    *)
IsRow(row) == row = [c \in Columns |-> row[c]]

Upto(F, d, row, n) == IsRow(row) /\ Indexed(row) /\ Prefix(F, d, row, n)

LEMMA CoalesceIsRow ==
  ASSUME NEW row, NEW offer
  PROVE  IsRow(Coalesce(row, offer))
BY DEF IsRow, Coalesce

(* Joined with the next slot's offer, the row is one slot further ...      *)
LEMMA UptoNext ==
  ASSUME NEW F, Filed(F), NEW d, NEW row, NEW k \in 1..Size(F), Upto(F, d, row, k - 1)
  PROVE  Upto(F, d, Coalesce(row, SlotOffer(F, k, d, row)), k)
<1> DEFINE offer == SlotOffer(F, k, d, row)
           new == Coalesce(row, offer)
<1>1. PICK N \in Nat : N = Size(F)
  BY SlotsAre
<1>2. k \in 1..N /\ k - 1 \in 0..N /\ k <= (k - 1) + 1 /\ ~(k <= k - 1)
  BY <1>1
<1>3. Prefix(F, d, new, k)
  <2>1. PICK n \in 0..Size(F) : n = k - 1
    BY <1>1, <1>2
  <2>2. Indexed(row) /\ Prefix(F, d, row, n) /\ k <= n + 1 /\ ~(k <= n)
    BY <1>2, <2>1 DEF Upto
  <2>3. QED
    BY <2>2, JoinExtends
<1>4. IsOffer(SlotStage(F, k), offer)
  BY SlotOfferIs DEF Upto
<1> HIDE DEF offer
<1>5. Indexed(new)
  <2>1. "ips" \in Columns /\ Indexed(row)
    BY DEF Columns, Upto
  <2>2. new["ips"] = IF "ips" \notin DOMAIN offer THEN row["ips"]
                     ELSE IF row["ips"] = Null THEN offer["ips"] ELSE row["ips"]
    BY <2>1 DEF Coalesce
  <2> HIDE DEF new
  <2>3. QED
    BY <1>4, <2>1, <2>2 DEF IsOffer, Indexed
<1>6. IsRow(new)
  BY CoalesceIsRow
<1>7. QED
  BY <1>3, <1>5, <1>6 DEF Upto, offer

(* ... and so it is when the slot offers it nothing.                       *)
LEMMA UptoBeyond ==
  ASSUME NEW F, Filed(F), NEW d, NEW row, NEW k \in 1..Size(F), Upto(F, d, row, k - 1),
         SlotOffer(F, k, d, row) = NoOffer
  PROVE  Upto(F, d, row, k)
<1>1. PICK N \in Nat : N = Size(F)
  BY SlotsAre
<1>2. PICK n \in 0..Size(F) : n = k - 1 /\ n + 1 = k
  BY <1>1
<1>3. \A c : c \notin DOMAIN SlotOffer(F, n + 1, d, row)
  BY <1>2, NoOfferIs
<1>4. Indexed(row) /\ Prefix(F, d, row, n) /\ n + 1 <= Size(F)
  BY <1>1, <1>2 DEF Upto
<1>5. ASSUME NEW c \in Columns PROVE row[c] = First(F, d, row, n + 1, c)
  BY <1>3, <1>4, FirstNext DEF Prefix
<1>6. QED
  BY <1>2, <1>5 DEF Upto, Prefix

(* brno's join of its files one by one, unfolded like Existing.            *)
LEMMA BrnoUnfolds ==
  ASSUME NEW files, Len(files) \in Nat, NEW d, NEW row
  PROVE  \E g : /\ JoinStage("brno", files, d, row) = g[Len(files)]
               /\ g[0] = row
               /\ \A n \in 1..Len(files) :
                    g[n] = Coalesce(g[n - 1], Offer("brno", <<files[n]>>, d, row))
<1> DEFINE N == Len(files)
           next(r, n) == Coalesce(r, Offer("brno", <<files[n]>>, d, row))
           Eq(f, m) == f = [n \in 0..m |-> IF n = 0 THEN row ELSE next(f[n - 1], n)]
           Bad == {m \in 0..N : ~ \E f : Eq(f, m)}
           brno[n \in 0..Len(files)] == IF n = 0 THEN row ELSE next(brno[n - 1], n)
<1>1. N \in Nat
  OBVIOUS
<1> HIDE DEF Eq
<1>2. \E f : Eq(f, N)
  <2>1. SUFFICES ASSUME Bad # {} PROVE FALSE
    BY <1>1
  <2>2. PICK m \in Bad : \A k \in Bad : m <= k
    <3>1. Bad \in SUBSET Nat
      BY <1>1
    <3>2. QED
      BY <3>1, <2>1, NatHasLeast
  <2>3. Eq([n \in 0..0 |-> row], 0)
    BY DEF Eq
  <2>4. m # 0
    BY <2>2, <2>3
  <2>5. m \in 1..N /\ m - 1 \in 0..N /\ m - 1 \notin Bad
    BY <1>1, <2>2, <2>4
  <2>6. PICK f : Eq(f, m - 1)
    BY <2>5
  <2> HIDE DEF next
  <2> DEFINE g == [n \in 0..m |-> IF n \in 0..(m-1) THEN f[n] ELSE next(f[m - 1], m)]
  <2>7. \A n \in 0..m : n # 0 => g[n - 1] = f[n - 1]
    BY <2>5
  <2>8. \A n \in 0..m : g[n] = IF n = 0 THEN row ELSE next(g[n - 1], n)
    <3> SUFFICES ASSUME NEW n \in 0..m
                 PROVE  g[n] = IF n = 0 THEN row ELSE next(g[n - 1], n)
      OBVIOUS
    <3>1. CASE n = m
      <4>1. g[n] = next(f[m - 1], m)
        BY <3>1, <2>5
      <4>2. QED
        BY <4>1, <2>7, <3>1, <2>4
    <3>2. CASE n # m
      <4>1. n \in 0..(m-1)
        BY <3>2, <2>5
      <4>2. g[n] = f[n]
        BY <4>1
      <4>3. f[n] = IF n = 0 THEN row ELSE next(f[n - 1], n)
        BY <4>1, <2>6 DEF Eq
      <4>4. QED
        BY <4>2, <4>3, <2>7
    <3>3. QED
      BY <3>1, <3>2
  <2>9. Eq(g, m)
    BY <2>8 DEF Eq
  <2>10. QED
    BY <2>9, <2>2
<1> HIDE DEF next
<1>3. brno = [n \in 0..N |-> IF n = 0 THEN row ELSE next(brno[n - 1], n)]
  BY <1>2 DEF Eq
<1>4. brno[0] = row
  <2> HIDE DEF brno
  <2>1. 0 \in 0..N /\ brno[0] = IF 0 = 0 THEN row ELSE next(brno[0 - 1], 0)
    BY <1>1, <1>3
  <2>2. QED
    BY <2>1
<1>5. JoinStage("brno", files, d, row) = brno[N]
  <2>1. HasKey("brno", row)
    BY DEF HasKey
  <2>2. CASE files # <<>>
    BY <2>1, <2>2 DEF JoinStage, brno, next
  <2>3. CASE files = <<>>
    <3>1. N = 0
      BY <2>3
    <3>2. JoinStage("brno", files, d, row) \in {row, brno[N]}
      BY <2>1, <2>3 DEF JoinStage, brno, next
    <3>3. QED
      BY <1>4, <3>1, <3>2
  <2>4. QED
    BY <2>2, <2>3
<1> HIDE DEF brno
<1>6. ASSUME NEW n \in 1..N PROVE brno[n] = next(brno[n - 1], n)
  <2>1. n \in 0..N /\ n # 0
    BY <1>1
  <2>2. QED
    BY <1>3, <2>1
<1>7. QED
  BY <1>4, <1>5, <1>6 DEF next

LEMMA LookupUnfolds ==
  ASSUME NEW d, NEW files
  PROVE  \E g : /\ LookupDomain(d, files) = g[12]
               /\ g[0] = NoRow
               /\ \A n \in 1..12 :
                    g[n] = JoinStage(StageOrder[n], files[StageOrder[n]], d, g[n - 1])
<1> DEFINE next(r, n) == JoinStage(LookupOrder[n], files[LookupOrder[n]], d, r)
           Eq(f, m) == f = [n \in 0..m |-> IF n = 0 THEN NoRow ELSE next(f[n - 1], n)]
           Bad == {m \in 0..12 : ~ \E f : Eq(f, m)}
           row[n \in 0..Len(LookupOrder)] == IF n = 0 THEN NoRow ELSE next(row[n - 1], n)
<1>1. Len(LookupOrder) = 12 /\ LookupOrder = StageOrder
  BY DEF LookupOrder, StageOrder
<1> HIDE DEF Eq
<1>2. \E f : Eq(f, 12)
  <2>1. SUFFICES ASSUME Bad # {} PROVE FALSE
    OBVIOUS
  <2>2. PICK m \in Bad : \A k \in Bad : m <= k
    <3>1. Bad \in SUBSET Nat
      OBVIOUS
    <3>2. QED
      BY <3>1, <2>1, NatHasLeast
  <2>3. Eq([n \in 0..0 |-> NoRow], 0)
    BY DEF Eq
  <2>4. m # 0
    BY <2>2, <2>3
  <2>5. m \in 1..12 /\ m - 1 \in 0..12 /\ m - 1 \notin Bad
    BY <2>2, <2>4
  <2>6. PICK f : Eq(f, m - 1)
    BY <2>5
  <2> HIDE DEF next
  <2> DEFINE g == [n \in 0..m |-> IF n \in 0..(m-1) THEN f[n] ELSE next(f[m - 1], m)]
  <2>7. \A n \in 0..m : n # 0 => g[n - 1] = f[n - 1]
    BY <2>5
  <2>8. \A n \in 0..m : g[n] = IF n = 0 THEN NoRow ELSE next(g[n - 1], n)
    <3> SUFFICES ASSUME NEW n \in 0..m
                 PROVE  g[n] = IF n = 0 THEN NoRow ELSE next(g[n - 1], n)
      OBVIOUS
    <3>1. CASE n = m
      <4>1. g[n] = next(f[m - 1], m)
        BY <3>1, <2>5
      <4>2. QED
        BY <4>1, <2>7, <3>1, <2>4
    <3>2. CASE n # m
      <4>1. n \in 0..(m-1)
        BY <3>2, <2>5
      <4>2. g[n] = f[n]
        BY <4>1
      <4>3. f[n] = IF n = 0 THEN NoRow ELSE next(f[n - 1], n)
        BY <4>1, <2>6 DEF Eq
      <4>4. QED
        BY <4>2, <4>3, <2>7
    <3>3. QED
      BY <3>1, <3>2
  <2>9. Eq(g, m)
    BY <2>8 DEF Eq
  <2>10. QED
    BY <2>9, <2>2
<1> HIDE DEF next
<1>3. row = [n \in 0..12 |-> IF n = 0 THEN NoRow ELSE next(row[n - 1], n)]
  <2>1. row = [n \in 0..Len(LookupOrder) |-> IF n = 0 THEN NoRow ELSE next(row[n - 1], n)]
    BY <1>1, <1>2 DEF Eq
  <2> HIDE DEF row
  <2>2. QED
    BY <1>1, <2>1
<1>4. LookupDomain(d, files) = row[12]
  <2>1. LookupDomain(d, files) = row[Len(LookupOrder)]
    BY DEF LookupDomain, row, next
  <2> HIDE DEF row
  <2>2. QED
    BY <1>1, <2>1
<1> HIDE DEF row
<1>5. row[0] = NoRow
  <2>1. 0 \in 0..12 /\ row[0] = IF 0 = 0 THEN NoRow ELSE next(row[0 - 1], 0)
    BY <1>3
  <2>2. QED
    BY <2>1
<1>6. ASSUME NEW n \in 1..12 PROVE row[n] = next(row[n - 1], n)
  <2>1. n \in 0..12 /\ n # 0
    OBVIOUS
  <2>2. QED
    BY <1>3, <2>1
<1>7. QED
  BY <1>1, <1>4, <1>5, <1>6 DEF next

LEMMA BrnoJoined ==
  ASSUME NEW F, Filed(F), NEW d, NEW row, Upto(F, d, row, 0)
  PROVE  Upto(F, d, JoinStage("brno", F["brno"], d, row), Slot(F, 1))
<1> DEFINE files == F["brno"]
<1>1. PICK B \in Nat : B = Brnos(F) /\ B = Len(files) /\ Size(F) = B + 11
  BY SlotsAre DEF Brnos
<1>2. Slot(F, 1) = B
  BY <1>1 DEF Slot
<1>3. Upto(F, d, JoinStage("brno", files, d, row), Slot(F, 1))
  <2> HIDE DEF files
  <2>1. Len(files) \in Nat
    BY <1>1
  <2>2. PICK g : /\ JoinStage("brno", files, d, row) = g[Len(files)]
                 /\ g[0] = row
                 /\ \A n \in 1..Len(files) :
                      g[n] = Coalesce(g[n - 1], Offer("brno", <<files[n]>>, d, row))
    BY <2>1, BrnoUnfolds
  <2>3. /\ JoinStage("brno", files, d, row) = g[B]
        /\ g[0] = row
        /\ \A n \in 1..B : g[n] = Coalesce(g[n - 1], Offer("brno", <<files[n]>>, d, row))
    BY <1>1, <2>2
  <2> DEFINE Odd == {n \in 0..B : ~Upto(F, d, g[n], n)}
  <2>4. SUFFICES ASSUME Odd # {} PROVE FALSE
    BY <1>1, <1>2, <2>3 DEF files
  <2>5. PICK m \in Odd : \A k \in Odd : m <= k
    <3>1. Odd \in SUBSET Nat
      OBVIOUS
    <3>2. QED
      BY <3>1, <2>4, NatHasLeast
  <2>6. m # 0
    BY <2>3, <2>5
  <2>7. m \in 1..B /\ m - 1 \in 0..B /\ m - 1 \notin Odd
    BY <2>5, <2>6
  <2>8. Upto(F, d, g[m - 1], m - 1)
    BY <2>7
  <2>9. g[m] = Coalesce(g[m - 1], SlotOffer(F, m, d, g[m - 1]))
    <3>1. SlotOffer(F, m, d, g[m - 1]) = Offer("brno", <<F["brno"][m]>>, d, g[m - 1])
      <4>1. m <= Brnos(F)
        BY <1>1, <2>7
      <4>2. QED
        BY <4>1, BrnoSlot
    <3>2. Offer("brno", <<F["brno"][m]>>, d, g[m - 1]) = Offer("brno", <<files[m]>>, d, row)
      BY DEF Offer, files
    <3>3. QED
      BY <2>3, <2>7, <3>1, <3>2
  <2>10. m \in 1..Size(F)
    BY <1>1, <2>7
  <2>11. Upto(F, d, g[m], m)
    BY <2>8, <2>9, <2>10, UptoNext
  <2>12. QED
    BY <2>5, <2>11
<1>4. QED
  BY <1>3

LEMMA StageJoined ==
  ASSUME NEW F, Filed(F), NEW p \in 2..12, NEW d, NEW row, Upto(F, d, row, Slot(F, p - 1))
  PROVE  Upto(F, d, JoinStage(StageOrder[p], F[StageOrder[p]], d, row), Slot(F, p))
<1> DEFINE s == StageOrder[p]
           k == Slot(F, p)
<1>1. PICK B \in Nat : B = Brnos(F)
  BY SlotsAre
<1>2. p \in 1..12 /\ p # 1 /\ p \in 1..13 /\ p - 1 \in 1..13
  OBVIOUS
<1>3. k = B + p - 1 /\ Slot(F, p - 1) = B + (p - 1) - 1 /\ Size(F) = B + 11
  BY <1>1, <1>2, SlotsAre
<1>4. k \in 1..Size(F) /\ Slot(F, p - 1) = k - 1
  BY <1>2, <1>3
<1>5. s # "brno"
  BY <1>2, OrderIs
<1>6. SlotOffer(F, k, d, row) =
        IF F[s] # <<>> /\ HasKey(s, row) THEN Offer(s, F[s], d, row) ELSE NoOffer
  BY <1>2, StageSlot
<1> HIDE DEF k, s
<1>7. CASE F[s] # <<>> /\ HasKey(s, row)
  <2>1. JoinStage(s, F[s], d, row) = Coalesce(row, SlotOffer(F, k, d, row))
    BY <1>5, <1>6, <1>7 DEF JoinStage
  <2>2. QED
    BY <1>4, <2>1, UptoNext DEF s, k
<1>8. CASE ~(F[s] # <<>> /\ HasKey(s, row))
  <2>1. JoinStage(s, F[s], d, row) = row
    BY <1>5, <1>8 DEF JoinStage
  <2>2. QED
    BY <1>4, <1>6, <1>8, <2>1, UptoBeyond DEF s, k
<1>9. QED
  BY <1>7, <1>8

LEMMA NothingUpto ==
  ASSUME NEW F, Filed(F), NEW d
  PROVE  Upto(F, d, NoRow, 0)
<1>1. ASSUME NEW c \in Columns PROVE NoRow[c] = First(F, d, NoRow, 0, c)
  BY DEF NoRow, First, Offering
<1>2. IsRow(NoRow) /\ Indexed(NoRow)
  BY DEF IsRow, Indexed, NoRow, Columns
<1>3. QED
  BY <1>1, <1>2 DEF Upto, Prefix

(* lookup_domain returns a row that has what all slots offer it ...        *)
LEMMA LookupUpto ==
  ASSUME NEW F, Filed(F), NEW d
  PROVE  Upto(F, d, LookupDomain(d, F), Size(F))
<1>1. PICK g : /\ LookupDomain(d, F) = g[12]
               /\ g[0] = NoRow
               /\ \A n \in 1..12 : g[n] = JoinStage(StageOrder[n], F[StageOrder[n]], d, g[n - 1])
  BY LookupUnfolds
<1> DEFINE Odd == {n \in 1..12 : ~Upto(F, d, g[n], Slot(F, n))}
<1>2. SUFFICES ASSUME Odd # {} PROVE FALSE
  BY <1>1 DEF Size
<1>3. PICK m \in Odd : \A k \in Odd : m <= k
  <2>1. Odd \in SUBSET Nat
    OBVIOUS
  <2>2. QED
    BY <2>1, <1>2, NatHasLeast
<1>4. m # 1
  <2>1. g[1] = JoinStage("brno", F["brno"], d, NoRow)
    <3>1. StageOrder[1] = "brno" /\ 1 \in 1..12 /\ 1 - 1 = 0
      BY DEF StageOrder
    <3>2. QED
      BY <1>1, <3>1
  <2>2. Upto(F, d, g[1], Slot(F, 1))
    BY <2>1, NothingUpto, BrnoJoined
  <2>3. QED
    BY <1>3, <2>2
<1>5. m \in 2..12 /\ m \in 1..12 /\ m - 1 \in 1..12 /\ m - 1 \notin Odd
  BY <1>3, <1>4
<1>6. Upto(F, d, g[m - 1], Slot(F, m - 1))
  BY <1>5
<1>7. Upto(F, d, g[m], Slot(F, m))
  BY <1>1, <1>5, <1>6, StageJoined
<1>8. QED
  BY <1>3, <1>7

(* Slots that do not write a column are passed by for it.                  *)
LEMMA FirstWithin ==
  ASSUME NEW F, Filed(F), NEW d, NEW row, Indexed(row), NEW n \in 0..Size(F), NEW c,
         \A i \in 1..Size(F) : i > n => c \notin Writes(SlotStage(F, i))
  PROVE  First(F, d, row, Size(F), c) = First(F, d, row, n, c)
<1>1. PICK N \in Nat : N = Size(F)
  BY SlotsAre
<1>2. ASSUME NEW i \in 1..N, c \in DOMAIN SlotOffer(F, i, d, row) PROVE i \in 1..n
  <2>1. c \in Writes(SlotStage(F, i))
    BY <1>1, <1>2, SlotOfferIs DEF IsOffer
  <2>2. ~(i > n)
    BY <1>1, <2>1
  <2>3. QED
    BY <1>1, <2>2
<1>3. 1..n \subseteq 1..N
  BY <1>1
<1>4. Offering(F, d, row, N, c) = Offering(F, d, row, n, c)
  BY <1>2, <1>3 DEF Offering
<1>5. QED
  BY <1>1, <1>4 DEF First

(* ... and there is one such row: addresses are offered without a key, AS  *)
(* numbers by address, the rest by these.                                  *)
LEMMA OneRow ==
  ASSUME NEW F, Filed(F), NEW d, NEW r1, NEW r2,
         Upto(F, d, r1, Size(F)), Upto(F, d, r2, Size(F))
  PROVE  r1 = r2
<1>1. PICK N \in Nat : N = Size(F)
  BY SlotsAre
<1>2. /\ Slot(F, 3) \in 0..N /\ Slot(F, 4) \in 0..N /\ Slot(F, 3) \in Nat
      /\ Slot(F, 4) \in Nat /\ Slot(F, 3) <= Slot(F, 4)
  <2>1. PICK B \in Nat : B = Brnos(F)
    BY SlotsAre
  <2>2. Slot(F, 3) = B + 2 /\ Slot(F, 4) = B + 3 /\ N = B + 11
    BY <1>1, <2>1, SlotsAre
  <2>3. QED
    BY <2>2
<1>3. /\ Indexed(r1) /\ \A c \in Columns : r1[c] = First(F, d, r1, N, c)
      /\ Indexed(r2) /\ \A c \in Columns : r2[c] = First(F, d, r2, N, c)
  BY <1>1 DEF Upto, Prefix
<1>4. "ips" \in Columns /\ "asn" \in Columns
  BY DEF Columns
<1>5. r1["ips"] = r2["ips"]
  <2>1. PICK n \in 0..Size(F) : n = Slot(F, 3)
    BY <1>1, <1>2
  <2>2. \A i \in 1..Size(F) : i > n => "ips" \notin Writes(SlotStage(F, i))
    BY <2>1, SlotIs
  <2>3. /\ First(F, d, r1, N, "ips") = First(F, d, r1, n, "ips")
        /\ First(F, d, r2, N, "ips") = First(F, d, r2, n, "ips")
    BY <1>1, <1>3, <2>2, FirstWithin
  <2>4. ASSUME NEW i \in 1..n PROVE SlotOffer(F, i, d, r1) = SlotOffer(F, i, d, r2)
    <3>1. i \in 1..Size(F) /\ ~(i > Slot(F, 3)) /\ ~(i > Slot(F, 4))
      BY <1>1, <1>2, <2>1
    <3>2. QED
      BY <3>1, SameOffers
  <2>5. First(F, d, r1, n, "ips") = First(F, d, r2, n, "ips")
    BY <2>1, <1>2, <2>4, FirstSame
  <2>6. QED
    BY <1>3, <1>4, <2>3, <2>5
<1>6. r1["asn"] = r2["asn"]
  <2>1. PICK n \in 0..Size(F) : n = Slot(F, 4)
    BY <1>1, <1>2
  <2>2. ASSUME NEW i \in 1..Size(F), i > n PROVE "asn" \notin Writes(SlotStage(F, i))
    <3>1. i # Slot(F, 4)
      BY <1>1, <2>1, <2>2
    <3>2. QED
      BY <3>1, SlotIs
  <2>3. /\ First(F, d, r1, N, "asn") = First(F, d, r1, n, "asn")
        /\ First(F, d, r2, N, "asn") = First(F, d, r2, n, "asn")
    BY <1>1, <1>3, <2>2, FirstWithin
  <2>4. ASSUME NEW i \in 1..n PROVE SlotOffer(F, i, d, r1) = SlotOffer(F, i, d, r2)
    <3>1. i \in 1..Size(F) /\ ~(i > Slot(F, 4))
      BY <1>1, <1>2, <2>1
    <3>2. QED
      BY <1>5, <3>1, SameOffers
  <2>5. First(F, d, r1, n, "asn") = First(F, d, r2, n, "asn")
    BY <2>1, <1>2, <2>4, FirstSame
  <2>6. QED
    BY <1>3, <1>4, <2>3, <2>5
<1>7. \A i \in 1..N : SlotOffer(F, i, d, r1) = SlotOffer(F, i, d, r2)
  BY <1>1, <1>5, <1>6, SameOffers
<1>8. \A c \in Columns : r1[c] = r2[c]
  BY <1>3, <1>7, FirstSame
<1>9. [c \in Columns |-> r1[c]] = [c \in Columns |-> r2[c]]
  BY <1>8
<1>10. QED
  BY <1>9 DEF Upto, IsRow

(* The files of a script determine a row, as DeterminedByFiles claims: two *)
(* rows that each have the first value the stages offer them are the same, *)
(* although geo, netwhois, peeringdb, rdns and ipthreat join on what the   *)
(* row has.                                                                *)
THEOREM DeterminedOnce ==
  ASSUME TypeOK, NEW d,
         NEW r1, IsRow(r1), Indexed(r1), DeterminedByFiles(d, r1),
         NEW r2, IsRow(r2), Indexed(r2), DeterminedByFiles(d, r2)
  PROVE  r1 = r2
<1>1. Upto(Files, d, r1, Size(Files)) /\ Upto(Files, d, r2, Size(Files))
  BY AllOffered DEF Upto
<1>2. QED
  BY <1>1, FilesFiled, OneRow
-----------------------------------------------------------------------------
(* The rows of the tables are functions on the columns: NoRow, or joined.  *)
Whole == \A d \in Domains : IsRow(rows[d]) /\ IsRow(disk.rows[d])

LEMMA WholeAlways == Spec => [](IInv /\ Whole)
<1>1. Init => Whole
  <2>1. IsRow(NoRow)
    BY DEF IsRow, NoRow
  <2>2. QED
    BY <2>1 DEF Init, NoRows, Whole
<1>2. ASSUME IInv, Whole, [Next]_vars PROVE Whole'
  <2>1. CASE UNCHANGED vars
    BY <1>2, <2>1 DEF vars, table, inStage, user, Whole, IsRow
  <2>2. CASE Next
    <3>1. CASE Joins
      <4>1. PICK d \in left : rows' = [rows EXCEPT ![d] = Coalesce(@, Offer(Stage, Joined, d, @))]
        BY <3>1 DEF Joins
      <4>2. DOMAIN rows = Domains
        BY <1>2 DEF IInv, Tables
      <4>3. ASSUME NEW e \in Domains PROVE IsRow(rows'[e])
        <5>1. CASE e = d
          BY <4>1, <4>2, <5>1, CoalesceIsRow
        <5>2. CASE e # d
          BY <1>2, <4>1, <4>2, <5>2 DEF Whole
        <5>3. QED
          BY <5>1, <5>2
      <4>4. QED
        BY <1>2, <3>1, <4>3 DEF Whole, Joins
    <3>2. CASE Commits \/ Loses \/ LeavesAlone
      BY <1>2, <3>2 DEF Whole, Commits, Loses, LeavesAlone
    <3>3. QED
      BY <1>2, <2>2, <3>1, <3>2, TableSteps
  <2>3. QED
    BY <1>2, <2>1, <2>2
<1>3. QED
  BY <1>1, <1>2, InitIInv, NextIInv, PTL DEF Spec

(* lookup_domain, which runs the joins itself on an empty store, shows the *)
(* row that the pipeline's table ends with when it was given these files   *)
(* throughout, wherever it was killed.                                     *)
THEOREM LookupAgreesAlways == Spec => []LookupAgrees
<1>1. IInv /\ HistoryTold /\ Whole => LookupAgrees
  <2> SUFFICES ASSUME IInv, HistoryTold, Whole, Over, SameThroughout, NEW d \in known
               PROVE  LookupDomain(d, Files) = rows[d]
    BY DEF LookupAgrees, Files
  <2>1. Filed(Files) /\ d \in Domains
    BY FilesFiled DEF IInv, TypeOK
  <2>2. Prefix(Files, d, rows[d], Size(Files))
    BY OverIs
  <2>3. Indexed(rows[d]) /\ IsRow(rows[d])
    BY <2>1 DEF IInv, Located, Whole
  <2>4. Upto(Files, d, rows[d], Size(Files))
    BY <2>2, <2>3 DEF Upto
  <2>5. QED
    BY <2>1, <2>4, LookupUpto, OneRow
<1>2. QED
  BY <1>1, HistoryAlways, WholeAlways, PTL
=============================================================================
