--------------------------- MODULE RirWhoisProofs ---------------------------
(***************************************************************************)
(* Proofs about RirIndex, for any address spaces, bucket widths and dumps: *)
(* the index answers like a scan of all network objects.  And about        *)
(* RirWhois, for any dumps: it implements RirIndex, and its two maps hold  *)
(* at every moment the last word of the dumps.                             *)
(***************************************************************************)
EXTENDS RirWhois, WellFoundedInduction, TLAPS

(* Only networks of a version are filed under it.                          *)
OwnVersion ==
  \A v \in Versions :
    /\ \A k \in Keys(v) : \A p \in DOMAIN buckets[v][k] : nets[buckets[v][k][p]].ver = v
    /\ \A p \in DOMAIN wide[v] : nets[wide[v][p]].ver = v

FiledIn(s, i) == \E p \in DOMAIN s : s[p] = i

(* Every network is among the wide ones or in all buckets it reaches.      *)
Filed ==
  \A i \in DOMAIN nets :
    LET v == nets[i].ver
    IN \/ FiledIn(wide[v], i)
       \/ \A k \in Keys(v) :
            Key(v, nets[i].start) <= k /\ k <= Key(v, nets[i].end) => FiledIn(buckets[v][k], i)

(* There is a bucket per key and a list of wide ranges per version.        *)
Shape ==
  /\ buckets \in [Versions -> UNION {[Keys(v) -> Seq(Nat)] : v \in Versions}]
  /\ wide \in [Versions -> Seq(Nat)]

IInv == TypeOK /\ Shape /\ OwnVersion /\ Filed
-----------------------------------------------------------------------------
(* a >> s is monotone.                                                     *)
LEMMA DivMonotone ==
  ASSUME NEW a \in Nat, NEW b \in Nat, NEW w \in Nat \ {0}, a <= b
  PROVE  a \div w \in Nat /\ b \div w \in Nat /\ a \div w <= b \div w
<1>1. a \div w \in Nat /\ b \div w \in Nat
  OBVIOUS
<1>2. /\ w * (a \div w) <= a
      /\ b < w * ((b \div w) + 1)
  OBVIOUS
<1>3. SUFFICES ASSUME (b \div w) + 1 <= a \div w PROVE FALSE
  BY <1>1
<1>4. \A m, n \in Nat : m <= n => w * m <= w * n
  OBVIOUS
<1>5. w * ((b \div w) + 1) <= w * (a \div w)
  BY <1>1, <1>3, <1>4
<1>6. w * ((b \div w) + 1) \in Int /\ w * (a \div w) \in Int
  BY <1>1
<1>7. QED
  BY <1>2, <1>5, <1>6

LEMMA KeyMonotone ==
  ASSUME NEW v \in Versions, NEW a \in Addresses(v), NEW b \in Addresses(v)
  PROVE  /\ Key(v, a) \in Keys(v)
         /\ a <= b => Key(v, a) <= Key(v, b)
<1>1. Space[v] \in Nat \ {0} /\ Width[v] \in Nat \ {0}
  BY RirIndexAssumption
<1>2. a \in Nat /\ b \in Nat /\ Space[v] - 1 \in Nat /\ a <= Space[v] - 1
  BY <1>1 DEF Addresses
<1>3. Key(v, a) \in Nat /\ Key(v, Space[v] - 1) \in Nat /\ Key(v, a) <= Key(v, Space[v] - 1)
  BY <1>1, <1>2, DivMonotone DEF Key
<1>4. a <= b => Key(v, a) <= Key(v, b)
  BY <1>1, <1>2, DivMonotone DEF Key
<1>5. QED
  BY <1>3, <1>4 DEF Keys

LEMMA NatHasLeast ==
  ASSUME NEW T \in SUBSET Nat, T # {}
  PROVE  \E x \in T : \A y \in T : x <= y
<1>1. PICK x \in T : \A y \in T : <<y, x>> \notin OpToRel(<, Nat)
  BY NatLessThanWellFounded, WFMin
<1>2. \A y \in T : ~(y < x)
  BY <1>1 DEF OpToRel
<1>3. QED
  BY <1>2

(* Among positions with sizes there is a first smallest one.               *)
LEMMA FirstSmallest ==
  ASSUME NEW H \in SUBSET Nat, H # {}, NEW size \in [H -> Nat]
  PROVE  \E i \in H : \A j \in H : size[i] < size[j] \/ (size[i] = size[j] /\ i <= j)
<1> DEFINE T == {size[i] : i \in H}
           least(m) == {i \in H : size[i] = m}
<1>1. T \in SUBSET Nat /\ T # {}
  OBVIOUS
<1>2. PICK m \in T : \A n \in T : m <= n
  BY <1>1, NatHasLeast
<1>3. least(m) \in SUBSET Nat /\ least(m) # {}
  BY <1>2
<1>4. PICK i \in least(m) : \A j \in least(m) : i <= j
  BY <1>3, NatHasLeast
<1>5. \A j \in H : size[i] < size[j] \/ (size[i] = size[j] /\ i <= j)
  BY <1>2, <1>4
<1>6. QED
  BY <1>4, <1>5
-----------------------------------------------------------------------------
LEMMA InitIInv == Init => IInv
<1> SUFFICES ASSUME Init PROVE IInv
  OBVIOUS
<1>1. nets = <<>> /\ \A v \in Versions :
        /\ wide[v] = <<>> /\ buckets[v] = [k \in Keys(v) |-> <<>>]
  BY DEF Init
<1>2. TypeOK
  <2>1. nets \in Seq(Nets) /\ \A S : <<>> \in Seq(S)
    BY <1>1
  <2>2. \A v \in Versions : /\ buckets[v] \in [Keys(v) -> Seq(1..Len(nets))]
                           /\ wide[v] \in Seq(1..Len(nets))
    BY <1>1, <2>1
  <2>3. QED
    BY <2>1, <2>2 DEF TypeOK
<1>3. Shape
  <2>1. \A v \in Versions : [k \in Keys(v) |-> <<>>] \in [Keys(v) -> Seq(Nat)]
    OBVIOUS
  <2>2. QED
    BY <2>1 DEF Shape, Init
<1>4. OwnVersion /\ Filed
  <2>1. DOMAIN nets = {} /\ \A v \in Versions :
          DOMAIN wide[v] = {} /\ \A k \in Keys(v) : DOMAIN buckets[v][k] = {}
    <3>1. DOMAIN <<>> = {}
      OBVIOUS
    <3>2. \A v \in Versions : \A k \in Keys(v) : buckets[v][k] = <<>>
      BY <1>1
    <3>3. QED
      BY <1>1, <3>1, <3>2
  <2>2. QED
    <3>1. OwnVersion
      BY <2>1 DEF OwnVersion
    <3>2. Filed
      BY <2>1 DEF Filed
    <3>3. QED
      BY <3>1, <3>2
<1>5. QED
  BY <1>2, <1>3, <1>4 DEF IInv

LEMMA AppendFacts ==
  ASSUME NEW S, NEW s \in Seq(S), NEW e \in S
  PROVE  /\ Append(s, e) \in Seq(S)
         /\ \A i \in S : FiledIn(s, i) => FiledIn(Append(s, e), i)
         /\ FiledIn(Append(s, e), e)
         /\ \A p \in DOMAIN Append(s, e) : Append(s, e)[p] = e \/ (p \in DOMAIN s /\ Append(s, e)[p] = s[p])
<1>1. /\ Append(s, e) \in Seq(S) /\ DOMAIN s = 1..Len(s) /\ Len(s) \in Nat
      /\ DOMAIN Append(s, e) = 1..(Len(s) + 1)
      /\ \A p \in 1..Len(s) : Append(s, e)[p] = s[p]
      /\ Append(s, e)[Len(s) + 1] = e
  OBVIOUS
<1>2. QED
  BY <1>1 DEF FiledIn

(* The new object is filed where it belongs, and the others stay.          *)
LEMMA AddIInv ==
  ASSUME IInv, NEW v \in Versions, NEW start \in Addresses(v), NEW end \in Addresses(v),
         Add(v, start, end)
  PROVE  IInv'
<1> DEFINE n   == Len(nets)
           net == [ver |-> v, start |-> start, end |-> end]
           lo  == Key(v, start)
           hi  == Key(v, end)
<1>1. /\ nets \in Seq(Nets) /\ n \in Nat /\ net \in Nets
      /\ nets' = Append(nets, net)
      /\ IndexNet(n + 1, v, start, end)
  BY DEF IInv, TypeOK, Add, Nets
<1>2. /\ nets' \in Seq(Nets) /\ Len(nets') = n + 1
      /\ nets'[n + 1] = net
      /\ DOMAIN nets = 1..n /\ DOMAIN nets' = 1..(n + 1)
      /\ \A i \in 1..n : nets'[i] = nets[i]
  BY <1>1
<1>3. \A u \in Versions :
        /\ wide[u] \in Seq(1..n) /\ buckets[u] \in [Keys(u) -> Seq(1..n)]
  BY DEF IInv, TypeOK
<1>4. \A u \in Versions :
        /\ wide[u] \in Seq(1..(n + 1)) /\ buckets[u] \in [Keys(u) -> Seq(1..(n + 1))]
  <2>1. Seq(1..n) \subseteq Seq(1..(n + 1))
    BY <1>1
  <2>2. QED
    BY <1>3, <2>1
<1>5. CASE hi - lo >= MaxBuckets
  <2>1. buckets' = buckets /\ wide' = [wide EXCEPT ![v] = Append(@, n + 1)]
    BY <1>1, <1>5 DEF IndexNet
  <2>2. /\ wide'[v] = Append(wide[v], n + 1)
        /\ \A u \in Versions : u # v => wide'[u] = wide[u]
    BY <2>1 DEF IInv, Shape
  <2>3. TypeOK'
    <3>1. wide[v] \in Seq(1..(n + 1)) /\ n + 1 \in 1..(n + 1)
      BY <1>1, <1>4
    <3>2. wide'[v] \in Seq(1..(n + 1))
      BY <2>2, <3>1, AppendFacts
    <3>3. QED
      BY <1>2, <1>4, <2>1, <2>2, <3>2 DEF TypeOK
  <2>4. Shape'
    <3>1. n + 1 \in Nat /\ wide[v] \in Seq(Nat)
      BY <1>1 DEF IInv, Shape
    <3>2. Append(wide[v], n + 1) \in Seq(Nat)
      BY <3>1
    <3>3. QED
      BY <2>1, <3>2 DEF IInv, Shape
  <2>5. OwnVersion'
    <3>1. ASSUME NEW u \in Versions, NEW k \in Keys(u), NEW p \in DOMAIN buckets[u][k]
          PROVE  nets'[buckets[u][k][p]].ver = u
      <4>1. buckets[u][k] \in Seq(1..n)
        BY <1>3
      <4>2. buckets[u][k][p] \in 1..n
        BY <4>1
      <4>3. QED
        BY <1>2, <4>2 DEF IInv, OwnVersion
    <3>2. ASSUME NEW u \in Versions, NEW p \in DOMAIN wide[u]
          PROVE  nets'[wide[u][p]].ver = u
      <4>1. wide[u][p] \in 1..n
        BY <1>3
      <4>2. QED
        BY <1>2, <4>1 DEF IInv, OwnVersion
    <3>3. \A p \in DOMAIN wide'[v] : nets'[wide'[v][p]].ver = v
      <4>1. wide[v] \in Seq(1..(n + 1)) /\ n + 1 \in 1..(n + 1)
        BY <1>1, <1>4
      <4>2. \A p \in DOMAIN wide'[v] : wide'[v][p] = n + 1 \/ (p \in DOMAIN wide[v] /\ wide'[v][p] = wide[v][p])
        BY <2>2, <4>1, AppendFacts
      <4>3. QED
        BY <1>2, <3>2, <4>2
    <3>4. QED
      BY <2>1, <2>2, <3>1, <3>2, <3>3 DEF OwnVersion
  <2>6. Filed'
    <3>1. wide[v] \in Seq(1..(n + 1)) /\ n + 1 \in 1..(n + 1)
      BY <1>1, <1>4
    <3>2. \A u \in Versions : \A i \in 1..(n + 1) : FiledIn(wide[u], i) => FiledIn(wide'[u], i)
      <4>1. \A i \in 1..(n + 1) : FiledIn(wide[v], i) => FiledIn(Append(wide[v], n + 1), i)
        BY <3>1, AppendFacts
      <4>2. QED
        BY <2>2, <4>1
    <3>3. FiledIn(wide'[v], n + 1)
      BY <2>2, <3>1, AppendFacts
    <3>4. ASSUME NEW i \in 1..n
          PROVE  LET u == nets'[i].ver
                 IN \/ FiledIn(wide'[u], i)
                    \/ \A k \in Keys(u) :
                         Key(u, nets'[i].start) <= k /\ k <= Key(u, nets'[i].end)
                           => FiledIn(buckets'[u][k], i)
      <4>1. nets[i].ver \in Versions /\ nets'[i] = nets[i] /\ i \in 1..(n + 1)
        BY <1>1, <1>2 DEF Nets
      <4>2. QED
        BY <1>2, <2>1, <3>2, <4>1 DEF IInv, Filed
    <3>5. \A i \in DOMAIN nets' : i \in 1..n \/ i = n + 1
      BY <1>1, <1>2
    <3>6. nets'[n + 1].ver = v
      BY <1>2
    <3>7. QED
      BY <3>3, <3>4, <3>5, <3>6 DEF Filed
  <2>7. QED
    BY <2>3, <2>4, <2>5, <2>6 DEF IInv
<1>6. CASE ~(hi - lo >= MaxBuckets)
  <2>1. /\ wide' = wide
        /\ buckets' = [buckets EXCEPT ![v] = [k \in Keys(v) |->
             IF lo <= k /\ k <= hi THEN Append(@[k], n + 1) ELSE @[k]]]
    BY <1>1, <1>6 DEF IndexNet
  <2>2. /\ \A u \in Versions : u # v => buckets'[u] = buckets[u]
        /\ buckets'[v] = [k \in Keys(v) |->
             IF lo <= k /\ k <= hi THEN Append(buckets[v][k], n + 1) ELSE buckets[v][k]]
    BY <2>1 DEF IInv, Shape
  <2>3. ASSUME NEW k \in Keys(v)
        PROVE  /\ buckets[v][k] \in Seq(1..(n + 1)) /\ n + 1 \in 1..(n + 1)
               /\ buckets'[v][k] = IF lo <= k /\ k <= hi THEN Append(buckets[v][k], n + 1)
                                   ELSE buckets[v][k]
               /\ buckets'[v][k] \in Seq(1..(n + 1))
    <3>1. /\ buckets[v][k] \in Seq(1..(n + 1)) /\ n + 1 \in 1..(n + 1)
      BY <1>1, <1>4
    <3>2. Append(buckets[v][k], n + 1) \in Seq(1..(n + 1))
      BY <3>1, AppendFacts
    <3>3. QED
      BY <2>2, <3>1, <3>2
  <2>4. buckets'[v] \in [Keys(v) -> Seq(1..(n + 1))]
    BY <2>2, <2>3
  <2>5. TypeOK'
    BY <1>2, <1>4, <2>1, <2>2, <2>4 DEF TypeOK
  <2>6. Shape'
    <3>1. Seq(1..(n + 1)) \subseteq Seq(Nat)
      BY <1>1
    <3>2. buckets'[v] \in [Keys(v) -> Seq(Nat)]
      BY <2>4, <3>1
    <3>3. buckets'[v] \in UNION {[Keys(u) -> Seq(Nat)] : u \in Versions}
      BY <3>2
    <3>4. \A u \in Versions : buckets'[u] \in UNION {[Keys(x) -> Seq(Nat)] : x \in Versions}
      BY <2>2, <3>3 DEF IInv, Shape
    <3>5. DOMAIN buckets' = Versions /\ buckets' = [u \in Versions |-> buckets'[u]]
      BY <2>1 DEF IInv, Shape
    <3>6. QED
      BY <2>1, <3>4, <3>5 DEF IInv, Shape
  <2>7. OwnVersion'
    <3>1. ASSUME NEW u \in Versions, NEW k \in Keys(u), NEW p \in DOMAIN buckets[u][k]
          PROVE  nets'[buckets[u][k][p]].ver = u
      <4>1. buckets[u][k] \in Seq(1..n)
        BY <1>3
      <4>2. buckets[u][k][p] \in 1..n
        BY <4>1
      <4>3. QED
        BY <1>2, <4>2 DEF IInv, OwnVersion
    <3>2. ASSUME NEW u \in Versions, NEW p \in DOMAIN wide[u]
          PROVE  nets'[wide[u][p]].ver = u
      <4>1. wide[u][p] \in 1..n
        BY <1>3
      <4>2. QED
        BY <1>2, <4>1 DEF IInv, OwnVersion
    <3>3. ASSUME NEW k \in Keys(v), NEW p \in DOMAIN buckets'[v][k]
          PROVE  nets'[buckets'[v][k][p]].ver = v
      <4>1. buckets'[v][k][p] = n + 1 \/ (p \in DOMAIN buckets[v][k] /\ buckets'[v][k][p] = buckets[v][k][p])
        <5> DEFINE s == buckets[v][k]
        <5>1. s \in Seq(1..(n + 1)) /\ n + 1 \in 1..(n + 1)
              /\ (buckets'[v][k] = Append(s, n + 1) \/ buckets'[v][k] = s)
          BY <2>3
        <5>2. \A q \in DOMAIN Append(s, n + 1) :
                Append(s, n + 1)[q] = n + 1 \/ (q \in DOMAIN s /\ Append(s, n + 1)[q] = s[q])
          BY <5>1, AppendFacts
        <5>3. CASE buckets'[v][k] = Append(s, n + 1)
          BY <3>3, <5>2, <5>3
        <5>4. CASE buckets'[v][k] = s
          BY <3>3, <5>4
        <5>5. QED
          BY <5>1, <5>3, <5>4
      <4>2. QED
        BY <1>2, <3>1, <4>1
    <3>4. QED
      BY <2>1, <2>2, <3>1, <3>2, <3>3 DEF OwnVersion
  <2>8. Filed'
    <3>1. \A u \in Versions : \A k \in Keys(u) : \A i \in 1..(n + 1) :
            FiledIn(buckets[u][k], i) => FiledIn(buckets'[u][k], i)
      <4>1. ASSUME NEW k \in Keys(v), NEW i \in 1..(n + 1), FiledIn(buckets[v][k], i)
            PROVE  FiledIn(buckets'[v][k], i)
        <5>1. FiledIn(Append(buckets[v][k], n + 1), i)
          BY <2>3, <4>1, AppendFacts
        <5>2. QED
          BY <2>3, <4>1, <5>1
      <4>2. QED
        BY <2>2, <4>1
    <3>2. \A k \in Keys(v) : lo <= k /\ k <= hi => FiledIn(buckets'[v][k], n + 1)
      BY <2>3, AppendFacts
    <3>3. ASSUME NEW i \in 1..n
          PROVE  LET u == nets'[i].ver
                 IN \/ FiledIn(wide'[u], i)
                    \/ \A k \in Keys(u) :
                         Key(u, nets'[i].start) <= k /\ k <= Key(u, nets'[i].end)
                           => FiledIn(buckets'[u][k], i)
      <4>1. nets[i].ver \in Versions /\ nets'[i] = nets[i] /\ i \in 1..(n + 1)
        BY <1>1, <1>2 DEF Nets
      <4>2. QED
        BY <1>2, <2>1, <3>1, <4>1 DEF IInv, Filed
    <3>4. LET u == nets'[n + 1].ver
          IN \A k \in Keys(u) :
               Key(u, nets'[n + 1].start) <= k /\ k <= Key(u, nets'[n + 1].end)
                 => FiledIn(buckets'[u][k], n + 1)
      BY <1>2, <3>2
    <3>5. \A i \in DOMAIN nets' : i \in 1..n \/ i = n + 1
      BY <1>1, <1>2
    <3>6. QED
      BY <3>3, <3>4, <3>5 DEF Filed
  <2>9. QED
    BY <2>5, <2>6, <2>7, <2>8 DEF IInv
<1>7. QED
  BY <1>5, <1>6

LEMMA StepIInv == IInv /\ [Next]_vars => IInv'
<1> SUFFICES ASSUME IInv, [Next]_vars PROVE IInv'
  OBVIOUS
<1>1. CASE UNCHANGED vars
  BY <1>1 DEF vars, IInv, TypeOK, Shape, OwnVersion, Filed, FiledIn
<1>2. CASE Next
  BY <1>2, AddIInv DEF Next
<1>3. QED
  BY <1>1, <1>2
-----------------------------------------------------------------------------
LEMMA ConcatFacts ==
  ASSUME NEW S, NEW s \in Seq(S), NEW t \in Seq(S)
  PROVE  /\ s \o t \in Seq(S)
         /\ \A p \in DOMAIN s : p \in DOMAIN (s \o t) /\ (s \o t)[p] = s[p]
         /\ \A p \in DOMAIN t : Len(s) + p \in DOMAIN (s \o t) /\ (s \o t)[Len(s) + p] = t[p]
         /\ \A p \in DOMAIN (s \o t) :
              \/ p \in DOMAIN s /\ (s \o t)[p] = s[p]
              \/ p - Len(s) \in DOMAIN t /\ (s \o t)[p] = t[p - Len(s)]
<1>1. /\ Len(s) \in Nat /\ DOMAIN s = 1..Len(s)
      /\ Len(t) \in Nat /\ DOMAIN t = 1..Len(t)
  OBVIOUS
<1>2. s \o t \in Seq(S) /\ DOMAIN (s \o t) = 1..(Len(s) + Len(t))
  BY <1>1
<1>3. \A p \in 1..(Len(s) + Len(t)) :
        (s \o t)[p] = IF p <= Len(s) THEN s[p] ELSE t[p - Len(s)]
  BY <1>1
<1>4. /\ \A p \in DOMAIN s : p \in DOMAIN (s \o t) /\ (s \o t)[p] = s[p]
      /\ \A p \in DOMAIN (s \o t) :
           \/ p \in DOMAIN s /\ (s \o t)[p] = s[p]
           \/ p - Len(s) \in DOMAIN t /\ (s \o t)[p] = t[p - Len(s)]
  BY <1>1, <1>2, <1>3
<1>5. ASSUME NEW p \in DOMAIN t
      PROVE  Len(s) + p \in DOMAIN (s \o t) /\ (s \o t)[Len(s) + p] = t[p]
  <2>1. Len(s) + p \in 1..(Len(s) + Len(t)) /\ ~(Len(s) + p <= Len(s)) /\ (Len(s) + p) - Len(s) = p
    BY <1>1
  <2>2. QED
    BY <1>2, <1>3, <2>1
<1>6. QED
  BY <1>2, <1>4, <1>5

(* What holds an address is among the candidates for it.                   *)
LEMMA Scanned ==
  ASSUME IInv, NEW v \in Versions, NEW a \in Addresses(v)
  PROVE  /\ Candidates(v, a) \in Seq(1..Len(nets))
         /\ \A p \in DOMAIN Candidates(v, a) : nets[Candidates(v, a)[p]].ver = v
         /\ \A i \in DOMAIN nets : Holds(nets[i], v, a) => FiledIn(Candidates(v, a), i)
<1> DEFINE b == buckets[v][Key(v, a)]
           w == wide[v]
           n == Len(nets)
<1>1. nets \in Seq(Nets) /\ DOMAIN nets = 1..n /\ n \in Nat
  BY DEF IInv, TypeOK
<1>2. Key(v, a) \in Keys(v)
  BY KeyMonotone
<1>3. b \in Seq(1..n) /\ w \in Seq(1..n)
  BY <1>2 DEF IInv, TypeOK
<1>4. Candidates(v, a) = b \o w
  BY DEF Candidates
<1> HIDE DEF b, w
<1>5. /\ b \o w \in Seq(1..n)
      /\ \A p \in DOMAIN b : p \in DOMAIN (b \o w) /\ (b \o w)[p] = b[p]
      /\ \A p \in DOMAIN w : Len(b) + p \in DOMAIN (b \o w) /\ (b \o w)[Len(b) + p] = w[p]
      /\ \A p \in DOMAIN (b \o w) :
           \/ p \in DOMAIN b /\ (b \o w)[p] = b[p]
           \/ p - Len(b) \in DOMAIN w /\ (b \o w)[p] = w[p - Len(b)]
  <2> DEFINE P == 1..n
  <2>1. b \in Seq(P) /\ w \in Seq(P)
    BY <1>3
  <2> HIDE DEF P
  <2>2. /\ b \o w \in Seq(P)
        /\ \A p \in DOMAIN b : p \in DOMAIN (b \o w) /\ (b \o w)[p] = b[p]
        /\ \A p \in DOMAIN w : Len(b) + p \in DOMAIN (b \o w) /\ (b \o w)[Len(b) + p] = w[p]
        /\ \A p \in DOMAIN (b \o w) :
             \/ p \in DOMAIN b /\ (b \o w)[p] = b[p]
             \/ p - Len(b) \in DOMAIN w /\ (b \o w)[p] = w[p - Len(b)]
    BY <2>1, ConcatFacts, Zenon
  <2>3. QED
    BY <2>2 DEF P
<1>6. \A p \in DOMAIN (b \o w) : nets[(b \o w)[p]].ver = v
  <2>1. /\ \A p \in DOMAIN b : nets[b[p]].ver = v
        /\ \A p \in DOMAIN w : nets[w[p]].ver = v
    BY <1>2 DEF IInv, OwnVersion, b, w
  <2>2. QED
    BY <1>5, <2>1
<1>7. ASSUME NEW i \in 1..n, Holds(nets[i], v, a)
      PROVE  FiledIn(b, i) \/ FiledIn(w, i)
  <2>1. /\ nets[i].ver = v /\ nets[i].start \in Addresses(v) /\ nets[i].end \in Addresses(v)
        /\ nets[i].start <= a /\ a <= nets[i].end
    BY <1>1, <1>7 DEF Holds, Nets
  <2>2. Key(v, nets[i].start) <= Key(v, a) /\ Key(v, a) <= Key(v, nets[i].end)
    BY <2>1, KeyMonotone
  <2>3. QED
    BY <1>1, <1>2, <2>1, <2>2 DEF IInv, Filed, b, w
<1>8. \A i \in 1..n : FiledIn(b, i) \/ FiledIn(w, i) => FiledIn(b \o w, i)
  BY <1>5 DEF FiledIn
<1>9. QED
  BY <1>1, <1>4, <1>5, <1>6, <1>7, <1>8

LEMMA IndexIsScan == IInv => MostSpecific
<1> SUFFICES ASSUME IInv, NEW v \in Versions, NEW a \in Addresses(v)
             PROVE  LET holding == {i \in DOMAIN nets : Holds(nets[i], v, a)}
                        answer  == Lookup(v, a)
                    IN IF holding = {} THEN answer = 0
                       ELSE /\ answer \in holding
                            /\ \A j \in holding : Size(nets[answer]) <= Size(nets[j])
  BY DEF MostSpecific
<1> DEFINE holding == {i \in DOMAIN nets : Holds(nets[i], v, a)}
           scan    == Candidates(v, a)
           hits    == {i \in DOMAIN scan : nets[scan[i]].start <= a /\ a <= nets[scan[i]].end}
           better(i, j) == LET si == Size(nets[scan[i]])
                               sj == Size(nets[scan[j]])
                           IN si < sj \/ (si = sj /\ i <= j)
           best    == CHOOSE i \in hits : \A j \in hits : better(i, j)
<1>1. Lookup(v, a) = IF hits = {} THEN 0 ELSE scan[best]
  BY DEF Lookup
<1>2. /\ nets \in Seq(Nets) /\ scan \in Seq(1..Len(nets))
      /\ \A p \in DOMAIN scan : scan[p] \in DOMAIN nets /\ nets[scan[p]].ver = v
      /\ \A i \in holding : \E p \in DOMAIN scan : scan[p] = i
  BY Scanned DEF IInv, TypeOK, FiledIn
<1> HIDE DEF scan
<1>3. \A p \in hits : scan[p] \in holding
  BY <1>2 DEF Holds
<1>4. \A i \in holding : \E p \in hits : scan[p] = i
  BY <1>2 DEF Holds
<1>5. CASE holding = {}
  BY <1>1, <1>3, <1>5
<1>6. CASE holding # {}
  <2> DEFINE size == [p \in hits |-> Size(nets[scan[p]])]
  <2>1. hits # {} /\ hits \in SUBSET Nat
    BY <1>2, <1>4, <1>6
  <2>2. \A i \in holding : Size(nets[i]) \in Nat
    <3>1. ASSUME NEW i \in holding PROVE Size(nets[i]) \in Nat
      <4>1. /\ nets[i].start \in Nat /\ nets[i].end \in Nat /\ a \in Nat
            /\ nets[i].start <= a /\ a <= nets[i].end
        BY <1>2 DEF Holds, Nets, Addresses
      <4>2. QED
        BY <4>1 DEF Size
    <3>2. QED
      BY <3>1
  <2>3. size \in [hits -> Nat]
    BY <1>3, <2>2
  <2> HIDE DEF hits
  <2>4. \E i \in hits : \A j \in hits : size[i] < size[j] \/ (size[i] = size[j] /\ i <= j)
    BY <2>1, <2>3, FirstSmallest
  <2>5. \E i \in hits : \A j \in hits : better(i, j)
    BY <2>4
  <2> HIDE DEF better
  <2>6. best \in hits /\ \A j \in hits : better(best, j)
    BY <2>5
  <2> HIDE DEF best
  <2>7. \A j \in hits : Size(nets[scan[best]]) <= Size(nets[scan[j]])
    BY <1>3, <2>2, <2>6 DEF better
  <2>8. \A i \in holding : Size(nets[scan[best]]) <= Size(nets[i])
    BY <1>4, <2>7
  <2>9. QED
    BY <1>1, <1>3, <2>1, <2>6, <2>8
<1>7. QED
  BY <1>5, <1>6

(* Every answer is the most specific range of all that hold the address,   *)
(* and there is one if any range holds it (rir.py, lookup).                *)
THEOREM LookupMostSpecific == Spec => []MostSpecific
<1>1. Spec => []IInv
  BY InitIInv, StepIInv, PTL DEF Spec
<1>2. QED
  BY <1>1, IndexIsScan, PTL

(* Filing keeps the buckets and the wide list to positions of networks     *)
(* that are there, whatever ranges the dump has (RirIndex._index).         *)
THEOREM IndexTypes == Spec => []TypeOK
<1>1. IInv => TypeOK
  BY DEF IInv
<1>2. Spec => []IInv
  BY InitIInv, StepIInv, PTL DEF Spec
<1>3. QED
  BY <1>1, <1>2, PTL
-----------------------------------------------------------------------------
(* The maps say what the objects read so far say.                          *)
MapsUpToDate ==
  /\ \A h \in Orgs \cup {Nothing} : orgs[h] = OrgSaid(h)
  /\ \A h \in Contacts \cup {Nothing} : contacts[h] = MailSaid(h)

Maps ==
  /\ refs \in Seq(Refs) /\ Len(refs) = Len(nets)
  /\ orgs \in [Orgs \cup {Nothing} -> OrgData]
  /\ contacts \in [Contacts \cup {Nothing} -> Mailboxes \cup {Nothing}]
  /\ read \in Seq(Objects)

WhoisIInv == Maps /\ MapsUpToDate
-----------------------------------------------------------------------------
(* Every object read is one of the index, or none of its concern.          *)
LEMMA StepsOfIndex == [WhoisNext]_allVars => [Next]_vars
<1> SUFFICES ASSUME [WhoisNext]_allVars PROVE [Next]_vars
  OBVIOUS
<1>1. ASSUME NEW v \in Versions, NEW start \in Addresses(v), NEW end \in Addresses(v),
             NEW ref \in Refs, AddNet(v, start, end, ref)
      PROVE  Next
  BY <1>1 DEF AddNet, Next
<1>2. ASSUME NEW h, NEW data, AddOrganisation(h, data) \/ AddContact(h, data)
      PROVE  UNCHANGED vars
  BY <1>2 DEF AddOrganisation, AddContact
<1>3. UNCHANGED allVars => UNCHANGED vars
  BY DEF allVars
<1>4. QED
  BY <1>1, <1>2, <1>3 DEF WhoisNext

(* The ranges of the dumps are indexed as RirIndex indexes them, whatever  *)
(* other objects stand between them.                                       *)
THEOREM FilesIndex == WhoisSpec => Spec
<1>1. WhoisInit => Init
  BY DEF WhoisInit
<1>2. QED
  BY <1>1, StepsOfIndex, PTL DEF WhoisSpec, Spec
-----------------------------------------------------------------------------
(* The greatest of a set that has one.                                     *)
LEMMA LastIs ==
  ASSUME NEW S \in SUBSET Nat, NEW m \in S, \A j \in S : j <= m
  PROVE  Last(S) = m
<1>1. \A i \in S : (\A j \in S : j <= i) => i = m
  OBVIOUS
<1>2. Last(S) \in S /\ \A j \in S : j <= Last(S)
  BY DEF Last
<1>3. QED
  BY <1>1, <1>2

(* A bounded set of positions that is not empty has a last one.            *)
LEMMA LastExists ==
  ASSUME NEW n \in Nat, NEW S \in SUBSET (1..n), S # {}
  PROVE  Last(S) \in S
<1> DEFINE T == {n - i : i \in S}
<1>1. T \in SUBSET Nat /\ T # {}
  <2>1. \A i \in 1..n : n - i \in Nat
    OBVIOUS
  <2>2. \A i \in S : i \in 1..n
    OBVIOUS
  <2>3. QED
    BY <2>1, <2>2
<1>2. PICK t \in T : \A u \in T : t <= u
  BY <1>1, NatHasLeast
<1>3. PICK m \in S : t = n - m
  BY <1>2
<1>4. \A j \in S : j <= m
  <2>1. ASSUME NEW j \in S PROVE j <= m
    <3>1. n - m <= n - j
      BY <1>2, <1>3
    <3>2. j \in Int /\ m \in Int
      OBVIOUS
    <3>3. QED
      BY <3>1, <3>2
  <2>2. QED
    BY <2>1
<1>5. QED
  BY <1>3, <1>4, LastIs

LEMMA ReadMore ==
  ASSUME NEW o \in Objects, read \in Seq(Objects), read' = Append(read, o)
  PROVE  /\ Len(read) \in Nat /\ DOMAIN read = 1..Len(read)
         /\ DOMAIN read' = 1..(Len(read) + 1) /\ read' \in Seq(Objects)
         /\ \A i \in 1..Len(read) : read'[i] = read[i]
         /\ read'[Len(read) + 1] = o
OBVIOUS

(* The last word on a handle is that of the new object, if it is about it. *)
LEMMA OrgSaidNext ==
  ASSUME NEW o \in Objects, read \in Seq(Objects), read' = Append(read, o), NEW h
  PROVE  OrgSaid(h)' = IF o.kind = "organisation" /\ o.handle = h THEN o.data ELSE OrgSaid(h)
<1> DEFINE n == Len(read)
           Said     == {i \in DOMAIN read : read[i].kind = "organisation" /\ read[i].handle = h}
           SaidNext == {i \in DOMAIN read' : read'[i].kind = "organisation" /\ read'[i].handle = h}
<1>1. /\ n \in Nat /\ DOMAIN read = 1..n /\ DOMAIN read' = 1..(n + 1)
      /\ \A i \in 1..n : read'[i] = read[i]
      /\ read'[n + 1] = o
  BY ReadMore
<1>2. /\ OrgSaid(h) = IF Said = {} THEN NoOrg ELSE read[Last(Said)].data
      /\ OrgSaid(h)' = IF SaidNext = {} THEN NoOrg ELSE read'[Last(SaidNext)].data
  BY DEF OrgSaid, Last, NoOrg
<1>3. CASE o.kind = "organisation" /\ o.handle = h
  <2>1. n + 1 \in SaidNext /\ SaidNext \in SUBSET Nat /\ \A j \in SaidNext : j <= n + 1
    BY <1>1, <1>3
  <2>2. Last(SaidNext) = n + 1
    BY <2>1, LastIs
  <2>3. QED
    BY <1>1, <1>2, <1>3, <2>1, <2>2
<1>4. CASE ~(o.kind = "organisation" /\ o.handle = h)
  <2>1. SaidNext = Said
    BY <1>1, <1>4
  <2>2. CASE Said = {}
    BY <1>2, <1>4, <2>1, <2>2
  <2>3. CASE Said # {}
    <3>1. Said \in SUBSET (1..n)
      BY <1>1
    <3>2. Last(Said) \in 1..n
      BY <1>1, <2>3, <3>1, LastExists
    <3>3. QED
      BY <1>1, <1>2, <1>4, <2>1, <2>3, <3>2
  <2>4. QED
    BY <2>2, <2>3
<1>5. QED
  BY <1>3, <1>4

LEMMA MailSaidNext ==
  ASSUME NEW o \in Objects, read \in Seq(Objects), read' = Append(read, o), NEW h
  PROVE  MailSaid(h)' = IF o.kind = "contact" /\ o.handle = h /\ o.data # Nothing
                        THEN o.data ELSE MailSaid(h)
<1> DEFINE n == Len(read)
           About(q) == q.kind = "contact" /\ q.handle = h /\ q.data # Nothing
           Said     == {i \in DOMAIN read : About(read[i])}
           SaidNext == {i \in DOMAIN read' : About(read'[i])}
<1>1. /\ n \in Nat /\ DOMAIN read = 1..n /\ DOMAIN read' = 1..(n + 1)
      /\ \A i \in 1..n : read'[i] = read[i]
      /\ read'[n + 1] = o
  BY ReadMore
<1>2. /\ MailSaid(h) = IF Said = {} THEN Nothing ELSE read[Last(Said)].data
      /\ MailSaid(h)' = IF SaidNext = {} THEN Nothing ELSE read'[Last(SaidNext)].data
  BY DEF MailSaid, Last
<1>3. CASE About(o)
  <2>1. n + 1 \in SaidNext /\ SaidNext \in SUBSET Nat /\ \A j \in SaidNext : j <= n + 1
    BY <1>1, <1>3
  <2>2. Last(SaidNext) = n + 1
    BY <2>1, LastIs
  <2>3. QED
    BY <1>1, <1>2, <1>3, <2>1, <2>2
<1>4. CASE ~About(o)
  <2>1. SaidNext = Said
    BY <1>1, <1>4
  <2>2. CASE Said = {}
    BY <1>2, <1>4, <2>1, <2>2
  <2>3. CASE Said # {}
    <3>1. Said \in SUBSET (1..n)
      BY <1>1
    <3>2. Last(Said) \in 1..n
      BY <1>1, <2>3, <3>1, LastExists
    <3>3. QED
      BY <1>1, <1>2, <1>4, <2>1, <2>3, <3>2
  <2>4. QED
    BY <2>2, <2>3
<1>5. QED
  BY <1>3, <1>4
-----------------------------------------------------------------------------
LEMMA WhoisInitIInv == WhoisInit => WhoisIInv
<1> SUFFICES ASSUME WhoisInit PROVE WhoisIInv
  OBVIOUS
<1>1. Maps
  <2>1. refs = <<>> /\ nets = <<>> /\ read = <<>>
    BY DEF WhoisInit, Init
  <2>2. NoOrg \in OrgData
    BY DEF NoOrg, OrgData
  <2>3. /\ orgs \in [Orgs \cup {Nothing} -> OrgData]
        /\ contacts \in [Contacts \cup {Nothing} -> Mailboxes \cup {Nothing}]
    BY <2>2 DEF WhoisInit
  <2>4. QED
    BY <2>1, <2>3 DEF Maps
<1>2. MapsUpToDate
  <2>1. DOMAIN read = {}
    BY DEF WhoisInit
  <2>2. \A h : OrgSaid(h) = NoOrg /\ MailSaid(h) = Nothing
    BY <2>1 DEF OrgSaid, MailSaid
  <2>3. QED
    BY <2>2 DEF MapsUpToDate, WhoisInit
<1>3. QED
  BY <1>1, <1>2 DEF WhoisIInv

LEMMA SameWord ==
  ASSUME read' = read, NEW h
  PROVE  OrgSaid(h)' = OrgSaid(h) /\ MailSaid(h)' = MailSaid(h)
<1>1. OrgSaid(h)' = OrgSaid(h)
  BY DEF OrgSaid, Last, NoOrg
<1>2. MailSaid(h)' = MailSaid(h)
  BY DEF MailSaid, Last
<1>3. QED
  BY <1>1, <1>2

LEMMA AddNetIInv ==
  ASSUME WhoisIInv, nets \in Seq(Nets), NEW v \in Versions, NEW start \in Addresses(v),
         NEW end \in Addresses(v), NEW ref \in Refs, AddNet(v, start, end, ref)
  PROVE  WhoisIInv'
<1>1. /\ refs' = Append(refs, ref) /\ UNCHANGED <<orgs, contacts, read>>
      /\ nets' = Append(nets, [ver |-> v, start |-> start, end |-> end])
  BY DEF AddNet, Add
<1>2. refs' \in Seq(Refs) /\ Len(refs') = Len(nets')
  BY <1>1 DEF WhoisIInv, Maps
<1>3. MapsUpToDate'
  BY <1>1, SameWord DEF WhoisIInv, MapsUpToDate
<1>4. QED
  BY <1>1, <1>2, <1>3 DEF WhoisIInv, Maps

LEMMA AddOrganisationIInv ==
  ASSUME WhoisIInv, NEW h \in Orgs, NEW data \in OrgData, AddOrganisation(h, data)
  PROVE  WhoisIInv'
<1> DEFINE o == [kind |-> "organisation", handle |-> h, data |-> data]
<1>1. /\ o \in Objects /\ o.kind = "organisation" /\ o.kind # "contact"
      /\ o.handle = h /\ o.data = data
  BY DEF Objects
<1>2. /\ orgs' = [orgs EXCEPT ![h] = data] /\ read' = Append(read, o)
      /\ UNCHANGED <<nets, refs, contacts>>
  BY DEF AddOrganisation, vars
<1> HIDE DEF o
<1>3. Maps'
  <2>1. read' \in Seq(Objects)
    BY <1>1, <1>2, ReadMore DEF WhoisIInv, Maps
  <2>2. QED
    BY <1>2, <2>1 DEF WhoisIInv, Maps
<1>4. \A g \in Orgs \cup {Nothing} : orgs'[g] = OrgSaid(g)'
  <2>1. ASSUME NEW g \in Orgs \cup {Nothing} PROVE orgs'[g] = OrgSaid(g)'
    <3>1. OrgSaid(g)' = IF h = g THEN data ELSE OrgSaid(g)
      BY <1>1, <1>2, OrgSaidNext DEF WhoisIInv, Maps
    <3>2. orgs'[g] = IF h = g THEN data ELSE orgs[g]
      BY <1>2 DEF WhoisIInv, Maps
    <3>3. QED
      BY <3>1, <3>2 DEF WhoisIInv, MapsUpToDate
  <2>2. QED
    BY <2>1
<1>5. \A g \in Contacts \cup {Nothing} : contacts'[g] = MailSaid(g)'
  <2>1. ASSUME NEW g \in Contacts \cup {Nothing} PROVE contacts'[g] = MailSaid(g)'
    <3>1. MailSaid(g)' = MailSaid(g)
      BY <1>1, <1>2, MailSaidNext DEF WhoisIInv, Maps
    <3>2. QED
      BY <1>2, <3>1 DEF WhoisIInv, MapsUpToDate
  <2>2. QED
    BY <2>1
<1>6. QED
  BY <1>3, <1>4, <1>5 DEF WhoisIInv, MapsUpToDate

LEMMA AddContactIInv ==
  ASSUME WhoisIInv, NEW h \in Contacts, NEW mailbox \in Mailboxes \cup {Nothing},
         AddContact(h, mailbox)
  PROVE  WhoisIInv'
<1> DEFINE o == [kind |-> "contact", handle |-> h, data |-> mailbox]
<1>1. /\ o \in Objects /\ o.kind = "contact" /\ o.kind # "organisation"
      /\ o.handle = h /\ o.data = mailbox
  BY DEF Objects
<1>2. /\ contacts' = IF mailbox = Nothing THEN contacts
                     ELSE [contacts EXCEPT ![h] = mailbox]
      /\ read' = Append(read, o)
      /\ UNCHANGED <<nets, refs, orgs>>
  BY DEF AddContact, vars
<1> HIDE DEF o
<1>3. Maps'
  <2>1. read' \in Seq(Objects)
    BY <1>1, <1>2, ReadMore DEF WhoisIInv, Maps
  <2>2. contacts' \in [Contacts \cup {Nothing} -> Mailboxes \cup {Nothing}]
    BY <1>2 DEF WhoisIInv, Maps
  <2>3. QED
    BY <1>2, <2>1, <2>2 DEF WhoisIInv, Maps
<1>4. \A g \in Orgs \cup {Nothing} : orgs'[g] = OrgSaid(g)'
  <2>1. ASSUME NEW g \in Orgs \cup {Nothing} PROVE orgs'[g] = OrgSaid(g)'
    <3>1. OrgSaid(g)' = OrgSaid(g)
      BY <1>1, <1>2, OrgSaidNext DEF WhoisIInv, Maps
    <3>2. QED
      BY <1>2, <3>1 DEF WhoisIInv, MapsUpToDate
  <2>2. QED
    BY <2>1
<1>5. \A g \in Contacts \cup {Nothing} : contacts'[g] = MailSaid(g)'
  <2>1. ASSUME NEW g \in Contacts \cup {Nothing} PROVE contacts'[g] = MailSaid(g)'
    <3>1. MailSaid(g)' = IF h = g /\ mailbox # Nothing THEN mailbox ELSE MailSaid(g)
      BY <1>1, <1>2, MailSaidNext DEF WhoisIInv, Maps
    <3>2. contacts'[g] = IF h = g /\ mailbox # Nothing THEN mailbox ELSE contacts[g]
      BY <1>2 DEF WhoisIInv, Maps
    <3>3. QED
      BY <3>1, <3>2 DEF WhoisIInv, MapsUpToDate
  <2>2. QED
    BY <2>1
<1>6. QED
  BY <1>3, <1>4, <1>5 DEF WhoisIInv, MapsUpToDate

LEMMA WhoisStepIInv ==
  WhoisIInv /\ nets \in Seq(Nets) /\ [WhoisNext]_allVars => WhoisIInv'
<1> SUFFICES ASSUME WhoisIInv, nets \in Seq(Nets), [WhoisNext]_allVars PROVE WhoisIInv'
  OBVIOUS
<1>1. CASE UNCHANGED allVars
  <2>1. UNCHANGED <<nets, refs, orgs, contacts, read>>
    BY <1>1 DEF allVars, vars, whoisVars
  <2>2. MapsUpToDate'
    BY <2>1, SameWord DEF WhoisIInv, MapsUpToDate
  <2>3. QED
    BY <2>1, <2>2 DEF WhoisIInv, Maps
<1>2. CASE WhoisNext
  BY <1>2, AddNetIInv, AddOrganisationIInv, AddContactIInv DEF WhoisNext
<1>3. QED
  BY <1>1, <1>2

LEMMA WhoisInvariant == WhoisSpec => [](WhoisIInv /\ IInv)
<1>1. IInv => nets \in Seq(Nets)
  BY DEF IInv, TypeOK
<1>2. Spec => []IInv
  BY InitIInv, StepIInv, PTL DEF Spec
<1>3. WhoisSpec => []IInv
  BY <1>2, FilesIndex, PTL
<1>4. WhoisSpec => []WhoisIInv
  BY <1>1, <1>3, WhoisInitIInv, WhoisStepIInv, PTL DEF WhoisSpec
<1>5. QED
  BY <1>3, <1>4, PTL
-----------------------------------------------------------------------------
(* An email is the mailbox of the first handle asked that has one.         *)
LEMMA EmailIsFirst ==
  ASSUME WhoisIInv, NEW i \in DOMAIN refs
  PROVE  FirstMail(Asked(i), Email(i))
<1> DEFINE asked  == Asked(i)
           having == {p \in DOMAIN asked : contacts[asked[p]] # Nothing}
           first  == CHOOSE p \in having : \A q \in having : p <= q
<1>1. asked \in Seq(Contacts \cup {Nothing})
  <2>1. /\ refs[i].org \in Orgs \cup {Nothing} /\ refs[i].handles \in Seq(Contacts)
    BY RirWhoisAssumption DEF WhoisIInv, Maps
  <2>2. orgs[refs[i].org].abuse \in Contacts \cup {Nothing}
    BY <2>1 DEF WhoisIInv, Maps, OrgData
  <2>3. /\ <<orgs[refs[i].org].abuse>> \in Seq(Contacts \cup {Nothing})
        /\ refs[i].handles \in Seq(Contacts \cup {Nothing})
    BY <2>1, <2>2
  <2>4. QED
    BY <2>3 DEF Asked
<1>2. Email(i) = IF having = {} THEN Nothing ELSE contacts[asked[first]]
  BY DEF Email
<1> HIDE DEF asked
<1>3. \A p \in DOMAIN asked : contacts[asked[p]] = MailSaid(asked[p])
  BY <1>1 DEF WhoisIInv, MapsUpToDate
<1>4. DOMAIN asked = 1..Len(asked) /\ Len(asked) \in Nat
  BY <1>1
<1>5. CASE having = {}
  BY <1>2, <1>3, <1>5 DEF FirstMail, asked
<1>6. CASE having # {}
  <2>1. having \in SUBSET Nat
    BY <1>4
  <2>2. first \in having /\ \A q \in having : first <= q
    BY <1>6, <2>1, NatHasLeast
  <2> HIDE DEF first
  <2>3. \A q \in 1..(first - 1) : q \in DOMAIN asked /\ q \notin having
    BY <1>4, <2>2
  <2>4. /\ first \in DOMAIN asked /\ Email(i) = MailSaid(asked[first]) /\ Email(i) # Nothing
        /\ \A q \in 1..(first - 1) : MailSaid(asked[q]) = Nothing
    BY <1>2, <1>3, <1>6, <2>2, <2>3
  <2>5. QED
    BY <2>4 DEF FirstMail, asked
<1>7. QED
  BY <1>5, <1>6

LEMMA AnswerFromDumps == WhoisIInv /\ IInv => WhoisFromDumps
<1> SUFFICES ASSUME WhoisIInv, IInv, NEW v \in Versions, NEW a \in Addresses(v)
             PROVE  LET holding == {i \in DOMAIN nets : Holds(nets[i], v, a)}
                        answer  == Whois(v, a)
                    IN IF holding = {} THEN answer = NoData
                       ELSE LET ref == refs[answer.net]
                                org == OrgSaid(ref.org)
                            IN /\ answer.net \in holding
                               /\ \A j \in holding : Size(nets[answer.net]) <= Size(nets[j])
                               /\ answer.org = IF org.name # Nothing THEN org.name ELSE ref.descr
                               /\ FirstMail(<<org.abuse>> \o ref.handles, answer.email)
  BY DEF WhoisFromDumps
<1> DEFINE holding == {i \in DOMAIN nets : Holds(nets[i], v, a)}
           i == Lookup(v, a)
<1>1. IF holding = {} THEN i = 0
      ELSE i \in holding /\ \A j \in holding : Size(nets[i]) <= Size(nets[j])
  BY IndexIsScan DEF MostSpecific
<1>2. nets \in Seq(Nets) /\ DOMAIN nets = 1..Len(nets) /\ Len(nets) \in Nat
  BY DEF IInv, TypeOK
<1>3. DOMAIN refs = DOMAIN nets
  BY <1>2 DEF WhoisIInv, Maps
<1>4. Whois(v, a) = IF i = 0 THEN NoData
                    ELSE [net |-> i, org |-> OrgName(i), email |-> Email(i)]
  BY DEF Whois
<1> HIDE DEF i
<1>5. CASE holding = {}
  BY <1>1, <1>4, <1>5
<1>6. CASE holding # {}
  <2>1. i \in DOMAIN refs /\ i # 0
    BY <1>1, <1>2, <1>3, <1>6
  <2>2. orgs[refs[i].org] = OrgSaid(refs[i].org)
    <3>1. refs[i].org \in Orgs \cup {Nothing}
      BY <2>1, RirWhoisAssumption DEF WhoisIInv, Maps
    <3>2. QED
      BY <3>1 DEF WhoisIInv, MapsUpToDate
  <2>3. FirstMail(<<OrgSaid(refs[i].org).abuse>> \o refs[i].handles, Email(i))
    BY <2>1, <2>2, EmailIsFirst DEF Asked
  <2>4. OrgName(i) = IF OrgSaid(refs[i].org).name # Nothing THEN OrgSaid(refs[i].org).name
                     ELSE refs[i].descr
    BY <2>2 DEF OrgName
  <2>5. Whois(v, a).net = i /\ Whois(v, a).org = OrgName(i) /\ Whois(v, a).email = Email(i)
    BY <1>4, <2>1
  <2>6. QED
    BY <1>1, <1>6, <2>3, <2>4, <2>5
<1>7. QED
  BY <1>5, <1>6

(* Whatever the dumps, the order of their objects and what is missing in   *)
(* them: an address is answered with the most specific network around it   *)
(* and with the last that was said of its references (rir.py, lookup).     *)
THEOREM AnswersFromDumps == WhoisSpec => []WhoisFromDumps
BY WhoisInvariant, AnswerFromDumps, PTL

(* The index and the maps stay within their types: a reference a network   *)
(* does not make leads to no organisation and no mailbox (rir.py, lookup). *)
THEOREM WhoisTypes == WhoisSpec => []WhoisTypeOK
<1>1. WhoisIInv => orgs[Nothing] = NoOrg /\ contacts[Nothing] = Nothing
  <2> SUFFICES ASSUME WhoisIInv
               PROVE  orgs[Nothing] = NoOrg /\ contacts[Nothing] = Nothing
    OBVIOUS
  <2>1. \A i \in DOMAIN read : read[i].handle \in Orgs \cup Contacts
    BY DEF WhoisIInv, Maps, Objects
  <2>2. \A i \in DOMAIN read : read[i].handle # Nothing
    BY <2>1, RirWhoisAssumption
  <2>3. OrgSaid(Nothing) = NoOrg /\ MailSaid(Nothing) = Nothing
    BY <2>2 DEF OrgSaid, MailSaid
  <2>4. QED
    BY <2>3 DEF WhoisIInv, MapsUpToDate
<1>2. WhoisIInv /\ IInv => WhoisTypeOK
  BY <1>1 DEF WhoisIInv, Maps, IInv, WhoisTypeOK
<1>3. QED
  BY <1>2, WhoisInvariant, PTL
=============================================================================
