------------------------------ MODULE RirIndex ------------------------------
(***************************************************************************)
(* The in-memory index of network objects of sources/rir.py.  A range of   *)
(* addresses is filed under every bucket it reaches into - a bucket is a   *)
(* stretch of Width addresses - or, when those are too many, in a short    *)
(* list of wide ranges; lookup scans one bucket and the wide ranges and    *)
(* finds the most specific range the address is in.  Addresses are the     *)
(* numbers ipaddress makes of them.                                        *)
(*                                                                         *)
(* An object that is a placeholder, or whose range does not parse, is left *)
(* out of the index and of the model.  What objects say beside ranges is   *)
(* RirWhois.                                                               *)
(***************************************************************************)
EXTENDS Integers, Sequences

CONSTANTS
  Versions,     \* IPv4 and IPv6
  Space,        \* per version: how many addresses there are
  Width,        \* per version: 1 << _SHIFT, the addresses of a bucket
  MaxBuckets,   \* _MAX_BUCKETS
  MaxNets       \* bound: the objects in the dump

VARIABLES
  nets,      \* self.nets
  buckets,   \* _buckets: per version and key, positions in nets
  wide       \* _wide: per version, positions in nets

vars == <<nets, buckets, wide>>

Addresses(v) == 0..(Space[v] - 1)

(* The bucket of an address: a >> _SHIFT.                                  *)
Key(v, a) == a \div Width[v]

Keys(v) == 0..Key(v, Space[v] - 1)

Nets == UNION {[ver : {v}, start : Addresses(v), end : Addresses(v)] : v \in Versions}

ASSUME RirIndexAssumption ==
  /\ Space \in [Versions -> Nat \ {0}]
  /\ Width \in [Versions -> Nat \ {0}]
  /\ MaxBuckets \in Nat /\ MaxNets \in Nat

TypeOK ==
  /\ nets \in Seq(Nets)
  /\ \A v \in Versions : /\ buckets[v] \in [Keys(v) -> Seq(1..Len(nets))]
                         /\ wide[v] \in Seq(1..Len(nets))

Init ==
  /\ nets = <<>>
  /\ buckets = [v \in Versions |-> [k \in Keys(v) |-> <<>>]]
  /\ wide = [v \in Versions |-> <<>>]

(* The last bucket left out (used to test the properties).                 *)
IndexShort(idx, v, start, end) ==
  LET lo == Key(v, start)
      hi == Key(v, end)
  IN IF hi - lo >= MaxBuckets
     THEN /\ wide' = [wide EXCEPT ![v] = Append(@, idx)]
          /\ UNCHANGED buckets
     ELSE /\ buckets' = [buckets EXCEPT ![v] =
               [k \in Keys(v) |-> IF lo <= k /\ k < hi THEN Append(@[k], idx) ELSE @[k]]]
          /\ UNCHANGED wide

(* _index_net: the range is wide, or goes into its buckets - none, if it   *)
(* ends before it starts.                                                  *)
IndexNet(idx, v, start, end) ==
  LET lo == Key(v, start)
      hi == Key(v, end)
  IN IF hi - lo >= MaxBuckets
     THEN /\ wide' = [wide EXCEPT ![v] = Append(@, idx)]
          /\ UNCHANGED buckets
     ELSE /\ buckets' = [buckets EXCEPT ![v] =
               [k \in Keys(v) |-> IF lo <= k /\ k <= hi THEN Append(@[k], idx) ELSE @[k]]]
          /\ UNCHANGED wide

(* The position taken after the object is in (used to test the             *)
(* properties).                                                            *)
AddLate(v, start, end) ==
  /\ Len(nets) < MaxNets
  /\ ~(start = 0 /\ end = Space[v] - 1)
  /\ nets' = Append(nets, [ver |-> v, start |-> start, end |-> end])
  /\ IndexNet(Len(nets) + 2, v, start, end)

(* add_lines comes to the next object.  One that covers the whole space is *)
(* taken for a placeholder.                                                *)
Add(v, start, end) ==
  /\ Len(nets) < MaxNets
  /\ ~(start = 0 /\ end = Space[v] - 1)
  /\ nets' = Append(nets, [ver |-> v, start |-> start, end |-> end])
  /\ IndexNet(Len(nets) + 1, v, start, end)

Next == \E v \in Versions : \E start, end \in Addresses(v) : Add(v, start, end)

Spec == Init /\ [][Next]_vars

Holds(net, v, a) == net.ver = v /\ net.start <= a /\ a <= net.end

Size(net) == net.end - net.start

(* The positions lookup scans, in order.                                   *)
Candidates(v, a) == buckets[v][Key(v, a)] \o wide[v]

(* Where the answer is: of the candidates that hold the address, the first *)
(* of the smallest; 0 if none does.                                        *)
Lookup(v, a) ==
  LET scan == Candidates(v, a)
      hits == {i \in DOMAIN scan : nets[scan[i]].start <= a /\ a <= nets[scan[i]].end}
      best == CHOOSE i \in hits : \A j \in hits :
                LET si == Size(nets[scan[i]])
                    sj == Size(nets[scan[j]])
                IN si < sj \/ (si = sj /\ i <= j)
  IN IF hits = {} THEN 0 ELSE scan[best]
-----------------------------------------------------------------------------
(* "for any IP, the most specific network it falls in" (rir.py): the few   *)
(* ranges lookup scans answer like a scan of them all - whichever buckets  *)
(* a range begins and ends in, wide or not, reversed or not.               *)
MostSpecific ==
  \A v \in Versions : \A a \in Addresses(v) :
    LET holding == {i \in DOMAIN nets : Holds(nets[i], v, a)}
        answer  == Lookup(v, a)
    IN IF holding = {} THEN answer = 0
       ELSE /\ answer \in holding
            /\ \A j \in holding : Size(nets[answer]) <= Size(nets[j])
=============================================================================
