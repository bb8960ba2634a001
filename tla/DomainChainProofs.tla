-------------------------- MODULE DomainChainProofs -------------------------
(***************************************************************************)
(* Proofs about DomainChain, for any domains, addresses and slots.  What   *)
(* AsyncCacheProofs proves of the cache is used of both its instances.     *)
(***************************************************************************)
EXTENDS DomainChain, FiniteSetTheorems, TLAPS

Geo == INSTANCE AsyncCacheProofs
  WITH Callers <- Domains, Keys <- IPs, Results <- Found \cup {Empty},
       values <- geoValues, leader <- geoLeader, stage <- geoStage,
       key <- geoKey, got <- geoGot

Net == INSTANCE AsyncCacheProofs
  WITH Callers <- Domains, Keys <- IPs, Results <- Found \cup {Empty},
       values <- netValues, leader <- netLeader, stage <- netStage,
       key <- netKey, got <- netGot

(* The chain's own variables have their types.                             *)
ChainTypes ==
  /\ at \in [Domains -> Steps]
  /\ ips \in [Domains -> Addresses \cup {<<>>}]
  /\ turn \in [Domains -> Nat]
  /\ geo \in [Domains -> Found \cup {Empty}]
  /\ net \in [Domains -> Found \cup {Empty}]
  /\ slots \in 0..RenderSlots
  /\ \A d \in Domains : at[d] \in {"geo", "net"} => turn[d] \in DOMAIN ips[d]

(* A call of a cache belongs to a chain that stands at that lookup, has    *)
(* found nothing yet, and is about its current address.                    *)
Calling ==
  \A d \in Domains :
    /\ geoStage[d] # "idle" => at[d] = "geo" /\ geo[d] = Empty /\ geoKey[d] = Address(d)
    /\ netStage[d] # "idle" => at[d] = "net" /\ net[d] = Empty /\ netKey[d] = Address(d)

(* The first n addresses of the list give found.                           *)
Asked(found, values, list, n) ==
  IF found = Empty
  THEN \A i \in 1..n : values[list[i]] = Empty
  ELSE \E i \in 1..n : /\ values[list[i]] = found
                       /\ \A j \in 1..(i - 1) : values[list[j]] = Empty

(* What a domain's record holds is what the addresses asked so far give.   *)
RecordOf(d) ==
  /\ at[d] = "dns" => turn[d] = 1 /\ geo[d] = Empty /\ net[d] = Empty
  /\ at[d] = "geo" => /\ Asked(geo[d], geoValues, ips[d], turn[d] - 1)
                      /\ Asked(net[d], netValues, ips[d], turn[d] - 1)
  /\ at[d] = "net" => /\ Asked(geo[d], geoValues, ips[d], turn[d])
                      /\ Asked(net[d], netValues, ips[d], turn[d] - 1)
  /\ at[d] \in {"enrich", "render", "rendering", "done"} =>
       /\ Asked(geo[d], geoValues, ips[d], Len(ips[d]))
       /\ Asked(net[d], netValues, ips[d], Len(ips[d]))

Records == \A d \in Domains : RecordOf(d)

Rendering == {d \in Domains : at[d] = "rendering"}

(* Only finitely many chains render, and slots counts the others' places.  *)
Slots == IsFiniteSet(Rendering) /\ slots + Cardinality(Rendering) = RenderSlots

IInv == ChainTypes /\ Calling /\ Records /\ Slots /\ Geo!IInv /\ Net!IInv
-----------------------------------------------------------------------------
(* Both caches are used as their module assumes.                           *)
LEMMA CacheAssumptions == Geo!AsyncCacheAssumption /\ Net!AsyncCacheAssumption
BY DomainChainAssumption DEF Geo!AsyncCacheAssumption, Net!AsyncCacheAssumption

(* What the chain does to its caches is what the cache's module says.      *)
LEMMA GeoIsCache ==
  /\ \A d \in Domains, k \in IPs : GeoCache!Get(d, k) <=> Geo!Get(d, k)
  /\ \A d \in Domains : /\ (\E v \in Found \cup {Empty} : GeoCache!Returns(d, v)) <=>
                             (\E v \in Found \cup {Empty} : Geo!Returns(d, v))
                        /\ GeoCache!Fails(d) <=> Geo!Fails(d)
                        /\ GeoCache!Resume(d) <=> Geo!Resume(d)
                        /\ GeoCache!Leave(d) <=> Geo!Leave(d)
BY DEF GeoCache!Get, Geo!Get, GeoCache!Hit, Geo!Hit, GeoCache!Join, Geo!Join,
   GeoCache!Lead, Geo!Lead, GeoCache!Returns, Geo!Returns, GeoCache!Fails, Geo!Fails,
   GeoCache!Resume, Geo!Resume, GeoCache!Leave, Geo!Leave, GeoCache!Resolve, Geo!Resolve

(* The same of the network cache.                                          *)
LEMMA NetIsCache ==
  /\ \A d \in Domains, k \in IPs : NetCache!Get(d, k) <=> Net!Get(d, k)
  /\ \A d \in Domains : /\ (\E v \in Found \cup {Empty} : NetCache!Returns(d, v)) <=>
                             (\E v \in Found \cup {Empty} : Net!Returns(d, v))
                        /\ NetCache!Fails(d) <=> Net!Fails(d)
                        /\ NetCache!Resume(d) <=> Net!Resume(d)
                        /\ NetCache!Leave(d) <=> Net!Leave(d)
BY DEF NetCache!Get, Net!Get, NetCache!Hit, Net!Hit, NetCache!Join, Net!Join,
   NetCache!Lead, Net!Lead, NetCache!Returns, Net!Returns, NetCache!Fails, Net!Fails,
   NetCache!Resume, Net!Resume, NetCache!Leave, Net!Leave, NetCache!Resolve, Net!Resolve

(* What the constants and types say of a domain's addresses.               *)
LEMMA ListFacts ==
  ASSUME ChainTypes, NEW d \in Domains
  PROVE  /\ ips[d] \in Seq(IPs) /\ Len(ips[d]) \in Nat /\ DOMAIN ips[d] = 1..Len(ips[d])
         /\ at[d] \in {"geo", "net"} =>
              /\ turn[d] \in 1..Len(ips[d])
              /\ Address(d) \in IPs
<1>1. ips[d] \in Seq(IPs) /\ Len(ips[d]) \in Nat /\ DOMAIN ips[d] = 1..Len(ips[d])
  <2>1. ips[d] \in Addresses \/ ips[d] = <<>>
    BY DEF ChainTypes
  <2>2. <<>> \in Seq(IPs)
    OBVIOUS
  <2>3. ips[d] \in Seq(IPs)
    BY <2>1, <2>2, DomainChainAssumption, Zenon
  <2>4. QED
    BY <2>3
<1>2. at[d] \in {"geo", "net"} => turn[d] \in 1..Len(ips[d]) /\ Address(d) \in IPs
  BY <1>1 DEF ChainTypes, Address
<1>3. QED
  BY <1>1, <1>2

(* A cached answer is there to stay.                                       *)
GeoStays == \A k \in IPs : geoValues[k] # Nothing => geoValues'[k] = geoValues[k]
NetStays == \A k \in IPs : netValues[k] # Nothing => netValues'[k] = netValues[k]

(* What the first addresses gave stays what they gave.                     *)
LEMMA AskedStays ==
  ASSUME NEW found \in Found \cup {Empty}, NEW old, NEW new, NEW list \in Seq(IPs),
         NEW n \in Int, n <= Len(list),
         \A k \in IPs : old[k] # Nothing => new[k] = old[k],
         Asked(found, old, list, n)
  PROVE  Asked(found, new, list, n)
<1>1. \A i \in 1..n : list[i] \in IPs
  OBVIOUS
<1>2. \A i \in 1..n : \A j \in 1..(i - 1) : j \in 1..n
  OBVIOUS
<1>3. \A i \in 1..n : old[list[i]] \in Found \cup {Empty} => new[list[i]] = old[list[i]]
  BY <1>1, DomainChainAssumption
<1>4. CASE found = Empty
  BY <1>3, <1>4 DEF Asked
<1>5. CASE found # Empty
  <2>1. PICK i \in 1..n : old[list[i]] = found /\ \A j \in 1..(i - 1) : old[list[j]] = Empty
    BY <1>5 DEF Asked
  <2>2. new[list[i]] = found /\ \A j \in 1..(i - 1) : new[list[j]] = Empty
    BY <1>2, <1>3, <2>1
  <2>3. QED
    BY <1>5, <2>1, <2>2 DEF Asked
<1>6. QED
  BY <1>4, <1>5

(* A domain that does nothing keeps its record.                            *)
LEMMA RecordStays ==
  ASSUME ChainTypes, Records, GeoStays, NetStays, NEW d \in Domains,
         at'[d] = at[d], ips'[d] = ips[d], turn'[d] = turn[d], geo'[d] = geo[d], net'[d] = net[d]
  PROVE  RecordOf(d)'
<1>1. /\ ips[d] \in Seq(IPs) /\ Len(ips[d]) \in Nat
      /\ at[d] \in {"geo", "net"} => turn[d] \in 1..Len(ips[d])
      /\ geo[d] \in Found \cup {Empty} /\ net[d] \in Found \cup {Empty} /\ RecordOf(d)
  BY ListFacts DEF ChainTypes, Records
<1>2. ASSUME NEW n \in Int, n <= Len(ips[d])
      PROVE  /\ Asked(geo[d], geoValues, ips[d], n) => Asked(geo[d], geoValues', ips[d], n)
             /\ Asked(net[d], netValues, ips[d], n) => Asked(net[d], netValues', ips[d], n)
  BY <1>1, <1>2, AskedStays DEF GeoStays, NetStays
<1>3. /\ Len(ips[d]) \in Int /\ Len(ips[d]) <= Len(ips[d])
      /\ at[d] \in {"geo", "net"} => /\ turn[d] \in Int /\ turn[d] <= Len(ips[d])
                                     /\ turn[d] - 1 \in Int /\ turn[d] - 1 <= Len(ips[d])
  BY <1>1
<1>4. QED
  BY <1>1, <1>2, <1>3 DEF RecordOf

(* One more address asked: when nothing was found before it, its answer is *)
(* the answer so far, else the answer stands.                              *)
LEMMA AskedOneMore ==
  ASSUME NEW found \in Found \cup {Empty}, NEW values, NEW list \in Seq(IPs),
         NEW n \in 1..Len(list)
  PROVE  /\ Asked(Empty, values, list, n - 1) /\ values[list[n]] = found
              => Asked(found, values, list, n)
         /\ found # Empty /\ Asked(found, values, list, n - 1) => Asked(found, values, list, n)
         /\ found # Empty /\ Asked(found, values, list, n)
              => Asked(found, values, list, Len(list))
<1>1. /\ \A i \in 1..n : i = n \/ i \in 1..(n - 1)
      /\ n \in 1..n /\ 1..(n - 1) \subseteq 1..n /\ 1..n \subseteq 1..Len(list)
  OBVIOUS
<1>2. QED
  BY <1>1 DEF Asked

(* The end of a turn, with found as what network whois gave so far.        *)
LEMMA EndTurnRecord ==
  ASSUME ChainTypes, NEW d \in Domains, NEW found \in Found \cup {Empty}, at[d] = "net",
         Asked(geo[d], geoValues, ips[d], turn[d]), Asked(found, netValues, ips[d], turn[d]),
         EndTurn(d, found), net'[d] = found,
         UNCHANGED <<ips, geo, geoValues, netValues>>
  PROVE  /\ RecordOf(d)'
         /\ at' \in [Domains -> Steps] /\ turn' \in [Domains -> Nat]
         /\ at'[d] \in {"geo", "enrich"} /\ (at'[d] = "geo" => turn'[d] \in DOMAIN ips[d])
         /\ \A e \in Domains \ {d} : at'[e] = at[e] /\ turn'[e] = turn[e]
<1>1. /\ ips[d] \in Seq(IPs) /\ Len(ips[d]) \in Nat /\ DOMAIN ips[d] = 1..Len(ips[d])
      /\ turn[d] \in 1..Len(ips[d])
      /\ geo[d] \in Found \cup {Empty}
  BY ListFacts DEF ChainTypes
<1>2. CASE (geo[d] # Empty /\ found # Empty) \/ turn[d] = Len(ips[d])
  <2>1. turn' = turn /\ at' = [at EXCEPT ![d] = "enrich"]
    BY <1>2 DEF EndTurn, To
  <2>2. /\ Asked(geo[d], geoValues, ips[d], Len(ips[d]))
        /\ Asked(found, netValues, ips[d], Len(ips[d]))
    <3>1. CASE turn[d] = Len(ips[d])
      BY <3>1
    <3>2. CASE geo[d] # Empty /\ found # Empty
      BY <1>1, <3>2, AskedOneMore
    <3>3. QED
      BY <1>2, <3>1, <3>2
  <2>3. at'[d] = "enrich"
    BY <2>1 DEF ChainTypes
  <2>4. RecordOf(d)'
    BY <2>2, <2>3 DEF RecordOf
  <2>5. QED
    BY <2>1, <2>3, <2>4 DEF ChainTypes, Steps
<1>3. CASE ~((geo[d] # Empty /\ found # Empty) \/ turn[d] = Len(ips[d]))
  <2>1. turn' = [turn EXCEPT ![d] = @ + 1] /\ at' = [at EXCEPT ![d] = "geo"]
    BY <1>3 DEF EndTurn, To
  <2>2. turn[d] + 1 \in 1..Len(ips[d]) /\ (turn[d] + 1) - 1 = turn[d]
    BY <1>1, <1>3
  <2>3. at'[d] = "geo" /\ turn'[d] = turn[d] + 1
    BY <2>1 DEF ChainTypes
  <2>4. RecordOf(d)'
    BY <2>2, <2>3 DEF RecordOf
  <2>5. QED
    BY <1>1, <2>1, <2>2, <2>3, <2>4 DEF ChainTypes, Steps
<1>4. QED
  BY <1>2, <1>3
-----------------------------------------------------------------------------
(* A step of one domain, as far as the others are concerned.               *)
OthersStay(d) ==
  /\ \A e \in Domains \ {d} : /\ at'[e] = at[e] /\ ips'[e] = ips[e] /\ turn'[e] = turn[e]
                               /\ geo'[e] = geo[e] /\ net'[e] = net[e]
  /\ GeoStays /\ NetStays

(* Outside rendering the semaphore is as it was.                           *)
SlotsStay ==
  /\ slots' = slots
  /\ \A d \in Domains : at'[d] = "rendering" <=> at[d] = "rendering"

(* Such steps keep the count of slots.                                     *)
LEMMA SlotsKept == Slots /\ SlotsStay => Slots'
<1>1. SlotsStay => Rendering' = Rendering
  BY DEF SlotsStay, Rendering
<1>2. QED
  BY <1>1 DEF SlotsStay, Slots

(* What a step of a domain makes of the invariant follows from what it     *)
(* does to that domain.                                                    *)
LEMMA StepKeeps ==
  ASSUME IInv, NEW d \in Domains, OthersStay(d), ChainTypes', RecordOf(d)',
         Slots', Geo!IInv', Net!IInv', Calling'
  PROVE  IInv'
<1>1. \A e \in Domains \ {d} : RecordOf(e)'
  BY RecordStays DEF IInv, OthersStay
<1>2. Records'
  BY <1>1 DEF Records
<1>3. QED
  BY <1>2 DEF IInv

(* The caches left alone.                                                  *)
LEMMA CachesStay ==
  /\ UNCHANGED geoVars => GeoStays /\ (Geo!IInv => Geo!IInv')
  /\ UNCHANGED netVars => NetStays /\ (Net!IInv => Net!IInv')
<1>1. ASSUME UNCHANGED geoVars
      PROVE  GeoStays /\ (Geo!IInv => Geo!IInv')
  BY <1>1, Geo!NextIInv, CacheAssumptions DEF geoVars, Geo!cacheVars, GeoStays
<1>2. ASSUME UNCHANGED netVars
      PROVE  NetStays /\ (Net!IInv => Net!IInv')
  BY <1>2, Net!NextIInv, CacheAssumptions DEF netVars, Net!cacheVars, NetStays
<1>3. QED
  BY <1>1, <1>2

(* A step of a cache keeps its invariant and its values.                   *)
LEMMA CacheStep ==
  /\ Geo!IInv /\ Geo!Next => Geo!IInv' /\ GeoStays
  /\ Net!IInv /\ Net!Next => Net!IInv' /\ NetStays
<1>1. ASSUME Geo!IInv, Geo!Next
      PROVE  Geo!IInv' /\ GeoStays
  BY <1>1, Geo!NextIInv, Geo!CachedStays, CacheAssumptions DEF GeoStays
<1>2. ASSUME Net!IInv, Net!Next
      PROVE  Net!IInv' /\ NetStays
  BY <1>2, Net!NextIInv, Net!CachedStays, CacheAssumptions DEF NetStays
<1>3. QED
  BY <1>1, <1>2
-----------------------------------------------------------------------------
(* Steps outside the caches and the semaphore: only at changes, or what    *)
(* the chain gathers.                                                      *)
LEMMA OutsideStep ==
  ASSUME IInv, NEW d \in Domains, OthersStay(d), ChainTypes', RecordOf(d)', Slots',
         UNCHANGED <<geoVars, netVars>>, geoStage[d] = "idle" /\ netStage[d] = "idle"
  PROVE  IInv'
<1>1. Geo!IInv' /\ Net!IInv'
  BY CachesStay DEF IInv
<1>2. UNCHANGED <<geoStage, geoKey, netStage, netKey>>
  BY DEF geoVars, netVars
<1>3. Calling'
  BY <1>2 DEF IInv, Calling, OthersStay, Address
<1>4. QED
  BY <1>1, <1>3, StepKeeps

(* A chain that stands elsewhere has no call in the caches.                *)
LEMMA NoCall ==
  ASSUME IInv, NEW d \in Domains
  PROVE  /\ at[d] # "geo" \/ geo[d] # Empty => geoStage[d] = "idle"
         /\ at[d] # "net" \/ net[d] # Empty => netStage[d] = "idle"
BY DEF IInv, Calling

(* The addresses are there: nothing of them is asked yet.                  *)
LEMMA ResolveKeeps ==
  ASSUME IInv, NEW d \in Domains, Resolve(d)
  PROVE  IInv'
<1>1. PICK list \in Addresses :
        ips' = [ips EXCEPT ![d] = list]
        /\ at' = [at EXCEPT ![d] = IF list = <<>> THEN "enrich" ELSE "geo"]
  BY DEF Resolve, To
<1>2. at[d] = "dns" /\ UNCHANGED <<turn, geo, net, slots, geoVars, netVars>>
  BY DEF Resolve
<1>3. turn[d] = 1 /\ geo[d] = Empty /\ net[d] = Empty
  BY <1>2 DEF IInv, Records, RecordOf
<1>4. /\ ips'[d] = list /\ at'[d] = (IF list = <<>> THEN "enrich" ELSE "geo")
      /\ \A e \in Domains \ {d} : ips'[e] = ips[e] /\ at'[e] = at[e]
  BY <1>1 DEF IInv, ChainTypes
<1>5. list \in Seq(IPs) /\ (list # <<>> => 1 \in DOMAIN list)
  BY DomainChainAssumption
<1>6. ChainTypes'
  BY <1>1, <1>2, <1>3, <1>4, <1>5 DEF IInv, ChainTypes, Steps
<1>7. RecordOf(d)'
  <2>1. CASE list = <<>>
    <3>1. Len(list) = 0
      BY <2>1
    <3>2. \A i \in 1..Len(list) : FALSE
      BY <3>1
    <3>3. QED
      BY <1>2, <1>3, <1>4, <2>1, <3>2 DEF RecordOf, Asked
  <2>2. CASE list # <<>>
    BY <1>2, <1>3, <1>4, <2>2 DEF RecordOf, Asked
  <2>3. QED
    BY <2>1, <2>2
<1>8. OthersStay(d)
  BY <1>2, <1>4, CachesStay DEF OthersStay
<1>9. Slots'
  BY <1>2, <1>4, SlotsKept DEF IInv, SlotsStay
<1>10. QED
  BY <1>2, <1>6, <1>7, <1>8, <1>9, OutsideStep, NoCall

(* A turn for net alone leaves the geolocation of an earlier turn.         *)
LEMMA SkipGeoKeeps ==
  ASSUME IInv, NEW d \in Domains, SkipGeo(d)
  PROVE  IInv'
<1>1. /\ at[d] = "geo" /\ geo[d] # Empty /\ at' = [at EXCEPT ![d] = "net"]
      /\ UNCHANGED <<ips, turn, geo, net, slots, geoVars, netVars>>
  BY DEF SkipGeo, To
<1>2. at'[d] = "net" /\ \A e \in Domains \ {d} : at'[e] = at[e]
  BY <1>1 DEF IInv, ChainTypes
<1>3. ChainTypes'
  BY <1>1, <1>2 DEF IInv, ChainTypes, Steps
<1>4. RecordOf(d)'
  <2>1. /\ ips[d] \in Seq(IPs) /\ turn[d] \in 1..Len(ips[d]) /\ geo[d] \in Found \cup {Empty}
        /\ RecordOf(d)
    BY <1>1, ListFacts DEF IInv, ChainTypes, Records
  <2>2. Asked(geo[d], geoValues, ips[d], turn[d])
    BY <1>1, <2>1, AskedOneMore DEF RecordOf
  <2>3. geoValues' = geoValues /\ netValues' = netValues
    BY <1>1 DEF geoVars, netVars
  <2>4. QED
    BY <1>1, <1>2, <2>1, <2>2, <2>3 DEF RecordOf
<1>5. OthersStay(d)
  BY <1>1, <1>2, CachesStay DEF OthersStay
<1>6. Slots'
  BY <1>1, <1>2, SlotsKept DEF IInv, SlotsStay
<1>7. QED
  BY <1>1, <1>3, <1>4, <1>5, <1>6, OutsideStep, NoCall

(* A turn for geo alone leaves the network of an earlier turn.             *)
LEMMA SkipNetKeeps ==
  ASSUME IInv, NEW d \in Domains, SkipNet(d)
  PROVE  IInv'
<1>1. /\ at[d] = "net" /\ net[d] # Empty /\ EndTurn(d, net[d])
      /\ UNCHANGED <<ips, geo, net, slots, geoVars, netVars>>
  BY DEF SkipNet
<1>2. /\ ips[d] \in Seq(IPs) /\ turn[d] \in 1..Len(ips[d]) /\ net[d] \in Found \cup {Empty}
      /\ RecordOf(d)
  BY <1>1, ListFacts DEF IInv, ChainTypes, Records
<1>3. /\ Asked(geo[d], geoValues, ips[d], turn[d])
      /\ Asked(net[d], netValues, ips[d], turn[d])
  BY <1>1, <1>2, AskedOneMore DEF RecordOf
<1>4. geoValues' = geoValues /\ netValues' = netValues
  BY <1>1 DEF geoVars, netVars
<1>5. /\ RecordOf(d)'
      /\ at' \in [Domains -> Steps] /\ turn' \in [Domains -> Nat]
      /\ at'[d] \in {"geo", "enrich"} /\ (at'[d] = "geo" => turn'[d] \in DOMAIN ips[d])
      /\ \A e \in Domains \ {d} : at'[e] = at[e] /\ turn'[e] = turn[e]
  BY <1>1, <1>2, <1>3, <1>4, EndTurnRecord DEF IInv
<1>6. ChainTypes'
  BY <1>1, <1>5 DEF IInv, ChainTypes
<1>7. OthersStay(d)
  BY <1>1, <1>5, CachesStay DEF OthersStay
<1>8. Slots'
  BY <1>1, <1>5, SlotsKept DEF IInv, SlotsStay
<1>9. QED
  BY <1>1, <1>5, <1>6, <1>7, <1>8, OutsideStep, NoCall

(* The lookups after the loop, and a lookup that raises, gather nothing.   *)
LEMMA EnrichKeeps ==
  ASSUME IInv, NEW d \in Domains, Enrich(d) \/ LookupRaises(d)
  PROVE  IInv'
<1>1. /\ at[d] \in {"dns", "enrich"} /\ UNCHANGED <<ips, turn, geo, net, slots, geoVars, netVars>>
      /\ \/ at[d] = "enrich" /\ at' = [at EXCEPT ![d] = "render"]
         \/ at[d] = "enrich" /\ at' = [at EXCEPT ![d] = "done"]
         \/ at' = [at EXCEPT ![d] = "failed"]
  BY DEF Enrich, LookupRaises, To
<1>2. /\ at'[d] = "failed" \/ (at[d] = "enrich" /\ at'[d] \in {"render", "done"})
      /\ \A e \in Domains \ {d} : at'[e] = at[e]
  BY <1>1 DEF IInv, ChainTypes
<1>3. ChainTypes'
  BY <1>1, <1>2 DEF IInv, ChainTypes, Steps
<1>4. RecordOf(d)'
  <2>1. RecordOf(d) /\ geoValues' = geoValues /\ netValues' = netValues
    BY <1>1 DEF IInv, Records, geoVars, netVars
  <2>2. QED
    BY <1>1, <1>2, <2>1 DEF RecordOf
<1>5. OthersStay(d)
  BY <1>1, <1>2, CachesStay DEF OthersStay
<1>6. Slots'
  BY <1>1, <1>2, SlotsKept DEF IInv, SlotsStay
<1>7. QED
  BY <1>1, <1>3, <1>4, <1>5, <1>6, OutsideStep, NoCall

(* A slot is taken or given back.                                          *)
LEMMA RenderKeeps ==
  ASSUME IInv, NEW d \in Domains, EnterRender(d) \/ LeaveRender(d)
  PROVE  IInv'
<1>1. /\ UNCHANGED <<ips, turn, geo, net, geoVars, netVars>>
      /\ \/ /\ at[d] = "render" /\ slots > 0 /\ slots' = slots - 1
            /\ at' = [at EXCEPT ![d] = "rendering"]
         \/ /\ at[d] = "rendering" /\ slots' = slots + 1
            /\ at' = [at EXCEPT ![d] = "done"] \/ at' = [at EXCEPT ![d] = "failed"]
  BY DEF EnterRender, LeaveRender, To
<1>2. /\ \/ at[d] = "render" /\ at'[d] = "rendering" /\ slots > 0 /\ slots' = slots - 1
         \/ at[d] = "rendering" /\ at'[d] \in {"done", "failed"} /\ slots' = slots + 1
      /\ \A e \in Domains \ {d} : at'[e] = at[e]
  BY <1>1 DEF IInv, ChainTypes
<1>3. slots \in Nat /\ slots <= RenderSlots /\ RenderSlots \in Nat
      /\ IsFiniteSet(Rendering) /\ slots + Cardinality(Rendering) = RenderSlots
      /\ Cardinality(Rendering) \in Nat
  BY DomainChainAssumption, FS_CardinalityType DEF IInv, ChainTypes, Slots
<1>4. Slots' /\ slots' \in 0..RenderSlots
  <2>1. CASE at[d] = "render" /\ at'[d] = "rendering" /\ slots > 0 /\ slots' = slots - 1
    <3>1. d \notin Rendering /\ Rendering' = Rendering \cup {d}
      BY <1>2, <2>1 DEF Rendering
    <3>2. IsFiniteSet(Rendering') /\ Cardinality(Rendering') = Cardinality(Rendering) + 1
      BY <1>3, <3>1, FS_AddElement
    <3>3. QED
      BY <1>3, <2>1, <3>2 DEF Slots
  <2>2. CASE at[d] = "rendering" /\ at'[d] \in {"done", "failed"} /\ slots' = slots + 1
    <3>1. d \in Rendering /\ Rendering' = Rendering \ {d}
      BY <1>2, <2>2 DEF Rendering
    <3>2. IsFiniteSet(Rendering') /\ Cardinality(Rendering') = Cardinality(Rendering) - 1
      BY <1>3, <3>1, FS_RemoveElement
    <3>3. Cardinality(Rendering') \in Nat
      BY <3>2, FS_CardinalityType
    <3>4. QED
      BY <1>3, <2>2, <3>2, <3>3 DEF Slots
  <2>3. QED
    BY <1>2, <2>1, <2>2
<1>5. ChainTypes'
  BY <1>1, <1>2, <1>4 DEF IInv, ChainTypes, Steps
<1>6. RecordOf(d)'
  <2>1. RecordOf(d) /\ geoValues' = geoValues /\ netValues' = netValues
    BY <1>1 DEF IInv, Records, geoVars, netVars
  <2>2. QED
    BY <1>1, <1>2, <2>1 DEF RecordOf
<1>7. OthersStay(d)
  BY <1>1, <1>2, CachesStay DEF OthersStay
<1>8. at[d] # "geo" /\ at[d] # "net"
  BY <1>2
<1>9. QED
  BY <1>1, <1>4, <1>5, <1>6, <1>7, <1>8, OutsideStep, NoCall
-----------------------------------------------------------------------------
(* A step of a cache that leaves the chains where they are.                *)
LEMMA ChainStands ==
  ASSUME IInv, NEW d \in Domains, UNCHANGED chainVars, GeoStays, NetStays,
         Geo!IInv', Net!IInv', Calling'
  PROVE  IInv'
<1>1. OthersStay(d) /\ ChainTypes' /\ Slots'
  BY DEF chainVars, OthersStay, IInv, ChainTypes, Slots, Rendering
<1>2. RecordOf(d)'
  BY RecordStays DEF chainVars, IInv
<1>3. QED
  BY <1>1, <1>2, StepKeeps

(* A chain asks the cache about its current address.                       *)
LEMMA AskGeoKeeps ==
  ASSUME IInv, NEW d \in Domains, AskGeo(d)
  PROVE  IInv'
<1>1. /\ at[d] = "geo" /\ geo[d] = Empty /\ UNCHANGED <<chainVars, netVars>>
      /\ GeoCache!Get(d, Address(d)) /\ Address(d) \in IPs
  BY ListFacts DEF IInv, AskGeo
<1>2. Geo!Get(d, Address(d))
  BY <1>1, GeoIsCache
<1>3. Geo!Next
  BY <1>1, <1>2 DEF Geo!Next
<1>4. GeoStays /\ NetStays /\ Geo!IInv' /\ Net!IInv'
  BY <1>1, <1>3, CacheStep, CachesStay DEF IInv
<1>5. \A e \in Domains : geoStage'[e] # "idle" =>
        (e = d /\ geoKey'[e] = Address(d)) \/ (geoStage[e] # "idle" /\ geoKey'[e] = geoKey[e])
  BY <1>1, <1>2, Geo!GetCalls, CacheAssumptions DEF IInv
<1>6. Calling'
  BY <1>1, <1>5 DEF IInv, Calling, chainVars, netVars, Address
<1>7. QED
  BY <1>1, <1>4, <1>6, ChainStands

(* The factory a chain runs ends, or the chain resumes.                    *)
LEMMA AwaitGeoKeeps ==
  ASSUME IInv, NEW d \in Domains, AwaitGeo(d)
  PROVE  IInv'
<1>1. /\ UNCHANGED <<chainVars, netVars>>
      /\ \/ \E v \in Found \cup {Empty} : GeoCache!Returns(d, v)
         \/ GeoCache!Fails(d)
         \/ GeoCache!Resume(d)
  BY DEF AwaitGeo
<1>2. (\E v \in Found \cup {Empty} : Geo!Returns(d, v)) \/ Geo!Fails(d) \/ Geo!Resume(d)
  BY <1>1, GeoIsCache
<1>3. Geo!Next
  BY <1>2 DEF Geo!Next, Geo!Runs
<1>4. GeoStays /\ NetStays /\ Geo!IInv' /\ Net!IInv'
  BY <1>1, <1>3, CacheStep, CachesStay DEF IInv
<1>5. \A e \in Domains : geoStage'[e] # "idle" =>
        geoStage[e] # "idle" /\ geoKey'[e] = geoKey[e]
  BY <1>2, Geo!RunCalls, CacheAssumptions DEF IInv
<1>6. Calling'
  BY <1>1, <1>5 DEF IInv, Calling, chainVars, netVars, Address
<1>7. QED
  BY <1>1, <1>4, <1>6, ChainStands

(* get returned to the chain, or raised.                                   *)
LEMMA TakeGeoKeeps ==
  ASSUME IInv, NEW d \in Domains, TakeGeo(d)
  PROVE  IInv'
<1>1. GeoCache!Leave(d) /\ UNCHANGED <<ips, turn, net, slots, netVars>>
  BY DEF TakeGeo
<1>2. Geo!Leave(d)
  BY <1>1, GeoIsCache
<1>3. Geo!Next
  BY <1>2 DEF Geo!Next, Geo!Runs
<1>4. GeoStays /\ NetStays /\ Geo!IInv' /\ Net!IInv'
  BY <1>1, <1>3, CacheStep, CachesStay DEF IInv
<1>5. /\ geoValues' = geoValues /\ geoStage[d] # "idle"
      /\ \/ geoGot[d] = Raised
         \/ geoGot[d] \in Found \cup {Empty} /\ geoGot[d] = geoValues[geoKey[d]]
      /\ \A e \in Domains : geoStage'[e] # "idle" =>
           e # d /\ geoStage[e] # "idle" /\ geoKey'[e] = geoKey[e]
  BY <1>2, Geo!LeaveCalls, CacheAssumptions DEF IInv
<1>6. at[d] = "geo" /\ geo[d] = Empty /\ geoKey[d] = Address(d) /\ netStage[d] = "idle"
  BY <1>5, NoCall DEF IInv, Calling
<1>7. /\ ips[d] \in Seq(IPs) /\ turn[d] \in 1..Len(ips[d]) /\ RecordOf(d)
      /\ geo[d] \in Found \cup {Empty} /\ net[d] \in Found \cup {Empty}
  BY <1>6, ListFacts DEF IInv, ChainTypes, Records
<1>8. UNCHANGED <<netValues, netStage, netKey>>
  BY <1>1 DEF netVars
<1>9. geoGot[d] # Raised => geoGot[d] \in Found \cup {Empty}
                           /\ Asked(geoGot[d], geoValues, ips[d], turn[d])
  BY <1>5, <1>6, <1>7, AskedOneMore DEF RecordOf, Address
<1>10. \/ geoGot[d] = Raised /\ at' = [at EXCEPT ![d] = "failed"] /\ geo' = geo
       \/ /\ geoGot[d] # Raised /\ at' = [at EXCEPT ![d] = "net"]
          /\ geo' = [geo EXCEPT ![d] = geoGot[d]]
  BY DEF TakeGeo, To
<1>11. /\ \/ at'[d] = "failed" /\ geo'[d] = geo[d]
          \/ geoGot[d] # Raised /\ at'[d] = "net" /\ geo'[d] = geoGot[d]
       /\ \A e \in Domains \ {d} : at'[e] = at[e] /\ geo'[e] = geo[e]
  BY <1>10 DEF IInv, ChainTypes
<1>12. ChainTypes' /\ RecordOf(d)' /\ UNCHANGED <<ips, turn, net, slots>>
       /\ at'[d] # "rendering" /\ \A e \in Domains \ {d} : at'[e] = at[e] /\ geo'[e] = geo[e]
  <2>1. ChainTypes'
    BY <1>1, <1>6, <1>9, <1>10, <1>11 DEF IInv, ChainTypes, Steps
  <2>2. RecordOf(d)'
    BY <1>1, <1>5, <1>6, <1>7, <1>8, <1>9, <1>11 DEF RecordOf
  <2>3. QED
    BY <1>1, <1>11, <2>1, <2>2
<1>13. OthersStay(d)
  BY <1>1, <1>4, <1>12 DEF OthersStay
<1>14. Slots'
  BY <1>1, <1>6, <1>12, SlotsKept DEF IInv, SlotsStay
<1>15. Calling'
  BY <1>5, <1>6, <1>8, <1>13 DEF IInv, Calling, OthersStay, Address
<1>16. QED
  BY <1>4, <1>12, <1>13, <1>14, <1>15, StepKeeps

(* A chain asks the cache about its current address.                       *)
LEMMA AskNetKeeps ==
  ASSUME IInv, NEW d \in Domains, AskNet(d)
  PROVE  IInv'
<1>1. /\ at[d] = "net" /\ net[d] = Empty /\ UNCHANGED <<chainVars, geoVars>>
      /\ NetCache!Get(d, Address(d)) /\ Address(d) \in IPs
  BY ListFacts DEF IInv, AskNet
<1>2. Net!Get(d, Address(d))
  BY <1>1, NetIsCache
<1>3. Net!Next
  BY <1>1, <1>2 DEF Net!Next
<1>4. GeoStays /\ NetStays /\ Geo!IInv' /\ Net!IInv'
  BY <1>1, <1>3, CacheStep, CachesStay DEF IInv
<1>5. \A e \in Domains : netStage'[e] # "idle" =>
        (e = d /\ netKey'[e] = Address(d)) \/ (netStage[e] # "idle" /\ netKey'[e] = netKey[e])
  BY <1>1, <1>2, Net!GetCalls, CacheAssumptions DEF IInv
<1>6. Calling'
  BY <1>1, <1>5 DEF IInv, Calling, chainVars, geoVars, Address
<1>7. QED
  BY <1>1, <1>4, <1>6, ChainStands

(* The factory a chain runs ends, or the chain resumes.                    *)
LEMMA AwaitNetKeeps ==
  ASSUME IInv, NEW d \in Domains, AwaitNet(d)
  PROVE  IInv'
<1>1. /\ UNCHANGED <<chainVars, geoVars>>
      /\ \/ \E v \in Found \cup {Empty} : NetCache!Returns(d, v)
         \/ NetCache!Fails(d)
         \/ NetCache!Resume(d)
  BY DEF AwaitNet
<1>2. (\E v \in Found \cup {Empty} : Net!Returns(d, v)) \/ Net!Fails(d) \/ Net!Resume(d)
  BY <1>1, NetIsCache
<1>3. Net!Next
  BY <1>2 DEF Net!Next, Net!Runs
<1>4. GeoStays /\ NetStays /\ Geo!IInv' /\ Net!IInv'
  BY <1>1, <1>3, CacheStep, CachesStay DEF IInv
<1>5. \A e \in Domains : netStage'[e] # "idle" =>
        netStage[e] # "idle" /\ netKey'[e] = netKey[e]
  BY <1>2, Net!RunCalls, CacheAssumptions DEF IInv
<1>6. Calling'
  BY <1>1, <1>5 DEF IInv, Calling, chainVars, geoVars, Address
<1>7. QED
  BY <1>1, <1>4, <1>6, ChainStands

(* get returned to the chain and the turn ends, or it raised.              *)
LEMMA TakeNetKeeps ==
  ASSUME IInv, NEW d \in Domains, TakeNet(d)
  PROVE  IInv'
<1>1. NetCache!Leave(d) /\ UNCHANGED <<ips, geo, slots, geoVars>>
  BY DEF TakeNet
<1>2. Net!Leave(d)
  BY <1>1, NetIsCache
<1>3. Net!Next
  BY <1>2 DEF Net!Next, Net!Runs
<1>4. GeoStays /\ NetStays /\ Geo!IInv' /\ Net!IInv'
  BY <1>1, <1>3, CacheStep, CachesStay DEF IInv
<1>5. /\ netValues' = netValues /\ netStage[d] # "idle"
      /\ \/ netGot[d] = Raised
         \/ netGot[d] \in Found \cup {Empty} /\ netGot[d] = netValues[netKey[d]]
      /\ \A e \in Domains : netStage'[e] # "idle" =>
           e # d /\ netStage[e] # "idle" /\ netKey'[e] = netKey[e]
  BY <1>2, Net!LeaveCalls, CacheAssumptions DEF IInv
<1>6. at[d] = "net" /\ net[d] = Empty /\ netKey[d] = Address(d) /\ geoStage[d] = "idle"
  BY <1>5, NoCall DEF IInv, Calling
<1>7. /\ ips[d] \in Seq(IPs) /\ turn[d] \in 1..Len(ips[d]) /\ RecordOf(d)
      /\ geo[d] \in Found \cup {Empty} /\ net[d] \in Found \cup {Empty}
  BY <1>6, ListFacts DEF IInv, ChainTypes, Records
<1>8. UNCHANGED <<geoValues, geoStage, geoKey>>
  BY <1>1 DEF geoVars
<1>9. netGot[d] # Raised => netGot[d] \in Found \cup {Empty}
                           /\ Asked(netGot[d], netValues, ips[d], turn[d])
  BY <1>5, <1>6, <1>7, AskedOneMore DEF RecordOf, Address
<1>10. /\ Asked(geo[d], geoValues, ips[d], turn[d])
       /\ netGot[d] # Raised => netGot[d] \in Found \cup {Empty}
                               /\ Asked(netGot[d], netValues, ips[d], turn[d])
  BY <1>6, <1>7, <1>9 DEF RecordOf
<1>11. \/ netGot[d] = Raised /\ at' = [at EXCEPT ![d] = "failed"] /\ UNCHANGED <<net, turn>>
       \/ netGot[d] # Raised /\ EndTurn(d, netGot[d]) /\ net' = [net EXCEPT ![d] = netGot[d]]
  BY DEF TakeNet, To
<1>12. ChainTypes' /\ RecordOf(d)' /\ UNCHANGED <<ips, geo, slots>> /\ at'[d] # "rendering"
       /\ \A e \in Domains \ {d} : at'[e] = at[e] /\ turn'[e] = turn[e] /\ net'[e] = net[e]
  <2>1. CASE netGot[d] = Raised /\ at' = [at EXCEPT ![d] = "failed"] /\ UNCHANGED <<net, turn>>
    <3>1. at'[d] = "failed" /\ \A e \in Domains \ {d} : at'[e] = at[e]
      BY <2>1 DEF IInv, ChainTypes
    <3>2. ChainTypes'
      BY <1>1, <2>1, <3>1 DEF IInv, ChainTypes, Steps
    <3>3. QED
      BY <1>1, <2>1, <3>1, <3>2 DEF RecordOf
  <2>2. CASE /\ netGot[d] # Raised /\ EndTurn(d, netGot[d])
             /\ net' = [net EXCEPT ![d] = netGot[d]]
    <3>1. net'[d] = netGot[d] /\ net' \in [Domains -> Found \cup {Empty}]
          /\ \A e \in Domains \ {d} : net'[e] = net[e]
      BY <1>10, <2>2 DEF IInv, ChainTypes
    <3>2. /\ RecordOf(d)'
          /\ at' \in [Domains -> Steps] /\ turn' \in [Domains -> Nat]
          /\ at'[d] \in {"geo", "enrich"} /\ (at'[d] = "geo" => turn'[d] \in DOMAIN ips[d])
          /\ \A e \in Domains \ {d} : at'[e] = at[e] /\ turn'[e] = turn[e]
      BY <1>1, <1>5, <1>6, <1>8, <1>10, <2>2, <3>1, EndTurnRecord DEF IInv
    <3>3. ChainTypes'
      BY <1>1, <3>1, <3>2 DEF IInv, ChainTypes
    <3>4. QED
      BY <1>1, <3>1, <3>2, <3>3
  <2>3. QED
    BY <1>11, <2>1, <2>2
<1>13. OthersStay(d)
  BY <1>1, <1>4, <1>12 DEF OthersStay
<1>14. Slots'
  BY <1>1, <1>6, <1>12, SlotsKept DEF IInv, SlotsStay
<1>15. Calling'
  BY <1>5, <1>6, <1>8, <1>13 DEF IInv, Calling, OthersStay, Address
<1>16. QED
  BY <1>4, <1>12, <1>13, <1>14, <1>15, StepKeeps

-----------------------------------------------------------------------------
(* The invariant holds at the start.                                       *)
LEMMA InitIInv == Init => IInv
<1> SUFFICES ASSUME Init PROVE IInv
  OBVIOUS
<1>1. ChainTypes
  BY DomainChainAssumption DEF Init, ChainTypes, Steps
<1>2. Geo!Init /\ Net!Init
  BY DEF Init, GeoCache!Init, Geo!Init, NetCache!Init, Net!Init
<1>3. Geo!IInv /\ Net!IInv
  BY <1>2, Geo!InitIInv, Net!InitIInv, CacheAssumptions
<1>4. Calling
  BY <1>2 DEF Calling, Geo!Init, Net!Init
<1>5. Records
  BY DEF Init, Records, RecordOf
<1>6. Slots
  <2>1. Rendering = {}
    BY DEF Init, Rendering
  <2>2. IsFiniteSet(Rendering) /\ Cardinality(Rendering) = 0
    BY <2>1, FS_EmptySet
  <2>3. QED
    BY <2>2, DomainChainAssumption DEF Init, Slots
<1>7. QED
  BY <1>1, <1>3, <1>4, <1>5, <1>6 DEF IInv

(* A stuttering step keeps it.                                             *)
LEMMA StillIInv == IInv /\ UNCHANGED vars => IInv'
<1> SUFFICES ASSUME IInv, UNCHANGED vars PROVE IInv'
  OBVIOUS
<1>1. UNCHANGED <<chainVars, geoVars, netVars>>
  BY DEF vars
<1>2. /\ Geo!IInv' /\ Net!IInv' /\ GeoStays /\ NetStays
  BY <1>1, CachesStay DEF IInv
<1>3. ChainTypes' /\ Slots'
  BY <1>1 DEF chainVars, IInv, ChainTypes, Slots, Rendering
<1>4. Calling'
  BY <1>1 DEF chainVars, geoVars, netVars, IInv, Calling, Address
<1>5. Records'
  BY <1>1, <1>2, RecordStays DEF chainVars, IInv, Records
<1>6. QED
  BY <1>2, <1>3, <1>4, <1>5 DEF IInv

(* Every step keeps it.                                                    *)
LEMMA NextIInv == IInv /\ [Next]_vars => IInv'
BY ResolveKeeps, SkipGeoKeeps, AskGeoKeeps, AwaitGeoKeeps, TakeGeoKeeps, SkipNetKeeps,
   AskNetKeeps, AwaitNetKeeps, TakeNetKeeps, EnrichKeeps, RenderKeeps, StillIInv
DEF Next, Step, Rest

(* The invariant holds always.                                             *)
LEMMA IInvAlways == Spec => []IInv
BY InitIInv, NextIInv, PTL DEF Spec
-----------------------------------------------------------------------------
(* The variables of the chains and of both caches stay within their types; *)
(* a domain that looks an address up stands at one of its list.            *)
THEOREM TypeCorrect == Spec => []TypeOK
<1>1. Geo!IInv /\ Net!IInv => GeoCache!TypeOK /\ NetCache!TypeOK
  BY DEF Geo!IInv, Net!IInv, Geo!TypeOK, Net!TypeOK, GeoCache!TypeOK, NetCache!TypeOK,
         Geo!Stages, Net!Stages, GeoCache!Stages, NetCache!Stages
<1>2. IInv => TypeOK
  BY <1>1 DEF IInv, ChainTypes, TypeOK
<1>3. QED
  BY <1>2, IInvAlways, PTL

(* However the chains interleave and whoever led the fetch, a domain that  *)
(* is past its loop holds the first non-empty geolocation and the first    *)
(* non-empty network of its addresses, the cached ones; empty means that   *)
(* every address was asked in vain (_process_domain's loop).               *)
THEOREM FirstAnswerTakenAlways == Spec => []FirstAnswerTaken
<1>1. ASSUME IInv, NEW d \in Domains, at[d] \in {"enrich", "render", "rendering", "done"}
      PROVE  FirstOf(geo[d], geoValues, ips[d]) /\ FirstOf(net[d], netValues, ips[d])
  <2>1. /\ Asked(geo[d], geoValues, ips[d], Len(ips[d]))
        /\ Asked(net[d], netValues, ips[d], Len(ips[d]))
    BY <1>1 DEF IInv, Records, RecordOf
  <2>2. DOMAIN ips[d] = 1..Len(ips[d])
    BY <1>1, ListFacts DEF IInv
  <2>3. QED
    BY <2>1, <2>2 DEF Asked, FirstOf
<1>2. IInv => FirstAnswerTaken
  BY <1>1 DEF FirstAnswerTaken
<1>3. QED
  BY <1>2, IInvAlways, PTL

(* Whatever pages render or raise, the free slots of render_sem and the    *)
(* chains that render add up to --render-concurrency.                      *)
THEOREM SlotsConservedAlways == Spec => []SlotsConserved
<1>1. IInv => SlotsConserved
  BY DEF IInv, Slots, Rendering, SlotsConserved
<1>2. QED
  BY <1>1, IInvAlways, PTL

(* An address is looked up by one chain at a time, and not again once its  *)
(* answer is cached, in either cache and for any number of domains on it   *)
(* (geo_cache and net_cache of process_domains).                           *)
THEOREM OneLookupPerAddress == Spec => [](GeoCache!SingleFlight /\ NetCache!SingleFlight)
<1>1. IInv => GeoCache!SingleFlight /\ NetCache!SingleFlight
  BY DEF IInv, Geo!IInv, Net!IInv, Geo!SingleFlight, Net!SingleFlight,
         GeoCache!SingleFlight, NetCache!SingleFlight
<1>2. QED
  BY <1>1, IInvAlways, PTL

(* A step of a chain is a step of the cache it uses and leaves the other   *)
(* cache alone.                                                            *)
LEMMA StepsAreCacheSteps ==
  IInv /\ [Next]_vars => [GeoCache!Next]_(GeoCache!cacheVars) /\ [NetCache!Next]_(NetCache!cacheVars)
<1> SUFFICES ASSUME IInv, [Next]_vars
             PROVE  /\ [GeoCache!Next]_(GeoCache!cacheVars)
                    /\ [NetCache!Next]_(NetCache!cacheVars)
  OBVIOUS
<1> USE DEF GeoCache!cacheVars, NetCache!cacheVars, geoVars, netVars
<1>1. ASSUME NEW d \in Domains,
             Resolve(d) \/ SkipGeo(d) \/ SkipNet(d) \/ Enrich(d) \/ LookupRaises(d)
               \/ EnterRender(d) \/ LeaveRender(d)
      PROVE  UNCHANGED <<geoVars, netVars>>
  BY <1>1 DEF Resolve, SkipGeo, SkipNet, Enrich, LookupRaises, EnterRender, LeaveRender
<1>2. ASSUME NEW d \in Domains, AskGeo(d) \/ AwaitGeo(d) \/ TakeGeo(d)
      PROVE  GeoCache!Next /\ UNCHANGED netVars
  <2>1. AskGeo(d) => Address(d) \in IPs
    BY ListFacts DEF IInv, AskGeo
  <2>2. QED
    BY <1>2, <2>1 DEF AskGeo, AwaitGeo, TakeGeo, GeoCache!Next, GeoCache!Runs
<1>3. ASSUME NEW d \in Domains, AskNet(d) \/ AwaitNet(d) \/ TakeNet(d)
      PROVE  NetCache!Next /\ UNCHANGED geoVars
  <2>1. AskNet(d) => Address(d) \in IPs
    BY ListFacts DEF IInv, AskNet
  <2>2. QED
    BY <1>3, <2>1 DEF AskNet, AwaitNet, TakeNet, NetCache!Next, NetCache!Runs
<1>4. UNCHANGED vars => UNCHANGED <<geoVars, netVars>>
  BY DEF vars
<1>5. QED
  BY <1>1, <1>2, <1>3, <1>4 DEF Next, Step, Rest

(* The chains use each cache as its specification says - a domain has one  *)
(* call at a time, about an address, and takes its outcome: all that is    *)
(* proved of AsyncCache holds of both caches.                              *)
THEOREM UsesCaches == Spec => GeoCache!Spec /\ NetCache!Spec
<1>1. Init => GeoCache!Init /\ NetCache!Init
  BY DEF Init
<1>2. QED
  BY <1>1, StepsAreCacheSteps, IInvAlways, PTL DEF Spec, GeoCache!Spec, NetCache!Spec
=============================================================================
