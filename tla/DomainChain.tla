----------------------------- MODULE DomainChain ----------------------------
(***************************************************************************)
(* The chain of lookups of one domain (online/runner.py, _process_domain), *)
(* run for many domains at once.  The domains meet in the two single-      *)
(* flight caches, keyed by IP, for geolocation and network whois, and in   *)
(* the semaphore that limits rendering.  OnlineRun has the chain as one    *)
(* step; here it is opened, and the caches are instances of AsyncCache.    *)
(*                                                                         *)
(* The lookups keyed by domain (dns, tls, rdap, threat, popularity) share  *)
(* nothing: the ones before the caches are the step Resolve, which yields  *)
(* the domain's addresses, the ones after them the step Enrich.            *)
(***************************************************************************)
EXTENDS Naturals, Sequences, FiniteSets

CONSTANTS
  Domains,      \* the domains being processed, each by a worker of its own
  IPs,          \* the addresses they may resolve to
  Addresses,    \* the address lists a resolver may answer, sequences of IPs
  Found,        \* what a lookup that finds something returns
  Empty,        \* {}: what it returns when it finds nothing or is refused
  Raised, Nothing,
  RenderSlots   \* --render-concurrency

ASSUME DomainChainAssumption ==
  /\ Addresses \subseteq Seq(IPs)
  /\ Empty \notin Found
  /\ Raised \notin Found \cup {Empty}
  /\ Nothing \notin Found \cup {Empty, Raised} \cup IPs \cup Domains
  /\ RenderSlots \in Nat \ {0}

VARIABLES
  at,      \* where each domain's chain is
  ips,     \* its addresses
  turn,    \* the turn of its loop over them
  geo,     \* what geolocation gave it so far
  net,     \* what network whois gave it so far
  slots,   \* free slots of render_sem
  geoValues, geoLeader, geoStage, geoKey, geoGot,   \* geo_cache
  netValues, netLeader, netStage, netKey, netGot    \* net_cache

chainVars == <<at, ips, turn, geo, net, slots>>
geoVars == <<geoValues, geoLeader, geoStage, geoKey, geoGot>>
netVars == <<netValues, netLeader, netStage, netKey, netGot>>
vars == <<chainVars, geoVars, netVars>>

GeoCache == INSTANCE AsyncCache
  WITH Callers <- Domains, Keys <- IPs, Results <- Found \cup {Empty},
       values <- geoValues, leader <- geoLeader, stage <- geoStage,
       key <- geoKey, got <- geoGot

NetCache == INSTANCE AsyncCache
  WITH Callers <- Domains, Keys <- IPs, Results <- Found \cup {Empty},
       values <- netValues, leader <- netLeader, stage <- netStage,
       key <- netKey, got <- netGot

Steps == {"dns", "geo", "net", "enrich", "render", "rendering", "done", "failed"}

TypeOK ==
  /\ at \in [Domains -> Steps]
  /\ ips \in [Domains -> Addresses \cup {<<>>}]
  /\ turn \in [Domains -> Nat]
  /\ geo \in [Domains -> Found \cup {Empty}]
  /\ net \in [Domains -> Found \cup {Empty}]
  /\ slots \in 0..RenderSlots
  /\ \A d \in Domains : at[d] \in {"geo", "net"} => turn[d] \in DOMAIN ips[d]
  /\ GeoCache!TypeOK
  /\ NetCache!TypeOK

Init ==
  /\ at = [d \in Domains |-> "dns"]
  /\ ips = [d \in Domains |-> <<>>]
  /\ turn = [d \in Domains |-> 1]
  /\ geo = [d \in Domains |-> Empty]
  /\ net = [d \in Domains |-> Empty]
  /\ slots = RenderSlots
  /\ GeoCache!Init
  /\ NetCache!Init
-----------------------------------------------------------------------------
To(d, step) == at' = [at EXCEPT ![d] = step]

Address(d) == ips[d][turn[d]]

(* dns, tls and rdap; a domain without addresses skips the loop.           *)
Resolve(d) ==
  /\ at[d] = "dns"
  /\ \E list \in Addresses :
       /\ ips' = [ips EXCEPT ![d] = list]
       /\ To(d, IF list = <<>> THEN "enrich" ELSE "geo")
  /\ UNCHANGED <<turn, geo, net, slots, geoVars, netVars>>

(* With geo already found, the loop's turn is for net alone.               *)
SkipGeo(d) ==
  /\ at[d] = "geo"
  /\ geo[d] # Empty
  /\ To(d, "net")
  /\ UNCHANGED <<ips, turn, geo, net, slots, geoVars, netVars>>

AskGeo(d) ==
  /\ at[d] = "geo"
  /\ geo[d] = Empty
  /\ GeoCache!Get(d, Address(d))
  /\ UNCHANGED <<chainVars, netVars>>

(* The factory this domain runs ends, or the future it awaited is there.   *)
AwaitGeo(d) ==
  /\ \/ \E v \in Found \cup {Empty} : GeoCache!Returns(d, v)
     \/ GeoCache!Fails(d)
     \/ GeoCache!Resume(d)
  /\ UNCHANGED <<chainVars, netVars>>

(* get returned - or raised, and the chain with it.                        *)
TakeGeo(d) ==
  /\ GeoCache!Leave(d)
  /\ IF geoGot[d] = Raised
     THEN To(d, "failed") /\ UNCHANGED geo
     ELSE To(d, "net") /\ geo' = [geo EXCEPT ![d] = geoGot[d]]
  /\ UNCHANGED <<ips, turn, net, slots, netVars>>

(* The end of the list noticed one turn late (used to test the             *)
(* properties).                                                            *)
EndTurnLate(d, found) ==
  IF (geo[d] # Empty /\ found # Empty) \/ turn[d] > Len(ips[d])
  THEN To(d, "enrich") /\ UNCHANGED turn
  ELSE To(d, "geo") /\ turn' = [turn EXCEPT ![d] = @ + 1]

(* The turn ends: the loop breaks when both are found or no address is     *)
(* left.                                                                   *)
EndTurn(d, found) ==
  IF (geo[d] # Empty /\ found # Empty) \/ turn[d] = Len(ips[d])
  THEN To(d, "enrich") /\ UNCHANGED turn
  ELSE To(d, "geo") /\ turn' = [turn EXCEPT ![d] = @ + 1]

SkipNet(d) ==
  /\ at[d] = "net"
  /\ net[d] # Empty
  /\ EndTurn(d, net[d])
  /\ UNCHANGED <<ips, geo, net, slots, geoVars, netVars>>

AskNet(d) ==
  /\ at[d] = "net"
  /\ net[d] = Empty
  /\ NetCache!Get(d, Address(d))
  /\ UNCHANGED <<chainVars, geoVars>>

AwaitNet(d) ==
  /\ \/ \E v \in Found \cup {Empty} : NetCache!Returns(d, v)
     \/ NetCache!Fails(d)
     \/ NetCache!Resume(d)
  /\ UNCHANGED <<chainVars, geoVars>>

(* The loop left after its first turn (used to test the properties).       *)
TakeNetOnce(d) ==
  /\ NetCache!Leave(d)
  /\ IF netGot[d] = Raised
     THEN To(d, "failed") /\ UNCHANGED <<net, turn>>
     ELSE To(d, "enrich") /\ UNCHANGED turn /\ net' = [net EXCEPT ![d] = netGot[d]]
  /\ UNCHANGED <<ips, geo, slots, geoVars>>

TakeNet(d) ==
  /\ NetCache!Leave(d)
  /\ IF netGot[d] = Raised
     THEN To(d, "failed") /\ UNCHANGED <<net, turn>>
     ELSE EndTurn(d, netGot[d]) /\ net' = [net EXCEPT ![d] = netGot[d]]
  /\ UNCHANGED <<ips, geo, slots, geoVars>>

(* threat and popularity; without a browser the chain ends here.           *)
Enrich(d) ==
  /\ at[d] = "enrich"
  /\ \/ To(d, "render")
     \/ To(d, "done")
  /\ UNCHANGED <<ips, turn, geo, net, slots, geoVars, netVars>>

(* A malformed answer raises outside the caches.                           *)
LookupRaises(d) ==
  /\ at[d] \in {"dns", "enrich"}
  /\ To(d, "failed")
  /\ UNCHANGED <<ips, turn, geo, net, slots, geoVars, netVars>>

EnterRender(d) ==
  /\ at[d] = "render"
  /\ slots > 0
  /\ slots' = slots - 1
  /\ To(d, "rendering")
  /\ UNCHANGED <<ips, turn, geo, net, geoVars, netVars>>

(* The slot given back only by a page that rendered (used to test the      *)
(* properties).                                                            *)
LeaveRenderKeepingSlot(d) ==
  /\ at[d] = "rendering"
  /\ \/ To(d, "done") /\ slots' = slots + 1
     \/ To(d, "failed") /\ slots' = slots
  /\ UNCHANGED <<ips, turn, geo, net, geoVars, netVars>>

(* render_page returned or raised: async with releases the slot.           *)
LeaveRender(d) ==
  /\ at[d] = "rendering"
  /\ \/ To(d, "done")
     \/ To(d, "failed")
  /\ slots' = slots + 1
  /\ UNCHANGED <<ips, turn, geo, net, geoVars, netVars>>

Step(d) ==
  \/ Resolve(d)
  \/ SkipGeo(d) \/ AskGeo(d) \/ AwaitGeo(d) \/ TakeGeo(d)
  \/ SkipNet(d) \/ AskNet(d) \/ AwaitNet(d) \/ TakeNet(d)
  \/ Enrich(d) \/ LookupRaises(d)
  \/ EnterRender(d) \/ LeaveRender(d)

Over(d) == at[d] \in {"done", "failed"}

(* Every chain is over.                                                    *)
Rest == (\A d \in Domains : Over(d)) /\ UNCHANGED vars

Next == (\E d \in Domains : Step(d)) \/ Rest

Spec == Init /\ [][Next]_vars

(* The event loop runs what is ready, and every lookup has a timeout.  A   *)
(* semaphore wakes its waiters in turn: none is passed over for ever.      *)
Fairness ==
  \A d \in Domains : /\ WF_vars(Step(d))
                     /\ SF_vars(EnterRender(d))

FairSpec == Spec /\ Fairness
-----------------------------------------------------------------------------
(* The answer taken is the first non-empty one in the order of the         *)
(* domain's addresses, and it is the shared, cached one.                   *)
FirstOf(found, values, list) ==
  IF found = Empty
  THEN \A i \in DOMAIN list : values[list[i]] = Empty
  ELSE \E i \in DOMAIN list :
         /\ values[list[i]] = found
         /\ \A j \in 1..(i - 1) : values[list[j]] = Empty

(* However the domains' chains interleave and whoever led the fetch, a     *)
(* domain's record holds the first non-empty geolocation and the first     *)
(* non-empty network of its addresses; empty means that all of them were   *)
(* asked in vain (_process_domain's loop).                                 *)
FirstAnswerTaken ==
  \A d \in Domains : at[d] \in {"enrich", "render", "rendering", "done"} =>
    FirstOf(geo[d], geoValues, ips[d]) /\ FirstOf(net[d], netValues, ips[d])

(* No slot of the render semaphore is lost or handed out twice.            *)
SlotsConserved ==
  slots + Cardinality({d \in Domains : at[d] = "rendering"}) = RenderSlots

(* Every domain's chain comes to its end: no wait for another domain's     *)
(* lookup or for a render slot is for ever.                                *)
ChainEnds == \A d \in Domains : <>Over(d)
=============================================================================
