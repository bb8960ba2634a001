----------------------------- MODULE MCPipeline -----------------------------
(***************************************************************************)
(* Files and scripts for Pipeline.  The files overlap where stages meet:   *)
(* two Brno files and the forward DNS dumps disagree on addresses, an      *)
(* address is unknown to geolocation, lists of different strength name the *)
(* same domain, MaxMind and PeeringDB name the same operator.              *)
(***************************************************************************)
EXTENDS Pipeline, TLC

CONSTANTS d1, d2, d3, ip1, ip2, ip3, ip6, NULL

ThreeDomains == {d1, d2, d3}

Brno1 == d1 :> [a |-> <<ip1>>, whois |-> "w1", label |-> "benign"]
Brno2 == d1 :> [a |-> <<ip2>>, aaaa |-> <<ip6>>, label |-> "phishing"] @@
         d2 :> [aaaa |-> <<ip6>>, ip_data |-> <<ip3>>, ptr |-> {"p0"}]

Files ==
  [brno1  |-> Brno1,
   brno2  |-> Brno2,
   fdns   |-> d2 :> [a |-> <<ip2>>] @@ d3 :> [a |-> <<ip2, ip1>>],
   zone   |-> d2 :> [a |-> <<ip1>>] @@ d3 :> [aaaa |-> <<ip6>>],
   mmdb   |-> ip1 :> [geo |-> "g1", asn |-> 1, asn_org |-> "o1"] @@
              ip2 :> [geo |-> "g2", asn |-> 2] @@ ip3 :> [geo |-> "g3"],
   mmdb2  |-> ip1 :> [geo |-> "g9", asn |-> 9] @@ ip2 :> [geo |-> "g8"],
   rir    |-> ip1 :> [net |-> "n1"] @@ ip6 :> [net |-> "n6"],
   pdb    |-> 1 :> [asn_org |-> "p1", asn_type |-> "t1"] @@ 2 :> [asn_org |-> "p2"],
   ptrs   |-> ip1 :> [ptr |-> {"p1"}] @@ ip2 :> [ptr |-> {"p2", "p3"}] @@
              ip6 :> [ptr |-> {"p6"}],
   hosts  |-> d2 :> [label |-> "blocklisted"] @@ d3 :> [label |-> "blocklisted"],
   urlhaus |-> d1 :> [label |-> "malware"] @@ d3 :> [label |-> "malware"],
   feodo  |-> ip2 :> [label |-> "malware"],
   bare   |-> NoOffer,
   tranco |-> d1 :> [rank |-> 7] @@ d2 :> [rank |-> 5],
   umbrella |-> d1 :> [rank |-> 3],
   certs  |-> d1 :> [san |-> "s1"],
   certs2 |-> d1 :> [san |-> "s2"] @@ d2 :> [san |-> "s2"],
   whois  |-> d1 :> [whois |-> "w2"] @@ d3 :> [whois |-> "w3"]]

None == [s \in Stages |-> <<>>]
All ==
  [None EXCEPT !["brno"] = <<"brno1", "brno2">>, !["rapid7"] = <<"fdns">>,
               !["zone"] = <<"zone">>, !["geo"] = <<"mmdb">>, !["netwhois"] = <<"rir">>,
               !["peeringdb"] = <<"pdb">>, !["rdns"] = <<"ptrs">>,
               !["threat"] = <<"hosts", "urlhaus">>, !["ipthreat"] = <<"feodo">>,
               !["tranco"] = <<"tranco", "umbrella">>, !["ct"] = <<"certs", "certs2">>,
               !["rdap"] = <<"whois">>]

Command(inp, files, force, export, retry) ==
  [input |-> inp, files |-> files, force |-> force, export |-> export, retry |-> retry]

Run(files, force) == Command(ThreeDomains, files, force, TRUE, TRUE)
Abandoned(files, force) == Command(ThreeDomains, files, force, TRUE, FALSE)
Sub(s, force) == Command({}, [None EXCEPT ![s] = All[s]], force, FALSE, TRUE)
Normalize == Command(ThreeDomains, None, {"normalize"}, FALSE, TRUE)

Everything == Stages \cup {"normalize"}

(* The same files throughout: run, forced in part or altogether, killed    *)
(* and abandoned, and the subcommands one by one.                          *)
SameFiles ==
  {<<Run(All, {}), Run(All, {"geo", "threat"})>>,
   <<Run(All, {}), Run(All, Everything)>>,
   <<Abandoned(All, {"brno", "tranco"}), Run(All, {})>>,
   <<Run(All, {}), Abandoned(All, Everything), Run(All, {})>>,
   <<Normalize>> \o [i \in DOMAIN StageOrder |-> Sub(StageOrder[i], {})]
                 \o <<Run(All, {})>>}

(* Files that change, are missing or empty, stages out of order, an input  *)
(* list that grows.                                                        *)
Changed ==
  {<<Run([All EXCEPT !["brno"] = <<"brno1">>], {}), Run(All, {"brno", "geo"})>>,
   <<Run(All, {}), Run([All EXCEPT !["geo"] = <<"mmdb2">>], {"geo"})>>,
   <<Run([All EXCEPT !["brno"] = <<"gone">>, !["threat"] = <<"gone">>,
                     !["geo"] = <<"gone">>, !["ipthreat"] = <<>>], {"threat"}),
     Run(All, {"brno"})>>,
   <<Normalize, Sub("geo", {}), Sub("zone", {}), Run(All, {"threat"})>>,
   <<Command({d1}, [All EXCEPT !["threat"] = <<"bare">>], {}, TRUE, TRUE),
     Run(All, {"normalize", "threat", "tranco"})>>}

AnyFiles == SameFiles \cup Changed
=============================================================================
