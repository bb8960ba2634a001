---------------------------- MODULE MCDomainChain ---------------------------
(***************************************************************************)
(* Values of DomainChain's constants for TLC.  Two domains and two         *)
(* addresses they share in either order: the least for which one domain    *)
(* leads where another waits, and the first answer is not the only one.    *)
(***************************************************************************)
EXTENDS DomainChain

CONSTANTS d1, d2, ip1, ip2, v1, v2, empty, raised, none

TwoDomains   == {d1, d2}
TwoIPs       == {ip1, ip2}
TwoFound     == {v1, v2}
BothOrders   == {<<>>, <<ip1, ip2>>, <<ip2, ip1>>}
=============================================================================
