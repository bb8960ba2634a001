------------------------------ MODULE MCIpApi ------------------------------
(***************************************************************************)
(* Values of IpApi's constants for TLC: three callers, so that two         *)
(* sleepers wake where a newcomer may take the token before them.          *)
(***************************************************************************)
EXTENDS IpApi

CONSTANTS c1, c2, c3

TwoCallers   == {c1, c2}
ThreeCallers == {c1, c2, c3}
=============================================================================
