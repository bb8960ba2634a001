----------------------------- MODULE MCOnlineRun ----------------------------
(***************************************************************************)
(* Values of OnlineRun's constants for TLC.  Two of the eight flags stand  *)
(* for all: the first, which a --force odns resets alone, and the last,    *)
(* which decides what is pending.                                          *)
(***************************************************************************)
EXTENDS OnlineRun, TLC

CONSTANTS d1, d2, d3, w1, w2, None

TwoFlags == <<"odns", "render">>

TwoDomains   == {d1, d2}
ThreeDomains == {d1, d2, d3}
OneWorker    == {w1}
TwoWorkers   == {w1, w2}

(* The whole list, or a resume without --input.                            *)
ListOrResume3 == {ThreeDomains, {}}
WholeList2    == {TwoDomains}
WholeList3    == {ThreeDomains}

NoForce   == {{}}
AllForces == {{}, {"online"}, {"odns"}, {"normalize"}}
OnlineForce == {{}, {"online"}}

Symmetry3 == Permutations(ThreeDomains) \cup Permutations(TwoWorkers)
=============================================================================
