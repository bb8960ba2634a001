-------------------------- MODULE MCProxyFallback --------------------------
(***************************************************************************)
(* Values of ProxyFallback's constants for TLC: two workers on two items,  *)
(* two proxies, two list URLs and two runs.                                *)
(***************************************************************************)
EXTENDS ProxyFallback

CONSTANTS w1, w2, p1, p2, i1, i2

TwoWorkers == {w1, w2}
Coroutines == {w1, w2, Main}
TwoProxies == {p1, p2}
TwoItems   == <<i1, i2>>
NoneOrJunk == {Nothing, {Junk}}
=============================================================================
