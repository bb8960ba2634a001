---------------------------- MODULE MCAsyncCache ----------------------------
(***************************************************************************)
(* Values of AsyncCache's constants for TLC: three callers, two keys, two  *)
(* results - so that a stale one differs from the cached one.              *)
(***************************************************************************)
EXTENDS AsyncCache

CONSTANTS c1, c2, c3, k1, k2, v1, v2, raised, none

ThreeCallers == {c1, c2, c3}
TwoKeys      == {k1, k2}
TwoResults   == {v1, v2}
=============================================================================
