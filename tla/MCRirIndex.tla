----------------------------- MODULE MCRirIndex -----------------------------
(***************************************************************************)
(* Values of RirWhois's constants for TLC: buckets of two addresses in one *)
(* version and of one in the other, so that ranges start and end within    *)
(* buckets and at their edges, and are wide at two buckets apart.  Every   *)
(* network names an organisation and a contact of its own, which may or    *)
(* may not turn up.                                                        *)
(***************************************************************************)
EXTENDS RirWhois

CONSTANTS v4, v6, o1, c1, c2, name, descr, m1, m2

TwoVersions == {v4, v6}
Spaces      == [v \in TwoVersions |-> IF v = v4 THEN 5 ELSE 3]
Widths      == [v \in TwoVersions |-> IF v = v4 THEN 2 ELSE 1]
OneOrg      == {o1}
TwoContacts == {c1, c2}
TwoNames    == {name, descr}
TwoMails    == {m1, m2}
OneRef      == {[org |-> o1, descr |-> descr, handles |-> <<c2, c1>>]}
=============================================================================
