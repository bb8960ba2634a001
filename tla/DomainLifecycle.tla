-------------------------- MODULE DomainLifecycle --------------------------
(***************************************************************************)
(* What the online run promises of the domains it is given, as one status  *)
(* per domain, with no queue, worker, buffer or process: the life of a     *)
(* domain over all runs on one database and dossier directory              *)
(* (online/runner.py, ONLINE_FLAGS and the resume rules).                  *)
(*                                                                         *)
(*   unknown   no row                                                      *)
(*   pending   a row, no dossier, s_render not set                         *)
(*   written   a dossier, s_render not set                                 *)
(*   recorded  a dossier and s_render set                                  *)
(*   failed    s_render set with a process error, no dossier               *)
(*   spoiled   s_render set with a process error, and a dossier            *)
(***************************************************************************)
CONSTANT Domains

VARIABLE status

Statuses == {"unknown", "pending", "written", "recorded", "failed", "spoiled"}

TypeOK == status \in [Domains -> Statuses]

Init == status = [d \in Domains |-> "unknown"]

(* Domains are added to the table.                                         *)
Add(S) ==
  status' = [d \in Domains |->
               IF d \in S /\ status[d] = "unknown" THEN "pending" ELSE status[d]]

(* One dossier is written, of a domain that has none.                      *)
Write(d) ==
  /\ status[d] = "pending"
  /\ status' = [status EXCEPT ![d] = "written"]

(* A transaction records some domains: those in Good with their dossier,   *)
(* those in Bad with an error.                                             *)
Record(Good, Bad) ==
  /\ \A d \in Good : status[d] = "written"
  /\ \A d \in Bad : status[d] \in {"pending", "written"}
  /\ status' = [d \in Domains |->
       IF d \in Good THEN "recorded"
       ELSE IF d \in Bad
            THEN IF status[d] = "written" THEN "spoiled" ELSE "failed"
            ELSE status[d]]

(* --force takes the terminal flag from every row.                         *)
Reset ==
  status' = [d \in Domains |->
    IF status[d] \in {"recorded", "spoiled"} THEN "written"
    ELSE IF status[d] = "failed" THEN "pending" ELSE status[d]]

Next ==
  \/ \E S \in SUBSET Domains : Add(S)
  \/ \E d \in Domains : Write(d)
  \/ \E Good, Bad \in SUBSET Domains : Good \cap Bad = {} /\ Record(Good, Bad)
  \/ Reset

Spec == Init /\ [][Next]_status
=============================================================================
