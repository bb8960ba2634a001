------------------------------ MODULE Pipeline ------------------------------
(***************************************************************************)
(* The offline enrichment pipeline: the stages of pipeline.py over the     *)
(* SQLite table of store.py, each joining one of sources/ into it.         *)
(*                                                                         *)
(* A user works through a script of commands on one database: run, or a    *)
(* subcommand per stage.  A subcommand is a command that gives the files   *)
(* of one stage only, since a stage without files does nothing.  A command *)
(* may be killed anywhere - an exception of a source ends the program just *)
(* the same, its transaction rolled back - and is then issued again, or    *)
(* given up for the next one.                                              *)
(*                                                                         *)
(* rows and done are what the process sees through its connection, disk    *)
(* what is committed: they differ within a transaction, and a kill throws  *)
(* the difference away.  meta and the set of rows are only changed by      *)
(* transactions of one statement.                                          *)
(*                                                                         *)
(* What a file holds is data: for each key - a domain, an address, an AS   *)
(* number - the columns it has values for.  Parsing is left out.           *)
(***************************************************************************)
EXTENDS Naturals, Sequences, FiniteSets, Functions

CONSTANTS
  Domains,      \* the domains of the input lists
  Content,      \* Content[file][key]: what a file that exists says of a key
  Scripts,      \* the scripts a user may follow: sequences of commands
                \* [input, files, force, export, retry]
  Null,         \* SQL's NULL
  MaxCrashes    \* bound: how often the program is killed

(* The stages between normalize and export, in the order of run.           *)
StageOrder == <<"brno", "rapid7", "zone", "geo", "netwhois", "peeringdb", "rdns",
                "threat", "ipthreat", "tranco", "ct", "rdap">>
Stages == {StageOrder[i] : i \in DOMAIN StageOrder}
Columns == {"a", "aaaa", "ip_data", "ips", "ptr", "whois", "geo", "asn", "asn_org",
            "asn_type", "net", "label", "sources", "rank", "san"}

IsList(q) == q \in Seq(Range(q))

ASSUME PipelineAssumption ==
  /\ \A s \in Scripts :
       /\ IsList(s) /\ s # <<>>
       /\ \A i \in DOMAIN s :
            /\ s[i].input \subseteq Domains
            /\ DOMAIN s[i].files = Stages
            /\ \A st \in Stages : IsList(s[i].files[st])
  /\ MaxCrashes \in Nat

(* The columns that a stage's source has values for.  The store alone      *)
(* joins addresses to ips and lists that match to sources.                 *)
Yields ==
  [brno |-> {"a", "aaaa", "ip_data", "ptr", "whois", "label"},
   rapid7 |-> {"a", "aaaa"}, zone |-> {"a", "aaaa"},
   geo |-> {"geo", "asn", "asn_org"}, netwhois |-> {"net"},
   peeringdb |-> {"asn_org", "asn_type"}, rdns |-> {"ptr"},
   threat |-> {"label"}, ipthreat |-> {"label"}, tranco |-> {"rank"},
   ct |-> {"san"}, rdap |-> {"whois"}]

(* Sources whose every line has a value: lists.                            *)
ListStages == {"rdns", "threat", "ipthreat", "tranco"}

LabelRank == [benign |-> 0, blocklisted |-> 1, phishing |-> 2, malware |-> 3]

ASSUME ContentAssumption ==
  /\ \A s \in Scripts : \A i \in DOMAIN s : \A st \in Stages :
       \A f \in Range(s[i].files[st]) \cap DOMAIN Content :
         \A k \in DOMAIN Content[f] :
           /\ DOMAIN Content[f][k] \subseteq Yields[st]
           /\ st \in ListStages => DOMAIN Content[f][k] = Yields[st]
  /\ \A f \in DOMAIN Content : \A k \in DOMAIN Content[f] :
       \A c \in DOMAIN Content[f][k] :
         LET value == Content[f][k][c]
         IN /\ value # Null
            /\ c \in {"a", "aaaa", "ip_data"} => IsList(value)
            /\ c = "label" => value \in DOMAIN LabelRank
            /\ c = "rank" => value \in Nat

(* NULL is nothing a stage makes of several values: no set of lists that   *)
(* match or of names, no list of addresses.                                *)
ValuesOf(c) ==
  UNION {{Content[f][k][c] : k \in {k \in DOMAIN Content[f] : c \in DOMAIN Content[f][k]}} :
           f \in DOMAIN Content}

ASSUME NullAssumption ==
  /\ \A s \in Scripts : \A i \in DOMAIN s : \A st \in Stages :
       \A hit \in SUBSET Range(s[i].files[st]) : hit # Null
  /\ \A names \in SUBSET ValuesOf("ptr") : UNION names # Null
  /\ LET lists == ValuesOf("a") \cup ValuesOf("aaaa") \cup ValuesOf("ip_data") \cup {<<>>}
     IN \A p, q, r \in lists : p \o q \o r # Null

VARIABLES
  known,     \* the domains that have a row
  meta,      \* per stage: "none", "pending", "running" or "done"
  disk,      \* the rows and flags committed
  rows,      \* per domain its columns, as the process sees them
  done,      \* per domain the stages whose flag is set, likewise
  script, line,   \* what the user does, and the command he is at
  phase,     \* "idle", "normalize", "stages" or "export"
  toAdd,     \* input domains not inserted yet
  stage,     \* index of the stage
  step,      \* where in the stage's code
  unread,    \* files of the stage not joined yet
  left,      \* rows the stage has still to do
  crashes

vars == <<known, meta, disk, rows, done, script, line, phase, toAdd, stage, step,
          unread, left, crashes>>
table == <<disk, rows, done>>
inStage == <<unread, left>>
user == <<script, line, crashes>>

(* Those of the files that exist, in their order.                          *)
Existing(files) ==
  LET among[n \in 0..Len(files)] ==   \* the first n of them
        IF n = 0 THEN <<>>
        ELSE IF files[n] \in DOMAIN Content THEN Append(among[n - 1], files[n])
        ELSE among[n - 1]
  IN among[Len(files)]

cmd == script[line]
Stage == StageOrder[stage]
Given == cmd.files[Stage]
Found == Existing(Given)
Forced == Stage \in cmd.force

Steps == {"check", "pending", "open", "work", "flags", "finish"}

TypeOK ==
  /\ known \subseteq Domains
  /\ meta \in [Stages \cup {"normalize", "export"} ->
                 {"none", "pending", "running", "done"}]
  /\ \A d \in Domains : DOMAIN rows[d] = Columns /\ DOMAIN disk.rows[d] = Columns
  /\ done \in [Domains -> SUBSET Stages]
  /\ disk.done \in [Domains -> SUBSET Stages]
  /\ script \in Scripts
  /\ line \in 1..(Len(script) + 1)
  /\ phase \in {"idle", "normalize", "stages", "export"}
  /\ toAdd \subseteq Domains
  /\ stage \in 1..(Len(StageOrder) + 1)
  /\ step \in Steps
  /\ unread \in Seq(DOMAIN Content)
  /\ left \subseteq known
  /\ crashes \in 0..MaxCrashes
-----------------------------------------------------------------------------
(* What a stage writes to a row.                                           *)

NoOffer == [c \in {} |-> Null]

(* An offer's column values that are there already overwritten (used to    *)
(* test the properties).                                                   *)
CoalesceLatest(row, offer) ==
  [c \in Columns |-> IF c \in DOMAIN offer THEN offer[c] ELSE row[c]]

(* The writers of store.py: COALESCE keeps the first value of a column,    *)
(* update_tranco the smallest.                                             *)
Coalesce(row, offer) ==
  [c \in Columns |->
     IF c \notin DOMAIN offer THEN row[c]
     ELSE IF row[c] = Null THEN offer[c]
     ELSE IF c = "rank" /\ offer[c] < row[c] THEN offer[c]
     ELSE row[c]]

(* The first of the keys the file has something on.                        *)
FirstHit(f, keys) ==
  LET hits == {i \in DOMAIN keys : keys[i] \in DOMAIN Content[f]}
  IN IF hits = {} THEN NoOffer
     ELSE Content[f][keys[CHOOSE i \in hits : \A j \in hits : i <= j]]

(* The files that have something on one of the keys.                       *)
Lists(files, keys) ==
  {f \in {files[i] : i \in DOMAIN files} : FirstHit(f, keys) # NoOffer}

(* The strongest label of the lists that match, and their names.           *)
ThreatOffer(files, keys) ==
  LET hit == Lists(files, keys)
      labels == {FirstHit(f, keys).label : f \in hit}
  IN IF hit = {} THEN NoOffer
     ELSE [label |-> CHOOSE l \in labels : \A m \in labels : LabelRank[m] <= LabelRank[l],
           sources |-> hit]

RankOffer(files, keys) ==
  LET ranks == {FirstHit(f, keys).rank : f \in Lists(files, keys)}
  IN IF ranks = {} THEN NoOffer
     ELSE [rank |-> CHOOSE r \in ranks : \A q \in ranks : r <= q]

PtrOffer(files, keys) ==
  LET pairs == {p \in Lists(files, keys) \X DOMAIN keys :
                  FirstHit(p[1], <<keys[p[2]]>>) # NoOffer}
      names == UNION {FirstHit(p[1], <<keys[p[2]]>>).ptr : p \in pairs}
  IN IF names = {} THEN NoOffer ELSE [ptr |-> names]

(* Per column the first file's value: the records of one domain, written   *)
(* one after the other.                                                    *)
AllRecords(files, d) ==
  LET hit == {i \in DOMAIN files : d \in DOMAIN Content[files[i]]}
      has(c) == {i \in hit : c \in DOMAIN Content[files[i]][d]}
      first(c) == CHOOSE i \in has(c) : \A j \in has(c) : i <= j
  IN [c \in {c \in Columns : has(c) # {}} |-> Content[files[first(c)]][d][c]]

(* The records of the first file alone that has the domain ("seen").       *)
FirstRecord(files, d) ==
  LET hit == {i \in DOMAIN files : d \in DOMAIN Content[files[i]]}
  IN IF hit = {} THEN NoOffer
     ELSE Content[files[CHOOSE i \in hit : \A j \in hit : i <= j]][d]

(* ips: the addresses of A, of AAAA and, in Brno's records, of ip_data.    *)
WithIps(offer) ==
  LET part(c) == IF c \in DOMAIN offer THEN offer[c] ELSE <<>>
      ips == part("a") \o part("aaaa") \o part("ip_data")
  IN [c \in DOMAIN offer \cup (IF ips = <<>> THEN {} ELSE {"ips"}) |->
        IF c = "ips" THEN ips ELSE offer[c]]

(* The documents of one Brno file, or the FDNS dump.                       *)
BrnoOffer(files, d) == WithIps(AllRecords(files, d))
FdnsOffer(files, d) == WithIps(AllRecords(files, d))

(* Zone files: a domain's records in the first file that has it.           *)
ZoneOffer(files, d) == WithIps(FirstRecord(files, d))

(* MaxMind (City and ASN as one file) and the RIR dumps (as one file; how  *)
(* several are merged is in RirWhois): the first address they know.        *)
GeoOffer(files, row) == FirstHit(files[1], row.ips)
NetOffer(files, row) == FirstHit(files[1], row.ips)

(* PeeringDB, by AS number.                                                *)
AsnOffer(files, row) == FirstHit(files[1], <<row.asn>>)

(* Blocklists by domain, and threat feeds by any of the addresses.         *)
BlocklistOffer(files, d) == ThreatOffer(files, <<d>>)
IpThreatOffer(files, row) == ThreatOffer(files, row.ips)

(* Certificates and whois records, by domain.                              *)
SanOffer(files, d) == FirstRecord(files, d)
WhoisOffer(files, d) == AllRecords(files, d)

(* What stage s, reading files, writes to d's row.                         *)
Offer(s, files, d, row) ==
  CASE s = "brno" -> BrnoOffer(files, d)
    [] s = "rapid7" -> FdnsOffer(files, d)
    [] s = "zone" -> ZoneOffer(files, d)
    [] s = "geo" -> GeoOffer(files, row)
    [] s = "netwhois" -> NetOffer(files, row)
    [] s = "peeringdb" -> AsnOffer(files, row)
    [] s = "rdns" -> PtrOffer(files, row.ips)
    [] s = "threat" -> BlocklistOffer(files, d)
    [] s = "ipthreat" -> IpThreatOffer(files, row)
    [] s = "tranco" -> RankOffer(files, <<d>>)
    [] s = "ct" -> SanOffer(files, d)
    [] s = "rdap" -> WhoisOffer(files, d)
-----------------------------------------------------------------------------
(* The control flow.                                                       *)

NoRow == [c \in Columns |-> Null]
NoRows == [rows |-> [d \in Domains |-> NoRow], done |-> [d \in Domains |-> {}]]

Init ==
  /\ known = {}
  /\ meta = [s \in Stages \cup {"normalize", "export"} |-> "none"]
  /\ disk = NoRows /\ rows = NoRows.rows /\ done = NoRows.done
  /\ script \in Scripts
  /\ line = 1
  /\ phase = "idle" /\ toAdd = {} /\ stage = 1 /\ step = "check"
  /\ unread = <<>> /\ left = {}
  /\ crashes = 0

Commit == disk' = [rows |-> rows', done |-> done']

MarkStage(s, status) == meta' = [meta EXCEPT ![s] = status]

(* A command is issued.  Normalisation is skipped when it is done, unless  *)
(* forced; a stage's subcommand has no input.                              *)
Start ==
  /\ phase = "idle"
  /\ line <= Len(script)
  /\ LET normalizes == cmd.input # {}
                         /\ ("normalize" \in cmd.force \/ meta["normalize"] # "done")
     IN /\ phase' = IF normalizes THEN "normalize" ELSE "stages"
        /\ toAdd' = IF normalizes THEN cmd.input ELSE {}
        /\ IF normalizes THEN MarkStage("normalize", "running") ELSE UNCHANGED meta
  /\ UNCHANGED <<known, table, stage, step, inStage, user>>

(* One chunk of the input is inserted.                                     *)
AddChunk ==
  /\ phase = "normalize"
  /\ \E chunk \in SUBSET toAdd :
       /\ chunk # {}
       /\ known' = known \cup chunk
       /\ toAdd' = toAdd \ chunk
  /\ UNCHANGED <<meta, table, phase, stage, step, inStage, user>>

NormalizeDone ==
  /\ phase = "normalize"
  /\ toAdd = {}
  /\ MarkStage("normalize", "done")
  /\ phase' = "stages"
  /\ UNCHANGED <<known, table, toAdd, stage, step, inStage, user>>

InStage(at) == phase = "stages" /\ stage <= Len(StageOrder) /\ step = at

NextStage ==
  /\ stage' = stage + 1
  /\ step' = "check"
  /\ unread' = <<>>

(* No file given, or none of those given exists.  Three stages look for    *)
(* the files later; brno takes what is given without looking.              *)
LooksLater == {"threat", "netwhois", "rdap"}

NoFiles ==
  /\ InStage("check")
  /\ \/ Given = <<>>
     \/ Found = <<>> /\ Stage \notin LooksLater \cup {"brno"}
  /\ NextStage
  /\ UNCHANGED <<known, meta, table, phase, toAdd, left, user>>

HasFiles ==
  /\ InStage("check")
  /\ Given # <<>>
  /\ Found # <<>> \/ Stage \in LooksLater \cup {"brno"}

(* _maybe_reset of a forced stage: its flag is taken from every row ...    *)
ForgetFlags ==
  /\ HasFiles
  /\ Forced
  /\ done' = [d \in Domains |-> done[d] \ {Stage}]
  /\ UNCHANGED rows
  /\ Commit
  /\ step' = "pending"
  /\ UNCHANGED <<known, meta, phase, toAdd, stage, inStage, user>>

(* ... and the stage is no longer done.                                    *)
MarkPending ==
  /\ InStage("pending")
  /\ MarkStage(Stage, "pending")
  /\ step' = "open"
  /\ UNCHANGED <<known, table, phase, toAdd, stage, inStage, user>>

AlreadyDone ==
  /\ HasFiles
  /\ ~Forced
  /\ meta[Stage] = "done"
  /\ NextStage
  /\ UNCHANGED <<known, meta, table, phase, toAdd, left, user>>

NotDone ==
  /\ HasFiles
  /\ ~Forced
  /\ meta[Stage] # "done"
  /\ step' = "open"
  /\ UNCHANGED <<known, meta, table, phase, toAdd, stage, inStage, user>>

NothingFound ==
  /\ InStage("open")
  /\ Stage \in LooksLater
  /\ Found = <<>>
  /\ NextStage
  /\ UNCHANGED <<known, meta, table, phase, toAdd, left, user>>

(* The rows the stage works on: all, those whose flag is not set, or the   *)
(* ones of these that have addresses, or an AS number.  A set of           *)
(* blocklists that is empty altogether is not joined.                      *)
Pending == {d \in known : Stage \notin done[d]}
Scope ==
  CASE Stage \in {"brno", "rapid7", "zone", "ct", "rdap"} -> known
    [] Stage = "threat" /\ \A i \in DOMAIN Found : Content[Found[i]] = NoOffer -> {}
    [] Stage \in {"threat", "tranco"} -> Pending
    [] Stage = "peeringdb" -> {d \in Pending : rows[d].asn # Null}
    [] OTHER -> {d \in Pending : rows[d].ips # Null}

(* The stage marked done before it is (used to test the properties).       *)
OpenMarkedDone ==
  /\ InStage("open")
  /\ Found # <<>> \/ Stage = "brno"
  /\ MarkStage(Stage, "done")
  /\ unread' = Found
  /\ left' = Scope
  /\ step' = IF Found = <<>> THEN "flags" ELSE "work"
  /\ UNCHANGED <<known, table, phase, toAdd, stage, user>>

(* A file that is not there handed on (used to test the properties).       *)
OpenUnchecked ==
  /\ InStage("open")
  /\ Found # <<>> \/ Stage = "brno"
  /\ MarkStage(Stage, "running")
  /\ unread' = Given
  /\ left' = Scope
  /\ step' = IF Found = <<>> THEN "flags" ELSE "work"
  /\ UNCHANGED <<known, table, phase, toAdd, stage, user>>

(* The stage is marked running, its files opened and its rows selected.    *)
Open ==
  /\ InStage("open")
  /\ Found # <<>> \/ Stage = "brno"
  /\ MarkStage(Stage, "running")
  /\ unread' = Found
  /\ left' = Scope
  /\ step' = IF Found = <<>> THEN "flags" ELSE "work"
  /\ UNCHANGED <<known, table, phase, toAdd, stage, user>>

(* brno joins its files one by one, each in a transaction of its own; the  *)
(* other stages join theirs together in one.                               *)
Joined == IF Stage = "brno" THEN <<Head(unread)>> ELSE unread
FlagsEachRow == Stage \notin {"brno", "rapid7", "zone", "ct", "rdap"}

(* One row is done, within the transaction.                                *)
JoinRow ==
  /\ InStage("work")
  /\ \E d \in left :
       /\ rows' = [rows EXCEPT ![d] = Coalesce(@, Offer(Stage, Joined, d, @))]
       /\ done' = IF FlagsEachRow THEN [done EXCEPT ![d] = @ \cup {Stage}] ELSE done
       /\ left' = left \ {d}
  /\ UNCHANGED <<known, meta, disk, phase, toAdd, stage, step, unread, user>>

(* The transaction is committed.                                           *)
EndJoin ==
  /\ InStage("work")
  /\ left = {}
  /\ IF Stage = "brno"
     THEN /\ unread' = Tail(unread)
          /\ left' = IF Tail(unread) = <<>> THEN {} ELSE known
          /\ step' = IF Tail(unread) = <<>> THEN "flags" ELSE "work"
          /\ UNCHANGED done
     ELSE /\ unread' = <<>>
          /\ step' = "finish"
          /\ done' = IF FlagsEachRow THEN done
                     ELSE [d \in Domains |->
                             IF d \in known THEN done[d] \cup {Stage} ELSE done[d]]
          /\ UNCHANGED left
  /\ UNCHANGED rows
  /\ Commit
  /\ UNCHANGED <<known, meta, phase, toAdd, stage, user>>

(* brno sets the flag of every row in a last transaction.                  *)
FlagAll ==
  /\ InStage("flags")
  /\ done' = [d \in Domains |-> IF d \in known THEN done[d] \cup {Stage} ELSE done[d]]
  /\ UNCHANGED rows
  /\ Commit
  /\ left' = {}
  /\ step' = "finish"
  /\ UNCHANGED <<known, meta, phase, toAdd, stage, unread, user>>

StageDone ==
  /\ InStage("finish")
  /\ MarkStage(Stage, "done")
  /\ NextStage
  /\ UNCHANGED <<known, table, phase, toAdd, left, user>>

(* The program ends; the command is over.                                  *)
Stops ==
  /\ phase' = "idle"
  /\ toAdd' = {}
  /\ stage' = 1
  /\ step' = "check"
  /\ unread' = <<>>
  /\ left' = {}

AllStagesPassed ==
  /\ phase = "stages"
  /\ stage > Len(StageOrder)
  /\ IF cmd.export
     THEN /\ MarkStage("export", "running")
          /\ phase' = "export"
          /\ UNCHANGED <<toAdd, stage, step, inStage, line>>
     ELSE /\ Stops
          /\ line' = line + 1
          /\ UNCHANGED meta
  /\ UNCHANGED <<known, table, script, crashes>>

(* The table is written out.                                               *)
Export ==
  /\ phase = "export"
  /\ MarkStage("export", "done")
  /\ Stops
  /\ line' = line + 1
  /\ UNCHANGED <<known, table, script, crashes>>

(* The program is killed, or a source raises.                              *)
Crash ==
  /\ phase # "idle"
  /\ crashes < MaxCrashes
  /\ crashes' = crashes + 1
  /\ Stops
  /\ rows' = disk.rows /\ done' = disk.done
  /\ line' = IF cmd.retry THEN line ELSE line + 1
  /\ UNCHANGED <<known, meta, disk, script>>

Over == phase = "idle" /\ line > Len(script)

Rest == Over /\ UNCHANGED vars

Next ==
  \/ Start \/ AddChunk \/ NormalizeDone
  \/ NoFiles \/ ForgetFlags \/ MarkPending \/ AlreadyDone \/ NotDone \/ NothingFound
  \/ Open \/ JoinRow \/ EndJoin \/ FlagAll \/ StageDone
  \/ AllStagesPassed \/ Export
  \/ Crash
  \/ Rest

Spec == Init /\ [][Next]_vars
-----------------------------------------------------------------------------
(* The single-domain lookup: the same joins on the one row of a store in   *)
(* memory.                                                                 *)

(* FDNS before Brno (used to test the properties).                         *)
LookupDumpsFirst ==
  <<"rapid7", "brno", "zone", "geo", "netwhois", "peeringdb", "rdns",
    "threat", "ipthreat", "tranco", "ct", "rdap">>

(* The order of lookup_domain's own.                                       *)
LookupOrder ==
  <<"brno", "rapid7", "zone", "geo", "netwhois", "peeringdb", "rdns",
    "threat", "ipthreat", "tranco", "ct", "rdap">>

(* Five stages pass a row by that does not have the key they join on.      *)
HasKey(s, row) ==
  /\ s \in {"geo", "netwhois", "rdns", "ipthreat"} => row.ips # Null
  /\ s = "peeringdb" => row.asn # Null

(* One stage on the row, skipped if no file of its own exists.             *)
JoinStage(s, files, d, row) ==
  LET brno[n \in 0..Len(files)] ==
        IF n = 0 THEN row
        ELSE Coalesce(brno[n - 1], Offer("brno", <<files[n]>>, d, row))
  IN CASE files = <<>> \/ ~HasKey(s, row) -> row
       [] s = "brno" -> brno[Len(files)]
       [] OTHER -> Coalesce(row, Offer(s, files, d, row))

(* What lookup_domain returns.                                             *)
LookupDomain(d, files) ==
  LET row[n \in 0..Len(LookupOrder)] ==
        IF n = 0 THEN NoRow
        ELSE JoinStage(LookupOrder[n], files[LookupOrder[n]], d, row[n - 1])
  IN row[Len(LookupOrder)]
-----------------------------------------------------------------------------
(* Properties.                                                             *)

(* The files of a stage over the whole script: those given last.           *)
FilesOf(s) ==
  LET gives == {i \in DOMAIN script : script[i].files[s] # <<>>}
  IN IF gives = {} THEN <<>>
     ELSE Existing(script[CHOOSE i \in gives : \A j \in gives : j <= i].files[s])

(* What the stages offer a row, from the files alone, in the pipeline's    *)
(* order: brno file by file, the ones with a key if the row has it.        *)
OffersTo(d, row) ==
  LET brno == FilesOf("brno")
      later == Tail(StageOrder)
  IN [i \in DOMAIN brno |-> Offer("brno", <<brno[i]>>, d, row)]
     \o [i \in DOMAIN later |->
          IF FilesOf(later[i]) # <<>> /\ HasKey(later[i], row)
          THEN Offer(later[i], FilesOf(later[i]), d, row)
          ELSE NoOffer]

FirstOffered(offers, c) ==
  LET has == {i \in DOMAIN offers : c \in DOMAIN offers[i]}
  IN IF has = {} THEN Null
     ELSE offers[CHOOSE i \in has : \A j \in has : i <= j][c]

(* The row the files determine: each column has the first value a stage    *)
(* offers this very row.  There is one such row, as addresses are offered  *)
(* without a key, AS numbers by address, and the rest by these.            *)
DeterminedByFiles(d, row) ==
  \A c \in Columns : row[c] = FirstOffered(OffersTo(d, row), c)

(* A script that gives the same input and files throughout, and stages     *)
(* their files no earlier than those they build on; a command is given up  *)
(* only for one with the same files.                                       *)
OneInput == script[1].input # {} /\ \A i \in DOMAIN script : script[i].input \in {{}, script[1].input}

Gives(i, s) == script[i].files[s] # <<>>

SameFilesGiven ==
  \A s \in Stages : \A i, j \in DOMAIN script :
    Gives(i, s) /\ Gives(j, s) =>
      /\ script[i].files[s] = script[j].files[s]
      /\ \A n \in DOMAIN script[i].files[s] : script[i].files[s][n] \in DOMAIN Content

GivenInOrder ==
  \A p, q \in DOMAIN StageOrder : \A i, j \in DOMAIN script :
    p < q /\ Gives(i, StageOrder[p]) /\ Gives(j, StageOrder[q]) =>
      \E k \in 1..j : Gives(k, StageOrder[p])

GivenUpForTheSame ==
  \A i \in DOMAIN script : ~script[i].retry =>
    /\ i < Len(script)
    /\ script[i + 1].retry
    /\ script[i + 1].files = script[i].files
    /\ script[i + 1].input = script[i].input

SameThroughout == OneInput /\ SameFilesGiven /\ GivenInOrder /\ GivenUpForTheSame

(* "Kill the process anytime" (README): wherever commands were killed, and *)
(* whether the stages were run together, one by one or forced to run       *)
(* again on the same files, the table a user ends with has the whole list  *)
(* and is the one that the files determine.                                *)
SameAsUninterrupted ==
  Over /\ SameThroughout =>
    /\ known = script[1].input
    /\ \A d \in known : DeterminedByFiles(d, rows[d])

(* ... and the lookup of one domain on these files, which runs the joins   *)
(* itself on an empty store, shows the row of that table.                  *)
LookupAgrees ==
  Over /\ SameThroughout =>
    LET files == [s \in Stages |-> FilesOf(s)]
    IN \A d \in known : LookupDomain(d, files) = rows[d]

ForcedStage == phase = "stages" /\ stage <= Len(StageOrder) /\ Forced

(* A value once committed is never replaced nor removed, whatever stages   *)
(* are killed, run on other rows or fed from other files; only a rank may  *)
(* improve ("a later, poorer source never clobbers a value", store.py).    *)
(* Of a stage under --force the documents say that it starts from scratch, *)
(* and nothing is claimed.                                                 *)
FirstValueStays ==
  [][~ForcedStage =>
       \A d \in Domains, c \in Columns :
         disk.rows[d][c] # Null =>
           \/ disk'.rows[d][c] = disk.rows[d][c]
           \/ c = "rank" /\ disk'.rows[d][c] < disk.rows[d][c]]_vars

(* What was derived from a row's addresses was derived from the addresses  *)
(* the row shows: they do not change behind geolocation's back.            *)
GeoOfShownIps ==
  \A d \in known : disk.rows[d].geo # Null =>
    /\ disk.rows[d].ips # Null
    /\ \E f \in DOMAIN Content :
         LET offer == FirstHit(f, disk.rows[d].ips)
         IN "geo" \in DOMAIN offer /\ offer.geo = disk.rows[d].geo
=============================================================================
