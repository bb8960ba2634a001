------------------------------ MODULE RirWhois ------------------------------
(***************************************************************************)
(* Network whois from RIR dumps (sources/rir.py): the ranges of RirIndex,  *)
(* each with the references its object makes - to an organisation and to   *)
(* abuse contacts - and the two maps these are resolved in when an address *)
(* is looked up.  The objects of the dumps stand in any order: a reference *)
(* may come long before, or in another file than, what it refers to, and   *)
(* what it refers to may be there twice or never.                          *)
(*                                                                         *)
(* Roles, persons and IRT objects are contacts alike.  Netname and country *)
(* go with the range and are left out.                                     *)
(***************************************************************************)
EXTENDS RirIndex

CONSTANTS
  Orgs,         \* handles of organisations
  Contacts,     \* nic-hdl and irt handles
  Names,        \* names of organisations, first lines of a descr
  Mailboxes,
  Nothing,      \* an attribute an object does not have
  Refs,         \* the references network objects make
  MaxObjects    \* bound: objects in the dumps, of all kinds

(* An organisation nothing is known of.                                    *)
NoOrg == [name |-> Nothing, abuse |-> Nothing]

OrgData == [name : Names \cup {Nothing}, abuse : Contacts \cup {Nothing}]

ASSUME RirWhoisAssumption ==
  /\ Nothing \notin Orgs \cup Contacts
  /\ Refs \subseteq [org : Orgs \cup {Nothing}, descr : Names \cup {Nothing},
                     handles : Seq(Contacts)]
  /\ MaxObjects \in Nat

VARIABLES
  refs,      \* the rest of self.nets: per position, its references
  orgs,      \* self.orgs
  contacts,  \* self.contacts
  read       \* the organisations and contacts read so far, in order

whoisVars == <<refs, orgs, contacts, read>>
allVars   == <<vars, whoisVars>>

Objects ==
  [kind : {"organisation"}, handle : Orgs, data : OrgData] \cup
  [kind : {"contact"}, handle : Contacts, data : Mailboxes \cup {Nothing}]

WhoisTypeOK ==
  /\ TypeOK
  /\ refs \in Seq(Refs) /\ Len(refs) = Len(nets)
  /\ orgs \in [Orgs \cup {Nothing} -> OrgData] /\ orgs[Nothing] = NoOrg
  /\ contacts \in [Contacts \cup {Nothing} -> Mailboxes \cup {Nothing}]
  /\ contacts[Nothing] = Nothing
  /\ read \in Seq(Objects)

WhoisInit ==
  /\ Init
  /\ refs = <<>>
  /\ orgs = [h \in Orgs \cup {Nothing} |-> NoOrg]
  /\ contacts = [h \in Contacts \cup {Nothing} |-> Nothing]
  /\ read = <<>>

MoreToRead == Len(nets) + Len(read) < MaxObjects

(* A network object.                                                       *)
AddNet(v, start, end, ref) ==
  /\ MoreToRead
  /\ Add(v, start, end)
  /\ refs' = Append(refs, ref)
  /\ UNCHANGED <<orgs, contacts, read>>

(* An organisation, in place of one of that handle read before.            *)
AddOrganisation(h, data) ==
  /\ MoreToRead
  /\ orgs' = [orgs EXCEPT ![h] = data]
  /\ read' = Append(read, [kind |-> "organisation", handle |-> h, data |-> data])
  /\ UNCHANGED <<vars, refs, contacts>>

(* A contact without a mailbox in place of one that has one (used to test  *)
(* the properties).                                                        *)
AddAnyContact(h, mailbox) ==
  /\ MoreToRead
  /\ contacts' = [contacts EXCEPT ![h] = mailbox]
  /\ read' = Append(read, [kind |-> "contact", handle |-> h, data |-> mailbox])
  /\ UNCHANGED <<vars, refs, orgs>>

(* A contact, if it has a mailbox.                                         *)
AddContact(h, mailbox) ==
  /\ MoreToRead
  /\ contacts' = IF mailbox = Nothing THEN contacts ELSE [contacts EXCEPT ![h] = mailbox]
  /\ read' = Append(read, [kind |-> "contact", handle |-> h, data |-> mailbox])
  /\ UNCHANGED <<vars, refs, orgs>>

WhoisNext ==
  \/ \E v \in Versions : \E start, end \in Addresses(v), ref \in Refs :
       AddNet(v, start, end, ref)
  \/ \E h \in Orgs, data \in OrgData : AddOrganisation(h, data)
  \/ \E h \in Contacts, mailbox \in Mailboxes \cup {Nothing} : AddContact(h, mailbox)

WhoisSpec == WhoisInit /\ [][WhoisNext]_allVars
-----------------------------------------------------------------------------
NoData == [net |-> 0, org |-> Nothing, email |-> Nothing]

(* The organisation's name, or else the object's own description.          *)
OrgName(i) ==
  IF orgs[refs[i].org].name # Nothing THEN orgs[refs[i].org].name ELSE refs[i].descr

(* The handles asked for an abuse mailbox: the organisation's first.       *)
Asked(i) == <<orgs[refs[i].org].abuse>> \o refs[i].handles

Email(i) ==
  LET having == {p \in DOMAIN Asked(i) : contacts[Asked(i)[p]] # Nothing}
      first  == CHOOSE p \in having : \A q \in having : p <= q
  IN IF having = {} THEN Nothing ELSE contacts[Asked(i)[first]]

(* What lookup returns for an address: the network, by its position, and   *)
(* what its references resolve to.                                         *)
Whois(v, a) ==
  LET i == Lookup(v, a)
  IN IF i = 0 THEN NoData ELSE [net |-> i, org |-> OrgName(i), email |-> Email(i)]
-----------------------------------------------------------------------------
(* The last word of the dumps on a handle.                                 *)
Last(S) == CHOOSE i \in S : \A j \in S : j <= i

OrgSaid(h) ==
  LET said == {i \in DOMAIN read : read[i].kind = "organisation" /\ read[i].handle = h}
  IN IF said = {} THEN NoOrg ELSE read[Last(said)].data

MailSaid(h) ==
  LET said == {i \in DOMAIN read : /\ read[i].kind = "contact" /\ read[i].handle = h
                                   /\ read[i].data # Nothing}
  IN IF said = {} THEN Nothing ELSE read[Last(said)].data

(* The mailbox of the first of the handles that has one in the dumps.      *)
FirstMail(handles, email) ==
  \/ /\ email = Nothing
     /\ \A p \in DOMAIN handles : MailSaid(handles[p]) = Nothing
  \/ \E p \in DOMAIN handles :
       /\ email = MailSaid(handles[p]) /\ email # Nothing
       /\ \A q \in 1..(p - 1) : MailSaid(handles[q]) = Nothing

(* "for any IP, the most specific network it falls in", with "the org name *)
(* and abuse mailbox" (rir.py): the answer is that of one network, the     *)
(* smallest around the address, and its references lead to what the dumps  *)
(* say last of them, in whatever order and files objects were read.        *)
WhoisFromDumps ==
  \A v \in Versions : \A a \in Addresses(v) :
    LET holding == {i \in DOMAIN nets : Holds(nets[i], v, a)}
        answer  == Whois(v, a)
    IN IF holding = {} THEN answer = NoData
       ELSE LET ref == refs[answer.net]
                org == OrgSaid(ref.org)
            IN /\ answer.net \in holding
               /\ \A j \in holding : Size(nets[answer.net]) <= Size(nets[j])
               /\ answer.org = IF org.name # Nothing THEN org.name ELSE ref.descr
               /\ FirstMail(<<org.abuse>> \o ref.handles, answer.email)
=============================================================================
