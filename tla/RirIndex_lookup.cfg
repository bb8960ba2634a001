\* Dumps of four objects - networks of any range, organisations and contacts -
\* over two small address spaces.
CONSTANTS
  v4 = v4
  v6 = v6
  o1 = o1
  c1 = c1
  c2 = c2
  name = name
  descr = descr
  m1 = m1
  m2 = m2
  Nothing = none
  Versions <- TwoVersions
  Space <- Spaces
  Width <- Widths
  MaxBuckets = 2
  MaxNets = 3
  Orgs <- OneOrg
  Contacts <- TwoContacts
  Names <- TwoNames
  Mailboxes <- TwoMails
  Refs <- OneRef
  MaxObjects = 4
SPECIFICATION WhoisSpec
INVARIANTS
  WhoisTypeOK
  MostSpecific
  WhoisFromDumps
CHECK_DEADLOCK FALSE
