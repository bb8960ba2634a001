\* Two domains sharing two addresses in either order, one render slot.
SPECIFICATION FairSpec
CONSTANTS
  d1 = d1
  d2 = d2
  ip1 = ip1
  ip2 = ip2
  v1 = v1
  v2 = v2
  empty = empty
  raised = raised
  none = none
  Domains <- TwoDomains
  IPs <- TwoIPs
  Addresses <- BothOrders
  Found <- TwoFound
  Empty <- empty
  Raised <- raised
  Nothing <- none
  RenderSlots = 1
INVARIANTS
  TypeOK
  FirstAnswerTaken
  SlotsConserved
PROPERTIES
  ChainEnds
