\* The same files or others, two kills anywhere, stages forced or run one by one.
SPECIFICATION Spec
CONSTANTS
  d1 = d1
  d2 = d2
  d3 = d3
  ip1 = ip1
  ip2 = ip2
  ip3 = ip3
  ip6 = ip6
  NULL = NULL
  Domains <- ThreeDomains
  Content <- Files
  Scripts <- AnyFiles
  Null <- NULL
  MaxCrashes = 2
INVARIANTS
  TypeOK
  SameAsUninterrupted
  LookupAgrees
  GeoOfShownIps
PROPERTIES
  FirstValueStays
