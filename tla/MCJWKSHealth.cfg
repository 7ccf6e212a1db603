SPECIFICATION WatchedSpec
CONSTANTS
  k1 = k1
  k2 = k2
  kid1 = kid1
  kid2 = kid2
  Calls = {c1, c2}
  Keys = {k2}
  Kids = {kid1, kid2}
  NoKid = NoKid
  KidOf <- SingleKid
  TokenKids = {kid2}
  URIs = {u1}
  NoURI = NoURI
  ConfiguredTTL = 1
  DefaultTTL = 300
  Instants <- InstantsShort
INVARIANTS
  TypeOK
  SnapshotExplained
  ZeroHealthMeansNoFetch
PROPERTIES
  SuccessNeverGoesBack
  WorkRunsOut
  CallsReturn
