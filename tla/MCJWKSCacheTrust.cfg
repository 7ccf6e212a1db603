SPECIFICATION Spec
CONSTANTS
  k1 = k1
  k2 = k2
  kid1 = kid1
  kid2 = kid2
  Calls = {c1, c2}
  Keys = {k1, k2}
  Kids = {kid1, kid2}
  NoKid = NoKid
  KidOf <- DistinctKids
  TokenKids = {NoKid, kid2}
  URIs = {u1}
  NoURI = NoURI
  ConfiguredTTL = 0
  DefaultTTL = 15
  Instants <- InstantsEdge
SYMMETRY CallSymmetry
VIEW HistoryView
INVARIANTS
  KeysWithinTrustWindow
  KidMissExplained
PROPERTIES
  ImplementsDirectory
