SPECIFICATION Spec
CONSTANTS
  k1 = k1
  k2 = k2
  kid1 = kid1
  kid2 = kid2
  Calls = {c1, c2}
  Keys = {k1, k2}
  Kids = {kid1, kid2}
  NoKid = NoKid
  KidOf <- DistinctKids
  TokenKids = {kid2}
  URIs = {u1}
  NoURI = NoURI
  ConfiguredTTL = 1
  DefaultTTL = 300
  Instants <- InstantsOnce
SYMMETRY CallSymmetry
VIEW KidView
INVARIANTS
  KidMissMeansUnpublished
