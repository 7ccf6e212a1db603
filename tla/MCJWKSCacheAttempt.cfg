SPECIFICATION Spec
CONSTANTS
  k1 = k1
  k2 = k2
  kid1 = kid1
  kid2 = kid2
  Calls = {c1, c2}
  Keys = {k2}
  Kids = {kid1, kid2}
  NoKid = NoKid
  KidOf <- SingleKid
  TokenKids = {kid2}
  URIs = {u1}
  NoURI = NoURI
  ConfiguredTTL = 15
  DefaultTTL = 300
  Instants <- InstantsEdge
SYMMETRY CallSymmetry
VIEW HealthView
PROPERTIES
  AttemptNeverGoesBack
