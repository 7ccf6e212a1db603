SPECIFICATION Spec
CONSTANTS
  i1 = i1
  i2 = i2
  s1 = s1
  s1slash = s1slash
  s2 = s2
  sblank = sblank
  Callers = {c1, c2}
  Spellings = {s1, s1slash, s2, sblank}
  NormalIssuer <- Normalised
  Issuers = {i1, i2}
  NoIssuer = NoIssuer
  JWKSURIs = {u1}
  NoURI = NoURI
  NoDocument = NoDocument
  Instants <- InstantsEnds
  ConfiguredTTL = 15
  DefaultTTL = 300
SYMMETRY MetaSymmetry
VIEW MetaView
INVARIANTS
  TypeOK
  AnswersAreRecent
PROPERTIES
  ImplementsIssuerDirectory
