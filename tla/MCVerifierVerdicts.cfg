SPECIFICATION MCFairSpec
CONSTANTS
  k1 = k1
  k2 = k2
  kid1 = kid1
  MaxChanges = 1
  Moves = FALSE
  Calls = {c1, c2}
  Keys = {k1}
  Kids = {kid1}
  NoKid = NoKid
  KidOf <- SingleKid
  TokenKids = {kid1}
  Tokens <- WithKid
  URIs = {u1}
  NoURI = NoURI
  Issuer = Issuer
  NoIssuer = NoIssuer
  NoDocument = NoDocument
  ConfiguredTTL = 1
  DefaultTTL = 300
  Instants <- InstantsShort
PROPERTIES
  VerdictsComeNearer
  VerdictsCome
