SPECIFICATION MCSpec
CONSTANTS
  k1 = k1
  k2 = k2
  kid1 = kid1
  MaxChanges = 1
  Moves = TRUE
  Calls = {c1, c2}
  Keys = {k1, k2}
  Kids = {kid1}
  NoKid = NoKid
  KidOf <- SharedKid
  TokenKids = {NoKid, kid1}
  Tokens <- WithAndWithoutKid
  URIs = {u1, u2}
  NoURI = NoURI
  Issuer = Issuer
  NoIssuer = NoIssuer
  NoDocument = NoDocument
  ConfiguredTTL = 1
  DefaultTTL = 300
  Instants <- InstantsShort
SYMMETRY VerifierSymmetry
VIEW VerifierView
INVARIANTS
  VerifierTypeOK
  KeysWithinTrustWindow
PROPERTIES
  SettledTokensVerify
  AcceptedKeysWereServed
  ImplementsVerification
