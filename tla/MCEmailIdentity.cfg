SPECIFICATION MCSpec
CONSTANTS
  alice = alice
  bob = bob
  a = a
  b = b
  av = av
  bv = bv
  d = d
  Emails = {alice, bob}
  NoEmail = NoEmail
  Domains = {d}
  NoDomain = NoDomain
  DomainOf <- OneMalformed
  EmailNames = {a, b}
  NoName = NoName
  VerifiedNames = {av, bv}
  VerifiedNameOf <- Appended
INVARIANTS
  TypeOK
  IdentityIgnoresOrder
  AcceptedEmailIsVouchedFor
  HintAgreesWithIdentity
\* The host is done with the token.
CHECK_DEADLOCK FALSE
