SPECIFICATION Spec
CONSTANTS
  Secrets = {s1, s2}
  NoSecret = NoSecret
  Purposes = {PendingAuth, AuthCode}
  NoPurpose = NoPurpose
  Lifetimes <- SomeLifetimes
  Seconds <- FourSeconds
  Fractions <- Halves
SYMMETRY BrokerSymmetry
INVARIANTS
  TypeOK
  PurposesKeptApart
  HonouredForItsLifetime
