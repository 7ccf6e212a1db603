SPECIFICATION Spec
CHECK_DEADLOCK FALSE
CONSTANTS
  Empty = Empty
  NotAString = NotAString
  blank = blank
  iss = iss
  issSlash = issSlash
  MaxInt = 31
  ClockSkew = 3
  Strings <- Names
  Blank = {Empty, blank}
  Bare <- Trimmed
  Inputs <- FloatInputs
INVARIANTS
  UpstreamNotExpired
