----------------------------- MODULE TokenClaims -----------------------------
(***************************************************************************)
(* The three ways the SDK judges a bearer token: ValidateToken and         *)
(* ValidateUpstreamIdentityToken (oauth/validator.go, oauth/jwt.go,        *)
(* oauth/claims.go) and ValidateStrictJWT (oauth/strict_jwt.go).           *)
(*                                                                         *)
(* A behaviour takes one bearer, one configuration, one strict policy and  *)
(* one instant, and lets each path judge it.  What parseAndFetchKeys and   *)
(* the signature make of the bearer is an input (JWKSCache models it).     *)
(*                                                                         *)
(* Times are counted in half seconds, so that a fraction of a second can   *)
(* be lost by a conversion; the code's int64 seconds range over            *)
(* MinInt .. MaxInt and wrap.                                              *)
(***************************************************************************)
EXTENDS Integers

CONSTANTS
  MaxInt,       \* math.MaxInt64, scaled down for TLC
  ClockSkew,    \* clockSkewSecs
  Strings,      \* issuers, audiences
  Empty,        \* the empty string
  Blank,        \* the strings that are blank (strings.TrimSpace leaves "")
  Bare,         \* each string without surrounding blanks and trailing slashes
  NotAString,   \* an iss claim that is absent or not a string
  Inputs        \* what is judged: records [bearer, config, policy, instant]

MinInt == - MaxInt - 1

ASSUME StringAssumption ==
  /\ NotAString \notin Strings
  /\ Empty \in Blank
  /\ Blank \subseteq Strings
  /\ Bare \in [Strings -> Strings]
  /\ \A s \in Blank : Bare[s] = Empty

\* The clock and the tolerances are "sane, non-extreme magnitudes".
ASSUME MagnitudeAssumption ==
  /\ MaxInt \in Nat \ {0}
  /\ ClockSkew \in Nat
  /\ \A x \in Inputs :
       /\ x.instant \in Nat /\ x.policy.leeway \in Int
       /\ x.instant \div 2 + ClockSkew <= MaxInt
       /\ x.instant \div 2 + x.policy.leeway \div 2 <= MaxInt

\* A claim that should be a NumericDate, as the JSON decoder left it: absent,
\* of another type, a float64 or a json.Number, with the value it stands for.
Representations == {"absent", "other", "float", "number"}

\* What parseAndFetchKeys and the signature check make of a bearer.
KeyOutcomes == {"signed", "unsigned", "transient", "permanent", "kidNotFound", "headerParse"}

AudShapes == {"absent", "string", "strings", "mixed", "other"}

\* A bearer has a shape, an outcome of its keys and claims; a policy is a
\* StrictJWTPolicy; a configuration holds the fields of OAuthConfig read here.
ASSUME InputAssumption ==
  \A x \in Inputs :
    /\ x.bearer.kind \in {"missing", "opaque", "jwt"}
    /\ x.bearer.keys \in KeyOutcomes
    /\ x.bearer.raw.iss \in Strings \cup {NotAString}
    /\ x.bearer.raw.aud.shape \in AudShapes /\ x.bearer.raw.aud.values \subseteq Strings
    /\ \A n \in {x.bearer.raw.exp, x.bearer.raw.nbf, x.bearer.raw.iat} :
         n.rep \in Representations /\ n.half \in Int
    /\ x.policy.issuer \in Strings /\ x.policy.audiences \subseteq Strings
    /\ x.config.issuer \in Strings /\ x.config.audience \in Strings
    \* What is not a JWT does not parse, unless the keys fail before that, and
    \* without a JWKS URL there is no key but through an issuer.
    /\ x.bearer.kind # "jwt" => x.bearer.keys \in {"headerParse", "transient", "permanent"}
    /\ ~ x.config.jwksURL /\ Bare[x.config.issuer] = Empty => x.bearer.keys = "permanent"

VARIABLES
  input,     \* the bearer, OAuthConfig, StrictJWTPolicy, and time.Now() in half seconds
  strict,    \* what ValidateStrictJWT returned
  legacy,    \* what ValidateToken returned
  upstream   \* what ValidateUpstreamIdentityToken returned

vars == <<input, strict, legacy, upstream>>

\* nil and error, claims, or an error by its class: a sentinel of errors.go,
\* or none of them ("unverified", "permanent", "parse").
Verdicts == {"pending", "softPass", "ok", "missing", "invalid", "expired", "scopes",
             "unverified", "transient", "permanent", "parse"}

-----------------------------------------------------------------------------
\* Numbers.

\* int64 addition and subtraction of two int64 values.
Wrap(x) == IF x > MaxInt THEN x - 2 * (MaxInt + 1)
           ELSE IF x < MinInt THEN x + 2 * (MaxInt + 1) ELSE x

\* Conversion to whole seconds truncates towards zero.
Whole(h) == IF h >= 0 THEN h \div 2 ELSE - ((- h) \div 2)

InRange(h) == 2 * MinInt <= h /\ h < 2 * (MaxInt + 1)

\* strictNumericClaim: the claim is present and neither out of range nor a
\* json.Number that is not an integer.
WellFormed(n) ==
  \/ n.rep = "float" /\ InRange(n.half)
  \/ n.rep = "number" /\ InRange(n.half) /\ n.half % 2 = 0

\* claimsFromRawClaims: the int64 a claim is projected to, 0 when it has no
\* numeric value.  The conversion of an out-of-range float64 depends on the
\* architecture: it saturates on some and gives MinInt on others.
Projected(n) ==
  IF WellFormed(n) THEN {Whole(n.half)}
  ELSE IF n.rep # "float" THEN {0}
  ELSE IF n.half > 0 THEN {MinInt, MaxInt} ELSE {MinInt}

Now(t) == t \div 2

HasRequiredScopes(have, required) == required \subseteq have

-----------------------------------------------------------------------------
\* ValidateStrictJWT.

\* hasNonEmptyExpectedAudience, and the sign of Leeway.
StrictPolicyValid(p) ==
  /\ \E a \in p.audiences : a \notin Blank
  /\ p.leeway >= 0

\* Byte-exact: no trimming.
StrictIssuerMatches(raw, p) == p.issuer # Empty => raw.iss = p.issuer

\* Mutant: blank entries of the policy take part in the intersection.
StrictAudienceMatchesBlank(raw, p) ==
  /\ raw.aud.shape \in {"string", "strings"}
  /\ \E a \in raw.aud.values : a \in p.audiences

\* strictAudienceClaim and strictAudienceIntersects.
StrictAudienceMatches(raw, p) ==
  /\ raw.aud.shape \in {"string", "strings"}
  /\ \E a \in raw.aud.values : a \in p.audiences \ Blank

\* Mutant: the tolerance is added to the claim.
StrictExpiredBySum(n, leeway, now) == now > Wrap(Whole(n.half) + leeway)

StrictExpired(n, leeway, now) == Wrap(now - leeway) > Whole(n.half)

\* nbf and iat: rejected when malformed or after now, tolerance included.
StrictStarted(n, leeway, now) ==
  n.rep # "absent" => WellFormed(n) /\ Whole(n.half) <= Wrap(now + leeway)

\* validateStrictRawClaims, then the required scopes.
StrictClaims(raw, p, now) ==
  LET leeway == Whole(p.leeway)
  IN  IF \/ ~ StrictIssuerMatches(raw, p)
         \/ ~ StrictAudienceMatches(raw, p)
         \/ ~ WellFormed(raw.exp)                              THEN "invalid"
      ELSE IF StrictExpired(raw.exp, leeway, now)              THEN "expired"
      ELSE IF \E n \in {raw.nbf, raw.iat} : ~ StrictStarted(n, leeway, now) THEN "invalid"
      ELSE IF ~ HasRequiredScopes(raw.scopes, p.scopes)        THEN "scopes"
      ELSE "ok"

\* Mutant: the wrapper of a header parse error is not taken off.
StrictKeyErrorRaw ==
  [transient |-> "transient", kidNotFound |-> "transient", permanent |-> "permanent",
   headerParse |-> "parse", unsigned |-> "unverified"]

\* Mutant: a kid that is still missing rejects the token for good.
StrictKeyErrorPermanent ==
  [transient |-> "transient", kidNotFound |-> "invalid", permanent |-> "permanent",
   headerParse |-> "invalid", unsigned |-> "unverified"]

\* The errors of parseAndFetchKeys and of the signature check: a header that
\* does not parse and a missing kid are reclassified.
StrictKeyError ==
  [transient |-> "transient", kidNotFound |-> "transient", permanent |-> "permanent",
   headerParse |-> "invalid", unsigned |-> "unverified"]

StrictVerdict(b, p, now) ==
  IF b.kind # "jwt" \/ ~ StrictPolicyValid(p) THEN "invalid"
  ELSE IF b.keys # "signed"                   THEN StrictKeyError[b.keys]
  ELSE StrictClaims(b.raw, p, now)

-----------------------------------------------------------------------------
\* ValidateToken and ValidateUpstreamIdentityToken.

\* The projected aud: the strings among what is there.
LegacyAudience(raw) ==
  IF raw.aud.shape \in {"string", "strings", "mixed"} THEN raw.aud.values ELSE {}

\* claims.Issuer is "" when iss is not a string.
LegacyIssuer(raw) == IF raw.iss \in Strings THEN raw.iss ELSE Empty

\* Mutant: the configured issuer is compared as it was written.
LegacyIssuerMatchesRaw(raw, g) == Bare[g.issuer] # Empty => Bare[LegacyIssuer(raw)] = g.issuer

LegacyIssuerMatches(raw, g) ==
  Bare[g.issuer] # Empty => Bare[LegacyIssuer(raw)] = Bare[g.issuer]

\* audienceMatchesResource: equal up to blanks and trailing slashes.
LegacyAudienceMatches(raw, expected) ==
  expected # Empty => \E a \in LegacyAudience(raw) : Bare[a] = Bare[expected]

LegacyKeyError ==
  [transient |-> "transient", kidNotFound |-> "transient", permanent |-> "permanent",
   headerParse |-> "parse", unsigned |-> "unverified"]

\* parseAndVerifyExternalJWT.  Every key that verifies the signature yields the
\* same claims.
ExternalVerdict(b, g, audience) ==
  IF b.keys # "signed"                         THEN LegacyKeyError[b.keys]
  ELSE IF \/ ~ LegacyIssuerMatches(b.raw, g)
          \/ ~ LegacyAudienceMatches(b.raw, audience) THEN "invalid"
  ELSE "ok"

\* Mutant: the sides of the nbf comparison are swapped.
LegacyTimesSwapped(e, b, i, now) ==
  IF e > 0 /\ now > Wrap(e + ClockSkew) THEN "expired"
  ELSE IF \/ b > 0 /\ Wrap(b + ClockSkew) < now
          \/ i > 0 /\ i > Wrap(now + ClockSkew) THEN "invalid"
  ELSE "ok"

\* validateClaims: zero and negative times are taken for absent.
LegacyTimes(e, b, i, now) ==
  IF e > 0 /\ now > Wrap(e + ClockSkew) THEN "expired"
  ELSE IF \/ b > 0 /\ Wrap(now + ClockSkew) < b
          \/ i > 0 /\ i > Wrap(now + ClockSkew) THEN "invalid"
  ELSE "ok"

\* The keys can be located: JWKSURL or Issuer is not blank.
Configured(g) == g.jwksURL \/ g.issuer \notin Blank

\* What ValidateToken returns before it looks for keys; "ok": it goes on.
LegacyEntry(b, g) ==
  IF ~ g.enabled              THEN "softPass"
  ELSE IF b.kind = "missing"  THEN "missing"
  ELSE IF b.kind = "opaque"   THEN IF g.strictOnly THEN "invalid" ELSE "softPass"
  ELSE IF ~ Configured(g)     THEN "softPass"
  ELSE "ok"

\* The three times are those of a projection of the claims.  validateClaims
\* asks of the audience what parseAndVerifyExternalJWT has asked already.
LegacyVerdict(b, g, e, nb, i, now) ==
  IF LegacyEntry(b, g) # "ok"                      THEN LegacyEntry(b, g)
  ELSE IF ExternalVerdict(b, g, g.audience) # "ok" THEN ExternalVerdict(b, g, g.audience)
  ELSE IF LegacyTimes(e, nb, i, now) # "ok"        THEN LegacyTimes(e, nb, i, now)
  ELSE IF ~ HasRequiredScopes(b.raw.scopes, g.scopes) THEN "scopes"
  ELSE "ok"

-----------------------------------------------------------------------------
Init ==
  /\ input \in Inputs
  /\ strict = "pending"
  /\ legacy = "pending"
  /\ upstream = "pending"

ValidateStrictJWT ==
  /\ strict = "pending"
  /\ strict' = StrictVerdict(input.bearer, input.policy, Now(input.instant))
  /\ UNCHANGED <<input, legacy, upstream>>

ValidateToken ==
  /\ legacy = "pending"
  /\ \E e \in Projected(input.bearer.raw.exp), b \in Projected(input.bearer.raw.nbf),
        i \in Projected(input.bearer.raw.iat) :
       legacy' = LegacyVerdict(input.bearer, input.config, e, b, i, Now(input.instant))
  /\ UNCHANGED <<input, strict, upstream>>

ValidateUpstreamIdentityToken(audience) ==
  /\ upstream = "pending"
  /\ upstream' = ExternalVerdict(input.bearer, input.config, audience)
  /\ UNCHANGED <<input, strict, legacy>>

Next ==
  \/ ValidateStrictJWT
  \/ ValidateToken
  \/ \E a \in Strings : ValidateUpstreamIdentityToken(a)

Spec == Init /\ [][Next]_vars

-----------------------------------------------------------------------------
\* Properties.  They speak of the exact values: half seconds, unbounded
\* integers, no truncation.

\* Every variable has its type.
TypeOK ==
  /\ input \in Inputs
  /\ strict \in Verdicts \ {"softPass", "missing", "parse"}
  /\ legacy \in Verdicts
  /\ upstream \in Verdicts \ {"softPass", "missing", "expired", "scopes"}

\* A second, in half seconds.
Second == 2

\* The instant lies within the claim's bound, give or take a tolerance.
NotAfter(n, slack)  == n.rep \in {"float", "number"} /\ input.instant <= n.half + slack
NotBefore(n, slack) == n.rep \in {"float", "number"} /\ n.half <= input.instant + slack

\* "It never returns (nil, nil)" and "never soft-passes and never normalises":
\* what ValidateStrictJWT accepts is signed, names the issuer and one
\* non-blank audience byte for byte, and is in force at this instant up to
\* the leeway and one second of rounding, whatever the representation and the
\* magnitude of the claims.
StrictSound ==
  strict = "ok" =>
    LET raw == input.bearer.raw
    IN  /\ input.bearer.kind = "jwt" /\ input.bearer.keys = "signed"
        /\ input.policy.leeway >= 0
        /\ input.policy.issuer # Empty => raw.iss = input.policy.issuer
        /\ raw.aud.shape \in {"string", "strings"}
        /\ \E a \in raw.aud.values : a \in input.policy.audiences /\ a \notin Blank
        /\ NotAfter(raw.exp, input.policy.leeway + Second)
        /\ \A n \in {raw.nbf, raw.iat} :
             n.rep # "absent" => NotBefore(n, input.policy.leeway + Second)
        /\ input.policy.scopes \subseteq raw.scopes

\* Conversely ValidateStrictJWT rejects no token that is signed, addressed as
\* the policy says and in force at this instant: no boundary, no truncation
\* and no wrap-around of the tolerance rejects it.
StrictComplete ==
  LET raw == input.bearer.raw
  IN  /\ input.bearer.kind = "jwt" /\ input.bearer.keys = "signed"
      /\ input.policy.leeway >= 0
      /\ input.policy.issuer # Empty => raw.iss = input.policy.issuer
      /\ raw.aud.shape \in {"string", "strings"}
      /\ \E a \in raw.aud.values : a \in input.policy.audiences /\ a \notin Blank
      /\ WellFormed(raw.exp) /\ input.instant <= raw.exp.half
      /\ \A n \in {raw.nbf, raw.iat} : n.rep # "absent" => WellFormed(n) /\ n.half <= input.instant
      /\ input.policy.scopes \subseteq raw.scopes
      => strict \in {"pending", "ok"}

\* The policy asks for what the configuration asks for, and tolerates no more.
Corresponds ==
  /\ input.config.enabled /\ Configured(input.config)
  /\ input.policy.issuer = input.config.issuer
  /\ input.policy.audiences = {input.config.audience}
  /\ input.policy.scopes = input.config.scopes
  /\ Whole(input.policy.leeway) <= ClockSkew

\* The strict path is the stricter one: what it accepts, ValidateToken accepts
\* under the corresponding configuration, up to the one overflow of the legacy
\* path, an exp so large that adding the tolerance wraps.
StrictImpliesLegacy ==
  /\ strict = "ok"
  /\ Corresponds
  /\ Whole(input.bearer.raw.exp.half) + ClockSkew <= MaxInt
  => legacy \in {"pending", "ok"}

\* The three paths tell the same failures apart as transient, so that a
\* caller's negative cache treats a token alike whichever path judged it.
TransientAlike ==
  /\ input.bearer.kind = "jwt" /\ input.config.enabled /\ Configured(input.config)
  /\ StrictPolicyValid(input.policy)
  /\ "pending" \notin {strict, legacy, upstream}
  => \/ strict = "transient" /\ legacy = "transient" /\ upstream = "transient"
     \/ "transient" \notin {strict, legacy, upstream}

\* What ValidateToken accepts is not past its exp nor before its nbf or iat by
\* more than the tolerance and one second of rounding, provided the claim has
\* a positive value that an int64 can hold.
LegacySound ==
  legacy = "ok" =>
    LET raw == input.bearer.raw
    IN  /\ WellFormed(raw.exp) /\ raw.exp.half >= Second =>
             NotAfter(raw.exp, 2 * ClockSkew + Second)
        /\ \A n \in {raw.nbf, raw.iat} : WellFormed(n) =>
             NotBefore(n, 2 * ClockSkew + Second)

\* "ErrTokenExpired is returned when an OAuth token has expired (with
\* clock-skew tolerance)" (oauth/errors.go): whatever has a numeric exp that
\* lies ahead is not reported expired.
LegacyExpiredMeansPast ==
  legacy = "expired" => ~ NotAfter(input.bearer.raw.exp, 0)

\* "It verifies the redemption was legitimate (signature/iss/aud/exp)"
\* (oauth/validator.go): an upstream identity token that is accepted has not
\* expired, give or take the clock skew and one second of rounding.
UpstreamNotExpired ==
  upstream = "ok" =>
    (WellFormed(input.bearer.raw.exp) /\ input.bearer.raw.exp.half >= Second =>
       NotAfter(input.bearer.raw.exp, 2 * ClockSkew + Second))

=============================================================================
