------------------------- MODULE TokenClaimsProofs -------------------------
(***************************************************************************)
(* What ValidateStrictJWT promises, proved for every width of integer,     *)
(* clock skew, token, configuration, policy and instant.                   *)
(***************************************************************************)
EXTENDS TokenClaims, TLAPS

\* Each verdict is that of the inputs, which do not change.
VerdictsOfInputs ==
  /\ input \in Inputs
  /\ strict \in {"pending", StrictVerdict(input.bearer, input.policy, Now(input.instant))}
  /\ \/ legacy = "pending"
     \/ \E e \in Projected(input.bearer.raw.exp), b \in Projected(input.bearer.raw.nbf),
           i \in Projected(input.bearer.raw.iat) :
          legacy = LegacyVerdict(input.bearer, input.config, e, b, i, Now(input.instant))
  /\ \/ upstream = "pending"
     \/ \E a \in Strings : upstream = ExternalVerdict(input.bearer, input.config, a)

\* The conversion of half seconds to seconds is off by less than a second.
LEMMA WholeRounds ==
  ASSUME NEW h \in Int
  PROVE  /\ Whole(h) \in Int
         /\ h <= 2 * Whole(h) + 1 /\ 2 * Whole(h) <= h + 1
         /\ h >= 0 => 2 * Whole(h) <= h
         /\ h < 0 => h <= 2 * Whole(h)
  BY SMT DEF Whole

\* So it keeps the order.
LEMMA WholeKeepsOrder ==
  ASSUME NEW g \in Int, NEW h \in Int, g <= h
  PROVE  Whole(g) <= Whole(h)
  BY SMT DEF Whole

\* Whatever the architecture makes of a float64, it is an integer.
LEMMA ProjectedIsInt ==
  ASSUME NEW n, n.half \in Int
  PROVE  Projected(n) \subseteq Int
<1>1. Whole(n.half) \in Int
  BY WholeRounds
<1>2. MinInt \in Int /\ MaxInt \in Int
  BY MagnitudeAssumption, SMT DEF MinInt
<1> QED
  BY <1>1, <1>2, SMT DEF Projected

\* The clock's reading moved by a tolerance does not wrap around.
LEMMA ToleranceFits ==
  ASSUME NEW x \in Inputs, x.policy.leeway >= 0
  PROVE  LET now    == Now(x.instant)
             leeway == Whole(x.policy.leeway)
         IN  /\ now \in Nat /\ leeway \in Nat
             /\ Wrap(now - leeway) = now - leeway
             /\ Wrap(now + leeway) = now + leeway
             /\ Wrap(now + ClockSkew) = now + ClockSkew
  <1> DEFINE now    == Now(x.instant)
             leeway == Whole(x.policy.leeway)
  <1>1. /\ x.instant \in Nat /\ x.policy.leeway \in Int
        /\ x.instant \div 2 + ClockSkew <= MaxInt
        /\ x.instant \div 2 + x.policy.leeway \div 2 <= MaxInt
        /\ MaxInt \in Nat /\ ClockSkew \in Nat
    BY MagnitudeAssumption
  <1>2. now \in Nat /\ leeway \in Nat /\ now + leeway <= MaxInt /\ now + ClockSkew <= MaxInt
    BY <1>1, SMT DEF Now, Whole
  <1> QED
    BY <1>1, <1>2, SMT DEF Wrap, MinInt

THEOREM VerdictsFollow == Spec => []VerdictsOfInputs
<1>1. Init => VerdictsOfInputs
  BY DEF Init, VerdictsOfInputs
<1>2. VerdictsOfInputs /\ [Next]_vars => VerdictsOfInputs'
  <2> SUFFICES ASSUME VerdictsOfInputs, [Next]_vars PROVE VerdictsOfInputs'
    OBVIOUS
  <2> USE DEF VerdictsOfInputs
  <2>1. CASE ValidateStrictJWT
    BY <2>1 DEF ValidateStrictJWT
  <2>2. CASE ValidateToken
    BY <2>2 DEF ValidateToken
  <2>3. CASE \E a \in Strings : ValidateUpstreamIdentityToken(a)
    BY <2>3 DEF ValidateUpstreamIdentityToken
  <2>4. CASE UNCHANGED vars
    BY <2>4 DEF vars
  <2> QED
    BY <2>1, <2>2, <2>3, <2>4 DEF Next
<1> QED
  BY <1>1, <1>2, PTL DEF Spec

\* Each path only returns the classes of error that are its own: the strict path
\* never the soft pass or the bare parse error of the legacy one, and the
\* upstream path, which looks at no time and no scope, never those of them.
THEOREM TypeCorrect == Spec => []TypeOK
<1>1. VerdictsOfInputs => TypeOK
  <2> DEFINE b == input.bearer
             g == input.config
             Strict == Verdicts \ {"softPass", "missing", "parse"}
             Upstream == Verdicts \ {"softPass", "missing", "expired", "scopes"}
  <2> SUFFICES ASSUME VerdictsOfInputs
               PROVE  /\ input \in Inputs /\ strict \in Strict
                      /\ legacy \in Verdicts /\ upstream \in Upstream
    BY DEF TypeOK
  <2>1. input \in Inputs /\ b.keys \in KeyOutcomes
    BY InputAssumption DEF VerdictsOfInputs
  <2>2. strict \in Strict
    <3>1. b.keys # "signed" => StrictKeyError[b.keys] \in Strict
      BY <2>1 DEF KeyOutcomes, StrictKeyError, Verdicts
    <3>2. StrictClaims(b.raw, input.policy, Now(input.instant)) \in Strict
      BY DEF StrictClaims, Verdicts
    <3>3. StrictVerdict(b, input.policy, Now(input.instant)) \in Strict
      BY <3>1, <3>2 DEF StrictVerdict, Verdicts
    <3> QED
      BY <3>3 DEF VerdictsOfInputs, Verdicts
  <2>3. ASSUME NEW a
        PROVE  ExternalVerdict(b, g, a) \in Upstream
    <3>1. b.keys # "signed" => LegacyKeyError[b.keys] \in Upstream
      BY <2>1 DEF KeyOutcomes, LegacyKeyError, Verdicts
    <3> QED
      BY <3>1 DEF ExternalVerdict, Verdicts
  <2>4. legacy \in Verdicts
    <3>1. \A e, nb, i : LegacyVerdict(b, g, e, nb, i, Now(input.instant)) \in Verdicts
      <4>1. LegacyEntry(b, g) \in Verdicts
        BY DEF LegacyEntry, Verdicts
      <4>2. ExternalVerdict(b, g, g.audience) \in Verdicts
        BY <2>3
      <4>3. \A e, nb, i : LegacyTimes(e, nb, i, Now(input.instant)) \in Verdicts
        BY DEF LegacyTimes, Verdicts
      <4> QED
        BY <4>1, <4>2, <4>3 DEF LegacyVerdict, Verdicts
    <3> QED
      BY <3>1 DEF VerdictsOfInputs, Verdicts
  <2>5. upstream \in Upstream
    BY <2>3 DEF VerdictsOfInputs, Verdicts
  <2> QED
    BY <2>1, <2>2, <2>4, <2>5
<1> QED
  BY <1>1, VerdictsFollow, PTL

-----------------------------------------------------------------------------
\* What an accepted bearer has passed.
LEMMA StrictAccepts ==
  ASSUME NEW x \in Inputs, StrictVerdict(x.bearer, x.policy, Now(x.instant)) = "ok"
  PROVE  LET raw    == x.bearer.raw
             now    == Now(x.instant)
             leeway == Whole(x.policy.leeway)
         IN  /\ x.bearer.kind = "jwt" /\ x.bearer.keys = "signed"
             /\ StrictPolicyValid(x.policy)
             /\ StrictIssuerMatches(raw, x.policy)
             /\ StrictAudienceMatches(raw, x.policy)
             /\ WellFormed(raw.exp) /\ ~ StrictExpired(raw.exp, leeway, now)
             /\ StrictStarted(raw.nbf, leeway, now) /\ StrictStarted(raw.iat, leeway, now)
             /\ x.policy.scopes \subseteq raw.scopes
<1>1. x.bearer.kind = "jwt" /\ StrictPolicyValid(x.policy)
  BY DEF StrictVerdict
<1>2. x.bearer.keys = "signed"
  <2>1. x.bearer.keys \in KeyOutcomes
    BY InputAssumption
  <2> SUFFICES ASSUME x.bearer.keys # "signed" PROVE FALSE
    OBVIOUS
  <2>2. StrictKeyError[x.bearer.keys] = "ok"
    BY <1>1 DEF StrictVerdict
  <2> QED
    BY <2>1, <2>2 DEF KeyOutcomes, StrictKeyError
<1>3. StrictClaims(x.bearer.raw, x.policy, Now(x.instant)) = "ok"
  BY <1>1, <1>2 DEF StrictVerdict
<1> QED
  BY <1>1, <1>2, <1>3 DEF StrictClaims, HasRequiredScopes

\* A claim that starts after the instant, tolerance included, has been refused.
LEMMA StartedInTime ==
  ASSUME NEW x \in Inputs, x.policy.leeway >= 0, NEW n, n.half \in Int, n.rep # "absent",
         StrictStarted(n, Whole(x.policy.leeway), Now(x.instant))
  PROVE  /\ n.rep \in {"float", "number"}
         /\ n.half <= x.instant + x.policy.leeway + Second
<1> DEFINE leeway == Whole(x.policy.leeway)
           now    == Now(x.instant)
<1>1. /\ WellFormed(n) /\ Whole(n.half) <= now + leeway
      /\ now \in Nat /\ leeway \in Nat
  BY ToleranceFits DEF StrictStarted
<1>2. x.policy.leeway \in Int /\ x.instant \in Nat
  BY MagnitudeAssumption
<1>3. 2 * leeway <= x.policy.leeway
  BY <1>2, WholeRounds
<1>4. 2 * now <= x.instant
  BY <1>2, SMT DEF Now
<1>5. n.half <= 2 * Whole(n.half) + 1 /\ Whole(n.half) \in Int
  BY WholeRounds
<1>6. n.half <= x.instant + x.policy.leeway + Second
  <2> HIDE DEF leeway, now
  <2>1. Whole(n.half) <= now + leeway
    BY <1>1
  <2> QED
    BY <1>1, <2>1, <1>2, <1>3, <1>4, <1>5, SMT DEF Second
<1> QED
  BY <1>1, <1>6 DEF WellFormed

\* Whatever a bearer's claims, at whatever instant and under whatever policy:
\* what ValidateStrictJWT accepts is signed, addressed byte for byte and in
\* force.  The comparisons are made on whole seconds and on wrapping integers;
\* the statement is about the exact values.
THEOREM StrictIsSound == Spec => []StrictSound
<1>1. VerdictsOfInputs => StrictSound
  <2> SUFFICES ASSUME VerdictsOfInputs, strict = "ok"
               PROVE  StrictSound
    BY DEF StrictSound
  <2> DEFINE b      == input.bearer
             raw    == b.raw
             p      == input.policy
             leeway == Whole(p.leeway)
             now    == Now(input.instant)
  <2>1. input \in Inputs /\ StrictVerdict(b, p, now) = "ok"
    BY DEF VerdictsOfInputs
  <2>2. /\ b.kind = "jwt" /\ b.keys = "signed" /\ StrictPolicyValid(p)
        /\ StrictIssuerMatches(raw, p) /\ StrictAudienceMatches(raw, p)
        /\ WellFormed(raw.exp) /\ ~ StrictExpired(raw.exp, leeway, now)
        /\ StrictStarted(raw.nbf, leeway, now) /\ StrictStarted(raw.iat, leeway, now)
        /\ p.scopes \subseteq raw.scopes
    BY <2>1, StrictAccepts
  <2>3. /\ raw.exp.half \in Int /\ raw.nbf.half \in Int /\ raw.iat.half \in Int
        /\ p.leeway \in Int /\ input.instant \in Nat
    BY <2>1, InputAssumption, MagnitudeAssumption
  <2>4. p.leeway >= 0
    BY <2>2 DEF StrictPolicyValid
  <2>5. NotAfter(raw.exp, p.leeway + Second)
    <3>1. raw.exp.rep \in {"float", "number"}
      BY <2>2 DEF WellFormed
    <3>2. ~ (now - leeway > Whole(raw.exp.half))
      BY <2>1, <2>2, <2>4, ToleranceFits DEF StrictExpired
    <3>3. /\ leeway \in Int /\ 2 * leeway <= p.leeway
          /\ Whole(raw.exp.half) \in Int /\ 2 * Whole(raw.exp.half) <= raw.exp.half + 1
      BY <2>3, <2>4, WholeRounds
    <3>4. now \in Int /\ input.instant <= 2 * now + 1
      BY <2>3, SMT DEF Now
    <3>5. input.instant <= raw.exp.half + (p.leeway + Second)
      <4> HIDE DEF leeway, now, raw, p
      <4> QED
        BY <2>3, <3>2, <3>3, <3>4, SMT DEF Second
    <3> QED
      BY <3>1, <3>5 DEF NotAfter
  <2>6. \A n \in {raw.nbf, raw.iat} : n.rep # "absent" => NotBefore(n, p.leeway + Second)
    <3> SUFFICES ASSUME NEW n \in {raw.nbf, raw.iat}, n.rep # "absent"
                 PROVE  NotBefore(n, p.leeway + Second)
      OBVIOUS
    <3>1. /\ n.rep \in {"float", "number"}
          /\ n.half <= input.instant + p.leeway + Second
      BY <2>1, <2>2, <2>3, <2>4, StartedInTime
    <3>2. n.half <= input.instant + (p.leeway + Second)
      BY <2>3, <3>1, SMT DEF Second
    <3> QED
      BY <3>1, <3>2 DEF NotBefore
  <2>7. \E a \in raw.aud.values : a \in p.audiences /\ a \notin Blank
    BY <2>2 DEF StrictAudienceMatches
  <2> QED
    BY <2>2, <2>4, <2>5, <2>6, <2>7 DEF StrictSound, StrictIssuerMatches, StrictAudienceMatches
<1> QED
  BY <1>1, VerdictsFollow, PTL

\* Conversely a bearer that is signed, addressed as the policy says and in
\* force at this instant is never rejected: no boundary, no truncation and no
\* wrap-around of the tolerance is in its way.
THEOREM StrictIsComplete == Spec => []StrictComplete
<1>1. VerdictsOfInputs => StrictComplete
  <2> DEFINE b      == input.bearer
             raw    == b.raw
             p      == input.policy
             leeway == Whole(p.leeway)
             now    == Now(input.instant)
  <2> SUFFICES ASSUME VerdictsOfInputs,
                      b.kind = "jwt" /\ b.keys = "signed" /\ p.leeway >= 0,
                      p.issuer # Empty => raw.iss = p.issuer,
                      raw.aud.shape \in {"string", "strings"},
                      \E a \in raw.aud.values : a \in p.audiences /\ a \notin Blank,
                      WellFormed(raw.exp) /\ input.instant <= raw.exp.half,
                      \A n \in {raw.nbf, raw.iat} :
                        n.rep # "absent" => WellFormed(n) /\ n.half <= input.instant,
                      p.scopes \subseteq raw.scopes
               PROVE  StrictVerdict(b, p, now) = "ok"
    BY DEF StrictComplete, VerdictsOfInputs
  <2>1. /\ input \in Inputs
        /\ raw.exp.half \in Int /\ raw.nbf.half \in Int /\ raw.iat.half \in Int
        /\ p.leeway \in Int /\ input.instant \in Nat
    BY InputAssumption, MagnitudeAssumption DEF VerdictsOfInputs
  <2>2. /\ now \in Nat /\ leeway \in Nat
        /\ Wrap(now - leeway) = now - leeway /\ Wrap(now + leeway) = now + leeway
    BY <2>1, ToleranceFits
  <2>3. Whole(input.instant) = now /\ input.instant \in Int
    BY <2>1, SMT DEF Whole, Now
  <2>4. StrictPolicyValid(p) /\ StrictIssuerMatches(raw, p) /\ StrictAudienceMatches(raw, p)
    BY DEF StrictPolicyValid, StrictIssuerMatches, StrictAudienceMatches
  <2>5. ~ StrictExpired(raw.exp, leeway, now)
    <3>1. now <= Whole(raw.exp.half) /\ Whole(raw.exp.half) \in Int
      BY <2>1, <2>3, WholeKeepsOrder, WholeRounds
    <3>2. ~ (now - leeway > Whole(raw.exp.half))
      <4> HIDE DEF now, leeway
      <4> QED
        BY <2>2, <3>1, SMT
    <3> QED
      BY <2>2, <3>2 DEF StrictExpired
  <2>6. \A n \in {raw.nbf, raw.iat} : StrictStarted(n, leeway, now)
    <3> SUFFICES ASSUME NEW n \in {raw.nbf, raw.iat}, n.rep # "absent"
                 PROVE  WellFormed(n) /\ Whole(n.half) <= Wrap(now + leeway)
      BY DEF StrictStarted
    <3>1. WellFormed(n) /\ n.half <= input.instant /\ n.half \in Int
      BY <2>1
    <3>2. Whole(n.half) <= now /\ Whole(n.half) \in Int
      BY <2>1, <2>3, <3>1, WholeKeepsOrder, WholeRounds
    <3>3. Whole(n.half) <= now + leeway
      <4> HIDE DEF now, leeway
      <4> QED
        BY <2>2, <3>2, SMT
    <3> QED
      BY <2>2, <3>1, <3>3
  <2>7. StrictClaims(raw, p, now) = "ok"
    BY <2>4, <2>5, <2>6 DEF StrictClaims, HasRequiredScopes
  <2> QED
    BY <2>4, <2>7 DEF StrictVerdict
<1> QED
  BY <1>1, VerdictsFollow, PTL

\* The strict path is the stricter one, but for the overflow of the legacy
\* path: what it accepts, ValidateToken accepts.
THEOREM StrictIsStricter == Spec => []StrictImpliesLegacy
<1>1. VerdictsOfInputs => StrictImpliesLegacy
  <2> DEFINE b      == input.bearer
             raw    == b.raw
             p      == input.policy
             g      == input.config
             leeway == Whole(p.leeway)
             now    == Now(input.instant)
  <2> SUFFICES ASSUME VerdictsOfInputs, strict = "ok", Corresponds,
                      Whole(raw.exp.half) + ClockSkew <= MaxInt, legacy # "pending"
               PROVE  legacy = "ok"
    BY DEF StrictImpliesLegacy
  <2>1. PICK e \in Projected(raw.exp), nb \in Projected(raw.nbf), i \in Projected(raw.iat) :
          legacy = LegacyVerdict(b, g, e, nb, i, now)
    BY DEF VerdictsOfInputs
  <2>2. /\ input \in Inputs
        /\ raw.exp.half \in Int /\ raw.nbf.half \in Int /\ raw.iat.half \in Int
        /\ p.leeway \in Int /\ input.instant \in Nat
        /\ MaxInt \in Nat /\ ClockSkew \in Nat
    BY InputAssumption, MagnitudeAssumption DEF VerdictsOfInputs
  <2>3. /\ b.kind = "jwt" /\ b.keys = "signed" /\ StrictPolicyValid(p)
        /\ StrictIssuerMatches(raw, p) /\ StrictAudienceMatches(raw, p)
        /\ WellFormed(raw.exp) /\ ~ StrictExpired(raw.exp, leeway, now)
        /\ StrictStarted(raw.nbf, leeway, now) /\ StrictStarted(raw.iat, leeway, now)
        /\ p.scopes \subseteq raw.scopes
    <3>1. StrictVerdict(b, p, now) = "ok"
      BY DEF VerdictsOfInputs
    <3> QED
      BY <2>2, <3>1, StrictAccepts
  <2>4. /\ now \in Nat /\ leeway \in Nat /\ leeway <= ClockSkew
        /\ Wrap(now - leeway) = now - leeway /\ Wrap(now + leeway) = now + leeway
        /\ Wrap(now + ClockSkew) = now + ClockSkew
    BY <2>2, <2>3, ToleranceFits DEF StrictPolicyValid, Corresponds
  <2>5. LegacyEntry(b, g) = "ok"
    BY <2>3 DEF LegacyEntry, Corresponds
  <2>6. LegacyIssuerMatches(raw, g)
    <3> SUFFICES ASSUME Bare[g.issuer] # Empty
                 PROVE  Bare[LegacyIssuer(raw)] = Bare[g.issuer]
      BY DEF LegacyIssuerMatches
    <3>1. g.issuer # Empty /\ g.issuer \in Strings
      BY <2>2, StringAssumption, InputAssumption
    <3> QED
      BY <2>3, <3>1 DEF Corresponds, StrictIssuerMatches, LegacyIssuer
  <2>7. LegacyAudienceMatches(raw, g.audience)
    BY <2>3 DEF Corresponds, StrictAudienceMatches, LegacyAudienceMatches, LegacyAudience
  <2>8. ExternalVerdict(b, g, g.audience) = "ok"
    BY <2>3, <2>6, <2>7 DEF ExternalVerdict
  <2>9. ~ (e > 0 /\ now > Wrap(e + ClockSkew))
    <3> DEFINE w == Whole(raw.exp.half)
    <3>1. e = w /\ w \in Int /\ ~ (now - leeway > w) /\ w + ClockSkew <= MaxInt
      BY <2>2, <2>3, <2>4, WholeRounds DEF Projected, StrictExpired
    <3> HIDE DEF w, now, leeway
    <3> SUFFICES ASSUME e > 0 PROVE ~ (now > Wrap(e + ClockSkew))
      OBVIOUS
    <3>2. Wrap(e + ClockSkew) = e + ClockSkew
      BY <2>2, <3>1, SMT DEF Wrap, MinInt
    <3> QED
      BY <2>2, <2>4, <3>1, <3>2, SMT
  <2>10. \A n \in {raw.nbf, raw.iat}, v \in Int :
           /\ StrictStarted(n, leeway, now)
           /\ v \in Projected(n)
           => v <= now + ClockSkew \/ v <= 0
    <3> SUFFICES ASSUME NEW n \in {raw.nbf, raw.iat}, NEW v \in Int,
                        StrictStarted(n, leeway, now), v \in Projected(n), v > 0
                 PROVE  v <= now + ClockSkew
      BY SMT
    <3>1. n.rep # "absent"
      BY SMT DEF Projected, WellFormed
    <3>2. v = Whole(n.half) /\ Whole(n.half) <= now + leeway
      BY <2>4, <3>1 DEF StrictStarted, Projected
    <3> HIDE DEF now, leeway
    <3> QED
      BY <2>2, <2>4, <3>2, SMT
  <2>11. nb \in Int /\ i \in Int
    BY <2>2, ProjectedIsInt
  <2>12. /\ ~ (nb > 0 /\ Wrap(now + ClockSkew) < nb)
         /\ ~ (i > 0 /\ i > Wrap(now + ClockSkew))
    <3>1. /\ nb <= now + ClockSkew \/ nb <= 0
          /\ i <= now + ClockSkew \/ i <= 0
      BY <2>3, <2>10, <2>11
    <3> HIDE DEF now
    <3> QED
      BY <2>2, <2>4, <2>11, <3>1, SMT
  <2>13. LegacyTimes(e, nb, i, now) = "ok"
    BY <2>9, <2>12 DEF LegacyTimes
  <2>14. g.scopes \subseteq raw.scopes
    BY <2>3 DEF Corresponds
  <2> QED
    BY <2>1, <2>5, <2>8, <2>13, <2>14 DEF LegacyVerdict, HasRequiredScopes
<1> QED
  BY <1>1, VerdictsFollow, PTL

\* What ValidateToken accepts is in force, give or take the clock skew: where
\* the sum of exp and the skew wraps around the token is rejected, not accepted.
THEOREM LegacyIsSound == Spec => []LegacySound
<1>1. VerdictsOfInputs => LegacySound
  <2> DEFINE b   == input.bearer
             raw == b.raw
             now == Now(input.instant)
  <2> SUFFICES ASSUME VerdictsOfInputs, legacy = "ok"
               PROVE  LegacySound
    BY DEF LegacySound
  <2>1. PICK e \in Projected(raw.exp), nb \in Projected(raw.nbf), i \in Projected(raw.iat) :
          LegacyVerdict(b, input.config, e, nb, i, now) = "ok"
    BY DEF VerdictsOfInputs
  <2>2. /\ input \in Inputs
        /\ raw.exp.half \in Int /\ raw.nbf.half \in Int /\ raw.iat.half \in Int
        /\ input.instant \in Nat /\ input.instant \div 2 + ClockSkew <= MaxInt
        /\ MaxInt \in Nat /\ ClockSkew \in Nat
    BY InputAssumption, MagnitudeAssumption DEF VerdictsOfInputs
  <2>3. LegacyTimes(e, nb, i, now) = "ok"
    BY <2>1 DEF LegacyVerdict
  <2>4. /\ ~ (e > 0 /\ now > Wrap(e + ClockSkew))
        /\ ~ (nb > 0 /\ Wrap(now + ClockSkew) < nb)
        /\ ~ (i > 0 /\ i > Wrap(now + ClockSkew))
    BY <2>3 DEF LegacyTimes
  <2>5. /\ now \in Nat /\ Wrap(now + ClockSkew) = now + ClockSkew
        /\ 2 * now <= input.instant /\ input.instant <= 2 * now + 1
    BY <2>2, SMT DEF Now, Wrap, MinInt
  <2>6. ASSUME WellFormed(raw.exp), raw.exp.half >= Second
        PROVE  NotAfter(raw.exp, 2 * ClockSkew + Second)
    <3> DEFINE h == raw.exp.half
               w == Whole(h)
    <3>1. e = w /\ w \in Int /\ 2 * w <= h /\ h <= 2 * w + 1 /\ h >= 2
      <4>1. h \in Int /\ h >= 2 /\ h >= 0
        BY <2>2, <2>6, SMT DEF Second
      <4>2. e = w
        BY <2>1, <2>6 DEF Projected
      <4> QED
        BY <4>1, <4>2, WholeRounds
    <3>2. h < 2 * (MaxInt + 1)
      BY <2>6 DEF WellFormed, InRange
    <3> HIDE DEF now, w
    <3>3. w > 0 /\ w <= MaxInt
      BY <2>2, <3>1, <3>2, SMT
    <3>4. now <= Wrap(w + ClockSkew)
      BY <2>2, <2>4, <2>5, <3>1, <3>3, SMT DEF Wrap, MinInt
    <3>5. Wrap(w + ClockSkew) <= w + ClockSkew
      BY <2>2, <3>1, <3>3, SMT DEF Wrap, MinInt
    <3>6. input.instant <= h + (2 * ClockSkew + Second)
      BY <2>2, <2>5, <3>1, <3>4, <3>5, SMT DEF Second, Wrap, MinInt
    <3> QED
      BY <2>6, <3>6 DEF NotAfter, WellFormed
  <2>7. ASSUME NEW n \in {raw.nbf, raw.iat}, WellFormed(n)
        PROVE  NotBefore(n, 2 * ClockSkew + Second)
    <3> DEFINE w == Whole(n.half)
    <3>1. n.half \in Int /\ w \in Int /\ n.half <= 2 * w + 1
      BY <2>2, WholeRounds
    <3>2. w \in {nb, i}
      BY <2>1, <2>7 DEF Projected
    <3> HIDE DEF now, w
    <3>3. w <= 0 \/ w <= now + ClockSkew
      BY <2>2, <2>4, <2>5, <3>1, <3>2, SMT
    <3>4. n.half <= input.instant + (2 * ClockSkew + Second)
      BY <2>2, <2>5, <3>1, <3>3, SMT DEF Second
    <3> QED
      BY <2>7, <3>4 DEF NotBefore, WellFormed
  <2> QED
    BY <2>6, <2>7 DEF LegacySound
<1> QED
  BY <1>1, VerdictsFollow, PTL

\* A failure that is transient to one path is transient to all three.
THEOREM TransientForAll == Spec => []TransientAlike
<1>1. VerdictsOfInputs => TransientAlike
  <2> DEFINE b == input.bearer
             p == input.policy
             g == input.config
  <2> SUFFICES ASSUME VerdictsOfInputs, b.kind = "jwt", g.enabled /\ Configured(g),
                      StrictPolicyValid(p), "pending" \notin {strict, legacy, upstream}
               PROVE  \/ strict = "transient" /\ legacy = "transient" /\ upstream = "transient"
                      \/ "transient" \notin {strict, legacy, upstream}
    BY DEF TransientAlike
  <2>1. PICK e, nb, i : legacy = LegacyVerdict(b, g, e, nb, i, Now(input.instant))
    BY DEF VerdictsOfInputs
  <2>2. PICK a : upstream = ExternalVerdict(b, g, a)
    BY DEF VerdictsOfInputs
  <2>3. strict = StrictVerdict(b, p, Now(input.instant)) /\ b.keys \in KeyOutcomes
    BY InputAssumption DEF VerdictsOfInputs
  <2>4. LegacyEntry(b, g) = "ok"
    BY DEF LegacyEntry
  <2>5. CASE b.keys = "signed"
    <3>1. strict # "transient"
      BY <2>3, <2>5 DEF StrictVerdict, StrictClaims
    <3>2. legacy # "transient"
      BY <2>1, <2>4, <2>5 DEF LegacyVerdict, ExternalVerdict, LegacyTimes
    <3>3. upstream # "transient"
      BY <2>2, <2>5 DEF ExternalVerdict
    <3> QED
      BY <3>1, <3>2, <3>3
  <2>6. CASE b.keys # "signed"
    <3>1. strict = StrictKeyError[b.keys]
      BY <2>3, <2>6 DEF StrictVerdict
    <3>2. upstream = LegacyKeyError[b.keys]
      BY <2>2, <2>6 DEF ExternalVerdict
    <3>3. legacy = LegacyKeyError[b.keys]
      <4>1. ExternalVerdict(b, g, g.audience) = LegacyKeyError[b.keys]
        BY <2>6 DEF ExternalVerdict
      <4>2. LegacyKeyError[b.keys] # "ok"
        BY <2>3, <2>6 DEF KeyOutcomes, LegacyKeyError
      <4> QED
        BY <2>1, <2>4, <4>1, <4>2 DEF LegacyVerdict
    <3> QED
      BY <2>3, <2>6, <3>1, <3>2, <3>3 DEF KeyOutcomes, StrictKeyError, LegacyKeyError
  <2> QED
    BY <2>5, <2>6
<1> QED
  BY <1>1, VerdictsFollow, PTL

=============================================================================
