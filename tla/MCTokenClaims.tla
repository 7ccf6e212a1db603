--------------------------- MODULE MCTokenClaims ---------------------------
(***************************************************************************)
(* Inputs for model-checking TokenClaims: int64 scaled down to -32 .. 31,  *)
(* a clock skew of 3 seconds.                                              *)
(***************************************************************************)
EXTENDS TokenClaims, TLC

CONSTANTS iss, issSlash, blank

Trimmed == (Empty :> Empty) @@ (blank :> Empty) @@ (iss :> iss) @@ (issSlash :> iss)

Absent     == [rep |-> "absent", half |-> 0]
Other      == [rep |-> "other", half |-> 0]
Float(h)   == [rep |-> "float", half |-> h]
Number(h)  == [rep |-> "number", half |-> h]

\* The ends of the int64 range, the first values outside it, zero, and the
\* half seconds around the instants with and without a tolerance.
Edges      == {2 * MinInt - 2, 2 * MinInt, 0, 2 * MaxInt, 2 * MaxInt + 2}
Around     == 10 .. 29
\* A float64 just below 2^63 is some 1024 below it: none within the skew.
FloatExps  == {Float(h) : h \in (Edges \ {2 * MaxInt}) \cup Around}
NumberExps == {Number(h) : h \in Edges \cup {2 * MaxInt - 2, 2 * MaxInt - 6, -1, 13, 20}}
Exps       == FloatExps \cup NumberExps \cup {Absent, Other}
Starts     == {Absent, Other, Float(2 * MaxInt + 2), Number(2 * MaxInt), Number(2 * MinInt)}
                \cup {Float(h) : h \in {19, 20, 21, 23, 25, 26, 27, 28, 29}}

Aud(shape, values) == [shape |-> shape, values |-> values]
Claims(i, a, e, n, t, s) == [iss |-> i, aud |-> a, exp |-> e, nbf |-> n, iat |-> t, scopes |-> s]
JWT(keys, raw) == [kind |-> "jwt", keys |-> keys, raw |-> raw]

Policy(i, as, l, s) == [issuer |-> i, audiences |-> as, leeway |-> l, scopes |-> s]
Config(en, so, u, i, a, s) ==
  [enabled |-> en, strictOnly |-> so, jwksURL |-> u, issuer |-> i, audience |-> a, scopes |-> s]

Plain == Aud("string", {iss})

Input(bs, gs, ps, ts) == [bearer : bs, config : gs, policy : ps, instant : ts]

\* Expiry alone, as a float64.
FloatInputs ==
  Input({JWT("signed", Claims(iss, Plain, e, Absent, Absent, {})) : e \in FloatExps},
        {Config(TRUE, FALSE, TRUE, iss, iss, {})}, {Policy(iss, {iss}, 0, {})}, {20})

\* Times: one issuer, one audience, every time claim.
TimeInputs ==
  Input({JWT("signed", Claims(iss, Plain, e, n, t, {})) : e \in Exps, n \in Starts, t \in Starts},
        {Config(TRUE, FALSE, TRUE, iss, iss, {})},
        {Policy(iss, {iss}, l, {}) : l \in {-1, 0, 1, 3, 6}}, {20, 21})

\* Names: one exp, every issuer, audience and scope.
Names == {Empty, blank, iss, issSlash}
Auds  == {Aud("string", {n}) : n \in Names}
           \cup {Aud(x, {iss, blank}) : x \in {"strings", "mixed"}}
           \cup {Aud(x, {}) : x \in {"absent", "other", "strings"}}
NameInputs ==
  Input({JWT("signed", Claims(i, a, Number(30), Absent, Absent, s)) :
           i \in Names \cup {NotAString}, a \in Auds, s \in {{}, {"read"}}},
        {Config(TRUE, FALSE, u, i, a, s) : u \in BOOLEAN, i \in Names, a \in Names, s \in {{}, {"read"}}},
        {Policy(i, as, 0, s) : i \in Names, s \in {{}, {"read"}},
                               as \in {{}, {blank}, {iss}, {issSlash, blank}}}, {20})

\* Keys: what becomes of the bearer before its claims are read.
KeyInputs ==
  Input({[kind |-> k, keys |-> o, raw |-> Claims(iss, Plain, Number(30), Absent, Absent, {})] :
           k \in {"missing", "opaque", "jwt"}, o \in KeyOutcomes},
        {Config(e, x, u, i, iss, {}) : e \in BOOLEAN, x \in BOOLEAN, u \in BOOLEAN, i \in {iss, blank}},
        {Policy(iss, {iss}, 0, {}), Policy(iss, {blank}, 0, {})}, {20})

\* What is not a JWT has no key, nor has a Verifier without a JWKS URL or issuer.
Possible(x) ==
  /\ x.bearer.kind # "jwt" => x.bearer.keys \in {"headerParse", "transient", "permanent"}
  /\ ~ x.config.jwksURL /\ x.config.issuer \in {Empty, blank} => x.bearer.keys = "permanent"

EveryInput == {x \in TimeInputs \cup NameInputs \cup KeyInputs : Possible(x)}
=============================================================================
