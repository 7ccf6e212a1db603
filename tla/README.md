# go-mcp-oauth-sdk: a TLA+ model

A verification project for the Go SDK in `src/`: TLA+ modules that model its
behaviour, TLC configurations that check them on small instances, and TLAPS
proofs of the properties that matter most. `PROJECT.json` lists the components,
the runs, the source lines each definition models, the hazards and the theorems.

## The system

The SDK is a library that MCP servers and their sidecars link. One `Verifier`
is built per process and shared by every request's goroutine ("safe for
concurrent use"); everything else is a pure function of its arguments.

| Component | State | Operations | Correct when |
|---|---|---|---|
| Cache deadlines (`oauth/jwks.go`) | none | `jwksCacheTTL`, `jitteredExpiry` | a deadline is never later than 110% of the TTL |
| JWKS cache and key resolution (`oauth/jwks.go`, `oauth/jwt.go`) | one key set, its URI and its deadline under `jwksMu` | `fetchJWKSet`, `invalidateJWKSCache`, `parseAndFetchKeys` | a caller only gets keys of its own URI that were published recently; a rotation is noticed; a kid is given up for a reason; every call returns |
| JWKS health (`oauth/jwks.go`) | last attempt, success and error under `healthMu` | deferred recording in `fetchJWKSet`, `JWKSHealth` | a readiness probe can say what the error it reads has to do with the attempt it reads |
| Authorization server metadata cache (`oauth/discovery.go`) | one document, its issuer and deadline under `asMetaMu` | `fetchAuthServerMeta`, `FetchAuthServerMeta`, `resolveJWKSURL`, `ResolveUserInfoEndpoint` | the JWKS URI used is the configured issuer's and recent; failures are classified as the callers need |
| JWT verification (`oauth/jwt.go`) | none | `parseAndVerifyExternalJWT`, issuer and audience checks | only a token signed by a resolved key is accepted; transient failures are marked `ErrTransient` |
| Legacy claims (`oauth/validator.go`, `oauth/claims.go`) | none | `ValidateToken`, `validateClaims`, `claimsFromRawClaims` | times and audience are judged correctly at every boundary |
| Strict JWT (`oauth/strict_jwt.go`) | none | `ValidateStrictJWT` | never accepts what its contract rejects, whatever the claim's representation |
| Email identity and policy (`oauth/email_identity.go`, `identity_policy.go`, `policy.go`) | none | `ResolveEmailIdentity`, `ValidateIdentityClaims` | the result does not depend on map order; ambiguity is refused |
| Roles, scopes, forwarding (`oauth/roles.go`, `forward.go`, `policy.go`) | none | small projections | complete over their inputs |
| JWE tokens and broker artifacts (`jwe_auth/`, `broker/helpers.go`) | none | mint and open encrypted artifacts | an artifact opens only under the key its kid selects, carries whitelisted claims and is unexpired |
| Broker helpers (`broker/helpers.go`) | none | URL, path, PKCE, scope and response helpers | idempotent normalisation |
| Configuration, errors, context | none | data and accessors | - |

`ValidateToken` and `ValidateStrictJWT` call `parseAndFetchKeys`, which resolves
the JWKS URI (explicitly, or from the metadata cache), reads the JWKS cache or
fetches, and retries once on a kid miss; the keys then verify the signature and
the claims are judged. The two caches are the only shared mutable state. The IdP
and the clock are the environment.

What is hard here: goroutines fetch concurrently with no coalescing; a lock is
held only around each read or write of the cache, so a decision is made on a
reading of the clock and of the entry that may be stale when it is acted on; a
rotation at the IdP can fall between any two steps; a miss invalidates the entry
for everybody; every HTTP exchange can fail in six ways; and the results of
overlapping fetches are recorded in any order.

## The modules

* `CacheExpiry`: the deadlines, as the set `jitteredExpiry` can draw from.
* `IdP`: the environment. The clock moves to any later instant, a rotation
  replaces the document at one URI. `withdrawnAt` remembers when a key was last
  withdrawn. It is a history variable that no step of the code reads.
* `JWKSCache`: the core. Each member of `Calls` is a goroutine that runs
  `parseAndFetchKeys` over and over on one Verifier.
* `KeyDirectory`: the abstract specification. It has no cache, lock or health.
  A call asks, looks at the IdP once or twice, and is answered with keys
  published less than `Window` before its last look, or rejected. A kid is only
  given up after two looks, and only a call that has looked can fail to fetch.
* `JWKSCacheRefinement`: the refinement mapping, from the locals of a call to a
  request of the directory.
* `JWKSCacheInvariants`: the inductive strengthenings.
* `JWKSHealth`: `JWKSCache` watched by history variables that no step reads, so that
  a property can say what a health snapshot means. `Watch` updates them from who
  enters and leaves a fetch.
* `JWKSCacheProofs`, `JWKSCacheRefinementProofs`: the theorems.
* `IssuerEndpoints`: the environment of the other cache. The clock, and what each
  issuer's well-known endpoints serve. `replacedAt` is a history variable.
* `AuthServerMeta`: the other cache. Each member of `Callers` is a goroutine that
  asks one Verifier for an issuer's metadata over and over.
  `AuthServerMetaInvariants` and `AuthServerMetaProofs` go with it.
* `IssuerDirectory`: the abstract specification of that cache. An inquiry is
  answered with what the issuer asked for advertised recently; that it has no
  metadata is only said while it has none. `AuthServerMetaRefinement` maps
  a goroutine to its inquiry.
* `CacheExpiryProofs`: the bounds of a deadline, which both caches' proofs cite.
* `TokenClaims`: `ValidateToken`, `ValidateUpstreamIdentityToken` and
  `ValidateStrictJWT` side by side on the same bearer. `TokenClaimsProofs` has
  the theorems.
* `Verifier`: the composition. It extends `JWKSCache` and instantiates
  `AuthServerMeta` with the one configured issuer, on the same clock. Each
  goroutine verifies one token after another: it asks the metadata for the JWKS
  URI, the key cache for the keys there, and tries them on the token. The issuer
  may move its JWKS to another URI and rotate the keys at any of them between any
  two steps. `VerifierInvariants` and `VerifierProofs` go with it.
* `Verification`: the abstract specification of the composition, without caches. A
  token is pending while the issuer names a JWKS URI and the keys there are looked
  at once or twice; its verdict is then one that what the issuer served, and when,
  allows: what a look *may* have shown (a key served within the window before it)
  decides what can be accepted, what it *must* have shown (a key served for the
  whole window) what can be refused. `VerifierRefinement` maps the state of
  `Verifier` to it; of a call only the JWKS URI, the looks taken and the clock
  reading of the last one are seen.
* `EmailIdentity`: from the IdP's object to the identity a host authenticates,
  with its two loops over a Go map. `EmailIdentityProofs` has the theorems.
* `BrokerJWE`: the encrypted artifacts of the broker and their legacy
  predecessors, over symbolic keys. `BrokerJWEProofs` has the theorems.
* The `MC` modules and the `.cfg` files: the instances TLC checks.

Nothing flows back from the claims to the caches, so they are separate: an answer
of `AuthServerMeta` is the JWKS URI a call of `JWKSCache` begins with (`Verifier`
composes the two), and what the keys and the signature make of a bearer is the
`keys` of an input of `TokenClaims`. What a path accepts is the object
`EmailIdentity` starts from. The broker shares no state with the verifier.

### State and code

| `JWKSCache` | Code |
|---|---|
| `jwks` | `jwksCache`, `jwksCacheURL`, `jwksCacheExpiresAt` |
| `health` | `jwksLastFetchAttempt`, `jwksLastFetchSuccess`, `jwksLastFetchError` |
| `call[c]` | a goroutine's locals: `pc`, the JWKS URI, the token's kid, `now`, the key set, whether it has retried, `retErr` |
| `absent`, `restored` | history: the calls whose kid the IdP did not publish at some instant; the calls overtaken by another one's store before their second lookup |
| `reporting`, `outcome`, `overtaken` (`JWKSHealth`) | history: the fetch whose attempt the snapshot reports, while it is under way; how it ended; whether a fetch that was under way beside it has ended since |

A step is one critical section, one reading of the clock, or one HTTP exchange:

| Action | Code |
|---|---|
| `Begin`, `HeaderParseFails` | the call arrives with its URI resolved and its token parsed, or is refused by `jwt.ParseSigned` |
| `ReadClock` | `now := time.Now()` |
| `LookupHit`, `LookupMiss` | the check under `jwksMu.RLock` |
| `RecordAttempt` | the attempt under `healthMu` |
| `Respond`, `Fault` | the exchange: the document served at that instant, or one of six failures with the class the code gives it |
| `Store` | the entry replaced under `jwksMu`, with any deadline the jitter can draw |
| `RecordResult` | the deferred function, and the return of `fetchJWKSet` |
| `SelectKeys`, `InvalidateJWKSCache`, `KidNotFound` | what `parseAndFetchKeys` does with the set |

| `AuthServerMeta` | Code |
|---|---|
| `asMeta` | `asMetaCache`, `asMetaCacheURL`, `asMetaExpiresAt` |
| `task[c]` | a goroutine's locals: the normalised issuer, the answer; and, for the property only, when it was served and given |
| `slowest` | history: the longest time from an answer to its store |
| `FetchAuthServerMeta`, `LookupHit`, `LookupMiss` | the issuer normalised and refused when blank; the check under `asMetaMu.RLock`, which reads the clock inside it |
| `Discover`, `NoMetadata`, `DiscoveryFails` | `auth.GetAuthServerMetadata`: a document, nil (a permanent error, not cached), or an error (transient) |
| `Store` | the entry replaced under `asMetaMu.Lock`, the deadline counted from that instant |

Of a document only the `jwks_uri` is kept, and `NoURI` stands for one that has
none, on which `resolveJWKSURL` fails permanently. The discovery library compares
the document's issuer with the one asked for, so a stored document names it.

| `TokenClaims` | Code |
|---|---|
| `input` | the bearer, the fields of `OAuthConfig` and of `StrictJWTPolicy` that are read, and `time.Now()` |
| `strict`, `legacy`, `upstream` | what the three entry points returned: `ok`, `softPass` (nil and no error), or an error by its class |
| `StrictVerdict`, `StrictClaims` | `ValidateStrictJWT`, `validateStrictRawClaims` |
| `LegacyEntry`, `ExternalVerdict`, `LegacyTimes`, `LegacyVerdict` | the early returns of `ValidateToken`; `parseAndVerifyExternalJWT`; `validateClaims` |
| `WellFormed`, `Projected` | `strictNumericClaim`; the `int64` that `claimsFromRawClaims` makes of a claim |

What the keys and the signature make of a bearer (`KeyOutcomes`) is an input.
Times are counted in half seconds, so that what a conversion to whole seconds
loses is visible; `int64` seconds range over `MinInt .. MaxInt` and `Wrap`. A
`float64` out of that range converts to `MinInt` or `MaxInt`, as it does on the
architectures Go supports. `json.Number` is modelled because the code accepts it,
whichever decoder is in use. A string is a model value with its trimmed form
(`Bare`); all keys that verify a signature yield the same claims, so the loop over
keys is one step.

| `Verifier` | Code |
|---|---|
| `token[c]`, `verdict[c]` | a goroutine's token (the key that signed it, its kid header) and what became of the call: accepted, or an error by its origin |
| `movedAt`, `listedSince` | history: when the issuer last changed its metadata, and when each key was last added to each document |
| `Verify`, `Resolving`, `Resolved` | `parseAndFetchKeys` begins; `fetchAuthServerMeta` inside `resolveJWKSURL`; its answer taken, then `jwt.ParseSigned` |
| `Fetching` | a step of `JWKSCache`; the one that returns ends in the loop over the keys of `parseAndVerifyExternalJWT` (`Judged`), which `ValidateStrictJWT` repeats |

A key verifies exactly the tokens that were signed with it. A configured `JWKSURL`
skips the metadata; what remains is `JWKSCache` as it stands.

| `EmailIdentity` | Code |
|---|---|
| `document`, `claims` | the members of the IdP's object that are read; their projection by `claimsFromRawClaims` or `ClaimsFromUserInfo`, which disagree on an `email_verified` that is a string |
| `todo`, `emailKey` | the extra claims a loop has yet to visit; the loop's first match |
| `ResolveStandard`, `RangeOverExtra`, `Visit`, `LoopEnds` | `ResolveEmailIdentity`, an action for each iteration |
| `Validate` | `ValidateIdentityClaims`, on the copy of the claims that the comment on `ResolveEmailIdentity` prescribes (external: the host makes it) |
| `RangeForHint`, `Look`, `NoHint` | `EmailFromNamespacedExtra` |

A string is an address with or without blanks around it; a domain stands for its
spellings up to case and blanks; of a claim's name it only matters whether it ends
in `/email` and which name it has with `_verified` appended. A nil `*Claims`, which
every function refuses at once, is left out.

| `BrokerJWE` | Code |
|---|---|
| `secret` | the secret all replicas are configured with; `RotateSecret` is a restart with another |
| `artifact` | one token in flight: kid and content type, the key it was sealed with, its plaintext's form and signer, exp, whether all claims are whitelisted; and, for the properties only, who minted it, when, for how long and for what |
| `Encoded`, `Generated` | `EncodeOAuthJWE`, `GenerateJWEToken` |
| `Foreign` | another producer with the secret, free in its headers |
| `DecodeOAuthJWE`, `ParseAndDecryptJWE` | the two ways to open it: kid, key, form, whitelist, exp |

Encryption is symbolic: an artifact opens under the very key it was sealed with,
and keys are equal when they were derived alike. Opening is a function of the
artifact, the clock and the secret, so one artifact at a time is enough. An `exp`
beyond the `int64` range is converted as the processor likes: either result.

Keys and kids are model values; documents are sets of keys. A duplicate key in a
document, log lines and error texts are left out. `Respond` takes the document at
a single instant of the exchange; a cache in front of the IdP is an IdP that
publishes later. A caller's cancelled context is a transport failure, as it is in
the code. Time is counted in ticks; the zero `time.Time` is `ZeroTime`, before
any instant the clock shows. The clock does not go back: Go compares monotonic
readings within a process.

## The runs

| Run | Question | Instance |
|---|---|---|
| `jwks_trust` | Can a call be handed a key withdrawn too long ago? Why can a kid be given up? Does the cache implement the cache-free `KeyDirectory`? | 2 goroutines, 2 keys with different kids, tokens with and without a kid, 1 URI, TTL 15 (the default), instants 1, 2, 17 |
| `jwks_health` | What may a probe conclude (`JWKSHealth`)? Does every call return? Does each of its steps bring a call nearer its return? Types. | 2 goroutines, 1 key, instants 1, 2, TTL 1; no view, no symmetry |
| `jwks_stale_miss` | Is a kid given up only when unpublished? Violated. | 2 goroutines, 2 keys with different kids, one instant |
| `jwks_attempt` | Does the reported attempt only move forward? Violated. | 2 goroutines, 1 key |
| `meta` | Is every answer the asked issuer's own, and recent? Does the cache implement the cache-free `IssuerDirectory`? Types. | 2 goroutines, 2 issuers (one with two spellings) and a blank one, TTL 15, instants 1, 17 |
| `tokens` | Is the strict path exact, the legacy path sound, and do the paths agree? Types. | about 250,000 inputs, see below |
| `token_expired` | Is only a past token reported expired? Violated. | one token, every `float64` exp |
| `token_upstream` | Is an expired upstream token refused? Violated. | the same |
| `verifier` | Is a genuine token refused for good only while the issuer settles? Is one accepted only with a key and a URI recently served? Can a key leak between two URIs? Does the whole implement the cache-free `Verification`? Types. | 2 goroutines, 2 keys under one kid, 2 URIs, tokens with and without the kid, TTL 1, instants 1, 2, at most one change by the issuer |
| `verifier_verdicts` | Does every step bring a verification nearer its verdict, and does the verdict come? | 2 goroutines, 1 key, 1 URI, one token, TTL 1, instants 1, 2, at most one rotation; no view, no symmetry |
| `identity` | Does the identity depend on the map's order? Is it vouched for by its own claim? Does the hint agree? Types. | 2 namespaced emails and their evidence, every kind of value at each, every policy |
| `broker` | Does an artifact open for another purpose or secret? Is its lifetime kept? Types. | 2 secrets, 2 purposes, lifetimes 1 and 2, half seconds 0 to 3.5 |

The bounds. `Calls`, `Keys`, `URIs`, `TokenKids` and `Instants` are the only
ones. With a TTL of 15 the jitter draws a deadline 14, 15 or 16 ticks after the
fetch began, so an entry fetched at 1 has the deadline 15, 16 or 17, before or
at the instant 17, and one fetched at 2 reaches 18, past it; the trust window is
16. Two goroutines suffice for a late store to overtake a newer one, for a store
to fall between an invalidation and a retry, and for a call to see another's
entry. Repeated calls warm the cache, so no separate warm start is needed.
The theorems below do not depend on any of these bounds.

In `meta`, 17 is the first instant at which an entry stored at 1 has outlived
every deadline the jitter can draw, and the first at which using it would break
the bound. Two goroutines let one store while the other discovers.

In `verifier`, `MaxChanges` bounds how often the issuer changes its keys or its
metadata: once, which is enough to leave either cache stale while the other is
fresh, to replace a key under its kid, and to empty a document. It constrains the
environment only. `Moves` says whether the issuer may change its metadata: in
`verifier_verdicts` it may not, so that the one change is a rotation and what it
serves or fails to serve from the start (no metadata, no `jwks_uri`, an empty key
set) provides the failures. Two URIs are needed for an issuer to move its JWKS and for a key
to leak between them.

`identity` takes, at each of two names ending in `/email`, an address, the same with
blanks, another that has no domain, a blank string, a boolean and nothing; at each
evidence, both booleans, a string, another value and nothing; at the standard email,
an address, a blank string and none, with each form of `email_verified`. Two matches
suffice for an order to matter. In `broker`, halves of a second show both fractions
that `Unix` drops, and four seconds reach past the end of the longer lifetime from
either start.

`tokens` is the union of three products. *Times*: exp, nbf and iat at both ends
of the integer range, just outside it, at zero, and at every half second around
the instant with and without a tolerance, in both representations, with leeways
of -1, 0, 1, 3 and 6 half seconds, at a whole and at a half second. *Names*:
every issuer and audience out of the empty string, a blank one and two spellings
of one name, in every shape of aud, under every configuration and policy made of
them, with and without a scope. *Keys*: every outcome of the keys for a missing,
an opaque and a JWT bearer under every entry condition. `int64` is scaled down to
-32 .. 31 with a clock skew of 3. A `float64` just below 2^63 is 1024 below it,
far more than the skew, so no float in the instance lies within the skew of the
top; a `json.Number` may.

The views leave out what neither the property checked nor any later step can tell
apart: the health snapshot where the property is about keys; the result of a call
that has returned, the answer last told to a goroutine that is not asking, and the
class of a failure on its way back; a deadline's value beyond which readings of the
clock that are still to be compared lie before it and at it, and an entry that is
dead to all of them; when a key was last withdrawn while it is published. In
`verifier` also when a key was last added while it is not published, and likewise
for each answer the issuer serves or has served. They are safe because no step
reads what they omit. In `meta` the truth of the invariants is part of the view,
because they are about answers that it omits.

Deadlock is checked in every run but `identity` and the runs of `TokenClaims`,
whose behaviours end when the host is done with its token.

Fairness: `WF_vars(Step(c))` for each goroutine. The Go scheduler is preemptive,
mutexes are starvation-free, and an exchange ends within `httpTimeout`, which is
a `Fault`. For the composition, `VerifierFairness` says the same of a goroutine's
steps at either cache: a discovery, too, ends within the HTTP client's timeout, which
is a `DiscoveryFails`. Nothing is assumed of the clock, of the IdP (it may never publish the
kid, and may always fail) or of the callers.

### What a health snapshot means

The fetch that ends last writes the error, whichever attempt is reported. A snapshot
without an error may therefore hide that the attempt it reports has failed: c1
records its attempt, c2 records a later one and fails, then c1 succeeds and clears the
error. The comment on `JWKSHealth` allows for it ("the most recent error (cleared on
the next success)"), and so no property says otherwise. `SnapshotExplained` says that
this is the only way: the error is how the reported attempt ended, unless a fetch
that was under way when it was recorded has ended after it; and where there is no
error, some fetch has succeeded at or after the attempt.

### What the violated runs show

* `jwks_stale_miss`. The retry after a kid miss looks the key set up in the
  shared cache. A goroutine whose response predates the rotation can store it
  between the invalidation and that lookup, and the call then reports the kid
  missing though the IdP published it all along, without having refetched. The
  comments promise a "cache-bypass re-fetch". `KidMissExplained` says this is the
  only way. The error is transient, so a retry by the caller recovers.
* `jwks_attempt`. The attempt time is read on entry and stored later, so an
  earlier attempt can overwrite a more recent one.
* `token_expired`. A `float64` exp of 2^63 or more is converted by a bare
  `int64(exp)`. Where that saturates, adding the clock skew wraps around, and the
  token is rejected with `ErrTokenExpired`. `LegacySound` shows that the wrap
  never accepts a token that has expired, provided its exp is a positive `int64`.
* `token_upstream`. `ValidateUpstreamIdentityToken` is documented to verify
  "signature/iss/aud/exp". It calls `parseAndVerifyExternalJWT`, which reads no
  time, and not `validateClaims`, which does.

## The proofs

For every set of goroutines, keys, kids, URIs and instants, and every configured
TTL, from the named assumptions only: `KeyAssumption` (a kid function),
`InstantsAssumption` (the clock shows naturals after the zero time),
`CallAssumption` and `TTLAssumption` (the default TTL is positive).

* `TypeCorrect`. `TypeInv` adds where a goroutine can carry which error and
  that, once past the first step, it has read the clock.
* `JitterBounds`. For every TTL and draw, a deadline lies after its start and
  within 110% of the TTL.
* `KeysAreTrusted`. `KeysWithinTrustWindow` alone is not inductive: a hit hands
  out the cached set. `TrustInv` follows a set through its life. `FetchTrusted`: a
  set just fetched holds keys published at or after the fetch began.
  `CacheTrusted`: a cached key was published within the window before the entry's
  *deadline*. This survives a store because the deadline is counted from the
  start of the same fetch (`JitterBounds`), and a rotation because the deadline is
  never later than the clock plus the window (`TimesInOrder`). A hit then only
  needs `now < deadline`.
* `SnapshotsAreExplained`, `ZeroSnapshots`, `SuccessIsMonotone`. `HealthInOrder`: both
  times of a snapshot are past. `WatchInv`: the fetch reported on is under way, there
  is one at most, and once it has ended `SnapshotExplained` holds.
  `FetchesAndSnapshot` shows that the snapshot is only written by the two steps at
  which a goroutine enters and leaves a fetch.
* `KidMissesAreExplained`. `KidInv`: unless absent, the kid is published now and
  in the set just fetched; unless restored, the entry a retrying call is about to
  look up is still invalidated.
* `MetadataIsRecent` (with `MetaTypeCorrect`). `MetaInv` follows a document as
  `TrustInv` follows a key set, but the deadline is counted from the store, so the
  bound has to add the slowest store: `HeldRecent` for a document not yet stored,
  `EntryRecent` for the cached one. Assumptions: `IssuerAssumption`,
  `DocumentAssumption`, `MetaInstantsAssumption`, `MetaTTLAssumption`.
* `MetaImplementsDirectory`. A hit and a store are the answers of `IssuerDirectory`,
  a miss and a discovery stutter. `TellingAnswers`: that what is told was
  advertised within the window and the slowest store is `AnswersAreRecent` after the
  step; that *no metadata* is never told from the cache follows from the types, as an
  entry holds a document.
* `StrictIsSound`, `StrictIsComplete`, `StrictIsStricter`, `LegacyIsSound`,
  `TransientForAll`. The invariant is `VerdictsOfInputs`: each verdict is that of
  the unchanging inputs. What is left is arithmetic. `WholeRounds` bounds what a
  conversion loses, and `ToleranceFits` shows that the clock's reading moved by a
  tolerance does not wrap, from `MagnitudeAssumption`, which is the code's own
  comment that now and the leeway are "sane, non-extreme magnitudes".
  `TypeCorrect` there is the same argument over the classes of error.
* `SettledTokensVerifyHolds`, `AcceptedKeysWereServedHolds` (with
  `VerifierTypeCorrect`). `VerifierInv` joins `TrustInv` and `MetaInv` and adds the
  converse direction. A set that a goroutine holds or the cache keeps contains every
  key that has been listed since before it was fetched, and a document names the URI
  the issuer has named since before it was served; a goroutine between its steps has
  a pending verdict and the answer it goes on with (`CallsInStep`). A key that has
  been served for `Window + slowest` is then in whatever set the call is handed.
  Both deadlines count from before the call, which is why the delays do not add up.
* `VerifierImplementsVerification`. Under `VerifierInv`, every step of the composition
  is a step of `Verification` or leaves it unchanged. `AnswerIsRecent`: the JWKS URI
  that a call goes on with was named within the window and the slowest store.
  `FoundKeys`: the set in hand contains every key its look must have shown and only
  keys it may have shown. The verdicts follow, one lemma for each part of a call
  (`ResolvingImplements`, `ResolvedImplements`, `SelectingImplements`,
  `FetchingImplements`) and one for the environment.
* `ComposedCacheImplementsDirectory`, `ComposedMetaImplementsDirectory`,
  `ComposedSnapshots`, `ComposedZeroSnapshots`, `ComposedSuccessIsMonotone`,
  `ComposedKidMisses`. What is proved of each cache alone holds of it in use:
  every step of the composition is a step of the one cache or a stutter of it
  (`RunsCache`, `RunsMeta`), so the same invariants are inductive there.
* `VerificationIsBounded`. `StepsToVerdict` puts the three steps at the metadata on
  top of `StepsLeft`; `WhoMoves` shows that a step moves one call at most.
* `OrderIgnored`, `AcceptedIsVouchedFor`, `HintAgrees` (with `TypeCorrect` of
  `EmailIdentity`). `IdentityInv`: while the loop runs, the matches are what it has
  yet to visit and the one it remembers; after it, the identity is that of the
  standard claim or of the only match. From `AddressAssumption` and `NameAssumption`.
* `PurposesApart`, `LifetimeHonoured` (with `BrokerTypeCorrect`). `BrokerInv`:
  `WellMinted` says what an artifact's key, kid and exp owe to its minting. The rest
  is that equal key terms were derived alike, and arithmetic on seconds and
  fractions. From `SecretAssumption`, `PurposeAssumption` and `TimeAssumption`.
* `WorkIsBounded`. `StepsLeft` counts down the program counter, a second round adding
  as much again, and every step of a call lowers it (`StepIsProgress`, `StepsUnderWay`).
  What the others do does not occur in it: `StepIsOwn` shows that a step of one call
  leaves every other call alone. As the measure falls strictly, a call passes each
  exchange of each round once.
* `CacheImplementsDirectory`. Every step of `JWKSCache` is a step of
  `KeyDirectory` or leaves it unchanged, given `TrustInv`.

Only model-checked: `CallsReturn` and `VerdictsCome`, which are liveness under
fairness and beyond the prover. `WorkIsBounded` and `VerificationIsBounded` prove the
part of them that is not about fairness: a goroutine that takes steps cannot take
them for ever. That it can always take one is what TLC adds.

`tlapm` proves every property of a passing run but these two.

## Not modelled

* `ResolveUserInfoEndpoint`: one uncached request, no state.
* `RolesFromClaim`, `UsernameFromExtra`, `BuildClickHouseHeaders`,
  `StringFromClaims`, `UnixFromClaims`: one pass over one argument, without state,
  order or failure. A model would repeat the code.
* The URL, path, PKCE and scope helpers of the broker: they rewrite a string
  character by character. Where their result matters to a decision (trailing slashes
  and blanks of issuers and audiences) the string is a model value with its trimmed
  form.
* The JSON and HTML response writers, logging, configuration structs, error texts
  and context accessors: output and data, no behaviour to check.
* The host's routes. The handlers that mint, redeem and forward are not in this
  repository; `EmailIdentity` and `BrokerJWE` drive the SDK as its comments say a
  host does.

Four hazards have no property, because nothing in the repository says what should
happen. An artifact's `exp` beyond `int64` may or may not be past. An out-of-range
`float64` time that converts to a negative number is skipped by the lax path, a future
not-before included; `LegacySound` is about times that fit (`WellFormed`). With two
matching extra claims the username hint is whichever the map yields first, and the
comment on `EmailFromNamespacedExtra` promises no more. And the comment on
`DecodeOAuthJWE` has the empty kid select the legacy key
(`src/broker/helpers.go:134`), where the code has every kid but `v1` do so (line 142):
`PurposesKeptApart` holds under every kid, so it does not tell the two apart.

An issuer that moves its JWKS and also rotates its keys is beyond the `verifier` run,
which allows for one change; `SettledTokensVerifyHolds`,
`AcceptedKeysWereServedHolds` and `VerifierImplementsVerification` are proved for any
number of both. That concurrent misses are not coalesced is bounded by `WorkRunsOut`,
call by call; nothing promises a bound on them together.
