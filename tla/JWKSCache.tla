------------------------------ MODULE JWKSCache ------------------------------
(***************************************************************************)
(* The Verifier's JWKS cache and the key resolution that drives it         *)
(* (oauth/jwks.go: fetchJWKSet, invalidateJWKSCache, the health snapshot;  *)
(* oauth/jwt.go: parseAndFetchKeys after the JWKS URI has been resolved).  *)
(*                                                                         *)
(* Each member of Calls is a goroutine that runs parseAndFetchKeys again   *)
(* and again on one shared Verifier.  A step is one critical section of    *)
(* jwksMu or healthMu, one reading of the clock, or one HTTP exchange with *)
(* the IdP; between any two of them other goroutines, the clock and the    *)
(* IdP move.  The IdP is the environment: at any instant it serves some    *)
(* set of keys at each JWKS URI, and it may answer a request with that set *)
(* or fail in any of the ways fetchJWKSet tells apart.                     *)
(***************************************************************************)
EXTENDS IdP

CONSTANTS
  Calls,          \* goroutines calling into the shared Verifier
  TokenKids,      \* the kid headers of the tokens presented (bounds the model)
  NoURI,          \* jwksCacheURL of a new Verifier
  ConfiguredTTL,  \* OAuthConfig.JWKSCacheTTL
  DefaultTTL      \* the package constant jwksCacheTTL

ASSUME CallAssumption ==
  /\ TokenKids \subseteq Kids \cup {NoKid}
  /\ NoURI \notin URIs

ASSUME TTLAssumption ==
  /\ ConfiguredTTL \in Int
  /\ DefaultTTL \in Nat \ {0}

VARIABLES
  jwks,         \* jwksCache, jwksCacheURL, jwksCacheExpiresAt
  health,       \* jwksLastFetchAttempt, jwksLastFetchSuccess, jwksLastFetchError
  call,         \* the locals of each goroutine
  absent,       \* history: calls whose kid the IdP has not published throughout
  restored      \* history: calls before whose second lookup another one stored

history == <<absent, restored>>
vars    == <<clock, published, withdrawnAt, jwks, health, call, absent, restored>>

TTL == EffectiveTTL(ConfiguredTTL, DefaultTTL)

-----------------------------------------------------------------------------
\* The values of the variables.

\* Where a goroutine stands in parseAndFetchKeys / fetchJWKSet.
Labels == {"idle", "clock", "lookup", "attempt", "http", "store", "report", "resolve"}

\* What each failure of the HTTP exchange is turned into: ErrTransient for
\* transport errors, aborted bodies and 5xx, a permanent error for the rest.
FaultClass ==
  [badRequest |-> "permanent", transport |-> "transient", bodyRead |-> "transient",
   status5xx |-> "transient", status3xx4xx |-> "permanent", unparsable |-> "permanent"]

Errors == {"none", "transient", "permanent", "kidNotFound", "headerParse"}

CallRecord == [pc : Labels, uri : URIs \cup {NoURI}, kid : Kids \cup {NoKid},
               now : Time, keys : SUBSET Keys, retried : BOOLEAN, err : Errors]

\* The locals of a call that has returned: only its result remains.
Returned(keys, err) ==
  [pc |-> "idle", uri |-> NoURI, kid |-> NoKid, now |-> ZeroTime,
   keys |-> keys, retried |-> FALSE, err |-> err]

Idle == Returned({}, "none")

Called(u, kid) ==
  [pc |-> "clock", uri |-> u, kid |-> kid, now |-> ZeroTime,
   keys |-> {}, retried |-> FALSE, err |-> "none"]

\* (*Verifier).JWKSHealth: the snapshot a readiness probe reads, and the state
\* it is read from.
Health == [attempt : Time, success : Time, err : {"nil", "transient", "permanent"}]

\* The goroutines between recording an attempt and recording its result.
InFetch == {c \in Calls : call[c].pc \in {"http", "store", "report"}}

-----------------------------------------------------------------------------
Init ==
  /\ IdPInit
  /\ jwks = [keys |-> {}, url |-> NoURI, expiresAt |-> ZeroTime]
  /\ health = [attempt |-> ZeroTime, success |-> ZeroTime, err |-> "nil"]
  /\ call = [c \in Calls |-> Idle]
  /\ absent = {}
  /\ restored = {}

\* The environment: time passes, the IdP changes the document at one URI.

Tick ==
  /\ ClockMoves
  /\ UNCHANGED <<jwks, health, call, history>>

\* The IdP serves no key with this kid.
Unpublished(kid, K) == kid # NoKid /\ Candidates(kid, K) = {}

Publish(u, K) ==
  /\ Rotate(u, K)
  /\ absent' = absent \cup {c \in Calls : /\ call[c].pc # "idle"
                                          /\ call[c].uri = u
                                          /\ Unpublished(call[c].kid, K)}
  /\ UNCHANGED <<jwks, health, call, restored>>

-----------------------------------------------------------------------------
\* parseAndFetchKeys, from the parsed token header on.

\* parseAndFetchKeys returns.
Return(c, keys, err) ==
  /\ call' = [call EXCEPT ![c] = Returned(keys, err)]
  /\ absent' = absent \ {c}
  /\ restored' = restored \ {c}

\* A call comes in with its JWKS URI resolved and its token parsed.
Begin(c, u, kid) ==
  /\ call[c].pc = "idle"
  /\ call' = [call EXCEPT ![c] = Called(u, kid)]
  /\ absent' = absent \cup (IF Unpublished(kid, published[u]) THEN {c} ELSE {})
  /\ UNCHANGED <<clock, idp, jwks, health, restored>>

\* jwt.ParseSigned rejects the token: no JWKS work is done.
HeaderParseFails(c) ==
  /\ call[c].pc = "idle"
  /\ Return(c, {}, "headerParse")
  /\ UNCHANGED <<clock, idp, jwks, health>>

-----------------------------------------------------------------------------
\* fetchJWKSet.

\* now := time.Now()
ReadClock(c) ==
  /\ call[c].pc = "clock"
  /\ call' = [call EXCEPT ![c].pc = "lookup", ![c].now = clock]
  /\ UNCHANGED <<clock, idp, jwks, health, history>>

\* Mutants: the cached set is used at its very deadline; for any URI.
UsableAtDeadline(u, t) == jwks.keys # {} /\ jwks.url = u /\ jwks.expiresAt >= t
UsableForAnyURI(u, t)  == jwks.keys # {} /\ jwks.expiresAt > t

\* The cache check made under jwksMu.RLock.
Usable(u, t) ==
  /\ jwks.keys # {}
  /\ jwks.url = u
  /\ jwks.expiresAt > t

LookupHit(c) ==
  /\ call[c].pc = "lookup"
  /\ Usable(call[c].uri, call[c].now)
  /\ call' = [call EXCEPT ![c].pc = "resolve", ![c].keys = jwks.keys]
  /\ UNCHANGED <<clock, idp, jwks, health, history>>

LookupMiss(c) ==
  /\ call[c].pc = "lookup"
  /\ ~ Usable(call[c].uri, call[c].now)
  /\ call' = [call EXCEPT ![c].pc = "attempt"]
  /\ restored' = restored \ {c}
  /\ UNCHANGED <<clock, idp, jwks, health, absent>>

\* Mutant: only the result of a fetch is recorded, not the attempt.
AttemptNotRecorded(c) == health

\* v.jwksLastFetchAttempt = now
Attempted(c) == [health EXCEPT !.attempt = call[c].now]

RecordAttempt(c) ==
  /\ call[c].pc = "attempt"
  /\ health' = Attempted(c)
  /\ call' = [call EXCEPT ![c].pc = "http"]
  /\ UNCHANGED <<clock, idp, jwks, history>>

\* The IdP answers 200 with the document it serves at this instant.
Respond(c) ==
  /\ call[c].pc = "http"
  /\ call' = [call EXCEPT ![c].pc = "store", ![c].keys = published[call[c].uri]]
  /\ UNCHANGED <<clock, idp, jwks, health, history>>

\* The exchange fails: bad URL, refused connection, cancelled context or
\* httpTimeout (transport), aborted body, error status, or a body that is
\* not a key set.
Fault(c) ==
  /\ call[c].pc = "http"
  /\ \E f \in DOMAIN FaultClass :
       call' = [call EXCEPT ![c].pc = "report", ![c].err = FaultClass[f]]
  /\ UNCHANGED <<clock, idp, jwks, health, history>>

\* Mutant: the entry's life is counted from the moment it is stored.
DeadlineFromStore(c) == JitteredExpiry(clock, TTL)

\* The deadlines fetchJWKSet can stamp on the set it has fetched.
Deadline(c) == JitteredExpiry(call[c].now, TTL)

\* A call that has invalidated the cache and not yet looked at it again.
Refetching(c) == call[c].retried /\ call[c].pc \in {"clock", "lookup"}

\* The fetched set replaces the cached one, under jwksMu.Lock.
Store(c) ==
  /\ call[c].pc = "store"
  /\ \E d \in Deadline(c) :
       jwks' = [keys |-> call[c].keys, url |-> call[c].uri, expiresAt |-> d]
  /\ call' = [call EXCEPT ![c].pc = "report"]
  /\ restored' = restored \cup {q \in Calls : Refetching(q)}
  /\ UNCHANGED <<clock, idp, health, absent>>

\* Mutants: a success stamped with the time the fetch began; a failure that
\* leaves the last error alone.
SnapshotFromStart(c) ==
  IF call[c].err = "none" THEN [health EXCEPT !.success = call[c].now, !.err = "nil"]
                          ELSE [health EXCEPT !.err = call[c].err]
SnapshotKeepsError(c) ==
  IF call[c].err = "none" THEN [health EXCEPT !.success = clock, !.err = "nil"]
                          ELSE health

\* The health snapshot after the deferred function of fetchJWKSet has run.
Snapshot(c) ==
  IF call[c].err = "none" THEN [health EXCEPT !.success = clock, !.err = "nil"]
                          ELSE [health EXCEPT !.err = call[c].err]

\* The deferred function, and the return to parseAndFetchKeys: a set goes on
\* to the kid lookup, an error is returned as it is.
RecordResult(c) ==
  /\ call[c].pc = "report"
  /\ health' = Snapshot(c)
  /\ \/ /\ call[c].err = "none"
        /\ call' = [call EXCEPT ![c].pc = "resolve"]
        /\ UNCHANGED history
     \/ /\ call[c].err # "none"
        /\ Return(c, {}, call[c].err)
  /\ UNCHANGED <<clock, idp, jwks>>

-----------------------------------------------------------------------------
\* parseAndFetchKeys, with the set fetchJWKSet returned.

KidMissing(c) == call[c].kid # NoKid /\ Candidates(call[c].kid, call[c].keys) = {}

SelectKeys(c) ==
  /\ call[c].pc = "resolve"
  /\ ~ KidMissing(c)
  /\ Return(c, Candidates(call[c].kid, call[c].keys), "none")
  /\ UNCHANGED <<clock, idp, jwks, health>>

\* Mutants: the retry leaves the entry usable; it ages the entry instead of
\* clearing its deadline; the retry is not one-shot.
InvalidatedNot == jwks
InvalidatedByAge == [jwks EXCEPT !.expiresAt = @ - 2 * TTL]
RetryAllowedAlways(c) == TRUE

\* invalidateJWKSCache: the cache as it leaves it.
Invalidated == [jwks EXCEPT !.expiresAt = ZeroTime]

\* The first miss is retried, the second is not.
RetryAllowed(c) == ~ call[c].retried

\* The kid is missing for the first time: invalidate and fetch once more.
InvalidateJWKSCache(c) ==
  /\ call[c].pc = "resolve"
  /\ KidMissing(c)
  /\ RetryAllowed(c)
  /\ jwks' = Invalidated
  /\ call' = [call EXCEPT ![c].pc = "clock", ![c].retried = TRUE, ![c].keys = {}]
  /\ restored' = restored \ {c}
  /\ UNCHANGED <<clock, idp, health, absent>>

\* The kid is missing again: kidNotFoundError.
KidNotFound(c) ==
  /\ call[c].pc = "resolve"
  /\ KidMissing(c)
  /\ ~ RetryAllowed(c)
  /\ Return(c, {}, "kidNotFound")
  /\ UNCHANGED <<clock, idp, jwks, health>>

-----------------------------------------------------------------------------
\* The steps of a call that is under way.
Step(c) ==
  \/ ReadClock(c)
  \/ LookupHit(c)
  \/ LookupMiss(c)
  \/ RecordAttempt(c)
  \/ Respond(c)
  \/ Fault(c)
  \/ Store(c)
  \/ RecordResult(c)
  \/ SelectKeys(c)
  \/ InvalidateJWKSCache(c)
  \/ KidNotFound(c)

Next ==
  \/ Tick
  \/ \E u \in URIs, K \in SUBSET Keys : Publish(u, K)
  \/ \E c \in Calls, u \in URIs, kid \in TokenKids : Begin(c, u, kid)
  \/ \E c \in Calls : HeaderParseFails(c)
  \/ \E c \in Calls : Step(c)

\* A goroutine under way keeps running, and every HTTP exchange ends, at the
\* latest when the client's httpTimeout fires.  Nothing is assumed of the
\* clock, of the IdP or of the callers.
Fairness == \A c \in Calls : WF_vars(Step(c))

Spec == Init /\ [][Next]_vars /\ Fairness

-----------------------------------------------------------------------------
\* Properties.

\* Every variable has its type.
TypeOK ==
  /\ IdPTypeOK
  /\ jwks \in [keys : SUBSET Keys, url : URIs \cup {NoURI}, expiresAt : Time]
  /\ health \in Health
  /\ call \in [Calls -> CallRecord]
  /\ absent \subseteq Calls
  /\ restored \subseteq Calls

\* How long a key the IdP has withdrawn may still be handed out.
Window == TrustWindow(TTL)

\* Whatever the interleaving of fetches, rotations and invalidations, a call
\* is only ever handed keys that the IdP published at the very URI the call
\* asked for, less than 110% of the TTL before the call's fetchJWKSet began.
\* A late response that overwrites a newer one, an entry of another URI and a
\* deadline counted from the wrong instant would each break it.
KeysWithinTrustWindow ==
  \A c \in Calls : call[c].pc = "resolve" =>
    \A k \in call[c].keys : PublishedAfter(call[c].uri, k, call[c].now - Window)

\* A kid is reported missing only for one of two reasons: the IdP did not
\* publish it at some instant of the call, or another call stored a set
\* between this call's invalidation and its second lookup, which found it.
KidMissExplained ==
  \A c \in Calls : /\ call[c].pc = "resolve"
                   /\ call[c].retried
                   /\ KidMissing(c)
                   => c \in absent \cup restored

\* "All zero values mean the Verifier has not yet attempted a fetch": while the
\* snapshot is all zero no fetch is under way, none has ever put a set in the
\* cache, and none has failed.
ZeroHealthMeansNoFetch ==
  health.attempt = ZeroTime => /\ InFetch = {}
                               /\ health.success = ZeroTime
                               /\ health.err = "nil"
                               /\ jwks.url = NoURI

\* The success time a probe reads never goes back, although fetches that began
\* earlier may end later: it is read under healthMu.
SuccessNeverGoesBack == [][health'.success >= health.success]_vars

\* How many more steps a call can take: a round of fetchJWKSet and the kid
\* lookup are at most seven, one of them an exchange, and there are two rounds.
StepsLeft(r) ==
  [idle |-> 0, clock |-> 7, lookup |-> 6, attempt |-> 5, http |-> 4, store |-> 3,
   report |-> 2, resolve |-> 1][r.pc] + (IF r.pc = "idle" \/ r.retried THEN 0 ELSE 7)

\* Misses are not coalesced, so any number of goroutines may be fetching; but
\* each of them is nearer its return after every step it takes, and nobody else
\* sets it back: a call costs the IdP at most two exchanges, whatever kids it is
\* presented with, however often the others invalidate or overwrite the entry.
WorkRunsOut ==
  [][\A c \in Calls : call[c].pc # "idle" /\ call'[c] # call[c]
                        => StepsLeft(call'[c]) < StepsLeft(call[c])]_vars

\* A call that has begun returns, whatever the IdP and the other calls do.
CallsReturn == \A c \in Calls : call[c].pc = "clock" ~> call[c].pc = "idle"

\* "JIT-refetched JWKS still missing this kid" (oauth/jwt.go), after an
\* invalidation that "forces the next fetchJWKSet call to re-fetch"
\* (oauth/jwks.go): a kid is given up only if the IdP did not publish it at
\* some instant of the call.
KidMissMeansUnpublished ==
  \A c \in Calls : /\ call[c].pc = "resolve"
                   /\ call[c].retried
                   /\ KidMissing(c)
                   => c \in absent

\* "JWKSHealth returns the most recent JWKS-fetch attempt" (oauth/jwks.go):
\* the attempt reported never goes back to an earlier one.
AttemptNeverGoesBack == [][health'.attempt >= health.attempt]_vars

=============================================================================
