----------------------------- MODULE CacheExpiry -----------------------------
(***************************************************************************)
(* The deadlines of the Verifier's two caches (oauth/jwks.go): the         *)
(* effective TTL and the jittered expiry stamped on an entry when it is    *)
(* written.  Time is a natural number of ticks; the zero time.Time, which  *)
(* lies before every instant the clock can show, is ZeroTime.              *)
(***************************************************************************)
EXTENDS Integers

ZeroTime == 0

\* (*Verifier).jwksCacheTTL: the configured value when positive, otherwise
\* the package default.
EffectiveTTL(configured, default) == IF configured > 0 THEN configured ELSE default

\* Mutant: the jitter window is centred on ttl + ttl/10 instead of on ttl.
JitteredExpiryNotCentred(t, ttl) ==
  LET span == ttl \div 5
  IN  IF ttl > 0 /\ span > 0
      THEN {t + ttl + j : j \in 0 .. span - 1}
      ELSE {t}

\* jitteredExpiry: the set of deadlines that can be drawn for an entry
\* written at t.  rand.Int64N(span) is uniform over 0 .. span - 1; the code
\* uses it only when the window holds at least one value.
JitteredExpiry(t, ttl) ==
  LET span == ttl \div 5
  IN  CASE ttl <= 0              -> {t}
        [] ttl > 0 /\ span <= 0  -> {t + ttl}
        [] ttl > 0 /\ span > 0   -> {t + ttl + (j - ttl \div 10) : j \in 0 .. span - 1}

\* 110% of the TTL: the upper bound the comment on jitteredExpiry promises
\* operators for the life of an entry.
TrustWindow(ttl) == ttl + ttl \div 10

=============================================================================
