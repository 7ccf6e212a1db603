------------------------ MODULE JWKSCacheInvariants ------------------------
(***************************************************************************)
(* The strengthenings that make the safety invariants of JWKSCache         *)
(* inductive.  TLC can evaluate them; JWKSCacheProofs proves them.         *)
(***************************************************************************)
EXTENDS JWKSCacheRefinement

\* Where a goroutine can carry an error of fetchJWKSet, and which; those under
\* way have a URI, and past the first step have read the clock.
CallsInOrder ==
  \A c \in Calls :
    /\ call[c].pc # "idle" => call[c].uri \in URIs
    /\ call[c].pc \notin {"idle", "report"} => call[c].err = "none"
    /\ call[c].pc = "report" => call[c].err \in {"none", "transient", "permanent"}
    /\ call[c].pc \notin {"idle", "clock"} => call[c].now \in Instants

TypeInv == TypeOK /\ CallsInOrder

-----------------------------------------------------------------------------
\* Trust: how a set ages from the response to the cache to the caller.

\* Some key at u has been published at t or later.
PublishedSince(u, k, t) ==
  \/ k \in published[u]
  \/ withdrawnAt[u][k] # ZeroTime /\ t <= withdrawnAt[u][k]

TimesInOrder ==
  /\ \A u \in URIs, k \in Keys : withdrawnAt[u][k] <= clock
  /\ \A c \in Calls : call[c].now <= clock
  /\ jwks.expiresAt <= clock + Window

\* Every cached key was published within Window before the entry's deadline.
CacheTrusted ==
  \A k \in jwks.keys : /\ jwks.url \in URIs
                       /\ PublishedSince(jwks.url, k, jwks.expiresAt - Window)

HoldsFetchedSet(c) ==
  call[c].pc = "store" \/ (call[c].pc = "report" /\ call[c].err = "none")

\* Every key just fetched was published at or after the fetch began.
FetchTrusted ==
  \A c \in Calls : HoldsFetchedSet(c) =>
    \A k \in call[c].keys : PublishedSince(call[c].uri, k, call[c].now)

TrustInv == TypeInv /\ TimesInOrder /\ CacheTrusted /\ FetchTrusted /\ KeysWithinTrustWindow

-----------------------------------------------------------------------------
\* Health: the snapshot is of the past.

HealthInOrder ==
  /\ health.attempt <= clock
  /\ health.success <= clock

HealthInv == TrustInv /\ HealthInOrder /\ ZeroHealthMeansNoFetch

-----------------------------------------------------------------------------
\* Kid misses: what a call that has not been overtaken may rely on.

\* The IdP publishes the kid a call is after, unless the call is absent.
KidPublished ==
  \A c \in Calls \ absent : call[c].pc # "idle" =>
    ~ Unpublished(call[c].kid, published[call[c].uri])

\* So does the set the call has just fetched.
KidFetched ==
  \A c \in Calls \ absent : HoldsFetchedSet(c) => ~ KidMissing(c)

\* Nothing is usable for a call about to look again, unless restored.
CacheInvalidated ==
  \A c \in Calls \ restored : Refetching(c) => jwks.expiresAt = ZeroTime

KidInv == TrustInv /\ KidPublished /\ KidFetched /\ CacheInvalidated /\ KidMissExplained

=============================================================================
