------------------------- MODULE VerifierInvariants -------------------------
(***************************************************************************)
(* The strengthening behind the properties of Verifier.  TrustInv and      *)
(* MetaInv say that what a cache holds was served recently; the parts here *)
(* say the converse, that what has been served for long is in the cache.   *)
(***************************************************************************)
EXTENDS VerifierRefinement, JWKSCacheInvariants

MetaI == INSTANCE AuthServerMetaInvariants WITH
  Callers <- Calls, Spellings <- {Issuer}, NormalIssuer <- [s \in {Issuer} |-> Issuer],
  Issuers <- {Issuer}, JWKSURIs <- URIs

\* A call is in the metadata cache or, once its JWKS URI is known, in the JWKS
\* cache, and pending in either.
CallsInStep ==
  \A c \in Calls :
    /\ task[c].pc # "idle" => verdict[c] = "pending"
    /\ call[c].pc # "idle" =>
         /\ verdict[c] = "pending"
         /\ call[c].kid = token[c].kid
         /\ task[c].pc = "idle"
         /\ task[c].issuer = Issuer
         /\ task[c].answer = call[c].uri
         /\ call[c].pc # "clock" => task[c].at <= call[c].now

ChangesInOrder ==
  /\ movedAt <= clock
  /\ \A u \in URIs, k \in Keys : listedSince[u][k] <= clock

-----------------------------------------------------------------------------
\* The metadata: what has been advertised for long is in the entry, in a
\* document not yet stored, and in the answer a call goes by.

EntryCurrent ==
  /\ asMeta.url = Issuer
  /\ movedAt < asMeta.expiresAt - Window - slowest
  => asMeta.uri = advertised[Issuer]

HeldCurrent ==
  \A c \in Calls : /\ task[c].pc = "store"
                   /\ movedAt < task[c].served
                   => task[c].answer = advertised[Issuer]

AnswerCurrent ==
  \A c \in Calls : /\ call[c].pc # "idle"
                   /\ movedAt <= task[c].at - Settling
                   => call[c].uri = advertised[Issuer]

-----------------------------------------------------------------------------
\* The keys: every key that u has listed since before t, or at t, is in K.

ListsBefore(u, t, K) == \A k \in published[u] : listedSince[u][k] < t => k \in K
ListsAt(u, t, K)     == \A k \in published[u] : listedSince[u][k] <= t => k \in K

CacheComplete ==
  jwks.url \in URIs => ListsBefore(jwks.url, jwks.expiresAt - Window, jwks.keys)

FetchComplete ==
  \A c \in Calls : HoldsFetchedSet(c) => ListsBefore(call[c].uri, call[c].now, call[c].keys)

ResolveComplete ==
  \A c \in Calls : call[c].pc = "resolve" =>
    ListsAt(call[c].uri, call[c].now - Window, call[c].keys)

KeysComplete == CacheComplete /\ FetchComplete /\ ResolveComplete

VerifierInv ==
  /\ TrustInv
  /\ MetaI!MetaInv
  /\ OwnTypeOK
  /\ CallsInStep
  /\ ChangesInOrder
  /\ EntryCurrent
  /\ HeldCurrent
  /\ AnswerCurrent
  /\ KeysComplete

=============================================================================
