--------------------------- MODULE AuthServerMeta ---------------------------
(***************************************************************************)
(* The Verifier's authorization server metadata cache                      *)
(* (oauth/discovery.go: fetchAuthServerMeta; oauth/jwks.go:                *)
(* resolveJWKSURL).                                                        *)
(*                                                                         *)
(* Each member of Callers is a goroutine that asks one shared Verifier for *)
(* the metadata of an issuer again and again.  A step is one critical      *)
(* section of asMetaMu or one discovery at the issuer's well-known         *)
(* endpoints.                                                              *)
(***************************************************************************)
EXTENDS IssuerEndpoints

CONSTANTS
  Callers,        \* goroutines calling into the shared Verifier
  Spellings,      \* the issuer strings callers pass
  NormalIssuer,   \* each of them without surrounding blanks and trailing slashes
  ConfiguredTTL,  \* OAuthConfig.JWKSCacheTTL
  DefaultTTL      \* the package constant jwksCacheTTL

ASSUME IssuerAssumption ==
  /\ NoIssuer \notin Issuers
  /\ NormalIssuer \in [Spellings -> Issuers \cup {NoIssuer}]

ASSUME MetaTTLAssumption ==
  /\ ConfiguredTTL \in Int
  /\ DefaultTTL \in Nat \ {0}

VARIABLES
  asMeta,       \* asMetaCache, asMetaCacheURL, asMetaExpiresAt
  task,         \* the locals of each goroutine
  slowest       \* history: the longest time from an answer to its store

vars   == <<clock, advertised, replacedAt, asMeta, task, slowest>>

TTL    == EffectiveTTL(ConfiguredTTL, DefaultTTL)
Window == TrustWindow(TTL)

-----------------------------------------------------------------------------
\* A goroutine's locals: the issuer asked for, the answer and the instants at
\* which it was given by the issuer (served) and to the caller (at).
TaskRecord == [pc : {"idle", "lookup", "discover", "store"}, issuer : Issuers \cup {NoIssuer},
               answer : Answers, served : Time, at : Time]

Asking(i) == [pc |-> "lookup", issuer |-> i, answer |-> NoDocument,
              served |-> ZeroTime, at |-> ZeroTime]

Answered(i, answer) == [pc |-> "idle", issuer |-> i, answer |-> answer,
                        served |-> ZeroTime, at |-> clock]

Untouched == [pc |-> "idle", issuer |-> NoIssuer, answer |-> NoDocument,
              served |-> ZeroTime, at |-> ZeroTime]

Init ==
  /\ EndpointsInit
  /\ asMeta = [issuer |-> NoIssuer, uri |-> NoURI, url |-> NoIssuer, expiresAt |-> ZeroTime]
  /\ task = [c \in Callers |-> Untouched]
  /\ slowest = 0

-----------------------------------------------------------------------------
\* The environment: time passes, an issuer changes what it serves.

Tick ==
  /\ TimePasses
  /\ UNCHANGED <<asMeta, task, slowest>>

Advertise(i, a) ==
  /\ Replace(i, a)
  /\ UNCHANGED <<asMeta, task, slowest>>

-----------------------------------------------------------------------------
\* fetchAuthServerMeta.

\* A blank issuer is refused: "issuer is required".
FetchAuthServerMeta(c, s) ==
  /\ task[c].pc = "idle"
  /\ task' = [task EXCEPT ![c] = IF NormalIssuer[s] = NoIssuer THEN Answered(NoIssuer, NoDocument)
                                                               ELSE Asking(NormalIssuer[s])]
  /\ UNCHANGED <<clock, issuers, asMeta, slowest>>

\* Mutant: the entry answers for any issuer.
CachedForAnyIssuer(i) == asMeta.expiresAt > clock /\ asMeta.issuer # NoIssuer

\* The check under asMetaMu.RLock, which reads the clock inside the lock.
Cached(i) ==
  /\ asMeta.url = i
  /\ asMeta.expiresAt > clock
  /\ asMeta.issuer # NoIssuer

LookupHit(c) ==
  /\ task[c].pc = "lookup"
  /\ Cached(task[c].issuer)
  /\ task' = [task EXCEPT ![c] = Answered(task[c].issuer, asMeta.uri)]
  /\ UNCHANGED <<clock, issuers, asMeta, slowest>>

LookupMiss(c) ==
  /\ task[c].pc = "lookup"
  /\ ~ Cached(task[c].issuer)
  /\ task' = [task EXCEPT ![c].pc = "discover"]
  /\ UNCHANGED <<clock, issuers, asMeta, slowest>>

\* Mutant: nil metadata is not told from a document.
FoundUnchecked(c) == TRUE

\* The nil check on what the discovery returned.
Found(c) == advertised[task[c].issuer] # NoDocument

\* auth.GetAuthServerMetadata finds a document.
Discover(c) ==
  /\ task[c].pc = "discover"
  /\ Found(c)
  /\ task' = [task EXCEPT ![c].pc = "store", ![c].answer = advertised[task[c].issuer],
                          ![c].served = clock]
  /\ UNCHANGED <<clock, issuers, asMeta, slowest>>

\* It finds none and returns nil: a permanent error, which is not cached.
NoMetadata(c) ==
  /\ task[c].pc = "discover"
  /\ ~ Found(c)
  /\ task' = [task EXCEPT ![c] = Answered(task[c].issuer, NoDocument)]
  /\ UNCHANGED <<clock, issuers, asMeta, slowest>>

\* It fails: ErrTransient.  The caller has no answer from any issuer.
DiscoveryFails(c) ==
  /\ task[c].pc = "discover"
  /\ task' = [task EXCEPT ![c] = Untouched]
  /\ UNCHANGED <<clock, issuers, asMeta, slowest>>

\* The entry that replaces the cached one.  The library has checked that the
\* document names the issuer it was asked for.
Stored(c, d) == [issuer |-> task[c].issuer, uri |-> task[c].answer,
                 url |-> task[c].issuer, expiresAt |-> d]

\* Under asMetaMu.Lock: the deadline is counted from the store, not from the
\* discovery.
Store(c) ==
  /\ task[c].pc = "store"
  /\ \E d \in JitteredExpiry(clock, TTL) : asMeta' = Stored(c, d)
  /\ task' = [task EXCEPT ![c] = Answered(task[c].issuer, task[c].answer)]
  /\ slowest' = IF clock - task[c].served > slowest THEN clock - task[c].served ELSE slowest
  /\ UNCHANGED <<clock, issuers>>

Next ==
  \/ Tick
  \/ \E i \in Issuers, a \in Answers : Advertise(i, a)
  \/ \E c \in Callers, s \in Spellings : FetchAuthServerMeta(c, s)
  \/ \E c \in Callers : \/ LookupHit(c)
                        \/ LookupMiss(c)
                        \/ Discover(c)
                        \/ NoMetadata(c)
                        \/ DiscoveryFails(c)
                        \/ Store(c)

Spec == Init /\ [][Next]_vars

-----------------------------------------------------------------------------
\* Properties.

\* Every variable has its type.
TypeOK ==
  /\ EndpointsTypeOK
  /\ asMeta \in [issuer : Issuers \cup {NoIssuer}, uri : Documents,
                 url : Issuers \cup {NoIssuer}, expiresAt : Time]
  /\ task \in [Callers -> TaskRecord]
  /\ slowest \in Nat

\* Whatever the callers and issuers sharing the single entry do, a caller is
\* only told what the issuer it asked for has itself advertised, within 110%
\* of the TTL plus the time a discovery may take before its answer is stored.
\* In particular a JWKS URI that an issuer has left is forgotten, and a
\* permanent "no jwks_uri" is never another issuer's.
AnswersAreRecent ==
  \A c \in Callers : /\ task[c].pc = "idle"
                     /\ task[c].issuer # NoIssuer
                     => AdvertisedAfter(task[c].issuer, task[c].answer,
                                        task[c].at - Window - slowest)

=============================================================================
