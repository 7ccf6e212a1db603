--------------------------- MODULE VerifierProofs ---------------------------
(***************************************************************************)
(* Proofs about the composed Verifier, for every value of the constants.   *)
(***************************************************************************)
EXTENDS VerifierInvariants, JWKSCacheRefinementProofs, TLAPS

USE DEF ZeroTime, Time

MetaP == INSTANCE AuthServerMetaProofs WITH
  Callers <- Calls, Spellings <- {Issuer}, NormalIssuer <- [s \in {Issuer} |-> Issuer],
  Issuers <- {Issuer}, JWKSURIs <- URIs

LEMMA SameInv == MetaI!MetaInv <=> MetaP!MetaInv
BY DEF MetaI!MetaInv, MetaI!TypeOK, MetaI!EndpointsTypeOK, MetaP!EndpointsTypeOK, MetaI!EffectiveTTL, MetaI!TrustWindow, MetaI!ZeroTime, MetaP!EffectiveTTL,
       MetaP!TrustWindow, MetaP!ZeroTime, MetaI!TasksInOrder, MetaI!TimesInOrder,
       MetaI!EntryRecent, MetaI!HeldRecent, MetaI!AnswersAreRecent,
       MetaI!AdvertisedSince, MetaI!AdvertisedAfter, MetaI!Documents, MetaI!Answers,
       MetaI!Time, MetaI!TTL, MetaI!Window, MetaI!TaskRecord, MetaP!MetaInv,
       MetaP!TypeOK, MetaP!TasksInOrder, MetaP!TimesInOrder, MetaP!EntryRecent,
       MetaP!HeldRecent, MetaP!AnswersAreRecent, MetaP!AdvertisedSince,
       MetaP!AdvertisedAfter, MetaP!Documents, MetaP!Answers, MetaP!Time, MetaP!TTL,
       MetaP!Window, MetaP!TaskRecord

LEMMA SameStep == [Meta!Next]_(Meta!vars) => [MetaP!Next]_(MetaP!vars)
BY DEF Meta!vars, Meta!EffectiveTTL, Meta!JitteredExpiry, Meta!ZeroTime, MetaP!EffectiveTTL,
       MetaP!JitteredExpiry, MetaP!ZeroTime, Meta!issuers, Meta!Next, Meta!Tick, Meta!Advertise,
       Meta!TimePasses, Meta!Replace, MetaP!TimePasses, MetaP!Replace,
       Meta!FetchAuthServerMeta, Meta!LookupHit, Meta!LookupMiss, Meta!Discover,
       Meta!NoMetadata, Meta!DiscoveryFails, Meta!Store, Meta!Cached, Meta!Found,
       Meta!Stored, Meta!Answered, Meta!Asking, Meta!Untouched, Meta!Documents,
       Meta!Answers, Meta!TTL, MetaP!vars, MetaP!issuers, MetaP!Next, MetaP!Tick,
       MetaP!Advertise, MetaP!FetchAuthServerMeta, MetaP!LookupHit, MetaP!LookupMiss,
       MetaP!Discover, MetaP!NoMetadata, MetaP!DiscoveryFails, MetaP!Store,
       MetaP!Cached, MetaP!Found, MetaP!Stored, MetaP!Answered, MetaP!Asking,
       MetaP!Untouched, MetaP!Documents, MetaP!Answers, MetaP!TTL

LEMMA SameInit == Meta!Init => MetaP!Init
BY DEF Meta!Init, Meta!EndpointsInit, MetaP!EndpointsInit, Meta!Answers, Meta!Documents, Meta!ZeroTime, Meta!Untouched, MetaP!Init,
       MetaP!Answers, MetaP!Documents, MetaP!ZeroTime, MetaP!Untouched

\* The constants meet the assumptions of AuthServerMeta.
LEMMA MetaAssumptions ==
  /\ NoIssuer \notin {Issuer}
  /\ [s \in {Issuer} |-> Issuer] \in [{Issuer} -> {Issuer} \cup {NoIssuer}]
  /\ NoDocument \notin MetaP!Documents
  /\ Instants \subseteq Nat \ {MetaP!ZeroTime} /\ Instants # {}
  /\ ConfiguredTTL \in Int /\ DefaultTTL \in Nat \ {0}
BY VerifierAssumption, InstantsAssumption, TTLAssumption DEF MetaP!Documents, MetaP!ZeroTime

LEMMA MetaStarts == Meta!Init => MetaI!MetaInv
<1>1. MetaP!Init => MetaP!MetaInv
  BY MetaAssumptions, MetaP!MetaInit
<1> QED BY <1>1, SameInit, SameInv

LEMMA MetaKept == MetaI!MetaInv /\ [Meta!Next]_(Meta!vars) => MetaI!MetaInv'
<1>1. MetaI!MetaInv' <=> MetaP!MetaInv'
  BY SameInv, PTL
<1>2. MetaP!MetaInv /\ [MetaP!Next]_(MetaP!vars) => MetaP!MetaInv'
  BY MetaAssumptions, MetaP!MetaStep
<1>3. MetaI!MetaInv => MetaP!MetaInv
  BY SameInv
<1> QED BY <1>1, <1>2, <1>3, SameStep
-----------------------------------------------------------------------------
\* What the steps below need to know of the types.

LEMMA MetaFacts ==
  ASSUME MetaI!MetaInv
  PROVE  /\ advertised[Issuer] \in URIs \cup {NoURI, NoDocument}
         /\ asMeta.uri \in URIs \cup {NoURI}
         /\ asMeta.expiresAt \in Nat /\ asMeta.expiresAt <= clock + Window
         /\ slowest \in Nat
         /\ task \in [Calls -> MetaI!TaskRecord]
         /\ \A c \in Calls : /\ task[c].served \in Nat /\ task[c].served <= clock
                             /\ task[c].at \in Nat /\ task[c].at <= clock
                             /\ task[c].pc # "idle" => task[c].issuer = Issuer
                             /\ task[c].pc = "store" => task[c].answer \in URIs \cup {NoURI}
BY DEF MetaI!MetaInv, MetaI!TypeOK, MetaI!EndpointsTypeOK, MetaI!TasksInOrder, MetaI!TimesInOrder, MetaI!TaskRecord,
       MetaI!Documents, MetaI!Answers, MetaI!Time, MetaI!Window, MetaI!TTL, MetaI!TrustWindow,
       MetaI!EffectiveTTL, Window, TTL, TrustWindow, EffectiveTTL

LEMMA OwnFacts ==
  ASSUME VerifierInv
  PROVE  /\ movedAt \in Nat /\ movedAt <= clock
         /\ \A u \in URIs, k \in Keys : /\ listedSince[u][k] \in Nat
                                        /\ listedSince[u][k] <= clock
         /\ published \in [URIs -> SUBSET Keys]
         /\ Window \in Nat \ {0} /\ Window \in Int
         /\ jwks.expiresAt <= clock + Window
         /\ \A c \in Calls : call[c].pc # "idle" => call[c].uri \in URIs
         /\ \A c \in Calls : call[c].now \in Int
         /\ clock \in Int
         /\ Typed
BY Typing, WindowPositive
   DEF VerifierInv, OwnTypeOK, ChangesInOrder, Typed, TypeInv, TypeOK, IdPTypeOK, TrustInv,
       TimesInOrder, CallsInOrder

-----------------------------------------------------------------------------
\* The keys: what has been listed for long is found.

\* A step that changes the locals of one goroutine only.
LEMMA KeysFrame ==
  ASSUME VerifierInv, NEW c \in Calls, UNCHANGED <<published, listedSince, jwks>>,
         \A q \in Calls \ {c} : call'[q] = call[q],
         HoldsFetchedSet(c)' => ListsBefore(call'[c].uri, call'[c].now, call'[c].keys),
         call'[c].pc = "resolve" => ListsAt(call'[c].uri, call'[c].now - Window, call'[c].keys)
  PROVE  KeysComplete'
BY DEF VerifierInv, KeysComplete, CacheComplete, FetchComplete, ResolveComplete, HoldsFetchedSet,
       ListsBefore, ListsAt

LEMMA FetchingKeepsKeys ==
  ASSUME VerifierInv, NEW c \in Calls, Step(c), UNCHANGED listedSince
  PROVE  KeysComplete'
<1>a. Typed /\ Window \in Nat \ {0} /\ call[c].now \in Int /\ call \in [Calls -> CallRecord]
  BY OwnFacts DEF Typed
<1>b. \A u \in URIs, k \in Keys : listedSince[u][k] \in Nat
  BY OwnFacts
<1>c. UNCHANGED published
  BY DEF Step, ReadClock, LookupHit, LookupMiss, RecordAttempt, Respond, Fault, Store, RecordResult,
         SelectKeys, InvalidateJWKSCache, KidNotFound, idp
<1>1. CASE ReadClock(c) \/ LookupMiss(c) \/ RecordAttempt(c) \/ Fault(c)
  <2>1. UNCHANGED jwks /\ \A q \in Calls \ {c} : call'[q] = call[q]
    BY <1>1, <1>a DEF ReadClock, LookupMiss, RecordAttempt, Fault
  <2>2. ~ HoldsFetchedSet(c)' /\ call'[c].pc # "resolve"
    BY <1>1, <1>a, FaultClasses
       DEF ReadClock, LookupMiss, RecordAttempt, Fault, HoldsFetchedSet, CallRecord
  <2> QED BY <1>c, <2>1, <2>2, KeysFrame
<1>2. CASE LookupHit(c)
  <2>1. /\ UNCHANGED jwks /\ \A q \in Calls \ {c} : call'[q] = call[q]
        /\ call'[c].pc = "resolve" /\ call'[c].keys = jwks.keys /\ call'[c].now = call[c].now
        /\ call'[c].uri = jwks.url /\ jwks.url \in URIs /\ call[c].now < jwks.expiresAt
    BY <1>2, <1>a, OwnFacts DEF LookupHit, Usable, CallRecord, Typed
  <2>2. ListsAt(jwks.url, call[c].now - Window, jwks.keys)
    <3> SUFFICES ASSUME NEW k \in published[jwks.url], listedSince[jwks.url][k] <= call[c].now - Window
                 PROVE  k \in jwks.keys
      BY DEF ListsAt
    <3>1. k \in Keys
      BY <2>1, OwnFacts
    <3>2. listedSince[jwks.url][k] \in Nat /\ jwks.expiresAt \in Nat
      BY <1>a, <1>b, <2>1, <3>1 DEF Typed
    <3>3. listedSince[jwks.url][k] < jwks.expiresAt - Window
      BY <1>a, <2>1, <3>2
    <3> QED BY <2>1, <3>3 DEF VerifierInv, KeysComplete, CacheComplete, ListsBefore
  <2>3. ~ HoldsFetchedSet(c)'
    BY <2>1 DEF HoldsFetchedSet
  <2> QED BY <1>c, <2>1, <2>2, <2>3, KeysFrame
<1>3. CASE Respond(c)
  <2>1. /\ UNCHANGED jwks /\ \A q \in Calls \ {c} : call'[q] = call[q]
        /\ call'[c].pc = "store" /\ call'[c].keys = published[call[c].uri]
        /\ call'[c].uri = call[c].uri
    BY <1>3, <1>a DEF Respond, CallRecord
  <2>2. ListsBefore(call'[c].uri, call'[c].now, call'[c].keys)
    BY <2>1 DEF ListsBefore
  <2> QED BY <1>c, <2>1, <2>2, KeysFrame
<1>4. CASE Store(c)
  <2>1. PICK d \in Deadline(c) :
          jwks' = [keys |-> call[c].keys, url |-> call[c].uri, expiresAt |-> d]
    BY <1>4 DEF Store
  <2>2. d \in Nat /\ d <= call[c].now + Window
    BY <1>a, <2>1, TTLPositive, JitterBounds DEF Deadline, Window, Typed
  <2>3. ListsBefore(call[c].uri, call[c].now, call[c].keys) /\ call[c].uri \in URIs
    BY <1>4, OwnFacts DEF Store, VerifierInv, KeysComplete, FetchComplete, HoldsFetchedSet
  <2>4. CacheComplete'
    <3> SUFFICES ASSUME NEW k \in published[call[c].uri], listedSince[call[c].uri][k] < d - Window
                 PROVE  k \in call[c].keys
      BY <1>c, <2>1 DEF CacheComplete, ListsBefore
    <3>1. listedSince[call[c].uri][k] \in Nat
      BY <1>b, <2>3, OwnFacts
    <3> QED BY <1>a, <2>2, <2>3, <3>1 DEF ListsBefore
  <2>5. /\ \A q \in Calls : HoldsFetchedSet(q)' => HoldsFetchedSet(q)
        /\ \A q \in Calls : call'[q].pc = "resolve" => call[q].pc = "resolve"
        /\ \A q \in Calls : /\ call'[q].uri = call[q].uri /\ call'[q].now = call[q].now
                            /\ call'[q].keys = call[q].keys
    BY <1>4, <1>a DEF Store, HoldsFetchedSet, CallRecord
  <2>6. FetchComplete' /\ ResolveComplete'
    BY <1>c, <2>5 DEF VerifierInv, KeysComplete, FetchComplete, ResolveComplete, ListsBefore, ListsAt
  <2> QED BY <2>4, <2>6 DEF KeysComplete
<1>5. CASE RecordResult(c) /\ call[c].err = "none"
  <2>1. /\ UNCHANGED jwks /\ \A q \in Calls \ {c} : call'[q] = call[q]
        /\ call'[c].pc = "resolve" /\ call'[c].keys = call[c].keys /\ call'[c].now = call[c].now
        /\ call'[c].uri = call[c].uri
    BY <1>5, <1>a DEF RecordResult, CallRecord
  <2>2. ListsBefore(call[c].uri, call[c].now, call[c].keys) /\ call[c].uri \in URIs
    BY <1>5, OwnFacts DEF RecordResult, VerifierInv, KeysComplete, FetchComplete, HoldsFetchedSet
  <2>3. ListsAt(call[c].uri, call[c].now - Window, call[c].keys)
    <3> SUFFICES ASSUME NEW k \in published[call[c].uri],
                        listedSince[call[c].uri][k] <= call[c].now - Window
                 PROVE  k \in call[c].keys
      BY DEF ListsAt
    <3>1. listedSince[call[c].uri][k] \in Nat
      BY <1>b, <2>2, OwnFacts
    <3> QED BY <1>a, <2>2, <3>1 DEF ListsBefore
  <2>4. ~ HoldsFetchedSet(c)'
    BY <2>1 DEF HoldsFetchedSet
  <2> QED BY <1>c, <2>1, <2>3, <2>4, KeysFrame
<1>6. CASE (RecordResult(c) /\ call[c].err # "none") \/ SelectKeys(c) \/ KidNotFound(c)
  <2>1. PICK K, e : Return(c, K, e)
    BY <1>6 DEF RecordResult, SelectKeys, KidNotFound
  <2>2. UNCHANGED jwks
    BY <1>6 DEF RecordResult, SelectKeys, KidNotFound
  <2>3. call'[c].pc = "idle" /\ \A q \in Calls \ {c} : call'[q] = call[q]
    BY <1>a, <2>1, ReturnIdles
  <2>4. ~ HoldsFetchedSet(c)' /\ call'[c].pc # "resolve"
    BY <2>3 DEF HoldsFetchedSet
  <2> QED BY <1>c, <2>2, <2>3, <2>4, KeysFrame
<1>7. CASE InvalidateJWKSCache(c)
  <2>1. jwks'.expiresAt = 0 /\ jwks'.url = jwks.url
    BY <1>7, <1>a DEF InvalidateJWKSCache, Invalidated, Typed, TypeInv, TypeOK
  <2>2. CacheComplete'
    <3> SUFFICES ASSUME jwks.url \in URIs, NEW k \in published[jwks.url]
                 PROVE  ~ (listedSince[jwks.url][k] < 0 - Window)
      BY <1>c, <2>1 DEF CacheComplete, ListsBefore
    <3>1. listedSince[jwks.url][k] \in Nat
      BY <1>b, OwnFacts
    <3> QED BY <1>a, <3>1
  <2>3. /\ \A q \in Calls : HoldsFetchedSet(q)' => HoldsFetchedSet(q) /\ q # c
        /\ \A q \in Calls : call'[q].pc = "resolve" => q # c
        /\ \A q \in Calls \ {c} : call'[q] = call[q]
    BY <1>7, <1>a DEF InvalidateJWKSCache, HoldsFetchedSet, CallRecord
  <2>4. FetchComplete' /\ ResolveComplete'
    BY <1>c, <2>3 DEF VerifierInv, KeysComplete, FetchComplete, ResolveComplete, ListsBefore, ListsAt
  <2> QED BY <2>2, <2>4 DEF KeysComplete
<1> QED BY <1>1, <1>2, <1>3, <1>4, <1>5, <1>6, <1>7 DEF Step

LEMMA RotatingKeepsKeys ==
  ASSUME VerifierInv, Rotating
  PROVE  KeysComplete' /\ movedAt' <= clock' /\ OwnTypeOK'
         /\ \A u \in URIs, k \in Keys : listedSince'[u][k] <= clock'
<1>1. PICK u \in URIs, K \in SUBSET Keys :
        /\ Publish(u, K)
        /\ listedSince' = [listedSince EXCEPT ![u] =
                             [k \in Keys |-> IF k \in K \ published[u] THEN clock ELSE @[k]]]
  BY DEF Rotating
<1>2. UNCHANGED <<clock, jwks, call, movedAt, token, verdict>>
  BY <1>1 DEF Rotating, Publish, Rotate
<1>3. /\ listedSince \in [URIs -> [Keys -> Nat]] /\ clock \in Nat
      /\ published \in [URIs -> SUBSET Keys] /\ published' = [published EXCEPT ![u] = K]
  BY <1>1, OwnFacts DEF VerifierInv, OwnTypeOK, Publish, Rotate, Typed
<1>4. listedSince' \in [URIs -> [Keys -> Nat]]
  BY <1>1, <1>3
<1>5. ASSUME NEW v \in URIs, NEW k \in published'[v]
      PROVE  \/ listedSince'[v][k] = clock
             \/ k \in published[v] /\ listedSince'[v][k] = listedSince[v][k]
  BY <1>1, <1>3, <1>5
<1>6. ASSUME NEW v \in URIs, NEW t \in Int, t <= clock, NEW S, ListsBefore(v, t, S)
      PROVE  \A k \in published'[v] : listedSince'[v][k] < t => k \in S
  BY <1>3, <1>5, <1>6 DEF ListsBefore
<1>7. ASSUME NEW v \in URIs, NEW t \in Int, t < clock, NEW S, ListsAt(v, t, S)
      PROVE  \A k \in published'[v] : listedSince'[v][k] <= t => k \in S
  BY <1>3, <1>5, <1>7 DEF ListsAt
<1>8. CacheComplete'
  <2> SUFFICES ASSUME jwks.url \in URIs
               PROVE  \A k \in published'[jwks.url] :
                        listedSince'[jwks.url][k] < jwks.expiresAt - Window => k \in jwks.keys
    BY <1>2 DEF CacheComplete, ListsBefore
  <2>1. jwks.expiresAt - Window \in Int /\ jwks.expiresAt - Window <= clock
    BY OwnFacts DEF Typed
  <2>2. ListsBefore(jwks.url, jwks.expiresAt - Window, jwks.keys)
    BY DEF VerifierInv, KeysComplete, CacheComplete
  <2> QED BY <1>6, <2>1, <2>2
<1>9. FetchComplete'
  <2> SUFFICES ASSUME NEW c \in Calls, HoldsFetchedSet(c)
               PROVE  \A k \in published'[call[c].uri] :
                        listedSince'[call[c].uri][k] < call[c].now => k \in call[c].keys
    BY <1>2 DEF FetchComplete, ListsBefore, HoldsFetchedSet
  <2>1. call[c].now \in Int /\ call[c].now <= clock /\ call[c].uri \in URIs
    BY OwnFacts DEF Typed, HoldsFetchedSet
  <2>2. ListsBefore(call[c].uri, call[c].now, call[c].keys)
    BY DEF VerifierInv, KeysComplete, FetchComplete
  <2> QED BY <1>6, <2>1, <2>2
<1>10. ResolveComplete'
  <2> SUFFICES ASSUME NEW c \in Calls, call[c].pc = "resolve"
               PROVE  \A k \in published'[call[c].uri] :
                        listedSince'[call[c].uri][k] <= call[c].now - Window => k \in call[c].keys
    BY <1>2 DEF ResolveComplete, ListsAt
  <2>1. call[c].now - Window \in Int /\ call[c].now - Window < clock /\ call[c].uri \in URIs
    BY OwnFacts DEF Typed
  <2>2. ListsAt(call[c].uri, call[c].now - Window, call[c].keys)
    BY DEF VerifierInv, KeysComplete, ResolveComplete
  <2> QED BY <1>7, <2>1, <2>2
<1>11. movedAt' <= clock' /\ \A v \in URIs, k \in Keys : listedSince'[v][k] <= clock'
  BY <1>1, <1>2, <1>3, OwnFacts
<1> QED BY <1>2, <1>4, <1>8, <1>9, <1>10, <1>11 DEF KeysComplete, VerifierInv, OwnTypeOK

-----------------------------------------------------------------------------
\* The metadata: what has been advertised for long is found.

LEMMA StoredBefore ==
  ASSUME NEW m \in Int, NEW d \in Int, NEW w \in Int, NEW s \in Int, NEW t \in Int, NEW v \in Int,
         m < d - w - s, d <= t + w, t - v <= s
  PROVE  m < v
OBVIOUS

\* The answer a call is about to go by.
LEMMA AnswerIsCurrent ==
  ASSUME VerifierInv, NEW c \in Calls, Meta!LookupHit(c) \/ Meta!Store(c), UNCHANGED movedAt
  PROVE  /\ task'[c].pc = "idle" /\ task'[c].issuer = Issuer /\ task'[c].at = clock
         /\ task'[c].answer \in URIs \cup {NoURI}
         /\ \A q \in Calls \ {c} : task'[q] = task[q]
         /\ slowest' \in Nat /\ slowest <= slowest'
         /\ movedAt <= clock - (Window + slowest') => task'[c].answer = advertised[Issuer]
         /\ UNCHANGED advertised /\ UNCHANGED clock
         /\ EntryCurrent'
<1>a. MetaI!MetaInv /\ OwnTypeOK /\ EntryCurrent /\ HeldCurrent
  BY DEF VerifierInv
<1>b. task \in [Calls -> MetaI!TaskRecord]
  BY <1>a, MetaFacts
<1>1. CASE Meta!LookupHit(c)
  <2>1. /\ task' = [task EXCEPT ![c] = Meta!Answered(task[c].issuer, asMeta.uri)]
        /\ task[c].issuer = Issuer /\ asMeta.url = Issuer /\ asMeta.expiresAt > clock
        /\ UNCHANGED <<clock, advertised, asMeta, slowest, movedAt>>
    BY <1>1, <1>a, MetaFacts DEF Meta!LookupHit, Meta!Cached, Meta!issuers
  <2>2. /\ task'[c].pc = "idle" /\ task'[c].issuer = Issuer /\ task'[c].at = clock
        /\ task'[c].answer = asMeta.uri /\ \A q \in Calls \ {c} : task'[q] = task[q]
    BY <1>b, <2>1 DEF Meta!Answered
  <2>3. ASSUME movedAt <= clock - (Window + slowest)
        PROVE  asMeta.uri = advertised[Issuer]
    <3>1. movedAt < asMeta.expiresAt - Window - slowest
      BY <1>a, <2>1, <2>3, MetaFacts, OwnFacts DEF Typed
    <3> QED BY <1>a, <2>1, <3>1 DEF EntryCurrent
  <2>4. EntryCurrent'
    BY <1>a, <2>1 DEF EntryCurrent
  <2> QED BY <1>a, <2>1, <2>2, <2>3, <2>4, MetaFacts
<1>2. CASE Meta!Store(c)
  <2>1. PICK d \in Meta!JitteredExpiry(clock, Meta!TTL) : asMeta' = Meta!Stored(c, d)
    BY <1>2 DEF Meta!Store
  <2>2. d \in Nat /\ d <= clock + Window
    <3>1. d \in JitteredExpiry(clock, TTL)
      BY <2>1 DEF Meta!JitteredExpiry, JitteredExpiry, Meta!TTL, TTL, Meta!EffectiveTTL, EffectiveTTL
    <3> QED BY <3>1, TTLPositive, JitterBounds, OwnFacts DEF Window, Typed
  <2>3. /\ task[c].pc = "store" /\ task[c].issuer = Issuer
        /\ task' = [task EXCEPT ![c] = Meta!Answered(task[c].issuer, task[c].answer)]
        /\ slowest' = IF clock - task[c].served > slowest THEN clock - task[c].served ELSE slowest
        /\ UNCHANGED <<clock, advertised>>
    BY <1>2, <1>a, MetaFacts DEF Meta!Store, Meta!issuers
  <2>4. /\ task'[c].pc = "idle" /\ task'[c].issuer = Issuer /\ task'[c].at = clock
        /\ task'[c].answer = task[c].answer /\ \A q \in Calls \ {c} : task'[q] = task[q]
    BY <1>b, <2>3 DEF Meta!Answered
  <2>5. /\ slowest' \in Nat /\ slowest <= slowest' /\ clock - task[c].served <= slowest'
        /\ task[c].served \in Nat /\ clock \in Nat /\ movedAt \in Nat /\ Window \in Nat \ {0}
    <3>1. slowest \in Nat /\ task[c].served \in Nat /\ clock \in Nat /\ task[c].served <= clock
      BY <1>a, MetaFacts, OwnFacts DEF Typed
    <3> QED BY <2>3, <3>1, OwnFacts
  <2>6. asMeta'.uri = task[c].answer /\ asMeta'.expiresAt = d
    BY <2>1 DEF Meta!Stored
  <2>7. movedAt <= clock - (Window + slowest') => task[c].answer = advertised[Issuer]
    BY <1>a, <2>3, <2>5 DEF HeldCurrent
  <2>8. EntryCurrent'
    <3> SUFFICES ASSUME movedAt < d - Window - slowest'
                 PROVE  task[c].answer = advertised[Issuer]
      BY <2>3, <2>6 DEF EntryCurrent
    <3>1. d \in Int /\ Window \in Int /\ slowest' \in Int /\ clock \in Int /\ task[c].served \in Int
          /\ movedAt \in Int
      BY <2>2, <2>5
    <3>2. movedAt < task[c].served
      BY <2>2, <2>5, <3>1, StoredBefore
    <3> QED BY <1>a, <2>3, <3>2 DEF HeldCurrent
  <2> QED BY <1>a, <2>3, <2>4, <2>5, <2>7, <2>8, MetaFacts
<1> QED BY <1>1, <1>2

-----------------------------------------------------------------------------
\* The two components keep their invariants: every step of the composition is
\* a step of each, or leaves it alone.

LEMMA StepOfMeta == VerifierNext => [Meta!Next]_(Meta!vars)
<1> SUFFICES ASSUME VerifierNext
             PROVE  [Meta!Next]_(Meta!vars)
  OBVIOUS
<1>1. CASE Passing
  BY <1>1 DEF Passing, Meta!Next
<1>2. CASE Rotating
  BY <1>2 DEF Rotating, Publish, Rotate, metaVars, Meta!vars, Meta!issuers
<1>3. CASE Moving
  BY <1>3 DEF Moving, Meta!Next
<1>4. ASSUME NEW c \in Calls, NEW t \in Tokens, Verify(c, t)
      PROVE  Meta!Next
  BY <1>4 DEF Verify, Meta!Next
<1>5. ASSUME NEW c \in Calls, Resolving(c) \/ Resolved(c)
      PROVE  Meta!Next
  BY <1>5 DEF Resolving, Resolved, Meta!Next
<1>6. ASSUME NEW c \in Calls, Fetching(c)
      PROVE  UNCHANGED Meta!vars
  BY <1>6 DEF Fetching, metaVars, Meta!vars, Meta!issuers, Step, ReadClock, LookupHit, LookupMiss,
              RecordAttempt, Respond, Fault, Store, RecordResult, SelectKeys, InvalidateJWKSCache,
              KidNotFound
<1> QED BY <1>1, <1>2, <1>3, <1>4, <1>5, <1>6 DEF VerifierNext

LEMMA ResolvedOfCache ==
  ASSUME VerifierInv, NEW c \in Calls, Resolved(c)
  PROVE  \/ UNCHANGED vars /\ AnswerURI(c) = NoURI /\ verdict' = [verdict EXCEPT ![c] = "noJWKS"]
         \/ AnswerURI(c) \in URIs /\ Begin(c, AnswerURI(c), token[c].kid) /\ UNCHANGED verdict
         \/ /\ AnswerURI(c) \in URIs /\ HeaderParseFails(c)
            /\ verdict' = [verdict EXCEPT ![c] = "headerParse"]
<1>1. UNCHANGED movedAt /\ (Meta!LookupHit(c) \/ Meta!Store(c)) /\ UNCHANGED idp
  BY DEF Resolved, steady
<1>2. AnswerURI(c) \in URIs \cup {NoURI} /\ UNCHANGED clock
  BY <1>1, AnswerIsCurrent DEF AnswerURI
<1> QED BY <1>1, <1>2 DEF Resolved, Fails, vars, idp, history

LEMMA StepOfCache == VerifierInv /\ VerifierNext => [Next]_vars
<1> SUFFICES ASSUME VerifierInv, VerifierNext
             PROVE  [Next]_vars
  OBVIOUS
<1>1. CASE Passing
  BY <1>1 DEF Passing, Next
<1>2. CASE Rotating
  BY <1>2 DEF Rotating, Next
<1>3. CASE Moving
  BY <1>3 DEF Moving, Meta!Advertise, Meta!Replace, vars, idp, history
<1>4. ASSUME NEW c \in Calls, NEW t \in Tokens, Verify(c, t)
      PROVE  UNCHANGED vars
  BY <1>4 DEF Verify, Meta!FetchAuthServerMeta, vars, idp, history
<1>5. ASSUME NEW c \in Calls, Resolving(c)
      PROVE  UNCHANGED vars
  BY <1>5 DEF Resolving, Fails, Meta!LookupMiss, Meta!Discover, Meta!NoMetadata,
              Meta!DiscoveryFails, vars, idp, history
<1>6. ASSUME NEW c \in Calls, Resolved(c)
      PROVE  [Next]_vars
  <2>1. token[c].kid \in TokenKids
    BY VerifierAssumption DEF VerifierInv, OwnTypeOK
  <2> QED BY <1>6, <2>1, ResolvedOfCache DEF Next
<1>7. ASSUME NEW c \in Calls, Fetching(c)
      PROVE  Next
  BY <1>7 DEF Fetching, Next
<1> QED BY <1>1, <1>2, <1>3, <1>4, <1>5, <1>6, <1>7 DEF VerifierNext

LEMMA ComponentsKept ==
  ASSUME VerifierInv, VerifierNext
  PROVE  TrustInv' /\ MetaI!MetaInv'
BY StepOfCache, StepOfMeta, TrustStep, MetaKept DEF VerifierInv

-----------------------------------------------------------------------------
\* A call: its locals in the two components stay in step.

\* What a step of one goroutine c must establish, when the issuer is at rest.
LEMMA CallFrame ==
  ASSUME VerifierInv, NEW c \in Calls, slowest' \in Nat, slowest <= slowest',
         UNCHANGED <<advertised, movedAt>>,
         \A q \in Calls \ {c} : /\ call'[q] = call[q] /\ task'[q] = task[q]
                                /\ token'[q] = token[q] /\ verdict'[q] = verdict[q],
         task'[c].pc # "idle" => verdict'[c] = "pending",
         call'[c].pc # "idle" => /\ verdict'[c] = "pending"
                                 /\ call'[c].kid = token'[c].kid
                                 /\ task'[c].pc = "idle"
                                 /\ task'[c].issuer = Issuer
                                 /\ task'[c].answer = call'[c].uri
                                 /\ call'[c].pc # "clock" => task'[c].at <= call'[c].now
                                 /\ movedAt <= task'[c].at - (Window + slowest')
                                      => call'[c].uri = advertised[Issuer]
  PROVE  CallsInStep' /\ AnswerCurrent'
<1>1. CallsInStep'
  BY DEF VerifierInv, CallsInStep
<1>2. ASSUME NEW q \in Calls \ {c}, call[q].pc # "idle",
             movedAt <= task[q].at - (Window + slowest')
      PROVE  call[q].uri = advertised[Issuer]
  <2>1. task[q].at \in Int /\ slowest \in Int /\ Window \in Int /\ movedAt \in Int /\ slowest' \in Int
    BY MetaFacts, OwnFacts DEF VerifierInv
  <2>2. movedAt <= task[q].at - (Window + slowest)
    BY <1>2, <2>1
  <2> QED BY <1>2, <2>2 DEF VerifierInv, AnswerCurrent, Settling
<1>3. AnswerCurrent'
  BY <1>2 DEF AnswerCurrent, Settling
<1> QED BY <1>1, <1>3

\* A goroutine at work in the metadata cache is not in the JWKS cache.
LEMMA ResolvingIsIdle ==
  ASSUME VerifierInv, NEW c \in Calls, task[c].pc # "idle" \/ verdict[c] # "pending"
  PROVE  call[c].pc = "idle"
BY DEF VerifierInv, CallsInStep

LEMMA FetchingKeepsCall ==
  ASSUME VerifierInv, NEW c \in Calls, Fetching(c)
  PROVE  CallsInStep' /\ AnswerCurrent' /\ OwnTypeOK'
<1>a. Typed /\ OwnTypeOK /\ call[c].pc # "idle"
  BY OwnFacts DEF VerifierInv, Fetching, Step, ReadClock, LookupHit, LookupMiss, RecordAttempt,
                  Respond, Fault, Store, RecordResult, SelectKeys, InvalidateJWKSCache, KidNotFound
<1>b. /\ Step(c) /\ UNCHANGED <<advertised, movedAt, listedSince, token, task, slowest>>
      /\ verdict' = IF call'[c].pc # "idle" THEN verdict
                    ELSE [verdict EXCEPT ![c] = Judged(token[c], call'[c])]
  BY DEF Fetching, metaVars, steady
<1>1. CASE ReadClock(c) \/ LookupHit(c) \/ LookupMiss(c) \/ RecordAttempt(c) \/ Respond(c) \/ Fault(c)
           \/ Store(c) \/ (RecordResult(c) /\ call[c].err = "none") \/ InvalidateJWKSCache(c)
  <2>1. /\ \A q \in Calls \ {c} : call'[q] = call[q]
        /\ call'[c].pc # "idle" /\ call'[c].uri = call[c].uri /\ call'[c].kid = call[c].kid
        /\ call'[c].pc = "clock" \/ call'[c].now = clock
             \/ (call'[c].now = call[c].now /\ call[c].pc # "clock")
    BY <1>1, <1>a DEF ReadClock, LookupHit, LookupMiss, RecordAttempt, Respond, Fault, Store,
                      RecordResult, InvalidateJWKSCache, Typed, CallRecord
  <2>2. task[c].at <= clock /\ slowest \in Nat /\ slowest <= slowest
    BY MetaFacts DEF VerifierInv
  <2>3. CallsInStep' /\ AnswerCurrent'
    BY <1>a, <1>b, <2>1, <2>2, CallFrame DEF VerifierInv, CallsInStep, AnswerCurrent, Settling
  <2> QED BY <1>a, <1>b, <2>1, <2>3 DEF OwnTypeOK
<1>2. CASE (RecordResult(c) /\ call[c].err # "none") \/ SelectKeys(c) \/ KidNotFound(c)
  <2>1. PICK K, e : Return(c, K, e) /\ e \in Errors
    <3>1. CASE RecordResult(c) /\ call[c].err # "none"
      BY <1>a, <3>1 DEF RecordResult, Typed, CallRecord
    <3>2. CASE SelectKeys(c) \/ KidNotFound(c)
      BY <3>2 DEF SelectKeys, KidNotFound, Errors
    <3> QED BY <1>2, <3>1, <3>2
  <2>2. call'[c].pc = "idle" /\ \A q \in Calls \ {c} : call'[q] = call[q]
    BY <1>a, <2>1, ReturnIdles DEF Typed
  <2>3. call'[c] = Returned(K, e)
    BY <1>a, <2>1 DEF Return, Typed
  <2>4. Judged(token[c], call'[c]) \in Verdicts
    <3>1. call'[c].err \in Errors
      BY <2>1, <2>3 DEF Returned
    <3> QED BY <3>1 DEF Judged, Verdicts, Errors
  <2>5. slowest \in Nat /\ slowest <= slowest
    BY MetaFacts DEF VerifierInv
  <2>7. task[c].pc = "idle" /\ task' = task
    BY <1>a, <1>b DEF VerifierInv, CallsInStep
  <2>6. CallsInStep' /\ AnswerCurrent'
    BY <1>a, <1>b, <2>2, <2>5, <2>7, CallFrame DEF OwnTypeOK
  <2> QED BY <1>a, <1>b, <2>2, <2>4, <2>6 DEF OwnTypeOK
<1> QED BY <1>b, <1>1, <1>2 DEF Step

-----------------------------------------------------------------------------
\* The induction.

LEMMA VerifierStarts == VerifierInit => VerifierInv
<1> SUFFICES ASSUME VerifierInit
             PROVE  VerifierInv
  OBVIOUS
<1>1. TrustInv
  BY TrustInit DEF VerifierInit
<1>2. MetaI!MetaInv
  BY MetaStarts DEF VerifierInit
<1>3. clock \in Nat
  BY InstantsAssumption DEF VerifierInit, Init, IdPInit
<1>4. OwnTypeOK /\ ChangesInOrder
  BY <1>3 DEF VerifierInit, OwnTypeOK, ChangesInOrder, Verdicts
<1>5. \A c \in Calls : call[c].pc = "idle" /\ task[c].pc = "idle"
  BY DEF VerifierInit, Init, Meta!Init, Meta!Untouched, Idle, Returned
<1>6. asMeta.url = NoIssuer /\ jwks.url = NoURI
  BY DEF VerifierInit, Init, Meta!Init
<1>7. CallsInStep /\ AnswerCurrent /\ HeldCurrent /\ EntryCurrent
  BY <1>5, <1>6, VerifierAssumption DEF CallsInStep, AnswerCurrent, HeldCurrent, EntryCurrent
<1>8. KeysComplete
  BY <1>5, <1>6, CallAssumption
     DEF KeysComplete, CacheComplete, FetchComplete, ResolveComplete, HoldsFetchedSet
<1> QED BY <1>1, <1>2, <1>4, <1>7, <1>8 DEF VerifierInv

\* A step of the metadata cache that keeps the entry, with what it must
\* establish about its own goroutine.
LEMMA MetadataFrame ==
  ASSUME VerifierInv, NEW c \in Calls, UNCHANGED <<advertised, movedAt, asMeta, slowest>>,
         \A q \in Calls \ {c} : task'[q] = task[q],
         task'[c].pc = "store" => task'[c].answer = advertised[Issuer]
  PROVE  EntryCurrent' /\ HeldCurrent'
BY DEF VerifierInv, EntryCurrent, HeldCurrent

LEMMA UntouchedKeys ==
  ASSUME VerifierInv, UNCHANGED <<published, listedSince, jwks, call>>
  PROVE  KeysComplete'
BY DEF VerifierInv, KeysComplete, CacheComplete, FetchComplete, ResolveComplete, HoldsFetchedSet,
       ListsBefore, ListsAt

LEMMA VerifierStep == VerifierInv /\ [VerifierNext]_allVars => VerifierInv'
<1> SUFFICES ASSUME VerifierInv, [VerifierNext]_allVars
             PROVE  VerifierInv'
  OBVIOUS
<1>a. /\ TrustInv /\ MetaI!MetaInv /\ OwnTypeOK /\ ChangesInOrder /\ CallsInStep
      /\ EntryCurrent /\ HeldCurrent /\ AnswerCurrent
  BY DEF VerifierInv
<1>b. slowest \in Nat /\ slowest <= slowest
  BY <1>a, MetaFacts
<1>1. CASE UNCHANGED allVars
  <2>1. TrustInv' /\ MetaI!MetaInv'
    BY <1>1, <1>a, TrustStep, MetaKept DEF allVars, metaVars, vars, Meta!vars, Meta!issuers
  <2> QED BY <1>1, <1>a, <2>1, UntouchedKeys
          DEF allVars, metaVars, vars, steady, VerifierInv, OwnTypeOK, ChangesInOrder, CallsInStep,
              EntryCurrent, HeldCurrent, AnswerCurrent, Settling
<1> SUFFICES ASSUME VerifierNext
             PROVE  VerifierInv'
  BY <1>1
<1>c. TrustInv' /\ MetaI!MetaInv'
  BY ComponentsKept
<1>2. CASE Passing
  <2>1. clock < clock' /\ clock' \in Nat /\ clock \in Nat
    BY <1>2, InstantsAssumption, OwnFacts DEF Passing, Tick, ClockMoves, Typed
  <2>2. UNCHANGED <<published, jwks, call, metaVars, token, verdict, steady>>
    BY <1>2 DEF Passing, Tick, ClockMoves, idp, Meta!Tick, Meta!TimePasses, metaVars, Meta!issuers
  <2>3. ChangesInOrder'
    BY <2>1, <2>2, OwnFacts DEF ChangesInOrder, steady
  <2> QED BY <1>a, <1>c, <2>2, <2>3, UntouchedKeys
          DEF metaVars, steady, VerifierInv, OwnTypeOK, CallsInStep, EntryCurrent, HeldCurrent,
              AnswerCurrent, Settling
<1>3. CASE Rotating
  <2>1. UNCHANGED <<clock, jwks, call, metaVars, token, verdict, movedAt>>
    BY <1>3 DEF Rotating, Publish, Rotate
  <2>2. KeysComplete' /\ OwnTypeOK' /\ ChangesInOrder'
    BY <1>3, RotatingKeepsKeys DEF ChangesInOrder
  <2> QED BY <1>a, <1>c, <2>1, <2>2
          DEF metaVars, VerifierInv, CallsInStep, EntryCurrent, HeldCurrent, AnswerCurrent, Settling
<1>4. CASE Moving
  <2>1. /\ UNCHANGED <<clock, published, jwks, call, token, verdict, listedSince>>
        /\ UNCHANGED <<asMeta, task, slowest>> /\ movedAt' = clock
    BY <1>4 DEF Moving, Meta!Advertise, Meta!Replace, idp
  <2>2. /\ clock \in Nat /\ Window \in Nat \ {0} /\ asMeta.expiresAt \in Nat
        /\ asMeta.expiresAt <= clock + Window
        /\ \A c \in Calls : /\ task[c].served \in Nat /\ task[c].served <= clock
                            /\ task[c].at \in Nat /\ task[c].at <= clock
    BY <1>a, MetaFacts, OwnFacts DEF Typed
  <2>3. ~ (clock < asMeta.expiresAt - Window - slowest)
    BY <1>b, <2>2
  <2>4. \A c \in Calls : ~ (clock < task[c].served) /\ ~ (clock <= task[c].at - (Window + slowest))
    BY <1>b, <2>2
  <2>5. EntryCurrent' /\ HeldCurrent' /\ AnswerCurrent'
    BY <2>1, <2>3, <2>4 DEF EntryCurrent, HeldCurrent, AnswerCurrent, Settling
  <2>6. OwnTypeOK' /\ ChangesInOrder'
    BY <1>a, <2>1, <2>2 DEF OwnTypeOK, ChangesInOrder
  <2> QED BY <1>a, <1>c, <2>1, <2>5, <2>6, UntouchedKeys DEF VerifierInv, CallsInStep
<1>5. ASSUME NEW c \in Calls, NEW t \in Tokens, Verify(c, t)
      PROVE  VerifierInv'
  <2>1. /\ UNCHANGED <<clock, published, jwks, call, advertised, movedAt, listedSince>>
        /\ UNCHANGED <<asMeta, slowest>>
        /\ token' = [token EXCEPT ![c] = t] /\ verdict' = [verdict EXCEPT ![c] = "pending"]
        /\ call[c].pc = "idle"
    BY <1>5, ResolvingIsIdle DEF Verify, Meta!FetchAuthServerMeta, Meta!issuers, steady, idp
  <2>2. task'[c].pc # "store" /\ \A q \in Calls \ {c} : task'[q] = task[q]
    BY <1>5, <1>a, MetaFacts DEF Verify, Meta!FetchAuthServerMeta, Meta!Answered, Meta!Asking
  <2>3. EntryCurrent' /\ HeldCurrent'
    BY <2>1, <2>2, MetadataFrame
  <2>4. CallsInStep' /\ AnswerCurrent'
    BY <1>a, <1>b, <2>1, <2>2, CallFrame DEF OwnTypeOK
  <2>5. OwnTypeOK' /\ ChangesInOrder'
    BY <1>a, <2>1 DEF OwnTypeOK, ChangesInOrder, Verdicts
  <2> QED BY <1>c, <2>1, <2>3, <2>4, <2>5, UntouchedKeys DEF VerifierInv
<1>6. ASSUME NEW c \in Calls, Resolving(c)
      PROVE  VerifierInv'
  <2>1. /\ UNCHANGED <<clock, published, jwks, call, advertised, movedAt, listedSince, token>>
        /\ UNCHANGED <<asMeta, slowest>>
        /\ call[c].pc = "idle"
    BY <1>6, ResolvingIsIdle
       DEF Resolving, Fails, Meta!LookupMiss, Meta!Discover, Meta!NoMetadata, Meta!DiscoveryFails,
           Meta!issuers, steady, idp
  <2>2. \/ UNCHANGED verdict
        \/ verdict' = [verdict EXCEPT ![c] = "noMetadata"]
        \/ verdict' = [verdict EXCEPT ![c] = "discovery"]
    BY <1>6 DEF Resolving, Fails
  <2>3. /\ \A q \in Calls \ {c} : task'[q] = task[q]
        /\ task'[c].pc = "store" => task'[c].answer = advertised[Issuer]
    <3>1. task \in [Calls -> MetaI!TaskRecord] /\ (task[c].pc = "discover" => task[c].issuer = Issuer)
      BY <1>a, MetaFacts
    <3> QED BY <1>6, <3>1
            DEF Resolving, Meta!LookupMiss, Meta!Discover, Meta!NoMetadata, Meta!DiscoveryFails,
                Meta!Answered, Meta!Untouched, MetaI!TaskRecord
  <2>4. EntryCurrent' /\ HeldCurrent'
    BY <2>1, <2>3, MetadataFrame
  <2>7. task'[c].pc # "idle" => verdict'[c] = "pending"
    <3>1. task[c].pc # "idle" /\ verdict[c] = "pending" /\ task \in [Calls -> MetaI!TaskRecord]
      BY <1>6, <1>a, MetaFacts
         DEF Resolving, Meta!LookupMiss, Meta!Discover, Meta!NoMetadata, Meta!DiscoveryFails,
             CallsInStep
    <3> QED BY <1>6, <3>1
            DEF Resolving, Meta!NoMetadata, Meta!DiscoveryFails, Meta!Answered, Meta!Untouched
  <2>5. CallsInStep' /\ AnswerCurrent'
    BY <1>a, <1>b, <2>1, <2>2, <2>3, <2>7, CallFrame DEF OwnTypeOK
  <2>6. OwnTypeOK' /\ ChangesInOrder'
    BY <1>a, <2>1, <2>2 DEF OwnTypeOK, ChangesInOrder, Verdicts
  <2> QED BY <1>c, <2>1, <2>4, <2>5, <2>6, UntouchedKeys DEF VerifierInv
<1>7. ASSUME NEW c \in Calls, Resolved(c)
      PROVE  VerifierInv'
  <2>1. /\ UNCHANGED <<published, movedAt, listedSince, token>>
        /\ Meta!LookupHit(c) \/ Meta!Store(c)
        /\ task[c].pc # "idle"
    BY <1>7 DEF Resolved, steady, idp, Meta!LookupHit, Meta!Store
  <2>2. /\ task'[c].pc = "idle" /\ task'[c].issuer = Issuer /\ task'[c].at = clock
        /\ \A q \in Calls \ {c} : task'[q] = task[q]
        /\ slowest' \in Nat /\ slowest <= slowest'
        /\ movedAt <= clock - (Window + slowest') => task'[c].answer = advertised[Issuer]
        /\ UNCHANGED <<advertised, clock>>
        /\ EntryCurrent'
    BY <2>1, AnswerIsCurrent
  <2>3. HeldCurrent'
    BY <1>a, <2>1, <2>2 DEF HeldCurrent
  <2>4. call[c].pc = "idle" /\ call \in [Calls -> CallRecord]
    BY <2>1, ResolvingIsIdle, OwnFacts DEF Typed
  <2>5. /\ UNCHANGED jwks
        /\ \A q \in Calls \ {c} : call'[q] = call[q]
        /\ call'[c].pc # "idle" => /\ call'[c] = Called(task'[c].answer, token[c].kid)
                                   /\ UNCHANGED verdict
        /\ \/ UNCHANGED verdict \/ verdict' = [verdict EXCEPT ![c] = "noJWKS"]
           \/ verdict' = [verdict EXCEPT ![c] = "headerParse"]
    <3>1. CASE UNCHANGED vars /\ verdict' = [verdict EXCEPT ![c] = "noJWKS"]
      BY <2>4, <3>1 DEF vars
    <3>2. CASE Begin(c, AnswerURI(c), token[c].kid) /\ UNCHANGED verdict
      BY <2>4, <3>2 DEF Begin, AnswerURI
    <3>3. CASE HeaderParseFails(c) /\ verdict' = [verdict EXCEPT ![c] = "headerParse"]
      BY <2>4, <3>3, ReturnIdles DEF HeaderParseFails
    <3> QED BY <1>7, <3>1, <3>2, <3>3, ResolvedOfCache
  <2>6. call'[c].pc # "idle" => /\ call'[c].pc = "clock" /\ call'[c].uri = task'[c].answer
                                /\ call'[c].kid = token[c].kid /\ ~ call'[c].err # "none"
    BY <2>5 DEF Called
  <2>7. verdict[c] = "pending"
    BY <1>a, <2>1 DEF CallsInStep
  <2>8. CallsInStep' /\ AnswerCurrent'
    BY <1>a, <2>1, <2>2, <2>5, <2>6, <2>7, CallFrame DEF OwnTypeOK
  <2>9. KeysComplete'
    <3>1. ~ HoldsFetchedSet(c)' /\ call'[c].pc # "resolve"
      BY <2>6 DEF HoldsFetchedSet
    <3> QED BY <2>1, <2>5, <3>1, KeysFrame
  <2>10. OwnTypeOK' /\ ChangesInOrder'
    BY <1>a, <2>1, <2>2, <2>5 DEF OwnTypeOK, ChangesInOrder, Verdicts
  <2> QED BY <1>c, <2>2, <2>3, <2>8, <2>9, <2>10 DEF VerifierInv
<1>8. ASSUME NEW c \in Calls, Fetching(c)
      PROVE  VerifierInv'
  <2>1. Step(c) /\ UNCHANGED <<metaVars, movedAt, listedSince>> /\ UNCHANGED clock
    BY <1>8 DEF Fetching, steady, Step, ReadClock, LookupHit, LookupMiss, RecordAttempt, Respond,
                Fault, Store, RecordResult, SelectKeys, InvalidateJWKSCache, KidNotFound
  <2>2. EntryCurrent' /\ HeldCurrent' /\ ChangesInOrder'
    BY <1>a, <2>1 DEF metaVars, EntryCurrent, HeldCurrent, ChangesInOrder
  <2> QED BY <1>8, <1>c, <2>1, <2>2, FetchingKeepsKeys, FetchingKeepsCall DEF VerifierInv
<1> QED BY <1>2, <1>3, <1>4, <1>5, <1>6, <1>7, <1>8 DEF VerifierNext

-----------------------------------------------------------------------------
\* The theorems.

LEMMA SameTypes == MetaI!TypeOK <=> Meta!TypeOK
BY DEF MetaI!TypeOK, MetaI!EndpointsTypeOK, Meta!EndpointsTypeOK, MetaI!Documents, MetaI!Answers, MetaI!Time, MetaI!TaskRecord,
       Meta!TypeOK, Meta!Documents, Meta!Answers, Meta!Time, Meta!TaskRecord

\* Every variable of the composed Verifier has its type, whatever the callers,
\* the issuer and the clock do.
THEOREM VerifierTypeCorrect == VerifierSpec => []VerifierTypeOK
<1>1. VerifierInv => VerifierTypeOK
  BY SameTypes DEF VerifierInv, VerifierTypeOK, TrustInv, TypeInv, MetaI!MetaInv
<1> QED BY <1>1, VerifierStarts, VerifierStep, PTL DEF VerifierSpec

\* The step that gives a pending call its verdict.
LEMMA WhoJudges ==
  ASSUME VerifierInv, VerifierNext, NEW c \in Calls,
         verdict[c] = "pending", verdict'[c] # "pending"
  PROVE  Resolving(c) \/ Resolved(c) \/ Fetching(c)
<1>a. verdict \in [Calls -> Verdicts]
  BY DEF VerifierInv, OwnTypeOK
<1>1. CASE Passing \/ Rotating \/ Moving
  BY <1>1 DEF Passing, Rotating, Moving
<1>2. ASSUME NEW q \in Calls, NEW t \in Tokens, Verify(q, t)
      PROVE  FALSE
  BY <1>a, <1>2 DEF Verify
<1>3. ASSUME NEW q \in Calls, Resolving(q) \/ Resolved(q) \/ Fetching(q)
      PROVE  q = c
  BY <1>a, <1>3 DEF Resolving, Resolved, Fetching, Fails
<1> QED BY <1>1, <1>2, <1>3 DEF VerifierNext

\* A call that ends in the JWKS cache ends with an error of the fetch, or with
\* keys to try, or without its kid.
LEMMA HowFetchingEnds ==
  ASSUME VerifierInv, NEW c \in Calls, Fetching(c), verdict[c] = "pending", verdict'[c] # "pending"
  PROVE  /\ UNCHANGED <<task, slowest, token>>
         /\ \/ RecordResult(c) /\ verdict'[c] \in {"transient", "permanent"}
            \/ /\ SelectKeys(c)
               /\ verdict'[c] = IF token[c].key \in Candidates(call[c].kid, call[c].keys)
                               THEN "accepted" ELSE "signature"
            \/ KidNotFound(c) /\ verdict'[c] = "kidNotFound"
<1>a. Typed /\ OwnTypeOK /\ CallsInOrder
  BY OwnFacts DEF VerifierInv, TrustInv, TypeInv
<1>1. /\ Step(c) /\ UNCHANGED <<task, slowest, token>>
      /\ call'[c].pc = "idle" /\ verdict'[c] = Judged(token[c], call'[c])
  BY <1>a DEF Fetching, metaVars, OwnTypeOK
<1>2. (RecordResult(c) /\ call[c].err # "none") \/ SelectKeys(c) \/ KidNotFound(c)
  BY <1>1, <1>a DEF Step, ReadClock, LookupHit, LookupMiss, RecordAttempt, Respond, Fault, Store,
                    RecordResult, InvalidateJWKSCache, Typed, CallRecord
<1>3. ASSUME NEW K, NEW e, Return(c, K, e)
      PROVE  call'[c].keys = K /\ call'[c].err = e
  BY <1>a, <1>3 DEF Return, Returned, Typed
<1>4. CASE RecordResult(c) /\ call[c].err # "none"
  <2>1. call'[c].err \in {"transient", "permanent"}
    BY <1>a, <1>3, <1>4 DEF RecordResult, CallsInOrder
  <2> QED BY <1>1, <1>4, <2>1 DEF Judged
<1>5. CASE SelectKeys(c)
  <2>1. call'[c].err = "none" /\ call'[c].keys = Candidates(call[c].kid, call[c].keys)
    BY <1>3, <1>5 DEF SelectKeys
  <2> QED BY <1>1, <1>5, <2>1 DEF Judged
<1>6. CASE KidNotFound(c)
  <2>1. call'[c].err = "kidNotFound"
    BY <1>3, <1>6 DEF KidNotFound
  <2> QED BY <1>1, <1>6, <2>1 DEF Judged
<1> QED BY <1>1, <1>2, <1>4, <1>5, <1>6

\* A call that has read the keys has those that were served since long before.
LEMMA ServedIsFound ==
  ASSUME VerifierInv, NEW c \in Calls, call[c].pc = "resolve",
         token[c].kid \in {NoKid, KidOf[token[c].key]},
         ServedSince(token[c].key, task[c].at - Settling)
  PROVE  token[c].key \in Candidates(call[c].kid, call[c].keys)
<1> DEFINE k == token[c].key
<1>1. /\ call[c].kid = token[c].kid /\ task[c].at <= call[c].now /\ k \in Keys
      /\ call[c].uri \in URIs
  BY VerifierAssumption, OwnFacts DEF VerifierInv, CallsInStep, OwnTypeOK
<1>2. call[c].uri = advertised[Issuer]
  BY DEF VerifierInv, AnswerCurrent, ServedSince
<1>3. /\ task[c].at \in Int /\ slowest \in Nat /\ Window \in Nat /\ call[c].now \in Int
      /\ listedSince[call[c].uri][k] \in Int
  BY <1>1, MetaFacts, OwnFacts DEF VerifierInv
<1>4. k \in published[call[c].uri] /\ listedSince[call[c].uri][k] <= task[c].at - (Window + slowest)
  BY <1>2 DEF ServedSince, Settling
<1>5. listedSince[call[c].uri][k] <= call[c].now - Window
  BY <1>1, <1>3, <1>4
<1>6. k \in call[c].keys
  BY <1>4, <1>5 DEF VerifierInv, KeysComplete, ResolveComplete, ListsAt
<1> QED BY <1>1, <1>6 DEF Candidates

\* A genuine token whose issuer has settled is never refused for its signature,
\* its kid or a missing jwks_uri, for any number of goroutines, keys, URIs and
\* tokens, any kids and any TTL.
THEOREM SettledTokensVerifyHolds == VerifierSpec => SettledTokensVerify
<1> DEFINE Refused(c) ==
      /\ verdict[c] = "pending"
      /\ verdict'[c] \in {"signature", "kidNotFound", "noJWKS", "noMetadata"}
      /\ token[c].kid \in {NoKid, KidOf[token[c].key]}
<1>1. ASSUME VerifierInv, VerifierNext, NEW c \in Calls, Refused(c),
             ServedSince(token[c].key, (task[c].at - Settling)')
      PROVE  FALSE
  <2>1. /\ advertised[Issuer] \in URIs /\ verdict \in [Calls -> Verdicts]
        /\ movedAt <= task'[c].at - (Window + slowest')
    BY <1>1 DEF ServedSince, Settling, VerifierInv, OwnTypeOK
  <2>2. CASE Resolving(c)
    <3>1. Meta!NoMetadata(c)
      BY <1>1, <2>1, <2>2 DEF Resolving, Fails
    <3>2. task[c].issuer = Issuer
      BY <1>1, <3>1, MetaFacts DEF VerifierInv, Meta!NoMetadata
    <3> QED BY <2>1, <3>1, <3>2, VerifierAssumption DEF Meta!NoMetadata, Meta!Found
  <2>3. CASE Resolved(c)
    <3>1. AnswerURI(c) = NoURI
      BY <1>1, <2>1, <2>3, ResolvedOfCache
    <3>2. UNCHANGED movedAt /\ (Meta!LookupHit(c) \/ Meta!Store(c))
      BY <2>3 DEF Resolved, steady
    <3>3. task'[c].at = clock
          /\ (movedAt <= clock - (Window + slowest') => task'[c].answer = advertised[Issuer])
      BY <1>1, <3>2, AnswerIsCurrent
    <3> QED BY <2>1, <3>1, <3>3, CallAssumption DEF AnswerURI
  <2>4. CASE Fetching(c)
    <3>1. (SelectKeys(c) \/ KidNotFound(c)) /\ UNCHANGED <<task, slowest>>
          /\ (SelectKeys(c) => verdict'[c] = IF token[c].key \in Candidates(call[c].kid, call[c].keys)
                                             THEN "accepted" ELSE "signature")
      BY <1>1, <2>4, HowFetchingEnds DEF SelectKeys, KidNotFound
    <3>2. ServedSince(token[c].key, task[c].at - Settling)
      BY <1>1, <3>1 DEF Settling
    <3>3. token[c].key \in Candidates(call[c].kid, call[c].keys)
      BY <1>1, <3>1, <3>2, ServedIsFound DEF SelectKeys, KidNotFound
    <3> QED BY <1>1, <3>1, <3>3 DEF KidNotFound, KidMissing
  <2> QED BY <1>1, <2>2, <2>3, <2>4, WhoJudges
<1>2. VerifierInv /\ [VerifierNext]_allVars
        => [\A c \in Calls : Refused(c) => ~ ServedSince(token[c].key, (task[c].at - Settling)')]_allVars
  BY <1>1
<1> QED BY <1>2, VerifierStarts, VerifierStep, PTL DEF VerifierSpec, SettledTokensVerify

\* A token is only ever accepted with a key recently published at a URI recently
\* named by its issuer.
THEOREM AcceptedKeysWereServedHolds == VerifierSpec => AcceptedKeysWereServed
<1> DEFINE Accepted(c) == verdict[c] = "pending" /\ verdict'[c] = "accepted"
           Named(c) == \E u \in URIs : /\ Meta!AdvertisedAfter(Issuer, u, task[c].at - Settling)
                                       /\ PublishedAfter(u, token[c].key, call[c].now - Window)
<1>1. ASSUME VerifierInv, VerifierNext, NEW c \in Calls, Accepted(c)
      PROVE  Named(c)
  <2>1. Fetching(c)
    <3>1. verdict \in [Calls -> Verdicts]
      BY <1>1 DEF VerifierInv, OwnTypeOK
    <3>2. ~ Resolving(c)
      BY <1>1, <3>1 DEF Resolving, Fails
    <3>3. ~ Resolved(c)
      BY <1>1, <3>1, ResolvedOfCache
    <3> QED BY <1>1, <3>2, <3>3, WhoJudges
  <2>2. SelectKeys(c) /\ token[c].key \in Candidates(call[c].kid, call[c].keys)
    BY <1>1, <2>1, HowFetchingEnds DEF KidNotFound
  <2>3. call[c].uri \in URIs /\ task[c].pc = "idle" /\ task[c].issuer = Issuer
        /\ task[c].answer = call[c].uri
    BY <1>1, <2>2, OwnFacts DEF VerifierInv, CallsInStep, SelectKeys
  <2>4. PublishedAfter(call[c].uri, token[c].key, call[c].now - Window)
    BY <1>1, <2>2 DEF SelectKeys, Candidates, VerifierInv, TrustInv, KeysWithinTrustWindow
  <2>5. Meta!AdvertisedAfter(Issuer, call[c].uri, task[c].at - Settling)
    <3>1. MetaI!AdvertisedAfter(Issuer, call[c].uri, task[c].at - MetaI!Window - slowest)
      BY <1>1, <2>3, VerifierAssumption DEF VerifierInv, MetaI!MetaInv, MetaI!AnswersAreRecent
    <3>2. MetaI!Window = Window
      BY DEF MetaI!Window, MetaI!TTL, MetaI!TrustWindow, MetaI!EffectiveTTL, Window, TTL,
             TrustWindow, EffectiveTTL
    <3>3. task[c].at - MetaI!Window - slowest = task[c].at - Settling
      BY <1>1, <3>2, MetaFacts, OwnFacts DEF VerifierInv, Settling
    <3> QED BY <3>1, <3>3
            DEF MetaI!AdvertisedAfter, Meta!AdvertisedAfter, MetaI!ZeroTime, Meta!ZeroTime
  <2> QED BY <2>3, <2>4, <2>5
<1>2. VerifierInv /\ [VerifierNext]_allVars
        => [\A c \in Calls :
              /\ verdict[c] = "pending"
              /\ verdict'[c] = "accepted"
              => \E u \in URIs :
                   /\ Meta!AdvertisedAfter(Issuer, u, task[c].at - Settling)
                   /\ PublishedAfter(u, token[c].key, call[c].now - Window)]_allVars
  BY <1>1
<1> QED BY <1>2, VerifierStarts, VerifierStep, PTL DEF VerifierSpec, AcceptedKeysWereServed

-----------------------------------------------------------------------------
\* Verifier implements Verification.

USE DEF Contract!ZeroTime, Contract!Time

\* The refinement mapping, by name.
searches == [c \in Calls |-> SearchOf(call[c])]

LEMMA OneSearch ==
  ASSUME NEW c \in Calls, \A q \in Calls \ {c} : call'[q] = call[q]
  PROVE  searches' = [searches EXCEPT ![c] = SearchOf(call'[c])]
BY DEF searches

\* Where the two differ in name only.
LEMMA SameRecent ==
  ASSUME NEW a, NEW t
  PROVE  MetaI!AdvertisedAfter(Issuer, a, t) <=> Contract!Endpoints!AdvertisedAfter(Issuer, a, t)
BY DEF MetaI!AdvertisedAfter, Contract!Endpoints!AdvertisedAfter, MetaI!ZeroTime,
       Contract!Endpoints!ZeroTime

LEMMA ContractInit == VerifierInit => Contract!Init
BY DEF VerifierInit, Init, Meta!Init, Meta!EndpointsInit, IdPInit, Idle, Returned, SearchOf,
       Contract!Init, Contract!IdPInit, Contract!Endpoints!EndpointsInit, Contract!Unnamed,
       Contract!Search, Meta!Answers, Meta!Documents, Meta!ZeroTime, Contract!Endpoints!Answers,
       Contract!Endpoints!Documents, Contract!Endpoints!ZeroTime

\* The answer a call goes by is a recent one of its issuer.
LEMMA AnswerIsRecent ==
  ASSUME VerifierInv, VerifierInv', NEW c \in Calls, Meta!LookupHit(c) \/ Meta!Store(c),
         UNCHANGED movedAt
  PROVE  Contract!Recent(task'[c].answer)
<1>1. /\ task'[c].pc = "idle" /\ task'[c].issuer = Issuer /\ task'[c].at = clock
      /\ slowest' \in Nat /\ slowest <= slowest'
  BY AnswerIsCurrent
<1>2. MetaI!AdvertisedAfter(Issuer, task'[c].answer, clock - Window - slowest')
  <2>1. UNCHANGED <<clock, advertised, replacedAt>>
    BY DEF Meta!LookupHit, Meta!Store, Meta!issuers
  <2>2. MetaI!Window = Window
    BY DEF MetaI!Window, MetaI!TTL, MetaI!TrustWindow, MetaI!EffectiveTTL, Window, TTL,
           TrustWindow, EffectiveTTL
  <2> QED BY <1>1, <2>1, <2>2, VerifierAssumption
          DEF VerifierInv, MetaI!MetaInv, MetaI!AnswersAreRecent, MetaI!AdvertisedAfter
<1>3. slowest \in Nat
  BY MetaFacts DEF VerifierInv
<1> QED BY <1>1, <1>2, <1>3, SameRecent DEF Contract!Recent

\* A step at the metadata: the call has no JWKS URI yet.
LEMMA ResolvingIsNameless ==
  ASSUME VerifierInv, NEW c \in Calls, task[c].pc # "idle"
  PROVE  verdict[c] = "pending" /\ searches[c] = Contract!Unnamed
BY ResolvingIsIdle DEF VerifierInv, CallsInStep, searches, SearchOf, Contract!Unnamed, Contract!Search

LEMMA ResolvingImplements ==
  ASSUME VerifierInv, NEW c \in Calls, Resolving(c)
  PROVE  [Contract!Next]_(Contract!contract)
<1>1. /\ UNCHANGED <<clock, idp, advertised, replacedAt, listedSince, token, slowest, call>>
      /\ task[c].pc # "idle"
  BY DEF Resolving, Fails, steady, Meta!LookupMiss, Meta!Discover, Meta!NoMetadata,
         Meta!DiscoveryFails, Meta!issuers
<1>2. searches' = searches /\ searches' = [searches EXCEPT ![c] = Contract!Unnamed]
  BY <1>1, ResolvingIsNameless DEF searches
<1>3. CASE UNCHANGED verdict
  BY <1>1, <1>2, <1>3 DEF Contract!contract, Contract!world, Contract!idp, idp, searches
<1>4. CASE Meta!NoMetadata(c) /\ Fails(c, "noMetadata")
  <2>1. advertised[Issuer] = NoDocument
    BY <1>1, <1>4, MetaFacts DEF Meta!NoMetadata, Meta!Found, VerifierInv
  <2>2. Contract!NoMetadata(c)
    BY <1>1, <1>2, <1>4, <2>1, ResolvingIsNameless
       DEF Fails, Contract!NoMetadata, Contract!Nameless, Contract!Judge, Contract!world,
           Contract!idp, idp, searches
  <2> QED BY <2>2 DEF Contract!Next
<1>5. CASE Fails(c, "discovery")
  <2>1. Contract!DiscoveryFails(c)
    BY <1>1, <1>2, <1>5, ResolvingIsNameless
       DEF Fails, Contract!DiscoveryFails, Contract!Nameless, Contract!Judge, Contract!world,
           Contract!idp, idp, searches
  <2> QED BY <2>1 DEF Contract!Next
<1> QED BY <1>3, <1>4, <1>5 DEF Resolving

LEMMA ResolvedImplements ==
  ASSUME VerifierInv, VerifierInv', NEW c \in Calls, Resolved(c)
  PROVE  Contract!Next
<1>1. /\ Meta!LookupHit(c) \/ Meta!Store(c)
      /\ UNCHANGED <<clock, idp, advertised, replacedAt, listedSince, token, movedAt>>
      /\ task[c].pc # "idle"
  BY DEF Resolved, steady, Meta!LookupHit, Meta!Store, Meta!issuers
<1>2. /\ verdict[c] = "pending" /\ searches[c] = Contract!Unnamed
      /\ Contract!Recent(AnswerURI(c))
  BY <1>1, ResolvingIsNameless, AnswerIsRecent DEF AnswerURI
<1>3. call \in [Calls -> CallRecord]
  BY OwnFacts DEF Typed
<1>4. CASE UNCHANGED vars /\ AnswerURI(c) = NoURI /\ verdict' = [verdict EXCEPT ![c] = "noJWKS"]
  <2>1. searches' = [searches EXCEPT ![c] = Contract!Unnamed]
    BY <1>2, <1>4 DEF vars, searches
  <2>2. Contract!NoJWKS(c)
    BY <1>1, <1>2, <1>4, <2>1
       DEF Contract!NoJWKS, Contract!Nameless, Contract!Judge, Contract!world, Contract!idp, idp,
           searches
  <2> QED BY <2>2 DEF Contract!Next
<1>5. CASE AnswerURI(c) \in URIs /\ Begin(c, AnswerURI(c), token[c].kid) /\ UNCHANGED verdict
  <2>1. /\ call'[c] = Called(AnswerURI(c), token[c].kid)
        /\ \A q \in Calls \ {c} : call'[q] = call[q]
    BY <1>3, <1>5 DEF Begin
  <2>2. SearchOf(call'[c]) = Contract!Search(AnswerURI(c), 0, 0)
    BY <2>1 DEF SearchOf, Looks, Called, Contract!Search
  <2>3. searches' = [searches EXCEPT ![c] = Contract!Search(AnswerURI(c), 0, 0)]
    BY <2>1, <2>2, OneSearch
  <2>4. Contract!Name(c, AnswerURI(c))
    BY <1>1, <1>2, <1>5, <2>3
       DEF Contract!Name, Contract!Nameless, Contract!world, Contract!idp, idp, searches
  <2> QED BY <1>5, <2>4 DEF Contract!Next
<1>6. CASE /\ AnswerURI(c) \in URIs /\ HeaderParseFails(c)
           /\ verdict' = [verdict EXCEPT ![c] = "headerParse"]
  <2>1. call'[c].pc = "idle" /\ \A q \in Calls \ {c} : call'[q] = call[q]
    BY <1>3, <1>6, ReturnIdles DEF HeaderParseFails
  <2>2. SearchOf(call'[c]) = Contract!Unnamed
    BY <2>1 DEF SearchOf, Contract!Unnamed, Contract!Search
  <2>3. searches' = [searches EXCEPT ![c] = Contract!Unnamed]
    BY <2>1, <2>2, OneSearch
  <2>4. Contract!HeaderParseFails(c)
    BY <1>1, <1>2, <1>6, <2>3
       DEF Contract!HeaderParseFails, Contract!Nameless, Contract!Judge, Contract!world,
           Contract!idp, idp, searches
  <2> QED BY <2>4 DEF Contract!Next
<1> QED BY <1>4, <1>5, <1>6, ResolvedOfCache

\* What the keys a call has found say of what its looks may and must have shown.
LEMMA FoundKeys ==
  ASSUME VerifierInv, NEW c \in Calls, call[c].pc = "resolve"
  PROVE  /\ call[c].keys \subseteq Keys /\ call[c].kid = token[c].kid
         /\ \A k \in call[c].keys : Contract!MayShow(c, k)
         /\ \A k \in Keys : Contract!MustShow(c, k) => k \in call[c].keys
<1>1. /\ call[c].keys \subseteq Keys /\ call[c].kid = token[c].kid /\ call[c].uri \in URIs
      /\ searches[c].uri = call[c].uri /\ searches[c].since = call[c].now
  BY OwnFacts DEF VerifierInv, CallsInStep, Typed, CallRecord, searches, SearchOf
<1>2. \A k \in call[c].keys : PublishedAfter(call[c].uri, k, call[c].now - Window)
  BY DEF VerifierInv, TrustInv, KeysWithinTrustWindow
<1>3. ListsAt(call[c].uri, call[c].now - Window, call[c].keys)
  BY DEF VerifierInv, KeysComplete, ResolveComplete
<1> QED BY <1>1, <1>2, <1>3
        DEF Contract!MayShow, Contract!MustShow, Contract!PublishedAfter, PublishedAfter, ListsAt,
            searches

LEMMA SelectingImplements ==
  ASSUME VerifierInv, NEW c \in Calls, SelectKeys(c),
         Contract!Looked(c), UNCHANGED slowest,
         Contract!Judge(c, IF token[c].key \in Candidates(call[c].kid, call[c].keys)
                           THEN "accepted" ELSE "signature")
  PROVE  Contract!Next
<1> DEFINE k == token[c].key
<1>1. call[c].pc = "resolve" /\ ~ KidMissing(c)
  BY DEF SelectKeys
<1>2. k \in Keys
  BY VerifierAssumption DEF VerifierInv, OwnTypeOK
<1>3. CASE k \in Candidates(call[c].kid, call[c].keys)
  <2>1. k \in Contract!Wanted(c) /\ Contract!MayShow(c, k)
    BY <1>1, <1>2, <1>3, FoundKeys DEF Candidates, Contract!Wanted, Contract!Candidates
  <2>2. Contract!Accept(c)
    BY <1>3, <2>1 DEF Contract!Accept
  <2> QED BY <2>2 DEF Contract!Next
<1>4. CASE k \notin Candidates(call[c].kid, call[c].keys)
  <2>1. k \in Contract!Wanted(c) => ~ Contract!MustShow(c, k)
    BY <1>1, <1>2, <1>4, FoundKeys DEF Candidates, Contract!Wanted, Contract!Candidates
  <2>2. token[c].kid # NoKid => \E j \in Contract!Wanted(c) : Contract!MayShow(c, j)
    BY <1>1, FoundKeys DEF KidMissing, Candidates, Contract!Wanted, Contract!Candidates
  <2>3. Contract!RefuseSignature(c)
    BY <1>4, <2>1, <2>2 DEF Contract!RefuseSignature
  <2> QED BY <2>3 DEF Contract!Next
<1> QED BY <1>3, <1>4

LEMMA FetchingImplements ==
  ASSUME VerifierInv, VerifierInv', NEW c \in Calls, Fetching(c)
  PROVE  [Contract!Next]_(Contract!contract)
<1>a. /\ Step(c) /\ UNCHANGED <<clock, idp, advertised, replacedAt, listedSince, token, slowest>>
      /\ verdict' = IF call'[c].pc # "idle" THEN verdict
                    ELSE [verdict EXCEPT ![c] = Judged(token[c], call'[c])]
  BY DEF Fetching, metaVars, steady, Step, ReadClock, LookupHit, LookupMiss, RecordAttempt, Respond,
         Fault, Store, RecordResult, SelectKeys, InvalidateJWKSCache, KidNotFound
<1>b. /\ call \in [Calls -> CallRecord] /\ verdict \in [Calls -> Verdicts] /\ TypeInv
      /\ call[c].pc # "idle" => verdict[c] = "pending" /\ call[c].uri \in URIs
  BY OwnFacts DEF Typed, VerifierInv, OwnTypeOK, CallsInStep, TrustInv
<1>c. searches[c] = Contract!Search(call[c].uri, Looks(call[c]), call[c].now) \/ call[c].pc = "idle"
  BY DEF searches, SearchOf, Contract!Search
<1>1. CASE ReadClock(c)
  <2>1. /\ call'[c].uri = call[c].uri /\ call'[c].now = clock /\ call'[c].pc = "lookup"
        /\ call'[c].retried = call[c].retried /\ call[c].pc = "clock"
        /\ \A q \in Calls \ {c} : call'[q] = call[q]
    BY <1>1, <1>b DEF ReadClock, CallRecord
  <2>2. Looks(call'[c]) = Looks(call[c]) + 1 /\ Looks(call[c]) < 2
    BY <2>1 DEF Looks
  <2>3. SearchOf(call'[c]) = Contract!Search(call[c].uri, Looks(call[c]) + 1, clock)
    BY <2>1, <2>2 DEF SearchOf, Contract!Search
  <2>4. searches' = [searches EXCEPT ![c] = Contract!Search(call[c].uri, Looks(call[c]) + 1, clock)]
    BY <2>1, <2>3, OneSearch
  <2>5. searches[c].uri = call[c].uri /\ searches[c].looks = Looks(call[c])
    BY <1>c, <2>1 DEF Contract!Search
  <2>6. Contract!Look(c)
    BY <1>a, <1>b, <2>1, <2>2, <2>4, <2>5 DEF Contract!Look, Contract!world, Contract!idp, idp, searches
  <2> QED BY <2>6 DEF Contract!Next
<1>2. CASE LookupHit(c) \/ LookupMiss(c) \/ RecordAttempt(c) \/ Respond(c) \/ Fault(c) \/ Store(c)
           \/ (RecordResult(c) /\ call[c].err = "none") \/ InvalidateJWKSCache(c)
  <2>1. /\ call'[c].uri = call[c].uri /\ call'[c].now = call[c].now
        /\ call'[c].pc # "idle" /\ call[c].pc # "idle" /\ Looks(call'[c]) = Looks(call[c])
        /\ \A q \in Calls \ {c} : call'[q] = call[q]
    BY <1>2, <1>b DEF LookupHit, LookupMiss, RecordAttempt, Respond, Fault, Store, RecordResult,
                      InvalidateJWKSCache, RetryAllowed, CallRecord, Looks
  <2>2. searches' = searches
    BY <2>1 DEF searches, SearchOf
  <2> QED BY <1>a, <2>1, <2>2 DEF Contract!contract, Contract!world, Contract!idp, idp, searches
<1>3. CASE (RecordResult(c) /\ call[c].err # "none") \/ SelectKeys(c) \/ KidNotFound(c)
  <2>1. /\ call'[c].pc = "idle" /\ \A q \in Calls \ {c} : call'[q] = call[q]
        /\ call[c].pc \in {"report", "resolve"}
    BY <1>3, <1>b, ReturnIdles DEF RecordResult, SelectKeys, KidNotFound
  <2>2. SearchOf(call'[c]) = Contract!Unnamed
    BY <2>1 DEF SearchOf, Contract!Unnamed, Contract!Search
  <2>3. searches' = [searches EXCEPT ![c] = Contract!Unnamed]
    BY <2>1, <2>2, OneSearch
  <2>4. searches[c].looks = Looks(call[c]) /\ Looks(call[c]) > 0 /\ verdict[c] = "pending"
    BY <1>b, <1>c, <2>1 DEF Contract!Search, Looks
  <2>5. verdict' = [verdict EXCEPT ![c] = verdict'[c]] /\ verdict'[c] # "pending"
    <3>1. call'[c].err \in Errors
      BY OwnFacts DEF VerifierInv, TrustInv, TypeInv, TypeOK, CallRecord
    <3>2. Judged(token[c], call'[c]) # "pending"
      BY <3>1 DEF Judged, Errors
    <3> QED BY <1>a, <1>b, <2>1, <3>2
  <2>6. Contract!Looked(c) /\ Contract!Judge(c, verdict'[c]) /\ UNCHANGED slowest
    BY <1>a, <2>3, <2>4, <2>5
       DEF Contract!Looked, Contract!Judge, Contract!world, Contract!idp, idp, searches
  <2>7. CASE RecordResult(c) /\ verdict'[c] \in {"transient", "permanent"}
    <3>1. Contract!FetchFails(c)
      BY <2>6, <2>7 DEF Contract!FetchFails
    <3> QED BY <3>1 DEF Contract!Next
  <2>8. CASE /\ SelectKeys(c)
             /\ verdict'[c] = IF token[c].key \in Candidates(call[c].kid, call[c].keys)
                             THEN "accepted" ELSE "signature"
    BY <2>6, <2>8, SelectingImplements
  <2>9. CASE KidNotFound(c) /\ verdict'[c] = "kidNotFound"
    <3>1. call[c].pc = "resolve" /\ Looks(call[c]) = 2 /\ KidMissing(c)
      BY <1>b, <2>9 DEF KidNotFound, RetryAllowed, Looks, CallRecord
    <3>2. \A k \in Contract!Wanted(c) : ~ Contract!MustShow(c, k)
      BY <3>1, FoundKeys
         DEF KidMissing, Candidates, Contract!Wanted, Contract!Candidates
    <3>3. Contract!RefuseKid(c)
      BY <2>4, <2>6, <2>9, <3>1, <3>2, FoundKeys DEF Contract!RefuseKid, KidMissing, searches
    <3> QED BY <3>3 DEF Contract!Next
  <2> QED BY <2>4, <2>5, <2>7, <2>8, <2>9, HowFetchingEnds
<1> QED BY <1>a, <1>1, <1>2, <1>3 DEF Step

LEMMA EnvironmentImplements ==
  ASSUME Passing \/ Rotating \/ Moving
  PROVE  Contract!Environment
<1>1. UNCHANGED <<call, token, verdict, slowest>> /\ searches' = searches
  BY DEF Passing, Tick, Rotating, Publish, Moving, Meta!Tick, Meta!Advertise, metaVars, searches
<1>2. CASE Passing
  BY <1>1, <1>2 DEF Passing, Tick, ClockMoves, Meta!Tick, Meta!TimePasses, Meta!issuers, steady, idp,
                    Contract!Environment, Contract!ClockMoves, Contract!idp, searches
<1>3. CASE Rotating
  BY <1>1, <1>3 DEF Rotating, Publish, Rotate, metaVars,
                    Contract!Environment, Contract!Rotate, searches
<1>4. CASE Moving
  BY <1>1, <1>4 DEF Moving, Meta!Advertise, Meta!Replace, Meta!Answers, Meta!Documents,
                    Contract!Environment, Contract!Endpoints!Replace, Contract!Endpoints!Answers,
                    Contract!Endpoints!Documents, Contract!idp, idp, searches
<1> QED BY <1>2, <1>3, <1>4

LEMMA ContractStep ==
  VerifierInv /\ VerifierInv' /\ [VerifierNext]_allVars => [Contract!Next]_(Contract!contract)
<1> SUFFICES ASSUME VerifierInv, VerifierInv', [VerifierNext]_allVars
             PROVE  [Contract!Next]_(Contract!contract)
  OBVIOUS
<1>1. CASE UNCHANGED allVars
  BY <1>1 DEF allVars, vars, metaVars, steady, Contract!contract, Contract!world, Contract!idp, searches
<1>2. CASE Passing \/ Rotating \/ Moving
  BY <1>2, EnvironmentImplements DEF Contract!Next
<1>3. ASSUME NEW c \in Calls, NEW t \in Tokens, Verify(c, t)
      PROVE  Contract!Next
  <2>1. Contract!Verify(c, t)
    BY <1>3 DEF Verify, steady, Meta!FetchAuthServerMeta, Meta!issuers, Contract!Verify,
                Contract!world, Contract!idp, idp, searches
  <2> QED BY <2>1 DEF Contract!Next
<1>4. ASSUME NEW c \in Calls, Resolving(c) \/ Resolved(c) \/ Fetching(c)
      PROVE  [Contract!Next]_(Contract!contract)
  BY <1>4, ResolvingImplements, ResolvedImplements, FetchingImplements
<1> QED BY <1>1, <1>2, <1>3, <1>4 DEF VerifierNext

\* Whoever verifies tokens cannot tell the Verifier, with its caches, from one
\* that asks the issuer each time, for any number of goroutines, keys, URIs and
\* tokens and any TTL.
THEOREM VerifierImplementsVerification == VerifierSpec => ImplementsVerification
BY VerifierStarts, VerifierStep, ContractInit, ContractStep, PTL
   DEF VerifierSpec, ImplementsVerification, Contract!Spec

-----------------------------------------------------------------------------
\* Each cache in the composition behaves as it does alone, so what was proved
\* of it alone holds in use.

LEMMA RunsCache == VerifierInv /\ [VerifierNext]_allVars => [Next]_vars
<1>1. UNCHANGED allVars => UNCHANGED vars
  BY DEF allVars
<1> QED BY <1>1, StepOfCache

LEMMA RunsMeta == [VerifierNext]_allVars => [Meta!Next]_(Meta!vars)
<1>1. UNCHANGED allVars => UNCHANGED Meta!vars
  BY DEF allVars, vars, metaVars, Meta!vars
<1> QED BY <1>1, StepOfMeta

LEMMA StartsCache == VerifierInit => Init
BY DEF VerifierInit

LEMMA TrustsCache == VerifierInv => TrustInv
BY DEF VerifierInv

\* In use, too, the JWKS cache cannot be told from the cache-free directory.
THEOREM ComposedCacheImplementsDirectory == VerifierSpec => ImplementsDirectory
BY StartsCache, TrustsCache, RunsCache, VerifierStarts, VerifierStep, DirectoryInit, DirectoryStep, PTL
   DEF VerifierSpec, ImplementsDirectory, Directory!Spec

\* A readiness probe may draw the same conclusions from the health snapshot of
\* a Verifier in use, watched like the cache alone: once the fetch it reports has
\* ended, it tells how, unless one that this fetch overtook has ended since, ...
THEOREM ComposedSnapshots ==
  VerifierInit /\ WatchInit /\ [][VerifierNext /\ Watch]_<<allVars, watch>> => []SnapshotExplained
<1>1. WatchInv => SnapshotExplained
  BY DEF WatchInv
<1>2. [VerifierNext /\ Watch]_<<allVars, watch>> => [VerifierNext]_allVars
  OBVIOUS
<1>3. VerifierInv /\ [VerifierNext /\ Watch]_<<allVars, watch>>
        => [Next]_vars /\ (Watch \/ UNCHANGED <<vars, watch>>)
  <2>1. UNCHANGED allVars => UNCHANGED vars
    BY DEF allVars
  <2>2. UNCHANGED <<allVars, watch>> => UNCHANGED allVars /\ UNCHANGED watch
    OBVIOUS
  <2> QED BY <2>1, <2>2, <1>2, RunsCache
<1> QED BY <1>1, <1>2, <1>3, StartsCache, VerifierStarts, VerifierStep, WatchStart, WatchStep, PTL

\* ... an all-zero one means that no fetch was attempted, ...
THEOREM ComposedZeroSnapshots == VerifierSpec => []ZeroHealthMeansNoFetch
<1>1. HealthInv => ZeroHealthMeansNoFetch
  BY DEF HealthInv
<1> QED BY <1>1, StartsCache, RunsCache, VerifierStarts, VerifierStep, HealthInit, HealthStep, PTL
        DEF VerifierSpec

\* ... and the success time never goes back.
THEOREM ComposedSuccessIsMonotone == VerifierSpec => SuccessNeverGoesBack
BY StartsCache, RunsCache, VerifierStarts, VerifierStep, HealthInit, HealthStep, SuccessStep, PTL
   DEF VerifierSpec, SuccessNeverGoesBack

\* In use, too, a kid is only given up for one of the two reasons.
THEOREM ComposedKidMisses == VerifierSpec => []KidMissExplained
<1>1. KidInv => KidMissExplained
  BY DEF KidInv
<1> QED BY <1>1, StartsCache, RunsCache, VerifierStarts, VerifierStep, KidInit, KidStep, PTL
        DEF VerifierSpec

\* In use, too, the metadata cache cannot be told from the cache-free directory.
THEOREM ComposedMetaImplementsDirectory == VerifierSpec => MetaP!ImplementsIssuerDirectory
<1>1. Meta!Init => MetaP!Directory!Init
  BY SameInit, MetaAssumptions, MetaP!DirectoryInit
<1>2. MetaI!MetaInv <=> MetaP!MetaInv
  BY SameInv
<1>3. MetaP!MetaInv /\ MetaP!MetaInv' /\ [MetaP!Next]_(MetaP!vars)
        => [MetaP!Directory!Next]_(MetaP!Directory!directoryVars)
  BY MetaAssumptions, MetaP!DirectoryStep
<1>4. [Meta!Next]_(Meta!vars) => [MetaP!Next]_(MetaP!vars)
  BY SameStep
<1>5. VerifierInit => Meta!Init
  BY DEF VerifierInit
<1>6. VerifierInv => MetaI!MetaInv
  BY DEF VerifierInv
<1> QED BY <1>1, <1>2, <1>3, <1>4, <1>5, <1>6, RunsMeta, VerifierStarts, VerifierStep, PTL
        DEF VerifierSpec, MetaP!ImplementsIssuerDirectory, MetaP!Directory!Spec

-----------------------------------------------------------------------------
\* The work of a verification.

LEMMA WhoMoves ==
  ASSUME VerifierInv, VerifierNext, NEW c \in Calls, verdict[c] = "pending",
         <<task[c], call[c], verdict[c]>>' # <<task[c], call[c], verdict[c]>>
  PROVE  Resolving(c) \/ Resolved(c) \/ Fetching(c)
<1>a. /\ verdict \in [Calls -> Verdicts] /\ call \in [Calls -> CallRecord]
      /\ task \in [Calls -> MetaI!TaskRecord] /\ TypeInv
  BY OwnFacts, MetaFacts DEF VerifierInv, OwnTypeOK, Typed, TrustInv
<1>1. ~ Passing /\ ~ Rotating /\ ~ Moving
  BY DEF Passing, Tick, Rotating, Publish, Moving, Meta!Tick, Meta!Advertise, metaVars
<1>2. ASSUME NEW q \in Calls, NEW t \in Tokens, Verify(q, t)
      PROVE  FALSE
  <2>1. q # c
    BY <1>2 DEF Verify
  <2> QED BY <1>2, <1>a, <2>1 DEF Verify, Meta!FetchAuthServerMeta
<1>3. ASSUME NEW q \in Calls \ {c}, Resolving(q) \/ Resolved(q) \/ Fetching(q)
      PROVE  FALSE
  <2>1. verdict'[c] = verdict[c]
    BY <1>3, <1>a, ResolvedOfCache DEF Resolving, Fails, Fetching
  <2>2. task'[c] = task[c]
    BY <1>3, <1>a DEF Resolving, Resolved, Fetching, metaVars, Meta!LookupMiss, Meta!Discover,
                      Meta!NoMetadata, Meta!DiscoveryFails, Meta!LookupHit, Meta!Store
  <2>3. call'[c] = call[c]
    <3>1. CASE Resolving(q)
      BY <3>1 DEF Resolving, Fails
    <3>2. CASE Resolved(q)
      BY <1>a, <3>2, ResolvedOfCache DEF vars, Begin, HeaderParseFails, Return
    <3>3. CASE Fetching(q)
      BY <1>3, <1>a, <3>3, StepIsOwn DEF Fetching
    <3> QED BY <1>3, <3>1, <3>2, <3>3
  <2> QED BY <2>1, <2>2, <2>3
<1> QED BY <1>1, <1>2, <1>3 DEF VerifierNext

LEMMA NearerVerdict ==
  ASSUME VerifierInv, VerifierInv', NEW c \in Calls, verdict[c] = "pending",
         Resolving(c) \/ Resolved(c) \/ Fetching(c)
  PROVE  StepsToVerdict(c)' < StepsToVerdict(c)
<1>a. /\ verdict \in [Calls -> Verdicts] /\ call \in [Calls -> CallRecord]
      /\ task \in [Calls -> MetaI!TaskRecord] /\ TypeInv
  BY OwnFacts, MetaFacts DEF VerifierInv, OwnTypeOK, Typed, TrustInv
<1>1. verdict'[c] # "pending" => StepsToVerdict(c)' = 0
  BY DEF StepsToVerdict
<1>2. CASE Resolving(c)
  <2>1. /\ UNCHANGED call /\ call[c].pc = "idle" /\ task[c].pc \in {"lookup", "discover"}
        /\ verdict'[c] = "pending" => <<task[c].pc, task'[c].pc>> \in
                                        {<<"lookup", "discover">>, <<"discover", "store">>}
    BY <1>2, <1>a, ResolvingIsIdle
       DEF Resolving, Fails, Meta!LookupMiss, Meta!Discover, Meta!NoMetadata, Meta!DiscoveryFails,
           MetaI!TaskRecord
  <2> QED BY <1>1, <2>1 DEF StepsToVerdict
<1>3. CASE Resolved(c)
  <2>1. call[c].pc = "idle" /\ task[c].pc \in {"lookup", "store"}
    BY <1>3, ResolvingIsIdle DEF Resolved, Meta!LookupHit, Meta!Store
  <2>2. StepsToVerdict(c) \in Nat /\ StepsToVerdict(c) > 14
    BY <2>1 DEF StepsToVerdict
  <2>3. \/ verdict'[c] # "pending"
        \/ call'[c] = Called(AnswerURI(c), token[c].kid) /\ verdict'[c] = "pending"
    BY <1>3, <1>a, ResolvedOfCache DEF Begin
  <2>4. call'[c] = Called(AnswerURI(c), token[c].kid) /\ verdict'[c] = "pending"
          => StepsToVerdict(c)' = 14
    BY DEF StepsToVerdict, StepsLeft, Called
  <2> QED BY <1>1, <2>2, <2>3, <2>4
<1>4. CASE Fetching(c)
  <2>1. StepsLeft(call'[c]) < StepsLeft(call[c]) /\ StepsLeft(call[c]) > 0 /\ call[c].pc # "idle"
    BY <1>4, <1>a, StepIsProgress, StepsUnderWay
       DEF Fetching, Step, ReadClock, LookupHit, LookupMiss, RecordAttempt, Respond, Fault, Store,
           RecordResult, SelectKeys, InvalidateJWKSCache, KidNotFound
  <2>2. StepsToVerdict(c) = StepsLeft(call[c])
    BY <2>1 DEF StepsToVerdict
  <2>3. CASE call'[c].pc # "idle"
    <3>1. verdict'[c] = "pending"
      BY <1>4, <2>3 DEF Fetching
    <3>2. StepsToVerdict(c)' = StepsLeft(call'[c])
      BY <2>3, <3>1 DEF StepsToVerdict, StepsLeft
    <3> QED BY <2>1, <2>2, <3>2
  <2>4. CASE call'[c].pc = "idle"
    <3>1. call'[c].err \in Errors
      BY OwnFacts DEF VerifierInv, TrustInv, TypeInv, TypeOK, CallRecord
    <3>2. verdict'[c] # "pending"
      BY <1>4, <1>a, <2>4, <3>1 DEF Fetching, Judged, Errors
    <3> QED BY <1>1, <2>1, <2>2, <3>2
  <2> QED BY <2>3, <2>4
<1> QED BY <1>2, <1>3, <1>4

\* A token costs its issuer at most one discovery and two exchanges, and has its
\* verdict after at most seventeen steps, for any number of goroutines.
THEOREM VerificationIsBounded == VerifierSpec => VerdictsComeNearer
<1> DEFINE Nearer ==
      \A c \in Calls : /\ verdict[c] = "pending"
                       /\ <<task[c], call[c], verdict[c]>>' # <<task[c], call[c], verdict[c]>>
                       => StepsToVerdict(c)' < StepsToVerdict(c)
<1>1. VerifierInv /\ VerifierInv' /\ [VerifierNext]_allVars => [Nearer]_allVars
  BY WhoMoves, NearerVerdict
<1> QED BY <1>1, VerifierStarts, VerifierStep, PTL DEF VerifierSpec, VerdictsComeNearer

=============================================================================
