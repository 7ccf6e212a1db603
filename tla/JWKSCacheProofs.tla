-------------------------- MODULE JWKSCacheProofs --------------------------
(***************************************************************************)
(* What JWKSCache guarantees for every number of goroutines, every set of  *)
(* keys, URIs and instants, and every TTL.                                 *)
(***************************************************************************)
EXTENDS JWKSHealth, CacheExpiryProofs

USE DEF ZeroTime, Time

-----------------------------------------------------------------------------
\* The deadlines (jitteredExpiry).

\* The effective TTL is positive whatever the configuration says.
LEMMA TTLPositive == TTL \in Nat \ {0}
BY TTLAssumption, EffectivePositive DEF TTL

\* Trust in a withdrawn key ends, but not at once.
LEMMA WindowPositive == Window \in Nat \ {0}
BY TTLPositive, WindowOfPositive DEF Window

-----------------------------------------------------------------------------
\* The types.

LEMMA FaultClasses == \A f \in DOMAIN FaultClass : FaultClass[f] \in {"transient", "permanent"}
BY DEF FaultClass

LEMMA IdleTyped ==
  ASSUME NEW K \in SUBSET Keys, NEW e \in Errors
  PROVE  Returned(K, e) \in CallRecord /\ Returned(K, e).pc = "idle"
BY DEF Returned, CallRecord, Labels, Errors

LEMMA TypeInit == Init => TypeInv
BY DEF Init, IdPInit, TypeInv, TypeOK, IdPTypeOK, CallsInOrder, Health, Idle, Returned, CallRecord, Labels,
       Errors

\* A call that returns is idle, and only its own locals change.
LEMMA ReturnIdles ==
  ASSUME NEW c \in Calls, call \in [Calls -> CallRecord], NEW K, NEW e, Return(c, K, e)
  PROVE  /\ call'[c].pc = "idle"
         /\ call'[c].now = ZeroTime
         /\ \A q \in Calls \ {c} : call'[q] = call[q]
BY DEF Return, Returned

\* A call that returns leaves the types as they were.
LEMMA ReturnTyped ==
  ASSUME TypeInv, NEW c \in Calls, NEW K \in SUBSET Keys, NEW e \in Errors, Return(c, K, e)
  PROVE  /\ call' \in [Calls -> CallRecord]
         /\ absent' \subseteq Calls
         /\ restored' \subseteq Calls
         /\ \A q \in Calls \ {c} : call'[q] = call[q]
         /\ call'[c].pc = "idle"
BY IdleTyped DEF TypeInv, TypeOK, Return

\* The steps of fetchJWKSet that write several locals keep them typed.
LEMMA LocalsTyped ==
  ASSUME TypeInv, NEW c \in Calls,
         \/ ReadClock(c) \/ LookupHit(c) \/ Respond(c) \/ InvalidateJWKSCache(c)
         \/ (RecordResult(c) /\ call[c].err = "none")
  PROVE  call' \in [Calls -> CallRecord]
<1>1. /\ call \in [Calls -> CallRecord]
      /\ clock \in Time
      /\ jwks.keys \in SUBSET Keys
      /\ call[c].pc = "http" => published[call[c].uri] \in SUBSET Keys
  BY InstantsAssumption DEF TypeInv, TypeOK, IdPTypeOK, CallsInOrder
<1>2. CASE ReadClock(c)
  <2>1. call' = [call EXCEPT ![c] = [call[c] EXCEPT !.pc = "lookup", !.now = clock]]
    BY <1>2 DEF ReadClock
  <2>2. [call[c] EXCEPT !.pc = "lookup", !.now = clock] \in CallRecord
    BY <1>1 DEF CallRecord, Labels
  <2> QED BY <1>1, <2>1, <2>2
<1>3. CASE LookupHit(c)
  <2>1. call' = [call EXCEPT ![c] = [call[c] EXCEPT !.pc = "resolve", !.keys = jwks.keys]]
    BY <1>3 DEF LookupHit
  <2>2. [call[c] EXCEPT !.pc = "resolve", !.keys = jwks.keys] \in CallRecord
    BY <1>1 DEF CallRecord, Labels
  <2> QED BY <1>1, <2>1, <2>2
<1>4. CASE Respond(c)
  <2> DEFINE fetched == [call[c] EXCEPT !.pc = "store", !.keys = published[call[c].uri]]
  <2>1. call' = [call EXCEPT ![c] = fetched] /\ call[c].pc = "http"
    BY <1>4 DEF Respond
  <2>2. fetched \in CallRecord
    BY <1>1, <2>1 DEF CallRecord, Labels
  <2> QED BY <1>1, <2>1, <2>2
<1>5. CASE InvalidateJWKSCache(c)
  <2>1. call' = [call EXCEPT ![c] = [call[c] EXCEPT !.pc = "clock", !.retried = TRUE, !.keys = {}]]
    BY <1>5 DEF InvalidateJWKSCache
  <2>2. [call[c] EXCEPT !.pc = "clock", !.retried = TRUE, !.keys = {}] \in CallRecord
    BY <1>1 DEF CallRecord, Labels
  <2> QED BY <1>1, <2>1, <2>2
<1>6. CASE RecordResult(c) /\ call[c].err = "none"
  <2>1. call' = [call EXCEPT ![c] = [call[c] EXCEPT !.pc = "resolve"]]
    BY <1>6 DEF RecordResult
  <2>2. [call[c] EXCEPT !.pc = "resolve"] \in CallRecord
    BY <1>1 DEF CallRecord, Labels
  <2> QED BY <1>1, <2>1, <2>2
<1> QED BY <1>2, <1>3, <1>4, <1>5, <1>6

LEMMA TypeStep == TypeInv /\ [Next]_vars => TypeInv'
<1> SUFFICES ASSUME TypeInv, [Next]_vars
             PROVE  TypeInv'
  OBVIOUS
<1> USE DEF TypeInv, TypeOK, IdPTypeOK, CallsInOrder, history, idp
<1>1. CASE UNCHANGED vars
  BY <1>1 DEF vars
<1>2. CASE Tick
  BY <1>2 DEF Tick, ClockMoves
<1>3. ASSUME NEW u \in URIs, NEW K \in SUBSET Keys, Publish(u, K)
      PROVE  TypeInv'
  <2>1. published' \in [URIs -> SUBSET Keys]
    BY <1>3 DEF Publish, Rotate
  <2>2. withdrawnAt' \in [URIs -> [Keys -> Time]]
    BY <1>3, InstantsAssumption DEF Publish, Rotate
  <2> QED BY <1>3, <2>1, <2>2 DEF Publish, Rotate
<1>4. ASSUME NEW c \in Calls, NEW u \in URIs, NEW kid \in TokenKids, Begin(c, u, kid)
      PROVE  TypeInv'
  <2>1. Called(u, kid) \in CallRecord
    BY CallAssumption DEF Called, CallRecord, Labels, Errors
  <2> QED BY <1>4, <2>1 DEF Begin, Called
<1>5. ASSUME NEW c \in Calls, HeaderParseFails(c)
      PROVE  TypeInv'
  BY <1>5, ReturnTyped DEF HeaderParseFails, Errors
<1>6. ASSUME NEW c \in Calls, ReadClock(c)
      PROVE  TypeInv'
  <2>1. call' \in [Calls -> CallRecord]
    BY <1>6, LocalsTyped
  <2>2. \A q \in Calls \ {c} : call'[q] = call[q]
    BY <1>6 DEF ReadClock
  <2> QED BY <1>6, <2>1, <2>2 DEF ReadClock
<1>7. ASSUME NEW c \in Calls, LookupHit(c)
      PROVE  TypeInv'
  <2>1. call' \in [Calls -> CallRecord]
    BY <1>7, LocalsTyped
  <2>2. \A q \in Calls \ {c} : call'[q] = call[q]
    BY <1>7 DEF LookupHit
  <2> QED BY <1>7, <2>1, <2>2 DEF LookupHit
<1>8. ASSUME NEW c \in Calls, LookupMiss(c)
      PROVE  TypeInv'
  BY <1>8 DEF LookupMiss, CallRecord, Labels
<1>9. ASSUME NEW c \in Calls, RecordAttempt(c)
      PROVE  TypeInv'
  BY <1>9 DEF RecordAttempt, Attempted, CallRecord, Labels, Health
<1>10. ASSUME NEW c \in Calls, Respond(c)
       PROVE  TypeInv'
  <2>1. call' \in [Calls -> CallRecord]
    BY <1>10, LocalsTyped
  <2>2. \A q \in Calls \ {c} : call'[q] = call[q]
    BY <1>10 DEF Respond
  <2> QED BY <1>10, <2>1, <2>2 DEF Respond
<1>11. ASSUME NEW c \in Calls, Fault(c)
       PROVE  TypeInv'
  BY <1>11, FaultClasses DEF Fault, CallRecord, Labels, Errors
<1>12. ASSUME NEW c \in Calls, Store(c)
       PROVE  TypeInv'
  <2>1. jwks' \in [keys : SUBSET Keys, url : URIs \cup {NoURI}, expiresAt : Time]
    BY <1>12, TTLPositive, JitterBounds DEF Store, Deadline, CallRecord
  <2> QED BY <1>12, <2>1 DEF Store, CallRecord, Labels
<1>13. ASSUME NEW c \in Calls, RecordResult(c)
       PROVE  TypeInv'
  <2>1. health' \in Health
    BY <1>13, InstantsAssumption DEF RecordResult, Snapshot, Health
  <2>2. CASE call[c].err = "none"
    <3>1. call' \in [Calls -> CallRecord]
      BY <1>13, <2>2, LocalsTyped
    <3>2. call' = [call EXCEPT ![c].pc = "resolve"]
      BY <1>13, <2>2 DEF RecordResult
    <3> QED BY <1>13, <2>1, <2>2, <3>1, <3>2 DEF RecordResult
  <2>3. CASE call[c].err # "none"
    BY <1>13, <2>1, <2>3, ReturnTyped DEF RecordResult, Errors
  <2> QED BY <2>2, <2>3
<1>14. ASSUME NEW c \in Calls, SelectKeys(c)
       PROVE  TypeInv'
  <2>1. Candidates(call[c].kid, call[c].keys) \in SUBSET Keys
    BY DEF Candidates, CallRecord
  <2> QED BY <1>14, <2>1, ReturnTyped DEF SelectKeys, Errors
<1>15. ASSUME NEW c \in Calls, InvalidateJWKSCache(c)
       PROVE  TypeInv'
  <2>1. call' \in [Calls -> CallRecord]
    BY <1>15, LocalsTyped
  <2>2. \A q \in Calls \ {c} : call'[q] = call[q]
    BY <1>15 DEF InvalidateJWKSCache, Invalidated
  <2> QED BY <1>15, <2>1, <2>2 DEF InvalidateJWKSCache, Invalidated
<1>16. ASSUME NEW c \in Calls, KidNotFound(c)
       PROVE  TypeInv'
  BY <1>16, ReturnTyped DEF KidNotFound, Errors
<1> QED
  BY <1>1, <1>2, <1>3, <1>4, <1>5, <1>6, <1>7, <1>8, <1>9, <1>10, <1>11, <1>12, <1>13, <1>14,
     <1>15, <1>16 DEF Next, Step

\* Every variable keeps its type, whatever the constants.
THEOREM TypeCorrect == Spec => []TypeOK
<1>1. Spec => []TypeInv
  BY TypeInit, TypeStep, PTL DEF Spec
<1>2. TypeInv => TypeOK
  BY DEF TypeInv
<1> QED BY <1>1, <1>2, PTL

-----------------------------------------------------------------------------
\* Trust.

\* A rotation withdraws keys at the current instant, so a key published since
\* an instant not in the future still is.
LEMMA RotateKeepsTrust ==
  ASSUME TypeInv, TimesInOrder, NEW u \in URIs, NEW K \in SUBSET Keys, Rotate(u, K),
         NEW v \in URIs, NEW k \in Keys, NEW t \in Int
  PROVE  /\ PublishedSince(v, k, t) /\ t <= clock => PublishedSince(v, k, t)'
         /\ PublishedAfter(v, k, t) /\ t < clock => PublishedAfter(v, k, t)'
         /\ withdrawnAt'[v][k] <= clock
<1>1. /\ clock \in Nat \ {0}
      /\ published \in [URIs -> SUBSET Keys]
      /\ withdrawnAt \in [URIs -> [Keys -> Time]]
      /\ withdrawnAt[v][k] <= clock
  BY InstantsAssumption DEF TypeInv, TypeOK, IdPTypeOK, TimesInOrder
<1>2. CASE v = u /\ k \in published[u] \ K
  <2>1. withdrawnAt'[v][k] = clock
    BY <1>1, <1>2 DEF Rotate
  <2> QED BY <1>1, <2>1 DEF PublishedSince, PublishedAfter
<1>3. CASE ~ (v = u /\ k \in published[u] \ K)
  <2>1. withdrawnAt'[v][k] = withdrawnAt[v][k]
    BY <1>1, <1>3 DEF Rotate
  <2>2. k \in published[v] => k \in published'[v]
    BY <1>1, <1>3 DEF Rotate
  <2> QED BY <1>1, <2>1, <2>2 DEF PublishedSince, PublishedAfter
<1> QED BY <1>2, <1>3

\* The steps that touch neither the cache nor the IdP, and leave their
\* goroutine holding no key set, keep everything in trust.
LEMMA QuietStepKeepsTrust ==
  ASSUME TrustInv, TypeInv', NEW c \in Calls,
         UNCHANGED <<clock, published, withdrawnAt, jwks>>,
         \A q \in Calls \ {c} : call'[q] = call[q],
         call'[c].now <= clock,
         call'[c].pc # "resolve",
         ~ HoldsFetchedSet(c)'
  PROVE  TrustInv'
BY DEF TrustInv, TimesInOrder, CacheTrusted, FetchTrusted, HoldsFetchedSet,
       KeysWithinTrustWindow, PublishedSince, PublishedAfter

LEMMA TrustInit == Init => TrustInv
<1> SUFFICES ASSUME Init
             PROVE  TrustInv
  OBVIOUS
<1>1. TypeInv
  BY TypeInit
<1>2. TimesInOrder
  BY WindowPositive, InstantsAssumption DEF Init, IdPInit, TimesInOrder, Idle, Returned
<1> QED BY <1>1, <1>2 DEF Init, TrustInv, CacheTrusted, FetchTrusted, HoldsFetchedSet,
                          KeysWithinTrustWindow, Idle, Returned

LEMMA TrustStep == TrustInv /\ [Next]_vars => TrustInv'
<1> SUFFICES ASSUME TrustInv, [Next]_vars
             PROVE  TrustInv'
  OBVIOUS
<1>a. TypeInv /\ TypeInv'
  BY TypeStep DEF TrustInv
<1>b. /\ clock \in Nat \ {0}
      /\ jwks.expiresAt \in Nat
      /\ Window \in Nat \ {0}
      /\ withdrawnAt \in [URIs -> [Keys -> Time]]
      /\ call \in [Calls -> CallRecord]
      /\ \A c \in Calls : call[c].now \in Nat /\ call[c].now <= clock
      /\ \A c \in Calls : call[c].keys \subseteq Keys
      /\ \A c \in Calls : call[c].pc # "idle" => call[c].uri \in URIs
  BY <1>a, WindowPositive, InstantsAssumption
     DEF TypeInv, TypeOK, IdPTypeOK, TrustInv, TimesInOrder, CallRecord, CallsInOrder
<1>1. CASE UNCHANGED vars
  BY <1>1, <1>a DEF vars, TrustInv, TimesInOrder, CacheTrusted, FetchTrusted, HoldsFetchedSet,
                    KeysWithinTrustWindow, PublishedSince, PublishedAfter
<1>2. CASE Tick
  <2>1. clock' \in Nat /\ clock < clock'
    BY <1>2, InstantsAssumption DEF Tick, ClockMoves
  <2>2. UNCHANGED <<published, withdrawnAt, jwks, call>>
    BY <1>2 DEF Tick, ClockMoves, idp
  <2>3. TimesInOrder'
    BY <1>b, <2>1, <2>2 DEF TrustInv, TimesInOrder
  <2> QED BY <1>a, <2>2, <2>3 DEF TrustInv, CacheTrusted, FetchTrusted, HoldsFetchedSet,
                                  KeysWithinTrustWindow, PublishedSince, PublishedAfter
<1>3. ASSUME NEW u \in URIs, NEW K \in SUBSET Keys, Publish(u, K)
      PROVE  TrustInv'
  <2>1. Rotate(u, K) /\ UNCHANGED <<clock, jwks, call>>
    BY <1>3 DEF Publish, Rotate
  <2>2. TimesInOrder'
    BY <1>a, <1>b, <2>1, RotateKeepsTrust DEF TrustInv, TimesInOrder
  <2>3. CacheTrusted'
    <3> SUFFICES ASSUME NEW k \in jwks.keys
                 PROVE  jwks.url \in URIs /\ PublishedSince(jwks.url, k, jwks.expiresAt - Window)'
      BY <2>1 DEF CacheTrusted
    <3>1. jwks.url \in URIs /\ k \in Keys /\ PublishedSince(jwks.url, k, jwks.expiresAt - Window)
      BY <1>a DEF TrustInv, CacheTrusted, TypeInv, TypeOK
    <3>2. jwks.expiresAt - Window \in Int /\ jwks.expiresAt - Window <= clock
      BY <1>b DEF TrustInv, TimesInOrder
    <3> QED BY <1>a, <2>1, <3>1, <3>2, RotateKeepsTrust DEF TrustInv, PublishedSince
  <2>4. FetchTrusted'
    BY <1>a, <1>b, <2>1, RotateKeepsTrust
       DEF TrustInv, FetchTrusted, HoldsFetchedSet, PublishedSince
  <2>5. KeysWithinTrustWindow'
    <3> SUFFICES ASSUME NEW c \in Calls, call[c].pc = "resolve", NEW k \in call[c].keys
                 PROVE  PublishedAfter(call[c].uri, k, call[c].now - Window)'
      BY <2>1 DEF KeysWithinTrustWindow
    <3>1. PublishedAfter(call[c].uri, k, call[c].now - Window)
      BY DEF TrustInv, KeysWithinTrustWindow
    <3>2. call[c].now - Window \in Int /\ call[c].now - Window < clock
      BY <1>b
    <3>3. call[c].uri \in URIs /\ k \in Keys
      BY <1>b
    <3> QED BY <1>a, <2>1, <3>1, <3>2, <3>3, RotateKeepsTrust DEF TrustInv, PublishedAfter
  <2> QED BY <1>a, <2>2, <2>3, <2>4, <2>5 DEF TrustInv
<1>4. ASSUME NEW c \in Calls,
             \/ \E u \in URIs, kid \in TokenKids : Begin(c, u, kid)
             \/ HeaderParseFails(c)
             \/ ReadClock(c) \/ LookupMiss(c) \/ RecordAttempt(c) \/ Fault(c)
             \/ (RecordResult(c) /\ call[c].err # "none")
             \/ SelectKeys(c) \/ KidNotFound(c)
      PROVE  TrustInv'
  <2>1. UNCHANGED <<clock, published, withdrawnAt, jwks>>
    BY <1>4 DEF Begin, HeaderParseFails, ReadClock, LookupMiss, RecordAttempt, Fault, RecordResult,
                SelectKeys, KidNotFound, idp
  <2>2. \A q \in Calls \ {c} : call'[q] = call[q]
    BY <1>4, <1>b DEF Begin, HeaderParseFails, ReadClock, LookupMiss, RecordAttempt, Fault,
                      RecordResult, SelectKeys, KidNotFound, Return
  <2>3. call'[c].now <= clock /\ call'[c].pc # "resolve" /\ ~ HoldsFetchedSet(c)'
    <3>1. CASE \E u \in URIs, kid \in TokenKids : Begin(c, u, kid)
      BY <1>b, <3>1 DEF Begin, Called, HoldsFetchedSet
    <3>2. CASE \/ HeaderParseFails(c) \/ SelectKeys(c) \/ KidNotFound(c)
               \/ (RecordResult(c) /\ call[c].err # "none")
      <4>1. PICK K, e : Return(c, K, e)
        BY <3>2 DEF HeaderParseFails, SelectKeys, KidNotFound, RecordResult
      <4>2. call'[c].pc = "idle" /\ call'[c].now = 0
        BY <1>b, <4>1, ReturnIdles
      <4> QED BY <1>b, <4>2 DEF HoldsFetchedSet
    <3>3. CASE ReadClock(c) \/ LookupMiss(c) \/ RecordAttempt(c)
      BY <1>b, <3>3 DEF ReadClock, LookupMiss, RecordAttempt, HoldsFetchedSet, CallRecord
    <3>4. CASE Fault(c)
      BY <1>b, <3>4, FaultClasses DEF Fault, HoldsFetchedSet, CallRecord
    <3> QED BY <1>4, <3>1, <3>2, <3>3, <3>4
  <2> QED BY <1>a, <2>1, <2>2, <2>3, QuietStepKeepsTrust
<1>5. ASSUME NEW c \in Calls, LookupHit(c)
      PROVE  TrustInv'
  <2>1. /\ UNCHANGED <<clock, published, withdrawnAt, jwks>>
        /\ \A q \in Calls \ {c} : call'[q] = call[q]
        /\ call'[c].pc = "resolve"
        /\ call'[c].keys = jwks.keys
        /\ call'[c].now = call[c].now
        /\ call'[c].uri = jwks.url
        /\ call[c].now < jwks.expiresAt
    BY <1>5, <1>b DEF LookupHit, Usable, idp, CallRecord
  <2>2. KeysWithinTrustWindow'
    <3> SUFFICES ASSUME NEW k \in jwks.keys
                 PROVE  PublishedAfter(jwks.url, k, call[c].now - Window)
      BY <2>1 DEF TrustInv, KeysWithinTrustWindow, PublishedAfter
    <3>1. jwks.url \in URIs /\ k \in Keys /\ PublishedSince(jwks.url, k, jwks.expiresAt - Window)
      BY <1>a DEF TrustInv, CacheTrusted, TypeInv, TypeOK
    <3>2. withdrawnAt[jwks.url][k] \in Nat
      BY <1>b, <3>1
    <3> QED BY <1>b, <2>1, <3>1, <3>2 DEF PublishedSince, PublishedAfter
  <2> QED BY <1>a, <2>1, <2>2 DEF TrustInv, TimesInOrder, CacheTrusted, FetchTrusted,
                                  HoldsFetchedSet, PublishedSince
<1>6. ASSUME NEW c \in Calls, Respond(c)
      PROVE  TrustInv'
  <2>1. /\ UNCHANGED <<clock, published, withdrawnAt, jwks>>
        /\ \A q \in Calls \ {c} : call'[q] = call[q]
        /\ call'[c].pc = "store"
        /\ call'[c].keys = published[call[c].uri]
        /\ call'[c].now = call[c].now
        /\ call'[c].uri = call[c].uri
    BY <1>6, <1>b DEF Respond, idp, CallRecord
  <2> QED BY <1>a, <2>1 DEF TrustInv, TimesInOrder, CacheTrusted, FetchTrusted, HoldsFetchedSet,
                            KeysWithinTrustWindow, PublishedSince, PublishedAfter
<1>7. ASSUME NEW c \in Calls, Store(c)
      PROVE  TrustInv'
  <2>1. PICK d \in JitteredExpiry(call[c].now, TTL) :
          jwks' = [keys |-> call[c].keys, url |-> call[c].uri, expiresAt |-> d]
    BY <1>7 DEF Store, Deadline
  <2>2. d \in Nat /\ d <= call[c].now + Window
    BY <1>b, TTLPositive, JitterBounds DEF Window
  <2>3. /\ UNCHANGED <<clock, published, withdrawnAt>>
        /\ \A q \in Calls \ {c} : call'[q] = call[q]
        /\ call'[c] = [call[c] EXCEPT !.pc = "report"]
        /\ HoldsFetchedSet(c)
        /\ call[c].uri \in URIs
    BY <1>7, <1>b DEF Store, idp, HoldsFetchedSet
  <2>4. TimesInOrder'
    BY <1>b, <2>1, <2>2, <2>3 DEF TrustInv, TimesInOrder, CallRecord
  <2>5. CacheTrusted'
    <3> SUFFICES ASSUME NEW k \in call[c].keys
                 PROVE  PublishedSince(call[c].uri, k, d - Window)
      BY <2>1, <2>3 DEF CacheTrusted, PublishedSince
    <3>1. PublishedSince(call[c].uri, k, call[c].now)
      BY <2>3 DEF TrustInv, FetchTrusted
    <3>2. withdrawnAt[call[c].uri][k] \in Nat
      BY <1>b, <2>3
    <3> QED BY <1>b, <2>2, <3>1, <3>2 DEF PublishedSince
  <2>6. /\ call'[c].pc = "report"
        /\ call'[c].keys = call[c].keys
        /\ call'[c].uri = call[c].uri
        /\ call'[c].now = call[c].now
    BY <1>b, <2>3 DEF CallRecord
  <2>7. FetchTrusted'
    <3>1. ASSUME NEW q \in Calls, HoldsFetchedSet(q)'
          PROVE  /\ HoldsFetchedSet(q)
                 /\ call'[q].keys = call[q].keys
                 /\ call'[q].uri = call[q].uri
                 /\ call'[q].now = call[q].now
      BY <2>3, <2>6, <3>1 DEF HoldsFetchedSet
    <3> QED BY <2>3, <3>1 DEF TrustInv, FetchTrusted, PublishedSince
  <2>8. KeysWithinTrustWindow'
    <3>1. \A q \in Calls : call'[q].pc = "resolve" => call'[q] = call[q]
      BY <2>3, <2>6
    <3> QED BY <2>3, <3>1 DEF TrustInv, KeysWithinTrustWindow, PublishedAfter
  <2> QED BY <1>a, <2>4, <2>5, <2>7, <2>8 DEF TrustInv
<1>8. ASSUME NEW c \in Calls, RecordResult(c), call[c].err = "none"
      PROVE  TrustInv'
  <2>1. /\ UNCHANGED <<clock, published, withdrawnAt, jwks>>
        /\ \A q \in Calls \ {c} : call'[q] = call[q]
        /\ call'[c] = [call[c] EXCEPT !.pc = "resolve"]
        /\ HoldsFetchedSet(c)
        /\ call[c].uri \in URIs
    BY <1>8, <1>b DEF RecordResult, idp, HoldsFetchedSet
  <2>2. KeysWithinTrustWindow'
    <3> SUFFICES ASSUME NEW k \in call[c].keys
                 PROVE  PublishedAfter(call[c].uri, k, call[c].now - Window)
      BY <1>b, <2>1 DEF TrustInv, KeysWithinTrustWindow, PublishedAfter, CallRecord
    <3>1. PublishedSince(call[c].uri, k, call[c].now)
      BY <2>1 DEF TrustInv, FetchTrusted
    <3>2. withdrawnAt[call[c].uri][k] \in Nat
      BY <1>b, <2>1
    <3> QED BY <1>b, <3>1, <3>2 DEF PublishedSince, PublishedAfter
  <2> QED BY <1>a, <1>b, <2>1, <2>2 DEF TrustInv, TimesInOrder, CacheTrusted, FetchTrusted,
                                        HoldsFetchedSet, PublishedSince, CallRecord
<1>9. ASSUME NEW c \in Calls, InvalidateJWKSCache(c)
      PROVE  TrustInv'
  <2>1. /\ UNCHANGED <<clock, published, withdrawnAt>>
        /\ jwks' = [jwks EXCEPT !.expiresAt = ZeroTime]
        /\ \A q \in Calls \ {c} : call'[q] = call[q]
        /\ call'[c].pc = "clock"
        /\ call'[c].now = call[c].now
    BY <1>9, <1>b DEF InvalidateJWKSCache, Invalidated, idp, CallRecord
  <2>2. CacheTrusted'
    <3>1. jwks'.keys = jwks.keys /\ jwks'.url = jwks.url /\ jwks'.expiresAt = 0
      BY <1>a, <2>1 DEF TypeInv, TypeOK
    <3> SUFFICES ASSUME NEW k \in jwks.keys
                 PROVE  jwks.url \in URIs /\ PublishedSince(jwks.url, k, 0 - Window)
      BY <2>1, <3>1 DEF CacheTrusted, PublishedSince
    <3>2. jwks.url \in URIs /\ k \in Keys /\ PublishedSince(jwks.url, k, jwks.expiresAt - Window)
      BY <1>a DEF TrustInv, CacheTrusted, TypeInv, TypeOK
    <3>3. withdrawnAt[jwks.url][k] \in Nat
      BY <1>b, <3>2
    <3> QED BY <1>b, <3>2, <3>3 DEF PublishedSince
  <2>3. TimesInOrder'
    BY <1>a, <1>b, <2>1 DEF TrustInv, TimesInOrder, TypeInv, TypeOK
  <2> QED BY <1>a, <2>1, <2>2, <2>3 DEF TrustInv, FetchTrusted, HoldsFetchedSet,
                                        KeysWithinTrustWindow, PublishedSince, PublishedAfter
<1> QED
  BY <1>1, <1>2, <1>3, <1>4, <1>5, <1>6, <1>7, <1>8, <1>9 DEF Next, Step

\* Every key a call is handed was published at the URI it asked for, less than
\* 110% of the TTL before its fetchJWKSet began: for any number of goroutines,
\* any rotation and any TTL.
THEOREM KeysAreTrusted == Spec => []KeysWithinTrustWindow
<1>1. Spec => []TrustInv
  BY TrustInit, TrustStep, PTL DEF Spec
<1>2. TrustInv => KeysWithinTrustWindow
  BY DEF TrustInv
<1> QED BY <1>1, <1>2, PTL

-----------------------------------------------------------------------------
\* What the steps below need to know of the types.
Typed ==
  /\ TypeInv
  /\ clock \in Nat \ {0}
  /\ jwks.expiresAt \in Nat
  /\ health \in Health
  /\ call \in [Calls -> CallRecord]
  /\ \A c \in Calls : call[c].now \in Nat /\ call[c].now <= clock
  /\ \A c \in Calls : call[c].pc \notin {"idle", "clock"} => call[c].now # 0

LEMMA Typing == TrustInv => Typed
BY InstantsAssumption DEF Typed, TrustInv, TypeInv, TypeOK, IdPTypeOK, TimesInOrder, CallRecord,
                          CallsInOrder

-----------------------------------------------------------------------------
\* Health.

\* The steps that touch neither the snapshot nor the cache, and by which no
\* goroutine enters or leaves a fetch, keep the snapshot in order.
LEMMA QuietStepKeepsHealth ==
  ASSUME HealthInv, TrustInv', UNCHANGED <<health, jwks>>, clock <= clock', InFetch' = InFetch
  PROVE  HealthInv'
<1>1. health.attempt \in Nat /\ health.success \in Nat /\ clock \in Nat /\ clock' \in Nat
  BY InstantsAssumption DEF HealthInv, Health, TrustInv, TypeInv, TypeOK, IdPTypeOK
<1> QED BY <1>1 DEF HealthInv, HealthInOrder, ZeroHealthMeansNoFetch

LEMMA HealthStep == HealthInv /\ [Next]_vars => HealthInv'
<1> SUFFICES ASSUME HealthInv, [Next]_vars
             PROVE  HealthInv'
  OBVIOUS
<1>a. TrustInv /\ TrustInv' /\ Typed
  BY TrustStep, Typing DEF HealthInv
<1>1. CASE UNCHANGED vars
  <2>1. clock <= clock'
    BY <1>1, <1>a DEF vars, Typed
  <2> QED BY <1>1, <1>a, <2>1, QuietStepKeepsHealth DEF vars, InFetch
<1>2. CASE Tick
  <2>1. clock <= clock'
    BY <1>2, <1>a, InstantsAssumption DEF Tick, ClockMoves, Typed
  <2> QED BY <1>2, <1>a, <2>1, QuietStepKeepsHealth DEF Tick, InFetch
<1>3. CASE \E u \in URIs, K \in SUBSET Keys : Publish(u, K)
  <2>1. clock <= clock' /\ UNCHANGED <<jwks, health, call>>
    BY <1>3, <1>a DEF Publish, Rotate, Typed
  <2> QED BY <1>a, <2>1, QuietStepKeepsHealth DEF InFetch
<1>4. ASSUME NEW c \in Calls,
             \/ \E u \in URIs, kid \in TokenKids : Begin(c, u, kid)
             \/ HeaderParseFails(c) \/ ReadClock(c) \/ LookupHit(c) \/ LookupMiss(c)
             \/ SelectKeys(c) \/ KidNotFound(c)
      PROVE  HealthInv'
  <2>1. UNCHANGED <<clock, jwks, health>>
    BY <1>4 DEF Begin, HeaderParseFails, ReadClock, LookupHit, LookupMiss, SelectKeys, KidNotFound
  <2>2. call[c].pc \notin {"http", "store", "report"}
    BY <1>4 DEF Begin, HeaderParseFails, ReadClock, LookupHit, LookupMiss, SelectKeys, KidNotFound
  <2>3. /\ \A q \in Calls \ {c} : call'[q] = call[q]
        /\ call'[c].pc \notin {"http", "store", "report"}
    <3>1. CASE \E u \in URIs, kid \in TokenKids : Begin(c, u, kid)
      BY <1>a, <3>1 DEF Begin, Called, Typed
    <3>2. CASE HeaderParseFails(c) \/ SelectKeys(c) \/ KidNotFound(c)
      <4>1. PICK K, e : Return(c, K, e)
        BY <3>2 DEF HeaderParseFails, SelectKeys, KidNotFound
      <4> QED BY <1>a, <4>1, ReturnIdles DEF Typed
    <3>3. CASE ReadClock(c) \/ LookupHit(c) \/ LookupMiss(c)
      BY <1>a, <3>3 DEF ReadClock, LookupHit, LookupMiss, Typed, CallRecord
    <3> QED BY <1>4, <3>1, <3>2, <3>3
  <2>4. InFetch' = InFetch
    BY <2>2, <2>3 DEF InFetch
  <2>5. clock <= clock'
    BY <1>a, <2>1 DEF Typed
  <2> QED BY <1>a, <2>1, <2>4, <2>5, QuietStepKeepsHealth
<1>5. ASSUME NEW c \in Calls, RecordAttempt(c)
      PROVE  HealthInv'
  <2>1. /\ UNCHANGED <<clock, jwks>>
        /\ health' = [health EXCEPT !.attempt = call[c].now]
        /\ call'[c].pc = "http"
        /\ call'[c].now = call[c].now
        /\ call[c].now # 0
    BY <1>5, <1>a DEF RecordAttempt, Attempted, Typed, CallRecord
  <2>2. c \in InFetch'
    BY <2>1 DEF InFetch
  <2> QED BY <1>a, <2>1, <2>2 DEF HealthInv, HealthInOrder, ZeroHealthMeansNoFetch, Typed, Health
<1>6. ASSUME NEW c \in Calls, Respond(c) \/ Fault(c)
      PROVE  HealthInv'
  <2>1. clock <= clock' /\ UNCHANGED <<jwks, health>>
    BY <1>6, <1>a DEF Respond, Fault, Typed
  <2>2. InFetch' = InFetch
    BY <1>6, <1>a DEF Respond, Fault, InFetch, Typed, CallRecord
  <2> QED BY <1>a, <2>1, <2>2, QuietStepKeepsHealth
<1>7. ASSUME NEW c \in Calls, Store(c)
      PROVE  HealthInv'
  <2>1. UNCHANGED <<clock, health>> /\ c \in InFetch
    BY <1>7 DEF Store, InFetch
  <2>2. InFetch' = InFetch
    BY <1>7, <1>a DEF Store, InFetch, Typed, CallRecord
  <2> QED BY <1>a, <2>1, <2>2 DEF HealthInv, HealthInOrder, ZeroHealthMeansNoFetch
<1>8. ASSUME NEW c \in Calls, RecordResult(c)
      PROVE  HealthInv'
  <2>1. UNCHANGED <<clock, jwks>> /\ c \in InFetch /\ health' = Snapshot(c)
    BY <1>8 DEF RecordResult, InFetch
  <2>2. call[c].err \in {"none", "transient", "permanent"}
    BY <1>8, <1>a DEF RecordResult, Typed, TypeInv, CallsInOrder
  <2> QED BY <1>a, <2>1, <2>2
          DEF HealthInv, HealthInOrder, ZeroHealthMeansNoFetch, Snapshot, Typed, Health
<1>9. ASSUME NEW c \in Calls, InvalidateJWKSCache(c)
      PROVE  HealthInv'
  <2>1. UNCHANGED <<clock, health>> /\ jwks'.url = jwks.url
    BY <1>9, <1>a DEF InvalidateJWKSCache, Invalidated, Typed, TypeInv, TypeOK
  <2>2. InFetch' = InFetch
    BY <1>9, <1>a DEF InvalidateJWKSCache, InFetch, Typed, CallRecord
  <2> QED BY <1>a, <2>1, <2>2 DEF HealthInv, HealthInOrder, ZeroHealthMeansNoFetch
<1> QED
  BY <1>1, <1>2, <1>3, <1>4, <1>5, <1>6, <1>7, <1>8, <1>9 DEF Next, Step

LEMMA HealthInit == Init => HealthInv
<1> SUFFICES ASSUME Init
             PROVE  HealthInv
  OBVIOUS
<1>1. TrustInv /\ Typed
  BY TrustInit, Typing
<1> QED BY <1>1 DEF Init, HealthInv, HealthInOrder, ZeroHealthMeansNoFetch, InFetch, Idle, Returned, Typed

\* An all-zero snapshot means that no fetch has been attempted.
THEOREM ZeroSnapshots == Spec => []ZeroHealthMeansNoFetch
<1>1. Spec => []HealthInv
  BY HealthInit, HealthStep, PTL DEF Spec
<1>2. HealthInv => ZeroHealthMeansNoFetch
  BY DEF HealthInv
<1> QED BY <1>1, <1>2, PTL

LEMMA SuccessStep == HealthInv /\ [Next]_vars => [health'.success >= health.success]_vars
<1> SUFFICES ASSUME HealthInv, Next, ~ UNCHANGED health
             PROVE  health'.success >= health.success
  <2>1. HealthInv => health.success \in Nat
    BY Typing DEF HealthInv, Typed, Health
  <2> QED BY <2>1 DEF vars
<1>1. Typed
  BY Typing DEF HealthInv
<1>2. PICK c \in Calls : RecordAttempt(c) \/ RecordResult(c)
  BY DEF Next, Step, Tick, Publish, Begin, HeaderParseFails, ReadClock, LookupHit, LookupMiss,
         Respond, Fault, Store, SelectKeys, InvalidateJWKSCache, KidNotFound
<1>3. CASE RecordAttempt(c)
  BY <1>1, <1>3 DEF RecordAttempt, Attempted, Typed, Health
<1>4. CASE RecordResult(c)
  BY <1>1, <1>4 DEF RecordResult, Snapshot, HealthInv, HealthInOrder, Typed, Health
<1> QED BY <1>2, <1>3, <1>4

\* The success time never goes back.
THEOREM SuccessIsMonotone == Spec => SuccessNeverGoesBack
BY HealthInit, HealthStep, SuccessStep, PTL DEF Spec, SuccessNeverGoesBack

-----------------------------------------------------------------------------
\* What a snapshot says about the attempt it reports.

\* Only recording an attempt and recording a result write the snapshot, and they
\* are the steps by which a goroutine enters and leaves a fetch.
LEMMA FetchesAndSnapshot ==
  ASSUME Typed, [Next]_vars
  PROVE  \/ /\ UNCHANGED health
            /\ InFetch' = InFetch
         \/ \E c \in Calls : /\ c \notin InFetch
                              /\ InFetch' = InFetch \cup {c}
                              /\ health' = Attempted(c)
         \/ \E c \in Calls : /\ c \in InFetch
                              /\ InFetch' = InFetch \ {c}
                              /\ health' = Snapshot(c)
                              /\ clock' = clock
                              /\ call[c].err \in {"none", "transient", "permanent"}
<1>1. CASE UNCHANGED vars \/ Tick \/ \E u \in URIs, K \in SUBSET Keys : Publish(u, K)
  BY <1>1 DEF vars, Tick, Publish, InFetch
<1>2. ASSUME NEW c \in Calls,
             \/ \E u \in URIs, kid \in TokenKids : Begin(c, u, kid)
             \/ HeaderParseFails(c) \/ SelectKeys(c) \/ KidNotFound(c)
             \/ ReadClock(c) \/ LookupHit(c) \/ LookupMiss(c) \/ InvalidateJWKSCache(c)
             \/ Respond(c) \/ Fault(c) \/ Store(c)
      PROVE  UNCHANGED health /\ InFetch' = InFetch
  <2>1. /\ UNCHANGED health
        /\ \A q \in Calls \ {c} : call'[q] = call[q]
    BY <1>2 DEF Typed, Begin, HeaderParseFails, SelectKeys, KidNotFound, Return, ReadClock, LookupHit,
                LookupMiss, InvalidateJWKSCache, Respond, Fault, Store
  <2>2. call'[c].pc \in {"http", "store", "report"} <=> call[c].pc \in {"http", "store", "report"}
    <3>1. CASE \E u \in URIs, kid \in TokenKids : Begin(c, u, kid)
      BY <3>1 DEF Typed, Begin, Called
    <3>2. CASE HeaderParseFails(c) \/ SelectKeys(c) \/ KidNotFound(c)
      BY <3>2, ReturnIdles DEF Typed, HeaderParseFails, SelectKeys, KidNotFound
    <3>3. CASE \/ ReadClock(c) \/ LookupHit(c) \/ LookupMiss(c) \/ InvalidateJWKSCache(c)
               \/ Respond(c) \/ Fault(c) \/ Store(c)
      BY <3>3 DEF Typed, CallRecord, ReadClock, LookupHit, LookupMiss, InvalidateJWKSCache, Respond,
                  Fault, Store
    <3> QED BY <1>2, <3>1, <3>2, <3>3
  <2> QED BY <2>1, <2>2 DEF InFetch
<1>3. ASSUME NEW c \in Calls, RecordAttempt(c)
      PROVE  c \notin InFetch /\ InFetch' = InFetch \cup {c} /\ health' = Attempted(c)
  BY <1>3 DEF Typed, CallRecord, RecordAttempt, InFetch
<1>4. ASSUME NEW c \in Calls, RecordResult(c)
      PROVE  /\ c \in InFetch
             /\ InFetch' = InFetch \ {c}
             /\ health' = Snapshot(c)
             /\ clock' = clock
             /\ call[c].err \in {"none", "transient", "permanent"}
  <2>1. call'[c].pc \in {"resolve", "idle"} /\ \A q \in Calls \ {c} : call'[q] = call[q]
    BY <1>4, ReturnIdles DEF Typed, CallRecord, RecordResult
  <2> QED BY <1>4, <2>1 DEF Typed, TypeInv, CallsInOrder, RecordResult, InFetch
<1> QED BY <1>1, <1>2, <1>3, <1>4 DEF Next, Step

LEMMA WatchStart == Init /\ WatchInit => WatchInv
BY HealthInit DEF Init, WatchInit, WatchInv, SnapshotExplained

LEMMA WatchStep == WatchInv /\ [Next]_vars /\ (Watch \/ UNCHANGED <<vars, watch>>) => WatchInv'
<1> SUFFICES ASSUME WatchInv, [Next]_vars, Watch \/ UNCHANGED <<vars, watch>>
             PROVE  WatchInv'
  OBVIOUS
<1>a. HealthInv' /\ Typed
  BY HealthStep, Typing DEF WatchInv, HealthInv
<1>b. /\ health \in Health
      /\ clock \in Nat
      /\ health.attempt <= clock
  BY <1>a DEF Typed, WatchInv, HealthInv, HealthInOrder
<1>1. CASE UNCHANGED health /\ InFetch' = InFetch
  <2>1. UNCHANGED watch
    BY <1>1 DEF Watch
  <2> QED BY <1>1, <1>a, <2>1 DEF WatchInv, SnapshotExplained, watch
<1>2. ASSUME NEW c \in Calls, c \notin InFetch, InFetch' = InFetch \cup {c}, health' = Attempted(c)
      PROVE  WatchInv'
  <2>1. reporting' = {c}
    BY <1>2 DEF Watch, Starts, vars, InFetch
  <2> QED BY <1>2, <1>a, <2>1 DEF WatchInv, SnapshotExplained
<1>3. ASSUME NEW c \in Calls, c \in InFetch, InFetch' = InFetch \ {c}, health' = Snapshot(c),
             clock' = clock, call[c].err \in {"none", "transient", "permanent"}
      PROVE  WatchInv'
  <2>1. Ends(c) \/ EndsLate(c)
    BY <1>3 DEF Watch, vars, InFetch
  <2>2. health'.err = "nil" => health'.success >= health'.attempt
    BY <1>3, <1>b DEF Snapshot, Health
  <2>3. CASE Ends(c)
    <3>1. health'.err = outcome'
      BY <1>3, <1>b, <2>3 DEF Ends, Snapshot, Health
    <3> QED BY <1>a, <2>2, <2>3, <3>1 DEF Ends, WatchInv, SnapshotExplained
  <2>4. CASE EndsLate(c)
    BY <1>3, <1>a, <2>2, <2>4 DEF EndsLate, WatchInv, SnapshotExplained
  <2> QED BY <2>1, <2>3, <2>4
<1> QED BY <1>a, <1>1, <1>2, <1>3, FetchesAndSnapshot

\* For any number of overlapping fetches: once the fetch whose attempt a snapshot
\* reports has ended, the snapshot tells how it ended unless one it overtook has
\* ended since, and a snapshot without an error owes it to a success at or after
\* the attempt.
THEOREM SnapshotsAreExplained == WatchedSpec => []SnapshotExplained
<1>1. WatchInv => SnapshotExplained
  BY DEF WatchInv
<1>2. [Next /\ Watch]_<<vars, watch>> => [Next]_vars /\ (Watch \/ UNCHANGED <<vars, watch>>)
  BY DEF vars
<1> QED BY <1>1, <1>2, WatchStart, WatchStep, PTL DEF WatchedSpec

-----------------------------------------------------------------------------
\* Kid misses.

\* Everything KidInv says of a goroutine depends on these alone.
LEMMA KidFrame ==
  ASSUME KidInv, TrustInv', NEW c \in Calls,
         UNCHANGED published,
         jwks'.expiresAt = jwks.expiresAt \/ jwks'.expiresAt = ZeroTime,
         \A q \in Calls \ {c} : /\ call'[q] = call[q]
                                /\ q \in absent' <=> q \in absent
                                /\ q \in restored' <=> q \in restored,
         \/ c \in absent'
         \/ /\ call'[c].pc # "idle" => ~ Unpublished(call'[c].kid, published[call'[c].uri])
            /\ HoldsFetchedSet(c)' => ~ KidMissing(c)',
         c \in restored' \/ (Refetching(c)' => jwks'.expiresAt = ZeroTime),
         \/ c \in absent' \cup restored'
         \/ ~ (call'[c].pc = "resolve" /\ call'[c].retried /\ KidMissing(c)')
  PROVE  KidInv'
BY DEF KidInv, KidPublished, KidFetched, CacheInvalidated, KidMissExplained, HoldsFetchedSet,
       KidMissing, Refetching, Unpublished

LEMMA KidStep == KidInv /\ [Next]_vars => KidInv'
<1> SUFFICES ASSUME KidInv, [Next]_vars
             PROVE  KidInv'
  OBVIOUS
<1>a. TrustInv /\ TrustInv' /\ Typed
  BY TrustStep, Typing DEF KidInv
<1>b. absent \subseteq Calls /\ restored \subseteq Calls
  BY <1>a DEF Typed, TypeInv, TypeOK
<1>1. CASE UNCHANGED vars \/ Tick
  <2>1. UNCHANGED <<published, jwks, call, absent, restored>>
    BY <1>1 DEF vars, Tick, ClockMoves, idp, history
  <2> QED BY <1>a, <2>1 DEF KidInv, KidPublished, KidFetched, CacheInvalidated, KidMissExplained,
                            HoldsFetchedSet, KidMissing, Refetching, Unpublished
<1>2. ASSUME NEW u \in URIs, NEW K \in SUBSET Keys, Publish(u, K)
      PROVE  KidInv'
  <2>1. /\ UNCHANGED <<jwks, call, restored>>
        /\ absent \subseteq absent'
        /\ \A c \in Calls \ absent' : call[c].pc # "idle" /\ call[c].uri = u
                                      => ~ Unpublished(call[c].kid, K)
        /\ \A v \in URIs : published'[v] = IF v = u THEN K ELSE published[v]
    BY <1>2, <1>a DEF Publish, Rotate, Typed, TypeInv, TypeOK, IdPTypeOK
  <2>2. KidPublished'
    BY <1>a, <2>1 DEF KidInv, KidPublished, Unpublished, Typed, TypeInv, CallsInOrder
  <2> QED BY <1>a, <2>1, <2>2 DEF KidInv, KidFetched, CacheInvalidated, KidMissExplained,
                                  HoldsFetchedSet, KidMissing, Refetching
<1>3. ASSUME NEW c \in Calls, NEW u \in URIs, NEW kid \in TokenKids, Begin(c, u, kid)
      PROVE  KidInv'
  <2>1. /\ UNCHANGED <<published, jwks, restored>>
        /\ \A q \in Calls \ {c} : call'[q] = call[q] /\ (q \in absent' <=> q \in absent)
        /\ call'[c].pc = "clock" /\ call'[c].uri = u /\ call'[c].kid = kid
        /\ ~ call'[c].retried
        /\ c \in absent' \/ ~ Unpublished(kid, published[u])
    BY <1>3, <1>a DEF Begin, Called, Typed, idp
  <2> QED BY <1>a, <2>1, KidFrame DEF HoldsFetchedSet, Refetching
<1>4. ASSUME NEW c \in Calls,
             \/ HeaderParseFails(c) \/ SelectKeys(c) \/ KidNotFound(c)
             \/ (RecordResult(c) /\ call[c].err # "none")
      PROVE  KidInv'
  <2>1. PICK K, e : Return(c, K, e)
    BY <1>4 DEF HeaderParseFails, SelectKeys, KidNotFound, RecordResult
  <2>2. UNCHANGED <<published, jwks>>
    BY <1>4 DEF HeaderParseFails, SelectKeys, KidNotFound, RecordResult, idp
  <2>3. call'[c].pc = "idle" /\ \A q \in Calls \ {c} : call'[q] = call[q]
    BY <1>a, <2>1, ReturnIdles DEF Typed
  <2>4. \A q \in Calls \ {c} : /\ q \in absent' <=> q \in absent
                               /\ q \in restored' <=> q \in restored
    BY <2>1 DEF Return
  <2> QED BY <1>a, <2>2, <2>3, <2>4, KidFrame DEF HoldsFetchedSet, Refetching
<1>5. ASSUME NEW c \in Calls, ReadClock(c) \/ RecordAttempt(c) \/ Fault(c)
      PROVE  KidInv'
  <2>1. /\ UNCHANGED <<published, jwks, absent, restored>>
        /\ \A q \in Calls \ {c} : call'[q] = call[q]
        /\ call[c].pc # "idle"
        /\ call'[c].pc \notin {"idle", "resolve"}
        /\ call'[c].uri = call[c].uri /\ call'[c].kid = call[c].kid
        /\ call'[c].retried = call[c].retried
        /\ ~ HoldsFetchedSet(c)'
        /\ Refetching(c)' => Refetching(c)
    BY <1>5, <1>a, FaultClasses DEF ReadClock, RecordAttempt, Fault, Typed, CallRecord, idp, history,
                                    HoldsFetchedSet, Refetching
  <2> QED BY <1>a, <2>1, KidFrame DEF KidInv, KidPublished, CacheInvalidated
<1>6. ASSUME NEW c \in Calls, LookupHit(c)
      PROVE  KidInv'
  <2>1. /\ UNCHANGED <<published, jwks, absent, restored>>
        /\ \A q \in Calls \ {c} : call'[q] = call[q]
        /\ call[c].pc = "lookup"
        /\ call'[c].pc = "resolve"
        /\ call'[c].uri = call[c].uri /\ call'[c].kid = call[c].kid
        /\ call'[c].retried = call[c].retried
        /\ call[c].now < jwks.expiresAt
    BY <1>6, <1>a DEF LookupHit, Usable, Typed, CallRecord, idp, history
  <2>2. call[c].retried => c \in restored
    BY <1>a, <2>1 DEF KidInv, CacheInvalidated, Refetching, Typed
  <2> QED BY <1>a, <2>1, <2>2, KidFrame
          DEF KidInv, KidPublished, HoldsFetchedSet, Refetching
<1>7. ASSUME NEW c \in Calls, LookupMiss(c)
      PROVE  KidInv'
  <2>1. /\ UNCHANGED <<published, jwks, absent>>
        /\ \A q \in Calls \ {c} : call'[q] = call[q] /\ (q \in restored' <=> q \in restored)
        /\ call[c].pc # "idle"
        /\ call'[c].pc = "attempt"
        /\ call'[c].uri = call[c].uri /\ call'[c].kid = call[c].kid
    BY <1>7, <1>a DEF LookupMiss, Typed, CallRecord, idp
  <2> QED BY <1>a, <2>1, KidFrame DEF KidInv, KidPublished, HoldsFetchedSet, Refetching
<1>8. ASSUME NEW c \in Calls, Respond(c)
      PROVE  KidInv'
  <2>1. /\ UNCHANGED <<published, jwks, absent, restored>>
        /\ \A q \in Calls \ {c} : call'[q] = call[q]
        /\ call[c].pc # "idle"
        /\ call'[c].pc = "store"
        /\ call'[c].uri = call[c].uri /\ call'[c].kid = call[c].kid
        /\ call'[c].keys = published[call[c].uri]
    BY <1>8, <1>a DEF Respond, Typed, CallRecord, idp, history
  <2>2. c \in absent \/ ~ KidMissing(c)'
    BY <2>1 DEF KidInv, KidPublished, KidMissing, Unpublished
  <2> QED BY <1>a, <2>1, <2>2, KidFrame DEF KidInv, KidPublished, Refetching
<1>9. ASSUME NEW c \in Calls, Store(c)
      PROVE  KidInv'
  <2>1. /\ UNCHANGED <<published, absent>>
        /\ restored' = restored \cup {q \in Calls : Refetching(q)}
        /\ \A q \in Calls \ {c} : call'[q] = call[q]
        /\ call[c].pc = "store"
        /\ call'[c] = [call[c] EXCEPT !.pc = "report"]
        /\ call[c].err = "none"
    BY <1>9, <1>a DEF Store, Typed, TypeInv, CallsInOrder, idp
  <2>2. /\ call'[c].pc = "report"
        /\ call'[c].uri = call[c].uri /\ call'[c].kid = call[c].kid
        /\ call'[c].keys = call[c].keys
    BY <1>a, <2>1 DEF Typed, CallRecord
  <2>3. KidPublished' /\ KidFetched'
    <3>1. \A q \in Calls : /\ call'[q].pc # "idle" => call[q].pc # "idle"
                           /\ call'[q].uri = call[q].uri /\ call'[q].kid = call[q].kid
                           /\ HoldsFetchedSet(q)' => HoldsFetchedSet(q)
                           /\ KidMissing(q)' = KidMissing(q)
      BY <2>1, <2>2 DEF HoldsFetchedSet, KidMissing
    <3>2. KidPublished'
      BY <2>1, <3>1 DEF KidInv, KidPublished
    <3>3. KidFetched'
      BY <2>1, <3>1 DEF KidInv, KidFetched
    <3> QED BY <3>2, <3>3
  <2>4. CacheInvalidated'
    BY <2>1, <2>2 DEF CacheInvalidated, Refetching
  <2>5. KidMissExplained'
    BY <2>1, <2>2 DEF KidInv, KidMissExplained, KidMissing
  <2> QED BY <1>a, <2>3, <2>4, <2>5 DEF KidInv
<1>10. ASSUME NEW c \in Calls, RecordResult(c), call[c].err = "none"
       PROVE  KidInv'
  <2>1. /\ UNCHANGED <<published, jwks, absent, restored>>
        /\ \A q \in Calls \ {c} : call'[q] = call[q]
        /\ call[c].pc = "report"
        /\ call'[c].pc = "resolve"
        /\ call'[c].uri = call[c].uri /\ call'[c].kid = call[c].kid
        /\ call'[c].keys = call[c].keys
    BY <1>10, <1>a DEF RecordResult, Typed, CallRecord, idp, history
  <2>2. c \in absent \/ ~ KidMissing(c)'
    BY <1>10, <2>1 DEF KidInv, KidFetched, HoldsFetchedSet, KidMissing
  <2> QED BY <1>a, <2>1, <2>2, KidFrame DEF KidInv, KidPublished, HoldsFetchedSet, Refetching
<1>11. ASSUME NEW c \in Calls, InvalidateJWKSCache(c)
       PROVE  KidInv'
  <2>1. /\ UNCHANGED <<published, absent>>
        /\ jwks'.expiresAt = ZeroTime
        /\ \A q \in Calls \ {c} : call'[q] = call[q] /\ (q \in restored' <=> q \in restored)
        /\ call[c].pc # "idle"
        /\ call'[c].pc = "clock"
        /\ call'[c].uri = call[c].uri /\ call'[c].kid = call[c].kid
    BY <1>11, <1>a DEF InvalidateJWKSCache, Invalidated, Typed, TypeInv, TypeOK, CallRecord, idp
  <2> QED BY <1>a, <2>1, KidFrame DEF KidInv, KidPublished, HoldsFetchedSet
<1> QED
  BY <1>1, <1>2, <1>3, <1>4, <1>5, <1>6, <1>7, <1>8, <1>9, <1>10, <1>11 DEF Next, Step

LEMMA KidInit == Init => KidInv
BY TrustInit DEF Init, KidInv, KidPublished, KidFetched, CacheInvalidated, KidMissExplained,
                 HoldsFetchedSet, Refetching, Idle, Returned

\* A kid given up was unpublished at some instant of the call, or another call
\* put a set in the cache between the invalidation and the second lookup.
THEOREM KidMissesAreExplained == Spec => []KidMissExplained
<1>1. Spec => []KidInv
  BY KidInit, KidStep, PTL DEF Spec
<1>2. KidInv => KidMissExplained
  BY DEF KidInv
<1> QED BY <1>1, <1>2, PTL

-----------------------------------------------------------------------------
\* The work of a call.

\* A call that returns has no step left, and one under way has some.
LEMMA StepsOfReturn ==
  ASSUME TypeInv, NEW c \in Calls, NEW K, NEW e, Return(c, K, e)
  PROVE  StepsLeft(call'[c]) = 0
BY DEF Return, Returned, StepsLeft, TypeInv, TypeOK

LEMMA StepsUnderWay ==
  ASSUME TypeInv, NEW c \in Calls, call[c].pc # "idle"
  PROVE  StepsLeft(call[c]) > 0
BY DEF StepsLeft, TypeInv, TypeOK, CallRecord, Labels

\* Every step of a call brings its return nearer.
LEMMA StepIsProgress ==
  ASSUME TypeInv, NEW c \in Calls, Step(c)
  PROVE  StepsLeft(call'[c]) < StepsLeft(call[c])
<1>a. call \in [Calls -> CallRecord]
  BY DEF TypeInv, TypeOK
<1>b. call[c].retried \in BOOLEAN /\ call[c].pc \in Labels
  BY <1>a DEF CallRecord
<1>1. CASE ReadClock(c) \/ LookupHit(c) \/ LookupMiss(c) \/ RecordAttempt(c) \/ Respond(c)
           \/ Fault(c) \/ Store(c) \/ (RecordResult(c) /\ call[c].err = "none")
  <2>1. /\ call'[c].retried = call[c].retried
        /\ <<call[c].pc, call'[c].pc>> \in
             {<<"clock", "lookup">>, <<"lookup", "resolve">>, <<"lookup", "attempt">>,
              <<"attempt", "http">>, <<"http", "store">>, <<"http", "report">>,
              <<"store", "report">>, <<"report", "resolve">>}
    BY <1>1, <1>a DEF ReadClock, LookupHit, LookupMiss, RecordAttempt, Respond, Fault, Store,
                      RecordResult, CallRecord
  <2> QED BY <1>b, <2>1 DEF StepsLeft
<1>2. CASE InvalidateJWKSCache(c)
  <2>1. /\ call[c].pc = "resolve" /\ ~ call[c].retried
        /\ call'[c].pc = "clock" /\ call'[c].retried
    BY <1>2, <1>a DEF InvalidateJWKSCache, RetryAllowed, CallRecord
  <2> QED BY <2>1 DEF StepsLeft
<1>3. CASE (RecordResult(c) /\ call[c].err # "none") \/ SelectKeys(c) \/ KidNotFound(c)
  <2>1. (\E K, e : Return(c, K, e)) /\ call[c].pc # "idle"
    BY <1>3 DEF RecordResult, SelectKeys, KidNotFound
  <2> QED BY <2>1, StepsOfReturn, StepsUnderWay
<1> QED BY <1>1, <1>2, <1>3 DEF Step

\* A step of one goroutine leaves the locals of the others alone.
LEMMA StepIsOwn ==
  ASSUME TypeInv, NEW c \in Calls, Step(c), NEW q \in Calls \ {c}
  PROVE  call'[q] = call[q]
BY DEF TypeInv, TypeOK, Step, ReadClock, LookupHit, LookupMiss, RecordAttempt, Respond, Fault, Store,
       RecordResult, SelectKeys, InvalidateJWKSCache, KidNotFound, Return

LEMMA WorkStep ==
  TypeInv /\ [Next]_vars
    => [\A c \in Calls : call[c].pc # "idle" /\ call'[c] # call[c]
                          => StepsLeft(call'[c]) < StepsLeft(call[c])]_vars
<1> SUFFICES ASSUME TypeInv, Next, NEW c \in Calls, call[c].pc # "idle", call'[c] # call[c]
             PROVE  StepsLeft(call'[c]) < StepsLeft(call[c])
  OBVIOUS
<1>1. call \in [Calls -> CallRecord]
  BY DEF TypeInv, TypeOK
<1>2. ~ Tick /\ ~ \E u \in URIs, K \in SUBSET Keys : Publish(u, K)
  BY DEF Tick, Publish
<1>3. ASSUME NEW q \in Calls, NEW u, NEW kid, Begin(q, u, kid) \/ HeaderParseFails(q)
      PROVE  FALSE
  BY <1>1, <1>3 DEF Begin, HeaderParseFails, Return
<1>4. PICK q \in Calls : Step(q)
  BY <1>2, <1>3 DEF Next
<1>5. q = c
  BY <1>4, StepIsOwn
<1> QED BY <1>4, <1>5, StepIsProgress

\* A call takes at most fourteen steps, two of them exchanges with the IdP, for
\* any number of goroutines, keys and URIs.
THEOREM WorkIsBounded == Spec => WorkRunsOut
BY TypeInit, TypeStep, WorkStep, PTL DEF Spec, WorkRunsOut

=============================================================================
