--------------------- MODULE JWKSCacheRefinementProofs ---------------------
(***************************************************************************)
(* JWKSCache implements KeyDirectory, for every value of the constants.    *)
(***************************************************************************)
EXTENDS JWKSCacheProofs

USE DEF ZeroTime, Time, Directory!ZeroTime, Directory!Time

\* The refinement mapping, by name.
requests == [c \in Calls |-> RequestOf(call[c])]

\* When one goroutine's locals change, one request does.
LEMMA OneRequest ==
  ASSUME NEW c \in Calls, NEW r, \A q \in Calls \ {c} : call'[q] = call[q],
         RequestOf(call'[c]) = r
  PROVE  requests' = [requests EXCEPT ![c] = r]
BY DEF requests

LEMMA ReturnSettles ==
  ASSUME NEW c \in Calls, call \in [Calls -> CallRecord], NEW K, NEW e, Return(c, K, e)
  PROVE  requests' = [requests EXCEPT ![c] = Directory!Settled(K, e)]
<1>1. call'[c] = Returned(K, e)
  BY DEF Return
<1>2. RequestOf(call'[c]) = Directory!Settled(K, e)
  BY <1>1 DEF Returned, RequestOf, Directory!Settled
<1> QED BY <1>2, ReturnIdles, OneRequest

LEMMA DirectoryInit == Init => Directory!Init
BY DEF Init, Directory!Init, Directory!IdPInit, IdPInit, Directory!Settled, RequestOf, Idle, Returned, requests

LEMMA DirectoryStep == TrustInv /\ [Next]_vars => [Directory!Next]_(Directory!directoryVars)
<1> SUFFICES ASSUME TrustInv, [Next]_vars
             PROVE  [Directory!Next]_(Directory!directoryVars)
  OBVIOUS
<1>a. /\ call \in [Calls -> CallRecord]
      /\ \A c \in Calls : call[c].keys \subseteq Keys
      /\ CallsInOrder
  BY DEF TrustInv, TypeInv, TypeOK, CallRecord
<1>b. \A c \in Calls :
        /\ requests[c].phase = IF call[c].pc = "idle" THEN "settled" ELSE "pending"
        /\ call[c].pc # "idle" => /\ requests[c].looks = Looks(call[c])
                                 /\ requests[c].uri = call[c].uri
                                 /\ requests[c].kid = call[c].kid
                                 /\ requests[c].since = call[c].now
  <2> SUFFICES ASSUME NEW c \in Calls
               PROVE  /\ RequestOf(call[c]).phase = IF call[c].pc = "idle" THEN "settled" ELSE "pending"
                      /\ call[c].pc # "idle" => /\ RequestOf(call[c]).looks = Looks(call[c])
                                               /\ RequestOf(call[c]).uri = call[c].uri
                                               /\ RequestOf(call[c]).kid = call[c].kid
                                               /\ RequestOf(call[c]).since = call[c].now
    BY DEF requests
  <2>1. CASE call[c].pc = "idle"
    BY <2>1 DEF RequestOf
  <2>2. CASE call[c].pc # "idle"
    BY <2>2 DEF RequestOf
  <2> QED BY <2>1, <2>2
<1>1. CASE UNCHANGED vars
  BY <1>1 DEF vars, Directory!directoryVars
<1>2. CASE Tick
  BY <1>2 DEF Tick, Directory!Next, Directory!Environment, Directory!ClockMoves, ClockMoves, idp,
              Directory!idp
<1>3. ASSUME NEW u \in URIs, NEW K \in SUBSET Keys, Publish(u, K)
      PROVE  Directory!Next
  BY <1>3 DEF Publish, Directory!Next, Directory!Environment, Directory!Rotate, Rotate
<1>4. ASSUME NEW c \in Calls, NEW u \in URIs, NEW kid \in TokenKids, Begin(c, u, kid)
      PROVE  Directory!Next
  <2>1. UNCHANGED <<clock, published, withdrawnAt>>
    BY <1>4 DEF Begin, idp
  <2>2. \A q \in Calls \ {c} : call'[q] = call[q]
    BY <1>4, <1>a DEF Begin
  <2>3. call'[c] = Called(u, kid)
    BY <1>4, <1>a DEF Begin
  <2>4. RequestOf(call'[c]) = Directory!Pending(0, u, kid, ZeroTime)
    BY <2>3 DEF Called, RequestOf, Looks, Directory!Pending
  <2>5. requests[c].phase = "settled"
    BY <1>4, <1>b DEF Begin
  <2>6. requests' = [requests EXCEPT ![c] = Directory!Pending(0, u, kid, ZeroTime)]
    BY <2>2, <2>4, OneRequest
  <2>7. Directory!Ask(c, u, kid)
    BY <2>1, <2>5, <2>6 DEF Directory!Ask, Directory!idp, requests
  <2> QED BY <2>7, CallAssumption DEF Directory!Next
<1>5. ASSUME NEW c \in Calls, HeaderParseFails(c)
      PROVE  Directory!Next
  <2>1. UNCHANGED <<clock, published, withdrawnAt>> /\ Return(c, {}, "headerParse")
    BY <1>5 DEF HeaderParseFails, idp
  <2>2. requests[c].phase = "settled"
    BY <1>5, <1>b DEF HeaderParseFails
  <2>3. Directory!Reject(c, "headerParse")
    BY <1>a, <2>1, <2>2, ReturnSettles DEF Directory!Reject, Directory!idp, requests
  <2> QED BY <2>3 DEF Directory!Next
<1>6. ASSUME NEW c \in Calls, ReadClock(c)
      PROVE  Directory!Next
  <2>1. /\ UNCHANGED <<clock, published, withdrawnAt>>
        /\ call[c].pc = "clock"
        /\ call'[c] = [call[c] EXCEPT !.pc = "lookup", !.now = clock]
        /\ \A q \in Calls \ {c} : call'[q] = call[q]
    BY <1>6, <1>a DEF ReadClock, idp
  <2>2. /\ call'[c].pc = "lookup"
        /\ call'[c].now = clock
        /\ call'[c].uri = call[c].uri
        /\ call'[c].kid = call[c].kid
        /\ call'[c].retried = call[c].retried
    BY <1>a, <2>1 DEF CallRecord
  <2>3. Looks(call'[c]) = Looks(call[c]) + 1 /\ Looks(call[c]) < 2
    BY <2>1, <2>2 DEF Looks
  <2>4. RequestOf(call'[c]) =
          Directory!Pending(Looks(call[c]) + 1, call[c].uri, call[c].kid, clock)
    BY <2>2, <2>3 DEF RequestOf, Directory!Pending
  <2>5. requests' = [requests EXCEPT ![c] =
                       Directory!Pending(Looks(call[c]) + 1, call[c].uri, call[c].kid, clock)]
    BY <2>1, <2>4, OneRequest
  <2>6. Directory!Look(c)
    BY <1>b, <2>1, <2>3, <2>5 DEF Directory!Look, Directory!idp, requests
  <2> QED BY <2>6 DEF Directory!Next
<1>7. ASSUME NEW c \in Calls,
             \/ LookupHit(c) \/ LookupMiss(c) \/ RecordAttempt(c) \/ Respond(c) \/ Fault(c)
             \/ Store(c) \/ (RecordResult(c) /\ call[c].err = "none")
             \/ InvalidateJWKSCache(c)
      PROVE  UNCHANGED Directory!directoryVars
  <2>1. UNCHANGED <<clock, published, withdrawnAt>>
    BY <1>7 DEF LookupHit, LookupMiss, RecordAttempt, Respond, Fault, Store, RecordResult,
                InvalidateJWKSCache, idp
  <2>2. /\ \A q \in Calls \ {c} : call'[q] = call[q]
        /\ call[c].pc # "idle" /\ call'[c].pc # "idle"
        /\ call'[c].uri = call[c].uri
        /\ call'[c].kid = call[c].kid
        /\ call'[c].now = call[c].now
        /\ Looks(call'[c]) = Looks(call[c])
    <3>1. CASE LookupHit(c) \/ LookupMiss(c) \/ RecordAttempt(c)
      BY <1>a, <3>1 DEF LookupHit, LookupMiss, RecordAttempt, CallRecord, Looks
    <3>2. CASE Respond(c) \/ Fault(c)
      BY <1>a, <3>2 DEF Respond, Fault, CallRecord, Looks
    <3>3. CASE Store(c) \/ (RecordResult(c) /\ call[c].err = "none")
      BY <1>a, <3>3 DEF Store, RecordResult, CallRecord, Looks
    <3>4. CASE InvalidateJWKSCache(c)
      BY <1>a, <3>4 DEF InvalidateJWKSCache, RetryAllowed, CallRecord, Looks
    <3> QED BY <1>7, <3>1, <3>2, <3>3, <3>4
  <2>3. \A q \in Calls : RequestOf(call'[q]) = RequestOf(call[q])
    BY <2>2 DEF RequestOf
  <2> QED BY <2>1, <2>3 DEF Directory!directoryVars
<1>8. ASSUME NEW c \in Calls, RecordResult(c), call[c].err # "none"
      PROVE  Directory!Next
  <2>1. /\ UNCHANGED <<clock, published, withdrawnAt>>
        /\ Return(c, {}, call[c].err)
        /\ call[c].pc = "report"
        /\ call[c].err \in {"transient", "permanent"}
    BY <1>8, <1>a DEF RecordResult, CallsInOrder, idp
  <2>2. requests[c].phase = "pending" /\ requests[c].looks > 0
    BY <1>b, <2>1 DEF Looks
  <2>3. Directory!Reject(c, call[c].err)
    BY <1>a, <2>1, <2>2, ReturnSettles DEF Directory!Reject, Directory!idp, requests
  <2> QED BY <2>1, <2>3 DEF Directory!Next
<1>9. ASSUME NEW c \in Calls, SelectKeys(c)
      PROVE  Directory!Next
  <2> DEFINE K == Candidates(call[c].kid, call[c].keys)
  <2>1. /\ UNCHANGED <<clock, published, withdrawnAt>>
        /\ Return(c, K, "none")
        /\ call[c].pc = "resolve"
        /\ ~ KidMissing(c)
    BY <1>9 DEF SelectKeys, idp
  <2>2. /\ requests[c].phase = "pending"
        /\ requests[c].looks > 0
        /\ requests[c].uri = call[c].uri
        /\ requests[c].kid = call[c].kid
        /\ requests[c].since = call[c].now
    BY <1>b, <2>1 DEF Looks
  <2>3. K \in SUBSET Keys
    BY <1>a DEF Candidates
  <2>4. \A k \in K : PublishedAfter(call[c].uri, k, call[c].now - Window)
    BY <2>1 DEF TrustInv, KeysWithinTrustWindow, Candidates
  <2>5. call[c].kid # NoKid => K # {} /\ \A k \in K : KidOf[k] = call[c].kid
    BY <2>1 DEF KidMissing, Candidates
  <2>6. Directory!Answerable(c, K)
    BY <2>2, <2>4, <2>5 DEF Directory!Answerable, Directory!PublishedAfter, PublishedAfter, requests
  <2>7. requests' = [requests EXCEPT ![c] = Directory!Settled(K, "none")]
    BY <1>a, <2>1, ReturnSettles
  <2>8. Directory!Answer(c)
    BY <2>1, <2>2, <2>3, <2>6, <2>7 DEF Directory!Answer, Directory!idp, requests
  <2> QED BY <2>8 DEF Directory!Next
<1>10. ASSUME NEW c \in Calls, KidNotFound(c)
       PROVE  Directory!Next
  <2>1. /\ UNCHANGED <<clock, published, withdrawnAt>>
        /\ Return(c, {}, "kidNotFound")
        /\ call[c].pc = "resolve"
        /\ call[c].retried
    BY <1>10 DEF KidNotFound, RetryAllowed, idp
  <2>2. requests[c].phase = "pending" /\ requests[c].looks = 2
    BY <1>b, <2>1 DEF Looks
  <2>3. Directory!Reject(c, "kidNotFound")
    BY <1>a, <2>1, <2>2, ReturnSettles DEF Directory!Reject, Directory!idp, requests
  <2> QED BY <2>3 DEF Directory!Next
<1>11. ASSUME NEW c \in Calls, Step(c)
       PROVE  Directory!Next \/ UNCHANGED Directory!directoryVars
  BY <1>6, <1>7, <1>8, <1>9, <1>10, <1>11 DEF Step
<1> QED
  BY <1>1, <1>2, <1>3, <1>4, <1>5, <1>11 DEF Next

\* Callers of parseAndFetchKeys cannot tell the cached, concurrent Verifier
\* from the cache-free directory.
THEOREM CacheImplementsDirectory == Spec => ImplementsDirectory
BY TrustInit, TrustStep, DirectoryInit, DirectoryStep, PTL
   DEF Spec, ImplementsDirectory, Directory!Spec

=============================================================================
