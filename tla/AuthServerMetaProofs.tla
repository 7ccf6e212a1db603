------------------------ MODULE AuthServerMetaProofs ------------------------
(***************************************************************************)
(* What AuthServerMeta guarantees for every number of goroutines, every    *)
(* set of issuers, JWKS URIs and instants, and every TTL.                  *)
(***************************************************************************)
EXTENDS AuthServerMetaRefinement, CacheExpiryProofs

USE DEF ZeroTime, Time, Documents, Answers

-----------------------------------------------------------------------------
LEMMA WindowPositive == TTL \in Nat \ {0} /\ Window \in Nat \ {0}
BY MetaTTLAssumption, EffectivePositive, WindowOfPositive DEF TTL, Window

\* The facts about the variables that the steps below use.
LEMMA Typed ==
  ASSUME MetaInv
  PROVE  /\ clock \in Instants
         /\ clock \in Nat \ {0}
         /\ advertised \in [Issuers -> Answers]
         /\ replacedAt \in [Issuers -> [Answers -> Nat]]
         /\ asMeta.uri \in Documents /\ asMeta.url \in Issuers \cup {NoIssuer}
         /\ asMeta.expiresAt \in Nat
         /\ task \in [Callers -> TaskRecord]
         /\ slowest \in Nat
         /\ \A c \in Callers : /\ task[c].answer \in Answers
                               /\ task[c].served \in Nat /\ task[c].served <= clock
                               /\ task[c].at \in Nat /\ task[c].at <= clock
                               /\ task[c].pc # "idle" => task[c].issuer \in Issuers
                               /\ task[c].issuer \in Issuers \cup {NoIssuer}
                               /\ task[c].pc = "store" => task[c].answer \in Documents
BY MetaInstantsAssumption DEF MetaInv, TypeOK, EndpointsTypeOK, TasksInOrder, TimesInOrder, TaskRecord

LEMMA MetaInit == Init => MetaInv
<1> SUFFICES ASSUME Init
             PROVE  MetaInv
  OBVIOUS
<1>1. clock \in Nat \ {0}
  BY MetaInstantsAssumption DEF Init, EndpointsInit
<1>2. Untouched \in TaskRecord /\ Untouched.pc = "idle" /\ Untouched.issuer = NoIssuer
      /\ Untouched.served = 0 /\ Untouched.at = 0
  BY DEF Untouched, TaskRecord
<1>3. TypeOK
  BY <1>1, <1>2 DEF Init, EndpointsInit, TypeOK, EndpointsTypeOK
<1>4. TasksInOrder /\ TimesInOrder
  BY <1>1, <1>2, WindowPositive DEF Init, EndpointsInit, TasksInOrder, TimesInOrder
<1> QED BY <1>2, <1>3, <1>4 DEF Init, EndpointsInit, MetaInv, EntryRecent, HeldRecent, AnswersAreRecent

\* A change at an issuer replaces its answer at the current instant, so what
\* was advertised since an instant not in the future still was.
LEMMA AdvertiseKeepsRecent ==
  ASSUME MetaInv, NEW i \in Issuers, NEW a \in Answers, Advertise(i, a),
         NEW j \in Issuers, NEW b \in Answers, NEW t \in Int
  PROVE  /\ AdvertisedSince(j, b, t) /\ t <= clock => AdvertisedSince(j, b, t)'
         /\ AdvertisedAfter(j, b, t) /\ t < clock => AdvertisedAfter(j, b, t)'
         /\ replacedAt'[j][b] \in Nat /\ replacedAt'[j][b] <= clock
<1>1. replacedAt[j][b] \in Nat /\ replacedAt[j][b] <= clock
  BY Typed DEF MetaInv, TimesInOrder
<1>2. CASE j = i /\ b = advertised[i]
  <2>1. replacedAt'[j][b] = clock
    BY <1>2, Typed DEF Advertise, Replace
  <2> QED BY <2>1, Typed DEF AdvertisedSince, AdvertisedAfter
<1>3. CASE ~ (j = i /\ b = advertised[i])
  <2>1. replacedAt'[j][b] = replacedAt[j][b]
    BY <1>3, Typed DEF Advertise, Replace
  <2>2. b = advertised[j] => b = advertised'[j]
    BY <1>3, Typed DEF Advertise, Replace
  <2> QED BY <1>1, <2>1, <2>2 DEF AdvertisedSince, AdvertisedAfter
<1> QED BY <1>2, <1>3

\* A step of one goroutine that leaves the clock, the issuers and the entry
\* alone only has to answer for that goroutine.
LEMMA OwnStepKeepsInv ==
  ASSUME MetaInv, NEW c \in Callers,
         UNCHANGED <<clock, issuers, asMeta, slowest>>,
         NEW r \in TaskRecord, task' = [task EXCEPT ![c] = r],
         r.served <= clock, r.at <= clock,
         r.pc # "idle" => r.issuer \in Issuers,
         r.pc = "store" => /\ r.answer \in Documents
                           /\ AdvertisedSince(r.issuer, r.answer, r.served),
         r.pc = "idle" /\ r.issuer # NoIssuer =>
           AdvertisedAfter(r.issuer, r.answer, r.at - Window - slowest)
  PROVE  MetaInv'
<1>1. task'[c] = r /\ \A q \in Callers \ {c} : task'[q] = task[q]
  BY Typed
<1>2. UNCHANGED <<clock, advertised, replacedAt, asMeta, slowest>>
  BY DEF issuers
<1>3. TypeOK'
  BY <1>2, Typed DEF MetaInv, TypeOK, EndpointsTypeOK
<1>4. TasksInOrder' /\ TimesInOrder'
  BY <1>1, <1>2 DEF MetaInv, TasksInOrder, TimesInOrder
<1>5. EntryRecent' /\ HeldRecent' /\ AnswersAreRecent'
  BY <1>1, <1>2 DEF MetaInv, EntryRecent, HeldRecent, AnswersAreRecent, AdvertisedSince,
                    AdvertisedAfter
<1> QED BY <1>3, <1>4, <1>5 DEF MetaInv

LEMMA StoreKeepsInv ==
  ASSUME MetaInv, NEW c \in Callers, Store(c)
  PROVE  MetaInv'
<1> DEFINE i == task[c].issuer
           a == task[c].answer
<1>1. PICK d \in JitteredExpiry(clock, TTL) :
        asMeta' = [issuer |-> i, uri |-> a, url |-> i, expiresAt |-> d]
  BY DEF Store, Stored
<1>2. d \in Nat /\ d <= clock + Window
  BY JitterBounds, Typed, WindowPositive DEF Window
<1>3. /\ UNCHANGED <<clock, advertised, replacedAt>>
      /\ task' = [task EXCEPT ![c] = Answered(i, a)]
      /\ task[c].pc = "store"
  BY DEF Store, issuers
<1>4. slowest' \in Nat /\ slowest <= slowest' /\ clock - task[c].served <= slowest'
  BY Typed DEF Store
<1>5. /\ Answered(i, a) \in TaskRecord
      /\ Answered(i, a).pc = "idle" /\ Answered(i, a).issuer = i /\ Answered(i, a).answer = a
      /\ Answered(i, a).at = clock /\ Answered(i, a).served = 0
  BY Typed DEF Answered, TaskRecord
<1>6. task'[c] = Answered(i, a) /\ \A q \in Callers \ {c} : task'[q] = task[q]
  BY <1>3, Typed
<1>7. i \in Issuers /\ a \in Documents /\ replacedAt[i][a] \in Nat
      /\ AdvertisedSince(i, a, task[c].served)
  BY <1>3, Typed DEF MetaInv, HeldRecent
<1>8. TypeOK'
  BY <1>1, <1>2, <1>3, <1>4, <1>5, <1>7, Typed DEF TypeOK, EndpointsTypeOK
<1>9. TasksInOrder' /\ TimesInOrder'
  BY <1>1, <1>2, <1>3, <1>5, <1>6, Typed DEF MetaInv, TasksInOrder, TimesInOrder
<1>10. EntryRecent'
  BY <1>1, <1>2, <1>3, <1>4, <1>7, Typed, WindowPositive DEF EntryRecent, AdvertisedSince
<1>11. HeldRecent'
  BY <1>3, <1>5, <1>6 DEF MetaInv, HeldRecent, AdvertisedSince
<1>12. AnswersAreRecent'
  <2>1. AdvertisedAfter(i, a, clock - Window - slowest')
    BY <1>4, <1>7, Typed, WindowPositive DEF AdvertisedSince, AdvertisedAfter
  <2>2. ASSUME NEW q \in Callers \ {c}, task[q].pc = "idle", task[q].issuer # NoIssuer
        PROVE  AdvertisedAfter(task[q].issuer, task[q].answer, task[q].at - Window - slowest')
    <3>1. AdvertisedAfter(task[q].issuer, task[q].answer, task[q].at - Window - slowest)
      BY <2>2 DEF MetaInv, AnswersAreRecent
    <3>2. task[q].issuer \in Issuers /\ replacedAt[task[q].issuer][task[q].answer] \in Nat
          /\ task[q].at \in Nat
      BY <2>2, Typed
    <3> QED BY <1>4, <3>1, <3>2, Typed, WindowPositive DEF AdvertisedAfter
  <2> QED BY <1>3, <1>5, <1>6, <2>1, <2>2 DEF AnswersAreRecent, AdvertisedAfter
<1> QED BY <1>8, <1>9, <1>10, <1>11, <1>12 DEF MetaInv

LEMMA MetaStep == MetaInv /\ [Next]_vars => MetaInv'
<1> SUFFICES ASSUME MetaInv, [Next]_vars
             PROVE  MetaInv'
  OBVIOUS
<1>1. CASE UNCHANGED vars
  BY <1>1 DEF vars, issuers, MetaInv, TypeOK, EndpointsTypeOK, TasksInOrder, TimesInOrder, EntryRecent, HeldRecent,
              AnswersAreRecent, AdvertisedSince, AdvertisedAfter
<1>2. CASE Tick
  <2>1. clock' \in Instants /\ clock' \in Nat /\ clock < clock'
    BY <1>2, MetaInstantsAssumption DEF Tick, TimePasses
  <2>2. UNCHANGED <<advertised, replacedAt, asMeta, task, slowest>>
    BY <1>2 DEF Tick, TimePasses, issuers
  <2>3. TimesInOrder'
    BY <2>1, <2>2, Typed, WindowPositive DEF MetaInv, TimesInOrder
  <2> QED BY <2>1, <2>2, <2>3 DEF MetaInv, TypeOK, EndpointsTypeOK, TasksInOrder, EntryRecent, HeldRecent,
                                  AnswersAreRecent, AdvertisedSince, AdvertisedAfter
<1>3. ASSUME NEW i \in Issuers, NEW a \in Answers, Advertise(i, a)
      PROVE  MetaInv'
  <2>1. UNCHANGED <<clock, asMeta, task, slowest>>
    BY <1>3 DEF Advertise, Replace
  <2>2. \A j \in Issuers, b \in Answers : replacedAt'[j][b] \in Nat /\ replacedAt'[j][b] <= clock
    BY <1>3, AdvertiseKeepsRecent
  <2>3. TypeOK'
    BY <1>3, <2>1, Typed DEF MetaInv, TypeOK, EndpointsTypeOK, Advertise, Replace
  <2>4. TasksInOrder' /\ TimesInOrder'
    BY <2>1, <2>2 DEF MetaInv, TasksInOrder, TimesInOrder
  <2>5. EntryRecent'
    <3>1. CASE asMeta.url = NoIssuer
      BY <2>1, <3>1 DEF EntryRecent
    <3>2. CASE asMeta.url # NoIssuer
      <4>1. asMeta.expiresAt - Window - slowest \in Int
            /\ asMeta.expiresAt - Window - slowest <= clock
        BY Typed, WindowPositive DEF MetaInv, TimesInOrder
      <4>2. AdvertisedSince(asMeta.url, asMeta.uri, asMeta.expiresAt - Window - slowest)'
        BY <1>3, <2>1, <3>2, <4>1, Typed, AdvertiseKeepsRecent DEF MetaInv, EntryRecent,
           AdvertisedSince
      <4> QED BY <4>2 DEF EntryRecent
    <3> QED BY <3>1, <3>2
  <2>6. HeldRecent'
    <3> SUFFICES ASSUME NEW c \in Callers, task[c].pc = "store"
                 PROVE  AdvertisedSince(task[c].issuer, task[c].answer, task[c].served)'
      BY <2>1 DEF HeldRecent
    <3> QED BY <1>3, <2>1, Typed, AdvertiseKeepsRecent DEF MetaInv, HeldRecent, AdvertisedSince
  <2>7. AnswersAreRecent'
    <3> SUFFICES ASSUME NEW c \in Callers, task[c].pc = "idle", task[c].issuer # NoIssuer
                 PROVE  AdvertisedAfter(task[c].issuer, task[c].answer,
                                        task[c].at - Window - slowest)'
      BY <2>1 DEF AnswersAreRecent
    <3>1. task[c].at - Window - slowest \in Int /\ task[c].at - Window - slowest < clock
      BY Typed, WindowPositive
    <3> QED BY <1>3, <2>1, <3>1, Typed, AdvertiseKeepsRecent DEF MetaInv, AnswersAreRecent,
               AdvertisedAfter
  <2> QED BY <2>3, <2>4, <2>5, <2>6, <2>7 DEF MetaInv
<1>4. ASSUME NEW c \in Callers, NEW s \in Spellings, FetchAuthServerMeta(c, s)
      PROVE  MetaInv'
  <2> DEFINE r == IF NormalIssuer[s] = NoIssuer THEN Answered(NoIssuer, NoDocument)
                                                ELSE Asking(NormalIssuer[s])
  <2>1. NormalIssuer[s] \in Issuers \cup {NoIssuer}
    BY IssuerAssumption
  <2>2. r \in TaskRecord /\ r.served <= clock /\ r.at <= clock /\ r.pc # "store"
        /\ (r.pc # "idle" => r.issuer \in Issuers) /\ (r.pc = "idle" => r.issuer = NoIssuer)
    BY <2>1, Typed DEF Answered, Asking, TaskRecord
  <2>3. UNCHANGED <<clock, issuers, asMeta, slowest>> /\ task' = [task EXCEPT ![c] = r]
    BY <1>4 DEF FetchAuthServerMeta
  <2> HIDE DEF r
  <2> QED BY <2>2, <2>3, OwnStepKeepsInv
<1>5. ASSUME NEW c \in Callers, LookupHit(c)
      PROVE  MetaInv'
  <2> DEFINE r == Answered(task[c].issuer, asMeta.uri)
  <2>1. /\ UNCHANGED <<clock, issuers, asMeta, slowest>> /\ task' = [task EXCEPT ![c] = r]
        /\ task[c].pc = "lookup" /\ asMeta.url = task[c].issuer /\ clock < asMeta.expiresAt
    BY <1>5, Typed DEF LookupHit, Cached
  <2>2. /\ r \in TaskRecord /\ r.served <= clock /\ r.at <= clock /\ r.at = clock /\ r.pc = "idle"
        /\ r.issuer = asMeta.url /\ r.answer = asMeta.uri /\ asMeta.url \in Issuers
    BY <2>1, Typed DEF Answered, TaskRecord
  <2>3. AdvertisedAfter(asMeta.url, asMeta.uri, clock - Window - slowest)
    <3>1. AdvertisedSince(asMeta.url, asMeta.uri, asMeta.expiresAt - Window - slowest)
      BY <2>2, IssuerAssumption DEF MetaInv, EntryRecent
    <3>2. replacedAt[asMeta.url][asMeta.uri] \in Nat
      BY <2>2, Typed
    <3> QED BY <2>1, <3>1, <3>2, Typed, WindowPositive DEF AdvertisedSince, AdvertisedAfter
  <2> HIDE DEF r
  <2> QED BY <2>1, <2>2, <2>3, OwnStepKeepsInv
<1>6. ASSUME NEW c \in Callers, LookupMiss(c)
      PROVE  MetaInv'
  <2> DEFINE r == [task[c] EXCEPT !.pc = "discover"]
  <2>1. UNCHANGED <<clock, issuers, asMeta, slowest>> /\ task' = [task EXCEPT ![c] = r]
    BY <1>6 DEF LookupMiss
  <2>2. /\ r \in TaskRecord /\ r.served <= clock /\ r.at <= clock /\ r.pc = "discover"
        /\ r.issuer \in Issuers
    BY <1>6, Typed DEF LookupMiss, TaskRecord
  <2> HIDE DEF r
  <2> QED BY <2>1, <2>2, OwnStepKeepsInv
<1>7. ASSUME NEW c \in Callers, Discover(c)
      PROVE  MetaInv'
  <2> DEFINE r == [task[c] EXCEPT !.pc = "store", !.answer = advertised[task[c].issuer],
                                  !.served = clock]
  <2>1. /\ UNCHANGED <<clock, issuers, asMeta, slowest>> /\ task' = [task EXCEPT ![c] = r]
        /\ task[c].issuer \in Issuers /\ advertised[task[c].issuer] \in Documents
    BY <1>7, Typed DEF Discover, Found
  <2>a. task[c] \in TaskRecord /\ clock \in Nat /\ task[c].at <= clock /\ clock <= clock
    BY Typed
  <2>2. /\ r \in TaskRecord /\ r.served <= clock /\ r.served = clock /\ r.at <= clock /\ r.pc = "store"
        /\ r.issuer = task[c].issuer /\ r.answer = advertised[task[c].issuer]
        /\ r.issuer \in Issuers /\ r.answer \in Documents
    BY <2>1, <2>a DEF TaskRecord
  <2>3. AdvertisedSince(r.issuer, r.answer, r.served)
    BY <2>2 DEF AdvertisedSince
  <2> HIDE DEF r
  <2> QED BY <2>1, <2>2, <2>3, OwnStepKeepsInv
<1>8. ASSUME NEW c \in Callers, NoMetadata(c)
      PROVE  MetaInv'
  <2> DEFINE r == Answered(task[c].issuer, NoDocument)
  <2>1. /\ UNCHANGED <<clock, issuers, asMeta, slowest>> /\ task' = [task EXCEPT ![c] = r]
        /\ task[c].issuer \in Issuers /\ advertised[task[c].issuer] = NoDocument
    BY <1>8, Typed DEF NoMetadata, Found
  <2>2. /\ r \in TaskRecord /\ r.served <= clock /\ r.at <= clock /\ r.at = clock /\ r.pc = "idle"
        /\ r.issuer = task[c].issuer /\ r.answer = NoDocument
    BY <2>1, Typed DEF Answered, TaskRecord
  <2>3. AdvertisedAfter(r.issuer, r.answer, r.at - Window - slowest)
    BY <2>1, <2>2 DEF AdvertisedAfter
  <2> HIDE DEF r
  <2> QED BY <2>1, <2>2, <2>3, OwnStepKeepsInv
<1>9. ASSUME NEW c \in Callers, DiscoveryFails(c)
      PROVE  MetaInv'
  <2>1. UNCHANGED <<clock, issuers, asMeta, slowest>> /\ task' = [task EXCEPT ![c] = Untouched]
    BY <1>9 DEF DiscoveryFails
  <2>2. /\ Untouched \in TaskRecord /\ Untouched.served <= clock /\ Untouched.at <= clock
        /\ Untouched.pc = "idle" /\ Untouched.issuer = NoIssuer
    BY Typed DEF Untouched, TaskRecord
  <2> QED BY <2>1, <2>2, OwnStepKeepsInv
<1>10. ASSUME NEW c \in Callers, Store(c)
       PROVE  MetaInv'
  BY <1>10, StoreKeepsInv
<1> QED BY <1>1, <1>2, <1>3, <1>4, <1>5, <1>6, <1>7, <1>8, <1>9, <1>10 DEF Next

\* A caller is only told what the issuer it asked for has itself advertised
\* recently, whatever the number of callers, issuers and URIs and the TTL.
THEOREM MetadataIsRecent == Spec => []AnswersAreRecent
<1>1. Spec => []MetaInv
  BY MetaInit, MetaStep, PTL DEF Spec
<1>2. MetaInv => AnswersAreRecent
  BY DEF MetaInv
<1> QED BY <1>1, <1>2, PTL

\* Every variable keeps its type, whatever the constants.
THEOREM MetaTypeCorrect == Spec => []TypeOK
<1>1. Spec => []MetaInv
  BY MetaInit, MetaStep, PTL DEF Spec
<1>2. MetaInv => TypeOK
  BY DEF MetaInv
<1> QED BY <1>1, <1>2, PTL

-----------------------------------------------------------------------------
\* AuthServerMeta implements IssuerDirectory.

USE DEF Directory!ZeroTime, Directory!Time, Directory!Documents, Directory!Answers

\* The refinement mapping, by name.
inquiries == [c \in Callers |-> InquiryOf(task[c])]

\* When one goroutine's locals change, one inquiry does.
LEMMA OneInquiry ==
  ASSUME MetaInv, NEW c \in Callers, NEW r, task' = [task EXCEPT ![c] = r]
  PROVE  inquiries' = [inquiries EXCEPT ![c] = InquiryOf(r)]
BY Typed DEF inquiries

LEMMA AnswerIsTold ==
  ASSUME NEW i, NEW a
  PROVE  InquiryOf(Answered(i, a)) = Directory!Told(i, a)
BY DEF InquiryOf, Answered, Directory!Told

\* Telling a caller what its issuer advertised recently is an answer.
LEMMA TellingAnswers ==
  ASSUME MetaInv, MetaInv', NEW c \in Callers, NEW a \in Answers, task[c].pc # "idle",
         task' = [task EXCEPT ![c] = Answered(task[c].issuer, a)],
         UNCHANGED <<clock, issuers>>, slowest <= slowest',
         a = NoDocument => a = advertised[task[c].issuer]
  PROVE  Directory!Answer(c, a)
<1> DEFINE i == task[c].issuer
<1>1. /\ inquiries[c].phase = "pending" /\ inquiries[c].issuer = i
      /\ i \in Issuers /\ i # NoIssuer
  BY Typed, IssuerAssumption DEF inquiries, InquiryOf
<1>2. inquiries' = [inquiries EXCEPT ![c] = Directory!Told(i, a)]
  BY OneInquiry, AnswerIsTold
<1>3. /\ task'[c].pc = "idle" /\ task'[c].issuer = i
      /\ task'[c].answer = a /\ task'[c].at = clock
  BY Typed DEF Answered
<1>4. AdvertisedAfter(i, a, clock - Window - slowest')
  BY <1>1, <1>3 DEF MetaInv, AnswersAreRecent, AdvertisedAfter, issuers
<1>5. slowest' \in Nat /\ slowest' >= slowest
  BY Typed DEF MetaInv, TypeOK
<1> QED BY <1>1, <1>2, <1>4, <1>5
        DEF Directory!Answer, Directory!AdvertisedAfter, AdvertisedAfter, Directory!issuers, issuers,
            inquiries

LEMMA DirectoryInit == Init => Directory!Init
BY DEF Init, EndpointsInit, Directory!Init, Directory!EndpointsInit, Directory!Nothing,
       Directory!Told, Untouched, InquiryOf

LEMMA DirectoryStep ==
  MetaInv /\ MetaInv' /\ [Next]_vars => [Directory!Next]_(Directory!directoryVars)
<1> SUFFICES ASSUME MetaInv, MetaInv', [Next]_vars
             PROVE  [Directory!Next]_(Directory!directoryVars)
  OBVIOUS
<1>1. CASE UNCHANGED vars
  BY <1>1 DEF vars, Directory!directoryVars, Directory!issuers, inquiries
<1>2. CASE Tick
  BY <1>2 DEF Tick, TimePasses, Directory!Next, Directory!Environment, Directory!TimePasses,
              issuers, Directory!issuers
<1>3. ASSUME NEW i \in Issuers, NEW a \in Answers, Advertise(i, a)
      PROVE  Directory!Next
  BY <1>3 DEF Advertise, Replace, Directory!Next, Directory!Environment, Directory!Replace
<1>4. ASSUME NEW c \in Callers, NEW s \in Spellings, FetchAuthServerMeta(c, s)
      PROVE  Directory!Next
  <2> DEFINE r == IF NormalIssuer[s] = NoIssuer THEN Answered(NoIssuer, NoDocument)
                                                ELSE Asking(NormalIssuer[s])
             q == IF NormalIssuer[s] = NoIssuer THEN Directory!Nothing
                                                ELSE Directory!Pending(NormalIssuer[s])
  <2>1. InquiryOf(r) = q
    BY AnswerIsTold DEF InquiryOf, Asking, Directory!Nothing, Directory!Pending
  <2>2. task' = [task EXCEPT ![c] = r] /\ UNCHANGED <<clock, issuers, slowest>>
        /\ inquiries[c].phase = "told"
    BY <1>4 DEF FetchAuthServerMeta, inquiries, InquiryOf
  <2>3. inquiries' = [inquiries EXCEPT ![c] = q]
    BY <2>1, <2>2, OneInquiry
  <2>4. Directory!Ask(c, s)
    BY <2>2, <2>3 DEF Directory!Ask, Directory!issuers, issuers, inquiries
  <2> QED BY <2>4 DEF Directory!Next
<1>5. ASSUME NEW c \in Callers, LookupHit(c)
      PROVE  Directory!Next
  <2>1. asMeta.uri \in Answers /\ asMeta.uri # NoDocument
    BY Typed, DocumentAssumption
  <2>2. /\ task[c].pc # "idle"
        /\ task' = [task EXCEPT ![c] = Answered(task[c].issuer, asMeta.uri)]
        /\ UNCHANGED <<clock, issuers>> /\ slowest <= slowest'
    BY <1>5, Typed DEF LookupHit
  <2>3. Directory!Answer(c, asMeta.uri)
    BY <2>1, <2>2, TellingAnswers
  <2> QED BY <2>1, <2>3 DEF Directory!Next
<1>6. ASSUME NEW c \in Callers, LookupMiss(c) \/ Discover(c)
      PROVE  UNCHANGED Directory!directoryVars
  <2>1. /\ task[c].pc # "idle" /\ task'[c].pc # "idle"
        /\ task'[c].issuer = task[c].issuer
        /\ \A q \in Callers \ {c} : task'[q] = task[q]
        /\ UNCHANGED <<clock, issuers, slowest>>
    BY <1>6, Typed DEF LookupMiss, Discover, TaskRecord
  <2>2. inquiries' = inquiries
    BY <2>1 DEF inquiries, InquiryOf
  <2> QED BY <2>1, <2>2 DEF Directory!directoryVars, Directory!issuers, issuers, inquiries
<1>7. ASSUME NEW c \in Callers, NoMetadata(c)
      PROVE  Directory!Next
  <2>1. /\ task[c].pc # "idle" /\ NoDocument = advertised[task[c].issuer]
        /\ task' = [task EXCEPT ![c] = Answered(task[c].issuer, NoDocument)]
        /\ UNCHANGED <<clock, issuers>> /\ slowest <= slowest'
    BY <1>7, Typed DEF NoMetadata, Found
  <2>2. Directory!Answer(c, NoDocument)
    BY <2>1, TellingAnswers
  <2> QED BY <2>2 DEF Directory!Next
<1>8. ASSUME NEW c \in Callers, DiscoveryFails(c)
      PROVE  Directory!Next
  <2>1. InquiryOf(Untouched) = Directory!Nothing
    BY DEF InquiryOf, Untouched, Directory!Nothing, Directory!Told
  <2>2. /\ task[c].pc = "discover" /\ task' = [task EXCEPT ![c] = Untouched]
        /\ UNCHANGED <<clock, issuers, slowest>>
    BY <1>8 DEF DiscoveryFails
  <2>3. inquiries' = [inquiries EXCEPT ![c] = Directory!Nothing]
    BY <2>1, <2>2, OneInquiry
  <2>4. Directory!Fail(c)
    BY <2>2, <2>3 DEF Directory!Fail, Directory!issuers, issuers, inquiries, InquiryOf
  <2> QED BY <2>4 DEF Directory!Next
<1>9. ASSUME NEW c \in Callers, Store(c)
      PROVE  Directory!Next
  <2>1. /\ task[c].pc = "store" /\ task[c].answer \in Documents
        /\ task' = [task EXCEPT ![c] = Answered(task[c].issuer, task[c].answer)]
        /\ UNCHANGED <<clock, issuers>> /\ slowest <= slowest'
    BY <1>9, Typed DEF Store
  <2>2. Directory!Answer(c, task[c].answer)
    BY <2>1, DocumentAssumption, TellingAnswers
  <2> QED BY <2>1, <2>2 DEF Directory!Next
<1> QED BY <1>1, <1>2, <1>3, <1>4, <1>5, <1>6, <1>7, <1>8, <1>9 DEF Next

\* Callers of fetchAuthServerMeta cannot tell the cached, concurrent Verifier
\* from the cache-free directory.
THEOREM MetaImplementsDirectory == Spec => ImplementsIssuerDirectory
BY MetaInit, MetaStep, DirectoryInit, DirectoryStep, PTL
   DEF Spec, ImplementsIssuerDirectory, Directory!Spec

=============================================================================
