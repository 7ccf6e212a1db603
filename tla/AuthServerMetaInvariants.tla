---------------------- MODULE AuthServerMetaInvariants ----------------------
(***************************************************************************)
(* The strengthening that makes AnswersAreRecent inductive.                *)
(***************************************************************************)
EXTENDS AuthServerMeta

\* Some answer a of issuer i was advertised at t or later.
AdvertisedSince(i, a, t) ==
  \/ a = advertised[i]
  \/ replacedAt[i][a] # ZeroTime /\ t <= replacedAt[i][a]

TasksInOrder ==
  \A c \in Callers : /\ task[c].pc # "idle" => task[c].issuer \in Issuers
                     /\ task[c].pc = "store" => task[c].answer \in Documents

TimesInOrder ==
  /\ \A i \in Issuers, a \in Answers : replacedAt[i][a] <= clock
  /\ \A c \in Callers : task[c].served <= clock /\ task[c].at <= clock
  /\ asMeta.expiresAt <= clock + Window

\* The cached document was advertised within the window, and the time it took
\* to be stored, before its deadline.
EntryRecent ==
  asMeta.url # NoIssuer =>
    AdvertisedSince(asMeta.url, asMeta.uri, asMeta.expiresAt - Window - slowest)

\* So was a document not yet stored, since it was served.
HeldRecent ==
  \A c \in Callers : task[c].pc = "store" =>
    AdvertisedSince(task[c].issuer, task[c].answer, task[c].served)

MetaInv ==
  TypeOK /\ TasksInOrder /\ TimesInOrder /\ EntryRecent /\ HeldRecent /\ AnswersAreRecent

=============================================================================
