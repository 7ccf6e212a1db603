----------------------------- MODULE JWKSHealth -----------------------------
(***************************************************************************)
(* What a health snapshot says about the attempt it reports.  JWKSHealth() *)
(* hands a readiness probe three fields that fetchJWKSet writes at two     *)
(* instants, before the exchange and in its deferred function, while other *)
(* fetches do the same.  This module watches JWKSCache with history        *)
(* variables that none of its steps reads: whose attempt the snapshot      *)
(* reports, what became of it, and whether a fetch that it overtook has    *)
(* reported since.                                                         *)
(***************************************************************************)
EXTENDS JWKSCacheInvariants

VARIABLES
  reporting,    \* the fetch whose attempt is reported, while it is under way
  outcome,      \* how that fetch ended
  overtaken     \* whether another fetch has ended since it did

watch == <<reporting, outcome, overtaken>>

WatchInit ==
  /\ reporting = {}
  /\ outcome = "nil"
  /\ overtaken = FALSE

\* c records an attempt: the snapshot reports its fetch from now on.
Starts(c) ==
  /\ reporting' = {c}
  /\ outcome' = "nil"
  /\ overtaken' = FALSE

\* c leaves fetchJWKSet: either its attempt is the one reported, ...
Ends(c) ==
  /\ c \in reporting
  /\ reporting' = {}
  /\ outcome' = IF call[c].err = "none" THEN "nil" ELSE call[c].err
  /\ UNCHANGED overtaken

\* ... or a later attempt is, whose fetch may have ended already.
EndsLate(c) ==
  /\ c \notin reporting
  /\ overtaken' = (overtaken \/ reporting = {})
  /\ UNCHANGED <<reporting, outcome>>

\* At most one fetch starts or ends at a step.
Watch ==
  \/ \E c \in Calls : c \notin InFetch /\ c \in InFetch' /\ Starts(c)
  \/ \E c \in Calls : c \in InFetch /\ c \notin InFetch' /\ (Ends(c) \/ EndsLate(c))
  \/ InFetch' = InFetch /\ UNCHANGED watch

WatchedSpec == Init /\ WatchInit /\ [][Next /\ Watch]_<<vars, watch>> /\ Fairness

-----------------------------------------------------------------------------
\* Once the fetch whose attempt a snapshot reports has ended, the snapshot's
\* error is how that fetch ended, unless a fetch that was under way when the
\* attempt was recorded has ended since and put its own result there (an older
\* success may thus hide a later failure, and an older failure a later success);
\* and without an error some fetch has succeeded at or after the attempt.
SnapshotExplained ==
  reporting = {} =>
    /\ health.err = outcome \/ overtaken
    /\ health.err = "nil" => health.success >= health.attempt

-----------------------------------------------------------------------------
\* The strengthening that makes it inductive: the fetch reported on is under
\* way, there is one at most, and no clock reading lies ahead of the clock.
WatchInv ==
  /\ HealthInv
  /\ reporting \subseteq InFetch
  /\ \A a, b \in reporting : a = b
  /\ SnapshotExplained

=============================================================================
