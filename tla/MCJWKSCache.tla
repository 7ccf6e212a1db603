---------------------------- MODULE MCJWKSCache ----------------------------
(***************************************************************************)
(* Constants and views for model-checking JWKSCache.  A view leaves out    *)
(* what neither the checked properties nor any later step can tell apart,  *)
(* so TLC explores one state of each such class.                           *)
(***************************************************************************)
EXTENDS JWKSCacheInvariants, TLC

CONSTANTS k1, k2, kid1, kid2

DistinctKids == (k1 :> kid1) @@ (k2 :> kid2)
SingleKid    == k2 :> kid2
CallSymmetry == Permutations(Calls)

\* With a TTL of 15 the drawn deadlines are now + 14, now + 15 and now + 16:
\* a set fetched at 1 is at, before or past its deadline at 16 and at 17.
InstantsEdge  == {1, 2, 17}
InstantsShort == {1, 2}
InstantsOnce  == {1}

\* The locals of the calls under way: what the last call returned is dead, and
\* so is the class of a failure to all but the health snapshot.
Returning == [c \in Calls |-> IF call[c].pc = "idle" THEN Idle ELSE call[c]]
LiveCalls == [c \in Calls |-> [Returning[c] EXCEPT !.err = (@ = "none")]]

\* A deadline is only ever compared with a reading of the clock by a call about
\* to look the keys up: it matters which of them lie before it, and which at it.
Readings == {call[c].now : c \in {q \in Calls : call[q].pc = "lookup"}}
              \cup {t \in Instants : t >= clock}

\* An entry past its deadline by every such reading is dead, and so is an empty
\* key set.
Cache ==
  LET alive == {t \in Readings : t <= jwks.expiresAt}
  IN  IF jwks.keys = {} \/ alive = {} THEN <<>>
      ELSE <<jwks.keys, jwks.url, alive, jwks.expiresAt \in alive>>

\* When a key was last withdrawn matters while it is not published.
Withdrawn == [u \in URIs |-> [k \in Keys \ published[u] |-> withdrawnAt[u][k]]]

\* No step reads the health snapshot, and nothing but a property reads
\* withdrawnAt and the history variables.
HistoryView == <<clock, published, Withdrawn, Cache, LiveCalls, history>>
KidView    == <<clock, published, Cache, LiveCalls, history>>
HealthView == <<clock, published, Cache, Returning, health>>
=============================================================================
