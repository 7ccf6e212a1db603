---------------------------- MODULE KeyDirectory ----------------------------
(***************************************************************************)
(* What parseAndFetchKeys promises its callers, with no cache in it: a     *)
(* call looks at the IdP once or twice and is then answered with verifying *)
(* keys, or rejected.  Every key it is answered with was published at the  *)
(* URI asked for less than Window before the last look, and carries the    *)
(* kid asked for.  A kid is only given up after two looks, and a look is   *)
(* only spent on a token whose header parsed.                              *)
(***************************************************************************)
EXTENDS IdP

CONSTANTS
  Calls,      \* goroutines asking for keys
  NoURI,      \* the uri of a request that is not under way
  Window      \* how long a withdrawn key may still be trusted

VARIABLE request   \* what each goroutine has asked for, or was told last

directoryVars == <<clock, published, withdrawnAt, request>>

Settled(keys, err) ==
  [phase |-> "settled", looks |-> 0, uri |-> NoURI, kid |-> NoKid,
   since |-> ZeroTime, keys |-> keys, err |-> err]

Pending(looks, u, kid, since) ==
  [phase |-> "pending", looks |-> looks, uri |-> u, kid |-> kid,
   since |-> since, keys |-> {}, err |-> "none"]

Answerable(c, K) ==
  /\ \A k \in K : PublishedAfter(request[c].uri, k, request[c].since - Window)
  /\ request[c].kid # NoKid => K # {} /\ \A k \in K : KidOf[k] = request[c].kid

Init ==
  /\ IdPInit
  /\ request = [c \in Calls |-> Settled({}, "none")]

\* The environment's steps.
Environment ==
  /\ ClockMoves \/ \E u \in URIs, K \in SUBSET Keys : Rotate(u, K)
  /\ UNCHANGED request

Ask(c, u, kid) ==
  /\ request[c].phase = "settled"
  /\ request' = [request EXCEPT ![c] = Pending(0, u, kid, ZeroTime)]
  /\ UNCHANGED <<clock, idp>>

Look(c) ==
  /\ request[c].phase = "pending"
  /\ request[c].looks < 2
  /\ request' = [request EXCEPT
                   ![c] = Pending(request[c].looks + 1, request[c].uri, request[c].kid, clock)]
  /\ UNCHANGED <<clock, idp>>

Answer(c) ==
  /\ request[c].phase = "pending"
  /\ request[c].looks > 0
  /\ \E K \in SUBSET Keys : /\ Answerable(c, K)
                            /\ request' = [request EXCEPT ![c] = Settled(K, "none")]
  /\ UNCHANGED <<clock, idp>>

Reject(c, err) ==
  /\ request[c].phase = IF err = "headerParse" THEN "settled" ELSE "pending"
  /\ err \in {"transient", "permanent"} => request[c].looks > 0
  /\ err = "kidNotFound" => request[c].looks = 2
  /\ request' = [request EXCEPT ![c] = Settled({}, err)]
  /\ UNCHANGED <<clock, idp>>

Next ==
  \/ Environment
  \/ \E c \in Calls, u \in URIs, kid \in Kids \cup {NoKid} : Ask(c, u, kid)
  \/ \E c \in Calls : Look(c) \/ Answer(c)
  \/ \E c \in Calls, err \in {"transient", "permanent", "kidNotFound", "headerParse"} :
       Reject(c, err)

Spec == Init /\ [][Next]_directoryVars

=============================================================================
