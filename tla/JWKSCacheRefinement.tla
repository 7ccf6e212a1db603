------------------------ MODULE JWKSCacheRefinement ------------------------
(***************************************************************************)
(* The cached, concurrent key resolution of JWKSCache implements the       *)
(* cache-free KeyDirectory.  A reading of the clock at the head of         *)
(* fetchJWKSet is a look; storing, invalidating and the health accounting  *)
(* are invisible; selecting the keys is the answer.                        *)
(***************************************************************************)
EXTENDS JWKSCache

\* The looks a call has taken: its retry begins another one.
Looks(r) == (IF r.retried THEN 1 ELSE 0) + (IF r.pc = "clock" THEN 0 ELSE 1)

\* A call under way is a pending request; its keys and its error are its own
\* affair until it returns.
RequestOf(r) ==
  IF r.pc = "idle"
  THEN [phase |-> "settled", looks |-> 0, uri |-> NoURI, kid |-> NoKid,
        since |-> ZeroTime, keys |-> r.keys, err |-> r.err]
  ELSE [phase |-> "pending", looks |-> Looks(r), uri |-> r.uri, kid |-> r.kid,
        since |-> r.now, keys |-> {}, err |-> "none"]

Directory == INSTANCE KeyDirectory WITH request <- [c \in Calls |-> RequestOf(call[c])]

\* Whatever goroutines, rotations and faults do, callers of parseAndFetchKeys
\* cannot tell it from the cache-free directory: at most two looks, keys
\* published less than 110% of the TTL before the last one, a kid given up
\* only after the second.
ImplementsDirectory == Directory!Spec

=============================================================================
