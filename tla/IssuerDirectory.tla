--------------------------- MODULE IssuerDirectory ---------------------------
(***************************************************************************)
(* What fetchAuthServerMeta promises its callers, with no cache in it: who *)
(* asks for an issuer's metadata is told what this issuer, and no other,   *)
(* advertised less than Window, and the delay of an answer, before.  That  *)
(* an issuer has no metadata is only said while it is so, and whoever is   *)
(* told nothing has asked.                                                 *)
(***************************************************************************)
EXTENDS IssuerEndpoints

CONSTANTS
  Callers,        \* goroutines asking for metadata
  Spellings,      \* the issuer strings they pass
  NormalIssuer,   \* the issuer each of them names
  Window          \* how long a replaced document may still be given out

VARIABLES
  inquiry,        \* what each goroutine has asked, or was told last
  delay           \* the longest time an answer has been on its way

directoryVars == <<clock, issuers, inquiry, delay>>

Pending(i) == [phase |-> "pending", issuer |-> i, answer |-> NoDocument]
Told(i, a) == [phase |-> "told", issuer |-> i, answer |-> a]
Nothing    == Told(NoIssuer, NoDocument)

Init ==
  /\ EndpointsInit
  /\ inquiry = [c \in Callers |-> Nothing]
  /\ delay = 0

\* The environment's steps.
Environment ==
  /\ TimePasses \/ \E i \in Issuers, a \in Answers : Replace(i, a)
  /\ UNCHANGED <<inquiry, delay>>

\* Nothing is told of a blank issuer.
Ask(c, s) ==
  /\ inquiry[c].phase = "told"
  /\ inquiry' = [inquiry EXCEPT ![c] = IF NormalIssuer[s] = NoIssuer THEN Nothing
                                                                   ELSE Pending(NormalIssuer[s])]
  /\ UNCHANGED <<clock, issuers, delay>>

\* An answer may have been on its way longer than any before it.
Answer(c, a) ==
  /\ inquiry[c].phase = "pending"
  /\ delay' \in Nat /\ delay' >= delay
  /\ AdvertisedAfter(inquiry[c].issuer, a, clock - Window - delay')
  /\ a = NoDocument => a = advertised[inquiry[c].issuer]
  /\ inquiry' = [inquiry EXCEPT ![c] = Told(inquiry[c].issuer, a)]
  /\ UNCHANGED <<clock, issuers>>

Fail(c) ==
  /\ inquiry[c].phase = "pending"
  /\ inquiry' = [inquiry EXCEPT ![c] = Nothing]
  /\ UNCHANGED <<clock, issuers, delay>>

Next ==
  \/ Environment
  \/ \E c \in Callers, s \in Spellings : Ask(c, s)
  \/ \E c \in Callers, a \in Answers : Answer(c, a)
  \/ \E c \in Callers : Fail(c)

Spec == Init /\ [][Next]_directoryVars

=============================================================================
