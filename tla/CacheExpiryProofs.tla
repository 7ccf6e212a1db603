------------------------- MODULE CacheExpiryProofs -------------------------
(***************************************************************************)
(* What the deadlines of both caches guarantee, for every TTL and every    *)
(* draw of the jitter.                                                     *)
(***************************************************************************)
EXTENDS CacheExpiry, TLAPS

LEMMA EffectivePositive ==
  ASSUME NEW configured \in Int, NEW default \in Nat \ {0}
  PROVE  EffectiveTTL(configured, default) \in Nat \ {0}
BY DEF EffectiveTTL

LEMMA WindowOfPositive ==
  ASSUME NEW ttl \in Nat \ {0}
  PROVE  TrustWindow(ttl) \in Nat \ {0}
BY DEF TrustWindow

\* jitteredExpiry draws a deadline strictly after its start and never later
\* than 110% of the TTL after it, for every TTL and every draw.
THEOREM JitterBounds ==
  ASSUME NEW t \in Nat, NEW ttl \in Nat \ {0}, NEW d \in JitteredExpiry(t, ttl)
  PROVE  /\ d \in Nat
         /\ t < d
         /\ d <= t + TrustWindow(ttl)
<1>1. CASE ttl \div 5 <= 0
  <2>1. d = t + ttl
    BY <1>1 DEF JitteredExpiry
  <2> QED BY <2>1 DEF TrustWindow
<1>2. CASE ttl \div 5 > 0
  <2>1. PICK j \in 0 .. (ttl \div 5) - 1 : d = t + ttl + (j - ttl \div 10)
    BY <1>2 DEF JitteredExpiry
  <2>2. ttl \div 10 < ttl /\ ttl \div 5 <= 2 * (ttl \div 10) + 1
    OBVIOUS
  <2>3. j \in Int /\ 0 <= j /\ j <= 2 * (ttl \div 10)
    BY <2>1, <2>2
  <2> QED BY <2>1, <2>2, <2>3 DEF TrustWindow
<1> QED BY <1>1, <1>2

=============================================================================
