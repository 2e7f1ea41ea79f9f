----------------------------- MODULE MCListener -----------------------------
EXTENDS Listener, TLC

\* Only accepted datagrams: every goroutine gets to the cache.
MCAccepted == [kind : {"accepted"}, key : Keys]

\* And the others, whose key plays no part: one of each kind.
MCTraffic == MCAccepted \cup [kind : {"malformed", "rejected"}, key : {CHOOSE k \in Keys : TRUE}]

MCSymmetry == Permutations(Goroutines) \cup Permutations(Keys)
=============================================================================
