---------------------------- MODULE MCBucketLease ----------------------------
\* Two limits, "fast" and "slow": no rate is a whole number of units per
\* millisecond, so every refill rounds.
EXTENDS BucketLease, TLC

MCLimits == {"fast", "slow"}
MCCapacity == [l \in MCLimits |-> IF l = "fast" THEN 2 ELSE 1]
MCRefillAmount == [l \in MCLimits |-> 1]
MCPeriod == [l \in MCLimits |-> IF l = "fast" THEN 3 ELSE 5]

Amount(f, s) == [l \in MCLimits |-> IF l = "fast" THEN f ELSE s]
MCRequests == {Amount(1, 0), Amount(2, 1)}
MCDeltas == {Amount(1, 1), Amount(-1, 0)}

Symmetric == Permutations(Clients)
==============================================================================
