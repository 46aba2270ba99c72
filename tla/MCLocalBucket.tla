---------------------------- MODULE MCLocalBucket ----------------------------
\* Small rates for TLC: slower than one unit per millisecond, exact, faster,
\* and two that divide nothing evenly in either direction.
EXTENDS LocalBucket

MCRates == {[ra |-> 2, rp |-> 3], [ra |-> 1, rp |-> 3], [ra |-> 2, rp |-> 2],
            [ra |-> 5, rp |-> 2], [ra |-> 3, rp |-> 5]}
==============================================================================
