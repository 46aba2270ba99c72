------------------------------ MODULE MCSharding ------------------------------
\* A bucket that can grow to four shards.
EXTENDS Sharding

CONSTANTS c1

MCChanges == {1}
===============================================================================
