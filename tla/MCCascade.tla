------------------------------ MODULE MCCascade ------------------------------
\* Two children of one parent that has less than they have together.
EXTENDS Cascade, TLC

CONSTANTS key_a, key_b, project

MCChildren == {key_a, key_b}
MCCapacity == [e \in {key_a, key_b, project} |-> 2]
MCChanges == {1, -1}
Symmetric == Permutations(Clients) \cup Permutations(MCChildren)
==============================================================================
