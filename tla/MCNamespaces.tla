---------------------------- MODULE MCNamespaces ----------------------------
(* Two administrators, the names and the ids they register, and one item.    *)
EXTENDS Namespaces, TLC

CONSTANTS alice, bob, red, blue

\* The names may be swapped, and so may the administrators.
ActorSymmetry == Permutations({red, blue}) \cup Permutations({alice, bob})

\* The run ends where both names were contended for: from then on all properties but
\* TypeOK and OwnIds excuse every id.
SomeUncontested == {red, blue} \ contested # {}
=============================================================================
