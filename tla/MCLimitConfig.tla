----------------------------- MODULE MCLimitConfig -----------------------------
\* Two processes, each with an administrator; clients are in either.
EXTENDS LimitConfig, TLC

CONSTANTS here, there, admin, other, local, remote

MCProcessOf == admin :> here @@ local :> here @@ remote :> there
MCTwoAdmins == admin :> here @@ other :> there @@ local :> here

Caps(r, t) == [n \in {"rpm", "tpm"} |-> IF n = "rpm" THEN r ELSE t]
MCSettable == {Caps(2, 1)}

TwoLevels == <<"entity", "resource">>
ThreeLevels == <<"entity", "entity_default", "resource">>

\* The resource has a default; the entity may have limits of its own.
Start(levels, own) ==
  [l \in levels |-> CASE l = "resource" -> Caps(1, 0) [] l = "entity" -> own [] OTHER -> Caps(0, 0)]
MCStarts == {Start({"entity", "resource"}, own) : own \in {Caps(0, 0), Caps(2, 1)}}

\* One level has limits: the resource, or the entity itself.
OneLevel ==
  LET levels == {"entity", "entity_default", "resource"}
  IN  {Start(levels, Caps(0, 0)), [l \in levels |-> IF l = "entity" THEN Caps(2, 1) ELSE Caps(0, 0)]}
==============================================================================
