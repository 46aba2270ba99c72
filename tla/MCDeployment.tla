---------------------------- MODULE MCDeployment ----------------------------
(* Three clients: two versions of one major number, and one of the next.     *)
EXTENDS Deployment, TLC

CONSTANTS alice, bob, carol

MCVersion == (alice :> 1) @@ (bob :> 2) @@ (carol :> 3)
MCMajor == <<0, 0, 1>>
=============================================================================
