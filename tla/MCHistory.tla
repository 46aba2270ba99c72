------------------------------- MODULE MCHistory -------------------------------
(* One client, which deployed the stack with an option of a day's retention. *)
EXTENDS History, TLC

CONSTANT deployer

MCWindows == <<"hourly", "daily">>
MCConfigured == deployer :> 1
MCAmounts == {-1, 2}
MCAsked == {[window |-> "hourly", start |-> 1, end |-> LastHour]}
===============================================================================
