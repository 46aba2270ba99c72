-------------------------------- MODULE Ledger --------------------------------
(***************************************************************************)
(* What a rate limiter on one bucket promises, whatever the protocol: an   *)
(* account with a balance for each limit.  It is opened full, time credits *)
(* it, and each moment of time once; whoever is let in draws on all limits *)
(* at once and overdraws none; and only who was let in may settle          *)
(* afterwards, by any amount.  An account that is closed is credited       *)
(* nothing: what late settlements leave there is all it has.               *)
(***************************************************************************)
EXTENDS Integers

CONSTANTS
  Clients,
  Limits,
  Ceiling,  \* [Limits -> what a new account holds]
  Rate,     \* [Limits -> what a period credits]
  Period,   \* [Limits -> length of a period]
  Skew      \* how far clocks may be apart

VARIABLES
  time,
  open,     \* is there an account?
  since,    \* when it was opened
  reopened, \* time that clocks behind let be credited again
  balance,  \* [Limits -> Int]
  drawn,    \* [Limits -> net amount drawn since it was opened]
  holds     \* the clients let in that may still settle

vars == <<time, open, since, reopened, balance, drawn, holds>>

------------------------------------------------------------------------------
Base(l) == IF open THEN Ceiling[l] ELSE 0
Credited(l) == balance[l] + drawn[l] - Base(l)

\* The time since the opening pays for all that was credited.
Paid(l) == Credited(l) * Period[l] <= (time - since + reopened) * Rate[l]

Init ==
  /\ time = 0
  /\ open = FALSE
  /\ since = 0
  /\ reopened = 0
  /\ balance = [l \in Limits |-> 0]
  /\ drawn = [l \in Limits |-> 0]
  /\ holds = {}

Pass ==
  /\ time' = time + 1
  /\ UNCHANGED <<open, since, reopened, balance, drawn, holds>>

\* Credits what time pays for, and no more than once but for the clocks.
Credit ==
  /\ open => \A l \in Limits : Paid(l)'
  /\ ~open => \A l \in Limits : Credited(l)' = Credited(l)
  /\ reopened' - reopened \in 0..Skew
  /\ UNCHANGED <<time, open, since>>

\* A client is let in by the account as it is, ...
LetIn(c) ==
  /\ c \notin holds
  /\ \A l \in Limits :
       /\ drawn'[l] >= drawn[l]
       /\ balance'[l] >= 0 \/ balance'[l] >= balance[l]
  /\ Credit
  /\ holds' = holds \cup {c}

\* ... or opens one, within the ceiling, at a time that is not to come.
Open(c) ==
  /\ c \notin holds
  /\ ~open
  /\ open' = TRUE
  /\ since' <= time
  /\ reopened' = 0
  /\ \A l \in Limits : drawn'[l] \in 0..Ceiling[l] /\ balance'[l] = Ceiling[l] - drawn'[l]
  /\ holds' = holds \cup {c}
  /\ UNCHANGED time

\* It settles, perhaps more than once, or leaves without.
Settle(c) ==
  /\ c \in holds
  /\ \A l \in Limits : balance'[l] + drawn'[l] = balance[l] + drawn[l]
  /\ holds' \in {holds, holds \ {c}}
  /\ UNCHANGED <<time, open, since, reopened>>

\* Somebody else credits the account.
Refill ==
  /\ Credit
  /\ \A l \in Limits : balance'[l] >= balance[l]
  /\ UNCHANGED <<drawn, holds>>

Close ==
  /\ open' = FALSE
  /\ balance' = [l \in Limits |-> 0]
  /\ drawn' = [l \in Limits |-> 0]
  /\ UNCHANGED <<time, since, reopened, holds>>

Next ==
  \/ Pass
  \/ \E c \in Clients : LetIn(c) \/ Open(c) \/ Settle(c)
  \/ Refill
  \/ Close

Spec == Init /\ [][Next]_vars
===============================================================================
