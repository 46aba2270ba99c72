----------------------------- MODULE LocalBucket -----------------------------
(***************************************************************************)
(* The in-memory bucket state of one LeaseEntry while a lease is open:     *)
(* Lease.consume and Lease.adjust / release refill and update it again and *)
(* again, each call starting from the rf the previous one left.  It is the *)
(* only place where refill_bucket is applied repeatedly to its own result, *)
(* so the only place where its drift compensation acts.                    *)
(*                                                                         *)
(* Names say "entry" where BucketLease has its own, so that one module can *)
(* prove about both on the same lemmas of arithmetic.                      *)
(***************************************************************************)
EXTENDS TokenBucket

CONSTANTS
  EntryCapacity,  \* tokens
  Rates,          \* set of [ra |-> milli-units, rp |-> milliseconds]
  CallAmounts,    \* amounts, in tokens, one call may consume or adjust by
  MaxElapsed,     \* bound on time
  MaxNet          \* bound on the net consumption of a lease, in tokens

ASSUME EntryAmounts ==
  /\ EntryCapacity \in Nat /\ CallAmounts \subseteq Nat
  /\ MaxElapsed \in Nat /\ MaxNet \in Nat
ASSUME RatesAssumption == \A rate \in Rates : rate.ra \in Nat \ {0} /\ rate.rp \in Nat \ {0}

VARIABLES
  entry,      \* LeaseEntry.state
  elapsed,    \* milliseconds since the entry was read
  net,        \* LeaseEntry.consumed: net tokens taken through this entry
  opening,    \* the balance the entry was created with
  spilled     \* some refill met the capacity ceiling

entryVars == <<entry, elapsed, net, opening, spilled>>

ceiling == EntryCapacity * Milli

Spills(s, now) == now > s.rf /\ s.tk + Accrued(now - s.rf, s.ra, s.rp) > s.cp

EntryTypeOK ==
  /\ entry.tk \in -(2 * MaxNet * Milli) .. (EntryCapacity + 2 * MaxNet) * Milli
  /\ entry.rf \in 0..elapsed
  /\ elapsed \in 0..MaxElapsed
  /\ net \in -MaxNet..MaxNet
  /\ opening \in 0..ceiling
  /\ spilled \in BOOLEAN

EntryInit ==
  /\ opening \in 0..ceiling
  /\ \E rate \in Rates :
       entry = [tk |-> opening, rf |-> 0, cp |-> ceiling, ra |-> rate.ra, rp |-> rate.rp]
  /\ elapsed = 0
  /\ net = 0
  /\ spilled = FALSE

TimePasses ==
  /\ elapsed < MaxElapsed
  /\ elapsed' = elapsed + 1
  /\ UNCHANGED <<entry, net, opening, spilled>>

\* Lease.consume: all or nothing; a rejected call leaves the entry alone.
Consume(n) ==
  LET r == TryConsume(entry, n, elapsed)
  IN  /\ n > 0
      /\ net + n <= MaxNet
      /\ r.success
      /\ entry' = [entry EXCEPT !.tk = r.tk, !.rf = r.rf]
      /\ net' = net + n
      /\ spilled' = (spilled \/ Spills(entry, elapsed))
      /\ UNCHANGED <<elapsed, opening>>

\* Lease.adjust, and Lease.release with the sign turned.
Adjust(n) ==
  LET r == ForceConsume(entry, n, elapsed)
  IN  /\ n # 0
      /\ net + n \in -MaxNet..MaxNet
      /\ entry' = [entry EXCEPT !.tk = r.tk, !.rf = r.rf]
      /\ net' = net + n
      /\ spilled' = (spilled \/ Spills(entry, elapsed))
      /\ UNCHANGED <<elapsed, opening>>

EntryNext ==
  \/ TimePasses
  \/ \E n \in CallAmounts : Consume(n) \/ Adjust(n) \/ Adjust(-n)

EntrySpec == EntryInit /\ [][EntryNext]_entryVars

------------------------------------------------------------------------------
\* What the refills of this entry have credited so far, were it refilled now.
Credited == Refill(entry, elapsed).tk + net * Milli - opening

(* A rejected caller that waits retry_after finds its tokens there, whenever *)
(* the request fits the bucket at all (calculate_retry_after; the promise    *)
(* the token-bucket guide makes to callers that sleep for it).               *)
RetryIsEnough ==
  \A n \in 1..EntryCapacity :
    LET r == TryConsume(entry, n, elapsed)
    IN  ~r.success => TryConsume(entry, n, elapsed + r.retryAfter).success

(* ... and waiting shorter by more than the rounding (one millisecond plus   *)
(* the time one milli-unit takes) is never enough.                           *)
RetryIsNotLate ==
  \A n \in 1..EntryCapacity :
    LET r     == TryConsume(entry, n, elapsed)
        early == r.retryAfter - 2 - (entry.rp + entry.ra - 1) \div entry.ra
    IN  ~r.success /\ early > 0 => ~TryConsume(entry, n, elapsed + early).success

(* However often the entry is refilled on the way, the refills add up to at  *)
(* least what one refill over the whole time gives: rounding down never      *)
(* costs the caller a unit (the purpose of the time_used_ms bookkeeping).    *)
RefillNeverLoses ==
  ~spilled /\ ~Spills(entry, elapsed) => Credited >= Accrued(elapsed, entry.ra, entry.rp)
==============================================================================
