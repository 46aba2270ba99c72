----------------------------- MODULE TokenBucket -----------------------------
(***************************************************************************)
(* The integer token-bucket arithmetic of bucket.py: pure operators over   *)
(* one limit's bucket state                                                *)
(*                                                                         *)
(*     [tk |-> tokens_milli, rf |-> last_refill_ms, cp |-> capacity_milli, *)
(*      ra |-> refill_amount_milli, rp |-> refill_period_ms]               *)
(*                                                                         *)
(* Amounts a caller asks for are whole tokens; balances are "milli" units, *)
(* Milli of them to the token (1000 in the code, a parameter here so that  *)
(* TLC can use a small one).  Times are milliseconds.                      *)
(***************************************************************************)
EXTENDS Integers

CONSTANT Milli

ASSUME MilliAssumption == Milli \in Nat \ {0}

Lesser(a, b) == IF a <= b THEN a ELSE b

\* What elapses between two timestamps accrues, in whole milli-units.
Accrued(elapsed, ra, rp) == (elapsed * ra) \div rp

\* Mutants of refill_bucket: the whole elapsed time is taken for used; the time
\* used is rounded up; the ceiling is left out.
RefillForgetsRemainder(st, now) ==
  LET add == Accrued(now - st.rf, st.ra, st.rp)
  IN  IF now <= st.rf THEN [tk |-> st.tk, rf |-> st.rf]
      ELSE [tk |-> Lesser(st.cp, st.tk + add), rf |-> now]
RefillRoundsUp(st, now) ==
  LET add == Accrued(now - st.rf, st.ra, st.rp)
  IN  IF now <= st.rf \/ add = 0 THEN [tk |-> st.tk, rf |-> st.rf]
      ELSE [tk |-> Lesser(st.cp, st.tk + add), rf |-> st.rf + (add * st.rp) \div st.ra + 1]
RefillWithoutCeiling(st, now) ==
  LET add == Accrued(now - st.rf, st.ra, st.rp)
  IN  IF now <= st.rf \/ add = 0 THEN [tk |-> st.tk, rf |-> st.rf]
      ELSE [tk |-> st.tk + add, rf |-> st.rf + (add * st.rp) \div st.ra]

\* refill_bucket: the time credited is the time the added units account for,
\* rounded down, never the time that passed.
Refill(st, now) ==
  LET elapsed == now - st.rf
      add     == Accrued(elapsed, st.ra, st.rp)
  IN  IF elapsed <= 0 \/ add = 0
        THEN [tk |-> st.tk, rf |-> st.rf]
        ELSE [tk |-> Lesser(st.cp, st.tk + add),
              rf |-> st.rf + (add * st.rp) \div st.ra]

\* Mutant: no extra millisecond for the rounding.
RetryAfterRoundedDown(deficit, ra, rp) == IF deficit <= 0 THEN 0 ELSE (deficit * rp) \div ra

\* calculate_retry_after, in milliseconds.
RetryAfter(deficit, ra, rp) ==
  IF deficit <= 0 THEN 0 ELSE (deficit * rp) \div ra + 1

\* Mutant: the wait is computed for the whole request, not for what is missing.
TryConsumeWaitsForAll(st, requested, now) ==
  LET r    == Refill(st, now)
      need == requested * Milli
      ok   == r.tk >= need
  IN  [success |-> ok, tk |-> IF ok THEN r.tk - need ELSE r.tk, rf |-> r.rf,
       available |-> r.tk \div Milli,
       retryAfter |-> IF ok THEN 0 ELSE RetryAfter(need, st.ra, st.rp)]

\* try_consume: refill, then take the whole request or nothing.
TryConsume(st, requested, now) ==
  LET r    == Refill(st, now)
      need == requested * Milli
      ok   == r.tk >= need
  IN  [success    |-> ok,
       tk         |-> IF ok THEN r.tk - need ELSE r.tk,
       rf         |-> r.rf,
       available  |-> r.tk \div Milli,
       retryAfter |-> IF ok THEN 0 ELSE RetryAfter(need - r.tk, st.ra, st.rp)]

\* force_consume: refill, then take (or give back) without any check.
ForceConsume(st, amount, now) ==
  LET r == Refill(st, now) IN [tk |-> r.tk - amount * Milli, rf |-> r.rf]

\* calculate_available and calculate_time_until_available.
Available(st, now) == Refill(st, now).tk \div Milli

TimeUntilAvailable(st, needed, now) ==
  RetryAfter(needed * Milli - Refill(st, now).tk, st.ra, st.rp)

\* would_refill_satisfy: limits asked for nothing do not take part.
WouldRefillSatisfy(bs, consume, now) ==
  \A l \in DOMAIN bs : consume[l] # 0 => TryConsume(bs[l], consume[l], now).success
==============================================================================
