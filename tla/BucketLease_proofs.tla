-------------------------- MODULE BucketLease_proofs --------------------------
(***************************************************************************)
(* Proofs about the shared bucket item, for every set of clients and       *)
(* limits, every rate, capacity, request and adjustment, and any number of *)
(* acquires, deletions, crashes and failed calls:                          *)
(*                                                                         *)
(*   - the bucket arithmetic, for every balance, rate and time;            *)
(*   - the types;                                                          *)
(*   - safety: what the racing writers add never exceeds the rate times    *)
(*     the time, and none of them but an adjustment takes the item below   *)
(*     zero.  Those properties say nothing of the requests computed but    *)
(*     not yet written, so they are not inductive; Inv adds what each of   *)
(*     those requests carries;                                             *)
(*   - the ledger: under the mapping Account every step is one of the      *)
(*     ledger's, or leaves it alone;                                       *)
(*   - the counters: what leases consumed is counted once, and no refill   *)
(*     leads past the ceiling;                                             *)
(*   - the entry that one lease refills and consumes from in memory        *)
(*     (LocalBucket), by the same facts of arithmetic.                     *)
(***************************************************************************)
EXTENDS BucketLease, LocalBucket, Sums

-------------------------------------------------------------------------------
(* The bucket arithmetic *)

\* A bucket state as bucket.py gets it: any balance, a positive rate.
BucketStates == [tk : Int, rf : Int, cp : Int, ra : Nat \ {0}, rp : Nat \ {0}]

Positive(n) == IF n > 0 THEN n ELSE 0

(* Integer division rounds down, by less than one (Python's // on a          *)
(* non-negative numerator).                                                  *)
LEMMA DivRounds ==
  ASSUME NEW n \in Nat, NEW d \in Nat \ {0}
  PROVE  /\ n \div d \in Nat
         /\ (n \div d) * d <= n
         /\ n < (n \div d) * d + d
  BY Z3

(* Order is kept by multiplying with a natural number (used wherever two     *)
(* rates are compared across their common denominator).                      *)
LEMMA TimesMonotone ==
  ASSUME NEW a \in Int, NEW b \in Int, NEW k \in Nat, a <= b
  PROVE  a * k <= b * k
  BY Z3

(* A common positive factor cancels from a strict comparison.                *)
LEMMA TimesStrict ==
  ASSUME NEW a \in Int, NEW b \in Int, NEW k \in Nat \ {0}, a * k < b * k
  PROVE  a < b
  BY Z3

(* What accrues over a time is at most the rate times that time.             *)
LEMMA AccruedBound ==
  ASSUME NEW e \in Nat, NEW rate \in Nat \ {0}, NEW rp \in Nat \ {0}
  PROVE  /\ Accrued(e, rate, rp) \in Nat
         /\ Accrued(e, rate, rp) * rp <= e * rate
         /\ e * rate < Accrued(e, rate, rp) * rp + rp
<1>1. e * rate \in Nat
  BY Z3
<1> QED
  BY <1>1, DivRounds DEF Accrued

(* refill_bucket never credits more than the rate times the time since rf,   *)
(* nothing at all to a clock that is behind rf, and returns integers.        *)
LEMMA RefillBound ==
  ASSUME NEW st \in BucketStates, NEW now \in Int
  PROVE  /\ Refill(st, now).tk \in Int
         /\ (Refill(st, now).tk - st.tk) * st.rp <= Positive(now - st.rf) * st.ra
<1> DEFINE e == now - st.rf
           a == Accrued(e, st.ra, st.rp)
<1>0. st.tk \in Int /\ st.rf \in Int /\ st.cp \in Int /\ st.ra \in Nat \ {0} /\ st.rp \in Nat \ {0}
  BY DEF BucketStates
<1>1. CASE e <= 0
  <2>1. Refill(st, now).tk = st.tk
    BY <1>1 DEF Refill
  <2>2. Positive(now - st.rf) = 0
    BY <1>0, <1>1 DEF Positive
  <2> QED
    BY <1>0, <2>1, <2>2
<1>2. CASE e > 0
  <2>0. e \in Nat
    BY <1>0, <1>2
  <2>1. a \in Nat /\ a * st.rp <= e * st.ra
    <3> HIDE DEF e
    <3> QED
      BY <1>0, <2>0, AccruedBound
  <2>2. Refill(st, now).tk \in Int /\ Refill(st, now).tk - st.tk <= a
    BY <1>0, <2>1 DEF Refill, Lesser
  <2>3. (Refill(st, now).tk - st.tk) * st.rp <= a * st.rp
    BY <1>0, <2>1, <2>2, TimesMonotone
  <2>4. Positive(now - st.rf) = e
    BY <1>0, <1>2 DEF Positive
  <2>5. e * st.ra \in Int /\ a * st.rp \in Int /\ (Refill(st, now).tk - st.tk) * st.rp \in Int
    BY <1>0, <2>1, <2>2
  <2> HIDE DEF a, e
  <2> QED
    BY <2>1, <2>2, <2>3, <2>4, <2>5
<1> QED
  BY <1>0, <1>1, <1>2

(* The arithmetic of calculate_retry_after: the time it gives for a deficit  *)
(* makes at least that deficit accrue, whatever time had elapsed before.     *)
LEMMA WaitAccrues ==
  ASSUME NEW e \in Nat, NEW d \in Nat \ {0}, NEW rate \in Nat \ {0}, NEW rp \in Nat \ {0}
  PROVE  Accrued(e, rate, rp) + d <= Accrued(e + RetryAfter(d, rate, rp), rate, rp)
<1> DEFINE q  == (d * rp) \div rate
           a  == Accrued(e, rate, rp)
           e2 == e + q + 1
           a2 == Accrued(e2, rate, rp)
<1>1. d * rp \in Nat
  BY Z3
<1>2. q \in Nat /\ d * rp < q * rate + rate
  BY <1>1, DivRounds
<1>3. RetryAfter(d, rate, rp) = q + 1
  BY DEF RetryAfter
<1>4. a \in Nat /\ a * rp <= e * rate
  BY AccruedBound
<1>5. e2 \in Nat
  BY <1>2
<1>6. a2 \in Nat /\ e2 * rate < a2 * rp + rp
  <2> HIDE DEF e2
  <2> QED
    BY <1>5, AccruedBound
<1>7. e2 * rate = e * rate + (q * rate + rate)
  <2> HIDE DEF q
  <2> QED
    BY <1>2, Z3
<1>8. (a + d) * rp = a * rp + d * rp /\ (a2 + 1) * rp = a2 * rp + rp
  <2> HIDE DEF a, a2
  <2> QED
    BY <1>4, <1>6, Z3
<1> HIDE DEF q, a, e2, a2
<1>9. (a + d) * rp < (a2 + 1) * rp
  <2>1. /\ a * rp \in Int /\ e * rate \in Int /\ d * rp \in Int /\ q * rate \in Int
        /\ a2 * rp \in Int /\ e2 * rate \in Int
    BY <1>2, <1>4, <1>5, <1>6
  <2> QED
    BY <1>2, <1>4, <1>6, <1>7, <1>8, <2>1
<1>10. a + d < a2 + 1
  <2>1. a + d \in Int /\ a2 + 1 \in Int
    BY <1>4, <1>6
  <2> QED
    BY <1>9, <2>1, TimesStrict
<1>11. e + RetryAfter(d, rate, rp) = e2
  BY <1>2, <1>3 DEF e2
<1> QED
  BY <1>4, <1>6, <1>10, <1>11 DEF a, a2

(* A retry that comes earlier than the time calculate_retry_after gives, by  *)
(* more than its rounding, finds less than the deficit.                      *)
LEMMA EarlierAccruesLess ==
  ASSUME NEW e \in Nat, NEW d \in Nat \ {0}, NEW rate \in Nat \ {0}, NEW rp \in Nat \ {0},
         NEW f \in Nat, f = RetryAfter(d, rate, rp) - 2 - (rp + rate - 1) \div rate
  PROVE  Accrued(e + f, rate, rp) < Accrued(e, rate, rp) + d
<1> DEFINE q  == (d * rp) \div rate
           c  == (rp + rate - 1) \div rate
           a  == Accrued(e, rate, rp)
           a2 == Accrued(e + f, rate, rp)
<1>1. d * rp \in Nat /\ rp + rate - 1 \in Nat
  BY Z3
<1>2. q \in Nat /\ q * rate <= d * rp
  BY <1>1, DivRounds
<1>3. c \in Nat /\ rp + rate - 1 < c * rate + rate
  BY <1>1, DivRounds
<1>4. a \in Nat /\ e * rate < a * rp + rp
  BY AccruedBound
<1>5. a2 \in Nat /\ a2 * rp <= (e + f) * rate
  <2>1. e + f \in Nat
    OBVIOUS
  <2> QED
    BY <2>1, AccruedBound
<1>6. f = q - 1 - c
  <2>1. RetryAfter(d, rate, rp) = q + 1
    BY DEF RetryAfter
  <2>2. f = (q + 1) - 2 - c
    BY <2>1
  <2> HIDE DEF q, c
  <2> QED
    BY <1>2, <1>3, <2>2
<1> HIDE DEF q, c, a, a2
<1>7. /\ (e + f) * rate = e * rate + q * rate - rate - c * rate
      /\ (a + d) * rp = a * rp + d * rp
  BY <1>2, <1>3, <1>4, <1>6, Z3
<1>8. a2 * rp < (a + d) * rp
  <2>1. /\ a * rp \in Int /\ e * rate \in Int /\ d * rp \in Int /\ q * rate \in Int
        /\ a2 * rp \in Int /\ (e + f) * rate \in Int /\ c * rate \in Int
    BY <1>2, <1>3, <1>4, <1>5
  <2> QED
    BY <1>2, <1>3, <1>4, <1>5, <1>7, <2>1
<1> QED
  <2>1. a2 \in Int /\ a + d \in Int
    BY <1>4, <1>5
  <2>2. a2 < a + d
    BY <1>8, <2>1, TimesStrict
  <2> QED
    BY <2>2 DEF a, a2

(* A request that fits the bucket and is rejected found all that had accrued *)
(* there: the ceiling took nothing.                                          *)
LEMMA RejectedBalance ==
  ASSUME NEW st \in BucketStates, NEW now \in Int, NEW n \in Nat,
         st.rf <= now, n * Milli <= st.cp,
         ~TryConsume(st, n, now).success
  PROVE  LET old == st.tk + Accrued(now - st.rf, st.ra, st.rp)
             d   == n * Milli - old
         IN  /\ Refill(st, now).tk = old
             /\ d \in Nat \ {0}
             /\ TryConsume(st, n, now).retryAfter = RetryAfter(d, st.ra, st.rp)
<1> DEFINE need == n * Milli
           old  == Refill(st, now).tk
           e    == now - st.rf
           a    == Accrued(e, st.ra, st.rp)
<1>0. st.tk \in Int /\ st.rf \in Int /\ st.cp \in Int /\ st.ra \in Nat \ {0} /\ st.rp \in Nat \ {0}
  BY DEF BucketStates
<1>1. need \in Nat
  BY MilliAssumption, Z3
<1>2. old \in Int
  BY RefillBound
<1>3. old < need
  <2>1. ~(old >= need)
    BY DEF TryConsume
  <2> HIDE DEF old, need
  <2> QED
    BY <1>1, <1>2, <2>1
<1>4. e \in Nat
  BY <1>0
<1>5. a \in Nat
  <2> HIDE DEF e
  <2> QED
    BY <1>0, <1>4, AccruedBound
<1>6. old = st.tk + a
  <2>1. CASE e = 0
    <3>1. Accrued(0, st.ra, st.rp) = 0
      BY <1>0 DEF Accrued
    <3> QED
      BY <1>0, <2>1, <3>1 DEF Refill
  <2>2. CASE e > 0 /\ a = 0
    BY <1>0, <2>2 DEF Refill
  <2>3. CASE e > 0 /\ a # 0
    <3>1. old = Lesser(st.cp, st.tk + a)
      BY <1>0, <2>3 DEF Refill
    <3>2. need <= st.cp
      OBVIOUS
    <3> HIDE DEF old, need, a
    <3> QED
      BY <1>0, <1>1, <1>2, <1>3, <1>5, <3>1, <3>2 DEF Lesser
  <2> QED
    BY <1>4, <2>1, <2>2, <2>3
<1>7. need - old \in Nat \ {0}
  <2> HIDE DEF old, need
  <2> QED
    BY <1>1, <1>2, <1>3
<1>8. TryConsume(st, n, now).retryAfter = RetryAfter(need - old, st.ra, st.rp)
  <2>1. ~(old >= need)
    <3> HIDE DEF old, need
    <3> QED
      BY <1>1, <1>2, <1>3
  <2> QED
    BY <2>1 DEF TryConsume
<1> QED
  BY <1>6, <1>7, <1>8

(* The promise of calculate_retry_after: if a request that fits the bucket   *)
(* is rejected, by a clock that is not behind rf, it is accepted on the same *)
(* bucket once retry_after has passed.                                       *)
THEOREM RetryAfterIsEnough ==
  ASSUME NEW st \in BucketStates, NEW now \in Int, NEW n \in Nat,
         st.rf <= now, n * Milli <= st.cp,
         ~TryConsume(st, n, now).success
  PROVE  TryConsume(st, n, now + TryConsume(st, n, now).retryAfter).success
<1> DEFINE need == n * Milli
           e    == now - st.rf
           a    == Accrued(e, st.ra, st.rp)
           d    == need - (st.tk + a)
           w    == RetryAfter(d, st.ra, st.rp)
           a2   == Accrued(e + w, st.ra, st.rp)
<1>0. st.tk \in Int /\ st.rf \in Int /\ st.cp \in Int /\ st.ra \in Nat \ {0} /\ st.rp \in Nat \ {0}
  BY DEF BucketStates
<1>1. need \in Nat /\ need <= st.cp
  BY MilliAssumption, Z3
<1>2. d \in Nat \ {0} /\ TryConsume(st, n, now).retryAfter = w
  BY RejectedBalance
<1>3. e \in Nat
  BY <1>0
<1>4. a \in Nat
  <2> HIDE DEF e
  <2> QED
    BY <1>0, <1>3, AccruedBound
<1>5. w \in Nat \ {0}
  <2> HIDE DEF d
  <2>1. d * st.rp \in Nat
    BY <1>0, <1>2, Z3
  <2>2. (d * st.rp) \div st.ra \in Nat
    BY <1>0, <2>1, DivRounds
  <2> QED
    BY <1>2, <2>2 DEF RetryAfter
<1>6. a + d <= a2
  <2> HIDE DEF d, e
  <2> QED
    BY <1>0, <1>2, <1>3, WaitAccrues
<1>7. e + w \in Nat /\ (now + w) - st.rf = e + w /\ e + w > 0
  <2> HIDE DEF w
  <2> QED
    BY <1>0, <1>3, <1>5
<1>8. a2 \in Nat
  <2> HIDE DEF e, w
  <2> QED
    BY <1>0, <1>7, AccruedBound
<1>9. need <= st.tk + a2 /\ a2 # 0
  <2>1. d = need - (st.tk + a)
    OBVIOUS
  <2> HIDE DEF a, d, a2, need
  <2> QED
    BY <1>0, <1>1, <1>2, <1>4, <1>6, <1>8, <2>1
<1>10. Refill(st, now + w).tk = Lesser(st.cp, st.tk + a2)
  <2> HIDE DEF w, e
  <2> QED
    BY <1>0, <1>7, <1>9 DEF Refill
<1>11. Refill(st, now + w).tk >= need
  <2> HIDE DEF need, a2, w
  <2> QED
    BY <1>0, <1>1, <1>8, <1>9, <1>10 DEF Lesser
<1> QED
  <2>1. TryConsume(st, n, now + w).success = (Refill(st, now + w).tk >= need)
    BY DEF TryConsume
  <2> QED
    BY <1>2, <1>11, <2>1

(* retry_after does not ask for more than it must: a request retried earlier *)
(* by more than the rounding, one millisecond and the time of one milli-unit *)
(* rounded up, is rejected again.                                            *)
THEOREM RetryAfterIsNotLate ==
  ASSUME NEW st \in BucketStates, NEW now \in Int, NEW n \in Nat,
         st.rf <= now, n * Milli <= st.cp,
         ~TryConsume(st, n, now).success,
         NEW f \in Nat \ {0},
         f = TryConsume(st, n, now).retryAfter - 2 - (st.rp + st.ra - 1) \div st.ra
  PROVE  ~TryConsume(st, n, now + f).success
<1> DEFINE need == n * Milli
           e    == now - st.rf
           a    == Accrued(e, st.ra, st.rp)
           d    == need - (st.tk + a)
           a2   == Accrued(e + f, st.ra, st.rp)
<1>0. st.tk \in Int /\ st.rf \in Int /\ st.cp \in Int /\ st.ra \in Nat \ {0} /\ st.rp \in Nat \ {0}
  BY DEF BucketStates
<1>1. need \in Nat
  BY MilliAssumption, Z3
<1>2. d \in Nat \ {0} /\ TryConsume(st, n, now).retryAfter = RetryAfter(d, st.ra, st.rp)
  BY RejectedBalance
<1>3. e \in Nat /\ e + f \in Nat /\ (now + f) - st.rf = e + f /\ e + f > 0
  BY <1>0
<1>4. a \in Nat /\ a2 \in Nat
  <2> HIDE DEF e
  <2> QED
    BY <1>0, <1>3, AccruedBound
<1>5. a2 < a + d
  <2> HIDE DEF d, e
  <2> QED
    BY <1>0, <1>2, <1>3, EarlierAccruesLess
<1>6. st.tk < need /\ st.tk + a2 < need
  <2>1. d = need - (st.tk + a)
    OBVIOUS
  <2> HIDE DEF a, d, a2, need
  <2> QED
    BY <1>0, <1>1, <1>2, <1>4, <1>5, <2>1
<1>7. Refill(st, now + f).tk \in {st.tk, Lesser(st.cp, st.tk + a2)}
  <2> HIDE DEF e
  <2> QED
    BY <1>0, <1>3 DEF Refill
<1>8. Refill(st, now + f).tk < need
  <2> HIDE DEF need, a2
  <2> QED
    BY <1>0, <1>1, <1>4, <1>6, <1>7 DEF Lesser
<1> QED
  <2>1. TryConsume(st, n, now + f).success = (Refill(st, now + f).tk >= need)
    BY DEF TryConsume
  <2>2. ~(Refill(st, now + f).tk >= need)
    <3>1. Refill(st, now + f).tk \in Int
      BY RefillBound
    <3> HIDE DEF need
    <3> QED
      BY <1>1, <1>8, <3>1
  <2> QED
    BY <2>1, <2>2

(* What rounding leaves of one time accrues with the next: the time used for *)
(* the units that a first refill adds, taken off the whole time, costs none  *)
(* of the units the whole time is good for.                                  *)
LEMMA RemainderAccrues ==
  ASSUME NEW e \in Nat, NEW e2 \in Nat, e <= e2, NEW rate \in Nat \ {0}, NEW rp \in Nat \ {0}
  PROVE  LET a == Accrued(e, rate, rp)
             u == (a * rp) \div rate
         IN  /\ a \in Nat /\ u \in Nat /\ u <= e
             /\ a <= Accrued(e2, rate, rp)
             /\ Accrued(e2, rate, rp) <= a + Accrued(e2 - u, rate, rp)
<1> DEFINE a  == Accrued(e, rate, rp)
           u  == (a * rp) \div rate
           a2 == Accrued(e2, rate, rp)
           a3 == Accrued(e2 - u, rate, rp)
<1>1. a \in Nat /\ a * rp <= e * rate
  BY AccruedBound
<1>2. a * rp \in Nat
  <2> HIDE DEF a
  <2> QED
    BY <1>1, Z3
<1>3. u \in Nat /\ u * rate <= a * rp
  <2> HIDE DEF a
  <2> QED
    BY <1>2, DivRounds
<1> HIDE DEF a, u
<1>4. u <= e
  <2>1. u * rate < (e + 1) * rate
    BY <1>1, <1>2, <1>3, Z3
  <2>2. u < e + 1
    BY <1>3, <2>1, TimesStrict
  <2> QED
    BY <1>3, <2>2
<1>5. e2 - u \in Nat
  BY <1>3, <1>4
<1>6. a2 \in Nat /\ a2 * rp <= e2 * rate /\ e2 * rate < a2 * rp + rp
  BY AccruedBound
<1>7. a3 \in Nat /\ (e2 - u) * rate < a3 * rp + rp
  BY <1>5, AccruedBound
<1> HIDE DEF a2, a3
<1>8. a <= a2
  <2>1. e * rate <= e2 * rate
    BY TimesMonotone
  <2>2. (a2 + 1) * rp = a2 * rp + rp
    BY <1>6, Z3
  <2>3. a * rp < (a2 + 1) * rp
    BY <1>1, <1>2, <1>6, <2>1, <2>2, Z3
  <2>4. a < a2 + 1
    BY <1>1, <1>6, <2>3, TimesStrict
  <2> QED
    BY <1>1, <1>6, <2>4
<1>9. a2 <= a + a3
  <2>1. (e2 - u) * rate = e2 * rate - u * rate
    BY <1>3, Z3
  <2>2. (a + a3 + 1) * rp = a * rp + a3 * rp + rp
    BY <1>1, <1>7, Z3
  <2>3. /\ a2 * rp \in Int /\ e2 * rate \in Int /\ u * rate \in Int /\ a3 * rp \in Int
        /\ (e2 - u) * rate \in Int
    BY <1>3, <1>5, <1>6, <1>7
  <2>4. a2 * rp < (a + a3 + 1) * rp
    BY <1>2, <1>3, <1>6, <1>7, <2>1, <2>2, <2>3
  <2>5. a2 < a + a3 + 1
    BY <1>1, <1>6, <1>7, <2>4, TimesStrict
  <2> QED
    BY <1>1, <1>6, <1>7, <2>5
<1> QED
  BY <1>1, <1>3, <1>4, <1>8, <1>9 DEF a, u, a2, a3

(* refill_bucket's bookkeeping of the time used: an entry that is refilled   *)
(* and consumed from on the way never has less, at any later time, than if   *)
(* it had been left alone and the amount taken then.  By repetition, however *)
(* often a lease consumes, rounding costs its caller no unit.                *)
THEOREM ConsumingLosesNothing ==
  ASSUME NEW st \in BucketStates, NEW s \in Int, NEW t \in Int, s <= t, NEW k \in Nat
  PROVE  LET r == ForceConsume(st, k, s)
         IN  Refill(st, t).tk - k * Milli
               <= Refill([st EXCEPT !.tk = r.tk, !.rf = r.rf], t).tk
<1> DEFINE r    == ForceConsume(st, k, s)
           st2  == [st EXCEPT !.tk = r.tk, !.rf = r.rf]
           need == k * Milli
           e    == s - st.rf
           e2   == t - st.rf
           a    == Accrued(e, st.ra, st.rp)
           u    == (a * st.rp) \div st.ra
           a2   == Accrued(e2, st.ra, st.rp)
           a3   == Accrued(e2 - u, st.ra, st.rp)
<1>0. st.tk \in Int /\ st.rf \in Int /\ st.cp \in Int /\ st.ra \in Nat \ {0} /\ st.rp \in Nat \ {0}
  BY DEF BucketStates
<1>1. need \in Nat
  BY MilliAssumption, Z3
<1>2. st2.tk = Refill(st, s).tk - need /\ st2.rf = Refill(st, s).rf
      /\ st2.cp = st.cp /\ st2.ra = st.ra /\ st2.rp = st.rp
  BY DEF ForceConsume, BucketStates
<1>3. e \in Int /\ e2 \in Int /\ e <= e2
  BY <1>0
<1> HIDE DEF st2, r, need
\* The first refill changes nothing.
<1>4. CASE e <= 0 \/ a = 0
  <2>1. st2.tk = st.tk - need /\ st2.rf = st.rf
    BY <1>2, <1>4 DEF Refill
  <2>2. CASE e2 <= 0 \/ a2 = 0
    <3>1. Refill(st, t).tk = st.tk /\ Refill(st2, t).tk = st.tk - need
      BY <1>2, <2>1, <2>2 DEF Refill
    <3> QED
      BY <1>0, <1>1, <3>1 DEF st2, r, need
  <2>3. CASE ~(e2 <= 0 \/ a2 = 0)
    <3>1. /\ Refill(st, t).tk = Lesser(st.cp, st.tk + a2)
          /\ Refill(st2, t).tk = Lesser(st.cp, (st.tk - need) + a2)
      BY <1>2, <2>1, <2>3 DEF Refill
    <3>2. a2 \in Nat
      <4>1. e2 \in Nat
        BY <1>3, <2>3
      <4> HIDE DEF e2
      <4> QED
        BY <1>0, <4>1, AccruedBound
    <3>3. Refill(st, t).tk - need <= Refill(st2, t).tk
      <4> HIDE DEF a2
      <4> QED
        BY <1>0, <1>1, <3>1, <3>2 DEF Lesser
    <3> QED
      BY <3>3 DEF st2, r, need
  <2> QED
    BY <2>2, <2>3
\* The first refill adds a units and uses u milliseconds.
<1>5. CASE e > 0 /\ a # 0
  <2>1. e \in Nat /\ e2 \in Nat
    BY <1>3, <1>5
  <2>2. /\ a \in Nat /\ u \in Nat /\ u <= e
        /\ a <= a2 /\ a2 <= a + a3
    <3> HIDE DEF e, e2
    <3> QED
      BY <1>0, <1>3, <2>1, RemainderAccrues
  <2>3. a2 \in Nat /\ a3 \in Nat
    <3>1. e2 - u \in Nat
      <4> HIDE DEF e, e2, u
      <4> QED
        BY <1>3, <2>1, <2>2
    <3> HIDE DEF e2, u
    <3> QED
      BY <1>0, <2>1, <3>1, AccruedBound
  <2>4. st2.tk = Lesser(st.cp, st.tk + a) - need /\ st2.rf = st.rf + u
    <3>1. ~(e <= 0 \/ a = 0)
      BY <1>3, <1>5
    <3> QED
      BY <1>2, <3>1 DEF Refill
  <2>5. t - st2.rf = e2 - u
    <3> HIDE DEF u
    <3> QED
      BY <1>0, <2>2, <2>4
  <2>6. Refill(st, t).tk = Lesser(st.cp, st.tk + a2)
    <3>1. ~(e2 <= 0 \/ a2 = 0)
      <4> HIDE DEF e, e2, a, a2
      <4> QED
        BY <1>3, <1>5, <2>2, <2>3
    <3> QED
      BY <3>1 DEF Refill
  <2>7. CASE e2 - u <= 0 \/ a3 = 0
    <3>1. Refill(st2, t).tk = st2.tk
      <4> HIDE DEF e2, u
      <4> QED
        BY <1>2, <2>5, <2>7 DEF Refill
    <3>2. a3 = 0
      <4>1. Accrued(0, st.ra, st.rp) = 0
        BY <1>0 DEF Accrued
      <4>2. e2 - u \in Nat
        <5> HIDE DEF e, e2, u
        <5> QED
          BY <1>3, <2>1, <2>2
      <4>3. CASE e2 - u = 0
        <5> HIDE DEF e2, u
        <5> QED
          BY <4>1, <4>3
      <4> HIDE DEF e2, u
      <4> QED
        BY <2>7, <4>2, <4>3
    <3>3. Refill(st, t).tk - need <= Refill(st2, t).tk
      <4> HIDE DEF a, a2, a3
      <4> QED
        BY <1>0, <1>1, <2>2, <2>3, <2>4, <2>6, <3>1, <3>2 DEF Lesser
    <3> QED
      BY <3>3 DEF st2, r, need
  <2>8. CASE ~(e2 - u <= 0 \/ a3 = 0)
    <3>1. Refill(st2, t).tk = Lesser(st.cp, st2.tk + a3)
      <4> HIDE DEF e2, u
      <4> QED
        BY <1>2, <2>5, <2>8 DEF Refill
    <3>2. Refill(st, t).tk - need <= Refill(st2, t).tk
      <4> HIDE DEF a, a2, a3
      <4> QED
        BY <1>0, <1>1, <2>2, <2>3, <2>4, <2>6, <3>1 DEF Lesser
    <3> QED
      BY <3>2 DEF st2, r, need
  <2> QED
    BY <2>7, <2>8
<1> QED
  BY <1>3, <1>4, <1>5

-------------------------------------------------------------------------------
(* The parameters, and what is planned with them *)

(* The milli-unit parameters of a limit are positive.                        *)
LEMMA LimitTypes ==
  ASSUME NEW l \in Limits
  PROVE  /\ cap(l) \in Nat \ {0} /\ ra(l) \in Nat \ {0} /\ Period[l] \in Nat \ {0}
         /\ Capacity[l] \in Nat \ {0}
<1>1. Capacity[l] \in Nat \ {0} /\ RefillAmount[l] \in Nat \ {0} /\ Period[l] \in Nat \ {0}
  BY LimitAssumption
<1>2. Milli \in Nat \ {0}
  BY MilliAssumption
<1>3. \A n \in Nat \ {0} : n * Milli \in Nat \ {0}
  BY <1>2, Z3
<1> QED
  BY <1>1, <1>3 DEF cap, ra

(* Vectors over the limits are closed under the helpers.                     *)
LEMMA VectorTypes ==
  /\ Zero \in Amounts
  /\ \A f \in Amounts : f \in Vectors /\ ToMilli(f) \in Amounts
  /\ \A f \in Vectors : /\ Above(f) \in Amounts /\ Below(f) \in Amounts
                        /\ ToMilli(f) \in Vectors
  /\ \A f, g \in Vectors : Plus(f, g) \in Vectors /\ Minus(f, g) \in Vectors
  /\ \A f, g \in Amounts : Plus(f, g) \in Amounts
<1>1. \A n \in Nat : n * Milli \in Nat
  BY MilliAssumption, Z3
<1>2. \A n \in Int : n * Milli \in Int
  BY MilliAssumption, Z3
<1> QED
  BY <1>1, <1>2 DEF Zero, ToMilli, Above, Below, Plus, Minus, Vectors, Amounts

(* What the helpers build has the type of what it is stored in.              *)
LEMMA RecordTypes ==
  /\ Absent \in Readables /\ Absent \in Items /\ NoPlan \in Plans /\ NoLease \in Leases /\ NoImage \in Refills
  /\ \A at \in Nat, m \in Amounts : Live(at, m) \in Items
  /\ \A b \in Items, m \in Vectors : Take(b, m) \in Items /\ AddTo(b, m) \in Items
<1>1. Zero \in Amounts /\ Zero \in Vectors
  BY VectorTypes
<1>2. Absent \in Readables /\ Absent \in Items /\ NoPlan \in Plans /\ NoLease \in Leases /\ NoImage \in Refills
  BY <1>1 DEF Absent, NoPlan, NoLease, NoImage, Items, Readables, Plans, Leases, Refills
<1>3. ASSUME NEW at \in Nat, NEW m \in Amounts
      PROVE  Live(at, m) \in Items
  <2>1. [l \in Limits |-> cap(l) - m[l]] \in Vectors /\ m \in Vectors
    BY LimitTypes DEF Vectors, Amounts
  <2> QED
    BY <2>1 DEF Live, Items
<1>4. ASSUME NEW b \in Items, NEW m \in Vectors
      PROVE  Take(b, m) \in Items
  <2>1. Minus(b.tk, m) \in Vectors /\ Plus(b.tc, m) \in Vectors
    BY VectorTypes DEF Items
  <2> QED
    BY <2>1 DEF Take, Items
<1>5. ASSUME NEW b \in Items, NEW m \in Vectors
      PROVE  AddTo(b, m) \in Items
  <2>1. [b EXCEPT !.status = "ghost", !.names = @ \cup Asked(m)] \in Items
    BY DEF Items, Asked
  <2> QED
    BY <1>4, <2>1 DEF AddTo
<1> QED
  BY <1>2, <1>3, <1>4, <1>5

(* What ends acquire(), and what opens a lease, keep the clients' types.     *)
LEMMA ForgetType ==
  ASSUME ClientsTypeOK, NEW c \in Clients, Forget(c)
  PROVE  ClientsTypeOK'
BY VectorTypes, RecordTypes DEF ClientsTypeOK, Forget, Goto, PCs

(* Opening a lease keeps the clients' types.                                 *)
LEMMA GrantType ==
  ASSUME ClientsTypeOK, NEW c \in Clients, NEW e \in SUBSET Limits, Grant(c, e)
  PROVE  ClientsTypeOK'
<1>1. ToMilli(req[c]) \in Amounts /\ ToMilli(req[c]) \in Vectors
  BY VectorTypes DEF ClientsTypeOK
<1>2. [initial |-> ToMilli(req[c]), want |-> ToMilli(req[c]), entries |-> e] \in Leases
  BY <1>1 DEF Leases
<1> QED
  BY <1>2, VectorTypes, RecordTypes DEF ClientsTypeOK, Grant, Goto, PCs

(* A host's clock reads a time that has been, at most the skew ago.          *)
LEMMA ReadingsType ==
  ASSUME TypeOK
  PROVE  /\ clock \in Nat /\ Skew \in Nat
         /\ \A at \in Readings : at \in Nat /\ at <= clock /\ clock <= at + Skew
BY InputAssumption DEF TypeOK, BucketTypeOK, Readings

(* refill_bucket on a bucket's limit: an integer, within the rate.           *)
LEMMA OfferBound ==
  ASSUME NEW b \in Items, NEW l \in Limits, NEW now \in Int
  PROVE  /\ StateOf(b, l) \in BucketStates
         /\ Refill(StateOf(b, l), now).tk \in Int
         /\ (Refill(StateOf(b, l), now).tk - b.tk[l]) * Period[l] <= Positive(now - b.rf) * ra(l)
<1>1. b.rf \in Int /\ b.tk[l] \in Int
  BY DEF Items, Vectors
<1>2. StateOf(b, l) \in BucketStates
  BY <1>1, LimitTypes DEF StateOf, BucketStates
<1>3. /\ StateOf(b, l).tk = b.tk[l] /\ StateOf(b, l).rf = b.rf
      /\ StateOf(b, l).ra = ra(l) /\ StateOf(b, l).rp = Period[l]
  BY DEF StateOf
<1> QED
  BY <1>2, <1>3, RefillBound

(* What the slow path plans to add is exactly what refill_bucket adds.       *)
LEMMA PlannedRefill ==
  ASSUME TypeOK, NEW c \in Clients, NEW l \in Limits, NEW now \in Int,
         Results(c, now)[l].success
  PROVE  /\ Results(c, now)[l].tk - seen[c].tk[l] + req[c][l] * Milli
              = Refill(StateOf(seen[c], l), now).tk - seen[c].tk[l]
         /\ Results(c, now)[l].tk - seen[c].tk[l] + req[c][l] * Milli \in Int
<1>1. Results(c, now)[l] = TryConsume(StateOf(seen[c], l), req[c][l], now)
  BY DEF Results, States
<1>2. seen[c] \in Items /\ req[c][l] \in Nat
  BY DEF TypeOK, ClientsTypeOK, Amounts, Readables
<1>3. seen[c].tk[l] \in Int
  BY <1>2 DEF Items, Vectors
<1>4. Refill(StateOf(seen[c], l), now).tk \in Int
  BY <1>2, OfferBound
<1>5. req[c][l] * Milli \in Int
  BY <1>2, MilliAssumption, Z3
<1>6. Results(c, now)[l].tk = Refill(StateOf(seen[c], l), now).tk - req[c][l] * Milli
  <2>1. TryConsume(StateOf(seen[c], l), req[c][l], now).success
    BY <1>1
  <2>2. Refill(StateOf(seen[c], l), now).tk >= req[c][l] * Milli
    BY <2>1 DEF TryConsume
  <2> QED
    BY <1>1, <2>2 DEF TryConsume
<1> QED
  BY <1>3, <1>4, <1>5, <1>6

(* What the aggregator would add, likewise.                                  *)
LEMMA RefillDeltaBound ==
  ASSUME TypeOK, NEW l \in Limits, NEW now \in Int
  PROVE  /\ RefillDeltas(now)[l] \in Int
         /\ RefillDeltas(now)[l] * Period[l] <= Positive(now - agg.rf) * ra(l)
<1> DEFINE s == [tk |-> agg.tk[l], rf |-> agg.rf, cp |-> cap(l), ra |-> ra(l), rp |-> Period[l]]
<1>1. agg.tk[l] \in Int /\ agg.rf \in Int
  BY DEF TypeOK, BucketTypeOK, Refills, Vectors
<1>2. s \in BucketStates
  BY <1>1, LimitTypes DEF BucketStates
<1>3. RefillDeltas(now)[l] = Refill(s, now).tk - agg.tk[l]
  BY DEF RefillDeltas
<1>4. s.tk = agg.tk[l] /\ s.rf = agg.rf /\ s.ra = ra(l) /\ s.rp = Period[l]
  OBVIOUS
<1> HIDE DEF s
<1> QED
  BY <1>1, <1>2, <1>3, <1>4, RefillBound

-------------------------------------------------------------------------------
(* Type correctness *)

(* What a lease adjusts by, and gives back, is an amount per limit.          *)
LEMMA AdjustmentType ==
  ASSUME TypeOK, NEW c \in Clients
  PROVE  /\ Adjustment(c) \in Vectors
         /\ [l \in Limits |-> -lease[c].initial[l]] \in Vectors
<1>1. lease[c].want \in Vectors /\ lease[c].initial \in Amounts
  BY DEF TypeOK, ClientsTypeOK, Leases
<1> QED
  BY <1>1 DEF Adjustment, Minus, Vectors, Amounts

(* An adjustment keeps the types of the item and of the debt.                *)
LEMMA WriteAdjustType ==
  ASSUME TypeOK, NEW m \in Vectors, WriteAdjust(m)
  PROVE  bucket' \in Items /\ debt' \in Amounts /\ returned' \in Amounts
BY VectorTypes, RecordTypes DEF TypeOK, BucketTypeOK, HistoryTypeOK, WriteAdjust

(* The request of the slow path is a plan.                                   *)
LEMMA NormalPlanType ==
  ASSUME TypeOK, NEW c \in Clients, NEW at \in Readings, NEW now \in 0..at,
         \A l \in Limits : Results(c, now)[l].success
  PROVE  NormalPlan(c, at, now) \in Plans
<1> DEFINE rfl == [l \in Limits |-> Results(c, now)[l].tk - seen[c].tk[l] + req[c][l] * Milli]
<1>1. at \in Nat /\ now \in Int
  BY ReadingsType
<1>2. rfl \in Vectors
  BY <1>1, PlannedRefill DEF Vectors
<1>3. seen[c].rf \in Nat
  BY DEF TypeOK, ClientsTypeOK, Items, Readables
<1>4. NormalPlan(c, at, now) =
        [kind |-> "normal", expected |-> seen[c].rf, at |-> at, refill |-> rfl]
  BY DEF NormalPlan
<1> HIDE DEF rfl
<1> QED
  BY <1>1, <1>2, <1>3, <1>4 DEF Plans

(* The request of the aggregator is a refill, and adds nothing negative.     *)
LEMMA RefillPlanType ==
  ASSUME TypeOK, NEW now \in Readings,
         NEW short \in SUBSET {l \in Limits : RefillDeltas(now)[l] > 0}
  PROVE  RefillPlan(now, short) \in Refills
<1> DEFINE add == [l \in Limits |-> IF l \in short THEN RefillDeltas(now)[l] ELSE 0]
<1>1. now \in Nat
  BY ReadingsType
<1>2. add \in Amounts
  BY <1>1, RefillDeltaBound DEF Amounts
<1>3. agg \in Refills
  BY DEF TypeOK, BucketTypeOK
<1>4. RefillPlan(now, short) =
        IF short = {} THEN NoImage ELSE [agg EXCEPT !.kind = "plan", !.at = now, !.add = add]
  BY DEF RefillPlan
<1> HIDE DEF add
<1> QED
  BY <1>1, <1>2, <1>3, <1>4, RecordTypes DEF Refills

(* Init and every action keep the types.                                     *)
LEMMA TypeInit == Init => TypeOK
BY InputAssumption, VectorTypes, RecordTypes
   DEF Init, TypeOK, BucketTypeOK, ClientsTypeOK, HistoryTypeOK, PCs

(* Every action, of every client, keeps the types.                           *)
LEMMA TypeStep == TypeOK /\ [Next]_vars => TypeOK'
<1> SUFFICES ASSUME TypeOK, [Next]_vars
             PROVE  TypeOK'
  OBVIOUS
<1> USE DEF TypeOK
<1>1. CASE UNCHANGED vars
  BY <1>1 DEF BucketTypeOK, ClientsTypeOK, HistoryTypeOK, vars, history
<1>2. CASE Tick
  BY <1>2, InputAssumption DEF Tick, BucketTypeOK, ClientsTypeOK, HistoryTypeOK, history
<1>3. ASSUME NEW c \in Clients, NEW m \in Requests, Acquire(c, m)
      PROVE  TypeOK'
  <2>1. m \in Amounts
    BY InputAssumption DEF Amounts
  <2>2. ClientsTypeOK'
    BY <1>3, <2>1 DEF Acquire, Goto, ClientsTypeOK, PCs
  <2> QED
    BY <1>3, <2>2 DEF Acquire, BucketTypeOK, HistoryTypeOK
<1>4. ASSUME NEW c \in Clients, SpeculateHit(c)
      PROVE  TypeOK'
  <2>1. ToMilli(req[c]) \in Vectors
    BY VectorTypes DEF ClientsTypeOK
  <2>2. bucket' \in Items
    BY <1>4, <2>1, RecordTypes DEF SpeculateHit, BucketTypeOK
  <2>3. ClientsTypeOK'
    BY <1>4, GrantType DEF SpeculateHit, Asked
  <2> QED
    BY <1>4, <2>2, <2>3 DEF SpeculateHit, BucketTypeOK, HistoryTypeOK, history
<1>5. ASSUME NEW c \in Clients, SpeculateShort(c) \/ SpeculateMiss(c)
      PROVE  TypeOK'
  <2>1. Forget(c) \/ (Goto(c, "reading") /\ UNCHANGED <<req, plan, seen, lease>>)
    BY <1>5 DEF SpeculateShort, SpeculateMiss
  <2>2. ClientsTypeOK'
    BY <2>1, ForgetType DEF ClientsTypeOK, Goto, PCs
  <2> QED
    BY <1>5, <2>2 DEF SpeculateShort, SpeculateMiss, BucketTypeOK, HistoryTypeOK, history
<1>6. ASSUME NEW c \in Clients, Read(c)
      PROVE  TypeOK'
  <2>1. seen'[c] \in Readables /\ seen' \in [Clients -> Readables]
    BY <1>6, RecordTypes DEF Read, BucketTypeOK, ClientsTypeOK, Readables
  <2> QED
    BY <1>6, <2>1 DEF Read, Goto, PCs, BucketTypeOK, ClientsTypeOK, HistoryTypeOK, history
<1>7. ASSUME NEW c \in Clients, ComputeNormal(c)
      PROVE  TypeOK'
  <2>1. CASE Forget(c)
    BY <1>7, <2>1, ForgetType DEF ComputeNormal, BucketTypeOK, HistoryTypeOK, history
  <2>2. CASE ~Forget(c)
    <3>1. PICK at \in Readings : \E now \in 0..at :
            /\ \A l \in Limits : Results(c, now)[l].success
            /\ plan' = [plan EXCEPT ![c] = NormalPlan(c, at, now)]
      BY <1>7, <2>2 DEF ComputeNormal
    <3>2. PICK now \in 0..at :
            /\ \A l \in Limits : Results(c, now)[l].success
            /\ plan' = [plan EXCEPT ![c] = NormalPlan(c, at, now)]
      BY <3>1
    <3>3. NormalPlan(c, at, now) \in Plans
      BY <3>2, NormalPlanType
    <3> QED
      BY <1>7, <2>2, <3>2, <3>3, RecordTypes
         DEF ComputeNormal, Goto, PCs, BucketTypeOK, ClientsTypeOK, HistoryTypeOK, history
  <2> QED
    BY <2>1, <2>2
<1>8. ASSUME NEW c \in Clients, ComputeCreate(c)
      PROVE  TypeOK'
  <2>1. CASE Forget(c)
    BY <1>8, <2>1, ForgetType DEF ComputeCreate, BucketTypeOK, HistoryTypeOK, history
  <2>2. CASE ~Forget(c)
    <3>1. PICK at \in Readings :
            plan' = [plan EXCEPT ![c] =
                       [kind |-> "create", expected |-> 0, at |-> at, refill |-> Zero]]
      BY <1>8, <2>2 DEF ComputeCreate
    <3>2. [kind |-> "create", expected |-> 0, at |-> at, refill |-> Zero] \in Plans
      BY ReadingsType, VectorTypes DEF Plans
    <3> QED
      BY <1>8, <2>2, <3>1, <3>2
         DEF ComputeCreate, Goto, PCs, BucketTypeOK, ClientsTypeOK, HistoryTypeOK, history
  <2> QED
    BY <2>1, <2>2
<1>9. ASSUME NEW c \in Clients, WriteCreate(c)
      PROVE  TypeOK'
  <2>1. plan[c].at \in Nat /\ ToMilli(req[c]) \in Amounts
    BY VectorTypes DEF ClientsTypeOK, Plans
  <2>2. ClientsTypeOK'
    BY <1>9, GrantType DEF WriteCreate
  <2> QED
    BY <1>9, <2>1, <2>2, RecordTypes, VectorTypes DEF WriteCreate, BucketTypeOK, HistoryTypeOK
<1>10. ASSUME NEW c \in Clients, WriteNormal(c)
       PROVE  TypeOK'
  <2>1. plan[c].at \in Nat /\ plan[c].refill \in Vectors /\ ToMilli(req[c]) \in Vectors
    BY VectorTypes DEF ClientsTypeOK, Plans
  <2>2. Take(bucket, ToMilli(req[c])) \in Items
    BY <2>1, RecordTypes DEF BucketTypeOK
  <2>3. bucket' \in Items
    <3> DEFINE b == Take(bucket, ToMilli(req[c]))
    <3>1. b \in Items
      BY <2>2
    <3>2. bucket' = [b EXCEPT !.tk = Plus(@, plan[c].refill), !.rf = plan[c].at]
      BY <1>10 DEF WriteNormal
    <3> HIDE DEF b
    <3>3. Plus(b.tk, plan[c].refill) \in Vectors
      BY <2>1, <3>1, VectorTypes DEF Items
    <3> QED
      BY <2>1, <3>1, <3>2, <3>3 DEF Items
  <2>4. ClientsTypeOK'
    BY <1>10, GrantType DEF WriteNormal
  <2>5. rewound' \in Nat
    BY <1>10, <2>1 DEF WriteNormal, HistoryTypeOK, BucketTypeOK, Items
  <2> QED
    BY <1>10, <2>3, <2>4, <2>5 DEF WriteNormal, BucketTypeOK, HistoryTypeOK
<1>11. ASSUME NEW c \in Clients, WriteFails(c) \/ BodyRaises(c)
       PROVE  TypeOK'
  BY <1>11 DEF WriteFails, BodyRaises, Goto, PCs, BucketTypeOK, ClientsTypeOK, HistoryTypeOK, history
<1>12. ASSUME NEW c \in Clients, Retry(c)
       PROVE  TypeOK'
  <2>1. ToMilli(req[c]) \in Vectors
    BY VectorTypes DEF ClientsTypeOK
  <2>2. bucket' \in Items
    BY <1>12, <2>1, RecordTypes DEF Retry, BucketTypeOK
  <2>3. ClientsTypeOK'
    BY <1>12, GrantType, ForgetType DEF Retry
  <2> QED
    BY <1>12, <2>2, <2>3 DEF Retry, BucketTypeOK, HistoryTypeOK, history
<1>13. ASSUME NEW c \in Clients, NEW d \in Deltas, Change(c, d)
       PROVE  TypeOK'
  <2>1. ToMilli(d) \in Vectors
    BY InputAssumption, VectorTypes DEF Vectors
  <2>2. Only(lease[c].entries, ToMilli(d)) \in Vectors
    BY <2>1 DEF Only, Vectors
  <2>3. Plus(lease[c].want, Only(lease[c].entries, ToMilli(d))) \in Vectors
    BY <2>2, VectorTypes DEF ClientsTypeOK, Leases
  <2>4. lease' \in [Clients -> Leases]
    BY <1>13, <2>3 DEF Change, ClientsTypeOK, Leases
  <2> QED
    BY <1>13, <2>4 DEF Change, BucketTypeOK, ClientsTypeOK, HistoryTypeOK, history
<1>14. ASSUME NEW c \in Clients, Close(c)
       PROVE  TypeOK'
  <2>1. bucket' \in Items /\ debt' \in Amounts /\ returned' \in Amounts
    BY <1>14, AdjustmentType, WriteAdjustType DEF Close
  <2>2. used' \in Vectors
    BY <1>14, VectorTypes DEF Close, ClientsTypeOK, Leases, HistoryTypeOK
  <2>3. ClientsTypeOK'
    BY <1>14, ForgetType DEF Close
  <2> QED
    BY <1>14, <2>1, <2>2, <2>3 DEF Close, BucketTypeOK, HistoryTypeOK
<1>15. ASSUME NEW c \in Clients, CloseFails(c)
       PROVE  TypeOK'
  <2>1. bucket' \in Items /\ debt' \in Amounts /\ returned' \in Amounts
    <3>1. CASE WriteAdjust(Adjustment(c))
      BY <3>1, AdjustmentType, WriteAdjustType
    <3>2. CASE UNCHANGED <<bucket, debt, returned>>
      BY <3>2 DEF BucketTypeOK, HistoryTypeOK
    <3> QED
      BY <1>15, <3>1, <3>2 DEF CloseFails
  <2> QED
    BY <1>15, <2>1 DEF CloseFails, Goto, PCs, BucketTypeOK, ClientsTypeOK, HistoryTypeOK
<1>16. ASSUME NEW c \in Clients, Rollback(c)
       PROVE  TypeOK'
  <2>1. bucket' \in Items /\ debt' \in Amounts /\ returned' \in Amounts
    BY <1>16, AdjustmentType, WriteAdjustType DEF Rollback
  <2>2. ClientsTypeOK'
    BY <1>16, ForgetType DEF Rollback
  <2> QED
    BY <1>16, <2>1, <2>2 DEF Rollback, BucketTypeOK, HistoryTypeOK
<1>17. ASSUME NEW c \in Clients, Crash(c)
       PROVE  TypeOK'
  <2>1. ClientsTypeOK'
    BY <1>17, ForgetType DEF Crash
  <2> QED
    BY <1>17, <2>1 DEF Crash, BucketTypeOK, HistoryTypeOK
<1>18. CASE Image
  <2>1. agg' \in Refills
    BY <1>18, RecordTypes DEF Image, BucketTypeOK, Refills, Items
  <2> QED
    BY <1>18, <2>1 DEF Image, BucketTypeOK, ClientsTypeOK, HistoryTypeOK, history
<1>19. CASE PlanRefill
  <2>1. PICK now \in Readings : \E short \in SUBSET {l \in Limits : RefillDeltas(now)[l] > 0} :
          agg' = RefillPlan(now, short)
    BY <1>19 DEF PlanRefill
  <2>2. PICK short \in SUBSET {l \in Limits : RefillDeltas(now)[l] > 0} :
          agg' = RefillPlan(now, short)
    BY <2>1
  <2>3. agg' \in Refills
    BY <2>2, RefillPlanType
  <2> QED
    BY <1>19, <2>3 DEF PlanRefill, BucketTypeOK, ClientsTypeOK, HistoryTypeOK, history
<1>20. CASE WriteRefill
  <2>1. agg.at \in Nat /\ agg.add \in Vectors
    BY VectorTypes DEF BucketTypeOK, Refills
  <2>2. Plus(bucket.tk, agg.add) \in Vectors
    BY <2>1, VectorTypes DEF BucketTypeOK, Items
  <2>3. bucket' \in Items
    BY <1>20, <2>1, <2>2 DEF WriteRefill, BucketTypeOK, Items
  <2>4. rewound' \in Nat
    BY <1>20, <2>1 DEF WriteRefill, HistoryTypeOK, BucketTypeOK, Items
  <2> QED
    BY <1>20, <2>3, <2>4, RecordTypes DEF WriteRefill, BucketTypeOK, ClientsTypeOK, HistoryTypeOK
<1>21. CASE Remove
  BY <1>21, RecordTypes DEF Remove, BucketTypeOK, ClientsTypeOK, HistoryTypeOK
<1> QED
  BY <1>1, <1>2, <1>3, <1>4, <1>5, <1>6, <1>7, <1>8, <1>9, <1>10, <1>11, <1>12, <1>13,
     <1>14, <1>15, <1>16, <1>17, <1>18, <1>19, <1>20, <1>21 DEF Next, ClientStep

(* The item, the clients' plans and leases, the aggregator and the history   *)
(* always have their types.                                                  *)
THEOREM TypeCorrect == Spec => []TypeOK
<1> QED
  BY TypeInit, TypeStep, PTL DEF Spec

-------------------------------------------------------------------------------
(* The inductive invariant of the item *)

\* An amount x is no more than the rate gives over e milliseconds.
Within(x, e, l) == x * Period[l] <= Positive(e) * ra(l)

\* No timestamp that is stored or remembered lies in the future.
ClockOK ==
  /\ bucket.rf <= clock
  /\ born <= clock
  /\ agg.rf <= clock
  /\ \A c \in Clients : seen[c].rf <= clock

\* A request not yet written was computed by a past clock, for the rf it
\* expects, and stays within the rate since then; what it expects is no more
\* than the skew ahead of it.
PlanOK(c) ==
  /\ pc[c] \notin {"writing", "retrying"} => plan[c].kind = "none"
  /\ plan[c].kind # "none" => plan[c].at <= clock
  /\ plan[c].kind = "create" => \A l \in Limits : req[c][l] <= Capacity[l]
  /\ plan[c].kind = "normal" =>
       /\ \A l \in Limits : Within(plan[c].refill[l], plan[c].at - plan[c].expected, l)
       /\ plan[c].expected <= plan[c].at + Skew
PlansOK == \A c \in Clients : PlanOK(c)

\* The same of the aggregator's.
RefillPlanOK ==
  agg.kind = "plan" =>
    /\ agg.at <= clock
    /\ \A l \in Limits : Within(agg.add[l], agg.at - agg.rf, l)
    /\ agg.rf <= agg.at + Skew

RewoundOK == Skew = 0 => rewound = 0

Safe == RefillWithinTime /\ DebtIsAdjusted

Inv == TypeOK /\ ClockOK /\ PlansOK /\ RefillPlanOK /\ RewoundOK /\ Safe

-------------------------------------------------------------------------------
(* Arithmetic *)

(* Two credits, each within the rate over its own time, are together within  *)
(* the rate over both.                                                       *)
LEMMA CreditsAdd ==
  ASSUME NEW g \in Int, NEW x \in Int, NEW t \in Int, NEW e \in Int,
         NEW p \in Nat, NEW r \in Nat,
         g * p <= t * r, x * p <= e * r
  PROVE  (g + x) * p <= (t + e) * r
<1>1. (g + x) * p = g * p + x * p /\ (t + e) * r = t * r + e * r
  BY Z3
<1>2. g * p \in Int /\ x * p \in Int /\ t * r \in Int /\ e * r \in Int
  BY Z3
<1> QED
  BY <1>1, <1>2

(* The types of the amounts a limit has in the item.                         *)
LEMMA BalanceTypes ==
  ASSUME TypeOK, NEW l \in Limits
  PROVE  /\ bucket.tk[l] \in Int /\ bucket.tc[l] \in Int /\ debt[l] \in Nat
         /\ bucket.rf \in Nat /\ born \in Nat /\ rewound \in Nat
         /\ Granted(l) \in Int
<1>1. bucket.tk[l] \in Int /\ bucket.tc[l] \in Int /\ debt[l] \in Nat
  BY DEF TypeOK, BucketTypeOK, HistoryTypeOK, Items, Vectors, Amounts
<1>2. bucket.rf \in Nat /\ born \in Nat /\ rewound \in Nat
  BY DEF TypeOK, BucketTypeOK, HistoryTypeOK, Items
<1> QED
  BY <1>1, <1>2, LimitTypes DEF Granted

-------------------------------------------------------------------------------
(* Timestamps *)

(* No action stores a timestamp of the future.                               *)
LEMMA ClockStep ==
  ASSUME TypeOK, ClockOK, PlansOK, RefillPlanOK, [Next]_vars
  PROVE  ClockOK'
<1>0. /\ clock \in Nat /\ bucket.rf \in Nat /\ agg.rf \in Nat /\ born \in Nat
      /\ Absent.rf = 0 /\ NoImage.rf = 0
      /\ \A c \in Clients : seen[c].rf \in Nat /\ plan[c].at \in Nat
  BY DEF TypeOK, BucketTypeOK, ClientsTypeOK, HistoryTypeOK, Items, Readables, Refills, Plans, Absent, NoImage
<1>1. CASE UNCHANGED <<clock, bucket, born, agg, seen>>
  BY <1>1 DEF ClockOK
<1>2. CASE Tick
  BY <1>0, <1>2 DEF Tick, ClockOK, history
<1>3. ASSUME NEW c \in Clients,
             UNCHANGED <<clock, born, agg>>,
             bucket'.rf <= clock,
             \A d \in Clients : seen'[d] = seen[d] \/ seen'[d].rf <= clock
      PROVE  ClockOK'
  BY <1>0, <1>3 DEF ClockOK
<1>4. ASSUME NEW c \in Clients, Forget(c)
      PROVE  \A d \in Clients : seen'[d] = seen[d] \/ seen'[d].rf <= clock
  BY <1>0, <1>4 DEF Forget, TypeOK, ClientsTypeOK
<1>5. ASSUME NEW c \in Clients, NEW e, Grant(c, e)
      PROVE  \A d \in Clients : seen'[d] = seen[d] \/ seen'[d].rf <= clock
  BY <1>0, <1>5 DEF Grant, TypeOK, ClientsTypeOK
<1>6. ASSUME NEW m PROVE Take(bucket, m).rf = bucket.rf /\ AddTo(bucket, m).rf = bucket.rf
  <2>1. Take(bucket, m).rf = bucket.rf
    BY DEF Take, TypeOK, BucketTypeOK, Items
  <2>2. AddTo(bucket, m).rf = bucket.rf
    <3> DEFINE g == [bucket EXCEPT !.status = "ghost", !.names = @ \cup Asked(m)]
    <3>1. g.rf = bucket.rf /\ g \in Items
      BY DEF TypeOK, BucketTypeOK, Items, Asked
    <3> HIDE DEF g
    <3>2. Take(g, m).rf = g.rf
      BY <3>1 DEF Take, Items
    <3> QED
      BY <2>1, <3>1, <3>2 DEF AddTo, g
  <2> QED
    BY <2>1, <2>2
<1>7. ASSUME NEW c \in Clients, SpeculateHit(c)
      PROVE  ClockOK'
  BY <1>3, <1>5, <1>6, <1>7 DEF SpeculateHit, history, ClockOK
<1>8. ASSUME NEW c \in Clients,
             SpeculateShort(c) \/ SpeculateMiss(c) \/ ComputeNormal(c) \/ ComputeCreate(c)
      PROVE  ClockOK'
  <2>0. Forget(c) \/ seen' = seen \/ seen' = [seen EXCEPT ![c] = Absent]
    BY <1>8 DEF SpeculateShort, SpeculateMiss, ComputeNormal, ComputeCreate
  <2>1. \A d \in Clients : seen'[d] = seen[d] \/ seen'[d].rf <= clock
    BY <1>0, <1>4, <2>0 DEF TypeOK, ClientsTypeOK
  <2>2. UNCHANGED <<clock, bucket, agg, born>>
    BY <1>8 DEF SpeculateShort, SpeculateMiss, ComputeNormal, ComputeCreate, history
  <2> QED
    BY <1>3, <2>1, <2>2 DEF ClockOK
<1>9. ASSUME NEW c \in Clients, Read(c)
      PROVE  ClockOK'
  BY <1>0, <1>3, <1>9 DEF Read, history, ClockOK, TypeOK, ClientsTypeOK
<1>10. ASSUME NEW c \in Clients, WriteCreate(c)
       PROVE  ClockOK'
  <2>1. plan[c].at <= clock
    BY <1>10 DEF WriteCreate, PlansOK, PlanOK
  <2>2. bucket'.rf = plan[c].at /\ born' = plan[c].at
    BY <1>10 DEF WriteCreate, Live
  <2>3. Grant(c, Limits) /\ clock' = clock /\ agg' = agg
    BY <1>10 DEF WriteCreate
  <2>4. \A d \in Clients : seen'[d] = seen[d] \/ seen'[d].rf <= clock
    BY <1>5, <2>3
  <2> QED
    BY <1>0, <2>1, <2>2, <2>3, <2>4 DEF ClockOK
<1>11. ASSUME NEW c \in Clients, WriteNormal(c)
       PROVE  ClockOK'
  <2>1. plan[c].at <= clock
    BY <1>11 DEF WriteNormal, PlansOK, PlanOK
  <2>2. bucket'.rf = plan[c].at
    <3> DEFINE b == Take(bucket, ToMilli(req[c]))
    <3>1. b \in Items
      BY VectorTypes, RecordTypes DEF TypeOK, BucketTypeOK, ClientsTypeOK
    <3> HIDE DEF b
    <3>2. bucket' = [b EXCEPT !.tk = Plus(@, plan[c].refill), !.rf = plan[c].at]
      BY <1>11 DEF WriteNormal, b
    <3> QED
      BY <3>1, <3>2 DEF Items
  <2> QED
    BY <1>0, <1>3, <1>5, <1>11, <2>1, <2>2 DEF WriteNormal, ClockOK
<1>12. ASSUME NEW c \in Clients, WriteFails(c) \/ BodyRaises(c) \/ (\E m \in Requests : Acquire(c, m)) \/ (\E d \in Deltas : Change(c, d))
       PROVE  ClockOK'
  BY <1>1, <1>12 DEF WriteFails, BodyRaises, Acquire, Change, history
<1>13. ASSUME NEW c \in Clients, Retry(c)
       PROVE  ClockOK'
  BY <1>3, <1>4, <1>5, <1>6, <1>13 DEF Retry, history, ClockOK
<1>14. ASSUME NEW m, WriteAdjust(m) PROVE bucket'.rf = bucket.rf
  BY <1>6, <1>14 DEF WriteAdjust
<1>15. ASSUME NEW c \in Clients, Close(c) \/ Rollback(c) \/ Crash(c)
       PROVE  ClockOK'
  <2>1. bucket'.rf = bucket.rf
    BY <1>14, <1>15 DEF Close, Rollback, Crash
  <2> QED
    BY <1>3, <1>4, <1>15, <2>1 DEF Close, Rollback, Crash, ClockOK
<1>16. ASSUME NEW c \in Clients, CloseFails(c)
       PROVE  ClockOK'
  <2>1. bucket'.rf = bucket.rf
    BY <1>14, <1>16 DEF CloseFails
  <2> QED
    BY <1>3, <1>16, <2>1 DEF CloseFails, ClockOK
<1>17. CASE Image
  BY <1>17 DEF Image, ClockOK, history, NoImage
<1>18. CASE PlanRefill
  <2>1. agg'.rf = agg.rf \/ agg'.rf = 0
    BY <1>0, <1>18 DEF PlanRefill, RefillPlan, TypeOK, BucketTypeOK, Refills
  <2> QED
    BY <1>0, <1>18, <2>1 DEF PlanRefill, ClockOK, history
<1>19. CASE WriteRefill
  <2>1. bucket'.rf = bucket.rf \/ bucket'.rf = agg.at
    BY <1>19 DEF WriteRefill, TypeOK, BucketTypeOK, Items
  <2>2. agg.at <= clock
    BY <1>19 DEF WriteRefill, RefillPlanOK
  <2> QED
    BY <1>0, <1>19, <2>1, <2>2 DEF WriteRefill, ClockOK
<1>20. CASE Remove
  BY <1>0, <1>20 DEF Remove, ClockOK
<1>21. CASE UNCHANGED vars
  BY <1>1, <1>21 DEF vars, history
<1> QED
  BY <1>2, <1>7, <1>8, <1>9, <1>10, <1>11, <1>12, <1>13, <1>15, <1>16, <1>17, <1>18, <1>19,
     <1>20, <1>21 DEF Next, ClientStep

-------------------------------------------------------------------------------
(* Requests not yet written *)

\* Only client c's part of the plans changed, and time did not run back.
PlanFrame(c) ==
  /\ clock' \in Nat /\ clock <= clock'
  /\ \A d \in Clients \ {c} : pc'[d] = pc[d] /\ req'[d] = req[d] /\ plan'[d] = plan[d]

(* A step of one client leaves the other clients' plans within the rate.     *)
LEMMA PlanFrameOK ==
  ASSUME TypeOK, PlansOK, NEW c \in Clients, PlanFrame(c), PlanOK(c)'
  PROVE  PlansOK'
<1>1. ASSUME NEW d \in Clients, d # c
      PROVE  PlanOK(d)'
  <2>1. PlanOK(d) /\ plan[d].at \in Nat /\ clock \in Nat
    BY DEF PlansOK, TypeOK, ClientsTypeOK, BucketTypeOK, Plans
  <2>2. pc'[d] = pc[d] /\ req'[d] = req[d] /\ plan'[d] = plan[d] /\ clock <= clock' /\ clock' \in Nat
    BY <1>1 DEF PlanFrame
  <2> QED
    BY <2>1, <2>2 DEF PlanOK
<1> QED
  BY <1>1 DEF PlansOK

(* A client that drops its request, or has none, has nothing to keep.        *)
LEMMA NoPlanOK ==
  ASSUME TypeOK, PlansOK, NEW c \in Clients, clock' = clock,
         Forget(c) \/ \E e \in SUBSET Limits : Grant(c, e)
  PROVE  PlansOK'
<1>1. PlanFrame(c)
  BY DEF PlanFrame, Forget, Grant, Goto, TypeOK, ClientsTypeOK, BucketTypeOK
<1>2. plan'[c] = NoPlan
  BY DEF Forget, Grant, TypeOK, ClientsTypeOK
<1>3. PlanOK(c)'
  BY <1>2 DEF PlanOK, NoPlan
<1> QED
  BY <1>1, <1>3, PlanFrameOK

(* The plan computed from a state that was read keeps within the rate, also  *)
(* when the clock it was refilled by is earlier than the one it is stamped   *)
(* with.                                                                     *)
LEMMA NormalPlanWithin ==
  ASSUME TypeOK, NEW c \in Clients, NEW at \in Readings, NEW now \in 0..at,
         \A l \in Limits : Results(c, now)[l].success,
         NEW l \in Limits
  PROVE  Within(NormalPlan(c, at, now).refill[l], at - seen[c].rf, l)
<1> DEFINE x == Refill(StateOf(seen[c], l), now).tk - seen[c].tk[l]
<1>1. at \in Nat /\ now \in Int /\ now <= at
  BY ReadingsType
<1>2. seen[c] \in Items /\ seen[c].rf \in Nat
  BY DEF TypeOK, ClientsTypeOK, Items, Readables
<1>3. NormalPlan(c, at, now).refill[l] = x
  BY <1>1, PlannedRefill DEF NormalPlan
<1>4. x * Period[l] <= Positive(now - seen[c].rf) * ra(l)
  BY <1>1, <1>2, OfferBound
<1>5. Positive(now - seen[c].rf) <= Positive(at - seen[c].rf)
      /\ Positive(now - seen[c].rf) \in Int /\ Positive(at - seen[c].rf) \in Int
  BY <1>1, <1>2 DEF Positive
<1>6. Positive(now - seen[c].rf) * ra(l) <= Positive(at - seen[c].rf) * ra(l)
  BY <1>5, LimitTypes, TimesMonotone
<1>7. x \in Int
  BY <1>1, <1>2, OfferBound DEF Items, Vectors
<1> HIDE DEF x
<1>8. x * Period[l] \in Int /\ Positive(now - seen[c].rf) * ra(l) \in Int
      /\ Positive(at - seen[c].rf) * ra(l) \in Int
  BY <1>5, <1>7, LimitTypes
<1> QED
  BY <1>3, <1>4, <1>6, <1>8 DEF Within

(* Every action keeps the plans in flight within the rate.                   *)
LEMMA PlansStep ==
  ASSUME TypeOK, ClockOK, PlansOK, [Next]_vars
  PROVE  PlansOK'
<1>0. clock \in Nat
  BY DEF TypeOK, BucketTypeOK
<1>1. ASSUME UNCHANGED <<pc, req, plan>>, clock' \in Nat, clock <= clock'
      PROVE  PlansOK'
  <2> SUFFICES ASSUME NEW d \in Clients
               PROVE  PlanOK(d)'
    BY DEF PlansOK
  <2>1. PlanOK(d) /\ plan[d].at \in Nat
    BY DEF PlansOK, TypeOK, ClientsTypeOK, Plans
  <2> QED
    BY <1>0, <1>1, <2>1 DEF PlanOK
<1>2. CASE Tick \/ UNCHANGED vars \/ Image \/ PlanRefill \/ WriteRefill \/ Remove
  BY <1>0, <1>1, <1>2 DEF Tick, vars, Image, PlanRefill, WriteRefill, Remove, history
<1>3. ASSUME NEW c \in Clients, NEW m \in Requests, Acquire(c, m)
      PROVE  PlansOK'
  <2>1. PlanFrame(c)
    BY <1>0, <1>3 DEF PlanFrame, Acquire, Goto, TypeOK, ClientsTypeOK
  <2>2. plan'[c].kind = "none"
    BY <1>3 DEF Acquire, PlansOK, PlanOK
  <2>3. PlanOK(c)'
    BY <2>2 DEF PlanOK
  <2> QED
    BY <2>1, <2>3, PlanFrameOK
<1>4. ASSUME NEW c \in Clients, clock' = clock,
             Goto(c, "reading") \/ Goto(c, "computing"),
             pc[c] \notin {"writing", "retrying"}, UNCHANGED <<req, plan>>
      PROVE  PlansOK'
  <2>1. PlanFrame(c)
    BY <1>0, <1>4 DEF PlanFrame, Goto, TypeOK, ClientsTypeOK
  <2>2. plan'[c].kind = "none"
    BY <1>4 DEF PlansOK, PlanOK
  <2>3. PlanOK(c)'
    BY <2>2 DEF PlanOK
  <2> QED
    BY <2>1, <2>3, PlanFrameOK
<1>5. ASSUME NEW c \in Clients, SpeculateShort(c) \/ SpeculateMiss(c) \/ Read(c)
      PROVE  PlansOK'
  <2>1. clock' = clock /\ pc[c] \notin {"writing", "retrying"}
    BY <1>5 DEF SpeculateShort, SpeculateMiss, Read
  <2>2. \/ Forget(c)
        \/ (Goto(c, "reading") \/ Goto(c, "computing")) /\ UNCHANGED <<req, plan>>
    BY <1>5 DEF SpeculateShort, SpeculateMiss, Read
  <2> QED
    BY <1>4, <2>1, <2>2, NoPlanOK
<1>6. ASSUME NEW c \in Clients, SpeculateHit(c) \/ WriteCreate(c) \/ WriteNormal(c) \/ Retry(c)
                                \/ Close(c) \/ Rollback(c) \/ Crash(c)
      PROVE  PlansOK'
  <2>1. clock' = clock
    BY <1>6 DEF SpeculateHit, WriteCreate, WriteNormal, Retry, Close, Rollback, Crash
  <2>2. Forget(c) \/ \E e \in SUBSET Limits : Grant(c, e)
    BY <1>6 DEF SpeculateHit, WriteCreate, WriteNormal, Retry, Close, Rollback, Crash, Asked
  <2> QED
    BY <2>1, <2>2, NoPlanOK
<1>7. ASSUME NEW c \in Clients, ComputeNormal(c)
      PROVE  PlansOK'
  <2>1. CASE Forget(c)
    BY <1>7, <2>1, NoPlanOK DEF ComputeNormal
  <2>2. CASE ~Forget(c)
    <3>1. PICK at \in Readings : \E now \in 0..at :
            /\ \A l \in Limits : Results(c, now)[l].success
            /\ plan' = [plan EXCEPT ![c] = NormalPlan(c, at, now)]
      BY <1>7, <2>2 DEF ComputeNormal
    <3>2. PICK now \in 0..at :
            /\ \A l \in Limits : Results(c, now)[l].success
            /\ plan' = [plan EXCEPT ![c] = NormalPlan(c, at, now)]
      BY <3>1
    <3>3. pc' = [pc EXCEPT ![c] = "writing"] /\ req' = req /\ clock' = clock
      BY <1>7, <2>2 DEF ComputeNormal, Goto
    <3>4. PlanFrame(c)
      BY <1>0, <3>2, <3>3 DEF PlanFrame, TypeOK, ClientsTypeOK
    <3>5. plan'[c] = NormalPlan(c, at, now) /\ pc'[c] = "writing"
      BY <3>2, <3>3 DEF TypeOK, ClientsTypeOK
    <3>6. /\ NormalPlan(c, at, now).kind = "normal" /\ NormalPlan(c, at, now).at = at
          /\ NormalPlan(c, at, now).expected = seen[c].rf
      BY DEF NormalPlan
    <3>7. \A l \in Limits : Within(NormalPlan(c, at, now).refill[l], at - seen[c].rf, l)
      BY <3>2, NormalPlanWithin
    <3>8. at <= clock /\ seen[c].rf <= at + Skew
      BY ReadingsType DEF ClockOK, TypeOK, ClientsTypeOK, Readables, Items
    <3>9. PlanOK(c)'
      BY <3>3, <3>5, <3>6, <3>7, <3>8 DEF PlanOK, Within
    <3> QED
      BY <3>4, <3>9, PlanFrameOK
  <2> QED
    BY <2>1, <2>2
<1>8. ASSUME NEW c \in Clients, ComputeCreate(c)
      PROVE  PlansOK'
  <2>1. CASE Forget(c)
    BY <1>8, <2>1, NoPlanOK DEF ComputeCreate
  <2>2. CASE ~Forget(c)
    <3>1. PICK at \in Readings :
            plan' = [plan EXCEPT ![c] =
                       [kind |-> "create", expected |-> 0, at |-> at, refill |-> Zero]]
      BY <1>8, <2>2 DEF ComputeCreate
    <3>2. /\ pc' = [pc EXCEPT ![c] = "writing"] /\ req' = req /\ clock' = clock
          /\ \A l \in Limits : req[c][l] <= Capacity[l]
      BY <1>8, <2>2 DEF ComputeCreate, Goto
    <3>3. PlanFrame(c)
      BY <1>0, <3>1, <3>2 DEF PlanFrame, TypeOK, ClientsTypeOK
    <3>4. plan'[c].kind = "create" /\ plan'[c].at = at /\ pc'[c] = "writing"
      BY <3>1, <3>2 DEF TypeOK, ClientsTypeOK
    <3>5. PlanOK(c)'
      BY <3>2, <3>4, ReadingsType DEF PlanOK
    <3> QED
      BY <3>3, <3>5, PlanFrameOK
  <2> QED
    BY <2>1, <2>2
<1>9. ASSUME NEW c \in Clients, WriteFails(c)
      PROVE  PlansOK'
  <2>1. PlanFrame(c)
    BY <1>0, <1>9 DEF PlanFrame, WriteFails, Goto, TypeOK, ClientsTypeOK
  <2>2. PlanOK(c)'
    BY <1>9 DEF WriteFails, Goto, TypeOK, ClientsTypeOK, PlansOK, PlanOK
  <2> QED
    BY <2>1, <2>2, PlanFrameOK
<1>10. ASSUME NEW c \in Clients, BodyRaises(c) \/ CloseFails(c)
       PROVE  PlansOK'
  <2>1. PlanFrame(c)
    BY <1>0, <1>10 DEF PlanFrame, BodyRaises, CloseFails, Goto, TypeOK, ClientsTypeOK
  <2>2. plan'[c].kind = "none"
    BY <1>10 DEF BodyRaises, CloseFails, PlansOK, PlanOK
  <2>3. PlanOK(c)'
    BY <2>2 DEF PlanOK
  <2> QED
    BY <2>1, <2>3, PlanFrameOK
<1>11. ASSUME NEW c \in Clients, NEW d \in Deltas, Change(c, d)
       PROVE  PlansOK'
  BY <1>0, <1>1, <1>11 DEF Change
<1> QED
  BY <1>2, <1>3, <1>5, <1>6, <1>7, <1>8, <1>9, <1>10, <1>11 DEF Next, ClientStep

(* Every action keeps the aggregator's request within the rate.              *)
LEMMA RefillPlanStep ==
  ASSUME TypeOK, ClockOK, RefillPlanOK, [Next]_vars
  PROVE  RefillPlanOK'
<1>0. clock \in Nat /\ agg \in Refills /\ agg.at \in Nat /\ agg.rf \in Nat
  BY DEF TypeOK, BucketTypeOK, Refills
<1>1. ASSUME agg' = agg, clock' \in Nat, clock <= clock'
      PROVE  RefillPlanOK'
  BY <1>0, <1>1 DEF RefillPlanOK, Within
<1>2. CASE Image
  BY <1>2 DEF Image, NoImage, RefillPlanOK
<1>3. CASE PlanRefill
  <2>1. PICK now \in Readings : \E short \in SUBSET {l \in Limits : RefillDeltas(now)[l] > 0} :
          agg' = RefillPlan(now, short)
    BY <1>3 DEF PlanRefill
  <2>2. PICK short \in SUBSET {l \in Limits : RefillDeltas(now)[l] > 0} :
          agg' = RefillPlan(now, short)
    BY <2>1
  <2>3. now \in Nat /\ now <= clock /\ agg.rf <= now + Skew
    BY <1>0, ReadingsType DEF ClockOK
  <2>4. CASE short = {}
    BY <2>2, <2>4 DEF RefillPlan, NoImage, RefillPlanOK
  <2>5. CASE short # {}
    <3> DEFINE add == [l \in Limits |-> IF l \in short THEN RefillDeltas(now)[l] ELSE 0]
    <3>1. agg' = [agg EXCEPT !.kind = "plan", !.at = now, !.add = add]
      BY <2>2, <2>5 DEF RefillPlan
    <3>2. agg'.at = now /\ agg'.rf = agg.rf /\ agg'.add = add
      <4> HIDE DEF add
      <4> QED
        BY <1>0, <3>1 DEF Refills
    <3>3. ASSUME NEW l \in Limits
          PROVE  Within(add[l], now - agg.rf, l)
      <4>1. CASE l \in short
        BY <2>3, <4>1, RefillDeltaBound DEF Within
      <4>2. CASE l \notin short
        <5>1. add[l] = 0 /\ 0 * Period[l] = 0
          BY <4>2, LimitTypes
        <5>2. Positive(now - agg.rf) \in Nat
          BY <1>0, <2>3 DEF Positive
        <5>3. 0 <= Positive(now - agg.rf) * ra(l)
          BY <5>2, LimitTypes, TimesMonotone
        <5> HIDE DEF add
        <5> QED
          BY <5>1, <5>3 DEF Within
      <4> QED
        BY <4>1, <4>2
    <3>4. clock' = clock
      BY <1>3 DEF PlanRefill
    <3> HIDE DEF add
    <3> QED
      BY <2>3, <3>2, <3>3, <3>4 DEF RefillPlanOK, Within
  <2> QED
    BY <2>4, <2>5
<1>4. CASE WriteRefill
  BY <1>4 DEF WriteRefill, NoImage, RefillPlanOK
<1>5. CASE Tick \/ Remove \/ UNCHANGED vars
  BY <1>0, <1>1, <1>5 DEF Tick, Remove, vars
<1>6. ASSUME NEW c \in Clients, ClientStep(c)
      PROVE  RefillPlanOK'
  <2>1. agg' = agg /\ clock' = clock
    BY <1>6 DEF ClientStep, Acquire, SpeculateHit, SpeculateShort, SpeculateMiss, Read,
                ComputeNormal, ComputeCreate, WriteCreate, WriteNormal, WriteFails, Retry,
                Change, Close, CloseFails, BodyRaises, Rollback, Crash
  <2> QED
    BY <1>0, <1>1, <2>1
<1> QED
  BY <1>2, <1>3, <1>4, <1>5, <1>6 DEF Next

(* With one clock, rf never moves back: no writer has a later rf than the    *)
(* time its own request carries.                                             *)
LEMMA RewoundStep ==
  ASSUME TypeOK, PlansOK, RefillPlanOK, RewoundOK, [Next]_vars
  PROVE  RewoundOK'
<1> SUFFICES ASSUME Skew = 0
             PROVE  rewound' = 0
  BY DEF RewoundOK
<1>0. rewound = 0 /\ bucket.rf \in Nat /\ agg.at \in Nat
  BY DEF RewoundOK, TypeOK, BucketTypeOK, Items, Refills
<1>1. ASSUME NEW c \in Clients, WriteNormal(c)
      PROVE  rewound' = 0
  <2>1. bucket.rf = plan[c].expected /\ plan[c].at \in Nat
    BY <1>1 DEF WriteNormal, NormalCondition, TypeOK, ClientsTypeOK, Plans
  <2>2. plan[c].expected <= plan[c].at + Skew
    BY <1>1 DEF WriteNormal, PlansOK, PlanOK
  <2> QED
    BY <1>0, <1>1, <2>1, <2>2 DEF WriteNormal
<1>2. CASE WriteRefill
  BY <1>0, <1>2 DEF WriteRefill, RefillPlanOK
<1>3. ASSUME NEW c \in Clients, ClientStep(c), ~WriteNormal(c)
      PROVE  rewound' = 0
  BY <1>0, <1>3 DEF ClientStep, Acquire, SpeculateHit, SpeculateShort, SpeculateMiss, Read,
                ComputeNormal, ComputeCreate, WriteCreate, WriteFails, Retry, Change, Close,
                CloseFails, BodyRaises, Rollback, Crash, history
<1>4. CASE Tick \/ Image \/ PlanRefill \/ Remove \/ UNCHANGED vars
  BY <1>0, <1>4 DEF Tick, Image, PlanRefill, Remove, vars, history
<1> QED
  BY <1>1, <1>2, <1>3, <1>4 DEF Next

-------------------------------------------------------------------------------
(* The item *)

\* What Safe says of one limit.
SafeLimit(l) ==
  /\ Granted(l) * Period[l] <= (bucket.rf - born + rewound) * ra(l)
  /\ bucket.tk[l] >= -debt[l]

(* The safety of the item, limit by limit.                                   *)
LEMMA SafeByLimit == Safe <=> (bucket.status = "live" => \A l \in Limits : SafeLimit(l))
BY DEF Safe, SafeLimit, RefillWithinTime, DebtIsAdjusted

(* A conditional ADD takes only what is there.                               *)
LEMMA TakeFields ==
  ASSUME TypeOK, NEW m \in Vectors, NEW l \in Limits
  PROVE  /\ Take(bucket, m).tk[l] = bucket.tk[l] - m[l]
         /\ Take(bucket, m).tc[l] = bucket.tc[l] + m[l]
         /\ Take(bucket, m).rf = bucket.rf
         /\ Take(bucket, m).status = bucket.status
BY DEF Take, Plus, Minus, TypeOK, BucketTypeOK, Items

(* A conditional ADD grants nothing and leaves no limit below zero.          *)
LEMMA TakeSafe ==
  ASSUME TypeOK, Safe, NEW m \in Amounts, Covers(bucket, m),
         bucket' = Take(bucket, m), UNCHANGED <<born, debt, rewound>>
  PROVE  Safe'
<1> SUFFICES ASSUME bucket'.status = "live", NEW l \in Limits
             PROVE  SafeLimit(l)'
  BY SafeByLimit DEF SafeLimit, Safe, RefillWithinTime, DebtIsAdjusted, Granted
<1>1. m \in Vectors /\ m[l] \in Nat
  BY VectorTypes DEF Amounts
<1>2. /\ bucket'.tk[l] = bucket.tk[l] - m[l] /\ bucket'.tc[l] = bucket.tc[l] + m[l]
      /\ bucket'.rf = bucket.rf /\ bucket.status = "live"
  BY <1>1, TakeFields
<1>3. SafeLimit(l)
  BY <1>2, SafeByLimit
<1>4. Granted(l)' = Granted(l)
  BY <1>1, <1>2, BalanceTypes, LimitTypes DEF Granted
<1>5. m[l] # 0 => bucket.tk[l] >= m[l]
  BY DEF Covers, Asked
<1> QED
  BY <1>1, <1>2, <1>3, <1>4, <1>5, BalanceTypes DEF SafeLimit

(* An adjustment moves tk and tc by the same amount, and counts as debt what *)
(* it takes.                                                                 *)
LEMMA AdjustSafe ==
  ASSUME TypeOK, Safe, NEW m \in Vectors, WriteAdjust(m), UNCHANGED <<born, rewound>>
  PROVE  Safe'
<1> SUFFICES ASSUME bucket'.status = "live", NEW l \in Limits
             PROVE  SafeLimit(l)'
  BY SafeByLimit DEF SafeLimit, Safe, RefillWithinTime, DebtIsAdjusted, Granted
<1>1. m[l] \in Int
  BY DEF Vectors
<1>2. debt'[l] = debt[l] + (IF m[l] > 0 THEN m[l] ELSE 0)
  BY DEF WriteAdjust, Plus, Above, TypeOK, HistoryTypeOK, Amounts
<1>3. bucket.status = "live"
  <2>1. CASE Asked(m) = {}
    BY <2>1 DEF WriteAdjust
  <2>2. CASE Asked(m) # {} /\ bucket.status # "live"
    <3> DEFINE g == [bucket EXCEPT !.status = "ghost", !.names = @ \cup Asked(m)]
    <3>1. g.status = "ghost" /\ g \in Items
      BY DEF TypeOK, BucketTypeOK, Items, Asked
    <3> HIDE DEF g
    <3>2. Take(g, m).status = "ghost"
      BY <3>1 DEF Take, Items
    <3>3. bucket' = Take(g, m)
      BY <2>2 DEF WriteAdjust, AddTo, g
    <3> QED
      BY <3>2, <3>3
  <2> QED
    BY <2>1, <2>2
<1>4. SafeLimit(l)
  BY <1>3, SafeByLimit
<1>5. CASE Asked(m) = {}
  <2>1. bucket' = bucket /\ m[l] = 0
    BY <1>5 DEF WriteAdjust, Asked
  <2> QED
    BY <1>2, <1>4, <2>1, BalanceTypes DEF SafeLimit, Granted
<1>6. CASE Asked(m) # {}
  <2>1. bucket' = Take(bucket, m)
    BY <1>3, <1>6 DEF WriteAdjust, AddTo
  <2>2. /\ bucket'.tk[l] = bucket.tk[l] - m[l] /\ bucket'.tc[l] = bucket.tc[l] + m[l]
        /\ bucket'.rf = bucket.rf
    BY <2>1, TakeFields
  <2>3. Granted(l)' = Granted(l)
    BY <1>1, <2>2, BalanceTypes, LimitTypes DEF Granted
  <2> QED
    BY <1>1, <1>2, <1>4, <2>2, <2>3, BalanceTypes DEF SafeLimit
<1> QED
  BY <1>5, <1>6

(* A write that refills: x more units, rf set to at.                         *)
LEMMA CreditSafe ==
  ASSUME TypeOK, NEW l \in Limits, SafeLimit(l), NEW x \in Int, NEW at \in Nat,
         Within(x, at - bucket.rf, l),
         Granted(l)' = Granted(l) + x, bucket'.rf = at, born' = born,
         rewound' = rewound + (IF at < bucket.rf THEN bucket.rf - at ELSE 0)
  PROVE  Granted(l)' * Period[l] <= (bucket'.rf - born' + rewound') * ra(l)
<1> DEFINE t == bucket.rf - born + rewound
           e == Positive(at - bucket.rf)
<1>1. t \in Int /\ e \in Int /\ Granted(l) \in Int
  BY BalanceTypes DEF Positive
<1>2. bucket'.rf - born' + rewound' = t + e
  BY BalanceTypes DEF Positive
<1>3. Granted(l) * Period[l] <= t * ra(l) /\ x * Period[l] <= e * ra(l)
  BY DEF SafeLimit, Within
<1> HIDE DEF t, e
<1> QED
  BY <1>1, <1>2, <1>3, LimitTypes, CreditsAdd

(* A created item starts with its capacity less what is consumed.            *)
LEMMA WriteCreateSafe ==
  ASSUME TypeOK, PlansOK, NEW c \in Clients, WriteCreate(c)
  PROVE  Safe'
<1> SUFFICES ASSUME NEW l \in Limits
             PROVE  SafeLimit(l)'
  BY SafeByLimit DEF SafeLimit, Safe, RefillWithinTime, DebtIsAdjusted, Granted
<1> DEFINE n == req[c][l] * Milli
<1>1. /\ bucket'.tk[l] = cap(l) - n /\ bucket'.tc[l] = n /\ bucket'.rf = plan[c].at
      /\ born' = plan[c].at /\ rewound' = 0 /\ debt'[l] = 0
  BY DEF WriteCreate, Live, ToMilli, Zero
<1>2. req[c][l] \in Nat /\ plan[c].at \in Nat
  BY DEF TypeOK, ClientsTypeOK, Amounts, Plans
<1>3. req[c][l] <= Capacity[l]
  BY DEF WriteCreate, PlansOK, PlanOK
<1>4. n \in Int /\ n <= cap(l)
  BY <1>2, <1>3, LimitTypes, MilliAssumption, TimesMonotone DEF cap
<1> HIDE DEF n
<1>5. Granted(l)' = 0
  BY <1>1, <1>4, LimitTypes DEF Granted
<1>6. bucket'.rf - born' + rewound' = 0
  BY <1>1, <1>2
<1>7. 0 * Period[l] <= 0 * ra(l)
  BY LimitTypes
<1> QED
  BY <1>1, <1>4, <1>5, <1>6, <1>7, LimitTypes DEF SafeLimit

\* What the normal write does to one limit: n consumed, x refilled, and the
\* condition left room for the net decrease.
WriteNormalFields(c, l) ==
  LET n == req[c][l] * Milli
      x == plan[c].refill[l]
  IN  /\ n \in Int /\ x \in Int
      /\ bucket'.tk[l] = bucket.tk[l] - n + x
      /\ bucket'.tc[l] = bucket.tc[l] + n
      /\ bucket'.rf = plan[c].at
      /\ n - x > 0 => bucket.tk[l] >= n - x

(* What the normal write does to one limit.                                  *)
LEMMA WriteNormalEffect ==
  ASSUME TypeOK, NEW c \in Clients, WriteNormal(c), NEW l \in Limits
  PROVE  WriteNormalFields(c, l)
<1> DEFINE b == Take(bucket, ToMilli(req[c]))
           n == req[c][l] * Milli
           x == plan[c].refill[l]
<1>1. /\ plan[c].at \in Nat /\ plan[c].refill \in Vectors /\ x \in Int
      /\ ToMilli(req[c]) \in Vectors /\ ToMilli(req[c])[l] = n /\ n \in Int
  <2>1. plan[c].at \in Nat /\ plan[c].refill \in Vectors /\ req[c] \in Amounts
    BY DEF TypeOK, ClientsTypeOK, Plans
  <2>2. ToMilli(req[c]) \in Vectors /\ ToMilli(req[c])[l] = n
    BY <2>1, VectorTypes DEF ToMilli
  <2>3. x \in Int /\ ToMilli(req[c])[l] \in Int
    BY <2>1, <2>2 DEF Vectors
  <2> HIDE DEF n, x
  <2> QED
    BY <2>1, <2>2, <2>3
<1>2. b \in Items /\ b.tk[l] = bucket.tk[l] - n /\ b.tc[l] = bucket.tc[l] + n
  BY <1>1, TakeFields, RecordTypes DEF TypeOK, BucketTypeOK
<1>3. bucket' = [b EXCEPT !.tk = Plus(@, plan[c].refill), !.rf = plan[c].at]
  BY DEF WriteNormal
<1> HIDE DEF b
<1>4. bucket'.tk = Plus(b.tk, plan[c].refill) /\ bucket'.tc = b.tc /\ bucket'.rf = plan[c].at
  BY <1>2, <1>3 DEF Items
<1>5. bucket'.tk[l] = bucket.tk[l] - n + x
  BY <1>2, <1>4 DEF Plus
<1>6. n - x > 0 => bucket.tk[l] >= n - x
  BY DEF WriteNormal, NormalCondition
<1> QED
  BY <1>1, <1>2, <1>4, <1>5, <1>6 DEF WriteNormalFields

(* The normal write: the lock bounds its refill, the floor its debt.         *)
LEMMA WriteNormalSafe ==
  ASSUME TypeOK, PlansOK, Safe, NEW c \in Clients, WriteNormal(c)
  PROVE  Safe'
<1> SUFFICES ASSUME NEW l \in Limits
             PROVE  SafeLimit(l)'
  BY SafeByLimit DEF SafeLimit, Safe, RefillWithinTime, DebtIsAdjusted, Granted
<1> DEFINE n == req[c][l] * Milli
           x == plan[c].refill[l]
<1>1. plan[c].at \in Nat
  BY DEF TypeOK, ClientsTypeOK, Plans
<1>2. /\ n \in Int /\ x \in Int /\ bucket'.tk[l] = bucket.tk[l] - n + x
      /\ bucket'.tc[l] = bucket.tc[l] + n /\ bucket'.rf = plan[c].at
      /\ n - x > 0 => bucket.tk[l] >= n - x
  BY WriteNormalEffect DEF WriteNormalFields
<1>3. bucket.status = "live" /\ bucket.rf = plan[c].expected
  BY DEF WriteNormal, NormalCondition
<1>4. /\ born' = born /\ debt' = debt
      /\ rewound' = rewound + (IF plan[c].at < bucket.rf THEN bucket.rf - plan[c].at ELSE 0)
  BY DEF WriteNormal
<1>5. SafeLimit(l)
  BY <1>3, SafeByLimit
<1>6. Within(x, plan[c].at - bucket.rf, l)
  BY <1>3 DEF WriteNormal, PlansOK, PlanOK
<1> HIDE DEF n, x
<1>7. Granted(l)' = Granted(l) + x
  BY <1>2, BalanceTypes, LimitTypes DEF Granted
<1>8. Granted(l)' * Period[l] <= (bucket'.rf - born' + rewound') * ra(l)
  BY <1>1, <1>2, <1>4, <1>5, <1>6, <1>7, CreditSafe
<1>9. bucket'.tk[l] >= -debt'[l]
  BY <1>2, <1>4, <1>5, BalanceTypes DEF SafeLimit
<1> QED
  BY <1>8, <1>9 DEF SafeLimit

(* The aggregator's write: the lock bounds its refill.                       *)
LEMMA WriteRefillSafe ==
  ASSUME TypeOK, RefillPlanOK, Safe, WriteRefill
  PROVE  Safe'
<1>1. CASE ~(bucket.status = "live" /\ bucket.rf = agg.rf)
  BY <1>1 DEF WriteRefill, Safe, RefillWithinTime, DebtIsAdjusted, Granted
<1>2. CASE bucket.status = "live" /\ bucket.rf = agg.rf
  <2> SUFFICES ASSUME NEW l \in Limits
               PROVE  SafeLimit(l)'
    BY SafeByLimit DEF SafeLimit, Safe, RefillWithinTime, DebtIsAdjusted, Granted
  <2> DEFINE x == agg.add[l]
  <2>1. agg.at \in Nat /\ agg.add \in Amounts /\ x \in Nat
    BY DEF TypeOK, BucketTypeOK, Refills, Amounts
  <2>2. /\ bucket'.tk[l] = bucket.tk[l] + x /\ bucket'.tc[l] = bucket.tc[l]
        /\ bucket'.rf = agg.at
    <3>1. bucket' = [bucket EXCEPT !.tk = Plus(@, agg.add), !.rf = agg.at]
      BY <1>2 DEF WriteRefill
    <3>2. bucket'.tk = Plus(bucket.tk, agg.add) /\ bucket'.tc = bucket.tc /\ bucket'.rf = agg.at
      BY <3>1 DEF TypeOK, BucketTypeOK, Items
    <3> QED
      BY <3>2 DEF Plus
  <2>3. /\ born' = born /\ debt' = debt
        /\ rewound' = rewound + (IF agg.at < bucket.rf THEN bucket.rf - agg.at ELSE 0)
    BY <1>2 DEF WriteRefill
  <2>4. SafeLimit(l)
    BY <1>2, SafeByLimit
  <2>5. Within(x, agg.at - bucket.rf, l)
    BY <1>2 DEF WriteRefill, RefillPlanOK
  <2> HIDE DEF x
  <2>6. Granted(l)' = Granted(l) + x
    BY <2>1, <2>2, BalanceTypes, LimitTypes DEF Granted
  <2>7. Granted(l)' * Period[l] <= (bucket'.rf - born' + rewound') * ra(l)
    BY <2>1, <2>2, <2>3, <2>4, <2>5, <2>6, CreditSafe
  <2> QED
    BY <2>1, <2>2, <2>3, <2>4, <2>7, BalanceTypes DEF SafeLimit
<1> QED
  BY <1>1, <1>2

(* Every action keeps the item safe.                                         *)
LEMMA SafeStep ==
  ASSUME TypeOK, PlansOK, RefillPlanOK, Safe, [Next]_vars
  PROVE  Safe'
<1>1. ASSUME UNCHANGED <<bucket, born, debt, rewound>>
      PROVE  Safe'
  BY <1>1 DEF Safe, RefillWithinTime, DebtIsAdjusted, Granted
<1>2. CASE Tick \/ Image \/ PlanRefill \/ UNCHANGED vars
  BY <1>1, <1>2 DEF Tick, Image, PlanRefill, vars, history
<1>3. CASE WriteRefill
  BY <1>3, WriteRefillSafe
<1>4. CASE Remove
  BY <1>4 DEF Remove, Absent, Safe, RefillWithinTime, DebtIsAdjusted
<1>5. ASSUME NEW c \in Clients, NEW m \in Requests, Acquire(c, m)
      PROVE  Safe'
  BY <1>1, <1>5 DEF Acquire
<1>6. ASSUME NEW c \in Clients,
             \/ SpeculateShort(c) \/ SpeculateMiss(c) \/ Read(c) \/ ComputeNormal(c)
             \/ ComputeCreate(c) \/ WriteFails(c) \/ BodyRaises(c) \/ Crash(c)
      PROVE  Safe'
  BY <1>1, <1>6 DEF SpeculateShort, SpeculateMiss, Read, ComputeNormal, ComputeCreate,
                    WriteFails, BodyRaises, Crash, history
<1>7. ASSUME NEW c \in Clients, NEW d \in Deltas, Change(c, d)
      PROVE  Safe'
  BY <1>1, <1>7 DEF Change, history
<1>8. ASSUME NEW c \in Clients, SpeculateHit(c) \/ Retry(c)
      PROVE  Safe'
  <2>1. ToMilli(req[c]) \in Amounts
    BY VectorTypes DEF TypeOK, ClientsTypeOK
  <2>2. \/ Covers(bucket, ToMilli(req[c])) /\ bucket' = Take(bucket, ToMilli(req[c]))
        \/ UNCHANGED bucket
    BY <1>8 DEF SpeculateHit, Retry
  <2>3. UNCHANGED <<born, debt, rewound>>
    BY <1>8 DEF SpeculateHit, Retry, history
  <2> QED
    BY <1>1, <2>1, <2>2, <2>3, TakeSafe
<1>9. ASSUME NEW c \in Clients, WriteCreate(c) \/ WriteNormal(c)
      PROVE  Safe'
  BY <1>9, WriteCreateSafe, WriteNormalSafe
<1>10. ASSUME NEW c \in Clients, Close(c) \/ CloseFails(c) \/ Rollback(c)
       PROVE  Safe'
  <2>1. UNCHANGED <<born, rewound>>
    BY <1>10 DEF Close, CloseFails, Rollback
  <2>2. \/ \E m \in Vectors : WriteAdjust(m)
        \/ UNCHANGED <<bucket, debt>>
    BY <1>10, AdjustmentType DEF Close, CloseFails, Rollback
  <2> QED
    BY <1>1, <2>1, <2>2, AdjustSafe
<1> QED
  BY <1>2, <1>3, <1>4, <1>5, <1>6, <1>7, <1>8, <1>9, <1>10 DEF Next, ClientStep

-------------------------------------------------------------------------------
(* The theorems *)

(* The invariant holds initially.                                            *)
LEMMA InvInit == Init => Inv
<1> SUFFICES ASSUME Init
             PROVE  Inv
  OBVIOUS
<1>1. TypeOK
  BY TypeInit
<1>2. ClockOK /\ PlansOK /\ RefillPlanOK /\ RewoundOK /\ Safe
  BY DEF Init, ClockOK, PlansOK, PlanOK, RefillPlanOK, RewoundOK, Safe, RefillWithinTime,
         DebtIsAdjusted, Absent, NoImage, NoPlan
<1> QED
  BY <1>1, <1>2 DEF Inv

(* The invariant is inductive.                                               *)
LEMMA InvStep == Inv /\ [Next]_vars => Inv'
BY TypeStep, ClockStep, PlansStep, RefillPlanStep, RewoundStep, SafeStep DEF Inv

(* Every reachable state satisfies the inductive invariant: the item is safe *)
(* and every request in flight (slow path, aggregator) is within the rate.   *)
THEOREM InvCorrect == Spec => []Inv
<1> QED
  BY InvInit, InvStep, PTL DEF Spec

(* Whoever refills, and however the hosts' clocks disagree: all that was     *)
(* ever added to the item fits in the time up to rf, plus what rf was moved  *)
(* back by.                                                                  *)
THEOREM RefillsWithinTime == Spec => []RefillWithinTime
<1>1. Inv => RefillWithinTime
  BY DEF Inv, Safe
<1> QED
  BY <1>1, InvCorrect, PTL

(* Only adjustments take a bucket below zero, by what they are together.     *)
THEOREM DebtAdjusted == Spec => []DebtIsAdjusted
<1>1. Inv => DebtIsAdjusted
  BY DEF Inv, Safe
<1> QED
  BY <1>1, InvCorrect, PTL

(* A limit's net consumption is bounded by the burst, the rate, and what     *)
(* leases adjusted upwards after they were admitted.                         *)
LEMMA InvRateBound == Inv => RateBound
<1> SUFFICES ASSUME Inv, bucket.status = "live", NEW l \in Limits
             PROVE  (bucket.tc[l] - debt[l] - cap(l)) * Period[l] <= (clock - born + rewound) * ra(l)
  BY DEF RateBound
<1> DEFINE n == bucket.tc[l] - debt[l] - cap(l)
           t == bucket.rf - born + rewound
           e == clock - born + rewound
<1>1. TypeOK /\ SafeLimit(l) /\ bucket.rf <= clock /\ clock \in Int
  BY SafeByLimit DEF Inv, ClockOK, TypeOK, BucketTypeOK
<1>2. n \in Int /\ n <= Granted(l)
  BY <1>1, BalanceTypes, LimitTypes DEF SafeLimit, Granted
<1>3. t \in Int /\ e \in Int /\ t <= e
  BY <1>1, BalanceTypes
<1>4. Granted(l) * Period[l] <= t * ra(l)
  BY <1>1 DEF SafeLimit
<1>5. Granted(l) \in Int
  BY <1>1, BalanceTypes
<1> HIDE DEF n, t, e
<1>6. n * Period[l] <= Granted(l) * Period[l] /\ t * ra(l) <= e * ra(l)
  BY <1>2, <1>3, <1>5, LimitTypes, TimesMonotone
<1>7. /\ n * Period[l] \in Int /\ Granted(l) * Period[l] \in Int
      /\ t * ra(l) \in Int /\ e * ra(l) \in Int
  BY <1>2, <1>3, <1>5, LimitTypes
<1>8. n * Period[l] <= e * ra(l)
  BY <1>4, <1>6, <1>7
<1> QED
  BY <1>8 DEF n, e

(* The rate limit: net consumption is bounded by the burst, the rate, and what *)
(* leases adjusted upwards, in every run of any number of clients.           *)
THEOREM RateBounded == Spec => []RateBound
<1> QED
  BY InvRateBound, InvCorrect, PTL

(* With one clock, no time is ever credited twice.                           *)
THEOREM NothingRefilledTwice ==
  ASSUME Skew = 0
  PROVE  Spec => []NoDoubleRefill
<1>1. ASSUME Inv
      PROVE  NoDoubleRefill
  <2> SUFFICES ASSUME bucket.status = "live", NEW l \in Limits
               PROVE  Granted(l) * Period[l] <= (clock - born) * ra(l)
    BY DEF NoDoubleRefill
  <2> DEFINE t == bucket.rf - born + rewound
             e == clock - born
  <2>1. TypeOK /\ SafeLimit(l) /\ bucket.rf <= clock /\ clock \in Int /\ rewound = 0
    BY <1>1, SafeByLimit DEF Inv, ClockOK, RewoundOK, TypeOK, BucketTypeOK
  <2>2. t \in Int /\ e \in Int /\ t <= e
    BY <2>1, BalanceTypes
  <2>3. Granted(l) * Period[l] <= t * ra(l)
    BY <2>1 DEF SafeLimit
  <2>4. Granted(l) \in Int
    BY <2>1, BalanceTypes
  <2> HIDE DEF t, e
  <2>5. t * ra(l) <= e * ra(l)
    BY <2>2, LimitTypes, TimesMonotone
  <2>6. Granted(l) * Period[l] \in Int /\ t * ra(l) \in Int /\ e * ra(l) \in Int
    BY <2>2, <2>4, LimitTypes
  <2>7. Granted(l) * Period[l] <= e * ra(l)
    BY <2>3, <2>5, <2>6
  <2> QED
    BY <2>7 DEF e
<1>2. Inv => NoDoubleRefill
  BY <1>1
<1> QED
  BY <1>2, InvCorrect, PTL

\* The steps that admit a request.
Admits(c) == pc[c] \in {"speculating", "writing", "retrying"} /\ pc'[c] = "open"

(* A request is admitted only by the four conditional writes.                *)
LEMMA AdmittedBy ==
  ASSUME TypeOK, [Next]_vars, NEW c \in Clients, Admits(c)
  PROVE  SpeculateHit(c) \/ WriteCreate(c) \/ WriteNormal(c) \/ Retry(c)
<1>1. pc' # pc /\ pc[c] # "open"
  BY DEF Admits
<1>2. ASSUME NEW d \in Clients, ClientStep(d), d # c
      PROVE  FALSE
  <2>1. pc'[c] = pc[c]
    BY <1>2 DEF ClientStep, Acquire, SpeculateHit, SpeculateShort, SpeculateMiss, Read,
                ComputeNormal, ComputeCreate, WriteCreate, WriteNormal, WriteFails, Retry,
                Change, Close, CloseFails, BodyRaises, Rollback, Crash, Forget, Grant, Goto,
                TypeOK, ClientsTypeOK
  <2> QED
    BY <1>1, <2>1 DEF Admits
<1>3. ~(Tick \/ Image \/ PlanRefill \/ WriteRefill \/ Remove \/ UNCHANGED vars)
  BY <1>1 DEF Tick, Image, PlanRefill, WriteRefill, Remove, vars
<1>4. ClientStep(c)
  BY <1>2, <1>3 DEF Next
<1>5. ~Forget(c) /\ ~Goto(c, "reading") /\ ~Goto(c, "computing") /\ ~Goto(c, "retrying")
      /\ ~Goto(c, "writing") /\ ~Goto(c, "rollingback")
  BY DEF Admits, Forget, Goto, TypeOK, ClientsTypeOK
<1> QED
  BY <1>1, <1>4, <1>5 DEF ClientStep, Admits, Acquire, SpeculateShort, SpeculateMiss, Read,
       ComputeNormal, ComputeCreate, WriteFails, Change, Close, CloseFails, BodyRaises,
       Rollback, Crash

\* No limit goes below zero, or further below.
NotOverdrawn == \A l \in Limits : bucket'.tk[l] >= 0 \/ bucket'.tk[l] >= bucket.tk[l]

(* A conditional ADD leaves what it takes from at zero or above.             *)
LEMMA TakeNotOverdrawn ==
  ASSUME TypeOK, NEW m \in Amounts, Covers(bucket, m), bucket' = Take(bucket, m)
  PROVE  NotOverdrawn
<1> SUFFICES ASSUME NEW l \in Limits
             PROVE  bucket'.tk[l] >= 0 \/ bucket'.tk[l] >= bucket.tk[l]
  BY DEF NotOverdrawn
<1>1. m \in Vectors /\ m[l] \in Nat /\ bucket.tk[l] \in Int
  BY VectorTypes, BalanceTypes DEF Amounts
<1>2. bucket'.tk[l] = bucket.tk[l] - m[l]
  BY <1>1, TakeFields
<1>3. m[l] # 0 => bucket.tk[l] >= m[l]
  BY DEF Covers, Asked
<1> QED
  BY <1>1, <1>2, <1>3

(* No acquire overdraws a limit, whichever of its writes admits it and       *)
(* whatever was written between its read and its write.                      *)
THEOREM AcquiresNeverOverdraw == Spec => AcquireNeverOverdraws
<1>1. ASSUME Inv, [Next]_vars
      PROVE  \A c \in Clients :
               pc[c] \in {"speculating", "writing", "retrying"} /\ pc'[c] = "open" =>
                 \A l \in Limits : bucket'.tk[l] >= 0 \/ bucket'.tk[l] >= bucket.tk[l]
  <2> SUFFICES ASSUME NEW c \in Clients, Admits(c)
               PROVE  NotOverdrawn
    BY DEF Admits, NotOverdrawn
  <2>0. TypeOK /\ PlansOK /\ Safe
    BY <1>1 DEF Inv
  <2>1. ToMilli(req[c]) \in Amounts
    BY <2>0, VectorTypes DEF TypeOK, ClientsTypeOK
  <2>2. CASE SpeculateHit(c)
    BY <2>0, <2>1, <2>2, TakeNotOverdrawn DEF SpeculateHit
  <2>3. CASE Retry(c)
    <3>1. ~Forget(c)
      BY <2>0 DEF Admits, Forget, Goto, TypeOK, ClientsTypeOK
    <3> QED
      BY <2>0, <2>1, <2>3, <3>1, TakeNotOverdrawn DEF Retry
  <2>4. CASE WriteCreate(c)
    <3> SUFFICES ASSUME NEW l \in Limits
                 PROVE  bucket'.tk[l] >= 0
      BY DEF NotOverdrawn
    <3>1. bucket'.tk[l] = cap(l) - req[c][l] * Milli
      BY <2>4 DEF WriteCreate, Live, ToMilli
    <3>2. req[c][l] \in Nat /\ req[c][l] <= Capacity[l]
      BY <2>0, <2>4 DEF TypeOK, ClientsTypeOK, Amounts, WriteCreate, PlansOK, PlanOK
    <3>3. req[c][l] * Milli <= Capacity[l] * Milli
      BY <3>2, LimitTypes, MilliAssumption, TimesMonotone
    <3>4. req[c][l] * Milli \in Int /\ Capacity[l] * Milli \in Int
      BY <3>2, LimitTypes, MilliAssumption, Z3
    <3> QED
      BY <3>1, <3>3, <3>4 DEF cap
  <2>5. CASE WriteNormal(c)
    <3> SUFFICES ASSUME NEW l \in Limits
                 PROVE  bucket'.tk[l] >= 0 \/ bucket'.tk[l] >= bucket.tk[l]
      BY DEF NotOverdrawn
    <3>1. WriteNormalFields(c, l)
      BY <2>0, <2>5, WriteNormalEffect
    <3> QED
      BY <2>0, <3>1, BalanceTypes DEF WriteNormalFields
  <2> QED
    BY <2>0, <1>1, <2>2, <2>3, <2>4, <2>5, AdmittedBy
<1> QED
  BY <1>1, InvCorrect, PTL DEF Spec, AcquireNeverOverdraws

-------------------------------------------------------------------------------
(* The ledger *)

\* What was credited to a live item is paid for.
Funded == bucket.status = "live" => \A l \in Limits : Account!Paid(l)

(* All that was credited to a live item is paid for by the time since it was *)
(* created.                                                                  *)
LEMMA InvFunded == Inv => Funded
<1> SUFFICES ASSUME Inv, bucket.status = "live", NEW l \in Limits
             PROVE  Account!Paid(l)
  BY DEF Funded
<1> DEFINE t == bucket.rf - born + rewound
           e == clock - born + rewound
<1>1. TypeOK /\ SafeLimit(l) /\ bucket.rf <= clock /\ clock \in Int
  BY SafeByLimit DEF Inv, ClockOK, TypeOK, BucketTypeOK
<1>2. t \in Int /\ e \in Int /\ t <= e /\ Granted(l) \in Int
  BY <1>1, BalanceTypes
<1>3. Granted(l) * Period[l] <= t * ra(l)
  BY <1>1 DEF SafeLimit
<1> HIDE DEF t, e
<1>4. t * ra(l) <= e * ra(l)
  BY <1>2, LimitTypes, TimesMonotone
<1>5. Granted(l) * Period[l] \in Int /\ t * ra(l) \in Int /\ e * ra(l) \in Int
  BY <1>2, LimitTypes
<1>6. Granted(l) * Period[l] <= e * ra(l)
  BY <1>3, <1>4, <1>5
<1>7. Account!Credited(l) = Granted(l)
  BY DEF Account!Credited, Account!Base, Granted
<1>8. [k \in Limits |-> ra(k)][l] = ra(l)
  OBVIOUS
<1> QED
  BY <1>6, <1>7, <1>8 DEF Account!Paid, e

(* The same after a step.                                                    *)
LEMMA InvFundedNext == Inv' => Funded'
BY InvFunded, PTL

-------------------------------------------------------------------------------
(* The mapped variables *)

Holders == {d \in Clients : pc[d] \in {"open", "rollingback"}}

(* A client's step changes who holds a lease by that client only.            *)
LEMMA HoldersStep ==
  ASSUME TypeOK, NEW c \in Clients, NEW q \in PCs, pc' = [pc EXCEPT ![c] = q]
  PROVE  Holders' = IF q \in {"open", "rollingback"} THEN Holders \cup {c} ELSE Holders \ {c}
BY DEF Holders, TypeOK, ClientsTypeOK

(* A write that leaves the sum of tk and tc alone credits nothing.           *)
LEMMA TakeCredits ==
  ASSUME TypeOK, NEW m \in Vectors, NEW l \in Limits,
         bucket' = Take(bucket, m) \/ bucket' = AddTo(bucket, m)
  PROVE  /\ bucket'.tk[l] + bucket'.tc[l] = bucket.tk[l] + bucket.tc[l]
         /\ (bucket'.status = "live") <=> (bucket.status = "live")
<1> DEFINE g == [bucket EXCEPT !.status = "ghost", !.names = @ \cup Asked(m)]
<1>1. m[l] \in Int /\ bucket.tk[l] \in Int /\ bucket.tc[l] \in Int
  BY BalanceTypes DEF Vectors
<1>2. CASE bucket' = Take(bucket, m)
  BY <1>1, <1>2, TakeFields
<1>3. CASE bucket' = Take(g, m) /\ bucket.status # "live"
  <2>1. g \in Items /\ g.status = "ghost" /\ g.tk = bucket.tk /\ g.tc = bucket.tc
    BY DEF TypeOK, BucketTypeOK, Items, Asked
  <2> HIDE DEF g
  <2>2. /\ Take(g, m).tk[l] = g.tk[l] - m[l] /\ Take(g, m).tc[l] = g.tc[l] + m[l]
        /\ Take(g, m).status = g.status
    BY <2>1 DEF Take, Plus, Minus, Items
  <2> QED
    BY <1>1, <1>3, <2>1, <2>2
<1> QED
  BY <1>2, <1>3 DEF AddTo

\* What the account does not see.
Unseen == clock' = clock /\ bucket' = bucket /\ born' = born /\ rewound' = rewound /\ Holders' = Holders

(* Such a step is a stutter of the account.                                  *)
LEMMA StutterStep == Unseen => UNCHANGED Account!vars
BY DEF Unseen, Holders, Account!vars

-------------------------------------------------------------------------------
(* Steps that admit *)

(* A write that admits client c, on a live item, is the account letting it   *)
(* in.                                                                       *)
LEMMA LetInStep ==
  ASSUME TypeOK, TypeOK', Funded', NEW c \in Clients, NEW e, Grant(c, e), pc[c] \notin {"open", "rollingback"},
         NotOverdrawn, \A l \in Limits : bucket'.tc[l] >= bucket.tc[l],
         \/ bucket.status = "live" /\ bucket'.status = "live"
         \/ /\ bucket.status # "live" /\ bucket'.status # "live"
            /\ \A l \in Limits : bucket'.tk[l] + bucket'.tc[l] = bucket.tk[l] + bucket.tc[l],
         rewound' - rewound \in 0..Skew, UNCHANGED <<clock, born>>
  PROVE  Account!LetIn(c)
<1>1. c \notin Holders /\ Holders' = Holders \cup {c}
  BY HoldersStep DEF Holders, Grant, Goto, PCs
<1>2. Account!Credit
  <2>1. CASE bucket.status = "live" /\ bucket'.status = "live"
    BY <2>1 DEF Account!Credit, Funded
  <2>2. CASE bucket.status # "live" /\ bucket'.status # "live"
    <3>1. ASSUME NEW l \in Limits
          PROVE  Account!Credited(l)' = Account!Credited(l)
      <4>1. Account!Base(l) = 0 /\ Account!Base(l)' = 0
        BY <2>2 DEF Account!Base
      <4>2. bucket'.tk[l] + bucket'.tc[l] = bucket.tk[l] + bucket.tc[l]
        BY <2>2
      <4>3. /\ bucket.tk[l] \in Int /\ bucket.tc[l] \in Int
            /\ bucket'.tk[l] \in Int /\ bucket'.tc[l] \in Int
        BY DEF TypeOK, BucketTypeOK, Items, Vectors
      <4> QED
        BY <4>1, <4>2, <4>3 DEF Account!Credited
    <3> QED
      BY <2>2, <3>1 DEF Account!Credit
  <2> QED
    BY <2>1, <2>2
<1> QED
  BY <1>1, <1>2 DEF Account!LetIn, NotOverdrawn, Holders

(* The conditional writes of an acquire let its client in.                   *)
LEMMA TakeStep ==
  ASSUME TypeOK, TypeOK', Funded', NEW c \in Clients, SpeculateHit(c) \/ Retry(c), ~Unseen
  PROVE  Account!LetIn(c)
<1> DEFINE m == ToMilli(req[c])
<1>1. m \in Amounts /\ m \in Vectors
  BY VectorTypes DEF TypeOK, ClientsTypeOK
<1>2. Covers(bucket, m) /\ bucket' = Take(bucket, m) /\ pc[c] \in {"speculating", "retrying"}
  <2>1. ASSUME Forget(c), pc[c] = "retrying"
        PROVE  Holders' = Holders
    <3>1. Holders' = Holders \ {c} /\ c \notin Holders
      BY <2>1, HoldersStep DEF Forget, Goto, PCs, Holders
    <3> QED
      BY <3>1
  <2>2. CASE SpeculateHit(c)
    BY <2>2 DEF SpeculateHit
  <2>3. CASE Retry(c)
    BY <2>1, <2>3 DEF Retry, Unseen, history
  <2> QED
    BY <2>2, <2>3
<1>3. \E e : Grant(c, e)
  <2>1. CASE SpeculateHit(c)
    BY <2>1 DEF SpeculateHit
  <2>2. CASE Retry(c)
    BY <1>2, <2>2 DEF Retry
  <2> QED
    BY <2>1, <2>2
<1>4. UNCHANGED <<clock, born, rewound>>
  BY DEF SpeculateHit, Retry, history
<1> HIDE DEF m
<1>5. NotOverdrawn
  BY <1>1, <1>2, TakeNotOverdrawn
<1>6. \A l \in Limits : bucket'.tc[l] >= bucket.tc[l]
  <2> TAKE l \in Limits
  <2>1. bucket'.tc[l] = bucket.tc[l] + m[l] /\ m[l] \in Nat /\ bucket.tc[l] \in Int
    BY <1>1, <1>2, TakeFields, BalanceTypes DEF Amounts
  <2> QED
    BY <2>1
<1>7. /\ \A l \in Limits : bucket'.tk[l] + bucket'.tc[l] = bucket.tk[l] + bucket.tc[l]
      /\ (bucket'.status = "live") <=> (bucket.status = "live")
  <2>1. \A l \in Limits : bucket'.tk[l] + bucket'.tc[l] = bucket.tk[l] + bucket.tc[l]
    BY <1>1, <1>2, TakeCredits
  <2>2. bucket'.status = bucket.status
    BY <1>2 DEF Take, TypeOK, BucketTypeOK, Items
  <2> QED
    BY <2>1, <2>2
<1>8. rewound' - rewound \in 0..Skew
  BY <1>4, InputAssumption DEF TypeOK, HistoryTypeOK
<1> QED
  BY <1>2, <1>3, <1>4, <1>5, <1>6, <1>7, <1>8, LetInStep

(* The normal write lets its client in: the floor in its condition holds     *)
(* whatever was written since its read, and rf moves back by the skew at     *)
(* most.                                                                     *)
LEMMA WriteNormalStep ==
  ASSUME TypeOK, TypeOK', PlansOK, Funded', NEW c \in Clients, WriteNormal(c)
  PROVE  Account!LetIn(c)
<1>1. /\ bucket.status = "live" /\ bucket.rf = plan[c].expected /\ plan[c].kind = "normal"
      /\ pc[c] = "writing" /\ Grant(c, Limits) /\ UNCHANGED <<clock, born>>
      /\ rewound' = rewound + IF plan[c].at < bucket.rf THEN bucket.rf - plan[c].at ELSE 0
  BY DEF WriteNormal, NormalCondition
<1>2. bucket'.status = "live"
  <2> DEFINE b == Take(bucket, ToMilli(req[c]))
  <2>1. b \in Items /\ b.status = bucket.status
    BY VectorTypes, RecordTypes DEF Take, TypeOK, BucketTypeOK, ClientsTypeOK, Items
  <2>2. bucket' = [b EXCEPT !.tk = Plus(@, plan[c].refill), !.rf = plan[c].at]
    BY DEF WriteNormal
  <2> HIDE DEF b
  <2> QED
    BY <1>1, <2>1, <2>2 DEF Items
<1>3. rewound' - rewound \in 0..Skew
  <2>1. plan[c].expected <= plan[c].at + Skew
    BY <1>1 DEF PlansOK, PlanOK
  <2>2. plan[c].at \in Nat /\ bucket.rf \in Nat /\ rewound \in Nat /\ Skew \in Nat
    BY InputAssumption DEF TypeOK, ClientsTypeOK, Plans, BucketTypeOK, Items, HistoryTypeOK
  <2> QED
    BY <1>1, <2>1, <2>2
<1>4. ASSUME NEW l \in Limits
      PROVE  /\ bucket'.tk[l] >= 0 \/ bucket'.tk[l] >= bucket.tk[l]
             /\ bucket'.tc[l] >= bucket.tc[l]
  <2>1. WriteNormalFields(c, l)
    BY WriteNormalEffect
  <2>2. bucket.tk[l] \in Int /\ bucket.tc[l] \in Int
    BY BalanceTypes
  <2>3. req[c][l] * Milli \in Nat
    BY MilliAssumption, Z3 DEF TypeOK, ClientsTypeOK, Amounts
  <2> QED
    BY <2>1, <2>2, <2>3 DEF WriteNormalFields
<1> QED
  BY <1>1, <1>2, <1>3, <1>4, LetInStep DEF NotOverdrawn

(* The create opens the account, within the ceiling.                         *)
LEMMA WriteCreateStep ==
  ASSUME TypeOK, PlansOK, NEW c \in Clients, WriteCreate(c)
  PROVE  Account!Open(c)
<1>1. /\ pc[c] = "writing" /\ plan[c].kind = "create" /\ bucket.status = "absent"
      /\ bucket' = Live(plan[c].at, ToMilli(req[c])) /\ Grant(c, Limits)
      /\ born' = plan[c].at /\ rewound' = 0 /\ clock' = clock
  BY DEF WriteCreate
<1>2. plan[c].at <= clock
  BY <1>1 DEF PlansOK, PlanOK
<1>3. c \notin Holders /\ Holders' = Holders \cup {c}
  BY <1>1, HoldersStep DEF Holders, Grant, Goto, PCs
<1>4. ASSUME NEW l \in Limits
      PROVE  bucket'.tc[l] \in 0..cap(l) /\ bucket'.tk[l] = cap(l) - bucket'.tc[l]
  <2> DEFINE n == req[c][l] * Milli
  <2>1. bucket'.tk[l] = cap(l) - n /\ bucket'.tc[l] = n
    BY <1>1 DEF Live, ToMilli
  <2>2. req[c][l] \in Nat /\ req[c][l] <= Capacity[l]
    BY <1>1 DEF TypeOK, ClientsTypeOK, Amounts, PlansOK, PlanOK
  <2>3. n \in Nat
    BY <2>2, MilliAssumption, Z3
  <2>4. n <= cap(l)
    BY <2>2, LimitTypes, MilliAssumption, TimesMonotone DEF cap
  <2> HIDE DEF n
  <2> QED
    BY <2>1, <2>3, <2>4, LimitTypes
<1>5. bucket'.status = "live"
  BY <1>1 DEF Live
<1> QED
  BY <1>1, <1>2, <1>3, <1>4, <1>5 DEF Account!Open, Holders

-------------------------------------------------------------------------------
(* The other steps *)

(* What ends a lease settles it: the unconditional ADD moves tk and tc by    *)
(* the same amount, on an item or on none.                                   *)
LEMMA SettleStep ==
  ASSUME TypeOK, NEW c \in Clients, c \in Holders,
         UNCHANGED bucket \/ \E m \in Vectors : WriteAdjust(m),
         UNCHANGED <<clock, born, rewound>>,
         Holders' = Holders \/ Holders' = Holders \ {c}
  PROVE  Account!Settle(c)
<1>1. /\ \A l \in Limits : bucket'.tk[l] + bucket'.tc[l] = bucket.tk[l] + bucket.tc[l]
      /\ (bucket'.status = "live") <=> (bucket.status = "live")
  <2>1. CASE UNCHANGED bucket
    BY <2>1
  <2>2. CASE \E m \in Vectors : WriteAdjust(m) /\ ~UNCHANGED bucket
    <3>1. PICK m \in Vectors : bucket' = AddTo(bucket, m)
      BY <2>2 DEF WriteAdjust
    <3>2. (bucket'.status = "live") <=> (bucket.status = "live")
      <4> DEFINE g == [bucket EXCEPT !.status = "ghost", !.names = @ \cup Asked(m)]
      <4>1. g \in Items /\ g.status = "ghost"
        BY DEF TypeOK, BucketTypeOK, Items, Asked
      <4> HIDE DEF g
      <4>2. Take(g, m).status = g.status /\ Take(bucket, m).status = bucket.status
        BY <4>1 DEF Take, TypeOK, BucketTypeOK, Items
      <4> QED
        BY <3>1, <4>1, <4>2 DEF AddTo, g
    <3> QED
      BY <3>1, <3>2, TakeCredits
  <2> QED
    BY <2>1, <2>2
<1> QED
  BY <1>1 DEF Account!Settle, Holders

(* The aggregator's write is a credit the time pays for, or nothing.         *)
LEMMA WriteRefillStep ==
  ASSUME TypeOK, RefillPlanOK, Funded', WriteRefill
  PROVE  Account!Refill \/ UNCHANGED Account!vars
<1>1. clock' = clock /\ born' = born /\ pc' = pc
  BY DEF WriteRefill
<1>2. CASE ~(bucket.status = "live" /\ bucket.rf = agg.rf)
  <2>1. Unseen
    BY <1>1, <1>2 DEF WriteRefill, Unseen, Holders
  <2> QED
    BY <2>1, StutterStep
<1>3. CASE bucket.status = "live" /\ bucket.rf = agg.rf
  <2>1. agg.at \in Nat /\ agg.add \in Amounts /\ bucket.rf \in Nat /\ rewound \in Nat /\ Skew \in Nat
    BY InputAssumption DEF TypeOK, BucketTypeOK, Refills, Items, HistoryTypeOK
  <2>2. bucket' = [bucket EXCEPT !.tk = Plus(@, agg.add), !.rf = agg.at]
    BY <1>3 DEF WriteRefill
  <2>3. bucket'.tk = Plus(bucket.tk, agg.add) /\ bucket'.tc = bucket.tc /\ bucket'.status = "live"
    BY <1>3, <2>2 DEF TypeOK, BucketTypeOK, Items
  <2>4. \A l \in Limits : bucket'.tk[l] >= bucket.tk[l]
    BY <2>1, <2>3, BalanceTypes DEF Plus, Amounts
  <2>5. rewound' - rewound \in 0..Skew
    <3>1. rewound' = rewound + IF agg.at < bucket.rf THEN bucket.rf - agg.at ELSE 0
      BY <1>3 DEF WriteRefill
    <3>2. agg.rf <= agg.at + Skew
      BY DEF WriteRefill, RefillPlanOK
    <3> QED
      BY <1>3, <2>1, <3>1, <3>2
  <2>6. Account!Credit
    BY <1>1, <1>3, <2>3, <2>5 DEF Account!Credit, Funded
  <2> QED
    BY <1>1, <2>3, <2>4, <2>6 DEF Account!Refill
<1> QED
  BY <1>2, <1>3

(* Every step of the system is a step of the account, or a stutter.          *)
LEMMA AccountStep ==
  ASSUME Inv, Funded', [Next]_vars
  PROVE  [Account!Next]_(Account!vars)
<1>0. TypeOK /\ TypeOK' /\ PlansOK /\ RefillPlanOK
  BY TypeStep DEF Inv
<1>1. CASE Tick
  BY <1>1 DEF Tick, history, Account!Pass, Account!Next
<1>2. CASE Image \/ PlanRefill \/ UNCHANGED vars
  <2>1. Unseen
    BY <1>2 DEF Image, PlanRefill, vars, history, Unseen, Holders
  <2> QED
    BY <2>1, StutterStep
<1>3. CASE WriteRefill
  BY <1>0, <1>3, WriteRefillStep DEF Account!Next
<1>4. CASE Remove
  <2>1. bucket' = Absent /\ UNCHANGED <<clock, born, rewound, pc>>
    BY <1>4 DEF Remove
  <2>2. bucket'.status = "absent" /\ bucket'.tk = Zero /\ bucket'.tc = Zero
    BY <2>1 DEF Absent
  <2> QED
    BY <2>1, <2>2 DEF Account!Close, Account!Next, Zero
<1>5. ASSUME NEW c \in Clients, ClientStep(c)
      PROVE  [Account!Next]_(Account!vars)
  <2>1. CASE SpeculateHit(c) \/ Retry(c)
    BY <1>0, <1>5, <2>1, TakeStep, StutterStep DEF Account!Next
  <2>2. CASE WriteNormal(c) \/ WriteCreate(c)
    BY <1>0, <1>5, <2>2, WriteNormalStep, WriteCreateStep DEF Account!Next
  <2>3. CASE \/ \E m \in Requests : Acquire(c, m)
             \/ SpeculateShort(c) \/ SpeculateMiss(c) \/ Read(c) \/ ComputeNormal(c)
             \/ ComputeCreate(c) \/ WriteFails(c) \/ BodyRaises(c)
             \/ \E d \in Deltas : Change(c, d)
    <3>1. UNCHANGED <<clock, bucket, born, rewound>>
      BY <2>3 DEF Acquire, SpeculateShort, SpeculateMiss, Read, ComputeNormal, ComputeCreate,
                  WriteFails, BodyRaises, Change, history
    <3>2. CASE UNCHANGED pc
      BY <3>1, <3>2, StutterStep DEF Unseen, Holders
    <3>3. CASE ~UNCHANGED pc /\ pc[c] \notin {"open", "rollingback"}
      <4>1. Goto(c, "speculating") \/ Goto(c, "reading") \/ Goto(c, "computing")
            \/ Goto(c, "writing") \/ Goto(c, "retrying") \/ Goto(c, "idle")
        BY <2>3, <3>3 DEF Acquire, SpeculateShort, SpeculateMiss, Read, ComputeNormal,
             ComputeCreate, WriteFails, BodyRaises, Change, Forget
      <4>2. Holders' = Holders \ {c} /\ c \notin Holders
        BY <1>0, <3>3, <4>1, HoldersStep DEF Goto, PCs, Holders
      <4>3. Unseen
        BY <3>1, <4>2 DEF Unseen
      <4> QED
        BY <4>3, StutterStep
    <3>4. CASE BodyRaises(c)
      <4>1. Holders' = Holders \cup {c} /\ c \in Holders
        BY <1>0, <3>4, HoldersStep DEF BodyRaises, Goto, PCs, Holders
      <4>2. Unseen
        BY <3>1, <4>1 DEF Unseen
      <4> QED
        BY <4>2, StutterStep
    <3>5. pc[c] \in {"open", "rollingback"} => BodyRaises(c) \/ UNCHANGED pc
      BY <2>3 DEF Acquire, SpeculateShort, SpeculateMiss, Read, ComputeNormal, ComputeCreate,
                  WriteFails, Change
    <3> QED
      BY <3>2, <3>3, <3>4, <3>5
  <2>4. CASE Close(c) \/ CloseFails(c) \/ Rollback(c) \/ (Crash(c) /\ c \in Holders)
    <3>1. c \in Holders
      BY <2>4 DEF Close, CloseFails, Rollback, Holders
    <3>2. UNCHANGED <<clock, born, rewound>>
      BY <2>4 DEF Close, CloseFails, Rollback, Crash
    <3>3. UNCHANGED bucket \/ \E m \in Vectors : WriteAdjust(m)
      BY <1>0, <2>4, AdjustmentType DEF Close, CloseFails, Rollback, Crash
    <3>4. Holders' = Holders \/ Holders' = Holders \ {c}
      <4>1. Goto(c, "idle") \/ Goto(c, "rollingback")
        BY <2>4 DEF Close, CloseFails, Rollback, Crash, Forget
      <4>2. Holders' = Holders \cup {c} \/ Holders' = Holders \ {c}
        BY <1>0, <4>1, HoldersStep DEF Goto, PCs
      <4> QED
        BY <3>1, <4>2
    <3> QED
      BY <1>0, <3>1, <3>2, <3>3, <3>4, SettleStep DEF Account!Next
  <2>5. CASE Crash(c) /\ c \notin Holders
    <3>1. Holders' = Holders \ {c}
      BY <1>0, <2>5, HoldersStep DEF Crash, Forget, Goto, PCs
    <3>2. Unseen
      BY <2>5, <3>1 DEF Crash, Unseen
    <3> QED
      BY <3>2, StutterStep
  <2> QED
    BY <1>5, <2>1, <2>2, <2>3, <2>4, <2>5 DEF ClientStep
<1> QED
  BY <1>1, <1>2, <1>3, <1>4, <1>5 DEF Next

-------------------------------------------------------------------------------
(* The theorem *)

(* The clients, the aggregator and whoever deletes the item, racing on it,   *)
(* together implement the ledger, for any number of each, of crashes and of  *)
(* failed calls, and any skew of the clocks.                                 *)
THEOREM LedgerImplemented == Spec => ImplementsLedger
<1>1. Init => Account!Init
  BY DEF Init, Account!Init, Absent, Zero
<1>2. Inv /\ Funded' /\ [Next]_vars => [Account!Next]_(Account!vars)
  BY AccountStep
<1>3. Inv => Funded
  BY InvFunded
<1> QED
  BY <1>1, <1>2, <1>3, InvCorrect, PTL DEF Spec, ImplementsLedger, Account!Spec

-------------------------------------------------------------------------------
(* The counters: what leases consumed *)

\* Only a client that holds a lease has one.
LeasesOK == \A c \in Clients : pc[c] \notin {"open", "rollingback"} => lease[c] = NoLease

\* Until an item is removed there is no ghost, and before it is created nobody
\* has read it, planned to add to it or consumed from it.
Untouched ==
  removals = 0 =>
    /\ bucket.status # "ghost"
    /\ bucket.status = "absent" =>
         /\ used = Zero /\ agg.kind = "none"
         /\ \A c \in Clients :
              /\ pc[c] \notin {"open", "rollingback", "retrying"}
              /\ pc[c] = "writing" => plan[c].kind = "create"
              /\ seen[c].status # "live"

HeldOf(l) == SumFunctionOnSet([c \in Clients |-> lease[c].initial[l]], Clients)

\* CountedOnce, of one limit.
Tallied(l) ==
  bucket.status = "live" /\ faults = 0 /\ removals = 0 => bucket.tc[l] = used[l] + HeldOf(l)

Tally == LeasesOK /\ Untouched /\ \A l \in Limits : Tallied(l)

\* What a writer read of the item as it is now, all but what was given back
\* since; and what a writer will add to the item as it is now still fits.
ReadOK(at, tk) ==
  at <= bucket.rf /\ (at = bucket.rf => \A l \in Limits : bucket.tk[l] <= tk[l] + returned[l])
AddsOK(at, add) ==
  at <= bucket.rf /\ (at = bucket.rf => \A l \in Limits : bucket.tk[l] + add[l] <= cap(l) + returned[l])

SeenOK(c) == seen[c].status = "live" => ReadOK(seen[c].rf, seen[c].tk)
AddedOK(c) == plan[c].kind = "normal" => AddsOK(plan[c].expected, plan[c].refill)
ImageOK ==
  /\ agg.kind = "image" => ReadOK(agg.rf, agg.tk)
  /\ agg.kind = "plan" => AddsOK(agg.rf, agg.add)

Fits ==
  bucket.status = "live" /\ removals = 0 =>
    /\ \A l \in Limits : bucket.tk[l] <= cap(l) + returned[l]
    /\ \A c \in Clients : SeenOK(c) /\ AddedOK(c)
    /\ ImageOK

(* The sum over the leases is a number, and moves with the one that changes. *)
LEMMA HeldInt ==
  ASSUME TypeOK, NEW l \in Limits
  PROVE  HeldOf(l) \in Int
<1> DEFINE f == [c \in Clients |-> lease[c].initial[l]]
<1>1. \A c \in Clients : f[c] \in Int
  BY DEF TypeOK, ClientsTypeOK, Leases, Amounts
<1> HIDE DEF f
<1>2. SumFunctionOnSet(f, Clients) \in Int
  BY <1>1, SumInt, InputAssumption
<1> QED
  BY <1>2 DEF HeldOf, f

(* Only client c's lease moves what the leases hold.                         *)
LEMMA HeldMoves ==
  ASSUME TypeOK, TypeOK', NEW l \in Limits, NEW c \in Clients,
         \A d \in Clients \ {c} : lease'[d] = lease[d]
  PROVE  HeldOf(l)' = HeldOf(l) + lease'[c].initial[l] - lease[c].initial[l]
<1> DEFINE f == [d \in Clients |-> lease[d].initial[l]]
           g == [d \in Clients |-> lease'[d].initial[l]]
<1>1. \A d \in Clients : f[d] \in Int /\ g[d] \in Int
  BY DEF TypeOK, ClientsTypeOK, Leases, Amounts
<1>2. \A d \in Clients \ {c} : f[d] = g[d]
  OBVIOUS
<1>3. f[c] = lease[c].initial[l] /\ g[c] = lease'[c].initial[l]
  OBVIOUS
<1>4. HeldOf(l) = SumFunctionOnSet(f, Clients) /\ HeldOf(l)' = SumFunctionOnSet(g, Clients)
  BY DEF HeldOf
<1> HIDE DEF f, g
<1> QED
  BY <1>1, <1>2, <1>3, <1>4, SumUpdate, InputAssumption

(* How a lease comes and goes.                                               *)
LEMMA LeaseMoves ==
  ASSUME TypeOK, NEW c \in Clients
  PROVE  /\ Forget(c) => /\ pc'[c] = "idle" /\ lease'[c] = NoLease /\ seen'[c] = Absent /\ plan'[c] = NoPlan
                         /\ \A d \in Clients \ {c} : /\ lease'[d] = lease[d] /\ pc'[d] = pc[d]
                                                     /\ seen'[d] = seen[d] /\ plan'[d] = plan[d]
         /\ \A e : Grant(c, e) =>
              /\ pc'[c] = "open" /\ lease'[c].initial = ToMilli(req[c]) /\ seen'[c] = Absent /\ plan'[c] = NoPlan
              /\ \A d \in Clients \ {c} : /\ lease'[d] = lease[d] /\ pc'[d] = pc[d]
                                          /\ seen'[d] = seen[d] /\ plan'[d] = plan[d]
BY DEF Forget, Grant, Goto, TypeOK, ClientsTypeOK

(* Every action leaves those without a lease without one.                    *)
LEMMA LeasesStep ==
  ASSUME TypeOK, LeasesOK, [Next]_vars
  PROVE  LeasesOK'
<1>1. CASE UNCHANGED <<pc, lease>>
  BY <1>1 DEF LeasesOK
<1>2. ASSUME NEW c \in Clients, Forget(c) \/ \E e : Grant(c, e)
      PROVE  LeasesOK'
  BY <1>2, LeaseMoves DEF LeasesOK
<1>3. ASSUME NEW c \in Clients, NEW p, Goto(c, p), UNCHANGED lease,
             p \in {"open", "rollingback"} \/ pc[c] \notin {"open", "rollingback"}
      PROVE  LeasesOK'
  BY <1>3 DEF LeasesOK, Goto, TypeOK, ClientsTypeOK
<1>4. CASE Tick \/ Image \/ PlanRefill \/ WriteRefill \/ Remove \/ UNCHANGED vars
  BY <1>1, <1>4 DEF Tick, Image, PlanRefill, WriteRefill, Remove, vars
<1>5. ASSUME NEW c \in Clients, ClientStep(c)
      PROVE  LeasesOK'
  <2>1. CASE \E m \in Requests : Acquire(c, m)
    BY <1>3, <2>1 DEF Acquire
  <2>2. CASE SpeculateHit(c) \/ WriteCreate(c) \/ WriteNormal(c) \/ Retry(c) \/ Close(c) \/ Rollback(c) \/ Crash(c)
    BY <1>2, <2>2 DEF SpeculateHit, WriteCreate, WriteNormal, Retry, Close, Rollback, Crash
  <2>3. CASE SpeculateShort(c) \/ SpeculateMiss(c) \/ Read(c) \/ WriteFails(c)
    BY <1>2, <1>3, <2>3 DEF SpeculateShort, SpeculateMiss, Read, WriteFails
  <2>4. CASE ComputeNormal(c) \/ ComputeCreate(c)
    BY <1>2, <1>3, <2>4 DEF ComputeNormal, ComputeCreate
  <2>5. CASE \E d \in Deltas : Change(c, d)
    BY <2>5 DEF Change, LeasesOK, TypeOK, ClientsTypeOK
  <2>6. CASE CloseFails(c) \/ BodyRaises(c)
    BY <1>3, <2>6 DEF CloseFails, BodyRaises
  <2> QED
    BY <1>5, <2>1, <2>2, <2>3, <2>4, <2>5, <2>6 DEF ClientStep
<1> QED
  BY <1>4, <1>5 DEF Next

(* What the writes leave of the item's status.                               *)
LEMMA StatusMoves ==
  ASSUME TypeOK, NEW m
  PROVE  /\ Take(bucket, m).status = bucket.status
         /\ bucket.status = "live" => AddTo(bucket, m) = Take(bucket, m)
         /\ WriteAdjust(m) /\ bucket.status = "live" => bucket'.status = "live"
         /\ WriteAdjust(m) /\ bucket.status # "absent" => bucket'.status # "absent"
<1>1. ASSUME NEW b \in Items
      PROVE  Take(b, m).status = b.status
  BY DEF Take, Items
<1>2. bucket \in Items
  BY DEF TypeOK, BucketTypeOK
<1>3. AddTo(bucket, m).status # "absent"
  <2>1. CASE bucket.status = "live"
    BY <1>1, <1>2, <2>1 DEF AddTo
  <2>2. CASE bucket.status # "live"
    <3> DEFINE g == [bucket EXCEPT !.status = "ghost", !.names = @ \cup Asked(m)]
    <3>1. g \in Items /\ g.status = "ghost"
      BY <1>2 DEF Items, Asked
    <3>2. AddTo(bucket, m) = Take(g, m)
      BY <2>2 DEF AddTo
    <3> HIDE DEF g
    <3> QED
      BY <1>1, <3>1, <3>2
  <2> QED
    BY <2>1, <2>2
<1> QED
  BY <1>1, <1>2, <1>3 DEF AddTo, WriteAdjust

(* What has failed, or was removed, stays so.                                *)
LEMMA FaultsStay ==
  ASSUME TypeOK, [Next]_vars
  PROVE  (faults' = 0 => faults = 0) /\ (removals' = 0 => removals = 0)
<1>0. faults \in Nat /\ removals \in Nat
  BY DEF TypeOK, HistoryTypeOK
<1>1. CASE Tick \/ Image \/ PlanRefill \/ WriteRefill \/ UNCHANGED vars
  BY <1>1 DEF Tick, Image, PlanRefill, WriteRefill, vars, history
<1>2. CASE Remove
  BY <1>0, <1>2 DEF Remove
<1>3. ASSUME NEW c \in Clients, ClientStep(c)
      PROVE  removals' = removals /\ (faults' = 0 => faults = 0)
  <2>1. CASE \E m \in Requests : Acquire(c, m)
    BY <2>1 DEF Acquire
  <2>2. CASE SpeculateHit(c) \/ SpeculateShort(c) \/ SpeculateMiss(c) \/ Read(c) \/ ComputeNormal(c) \/ ComputeCreate(c)
    BY <2>2 DEF SpeculateHit, SpeculateShort, SpeculateMiss, Read, ComputeNormal, ComputeCreate, history
  <2>3. CASE WriteCreate(c) \/ WriteNormal(c) \/ WriteFails(c) \/ Retry(c)
    BY <2>3 DEF WriteCreate, WriteNormal, WriteFails, Retry, history
  <2>4. CASE \E d \in Deltas : Change(c, d)
    BY <2>4 DEF Change, history
  <2>5. CASE Close(c) \/ CloseFails(c) \/ BodyRaises(c) \/ Rollback(c) \/ Crash(c)
    BY <1>0, <2>5 DEF Close, CloseFails, BodyRaises, Rollback, Crash, history
  <2> QED
    BY <1>3, <2>1, <2>2, <2>3, <2>4, <2>5 DEF ClientStep
<1> QED
  BY <1>1, <1>2, <1>3 DEF Next

(* Every action leaves an item that is not yet there untouched.              *)
LEMMA UntouchedStep ==
  ASSUME TypeOK, LeasesOK, Untouched, [Next]_vars
  PROVE  Untouched'
<1> SUFFICES ASSUME removals' = 0
             PROVE  /\ bucket'.status # "ghost"
                    /\ bucket'.status = "absent" =>
                         /\ used' = Zero /\ agg'.kind = "none"
                         /\ \A c \in Clients :
                              /\ pc'[c] \notin {"open", "rollingback", "retrying"}
                              /\ pc'[c] = "writing" => plan'[c].kind = "create"
                              /\ seen'[c].status # "live"
  BY DEF Untouched, Zero
<1> DEFINE Bare == /\ used = Zero /\ agg.kind = "none"
                   /\ \A c \in Clients : /\ pc[c] \notin {"open", "rollingback", "retrying"}
                                         /\ pc[c] = "writing" => plan[c].kind = "create"
                                         /\ seen[c].status # "live"
<1>0. removals \in Nat
  BY DEF TypeOK, HistoryTypeOK
<1>1. removals = 0
  BY FaultsStay
<1>2. bucket.status # "ghost" /\ (bucket.status = "absent" => Bare) /\ bucket.status \in {"absent", "live", "ghost"}
  BY <1>1 DEF Untouched, TypeOK, BucketTypeOK, Items
<1>3. CASE Tick \/ Image \/ PlanRefill \/ UNCHANGED vars
  <2>1. CASE Tick \/ UNCHANGED vars
    BY <1>2, <2>1 DEF Tick, vars, history, Zero
  <2>2. CASE Image
    BY <1>2, <2>2 DEF Image, history
  <2>3. CASE PlanRefill
    BY <1>2, <2>3 DEF PlanRefill, history
  <2> QED
    BY <1>3, <2>1, <2>2, <2>3
<1>4. CASE Remove
  BY <1>0, <1>1, <1>4 DEF Remove
<1>5. CASE WriteRefill
  <2>1. bucket' = bucket \/ bucket'.status = "live"
    BY <1>5 DEF WriteRefill, TypeOK, BucketTypeOK, Items
  <2> QED
    BY <1>2, <1>5, <2>1 DEF WriteRefill, NoImage
<1>6. ASSUME NEW c \in Clients, NEW p, Goto(c, p), UNCHANGED <<bucket, used, agg, plan>>,
             p \notin {"open", "rollingback", "retrying", "writing"} \/ bucket.status # "absent",
             \A d \in Clients : seen'[d] = seen[d] \/ seen'[d].status # "live" \/ bucket.status # "absent"
      PROVE  bucket'.status # "ghost" /\ (bucket'.status = "absent" => Bare')
  BY <1>2, <1>6 DEF Goto, TypeOK, ClientsTypeOK, Zero
<1>7. ASSUME NEW c \in Clients, Forget(c), UNCHANGED <<bucket, used, agg>>
      PROVE  bucket'.status # "ghost" /\ (bucket'.status = "absent" => Bare')
  BY <1>2, <1>7, LeaseMoves DEF Zero, Absent
<1>8. ASSUME NEW c \in Clients, ClientStep(c)
      PROVE  bucket'.status # "ghost" /\ (bucket'.status = "absent" => Bare')
  <2>1. CASE \E m \in Requests : Acquire(c, m)
    BY <1>6, <2>1 DEF Acquire
  <2>2. CASE SpeculateShort(c) \/ SpeculateMiss(c)
    BY <1>6, <1>7, <2>2 DEF SpeculateShort, SpeculateMiss, history
  <2>3. CASE Read(c)
    <3>1. \A d \in Clients : seen'[d] = seen[d] \/ seen'[d].status # "live" \/ bucket.status # "absent"
      BY <2>3 DEF Read, TypeOK, ClientsTypeOK, Absent
    <3> QED
      BY <1>6, <2>3, <3>1 DEF Read, history
  <2>4. CASE SpeculateHit(c)
    <3>1. bucket'.status = "live"
      BY <2>4, StatusMoves DEF SpeculateHit
    <3> QED
      BY <3>1
  <2>5. CASE ComputeNormal(c)
    <3>1. bucket.status = "live" /\ bucket' = bucket
      BY <1>2, <2>5 DEF ComputeNormal
    <3> QED
      BY <3>1
  <2>6. CASE ComputeCreate(c)
    <3>1. CASE Forget(c)
      BY <1>7, <2>6, <3>1 DEF ComputeCreate, history
    <3>2. CASE ~Forget(c)
      <4>1. /\ UNCHANGED <<bucket, used, agg, seen>> /\ Goto(c, "writing")
            /\ \E p \in Plans : p.kind = "create" /\ plan' = [plan EXCEPT ![c] = p]
        <5>1. PICK at \in Readings :
                plan' = [plan EXCEPT ![c] = [kind |-> "create", expected |-> 0, at |-> at, refill |-> Zero]]
          BY <2>6, <3>2 DEF ComputeCreate
        <5>2. [kind |-> "create", expected |-> 0, at |-> at, refill |-> Zero] \in Plans
          BY ReadingsType DEF Plans, Zero, Vectors
        <5> QED
          BY <2>6, <3>2, <5>1, <5>2 DEF ComputeCreate, history
      <4> QED
        BY <1>2, <4>1 DEF Goto, TypeOK, ClientsTypeOK, Zero
    <3> QED
      BY <3>1, <3>2
  <2>7. CASE WriteCreate(c)
    BY <2>7 DEF WriteCreate, Live
  <2>8. CASE WriteNormal(c)
    <3>1. bucket.status = "live" /\ bucket' = [Take(bucket, ToMilli(req[c])) EXCEPT
                  !.tk = Plus(@, plan[c].refill), !.rf = plan[c].at]
      BY <2>8 DEF WriteNormal, NormalCondition
    <3>2. Take(bucket, ToMilli(req[c])).status = "live" /\ Take(bucket, ToMilli(req[c])) \in Items
      BY <3>1, StatusMoves, RecordTypes, VectorTypes DEF TypeOK, BucketTypeOK, ClientsTypeOK
    <3>3. bucket'.status = "live"
      BY <3>1, <3>2 DEF Items
    <3> QED
      BY <3>3
  <2>9. CASE WriteFails(c)
    <3>1. bucket.status # "absent" /\ bucket' = bucket
      BY <1>2, <2>9 DEF WriteFails
    <3> QED
      BY <1>2, <3>1
  <2>10. CASE Retry(c)
    <3>1. bucket.status = "live"
      BY <1>2, <2>10 DEF Retry
    <3>2. bucket'.status = "live"
      BY <2>10, <3>1, StatusMoves DEF Retry
    <3> QED
      BY <3>2
  <2>11. CASE Close(c) \/ CloseFails(c) \/ Rollback(c) \/ BodyRaises(c) \/ \E d \in Deltas : Change(c, d)
    <3>1. bucket.status = "live"
      BY <1>2, <2>11 DEF Close, CloseFails, Rollback, BodyRaises, Change
    <3>2. bucket' = bucket \/ \E m : WriteAdjust(m)
      BY <2>11 DEF Close, CloseFails, Rollback, BodyRaises, Change
    <3>3. bucket'.status = "live"
      BY <3>1, <3>2, StatusMoves
    <3> QED
      BY <3>3
  <2>12. CASE Crash(c)
    BY <1>7, <2>12 DEF Crash
  <2> QED
    BY <1>8, <2>1, <2>2, <2>3, <2>4, <2>5, <2>6, <2>7, <2>8, <2>9, <2>10, <2>11, <2>12 DEF ClientStep
<1> QED
  BY <1>3, <1>4, <1>5, <1>8 DEF Next

(* The item's counters after an unconditional write on the live item.        *)
LEMMA WriteAdjustCounts ==
  ASSUME TypeOK, bucket.status = "live", NEW m \in Vectors, WriteAdjust(m), NEW l \in Limits
  PROVE  bucket'.tc[l] = bucket.tc[l] + m[l] /\ bucket'.status = "live"
<1>1. bucket.tc[l] \in Int /\ m[l] \in Int
  BY DEF TypeOK, BucketTypeOK, Items, Vectors
<1>2. CASE Asked(m) = {}
  BY <1>1, <1>2 DEF WriteAdjust, Asked
<1>3. CASE Asked(m) # {}
  <2>1. bucket' = Take(bucket, m)
    BY <1>3 DEF WriteAdjust, AddTo
  <2> QED
    BY <2>1, TakeFields
<1> QED
  BY <1>2, <1>3

(* A live, never removed item: what it counts moves with the leases.         *)
Moved(l, n) ==
  bucket.status = "live" /\ bucket'.tc[l] = bucket.tc[l] + n
    /\ used'[l] + HeldOf(l)' = used[l] + HeldOf(l) + n

(* A granted lease is counted by the write that admits it.                   *)
LEMMA GrantMoves ==
  ASSUME TypeOK, TypeOK', LeasesOK, NEW c \in Clients, pc[c] \notin {"open", "rollingback"},
         NEW e, Grant(c, e), used' = used, bucket.status = "live", NEW l \in Limits,
         bucket'.tc[l] = bucket.tc[l] + ToMilli(req[c])[l]
  PROVE  \E n \in Int : Moved(l, n)
<1>1. lease[c].initial[l] = 0
  BY DEF LeasesOK, NoLease, Zero
<1>2. lease'[c].initial = ToMilli(req[c]) /\ \A d \in Clients \ {c} : lease'[d] = lease[d]
  BY LeaseMoves
<1>3. ToMilli(req[c])[l] \in Int
  BY VectorTypes DEF TypeOK, ClientsTypeOK, Amounts
<1>4. HeldOf(l)' = HeldOf(l) + ToMilli(req[c])[l] - 0
  BY <1>1, <1>2, HeldMoves
<1>5. HeldOf(l) \in Int /\ used[l] \in Int
  BY HeldInt DEF TypeOK, HistoryTypeOK, Vectors
<1> QED
  BY <1>3, <1>4, <1>5 DEF Moved

(* Nothing moves if neither the item's counters nor a lease do.              *)
LEMMA TallyKept ==
  ASSUME TypeOK, NEW l \in Limits, bucket.status = "live", bucket'.tc = bucket.tc, used' = used,
         \A c \in Clients : lease'[c].initial = lease[c].initial
  PROVE  \E n \in Int : Moved(l, n)
<1>1. HeldOf(l)' = HeldOf(l)
  <2> DEFINE f == [c \in Clients |-> lease[c].initial[l]]
             g == [c \in Clients |-> lease'[c].initial[l]]
  <2>1. f = g
    OBVIOUS
  <2> QED
    BY <2>1 DEF HeldOf
<1>2. HeldOf(l) \in Int /\ used[l] \in Int /\ bucket.tc[l] \in Int
  BY HeldInt DEF TypeOK, HistoryTypeOK, BucketTypeOK, Items, Vectors
<1>3. Moved(l, 0)
  BY <1>1, <1>2 DEF Moved
<1> QED
  BY <1>3

(* A creation counts the lease it admits, and there is no other.             *)
LEMMA CreateTallies ==
  ASSUME TypeOK, TypeOK', LeasesOK, LeasesOK', Untouched, removals = 0,
         NEW c \in Clients, WriteCreate(c), NEW l \in Limits
  PROVE  bucket'.tc[l] = used'[l] + HeldOf(l)'
<1>1. used = Zero /\ \A d \in Clients : lease[d] = NoLease
  BY DEF Untouched, WriteCreate, LeasesOK
<1>2. HeldOf(l) = 0
  <2> DEFINE f == [d \in Clients |-> lease[d].initial[l]]
  <2>1. \A d \in Clients : f[d] = 0
    BY <1>1 DEF NoLease, Zero
  <2> HIDE DEF f
  <2>2. SumFunctionOnSet(f, Clients) = 0
    BY <2>1, SumZero, InputAssumption
  <2> QED
    BY <2>2 DEF HeldOf, f
<1>3. lease'[c].initial = ToMilli(req[c]) /\ \A d \in Clients \ {c} : lease'[d] = lease[d]
  BY LeaseMoves DEF WriteCreate
<1>4. lease[c].initial[l] = 0
  BY <1>1 DEF NoLease, Zero
<1>5. HeldOf(l)' = 0 + ToMilli(req[c])[l] - 0
  BY <1>2, <1>3, <1>4, HeldMoves
<1>6. bucket'.tc[l] = ToMilli(req[c])[l] /\ ToMilli(req[c])[l] \in Int /\ used'[l] = 0
  BY <1>1, VectorTypes DEF WriteCreate, Live, TypeOK, ClientsTypeOK, Amounts, Zero
<1> QED
  BY <1>5, <1>6

(* Every action of a client moves the counters with the leases, creates the  *)
(* item, or is a fault.                                                      *)
LEMMA ClientTallies ==
  ASSUME TypeOK, TypeOK', LeasesOK, Untouched, removals = 0, bucket.status = "live",
         NEW c \in Clients, ClientStep(c), faults' = 0, NEW l \in Limits
  PROVE  \E n \in Int : Moved(l, n)
<1>0. faults \in Nat
  BY DEF TypeOK, HistoryTypeOK
<1>1. ASSUME UNCHANGED <<bucket, used>>, \A d \in Clients : lease'[d].initial = lease[d].initial
      PROVE  \E n \in Int : Moved(l, n)
  BY <1>1, TallyKept
<1>2. ASSUME UNCHANGED <<bucket, used>>, Forget(c), pc[c] \notin {"open", "rollingback"}
      PROVE  \E n \in Int : Moved(l, n)
  <2>1. \A d \in Clients : lease'[d].initial = lease[d].initial
    BY <1>2, LeaseMoves DEF LeasesOK
  <2> QED
    BY <1>1, <1>2, <2>1
<1>3. CASE \E m \in Requests : Acquire(c, m)
  BY <1>1, <1>3 DEF Acquire
<1>4. CASE SpeculateShort(c) \/ SpeculateMiss(c)
  BY <1>1, <1>2, <1>4 DEF SpeculateShort, SpeculateMiss, history
<1>5. CASE Read(c) \/ WriteFails(c) \/ BodyRaises(c)
  BY <1>1, <1>5 DEF Read, WriteFails, BodyRaises, history
<1>6. CASE ComputeNormal(c) \/ ComputeCreate(c)
  BY <1>1, <1>2, <1>6 DEF ComputeNormal, ComputeCreate, history
<1>7. CASE SpeculateHit(c)
  <2>1. ToMilli(req[c]) \in Vectors
    BY VectorTypes DEF TypeOK, ClientsTypeOK
  <2>2. bucket'.tc[l] = bucket.tc[l] + ToMilli(req[c])[l]
    BY <1>7, <2>1, TakeFields DEF SpeculateHit
  <2> QED
    BY <1>7, <2>2, GrantMoves DEF SpeculateHit, history
<1>8. CASE WriteCreate(c)
  BY <1>8 DEF WriteCreate
<1>9. CASE WriteNormal(c)
  <2>1. bucket'.tc[l] = bucket.tc[l] + ToMilli(req[c])[l]
    BY <1>9, WriteNormalEffect DEF WriteNormalFields, ToMilli
  <2> QED
    BY <1>9, <2>1, GrantMoves DEF WriteNormal
<1>10. CASE Retry(c)
  <2>1. ToMilli(req[c]) \in Vectors
    BY VectorTypes DEF TypeOK, ClientsTypeOK
  <2>2. CASE Covers(bucket, ToMilli(req[c]))
    <3>1. bucket'.tc[l] = bucket.tc[l] + ToMilli(req[c])[l]
      BY <1>10, <2>1, <2>2, TakeFields DEF Retry
    <3> QED
      BY <1>10, <2>2, <3>1, GrantMoves DEF Retry, history
  <2>3. CASE ~Covers(bucket, ToMilli(req[c]))
    BY <1>2, <1>10, <2>3 DEF Retry, history
  <2> QED
    BY <2>2, <2>3
<1>11. CASE \E d \in Deltas : Change(c, d)
  <2>1. \A d \in Clients : lease'[d].initial = lease[d].initial
    BY <1>11 DEF Change, TypeOK, ClientsTypeOK, Leases
  <2> QED
    BY <1>1, <1>11, <2>1 DEF Change, history
<1>12. CASE Close(c)
  <2> DEFINE n == lease[c].want[l] - lease[c].initial[l]
  <2>1. lease[c].initial[l] \in Int /\ lease[c].want[l] \in Int /\ used[l] \in Int /\ HeldOf(l) \in Int
    BY HeldInt DEF TypeOK, ClientsTypeOK, HistoryTypeOK, Leases, Amounts, Vectors
  <2>2. Adjustment(c) \in Vectors /\ Adjustment(c)[l] = n
    BY AdjustmentType DEF Adjustment, Minus
  <2>3. bucket'.tc[l] = bucket.tc[l] + n
    BY <1>12, <2>2, WriteAdjustCounts DEF Close
  <2>4. used'[l] = used[l] + lease[c].want[l]
    BY <1>12 DEF Close, Plus
  <2>5. lease'[c] = NoLease /\ \A d \in Clients \ {c} : lease'[d] = lease[d]
    BY <1>12, LeaseMoves DEF Close
  <2>6. lease'[c].initial[l] = 0
    BY <2>5 DEF NoLease, Zero
  <2>7. HeldOf(l)' = HeldOf(l) + 0 - lease[c].initial[l]
    BY <2>5, <2>6, HeldMoves
  <2>8. used'[l] + HeldOf(l)' = used[l] + HeldOf(l) + n /\ n \in Int
    BY <2>1, <2>4, <2>7
  <2> QED
    BY <2>3, <2>8 DEF Moved
<1>13. CASE Rollback(c)
  <2> DEFINE m == [k \in Limits |-> -lease[c].initial[k]]
  <2>1. lease[c].initial[l] \in Int /\ used[l] \in Int /\ HeldOf(l) \in Int
    BY HeldInt DEF TypeOK, ClientsTypeOK, HistoryTypeOK, Leases, Amounts, Vectors
  <2>2. m \in Vectors /\ m[l] = -lease[c].initial[l]
    BY AdjustmentType
  <2>3. WriteAdjust(m) /\ used' = used
    BY <1>13 DEF Rollback
  <2> HIDE DEF m
  <2>4. bucket'.tc[l] = bucket.tc[l] + (-lease[c].initial[l])
    BY <2>2, <2>3, WriteAdjustCounts
  <2>5. lease'[c] = NoLease /\ \A d \in Clients \ {c} : lease'[d] = lease[d]
    BY <1>13, LeaseMoves DEF Rollback
  <2>6. lease'[c].initial[l] = 0
    BY <2>5 DEF NoLease, Zero
  <2>7. HeldOf(l)' = HeldOf(l) + 0 - lease[c].initial[l]
    BY <2>5, <2>6, HeldMoves
  <2>8. used'[l] + HeldOf(l)' = used[l] + HeldOf(l) + (-lease[c].initial[l]) /\ -lease[c].initial[l] \in Int
    BY <2>1, <2>3, <2>7
  <2> QED
    BY <2>4, <2>8 DEF Moved
<1>14. CASE CloseFails(c) \/ Crash(c)
  BY <1>0, <1>14 DEF CloseFails, Crash
<1> QED
  BY <1>3, <1>4, <1>5, <1>6, <1>7, <1>8, <1>9, <1>10, <1>11, <1>12, <1>13, <1>14 DEF ClientStep

(* The item is created by a slow path's create, and by nothing else.          *)
LEMMA CreatedBy ==
  ASSUME Untouched, removals = 0, [Next]_vars, bucket.status = "absent", bucket'.status = "live"
  PROVE  \E c \in Clients : WriteCreate(c)
<1>1. \A c \in Clients : pc[c] \notin {"open", "rollingback", "retrying"}
  BY DEF Untouched
<1>2. \A c \in Clients : pc[c] = "writing" => plan[c].kind = "create"
  BY DEF Untouched
<1>3. CASE Tick \/ Image \/ PlanRefill \/ WriteRefill \/ Remove \/ UNCHANGED vars
  <2>1. bucket' = bucket \/ bucket'.status = "absent"
    BY <1>3 DEF Tick, Image, PlanRefill, WriteRefill, Remove, Absent, vars
  <2> QED
    BY <2>1
<1>4. ASSUME NEW c \in Clients, ClientStep(c)
      PROVE  WriteCreate(c)
  <2>1. CASE \E m \in Requests : Acquire(c, m)
    BY <2>1 DEF Acquire
  <2>2. CASE SpeculateHit(c) \/ SpeculateShort(c) \/ SpeculateMiss(c) \/ Read(c) \/ ComputeNormal(c) \/ ComputeCreate(c)
    BY <2>2 DEF SpeculateHit, SpeculateShort, SpeculateMiss, Read, ComputeNormal, ComputeCreate
  <2>3. CASE WriteNormal(c) \/ WriteFails(c) \/ Retry(c)
    BY <1>1, <1>2, <2>3 DEF WriteNormal, WriteFails, Retry
  <2>4. CASE \E d \in Deltas : Change(c, d)
    BY <1>1, <2>4 DEF Change
  <2>5. CASE Close(c) \/ CloseFails(c) \/ BodyRaises(c) \/ Rollback(c)
    BY <1>1, <2>5 DEF Close, CloseFails, BodyRaises, Rollback
  <2>6. CASE Crash(c)
    BY <2>6 DEF Crash
  <2> QED
    BY <1>4, <2>1, <2>2, <2>3, <2>4, <2>5, <2>6 DEF ClientStep
<1> QED
  BY <1>3, <1>4 DEF Next

(* Until the first fault or removal, the item that is live now was created   *)
(* in this step or was live before.                                          *)
LEMMA TalliedStep ==
  ASSUME TypeOK, TypeOK', LeasesOK, LeasesOK', Untouched, [Next]_vars,
         NEW l \in Limits, Tallied(l)
  PROVE  Tallied(l)'
<1> SUFFICES ASSUME bucket'.status = "live", faults' = 0, removals' = 0
             PROVE  bucket'.tc[l] = used'[l] + HeldOf(l)'
  BY DEF Tallied
<1>0. faults \in Nat /\ removals \in Nat
  BY DEF TypeOK, HistoryTypeOK
<1>1. CASE Remove
  BY <1>1 DEF Remove, Absent
<1>2. CASE ~Remove
  <2>1. faults = 0 /\ removals = 0
    BY FaultsStay
  <2>2. ASSUME NEW n \in Int, Moved(l, n)
        PROVE  bucket'.tc[l] = used'[l] + HeldOf(l)'
    <3>1. bucket.tc[l] = used[l] + HeldOf(l)
      BY <2>1, <2>2 DEF Tallied, Moved
    <3> QED
      BY <2>2, <3>1 DEF Moved
  <2>3. CASE bucket.status = "live"
    <3>1. CASE Tick \/ Image \/ PlanRefill \/ WriteRefill \/ UNCHANGED vars
      <4>1. bucket'.tc = bucket.tc /\ used' = used /\ lease' = lease
        <5>1. CASE WriteRefill
          BY <5>1 DEF WriteRefill, TypeOK, BucketTypeOK, Items
        <5>2. CASE Tick \/ Image \/ PlanRefill \/ UNCHANGED vars
          BY <5>2 DEF Tick, Image, PlanRefill, vars, history
        <5> QED
          BY <3>1, <5>1, <5>2
      <4> QED
        BY <2>2, <2>3, <4>1, TallyKept
    <3>2. ASSUME NEW c \in Clients, ClientStep(c)
          PROVE  bucket'.tc[l] = used'[l] + HeldOf(l)'
      BY <2>1, <2>2, <2>3, <3>2, ClientTallies
    <3> QED
      BY <1>2, <3>1, <3>2 DEF Next
  <2>4. CASE bucket.status # "live"
    <3>1. bucket.status = "absent"
      BY <2>1, <2>4 DEF Untouched, TypeOK, BucketTypeOK, Items
    <3>2. \E c \in Clients : WriteCreate(c)
      BY <2>1, <3>1, CreatedBy
    <3> QED
      BY <2>1, <3>2, CreateTallies
  <2> QED
    BY <2>3, <2>4
<1> QED
  BY <1>1, <1>2

(* Nothing is consumed and nothing counted at the start.                     *)
LEMMA TallyInit == Init => Tally
<1> SUFFICES ASSUME Init
             PROVE  Tally
  OBVIOUS
<1>1. bucket.status = "absent" /\ agg.kind = "none" /\ used = Zero /\ \A c \in Clients : seen[c].status = "absent"
  BY DEF Init, Absent, NoImage
<1> QED
  BY <1>1 DEF Init, Tally, LeasesOK, Untouched, Tallied

(* Every step counts what it consumes.                                       *)
LEMMA TallyStep == TypeOK /\ Tally /\ [Next]_vars => Tally'
<1> SUFFICES ASSUME TypeOK, Tally, [Next]_vars
             PROVE  Tally'
  OBVIOUS
<1>1. TypeOK' /\ LeasesOK' /\ Untouched'
  BY TypeStep, LeasesStep, UntouchedStep DEF Tally
<1>2. ASSUME NEW l \in Limits
      PROVE  Tallied(l)'
  BY <1>1, TalliedStep DEF Tally
<1> QED
  BY <1>1, <1>2 DEF Tally

(* Every token is counted once: by the lease that ended well with it, or by  *)
(* the open one that took it on enter.                                       *)
THEOREM ConsumptionCounted == Spec => []CountedOnce
<1>1. Tally => CountedOnce
  BY DEF Tally, Tallied, CountedOnce, HeldOf, SumFunction
<1> QED
  BY <1>1, TypeCorrect, TallyInit, TallyStep, PTL DEF Spec

-------------------------------------------------------------------------------
(* The ceiling *)

\* The item stays, and at the same rf it grows by what is given back only.
ItemMoves ==
  /\ bucket.status = "live" /\ bucket'.status = "live"
  /\ \A l \in Limits : returned[l] <= returned'[l]
  /\ \/ bucket'.rf = bucket.rf /\ \A l \in Limits : bucket'.tk[l] + returned[l] <= bucket.tk[l] + returned'[l]
     \/ bucket.rf < bucket'.rf /\ \A l \in Limits : bucket'.tk[l] <= cap(l) + returned'[l]

(* Then what was read of it still tells what it holds at most, and what was  *)
(* to be added to it still fits.                                             *)
LEMMA ReadKept ==
  ASSUME TypeOK, TypeOK', ItemMoves, NEW at \in Nat, NEW tk \in Vectors
  PROVE  /\ ReadOK(at, tk) =>
              /\ at <= bucket'.rf
              /\ at = bucket'.rf => \A l \in Limits : bucket'.tk[l] <= tk[l] + returned'[l]
         /\ AddsOK(at, tk) =>
              /\ at <= bucket'.rf
              /\ at = bucket'.rf => \A l \in Limits : bucket'.tk[l] + tk[l] <= cap(l) + returned'[l]
<1>1. bucket.rf \in Nat /\ bucket'.rf \in Nat
  BY DEF TypeOK, BucketTypeOK, Items
<1>2. \A l \in Limits : /\ bucket.tk[l] \in Int /\ bucket'.tk[l] \in Int /\ tk[l] \in Int /\ cap(l) \in Int
                        /\ returned[l] \in Int /\ returned'[l] \in Int
  BY LimitTypes DEF TypeOK, BucketTypeOK, HistoryTypeOK, Items, Vectors, Amounts
<1>3. CASE bucket'.rf = bucket.rf /\ \A l \in Limits : bucket'.tk[l] + returned[l] <= bucket.tk[l] + returned'[l]
  BY <1>1, <1>2, <1>3 DEF ReadOK, AddsOK
<1>4. CASE bucket.rf < bucket'.rf
  BY <1>1, <1>4 DEF ReadOK, AddsOK
<1> QED
  BY <1>3, <1>4 DEF ItemMoves

(* So what fitted fits, if what a step reads or plans anew does.             *)
LEMMA FitsKept ==
  ASSUME TypeOK, TypeOK', Fits, removals = 0, ItemMoves,
         \A c \in Clients : /\ seen'[c] = seen[c] \/ SeenOK(c)'
                            /\ plan'[c] = plan[c] \/ AddedOK(c)',
         agg' = agg \/ ImageOK'
  PROVE  Fits'
<1>0. /\ \A l \in Limits : bucket.tk[l] <= cap(l) + returned[l]
      /\ \A c \in Clients : SeenOK(c) /\ AddedOK(c)
      /\ ImageOK
  BY DEF Fits, ItemMoves
<1>1. \A l \in Limits : bucket'.tk[l] <= cap(l) + returned'[l]
  <2>1. \A l \in Limits : /\ bucket.tk[l] \in Int /\ bucket'.tk[l] \in Int /\ cap(l) \in Int
                          /\ returned[l] \in Int /\ returned'[l] \in Int
    BY LimitTypes DEF TypeOK, BucketTypeOK, HistoryTypeOK, Items, Vectors, Amounts
  <2> QED
    BY <1>0, <2>1 DEF ItemMoves
<1>2. ASSUME NEW c \in Clients
      PROVE  SeenOK(c)' /\ AddedOK(c)'
  <2>1. seen[c].rf \in Nat /\ seen[c].tk \in Vectors /\ plan[c].expected \in Nat /\ plan[c].refill \in Vectors
    BY DEF TypeOK, ClientsTypeOK, Readables, Items, Plans
  <2>2. SeenOK(c)'
    BY <1>0, <2>1, ReadKept DEF SeenOK, ReadOK
  <2>3. AddedOK(c)'
    BY <1>0, <2>1, ReadKept DEF AddedOK, AddsOK
  <2> QED
    BY <2>2, <2>3
<1>3. ImageOK'
  <2>1. agg.rf \in Nat /\ agg.tk \in Vectors /\ agg.add \in Vectors
    BY VectorTypes DEF TypeOK, BucketTypeOK, Refills
  <2>2. CASE agg' = agg
    BY <1>0, <2>1, <2>2, ReadKept DEF ImageOK, ReadOK, AddsOK
  <2> QED
    BY <2>2
<1> QED
  BY <1>1, <1>2, <1>3 DEF Fits

(* An acquire that ends, or is granted, has nothing left to write.           *)
LEMMA FitsDone ==
  ASSUME TypeOK, TypeOK', Fits, removals = 0, ItemMoves, agg' = agg, NEW c \in Clients,
         Forget(c) \/ \E e : Grant(c, e)
  PROVE  Fits'
<1>1. /\ seen'[c] = Absent /\ plan'[c] = NoPlan
      /\ \A d \in Clients \ {c} : seen'[d] = seen[d] /\ plan'[d] = plan[d]
  BY LeaseMoves
<1>2. SeenOK(c)' /\ AddedOK(c)'
  BY <1>1 DEF SeenOK, AddedOK, Absent, NoPlan
<1> QED
  BY <1>1, <1>2, FitsKept

(* A step that leaves the item alone, or takes from it, moves it so.         *)
LEMMA SameItem ==
  ASSUME TypeOK, TypeOK', bucket.status = "live", UNCHANGED <<bucket, returned>>
  PROVE  ItemMoves
BY DEF ItemMoves, TypeOK, BucketTypeOK, HistoryTypeOK, Items, Vectors, Amounts

(* A conditional ADD takes tokens from a live item and gives back none.      *)
LEMMA TakenItem ==
  ASSUME TypeOK, TypeOK', bucket.status = "live", returned' = returned,
         NEW m \in Amounts, bucket' = Take(bucket, m)
  PROVE  ItemMoves
<1>1. m \in Vectors
  BY VectorTypes
<1>2. \A l \in Limits : /\ bucket'.tk[l] = bucket.tk[l] - m[l] /\ m[l] \in Nat
                        /\ bucket.tk[l] \in Int /\ returned[l] \in Nat
  BY <1>1, TakeFields DEF TypeOK, BucketTypeOK, HistoryTypeOK, Items, Vectors, Amounts
<1>3. bucket'.rf = bucket.rf /\ bucket'.status = "live"
  BY <1>1, StatusMoves DEF Take, TypeOK, BucketTypeOK, Items
<1> QED
  BY <1>2, <1>3 DEF ItemMoves

(* What an adjustment adds is remembered as returned.                        *)
LEMMA AdjustedItem ==
  ASSUME TypeOK, TypeOK', bucket.status = "live", NEW m \in Vectors, WriteAdjust(m)
  PROVE  ItemMoves
<1>1. bucket'.status = "live"
  BY StatusMoves
<1>2. ASSUME NEW l \in Limits
      PROVE  /\ returned[l] <= returned'[l]
             /\ bucket'.tk[l] + returned[l] <= bucket.tk[l] + returned'[l]
  <2>1. bucket.tk[l] \in Int /\ m[l] \in Int /\ returned[l] \in Nat
    BY DEF TypeOK, BucketTypeOK, HistoryTypeOK, Items, Vectors, Amounts
  <2>2. returned'[l] = returned[l] + IF m[l] < 0 THEN -m[l] ELSE 0
    BY DEF WriteAdjust, Plus, Below
  <2>3. bucket'.tk[l] = bucket.tk[l] - m[l]
    <3>1. CASE Asked(m) = {}
      BY <2>1, <3>1 DEF WriteAdjust, Asked
    <3>2. CASE Asked(m) # {}
      BY <3>2, TakeFields DEF WriteAdjust, AddTo
    <3> QED
      BY <3>1, <3>2
  <2> QED
    BY <2>1, <2>2, <2>3
<1>3. bucket'.rf = bucket.rf
  <2>1. bucket' = bucket \/ bucket' = Take(bucket, m)
    BY DEF WriteAdjust, AddTo
  <2> QED
    BY <2>1 DEF Take, TypeOK, BucketTypeOK, Items
<1> QED
  BY <1>1, <1>2, <1>3 DEF ItemMoves

(* A refill that fits, on the rf it was computed for, by a clock that is not *)
(* behind that rf.                                                           *)
LEMMA RefilledItem ==
  ASSUME TypeOK, TypeOK', bucket.status = "live", bucket'.status = "live", returned' = returned,
         NEW at \in Nat, NEW x \in Vectors, AddsOK(bucket.rf, x), bucket.rf <= at, bucket'.rf = at,
         \A l \in Limits : Within(x[l], at - bucket.rf, l),
         \A l \in Limits : bucket'.tk[l] <= bucket.tk[l] + x[l]
  PROVE  ItemMoves
<1>1. bucket.rf \in Nat
  BY DEF TypeOK, BucketTypeOK, Items
<1>2. \A l \in Limits : bucket.tk[l] \in Int /\ bucket'.tk[l] \in Int /\ returned[l] \in Nat /\ x[l] \in Int /\ cap(l) \in Int
  BY LimitTypes DEF TypeOK, BucketTypeOK, HistoryTypeOK, Items, Vectors, Amounts
<1>3. CASE at = bucket.rf
  <2>1. ASSUME NEW l \in Limits
        PROVE  x[l] <= 0
    <3>1. x[l] * Period[l] <= 0 * ra(l)
      BY <1>1, <1>3 DEF Within, Positive
    <3>2. Period[l] \in Nat \ {0} /\ ra(l) \in Nat
      BY LimitTypes
    <3>3. x[l] * Period[l] < 1 * Period[l]
      BY <1>2, <3>1, <3>2
    <3>4. x[l] < 1
      BY <1>2, <3>2, <3>3, TimesStrict
    <3> QED
      BY <1>2, <3>4
  <2>2. \A l \in Limits : bucket'.tk[l] + returned[l] <= bucket.tk[l] + returned'[l]
    BY <1>2, <2>1
  <2> QED
    BY <1>2, <1>3, <2>2 DEF ItemMoves
<1>4. CASE bucket.rf < at
  <2>1. \A l \in Limits : bucket'.tk[l] <= cap(l) + returned'[l]
    BY <1>2 DEF AddsOK
  <2> QED
    BY <1>2, <1>4, <2>1 DEF ItemMoves
<1> QED
  BY <1>1, <1>3, <1>4

(* A refill stops at the ceiling, or adds nothing.                           *)
LEMMA RefillCeiled ==
  ASSUME NEW st \in BucketStates, NEW now \in Int
  PROVE  Refill(st, now).tk <= st.cp \/ Refill(st, now).tk = st.tk
<1> DEFINE s == st.tk + Accrued(now - st.rf, st.ra, st.rp)
<1>1. CASE now - st.rf <= 0 \/ Accrued(now - st.rf, st.ra, st.rp) = 0
  BY <1>1 DEF Refill
<1>2. CASE ~(now - st.rf <= 0 \/ Accrued(now - st.rf, st.ra, st.rp) = 0)
  <2>1. Refill(st, now).tk = Lesser(st.cp, s)
    BY <1>2 DEF Refill
  <2>2. s \in Int /\ st.cp \in Int
    <3>1. now - st.rf \in Nat /\ st.tk \in Int /\ st.cp \in Int /\ st.ra \in Nat \ {0} /\ st.rp \in Nat \ {0}
      BY <1>2 DEF BucketStates
    <3>2. Accrued(now - st.rf, st.ra, st.rp) \in Nat
      BY <3>1, AccruedBound
    <3> QED
      BY <3>1, <3>2
  <2> HIDE DEF s
  <2> QED
    BY <2>1, <2>2 DEF Lesser
<1> QED
  BY <1>1, <1>2

(* What is computed from an item that was read still fits on it.             *)
LEMMA OfferFits ==
  ASSUME TypeOK, Fits, removals = 0, bucket.status = "live",
         NEW st \in BucketStates, NEW l \in Limits, st.cp = cap(l),
         bucket.tk[l] <= st.tk + returned[l], NEW now \in Int
  PROVE  bucket.tk[l] + (Refill(st, now).tk - st.tk) <= cap(l) + returned[l]
<1>1. Refill(st, now).tk \in Int /\ st.tk \in Int
  BY RefillBound DEF BucketStates
<1>2. bucket.tk[l] \in Int /\ returned[l] \in Int /\ cap(l) \in Int
  BY LimitTypes DEF TypeOK, BucketTypeOK, HistoryTypeOK, Items, Vectors, Amounts
<1>3. bucket.tk[l] <= cap(l) + returned[l]
  BY DEF Fits
<1>4. Refill(st, now).tk <= cap(l) \/ Refill(st, now).tk = st.tk
  BY RefillCeiled
<1> QED
  BY <1>1, <1>2, <1>3, <1>4

(* The slow path, between two writes.                                        *)
LEMMA ReadFits ==
  ASSUME TypeOK, TypeOK', Fits, removals = 0, bucket.status = "live", NEW c \in Clients, Read(c)
  PROVE  Fits'
<1>1. ItemMoves
  BY SameItem DEF Read, history
<1>2. seen'[c] = bucket /\ \A d \in Clients \ {c} : seen'[d] = seen[d]
  BY DEF Read, TypeOK, ClientsTypeOK
<1>3. bucket.rf \in Nat /\ \A l \in Limits : bucket.tk[l] \in Int /\ returned[l] \in Nat
  BY DEF TypeOK, BucketTypeOK, HistoryTypeOK, Items, Vectors, Amounts
<1>4. bucket' = bucket /\ returned' = returned /\ plan' = plan /\ agg' = agg
  BY DEF Read, history
<1>5. SeenOK(c)'
  BY <1>2, <1>3, <1>4 DEF SeenOK, ReadOK
<1> QED
  BY <1>1, <1>2, <1>4, <1>5, FitsKept

(* A plan fits below the ceiling of the balance it was read from.            *)
LEMMA ComputeFits ==
  ASSUME TypeOK, TypeOK', Fits, removals = 0, bucket.status = "live", NEW c \in Clients, ComputeNormal(c)
  PROVE  Fits'
<1>1. ItemMoves
  BY SameItem DEF ComputeNormal, history
<1>2. bucket' = bucket /\ returned' = returned /\ agg' = agg /\ seen[c].status = "live"
  BY DEF ComputeNormal, history
<1>3. CASE Forget(c)
  BY <1>1, <1>2, <1>3, FitsDone
<1>4. CASE ~Forget(c)
  <2>0. PICK at \in Readings : \E now \in 0..at :
          /\ \A l \in Limits : Results(c, now)[l].success
          /\ plan' = [plan EXCEPT ![c] = NormalPlan(c, at, now)]
          /\ seen' = [seen EXCEPT ![c] = Absent]
    BY <1>4 DEF ComputeNormal
  <2>1. PICK now \in 0..at :
          /\ \A l \in Limits : Results(c, now)[l].success
          /\ plan' = [plan EXCEPT ![c] = NormalPlan(c, at, now)]
          /\ seen' = [seen EXCEPT ![c] = Absent]
    BY <2>0
  <2>2. at \in Nat /\ now \in Int
    BY ReadingsType
  <2>3. plan'[c] = NormalPlan(c, at, now) /\ \A d \in Clients \ {c} : plan'[d] = plan[d]
    BY <2>1 DEF TypeOK, ClientsTypeOK
  <2>4. SeenOK(c)' /\ \A d \in Clients \ {c} : seen'[d] = seen[d]
    BY <2>1 DEF SeenOK, Absent, TypeOK, ClientsTypeOK
  <2>5. ReadOK(seen[c].rf, seen[c].tk)
    BY <1>2 DEF Fits, SeenOK
  <2>6. ASSUME NEW l \in Limits, seen[c].rf = bucket.rf
        PROVE  bucket.tk[l] + NormalPlan(c, at, now).refill[l] <= cap(l) + returned[l]
    <3> DEFINE st == StateOf(seen[c], l)
    <3>1. seen[c] \in Items
      BY DEF TypeOK, ClientsTypeOK, Readables
    <3>2. st \in BucketStates
      BY <2>2, <3>1, OfferBound
    <3>3. st.cp = cap(l) /\ st.rf = seen[c].rf /\ st.tk = seen[c].tk[l]
      BY DEF StateOf
    <3>4. NormalPlan(c, at, now).refill[l] = Refill(st, now).tk - st.tk
      BY <2>1, <2>2, <3>3, PlannedRefill DEF NormalPlan
    <3>5. bucket.tk[l] <= st.tk + returned[l]
      BY <2>5, <2>6, <3>3 DEF ReadOK
    <3> HIDE DEF st
    <3> QED
      BY <2>2, <2>6, <3>2, <3>3, <3>4, <3>5, OfferFits
  <2>7. AddedOK(c)'
    <3>1. NormalPlan(c, at, now).expected = seen[c].rf
      BY DEF NormalPlan
    <3> QED
      BY <1>2, <2>3, <2>5, <2>6, <3>1 DEF AddedOK, AddsOK, ReadOK
  <2> QED
    BY <1>1, <1>2, <2>3, <2>4, <2>7, FitsKept
<1> QED
  BY <1>3, <1>4

(* The aggregator, between its image and its write.                          *)
LEMMA ImageFits ==
  ASSUME TypeOK, TypeOK', Fits, removals = 0, bucket.status = "live", Image
  PROVE  Fits'
<1>1. ItemMoves
  BY SameItem DEF Image, history
<1>2. agg'.kind = "image" /\ agg'.rf = bucket.rf /\ agg'.tk = bucket.tk
  BY DEF Image, NoImage
<1>3. bucket.rf \in Nat /\ \A l \in Limits : bucket.tk[l] \in Int /\ returned[l] \in Nat
  BY DEF TypeOK, BucketTypeOK, HistoryTypeOK, Items, Vectors, Amounts
<1>4. bucket' = bucket /\ returned' = returned /\ plan' = plan /\ seen' = seen
  BY DEF Image, history
<1>5. ImageOK'
  BY <1>2, <1>3, <1>4 DEF ImageOK, ReadOK
<1> QED
  BY <1>1, <1>4, <1>5, FitsKept

(* So does what the aggregator plans.                                        *)
LEMMA PlanFits ==
  ASSUME TypeOK, TypeOK', Fits, removals = 0, bucket.status = "live", PlanRefill
  PROVE  Fits'
<1>1. ItemMoves
  BY SameItem DEF PlanRefill, history
<1>2. bucket' = bucket /\ returned' = returned /\ plan' = plan /\ seen' = seen /\ agg.kind = "image"
  BY DEF PlanRefill, history
<1>3. PICK now \in Readings : \E short : agg' = RefillPlan(now, short)
  BY DEF PlanRefill
<1>. PICK short : agg' = RefillPlan(now, short)
  BY <1>3
<1>4. ReadOK(agg.rf, agg.tk)
  BY <1>2 DEF Fits, ImageOK
<1>5. CASE short = {}
  <2>1. ImageOK'
    BY <1>5 DEF ImageOK, RefillPlan, NoImage
  <2> QED
    BY <1>1, <1>2, <2>1, FitsKept
<1>6. CASE short # {}
  <2>1. /\ agg'.kind = "plan" /\ agg'.rf = agg.rf
        /\ \A l \in Limits : agg'.add[l] = IF l \in short THEN RefillDeltas(now)[l] ELSE 0
    BY <1>6 DEF RefillPlan, TypeOK, BucketTypeOK, Refills
  <2>2. ASSUME NEW l \in Limits, agg.rf = bucket.rf
        PROVE  bucket.tk[l] + agg'.add[l] <= cap(l) + returned[l]
    <3> DEFINE st == [tk |-> agg.tk[l], rf |-> agg.rf, cp |-> cap(l), ra |-> ra(l), rp |-> Period[l]]
    <3>1. agg.tk[l] \in Int /\ agg.rf \in Int /\ now \in Int
      BY ReadingsType DEF TypeOK, BucketTypeOK, Refills, Vectors
    <3>2. st \in BucketStates
      BY <3>1, LimitTypes DEF BucketStates
    <3>3. RefillDeltas(now)[l] = Refill(st, now).tk - st.tk
      BY DEF RefillDeltas
    <3>4. st.cp = cap(l) /\ st.rf = agg.rf /\ st.tk = agg.tk[l]
      OBVIOUS
    <3>5. bucket.tk[l] <= st.tk + returned[l]
      BY <1>4, <2>2, <3>4 DEF ReadOK
    <3> HIDE DEF st
    <3>6. bucket.tk[l] + RefillDeltas(now)[l] <= cap(l) + returned[l]
      BY <2>2, <3>1, <3>2, <3>3, <3>4, <3>5, OfferFits
    <3>7. bucket.tk[l] + 0 <= cap(l) + returned[l]
      <4>1. bucket.tk[l] \in Int
        BY DEF TypeOK, BucketTypeOK, Items, Vectors
      <4> QED
        BY <4>1 DEF Fits
    <3> QED
      BY <2>1, <3>6, <3>7
  <2>3. ImageOK'
    BY <1>2, <1>4, <2>1, <2>2 DEF ImageOK, ReadOK, AddsOK
  <2> QED
    BY <1>1, <1>2, <2>3, FitsKept
<1> QED
  BY <1>5, <1>6

(* The two refilling writes.                                                 *)
LEMMA WriteNormalFits ==
  ASSUME Skew = 0, TypeOK, TypeOK', PlansOK, Fits, removals = 0, bucket.status = "live",
         NEW c \in Clients, WriteNormal(c)
  PROVE  Fits'
<1> DEFINE x == plan[c].refill
<1>1. plan[c].at \in Nat /\ x \in Vectors /\ plan[c].kind = "normal" /\ plan[c].expected = bucket.rf
  BY DEF WriteNormal, NormalCondition, TypeOK, ClientsTypeOK, Plans
<1>2. AddsOK(bucket.rf, x)
  BY <1>1 DEF Fits, AddedOK
<1>3. bucket.rf <= plan[c].at /\ \A l \in Limits : Within(x[l], plan[c].at - bucket.rf, l)
  BY <1>1 DEF PlansOK, PlanOK
<1>4. \A l \in Limits : bucket'.tk[l] <= bucket.tk[l] + x[l]
  <2> SUFFICES ASSUME NEW l \in Limits
               PROVE  bucket'.tk[l] <= bucket.tk[l] + x[l]
    OBVIOUS
  <2>1. bucket'.tk[l] = bucket.tk[l] - req[c][l] * Milli + x[l]
    BY WriteNormalEffect DEF WriteNormalFields
  <2>2. bucket.tk[l] \in Int /\ x[l] \in Int /\ req[c][l] * Milli \in Nat
    <3>1. req[c] \in Amounts
      BY DEF TypeOK, ClientsTypeOK
    <3>2. ToMilli(req[c]) \in Amounts
      BY <3>1, VectorTypes
    <3>3. ToMilli(req[c])[l] \in Nat
      BY <3>2 DEF Amounts
    <3> QED
      BY <1>1, <3>3 DEF TypeOK, BucketTypeOK, Items, Vectors, ToMilli
  <2> QED
    BY <2>1, <2>2
<1>5. bucket'.rf = plan[c].at /\ bucket'.status = "live" /\ returned' = returned /\ agg' = agg
  <2>1. ToMilli(req[c]) \in Vectors
    BY VectorTypes DEF TypeOK, ClientsTypeOK
  <2>2. Take(bucket, ToMilli(req[c])) \in Items /\ Take(bucket, ToMilli(req[c])).status = "live"
    BY <2>1, RecordTypes, StatusMoves DEF TypeOK, BucketTypeOK
  <2> QED
    BY <2>2 DEF WriteNormal, Items
<1> HIDE DEF x
<1>6. ItemMoves
  BY <1>1, <1>2, <1>3, <1>4, <1>5, RefilledItem
<1> QED
  BY <1>5, <1>6, FitsDone DEF WriteNormal

(* With one clock the aggregator's lock fails after any other refill.        *)
LEMMA WriteRefillFits ==
  ASSUME Skew = 0, TypeOK, TypeOK', RefillPlanOK, Fits, removals = 0, bucket.status = "live", WriteRefill
  PROVE  Fits'
<1>1. agg.kind = "plan" /\ agg' = NoImage /\ seen' = seen /\ plan' = plan /\ returned' = returned
  BY DEF WriteRefill
<1>2. ImageOK'
  BY <1>1 DEF ImageOK, NoImage
<1>3. CASE bucket.rf = agg.rf
  <2>1. agg.at \in Nat /\ agg.add \in Vectors
    BY VectorTypes DEF TypeOK, BucketTypeOK, Refills
  <2>2. AddsOK(bucket.rf, agg.add)
    BY <1>1, <1>3 DEF Fits, ImageOK
  <2>3. bucket.rf <= agg.at /\ \A l \in Limits : Within(agg.add[l], agg.at - bucket.rf, l)
    BY <1>1, <1>3, <2>1 DEF RefillPlanOK
  <2>4. bucket' = [bucket EXCEPT !.tk = Plus(@, agg.add), !.rf = agg.at]
    BY <1>3 DEF WriteRefill
  <2>5. bucket'.tk = Plus(bucket.tk, agg.add) /\ bucket'.rf = agg.at /\ bucket'.status = "live"
    BY <2>4 DEF TypeOK, BucketTypeOK, Items
  <2>6. \A l \in Limits : bucket'.tk[l] <= bucket.tk[l] + agg.add[l]
    BY <2>1, <2>5 DEF Plus, TypeOK, BucketTypeOK, Items, Vectors
  <2>7. ItemMoves
    BY <1>1, <2>1, <2>2, <2>3, <2>5, <2>6, RefilledItem
  <2> QED
    BY <1>1, <1>2, <2>7, FitsKept
<1>4. CASE bucket.rf # agg.rf
  <2>1. ItemMoves
    BY <1>1, <1>4, SameItem DEF WriteRefill
  <2> QED
    BY <1>1, <1>2, <2>1, FitsKept
<1> QED
  BY <1>3, <1>4

(* A new item: nobody has read or planned anything of it.                    *)
LEMMA CreateFits ==
  ASSUME TypeOK, PlansOK, Untouched, removals = 0, NEW c \in Clients, WriteCreate(c)
  PROVE  Fits'
<1>1. /\ agg.kind = "none"
      /\ \A d \in Clients : /\ pc[d] # "retrying" /\ seen[d].status # "live"
                            /\ pc[d] = "writing" => plan[d].kind = "create"
  BY DEF Untouched, WriteCreate
<1>2. \A d \in Clients : plan[d].kind # "normal"
  BY <1>1 DEF PlansOK, PlanOK
<1>3. /\ plan'[c] = NoPlan /\ seen'[c] = Absent
      /\ \A d \in Clients \ {c} : plan'[d] = plan[d] /\ seen'[d] = seen[d]
  BY LeaseMoves DEF WriteCreate
<1>4. \A d \in Clients : plan'[d].kind # "normal" /\ seen'[d].status # "live"
  BY <1>1, <1>2, <1>3 DEF NoPlan, Absent
<1>5. \A l \in Limits : bucket'.tk[l] <= cap(l) + returned'[l]
  <2> SUFFICES ASSUME NEW l \in Limits
               PROVE  bucket'.tk[l] <= cap(l) + returned'[l]
    OBVIOUS
  <2>1. bucket'.tk[l] = cap(l) - ToMilli(req[c])[l] /\ returned'[l] = 0
    BY DEF WriteCreate, Live, Zero
  <2>2. ToMilli(req[c])[l] \in Nat /\ cap(l) \in Nat
    BY VectorTypes, LimitTypes DEF TypeOK, ClientsTypeOK, Amounts
  <2> QED
    BY <2>1, <2>2
<1>6. agg' = agg
  BY DEF WriteCreate
<1> QED
  BY <1>1, <1>4, <1>5, <1>6 DEF Fits, SeenOK, AddedOK, ImageOK

(* No balance and no plan at the start.                                      *)
LEMMA FitsInit == Init => Fits
BY DEF Init, Fits, Absent

(* Every action, of every client, keeps what fits.                           *)
LEMMA FitsStep ==
  ASSUME Skew = 0, TypeOK, TypeOK', PlansOK, RefillPlanOK, Untouched, Fits, [Next]_vars
  PROVE  Fits'
<1> SUFFICES ASSUME bucket'.status = "live", removals' = 0
             PROVE  Fits'
  BY DEF Fits
<1>1. removals = 0
  BY FaultsStay
<1>2. CASE bucket.status # "live"
  <2>1. bucket.status = "absent"
    BY <1>1, <1>2 DEF Untouched, TypeOK, BucketTypeOK, Items
  <2> QED
    BY <1>1, <2>1, CreatedBy, CreateFits
<1>3. CASE bucket.status = "live"
  <2>1. CASE Tick \/ UNCHANGED vars
    <3>1. UNCHANGED <<bucket, returned, seen, plan, agg>>
      BY <2>1 DEF Tick, vars, history
    <3> QED
      BY <1>1, <1>3, <3>1, SameItem, FitsKept
  <2>2. CASE Image \/ PlanRefill \/ WriteRefill
    BY <1>1, <1>3, <2>2, ImageFits, PlanFits, WriteRefillFits
  <2>3. CASE Remove
    BY <1>1, <2>3 DEF Remove
  <2>4. ASSUME NEW c \in Clients, ClientStep(c)
        PROVE  Fits'
    <3>1. ASSUME UNCHANGED <<bucket, returned, seen, plan, agg>>
          PROVE  Fits'
      BY <1>1, <1>3, <3>1, SameItem, FitsKept
    <3>2. ASSUME UNCHANGED <<bucket, returned, agg>>, Forget(c)
          PROVE  Fits'
      BY <1>1, <1>3, <3>2, SameItem, FitsDone
    <3>3. ASSUME NEW m \in Vectors, WriteAdjust(m), agg' = agg, Forget(c) \/ UNCHANGED <<seen, plan>>
          PROVE  Fits'
      <4>1. ItemMoves
        BY <1>3, <3>3, AdjustedItem
      <4> QED
        BY <1>1, <3>3, <4>1, FitsDone, FitsKept
    <3>4. ToMilli(req[c]) \in Amounts
      BY VectorTypes DEF TypeOK, ClientsTypeOK
    <3>5. CASE \E m \in Requests : Acquire(c, m)
      BY <3>1, <3>5 DEF Acquire
    <3>6. CASE SpeculateHit(c)
      <4>1. ItemMoves
        BY <1>3, <3>4, <3>6, TakenItem DEF SpeculateHit, history
      <4> QED
        BY <1>1, <3>6, <4>1, FitsDone DEF SpeculateHit
    <3>7. CASE SpeculateShort(c) \/ SpeculateMiss(c)
      BY <3>1, <3>2, <3>7 DEF SpeculateShort, SpeculateMiss, history
    <3>8. CASE Read(c)
      BY <1>1, <1>3, <3>8, ReadFits
    <3>9. CASE ComputeNormal(c)
      BY <1>1, <1>3, <3>9, ComputeFits
    <3>10. CASE ComputeCreate(c)
      <4>1. CASE Forget(c)
        BY <3>2, <3>10, <4>1 DEF ComputeCreate, history
      <4>2. CASE ~Forget(c)
        <5>1. \E p : p.kind = "create" /\ plan' = [plan EXCEPT ![c] = p]
          <6>1. PICK at \in Readings :
                  plan' = [plan EXCEPT ![c] = [kind |-> "create", expected |-> 0, at |-> at, refill |-> Zero]]
            BY <3>10, <4>2 DEF ComputeCreate
          <6>2. [kind |-> "create", expected |-> 0, at |-> at, refill |-> Zero].kind = "create"
            OBVIOUS
          <6> QED
            BY <6>1, <6>2
        <5>2. UNCHANGED <<bucket, returned, agg, seen>>
          BY <3>10, <4>2 DEF ComputeCreate, history
        <5>3. AddedOK(c)' /\ \A d \in Clients \ {c} : plan'[d] = plan[d]
          BY <5>1 DEF AddedOK, TypeOK, ClientsTypeOK
        <5> QED
          BY <1>1, <1>3, <5>2, <5>3, SameItem, FitsKept
      <4> QED
        BY <4>1, <4>2
    <3>11. CASE WriteCreate(c)
      BY <1>3, <3>11 DEF WriteCreate
    <3>12. CASE WriteNormal(c)
      BY <1>1, <1>3, <3>12, WriteNormalFits
    <3>13. CASE WriteFails(c) \/ BodyRaises(c)
      BY <3>1, <3>13 DEF WriteFails, BodyRaises, history
    <3>14. CASE Retry(c)
      <4>1. CASE Covers(bucket, ToMilli(req[c]))
        <5>1. ItemMoves
          BY <1>3, <3>4, <3>14, <4>1, TakenItem DEF Retry, history
        <5> QED
          BY <1>1, <3>14, <4>1, <5>1, FitsDone DEF Retry
      <4>2. CASE ~Covers(bucket, ToMilli(req[c]))
        BY <3>2, <3>14, <4>2 DEF Retry, history
      <4> QED
        BY <4>1, <4>2
    <3>15. CASE \E d \in Deltas : Change(c, d)
      BY <3>1, <3>15 DEF Change, history
    <3>16. CASE Close(c)
      BY <3>3, <3>16, AdjustmentType DEF Close
    <3>17. CASE CloseFails(c)
      BY <3>1, <3>3, <3>17, AdjustmentType DEF CloseFails
    <3>18. CASE Rollback(c)
      BY <3>3, <3>18, AdjustmentType DEF Rollback
    <3>19. CASE Crash(c)
      BY <3>2, <3>19 DEF Crash
    <3> QED
      BY <2>4, <3>5, <3>6, <3>7, <3>8, <3>9, <3>10, <3>11, <3>12, <3>13, <3>14, <3>15, <3>16, <3>17, <3>18, <3>19
         DEF ClientStep
  <2> QED
    BY <2>1, <2>2, <2>3, <2>4 DEF Next
<1> QED
  BY <1>2, <1>3

(* With one clock, racing refills, each capped at the ceiling of what its    *)
(* writer read, never lead past it: the lock on rf holds, for rf never takes *)
(* a value again.                                                            *)
THEOREM StaysWithinCapacity ==
  ASSUME Skew = 0
  PROVE  Spec => []WithinCapacity
<1>1. Init => Inv /\ Tally /\ Fits
  BY InvInit, TallyInit, FitsInit
<1>2. (Inv /\ Tally /\ Fits) /\ [Next]_vars => (Inv /\ Tally /\ Fits)'
  <2> SUFFICES ASSUME Inv, Tally, Fits, [Next]_vars
               PROVE  Inv' /\ Tally' /\ Fits'
    OBVIOUS
  <2>1. Inv' /\ Tally'
    BY InvStep, TallyStep DEF Inv
  <2> QED
    BY <2>1, FitsStep DEF Inv, Tally
<1>3. Fits => WithinCapacity
  BY DEF Fits, WithinCapacity
<1> QED
  BY <1>1, <1>2, <1>3, PTL DEF Spec

-------------------------------------------------------------------------------
(* The entry a lease holds in memory (LocalBucket) *)

(* A refill by a clock that is not behind rf: rf moves forward, never past   *)
(* the clock; the balance stays between what it was and the ceiling; and     *)
(* unless the ceiling took some of it, what the refill adds is worth at      *)
(* least the time it claims.                                                 *)
LEMMA RefillClaims ==
  ASSUME NEW st \in BucketStates, NEW now \in Int, st.rf <= now
  PROVE  /\ Refill(st, now).tk \in Int /\ Refill(st, now).rf \in Int
         /\ st.rf <= Refill(st, now).rf /\ Refill(st, now).rf <= now
         /\ Refill(st, now).tk >= st.tk \/ Refill(st, now).tk >= st.cp
         /\ Refill(st, now).tk <= st.tk \/ Refill(st, now).tk <= st.cp
         /\ ~Spills(st, now) =>
              /\ Refill(st, now).tk = st.tk + Accrued(now - st.rf, st.ra, st.rp)
              /\ (Refill(st, now).rf - st.rf) * st.ra <= (Refill(st, now).tk - st.tk) * st.rp
<1> DEFINE e == now - st.rf
           a == Accrued(e, st.ra, st.rp)
           u == (a * st.rp) \div st.ra
<1>0. st.tk \in Int /\ st.rf \in Int /\ st.cp \in Int /\ st.ra \in Nat \ {0} /\ st.rp \in Nat \ {0}
  BY DEF BucketStates
<1>1. e \in Nat
  BY <1>0
<1>2. a \in Nat /\ u \in Nat /\ u <= e
  <2>1. e <= e
    BY <1>1
  <2> HIDE DEF e
  <2> QED
    BY <1>0, <1>1, <2>1, RemainderAccrues
<1>3. u * st.ra <= a * st.rp
  <2>1. a * st.rp \in Nat
    <3> HIDE DEF a
    <3> QED
      BY <1>0, <1>2, Z3
  <2> HIDE DEF a
  <2> QED
    BY <1>0, <2>1, DivRounds
<1>4. CASE e <= 0 \/ a = 0
  <2>1. Refill(st, now).tk = st.tk /\ Refill(st, now).rf = st.rf
    BY <1>4 DEF Refill
  <2>2. a = 0
    <3>1. Accrued(0, st.ra, st.rp) = 0
      BY <1>0 DEF Accrued
    <3> QED
      BY <1>1, <1>4, <3>1
  <2>3. (st.rf - st.rf) * st.ra <= (st.tk - st.tk) * st.rp
    BY <1>0
  <2> HIDE DEF a
  <2> QED
    BY <1>0, <2>1, <2>2, <2>3 DEF a
<1>5. CASE ~(e <= 0 \/ a = 0)
  <2>1. Refill(st, now).tk = Lesser(st.cp, st.tk + a) /\ Refill(st, now).rf = st.rf + u
    BY <1>5 DEF Refill
  <2>2. ~Spills(st, now) => st.tk + a <= st.cp
    <3>1. now > st.rf
      BY <1>0, <1>5
    <3>2. ~Spills(st, now) => ~(st.tk + a > st.cp)
      BY <3>1 DEF Spills
    <3> HIDE DEF a
    <3> QED
      BY <1>0, <1>2, <3>2
  <2>3. st.rf + u - st.rf = u /\ st.tk + a - st.tk = a /\ st.rf + u <= now
    <3>1. e = now - st.rf
      OBVIOUS
    <3> HIDE DEF a, u, e
    <3> QED
      BY <1>0, <1>2, <3>1
  <2>4. st.tk + a <= st.cp => Refill(st, now).tk = st.tk + a
    <3> HIDE DEF a, u
    <3> QED
      BY <1>0, <1>2, <2>1 DEF Lesser
  <2>5. ~Spills(st, now) =>
          (Refill(st, now).rf - st.rf) * st.ra <= (Refill(st, now).tk - st.tk) * st.rp
    <3> SUFFICES ASSUME ~Spills(st, now)
                 PROVE  (Refill(st, now).rf - st.rf) * st.ra <= (Refill(st, now).tk - st.tk) * st.rp
      OBVIOUS
    <3> HIDE DEF a, u
    <3>1. Refill(st, now).rf - st.rf = u
      BY <1>0, <1>2, <2>1
    <3>2. Refill(st, now).tk - st.tk = a
      BY <1>0, <1>2, <2>2, <2>4
    <3> QED
      BY <1>3, <3>1, <3>2
  <2> HIDE DEF u
  <2>6. /\ Refill(st, now).tk \in Int /\ Refill(st, now).rf \in Int
        /\ st.rf <= Refill(st, now).rf /\ Refill(st, now).rf <= now
        /\ Refill(st, now).tk >= st.tk \/ Refill(st, now).tk >= st.cp
        /\ Refill(st, now).tk <= st.tk \/ Refill(st, now).tk <= st.cp
    <3> HIDE DEF a
    <3> QED
      BY <1>0, <1>2, <2>1, <2>3 DEF Lesser
  <2> QED
    BY <2>2, <2>4, <2>5, <2>6
<1> QED
  BY <1>4, <1>5

\* What the entry's balance would be, had the lease given everything back.
Gross == entry.tk + net * Milli

\* The state of an entry, and the one fact about it that refills must keep: as
\* long as none met the ceiling, the time up to rf has been paid out in full.
EntryInv ==
  /\ entry \in BucketStates /\ entry.cp = ceiling
  /\ elapsed \in 0..MaxElapsed /\ entry.rf \in 0..elapsed
  /\ net \in -MaxNet..MaxNet /\ opening \in 0..ceiling /\ spilled \in BOOLEAN
  /\ -(MaxNet * Milli) <= Gross /\ Gross <= (EntryCapacity + MaxNet) * Milli
  /\ ~spilled => entry.rf * entry.ra <= (Gross - opening) * entry.rp

(* The bounds are natural numbers; the ceiling is one of them.              *)
LEMMA Constants ==
  /\ ceiling \in Nat /\ MaxNet * Milli \in Nat
  /\ (EntryCapacity + MaxNet) * Milli = ceiling + MaxNet * Milli
  /\ MaxElapsed \in Nat /\ MaxNet \in Nat /\ EntryCapacity \in Nat
BY MilliAssumption, EntryAmounts, Z3 DEF ceiling

(* A net amount within its bound is within it in milli-units.                *)
LEMMA NetInMilli ==
  ASSUME NEW n \in -MaxNet..MaxNet
  PROVE  n * Milli \in Int /\ -(MaxNet * Milli) <= n * Milli /\ n * Milli <= MaxNet * Milli
<1>1. n \in Int /\ -MaxNet \in Int /\ MaxNet \in Int /\ -MaxNet <= n /\ n <= MaxNet
  BY Constants
<1>2. (-MaxNet) * Milli = -(MaxNet * Milli)
  BY <1>1, MilliAssumption, Z3
<1> QED
  BY <1>1, <1>2, MilliAssumption, TimesMonotone

(* An entry starts with what was read, rf at the time of the read.           *)
LEMMA EntryInvInit == EntryInit => EntryInv
<1> SUFFICES ASSUME EntryInit PROVE EntryInv
  OBVIOUS
<1>1. PICK rate \in Rates :
        entry = [tk |-> opening, rf |-> 0, cp |-> ceiling, ra |-> rate.ra, rp |-> rate.rp]
  BY DEF EntryInit
<1>2. rate.ra \in Nat \ {0} /\ rate.rp \in Nat \ {0}
  BY RatesAssumption
<1>3. opening \in 0..ceiling /\ elapsed = 0 /\ net = 0 /\ spilled = FALSE
  BY DEF EntryInit
<1>4. opening \in Int /\ opening >= 0 /\ opening <= ceiling
  BY <1>3, Constants
<1>5. entry \in BucketStates /\ entry.cp = ceiling /\ entry.rf = 0 /\ entry.tk = opening
      /\ entry.ra = rate.ra /\ entry.rp = rate.rp
  BY <1>1, <1>2, <1>4, Constants DEF BucketStates
<1>6. Gross = opening
  BY <1>3, <1>4, <1>5, MilliAssumption DEF Gross
<1>7. entry.rf * entry.ra <= (Gross - opening) * entry.rp
  BY <1>2, <1>4, <1>5, <1>6
<1>8. net \in -MaxNet..MaxNet /\ elapsed \in 0..MaxElapsed /\ entry.rf \in 0..elapsed
  BY <1>3, <1>5, Constants
<1>9. -(MaxNet * Milli) <= Gross /\ Gross <= (EntryCapacity + MaxNet) * Milli
  BY <1>4, <1>6, Constants
<1> QED
  BY <1>3, <1>5, <1>7, <1>8, <1>9 DEF EntryInv

(* Both calls of a lease refill the entry and take n, which net counts.      *)
LEMMA EntryMoves ==
  ASSUME EntryInv, NEW n \in Int, net + n \in -MaxNet..MaxNet,
         entry' = [entry EXCEPT !.tk = Refill(entry, elapsed).tk - n * Milli,
                                !.rf = Refill(entry, elapsed).rf],
         net' = net + n,
         spilled' = (spilled \/ Spills(entry, elapsed)),
         UNCHANGED <<elapsed, opening>>
  PROVE  EntryInv'
<1> DEFINE r == Refill(entry, elapsed)
<1>0. /\ entry \in BucketStates /\ entry.cp = ceiling
      /\ elapsed \in 0..MaxElapsed /\ entry.rf \in 0..elapsed
      /\ net \in -MaxNet..MaxNet /\ opening \in 0..ceiling /\ spilled \in BOOLEAN
      /\ -(MaxNet * Milli) <= Gross /\ Gross <= (EntryCapacity + MaxNet) * Milli
      /\ ~spilled => entry.rf * entry.ra <= (Gross - opening) * entry.rp
  BY DEF EntryInv
<1>1. /\ entry.tk \in Int /\ entry.rf \in Int /\ entry.cp \in Int
      /\ entry.ra \in Nat \ {0} /\ entry.rp \in Nat \ {0}
  BY <1>0 DEF BucketStates
<1>2. elapsed \in Int /\ net \in Int /\ opening \in Int /\ entry.rf <= elapsed
  BY <1>0, Constants
<1>3. /\ r.tk \in Int /\ r.rf \in Int /\ entry.rf <= r.rf /\ r.rf <= elapsed
      /\ r.tk >= entry.tk \/ r.tk >= ceiling
      /\ r.tk <= entry.tk \/ r.tk <= ceiling
      /\ ~Spills(entry, elapsed) => (r.rf - entry.rf) * entry.ra <= (r.tk - entry.tk) * entry.rp
  BY <1>0, <1>2, RefillClaims
<1> HIDE DEF r
<1>4. n * Milli \in Int /\ net * Milli \in Int /\ (net + n) * Milli = net * Milli + n * Milli
  BY <1>2, MilliAssumption, Z3
<1>5. /\ entry' \in BucketStates /\ entry'.cp = ceiling
      /\ entry'.tk = r.tk - n * Milli /\ entry'.rf = r.rf
      /\ entry'.ra = entry.ra /\ entry'.rp = entry.rp
  <2>1. r.tk - n * Milli \in Int
    BY <1>3, <1>4
  <2> QED
    BY <1>0, <1>3, <2>1 DEF BucketStates, r
<1>6. Gross' = r.tk + net * Milli
  <2>1. Gross' = entry'.tk + net' * Milli
    BY DEF Gross
  <2> QED
    BY <1>3, <1>4, <1>5, <2>1
<1>7. Gross = entry.tk + net * Milli
  BY DEF Gross
<1>8. -(MaxNet * Milli) <= Gross' /\ Gross' <= (EntryCapacity + MaxNet) * Milli
  <2>1. -(MaxNet * Milli) <= net * Milli /\ net * Milli <= MaxNet * Milli
    BY <1>0, NetInMilli
  <2> QED
    BY <1>0, <1>1, <1>3, <1>4, <1>6, <1>7, <2>1, Constants
<1>9. ~spilled' => r.rf * entry.ra <= (Gross' - opening) * entry.rp
  <2> SUFFICES ASSUME ~spilled, ~Spills(entry, elapsed)
               PROVE  r.rf * entry.ra <= (Gross' - opening) * entry.rp
    OBVIOUS
  <2>1. r.rf * entry.ra = entry.rf * entry.ra + (r.rf - entry.rf) * entry.ra
    BY <1>1, <1>3, Z3
  <2>2. (Gross' - opening) * entry.rp = (Gross - opening) * entry.rp + (r.tk - entry.tk) * entry.rp
    <3>1. Gross' - opening = (Gross - opening) + (r.tk - entry.tk)
      BY <1>1, <1>2, <1>3, <1>4, <1>6, <1>7
    <3>2. Gross - opening \in Int /\ r.tk - entry.tk \in Int
      BY <1>1, <1>2, <1>3, <1>4, <1>7
    <3> QED
      BY <1>1, <3>1, <3>2, Z3
  <2>3. /\ entry.rf * entry.ra \in Int /\ (r.rf - entry.rf) * entry.ra \in Int
        /\ (Gross - opening) * entry.rp \in Int /\ (r.tk - entry.tk) * entry.rp \in Int
    BY <1>1, <1>2, <1>3, <1>4, <1>7, Z3
  <2> QED
    BY <1>0, <1>3, <2>1, <2>2, <2>3
<1>10. r.rf \in 0..elapsed
  BY <1>0, <1>2, <1>3
<1>11. (~spilled => entry.rf * entry.ra <= (Gross - opening) * entry.rp)'
  BY <1>5, <1>9
<1>12. spilled' \in BOOLEAN
  OBVIOUS
<1>13. ceiling' = ceiling
  BY DEF ceiling
<1> QED
  BY <1>0, <1>5, <1>8, <1>10, <1>11, <1>12, <1>13 DEF EntryInv

(* Time and both calls keep the invariant.                                   *)
LEMMA EntryInvStep == EntryInv /\ [EntryNext]_entryVars => EntryInv'
<1> SUFFICES ASSUME EntryInv, [EntryNext]_entryVars PROVE EntryInv'
  OBVIOUS
<1>0. net \in Int /\ elapsed \in Int /\ 0 <= elapsed /\ entry.rf \in 0..elapsed /\ MaxNet \in Int
  BY Constants DEF EntryInv
<1>1. CASE UNCHANGED entryVars
  BY <1>1 DEF EntryInv, entryVars, Gross, ceiling
<1>2. CASE TimePasses
  <2>1. elapsed' \in 0..MaxElapsed /\ entry.rf \in 0..elapsed'
    BY <1>0, <1>2, Constants DEF TimePasses
  <2> QED
    BY <1>2, <2>1 DEF TimePasses, EntryInv, Gross, ceiling
<1>3. ASSUME NEW n \in CallAmounts, Consume(n) PROVE EntryInv'
  <2>1. n \in Int /\ net + n \in -MaxNet..MaxNet
    <3>1. n \in Nat /\ n > 0 /\ net + n <= MaxNet /\ net \in -MaxNet..MaxNet
      BY <1>3, EntryAmounts DEF Consume, EntryInv
    <3> QED
      BY <1>0, <3>1
  <2>2. TryConsume(entry, n, elapsed).success
    BY <1>3 DEF Consume
  <2>3. /\ TryConsume(entry, n, elapsed).tk = Refill(entry, elapsed).tk - n * Milli
        /\ TryConsume(entry, n, elapsed).rf = Refill(entry, elapsed).rf
    BY <2>2 DEF TryConsume
  <2> QED
    BY <1>3, <2>1, <2>3, EntryMoves DEF Consume
<1>4. ASSUME NEW n \in Int, Adjust(n) PROVE EntryInv'
  <2>1. /\ ForceConsume(entry, n, elapsed).tk = Refill(entry, elapsed).tk - n * Milli
        /\ ForceConsume(entry, n, elapsed).rf = Refill(entry, elapsed).rf
    BY DEF ForceConsume
  <2> QED
    BY <1>4, <2>1, EntryMoves DEF Adjust
<1>5. \A n \in CallAmounts : n \in Int /\ -n \in Int
  BY EntryAmounts
<1> QED
  BY <1>1, <1>2, <1>3, <1>4, <1>5 DEF EntryNext

(* What the calls of a lease leave in the entry it holds.                    *)
LEMMA EntryInvHolds == EntrySpec => []EntryInv
BY EntryInvInit, EntryInvStep, PTL DEF EntrySpec

(* What the entry would hold, less the net amount, bounds what it holds.     *)
LEMMA EntryInvTypes == EntryInv => EntryTypeOK
<1> SUFFICES ASSUME EntryInv PROVE EntryTypeOK
  OBVIOUS
<1>1. /\ entry \in BucketStates /\ net \in -MaxNet..MaxNet
      /\ -(MaxNet * Milli) <= Gross /\ Gross <= (EntryCapacity + MaxNet) * Milli
  BY DEF EntryInv
<1>2. net * Milli \in Int /\ -(MaxNet * Milli) <= net * Milli /\ net * Milli <= MaxNet * Milli
  BY <1>1, NetInMilli
<1>3. entry.tk \in Int /\ Gross = entry.tk + net * Milli
  BY <1>1 DEF BucketStates, Gross
<1>4. /\ 2 * MaxNet * Milli = MaxNet * Milli + MaxNet * Milli
      /\ (EntryCapacity + 2 * MaxNet) * Milli = ceiling + MaxNet * Milli + MaxNet * Milli
  BY MilliAssumption, EntryAmounts, Z3 DEF ceiling
<1>5. entry.tk \in -(2 * MaxNet * Milli) .. (EntryCapacity + 2 * MaxNet) * Milli
  BY <1>1, <1>2, <1>3, <1>4, Constants
<1> QED
  BY <1>5 DEF EntryInv, EntryTypeOK

(* The balance of an entry never leaves the range that its capacity and the  *)
(* net amount taken through it leave room for, and its rf is never ahead of  *)
(* the time.                                                                 *)
THEOREM EntryTypeCorrect == EntrySpec => []EntryTypeOK
BY EntryInvHolds, EntryInvTypes, PTL

(* An entry in any such state, asked for an amount that fits it, meets the   *)
(* hypotheses of the facts about retry_after.                                *)
LEMMA EntryFacts ==
  ASSUME EntryInv, NEW n \in 1..EntryCapacity
  PROVE  /\ entry \in BucketStates /\ elapsed \in Int /\ entry.rf <= elapsed
         /\ n \in Nat /\ n * Milli <= entry.cp
<1>1. n \in Int /\ n <= EntryCapacity /\ n >= 1 /\ EntryCapacity \in Int
  BY Constants
<1>2. n * Milli <= EntryCapacity * Milli
  BY <1>1, MilliAssumption, TimesMonotone
<1> QED
  BY <1>1, <1>2, Constants DEF EntryInv, ceiling

(* In every state the calls of a lease leave its entry in, a rejected caller *)
(* that sleeps for retry_after finds its tokens there.                       *)
THEOREM RetryAlwaysEnough == EntrySpec => []RetryIsEnough
<1>1. EntryInv => RetryIsEnough
  <2> SUFFICES ASSUME EntryInv, NEW n \in 1..EntryCapacity,
                      ~TryConsume(entry, n, elapsed).success
               PROVE  TryConsume(entry, n,
                                 elapsed + TryConsume(entry, n, elapsed).retryAfter).success
    BY DEF RetryIsEnough
  <2> QED
    BY EntryFacts, RetryAfterIsEnough
<1> QED
  BY <1>1, EntryInvHolds, PTL

(* ... and one that sleeps for less, by more than the rounding, does not.    *)
THEOREM RetryNeverLate == EntrySpec => []RetryIsNotLate
<1>1. EntryInv => RetryIsNotLate
  <2> SUFFICES ASSUME EntryInv, NEW n \in 1..EntryCapacity,
                      ~TryConsume(entry, n, elapsed).success,
                      TryConsume(entry, n, elapsed).retryAfter - 2
                        - (entry.rp + entry.ra - 1) \div entry.ra > 0
               PROVE  ~TryConsume(entry, n,
                                  elapsed + (TryConsume(entry, n, elapsed).retryAfter - 2
                                    - (entry.rp + entry.ra - 1) \div entry.ra)).success
    BY DEF RetryIsNotLate
  <2> DEFINE w == TryConsume(entry, n, elapsed).retryAfter
             g == (entry.rp + entry.ra - 1) \div entry.ra
             f == w - 2 - g
  <2>1. /\ entry \in BucketStates /\ elapsed \in Int /\ entry.rf <= elapsed
        /\ n \in Nat /\ n * Milli <= entry.cp
    BY EntryFacts
  <2>2. entry.ra \in Nat \ {0} /\ entry.rp \in Nat \ {0}
    BY <2>1 DEF BucketStates
  <2>3. w \in Int
    <3> DEFINE d == n * Milli - (entry.tk + Accrued(elapsed - entry.rf, entry.ra, entry.rp))
    <3>1. d \in Nat \ {0} /\ w = RetryAfter(d, entry.ra, entry.rp)
      BY <2>1, RejectedBalance
    <3> HIDE DEF d, w
    <3>2. d * entry.rp \in Nat
      BY <2>2, <3>1, Z3
    <3>3. (d * entry.rp) \div entry.ra \in Nat
      BY <2>2, <3>2, DivRounds
    <3> QED
      BY <3>1, <3>3 DEF RetryAfter
  <2>4. g \in Nat
    <3>1. entry.rp + entry.ra - 1 \in Nat
      BY <2>2
    <3> QED
      BY <2>2, <3>1, DivRounds
  <2>5. f \in Nat \ {0}
    <3>1. f > 0
      OBVIOUS
    <3>2. f \in Int
      <4> HIDE DEF w, g
      <4> QED
        BY <2>3, <2>4
    <3> HIDE DEF f
    <3> QED
      BY <3>1, <3>2
  <2>6. f = TryConsume(entry, n, elapsed).retryAfter - 2 - (entry.rp + entry.ra - 1) \div entry.ra
    OBVIOUS
  <2>7. ~TryConsume(entry, n, elapsed + f).success
    <3> HIDE DEF f
    <3> QED
      BY <2>1, <2>5, <2>6, RetryAfterIsNotLate
  <2> QED
    BY <2>7
<1> QED
  BY <1>1, EntryInvHolds, PTL

(* However many calls refill an entry on the way, the refills credit at      *)
(* least what the whole time is good for: the bookkeeping of the time used   *)
(* loses no unit to rounding.                                                *)
THEOREM RefillsNeverLose == EntrySpec => []RefillNeverLoses
<1>1. EntryInv => RefillNeverLoses
  <2> SUFFICES ASSUME EntryInv, ~spilled, ~Spills(entry, elapsed)
               PROVE  Credited >= Accrued(elapsed, entry.ra, entry.rp)
    BY DEF RefillNeverLoses
  <2> DEFINE rate == entry.ra
             per  == entry.rp
             rf   == entry.rf
             a    == Accrued(elapsed - rf, rate, per)
             b    == Gross - opening
             all  == Accrued(elapsed, rate, per)
  <2>1. /\ entry \in BucketStates /\ elapsed \in Nat /\ rf \in 0..elapsed
        /\ net \in Int /\ opening \in Int /\ rf * rate <= b * per
    BY Constants DEF EntryInv
  <2>2. entry.tk \in Int /\ rate \in Nat \ {0} /\ per \in Nat \ {0} /\ rf \in Int
    BY <2>1 DEF BucketStates
  <2>3. rf <= elapsed /\ elapsed - rf \in Nat
    BY <2>1, <2>2
  <2>4. net * Milli \in Int
    BY <2>1, MilliAssumption, Z3
  <2>5. Refill(entry, elapsed).tk = entry.tk + a
    BY <2>1, <2>3, RefillClaims
  <2>6. a \in Nat /\ (elapsed - rf) * rate < a * per + per
    <3> HIDE DEF rate, per, rf
    <3> QED
      BY <2>2, <2>3, AccruedBound
  <2>7. all \in Nat /\ all * per <= elapsed * rate
    <3> HIDE DEF rate, per
    <3> QED
      BY <2>1, <2>2, AccruedBound
  <2>8. b \in Int /\ Credited = a + b
    <3> HIDE DEF a
    <3> QED
      BY <2>1, <2>2, <2>4, <2>5, <2>6 DEF Credited, Gross
  <2> HIDE DEF rate, per, rf, a, b, all
  <2>9. elapsed * rate = rf * rate + (elapsed - rf) * rate
    BY <2>1, <2>2, Z3
  <2>10. (a + b + 1) * per = a * per + b * per + per
    BY <2>2, <2>6, <2>8, Z3
  <2>11. /\ elapsed * rate \in Int /\ rf * rate \in Int /\ (elapsed - rf) * rate \in Int
         /\ a * per \in Int /\ b * per \in Int /\ all * per \in Int
    BY <2>1, <2>2, <2>3, <2>6, <2>7, <2>8, Z3
  <2>12. all * per < (a + b + 1) * per
    BY <2>1, <2>2, <2>6, <2>7, <2>9, <2>10, <2>11
  <2>13. all < a + b + 1
    BY <2>2, <2>6, <2>7, <2>8, <2>12, TimesStrict
  <2>14. Credited >= all
    BY <2>6, <2>7, <2>8, <2>13
  <2> QED
    BY <2>14 DEF all, rate, per
<1> QED
  BY <1>1, EntryInvHolds, PTL
===============================================================================
