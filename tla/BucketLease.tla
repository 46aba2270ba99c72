----------------------------- MODULE BucketLease -----------------------------
(***************************************************************************)
(* One composite bucket item (one entity, one resource, shard 0) and the   *)
(* writers that race on it without ever locking it:                        *)
(*                                                                         *)
(*   - clients running RateLimiter.acquire: the speculative UpdateItem,    *)
(*     the slow path (read, compute, write), its consumption-only retry,   *)
(*     the lease body, and the commit or rollback that ends the lease;     *)
(*   - the aggregator Lambda's refill, computed from a stream image;       *)
(*   - whoever deletes the item (delete_entity, an operator's reset).      *)
(*                                                                         *)
(* Every DynamoDB call is one atomic step; everything a process does       *)
(* between two calls is folded into the step that ends it.                 *)
(***************************************************************************)
EXTENDS TokenBucket, Functions, FiniteSets

CONSTANTS
  Clients,            \* the tasks that acquire
  Limits,             \* the limit names of the bucket
  Capacity,           \* [Limits -> tokens]
  RefillAmount,       \* [Limits -> tokens]
  Period,             \* [Limits -> milliseconds]
  Requests,           \* set of [Limits -> tokens]: the consume arguments
  Deltas,             \* set of [Limits -> Int]: what a lease body changes
  SpeculativeWrites,  \* the values of RateLimiter(speculative_writes=...) in use
  Skew,               \* milliseconds a host's clock may run behind
  MaxClock,           \* bound on time
  MaxAcquires,        \* bound on calls of acquire()
  MaxRemovals,        \* bound on deletions of the item
  MaxFaults           \* bound on crashes and failed calls

ASSUME LimitAssumption ==
  /\ Capacity \in [Limits -> Nat \ {0}]
  /\ RefillAmount \in [Limits -> Nat \ {0}]
  /\ Period \in [Limits -> Nat \ {0}]

ASSUME InputAssumption ==
  /\ IsFiniteSet(Clients)
  /\ Requests \subseteq [Limits -> Nat]
  /\ Deltas \subseteq [Limits -> Int]
  /\ SpeculativeWrites \subseteq BOOLEAN
  /\ Skew \in Nat
  /\ MaxClock \in Nat

VARIABLES
  clock,    \* the true time, in milliseconds
  bucket,   \* the DynamoDB item
  pc,       \* where each client is in acquire()
  req,      \* [client -> the amounts it asked for]
  plan,     \* [client -> the request _commit_initial built]
  seen,     \* [client -> the item its slow path read]
  lease,    \* [client -> its open lease]
  agg,      \* the aggregator: nothing, a stream image, or a planned refill
  born,     \* history: the rf the live item was created with
  debt,     \* history: [limit -> units adjusted away since then]
  returned, \* history: [limit -> units given back since then]
  rewound,  \* history: milliseconds rf was moved back since then
  used,     \* history: [limit -> units the leases that ended well asked for]
  acquires, \* history: calls of acquire() so far
  faults,   \* history: crashes and failed calls so far
  removals  \* history: deletions so far

history == <<born, debt, returned, rewound, used, acquires, faults, removals>>
vars == <<clock, bucket, pc, req, plan, seen, lease, agg, history>>

------------------------------------------------------------------------------
Zero == [l \in Limits |-> 0]
ToMilli(m) == [l \in Limits |-> m[l] * Milli]
Plus(f, g) == [l \in Limits |-> f[l] + g[l]]
Minus(f, g) == [l \in Limits |-> f[l] - g[l]]
Above(f) == [l \in Limits |-> IF f[l] > 0 THEN f[l] ELSE 0]
Below(f) == [l \in Limits |-> IF f[l] < 0 THEN -f[l] ELSE 0]
Asked(m) == {l \in Limits : m[l] # 0}
Only(names, m) == [l \in Limits |-> IF l \in names THEN m[l] ELSE 0]

cap(l) == Capacity[l] * Milli
ra(l) == RefillAmount[l] * Milli

\* _deserialize_composite_bucket: one state per limit, all sharing rf.
StateOf(b, l) == [tk |-> b.tk[l], rf |-> b.rf, cp |-> cap(l), ra |-> ra(l), rp |-> Period[l]]

\* An item is absent, live, or a ghost: tk and tc attributes only, written by
\* an unconditional ADD on an item that was not there.  A ghost carries no
\* entity_id, so a reader takes it for a missing bucket; attribute_not_exists
\* does not.
Absent == [status |-> "absent", rf |-> 0, names |-> {}, tk |-> Zero, tc |-> Zero]
Live(at, m) ==
  [status |-> "live", rf |-> at, names |-> Limits,
   tk |-> [l \in Limits |-> cap(l) - m[l]], tc |-> m]

\* ADD tk -m, tc +m.
Take(b, m) == [b EXCEPT !.tk = Minus(b.tk, m), !.tc = Plus(b.tc, m)]

\* build_composite_adjust: the same ADD, unconditional, creating what is missing.
AddTo(b, m) ==
  IF b.status = "live" THEN Take(b, m)
  ELSE Take([b EXCEPT !.status = "ghost", !.names = @ \cup Asked(m)], m)

\* Mutant: it is enough that something is there.
CoversSome(b, m) == \A l \in Asked(m) : l \in b.names /\ b.tk[l] > 0

\* build_composite_retry, _speculative_consume_single: the amounts that must be there.
Covers(b, m) == \A l \in Asked(m) : l \in b.names /\ b.tk[l] >= m[l]

NoPlan == [kind |-> "none", expected |-> 0, at |-> 0, refill |-> Zero]
NoLease == [initial |-> Zero, want |-> Zero, entries |-> {}]
NoImage == [kind |-> "none", rf |-> 0, tk |-> Zero, at |-> 0, add |-> Zero]

PCs == {"idle", "speculating", "reading", "computing", "writing", "retrying",
        "open", "rollingback"}

Goto(c, l) == pc' = [pc EXCEPT ![c] = l]

\* What a client forgets when acquire() returns or raises.
Forget(c) ==
  /\ Goto(c, "idle")
  /\ req' = [req EXCEPT ![c] = Zero]
  /\ plan' = [plan EXCEPT ![c] = NoPlan]
  /\ seen' = [seen EXCEPT ![c] = Absent]
  /\ lease' = [lease EXCEPT ![c] = NoLease]

\* The lease whose initial consumption has just been written.
Grant(c, entries) ==
  /\ Goto(c, "open")
  /\ lease' = [lease EXCEPT ![c] =
                 [initial |-> ToMilli(req[c]), want |-> ToMilli(req[c]), entries |-> entries]]
  /\ req' = [req EXCEPT ![c] = Zero]
  /\ plan' = [plan EXCEPT ![c] = NoPlan]
  /\ seen' = [seen EXCEPT ![c] = Absent]

Init ==
  /\ clock = 0
  /\ bucket = Absent
  /\ pc = [c \in Clients |-> "idle"]
  /\ req = [c \in Clients |-> Zero]
  /\ plan = [c \in Clients |-> NoPlan]
  /\ seen = [c \in Clients |-> Absent]
  /\ lease = [c \in Clients |-> NoLease]
  /\ agg = NoImage
  /\ born = 0
  /\ debt = Zero
  /\ returned = Zero
  /\ rewound = 0
  /\ used = Zero
  /\ acquires = 0
  /\ faults = 0
  /\ removals = 0

Tick ==
  /\ clock < MaxClock
  /\ clock' = clock + 1
  /\ UNCHANGED <<bucket, pc, req, plan, seen, lease, agg, history>>

\* int(time.time() * 1000) on some host: its own clock, perhaps behind.
Readings == {t \in 0..clock : clock - Skew <= t}

------------------------------------------------------------------------------
(* acquire(): the speculative write *)

Acquire(c, m) ==
  /\ pc[c] = "idle"
  /\ \E speculative \in SpeculativeWrites :
       Goto(c, IF speculative THEN "speculating" ELSE "reading")
  /\ req' = [req EXCEPT ![c] = m]
  /\ acquires < MaxAcquires
  /\ acquires' = acquires + 1
  /\ UNCHANGED <<clock, bucket, plan, seen, lease, agg, born, debt, returned, rewound, used,
                 faults, removals>>

\* The UpdateItem's condition holds: consumed, and committed already.  The
\* lease's entries are only the limits that were asked for.
SpeculateHit(c) ==
  /\ pc[c] = "speculating"
  /\ bucket.status = "live"
  /\ Covers(bucket, ToMilli(req[c]))
  /\ bucket' = Take(bucket, ToMilli(req[c]))
  /\ Grant(c, Asked(req[c]))
  /\ UNCHANGED <<clock, agg, history>>

\* It fails with ALL_OLD: refill would help, so the slow path; or it would not,
\* so RateLimitExceeded.  The time it judges by was read before the call.
SpeculateShort(c) ==
  /\ pc[c] = "speculating"
  /\ bucket.status = "live"
  /\ ~Covers(bucket, ToMilli(req[c]))
  /\ \E now \in 0..clock :
       IF WouldRefillSatisfy([l \in Limits |-> StateOf(bucket, l)], req[c], now)
         THEN Goto(c, "reading") /\ UNCHANGED <<req, plan, seen, lease>>
         ELSE Forget(c)
  /\ UNCHANGED <<clock, bucket, agg, history>>

\* Bucket missing, or ALL_OLD lacks a limit that is asked for: the slow path.
\* A ghost with all of them has no capacity to build a Limit from: ValueError.
SpeculateMiss(c) ==
  /\ pc[c] = "speculating"
  /\ bucket.status # "live"
  /\ IF bucket.status = "ghost" /\ Asked(req[c]) # {} /\ Asked(req[c]) \subseteq bucket.names
       THEN Forget(c)
       ELSE Goto(c, "reading") /\ UNCHANGED <<req, plan, seen, lease>>
  /\ UNCHANGED <<clock, bucket, agg, history>>

------------------------------------------------------------------------------
(* acquire(): the slow path, _do_acquire then Lease._commit_initial *)

\* Mutant: the ghost's missing entity_id is not noticed.
ReadGhost(c) ==
  /\ pc[c] = "reading"
  /\ Goto(c, "computing")
  /\ seen' = [seen EXCEPT ![c] = bucket]
  /\ UNCHANGED <<clock, bucket, req, plan, lease, agg, history>>

Read(c) ==
  /\ pc[c] = "reading"
  /\ Goto(c, "computing")
  /\ seen' = [seen EXCEPT ![c] = IF bucket.status = "live" THEN bucket ELSE Absent]
  /\ UNCHANGED <<clock, bucket, req, plan, lease, agg, history>>

\* try_consume of every resolved limit on the state read, the ones asked for
\* nothing included, at a time read before or after the item was; then the
\* request is built, stamped with the time of the commit.
States(c) == [l \in Limits |-> StateOf(seen[c], l)]
Results(c, now) == [l \in Limits |-> TryConsume(States(c)[l], req[c][l], now)]

NormalPlan(c, at, now) ==
  [kind |-> "normal", expected |-> seen[c].rf, at |-> at,
   refill |-> [l \in Limits |-> Results(c, now)[l].tk - seen[c].tk[l] + req[c][l] * Milli]]

ComputeNormal(c) ==
  /\ pc[c] = "computing"
  /\ seen[c].status = "live"
  /\ \E at \in Readings : \E now \in 0..at :
       IF \A l \in Limits : Results(c, now)[l].success
         THEN /\ plan' = [plan EXCEPT ![c] = NormalPlan(c, at, now)]
              /\ Goto(c, "writing")
              /\ seen' = [seen EXCEPT ![c] = Absent]
              /\ UNCHANGED <<req, lease>>
         ELSE Forget(c)
  /\ UNCHANGED <<clock, bucket, agg, history>>

ComputeCreate(c) ==
  /\ pc[c] = "computing"
  /\ seen[c].status = "absent"
  /\ IF \A l \in Limits : req[c][l] <= Capacity[l]
       THEN /\ \E at \in Readings :
                 plan' = [plan EXCEPT ![c] =
                   [kind |-> "create", expected |-> 0, at |-> at, refill |-> Zero]]
            /\ Goto(c, "writing")
            /\ UNCHANGED <<req, seen, lease>>
       ELSE Forget(c)
  /\ UNCHANGED <<clock, bucket, agg, history>>

\* Mutant: the item is put whatever is there.
CreateAnyway(c) ==
  /\ pc[c] = "writing"
  /\ plan[c].kind = "create"
  /\ bucket' = Live(plan[c].at, ToMilli(req[c]))
  /\ Grant(c, Limits)
  /\ born' = plan[c].at
  /\ debt' = Zero
  /\ returned' = Zero
  /\ rewound' = 0
  /\ UNCHANGED <<clock, agg, used, acquires, faults, removals>>

\* build_composite_create, attribute_not_exists.
WriteCreate(c) ==
  /\ pc[c] = "writing"
  /\ plan[c].kind = "create"
  /\ bucket.status = "absent"
  /\ bucket' = Live(plan[c].at, ToMilli(req[c]))
  /\ Grant(c, Limits)
  /\ born' = plan[c].at
  /\ debt' = Zero
  /\ returned' = Zero
  /\ rewound' = 0
  /\ UNCHANGED <<clock, agg, used, acquires, faults, removals>>

\* Mutants: the optimistic lock is left out; the floor is left out.
ConditionWithoutLock(c) ==
  /\ bucket.status = "live"
  /\ \A l \in Limits :
       LET floor == req[c][l] * Milli - plan[c].refill[l]
       IN  floor > 0 => bucket.tk[l] >= floor
ConditionWithoutFloor(c) == bucket.status = "live" /\ bucket.rf = plan[c].expected

\* build_composite_normal's condition: rf unchanged since the read, and room
\* for the net decrease of every limit.
NormalCondition(c) ==
  /\ bucket.status = "live"
  /\ bucket.rf = plan[c].expected
  /\ \A l \in Limits :
       LET floor == req[c][l] * Milli - plan[c].refill[l]
       IN  floor > 0 => bucket.tk[l] >= floor

WriteNormal(c) ==
  /\ pc[c] = "writing"
  /\ plan[c].kind = "normal"
  /\ NormalCondition(c)
  /\ bucket' = [Take(bucket, ToMilli(req[c])) EXCEPT
                  !.tk = Plus(@, plan[c].refill), !.rf = plan[c].at]
  /\ rewound' = rewound + IF plan[c].at < bucket.rf THEN bucket.rf - plan[c].at ELSE 0
  /\ Grant(c, Limits)
  /\ UNCHANGED <<clock, agg, born, debt, returned, used, acquires, faults, removals>>

\* The condition fails, whichever it was: the consumption-only retry.
WriteFails(c) ==
  /\ pc[c] = "writing"
  /\ IF plan[c].kind = "create" THEN bucket.status # "absent" ELSE ~NormalCondition(c)
  /\ Goto(c, "retrying")
  /\ UNCHANGED <<clock, bucket, req, plan, seen, lease, agg, history>>

\* build_composite_retry; with nothing consumed there is nothing to write.
Retry(c) ==
  /\ pc[c] = "retrying"
  /\ IF Covers(bucket, ToMilli(req[c]))
       THEN bucket' = Take(bucket, ToMilli(req[c])) /\ Grant(c, Limits)
       ELSE Forget(c) /\ UNCHANGED bucket
  /\ UNCHANGED <<clock, agg, history>>

------------------------------------------------------------------------------
(* The lease: body, commit, rollback *)

\* Lease.consume / adjust / release, in memory, of the limits that have an entry.
\* A lease changes its mind at most once here: several changes add up to one.
\* Whether the local check of Lease.consume lets a change through is LocalBucket's
\* question.
Change(c, d) ==
  /\ pc[c] = "open"
  /\ lease[c].want = lease[c].initial
  /\ lease' = [lease EXCEPT ![c].want = Plus(@, Only(lease[c].entries, ToMilli(d)))]
  /\ UNCHANGED <<clock, bucket, pc, req, plan, seen, agg, history>>

\* The deltas of _commit_adjustments.
Adjustment(c) == Minus(lease[c].want, lease[c].initial)

\* write_each of one build_composite_adjust item: nothing if no delta.
WriteAdjust(m) ==
  /\ bucket' = IF Asked(m) = {} THEN bucket ELSE AddTo(bucket, m)
  /\ debt' = Plus(debt, Above(m))
  /\ returned' = Plus(returned, Below(m))

Close(c) ==
  /\ pc[c] = "open"
  /\ WriteAdjust(Adjustment(c))
  /\ used' = Plus(used, lease[c].want)
  /\ Forget(c)
  /\ UNCHANGED <<clock, agg, born, rewound, acquires, faults, removals>>

\* _commit_adjustments raises, its write applied or not: acquire() rolls back.
CloseFails(c) ==
  /\ pc[c] = "open"
  /\ faults < MaxFaults
  /\ Asked(Adjustment(c)) # {}
  /\ \/ WriteAdjust(Adjustment(c))
     \/ UNCHANGED <<bucket, debt, returned>>
  /\ Goto(c, "rollingback")
  /\ faults' = faults + 1
  /\ UNCHANGED <<clock, req, plan, seen, lease, agg, born, rewound, used, acquires, removals>>

BodyRaises(c) ==
  /\ pc[c] = "open"
  /\ Goto(c, "rollingback")
  /\ UNCHANGED <<clock, bucket, req, plan, seen, lease, agg, history>>

\* Mutant: what was adjusted is given back too, though it was never written.
RollbackWanted(c) ==
  /\ pc[c] = "rollingback"
  /\ WriteAdjust([l \in Limits |-> -lease[c].want[l]])
  /\ Forget(c)
  /\ UNCHANGED <<clock, agg, born, rewound, used, acquires, faults, removals>>

\* _rollback gives back what was written on enter.
Rollback(c) ==
  /\ pc[c] = "rollingback"
  /\ WriteAdjust([l \in Limits |-> -lease[c].initial[l]])
  /\ Forget(c)
  /\ UNCHANGED <<clock, agg, born, rewound, used, acquires, faults, removals>>

\* The process dies, is cancelled (acquire() catches Exception only), or loses
\* an answer; a failed rollback is only logged.  Nothing is given back.
Crash(c) ==
  /\ pc[c] # "idle"
  /\ faults < MaxFaults
  /\ faults' = faults + 1
  /\ Forget(c)
  /\ UNCHANGED <<clock, bucket, agg, born, debt, returned, rewound, used, acquires, removals>>

------------------------------------------------------------------------------
(* The aggregator's refill, and deletion *)

\* aggregate_bucket_states: the last image of the bucket in a batch.
Image ==
  /\ agg.kind = "none"
  /\ bucket.status = "live"
  /\ agg' = [NoImage EXCEPT !.kind = "image", !.rf = bucket.rf, !.tk = bucket.tk]
  /\ UNCHANGED <<clock, bucket, pc, req, plan, seen, lease, history>>

\* try_refill_bucket's arithmetic.  Which limits are short of the batch's
\* consumption depends on the batch: any of those with something to add.
RefillDeltas(now) ==
  [l \in Limits |->
     Refill([tk |-> agg.tk[l], rf |-> agg.rf, cp |-> cap(l), ra |-> ra(l), rp |-> Period[l]],
            now).tk - agg.tk[l]]

RefillPlan(now, short) ==
  IF short = {} THEN NoImage
  ELSE [agg EXCEPT !.kind = "plan", !.at = now,
          !.add = [l \in Limits |-> IF l \in short THEN RefillDeltas(now)[l] ELSE 0]]

PlanRefill ==
  /\ agg.kind = "image"
  /\ \E now \in Readings : \E short \in SUBSET {l \in Limits : RefillDeltas(now)[l] > 0} :
       agg' = RefillPlan(now, short)
  /\ UNCHANGED <<clock, bucket, pc, req, plan, seen, lease, history>>

WriteRefill ==
  /\ agg.kind = "plan"
  /\ IF bucket.status = "live" /\ bucket.rf = agg.rf
       THEN /\ bucket' = [bucket EXCEPT !.tk = Plus(@, agg.add), !.rf = agg.at]
            /\ rewound' = rewound + IF agg.at < bucket.rf THEN bucket.rf - agg.at ELSE 0
       ELSE UNCHANGED <<bucket, rewound>>
  /\ agg' = NoImage
  /\ UNCHANGED <<clock, pc, req, plan, seen, lease, born, debt, returned, used, acquires, faults, removals>>

Remove ==
  /\ bucket.status # "absent"
  /\ removals < MaxRemovals
  /\ bucket' = Absent
  /\ removals' = removals + 1
  /\ UNCHANGED <<clock, pc, req, plan, seen, lease, agg, born, debt, returned, rewound, used, acquires, faults>>

ClientStep(c) ==
  \/ \E m \in Requests : Acquire(c, m)
  \/ SpeculateHit(c) \/ SpeculateShort(c) \/ SpeculateMiss(c)
  \/ Read(c) \/ ComputeNormal(c) \/ ComputeCreate(c)
  \/ WriteCreate(c) \/ WriteNormal(c) \/ WriteFails(c) \/ Retry(c)
  \/ \E d \in Deltas : Change(c, d)
  \/ Close(c) \/ CloseFails(c) \/ BodyRaises(c) \/ Rollback(c) \/ Crash(c)

Next ==
  \/ Tick
  \/ \E c \in Clients : ClientStep(c)
  \/ Image \/ PlanRefill \/ WriteRefill
  \/ Remove

Spec == Init /\ [][Next]_vars
------------------------------------------------------------------------------
(* Properties *)

Vectors == [Limits -> Int]
Amounts == [Limits -> Nat]
Items == [status : {"absent", "live", "ghost"}, rf : Nat, names : SUBSET Limits,
          tk : Vectors, tc : Vectors]
Readables == {b \in Items : b.status # "ghost"}
Plans == [kind : {"none", "create", "normal"}, expected : Nat, at : Nat, refill : Vectors]
Leases == [initial : Amounts, want : Vectors, entries : SUBSET Limits]
Refills == [kind : {"none", "image", "plan"}, rf : Nat, tk : Vectors, at : Nat, add : Amounts]

BucketTypeOK == clock \in 0..MaxClock /\ bucket \in Items /\ agg \in Refills

ClientsTypeOK ==
  /\ pc \in [Clients -> PCs]
  /\ req \in [Clients -> Amounts]
  /\ plan \in [Clients -> Plans]
  /\ seen \in [Clients -> Readables]
  /\ lease \in [Clients -> Leases]

HistoryTypeOK ==
  /\ born \in Nat /\ rewound \in Nat
  /\ debt \in Amounts /\ returned \in Amounts /\ used \in Vectors
  /\ acquires \in Nat /\ faults \in Nat /\ removals \in Nat

(* Type invariant of the item, the clients, the aggregator and the history;  *)
(* a slow path never takes a ghost it has read for a bucket.                 *)
TypeOK == BucketTypeOK /\ ClientsTypeOK /\ HistoryTypeOK

\* What refills have added to the live item: nothing else moves tk + tc.
Granted(l) == bucket.tk[l] + bucket.tc[l] - cap(l)

(* ADR-115, "no double refill": the time between two refills is credited     *)
(* once, whoever refills: all that was granted fits in the time since the    *)
(* item was created.                                                         *)
NoDoubleRefill ==
  bucket.status = "live" =>
    \A l \in Limits : Granted(l) * Period[l] <= (clock - born) * ra(l)

(* The same when clocks disagree, and of the time up to rf only: a write     *)
(* that moves rf back re-opens at most the time it moved it back by.         *)
RefillWithinTime ==
  bucket.status = "live" =>
    \A l \in Limits : Granted(l) * Period[l] <= (bucket.rf - born + rewound) * ra(l)

(* What the limiter is for: beyond the initial burst and the rate times the  *)
(* time passed, the net consumption of an item is only what its leases       *)
(* adjusted upwards after they were admitted.                                *)
RateBound ==
  bucket.status = "live" =>
    \A l \in Limits :
      (bucket.tc[l] - debt[l] - cap(l)) * Period[l] <= (clock - born + rewound) * ra(l)

(* ADR-115, "negative tokens prevented on acquire": no acquire, by whatever  *)
(* path it commits, takes a limit below zero or further below; the floor in  *)
(* the normal write's condition is what holds against speculative writers.   *)
AcquireNeverOverdraws ==
  [][\A c \in Clients :
       pc[c] \in {"speculating", "writing", "retrying"} /\ pc'[c] = "open" =>
         \A l \in Limits : bucket'.tk[l] >= 0 \/ bucket'.tk[l] >= bucket.tk[l]]_vars

(* A bucket goes below zero by adjustments only, and by no more than them.   *)
DebtIsAdjusted ==
  bucket.status = "live" => \A l \in Limits : bucket.tk[l] >= -debt[l]

(* A bucket goes over its capacity only by what was given back to it: the    *)
(* refill each writer caps at the ceiling it read stays capped when others   *)
(* have written in between.  This is of one clock (Skew = 0): where a        *)
(* slower clock moves rf back, a later write may bring it to a value it had  *)
(* before, and a lock that names that value holds although tokens were       *)
(* added since.                                                              *)
WithinCapacity ==
  bucket.status = "live" /\ removals = 0 =>
    \A l \in Limits : bucket.tk[l] <= cap(l) + returned[l]

(* No lost and no double-counted consumption: without failures, the item's   *)
(* tc is what the leases that ended well asked for in all, plus what the     *)
(* open ones took on enter; a rolled-back lease leaves nothing behind.       *)
CountedOnce ==
  bucket.status = "live" /\ faults = 0 /\ removals = 0 =>
    \A l \in Limits :
      bucket.tc[l] = used[l] + SumFunction([c \in Clients |-> lease[c].initial[l]])

\* The account that the item is: a limit's ceiling, rate and balance in milli-units.
\* A client holds a lease from the write that admits it to the one that ends it.
Account ==
  INSTANCE Ledger WITH
    Ceiling <- [l \in Limits |-> cap(l)], Rate <- [l \in Limits |-> ra(l)],
    time <- clock, open <- (bucket.status = "live"), since <- born, reopened <- rewound,
    balance <- bucket.tk, drawn <- bucket.tc,
    holds <- {c \in Clients : pc[c] \in {"open", "rollingback"}}

(* All of it together is a ledger: each write of a client, of the aggregator *)
(* or of who deletes the item, with whatever raced it, is one step of the    *)
(* account's, or none.                                                       *)
ImplementsLedger == Account!Spec

(* "Create race: another writer created the item first", says the retry: a   *)
(* create that finds an item in its way finds a bucket it can consume from.  *)
CreateLosesToCreator ==
  \A c \in Clients :
    pc[c] = "retrying" /\ plan[c].kind = "create" => bucket.status # "ghost"
==============================================================================
