------------------------------- MODULE Sharding -------------------------------
(***************************************************************************)
(* One bucket spread over several items.  Every speculative write also     *)
(* takes one unit of the shard's wcu limit; a client that finds it empty   *)
(* doubles shard_count on shard 0, and so does the stream aggregator when  *)
(* little of it is left.  The aggregator creates the new shards, copies    *)
(* shard_count to the old ones, refills shards and counts usage, all from  *)
(* stream records that may be delivered more than once.  The slow path,    *)
(* adjustments and rollbacks know shard 0 only.                            *)
(*                                                                         *)
(* One application limit, whole tokens and whole seconds; equal clocks; an *)
(* entity without a parent; no item is deleted.  The writes of a lease     *)
(* that fail or are lost are BucketLease's.                                *)
(***************************************************************************)
EXTENDS Integers, Sequences, FiniteSetsExt

CONSTANTS
  Clients,      \* the tasks that acquire, each with its own entity cache
  Capacity,     \* tokens of the limit, and of the whole bucket
  Rate,         \* tokens refilled each second
  WcuCapacity,  \* WCU_LIMIT_CAPACITY, also refilled each second
  Requests,     \* amounts a client may ask for
  Changes,      \* what a lease body may change its consumption by
  StartCounts,  \* shard_count of the bucket at the start, 0 if there is none
  MaxShards,    \* bound on shard_count
  MaxBatch,     \* bound on the records of one batch
  MaxAcquires,  \* bound on calls of acquire()
  MaxTime,      \* bound on the time
  MaxFaults     \* bound on failed calls and deaths of the aggregator

ASSUME ShardAssumption ==
  /\ Capacity \in Nat \ {0}
  /\ Rate \in Nat
  /\ WcuCapacity \in Nat \ {0}
  /\ Requests \subseteq Nat \ {0}
  /\ Changes \subseteq Int
  /\ MaxShards \in Nat \ {0}
  /\ MaxBatch \in Nat
  /\ StartCounts \subseteq {0, 2, 4} \cap 0..MaxShards

VARIABLES
  item,      \* [shard -> its bucket item]
  stream,    \* the records of MODIFY events not yet processed, in order
  work,      \* the writes the aggregator has still to make for its batch
  taken,     \* how many records that batch has, 0 between batches
  pc,        \* where each client is in acquire()
  call,      \* [client -> what it knows of its call]
  cached,    \* [client -> shard_count in its entity cache, 0 if none]
  now,
  snapshot,  \* total of the usage snapshots
  used,      \* history: [shard -> what leases consumed of it, net]
  refilled,  \* history: [shard -> what refills added to it]
  created,   \* history: [shard -> what it was first created with]
  inserted,  \* history: consumption of the write that created shard 0
  dropped,   \* history: a change of shard_count was not propagated
  acquires,  \* history: calls of acquire() so far
  faults     \* history: failed calls and deaths of the aggregator so far

clientVars == <<pc, call, cached, acquires>>
streamVars == <<work, taken, snapshot, dropped, faults>>
vars == <<item, stream, work, taken, pc, call, cached, now, snapshot, used, refilled,
          created, inserted, dropped, acquires, faults>>

------------------------------------------------------------------------------
Bucket == INSTANCE TokenBucket WITH Milli <- 1

Shards == 0..MaxShards - 1
PCs == {"idle", "bumping", "elsewhere", "reading", "writing", "rewriting", "open"}

\* n is shard_count, 0 of an item that does not exist.
NoItem == [n |-> 0, tk |-> 0, wcu |-> 0, rf |-> 0]
NoCall == [req |-> 0, shard |-> 0, n |-> 0, tried |-> {}, helps |-> FALSE, fixed |-> FALSE,
           rf |-> 0, refill |-> 0]

Exists(s) == item[s].n > 0

\* refill_bucket of a balance at the present time.
Refilled(tk, rf, cp, ra) == Bucket!Refill([tk |-> tk, rf |-> rf, cp |-> cp, ra |-> ra, rp |-> 1], now).tk

\* The stream record of a write of an existing item: both images, as far as the
\* aggregator reads them, and the differences of its consumption counters.
Record(s, new, consumed, writes) ==
  [shard |-> s, was |-> item[s].n, n |-> new.n, tc |-> consumed, wcuTc |-> writes,
   tk |-> new.tk, wcu |-> new.wcu, rf |-> new.rf]

Write(s, new, consumed, writes) ==
  /\ item' = [item EXCEPT ![s] = new]
  /\ stream' = Append(stream, Record(s, new, consumed, writes))

Consumes(s, n) ==
  /\ used' = [used EXCEPT ![s] = @ + n]
  /\ UNCHANGED refilled

Goto(c, l) == pc' = [pc EXCEPT ![c] = l]

Forget(c) ==
  /\ Goto(c, "idle")
  /\ call' = [call EXCEPT ![c] = NoCall]

\* Nothing the aggregator or the clock owns moves.
ClientStep == UNCHANGED <<work, taken, now, snapshot, dropped, faults>>

\* A shard of a bucket of n shards with nothing consumed.
FullItem(s, n) ==
  IF s < n THEN [n |-> n, tk |-> IF s = 0 THEN Capacity ELSE Capacity \div n,
                 wcu |-> WcuCapacity, rf |-> 0]
  ELSE NoItem

\* There is no bucket yet, or one that was sharded before, refilled since then,
\* and is known to the clients.
Init ==
  /\ \E n \in StartCounts :
       /\ item = [s \in Shards |-> FullItem(s, n)]
       /\ cached = [c \in Clients |-> n]
       /\ created = [s \in Shards |-> FullItem(s, n).tk]
  /\ stream = <<>>
  /\ work = {}
  /\ taken = 0
  /\ pc = [c \in Clients |-> "idle"]
  /\ call = [c \in Clients |-> NoCall]
  /\ now = 0
  /\ snapshot = 0
  /\ used = [s \in Shards |-> 0]
  /\ refilled = [s \in Shards |-> 0]
  /\ inserted = 0
  /\ dropped = FALSE
  /\ acquires = 0
  /\ faults = 0

------------------------------------------------------------------------------
(* acquire(): the speculative writes *)

\* The random shard, of those the cache knows.
Candidates(c) == IF cached[c] > 1 THEN 0..cached[c] - 1 ELSE {0}

\* The condition of a speculative write.
Covers(s, n) == Exists(s) /\ item[s].tk >= n /\ item[s].wcu >= 1

\* What it writes, if the condition holds.
Speculates(s, n) ==
  /\ Write(s, [item[s] EXCEPT !.tk = @ - n, !.wcu = @ - 1], n, 1)
  /\ Consumes(s, n)

\* would_refill_satisfy, with the whole capacity whatever the shard.
RefillHelps(s, n) == Refilled(item[s].tk, item[s].rf, Capacity, Rate) >= n

\* Where a speculative write that failed sends the call: a bump when the wcu limit
\* is exhausted, another shard when there are several, the slow path when
\* there is no item or a refill would do, else a rejection.
AfterFailure(s, n) ==
  IF ~Exists(s) THEN "reading"
  ELSE IF item[s].wcu < 1 THEN "bumping"
  ELSE IF item[s].n > 1 THEN "elsewhere"
  ELSE IF RefillHelps(s, n) THEN "reading"
  ELSE "idle"

Called(s, n) == [NoCall EXCEPT !.req = n, !.shard = s, !.n = item[s].n, !.tried = {s}]

AcquireHit(c, s, n) ==
  /\ Covers(s, n)
  /\ Speculates(s, n)
  /\ Goto(c, "open")
  /\ call' = [call EXCEPT ![c] = Called(s, n)]
  /\ cached' = [cached EXCEPT ![c] = item[s].n]

AcquireFails(c, s, n) ==
  /\ ~Covers(s, n)
  /\ Goto(c, AfterFailure(s, n))
  /\ call' = [call EXCEPT ![c] =
       IF AfterFailure(s, n) = "idle" THEN NoCall
       ELSE [Called(s, n) EXCEPT !.helps = Exists(s) /\ RefillHelps(s, n)]]
  /\ UNCHANGED <<item, stream, cached, used, refilled>>

Acquire(c, s, n) ==
  /\ pc[c] = "idle"
  /\ acquires < MaxAcquires
  /\ acquires' = acquires + 1
  /\ s \in Candidates(c)
  /\ AcquireHit(c, s, n) \/ AcquireFails(c, s, n)
  /\ UNCHANGED <<created, inserted>>
  /\ ClientStep

\* Mutant: the shard that refused is bumped.
BumpRefusing(c) ==
  /\ pc[c] = "bumping"
  /\ LET s == call[c].shard  n == call[c].n
     IN  /\ 2 * n <= MaxShards
         /\ Write(s, [item[s] EXCEPT !.n = 2 * n], 0, 0)
         /\ cached' = [cached EXCEPT ![c] = 2 * n]
  /\ Goto(c, "reading")
  /\ UNCHANGED <<call, used, refilled, created, inserted, acquires>>
  /\ ClientStep

\* bump_shard_count with the count the refusing shard had; the slow path follows.
BumpShardCount(c) ==
  /\ pc[c] = "bumping"
  /\ LET n == call[c].n
     IN  \/ /\ item[0].n = n
            /\ 2 * n <= MaxShards
            /\ Write(0, [item[0] EXCEPT !.n = 2 * n], 0, 0)
            /\ cached' = [cached EXCEPT ![c] = 2 * n]
         \/ /\ item[0].n # n
            /\ cached' = [cached EXCEPT ![c] = n]
            /\ UNCHANGED <<item, stream>>
  /\ Goto(c, "reading")
  /\ UNCHANGED <<call, used, refilled, created, inserted, acquires>>
  /\ ClientStep

\* _retry_on_other_shard: at most two more, by the count the first shard gave.
Untried(c) == IF Cardinality(call[c].tried) > 2 THEN {} ELSE (0..call[c].n - 1) \ call[c].tried

RetryHit(c, s) ==
  /\ Covers(s, call[c].req)
  /\ Speculates(s, call[c].req)
  /\ Goto(c, "open")
  /\ call' = [call EXCEPT ![c].shard = s, ![c].fixed = TRUE]

RetryFails(c, s) ==
  /\ ~Covers(s, call[c].req)
  /\ call' = [call EXCEPT ![c].tried = @ \cup {s}]
  /\ UNCHANGED <<item, stream, pc, used, refilled>>

RetryOnOtherShard(c, s) ==
  /\ pc[c] = "elsewhere"
  /\ s \in Untried(c)
  /\ RetryHit(c, s) \/ RetryFails(c, s)
  /\ UNCHANGED <<cached, created, inserted, acquires>>
  /\ ClientStep

\* No shard left to try: the failure of the first one decides.
GiveUpShards(c) ==
  /\ pc[c] = "elsewhere"
  /\ Untried(c) = {}
  /\ IF call[c].helps THEN Goto(c, "reading") /\ UNCHANGED call ELSE Forget(c)
  /\ UNCHANGED <<item, stream, cached, used, refilled, created, inserted, acquires>>
  /\ ClientStep

------------------------------------------------------------------------------
(* acquire(): the slow path, on shard 0 *)

Read(c) ==
  /\ pc[c] = "reading"
  /\ LET tk == IF Exists(0) THEN Refilled(item[0].tk, item[0].rf, Capacity, Rate) ELSE Capacity
     IN  IF tk < call[c].req THEN Forget(c)
         ELSE /\ Goto(c, "writing")
              /\ call' = [call EXCEPT ![c].n = item[0].n, ![c].rf = item[0].rf,
                                      ![c].refill = IF Exists(0) THEN tk - item[0].tk ELSE 0]
  /\ UNCHANGED <<item, stream, cached, used, refilled, created, inserted, acquires>>
  /\ ClientStep

Create(c) ==
  /\ pc[c] = "writing" /\ call[c].n = 0
  /\ ~Exists(0)
  /\ item' = [item EXCEPT ![0] =
                [n |-> 1, tk |-> Capacity - call[c].req, wcu |-> WcuCapacity, rf |-> now]]
  /\ Consumes(0, call[c].req)
  /\ created' = [created EXCEPT ![0] = Capacity]
  /\ inserted' = call[c].req
  /\ Goto(c, "open")
  /\ call' = [call EXCEPT ![c].shard = 0]
  /\ UNCHANGED <<stream, cached, acquires>>
  /\ ClientStep

\* The lock and the floor of build_composite_normal.
Normal(c) ==
  /\ call[c].n > 0
  /\ item[0].rf = call[c].rf
  /\ call[c].req > call[c].refill => item[0].tk >= call[c].req - call[c].refill

WriteNormal(c) ==
  /\ pc[c] = "writing"
  /\ Normal(c)
  /\ Write(0, [item[0] EXCEPT !.tk = @ + call[c].refill - call[c].req, !.rf = now], call[c].req, 0)
  /\ used' = [used EXCEPT ![0] = @ + call[c].req]
  /\ refilled' = [refilled EXCEPT ![0] = @ + call[c].refill]
  /\ Goto(c, "open")
  /\ call' = [call EXCEPT ![c].shard = 0]
  /\ UNCHANGED <<cached, created, inserted, acquires>>
  /\ ClientStep

WriteFails(c) ==
  /\ pc[c] = "writing"
  /\ IF call[c].n = 0 THEN Exists(0) ELSE ~Normal(c)
  /\ Goto(c, "rewriting")
  /\ UNCHANGED <<item, stream, call, cached, used, refilled, created, inserted, acquires>>
  /\ ClientStep

\* Consumption only.
Retry(c) ==
  /\ pc[c] = "rewriting"
  /\ \/ /\ item[0].tk >= call[c].req
        /\ Write(0, [item[0] EXCEPT !.tk = @ - call[c].req], call[c].req, 0)
        /\ Consumes(0, call[c].req)
        /\ Goto(c, "open")
        /\ call' = [call EXCEPT ![c].shard = 0]
     \/ /\ item[0].tk < call[c].req
        /\ Forget(c)
        /\ UNCHANGED <<item, stream, used, refilled>>
  /\ UNCHANGED <<cached, created, inserted, acquires>>
  /\ ClientStep

------------------------------------------------------------------------------
(* The open lease *)

\* Mutant: the change goes to the shard that was consumed from.
SettleThere(c, d) ==
  /\ pc[c] = "open" /\ ~call[c].fixed
  /\ d \in Changes \cup {-call[c].req}
  /\ LET s == call[c].shard
     IN  IF d = 0 THEN UNCHANGED <<item, stream, used, refilled>>
         ELSE Write(s, [item[s] EXCEPT !.tk = @ - d], d, 0) /\ Consumes(s, d)
  /\ Forget(c)
  /\ UNCHANGED <<cached, created, inserted, acquires>>
  /\ ClientStep

\* The body ends after a change of d, or raises: then d takes back the request.
\* Either is written to shard 0, whichever shard was consumed from.
Settle(c, d) ==
  /\ pc[c] = "open"
  /\ ~call[c].fixed
  /\ d \in Changes \cup {-call[c].req}
  /\ IF d = 0 THEN UNCHANGED <<item, stream, used, refilled>>
     ELSE /\ Write(0, [item[0] EXCEPT !.tk = @ - d], d, 0)
          /\ Consumes(0, d)
  /\ Forget(c)
  /\ UNCHANGED <<cached, created, inserted, acquires>>
  /\ ClientStep

\* A lease of the shard retry is committed from the start: a change raises
\* LeaseExpiredError, and nothing is taken back.
SettleFixed(c) ==
  /\ pc[c] = "open"
  /\ call[c].fixed
  /\ Forget(c)
  /\ UNCHANGED <<item, stream, cached, used, refilled, created, inserted, acquires>>
  /\ ClientStep

Client(c) ==
  \/ \E s \in Shards, n \in Requests : Acquire(c, s, n)
  \/ BumpShardCount(c)
  \/ \E s \in Shards : RetryOnOtherShard(c, s)
  \/ GiveUpShards(c) \/ Read(c) \/ Create(c) \/ WriteNormal(c) \/ WriteFails(c) \/ Retry(c)
  \/ \E d \in Changes \cup {-n : n \in Requests} : Settle(c, d)
  \/ SettleFixed(c)

------------------------------------------------------------------------------
(* The aggregator *)

\* A batch's writes, each with what it was computed from; they are made in the
\* order of their ranks: usage, refills, doublings, then record by record
\* the propagation.
Op(kind, stage, i, to, rec) ==
  [kind |-> kind, rank |-> (stage * (MaxBatch + 1) + i) * MaxShards + to, to |-> to, rec |-> rec]

\* Mutant: what leases give back is left out.
CountsOfTaking(b) == {Op("count", 0, i, 0, b[i]) : i \in {j \in DOMAIN b : b[j].tc > 0}}

\* update_snapshot for every delta of the application limit.
Counts(b) == {Op("count", 0, i, 0, b[i]) : i \in {j \in DOMAIN b : b[j].tc # 0}}

\* aggregate_bucket_states: for each shard in the batch the deltas added up, the
\* shard_count of the first record and the rest of the last.
Firsts(b) == {i \in DOMAIN b : \A j \in DOMAIN b : j < i => b[j].shard # b[i].shard}
Lasts(b) == {i \in DOMAIN b : \A j \in DOMAIN b : j > i => b[j].shard # b[i].shard}
Of(b, s) == {i \in DOMAIN b : b[i].shard = s}
Consumed(b, s) == SumFunctionOnSet([i \in DOMAIN b |-> b[i].tc], Of(b, s))
Written(b, s) == SumFunctionOnSet([i \in DOMAIN b |-> b[i].wcuTc], Of(b, s))
Shard(b, first, last) ==
  [b[last] EXCEPT !.n = b[first].n, !.tc = Consumed(b, b[last].shard),
                  !.wcuTc = Written(b, b[last].shard)]
States(b) ==
  {Shard(b, p[1], p[2]) : p \in {q \in Firsts(b) \X Lasts(b) : b[q[1]].shard = b[q[2]].shard}}

Refills(b) == {Op("refill", 1, 0, st.shard, st) : st \in States(b)}

\* WCU_PROACTIVE_THRESHOLD_LOW, a fifth of the capacity.
IsLow(st) == 5 * st.wcu < WcuCapacity

\* try_proactive_shard.
Doublings(b) ==
  {Op("double", 2, 0, 0, st) :
     st \in {r \in States(b) : r.shard = 0 /\ IsLow(r) /\ 2 * r.n <= MaxShards}}

\* Mutants: the first new shard is forgotten; one too many is created.
PropagationsOffByOne(rec, i) ==
  IF rec.shard # 0 \/ rec.n <= rec.was THEN {}
  ELSE {Op("raise", 3, i, s, rec) : s \in 1..rec.was - 1}
       \cup {Op("clone", 3, i, s, rec) : s \in rec.was + 1..rec.n - 1}

PropagationsOneMore(rec, i) ==
  IF rec.shard # 0 \/ rec.n <= rec.was THEN {}
  ELSE {Op("raise", 3, i, s, rec) : s \in 1..rec.was - 1}
       \cup {Op("clone", 3, i, s, rec) : s \in rec.was..rec.n}

\* propagate_shard_count of the i-th record.
Propagations(rec, i) ==
  IF rec.shard # 0 \/ rec.n <= rec.was THEN {}
  ELSE {Op("raise", 3, i, s, rec) : s \in 1..rec.was - 1}
       \cup {Op("clone", 3, i, s, rec) : s \in rec.was..rec.n - 1}

AllPropagations(b) == UNION {Propagations(b[i], i) : i \in DOMAIN b}

Drop(n) == SubSeq(stream, n + 1, Len(stream))

\* process_stream_records plans from the images alone.  A batch without any
\* consumption returns at once, before refill and propagation.
TakeBatch(k) ==
  /\ taken = 0
  /\ k <= Len(stream)
  /\ LET b == SubSeq(stream, 1, k)
     IN  IF Counts(b) = {}
           THEN /\ stream' = Drop(k)
                /\ dropped' = (dropped \/ AllPropagations(b) # {})
                /\ UNCHANGED <<work, taken>>
           ELSE /\ work' = Counts(b) \cup Refills(b) \cup Doublings(b) \cup AllPropagations(b)
                /\ taken' = k
                /\ UNCHANGED <<stream, dropped>>
  /\ UNCHANGED <<item, now, snapshot, used, refilled, created, inserted, faults>>
  /\ UNCHANGED clientVars

\* What try_refill_bucket adds to a limit: nothing, if what it projects covers what
\* the batch consumed.
Addition(tk, rf, cp, ra, consumed) ==
  LET projected == Refilled(tk, rf, cp, ra)
      estimate  == IF consumed > 0 THEN consumed ELSE 0
  IN  IF projected > tk /\ projected < estimate THEN projected - tk ELSE 0

TokensAdded(st) == Addition(st.tk, st.rf, Capacity \div st.n, Rate \div st.n, st.tc)
WcuAdded(st) == Addition(st.wcu, st.rf, WcuCapacity \div st.n, WcuCapacity \div st.n, st.wcuTc)

\* try_refill_bucket writes, with the lock on rf.
RefillApplies(op) ==
  /\ op.kind = "refill"
  /\ TokensAdded(op.rec) > 0 \/ WcuAdded(op.rec) > 0
  /\ item[op.to].rf = op.rec.rf

DoubleApplies(op) == op.kind = "double" /\ item[0].n = op.rec.n

RaiseApplies(op) == op.kind = "raise" /\ Exists(op.to) /\ item[op.to].n < op.rec.n

\* Mutant: the item is put whether it exists or not.
ClonesAnyway(op) == op.kind = "clone"

CloneApplies(op) == op.kind = "clone" /\ ~Exists(op.to)

Effect(op) ==
  \/ /\ RefillApplies(op)
     /\ Write(op.to, [item[op.to] EXCEPT !.tk = @ + TokensAdded(op.rec),
                                         !.wcu = @ + WcuAdded(op.rec), !.rf = now], 0, 0)
     /\ refilled' = [refilled EXCEPT ![op.to] = @ + TokensAdded(op.rec)]
     /\ UNCHANGED <<snapshot, created>>
  \/ /\ DoubleApplies(op)
     /\ Write(0, [item[0] EXCEPT !.n = 2 * op.rec.n], 0, 0)
     /\ UNCHANGED <<refilled, snapshot, created>>
  \/ /\ RaiseApplies(op)
     /\ Write(op.to, [item[op.to] EXCEPT !.n = op.rec.n], 0, 0)
     /\ UNCHANGED <<refilled, snapshot, created>>
  \/ /\ CloneApplies(op)
     /\ item' = [item EXCEPT ![op.to] = [n |-> op.rec.n, tk |-> Capacity \div op.rec.n,
                                         wcu |-> WcuCapacity, rf |-> op.rec.rf]]
     /\ created' = [created EXCEPT ![op.to] = IF @ = 0 THEN Capacity \div op.rec.n ELSE @]
     /\ UNCHANGED <<stream, refilled, snapshot>>
  \/ /\ op.kind = "count"
     /\ snapshot' = snapshot + op.rec.tc
     /\ UNCHANGED <<item, stream, refilled, created>>
  \/ /\ ~ (RefillApplies(op) \/ DoubleApplies(op) \/ RaiseApplies(op) \/ CloneApplies(op))
     /\ op.kind # "count"
     /\ UNCHANGED <<item, stream, refilled, snapshot, created>>

IsNext(op) == \A o \in work : o.rank >= op.rank

\* The next write of the batch: one of them takes effect, or its condition fails.
Perform(op) ==
  /\ IsNext(op)
  /\ Effect(op)
  /\ work' = work \ {op}
  /\ UNCHANGED <<taken, now, used, inserted, dropped, faults>>
  /\ UNCHANGED clientVars

\* It raises: the error is collected and the next one follows; in a propagation
\* the rest of its record is given up.
CallFails(op) ==
  /\ IsNext(op)
  /\ faults < MaxFaults
  /\ faults' = faults + 1
  /\ LET propagation == op.kind \in {"raise", "clone"}
     IN  /\ work' = {o \in work : o # op /\ ~(propagation /\ o.rec = op.rec)}
         /\ dropped' = (dropped \/ propagation)
  /\ UNCHANGED <<item, stream, taken, now, snapshot, used, refilled, created, inserted>>
  /\ UNCHANGED clientVars

\* The invocation ends: its records are done with.
Return ==
  /\ taken > 0
  /\ work = {}
  /\ stream' = Drop(taken)
  /\ taken' = 0
  /\ UNCHANGED <<item, work, now, snapshot, used, refilled, created, inserted, dropped, faults>>
  /\ UNCHANGED clientVars

\* It dies or runs out of time instead: its records are delivered again.
LambdaDies ==
  /\ taken > 0
  /\ faults < MaxFaults
  /\ faults' = faults + 1
  /\ work' = {}
  /\ taken' = 0
  /\ UNCHANGED <<item, stream, now, snapshot, used, refilled, created, inserted, dropped>>
  /\ UNCHANGED clientVars

Tick ==
  /\ now < MaxTime
  /\ now' = now + 1
  /\ UNCHANGED <<item, stream, used, refilled, created, inserted>>
  /\ UNCHANGED <<clientVars, streamVars>>

Aggregator ==
  \/ \E k \in 1..MaxBatch : TakeBatch(k)
  \/ \E op \in work : Perform(op)
  \/ Return

Next ==
  \/ \E c \in Clients : Client(c)
  \/ Aggregator
  \/ \E op \in work : CallFails(op)
  \/ LambdaDies
  \/ Tick

Spec == Init /\ [][Next]_vars

\* The aggregator has something to do: where this holds one of its steps is possible.
HasRecords == taken > 0 \/ stream # <<>>

\* The event source keeps delivering what is in the stream, and an invocation
\* that does not die goes on: weak fairness of Aggregator, with its guard written
\* out.  Nothing is assumed of clients or of the clock.
FairSpec == Spec /\ ([]<>~HasRecords \/ []<><<Aggregator>>_vars)

------------------------------------------------------------------------------
(* Properties *)

RecordOK(r) ==
  /\ r.shard \in Shards /\ r.was \in Nat /\ r.n \in Nat \ {0}
  /\ r.tc \in Int /\ r.wcuTc \in Int /\ r.tk \in Int /\ r.wcu \in Int /\ r.rf \in Nat

\* Every variable has the type the code gives it; the stream holds images of
\* items that existed, and the aggregator's writes address shards.
TypeOK ==
  /\ item \in [Shards -> [n : Nat, tk : Int, wcu : Int, rf : Nat]]
  /\ stream \in Seq([shard : Shards, was : Nat, n : Nat \ {0}, tc : Int, wcuTc : Int, tk : Int,
                     wcu : Int, rf : Nat])
  /\ \A op \in work :
       /\ op.kind \in {"count", "refill", "double", "raise", "clone"}
       /\ op.to \in Shards
       /\ RecordOK(op.rec)
  /\ taken \in Nat
  /\ pc \in [Clients -> PCs]
  /\ call \in [Clients -> [req : Nat, shard : Shards, n : Nat, tried : SUBSET Shards,
                           helps : BOOLEAN, fixed : BOOLEAN, rf : Nat, refill : Int]]
  /\ cached \in [Clients -> Nat]
  /\ now \in Nat
  /\ snapshot \in Int
  /\ used \in [Shards -> Int]
  /\ refilled \in [Shards -> Int]
  /\ created \in [Shards -> Nat]
  /\ inserted \in Nat
  /\ dropped \in BOOLEAN
  /\ acquires \in Nat
  /\ faults \in Nat

\* shard_count of an item never shrinks, although changes of it are propagated
\* from delayed records, delivered again after a failure, and clients double
\* it from counts they read earlier.
CountsOnlyGrow == [][\A s \in Shards : item'[s].n >= item[s].n]_item

\* Shard 0 is the source of truth: no shard, no cache and no client in the middle
\* of a call has a count beyond the one on shard 0, so none aims at a shard
\* that shard_count does not cover.
ShardZeroLeads ==
  /\ \A s \in Shards : item[s].n <= item[0].n
  /\ \A c \in Clients : cached[c] <= item[0].n /\ call[c].n <= item[0].n

\* A shard is given its tokens once: what is in it and what leases took of it is
\* what it was first created with and what was refilled, however often the
\* change that created it is delivered; and all shards beyond the first are
\* created with half of the capacity at most.
ShardsFilledOnce ==
  \A s \in Shards :
    /\ item[s].tk = created[s] + refilled[s] - used[s]
    /\ created[s] \in 0..(IF s = 0 THEN Capacity ELSE Capacity \div 2)

\* What leases gave back or changed goes to shard 0, wherever they consumed: so a
\* balance below zero is found there alone, and the wcu limit is never overdrawn.
DebtOnShardZero ==
  \A s \in Shards : item[s].wcu >= 0 /\ (s # 0 => item[s].tk >= 0)

\* The consumption in the records, and in the batch at hand, that is not yet counted.
Uncounted ==
  SumFunctionOnSet([i \in DOMAIN stream |-> stream[i].tc], taken + 1..Len(stream))
    + SumFunctionOnSet([op \in work |-> op.rec.tc], {op \in work : op.kind = "count"})

\* As long as no call fails and no invocation dies, the usage snapshots account
\* for all consumption on all shards, give-backs included, once its records
\* are processed; all but that of the write that created the bucket, which
\* is an INSERT the aggregator does not look at.
UsageIsCounted ==
  faults = 0 => snapshot + Uncounted = SumFunctionOnSet(used, Shards) - inserted

\* Whatever count shard 0 comes to have, every shard it covers comes to exist and to
\* know that count, redelivery included; unless the one record of a change was lost
\* to an error or to a batch that returned early.
CountsArrive ==
  <>[](dropped \/ \A s \in 1..item[0].n - 1 : item[s].n = item[0].n)

\* A client refused for want of wcu.
RefusedWcu(c) == pc[c] = "idle" /\ pc'[c] = "bumping"

\* "Refills to full capacity each second": with every record processed, a shard
\* refuses a write for the wcu limit only within a second of the last refill.
WcuRefillsEachSecond ==
  [][\A c \in Clients : RefusedWcu(c) /\ stream = <<>> => now = item[call'[c].shard].rf]_vars
==============================================================================
