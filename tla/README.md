# zae-limiter: TLA+ specifications, model checks and proofs

zae-limiter is a rate limiter whose only shared state is one DynamoDB table.
Clients take tokens from token buckets with conditional writes; nobody holds a
lock, and a Lambda function on the table's stream writes to the same items.
These modules model its protocols from the Python source, check them with TLC on
small instances and prove their main safety properties with TLAPS. Paths below
are relative to `src/` of the repository.

## 1. The system

| component | state it keeps | operations | what must hold |
|---|---|---|---|
| Token-bucket arithmetic (`zae_limiter/bucket.py`) | none | `refill_bucket`, `try_consume`, `force_consume`, `calculate_retry_after`, `would_refill_satisfy` | refilling loses nothing; never above capacity; a caller who waits `retry_after` is served |
| Lease in memory (`lease.py`) | entries: a bucket state, net consumption, initial consumption | `consume`, `adjust`, `release` | refilling again and again equals refilling once |
| Lease writes (`lease.py`, `repository.py` `build_composite_*`) | the request being written | `_commit_initial` (create / normal, then consumption-only), `_commit_adjustments`, `_rollback` | admitted consumption is covered; time is credited once; nothing is lost or counted twice |
| acquire (`limiter.py`) | a task's progress | `_try_speculative_acquire`, `_do_acquire`, the context manager | what is admitted stays within burst and rate |
| Cascade (`limiter.py`, `repository.py`) | entity cache, cascade fields on bucket items | parallel or sequential child and parent write, compensation, parent-only slow path | both consumed, or neither |
| Sharding (`limiter.py`, `repository.py`, `processor.py`) | `shard_count` on shard 0 and copies, `wcu` limit | `bump_shard_count`, `try_proactive_shard`, `propagate_shard_count`, retry on another shard | counts only grow, reach every shard, and a shard is filled once |
| Aggregator (`zae_limiter_aggregator/processor.py`) | stream images of a batch, usage snapshots | `aggregate_bucket_states`, `try_refill_bucket`, `extract_deltas`, `update_snapshot` | a late image refills nothing that was refilled since; all usage is counted |
| Limit configuration and cache (`repository.py`, `config_cache.py`) | records on four levels, a cache per process | `set_limits`, `delete_limits`, defaults, `resolve_limits`, eviction, parameter sync | buckets follow the configuration; caches converge; the cache's lock is given back |
| Bucket TTL (`lease.py`, `schema.py`) | `ttl` attribute | set, cleared, expiry | a bucket expires exactly if its limits are inherited |
| Entities (`repository.py`) | META, configurations, registry of counts | create, delete in batches | the registry counts what there is |
| Provisioner (`zae_limiter_provisioner/`) | its state record | diff, apply, state | it loses sight of nothing it wrote |
| Namespace registry (`repository.py`) | forward and reverse records, a cache per repository | open, register, delete, recover, purge | tenants are kept apart; a purge is final and erases nothing in use |
| Infrastructure, version (`infra/`, `version.py`, builder, `cli.py`) | CloudFormation stack, function code, version record | open, build, deploy, upgrade, delete | the function has its code; the record tells which |
| Usage snapshots (`processor.py`, `repository.py`, `cli.py`) | an item per window | `extract_deltas`, `update_snapshot`, `get_usage_snapshots`, `get_usage_summary` | what was consumed is counted once in each of its windows; a summary misses and repeats nothing |
| Audit log and archiver (`repository.py`, `archiver.py`, `handler.py`) | events with a ttl, objects in a bucket | `_log_audit_event`, expiry, `archive_audit_events`, `get_audit_events` | an event that expires is in the archive; pages are complete |
| Migrations, load tests, plots | files | | sequential I/O and formatting |

How they interact: only through items of the table (DynamoDB applies one
`UpdateItem` atomically) and through the stream, which delivers images of an item
later, possibly twice. Inside a process, asyncio tasks (threads in the synchronous
mirror) share the entity cache and the configuration cache. The hard parts are
listed with their lines under `hazards` in `PROJECT.json`: reads that are old when
the write lands, speculative writes the `rf` lock does not see, clocks of several
hosts, a lease whose end never comes or comes after its bucket is gone, integer
rounding, redelivered batches, and operations of several writes that fail, die or
are overtaken in the middle.

## 2. Modules

| module | models | run with | proofs |
|---|---|---|---|
| `TokenBucket` | `bucket.py`, as operators on integers | the two below | in `BucketLease_proofs` |
| `LocalBucket` | one lease entry's bucket in memory, under any sequence of calls | `MCLocalBucket` | in `BucketLease_proofs` |
| `BucketLease` | one bucket item, any number of clients, the aggregator, deletion | `MCBucketLease` | `BucketLease_proofs` |
| `Ledger` | what such a bucket promises, whatever the protocol | implemented by `BucketLease` | in `BucketLease_proofs` |
| `Cascade` | acquire() of children that also consume from their parent | `MCCascade` | `Cascade_proofs` |
| `Sharding` | one bucket spread over shards, the clients, the aggregator on the stream | `MCSharding` | `Sharding_proofs` |
| `LimitConfig` | limits on several levels, caches, the bucket's copy and its expiry | `MCLimitConfig` | `LimitConfig_proofs` |
| `EntityRecords` | META, configurations, their registry, the provisioner | `MCEntityRecords` | `EntityRecords_proofs` |
| `Namespaces` | the namespace registry | `MCNamespaces` | `Namespaces_proofs` |
| `Deployment` | CloudFormation, code and version record under several clients | `MCDeployment` | `Operations_proofs` |
| `History` | usage snapshots, audit events, their archive, the queries on both | `MCHistory` | `Operations_proofs` |
| `Sums` | nothing of the code: lemmas about sums over finite sets | | in itself |

`BucketLease` and `LocalBucket` are built on `TokenBucket`, `Sharding` takes its
refill from it, and `BucketLease` instantiates `Ledger`. The others are each about
another part of the table and share no action; what one leaves to another is said
in its first comment. The synchronous code (`sync_*.py`) is generated from the
asynchronous one statement by statement: a module stands for both, and where two
modules model the same code, the `map` of one names the mirror.

**TokenBucket.** A bucket state is a record `[tk, rf, cp, ra, rp]`: `tokens_milli`,
`last_refill_ms`, `capacity_milli`, `refill_amount_milli`, `refill_period_ms`.
`Milli` is the 1000 of the code, a parameter so that TLC can use 2.

**LocalBucket.** `entry` is `LeaseEntry.state`, `net` its `consumed`. It is the only place where
`refill_bucket` is applied to its own result over and over (everywhere else the
result is written with another `rf`), so it is where drift shows. Its names differ from
those of `BucketLease`, so that one module can prove about both with one set of facts on
the arithmetic.

**BucketLease.** `bucket` is the DynamoDB item: `tk` and `tc` (balance and
consumption counter) per limit, and the one `rf` all limits share. `status` tells
an absent item, a live one, and a *ghost*: an item with `tk` and `tc` attributes
only, which an unconditional `ADD` creates when the item is gone. A client's `pc`
is the DynamoDB call it is about to make:

    idle -> speculating -> open                        speculative UpdateItem
                 |-> reading -> computing -> writing -> open   slow path
                                                |-> retrying -> open
    open -> idle                                       adjustments written
    open -> rollingback -> idle                        body or adjustment raised

Every DynamoDB call is one atomic step. Everything a task does between two calls
reads only its own data and the clock, so it is folded into a neighbouring step,
except the computation of the slow path, which is a step of its own because it
reads the clock. `NormalPlan` is the request `_commit_initial` builds, with its
expected `rf`; `WriteNormal` and `WriteFails` are the condition of
`build_composite_normal` true and false; `Retry` is `build_composite_retry`. The
aggregator takes an image of the item (`Image`), computes a refill from it at any
later time (`PlanRefill`) and writes it at any later time (`WriteRefill`).
`Crash` is the death or cancellation of a task between any two of its calls.
What is abstracted:

- `wcu` and `shard_count` are `Sharding`'s, `ttl` is `LimitConfig`'s.
- The time a computation uses may be any time up to the time it is stamped with
  (`now \in 0..at`). Eventually consistent reads, slow tasks and retries after a
  `TransactionConflict` (a write that lands later) are all among these.
- A lease body changes its mind at most once: several changes of one lease add up
  to one before anything is written. Whether `Lease.consume`'s local check lets a
  change through is `LocalBucket`'s question; here any change may pass.
- Which limits the aggregator finds short depends on what a batch of stream
  records consumed; any subset of those with something to add is allowed.
- A client may have `speculative_writes` on or off; both share the item.

**Ledger** is the abstract specification: an account with a balance for each limit,
opened full, credited by time and each moment once, drawn from by those it can
cover, settled by those who were let in. `BucketLease!Account` maps the item to it:
the balance is `tk`, what was drawn is `tc`, the ceiling the capacity, and a client
holds a lease exactly while it is `open` or `rollingback`. `ImplementsLedger` says
that every write of a client, of the aggregator or of who deletes the item is one
operation of the account, or none; everything before it is a stutter.

**Cascade.** `item` is one bucket item per entity, a parent and its children. A
client first writes to child and parent at once, if its process's entity cache
knows the parent, or to the child and then to the parent. `out` holds what each
write answered, and one action per row decides what follows:

| child | parent | action | then |
|---|---|---|---|
| hit | not tried | `ParentNext` | the parent's write |
| hit | hit | `BothHit` | the lease opens |
| hit | missing, short | `ChildOnlyHit` | parent-only slow path, or the child is given back |
| missing, short | hit | `ParentOnlyHit` | the parent is given back |
| missing, short | missing, short, not tried | `NoneHit` | slow path or rejection |

`ParentRead`, `ParentWrite`, `ParentRetry` are `_try_parent_only_acquire`; `Read`,
`ReadParent`, `Write`, `Retry` the full slow path with its two-item transaction;
`CloseChild`, `CloseParent`, `RollbackChild`, `RollbackParent` the single writes
of `write_each`. `CallRaises` lets any awaited call raise, its writes applied or
not, and goes where the handlers of the code go; `Crash` is the end of the task.
There is one limit; time is abstracted: a refill adds any amount up to the
ceiling, and `rf` counts the writes that moved it. Items are not deleted, and the
parent does not cascade further.

**Sharding.** `item` has one bucket item per shard: count, balance, wcu, `rf`. Every
MODIFY appends a record to `stream`. A client takes from a shard of those it knows,
then doubles `shard_count` (`BumpShardCount`), tries other shards, or reads and
writes shard 0, and settles there. The aggregator takes a batch of any length
(`TakeBatch`) and turns it, as `process_stream_records` does, into a set of writes in
four ranks: counts, refills, doublings, propagations. `Perform` applies the next
one, `CallFails` loses it, `LambdaDies` forgets the rest, and the batch is
delivered again from its start. A batch without consumption drops its
changes of `shard_count`, and `dropped` remembers that.

**LimitConfig.** `config` is the table, `replica` what an eventually consistent read
may still return, `cache` and `lock` those of each process, `item` the names,
parameters and expiry of one bucket. A task resolves (`ResolveFromCache`, or `Fetch`
with the lock held and `Store`; when the fetch raises, `Ask` and `StoreOne` for one level
after the other, with the lock taken anew for each), a client then reads, creates or writes the bucket,
an administrator writes the configuration, then the bucket, then evicts. Balances
are left out: whether tokens suffice is a choice, so a client may always be refused.
The limits an entity has for all resources, `entity_default`, are resolved for this
bucket but are set and reconciled on a bucket of their own; `Scope` and the conditions
on `level` say so. `Precedence` lists the levels, the entity's own first
(`ConfigAssumption`). `strayed` is history: whether the bucket's last parameters or its
last expiry came from something older than what is configured. The two invariants excuse
that and no more; for the expiry it includes a `delete_limits` that finds no limits on
any other level, or cannot read them, and leaves the bucket as it is.

**EntityRecords.** The META record, a configuration and a registry count per
resource, the copies of META's cascade on buckets and in caches, and what an
invocation of the provisioner still has to write. `set_limits` is a transaction with
the count and, when that finds a configuration, a plain put; `delete_limits` is a
transaction and a later removal of a count of zero; `delete_entity` is a query,
through an index that lags, and a delete per record, any of which may come back
unprocessed. `ManifestOf` is what a request of the command line or of
CloudFormation makes of a manifest.

**Namespaces.** `forward` and `reverse` are the two records of a namespace, `cache`
a repository's cache of ids, `data` the items. Administrators are processes with a
repository, too. Each call to the table is a step, and so is each page of the purge's
query and each answer to one of its batches (`PageDone` says that a page is finished);
`Die` ends a process between any two and sets `broken` if that was between the two
writes of a deletion or a recovery. A repository keeps writing under the id it was
opened with, in any number of processes, so `Store` may use any id ever issued.
`contested` is history: the names of which two administrators deleted or recovered an
id while the other was deleting, recovering or about to purge it. The reads these calls
begin with are not conditions of the writes that follow, so for such a name the code
promises nothing (`NamespacesPurge.cfg`), and the properties excuse it; they do not
excuse a call that begins after the other one's mark is in the record.

**Deployment.** `stack`, `table` and `code` are CloudFormation's, `record` is the
version record. Clients of several versions open, build, deploy and upgrade; `pc`
walks through describing the stack, creating it or waiting for it, putting the code,
checking the record, and writing it. CloudFormation creates the table before the
function, the function with a placeholder, and may fail. `deploy --no-wait` is the kind
`"submit"`: it ends when the stack is submitted or found, and leaves code and record to
somebody else. `unattended` is history: the stack was created like that, and no call
that waits has come to it since. The properties excuse such a stack, and the findings
say what becomes of it.

**History.** `stream` has the records of the table's stream that no invocation has
finished with, `agg` is the invocation at work: how many records it took, the updates of
snapshots it has still to make (a record and a window each, in the order of the loops),
and the expired events it will archive. `UpdateFails` is an update whose exception is
logged, `ArchiveFails` a put whose error goes into an answer nobody reads, `Redeliver` a
death of the invocation; the stream is cut into batches anew each time. `snapshots` is
indexed by the start of the window, because the sort key names nothing else:
the day and its first hour share an item. A client fixes the id and the ttl of an audit
event (`LogEvent`) before it puts it (`PutEvent`), so ids do not become visible in their
order. `Delivered` is the filter of the event source, as far as audit events are
concerned. The template means to let their removals through and does not, so there are two
runs: `history_deployed` has the template's filter, and with it the promise of the
documentation, `NothingUnarchived`, is violated; `history` delivers what the handler is
written for, and `RemovalsArchived` says that none of what is delivered gets lost, whatever
the filter. `reader` is one caller
who pages through snapshots (`ReadUsage` is one turn of the loop in
`get_usage_summary`; `ShowPage` is the command that stops after a page) or through
audit events, where every call starts from the last id of the page before. `span` is
history: what each snapshot contributed least and most since the reader began, and the
events that were there all along. One entity, resource, limit and shard of the
stream; the refills and propagations of the same invocation are `Sharding`'s.

Variables marked *history* in the modules are never read by an action except to
bound it.

## 3. What the runs show

| run | instance | result |
|---|---|---|
| `local_bucket` | 5 rates, capacity 3, 7 ms, calls of 1 or 2 tokens | `retry_after` is enough, and late by no more than its rounding; refills in steps never lose a unit |
| `bucket_lease` | 2 clients, 2 limits with rates that do not divide, 4 ms, 3 acquires, equal clocks | `NoDoubleRefill`, `WithinCapacity`, `CountedOnce` |
| `bucket_lease_faults` | the same with clocks 1 ms apart, one crash or failed write, one deletion, both kinds of client, 3 ms, 2 acquires | `RateBound`, `AcquireNeverOverdraws`, `ImplementsLedger` |
| `bucket_lease_ghost` | a deletion under an open lease | violates `CreateLosesToCreator`: a late settlement leaves a ghost that no acquire can replace |
| `cascade` | 2 clients, 2 children of 1 parent, capacity 2 each, 3 acquires of 1 or 2 tokens, one failure | `ConsumedTogether`, `FaultsCostOneRequest` |
| `sharding` | 1 client, from no bucket or 2 shards to 4, capacity 4, requests of 1 settled with a change of 2 or given back, batches of 1 or 2, 3 acquires, 1 s, one failed call or death of the aggregator | `DebtOnShardZero`, `UsageIsCounted`, `ShardZeroLeads`, `ShardsFilledOnce`, and the liveness `CountsArrive` |
| `config` | 3 levels, 2 names, two administrators in two processes with one call in all, a client in one of them, any call to the table for limits may fail | `ParamsFollowLimits`, `TtlFollowsSource`, and the liveness `LimitsConverge` |
| `entities` | 2 administrators with 4 calls, a client, 2 invocations of the provisioner, one failure | `RegistryCounts`, `NothingEscapes` |
| `namespaces` | 2 administrators who also use repositories, 2 names, 2 ids, 1 item, one death | `OwnIds`, `RecordsAgree`, `PurgeIsTerminal`, `LiveDataKept` |
| `deployment` | 3 clients of versions 1, 2 (same major) and 3, 3 calls, with and without waiting, one failure, one deletion of the stack | `CodeDeployed`, `RecordIsTrue` |
| `history` | 3 hours, days of 2, hourly and daily windows, amounts 2 and -1, 2 audit events of one client, 3 changes in all, pages of 1, a summary that stops at 2 snapshots, one failure, removals delivered | `SnapshotsAccount`, `RemovalsArchived`, `SummaryInRange`, `AuditPagesComplete` |
| `history_deployed` | the same with the template's event filter | violates `NothingUnarchived`: no removal of an audit event reaches the archiver |

Passing runs also check the `TypeOK` of their module; in `LimitConfig` it says that the
cache's lock is held by exactly the task that waits for the table. `RefillWithinTime`,
`DebtIsAdjusted`, `CountsOnlyGrow` and, of a cascade, `AcquireNeverOverdraws` are stated in
the modules and proved (section 4) but in no run: what would break them breaks `RateBound`,
`ImplementsLedger`, `ShardZeroLeads` or another theorem, too.

Six more configurations have counterexamples that findings in `PROJECT.json` refer
to; `tlc -config X.cfg M` shows the steps:

| configuration | module | property it violates |
|---|---|---|
| `ShardingHot.cfg` | `MCSharding` | `WcuRefillsEachSecond`: a bucket used a little at a time runs out of write capacity |
| `EntityCascade.cfg` | `MCEntityRecords` | `HitsCascade`: a bucket older than its entity's cascade never takes the parent along |
| `LimitConfigAdded.cfg` | `MCLimitConfig` | `ParamsComplete`: a limit added to the defaults gets a balance without parameters |
| `NamespacesPurge.cfg` | `MCNamespaces` | `PreventsRecovery`: a recovery overtakes a purge |
| `HistoryWindow.cfg` | `MCHistory` | `CountsItsWindow`: midnight's hour and the day share a snapshot |
| `DeploymentRecord.cfg` | `MCDeployment` | `RecordSaysDeployed`: the placeholder under the record of an open() that came after `deploy --no-wait`; an older client's code under a newer client's record is another way |

**Bounds.** Two clients give every pair of racing writers, the aggregator is the third;
two limits are what it takes for one to be short and the other not, and for the shared
`rf` to matter. Rates of 2 units in 3 ms and 2 units in 5 ms make every refill round.
Capacities of 2 and 1 tokens make a bucket empty, full and overdrawn within three
acquires. In `cascade` the parent has less than its children together, so either of the
two can be the one that is short. Four shards are the first count that one doubling does
not reach from one, and leave a propagation with more than one shard to create; batches
of two records split and join what clients wrote. A shard beyond 0 gets at most half the
capacity, 2, so requests of 1 are taken from every shard, and up to three leases settle
on shard 0 with a change of 2 each, more than it holds. One client is enough there: its
cached count, its calls in flight and the aggregator's records are already three ages of
shard 0's count, and the theorems are for any number. In `config` three levels put one
between the deciding ones, and the start is with limits of the entity's own as well as
without. One administrative call, in the client's process or in the other, is enough for
what is checked: caches, replicas and the bucket then hold the old and the new limits in
every mixture, and a call can stop between any two of its steps. That further calls
change nothing for `ParamsFollowLimits` and `TtlFollowsSource` the theorems say. Four
calls of two administrators are two full races of set and delete, and two invocations of
the provisioner the first pair of which the second can miss something. Two names and two
ids let a name be registered anew over a namespace that is deleted or being purged, and
two administrators make every pair of deletion, recovery and purge overlap. That run
ends where both names were contended for (`SomeUncontested`), because from then on only
`OwnIds` and `TypeOK`, which are theorems, say anything. Three clients of three versions
give an upgrade, an incompatibility, and a third party to race. In `history`, days of
two hours and three hours give a window that is shared, one that is not and a day that
is cut off; with pages of one item every step of a reader is a page, and two events are
one to expire on either side of its key. Each run names its bounds as constants, and the
theorems hold for all of them. Symmetry is used where no property is a liveness one.

**Deadlock and fairness.** `CHECK_DEADLOCK FALSE` where behaviours end when bounded
calls and clocks are used up; `LimitConfig` is checked for deadlock, because cached slots
never stop expiring. Two specifications state fairness, as weak as their
properties allow:

- `Sharding!FairSpec` is weak fairness of `Aggregator` with its guard written out
  (`HasRecords`): Lambda's event source keeps delivering as long as there are records, and
  an invocation that does not fail goes on. No client need do anything.
- `LimitConfig!FairSpec`: a task that waits for the table's answer, or has resolved its
  limits, goes on; every cached slot expires in the end (`config_cache_ttl`); and
  replicas catch up. Nobody need acquire, and the cache's lock need not be given out
  fairly.

## 4. What is proved

| theorem | module | says |
|---|---|---|
| `RetryAfterIsEnough` | `BucketLease_proofs` | a rejected request that fits the bucket is accepted after `retry_after` |
| `RetryAfterIsNotLate` | `BucketLease_proofs` | retried earlier by more than the rounding, it is rejected again |
| `ConsumingLosesNothing` | `BucketLease_proofs` | a bucket refilled and consumed from on the way has, at any later time, no less than if the amount had been taken then |
| `RetryAlwaysEnough`, `RetryNeverLate`, `EntryTypeCorrect` | | the first two of every state the calls of a lease lead to; the range of balances there |
| `RefillsNeverLose` | | however many refills on the way, they credit at least what the whole time is good for |
| `TypeCorrect`, `InvCorrect` | | `[]TypeOK`; the inductive invariant |
| `RefillsWithinTime`, `NothingRefilledTwice` | | refills fit in the time up to `rf`, plus what backward moves of `rf` re-opened; with equal clocks (`Skew = 0`) time is credited once |
| `RateBounded`, `DebtAdjusted` | | net consumption beyond burst and rate, and debt, come from adjustments only |
| `AcquiresNeverOverdraw` | | no acquire takes a limit below zero or further below |
| `LedgerImplemented` | | `Spec => Account!Spec`, the refinement |
| `ConsumptionCounted` | | without failures, the counter is what leases consumed |
| `StaysWithinCapacity` | | with equal clocks, racing refills never lead past the ceiling |
| `TogetherConsumed`, `FaultsBounded` | `Cascade_proofs` | a parent lost what its children's requests took of it; a failure costs one request |
| `NeverOverdrawn`, `TypeCorrect` | | no path of an acquire overdraws a child or its parent |
| `ShardZeroAlwaysLeads`, `CountsNeverShrink` | `Sharding_proofs` | nobody knows more shards than shard 0 says; counts only grow |
| `ShardsAlwaysFilledOnce`, `DebtAlwaysOnShardZero` | | each shard's account balances, redelivery included; only shard 0 owes |
| `UsageAlwaysCounted`, `TypeCorrect` | | without failures, snapshots, batch and stream account for all consumption |
| `ParamsAlwaysFollow`, `TtlAlwaysFollows` | `LimitConfig_proofs` | a bucket has the entity's own limits, and expires exactly if it has none |
| `TypeCorrect` | | the cache's lock is held by exactly the task that waits for the table |
| `RegistryCorrect`, `NothingEscapesProvisioner`, `TypeCorrect` | `EntityRecords_proofs` | the registry counts the configurations; the provisioner loses sight of nothing |
| `TenantsKeptApart`, `OneNamePerId`, `TypeCorrect` | `Namespaces_proofs` | an id serves one name for good |
| `RecordsAlwaysAgree`, `PurgeNeverUndone`, `LiveDataNeverPurged` | | for any administrators, but for names two of them contended for: the two records agree, a purge is final and takes nothing in use |
| `CodeAlwaysDeployed`, `RecordAlwaysTrue`, `TypeCorrect` | `Operations_proofs` | a ready stack somebody waited for has its code; the record is true unless versions were mixed |
| `SnapshotsAlwaysAccount` | | without failures, a window's snapshot and the records still to come are what was consumed in it |
| `RemovalsAlwaysArchived` | | if removals are delivered, an event that was put is in the table, in the stream, archived, or lost to a failed put of the archiver |
| `SummariesInRange` | | a summary lies between the sums of the least and the most its snapshots held while it paged |
| `PagesComplete`, `HistoryTypeCorrect` | | a reader of audit events meets each event that was there throughout, once |

They hold for any sets of clients, children, limits, levels, shards, resources, names, versions,
windows and amounts, and all bounds. Assumed are the named assumptions on constants
(`MilliAssumption`, `EntryAmounts`, `RatesAssumption`, `LimitAssumption`, `InputAssumption`,
`ShardAssumption`, `ConfigAssumption`, `EntityAssumption`, `NamespaceAssumption`, `DeploymentAssumption`,
`HistoryAssumption`), which TLC evaluates in the runs, and in the statement of three theorems one thing more,
because the property is false without it:

- `NothingRefilledTwice` and `StaysWithinCapacity` assume `Skew = 0`. Where clocks differ,
  a slower one can move `rf` back and a third writer bring it to a value it had before;
  the lock of a writer that read it the first time then holds, although tokens were added
  in between. With `Skew = 1`, `MCPeriod = 1` and four acquires TLC shows a bucket above
  its capacity.
- `SnapshotsAlwaysAccount` assumes `"MODIFY" \in Delivered`, which the template's filter
  fulfils: the event source lets through the writes of buckets.

*One entry in memory.* `RetryAfterIsEnough`, `RetryAfterIsNotLate` and
`ConsumingLosesNothing` are about the operators, for all states. The first two carry over
to `LocalBucket` once its states are known to be such, with `rf` not ahead of the time.
`RefillNeverLoses` speaks of any number of refills, and needs an invariant: as long as no
refill met the ceiling, what they credited is worth at least the time up to `rf`
(`rf * ra <= (Gross - opening) * rp`, the last conjunct of `EntryInv`). Each refill keeps
it because it moves `rf` by the time its units account for, rounded down (`RefillClaims`);
a refill that set `rf` to the time of the call would not. What is left, the time after
`rf`, accrues in full with the next refill (`RemainderAccrues`).

*One bucket.* The properties speak of the item, but what endangers them is under
way: a request computed from an old read. So `Inv` adds what is true of each
request in flight. `PlansOK`: the refill of a slow-path plan is within the rate
over the time from the `rf` it was computed from to the time it is stamped with,
and that is the `rf` its condition names. `RefillPlanOK`: the same of the
aggregator's request. `ClockOK`: no stored time is in the future. Then a write
whose lock holds credits exactly the time by which it moves `rf` (`CreditSafe`),
and if it moves `rf` back, `rewound` accounts for the time that can be credited
again; with `Skew = 0` nobody does (`RewoundOK`). For the debt, a conditional
`ADD` takes what is there (`TakeSafe`), and the floor of the normal write leaves
at least zero whatever speculative writers took since the read. The arithmetic
(`RefillBound`, `WaitAccrues`) is about integer division only and comes first in
`BucketLease_proofs`.

*The counters and the ceiling.* `Tally` says what the consumption counter holds while
leases are open: what ended leases asked for, plus the sum over all clients of what the
open ones took on enter. `Fits` says of every request in flight, a client's or the
aggregator's, that as long as `rf` has the value its lock names, the balance it was
computed from is the present one but for what was taken and returned since; so its
refill, capped for that balance, is capped for the present one.

*The refinement.* The initial states map to the ledger's, and each action of
`BucketLease` to the operation its comment names: a hit, a normal write and a
retry to `LetIn`, a create to `Open`, adjustments and rollbacks to `Settle`, the
aggregator's write to `Refill`, the deletion to `Close`, the clock to `Pass`, all
others to a stutter. That a credit is paid for (`Paid`) is `Funded`, which follows
from the inductive invariant above.

*Shards.* That nobody is ahead of shard 0 must be known of everything that may
still be written: of the records in the stream (`StreamOK`), of the writes the
aggregator has in hand (`WorkOK`), and of the calls and caches of clients
(`ClientsOK`), for a redelivered record writes what was true long ago.
`AccountsOK` is the balance of each shard's account. `UsageInv` follows consumption on
its way: it is in the records behind the batch (`After`), in the batch's counting writes
(`InWork`), or in the snapshots. `TakeBatch` moves a sum over records to a sum over
writes, one for each record with a consumption (`CountsAddUp`); `Perform` moves one term;
`Return` drops records whose sum has become the sum behind the batch (`AfterDrop`).

*Cascade.* Between the writes of one call the counters of a child and of its parent
differ, so `IInv` says, for each place in the code, what a client has written to the one
and not yet to the other (`Taken`, `Ahead`), and the counters differ by the sum
of that over all clients. Each action changes one term by what it writes; a failure
leaves a term behind, of one request at most.

*Limits.* The two properties are about times when no administrator is at work. `ParamsInv`
and `TtlInv` say the same of every moment, unless some administrator has changed the
entity's limits and has still to come to the bucket. The lock's part of `TypeOK` needs
that a fallback always has a level left to ask (`Seeking`).

*Sums.* `SumFunctionOnSet` is a fold, and the library's induction theorems take operators
as parameters, which the provers cannot instantiate. `Sums` does without: if a fact about
a sum fails for some subset of a finite set, it fails for a smallest one (`SmallestSubset`,
from the well-foundedness of strict inclusion), whose subsets are all as they should be.
Existence and uniqueness of the fold's recursive equation are proved that way, and then
the facts the components use: one more element, one term changed, disjoint sets, images
under an injection, a part beside which all is zero, larger terms.

*The registry of configurations.* `RegistryCounts` is inductive by itself, given the
types of calls in flight; the provisioner needs `ManifestCovers`: in the middle of an
invocation what it wrote is in the manifest or still to be deleted.

*Namespaces.* `Named`: a call that deletes or recovers an id knows the name it was issued
for, though it read that name several calls before. `Fresh`: ids not issued belong to
nobody. `AgreeInv` is about the names nobody contended for, as long as no call was cut
short (`Quiet`). `Agrees`: an id is bound exactly if it is active, but for what the
deletion or the recovery under way has still to write. `Sole`: of such an id only one
administrator is deleting or recovering, and nobody is about to purge it; that is what
`contested` takes away. `Holds`: therefore what an administrator has read is still so when
it writes. The three properties follow at once, for any number of administrators.

*Deployment.* `Awaited`: while the function has the placeholder of a stack that is not
`unattended`, someone is waiting for the stack or about to put the code. `Unrecorded`,
`Misrecorded`, `Truthful`: whoever put code that the record does not name is still to
write it, and writes what the function has.

*Snapshots.* `SnapshotsAccount` is inductive by itself, given the types, window by window.
A write of the bucket adds its amount to what was used and to the stream; taking a batch
moves a sum over records to one over the updates in hand, those with no consumption being
zero; an update moves one term to its snapshot; a batch that comes back is the records
behind it with their indices shifted. Failures end the claim: an update whose exception is
logged is lost, and a batch delivered again is counted again (findings).

*Archive and queries.* `HandedOn`: what the archiver took is in its hands, archived or
lost. `PagedOnce`: newest first, what was read is not below the cursor, and what was there when
the reader began and is not below it was read; so an event put or expired meanwhile, on
either side of the cursor, makes nothing appear twice or go missing. `SummaryInv`: the total so far lies
between the sums, over the hours the cursor has passed, of what each snapshot contributed
least and most since the reader began; a page adds terms that lie between theirs
(`PageTotal`), and a change of a snapshot widens the range (`SumMonotone`).

*Only model-checked:* the liveness properties `CountsArrive` and `LimitsConverge`, because
fairness and `ENABLED` are out of the prover's reach, and what the counterexamples show,
which no theorem can state. Every other property of a passing run is a theorem.

## 5. What is not modelled, and why

- Of the archiver, the layout and compression of its objects; of usage snapshots, their
  expiry; of the Lambda, the dead-letter queue a batch goes to after the last retry.
- Lists of entities, resources, namespaces and stacks, `available()` and
  `time_until_available()`: they read once and decide nothing. The audit events that
  administrative calls log are in `History` and left out of those calls' own modules.
- Migrations: scripts an operator runs once.
- `on_unavailable` and the `limits` override of acquire(): the first only chooses what is
  done about an exception, the second skips the resolution.
- The composition of a cascade with sharding, of deletion with sharding, and of
  several shards with changing limits. Each would take the product of two modules that
  are already at the size TLC finishes in minutes.
- Eventually consistent reads of the namespace records, the version record and the
  provisioner's state: administrative calls are taken to be further apart than replicas
  lag. `LimitConfig`, where the lag decides what tasks enforce, has it, and so have the
  buckets. Concurrent invocations of the provisioner are not modelled either.
- `delete_entity` queries an entity's records and its buckets one after the other;
  `EntityRecords` takes the two queries as one step. What a bucket created in between does
  is what one does that the lagging index does not show.
- In `Sharding`, an invocation's refills are computed at the moment they are written,
  not once for all of them before the first; `BucketLease` lets any time pass between.
- Packaging of the Lambda, tags, options, discovery, the local stack, load tests and
  plots; the formatting of the command line's output, and those of its commands that show
  what the calls above return. Where a command is an actor of a module, `map` names the whole
  command, its options and its output included.
- Generation of the synchronous mirror: `scripts/generate_sync.py` is a source-to-source
  translation that runs before a release.
