------------------------------ MODULE LimitConfig ------------------------------
(***************************************************************************)
(* The limits of one entity on one resource: configured at several levels, *)
(* resolved through a cache in every process, and copied into the bucket   *)
(* item, whose own copy is the one that is enforced.  An administrator     *)
(* writes a level, then the bucket, then evicts its process's cache; the   *)
(* tasks of all processes resolve and write in between.                    *)
(*                                                                         *)
(* Balances are left out: whether tokens suffice is a choice, and a write  *)
(* that only consumes changes nothing here, so the speculative writes and  *)
(* the retries of the slow path leave no trace.  What counts of an item is *)
(* which limits it holds, with which parameters, and whether it expires.   *)
(* bucket_ttl_refill_multiplier is positive.                               *)
(***************************************************************************)
EXTENDS Naturals, Sequences, FiniteSetsExt

CONSTANTS
  Processes,
  Clients,      \* the tasks that acquire
  Admins,       \* the tasks that change the configuration
  ProcessOf,    \* [task -> the process it runs in]
  Precedence,   \* the levels, the one that decides first
  Names,        \* the names of limits
  MaxCapacity,  \* bound on capacities
  Settable,     \* the configurations an administrator may write
  Starts,       \* the configurations of all levels at the start
  MaxChanges    \* bound on the administrators' calls

Tasks == Clients \cup Admins
Levels == {Precedence[i] : i \in DOMAIN Precedence}

\* A configuration of one level: the capacity of each limit, 0 of one it does not have.
Configs == [Names -> 0..MaxCapacity]
Empty == [n \in Names |-> 0]
Configured(c) == {n \in Names : c[n] > 0}

ASSUME ConfigAssumption ==
  /\ ProcessOf \in [Tasks -> Processes]
  /\ Clients \cap Admins = {}
  /\ Precedence \in Seq({"entity", "entity_default", "resource", "system"})
  /\ Precedence # <<>> /\ Precedence[1] = "entity"
  /\ MaxCapacity \in Nat
  /\ Settable \subseteq Configs \ {Empty}
  /\ Starts \subseteq [Levels -> Configs]

VARIABLES
  config,   \* [level -> what is stored in the table], Empty if nothing is
  replica,  \* [level -> what an eventually consistent read may still return]
  cache,    \* [process -> [level -> set of the valid cached value, {} if there is none]]
  lock,     \* [process -> the set of the task that holds the cache's lock]
  item,     \* the bucket item
  pc,       \* where each task is
  job,      \* what each task knows
  changes,  \* history: calls of administrators so far
  strayed   \* history: the last parameters or the last ttl of the item were
            \* written by a task that had resolved another configuration, or
            \* delete_limits has left its ttl as it was since

vars == <<config, replica, cache, lock, item, pc, job, changes, strayed>>

------------------------------------------------------------------------------
PCs == {"idle", "resolving", "fetching", "falling", "asking", "resolved", "writing",
        "overwriting", "syncing", "evicting", "deleting", "clearing"}

NoItem == [exists |-> FALSE, names |-> {}, cp |-> Empty, ttl |-> "none"]
NoJob == [level |-> "entity", to |-> Empty, misses |-> {},
          found |-> [l \in Levels |-> Empty], limits |-> Empty, source |-> "none",
          new |-> FALSE, fresh |-> FALSE]
AsConfigured == [params |-> FALSE, ttl |-> FALSE]

\* _evaluate_hierarchy: the first level that has limits decides.
Source(found) ==
  LET with == {i \in DOMAIN Precedence : found[Precedence[i]] # Empty}
  IN  IF with = {} THEN "none" ELSE Precedence[Min(with)]

Effective(found) == IF Source(found) = "none" THEN Empty ELSE found[Source(found)]

\* Mutant: any limits of the entity's own make the bucket permanent.
TtlOfEntity(source) == IF source \in {"entity", "entity_default"} THEN "none" ELSE "running"

\* Only a bucket under the entity's limits for this very resource never expires.
TtlOf(source) == IF source = "entity" THEN "none" ELSE "running"

Goto(t, l) == pc' = [pc EXCEPT ![t] = l]

Done(t) ==
  /\ Goto(t, "idle")
  /\ job' = [job EXCEPT ![t] = NoJob]

\* The item's rf moved, or the item itself: no lock on an rf read before holds.
Unlocked(j) == [t \in Tasks |-> [j[t] EXCEPT !.fresh = FALSE]]

Init ==
  /\ config \in Starts
  /\ replica = config
  /\ cache = [p \in Processes |-> [l \in Levels |-> {}]]
  /\ lock = [p \in Processes |-> {}]
  /\ item = NoItem
  /\ pc = [t \in Tasks |-> "idle"]
  /\ job = [t \in Tasks |-> NoJob]
  /\ changes = 0
  /\ strayed = AsConfigured

------------------------------------------------------------------------------
(* resolve_limits, of a client or of an administrator *)

\* The levels that are asked.  After delete_limits of the entity's limits for all
\* resources they are resolved as if for a resource of that name, which has
\* neither of the other two.
Scope(t) == IF job[t].level = "entity_default" THEN Levels \ {"entity", "resource"} ELSE Levels

Misses(t) == {l \in Scope(t) : cache[ProcessOf[t]][l] = {}}

\* What a task that does not wait for the table learns.
Cached(t) ==
  [l \in Levels |-> IF l \notin Scope(t) \/ cache[ProcessOf[t]][l] = {} THEN Empty
                    ELSE CHOOSE c \in cache[ProcessOf[t]][l] : TRUE]

Resolved(t, found) ==
  LET source == Source(found)
  IN  IF source = "none" THEN Done(t)
      ELSE /\ Goto(t, "resolved")
           /\ job' = [job EXCEPT ![t].limits = found[source], ![t].source = source,
                                 ![t].misses = {}, ![t].found = NoJob.found]

\* delete_limits leaves the bucket as it is if no level has limits, or it fails.
LeftAsIs(t) ==
  IF t \in Admins /\ job[t].level = "entity" THEN strayed' = [strayed EXCEPT !.ttl = TRUE]
  ELSE UNCHANGED strayed

\* All slots are valid.
ResolveFromCache(t) ==
  /\ pc[t] = "resolving"
  /\ lock[ProcessOf[t]] = {}
  /\ Misses(t) = {}
  /\ Resolved(t, Cached(t))
  /\ IF Source(Cached(t)) = "none" THEN LeftAsIs(t) ELSE UNCHANGED strayed
  /\ UNCHANGED <<config, replica, cache, lock, item, changes>>

\* The misses are fetched with the lock held: the table answers each key with
\* the present value or an older one.
Fetch(t) ==
  /\ pc[t] = "resolving"
  /\ lock[ProcessOf[t]] = {}
  /\ Misses(t) # {}
  /\ \E answer \in [Misses(t) -> {config[l] : l \in Levels} \cup {replica[l] : l \in Levels}] :
       /\ \A l \in Misses(t) : answer[l] \in {config[l], replica[l]}
       /\ job' = [job EXCEPT ![t].misses = Misses(t),
                    ![t].found = [l \in Levels |-> IF l \in Misses(t) THEN answer[l] ELSE Cached(t)[l]]]
  /\ lock' = [lock EXCEPT ![ProcessOf[t]] = {t}]
  /\ Goto(t, "fetching")
  /\ UNCHANGED <<config, replica, cache, item, changes, strayed>>

\* Mutant: the lock is not released.
StoreLocked(t) ==
  LET p == ProcessOf[t]
  IN  /\ pc[t] = "fetching"
      /\ cache' = [cache EXCEPT ![p] = [l \in Levels |->
                     IF l \in job[t].misses THEN {job[t].found[l]} ELSE @[l]]]
      /\ Resolved(t, job[t].found)
      /\ IF Source(job[t].found) = "none" THEN LeftAsIs(t) ELSE UNCHANGED strayed
      /\ UNCHANGED <<config, replica, lock, item, changes>>

\* The answer is cached, "no limits" too, and the levels are evaluated.
Store(t) ==
  LET p == ProcessOf[t]
  IN  /\ pc[t] = "fetching"
      /\ cache' = [cache EXCEPT ![p] = [l \in Levels |->
                     IF l \in job[t].misses THEN {job[t].found[l]} ELSE @[l]]]
      /\ lock' = [lock EXCEPT ![p] = {}]
      /\ Resolved(t, job[t].found)
      /\ IF Source(job[t].found) = "none" THEN LeftAsIs(t) ELSE UNCHANGED strayed
      /\ UNCHANGED <<config, replica, item, changes>>

\* The fetch raises and nothing is stored: the levels are asked one by one instead,
\* each with the lock taken anew, until one has limits.
FetchRaises(t) ==
  /\ pc[t] = "fetching"
  /\ lock' = [lock EXCEPT ![ProcessOf[t]] = {}]
  /\ job' = [job EXCEPT ![t].misses = Scope(t), ![t].found = NoJob.found]
  /\ Goto(t, "falling")
  /\ UNCHANGED <<config, replica, cache, item, changes, strayed>>

\* The level that a fallback asks next.
Asked(t) == Precedence[Min({i \in DOMAIN Precedence : Precedence[i] \in job[t].misses})]

\* It learns what that level has.
Learns(t, limits) ==
  IF limits # Empty \/ job[t].misses = {Asked(t)}
  THEN LET found == [NoJob.found EXCEPT ![Asked(t)] = limits]
       IN  Resolved(t, found) /\ IF limits = Empty THEN LeftAsIs(t) ELSE UNCHANGED strayed
  ELSE /\ Goto(t, "falling")
       /\ job' = [job EXCEPT ![t].misses = @ \ {Asked(t)}, ![t].found = NoJob.found]
       /\ UNCHANGED strayed

LearnFromCache(t) ==
  /\ pc[t] = "falling"
  /\ lock[ProcessOf[t]] = {}
  /\ cache[ProcessOf[t]][Asked(t)] # {}
  /\ Learns(t, Cached(t)[Asked(t)])
  /\ UNCHANGED <<config, replica, cache, lock, item, changes>>

Ask(t) ==
  LET p == ProcessOf[t]
  IN  /\ pc[t] = "falling"
      /\ lock[p] = {}
      /\ cache[p][Asked(t)] = {}
      /\ \E answer \in {config[Asked(t)], replica[Asked(t)]} :
           job' = [job EXCEPT ![t].found[Asked(t)] = answer]
      /\ lock' = [lock EXCEPT ![p] = {t}]
      /\ Goto(t, "asking")
      /\ UNCHANGED <<config, replica, cache, item, changes, strayed>>

StoreOne(t) ==
  LET p == ProcessOf[t]
      l == Asked(t)
  IN  /\ pc[t] = "asking"
      /\ cache' = [cache EXCEPT ![p][l] = {job[t].found[l]}]
      /\ lock' = [lock EXCEPT ![p] = {}]
      /\ Learns(t, job[t].found[l])
      /\ UNCHANGED <<config, replica, item, changes>>

\* That raises, too, and the call with it.
AskRaises(t) ==
  /\ pc[t] = "asking"
  /\ lock' = [lock EXCEPT ![ProcessOf[t]] = {}]
  /\ Done(t)
  /\ LeftAsIs(t)
  /\ UNCHANGED <<config, replica, cache, item, changes>>

\* Mutant: the memory of "no limits" does not expire.
ExpireFound(p, l) ==
  /\ cache[p][l] \notin {{}, {Empty}}
  /\ cache' = [cache EXCEPT ![p][l] = {}]
  /\ UNCHANGED <<config, replica, lock, item, pc, job, changes, strayed>>

\* A slot's TTL is over.
Expire(p, l) ==
  /\ cache[p][l] # {}
  /\ cache' = [cache EXCEPT ![p][l] = {}]
  /\ UNCHANGED <<config, replica, lock, item, pc, job, changes, strayed>>

Replicate(l) ==
  /\ replica[l] # config[l]
  /\ replica' = [replica EXCEPT ![l] = config[l]]
  /\ UNCHANGED <<config, cache, lock, item, pc, job, changes, strayed>>

------------------------------------------------------------------------------
(* acquire(): the slow path *)

\* A speculative write is not tried, or it fails and leaves it to the slow path.
Begin(c) ==
  /\ pc[c] = "idle"
  /\ Goto(c, "resolving")
  /\ UNCHANGED <<config, replica, cache, lock, item, job, changes, strayed>>

\* The call ends: tokens are short, or a refill fails because the item does not
\* have the limit's parameters.
Refuse(c) ==
  /\ pc[c] = "resolved"
  /\ Done(c)
  /\ UNCHANGED <<config, replica, cache, lock, item, changes, strayed>>

\* The limits that are resolved meet the ones the item has.  The write will be a
\* create if it has none of them; else it expects the rf of the first of
\* them, which is the present time if the item does not have that one.
Read(c, first) ==
  LET limits == Configured(job[c].limits)
  IN  /\ pc[c] = "resolved"
      /\ first \in limits
      /\ job' = [job EXCEPT ![c].new = ~(item.exists /\ limits \cap item.names # {}),
                            ![c].fresh = item.exists /\ first \in item.names]
      /\ Goto(c, "writing")
      /\ UNCHANGED <<config, replica, cache, lock, item, changes, strayed>>

Create(c) ==
  /\ pc[c] = "writing" /\ job[c].new
  /\ ~item.exists
  /\ item' = [exists |-> TRUE, names |-> Configured(job[c].limits), cp |-> job[c].limits,
              ttl |-> TtlOf(job[c].source)]
  /\ strayed' = [params |-> job[c].limits # Effective(config),
                 ttl |-> TtlOf(job[c].source) # TtlOf(Source(config))]
  /\ Goto(c, "idle")
  /\ job' = [Unlocked(job) EXCEPT ![c] = NoJob]
  /\ UNCHANGED <<config, replica, cache, lock, changes>>

\* ADD to a balance the item does not have makes one, unless the call consumes of
\* it: then the floor of the balance fails.  Parameters are not written.
WriteNormal(c) ==
  /\ pc[c] = "writing" /\ ~job[c].new
  /\ job[c].fresh
  /\ item' = [item EXCEPT !.names = @ \cup Configured(job[c].limits), !.ttl = TtlOf(job[c].source)]
  /\ strayed' = [strayed EXCEPT !.ttl = TtlOf(job[c].source) # TtlOf(Source(config))]
  /\ Goto(c, "idle")
  /\ job' = [Unlocked(job) EXCEPT ![c] = NoJob]
  /\ UNCHANGED <<config, replica, cache, lock, changes>>

\* A condition fails; the retry, whatever its outcome, only consumes.
WriteFails(c) ==
  /\ pc[c] = "writing"
  /\ job[c].new => item.exists
  /\ Done(c)
  /\ UNCHANGED <<config, replica, cache, lock, item, changes, strayed>>

Client(c) ==
  \/ Begin(c) \/ Refuse(c)
  \/ \E first \in Names : Read(c, first)
  \/ Create(c) \/ WriteNormal(c) \/ WriteFails(c)

TtlRunsOut ==
  /\ item.ttl = "running"
  /\ item' = [item EXCEPT !.ttl = "over"]
  /\ UNCHANGED <<config, replica, cache, lock, pc, job, changes, strayed>>

\* DynamoDB deletes the expired item.
Reap ==
  /\ item.ttl = "over"
  /\ item' = NoItem
  /\ job' = Unlocked(job)
  /\ strayed' = AsConfigured
  /\ UNCHANGED <<config, replica, cache, lock, pc, changes>>

------------------------------------------------------------------------------
(* The administrators *)

Call(a) ==
  /\ pc[a] = "idle"
  /\ changes < MaxChanges
  /\ changes' = changes + 1

\* Mutant: parameters are given to limits that have none.
SyncedIfAbsent(limits, ttl, stale) ==
  [item EXCEPT !.cp = [n \in Names |-> IF @[n] = 0 THEN limits[n]
                                       ELSE IF n \in stale THEN 0 ELSE @[n]],
               !.names = @ \ stale, !.ttl = ttl]

\* _sync_bucket_params: all of it or, without an item, nothing.
Synced(limits, ttl, stale) ==
  [item EXCEPT !.cp = [n \in Names |-> IF limits[n] > 0 THEN limits[n]
                                       ELSE IF n \in stale THEN 0 ELSE @[n]],
               !.names = @ \ stale, !.ttl = ttl]

SyncBucket(limits, ttl, stale) ==
  IF item.exists
    THEN /\ item' = Synced(limits, ttl, stale)
         /\ strayed' = [params |-> limits # Effective(config), ttl |-> ttl # TtlOf(Source(config))]
    ELSE UNCHANGED <<item, strayed>>

\* set_limits: the transaction creates the configuration, or finds one.
SetLimits(a, l, c) ==
  /\ l \in {"entity", "entity_default"}
  /\ Call(a)
  /\ IF config[l] = Empty THEN config' = [config EXCEPT ![l] = c] /\ Goto(a, "syncing")
     ELSE UNCHANGED config /\ Goto(a, "overwriting")
  /\ job' = [job EXCEPT ![a].level = l, ![a].to = c]
  /\ UNCHANGED <<replica, cache, lock, item, strayed>>

Overwrite(a) ==
  /\ pc[a] = "overwriting"
  /\ config' = [config EXCEPT ![job[a].level] = job[a].to]
  /\ Goto(a, "syncing")
  /\ UNCHANGED <<replica, cache, lock, item, job, changes, strayed>>

\* The limits of all resources have a bucket of their own, not this one.
Sync(a) ==
  /\ pc[a] = "syncing"
  /\ IF job[a].level = "entity" THEN SyncBucket(job[a].to, "none", {})
     ELSE UNCHANGED <<item, strayed>>
  /\ Goto(a, "evicting")
  /\ UNCHANGED <<config, replica, cache, lock, job, changes>>

Evict(a) ==
  /\ pc[a] = "evicting"
  /\ cache' = [cache EXCEPT ![ProcessOf[a]][job[a].level] = {}]
  /\ Done(a)
  /\ UNCHANGED <<config, replica, lock, item, changes, strayed>>

\* delete_limits: what the level had, for the limits that will be stale.
ReadOld(a, l, old) ==
  /\ l \in {"entity", "entity_default"}
  /\ Call(a)
  /\ old \in {config[l], replica[l]}
  /\ Goto(a, "deleting")
  /\ job' = [job EXCEPT ![a].level = l, ![a].to = old]
  /\ UNCHANGED <<config, replica, cache, lock, item, strayed>>

\* The configuration is deleted, unless there is none: then the cache is not evicted.
\* The resolution and the reconciliation follow either way.
Delete(a) ==
  /\ pc[a] = "deleting"
  /\ config' = [config EXCEPT ![job[a].level] = Empty]
  /\ IF config[job[a].level] = Empty THEN Goto(a, "resolving") ELSE Goto(a, "clearing")
  /\ UNCHANGED <<replica, cache, lock, item, job, changes, strayed>>

ClearCache(a) ==
  /\ pc[a] = "clearing"
  /\ cache' = [cache EXCEPT ![ProcessOf[a]][job[a].level] = {}]
  /\ Goto(a, "resolving")
  /\ UNCHANGED <<config, replica, lock, item, job, changes, strayed>>

\* reconcile_bucket_to_defaults, with a ttl whatever the source now is; again, the
\* limits of all resources have a bucket of their own.
Reconcile(a) ==
  /\ pc[a] = "resolved"
  /\ IF job[a].level = "entity"
       THEN SyncBucket(job[a].limits, "running", Configured(job[a].to) \ Configured(job[a].limits))
       ELSE UNCHANGED <<item, strayed>>
  /\ Done(a)
  /\ UNCHANGED <<config, replica, cache, lock, changes>>

\* Resource and system defaults are put, or deleted, by one write: neither a bucket
\* nor a cache is touched.
SetDefaults(a, l, c) ==
  /\ l \in Levels \ {"entity", "entity_default"}
  /\ Call(a)
  /\ config' = [config EXCEPT ![l] = c]
  /\ UNCHANGED <<replica, cache, lock, item, pc, job, strayed>>

DeleteDefaults(a, l) ==
  /\ l \in Levels \ {"entity", "entity_default"}
  /\ Call(a)
  /\ config' = [config EXCEPT ![l] = Empty]
  /\ UNCHANGED <<replica, cache, lock, item, pc, job, strayed>>

Admin(a) ==
  \/ \E l \in Levels, c \in Settable : SetLimits(a, l, c) \/ SetDefaults(a, l, c)
  \/ \E l \in Levels, c \in Settable \cup {Empty} : ReadOld(a, l, c)
  \/ \E l \in Levels : DeleteDefaults(a, l)
  \/ Overwrite(a) \/ Sync(a) \/ Evict(a) \/ Delete(a) \/ ClearCache(a) \/ Reconcile(a)

------------------------------------------------------------------------------
Resolve(t) ==
  \/ ResolveFromCache(t) \/ Fetch(t) \/ Store(t)
  \/ FetchRaises(t) \/ LearnFromCache(t) \/ Ask(t) \/ StoreOne(t) \/ AskRaises(t)

Next ==
  \/ \E t \in Tasks : Resolve(t)
  \/ \E c \in Clients : Client(c)
  \/ \E a \in Admins : Admin(a)
  \/ \E p \in Processes, l \in Levels : Expire(p, l)
  \/ \E l \in Levels : Replicate(l)
  \/ TtlRunsOut
  \/ Reap

Spec == Init /\ [][Next]_vars

GoesOn(t) ==
  \/ Store(t) \/ StoreOne(t)
  \/ /\ t \in Clients
     /\ Refuse(t) \/ (\E first \in Names : Read(t, first))
          \/ Create(t) \/ WriteNormal(t) \/ WriteFails(t)
  \/ t \in Admins /\ Reconcile(t)

\* Time passes for every cached slot, replicas catch up, a fetch is answered, and
\* a task that has resolved its limits goes on.  Nothing else need happen:
\* nobody must acquire, and the lock need not be fair.
FairSpec ==
  /\ Spec
  /\ \A t \in Tasks : WF_vars(GoesOn(t))
  /\ \A p \in Processes, l \in Levels : WF_vars(Expire(p, l))
  /\ WF_vars(\E l \in Levels : Replicate(l))

------------------------------------------------------------------------------
(* Properties *)

Jobs == [level : Levels, to : Configs, misses : SUBSET Levels, found : [Levels -> Configs],
         limits : Configs, source : Levels \cup {"none"}, new : BOOLEAN, fresh : BOOLEAN]

\* Every variable has the type the code gives it; a cache's lock is held by the one
\* task of the process that waits for the table.
TypeOK ==
  /\ config \in [Levels -> Configs]
  /\ replica \in [Levels -> Configs]
  /\ cache \in [Processes -> [Levels -> SUBSET Configs]]
  /\ \A p \in Processes, l \in Levels : \A c, d \in cache[p][l] : c = d
  /\ lock \in [Processes -> SUBSET Tasks]
  /\ \A p \in Processes : lock[p] = {t \in Tasks : ProcessOf[t] = p /\ pc[t] \in {"fetching", "asking"}}
  /\ \A p \in Processes : \A t, u \in lock[p] : t = u
  /\ item \in [exists : BOOLEAN, names : SUBSET Names, cp : Configs,
               ttl : {"none", "running", "over"}]
  /\ pc \in [Tasks -> PCs]
  /\ job \in [Tasks -> Jobs]
  /\ changes \in Nat
  /\ strayed \in [params : BOOLEAN, ttl : BOOLEAN]

AdminsIdle == \A a \in Admins : pc[a] = "idle"

\* set_limits reaches the bucket: between the administrator's calls an item has the
\* entity's own limits as its parameters, in whichever order the table, the item
\* and the caches were written and whoever created the item meanwhile, unless
\* a task that had resolved something older created it afterwards.
ParamsFollowLimits ==
  AdminsIdle /\ item.exists /\ config["entity"] # Empty /\ ~strayed.params =>
    \A n \in Configured(config["entity"]) : item.cp[n] = config["entity"][n]

\* An item expires exactly when the limits do not come from the entity's own
\* configuration for the resource, through set_limits, delete_limits and changes
\* of the defaults; unless the last task that wrote its ttl had resolved
\* something older, or delete_limits found no other limits and left it.
TtlFollowsSource ==
  AdminsIdle /\ item.exists /\ ~strayed.ttl => (item.ttl = "none" <=> Source(config) = "entity")

\* Once nobody changes the configuration any more, every process comes to know it
\* and only it: the caches, what is being fetched and what acquires go by.
LimitsConverge ==
  <>[](/\ \A p \in Processes, l \in Levels : cache[p][l] \subseteq {config[l]}
       /\ \A c \in Clients : pc[c] \in {"resolved", "writing"} =>
            job[c].limits = Effective(config) /\ job[c].source = Source(config))

\* Between the administrator's calls, every limit the item holds a balance of has its
\* parameters, so that it can be refilled and turned back into a Limit.
ParamsComplete == AdminsIdle => \A n \in item.names : item.cp[n] > 0
==============================================================================
