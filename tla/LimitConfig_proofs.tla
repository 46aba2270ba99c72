-------------------------- MODULE LimitConfig_proofs --------------------------
(***************************************************************************)
(* Proofs about the configured limits, for any processes, tasks, limits,   *)
(* levels below the entity's own, and any number of changes.               *)
(*                                                                         *)
(* That a bucket follows the configuration is true between the calls of    *)
(* administrators.  The inductive invariants say it of every moment: it    *)
(* does unless some administrator has changed the entity's limits and has  *)
(* still to come to the bucket, or the bucket was last written with        *)
(* something older.                                                        *)
(***************************************************************************)
EXTENDS LimitConfig, Sums

Waiting == {"fetching", "asking"}

LockOK ==
  /\ lock \in [Processes -> SUBSET Tasks]
  /\ \A p \in Processes : lock[p] = {t \in Tasks : ProcessOf[t] = p /\ pc[t] \in Waiting}
  /\ \A p \in Processes : \A t, u \in lock[p] : t = u

CacheOK ==
  /\ cache \in [Processes -> [Levels -> SUBSET Configs]]
  /\ \A p \in Processes, l \in Levels : \A c, d \in cache[p][l] : c = d

TablesOK ==
  /\ config \in [Levels -> Configs]
  /\ replica \in [Levels -> Configs]
  /\ item \in [exists : BOOLEAN, names : SUBSET Names, cp : Configs, ttl : {"none", "running", "over"}]
  /\ changes \in Nat
  /\ strayed \in [params : BOOLEAN, ttl : BOOLEAN]

TasksOK == pc \in [Tasks -> PCs] /\ job \in [Tasks -> Jobs]

\* A fallback has a level left to ask.
Seeking == \A t \in Tasks : pc[t] \in {"falling", "asking"} => job[t].misses # {}

\* An administrator that has changed the entity's limits and not come to the bucket.
Syncs(a) == job[a].level = "entity" /\ pc[a] = "syncing"
Settles(a) ==
  job[a].level = "entity"
    /\ pc[a] \in {"syncing", "clearing", "resolving", "fetching", "falling", "asking", "resolved"}

ParamsInv ==
  item.exists /\ config["entity"] # Empty /\ ~strayed.params /\ (\A a \in Admins : ~Syncs(a)) =>
    \A n \in Configured(config["entity"]) : item.cp[n] = config["entity"][n]

TtlInv ==
  item.exists /\ ~strayed.ttl /\ (\A a \in Admins : ~Settles(a)) =>
    (item.ttl = "none" <=> config["entity"] # Empty)

IInv == TypeOK /\ Seeking /\ ParamsInv /\ TtlInv

(* The type invariant in its parts.                                          *)
LEMMA TypeParts == TypeOK <=> LockOK /\ CacheOK /\ TablesOK /\ TasksOK
BY DEF TypeOK, LockOK, CacheOK, TablesOK, TasksOK, Waiting

-------------------------------------------------------------------------------
(* The hierarchy *)

(* The entity's own limits come first of all levels.                         *)
LEMMA EntityFirst ==
  /\ "entity" \in Levels /\ 1 \in DOMAIN Precedence /\ Precedence[1] = "entity"
  /\ DOMAIN Precedence \subseteq Nat \ {0}
  /\ "none" \notin Levels
  /\ Empty \in Configs
  /\ ProcessOf \in [Tasks -> Processes]
<1>1. Precedence \in Seq({"entity", "entity_default", "resource", "system"}) /\ Precedence # <<>> /\ Precedence[1] = "entity"
  BY ConfigAssumption
<1>2. DOMAIN Precedence = 1..Len(Precedence) /\ Len(Precedence) \in Nat /\ Len(Precedence) # 0
  BY <1>1
<1>3. 1 \in DOMAIN Precedence
  BY <1>2
<1>4. \A i \in DOMAIN Precedence : Precedence[i] \in {"entity", "entity_default", "resource", "system"}
  BY <1>1, <1>2
<1>5. Empty \in Configs
  BY ConfigAssumption DEF Empty, Configs
<1> QED
  BY <1>1, <1>2, <1>3, <1>4, <1>5, ConfigAssumption DEF Levels

(* The first of some levels is one of them.                                  *)
LEMMA FirstLevel ==
  ASSUME NEW S \in SUBSET DOMAIN Precedence, S # {}
  PROVE  Min(S) \in S /\ \A i \in S : Min(S) <= i
<1>1. S \subseteq Nat
  BY EntityFirst
<1>2. IsFiniteSet(DOMAIN Precedence)
  <2>1. DOMAIN Precedence = 1..Len(Precedence) /\ Len(Precedence) \in Nat
    BY ConfigAssumption
  <2> QED
    BY <2>1, FS_Interval
<1>3. IsFiniteSet(S)
  BY <1>2, FS_Subset
<1>4. \E m \in S : \A k \in S : m <= k
  BY <1>1, <1>3, SmallestExists
<1> QED
  BY <1>4 DEF Min

(* _evaluate_hierarchy finds a level that has limits, the entity's first.    *)
LEMMA SourceDecides ==
  ASSUME NEW found \in [Levels -> Configs]
  PROVE  /\ Source(found) \in Levels \cup {"none"}
         /\ Source(found) # "none" => Source(found) \in Levels /\ found[Source(found)] # Empty
         /\ Effective(found) \in Configs
         /\ Source(found) = "entity" <=> found["entity"] # Empty
         /\ found["entity"] # Empty => Effective(found) = found["entity"]
<1> DEFINE with == {i \in DOMAIN Precedence : found[Precedence[i]] # Empty}
<1>1. CASE with = {}
  <2>1. Source(found) = "none"
    BY <1>1 DEF Source
  <2>2. found["entity"] = Empty
    BY <1>1, EntityFirst
  <2> QED
    BY <2>1, <2>2, EntityFirst DEF Effective
<1>2. CASE with # {}
  <2>1. Min(with) \in with /\ \A i \in with : Min(with) <= i
    BY <1>2, FirstLevel
  <2>2. Source(found) = Precedence[Min(with)]
    BY <1>2 DEF Source
  <2>3. Source(found) \in Levels /\ found[Source(found)] # Empty
    BY <2>1, <2>2 DEF Levels
  <2>4. found["entity"] # Empty => Min(with) = 1
    <3>1. found["entity"] # Empty => 1 \in with
      BY EntityFirst
    <3>2. with \subseteq Nat \ {0}
      BY EntityFirst
    <3> HIDE DEF with
    <3>3. Min(with) \in Nat \ {0} /\ (1 \in with => Min(with) <= 1)
      BY <2>1, <3>2
    <3> QED
      BY <3>1, <3>3
  <2>5. found["entity"] # Empty => Source(found) = "entity"
    BY <2>2, <2>4, EntityFirst
  <2> HIDE DEF with
  <2> QED
    BY <2>3, <2>5, EntityFirst DEF Effective
<1> QED
  BY <1>1, <1>2

(* The level a fallback asks next is one of those that are left.             *)
LEMMA AskedLevel ==
  ASSUME NEW t \in Tasks, job[t].misses \in SUBSET Levels, job[t].misses # {}
  PROVE  Asked(t) \in job[t].misses /\ Asked(t) \in Levels
<1> DEFINE S == {i \in DOMAIN Precedence : Precedence[i] \in job[t].misses}
<1>1. S # {}
  BY DEF Levels
<1>2. Min(S) \in S
  BY <1>1, FirstLevel
<1> QED
  BY <1>2 DEF Asked

-------------------------------------------------------------------------------
(* Types *)

(* A task without a job has one of the right type.                           *)
LEMMA NoJobType == NoJob \in Jobs
BY EntityFirst DEF NoJob, Jobs

(* What the cache answers is a configuration for each level.                 *)
LEMMA CachedType ==
  ASSUME CacheOK, NEW t \in Tasks
  PROVE  Cached(t) \in [Levels -> Configs]
BY EntityFirst DEF CacheOK, Cached

(* There is always a level to resolve.                                       *)
LEMMA ScopeType ==
  ASSUME TasksOK, NEW t \in Tasks
  PROVE  Scope(t) \in SUBSET Levels /\ Scope(t) # {}
<1>1. job[t].level \in Levels
  BY DEF TasksOK, Jobs
<1> QED
  BY <1>1, EntityFirst DEF Scope

(* How a resolution ends.                                                    *)
LEMMA DoneType ==
  ASSUME TasksOK, NEW t \in Tasks, Done(t)
  PROVE  /\ TasksOK' /\ pc'[t] = "idle" /\ job'[t] = NoJob
         /\ \A u \in Tasks \ {t} : pc'[u] = pc[u] /\ job'[u] = job[u]
BY NoJobType DEF TasksOK, Done, Goto, PCs

(* A resolution ends in a source, or in none and the end of the call.        *)
LEMMA ResolvedType ==
  ASSUME TasksOK, NEW t \in Tasks, NEW found \in [Levels -> Configs], Resolved(t, found)
  PROVE  /\ TasksOK'
         /\ \A u \in Tasks \ {t} : pc'[u] = pc[u] /\ job'[u] = job[u]
         /\ \/ Source(found) = "none" /\ pc'[t] = "idle"
            \/ Source(found) # "none" /\ pc'[t] = "resolved" /\ job'[t].level = job[t].level
<1>1. CASE Source(found) = "none"
  BY <1>1, DoneType DEF Resolved
<1>2. CASE Source(found) # "none"
  <2>1. Source(found) \in Levels /\ found[Source(found)] \in Configs /\ NoJob.found \in [Levels -> Configs]
    BY <1>2, SourceDecides, NoJobType DEF Jobs
  <2>2. /\ Goto(t, "resolved")
        /\ job' = [job EXCEPT ![t].limits = found[Source(found)], ![t].source = Source(found),
                              ![t].misses = {}, ![t].found = NoJob.found]
    BY <1>2 DEF Resolved
  <2>3. job' \in [Tasks -> Jobs] /\ job'[t].level = job[t].level
    <3> DEFINE j == [job[t] EXCEPT !.limits = found[Source(found)], !.source = Source(found),
                                   !.misses = {}, !.found = NoJob.found]
    <3>1. job[t] \in Jobs
      BY DEF TasksOK
    <3>2. j \in Jobs /\ j.level = job[t].level
      BY <2>1, <3>1 DEF Jobs
    <3>3. job' = [job EXCEPT ![t] = j]
      BY <2>2
    <3> HIDE DEF j
    <3> QED
      BY <3>2, <3>3 DEF TasksOK
  <2>4. pc' \in [Tasks -> PCs] /\ pc'[t] = "resolved"
    BY <2>2 DEF TasksOK, Goto, PCs
  <2>5. \A u \in Tasks \ {t} : pc'[u] = pc[u] /\ job'[u] = job[u]
    BY <2>2 DEF TasksOK, Goto
  <2> QED
    BY <1>2, <2>3, <2>4, <2>5 DEF TasksOK
<1> QED
  BY <1>1, <1>2

(* The lock is taken, given back, or none of a step's business.              *)
LEMMA LockKept ==
  ASSUME LockOK, NEW t \in Tasks, lock' = lock, \A u \in Tasks \ {t} : pc'[u] = pc[u],
         pc[t] \notin Waiting, pc'[t] \notin Waiting
  PROVE  LockOK'
BY DEF LockOK

(* A task that goes to the table takes the lock, if nobody has it.           *)
LEMMA LockTaken ==
  ASSUME LockOK, NEW t \in Tasks, lock[ProcessOf[t]] = {}, lock' = [lock EXCEPT ![ProcessOf[t]] = {t}],
         \A u \in Tasks \ {t} : pc'[u] = pc[u], pc'[t] \in Waiting
  PROVE  LockOK'
<1>1. ProcessOf[t] \in Processes
  BY EntityFirst
<1>2. lock' \in [Processes -> SUBSET Tasks] /\ lock'[ProcessOf[t]] = {t}
      /\ \A p \in Processes \ {ProcessOf[t]} : lock'[p] = lock[p]
  BY <1>1 DEF LockOK
<1>3. \A u \in Tasks \ {t} : ProcessOf[u] = ProcessOf[t] => pc[u] \notin Waiting
  BY <1>1 DEF LockOK
<1>4. ASSUME NEW p \in Processes
      PROVE  lock'[p] = {u \in Tasks : ProcessOf[u] = p /\ pc'[u] \in Waiting} /\ \A u, v \in lock'[p] : u = v
  <2>1. CASE p = ProcessOf[t]
    BY <1>2, <1>3, <2>1
  <2>2. CASE p # ProcessOf[t]
    BY <1>2, <2>2 DEF LockOK
  <2> QED
    BY <2>1, <2>2
<1> QED
  BY <1>2, <1>4 DEF LockOK

(* It gives it back when it has its answer.                                  *)
LEMMA LockReleased ==
  ASSUME LockOK, NEW t \in Tasks, pc[t] \in Waiting, lock' = [lock EXCEPT ![ProcessOf[t]] = {}],
         \A u \in Tasks \ {t} : pc'[u] = pc[u], pc'[t] \notin Waiting
  PROVE  LockOK'
<1>1. ProcessOf[t] \in Processes
  BY EntityFirst
<1>2. lock' \in [Processes -> SUBSET Tasks] /\ lock'[ProcessOf[t]] = {}
      /\ \A p \in Processes \ {ProcessOf[t]} : lock'[p] = lock[p]
  BY <1>1 DEF LockOK
<1>3. \A u \in Tasks \ {t} : ProcessOf[u] = ProcessOf[t] => pc[u] \notin Waiting
  <2>1. t \in lock[ProcessOf[t]]
    BY <1>1 DEF LockOK
  <2> QED
    BY <1>1, <2>1 DEF LockOK
<1>4. ASSUME NEW p \in Processes
      PROVE  lock'[p] = {u \in Tasks : ProcessOf[u] = p /\ pc'[u] \in Waiting} /\ \A u, v \in lock'[p] : u = v
  <2>1. CASE p = ProcessOf[t]
    BY <1>2, <1>3, <2>1
  <2>2. CASE p # ProcessOf[t]
    BY <1>2, <2>2 DEF LockOK
  <2> QED
    BY <2>1, <2>2
<1> QED
  BY <1>2, <1>4 DEF LockOK

-------------------------------------------------------------------------------
(* Resolving *)

StateOK == LockOK /\ CacheOK /\ TablesOK /\ TasksOK /\ Seeking

(* The invariant of types in its parts.                                      *)
LEMMA StateParts == TypeOK /\ Seeking <=> StateOK
BY TypeParts DEF StateOK

\* What a step of a resolution may do, whatever it finds: the task of an administrator
\* that gives up has left the bucket as it was.
ResolveEffect(t) ==
  /\ UNCHANGED <<config, replica, item, changes>>
  /\ LockOK' /\ CacheOK' /\ TasksOK'
  /\ \A u \in Tasks \ {t} : pc'[u] = pc[u] /\ job'[u] = job[u]
  /\ pc[t] \in {"resolving", "fetching", "falling", "asking"}
  /\ pc'[t] \in {"falling", "asking"} => job'[t].misses # {}
  /\ \/ /\ pc'[t] \in {"fetching", "falling", "asking", "resolved"} /\ job'[t].level = job[t].level
        /\ UNCHANGED strayed
     \/ pc'[t] = "idle" /\ LeftAsIs(t)

\* The next level, or the end.
LEMMA LearnsType ==
  ASSUME TasksOK, NEW t \in Tasks, job[t].misses # {}, NEW limits \in Configs, Learns(t, limits)
  PROVE  /\ TasksOK' /\ \A u \in Tasks \ {t} : pc'[u] = pc[u] /\ job'[u] = job[u]
         /\ \/ pc'[t] = "falling" /\ job'[t].misses # {} /\ job'[t].level = job[t].level /\ UNCHANGED strayed
            \/ pc'[t] = "resolved" /\ job'[t].level = job[t].level /\ UNCHANGED strayed
            \/ pc'[t] = "idle" /\ LeftAsIs(t)
<1>0. job[t] \in Jobs /\ job[t].misses \in SUBSET Levels /\ NoJob.found \in [Levels -> Configs]
  BY NoJobType DEF TasksOK, Jobs
<1>1. Asked(t) \in job[t].misses /\ Asked(t) \in Levels
  BY <1>0, AskedLevel
<1> DEFINE found == [NoJob.found EXCEPT ![Asked(t)] = limits]
<1>2. CASE limits # Empty \/ job[t].misses = {Asked(t)}
  <2>1. found \in [Levels -> Configs]
    BY <1>0, <1>1
  <2>2. Resolved(t, found) /\ IF limits = Empty THEN LeftAsIs(t) ELSE UNCHANGED strayed
    BY <1>2 DEF Learns
  <2>3. Source(found) = "none" <=> limits = Empty
    <3>1. \A l \in Levels : found[l] = IF l = Asked(t) THEN limits ELSE Empty
      BY <1>0, <1>1 DEF NoJob
    <3>2. PICK i \in DOMAIN Precedence : Precedence[i] = Asked(t)
      BY <1>1 DEF Levels
    <3>3. limits # Empty => Source(found) # "none"
      <4> DEFINE with == {k \in DOMAIN Precedence : found[Precedence[k]] # Empty}
      <4>1. ASSUME limits # Empty
            PROVE  Source(found) # "none"
        <5>1. with # {}
          BY <1>1, <3>1, <3>2, <4>1
        <5>2. Precedence[Min(with)] \in Levels
          BY <5>1, FirstLevel DEF Levels
        <5> QED
          BY <5>1, <5>2, EntityFirst DEF Source
      <4> QED
        BY <4>1
    <3>4. limits = Empty => Source(found) = "none"
      BY <2>1, <3>1, SourceDecides
    <3> QED
      BY <3>3, <3>4
  <2> HIDE DEF found
  <2>4. /\ TasksOK' /\ \A u \in Tasks \ {t} : pc'[u] = pc[u] /\ job'[u] = job[u]
        /\ \/ Source(found) = "none" /\ pc'[t] = "idle"
           \/ Source(found) # "none" /\ pc'[t] = "resolved" /\ job'[t].level = job[t].level
    BY <2>1, <2>2, ResolvedType
  <2> QED
    BY <2>2, <2>3, <2>4
<1>3. CASE ~(limits # Empty \/ job[t].misses = {Asked(t)})
  <2> DEFINE j == [job[t] EXCEPT !.misses = @ \ {Asked(t)}, !.found = NoJob.found]
  <2>1. Goto(t, "falling") /\ job' = [job EXCEPT ![t] = j] /\ UNCHANGED strayed
    BY <1>3 DEF Learns
  <2>2. j \in Jobs /\ j.misses # {} /\ j.level = job[t].level
    BY <1>0, <1>1, <1>3 DEF Jobs
  <2> HIDE DEF j
  <2> QED
    BY <2>1, <2>2 DEF TasksOK, Goto, PCs
<1> QED
  BY <1>2, <1>3

(* Every step of a resolution does what a resolution may.                    *)
LEMMA ResolveStep ==
  ASSUME StateOK, NEW t \in Tasks, Resolve(t)
  PROVE  ResolveEffect(t)
<1>0. /\ LockOK /\ CacheOK /\ TablesOK /\ TasksOK /\ Seeking
      /\ job[t] \in Jobs /\ job[t].misses \in SUBSET Levels /\ job[t].found \in [Levels -> Configs]
      /\ pc[t] \in PCs /\ NoJob.found \in [Levels -> Configs]
      /\ ProcessOf[t] \in Processes
  BY EntityFirst, NoJobType DEF StateOK, TasksOK, Jobs
<1>1. CASE ResolveFromCache(t)
  <2>1. Cached(t) \in [Levels -> Configs] /\ Resolved(t, Cached(t))
    BY <1>0, <1>1, CachedType DEF ResolveFromCache
  <2>2. /\ TasksOK' /\ \A u \in Tasks \ {t} : pc'[u] = pc[u] /\ job'[u] = job[u]
        /\ \/ Source(Cached(t)) = "none" /\ pc'[t] = "idle"
           \/ Source(Cached(t)) # "none" /\ pc'[t] = "resolved" /\ job'[t].level = job[t].level
    BY <1>0, <2>1, ResolvedType
  <2>3. UNCHANGED <<config, replica, cache, lock, item, changes>> /\ pc[t] = "resolving"
    BY <1>1 DEF ResolveFromCache
  <2>4. LockOK'
    BY <1>0, <2>2, <2>3, LockKept DEF Waiting
  <2>5. CacheOK'
    BY <1>0, <2>3 DEF CacheOK
  <2>6. IF Source(Cached(t)) = "none" THEN LeftAsIs(t) ELSE UNCHANGED strayed
    BY <1>1 DEF ResolveFromCache
  <2> QED
    BY <2>2, <2>3, <2>4, <2>5, <2>6 DEF ResolveEffect
<1>2. CASE Fetch(t)
  <2>1. PICK answer \in [Misses(t) -> {config[l] : l \in Levels} \cup {replica[l] : l \in Levels}] :
          /\ \A l \in Misses(t) : answer[l] \in {config[l], replica[l]}
          /\ job' = [job EXCEPT ![t].misses = Misses(t),
                       ![t].found = [l \in Levels |-> IF l \in Misses(t) THEN answer[l] ELSE Cached(t)[l]]]
    BY <1>2 DEF Fetch
  <2> DEFINE j == [job[t] EXCEPT !.misses = Misses(t),
                     !.found = [l \in Levels |-> IF l \in Misses(t) THEN answer[l] ELSE Cached(t)[l]]]
  <2>2. Misses(t) \in SUBSET Levels /\ Cached(t) \in [Levels -> Configs]
    BY <1>0, ScopeType, CachedType DEF Misses
  <2>3. [l \in Levels |-> IF l \in Misses(t) THEN answer[l] ELSE Cached(t)[l]] \in [Levels -> Configs]
    BY <1>0, <2>1, <2>2 DEF TablesOK
  <2>4. j \in Jobs /\ j.level = job[t].level
    BY <1>0, <2>2, <2>3 DEF Jobs
  <2>5. job' = [job EXCEPT ![t] = j]
    BY <2>1
  <2> HIDE DEF j
  <2>6. /\ UNCHANGED <<config, replica, cache, item, changes, strayed>> /\ Goto(t, "fetching")
        /\ pc[t] = "resolving" /\ lock[ProcessOf[t]] = {} /\ lock' = [lock EXCEPT ![ProcessOf[t]] = {t}]
    BY <1>2 DEF Fetch
  <2>7. TasksOK' /\ job'[t].level = job[t].level /\ pc'[t] = "fetching"
        /\ \A u \in Tasks \ {t} : pc'[u] = pc[u] /\ job'[u] = job[u]
    BY <1>0, <2>4, <2>5, <2>6 DEF TasksOK, Goto, PCs
  <2>8. LockOK'
    BY <1>0, <2>6, <2>7, LockTaken DEF Waiting
  <2>9. CacheOK'
    BY <1>0, <2>6 DEF CacheOK
  <2> QED
    BY <2>6, <2>7, <2>8, <2>9 DEF ResolveEffect
<1>3. CASE Store(t)
  <2>1. Resolved(t, job[t].found) /\ pc[t] = "fetching" /\ lock' = [lock EXCEPT ![ProcessOf[t]] = {}]
        /\ UNCHANGED <<config, replica, item, changes>>
        /\ IF Source(job[t].found) = "none" THEN LeftAsIs(t) ELSE UNCHANGED strayed
    BY <1>3 DEF Store
  <2>2. /\ TasksOK' /\ \A u \in Tasks \ {t} : pc'[u] = pc[u] /\ job'[u] = job[u]
        /\ \/ Source(job[t].found) = "none" /\ pc'[t] = "idle"
           \/ Source(job[t].found) # "none" /\ pc'[t] = "resolved" /\ job'[t].level = job[t].level
    BY <1>0, <2>1, ResolvedType
  <2>3. LockOK'
    BY <1>0, <2>1, <2>2, LockReleased DEF Waiting
  <2>4. CacheOK'
    <3> DEFINE g == [l \in Levels |-> IF l \in job[t].misses THEN {job[t].found[l]} ELSE cache[ProcessOf[t]][l]]
    <3>1. cache' = [cache EXCEPT ![ProcessOf[t]] = g]
      BY <1>0, <1>3 DEF Store, CacheOK
    <3>2. g \in [Levels -> SUBSET Configs] /\ \A l \in Levels : \A c, d \in g[l] : c = d
      BY <1>0 DEF CacheOK
    <3> HIDE DEF g
    <3> QED
      BY <1>0, <3>1, <3>2 DEF CacheOK
  <2> QED
    BY <2>1, <2>2, <2>3, <2>4 DEF ResolveEffect
<1>4. CASE FetchRaises(t)
  <2> DEFINE j == [job[t] EXCEPT !.misses = Scope(t), !.found = NoJob.found]
  <2>1. /\ UNCHANGED <<config, replica, cache, item, changes, strayed>> /\ Goto(t, "falling")
        /\ pc[t] = "fetching" /\ lock' = [lock EXCEPT ![ProcessOf[t]] = {}]
        /\ job' = [job EXCEPT ![t] = j]
    BY <1>4 DEF FetchRaises
  <2>2. j \in Jobs /\ j.level = job[t].level /\ j.misses # {}
    BY <1>0, ScopeType DEF Jobs
  <2> HIDE DEF j
  <2>3. TasksOK' /\ job'[t].level = job[t].level /\ pc'[t] = "falling" /\ job'[t].misses # {}
        /\ \A u \in Tasks \ {t} : pc'[u] = pc[u] /\ job'[u] = job[u]
    BY <1>0, <2>1, <2>2 DEF TasksOK, Goto, PCs
  <2>4. LockOK'
    BY <1>0, <2>1, <2>3, LockReleased DEF Waiting
  <2>5. CacheOK'
    BY <1>0, <2>1 DEF CacheOK
  <2> QED
    BY <2>1, <2>3, <2>4, <2>5 DEF ResolveEffect
<1>5. CASE LearnFromCache(t)
  <2>1. pc[t] = "falling" /\ job[t].misses # {} /\ Learns(t, Cached(t)[Asked(t)])
        /\ UNCHANGED <<config, replica, cache, lock, item, changes>>
    BY <1>0, <1>5 DEF LearnFromCache, Seeking
  <2>2. Cached(t)[Asked(t)] \in Configs
    BY <1>0, <2>1, CachedType, AskedLevel
  <2>3. /\ TasksOK' /\ \A u \in Tasks \ {t} : pc'[u] = pc[u] /\ job'[u] = job[u]
        /\ \/ pc'[t] = "falling" /\ job'[t].misses # {} /\ job'[t].level = job[t].level /\ UNCHANGED strayed
           \/ pc'[t] = "resolved" /\ job'[t].level = job[t].level /\ UNCHANGED strayed
           \/ pc'[t] = "idle" /\ LeftAsIs(t)
    BY <1>0, <2>1, <2>2, LearnsType
  <2>4. LockOK'
    BY <1>0, <2>1, <2>3, LockKept DEF Waiting
  <2>5. CacheOK'
    BY <1>0, <2>1 DEF CacheOK
  <2> QED
    BY <2>1, <2>3, <2>4, <2>5 DEF ResolveEffect
<1>6. CASE Ask(t)
  <2>1. PICK answer \in {config[Asked(t)], replica[Asked(t)]} : job' = [job EXCEPT ![t].found[Asked(t)] = answer]
    BY <1>6 DEF Ask
  <2>2. /\ UNCHANGED <<config, replica, cache, item, changes, strayed>> /\ Goto(t, "asking")
        /\ pc[t] = "falling" /\ lock[ProcessOf[t]] = {} /\ lock' = [lock EXCEPT ![ProcessOf[t]] = {t}]
    BY <1>6 DEF Ask
  <2>3. job[t].misses # {} /\ Asked(t) \in Levels
    BY <1>0, <2>2, AskedLevel DEF Seeking
  <2> DEFINE f == [job[t].found EXCEPT ![Asked(t)] = answer]
             j == [job[t] EXCEPT !.found = f]
  <2>4. f \in [Levels -> Configs]
    BY <1>0, <2>3 DEF TablesOK
  <2>5. job' = [job EXCEPT ![t] = j]
    BY <2>1
  <2> HIDE DEF f
  <2>6. j \in Jobs /\ j.level = job[t].level /\ j.misses # {}
    BY <1>0, <2>3, <2>4 DEF Jobs
  <2> HIDE DEF j
  <2>7. TasksOK' /\ job'[t].level = job[t].level /\ pc'[t] = "asking" /\ job'[t].misses # {}
        /\ \A u \in Tasks \ {t} : pc'[u] = pc[u] /\ job'[u] = job[u]
    BY <1>0, <2>2, <2>5, <2>6 DEF TasksOK, Goto, PCs
  <2>8. LockOK'
    BY <1>0, <2>2, <2>7, LockTaken DEF Waiting
  <2>9. CacheOK'
    BY <1>0, <2>2 DEF CacheOK
  <2> QED
    BY <2>2, <2>7, <2>8, <2>9 DEF ResolveEffect
<1>7. CASE StoreOne(t)
  <2>1. pc[t] = "asking" /\ job[t].misses # {} /\ Learns(t, job[t].found[Asked(t)])
        /\ lock' = [lock EXCEPT ![ProcessOf[t]] = {}] /\ UNCHANGED <<config, replica, item, changes>>
    BY <1>0, <1>7 DEF StoreOne, Seeking
  <2>2. Asked(t) \in Levels /\ job[t].found[Asked(t)] \in Configs
    BY <1>0, <2>1, AskedLevel
  <2>3. /\ TasksOK' /\ \A u \in Tasks \ {t} : pc'[u] = pc[u] /\ job'[u] = job[u]
        /\ \/ pc'[t] = "falling" /\ job'[t].misses # {} /\ job'[t].level = job[t].level /\ UNCHANGED strayed
           \/ pc'[t] = "resolved" /\ job'[t].level = job[t].level /\ UNCHANGED strayed
           \/ pc'[t] = "idle" /\ LeftAsIs(t)
    BY <1>0, <2>1, <2>2, LearnsType
  <2>4. LockOK'
    BY <1>0, <2>1, <2>3, LockReleased DEF Waiting
  <2>5. CacheOK'
    <3> DEFINE g == [cache[ProcessOf[t]] EXCEPT ![Asked(t)] = {job[t].found[Asked(t)]}]
    <3>1. cache' = [cache EXCEPT ![ProcessOf[t]] = g]
      BY <1>7 DEF StoreOne
    <3>2. g \in [Levels -> SUBSET Configs] /\ \A l \in Levels : \A c, d \in g[l] : c = d
      BY <1>0, <2>2 DEF CacheOK
    <3> HIDE DEF g
    <3> QED
      BY <1>0, <3>1, <3>2 DEF CacheOK
  <2> QED
    BY <2>1, <2>3, <2>4, <2>5 DEF ResolveEffect
<1>8. CASE AskRaises(t)
  <2>1. /\ UNCHANGED <<config, replica, cache, item, changes>> /\ Done(t) /\ LeftAsIs(t)
        /\ pc[t] = "asking" /\ lock' = [lock EXCEPT ![ProcessOf[t]] = {}]
    BY <1>8 DEF AskRaises
  <2>2. TasksOK' /\ pc'[t] = "idle" /\ \A u \in Tasks \ {t} : pc'[u] = pc[u] /\ job'[u] = job[u]
    BY <1>0, <2>1, DoneType
  <2>3. LockOK'
    BY <1>0, <2>1, <2>2, LockReleased DEF Waiting
  <2>4. CacheOK'
    BY <1>0, <2>1 DEF CacheOK
  <2> QED
    BY <2>1, <2>2, <2>3, <2>4 DEF ResolveEffect
<1> QED
  BY <1>1, <1>2, <1>3, <1>4, <1>5, <1>6, <1>7, <1>8 DEF Resolve

-------------------------------------------------------------------------------
(* The bucket follows *)

(* A step after which nothing is more settled than before, and that leaves   *)
(* the entity's limits and the item's parameters and kind of ttl alone.      *)
LEMMA FollowsKept ==
  ASSUME ParamsInv, TtlInv, config'["entity"] = config["entity"],
         item'.exists => item.exists /\ item'.cp = item.cp /\ (item'.ttl = "none" <=> item.ttl = "none"),
         strayed.params => strayed'.params, strayed.ttl => strayed'.ttl,
         \A a \in Admins : Syncs(a) => Syncs(a)',
         \A a \in Admins : Settles(a) => Settles(a)' \/ strayed'.ttl
  PROVE  ParamsInv' /\ TtlInv'
<1>1. ParamsInv'
  BY DEF ParamsInv, Configured
<1>2. TtlInv'
  BY DEF TtlInv
<1> QED
  BY <1>1, <1>2

(* A write of the whole item, by whoever resolved whatever.                  *)
LEMMA FollowsWritten ==
  ASSUME TablesOK, config' = config, NEW limits \in Configs, NEW ttl,
         \A n \in Configured(limits) : item'.cp[n] = limits[n],
         item'.ttl = "none" <=> ttl = "none", ttl \in {"none", "running"},
         strayed'.params = (limits # Effective(config)), strayed'.ttl = (ttl # TtlOf(Source(config)))
  PROVE  ParamsInv' /\ TtlInv'
<1>1. /\ Source(config) = "entity" <=> config["entity"] # Empty
      /\ config["entity"] # Empty => Effective(config) = config["entity"]
  BY SourceDecides DEF TablesOK
<1>2. ParamsInv'
  BY <1>1 DEF ParamsInv, Configured
<1>3. TtlInv'
  BY <1>1 DEF TtlInv, TtlOf
<1> QED
  BY <1>2, <1>3

(* What the other administrators have still to do is left to them.           *)
LEMMA OthersPending ==
  ASSUME NEW t \in Tasks,
         \A u \in Tasks \ {t} : pc'[u] = pc[u] /\ job'[u].level = job[u].level,
         t \in Admins => ~Syncs(t), t \in Admins /\ Settles(t) => Settles(t)' \/ strayed'.ttl
  PROVE  /\ \A a \in Admins : Syncs(a) => Syncs(a)'
         /\ \A a \in Admins : Settles(a) => Settles(a)' \/ strayed'.ttl
<1>1. Admins \subseteq Tasks
  BY DEF Tasks
<1> QED
  BY <1>1 DEF Syncs, Settles

(* A resolution changes neither the item nor what it must follow.            *)
LEMMA ResolveFollows ==
  ASSUME StateOK, ParamsInv, TtlInv, NEW t \in Tasks, Resolve(t)
  PROVE  StateOK' /\ ParamsInv' /\ TtlInv'
<1>0. ResolveEffect(t)
  BY ResolveStep
<1>1. /\ strayed' \in [params : BOOLEAN, ttl : BOOLEAN] /\ strayed'.params = strayed.params
      /\ strayed.ttl => strayed'.ttl
      /\ LeftAsIs(t) /\ t \in Admins /\ job[t].level = "entity" => strayed'.ttl
  <2>1. strayed \in [params : BOOLEAN, ttl : BOOLEAN]
    BY DEF StateOK, TablesOK
  <2>2. UNCHANGED strayed \/ LeftAsIs(t)
    BY <1>0 DEF ResolveEffect
  <2> QED
    BY <2>1, <2>2 DEF LeftAsIs
<1>2. TablesOK'
  BY <1>0, <1>1 DEF ResolveEffect, StateOK, TablesOK
<1>3. Seeking'
  BY <1>0 DEF ResolveEffect, StateOK, Seeking
<1>4. t \in Admins => ~Syncs(t)
  BY <1>0 DEF ResolveEffect, Syncs
<1>5. t \in Admins /\ Settles(t) => Settles(t)' \/ strayed'.ttl
  BY <1>0, <1>1 DEF ResolveEffect, Settles
<1>6. \A u \in Tasks \ {t} : pc'[u] = pc[u] /\ job'[u].level = job[u].level
  BY <1>0 DEF ResolveEffect
<1>7. ParamsInv' /\ TtlInv'
  BY <1>0, <1>1, <1>4, <1>5, <1>6, OthersPending, FollowsKept DEF ResolveEffect
<1> QED
  BY <1>0, <1>2, <1>3, <1>7 DEF ResolveEffect, StateOK

(* The state of the tasks, of a step that neither takes nor releases a lock. *)
LEMMA TaskMoves ==
  ASSUME StateOK, NEW t \in Tasks, lock' = lock, TablesOK', CacheOK',
         pc' \in [Tasks -> PCs], job' \in [Tasks -> Jobs],
         \A u \in Tasks \ {t} : pc'[u] = pc[u] /\ job'[u].misses = job[u].misses,
         pc[t] \notin Waiting, pc'[t] \notin Waiting \cup {"falling"}
  PROVE  StateOK'
<1>1. LockOK'
  BY LockKept DEF StateOK
<1>2. Seeking'
  BY DEF StateOK, Seeking, Waiting
<1> QED
  BY <1>1, <1>2 DEF StateOK, TasksOK

(* A write of the bucket makes what others read old, and no more.            *)
LEMMA UnlockedType ==
  ASSUME TasksOK
  PROVE  /\ Unlocked(job) \in [Tasks -> Jobs]
         /\ \A u \in Tasks : /\ Unlocked(job)[u].level = job[u].level
                             /\ Unlocked(job)[u].misses = job[u].misses
<1>1. \A u \in Tasks : [job[u] EXCEPT !.fresh = FALSE] \in Jobs
  BY DEF TasksOK, Jobs
<1> QED
  BY <1>1 DEF Unlocked, TasksOK, Jobs

(* The slow path.                                                            *)
LEMMA ClientFollows ==
  ASSUME StateOK, ParamsInv, TtlInv, NEW c \in Clients, Client(c)
  PROVE  StateOK' /\ ParamsInv' /\ TtlInv'
<1>0. /\ c \in Tasks /\ c \notin Admins /\ TablesOK /\ CacheOK /\ TasksOK
      /\ job[c] \in Jobs /\ job[c].limits \in Configs
      /\ config \in [Levels -> Configs] /\ item.exists \in BOOLEAN
  BY ConfigAssumption DEF StateOK, TasksOK, TablesOK, Tasks, Jobs
<1>1. CASE Begin(c)
  <2>1. pc' \in [Tasks -> PCs] /\ pc'[c] = "resolving" /\ pc[c] = "idle" /\ job' = job
        /\ \A u \in Tasks \ {c} : pc'[u] = pc[u]
    BY <1>0, <1>1 DEF Begin, Goto, TasksOK, PCs
  <2>2. UNCHANGED <<config, replica, cache, lock, item, changes, strayed>>
    BY <1>1 DEF Begin
  <2>3. StateOK'
    BY <1>0, <2>1, <2>2, TaskMoves DEF TablesOK, CacheOK, TasksOK, Waiting
  <2> QED
    BY <1>0, <2>1, <2>2, <2>3, OthersPending, FollowsKept
<1>2. CASE Refuse(c) \/ WriteFails(c)
  <2>1. TasksOK' /\ pc'[c] = "idle" /\ \A u \in Tasks \ {c} : pc'[u] = pc[u] /\ job'[u] = job[u]
    BY <1>0, <1>2, DoneType DEF Refuse, WriteFails
  <2>2. UNCHANGED <<config, replica, cache, lock, item, changes, strayed>> /\ pc[c] \in {"resolved", "writing"}
    BY <1>2 DEF Refuse, WriteFails
  <2>3. StateOK'
    BY <1>0, <2>1, <2>2, TaskMoves DEF TablesOK, CacheOK, TasksOK, Waiting
  <2> QED
    BY <1>0, <2>1, <2>2, <2>3, OthersPending, FollowsKept
<1>3. CASE \E first \in Names : Read(c, first)
  <2>1. PICK first \in Names : Read(c, first)
    BY <1>3
  <2> DEFINE j == [job[c] EXCEPT !.new = ~(item.exists /\ Configured(job[c].limits) \cap item.names # {}),
                                 !.fresh = item.exists /\ first \in item.names]
  <2>2. job' = [job EXCEPT ![c] = j] /\ pc[c] = "resolved" /\ Goto(c, "writing")
        /\ UNCHANGED <<config, replica, cache, lock, item, changes, strayed>>
    BY <2>1 DEF Read
  <2>3. j \in Jobs
    BY <1>0 DEF Jobs
  <2> HIDE DEF j
  <2>4. job' \in [Tasks -> Jobs] /\ pc' \in [Tasks -> PCs] /\ pc'[c] = "writing"
        /\ \A u \in Tasks \ {c} : pc'[u] = pc[u] /\ job'[u] = job[u]
    BY <1>0, <2>2, <2>3 DEF TasksOK, Goto, PCs
  <2>5. StateOK'
    BY <1>0, <2>2, <2>4, TaskMoves DEF TablesOK, CacheOK, Waiting
  <2> QED
    BY <1>0, <2>2, <2>4, <2>5, OthersPending, FollowsKept
<1>4. ASSUME Goto(c, "idle"), job' = [Unlocked(job) EXCEPT ![c] = NoJob], pc[c] = "writing",
             UNCHANGED <<replica, cache, lock, changes, config>>,
             item' \in [exists : BOOLEAN, names : SUBSET Names, cp : Configs, ttl : {"none", "running", "over"}],
             strayed' \in [params : BOOLEAN, ttl : BOOLEAN]
      PROVE  StateOK' /\ \A u \in Tasks \ {c} : pc'[u] = pc[u] /\ job'[u].level = job[u].level
  <2>1. pc' \in [Tasks -> PCs] /\ pc'[c] = "idle" /\ job' \in [Tasks -> Jobs]
        /\ \A u \in Tasks \ {c} : /\ pc'[u] = pc[u] /\ job'[u].level = job[u].level
                                  /\ job'[u].misses = job[u].misses
    BY <1>0, <1>4, UnlockedType, NoJobType DEF TasksOK, Goto, PCs
  <2>2. StateOK'
    BY <1>0, <1>4, <2>1, TaskMoves DEF TablesOK, CacheOK, Waiting
  <2> QED
    BY <2>1, <2>2
<1>5. CASE Create(c)
  <2>1. /\ Goto(c, "idle") /\ job' = [Unlocked(job) EXCEPT ![c] = NoJob] /\ pc[c] = "writing"
        /\ UNCHANGED <<replica, cache, lock, changes, config>>
        /\ item' = [exists |-> TRUE, names |-> Configured(job[c].limits), cp |-> job[c].limits,
                    ttl |-> TtlOf(job[c].source)]
        /\ strayed' = [params |-> job[c].limits # Effective(config),
                       ttl |-> TtlOf(job[c].source) # TtlOf(Source(config))]
    BY <1>5 DEF Create
  <2>2. TtlOf(job[c].source) \in {"none", "running"} /\ Configured(job[c].limits) \in SUBSET Names
    BY DEF TtlOf, Configured
  <2>3. item' \in [exists : BOOLEAN, names : SUBSET Names, cp : Configs, ttl : {"none", "running", "over"}]
        /\ strayed' \in [params : BOOLEAN, ttl : BOOLEAN]
    BY <1>0, <2>1, <2>2
  <2>4. StateOK'
    BY <1>4, <2>1, <2>3
  <2>5. ParamsInv' /\ TtlInv'
    BY <1>0, <2>1, <2>2, FollowsWritten
  <2> QED
    BY <2>4, <2>5
<1>6. CASE WriteNormal(c)
  <2>1. /\ Goto(c, "idle") /\ job' = [Unlocked(job) EXCEPT ![c] = NoJob] /\ pc[c] = "writing"
        /\ UNCHANGED <<replica, cache, lock, changes, config>>
        /\ item' = [item EXCEPT !.names = @ \cup Configured(job[c].limits), !.ttl = TtlOf(job[c].source)]
        /\ strayed' = [strayed EXCEPT !.ttl = TtlOf(job[c].source) # TtlOf(Source(config))]
    BY <1>6 DEF WriteNormal
  <2>2. TtlOf(job[c].source) \in {"none", "running"} /\ Configured(job[c].limits) \in SUBSET Names
    BY DEF TtlOf, Configured
  <2>3. /\ item' \in [exists : BOOLEAN, names : SUBSET Names, cp : Configs, ttl : {"none", "running", "over"}]
        /\ strayed' \in [params : BOOLEAN, ttl : BOOLEAN]
        /\ item'.exists = item.exists /\ item'.cp = item.cp /\ item'.ttl = TtlOf(job[c].source)
        /\ strayed'.params = strayed.params /\ strayed'.ttl = (TtlOf(job[c].source) # TtlOf(Source(config)))
    BY <1>0, <2>1, <2>2 DEF TablesOK
  <2>4. StateOK' /\ \A u \in Tasks \ {c} : pc'[u] = pc[u] /\ job'[u].level = job[u].level
    BY <1>4, <2>1, <2>3
  <2>5. ParamsInv'
    <3>1. \A a \in Admins : Syncs(a) => Syncs(a)'
      BY <1>0, <2>4, OthersPending
    <3> QED
      BY <2>1, <2>3, <3>1 DEF ParamsInv
  <2>6. TtlInv'
    <3>1. Source(config) = "entity" <=> config["entity"] # Empty
      BY <1>0, SourceDecides
    <3> QED
      BY <2>1, <2>3, <3>1 DEF TtlInv, TtlOf
  <2> QED
    BY <2>4, <2>5, <2>6
<1> QED
  BY <1>1, <1>2, <1>3, <1>5, <1>6 DEF Client

(* The administrators' write of the bucket.                                  *)
LEMMA SyncBucketEffect ==
  ASSUME TablesOK, NEW limits \in Configs, NEW ttl \in {"none", "running"}, NEW stale,
         SyncBucket(limits, ttl, stale)
  PROVE  /\ item' \in [exists : BOOLEAN, names : SUBSET Names, cp : Configs, ttl : {"none", "running", "over"}]
         /\ strayed' \in [params : BOOLEAN, ttl : BOOLEAN]
         /\ \/ ~item'.exists
            \/ /\ \A n \in Configured(limits) : item'.cp[n] = limits[n]
               /\ item'.ttl = ttl
               /\ strayed'.params = (limits # Effective(config))
               /\ strayed'.ttl = (ttl # TtlOf(Source(config)))
<1>1. CASE ~item.exists
  BY <1>1 DEF SyncBucket, TablesOK
<1>2. CASE item.exists
  <2> DEFINE cp == [n \in Names |-> IF limits[n] > 0 THEN limits[n] ELSE IF n \in stale THEN 0 ELSE item.cp[n]]
  <2>1. item' = [item EXCEPT !.cp = cp, !.names = @ \ stale, !.ttl = ttl]
    BY <1>2 DEF SyncBucket, Synced
  <2>2. cp \in Configs
    BY ConfigAssumption DEF TablesOK, Configs
  <2>3. \A n \in Configured(limits) : cp[n] = limits[n]
    BY DEF Configured
  <2>4. strayed' = [params |-> limits # Effective(config), ttl |-> ttl # TtlOf(Source(config))]
    BY <1>2 DEF SyncBucket
  <2> HIDE DEF cp
  <2> QED
    BY <2>1, <2>2, <2>3, <2>4 DEF TablesOK
<1> QED
  BY <1>1, <1>2

(* An administrator's call.                                                  *)
LEMMA AdminFollows ==
  ASSUME StateOK, ParamsInv, TtlInv, NEW a \in Admins, Admin(a)
  PROVE  StateOK' /\ ParamsInv' /\ TtlInv'
<1>0. /\ a \in Tasks /\ TablesOK /\ CacheOK /\ TasksOK
      /\ job[a] \in Jobs /\ job[a].limits \in Configs /\ job[a].to \in Configs /\ job[a].level \in Levels
      /\ config \in [Levels -> Configs] /\ replica \in [Levels -> Configs] /\ item.exists \in BOOLEAN
      /\ changes \in Nat /\ Empty \in Configs /\ Settable \subseteq Configs /\ "entity" \in Levels
      /\ ProcessOf[a] \in Processes
  BY ConfigAssumption, EntityFirst DEF StateOK, TasksOK, TablesOK, Tasks, Jobs
<1>1. ASSUME NEW p \in PCs, Goto(a, p), pc[a] \notin Waiting, p \notin Waiting \cup {"falling"},
             NEW j \in Jobs, job' = [job EXCEPT ![a] = j], lock' = lock, TablesOK', CacheOK'
      PROVE  /\ StateOK' /\ pc'[a] = p /\ job'[a] = j
             /\ \A u \in Tasks \ {a} : pc'[u] = pc[u] /\ job'[u].level = job[u].level
  <2>1. pc' \in [Tasks -> PCs] /\ pc'[a] = p /\ job' \in [Tasks -> Jobs] /\ job'[a] = j
        /\ \A u \in Tasks \ {a} : pc'[u] = pc[u] /\ job'[u] = job[u]
    BY <1>0, <1>1 DEF TasksOK, Goto
  <2> QED
    BY <1>0, <1>1, <2>1, TaskMoves
<1>2. ASSUME NEW l \in Levels, NEW c \in Settable, SetLimits(a, l, c)
      PROVE  StateOK' /\ ParamsInv' /\ TtlInv'
  <2> DEFINE j == [job[a] EXCEPT !.level = l, !.to = c]
             p == IF config[l] = Empty THEN "syncing" ELSE "overwriting"
  <2>1. /\ Goto(a, p) /\ job' = [job EXCEPT ![a] = j] /\ pc[a] = "idle"
        /\ UNCHANGED <<replica, cache, lock, item, strayed>> /\ changes' = changes + 1
        /\ config' = IF config[l] = Empty THEN [config EXCEPT ![l] = c] ELSE config
    BY <1>2 DEF SetLimits, Call
  <2>2. j \in Jobs /\ j.level = l /\ p \in PCs /\ p \notin Waiting \cup {"falling"}
    BY <1>0 DEF Jobs, PCs, Waiting
  <2>3. TablesOK' /\ CacheOK'
    BY <1>0, <2>1 DEF TablesOK, CacheOK
  <2> HIDE DEF j
  <2>4. StateOK' /\ pc'[a] = p /\ job'[a] = j /\ \A u \in Tasks \ {a} : pc'[u] = pc[u] /\ job'[u].level = job[u].level
    BY <2>1, <2>2, <2>3, <1>1 DEF Waiting
  <2>5. CASE config["entity"] = config'["entity"]
    <3>1. ~Syncs(a) /\ ~Settles(a)
      BY <2>1 DEF Syncs, Settles
    <3> QED
      BY <1>0, <2>1, <2>4, <2>5, <3>1, OthersPending, FollowsKept
  <2>6. CASE config["entity"] # config'["entity"]
    <3>1. l = "entity" /\ config[l] = Empty
      BY <1>0, <2>1, <2>6
    <3>2. Syncs(a)' /\ Settles(a)'
      BY <2>2, <2>4, <3>1 DEF Syncs, Settles
    <3> QED
      BY <2>4, <3>2 DEF ParamsInv, TtlInv
  <2> QED
    BY <2>5, <2>6
<1>3. ASSUME NEW l \in Levels, NEW d \in Configs, l \notin {"entity", "entity_default"}, Call(a),
             config' = [config EXCEPT ![l] = d], UNCHANGED <<replica, cache, lock, item, pc, job, strayed>>
      PROVE  StateOK' /\ ParamsInv' /\ TtlInv'
  <2>1. TablesOK' /\ config'["entity"] = config["entity"]
    BY <1>0, <1>3 DEF TablesOK, Call
  <2>2. StateOK'
    BY <1>3, <2>1 DEF StateOK, LockOK, CacheOK, TasksOK, Seeking
  <2>3. \A b \in Admins : Syncs(b)' = Syncs(b) /\ Settles(b)' = Settles(b)
    BY <1>3 DEF Syncs, Settles
  <2> QED
    BY <1>3, <2>1, <2>2, <2>3, FollowsKept
<1>4. ASSUME NEW l \in Levels, NEW c \in Settable \cup {Empty}, ReadOld(a, l, c)
      PROVE  StateOK' /\ ParamsInv' /\ TtlInv'
  <2> DEFINE j == [job[a] EXCEPT !.level = l, !.to = c]
  <2>1. /\ Goto(a, "deleting") /\ job' = [job EXCEPT ![a] = j] /\ pc[a] = "idle"
        /\ UNCHANGED <<config, replica, cache, lock, item, strayed>> /\ changes' = changes + 1
    BY <1>4 DEF ReadOld, Call
  <2>2. j \in Jobs /\ "deleting" \in PCs
    BY <1>0 DEF Jobs, PCs
  <2>3. TablesOK' /\ CacheOK'
    BY <1>0, <2>1 DEF TablesOK, CacheOK
  <2> HIDE DEF j
  <2>4. StateOK' /\ \A u \in Tasks \ {a} : pc'[u] = pc[u] /\ job'[u].level = job[u].level
    BY <2>1, <2>2, <2>3, <1>1 DEF Waiting
  <2>5. ~Syncs(a) /\ ~Settles(a)
    BY <2>1 DEF Syncs, Settles
  <2> QED
    BY <1>0, <2>1, <2>4, <2>5, OthersPending, FollowsKept
<1>5. CASE Overwrite(a)
  <2>1. /\ Goto(a, "syncing") /\ job' = [job EXCEPT ![a] = job[a]] /\ pc[a] = "overwriting"
        /\ config' = [config EXCEPT ![job[a].level] = job[a].to]
        /\ UNCHANGED <<replica, cache, lock, item, changes, strayed>>
    BY <1>0, <1>5 DEF Overwrite, TasksOK
  <2>2. TablesOK' /\ CacheOK'
    BY <1>0, <2>1 DEF TablesOK, CacheOK
  <2>3. StateOK' /\ pc'[a] = "syncing" /\ job'[a] = job[a] /\ \A u \in Tasks \ {a} : pc'[u] = pc[u] /\ job'[u].level = job[u].level
    BY <1>0, <2>1, <2>2, <1>1 DEF Waiting, PCs
  <2>4. CASE job[a].level = "entity"
    <3>1. Syncs(a)' /\ Settles(a)'
      BY <2>3, <2>4 DEF Syncs, Settles
    <3> QED
      BY <2>3, <3>1 DEF ParamsInv, TtlInv
  <2>5. CASE job[a].level # "entity"
    <3>1. ~Syncs(a) /\ ~Settles(a) /\ config'["entity"] = config["entity"]
      BY <1>0, <2>1, <2>5 DEF Syncs, Settles
    <3> QED
      BY <1>0, <2>1, <2>3, <3>1, OthersPending, FollowsKept
  <2> QED
    BY <2>4, <2>5
<1>6. CASE Sync(a)
  <2>1. /\ Goto(a, "evicting") /\ job' = [job EXCEPT ![a] = job[a]] /\ pc[a] = "syncing"
        /\ UNCHANGED <<config, replica, cache, lock, changes>>
    BY <1>0, <1>6 DEF Sync, TasksOK
  <2>2. CASE job[a].level = "entity"
    <3>1. SyncBucket(job[a].to, "none", {})
      BY <1>6, <2>2 DEF Sync
    <3>2. /\ item' \in [exists : BOOLEAN, names : SUBSET Names, cp : Configs, ttl : {"none", "running", "over"}]
          /\ strayed' \in [params : BOOLEAN, ttl : BOOLEAN]
          /\ \/ ~item'.exists
             \/ /\ \A n \in Configured(job[a].to) : item'.cp[n] = job[a].to[n]
                /\ item'.ttl = "none"
                /\ strayed'.params = (job[a].to # Effective(config))
                /\ strayed'.ttl = ("none" # TtlOf(Source(config)))
      BY <1>0, <3>1, SyncBucketEffect
    <3>3. TablesOK' /\ CacheOK'
      BY <1>0, <2>1, <3>2 DEF TablesOK, CacheOK
    <3>4. StateOK'
      BY <1>0, <2>1, <3>3, <1>1 DEF Waiting, PCs
    <3>5. ParamsInv' /\ TtlInv'
      <4>1. CASE ~item'.exists
        BY <4>1 DEF ParamsInv, TtlInv
      <4>2. CASE item'.exists
        BY <1>0, <2>1, <3>2, <4>2, FollowsWritten
      <4> QED
        BY <4>1, <4>2
    <3> QED
      BY <3>4, <3>5
  <2>3. CASE job[a].level # "entity"
    <3>1. UNCHANGED <<item, strayed>>
      BY <1>6, <2>3 DEF Sync
    <3>2. StateOK' /\ \A u \in Tasks \ {a} : pc'[u] = pc[u] /\ job'[u].level = job[u].level
      BY <1>0, <2>1, <3>1, <1>1 DEF Waiting, PCs, TablesOK, CacheOK
    <3>3. ~Syncs(a) /\ ~Settles(a)
      BY <2>3 DEF Syncs, Settles
    <3> QED
      BY <1>0, <2>1, <3>1, <3>2, <3>3, OthersPending, FollowsKept
  <2> QED
    BY <2>2, <2>3
<1>7. ASSUME NEW p \in {"idle", "resolving"}, Goto(a, p), NEW j \in Jobs, job' = [job EXCEPT ![a] = j],
             pc[a] \in {"evicting", "clearing"},
             pc[a] = "clearing" => p = "resolving" /\ j.level = job[a].level,
             cache' = [cache EXCEPT ![ProcessOf[a]][job[a].level] = {}],
             UNCHANGED <<config, replica, lock, item, changes, strayed>>
      PROVE  StateOK' /\ ParamsInv' /\ TtlInv'
  <2>1. CacheOK' /\ TablesOK'
    BY <1>0, <1>7 DEF CacheOK, TablesOK
  <2>2. StateOK' /\ pc'[a] = p /\ job'[a] = j /\ \A u \in Tasks \ {a} : pc'[u] = pc[u] /\ job'[u].level = job[u].level
    BY <1>7, <2>1, <1>1 DEF Waiting, PCs
  <2>3. ~Syncs(a) /\ (Settles(a) => Settles(a)')
    BY <1>7, <2>2 DEF Syncs, Settles
  <2> QED
    BY <1>0, <1>7, <2>2, <2>3, OthersPending, FollowsKept
<1>8. CASE Evict(a)
  BY <1>7, <1>8, NoJobType DEF Evict, Done
<1>9. CASE ClearCache(a)
  <2>1. job' = [job EXCEPT ![a] = job[a]]
    BY <1>0, <1>9 DEF ClearCache, TasksOK
  <2> QED
    BY <1>0, <1>7, <1>9, <2>1 DEF ClearCache
<1>10. CASE Delete(a)
  <2> DEFINE p == IF config[job[a].level] = Empty THEN "resolving" ELSE "clearing"
  <2>1. /\ Goto(a, p) /\ job' = [job EXCEPT ![a] = job[a]] /\ pc[a] = "deleting"
        /\ config' = [config EXCEPT ![job[a].level] = Empty]
        /\ UNCHANGED <<replica, cache, lock, item, changes, strayed>>
    BY <1>0, <1>10 DEF Delete, TasksOK
  <2>2. TablesOK' /\ CacheOK'
    BY <1>0, <2>1 DEF TablesOK, CacheOK
  <2>3. StateOK' /\ pc'[a] = p /\ job'[a] = job[a] /\ \A u \in Tasks \ {a} : pc'[u] = pc[u] /\ job'[u].level = job[u].level
    BY <1>0, <2>1, <2>2, <1>1 DEF Waiting, PCs
  <2>4. CASE job[a].level = "entity"
    <3>1. Settles(a)' /\ config'["entity"] = Empty
      BY <1>0, <2>1, <2>3, <2>4 DEF Settles
    <3> QED
      BY <2>3, <3>1 DEF ParamsInv, TtlInv
  <2>5. CASE job[a].level # "entity"
    <3>1. ~Syncs(a) /\ ~Settles(a) /\ config'["entity"] = config["entity"]
      BY <1>0, <2>1, <2>5 DEF Syncs, Settles
    <3> QED
      BY <1>0, <2>1, <2>3, <3>1, OthersPending, FollowsKept
  <2> QED
    BY <2>4, <2>5
<1>11. CASE Reconcile(a)
  <2>1. Done(a) /\ pc[a] = "resolved" /\ UNCHANGED <<config, replica, cache, lock, changes>>
    BY <1>11 DEF Reconcile
  <2>2. Goto(a, "idle") /\ job' = [job EXCEPT ![a] = NoJob]
    BY <2>1 DEF Done
  <2>3. CASE job[a].level = "entity"
    <3> DEFINE stale == Configured(job[a].to) \ Configured(job[a].limits)
    <3>1. SyncBucket(job[a].limits, "running", stale)
      BY <1>11, <2>3 DEF Reconcile
    <3> HIDE DEF stale
    <3>2. /\ item' \in [exists : BOOLEAN, names : SUBSET Names, cp : Configs, ttl : {"none", "running", "over"}]
          /\ strayed' \in [params : BOOLEAN, ttl : BOOLEAN]
          /\ \/ ~item'.exists
             \/ /\ \A n \in Configured(job[a].limits) : item'.cp[n] = job[a].limits[n]
                /\ item'.ttl = "running"
                /\ strayed'.params = (job[a].limits # Effective(config))
                /\ strayed'.ttl = ("running" # TtlOf(Source(config)))
      BY <1>0, <3>1, SyncBucketEffect
    <3>3. TablesOK' /\ CacheOK'
      BY <1>0, <2>1, <3>2 DEF TablesOK, CacheOK
    <3>4. StateOK'
      BY <2>1, <2>2, <3>3, <1>1, NoJobType DEF Waiting, PCs
    <3>5. ParamsInv' /\ TtlInv'
      <4>1. CASE ~item'.exists
        BY <4>1 DEF ParamsInv, TtlInv
      <4>2. CASE item'.exists
        BY <1>0, <2>1, <3>2, <4>2, FollowsWritten
      <4> QED
        BY <4>1, <4>2
    <3> QED
      BY <3>4, <3>5
  <2>4. CASE job[a].level # "entity"
    <3>1. UNCHANGED <<item, strayed>>
      BY <1>11, <2>4 DEF Reconcile
    <3>2. TablesOK' /\ CacheOK'
      BY <1>0, <2>1, <3>1 DEF TablesOK, CacheOK
    <3>3. StateOK' /\ \A u \in Tasks \ {a} : pc'[u] = pc[u] /\ job'[u].level = job[u].level
      BY <2>1, <2>2, <3>2, <1>1, NoJobType DEF Waiting, PCs
    <3>4. ~Syncs(a) /\ ~Settles(a)
      BY <2>4 DEF Syncs, Settles
    <3> QED
      BY <1>0, <2>1, <3>1, <3>3, <3>4, OthersPending, FollowsKept
  <2> QED
    BY <2>3, <2>4
<1>12. CASE \E l \in Levels, c \in Settable : SetLimits(a, l, c) \/ SetDefaults(a, l, c)
  BY <1>0, <1>2, <1>3, <1>12 DEF SetDefaults
<1>13. CASE \E l \in Levels, c \in Settable \cup {Empty} : ReadOld(a, l, c)
  BY <1>4, <1>13
<1>14. CASE \E l \in Levels : DeleteDefaults(a, l)
  BY <1>0, <1>3, <1>14 DEF DeleteDefaults
<1> QED
  BY <1>5, <1>6, <1>8, <1>9, <1>10, <1>11, <1>12, <1>13, <1>14 DEF Admin

-------------------------------------------------------------------------------
(* The theorems *)

(* The invariant holds at the start.                                         *)
LEMMA IInvInit == Init => IInv
<1> SUFFICES ASSUME Init
             PROVE  IInv
  OBVIOUS
<1>1. config \in [Levels -> Configs] /\ replica = config
  BY ConfigAssumption DEF Init
<1>2. NoJob \in Jobs /\ Empty \in Configs /\ NoItem.exists = FALSE
  BY NoJobType, EntityFirst DEF NoItem
<1>3. TablesOK
  BY <1>1, <1>2 DEF Init, TablesOK, NoItem, AsConfigured
<1>4. LockOK /\ CacheOK /\ TasksOK /\ Seeking
  BY <1>2 DEF Init, LockOK, CacheOK, TasksOK, Seeking, Waiting, PCs
<1>5. ParamsInv /\ TtlInv
  BY <1>2 DEF Init, ParamsInv, TtlInv
<1> QED
  BY <1>3, <1>4, <1>5, StateParts DEF StateOK, IInv

(* Every step keeps its parts.                                               *)
LEMMA PartsStep == IInv /\ [Next]_vars => StateOK' /\ ParamsInv' /\ TtlInv'
<1> SUFFICES ASSUME IInv, [Next]_vars
             PROVE  StateOK' /\ ParamsInv' /\ TtlInv'
  OBVIOUS
<1>0. StateOK /\ ParamsInv /\ TtlInv /\ TablesOK /\ CacheOK /\ TasksOK
  BY StateParts DEF IInv, StateOK
<1>1. ASSUME TablesOK', CacheOK', UNCHANGED <<config, lock, pc, strayed>>,
             job' \in [Tasks -> Jobs],
             \A t \in Tasks : job'[t].level = job[t].level /\ job'[t].misses = job[t].misses,
             item'.exists => item.exists /\ item'.cp = item.cp /\ (item'.ttl = "none" <=> item.ttl = "none")
      PROVE  StateOK' /\ ParamsInv' /\ TtlInv'
  <2>1. StateOK'
    BY <1>0, <1>1 DEF StateOK, LockOK, TasksOK, Seeking
  <2>2. \A a \in Admins : Syncs(a)' = Syncs(a) /\ Settles(a)' = Settles(a)
    BY <1>1 DEF Syncs, Settles, Tasks
  <2> QED
    BY <1>0, <1>1, <2>1, <2>2, FollowsKept
<1>2. CASE UNCHANGED vars
  BY <1>0, <1>1, <1>2 DEF vars, TablesOK, CacheOK, TasksOK
<1>3. CASE \E t \in Tasks : Resolve(t)
  BY <1>0, <1>3, ResolveFollows
<1>4. CASE \E c \in Clients : Client(c)
  BY <1>0, <1>4, ClientFollows
<1>5. CASE \E a \in Admins : Admin(a)
  BY <1>0, <1>5, AdminFollows
<1>6. ASSUME NEW p \in Processes, NEW l \in Levels, Expire(p, l)
      PROVE  StateOK' /\ ParamsInv' /\ TtlInv'
  BY <1>0, <1>1, <1>6 DEF Expire, TablesOK, CacheOK, TasksOK
<1>7. ASSUME NEW l \in Levels, Replicate(l)
      PROVE  StateOK' /\ ParamsInv' /\ TtlInv'
  BY <1>0, <1>1, <1>7 DEF Replicate, TablesOK, CacheOK, TasksOK
<1>8. CASE TtlRunsOut
  <2>1. /\ item' \in [exists : BOOLEAN, names : SUBSET Names, cp : Configs, ttl : {"none", "running", "over"}]
        /\ item'.exists = item.exists /\ item'.cp = item.cp /\ item.ttl # "none" /\ item'.ttl # "none"
    BY <1>0, <1>8 DEF TtlRunsOut, TablesOK
  <2> QED
    BY <1>0, <1>1, <1>8, <2>1 DEF TtlRunsOut, TablesOK, CacheOK, TasksOK
<1>9. CASE Reap
  <2>1. /\ item' = NoItem /\ ~item'.exists /\ strayed' = AsConfigured /\ job' = Unlocked(job)
        /\ UNCHANGED <<config, replica, cache, lock, pc, changes>>
    BY <1>9 DEF Reap, NoItem
  <2>2. TablesOK' /\ CacheOK'
    BY <1>0, <2>1, EntityFirst DEF TablesOK, CacheOK, NoItem, AsConfigured
  <2>3. StateOK'
    BY <1>0, <2>1, <2>2, UnlockedType DEF StateOK, LockOK, TasksOK, Seeking
  <2> QED
    BY <2>1, <2>3 DEF ParamsInv, TtlInv
<1> QED
  BY <1>2, <1>3, <1>4, <1>5, <1>6, <1>7, <1>8, <1>9 DEF Next

(* Every step keeps it.                                                      *)
LEMMA IInvStep == IInv /\ [Next]_vars => IInv'
<1> SUFFICES ASSUME IInv, [Next]_vars
             PROVE  IInv'
  OBVIOUS
<1>1. StateOK' /\ ParamsInv' /\ TtlInv'
  BY PartsStep
<1>2. TablesOK' /\ CacheOK' /\ LockOK' /\ TasksOK' /\ Seeking'
  BY <1>1 DEF StateOK
<1>3. TypeOK'
  BY <1>2 DEF TypeOK, TablesOK, CacheOK, LockOK, TasksOK, Waiting
<1> QED
  BY <1>1, <1>2, <1>3 DEF IInv

(* The invariant is one.                                                     *)
THEOREM InvCorrect == Spec => []IInv
<1> QED
  BY IInvInit, IInvStep, PTL DEF Spec

(* The types, and: a process's cache is locked by the one task of it that    *)
(* waits for the table, if any, through failed fetches and fallbacks.        *)
THEOREM TypeCorrect == Spec => []TypeOK
<1>1. IInv => TypeOK
  BY DEF IInv
<1> QED
  BY <1>1, InvCorrect, PTL

(* The bucket has the entity's own limits, whoever wrote it, and in whatever *)
(* order it, the table and the caches were written.                          *)
THEOREM ParamsAlwaysFollow == Spec => []ParamsFollowLimits
<1>1. IInv => ParamsFollowLimits
  BY DEF IInv, ParamsInv, ParamsFollowLimits, AdminsIdle, Syncs
<1> QED
  BY <1>1, InvCorrect, PTL

(* The bucket expires exactly if its limits are not the entity's own.        *)
THEOREM TtlAlwaysFollows == Spec => []TtlFollowsSource
<1>1. ASSUME IInv
      PROVE  TtlFollowsSource
  <2>1. Source(config) = "entity" <=> config["entity"] # Empty
    BY <1>1, SourceDecides DEF IInv, TypeOK
  <2> QED
    BY <1>1, <2>1 DEF IInv, TtlInv, TtlFollowsSource, AdminsIdle, Settles
<1>2. IInv => TtlFollowsSource
  BY <1>1
<1> QED
  BY <1>2, InvCorrect, PTL
===============================================================================
