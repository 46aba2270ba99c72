----------------------------- MODULE EntityRecords -----------------------------
(***************************************************************************)
(* The records of one entity: its META item, its limit configuration for   *)
(* each resource with the registry that counts them, and the cascade       *)
(* fields copied from META onto its bucket items and into the entity       *)
(* caches of processes.  Administrators create and delete the entity and   *)
(* its configurations, the provisioner applies manifests, clients acquire; *)
(* each takes several steps, and only some of these are transactions.      *)
(*                                                                         *)
(* What a configuration says is LimitConfig's, what an acquire consumes    *)
(* Cascade's: here a hit of a speculative write only shows whether it took *)
(* the parent along.  One invocation of the provisioner at a time.         *)
(***************************************************************************)
EXTENDS Integers, FiniteSets

CONSTANTS
  Resources,
  Admins,       \* tasks that administer
  Clients,      \* tasks that acquire, each in a process of its own
  Invocations,  \* bound on invocations of the provisioner
  MaxCalls,     \* bound on calls of administrators
  MaxFaults     \* bound on failed writes and deaths of the provisioner

ASSUME EntityAssumption ==
  /\ IsFiniteSet(Resources)
  /\ Admins \cap Clients = {}
  /\ {Invocations, MaxCalls, MaxFaults} \subseteq Nat

VARIABLES
  meta,      \* the META item: "none", without ("plain") or with ("cascading") a parent
  config,    \* [resource -> who wrote its configuration last, "none" without one]
  registry,  \* [resource -> its count in the registry, 0 without one]
  bucket,    \* [resource -> the copy of META's cascade on its bucket item]
  indexed,   \* the resources whose bucket item the index GSI3 already shows
  cached,    \* [client -> cascade in its process's entity cache]
  hit,       \* [client -> what its last speculative hit consumed from]
  call,      \* [task -> what it is doing]
  managed,   \* the provisioner's state record
  run,       \* the invocation of the provisioner
  calls,     \* history: calls of administrators so far
  faults,    \* history: failures so far
  unpaired   \* history: resources whose configuration was put, or removed, without
             \* its count

vars == <<meta, config, registry, bucket, indexed, cached, hit, call, managed, run, calls,
          faults, unpaired>>

records == <<meta, config, registry, bucket, indexed>>
history == <<calls, faults, unpaired>>

------------------------------------------------------------------------------
Copies == {"none", "plain", "cascading"}
Idle == [pc |-> "idle", of |-> {}]
NoRun == [pc |-> "idle", manifest |-> {}, left |-> {}, count |-> 0]

\* The records of the entity, as delete_entity finds them.
Records ==
  {<<"meta">>} \cup {<<"config", r>> : r \in Resources} \cup {<<"bucket", r>> : r \in Resources}
Found ==
  (IF meta = "none" THEN {} ELSE {<<"meta">>})
    \cup {<<"config", r>> : r \in {x \in Resources : config[x] # "none"}}
    \cup {<<"bucket", r>> : r \in indexed}

\* What a reader of META remembers: no META is no cascade.
AsRead == IF meta = "cascading" THEN "cascading" ELSE "plain"

Start(t, pc, of) == call' = [call EXCEPT ![t] = [pc |-> pc, of |-> of]]
Done(t) == call' = [call EXCEPT ![t] = Idle]

Init ==
  /\ meta = "none"
  /\ config = [r \in Resources |-> "none"]
  /\ registry = [r \in Resources |-> 0]
  /\ bucket = [r \in Resources |-> "none"]
  /\ indexed = {}
  /\ cached = [c \in Clients |-> "none"]
  /\ hit = [c \in Clients |-> "none"]
  /\ call = [t \in Admins \cup Clients |-> Idle]
  /\ managed = {}
  /\ run = NoRun
  /\ calls = 0
  /\ faults = 0
  /\ unpaired = {}

------------------------------------------------------------------------------
(* Administrators *)

Called(a) ==
  /\ call[a] = Idle
  /\ calls < MaxCalls
  /\ calls' = calls + 1

\* EntityExistsError otherwise, with nothing changed.
CreateEntity(a, kind) ==
  /\ Called(a)
  /\ meta = "none"
  /\ kind \in {"plain", "cascading"}
  /\ meta' = kind
  /\ UNCHANGED <<config, registry, bucket, indexed, cached, hit, call, managed, run, faults, unpaired>>

\* set_limits: a transaction creates the configuration and counts it, ...
SetLimits(a, r) ==
  /\ Called(a)
  /\ IF config[r] = "none"
       THEN /\ config' = [config EXCEPT ![r] = "admin"]
            /\ registry' = [registry EXCEPT ![r] = @ + 1]
            /\ UNCHANGED call
       ELSE /\ Start(a, "putting", {<<"config", r>>})
            /\ UNCHANGED <<config, registry>>
  /\ UNCHANGED <<meta, bucket, indexed, cached, hit, managed, run, faults, unpaired>>

\* ... or finds one, which is then put again whether it still exists or not.
PutLimits(a, r) ==
  /\ call[a] = [pc |-> "putting", of |-> {<<"config", r>>}]
  /\ config' = [config EXCEPT ![r] = "admin"]
  /\ unpaired' = IF config[r] = "none" THEN unpaired \cup {r} ELSE unpaired
  /\ Done(a)
  /\ UNCHANGED <<meta, registry, bucket, indexed, cached, hit, managed, run, calls, faults>>

\* delete_limits; without a configuration nothing happens.
DeleteLimits(a, r) ==
  /\ Called(a)
  /\ config[r] # "none"
  /\ config' = [config EXCEPT ![r] = "none"]
  /\ registry' = [registry EXCEPT ![r] = @ - 1]
  /\ Start(a, "cleaning", {<<"config", r>>})
  /\ UNCHANGED <<meta, bucket, indexed, cached, hit, managed, run, faults, unpaired>>

\* Mutant: the count is removed whatever it is.
CleanUpAnyway(a, r) ==
  /\ call[a] = [pc |-> "cleaning", of |-> {<<"config", r>>}]
  /\ registry' = [registry EXCEPT ![r] = 0]
  /\ Done(a)
  /\ UNCHANGED <<meta, config, bucket, indexed, cached, hit, managed, run>>
  /\ UNCHANGED history

\* _cleanup_entity_config_registry removes a count that is not positive.
CleanUp(a, r) ==
  /\ call[a] = [pc |-> "cleaning", of |-> {<<"config", r>>}]
  /\ registry' = [registry EXCEPT ![r] = IF @ <= 0 THEN 0 ELSE @]
  /\ Done(a)
  /\ UNCHANGED <<meta, config, bucket, indexed, cached, hit, managed, run>>
  /\ UNCHANGED history

\* delete_entity queries the entity's items and, through the index, its buckets; ...
QueryEntity(a) ==
  /\ Called(a)
  /\ Found # {}
  /\ Start(a, "deleting", Found)
  /\ UNCHANGED records
  /\ UNCHANGED <<cached, hit, managed, run, faults, unpaired>>

\* ... and deletes each, by key and without a condition.
DeleteRecord(a, x) ==
  /\ call[a].pc = "deleting"
  /\ x \in call[a].of
  /\ meta' = IF x = <<"meta">> THEN "none" ELSE meta
  /\ config' = [r \in Resources |-> IF x = <<"config", r>> THEN "none" ELSE config[r]]
  /\ bucket' = [r \in Resources |-> IF x = <<"bucket", r>> THEN "none" ELSE bucket[r]]
  /\ indexed' = {r \in indexed : x # <<"bucket", r>>}
  /\ unpaired' = unpaired \cup {r \in Resources : x = <<"config", r>> /\ config[r] # "none"}
  /\ IF call[a].of = {x} THEN Done(a) ELSE Start(a, "deleting", call[a].of \ {x})
  /\ UNCHANGED <<registry, cached, hit, managed, run, calls, faults>>

\* DynamoDB reports it unprocessed, which nobody looks at.
Unprocessed(a, x) ==
  /\ call[a].pc = "deleting"
  /\ x \in call[a].of
  /\ faults < MaxFaults
  /\ faults' = faults + 1
  /\ IF call[a].of = {x} THEN Done(a) ELSE Start(a, "deleting", call[a].of \ {x})
  /\ UNCHANGED records
  /\ UNCHANGED <<cached, hit, managed, run, calls, unpaired>>

Administer(a) ==
  \/ \E kind \in {"plain", "cascading"} : CreateEntity(a, kind)
  \/ \E r \in Resources :
       SetLimits(a, r) \/ PutLimits(a, r) \/ DeleteLimits(a, r) \/ CleanUp(a, r)
  \/ QueryEntity(a)
  \/ \E x \in Records : DeleteRecord(a, x) \/ Unprocessed(a, x)

------------------------------------------------------------------------------
(* Clients *)

\* A speculative write that hits: the parent goes along, in parallel if the cache
\* says so and after it if the bucket item does.  The cache takes over what
\* the item says.
SpeculativeHit(c, r) ==
  /\ call[c] = Idle
  /\ bucket[r] # "none"
  /\ hit' = [hit EXCEPT ![c] = IF "cascading" \in {cached[c], bucket[r]} THEN "both" ELSE "child"]
  /\ cached' = [cached EXCEPT ![c] = bucket[r]]
  /\ UNCHANGED records
  /\ UNCHANGED <<call, managed, run>>
  /\ UNCHANGED history

\* The slow path reads META with the bucket and goes by META.
ReadEntity(c, r) ==
  /\ call[c] = Idle
  /\ cached' = [cached EXCEPT ![c] = AsRead]
  /\ IF bucket[r] = "none" THEN Start(c, AsRead, {<<"bucket", r>>}) ELSE UNCHANGED call
  /\ UNCHANGED records
  /\ UNCHANGED <<hit, managed, run>>
  /\ UNCHANGED history

\* A new bucket gets a copy for good; if another client was first, its item stays.
CreateBucket(c, r) ==
  /\ call[c].pc \in {"plain", "cascading"}
  /\ call[c].of = {<<"bucket", r>>}
  /\ bucket' = [bucket EXCEPT ![r] = IF @ = "none" THEN call[c].pc ELSE @]
  /\ Done(c)
  /\ UNCHANGED <<meta, config, registry, indexed, cached, hit, managed, run>>
  /\ UNCHANGED history

\* The index follows the table.
Index(r) ==
  /\ bucket[r] # "none" /\ r \notin indexed
  /\ indexed' = indexed \cup {r}
  /\ UNCHANGED <<meta, config, registry, bucket, cached, hit, call, managed, run>>
  /\ UNCHANGED history

\* The ttl of the bucket.
Expire(r) ==
  /\ bucket[r] # "none"
  /\ bucket' = [bucket EXCEPT ![r] = "none"]
  /\ indexed' = indexed \ {r}
  /\ UNCHANGED <<meta, config, registry, cached, hit, call, managed, run>>
  /\ UNCHANGED history

------------------------------------------------------------------------------
(* The limits provisioner *)

\* Mutant: the state is written before the changes are applied.
InvokeStateFirst(manifest) ==
  /\ run.pc = "idle"
  /\ run.count < Invocations
  /\ run' = [pc |-> "applying", manifest |-> manifest, left |-> manifest \cup managed,
             count |-> run.count + 1]
  /\ managed' = manifest
  /\ UNCHANGED records
  /\ UNCHANGED <<cached, hit, call>>
  /\ UNCHANGED history

\* compute_diff: all of the manifest is set, and what the state record has beyond it
\* is deleted, after the rest of its level.
Invoke(manifest) ==
  /\ run.pc = "idle"
  /\ run.count < Invocations
  /\ run' = [pc |-> "applying", manifest |-> manifest, left |-> manifest \cup managed,
             count |-> run.count + 1]
  /\ UNCHANGED records
  /\ UNCHANGED <<cached, hit, call, managed>>
  /\ UNCHANGED history

Sets == run.left \cap run.manifest
Turn(r) == run.pc = "applying" /\ r \in run.left /\ (r \notin Sets => Sets = {})
OneLess(r) == run' = [run EXCEPT !.left = @ \ {r}]

\* Mutant: what is no longer in the manifest is left alone.
ApplySets(r) ==
  /\ Turn(r)
  /\ OneLess(r)
  /\ config' = [config EXCEPT ![r] = IF r \in run.manifest THEN "manifest" ELSE @]
  /\ unpaired' = IF config[r] = "none" /\ r \in run.manifest THEN unpaired \cup {r} ELSE unpaired
  /\ UNCHANGED <<meta, registry, bucket, indexed, cached, hit, call, managed, calls, faults>>

\* _apply_set or _apply_delete: the configuration alone, whoever wrote it.
Apply(r) ==
  /\ Turn(r)
  /\ OneLess(r)
  /\ config' = [config EXCEPT ![r] = IF r \in run.manifest THEN "manifest" ELSE "none"]
  /\ unpaired' = IF (config[r] = "none") = (r \in run.manifest) THEN unpaired \cup {r} ELSE unpaired
  /\ UNCHANGED <<meta, registry, bucket, indexed, cached, hit, call, managed, calls, faults>>

\* The error is collected, and the next change is applied.
ApplyFails(r) ==
  /\ Turn(r)
  /\ OneLess(r)
  /\ faults < MaxFaults
  /\ faults' = faults + 1
  /\ UNCHANGED records
  /\ UNCHANGED <<cached, hit, call, managed, calls, unpaired>>

\* _write_provisioner_state: the manifest, whatever was applied of it.
WriteState ==
  /\ run.pc = "applying"
  /\ run.left = {}
  /\ managed' = run.manifest
  /\ run' = [NoRun EXCEPT !.count = run.count]
  /\ UNCHANGED records
  /\ UNCHANGED <<cached, hit, call>>
  /\ UNCHANGED history

\* The invocation ends without writing its state.
Dies ==
  /\ run.pc = "applying"
  /\ faults < MaxFaults
  /\ faults' = faults + 1
  /\ run' = [NoRun EXCEPT !.count = run.count]
  /\ UNCHANGED records
  /\ UNCHANGED <<cached, hit, call, managed, calls, unpaired>>

\* The manifest of a request: the command line's own, or what CloudFormation gives
\* its custom resource; to delete the resource is to apply an empty one.
Requests == {"apply", "Create", "Update", "Delete"}
ManifestOf(request, given) == IF request = "Delete" THEN {} ELSE given

Provision ==
  \/ \E request \in Requests, given \in SUBSET Resources : Invoke(ManifestOf(request, given))
  \/ \E r \in Resources : Apply(r) \/ ApplyFails(r)
  \/ WriteState
  \/ Dies

------------------------------------------------------------------------------
Next ==
  \/ \E a \in Admins : Administer(a)
  \/ \E c \in Clients, r \in Resources :
       SpeculativeHit(c, r) \/ ReadEntity(c, r) \/ CreateBucket(c, r)
  \/ \E r \in Resources : Index(r) \/ Expire(r)
  \/ Provision

Spec == Init /\ [][Next]_vars

------------------------------------------------------------------------------
(* Properties *)

\* Every variable has the type the code gives it; the index shows no bucket that is not
\* there; what the provisioner has left to do is in its manifest or its state.
TypeOK ==
  /\ meta \in Copies
  /\ config \in [Resources -> {"none", "admin", "manifest"}]
  /\ registry \in [Resources -> Int]
  /\ bucket \in [Resources -> Copies]
  /\ indexed \subseteq {r \in Resources : bucket[r] # "none"}
  /\ cached \in [Clients -> Copies]
  /\ hit \in [Clients -> {"none", "child", "both"}]
  /\ call \in [Admins \cup Clients ->
       [pc : {"idle", "putting", "cleaning", "deleting", "plain", "cascading"}, of : SUBSET Records]]
  /\ managed \subseteq Resources
  /\ run \in [pc : {"idle", "applying"}, manifest : SUBSET Resources, left : SUBSET Resources,
              count : Nat]
  /\ run.left \subseteq run.manifest \cup managed
  /\ calls \in Nat
  /\ faults \in Nat
  /\ unpaired \subseteq Resources

\* The registry has a resource exactly when the entity has a configuration for it,
\* whatever calls of set_limits and delete_limits run at once, the removal of a count
\* after its deletion included; unless a configuration was put or removed by a
\* write that leaves the count alone: the put of a set_limits that raced with a deletion,
\* delete_entity, the provisioner.
RegistryCounts ==
  \A r \in Resources \ unpaired : registry[r] = IF config[r] = "none" THEN 0 ELSE 1

\* As long as no write of it fails, what the provisioner put and nobody replaced is
\* in its state record or in the manifest it is applying: no configuration of its own
\* escapes the next manifest, whatever administrators do meanwhile.
NothingEscapes ==
  faults = 0 => \A r \in Resources : config[r] = "manifest" => r \in managed \cup run.manifest

\* cascade "applies to all acquire() calls for that entity": once META says so, a
\* speculative hit takes the parent along.
HitsCascade ==
  [][\A c \in Clients : hit'[c] # hit[c] /\ meta = "cascading" => hit'[c] = "both"]_vars
==============================================================================
