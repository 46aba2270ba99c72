-------------------------- MODULE EntityRecords_proofs --------------------------
(***************************************************************************)
(* The registry counts what is configured, and the provisioner loses sight *)
(* of nothing it put, proved for any number of resources, administrators   *)
(* and clients, of calls, invocations and failures.                        *)
(***************************************************************************)
EXTENDS EntityRecords, TLAPS

Tasks == Admins \cup Clients
Calls == [pc : {"idle", "putting", "cleaning", "deleting", "plain", "cascading"}, of : SUBSET Records]
Runs == [pc : {"idle", "applying"}, manifest : SUBSET Resources, left : SUBSET Resources, count : Nat]

\* What the provisioner put is covered by the state record between invocations, and
\* by what is left to do or the manifest within one; no invocation, no manifest.
ManifestCovers ==
  /\ run.pc = "idle" => run.manifest = {}
  /\ faults = 0 => \A r \in Resources :
       config[r] = "manifest" =>
         r \in IF run.pc = "applying" THEN run.left \cup run.manifest ELSE managed

Inv == TypeOK /\ RegistryCounts /\ ManifestCovers

-------------------------------------------------------------------------------
(* Types *)

(* Starting and ending a call keep the type of the calls.                    *)
LEMMA CallTypes ==
  ASSUME TypeOK, NEW t \in Tasks
  PROVE  /\ call \in [Tasks -> Calls] /\ run \in Runs
         /\ Done(t) => call' \in [Tasks -> Calls]
         /\ \A pc \in {"putting", "cleaning", "deleting", "plain", "cascading"}, of \in SUBSET Records :
              Start(t, pc, of) => call' \in [Tasks -> Calls]
         /\ \A r \in Resources : {<<"config", r>>} \in SUBSET Records /\ {<<"bucket", r>>} \in SUBSET Records
         /\ Found \in SUBSET Records
<1>1. call \in [Tasks -> Calls] /\ run \in Runs /\ Idle \in Calls
  BY DEF TypeOK, Tasks, Calls, Runs, Idle
<1>2. Done(t) => call' \in [Tasks -> Calls]
  BY <1>1 DEF Done
<1>3. ASSUME NEW pc \in {"putting", "cleaning", "deleting", "plain", "cascading"},
             NEW of \in SUBSET Records, Start(t, pc, of)
      PROVE  call' \in [Tasks -> Calls]
  <2>1. [pc |-> pc, of |-> of] \in Calls
    BY DEF Calls
  <2> QED
    BY <1>1, <1>3, <2>1 DEF Start
<1>4. \A r \in Resources : {<<"config", r>>} \in SUBSET Records /\ {<<"bucket", r>>} \in SUBSET Records
  BY DEF Records
<1>5. Found \in SUBSET Records
  <2>1. indexed \subseteq Resources
    BY DEF TypeOK
  <2> QED
    BY <2>1 DEF Found, Records
<1> QED
  BY <1>1, <1>2, <1>3, <1>4, <1>5

(* The steps of delete_entity keep the type of the calls.                    *)
LEMMA DeletingTypes ==
  ASSUME TypeOK, NEW a \in Tasks, NEW x,
         IF call[a].of = {x} THEN Done(a) ELSE Start(a, "deleting", call[a].of \ {x})
  PROVE  call' \in [Tasks -> Calls]
<1>1. call[a].of \ {x} \in SUBSET Records
  BY CallTypes DEF Calls
<1> QED
  BY <1>1, CallTypes

(* Initial types.                                                            *)
LEMMA TypeInit == Init => TypeOK
BY EntityAssumption DEF Init, TypeOK, Copies, Idle, NoRun, Records

(* An administrator's step keeps the types.                                  *)
LEMMA TypeAdminister ==
  ASSUME TypeOK, NEW a \in Admins, Administer(a)
  PROVE  TypeOK'
<1>0. a \in Tasks /\ call \in [Tasks -> Calls]
  BY CallTypes DEF Tasks
<1> USE <1>0 DEF TypeOK, history, records
<1>1. ASSUME NEW kind \in {"plain", "cascading"}, CreateEntity(a, kind)
      PROVE  TypeOK'
  BY <1>1 DEF CreateEntity, Called, Copies
<1>2. ASSUME call' \in [Tasks -> Calls]
      PROVE  call' \in [Admins \cup Clients ->
       [pc : {"idle", "putting", "cleaning", "deleting", "plain", "cascading"}, of : SUBSET Records]]
  BY <1>2 DEF Tasks, Calls
<1>3. ASSUME NEW r \in Resources, SetLimits(a, r) \/ DeleteLimits(a, r)
      PROVE  TypeOK'
  <2>1. call' \in [Tasks -> Calls]
    BY <1>3, CallTypes DEF SetLimits, DeleteLimits
  <2> QED
    BY <1>2, <1>3, <2>1 DEF SetLimits, DeleteLimits, Called
<1>4. ASSUME NEW r \in Resources, PutLimits(a, r) \/ CleanUp(a, r)
      PROVE  TypeOK'
  <2>1. call' \in [Tasks -> Calls]
    BY <1>4, CallTypes DEF PutLimits, CleanUp
  <2> QED
    BY <1>2, <1>4, <2>1 DEF PutLimits, CleanUp
<1>5. CASE QueryEntity(a)
  <2>1. call' \in [Tasks -> Calls]
    BY <1>5, CallTypes DEF QueryEntity
  <2> QED
    BY <1>2, <1>5, <2>1 DEF QueryEntity, Called
<1>6. ASSUME NEW x \in Records, DeleteRecord(a, x)
      PROVE  TypeOK'
  <2>1. call' \in [Tasks -> Calls]
    BY <1>6, DeletingTypes DEF DeleteRecord
  <2>2. /\ meta' \in Copies /\ config' \in [Resources -> {"none", "admin", "manifest"}]
        /\ bucket' \in [Resources -> Copies]
    BY <1>6 DEF DeleteRecord, Copies
  <2>3. indexed' \subseteq {r \in Resources : bucket'[r] # "none"}
    BY <1>6 DEF DeleteRecord
  <2> QED
    BY <1>2, <1>6, <2>1, <2>2, <2>3 DEF DeleteRecord
<1>7. ASSUME NEW x \in Records, Unprocessed(a, x)
      PROVE  TypeOK'
  <2>1. call' \in [Tasks -> Calls]
    BY <1>7, DeletingTypes DEF Unprocessed
  <2> QED
    BY <1>2, <1>7, <2>1 DEF Unprocessed
<1> QED
  BY <1>1, <1>3, <1>4, <1>5, <1>6, <1>7 DEF Administer

(* A client's step, the index and the ttl keep the types.                    *)
LEMMA TypeClients ==
  ASSUME TypeOK, NEW r \in Resources,
         \/ \E c \in Clients : SpeculativeHit(c, r) \/ ReadEntity(c, r) \/ CreateBucket(c, r)
         \/ Index(r) \/ Expire(r)
  PROVE  TypeOK'
<1> USE DEF TypeOK, history, records
<1>1. ASSUME NEW c \in Clients, SpeculativeHit(c, r)
      PROVE  TypeOK'
  BY <1>1 DEF SpeculativeHit
<1>2. ASSUME NEW c \in Clients, ReadEntity(c, r)
      PROVE  TypeOK'
  <2>1. call' \in [Tasks -> Calls]
    BY <1>2, CallTypes DEF ReadEntity, AsRead, Tasks
  <2> QED
    BY <1>2, <2>1 DEF ReadEntity, AsRead, Copies, Tasks, Calls
<1>3. ASSUME NEW c \in Clients, CreateBucket(c, r)
      PROVE  TypeOK'
  <2>1. call' \in [Tasks -> Calls]
    BY <1>3, CallTypes DEF CreateBucket, Tasks
  <2> QED
    BY <1>3, <2>1 DEF CreateBucket, Copies, Tasks, Calls
<1>4. CASE Index(r) \/ Expire(r)
  BY <1>4 DEF Index, Expire, Copies
<1> QED
  BY <1>1, <1>2, <1>3, <1>4

(* Whatever the request, the provisioner applies some manifest.              *)
LEMMA ProvisionCases ==
  ASSUME Provision
  PROVE  \/ \E manifest \in SUBSET Resources : Invoke(manifest)
         \/ \E r \in Resources : Apply(r) \/ ApplyFails(r)
         \/ WriteState
         \/ Dies
<1>1. ASSUME NEW request \in Requests, NEW given \in SUBSET Resources,
             Invoke(ManifestOf(request, given))
      PROVE  \E manifest \in SUBSET Resources : Invoke(manifest)
  <2>1. ManifestOf(request, given) \in SUBSET Resources
    BY DEF ManifestOf
  <2> QED
    BY <1>1, <2>1
<1> QED
  BY <1>1 DEF Provision

(* The provisioner's steps keep the types.                                   *)
LEMMA TypeProvision ==
  ASSUME TypeOK, Provision
  PROVE  TypeOK'
<1> USE DEF TypeOK, history, records
<1>1. ASSUME NEW manifest \in SUBSET Resources, Invoke(manifest)
      PROVE  TypeOK'
  BY <1>1 DEF Invoke
<1>2. ASSUME NEW r \in Resources, Apply(r) \/ ApplyFails(r)
      PROVE  TypeOK'
  <2>1. run' = [run EXCEPT !.left = @ \ {r}]
    BY <1>2 DEF Apply, ApplyFails, OneLess
  <2>2. /\ run' \in [pc : {"idle", "applying"}, manifest : SUBSET Resources, left : SUBSET Resources,
                     count : Nat]
        /\ run'.left \subseteq run'.manifest \cup managed
    BY <2>1
  <2> QED
    BY <1>2, <2>2 DEF Apply, ApplyFails
<1>3. CASE WriteState \/ Dies
  <2>1. /\ run' = [NoRun EXCEPT !.count = run.count]
        /\ managed' = managed \/ managed' = run.manifest
    BY <1>3 DEF WriteState, Dies
  <2>2. /\ run' \in [pc : {"idle", "applying"}, manifest : SUBSET Resources, left : SUBSET Resources,
                     count : Nat]
        /\ run'.left = {}
    BY <2>1 DEF NoRun
  <2> QED
    BY <1>3, <2>1, <2>2 DEF WriteState, Dies
<1> QED
  BY <1>1, <1>2, <1>3, ProvisionCases

(* Every action keeps the types.                                             *)
LEMMA TypeStep == TypeOK /\ [Next]_vars => TypeOK'
<1>1. ASSUME TypeOK, UNCHANGED vars
      PROVE  TypeOK'
  BY <1>1 DEF TypeOK, vars
<1> QED
  BY <1>1, TypeAdminister, TypeClients, TypeProvision DEF Next

-------------------------------------------------------------------------------
(* The registry *)

(* Each step that changes a configuration or its count changes both, or      *)
(* leaves a mark.                                                            *)
LEMMA RegistryStep == TypeOK /\ RegistryCounts /\ [Next]_vars => RegistryCounts'
<1> SUFFICES ASSUME TypeOK, RegistryCounts, [Next]_vars
             PROVE  RegistryCounts'
  OBVIOUS
<1>1. CASE UNCHANGED <<config, registry, unpaired>>
  BY <1>1 DEF RegistryCounts
<1>2. ASSUME NEW a \in Admins, NEW r \in Resources,
             SetLimits(a, r) \/ PutLimits(a, r) \/ DeleteLimits(a, r)
      PROVE  RegistryCounts'
  BY <1>2 DEF SetLimits, PutLimits, DeleteLimits, RegistryCounts, TypeOK
<1>3. ASSUME NEW a \in Admins, NEW r \in Resources, CleanUp(a, r)
      PROVE  RegistryCounts'
  BY <1>3 DEF CleanUp, RegistryCounts, TypeOK, history
<1>4. ASSUME NEW a \in Admins, NEW x \in Records, DeleteRecord(a, x)
      PROVE  RegistryCounts'
  BY <1>4 DEF DeleteRecord, RegistryCounts, TypeOK
<1>5. ASSUME NEW r \in Resources, Apply(r)
      PROVE  RegistryCounts'
  BY <1>5 DEF Apply, RegistryCounts, TypeOK
<1>6. ASSUME NEW a \in Admins,
             \/ \E kind \in {"plain", "cascading"} : CreateEntity(a, kind)
             \/ QueryEntity(a)
             \/ \E x \in Records : Unprocessed(a, x)
      PROVE  RegistryCounts'
  BY <1>1, <1>6 DEF CreateEntity, QueryEntity, Unprocessed, records
<1>7. ASSUME NEW r \in Resources,
             \/ \E c \in Clients : SpeculativeHit(c, r) \/ ReadEntity(c, r) \/ CreateBucket(c, r)
             \/ Index(r) \/ Expire(r) \/ ApplyFails(r)
      PROVE  RegistryCounts'
  BY <1>1, <1>7 DEF SpeculativeHit, ReadEntity, CreateBucket, Index, Expire, ApplyFails, records, history
<1>8. CASE (\E manifest \in SUBSET Resources : Invoke(manifest)) \/ WriteState \/ Dies \/ UNCHANGED vars
  BY <1>1, <1>8 DEF Invoke, WriteState, Dies, vars, records, history
<1> QED
  BY <1>2, <1>3, <1>4, <1>5, <1>6, <1>7, <1>8, ProvisionCases DEF Next, Administer

-------------------------------------------------------------------------------
(* The provisioner *)

(* No step lets a configuration of the provisioner's out of its sight.       *)
LEMMA ManifestStep == TypeOK /\ ManifestCovers /\ [Next]_vars => ManifestCovers'
<1> SUFFICES ASSUME TypeOK, ManifestCovers, [Next]_vars
             PROVE  ManifestCovers'
  OBVIOUS
<1>1. ASSUME UNCHANGED <<managed, run>>, faults' = 0 => faults = 0,
             \A r \in Resources : config'[r] = "manifest" => config[r] = "manifest"
      PROVE  ManifestCovers'
  BY <1>1 DEF ManifestCovers
<1>2. ASSUME NEW a \in Admins, Administer(a)
      PROVE  ManifestCovers'
  <2> USE DEF TypeOK, history, records, Called
  <2>1. ASSUME NEW kind \in {"plain", "cascading"}, CreateEntity(a, kind)
        PROVE  ManifestCovers'
    BY <1>1, <2>1 DEF CreateEntity
  <2>2. ASSUME NEW r \in Resources, SetLimits(a, r) \/ PutLimits(a, r)
        PROVE  ManifestCovers'
    BY <1>1, <2>2 DEF SetLimits, PutLimits
  <2>3. ASSUME NEW r \in Resources, DeleteLimits(a, r) \/ CleanUp(a, r)
        PROVE  ManifestCovers'
    BY <1>1, <2>3 DEF DeleteLimits, CleanUp
  <2>4. CASE QueryEntity(a)
    BY <1>1, <2>4 DEF QueryEntity
  <2>5. ASSUME NEW x \in Records, DeleteRecord(a, x)
        PROVE  ManifestCovers'
    BY <1>1, <2>5 DEF DeleteRecord
  <2>6. ASSUME NEW x \in Records, Unprocessed(a, x)
        PROVE  ManifestCovers'
    BY <1>1, <2>6 DEF Unprocessed
  <2> QED
    BY <1>2, <2>1, <2>2, <2>3, <2>4, <2>5, <2>6 DEF Administer
<1>3. ASSUME NEW r \in Resources,
             \/ \E c \in Clients : SpeculativeHit(c, r) \/ ReadEntity(c, r) \/ CreateBucket(c, r)
             \/ Index(r) \/ Expire(r)
      PROVE  ManifestCovers'
  BY <1>1, <1>3 DEF SpeculativeHit, ReadEntity, CreateBucket, Index, Expire, records, history
<1>4. ASSUME NEW manifest \in SUBSET Resources, Invoke(manifest)
      PROVE  ManifestCovers'
  BY <1>4 DEF Invoke, ManifestCovers, records, history
<1>5. ASSUME NEW r \in Resources, Apply(r)
      PROVE  ManifestCovers'
  <2>1. /\ run'.pc = "applying" /\ run.pc = "applying" /\ run'.manifest = run.manifest
        /\ run'.left = run.left \ {r} /\ faults' = faults /\ r \in Resources
    BY <1>5 DEF Apply, Turn, OneLess, TypeOK
  <2>2. \A s \in Resources : config'[s] = IF s = r THEN IF r \in run.manifest THEN "manifest" ELSE "none"
                                          ELSE config[s]
    BY <1>5 DEF Apply, TypeOK
  <2> QED
    BY <2>1, <2>2 DEF ManifestCovers
<1>6. ASSUME NEW r \in Resources, ApplyFails(r)
      PROVE  ManifestCovers'
  <2>1. run'.pc = "applying" /\ faults' # 0
    BY <1>6 DEF ApplyFails, Turn, OneLess, TypeOK
  <2> QED
    BY <2>1 DEF ManifestCovers
<1>7. CASE WriteState
  BY <1>7 DEF WriteState, ManifestCovers, NoRun, records, history
<1>8. CASE Dies
  <2>1. run'.manifest = {} /\ faults' # 0
    BY <1>8 DEF Dies, NoRun, TypeOK
  <2> QED
    BY <2>1 DEF ManifestCovers
<1>9. CASE UNCHANGED vars
  BY <1>1, <1>9 DEF vars
<1> QED
  BY <1>2, <1>3, <1>4, <1>5, <1>6, <1>7, <1>8, <1>9, ProvisionCases DEF Next

-------------------------------------------------------------------------------
(* The theorems *)

(* The invariant holds initially.                                            *)
LEMMA InvInit == Init => Inv
BY TypeInit DEF Init, Inv, RegistryCounts, ManifestCovers, NoRun

(* The invariant is inductive.                                               *)
LEMMA InvStep == Inv /\ [Next]_vars => Inv'
BY TypeStep, RegistryStep, ManifestStep DEF Inv

(* The reachable states satisfy it.                                          *)
LEMMA InvCorrect == Spec => []Inv
<1> QED
  BY InvInit, InvStep, PTL DEF Spec

(* The entity's records and the tasks' calls always have their types, and    *)
(* the index never shows a bucket that is gone.                              *)
THEOREM TypeCorrect == Spec => []TypeOK
<1>1. Inv => TypeOK
  BY DEF Inv
<1> QED
  BY <1>1, InvCorrect, PTL

(* Whatever calls of set_limits and delete_limits run at once, for whatever  *)
(* number of resources, the registry has those that are configured.          *)
THEOREM RegistryCorrect == Spec => []RegistryCounts
<1>1. Inv => RegistryCounts
  BY DEF Inv
<1> QED
  BY <1>1, InvCorrect, PTL

(* No configuration that the provisioner put escapes its next manifest, as   *)
(* long as none of its writes fails.                                         *)
THEOREM NothingEscapesProvisioner == Spec => []NothingEscapes
<1>1. Inv => NothingEscapes
  BY DEF Inv, ManifestCovers, NothingEscapes, TypeOK
<1> QED
  BY <1>1, InvCorrect, PTL
===============================================================================
