--------------------------- MODULE Operations_proofs ---------------------------
(***************************************************************************)
(* What operators depend on.                                               *)
(*                                                                         *)
(* Deployment, for any clients and versions: the types of the              *)
(* infrastructure, that a stack somebody waits for gets its code, and that *)
(* its version record is true as long as versions are not mixed.           *)
(*                                                                         *)
(* History, for any windows, page sizes and bounds: its types, that        *)
(* delivered removals are archived, what the pages of a query cover, and   *)
(* what the snapshots account for.                                         *)
(*                                                                         *)
(* The two share no variable; each is proved about its own specification.  *)
(***************************************************************************)
EXTENDS Deployment, History, Sums

-------------------------------------------------------------------------------
(* Deployment: the invariant *)

Active(c) == pc[c] # "idle"

(* The function is there when the creation has finished.                     *)
Complete == stack = "ready" => code # NoFunction

(* Someone waits to put the code of a function that still has the            *)
(* placeholder, if anybody waits for the stack at all.                       *)
Awaited ==
  faults = 0 /\ ~unattended /\ (stack = "creating" \/ (stack = "ready" /\ code = Placeholder)) =>
    \E c \in Clients : pc[c] = "waiting" \/ (stack = "ready" /\ pc[c] = "deploying")

(* Calls that overlap are of one version.                                    *)
OneVersion == \A c, d \in Clients : Active(c) /\ Active(d) => Version[c] = Version[d]

(* Whoever put code that no record names yet is still to see to the record.   *)
Unrecorded ==
  code \in Versions /\ record = NoRecord =>
    \E c \in Clients : pc[c] \in {"checking", "initializing", "recording"} /\ Version[c] = code

Misrecorded ==
  code \in Versions /\ record \notin {NoRecord, code} =>
    \E c \in Clients : pc[c] = "recording" /\ Version[c] = code

(* What is about to be recorded is what the function has.                    *)
Truthful ==
  \A c \in Clients : pc[c] \in {"initializing", "recording"} /\ code \in Versions => code = Version[c]

Inv ==
  /\ TypeOK /\ Complete /\ Awaited
  /\ ~mixed /\ faults = 0 => OneVersion /\ Unrecorded /\ Misrecorded /\ Truthful

-------------------------------------------------------------------------------
(* Versions are positive numbers.                                            *)
LEMMA VersionsAre == Versions \subseteq Nat \ {0} /\ \A c \in Clients : Version[c] \in Versions
BY DeploymentAssumption DEF Versions

(* A client's step changes where it is, and no other client's place.         *)
LEMMA PcStep ==
  ASSUME TypeOK, NEW c \in Clients, Proceed(c) \/ Die(c)
  PROVE  /\ pc' \in [Clients -> PCs]
         /\ call' \in [Clients -> [kind : Kinds, auto : BOOLEAN]]
         /\ \A d \in Clients \ {c} : pc'[d] = pc[d]
<1> USE DEF TypeOK, PCs
<1>1. NoCall \in [kind : Kinds, auto : BOOLEAN]
  BY DEF NoCall, Kinds
<1>2. ASSUME NEW l \in PCs, Goto(c, l)
      PROVE  /\ pc' \in [Clients -> PCs]
             /\ call' \in [Clients -> [kind : Kinds, auto : BOOLEAN]]
             /\ \A d \in Clients \ {c} : pc'[d] = pc[d]
  BY <1>2 DEF Goto
<1>3. ASSUME Ends(c)
      PROVE  /\ pc' \in [Clients -> PCs]
             /\ call' \in [Clients -> [kind : Kinds, auto : BOOLEAN]]
             /\ \A d \in Clients \ {c} : pc'[d] = pc[d]
  BY <1>1, <1>3 DEF Ends
<1>4. ASSUME GotoCheck(c)
      PROVE  /\ pc' \in [Clients -> PCs]
             /\ call' \in [Clients -> [kind : Kinds, auto : BOOLEAN]]
             /\ \A d \in Clients \ {c} : pc'[d] = pc[d]
  BY <1>4 DEF GotoCheck, Kinds
<1>5. ASSUME NEW kind \in Kinds, NEW auto \in BOOLEAN, NEW l \in PCs, Starts(c, kind, auto, l)
      PROVE  /\ pc' \in [Clients -> PCs]
             /\ call' \in [Clients -> [kind : Kinds, auto : BOOLEAN]]
             /\ \A d \in Clients \ {c} : pc'[d] = pc[d]
  BY <1>5 DEF Starts
<1>6. CASE Open(c) \/ Build(c) \/ Deploy(c) \/ Upgrade(c)
  BY <1>5, <1>6 DEF Open, Build, Deploy, Upgrade, Kinds
<1>7. CASE Resolve(c) \/ Describe(c) \/ Submit(c) \/ Wait(c)
  BY <1>2, <1>3, <1>4, <1>7 DEF Resolve, Describe, Submit, Wait
<1>8. CASE DeployCode(c) \/ Update(c)
  BY <1>2, <1>3, <1>8 DEF DeployCode, Update, Puts
<1>9. CASE Check(c) \/ Initialize(c) \/ Record(c)
  BY <1>2, <1>3, <1>9 DEF Check, Initialize, Record, Opened
<1>10. CASE Recheck(c)
  <2>1. CASE Ends(c)
    BY <1>3, <2>1
  <2>2. CASE pc' = [pc EXCEPT ![c] = "updating"] /\ call' = [call EXCEPT ![c].kind = "deploy"]
    BY <2>2 DEF Kinds
  <2> QED
    BY <1>10, <2>1, <2>2 DEF Recheck
<1>11. CASE Die(c)
  BY <1>3, <1>11 DEF Die
<1> QED
  BY <1>6, <1>7, <1>8, <1>9, <1>10, <1>11 DEF Proceed

(* Every action keeps the types.                                             *)
LEMMA TypeStep ==
  ASSUME TypeOK, [Next]_vars
  PROVE  TypeOK'
<1>1. CASE UNCHANGED vars
  BY <1>1 DEF TypeOK, vars, infrastructure, bounds
<1>2. ASSUME NEW c \in Clients, Proceed(c) \/ Die(c)
      PROVE  TypeOK'
  <2> USE PcStep, <1>2 DEF TypeOK, infrastructure, bounds, history
  <2>1. CASE Open(c) \/ Build(c) \/ Deploy(c) \/ Upgrade(c)
    <3>1. PICK kind \in Kinds, auto \in BOOLEAN, l \in PCs : Starts(c, kind, auto, l)
      BY <2>1 DEF Open, Build, Deploy, Upgrade, Kinds, PCs
    <3>2. mixed' \in BOOLEAN
      BY <3>1, Zenon DEF Starts
    <3>3. calls' \in Nat /\ UNCHANGED <<stack, table, code, record, faults, deletes, unattended>>
      BY <3>1 DEF Starts
    <3> QED
      BY <3>2, <3>3
  <2>2. CASE Resolve(c) \/ Wait(c) \/ Check(c) \/ Recheck(c)
    BY <2>2 DEF Resolve, Wait, Check, Recheck
  <2>3. CASE Describe(c) \/ Submit(c)
    <3>1. unattended' \in BOOLEAN
      BY <2>3, Zenon DEF Describe, Submit
    <3>2. stack' \in Statuses /\ UNCHANGED <<table, code, record, calls, faults, deletes, mixed>>
          /\ (table' => stack' \in {"creating", "ready", "deleting"})
      BY <2>3 DEF Describe, Submit, Statuses
    <3> QED
      BY <3>1, <3>2
  <2>4. CASE DeployCode(c) \/ Update(c)
    BY <2>4, VersionsAre DEF DeployCode, Update, Puts, NoFunction
  <2>5. CASE Initialize(c) \/ Record(c)
    BY <2>5, VersionsAre DEF Initialize, Record
  <2>6. CASE Die(c)
    BY <2>6 DEF Die
  <2> QED
    BY <2>1, <2>2, <2>3, <2>4, <2>5, <2>6 DEF Proceed
<1>3. CASE CloudFormation
  BY <1>3 DEF TypeOK, bounds, history, CloudFormation, CreateTable, CreateFunction, FinishStack, RemoveStack,
              Emptied, Statuses, NoFunction, Placeholder, NoRecord
<1>4. CASE FailStack
  <2>1. /\ stack' = "failed" /\ table' = FALSE /\ code' = NoFunction /\ record' = NoRecord
        /\ faults' = faults + 1 /\ UNCHANGED <<pc, call, calls, deletes, mixed, unattended>>
    BY <1>4 DEF FailStack, Emptied, history
  <2>2. ~table' /\ table' \in BOOLEAN
    BY <2>1
  <2>3. stack' \in Statuses /\ code' \in {NoFunction, Placeholder} \cup Versions
        /\ record' \in {NoRecord} \cup Versions
    BY <2>1 DEF Statuses
  <2>4. calls' \in Nat /\ faults' \in Nat /\ deletes' \in Nat /\ UNCHANGED <<pc, call, mixed, unattended>>
    BY <2>1 DEF TypeOK
  <2> QED
    BY <2>1, <2>2, <2>3, <2>4 DEF TypeOK
<1>5. CASE DeleteStack
  BY <1>5 DEF TypeOK, DeleteStack, Statuses, history
<1> QED
  BY <1>1, <1>2, <1>3, <1>4, <1>5 DEF Next

-------------------------------------------------------------------------------
(* Someone puts the code *)

(* Every step leaves someone to put the code, as long as it is missing.      *)
LEMMA AwaitedStep ==
  ASSUME Inv, TypeOK', [Next]_vars
  PROVE  Complete' /\ Awaited'
<1>1. TypeOK /\ Complete /\ Awaited
  BY DEF Inv
<1>2. NoFunction \notin Versions /\ Placeholder \notin Versions /\ NoFunction # Placeholder
  BY VersionsAre DEF NoFunction, Placeholder
<1>3. ASSUME NEW c \in Clients, Proceed(c) \/ Die(c)
      PROVE  Complete' /\ Awaited'
  <2>1. \A d \in Clients \ {c} : pc'[d] = pc[d]
    BY <1>1, <1>3, PcStep
  <2>2. ASSUME pc[c] \notin {"waiting", "deploying"}, UNCHANGED <<stack, faults, unattended>>,
               code' = code \/ code' \in Versions
        PROVE  Complete' /\ Awaited'
    BY <1>1, <1>2, <2>1, <2>2 DEF Complete, Awaited
  <2> USE DEF infrastructure, bounds, history
  <2>3. CASE Open(c) \/ Build(c) \/ Deploy(c) \/ Upgrade(c)
    BY <2>2, <2>3 DEF Open, Build, Deploy, Upgrade, Starts
  <2>4. CASE Resolve(c) \/ Check(c) \/ Initialize(c) \/ Record(c) \/ Recheck(c)
    BY <2>2, <2>4 DEF Resolve, Check, Initialize, Record, Recheck
  <2>10. CASE Describe(c)
    <3>1. CASE unattended' = unattended
      BY <2>2, <2>10, <3>1 DEF Describe
    <3>2. CASE unattended' # unattended
      <4>1. stack # "none" /\ call[c].kind # "submit" /\ UNCHANGED <<stack, code, faults>>
        BY <1>1, <2>10, <3>2 DEF Describe, TypeOK
      <4>2. (stack = "creating" => pc'[c] = "waiting") /\ (stack = "ready" => pc'[c] = "deploying")
        BY <1>1, <2>10, <4>1 DEF Describe, Goto, TypeOK
      <4> QED
        BY <1>1, <4>1, <4>2 DEF Complete, Awaited
    <3> QED
      BY <3>1, <3>2
  <2>5. CASE Update(c)
    BY <2>2, <2>5, VersionsAre DEF Update, Puts
  <2>6. CASE Submit(c)
    <3>1. CASE stack = "none"
      <4>1. stack' = "creating" /\ (~unattended' => pc'[c] = "waiting")
        BY <1>1, <2>6, <3>1 DEF Submit, Goto, TypeOK
      <4> QED
        BY <4>1 DEF Complete, Awaited
    <3>2. CASE stack # "none"
      BY <2>2, <2>6, <3>2 DEF Submit
    <3> QED
      BY <3>1, <3>2
  <2>7. CASE Wait(c)
    <3>1. CASE stack = "ready" /\ Goto(c, "deploying")
      <4>1. pc'[c] = "deploying" /\ stack' = "ready"
        BY <1>1, <2>7, <3>1 DEF Wait, Goto, TypeOK
      <4> QED
        BY <1>1, <2>7, <4>1 DEF Wait, Complete, Awaited
    <3>2. CASE stack \in {"failed", "none"}
      BY <2>7, <3>2 DEF Wait, Complete, Awaited
    <3> QED
      BY <2>7, <3>1, <3>2 DEF Wait
  <2>8. CASE DeployCode(c)
    <3>1. pc[c] = "deploying" /\ UNCHANGED <<stack, faults, unattended>>
          /\ (code # NoFunction => code' = Version[c]) /\ (code = NoFunction => code' = code)
      BY <2>8 DEF DeployCode, Puts
    <3>2. Complete'
      BY <1>1, <1>2, <3>1, VersionsAre DEF Complete
    <3>3. Awaited'
      BY <1>1, <1>2, <2>1, <3>1, VersionsAre DEF Complete, Awaited
    <3> QED
      BY <3>2, <3>3
  <2>9. CASE Die(c)
    BY <1>1, <2>9 DEF Die, Complete, Awaited, TypeOK
  <2> QED
    BY <1>3, <2>3, <2>4, <2>5, <2>6, <2>7, <2>8, <2>9, <2>10 DEF Proceed
<1>4. CASE CloudFormation
  <2>1. UNCHANGED <<pc, faults, unattended>>
    BY <1>4 DEF CloudFormation, bounds, history
  <2>2. CASE CreateTable \/ CreateFunction
    BY <1>1, <1>2, <2>1, <2>2 DEF CreateTable, CreateFunction, Complete, Awaited
  <2>3. CASE FinishStack
    BY <1>1, <2>1, <2>3 DEF FinishStack, Complete, Awaited
  <2>4. CASE RemoveStack
    BY <2>4 DEF RemoveStack, Complete, Awaited
  <2> QED
    BY <1>4, <2>2, <2>3, <2>4 DEF CloudFormation
<1>5. CASE FailStack \/ DeleteStack
  BY <1>5 DEF FailStack, DeleteStack, Complete, Awaited
<1>6. CASE UNCHANGED vars
  BY <1>1, <1>6 DEF vars, Complete, Awaited
<1> QED
  BY <1>3, <1>4, <1>5, <1>6 DEF Next

-------------------------------------------------------------------------------
(* The record is true *)

(* Every step leaves someone to write the record, as long as it is not true. *)
LEMMA RecordStep ==
  ASSUME Inv, TypeOK', [Next]_vars, ~mixed', faults' = 0
  PROVE  OneVersion' /\ Unrecorded' /\ Misrecorded' /\ Truthful'
<1>1. TypeOK
  BY DEF Inv
<1>2. NoFunction \notin Versions /\ Placeholder \notin Versions /\ NoRecord \notin Versions
  BY VersionsAre DEF NoFunction, Placeholder, NoRecord
<1>3. code \in Versions => table
  BY <1>1, <1>2 DEF TypeOK
<1>4. ASSUME NEW c \in Clients, Proceed(c)
      PROVE  OneVersion' /\ Unrecorded' /\ Misrecorded' /\ Truthful'
  <2>1. /\ \A d \in Clients \ {c} : pc'[d] = pc[d]
        /\ pc' \in [Clients -> PCs]
    BY <1>1, <1>4, PcStep
  <2>2. CASE Open(c) \/ Build(c) \/ Deploy(c) \/ Upgrade(c)
    <3>1. PICK kind \in Kinds, auto \in BOOLEAN, l \in {"resolving", "describing"} : Starts(c, kind, auto, l)
      BY <2>2 DEF Open, Build, Deploy, Upgrade, Kinds
    <3>2. /\ pc[c] = "idle" /\ pc'[c] = l /\ UNCHANGED <<code, record, faults>>
          /\ ~mixed /\ \A d \in Clients : Active(d) => Version[d] = Version[c]
      BY <1>1, <3>1 DEF Starts, TypeOK, Active, infrastructure
    <3>3. OneVersion /\ Unrecorded /\ Misrecorded /\ Truthful
      BY <3>2 DEF Inv
    <3>4. OneVersion'
      BY <2>1, <3>2, <3>3 DEF OneVersion, Active
    <3> QED
      BY <2>1, <3>2, <3>3, <3>4 DEF Unrecorded, Misrecorded, Truthful
  <2>3. CASE ~(Open(c) \/ Build(c) \/ Deploy(c) \/ Upgrade(c))
    <3>1. pc[c] # "idle" /\ ~mixed /\ faults = 0
      <4> USE DEF infrastructure, bounds, history
      <4>1. CASE Resolve(c) \/ Describe(c) \/ Submit(c) \/ Wait(c) \/ Recheck(c)
        BY <4>1 DEF Resolve, Describe, Submit, Wait, Recheck
      <4>2. CASE Check(c) \/ Initialize(c) \/ Update(c) \/ Record(c)
        BY <4>2 DEF Check, Initialize, Update, Record
      <4>3. CASE DeployCode(c)
        BY <4>3 DEF DeployCode
      <4> QED
        BY <1>4, <2>3, <4>1, <4>2, <4>3 DEF Proceed
    <3>2. OneVersion /\ Unrecorded /\ Misrecorded /\ Truthful
      BY <3>1 DEF Inv
    <3>3. OneVersion'
      BY <2>1, <3>1, <3>2 DEF OneVersion, Active
    <3>4. \A d \in Clients : pc[d] # "idle" => Version[d] = Version[c]
      BY <3>1, <3>2 DEF OneVersion, Active
    <3>5. CASE Resolve(c) \/ Describe(c) \/ Submit(c) \/ Wait(c) \/ Recheck(c)
      <4>1. /\ UNCHANGED <<code, record>>
            /\ pc[c] \in {"resolving", "describing", "submitting", "waiting", "rechecking"}
        BY <3>5 DEF Resolve, Describe, Submit, Wait, Recheck, infrastructure
      <4>2. pc'[c] \notin {"initializing", "recording"}
        BY <1>1, <3>5 DEF Resolve, Describe, Submit, Wait, Recheck, GotoCheck, Goto, Ends, TypeOK
      <4> QED
        BY <2>1, <3>2, <3>3, <4>1, <4>2 DEF Unrecorded, Misrecorded, Truthful
    <3>6. CASE Check(c)
      <4>1. pc[c] = "checking" /\ UNCHANGED <<code, record>>
        BY <3>6 DEF Check, infrastructure
      <4>2. pc'[c] # "recording" /\ (table /\ record = NoRecord => pc'[c] = "initializing")
            /\ (pc'[c] = "initializing" => record = NoRecord)
        BY <1>1, <3>6 DEF Check, Opened, Goto, Ends, TypeOK
      <4>3. Unrecorded'
        BY <1>3, <2>1, <3>2, <4>1, <4>2 DEF Unrecorded
      <4>4. Misrecorded'
        BY <2>1, <3>2, <4>1, <4>2 DEF Misrecorded
      <4>5. code \in Versions /\ record = NoRecord => code = Version[c]
        BY <3>2, <3>4 DEF Unrecorded
      <4>6. Truthful'
        BY <2>1, <3>2, <4>1, <4>2, <4>5 DEF Truthful
      <4> QED
        BY <3>3, <4>3, <4>4, <4>6
    <3>7. CASE code' = Version[c] /\ record' = record /\ pc'[c] \in {"checking", "recording"}
               /\ (pc'[c] = "recording" \/ record \in {NoRecord, Version[c]})
      BY <2>1, <3>3, <3>4, <3>7 DEF Unrecorded, Misrecorded, Truthful
    <3>8. CASE code' \notin Versions
      BY <3>3, <3>8 DEF Unrecorded, Misrecorded, Truthful
    <3>9. CASE DeployCode(c) \/ Update(c)
      <4>1. CASE code = NoFunction
        BY <1>2, <3>8, <3>9, <4>1 DEF DeployCode, Update, Puts
      <4>2. CASE code # NoFunction
        <5>1. code' = Version[c] /\ record' = record /\ pc'[c] \in {"checking", "recording"}
          BY <1>1, <3>9, <4>2 DEF DeployCode, Update, Puts, Goto, TypeOK
        <5>2. pc'[c] = "recording" \/ record \in {NoRecord, Version[c]}
          BY <1>1, <3>9, <4>2 DEF DeployCode, Update, Puts, Goto, TypeOK
        <5> QED
          BY <3>7, <5>1, <5>2
      <4> QED
        BY <4>1, <4>2
    <3>10. CASE Initialize(c) \/ Record(c)
      <4>1. code' = code /\ pc[c] \in {"initializing", "recording"}
            /\ pc'[c] \notin {"initializing", "recording"} /\ (table => record' = Version[c])
        BY <1>1, <3>10 DEF Initialize, Record, Opened, Goto, Ends, TypeOK
      <4>2. CASE code \notin Versions
        BY <3>8, <4>1, <4>2
      <4>3. CASE code \in Versions
        <5>1. record' = Version[c] /\ code = Version[c]
          BY <1>3, <3>2, <4>1, <4>3 DEF Truthful
        <5> QED
          BY <1>2, <2>1, <3>2, <3>3, <4>1, <5>1, VersionsAre DEF Unrecorded, Misrecorded, Truthful
      <4> QED
        BY <4>2, <4>3
    <3> QED
      BY <1>4, <2>3, <3>5, <3>6, <3>9, <3>10 DEF Proceed
  <2> QED
    BY <2>2, <2>3
<1>5. ASSUME UNCHANGED <<pc, mixed, faults>>, UNCHANGED <<code, record>> \/ code' \notin Versions
      PROVE  OneVersion' /\ Unrecorded' /\ Misrecorded' /\ Truthful'
  BY <1>5 DEF Inv, OneVersion, Active, Unrecorded, Misrecorded, Truthful
<1>6. CASE CloudFormation
  BY <1>2, <1>5, <1>6 DEF CloudFormation, CreateTable, CreateFunction, FinishStack, RemoveStack, Emptied,
                          bounds, history
<1>7. CASE DeleteStack \/ UNCHANGED vars
  BY <1>5, <1>7 DEF DeleteStack, vars, history
<1>8. CASE FailStack \/ \E c \in Clients : Die(c)
  BY <1>1, <1>8 DEF FailStack, Die, TypeOK
<1> QED
  BY <1>4, <1>6, <1>7, <1>8 DEF Next

(* The invariant holds at the start.                                         *)
LEMMA InvInit == Init => Inv
<1> SUFFICES ASSUME Init
             PROVE  Inv
  OBVIOUS
<1>1. NoCall \in [kind : Kinds, auto : BOOLEAN]
  BY DEF NoCall, Kinds
<1>2. TypeOK
  BY <1>1 DEF Init, TypeOK, Statuses, PCs
<1>3. NoFunction \notin Versions
  BY VersionsAre DEF NoFunction
<1> QED
  BY <1>2, <1>3 DEF Init, Inv, Complete, Awaited, OneVersion, Active, Unrecorded, Misrecorded, Truthful

(* Every step keeps it.                                                      *)
LEMMA InvStep == Inv /\ [Next]_vars => Inv'
<1> SUFFICES ASSUME Inv, [Next]_vars
             PROVE  Inv'
  OBVIOUS
<1>1. TypeOK'
  BY TypeStep DEF Inv
<1> QED
  BY <1>1, AwaitedStep, RecordStep DEF Inv

(* The invariant is one.                                                     *)
LEMMA InvCorrect == Spec => []Inv
BY InvInit, InvStep, PTL DEF Spec

-------------------------------------------------------------------------------
(* The function and the record exist only in a stack that does: TypeOK of     *)
(* the run "deployment".                                                     *)
THEOREM TypeCorrect == Spec => []TypeOK
<1>1. Inv => TypeOK
  BY DEF Inv
<1> QED
  BY <1>1, InvCorrect, PTL

(* Of any number of clients that ensure the infrastructure at once, one puts  *)
(* the code, unless nobody has waited for the stack since a deploy with      *)
(* --no-wait submitted it: CodeDeployed of the run "deployment".             *)
THEOREM CodeAlwaysDeployed == Spec => []CodeDeployed
<1>1. Inv => CodeDeployed
  BY DEF Inv, Complete, Awaited, CodeDeployed, Quiet, TypeOK
<1> QED
  BY <1>1, InvCorrect, PTL

(* Clients of one version at a time leave a true version record, whatever they *)
(* call and in whichever order their steps fall, but over the placeholder of *)
(* a stack nobody waited for: RecordIsTrue of the run "deployment".          *)
THEOREM RecordAlwaysTrue == Spec => []RecordIsTrue
<1>1. Inv => RecordIsTrue
  BY DEF Inv, Complete, Awaited, Misrecorded, RecordIsTrue, Quiet, TypeOK
<1> QED
  BY <1>1, InvCorrect, PTL

-------------------------------------------------------------------------------
(* History: hours, records, pages *)

(* The windows are of the two kinds.                                         *)
LEMMA WindowsAre ==
  /\ DOMAIN Windows = 1..Len(Windows) /\ Len(Windows) \in Nat
  /\ IsFiniteSet(DOMAIN Windows)
  /\ \A j \in DOMAIN Windows : Windows[j] \in {"hourly", "daily"}
<1>1. Windows \in Seq({"hourly", "daily"})
  BY HistoryAssumption
<1>2. DOMAIN Windows = 1..Len(Windows) /\ Len(Windows) \in Nat
  BY <1>1
<1>3. IsFiniteSet(DOMAIN Windows)
  BY <1>2, FS_Interval
<1> QED
  BY <1>1, <1>2, <1>3

LEMMA HoursAre == Hours \subseteq Nat /\ IsFiniteSet(Hours) /\ 0 \in Hours /\ LastHour \in Hours /\ Hours = 0..LastHour
BY HistoryAssumption, FS_Interval DEF Hours

LEMMA EventsAre == Events \subseteq Nat \ {0} /\ IsFiniteSet(Events) /\ NoEvent = 0 /\ Events = 1..MaxEvents
BY HistoryAssumption, FS_Interval DEF Events, NoEvent

(* A window that begins with its day begins at an hour.                      *)
LEMMA KeyIsHour ==
  ASSUME NEW h \in Hours, NEW w
  PROVE  WindowKey(h, w) \in Hours
<1>1. h \in Nat /\ h <= LastHour /\ HoursPerDay \in Nat \ {0} /\ LastHour \in Nat
  BY HistoryAssumption DEF Hours
<1>2. h % HoursPerDay \in 0..HoursPerDay - 1
  BY <1>1
<1>3. h % HoursPerDay <= h
  <2>1. CASE h < HoursPerDay
    <3>1. h % HoursPerDay = h
      BY <1>1, <2>1
    <3> QED
      BY <1>1, <3>1
  <2>2. CASE h >= HoursPerDay
    BY <1>1, <1>2, <2>2
  <2> QED
    BY <1>1, <2>1, <2>2
<1>4. h - (h % HoursPerDay) \in 0..h
  BY <1>1, <1>2, <1>3
<1> QED
  BY <1>1, <1>4 DEF WindowKey, Hours

(* The next update is one of those that are left.                            *)
LEMMA FirstInside ==
  ASSUME NEW A \in SUBSET Nat, NEW left, left \subseteq A \X DOMAIN Windows, left # {}, IsFiniteSet(A)
  PROVE  First(left) \in left
<1> DEFINE D == DOMAIN Windows
           I == {i \in A : \E j \in D : <<i, j>> \in left}
<1>0. \A q \in left : q[1] \in A /\ q[2] \in D /\ q = <<q[1], q[2]>>
  OBVIOUS
<1>1. I # {} /\ I \subseteq Nat /\ IsFiniteSet(I)
  <2>1. I \subseteq A /\ IsFiniteSet(I)
    BY FS_Subset
  <2>2. PICK q \in left : TRUE
    OBVIOUS
  <2>3. q[1] \in I
    BY <1>0, <2>2
  <2> QED
    BY <2>1, <2>3
<1>2. PICK a \in I : \A i \in I : a <= i
  <2> HIDE DEF I
  <2> QED
    BY <1>1, SmallestExists
<1> DEFINE J == {j \in D : <<a, j>> \in left}
<1>3. J # {} /\ J \subseteq Nat /\ IsFiniteSet(J)
  <2>1. D \subseteq Nat /\ IsFiniteSet(D)
    BY WindowsAre
  <2> QED
    BY <1>2, <2>1, FS_Subset
<1>4. PICK b \in J : \A j \in J : b <= j
  <2> HIDE DEF J
  <2> QED
    BY <1>3, SmallestExists
<1> DEFINE p == <<a, b>>
<1>5. p \in left
  BY <1>4
<1>6. ASSUME NEW q \in left
      PROVE  p[1] < q[1] \/ (p[1] = q[1] /\ p[2] <= q[2])
  <2>1. PICK i \in A, j \in D : q = <<i, j>>
    BY <1>0, <1>6
  <2>2. i \in I /\ a <= i /\ a \in Nat /\ i \in Nat
    BY <1>1, <1>2, <2>1, <1>6
  <2>3. i = a => j \in J /\ b <= j
    BY <1>4, <1>6, <2>1
  <2> QED
    BY <2>1, <2>2, <2>3
<1>7. \E x \in left : \A q \in left : x[1] < q[1] \/ (x[1] = q[1] /\ x[2] <= q[2])
  BY <1>5, <1>6
<1> QED
  BY <1>7, Zenon DEF First

(* A page begins where the next one ends, and the last one at the first key. *)
LEMMA PageBounds ==
  ASSUME NEW items, IsFiniteSet(items), items \subseteq Nat, NEW cursor \in Nat
  PROVE  /\ NextKey(items, cursor) \in 0..cursor
         /\ LastPage(items, cursor) => NextKey(items, cursor) = 0
         /\ Page(items, cursor) \subseteq items
         /\ \A i \in Page(items, cursor) : NextKey(items, cursor) <= i /\ i < cursor
         /\ \A i \in items : NextKey(items, cursor) <= i /\ i < cursor => i \in Page(items, cursor)
<1> DEFINE E == PageEnds(items, cursor)
<1>1. E \subseteq Nat /\ IsFiniteSet(E) /\ \A i \in E : i < cursor
  <2>1. E \subseteq items /\ \A i \in E : i < cursor
    BY DEF PageEnds
  <2> HIDE DEF E
  <2> QED
    BY <2>1, FS_Subset
<1>2. ASSUME E # {}
      PROVE  Max(E) \in E
  <2>1. \E x \in E : \A y \in E : x >= y
    <3> HIDE DEF E
    <3> QED
      BY <1>1, <1>2, LargestExists
  <2> HIDE DEF E
  <2> QED
    BY <2>1, Zenon DEF Max
<1>3. NextKey(items, cursor) = IF E = {} THEN 0 ELSE Max(E)
  BY DEF NextKey, LastPage
<1>4. LastPage(items, cursor) <=> E = {}
  BY DEF LastPage
<1>5. NextKey(items, cursor) \in 0..cursor
  <2> HIDE DEF E
  <2>1. CASE E = {}
    BY <1>3, <2>1
  <2>2. CASE E # {}
    <3>1. Max(E) \in Nat /\ Max(E) < cursor
      BY <1>1, <1>2, <2>2
    <3> QED
      BY <1>3, <2>2, <3>1
  <2> QED
    BY <2>1, <2>2
<1> QED
  BY <1>3, <1>4, <1>5 DEF Page

-------------------------------------------------------------------------------
(* Types *)

Items == [window : {"none", "hourly", "daily"}, count : Int, events : Nat]

(* What an item adds to a summary is a number.                               *)
LEMMA ContributionTyped ==
  ASSUME NEW k, NEW item \in Items, NEW f
  PROVE  Contribution(k, item, f) \in Int
BY DEF Contribution, Items

(* The update of a snapshot keeps its type.                                  *)
LEMMA UpsertedTyped ==
  ASSUME NEW item \in Items, NEW d \in Int, NEW w \in {"hourly", "daily"}
  PROVE  Upserted(item, w, d) \in Items
BY DEF Upserted, Items

(* What a page adds to the total is a number.                                *)
LEMMA TotalTyped ==
  ASSUME HistoryTypeOK, NEW keys \in SUBSET Hours
  PROVE  TotalOf(keys) \in Int
<1> DEFINE f == [k \in Hours |-> snapshots[k].count]
<1>1. \A k \in keys : f[k] \in Int
  BY DEF HistoryTypeOK
<1>2. IsFiniteSet(keys)
  BY HoursAre, FS_Subset
<1>3. SumFunctionOnSet(f, keys) \in Int
  <2> HIDE DEF f
  <2> QED
    BY <1>1, <1>2, SumInt
<1> QED
  BY <1>3 DEF TotalOf

(* What a record carries.                                                    *)
LEMMA RecordTyped ==
  ASSUME NEW r \in StreamRecords
  PROVE  r.at \in Hours /\ r.delta \in Int /\ r.event \in Events \cup {NoEvent}
<1>1. Amounts \cup {0} \subseteq Int
  BY HistoryAssumption
<1> QED
  BY <1>1 DEF StreamRecords

(* The next update names a record of the batch and a window.                 *)
LEMMA NextUpdate ==
  ASSUME HistoryTypeOK, agg.left # {}, NEW p, p = First(agg.left)
  PROVE  /\ p \in agg.left /\ p[1] \in DOMAIN stream /\ p[2] \in DOMAIN Windows /\ p[1] <= agg.taken
         /\ stream[p[1]] \in StreamRecords /\ Windows[p[2]] \in {"hourly", "daily"}
         /\ WindowKey(stream[p[1]].at, Windows[p[2]]) \in Hours
<1>1. /\ stream \in Seq(StreamRecords) /\ Len(stream) \in Nat /\ DOMAIN stream = 1..Len(stream)
      /\ agg.left \subseteq (DOMAIN stream) \X (DOMAIN Windows)
  BY DEF HistoryTypeOK
<1>2. IsFiniteSet(DOMAIN stream) /\ DOMAIN stream \subseteq Nat
  BY <1>1, FS_Interval
<1>3. p \in agg.left
  BY <1>1, <1>2, FirstInside
<1>4. p[1] \in DOMAIN stream /\ p[2] \in DOMAIN Windows
  BY <1>1, <1>3
<1>5. stream[p[1]] \in StreamRecords
  BY <1>1, <1>4
<1>6. stream[p[1]].at \in Hours
  BY <1>5 DEF StreamRecords
<1> QED
  BY <1>3, <1>4, <1>5, <1>6, KeyIsHour, WindowsAre DEF HistoryTypeOK

(* The types by component.                                                   *)
Spans == [low : [Hours -> Int], high : [Hours -> Int], there : SUBSET Events]
BucketTypes == hour \in Hours /\ rf \in 0..hour /\ writes \in Nat /\ used \in [Hours -> Int] /\ failures \in Nat
BatchTypes ==
  /\ stream \in Seq(StreamRecords)
  /\ agg \in [taken : 0..Len(stream), left : SUBSET ((DOMAIN stream) \X (DOMAIN Windows)),
              events : SUBSET Events]
  /\ \A p \in agg.left : p[1] <= agg.taken
SnapshotTypes == snapshots \in [Hours -> Items]
TrailTypes ==
  /\ issued \in 0..MaxEvents /\ audit \cup pending \subseteq 1..issued /\ audit \cap pending = {}
  /\ due \in [Events -> Nat]
  /\ archive \subseteq SUBSET Events /\ lost \subseteq Events /\ put \subseteq 1..issued
ReaderTypes == reader \in Readers /\ span \in Spans

Types == BucketTypes /\ BatchTypes /\ SnapshotTypes /\ TrailTypes /\ ReaderTypes

LEMMA TypesAre == HistoryTypeOK <=> Types
BY DEF HistoryTypeOK, Types, BucketTypes, BatchTypes, SnapshotTypes, TrailTypes, ReaderTypes, Items, Spans

(* What a step leaves alone keeps its type.                                  *)
LEMMA TypesKept ==
  ASSUME Types
  PROVE  /\ UNCHANGED <<hour, rf, writes, used>> /\ failures' \in {failures, failures + 1} => BucketTypes'
         /\ UNCHANGED <<stream, agg>> => BatchTypes'
         /\ UNCHANGED snapshots => SnapshotTypes'
         /\ UNCHANGED trail => TrailTypes'
         /\ UNCHANGED <<reader, span>> => ReaderTypes'
<1>1. ASSUME UNCHANGED <<hour, rf, writes, used>>, failures' \in {failures, failures + 1}
      PROVE  BucketTypes'
  BY <1>1 DEF Types, BucketTypes
<1>2. ASSUME UNCHANGED <<stream, agg>>
      PROVE  BatchTypes'
  BY <1>2 DEF Types, BatchTypes
<1>3. ASSUME UNCHANGED snapshots
      PROVE  SnapshotTypes'
  BY <1>3 DEF Types, SnapshotTypes
<1>4. ASSUME UNCHANGED trail
      PROVE  TrailTypes'
  BY <1>4 DEF Types, TrailTypes, trail
<1>5. ASSUME UNCHANGED <<reader, span>>
      PROVE  ReaderTypes'
  BY <1>5 DEF Types, ReaderTypes
<1> QED
  BY <1>1, <1>2, <1>3, <1>4, <1>5

(* The stream and the batch after a record more, or without it.              *)
LEMMA StreamedTypes ==
  ASSUME BatchTypes, NEW kind, NEW rec \in StreamRecords, stream' = Streamed(kind, rec), agg' = agg
  PROVE  BatchTypes'
<1>1. stream' = stream \/ stream' = Append(stream, rec)
  BY DEF Streamed
<1>2. stream \in Seq(StreamRecords) /\ Len(stream) \in Nat /\ DOMAIN stream = 1..Len(stream)
  BY DEF BatchTypes
<1>3. /\ stream' \in Seq(StreamRecords) /\ Len(stream') \in Nat /\ Len(stream) <= Len(stream')
      /\ DOMAIN stream' = 1..Len(stream')
  BY <1>1, <1>2
<1>4. 0..Len(stream) \subseteq 0..Len(stream') /\ DOMAIN stream \subseteq DOMAIN stream'
  BY <1>2, <1>3
<1>5. (DOMAIN stream) \X (DOMAIN Windows) \subseteq (DOMAIN stream') \X (DOMAIN Windows)
  BY <1>4
<1>6. agg \in [taken : 0..Len(stream), left : SUBSET ((DOMAIN stream) \X (DOMAIN Windows)), events : SUBSET Events]
  BY DEF BatchTypes
<1>7. agg \in [taken : 0..Len(stream'), left : SUBSET ((DOMAIN stream') \X (DOMAIN Windows)), events : SUBSET Events]
  BY ONLY <1>4, <1>5, <1>6
<1>8. \A p \in agg'.left : p[1] <= agg'.taken
  BY DEF BatchTypes
<1> QED
  BY <1>3, <1>7, <1>8 DEF BatchTypes

(* What is taken of a batch is in it.                                        *)
LEMMA TakenInside ==
  ASSUME BatchTypes, NEW n \in 1..Len(stream)
  PROVE  /\ Deltas(n) \subseteq 1..n /\ Expired(n) \subseteq Events
         /\ DOMAIN stream = 1..Len(stream) /\ 1..n \subseteq DOMAIN stream
<1>1. stream \in Seq(StreamRecords) /\ Len(stream) \in Nat
  BY DEF BatchTypes
<1>2. DOMAIN stream = 1..Len(stream) /\ 1..n \subseteq DOMAIN stream
  BY <1>1
<1>3. \A i \in 1..n : stream[i].event \in Events \cup {NoEvent}
  <2>1. \A i \in 1..n : stream[i] \in StreamRecords
    BY <1>1, <1>2
  <2> QED
    BY <2>1 DEF StreamRecords
<1> QED
  BY <1>2, <1>3 DEF Deltas, Expired

(* A page and what the reader makes of it.                                   *)
LEMMA PageTypes ==
  ASSUME Types
  PROVE  /\ Stored \subseteq Hours /\ Stored \subseteq Nat /\ IsFiniteSet(Stored)
         /\ audit \subseteq Events /\ audit \subseteq Nat /\ IsFiniteSet(audit)
         /\ reader.cursor \in Nat
         /\ NextKey(Stored, reader.cursor) \in Nat /\ NextKey(audit, reader.cursor) \in Nat
         /\ Page(Stored, reader.cursor) \subseteq Hours /\ Page(audit, reader.cursor) \subseteq Events
<1>1. Stored \subseteq Hours
  BY DEF Stored
<1>2. Stored \subseteq Nat /\ IsFiniteSet(Stored)
  BY <1>1, HoursAre, FS_Subset
<1>3. audit \subseteq Events
  BY EventsAre, HistoryAssumption DEF Types, TrailTypes
<1>4. audit \subseteq Nat /\ IsFiniteSet(audit)
  BY <1>3, EventsAre, FS_Subset
<1>5. reader.cursor \in Nat
  BY DEF Types, ReaderTypes, Readers
<1>6. NextKey(Stored, reader.cursor) \in 0..reader.cursor /\ Page(Stored, reader.cursor) \subseteq Stored
  BY <1>2, <1>5, PageBounds
<1>7. NextKey(audit, reader.cursor) \in 0..reader.cursor /\ Page(audit, reader.cursor) \subseteq audit
  BY <1>4, <1>5, PageBounds
<1>8. 0..reader.cursor \subseteq Nat
  BY <1>5
<1> QED
  BY <1>1, <1>2, <1>3, <1>4, <1>5, <1>6, <1>7, <1>8, Zenon

LEMMA NoReaderTyped == NoReader \in Readers /\ NoSpan \in Spans
<1>1. LastHour \in Hours /\ 0 \in Hours /\ 0 \in Nat /\ 0 \in Int
  BY HoursAre
<1>2. [window |-> "any", start |-> 0, end |-> LastHour] \in Filters
  BY <1>1 DEF Filters
<1>3. [e \in Events |-> 0] \in [Events -> Nat]
  OBVIOUS
<1> QED
  BY <1>1, <1>2, <1>3 DEF NoReader, Readers, NoSpan, Spans

(* What one item of a summary's page or more widens stays a span.            *)
LEMMA WidenedTyped ==
  ASSUME ReaderTypes, NEW k \in Hours, NEW item \in Items
  PROVE  /\ Widened(k, item) \in Spans
         /\ Widened(k, item).there = span.there
         /\ \A h \in Hours : h # k => Widened(k, item).low[h] = span.low[h] /\ Widened(k, item).high[h] = span.high[h]
         /\ LET c == Contribution(k, item, reader.filter)
            IN  /\ Widened(k, item).low[k] = IF c < span.low[k] THEN c ELSE span.low[k]
                /\ Widened(k, item).high[k] = IF c > span.high[k] THEN c ELSE span.high[k]
<1>1. PICK c \in Int : c = Contribution(k, item, reader.filter)
  BY ContributionTyped
<1>2. PICK l \in Int, g \in Int : l = (IF c < span.low[k] THEN c ELSE span.low[k])
                                  /\ g = (IF c > span.high[k] THEN c ELSE span.high[k])
  BY DEF ReaderTypes, Spans
<1>3. Widened(k, item) = [span EXCEPT !.low = [@ EXCEPT ![k] = l], !.high = [@ EXCEPT ![k] = g]]
  BY <1>1, <1>2 DEF Widened
<1>4. /\ Widened(k, item) \in Spans /\ Widened(k, item).there = span.there
      /\ \A h \in Hours : h # k => Widened(k, item).low[h] = span.low[h] /\ Widened(k, item).high[h] = span.high[h]
      /\ Widened(k, item).low[k] = l /\ Widened(k, item).high[k] = g
  <2>1. span \in Spans
    BY DEF ReaderTypes
  <2>2. PICK low \in [Hours -> Int], high \in [Hours -> Int] : low = span.low /\ high = span.high
    BY <2>1 DEF Spans
  <2>3. /\ [low EXCEPT ![k] = l] \in [Hours -> Int] /\ [high EXCEPT ![k] = g] \in [Hours -> Int]
        /\ \A h \in Hours : h # k => [low EXCEPT ![k] = l][h] = low[h] /\ [high EXCEPT ![k] = g][h] = high[h]
        /\ [low EXCEPT ![k] = l][k] = l /\ [high EXCEPT ![k] = g][k] = g
    OBVIOUS
  <2>4. Widened(k, item) = [low |-> [low EXCEPT ![k] = l], high |-> [high EXCEPT ![k] = g], there |-> span.there]
    BY <1>3, <2>1, <2>2 DEF Spans
  <2>5. Widened(k, item) \in Spans
    BY <2>1, <2>3, <2>4 DEF Spans
  <2> QED
    BY <2>2, <2>3, <2>4, <2>5
<1> QED
  BY <1>1, <1>2, <1>4, Zenon

(* Every action keeps the types.                                             *)
LEMMA TypesStep ==
  ASSUME Types, [HistoryNext]_historyVars
  PROVE  Types'
<1> USE TypesKept DEF usage, trail
<1>1. CASE UNCHANGED historyVars
  BY <1>1 DEF historyVars, Types
<1>2. CASE Tick
  <2>1. BucketTypes'
    BY <1>2, HoursAre DEF Tick, Types, BucketTypes
  <2> QED
    BY <1>2, <2>1 DEF Tick, Types
<1>3. ASSUME NEW d \in Amounts, WriteBucket(d)
      PROVE  Types'
  <2>1. d \in Int /\ rf' \in 0..hour /\ rf' \in Hours /\ writes' \in Nat
    BY <1>3, HistoryAssumption, HoursAre DEF WriteBucket, Types, BucketTypes
  <2>2. BucketTypes'
    BY <1>3, <2>1 DEF WriteBucket, Types, BucketTypes
  <2>3. [at |-> rf', delta |-> d, event |-> NoEvent] \in StreamRecords
    BY <2>1 DEF StreamRecords
  <2>4. BatchTypes'
    BY <1>3, <2>3, StreamedTypes DEF WriteBucket, Types
  <2> QED
    BY <1>3, <2>2, <2>4 DEF WriteBucket, Types
<1>4. ASSUME NEW c \in Loggers, LogEvent(c)
      PROVE  Types'
  <2>1. issued' \in 1..MaxEvents /\ issued' = issued + 1
    BY <1>4, HistoryAssumption DEF LogEvent, Types, TrailTypes
  <2>2. hour + Retention(c) * HoursPerDay \in Nat
    <3>1. Retention(c) \in Nat /\ HoursPerDay \in Nat /\ hour \in Nat
      BY HistoryAssumption, HoursAre DEF Retention, Types, BucketTypes
    <3> QED
      BY <3>1
  <2>3. due' \in [Events -> Nat]
    BY <1>4, <2>1, <2>2 DEF LogEvent, Types, TrailTypes
  <2>4. TrailTypes'
    BY <1>4, <2>1, <2>3 DEF LogEvent, Types, TrailTypes
  <2> QED
    BY <1>4, <2>4 DEF LogEvent, Types
<1>5. ASSUME NEW e \in Events, PutEvent(e) \/ PutFails(e)
      PROVE  Types'
  <2>1. TrailTypes'
    BY <1>5 DEF PutEvent, PutFails, Types, TrailTypes
  <2> QED
    BY <1>5, <2>1 DEF PutEvent, PutFails, Types
<1>6. ASSUME NEW e \in Events, Expire(e)
      PROVE  Types'
  <2>1. [at |-> 0, delta |-> 0, event |-> e] \in StreamRecords
    BY HoursAre DEF StreamRecords
  <2>2. BatchTypes'
    BY <1>6, <2>1, StreamedTypes DEF Expire, Types
  <2>3. TrailTypes'
    BY <1>6 DEF Expire, Types, TrailTypes
  <2>4. ReaderTypes'
    BY <1>6 DEF Expire, Types, ReaderTypes, Spans
  <2> QED
    BY <1>6, <2>2, <2>3, <2>4 DEF Expire, Types
<1>7. ASSUME NEW n \in 1..(MaxChanges + MaxEvents), TakeBatch(n)
      PROVE  Types'
  <2>1. n \in 1..Len(stream)
    BY <1>7, HistoryAssumption DEF TakeBatch, Types, BatchTypes
  <2>2. Deltas(n) \subseteq 1..n /\ Expired(n) \subseteq Events /\ 1..n \subseteq DOMAIN stream
    BY <2>1, TakenInside DEF Types
  <2>3. agg' = [taken |-> n, left |-> Deltas(n) \X DOMAIN Windows, events |-> Expired(n)] /\ stream' = stream
    BY <1>7 DEF TakeBatch
  <2>4. \A p \in agg'.left : p[1] <= agg'.taken
    <3>1. \A p \in Deltas(n) \X DOMAIN Windows : p[1] \in 1..n
      BY <2>2
    <3> QED
      BY <2>1, <2>3, <3>1
  <2>5. BatchTypes'
    <3>1. Deltas(n) \X DOMAIN Windows \subseteq (DOMAIN stream) \X (DOMAIN Windows)
      BY <2>2
    <3> HIDE DEF BatchTypes
    <3> QED
      BY <2>1, <2>2, <2>3, <2>4, <3>1 DEF Types, BatchTypes
  <2> QED
    BY <1>7, <2>5 DEF TakeBatch, Types
<1>8. CASE UpdateSnapshot
  <2>1. PICK p : p = First(agg.left)
    OBVIOUS
  <2> DEFINE k == WindowKey(stream[p[1]].at, Windows[p[2]])
             item == Upserted(snapshots[k], Windows[p[2]], stream[p[1]].delta)
  <2>2. p \in agg.left /\ k \in Hours /\ Windows[p[2]] \in {"hourly", "daily"} /\ stream[p[1]].delta \in Int
    <3>1. /\ p \in agg.left /\ k \in Hours /\ Windows[p[2]] \in {"hourly", "daily"}
          /\ stream[p[1]] \in StreamRecords
      BY <1>8, <2>1, NextUpdate, TypesAre DEF UpdateSnapshot
    <3>2. stream[p[1]].delta \in Int
      BY <3>1, RecordTyped
    <3> HIDE DEF k
    <3> QED
      BY <3>1, <3>2
  <2>3. item \in Items
    BY <2>2, UpsertedTyped DEF Types, SnapshotTypes
  <2>4. Widened(k, item) \in Spans
    BY <2>2, <2>3, WidenedTyped DEF Types
  <2>5. /\ snapshots' = [snapshots EXCEPT ![k] = item]
        /\ span' \in {Widened(k, item), span}
        /\ agg' = [agg EXCEPT !.left = @ \ {p}]
        /\ UNCHANGED <<hour, rf, stream, writes, used, trail, reader, failures>>
    BY <1>8, <2>1 DEF UpdateSnapshot
  <2> HIDE DEF k, item
  <2>6. SnapshotTypes'
    BY <2>2, <2>3, <2>5 DEF Types, SnapshotTypes
  <2>7. ReaderTypes'
    BY <2>4, <2>5 DEF Types, ReaderTypes
  <2>8. BatchTypes'
    BY <2>5 DEF Types, BatchTypes
  <2> QED
    BY <2>5, <2>6, <2>7, <2>8 DEF Types
<1>9. CASE UpdateFails
  <2>1. BatchTypes'
    BY <1>9 DEF UpdateFails, Types, BatchTypes
  <2> QED
    BY <1>9, <2>1 DEF UpdateFails, Types
<1>10. CASE Archive \/ ArchiveFails
  <2>1. BatchTypes'
    BY <1>10 DEF Archive, ArchiveFails, Types, BatchTypes
  <2>2. agg.events \subseteq Events
    BY DEF Types, BatchTypes
  <2>3. TrailTypes'
    BY <1>10, <2>2 DEF Archive, ArchiveFails, Types, TrailTypes
  <2> QED
    BY <1>10, <2>1, <2>3 DEF Archive, ArchiveFails, Types
<1>11. CASE Return
  <2>1. stream' = SubSeq(stream, agg.taken + 1, Len(stream)) /\ agg' = Idle
    BY <1>11 DEF Return
  <2>2. stream' \in Seq(StreamRecords)
    <3>1. stream \in Seq(StreamRecords) /\ agg.taken \in Nat
      BY DEF Types, BatchTypes
    <3> QED
      BY <2>1, <3>1
  <2>3. 0 \in 0..Len(stream')
    BY <2>2
  <2>4. BatchTypes'
    BY <2>1, <2>2, <2>3 DEF BatchTypes, Idle
  <2> QED
    BY <1>11, <2>4 DEF Return, Types
<1>12. CASE Redeliver
  <2>1. 0 \in 0..Len(stream)
    BY DEF Types, BatchTypes
  <2>2. BatchTypes'
    BY <1>12, <2>1 DEF Redeliver, Types, BatchTypes, Idle
  <2> QED
    BY <1>12, <2>2 DEF Redeliver, Types
<1>13. ASSUME NEW f \in Asked, BeginUsage(f)
      PROVE  Types'
  <2>1. f \in Filters /\ LastHour + 1 \in Nat
    BY HistoryAssumption
  <2>2. reader' \in Readers
    BY <1>13, <2>1, NoReaderTyped DEF BeginUsage, Readers
  <2>3. [k \in Hours |-> Contribution(k, snapshots[k], f)] \in [Hours -> Int]
    BY ContributionTyped DEF Types, SnapshotTypes
  <2>4. span' \in Spans
    BY <1>13, <2>3, NoReaderTyped DEF BeginUsage, Spans
  <2> QED
    BY <1>13, <2>2, <2>4 DEF BeginUsage, Types, ReaderTypes
<1>14. CASE ReadUsage
  <2> DEFINE matching == {k \in Page(Stored, reader.cursor) : Matches(k, snapshots[k], reader.filter)}
  <2>1. matching \subseteq Hours /\ IsFiniteSet(matching)
    <3>1. matching \subseteq Hours
      BY PageTypes
    <3> QED
      BY <3>1, HoursAre, FS_Subset
  <2>2. TotalOf(matching) \in Int /\ Cardinality(matching) \in Nat
    BY <2>1, TotalTyped, TypesAre, FS_CardinalityType
  <2>3. PICK s \in {"done", "cut", "reading"} : reader' = [reader EXCEPT
           !.cursor = NextKey(Stored, reader.cursor),
           !.found = reader.found + Cardinality(matching),
           !.total = reader.total + TotalOf(matching),
           !.status = s]
    BY <1>14 DEF ReadUsage, Types, ReaderTypes, Readers
  <2> HIDE DEF matching
  <2>4. reader.found + Cardinality(matching) \in Nat /\ reader.total + TotalOf(matching) \in Int
    BY <2>2 DEF Types, ReaderTypes, Readers
  <2>5. reader' \in Readers
    BY <2>3, <2>4, PageTypes DEF Types, ReaderTypes, Readers
  <2> QED
    BY <1>14, <2>5 DEF ReadUsage, Types, ReaderTypes
<1>15. CASE ShowPage
  <2>1. ReaderTypes'
    BY <1>15 DEF ShowPage, Types, ReaderTypes, Readers
  <2> QED
    BY <1>15, <2>1 DEF ShowPage, Types
<1>16. CASE BeginAudit
  <2>1. MaxEvents + 1 \in Nat
    BY HistoryAssumption
  <2>2. reader' \in Readers
    BY <1>16, <2>1, NoReaderTyped DEF BeginAudit, Readers
  <2>3. span' \in Spans
    BY <1>16, NoReaderTyped, PageTypes DEF BeginAudit, Spans
  <2> QED
    BY <1>16, <2>2, <2>3 DEF BeginAudit, Types, ReaderTypes
<1>17. CASE ReadAudit
  <2>1. ReadToo(Page(audit, reader.cursor)) \in [Events -> Nat]
    BY DEF ReadToo, Types, ReaderTypes, Readers
  <2>2. PICK s \in {"done", "reading"} : reader' = [reader EXCEPT
           !.cursor = NextKey(audit, reader.cursor),
           !.times = ReadToo(Page(audit, reader.cursor)),
           !.status = s]
    BY <1>17 DEF ReadAudit, Types, ReaderTypes, Readers
  <2>3. reader' \in Readers
    BY <2>1, <2>2, PageTypes DEF Types, ReaderTypes, Readers
  <2> QED
    BY <1>17, <2>3 DEF ReadAudit, Types, ReaderTypes
<1>18. CASE Report
  BY <1>18, NoReaderTyped DEF Report, Types, ReaderTypes
<1> QED
  BY <1>1, <1>2, <1>3, <1>4, <1>5, <1>6, <1>7, <1>8, <1>9, <1>10, <1>11, <1>12, <1>13, <1>14, <1>15,
     <1>16, <1>17, <1>18 DEF HistoryNext, Table, Handler, Reader

(* The first states have the types.                                          *)
LEMMA TypesInit == HistoryInit => Types
<1> SUFFICES ASSUME HistoryInit PROVE Types
  OBVIOUS
<1>1. SnapshotTypes
  BY DEF HistoryInit, NoSnapshot, SnapshotTypes, Items
<1>2. BatchTypes
  <2>1. stream = <<>> /\ Len(stream) = 0 /\ stream \in Seq(StreamRecords) /\ agg = Idle
    BY DEF HistoryInit
  <2>2. Idle \in [taken : 0..Len(stream), left : SUBSET ((DOMAIN stream) \X (DOMAIN Windows)), events : SUBSET Events]
    BY <2>1 DEF Idle
  <2> QED
    BY <2>1, <2>2 DEF BatchTypes, Idle
<1>3. BucketTypes
  BY HoursAre DEF HistoryInit, BucketTypes
<1>4. TrailTypes
  BY HistoryAssumption DEF HistoryInit, TrailTypes
<1>5. ReaderTypes
  BY NoReaderTyped DEF HistoryInit, ReaderTypes
<1> QED
  BY <1>1, <1>2, <1>3, <1>4, <1>5 DEF Types

(* Variables have their types, the batch at hand is in the stream, and an id *)
(* is in one place at a time: pending, in the table, or gone.                *)
THEOREM HistoryTypeCorrect == HistorySpec => []HistoryTypeOK
<1>1. HistoryInit => Types
  BY TypesInit
<1>2. Types /\ [HistoryNext]_historyVars => Types'
  BY TypesStep
<1>3. Types => HistoryTypeOK
  BY TypesAre
<1> QED
  BY <1>1, <1>2, <1>3, PTL DEF HistorySpec

-------------------------------------------------------------------------------
(* The way to the archive *)

InStream == {stream[i].event : i \in DOMAIN stream}

(* What the handler has taken it has in hand, archived, or failed to.        *)
HandedOn ==
  EnableArchival =>
    \A i \in 1..agg.taken : stream[i].event \in {NoEvent} \cup agg.events \cup (UNION archive) \cup lost

ArchiveInv == Types /\ RemovalsArchived /\ HandedOn

(* The stream grows at its end, if its filter lets the record through.       *)
LEMMA StreamedAt ==
  ASSUME BatchTypes, NEW kind, NEW rec \in StreamRecords, stream' = Streamed(kind, rec)
  PROVE  /\ \A i \in DOMAIN stream : i \in DOMAIN stream' /\ stream'[i] = stream[i]
         /\ kind \in Delivered => Len(stream) + 1 \in DOMAIN stream' /\ stream'[Len(stream) + 1] = rec
         /\ DOMAIN stream = 1..Len(stream) /\ Len(stream) \in Nat /\ 1..agg.taken \subseteq DOMAIN stream
<1>1. stream \in Seq(StreamRecords) /\ agg.taken \in 0..Len(stream)
  BY DEF BatchTypes
<1>2. stream' = IF kind \in Delivered THEN Append(stream, rec) ELSE stream
  BY DEF Streamed
<1> QED
  BY <1>1, <1>2

(* What is put stays in the table, on its way, or is archived, if removals   *)
(* are delivered.                                                            *)
LEMMA ArchiveStep ==
  ASSUME "REMOVE" \in Delivered, ArchiveInv, [HistoryNext]_historyVars
  PROVE  ArchiveInv'
<1> USE DEF usage, trail
<1>1. Types /\ Types'
  BY TypesStep DEF ArchiveInv
<1>2. SUFFICES ASSUME EnableArchival
               PROVE  RemovalsArchived' /\ HandedOn'
  BY <1>1 DEF ArchiveInv, RemovalsArchived, HandedOn
<1>3. /\ put \subseteq audit \cup InStream \cup (UNION archive) \cup lost
      /\ \A i \in 1..agg.taken : stream[i].event \in {NoEvent} \cup agg.events \cup (UNION archive) \cup lost
  BY <1>2 DEF ArchiveInv, RemovalsArchived, PassedOn, HandedOn, InStream
<1> DEFINE Aim == /\ put' \subseteq audit' \cup InStream' \cup (UNION archive') \cup lost'
                  /\ \A i \in 1..agg'.taken :
                       stream'[i].event \in {NoEvent} \cup agg'.events \cup (UNION archive') \cup lost'
<1>4. SUFFICES Aim
  BY <1>2 DEF RemovalsArchived, PassedOn, HandedOn, InStream
<1>5. put \subseteq Events /\ 0 \notin put
  BY <1>1, EventsAre, HistoryAssumption DEF Types, TrailTypes
<1>6. CASE UNCHANGED <<stream, agg, audit, archive, put, lost>>
  BY <1>3, <1>6 DEF InStream
<1>7. CASE Tick \/ UNCHANGED historyVars
  BY <1>6, <1>7 DEF Tick, historyVars
<1>8. ASSUME NEW d \in Amounts, WriteBucket(d)
      PROVE  Aim
  <2>1. d \in Int /\ rf' \in Hours
    BY <1>1, HistoryAssumption DEF Types, BucketTypes, Hours
  <2>2. [at |-> rf', delta |-> d, event |-> NoEvent] \in StreamRecords
    BY <2>1 DEF StreamRecords
  <2>3. /\ \A i \in DOMAIN stream : i \in DOMAIN stream' /\ stream'[i] = stream[i]
        /\ 1..agg.taken \subseteq DOMAIN stream
    BY <1>1, <1>8, <2>2, StreamedAt DEF WriteBucket, Types
  <2>4. InStream \subseteq InStream' /\ UNCHANGED <<agg, audit, archive, put, lost>>
    BY <1>8, <2>3 DEF InStream, WriteBucket
  <2> QED
    BY <1>3, <2>3, <2>4
<1>9. ASSUME NEW c \in Loggers, LogEvent(c)
      PROVE  Aim
  BY <1>6, <1>9 DEF LogEvent
<1>10. ASSUME NEW e \in Events, PutEvent(e) \/ PutFails(e)
      PROVE  Aim
  <2>1. /\ put' \ put \subseteq audit' /\ audit \subseteq audit'
        /\ UNCHANGED <<stream, agg, archive, lost>>
    BY <1>10 DEF PutEvent, PutFails
  <2> QED
    BY <1>3, <2>1 DEF InStream
<1>11. ASSUME NEW e \in Events, Expire(e)
      PROVE  Aim
  <2>1. PICK rec : rec = [at |-> 0, delta |-> 0, event |-> e]
    OBVIOUS
  <2>2. rec \in StreamRecords /\ rec.event = e
    BY <2>1, HoursAre DEF StreamRecords
  <2>3. /\ \A i \in DOMAIN stream : i \in DOMAIN stream' /\ stream'[i] = stream[i]
        /\ Len(stream) + 1 \in DOMAIN stream' /\ stream'[Len(stream) + 1] = rec
        /\ 1..agg.taken \subseteq DOMAIN stream
    BY <1>1, <1>11, <2>1, <2>2, StreamedAt DEF Expire, Types
  <2>4. InStream \subseteq InStream' /\ e \in InStream'
    BY <2>2, <2>3 DEF InStream
  <2>5. audit' = audit \ {e} /\ UNCHANGED <<agg, archive, put, lost>>
    BY <1>11 DEF Expire
  <2> QED
    BY <1>3, <2>3, <2>4, <2>5
<1>12. ASSUME NEW n \in 1..(MaxChanges + MaxEvents), TakeBatch(n)
      PROVE  Aim
  <2>1. agg'.taken = n /\ agg'.events = Expired(n) /\ UNCHANGED <<stream, audit, archive, put, lost>>
    BY <1>12 DEF TakeBatch
  <2>2. \A i \in 1..n : stream[i].event \in {NoEvent} \cup Expired(n)
    BY <1>2 DEF Expired
  <2> QED
    BY <1>3, <2>1, <2>2 DEF InStream
<1>13. CASE UpdateSnapshot \/ UpdateFails
  <2>1. agg'.taken = agg.taken /\ agg'.events = agg.events /\ UNCHANGED <<stream, audit, archive, put, lost>>
    <3>1. PICK l : agg' = [agg EXCEPT !.left = l]
      BY <1>13 DEF UpdateSnapshot, UpdateFails
    <3>2. agg'.taken = agg.taken /\ agg'.events = agg.events
      BY <1>1, <3>1 DEF Types, BatchTypes
    <3> QED
      BY <1>13, <3>2 DEF UpdateSnapshot, UpdateFails
  <2> QED
    BY <1>3, <2>1 DEF InStream
<1>14. CASE Archive \/ ArchiveFails
  <2>1. /\ agg'.taken = agg.taken /\ UNCHANGED <<stream, audit, put>>
        /\ agg.events \cup (UNION archive) \cup lost \subseteq (UNION archive') \cup lost'
    <3>1. agg' = [agg EXCEPT !.events = {}] /\ UNCHANGED <<stream, audit, put>>
      BY <1>14 DEF Archive, ArchiveFails
    <3>2. agg'.taken = agg.taken
      BY <1>1, <3>1 DEF Types, BatchTypes
    <3> QED
      BY <1>14, <3>1, <3>2 DEF Archive, ArchiveFails
  <2> QED
    BY <1>3, <2>1 DEF InStream
<1>15. CASE Return
  <2>1. /\ stream' = SubSeq(stream, agg.taken + 1, Len(stream)) /\ agg.events = {}
        /\ agg' = Idle /\ UNCHANGED <<audit, archive, put, lost>>
    BY <1>15 DEF Return
  <2>2. stream \in Seq(StreamRecords) /\ agg.taken \in 0..Len(stream) /\ Len(stream) \in Nat
    BY <1>1 DEF Types, BatchTypes
  <2>3. \A i \in DOMAIN stream : i > agg.taken => i - agg.taken \in DOMAIN stream' /\ stream'[i - agg.taken] = stream[i]
    BY <2>1, <2>2
  <2>4. ASSUME NEW x \in InStream, x # NoEvent
        PROVE  x \in InStream' \cup (UNION archive) \cup lost
    <3>1. PICK i \in DOMAIN stream : x = stream[i].event
      BY <2>4 DEF InStream
    <3>2. i \in 1..Len(stream)
      BY <2>2
    <3>3. CASE i > agg.taken
      BY <2>3, <3>1, <3>3 DEF InStream
    <3>4. CASE i <= agg.taken
      <4>1. i \in 1..agg.taken
        BY <2>2, <3>2, <3>4
      <4> QED
        BY <1>3, <2>1, <2>4, <3>1, <4>1
    <3> QED
      BY <2>2, <3>2, <3>3, <3>4
  <2>5. agg'.taken = 0 /\ 1..0 = {}
    BY <2>1 DEF Idle
  <2>6. put' \subseteq audit' \cup InStream' \cup (UNION archive') \cup lost'
    BY <1>3, <1>5, <2>1, <2>4 DEF NoEvent
  <2> QED
    BY <2>5, <2>6
<1>16. CASE Redeliver
  <2>1. agg'.taken = 0 /\ 1..0 = {} /\ UNCHANGED <<stream, audit, archive, put, lost>>
    BY <1>16 DEF Redeliver, Idle
  <2> QED
    BY <1>3, <2>1 DEF InStream
<1>17. CASE Reader
  BY <1>6, <1>17 DEF Reader, BeginUsage, ReadUsage, ShowPage, BeginAudit, ReadAudit, Report
<1> QED
  BY <1>7, <1>8, <1>9, <1>10, <1>11, <1>12, <1>13, <1>14, <1>15, <1>16, <1>17
     DEF HistoryNext, Table, Handler

(* Whatever the filter of the event source is, no removal it delivers is lost *)
(* between the stream and the archive, however batches are cut and           *)
(* redelivered, but for those whose archiving failed: RemovalsArchived of    *)
(* the run "history".                                                        *)
THEOREM RemovalsAlwaysArchived == HistorySpec => []RemovalsArchived
<1>1. CASE "REMOVE" \in Delivered
  <2>1. HistoryInit => ArchiveInv
    <3> SUFFICES ASSUME HistoryInit PROVE ArchiveInv
      OBVIOUS
    <3>1. put = {} /\ agg.taken = 0 /\ 1..0 = {}
      BY DEF HistoryInit, Idle
    <3> QED
      BY <3>1, TypesInit DEF ArchiveInv, RemovalsArchived, HandedOn
  <2>2. ArchiveInv /\ [HistoryNext]_historyVars => ArchiveInv'
    BY <1>1, ArchiveStep
  <2>3. ArchiveInv => RemovalsArchived
    BY DEF ArchiveInv
  <2> QED
    BY <2>1, <2>2, <2>3, PTL DEF HistorySpec
<1>2. CASE "REMOVE" \notin Delivered
  <2>1. RemovalsArchived
    BY <1>2 DEF RemovalsArchived
  <2> QED
    BY <2>1, PTL
<1> QED
  BY <1>1, <1>2

-------------------------------------------------------------------------------
(* Pages of events *)

(* What the reader has passed it has read, once; what it has not passed and   *)
(* was there when it began is there still.                                   *)
PagedOnce ==
  /\ span.there \subseteq audit
  /\ reader.kind = "audit" =>
       /\ \A e \in Events : reader.times[e] <= 1 /\ (reader.times[e] = 1 => e >= reader.cursor)
       /\ \A e \in span.there : e >= reader.cursor => reader.times[e] = 1
       /\ reader.status = "done" => reader.cursor = 0

(* Who reads a page passes what is on it, and nothing else.                  *)
LEMMA PagedOnceStep ==
  ASSUME Types, PagedOnce, [HistoryNext]_historyVars
  PROVE  PagedOnce'
<1> USE DEF usage, trail
<1>1. Types'
  BY TypesStep
<1>2. CASE audit \subseteq audit' /\ span'.there = span.there /\ reader' = reader
  BY <1>2 DEF PagedOnce
<1>3. CASE Tick \/ UNCHANGED historyVars
  BY <1>2, <1>3 DEF Tick, historyVars
<1>4. ASSUME NEW d \in Amounts, WriteBucket(d)
      PROVE  PagedOnce'
  BY <1>2, <1>4 DEF WriteBucket
<1>5. ASSUME NEW c \in Loggers, LogEvent(c)
      PROVE  PagedOnce'
  BY <1>2, <1>5 DEF LogEvent
<1>6. ASSUME NEW e \in Events, PutEvent(e) \/ PutFails(e)
      PROVE  PagedOnce'
  BY <1>2, <1>6 DEF PutEvent, PutFails
<1>7. ASSUME NEW e \in Events, Expire(e)
      PROVE  PagedOnce'
  <2>1. audit' = audit \ {e} /\ span'.there = span.there \ {e} /\ reader' = reader
    BY <1>7 DEF Expire, Types, ReaderTypes, Spans
  <2> QED
    BY <2>1 DEF PagedOnce
<1>8. ASSUME NEW n \in 1..(MaxChanges + MaxEvents), TakeBatch(n)
      PROVE  PagedOnce'
  BY <1>2, <1>8 DEF TakeBatch
<1>9. CASE UpdateSnapshot
  <2>1. audit' = audit /\ reader' = reader
    BY <1>9 DEF UpdateSnapshot
  <2>2. \A k, item : Widened(k, item).there = span.there
    BY DEF Widened, Types, ReaderTypes, Spans
  <2>3. span'.there = span.there
    <3>1. span' = span \/ \E k, item : span' = Widened(k, item)
      BY <1>9, Zenon DEF UpdateSnapshot
    <3> QED
      BY <2>2, <3>1
  <2> QED
    BY <1>2, <2>1, <2>3
<1>10. CASE UpdateFails \/ Archive \/ ArchiveFails \/ Return \/ Redeliver
  BY <1>2, <1>10 DEF UpdateFails, Archive, ArchiveFails, Return, Redeliver
<1>11. ASSUME NEW f \in Asked, BeginUsage(f)
      PROVE  PagedOnce'
  BY <1>11 DEF BeginUsage, NoReader, NoSpan, PagedOnce
<1>12. CASE ReadUsage \/ ShowPage
  <2>1. reader.kind = "usage" /\ reader'.kind = reader.kind /\ UNCHANGED <<audit, span>>
    BY <1>12 DEF ReadUsage, ShowPage, Types, ReaderTypes, Readers
  <2> QED
    BY <2>1 DEF PagedOnce
<1>13. CASE BeginAudit
  <2>1. /\ reader' = [NoReader EXCEPT !.kind = "audit", !.cursor = MaxEvents + 1, !.status = "reading"]
        /\ span'.there = audit /\ audit' = audit
    BY <1>13 DEF BeginAudit, NoSpan
  <2>2. /\ reader'.cursor = MaxEvents + 1 /\ reader'.status = "reading"
        /\ \A e \in Events : reader'.times[e] = 0 /\ ~(e >= MaxEvents + 1)
    BY <2>1, EventsAre, HistoryAssumption DEF NoReader
  <2>3. audit \subseteq Events
    BY PageTypes
  <2> QED
    BY <2>1, <2>2, <2>3 DEF PagedOnce
<1>14. CASE ReadAudit
  <2> DEFINE c == reader.cursor
             n == NextKey(audit, c)
             page == Page(audit, c)
  <2>1. /\ reader.kind = "audit" /\ reader'.kind = "audit" /\ reader'.cursor = n
        /\ reader'.times = ReadToo(page) /\ UNCHANGED <<audit, span>>
        /\ reader'.status = "done" => LastPage(audit, c)
    BY <1>14 DEF ReadAudit, Types, ReaderTypes, Readers
  <2>2. audit \subseteq Nat /\ IsFiniteSet(audit) /\ c \in Nat /\ audit \subseteq Events
    BY PageTypes
  <2>3. /\ n \in 0..c /\ (LastPage(audit, c) => n = 0) /\ page \subseteq audit
        /\ \A i \in page : n <= i /\ i < c
        /\ \A i \in audit : n <= i /\ i < c => i \in page
    BY <2>2, PageBounds
  <2>4. \A e \in Events : reader'.times[e] = reader.times[e] + IF e \in page THEN 1 ELSE 0
    BY <2>1 DEF ReadToo
  <2>5. \A e \in Events : reader.times[e] \in Nat /\ e \in Nat
    BY EventsAre DEF Types, ReaderTypes, Readers
  <2>6. /\ span.there \subseteq audit
        /\ \A e \in Events : reader.times[e] <= 1 /\ (reader.times[e] = 1 => e >= c)
        /\ \A e \in span.there : e >= c => reader.times[e] = 1
    BY <2>1 DEF PagedOnce
  <2> HIDE DEF c, n, page
  <2>7. ASSUME NEW e \in Events
        PROVE  reader'.times[e] <= 1 /\ (reader'.times[e] = 1 => e >= n)
    <3>1. CASE e \in page
      <4>1. reader.times[e] = 0
        BY <2>2, <2>3, <2>5, <2>6, <3>1
      <4> QED
        BY <2>3, <2>4, <3>1, <4>1
    <3>2. CASE e \notin page
      <4>1. reader'.times[e] = reader.times[e]
        BY <2>4, <2>5, <3>2
      <4>2. e >= c => e >= n
        BY <2>2, <2>3, <2>5
      <4> QED
        BY <2>6, <4>1, <4>2
    <3> QED
      BY <3>1, <3>2
  <2>8. ASSUME NEW e \in span.there, e >= n
        PROVE  reader'.times[e] = 1
    <3>1. e \in Events /\ e \in audit
      BY <2>2, <2>6
    <3>2. CASE e >= c
      <4>1. e \notin page /\ reader.times[e] = 1
        BY <2>2, <2>3, <2>5, <2>6, <3>1, <3>2
      <4> QED
        BY <2>4, <3>1, <4>1
    <3>3. CASE ~(e >= c)
      <4>1. e \in page /\ reader.times[e] = 0
        BY <2>2, <2>3, <2>5, <2>6, <2>8, <3>1, <3>3
      <4> QED
        BY <2>4, <3>1, <4>1
    <3> QED
      BY <3>2, <3>3
  <2>9. reader'.status = "done" => n = 0
    BY <2>1, <2>3
  <2> QED
    BY <2>1, <2>6, <2>7, <2>8, <2>9 DEF PagedOnce
<1>15. CASE Report
  BY <1>15 DEF Report, NoReader, NoSpan, PagedOnce
<1> QED
  BY <1>3, <1>4, <1>5, <1>6, <1>7, <1>8, <1>9, <1>10, <1>11, <1>12, <1>13, <1>14, <1>15
     DEF HistoryNext, Table, Handler, Reader

(* For any page size, and whatever is logged, put late or expires meanwhile: *)
(* no event is on two pages, and none that stays is on no page.              *)
THEOREM PagesComplete == HistorySpec => []AuditPagesComplete
<1>1. HistoryInit => Types /\ PagedOnce
  BY TypesInit DEF HistoryInit, PagedOnce, NoSpan, NoReader
<1>2. Types /\ PagedOnce /\ [HistoryNext]_historyVars => (Types /\ PagedOnce)'
  BY TypesStep, PagedOnceStep
<1>3. Types /\ PagedOnce => AuditPagesComplete
  <2> SUFFICES ASSUME Types, PagedOnce, reader.kind = "audit" PROVE AuditPagesComplete
    BY DEF AuditPagesComplete
  <2>1. \A e \in span.there : e >= 0
    BY PageTypes DEF PagedOnce
  <2> QED
    BY <2>1 DEF AuditPagesComplete, PagedOnce
<1> QED
  BY <1>1, <1>2, <1>3, PTL DEF HistorySpec

-------------------------------------------------------------------------------
(* Summaries *)

\* The hours the reader has passed.
PassedFrom(cursor) == {k \in Hours : k >= cursor}

SumLow(cursor) == SumFunctionOnSet(span.low, PassedFrom(cursor))
SumHigh(cursor) == SumFunctionOnSet(span.high, PassedFrom(cursor))

(* What was read is between the least and the most there was of it; of what  *)
(* is still to be read, the span has what is there.                          *)
SummaryInv ==
  reader.kind = "usage" =>
    /\ SumLow(reader.cursor) <= reader.total /\ reader.total <= SumHigh(reader.cursor)
    /\ reader.status = "done" => reader.cursor = 0
    /\ reader.status = "reading" =>
         \A k \in Hours : LET c == Contribution(k, snapshots[k], reader.filter)
                          IN  span.low[k] <= c /\ c <= span.high[k]

(* The sums are numbers.                                                     *)
LEMMA SpanSums ==
  ASSUME ReaderTypes, NEW S \in SUBSET Hours
  PROVE  /\ IsFiniteSet(S)
         /\ SumFunctionOnSet(span.low, S) \in Int /\ SumFunctionOnSet(span.high, S) \in Int
<1>1. IsFiniteSet(S)
  BY HoursAre, FS_Subset
<1>2. \A k \in S : span.low[k] \in Int /\ span.high[k] \in Int
  BY DEF ReaderTypes, Spans
<1> QED
  BY <1>1, <1>2, SumInt

(* The total of what matches on a page is the sum of what the page's hours    *)
(* contribute.                                                               *)
LEMMA PageTotal ==
  ASSUME Types, NEW P \in SUBSET Hours, NEW matching,
         matching = {k \in P \cap Stored : Matches(k, snapshots[k], reader.filter)},
         NEW f, f = [k \in Hours |-> Contribution(k, snapshots[k], reader.filter)]
  PROVE  TotalOf(matching) = SumFunctionOnSet(f, P) /\ TotalOf(matching) \in Int
<1>1. IsFiniteSet(P) /\ IsFiniteSet(matching) /\ matching \subseteq P
  BY HoursAre, FS_Subset
<1>2. \A k \in P : f[k] \in Int
  BY ContributionTyped DEF Types, SnapshotTypes
<1>3. \A k \in P \ matching : f[k] = 0
  <2>1. \A k \in P : k \in Stored <=> snapshots[k].window # "none"
    BY DEF Stored, Exists
  <2>2. \A k \in P \ matching : ~Matches(k, snapshots[k], reader.filter)
    BY <2>1 DEF Matches
  <2> QED
    BY <2>2 DEF Contribution
<1>4. SumFunctionOnSet(f, P) = SumFunctionOnSet(f, matching)
  BY <1>1, <1>2, <1>3, SumPart
<1>5. PICK g : g = [k \in Hours |-> snapshots[k].count]
  OBVIOUS
<1>6. \A k \in matching : f[k] = g[k]
  BY <1>5 DEF Contribution
<1>7. SumFunctionOnSet(f, matching) = SumFunctionOnSet(g, matching)
  BY <1>1, <1>6, SumSame
<1>8. TotalOf(matching) = SumFunctionOnSet(g, matching)
  BY <1>5 DEF TotalOf
<1>9. matching \in SUBSET Hours
  BY <1>1
<1> QED
  BY <1>4, <1>7, <1>8, <1>9, TotalTyped, TypesAre

(* An update widens the span by what it makes of the item.                   *)
LEMMA WidenedSums ==
  ASSUME ReaderTypes, NEW k \in Hours, NEW item \in Items, span' = Widened(k, item), NEW S \in SUBSET Hours
  PROVE  /\ SumFunctionOnSet(span'.low, S) <= SumFunctionOnSet(span.low, S)
         /\ SumFunctionOnSet(span.high, S) <= SumFunctionOnSet(span'.high, S)
         /\ span'.low[k] <= Contribution(k, item, reader.filter)
         /\ Contribution(k, item, reader.filter) <= span'.high[k]
         /\ \A h \in Hours : h # k => span'.low[h] = span.low[h] /\ span'.high[h] = span.high[h]
<1>1. Contribution(k, item, reader.filter) \in Int
  BY ContributionTyped
<1>2. span \in Spans /\ span' \in Spans
  BY WidenedTyped DEF ReaderTypes
<1>3. \A h \in Hours : /\ span.low[h] \in Int /\ span.high[h] \in Int
                       /\ span'.low[h] \in Int /\ span'.high[h] \in Int
  BY <1>2 DEF Spans
<1>4. /\ \A h \in Hours : h # k => span'.low[h] = span.low[h] /\ span'.high[h] = span.high[h]
      /\ LET c == Contribution(k, item, reader.filter)
         IN  /\ span'.low[k] = IF c < span.low[k] THEN c ELSE span.low[k]
             /\ span'.high[k] = IF c > span.high[k] THEN c ELSE span.high[k]
  BY WidenedTyped
<1>5. \A h \in Hours : span'.low[h] <= span.low[h] /\ span.high[h] <= span'.high[h]
  BY <1>1, <1>3, <1>4
<1>6. SumFunctionOnSet(span'.low, S) <= SumFunctionOnSet(span.low, S)
  BY <1>3, <1>5, SpanSums, SumMonotone
<1>7. SumFunctionOnSet(span.high, S) <= SumFunctionOnSet(span'.high, S)
  BY <1>3, <1>5, SpanSums, SumMonotone
<1> QED
  BY <1>1, <1>3, <1>4, <1>6, <1>7

(* Reading a page adds to the total what lies between the bounds of its      *)
(* hours.                                                                    *)
LEMMA SummaryRead ==
  ASSUME Types, Types', SummaryInv, ReadUsage
  PROVE  SummaryInv'
<1> DEFINE c == reader.cursor
           n == NextKey(Stored, c)
           P == {k \in Hours : n <= k /\ k < c}
           f == [k \in Hours |-> Contribution(k, snapshots[k], reader.filter)]
           matching == {k \in Page(Stored, c) : Matches(k, snapshots[k], reader.filter)}
<1>1. /\ reader.kind = "usage" /\ reader.status = "reading" /\ reader'.cursor = n
      /\ reader'.total = reader.total + TotalOf(matching) /\ reader'.filter = reader.filter
      /\ reader'.kind = "usage" /\ (reader'.status = "done" => LastPage(Stored, c))
      /\ UNCHANGED <<snapshots, span>>
  BY DEF ReadUsage, usage, Types, ReaderTypes, Readers
<1>2. c \in Nat /\ Stored \subseteq Nat /\ Stored \subseteq Hours /\ IsFiniteSet(Stored)
  BY PageTypes
<1>3. n \in 0..c /\ (LastPage(Stored, c) => n = 0) /\ Page(Stored, c) = P \cap Stored
  <2>1. /\ n \in 0..c /\ (LastPage(Stored, c) => n = 0) /\ Page(Stored, c) \subseteq Stored
        /\ \A i \in Page(Stored, c) : n <= i /\ i < c
        /\ \A i \in Stored : n <= i /\ i < c => i \in Page(Stored, c)
    BY <1>2, PageBounds
  <2> HIDE DEF n, c
  <2> QED
    BY <1>2, <2>1
<1>4. TotalOf(matching) = SumFunctionOnSet(f, P) /\ TotalOf(matching) \in Int
  <2>1. matching = {k \in P \cap Stored : Matches(k, snapshots[k], reader.filter)} /\ P \in SUBSET Hours
    BY <1>3
  <2> HIDE DEF matching, P, f
  <2>2. f = [k \in Hours |-> Contribution(k, snapshots[k], reader.filter)]
    BY DEF f
  <2> QED
    BY <2>1, <2>2, PageTotal
<1>5. \A k \in Hours : f[k] \in Int /\ span.low[k] <= f[k] /\ f[k] <= span.high[k]
  <2>1. \A k \in Hours : Contribution(k, snapshots[k], reader.filter) \in Int
    BY ContributionTyped DEF Types, SnapshotTypes
  <2> QED
    BY <1>1, <2>1 DEF SummaryInv
<1>6. \A k \in Hours : span.low[k] \in Int /\ span.high[k] \in Int
  BY DEF Types, ReaderTypes, Spans
<1> DEFINE R == PassedFrom(c)
           T == PassedFrom(n)
<1>7. R \in SUBSET Hours /\ P \in SUBSET Hours /\ T = R \cup P /\ R \cap P = {} /\ IsFiniteSet(R) /\ IsFiniteSet(P)
  <2>1. R \in SUBSET Hours /\ P \in SUBSET Hours
    BY DEF PassedFrom
  <2>2. IsFiniteSet(R) /\ IsFiniteSet(P)
    BY <2>1, HoursAre, FS_Subset
  <2>3. \A k \in Hours : k \in Nat /\ n \in Nat /\ n <= c
    BY <1>2, <1>3, HoursAre
  <2>4. T = R \cup P /\ R \cap P = {}
    <3>1. R = {k \in Hours : c <= k} /\ T = {k \in Hours : n <= k}
      BY DEF PassedFrom
    <3>2. \A k \in Hours : k \in Nat /\ n \in Nat /\ c \in Nat /\ n <= c
      BY <1>2, <2>3
    <3> HIDE DEF n, c, R, T
    <3>3. \A k \in Hours : (n <= k <=> c <= k \/ (n <= k /\ k < c)) /\ ~(c <= k /\ k < c)
      BY <3>2
    <3> QED
      BY <3>1, <3>3
  <2> QED
    BY <2>1, <2>2, <2>4
<1> HIDE DEF f, P, R, T, n, matching
<1>8. SumFunctionOnSet(span.low, P) <= SumFunctionOnSet(f, P)
  BY <1>5, <1>6, <1>7, SumMonotone
<1>9. SumFunctionOnSet(f, P) <= SumFunctionOnSet(span.high, P)
  BY <1>5, <1>6, <1>7, SumMonotone
<1>10. /\ SumFunctionOnSet(span.low, T) = SumFunctionOnSet(span.low, R) + SumFunctionOnSet(span.low, P)
       /\ SumFunctionOnSet(span.high, T) = SumFunctionOnSet(span.high, R) + SumFunctionOnSet(span.high, P)
  <2>1. \A k \in R \cup P : span.low[k] \in Int /\ span.high[k] \in Int
    BY <1>6, <1>7
  <2>2. SumFunctionOnSet(span.low, R \cup P) = SumFunctionOnSet(span.low, R) + SumFunctionOnSet(span.low, P)
    BY <1>7, <2>1, SumDisjoint
  <2>3. SumFunctionOnSet(span.high, R \cup P) = SumFunctionOnSet(span.high, R) + SumFunctionOnSet(span.high, P)
    BY <1>7, <2>1, SumDisjoint
  <2> QED
    BY <1>7, <2>2, <2>3
<1>11. /\ SumFunctionOnSet(span.low, R) \in Int /\ SumFunctionOnSet(span.high, R) \in Int
       /\ SumFunctionOnSet(span.low, P) \in Int /\ SumFunctionOnSet(span.high, P) \in Int
       /\ reader.total \in Int
  BY <1>7, SpanSums DEF Types, ReaderTypes, Readers
<1>12. SumFunctionOnSet(span.low, R) <= reader.total /\ reader.total <= SumFunctionOnSet(span.high, R)
  BY <1>1 DEF SummaryInv, SumLow, SumHigh, R
<1>13. SumFunctionOnSet(span.low, T) <= reader'.total /\ reader'.total <= SumFunctionOnSet(span.high, T)
  BY <1>1, <1>4, <1>8, <1>9, <1>10, <1>11, <1>12
<1>14. (SumLow(reader.cursor))' <= reader'.total /\ reader'.total <= (SumHigh(reader.cursor))'
  <2>1. (SumLow(reader.cursor))' = SumFunctionOnSet(span.low, T) /\ (SumHigh(reader.cursor))' = SumFunctionOnSet(span.high, T)
    BY <1>1 DEF SumLow, SumHigh, PassedFrom, T
  <2> QED
    BY <1>13, <2>1
<1>15. \A k \in Hours : LET d == Contribution(k, snapshots'[k], reader'.filter)
                        IN  span'.low[k] <= d /\ d <= span'.high[k]
  BY <1>1, <1>5 DEF f
<1> QED
  BY <1>1, <1>3, <1>14, <1>15 DEF SummaryInv

LEMMA SummaryStep ==
  ASSUME Types, SummaryInv, [HistoryNext]_historyVars
  PROVE  SummaryInv'
<1> USE DEF usage, trail
<1>1. Types'
  BY TypesStep
<1>2. CASE UNCHANGED <<snapshots, reader>> /\ span'.low = span.low /\ span'.high = span.high
  BY <1>2 DEF SummaryInv, SumLow, SumHigh
<1>3. CASE Tick \/ UNCHANGED historyVars
  BY <1>2, <1>3 DEF Tick, historyVars
<1>4. ASSUME NEW d \in Amounts, WriteBucket(d)
      PROVE  SummaryInv'
  BY <1>2, <1>4 DEF WriteBucket
<1>5. ASSUME NEW c \in Loggers, LogEvent(c)
      PROVE  SummaryInv'
  BY <1>2, <1>5 DEF LogEvent
<1>6. ASSUME NEW e \in Events, PutEvent(e) \/ PutFails(e)
      PROVE  SummaryInv'
  BY <1>2, <1>6 DEF PutEvent, PutFails
<1>7. ASSUME NEW e \in Events, Expire(e)
      PROVE  SummaryInv'
  <2>1. span'.low = span.low /\ span'.high = span.high /\ UNCHANGED <<snapshots, reader>>
    BY <1>7 DEF Expire, Types, ReaderTypes, Spans
  <2> QED
    BY <1>2, <2>1
<1>8. ASSUME NEW n \in 1..(MaxChanges + MaxEvents), TakeBatch(n)
      PROVE  SummaryInv'
  BY <1>2, <1>8 DEF TakeBatch
<1>9. CASE UpdateSnapshot
  <2>1. PICK k \in Hours, item \in Items :
          /\ snapshots' = [snapshots EXCEPT ![k] = item]
          /\ span' = IF reader.kind = "usage" /\ reader.status = "reading" THEN Widened(k, item) ELSE span
    <3>1. PICK p : p = First(agg.left)
      OBVIOUS
    <3> DEFINE k == WindowKey(stream[p[1]].at, Windows[p[2]])
               item == Upserted(snapshots[k], Windows[p[2]], stream[p[1]].delta)
    <3>2. k \in Hours /\ Windows[p[2]] \in {"hourly", "daily"} /\ stream[p[1]] \in StreamRecords
      BY <1>9, <3>1, NextUpdate, TypesAre DEF UpdateSnapshot
    <3>3. stream[p[1]].delta \in Int
      BY <3>2, RecordTyped
    <3>4. item \in Items
      BY <3>2, <3>3, UpsertedTyped DEF Types, SnapshotTypes
    <3>5. /\ snapshots' = [snapshots EXCEPT ![k] = item]
          /\ span' = IF reader.kind = "usage" /\ reader.status = "reading" THEN Widened(k, item) ELSE span
      BY <1>9, <3>1 DEF UpdateSnapshot
    <3> HIDE DEF k, item
    <3> QED
      BY <3>2, <3>4, <3>5
  <2>2. reader' = reader
    BY <1>9 DEF UpdateSnapshot
  <2>3. CASE ~(reader.kind = "usage" /\ reader.status = "reading")
    BY <2>1, <2>2, <2>3 DEF SummaryInv, SumLow, SumHigh
  <2>4. CASE reader.kind = "usage" /\ reader.status = "reading"
    <3>1. span' = Widened(k, item) /\ ReaderTypes
      BY <2>1, <2>4 DEF Types
    <3>2. PassedFrom(reader.cursor) \in SUBSET Hours
      BY DEF PassedFrom
    <3>3. /\ (SumLow(reader.cursor))' <= SumLow(reader.cursor) /\ SumHigh(reader.cursor) <= (SumHigh(reader.cursor))'
          /\ span'.low[k] <= Contribution(k, item, reader.filter)
          /\ Contribution(k, item, reader.filter) <= span'.high[k]
          /\ \A h \in Hours : h # k => span'.low[h] = span.low[h] /\ span'.high[h] = span.high[h]
      BY <2>2, <3>1, <3>2, WidenedSums DEF SumLow, SumHigh
    <3>4. /\ SumLow(reader.cursor) \in Int /\ SumHigh(reader.cursor) \in Int
          /\ (SumLow(reader.cursor))' \in Int /\ (SumHigh(reader.cursor))' \in Int
      <4>1. SumLow(reader.cursor) \in Int /\ SumHigh(reader.cursor) \in Int
        BY <3>1, <3>2, SpanSums DEF SumLow, SumHigh
      <4>2. (SumLow(reader.cursor))' \in Int /\ (SumHigh(reader.cursor))' \in Int
        <5>1. \A x \in PassedFrom(reader.cursor) : span'.low[x] \in Int /\ span'.high[x] \in Int
          BY <1>1, <3>2 DEF Types, ReaderTypes, Spans
        <5>2. IsFiniteSet(PassedFrom(reader.cursor))
          BY <3>1, <3>2, SpanSums
        <5> QED
          BY <2>2, <5>1, <5>2, SumInt DEF SumLow, SumHigh
      <4> QED
        BY <4>1, <4>2
    <3>5. (SumLow(reader.cursor))' <= reader'.total /\ reader'.total <= (SumHigh(reader.cursor))'
      <4>1. SumLow(reader.cursor) <= reader.total /\ reader.total <= SumHigh(reader.cursor) /\ reader.total \in Int
        BY <2>4 DEF SummaryInv, Types, ReaderTypes, Readers
      <4> QED
        BY <2>2, <3>3, <3>4, <4>1
    <3>6. \A h \in Hours : LET d == Contribution(h, snapshots'[h], reader'.filter)
                           IN  span'.low[h] <= d /\ d <= span'.high[h]
      <4>1. \A h \in Hours : snapshots'[h] = IF h = k THEN item ELSE snapshots[h]
        BY <2>1 DEF Types, SnapshotTypes
      <4>2. \A h \in Hours : LET d == Contribution(h, snapshots[h], reader.filter)
                             IN  span.low[h] <= d /\ d <= span.high[h]
        BY <2>4 DEF SummaryInv
      <4> QED
        BY <2>2, <3>3, <4>1, <4>2
    <3> QED
      BY <2>2, <2>4, <3>5, <3>6 DEF SummaryInv
  <2> QED
    BY <2>3, <2>4
<1>10. CASE UpdateFails \/ Archive \/ ArchiveFails \/ Return \/ Redeliver
  BY <1>2, <1>10 DEF UpdateFails, Archive, ArchiveFails, Return, Redeliver
<1>11. ASSUME NEW f \in Asked, BeginUsage(f)
      PROVE  SummaryInv'
  <2> DEFINE now == [k \in Hours |-> Contribution(k, snapshots[k], f)]
  <2>1. /\ reader'.filter = f /\ reader'.cursor = LastHour + 1 /\ reader'.status = "reading" /\ reader'.total = 0
        /\ span'.low = now /\ span'.high = now /\ snapshots' = snapshots
    BY <1>11 DEF BeginUsage, NoReader, NoSpan
  <2>2. PassedFrom(LastHour + 1) = {}
    <3>1. \A k \in Hours : k \in Nat /\ k <= LastHour /\ LastHour \in Nat
      BY HoursAre
    <3> QED
      BY <3>1 DEF PassedFrom
  <2>3. (SumLow(reader.cursor))' = 0 /\ (SumHigh(reader.cursor))' = 0
    <3>1. (SumLow(reader.cursor))' = SumFunctionOnSet(now, {}) /\ (SumHigh(reader.cursor))' = SumFunctionOnSet(now, {})
      <4>1. (SumLow(reader.cursor))' = SumFunctionOnSet(span'.low, PassedFrom(reader'.cursor))
            /\ (SumHigh(reader.cursor))' = SumFunctionOnSet(span'.high, PassedFrom(reader'.cursor))
        BY DEF SumLow, SumHigh, PassedFrom
      <4> HIDE DEF now
      <4> QED
        BY <2>1, <2>2, <4>1
    <3> HIDE DEF now
    <3> QED
      BY <3>1, SumEmpty
  <2>4. \A k \in Hours : Contribution(k, snapshots[k], f) \in Int
    BY ContributionTyped DEF Types, SnapshotTypes
  <2>5. \A k \in Hours : LET c == Contribution(k, snapshots'[k], reader'.filter)
                         IN  span'.low[k] <= c /\ c <= span'.high[k]
    BY <2>1, <2>4
  <2> HIDE DEF now
  <2> QED
    BY <2>1, <2>3, <2>5 DEF SummaryInv
<1>12. CASE ReadUsage
  BY <1>1, <1>12, SummaryRead
<1>13. CASE ShowPage
  <2>1. /\ reader'.status = "cut" /\ reader'.kind = reader.kind /\ reader'.cursor = reader.cursor
        /\ reader'.total = reader.total /\ span' = span
    BY <1>13 DEF ShowPage, Types, ReaderTypes, Readers
  <2> QED
    BY <2>1 DEF SummaryInv, SumLow, SumHigh
<1>14. CASE BeginAudit \/ ReadAudit \/ Report
  <2>1. reader'.kind # "usage"
    <3>1. CASE BeginAudit \/ Report
      <4>1. NoReader.kind = "none"
        BY DEF NoReader
      <4>2. BeginAudit => reader'.kind = "audit"
        BY DEF BeginAudit, NoReader
      <4>3. Report => reader'.kind = "none"
        BY <4>1 DEF Report
      <4> QED
        BY <3>1, <4>2, <4>3
    <3>2. CASE ReadAudit
      <4>1. reader'.kind = reader.kind /\ reader.kind = "audit"
        BY <3>2 DEF ReadAudit, Types, ReaderTypes, Readers
      <4> QED
        BY <4>1
    <3> QED
      BY <1>14, <3>1, <3>2
  <2> QED
    BY <2>1 DEF SummaryInv
<1> QED
  BY <1>3, <1>4, <1>5, <1>6, <1>7, <1>8, <1>9, <1>10, <1>11, <1>12, <1>13, <1>14
     DEF HistoryNext, Table, Handler, Reader

(* For any page size, filter and windows, and whatever the aggregator counts *)
(* between the pages: a summary that read to the end misses nothing that was *)
(* there all along, and counts nothing twice.                                *)
THEOREM SummariesInRange == HistorySpec => []SummaryInRange
<1>1. HistoryInit => Types /\ SummaryInv
  BY TypesInit DEF HistoryInit, SummaryInv, NoReader
<1>2. Types /\ SummaryInv /\ [HistoryNext]_historyVars => (Types /\ SummaryInv)'
  BY TypesStep, SummaryStep
<1>3. Types /\ SummaryInv => SummaryInRange
  <2> SUFFICES ASSUME Types, SummaryInv, reader.kind = "usage", reader.status = "done"
               PROVE  /\ SumFunctionOnSet(span.low, Hours) <= reader.total
                      /\ reader.total <= SumFunctionOnSet(span.high, Hours)
    BY DEF SummaryInRange
  <2>1. reader.cursor = 0
    BY DEF SummaryInv
  <2>2. PassedFrom(0) = Hours
    BY HoursAre DEF PassedFrom
  <2> QED
    BY <2>1, <2>2 DEF SummaryInv, SumLow, SumHigh
<1> QED
  BY <1>1, <1>2, <1>3, PTL DEF HistorySpec

-------------------------------------------------------------------------------
(* What was consumed is in the snapshots or waits *)

ConsumedOf(u, k, j) == SumFunctionOnSet(u, {h \in Hours : WindowKey(h, Windows[j]) = k})

DeltaOf(s) == [i \in DOMAIN s |-> s[i].delta]

\* Of a stream s with t records taken and the updates l left.
WaitingIn(s, t, l, k, j) ==
  {i \in DOMAIN s : (i > t \/ <<i, j>> \in l) /\ WindowKey(s[i].at, Windows[j]) = k}

WaitingOf(s, t, l, k, j) == SumFunctionOnSet(DeltaOf(s), WaitingIn(s, t, l, k, j))

BalanceOf(u, s, t, l, k) ==
  [j \in DOMAIN Windows |-> ConsumedOf(u, k, j) - WaitingOf(s, t, l, k, j)]

(* A stream is finite, and what its records carry are numbers.               *)
LEMMA StreamTyped ==
  ASSUME NEW s \in Seq(StreamRecords)
  PROVE  /\ DOMAIN s = 1..Len(s) /\ Len(s) \in Nat /\ IsFiniteSet(DOMAIN s)
         /\ \A i \in DOMAIN s : /\ s[i] \in StreamRecords /\ s[i].at \in Hours
                                /\ DeltaOf(s)[i] = s[i].delta /\ DeltaOf(s)[i] \in Int
<1>1. DOMAIN s = 1..Len(s) /\ Len(s) \in Nat /\ \A i \in DOMAIN s : s[i] \in StreamRecords
  OBVIOUS
<1>2. IsFiniteSet(DOMAIN s)
  BY <1>1, FS_Interval
<1>3. \A i \in DOMAIN s : s[i].at \in Hours /\ s[i].delta \in Int
  BY <1>1, RecordTyped
<1> QED
  BY <1>1, <1>2, <1>3 DEF DeltaOf

(* So are the sums over it, and what is waiting is a part of it.             *)
LEMMA WaitingTyped ==
  ASSUME NEW s \in Seq(StreamRecords), NEW t, NEW l, NEW k, NEW j
  PROVE  /\ IsFiniteSet(WaitingIn(s, t, l, k, j)) /\ WaitingIn(s, t, l, k, j) \subseteq DOMAIN s
         /\ \A i \in WaitingIn(s, t, l, k, j) : DeltaOf(s)[i] \in Int
         /\ WaitingOf(s, t, l, k, j) \in Int
<1>1. WaitingIn(s, t, l, k, j) \subseteq DOMAIN s
  BY DEF WaitingIn
<1>2. IsFiniteSet(WaitingIn(s, t, l, k, j)) /\ \A i \in WaitingIn(s, t, l, k, j) : DeltaOf(s)[i] \in Int
  BY <1>1, StreamTyped, FS_Subset
<1> QED
  BY <1>1, <1>2, SumInt DEF WaitingOf

LEMMA ConsumedTyped ==
  ASSUME NEW u \in [Hours -> Int], NEW k, NEW j
  PROVE  ConsumedOf(u, k, j) \in Int
<1> DEFINE S == {x \in Hours : WindowKey(x, Windows[j]) = k}
<1>1. IsFiniteSet(S) /\ \A x \in S : u[x] \in Int
  BY HoursAre, FS_Subset
<1>2. ConsumedOf(u, k, j) = SumFunctionOnSet(u, S)
  BY DEF ConsumedOf
<1> HIDE DEF S
<1> QED
  BY <1>1, <1>2, SumInt

(* Consumption counts for the window its hour is in.                         *)
LEMMA ConsumedMore ==
  ASSUME used \in [Hours -> Int], rf' \in Hours, NEW d \in Amounts, NEW k, NEW j,
         used' = [used EXCEPT ![rf'] = @ + d]
  PROVE  /\ WindowKey(rf', Windows[j]) = k => ConsumedOf(used', k, j) = ConsumedOf(used, k, j) + d
         /\ WindowKey(rf', Windows[j]) # k => ConsumedOf(used', k, j) = ConsumedOf(used, k, j)
<1> DEFINE S == {x \in Hours : WindowKey(x, Windows[j]) = k}
<1>1. IsFiniteSet(S) /\ S \subseteq Hours /\ (rf' \in S <=> WindowKey(rf', Windows[j]) = k)
  BY HoursAre, FS_Subset
<1>2. d \in Int /\ \A x \in Hours : used[x] \in Int /\ used'[x] = IF x = rf' THEN used[x] + d ELSE used[x]
  BY HistoryAssumption
<1>3. ConsumedOf(used, k, j) = SumFunctionOnSet(used, S) /\ ConsumedOf(used', k, j) = SumFunctionOnSet(used', S)
  BY DEF ConsumedOf
<1> HIDE DEF S
<1>4. SumFunctionOnSet(used, S) \in Int
  BY <1>1, <1>2, SumInt
<1>5. CASE rf' \in S
  <2>1. \A x \in S : used[x] \in Int /\ used'[x] = IF x = rf' THEN used[x] + d ELSE used[x]
    BY <1>1, <1>2
  <2>2. SumFunctionOnSet(used', S) = SumFunctionOnSet(used, S) + d
    BY ONLY <1>1, <1>2, <1>5, <2>1, SumShift
  <2> QED
    BY <1>1, <1>3, <1>4, <1>5, <2>2
<1>6. CASE rf' \notin S
  <2>1. \A x \in S : used'[x] = used[x]
    BY <1>1, <1>2, <1>6
  <2>2. SumFunctionOnSet(used', S) = SumFunctionOnSet(used, S)
    BY <1>1, <2>1, SumSame
  <2> QED
    BY <1>1, <1>3, <1>4, <1>6, <2>2
<1> QED
  BY <1>5, <1>6

(* A new record waits for the window its hour is in.                         *)
LEMMA WaitingMore ==
  ASSUME stream \in Seq(StreamRecords), agg.taken \in 0..Len(stream),
         agg.left \subseteq (DOMAIN stream) \X (DOMAIN Windows), NEW k, NEW j,
         NEW r \in StreamRecords, stream' = Append(stream, r)
  PROVE  /\ WindowKey(r.at, Windows[j]) = k =>
              WaitingOf(stream', agg.taken, agg.left, k, j) = WaitingOf(stream, agg.taken, agg.left, k, j) + r.delta
         /\ WindowKey(r.at, Windows[j]) # k =>
              WaitingOf(stream', agg.taken, agg.left, k, j) = WaitingOf(stream, agg.taken, agg.left, k, j)
<1> DEFINE x == Len(stream) + 1
           A == WaitingIn(stream, agg.taken, agg.left, k, j)
           B == WaitingIn(stream', agg.taken, agg.left, k, j)
           f == DeltaOf(stream)
           g == DeltaOf(stream')
<1>1. stream' \in Seq(StreamRecords) /\ Len(stream') = x /\ stream'[x] = r /\ \A i \in 1..Len(stream) : stream'[i] = stream[i]
  OBVIOUS
<1>2. DOMAIN stream = 1..Len(stream) /\ Len(stream) \in Nat /\ DOMAIN stream' = 1..x /\ x \notin 1..Len(stream)
  BY <1>1, StreamTyped
<1>3. IsFiniteSet(A) /\ A \subseteq 1..Len(stream) /\ (\A i \in A : f[i] \in Int) /\ SumFunctionOnSet(f, A) \in Int
  BY <1>2, WaitingTyped DEF WaitingOf
<1>4. (\A i \in 1..Len(stream) : g[i] = f[i]) /\ g[x] = r.delta /\ r.delta \in Int
  BY <1>1, <1>2, StreamTyped, RecordTyped DEF DeltaOf
<1>5. A = {i \in 1..Len(stream) : (i > agg.taken \/ <<i, j>> \in agg.left) /\ WindowKey(stream[i].at, Windows[j]) = k}
  BY <1>2 DEF WaitingIn
<1>6. B = {i \in 1..x : (i > agg.taken \/ <<i, j>> \in agg.left) /\ WindowKey(stream'[i].at, Windows[j]) = k}
  BY <1>2 DEF WaitingIn
<1>7. x > agg.taken
  BY <1>2
<1>8. 1..x = 1..Len(stream) \cup {x}
  BY <1>2
<1>9. B = A \cup IF WindowKey(r.at, Windows[j]) = k THEN {x} ELSE {}
  <2> HIDE DEF A, B, x
  <2> QED
    BY <1>1, <1>2, <1>5, <1>6, <1>7, <1>8
<1>10. SumFunctionOnSet(g, A) = SumFunctionOnSet(f, A)
  BY <1>3, <1>4, SumSame
<1>11. x \notin A /\ \A i \in A \cup {x} : g[i] \in Int
  BY <1>2, <1>3, <1>4
<1>12. SumFunctionOnSet(g, A \cup {x}) = SumFunctionOnSet(g, A) + g[x]
  <2> HIDE DEF A, g, x
  <2> QED
    BY <1>3, <1>11, SumNewElement
<1>13. WaitingOf(stream, agg.taken, agg.left, k, j) = SumFunctionOnSet(f, A) /\ WaitingOf(stream', agg.taken, agg.left, k, j) = SumFunctionOnSet(g, B)
  BY DEF WaitingOf
<1> HIDE DEF A, B, f, g, x
<1>14. CASE WindowKey(r.at, Windows[j]) = k
  <2>1. B = A \cup {x}
    BY <1>9, <1>14
  <2> QED
    BY <1>3, <1>4, <1>10, <1>12, <1>13, <1>14, <2>1
<1>15. CASE WindowKey(r.at, Windows[j]) # k
  <2>1. B = A
    BY <1>9, <1>15
  <2> QED
    BY <1>3, <1>10, <1>13, <1>15, <2>1
<1> QED
  BY <1>14, <1>15

(* A batch has an update for every record that changes a count.              *)
LEMMA WaitingTaken ==
  ASSUME stream \in Seq(StreamRecords), NEW n \in 0..Len(stream), NEW k, NEW j \in DOMAIN Windows
  PROVE  WaitingOf(stream, n, Deltas(n) \X DOMAIN Windows, k, j) = WaitingOf(stream, 0, {}, k, j)
<1> DEFINE A == WaitingIn(stream, n, (Deltas(n) \X DOMAIN Windows), k, j)
           B == WaitingIn(stream, 0, {}, k, j)
           f == DeltaOf(stream)
<1>1. /\ DOMAIN stream = 1..Len(stream) /\ Len(stream) \in Nat
      /\ \A i \in DOMAIN stream : f[i] = stream[i].delta
  BY StreamTyped
<1>2. IsFiniteSet(B) /\ (\A i \in A : f[i] \in Int)
  BY WaitingTyped
<1>3. \A i \in DOMAIN stream : i \in B <=> WindowKey(stream[i].at, Windows[j]) = k
  BY <1>1 DEF WaitingIn
<1>4. \A i \in DOMAIN stream : i \in A <=> (i > n \/ stream[i].delta # 0) /\ WindowKey(stream[i].at, Windows[j]) = k
  <2>1. \A i \in DOMAIN stream : <<i, j>> \in (Deltas(n) \X DOMAIN Windows) <=> i \in Deltas(n)
    OBVIOUS
  <2>2. \A i \in DOMAIN stream : i > n \/ i \in Deltas(n) <=> i > n \/ stream[i].delta # 0
    BY <1>1 DEF Deltas
  <2> QED
    BY <2>1, <2>2 DEF WaitingIn
<1>5. A \subseteq DOMAIN stream /\ B \subseteq DOMAIN stream
  BY WaitingTyped
<1>6. WaitingOf(stream, n, (Deltas(n) \X DOMAIN Windows), k, j) = SumFunctionOnSet(f, A)
  BY DEF WaitingOf
<1>7. WaitingOf(stream, 0, {}, k, j) = SumFunctionOnSet(f, B)
  BY DEF WaitingOf
<1> HIDE DEF A, B, f
<1>8. A \subseteq B /\ \A i \in B \ A : f[i] = 0
  BY <1>1, <1>3, <1>4, <1>5
<1> QED
  BY <1>2, <1>6, <1>7, <1>8, SumPart

(* An update that is done waits no more.                                     *)
LEMMA WaitingDone ==
  ASSUME stream \in Seq(StreamRecords), agg.taken \in 0..Len(stream),
         agg.left \subseteq (DOMAIN stream) \X (DOMAIN Windows), NEW k, NEW j,
         NEW p \in agg.left, p[1] <= agg.taken
  PROVE  /\ j = p[2] /\ WindowKey(stream[p[1]].at, Windows[p[2]]) = k
              => WaitingOf(stream, agg.taken, agg.left \ {p}, k, j) + stream[p[1]].delta
                   = WaitingOf(stream, agg.taken, agg.left, k, j)
         /\ ~(j = p[2] /\ WindowKey(stream[p[1]].at, Windows[p[2]]) = k)
              => WaitingOf(stream, agg.taken, agg.left \ {p}, k, j)
                   = WaitingOf(stream, agg.taken, agg.left, k, j)
<1> DEFINE A == WaitingIn(stream, agg.taken, agg.left, k, j)
           B == WaitingIn(stream, agg.taken, (agg.left \ {p}), k, j)
           f == DeltaOf(stream)
<1>1. p = <<p[1], p[2]>> /\ p[1] \in DOMAIN stream /\ p[2] \in DOMAIN Windows
  OBVIOUS
<1>2. /\ DOMAIN stream = 1..Len(stream) /\ Len(stream) \in Nat
      /\ \A i \in DOMAIN stream : f[i] = stream[i].delta /\ f[i] \in Int
  BY StreamTyped
<1>3. IsFiniteSet(A) /\ (\A i \in A : f[i] \in Int) /\ A \subseteq DOMAIN stream /\ SumFunctionOnSet(f, A) \in Int
  BY WaitingTyped DEF WaitingOf
<1>4. WaitingOf(stream, agg.taken, agg.left, k, j) = SumFunctionOnSet(f, A) /\ WaitingOf(stream, agg.taken, (agg.left \ {p}), k, j) = SumFunctionOnSet(f, B)
  BY DEF WaitingOf
<1>5. CASE j = p[2] /\ WindowKey(stream[p[1]].at, Windows[p[2]]) = k
  <2>1. p[1] \in A
    BY <1>1, <1>5 DEF WaitingIn
  <2>2. \A i \in DOMAIN stream : (i > agg.taken \/ <<i, j>> \in (agg.left \ {p})) <=> (i > agg.taken \/ <<i, j>> \in agg.left) /\ i # p[1]
    <3>1. \A i \in DOMAIN stream : <<i, j>> = p <=> i = p[1]
      BY <1>1, <1>5
    <3>2. ~(p[1] > agg.taken)
      BY <1>1, <1>2
    <3> QED
      BY <3>1, <3>2
  <2>3. B = A \ {p[1]}
    BY <2>2 DEF WaitingIn
  <2> HIDE DEF A, B, f
  <2>4. SumFunctionOnSet(f, A) = f[p[1]] + SumFunctionOnSet(f, A \ {p[1]})
    BY <1>3, <2>1, SumElement
  <2>5. SumFunctionOnSet(f, A \ {p[1]}) \in Int
    BY <1>3, FS_Subset, SumInt
  <2> QED
    BY <1>1, <1>2, <1>3, <1>4, <1>5, <2>3, <2>4, <2>5
<1>6. CASE ~(j = p[2] /\ WindowKey(stream[p[1]].at, Windows[p[2]]) = k)
  <2>1. \A i \in DOMAIN stream : WindowKey(stream[i].at, Windows[j]) = k => <<i, j>> # p
    BY <1>1, <1>6
  <2>2. A = B
    BY <2>1 DEF WaitingIn
  <2> HIDE DEF A, B, f
  <2> QED
    BY <1>3, <1>4, <1>6, <2>2
<1> QED
  BY <1>5, <1>6

(* When nothing of a batch is left, the rest of the stream waits as before.  *)
LEMMA WaitingReturned ==
  ASSUME stream \in Seq(StreamRecords), agg.taken \in 0..Len(stream), NEW k, NEW j
  PROVE  WaitingOf(SubSeq(stream, agg.taken + 1, Len(stream)), 0, {}, k, j) = WaitingOf(stream, agg.taken, {}, k, j)
<1> DEFINE z == SubSeq(stream, agg.taken + 1, Len(stream))
           A == WaitingIn(stream, agg.taken, {}, k, j)
           B == WaitingIn(z, 0, {}, k, j)
           f == DeltaOf(stream)
           g == DeltaOf(z)
           h == [i \in A |-> i - agg.taken]
<1>1. z \in Seq(StreamRecords) /\ Len(z) = Len(stream) - agg.taken /\ \A i \in 1..Len(stream) - agg.taken : z[i] = stream[i + agg.taken]
  OBVIOUS
<1> HIDE DEF z
<1>2. /\ DOMAIN stream = 1..Len(stream) /\ Len(stream) \in Nat /\ DOMAIN z = 1..Len(stream) - agg.taken
      /\ \A i \in DOMAIN stream : f[i] = stream[i].delta /\ f[i] \in Int
      /\ \A i \in DOMAIN z : g[i] = z[i].delta /\ g[i] \in Int
  BY <1>1, StreamTyped
<1>3. IsFiniteSet(A)
  BY WaitingTyped
<1>4. \A i : i \in A <=> i \in 1..Len(stream) /\ i > agg.taken /\ WindowKey(stream[i].at, Windows[j]) = k
  BY <1>2 DEF WaitingIn
<1>5. \A i : i \in B <=> i \in 1..Len(stream) - agg.taken /\ WindowKey(z[i].at, Windows[j]) = k
  BY <1>1, <1>2 DEF WaitingIn
<1>6. WaitingOf(stream, agg.taken, {}, k, j) = SumFunctionOnSet(f, A) /\ WaitingOf(z, 0, {}, k, j) = SumFunctionOnSet(g, B)
  BY DEF WaitingOf
<1>7. \A i \in A : h[i] = i - agg.taken
  OBVIOUS
<1> HIDE DEF A, B, f, g, h
<1>8. \A i \in A : h[i] \in 1..Len(stream) - agg.taken /\ h[i] + agg.taken = i /\ z[h[i]] = stream[i]
  <2>1. ASSUME NEW i \in A
        PROVE  h[i] \in 1..Len(stream) - agg.taken /\ h[i] + agg.taken = i /\ z[h[i]] = stream[i]
    <3>1. h[i] \in 1..Len(stream) - agg.taken /\ h[i] + agg.taken = i
      BY <1>2, <1>4, <1>7
    <3> QED
      BY <1>1, <3>1
  <2> QED
    BY <2>1
<1>9. \A i \in A : f[i] \in Int /\ g[h[i]] = f[i]
  BY <1>2, <1>4, <1>8
<1>10. \A x, y \in A : h[x] = h[y] => x = y
  BY <1>8
<1>11. {h[i] : i \in A} = B
  <2>1. \A i \in A : h[i] \in B
    BY <1>4, <1>5, <1>8
  <2>2. ASSUME NEW b \in B
        PROVE  \E i \in A : h[i] = b
    <3>1. b \in 1..Len(stream) - agg.taken /\ z[b] = stream[b + agg.taken] /\ WindowKey(z[b].at, Windows[j]) = k
      BY <1>1, <1>5, <2>2
    <3>2. b + agg.taken \in 1..Len(stream) /\ b + agg.taken > agg.taken /\ (b + agg.taken) - agg.taken = b
      BY <1>2, <3>1
    <3>3. b + agg.taken \in A
      BY <1>4, <3>1, <3>2
    <3>4. h[b + agg.taken] = (b + agg.taken) - agg.taken
      BY <1>7, <3>3, Zenon
    <3>5. h[b + agg.taken] = b
      BY <3>2, <3>4
    <3> QED
      BY <3>3, <3>5
  <2> QED
    BY <2>1, <2>2
<1>12. SumFunctionOnSet(g, {h[i] : i \in A}) = SumFunctionOnSet(f, A)
  BY <1>3, <1>9, <1>10, SumImage
<1> QED
  BY <1>6, <1>11, <1>12 DEF z

(* Balances are functions of numbers.                                        *)
LEMMA BalanceTyped ==
  ASSUME NEW u \in [Hours -> Int], NEW s \in Seq(StreamRecords), NEW t, NEW l, NEW k
  PROVE  /\ \A j \in DOMAIN Windows : ConsumedOf(u, k, j) \in Int /\ WaitingOf(s, t, l, k, j) \in Int
         /\ BalanceOf(u, s, t, l, k) \in [DOMAIN Windows -> Int]
<1>1. \A j \in DOMAIN Windows : ConsumedOf(u, k, j) \in Int
  BY ConsumedTyped
<1>2. \A j \in DOMAIN Windows : WaitingOf(s, t, l, k, j) \in Int
  BY WaitingTyped
<1> QED
  BY <1>1, <1>2 DEF BalanceOf

(* The property in these terms, in a state and in the next.                  *)
LEMMA AccountIs ==
  /\ SnapshotsAccount <=>
       (failures = 0 => \A k \in Hours : snapshots[k].count =
          SumFunctionOnSet(BalanceOf(used, stream, agg.taken, agg.left, k), DOMAIN Windows))
  /\ SnapshotsAccount' <=>
       (failures' = 0 => \A k \in Hours : snapshots'[k].count =
          SumFunctionOnSet(BalanceOf(used', stream', agg'.taken, agg'.left, k), DOMAIN Windows))
<1>1. \A k, j : Consumed(k, j) = ConsumedOf(used, k, j) /\ (Consumed(k, j))' = ConsumedOf(used', k, j)
  BY DEF Consumed, ConsumedOf
<1>2. ASSUME NEW k, NEW j
      PROVE  /\ Waiting(k, j) = WaitingOf(stream, agg.taken, agg.left, k, j)
             /\ (Waiting(k, j))' = WaitingOf(stream', agg'.taken, agg'.left, k, j)
  <2>1. {i \in Uncounted(j) : WindowKey(stream[i].at, Windows[j]) = k}
          = WaitingIn(stream, agg.taken, agg.left, k, j)
    BY DEF Uncounted, WaitingIn
  <2>2. {i \in (Uncounted(j))' : WindowKey(stream'[i].at, Windows[j]) = k}
          = WaitingIn(stream', agg'.taken, agg'.left, k, j)
    BY DEF Uncounted, WaitingIn
  <2>3. Waiting(k, j) = WaitingOf(stream, agg.taken, agg.left, k, j)
    BY <2>1, Zenon DEF Waiting, WaitingOf, DeltaOf
  <2>4. (Waiting(k, j))' = WaitingOf(stream', agg'.taken, agg'.left, k, j)
    BY <2>2, Zenon DEF Waiting, WaitingOf, DeltaOf
  <2> QED
    BY <2>3, <2>4
<1>3. ASSUME NEW k
      PROVE  /\ [j \in DOMAIN Windows |-> Consumed(k, j) - Waiting(k, j)]
                  = BalanceOf(used, stream, agg.taken, agg.left, k)
             /\ [j \in DOMAIN Windows |-> (Consumed(k, j))' - (Waiting(k, j))']
                  = BalanceOf(used', stream', agg'.taken, agg'.left, k)
  BY <1>1, <1>2, Zenon DEF BalanceOf
<1> QED
  BY <1>3, Zenon DEF SnapshotsAccount

(* A step that fails nothing keeps the account.                              *)
LEMMA AccountStep ==
  ASSUME "MODIFY" \in Delivered, Types, SnapshotsAccount, [HistoryNext]_historyVars
  PROVE  SnapshotsAccount'
<1> USE DEF usage, trail
<1> DEFINE Old(k) == BalanceOf(used, stream, agg.taken, agg.left, k)
           New(k) == BalanceOf(used', stream', agg'.taken, agg'.left, k)
           Aim == \A k \in Hours : snapshots'[k].count = SumFunctionOnSet(New(k), DOMAIN Windows)
<1>1. Types'
  BY TypesStep
<1>2. SUFFICES ASSUME failures' = 0 PROVE Aim
  BY AccountIs
<1>3. failures = 0
  <2>1. failures \in Nat
    BY DEF Types, BucketTypes
  <2>2. failures' \in {failures, failures + 1}
    BY DEF HistoryNext, Table, Handler, Reader, historyVars, Tick, WriteBucket, LogEvent, PutEvent, PutFails,
           Expire, TakeBatch, UpdateSnapshot, UpdateFails, Archive, ArchiveFails, Return, Redeliver,
           BeginUsage, ReadUsage, ShowPage, BeginAudit, ReadAudit, Report
  <2> QED
    BY <1>2, <2>1, <2>2
<1>4. \A k \in Hours : snapshots[k].count = SumFunctionOnSet(Old(k), DOMAIN Windows)
  BY <1>3, AccountIs
<1>5. /\ used \in [Hours -> Int] /\ stream \in Seq(StreamRecords) /\ agg.taken \in 0..Len(stream)
      /\ agg.left \subseteq (DOMAIN stream) \X (DOMAIN Windows) /\ snapshots \in [Hours -> Items]
      /\ used' \in [Hours -> Int] /\ stream' \in Seq(StreamRecords) /\ snapshots' \in [Hours -> Items]
      /\ rf' \in Hours
  <2>1. rf' \in Hours
    BY <1>1, HoursAre DEF Types, BucketTypes
  <2> QED
    BY <1>1, <2>1 DEF Types, BucketTypes, BatchTypes, SnapshotTypes
<1>6. CASE snapshots' = snapshots /\ \A k \in Hours : New(k) = Old(k)
  BY <1>4, <1>6
<1> HIDE DEF Aim
<1>7. CASE UNCHANGED <<used, stream, snapshots>> /\ agg'.taken = agg.taken /\ agg'.left = agg.left
  BY <1>6, <1>7
<1>8. CASE Tick \/ UNCHANGED historyVars \/ Archive
  <2>1. CASE Tick \/ UNCHANGED historyVars
    BY <1>7, <2>1 DEF Tick, historyVars
  <2>2. CASE Archive
    <3>1. agg'.taken = agg.taken /\ agg'.left = agg.left /\ UNCHANGED <<used, stream, snapshots>>
      BY <2>2 DEF Archive, Types, BatchTypes
    <3> QED
      BY <1>7, <3>1
  <2> QED
    BY <1>8, <2>1, <2>2
<1>9. CASE UpdateFails \/ ArchiveFails \/ Redeliver
  BY <1>2, <1>3, <1>9 DEF UpdateFails, ArchiveFails, Redeliver
<1>10. ASSUME NEW d \in Amounts, WriteBucket(d)
       PROVE  Aim
  <2> DEFINE r == [at |-> rf', delta |-> d, event |-> NoEvent]
  <2>1. stream' = Append(stream, r) /\ used' = [used EXCEPT ![rf'] = @ + d] /\ agg' = agg /\ snapshots' = snapshots
    BY <1>10 DEF WriteBucket, Streamed
  <2>2. r \in StreamRecords /\ d \in Int /\ r.at = rf' /\ r.delta = d
    BY <1>5, HistoryAssumption, EventsAre DEF StreamRecords
  <2> HIDE DEF r
  <2>3. ASSUME NEW k \in Hours, NEW j \in DOMAIN Windows
        PROVE  ConsumedOf(used', k, j) - WaitingOf(stream', agg'.taken, agg'.left, k, j)
                 = ConsumedOf(used, k, j) - WaitingOf(stream, agg.taken, agg.left, k, j)
    <3>1. /\ WindowKey(rf', Windows[j]) = k => ConsumedOf(used', k, j) = ConsumedOf(used, k, j) + d
          /\ WindowKey(rf', Windows[j]) # k => ConsumedOf(used', k, j) = ConsumedOf(used, k, j)
      BY <1>5, <2>1, ConsumedMore
    <3>2. /\ WindowKey(rf', Windows[j]) = k =>
               WaitingOf(stream', agg'.taken, agg'.left, k, j) = WaitingOf(stream, agg.taken, agg.left, k, j) + d
          /\ WindowKey(rf', Windows[j]) # k =>
               WaitingOf(stream', agg'.taken, agg'.left, k, j) = WaitingOf(stream, agg.taken, agg.left, k, j)
      BY ONLY <1>5, <2>1, <2>2, WaitingMore
    <3>3. ConsumedOf(used, k, j) \in Int /\ WaitingOf(stream, agg.taken, agg.left, k, j) \in Int
      BY <1>5, BalanceTyped
    <3> QED
      BY <2>2, <3>1, <3>2, <3>3
  <2>4. \A k \in Hours : New(k) = Old(k)
    BY <2>3, Zenon DEF BalanceOf
  <2> QED
    BY <1>6, <2>1, <2>4
<1>11. ASSUME NEW e \in Events, Expire(e)
       PROVE  Aim
  <2> DEFINE r == [at |-> 0, delta |-> 0, event |-> e]
  <2>1. (stream' = stream \/ stream' = Append(stream, r)) /\ UNCHANGED <<used, agg, snapshots>>
    BY <1>11 DEF Expire, Streamed
  <2>2. r \in StreamRecords /\ r.delta = 0
    BY HoursAre DEF StreamRecords
  <2> HIDE DEF r
  <2>3. CASE stream' = stream
    BY <1>7, <2>1, <2>3
  <2>4. CASE stream' = Append(stream, r)
    <3>1. ASSUME NEW k \in Hours, NEW j \in DOMAIN Windows
          PROVE  WaitingOf(stream', agg'.taken, agg'.left, k, j) = WaitingOf(stream, agg.taken, agg.left, k, j)
      <4>1. /\ WindowKey(r.at, Windows[j]) = k =>
                 WaitingOf(stream', agg'.taken, agg'.left, k, j) = WaitingOf(stream, agg.taken, agg.left, k, j) + r.delta
            /\ WindowKey(r.at, Windows[j]) # k =>
                 WaitingOf(stream', agg'.taken, agg'.left, k, j) = WaitingOf(stream, agg.taken, agg.left, k, j)
        BY ONLY <1>5, <2>1, <2>2, <2>4, WaitingMore
      <4>2. WaitingOf(stream, agg.taken, agg.left, k, j) \in Int
        BY <1>5, BalanceTyped
      <4> QED
        BY <2>2, <4>1, <4>2
    <3>2. \A k \in Hours : New(k) = Old(k)
      BY <2>1, <3>1, Zenon DEF BalanceOf
    <3> QED
      BY <1>6, <2>1, <3>2
  <2> QED
    BY <2>1, <2>3, <2>4
<1>12. ASSUME NEW n \in 1..(MaxChanges + MaxEvents), TakeBatch(n)
       PROVE  Aim
  <2>1. /\ agg.taken = 0 /\ agg.left = {} /\ n \in 0..Len(stream) /\ UNCHANGED <<used, stream, snapshots>>
        /\ agg'.taken = n /\ agg'.left = Deltas(n) \X DOMAIN Windows
    <3>1. n \in 0..Len(stream)
      BY <1>5, <1>12, HistoryAssumption DEF TakeBatch
    <3> QED
      BY <1>12, <3>1 DEF TakeBatch, Idle
  <2>2. \A k \in Hours : \A j \in DOMAIN Windows :
          WaitingOf(stream', agg'.taken, agg'.left, k, j) = WaitingOf(stream, agg.taken, agg.left, k, j)
    <3>1. ASSUME NEW k \in Hours, NEW j \in DOMAIN Windows
          PROVE  WaitingOf(stream, n, Deltas(n) \X DOMAIN Windows, k, j) = WaitingOf(stream, 0, {}, k, j)
      BY ONLY <1>5, <2>1, <3>1, WaitingTaken
    <3> QED
      BY <2>1, <3>1, Zenon
  <2>3. \A k \in Hours : New(k) = Old(k)
    BY <2>1, <2>2, Zenon DEF BalanceOf
  <2> QED
    BY <1>6, <2>1, <2>3
<1>13. CASE UpdateSnapshot
  <2>1. PICK p : p = First(agg.left)
    OBVIOUS
  <2> DEFINE key == WindowKey(stream[p[1]].at, Windows[p[2]])
             delta == stream[p[1]].delta
             item == Upserted(snapshots[key], Windows[p[2]], delta)
  <2>2. /\ p \in agg.left /\ p[1] \in DOMAIN stream /\ p[2] \in DOMAIN Windows /\ p[1] <= agg.taken
        /\ key \in Hours /\ stream[p[1]] \in StreamRecords
    BY <1>13, <2>1, NextUpdate, TypesAre DEF UpdateSnapshot
  <2>3. delta \in Int
    BY <2>2, RecordTyped
  <2>4. /\ snapshots' = [snapshots EXCEPT ![key] = item] /\ UNCHANGED <<used, stream>>
        /\ agg'.taken = agg.taken /\ agg'.left = agg.left \ {p}
    BY <1>13, <2>1 DEF UpdateSnapshot, Types, BatchTypes
  <2>5. item.count = snapshots[key].count + delta
    BY DEF Upserted
  <2>6. ASSUME NEW k \in Hours, NEW j \in DOMAIN Windows
        PROVE  New(k)[j] = IF j = p[2] /\ key = k THEN Old(k)[j] + delta ELSE Old(k)[j]
    <3>1. /\ j = p[2] /\ key = k =>
               WaitingOf(stream', agg'.taken, agg'.left, k, j) + delta = WaitingOf(stream, agg.taken, agg.left, k, j)
          /\ ~(j = p[2] /\ key = k) =>
               WaitingOf(stream', agg'.taken, agg'.left, k, j) = WaitingOf(stream, agg.taken, agg.left, k, j)
      BY ONLY <1>5, <2>2, <2>4, WaitingDone
    <3>2. /\ ConsumedOf(used, k, j) \in Int /\ WaitingOf(stream, agg.taken, agg.left, k, j) \in Int
          /\ WaitingOf(stream', agg'.taken, agg'.left, k, j) \in Int
      BY <1>5, BalanceTyped
    <3>3. /\ New(k)[j] = ConsumedOf(used', k, j) - WaitingOf(stream', agg'.taken, agg'.left, k, j)
          /\ Old(k)[j] = ConsumedOf(used, k, j) - WaitingOf(stream, agg.taken, agg.left, k, j)
      BY DEF BalanceOf
    <3> HIDE DEF key, delta, New, Old
    <3> QED
      BY <2>3, <2>4, <3>1, <3>2, <3>3
  <2>7. \A k \in Hours : Old(k) \in [DOMAIN Windows -> Int] /\ New(k) \in [DOMAIN Windows -> Int]
    BY <1>5, BalanceTyped
  <2> HIDE DEF key, delta, item, New, Old
  <2>8. ASSUME NEW k \in Hours
        PROVE  snapshots'[k].count = SumFunctionOnSet(New(k), DOMAIN Windows)
    <3>1. CASE k = key
      <4>1. \A j \in DOMAIN Windows :
              Old(k)[j] \in Int /\ New(k)[j] = IF j = p[2] THEN Old(k)[j] + delta ELSE Old(k)[j]
        BY <2>6, <2>7, <3>1
      <4>2. SumFunctionOnSet(New(k), DOMAIN Windows) = SumFunctionOnSet(Old(k), DOMAIN Windows) + delta
        <5>1. IsFiniteSet(DOMAIN Windows) /\ p[2] \in DOMAIN Windows /\ delta \in Int
          BY <2>2, <2>3, WindowsAre
        <5> QED
          BY ONLY <4>1, <5>1, SumShift
      <4>3. snapshots'[k].count = snapshots[k].count + delta
        BY <1>5, <2>4, <2>5, <3>1
      <4> QED
        BY <1>4, <4>2, <4>3
    <3>2. CASE k # key
      <4>1. \A j \in DOMAIN Windows : New(k)[j] = Old(k)[j]
        BY <2>6, <3>2
      <4>2. SumFunctionOnSet(New(k), DOMAIN Windows) = SumFunctionOnSet(Old(k), DOMAIN Windows)
        BY <4>1, WindowsAre, SumSame
      <4>3. snapshots'[k] = snapshots[k]
        BY <1>5, <2>4, <3>2
      <4> QED
        BY <1>4, <4>2, <4>3
    <3> QED
      BY <3>1, <3>2
  <2> QED
    BY <2>8 DEF Aim
<1>14. CASE Return
  <2>1. /\ agg.left = {} /\ stream' = SubSeq(stream, agg.taken + 1, Len(stream)) /\ UNCHANGED <<used, snapshots>>
        /\ agg'.taken = 0 /\ agg'.left = {}
    BY <1>14 DEF Return, Idle
  <2>2. \A k \in Hours : \A j \in DOMAIN Windows :
          WaitingOf(stream', agg'.taken, agg'.left, k, j) = WaitingOf(stream, agg.taken, agg.left, k, j)
    BY <1>5, <2>1, WaitingReturned
  <2>3. \A k \in Hours : New(k) = Old(k)
    BY <2>1, <2>2, Zenon DEF BalanceOf
  <2> QED
    BY <1>6, <2>1, <2>3
<1>15. ASSUME NEW c \in Loggers, LogEvent(c)
       PROVE  Aim
  BY <1>7, <1>15 DEF LogEvent
<1>16. ASSUME NEW e \in Events, PutEvent(e) \/ PutFails(e)
       PROVE  Aim
  BY <1>7, <1>16 DEF PutEvent, PutFails
<1>17. ASSUME Reader
       PROVE  Aim
  BY <1>7, <1>17 DEF Reader, BeginUsage, ReadUsage, ShowPage, BeginAudit, ReadAudit, Report
<1> QED
  BY <1>8, <1>9, <1>10, <1>11, <1>12, <1>13, <1>14, <1>15, <1>16, <1>17, <1>2
     DEF HistoryNext, Table, Handler

(* For any windows and amounts, and however the stream is cut into batches:  *)
(* the items of the snapshots have exactly what was consumed, but for what   *)
(* waits, as long as nothing failed.                                         *)
THEOREM SnapshotsAlwaysAccount == "MODIFY" \in Delivered => (HistorySpec => []SnapshotsAccount)
<1> SUFFICES ASSUME "MODIFY" \in Delivered
             PROVE  HistorySpec => []SnapshotsAccount
  OBVIOUS
<1>1. HistoryInit => Types /\ SnapshotsAccount
  <2> SUFFICES ASSUME HistoryInit
               PROVE  SnapshotsAccount
    BY TypesInit
  <2>1. /\ used = [h \in Hours |-> 0] /\ stream = <<>> /\ used \in [Hours -> Int] /\ stream \in Seq(StreamRecords)
        /\ snapshots = [k \in Hours |-> NoSnapshot]
    BY DEF HistoryInit
  <2>2. ASSUME NEW k \in Hours
        PROVE  SumFunctionOnSet(BalanceOf(used, stream, agg.taken, agg.left, k), DOMAIN Windows) = 0
    <3> DEFINE b == BalanceOf(used, stream, agg.taken, agg.left, k)
    <3>1. ASSUME NEW j \in DOMAIN Windows
          PROVE  b[j] = 0
      <4>1. ConsumedOf(used, k, j) = 0
        <5> DEFINE S == {h \in Hours : WindowKey(h, Windows[j]) = k}
        <5>1. IsFiniteSet(S) /\ \A h \in S : used[h] = 0
          BY <2>1, HoursAre, FS_Subset
        <5>2. ConsumedOf(used, k, j) = SumFunctionOnSet(used, S)
          BY DEF ConsumedOf
        <5> HIDE DEF S
        <5> QED
          BY <5>1, <5>2, SumZero
      <4>2. WaitingOf(stream, agg.taken, agg.left, k, j) = 0
        <5>1. WaitingIn(stream, agg.taken, agg.left, k, j) = {}
          <6>1. DOMAIN stream = {}
            BY <2>1
          <6> QED
            BY <6>1 DEF WaitingIn
        <5> QED
          BY <5>1, SumEmpty DEF WaitingOf
      <4> QED
        BY <4>1, <4>2 DEF BalanceOf
    <3> HIDE DEF b
    <3>2. SumFunctionOnSet(b, DOMAIN Windows) = 0
      BY <3>1, WindowsAre, SumZero
    <3> QED
      BY <3>2 DEF b
  <2>3. \A k \in Hours : snapshots[k].count = 0
    BY <2>1 DEF NoSnapshot
  <2> QED
    BY <2>2, <2>3, AccountIs
<1>2. Types /\ SnapshotsAccount /\ [HistoryNext]_historyVars => (Types /\ SnapshotsAccount)'
  BY TypesStep, AccountStep
<1> QED
  BY <1>1, <1>2, PTL DEF HistorySpec

===============================================================================
