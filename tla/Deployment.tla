------------------------------ MODULE Deployment ------------------------------
(***************************************************************************)
(* The infrastructure of one stack and its version: CloudFormation's stack *)
(* with the table and the aggregator's function, the code in the function  *)
(* and the version record in the table.  Clients of different versions     *)
(* open repositories, build them, deploy and upgrade from the command      *)
(* line, all at once; each of them checks and writes in several calls.     *)
(*                                                                         *)
(* Namespaces are in Namespaces; tags, options and waiting for the event   *)
(* source are left out, and the aggregator is always enabled.  A client's  *)
(* schema version is written with its own version; only its major number   *)
(* matters.  Reads of the record see the last write.                       *)
(***************************************************************************)
EXTENDS Integers

CONSTANTS
  Clients,    \* processes
  Version,    \* [client -> its __version__]
  Major,      \* [version -> its major number]
  MaxCalls,   \* bound on the calls
  MaxFaults,  \* bound on failed creations and deaths
  MaxDeletes  \* bound on deletions of the stack

Versions == {Version[c] : c \in Clients}

ASSUME DeploymentAssumption ==
  /\ \A c \in Clients : Version[c] \in Nat \ {0}
  /\ \A v, w \in Versions : Major[v] \in Nat /\ (v < w => Major[v] <= Major[w])

VARIABLES
  stack,   \* status of the stack
  table,   \* whether the table can be used
  code,    \* version of the code in the aggregator's function
  record,  \* lambda_version and schema_version of the version record
  pc,      \* where each client is in its call
  call,    \* [client -> what it called, and with auto_update (or --force)]
  calls,   \* calls so far
  faults,  \* history: failed creations and deaths so far
  deletes, \* history: deletions so far
  mixed,   \* history: versions were mixed, see Starts and DeployCode
  unattended \* history: the stack was created without waiting, and no call that
             \* waits has found it since

infrastructure == <<stack, table, code, record>>
bounds == <<calls, faults, deletes>>
history == <<mixed, unattended>>
vars == <<stack, table, code, record, pc, call, calls, faults, deletes, mixed, unattended>>

------------------------------------------------------------------------------
NoFunction == -1
Placeholder == 0  \* the code in the template
NoRecord == 0

Statuses == {"none", "creating", "ready", "failed", "deleting"}
Kinds == {"open", "attach", "deploy", "submit", "upgrade"}
PCs == {"idle", "resolving", "describing", "submitting", "waiting", "deploying", "checking",
        "initializing", "updating", "recording", "rechecking"}

NoCall == [kind |-> "open", auto |-> TRUE]

Init ==
  /\ stack = "none" /\ table = FALSE /\ code = NoFunction /\ record = NoRecord
  /\ pc = [c \in Clients |-> "idle"]
  /\ call = [c \in Clients |-> NoCall]
  /\ calls = 0 /\ faults = 0 /\ deletes = 0
  /\ mixed = FALSE /\ unattended = FALSE

Goto(c, l) == pc' = [pc EXCEPT ![c] = l] /\ UNCHANGED call

\* The call returns or raises.
Ends(c) == pc' = [pc EXCEPT ![c] = "idle"] /\ call' = [call EXCEPT ![c] = NoCall]

\* What is left to do with the table there: all repositories check its version.
GotoCheck(c) ==
  /\ pc' = [pc EXCEPT ![c] = "checking"]
  /\ call' = [call EXCEPT ![c].kind = IF @ = "attach" THEN "open" ELSE @]

\* The repository is open; the command upgrade goes on.
Opened(c) == IF call[c].kind = "upgrade" THEN Goto(c, "rechecking") ELSE Ends(c)

------------------------------------------------------------------------------
(* CloudFormation *)

CreateTable ==
  /\ stack = "creating" /\ ~table
  /\ table' = TRUE
  /\ UNCHANGED <<stack, code, record>>

CreateFunction ==
  /\ stack = "creating" /\ table /\ code = NoFunction
  /\ code' = Placeholder
  /\ UNCHANGED <<stack, table, record>>

FinishStack ==
  /\ stack = "creating" /\ code # NoFunction
  /\ stack' = "ready"
  /\ UNCHANGED <<table, code, record>>

Emptied == table' = FALSE /\ code' = NoFunction /\ record' = NoRecord

RemoveStack ==
  /\ stack = "deleting"
  /\ stack' = "none"
  /\ Emptied

\* The creation is rolled back.
FailStack ==
  /\ faults < MaxFaults
  /\ faults' = faults + 1
  /\ stack = "creating"
  /\ stack' = "failed"
  /\ Emptied
  /\ UNCHANGED <<pc, call, calls, deletes, history>>

CloudFormation ==
  /\ CreateTable \/ CreateFunction \/ FinishStack \/ RemoveStack
  /\ UNCHANGED <<pc, call, bounds, history>>

------------------------------------------------------------------------------
(* Calls *)

Starts(c, kind, auto, l) ==
  /\ pc[c] = "idle" /\ calls < MaxCalls
  /\ calls' = calls + 1
  /\ call' = [call EXCEPT ![c] = [kind |-> kind, auto |-> auto]]
  /\ pc' = [pc EXCEPT ![c] = l]
  /\ mixed' = (mixed \/ \E d \in Clients : pc[d] # "idle" /\ Version[d] # Version[c])
  /\ UNCHANGED <<infrastructure, faults, deletes, unattended>>

\* open() resolves its namespace first.
Open(c) == \E auto \in BOOLEAN : Starts(c, "open", auto, "resolving")

\* A builder with options for the infrastructure goes to the stack first, and is an
\* "open" but for this; one without attaches to a table.
Build(c) ==
  \E auto \in BOOLEAN : Starts(c, "open", auto, "describing") \/ Starts(c, "attach", auto, "resolving")

\* The commands deploy, which goes to the stack first, and upgrade, which connects
\* by open(); auto is its --force.  A deploy with --no-wait submits the stack and is
\* done: it puts no code and writes no record.
Deploy(c) ==
  Starts(c, "deploy", TRUE, "describing") \/ Starts(c, "submit", TRUE, "describing")
Upgrade(c) == \E force \in BOOLEAN : Starts(c, "upgrade", force, "resolving")

\* The table does not exist: open() creates the stack, a builder raises.
Resolve(c) ==
  /\ pc[c] = "resolving"
  /\ IF table THEN GotoCheck(c)
     ELSE IF call[c].kind = "attach" THEN Ends(c) ELSE Goto(c, "describing")
  /\ UNCHANGED <<infrastructure, bounds, history>>

\* create_stack(): a stack with any status but one in progress will do, which is
\* waited for; without waiting, any will.
Describe(c) ==
  /\ pc[c] = "describing"
  /\ IF stack # "none" /\ call[c].kind = "submit" THEN Ends(c)
     ELSE Goto(c, CASE stack = "none" -> "submitting"
                    [] stack = "creating" -> "waiting"
                    [] OTHER -> "deploying")
  /\ unattended' = (unattended /\ (stack = "none" \/ call[c].kind = "submit"))
  /\ UNCHANGED <<infrastructure, bounds, mixed>>

\* Mutant: the creation is not waited for.
SubmitOnly(c) ==
  /\ pc[c] = "submitting"
  /\ IF stack = "none"
       THEN /\ stack' = "creating"
            /\ unattended' = (call[c].kind = "submit")
            /\ IF call[c].kind = "submit" THEN Ends(c) ELSE Goto(c, "deploying")
       ELSE UNCHANGED <<stack, unattended>> /\ Ends(c)
  /\ UNCHANGED <<table, code, record, bounds, mixed>>

\* Somebody else's stack by now: StackAlreadyExistsError, after the wait for it
\* if the call waits, whatever becomes of it.
Submit(c) ==
  /\ pc[c] = "submitting"
  /\ IF stack = "none"
       THEN /\ stack' = "creating"
            /\ unattended' = (call[c].kind = "submit")
            /\ IF call[c].kind = "submit" THEN Ends(c) ELSE Goto(c, "waiting")
       ELSE UNCHANGED <<stack, unattended>> /\ Ends(c)
  /\ UNCHANGED <<table, code, record, bounds, mixed>>

\* The waiter: it raises when the stack has failed or is gone.
Wait(c) ==
  /\ pc[c] = "waiting"
  /\ \/ stack = "ready" /\ Goto(c, "deploying")
     \/ stack \in {"failed", "none"} /\ Ends(c)
  /\ UNCHANGED <<infrastructure, bounds, history>>

\* update_function_code() with the caller's own package; it raises without a function.
Puts(c, next) ==
  IF code # NoFunction
    THEN code' = Version[c] /\ Goto(c, next)
    ELSE UNCHANGED code /\ Ends(c)

\* The infrastructure is ensured, whatever version it has and without regard to
\* auto_update: the code of another client, a newer one too, is replaced.
DeployCode(c) ==
  /\ pc[c] = "deploying"
  /\ Puts(c, IF call[c].kind = "deploy" THEN "recording" ELSE "checking")
  /\ mixed' = (mixed \/ (call[c].kind # "deploy" /\ record \notin {NoRecord, Version[c]}))
  /\ UNCHANGED <<stack, table, record, bounds, unattended>>

\* check_compatibility(), for a record there is.
Incompatible(c) == Major[record] # Major[Version[c]]
Outdated(c) == record < Version[c]

\* The version check at the end of opening a repository.
Check(c) ==
  /\ pc[c] = "checking"
  /\ IF ~table THEN Ends(c)
     ELSE IF record = NoRecord THEN Goto(c, "initializing")
     ELSE IF Incompatible(c) THEN Ends(c)
     ELSE IF ~Outdated(c) THEN Opened(c)
     ELSE IF call[c].auto \/ call[c].kind = "upgrade" THEN Goto(c, "updating") ELSE Ends(c)
  /\ UNCHANGED <<infrastructure, bounds, history>>

\* Mutant: no check whether the table is still there.
InitializeAnyway(c) ==
  /\ pc[c] = "initializing"
  /\ record' = Version[c] /\ Opened(c)
  /\ UNCHANGED <<stack, table, code, bounds, history>>

\* The record names the caller's version, whatever code the function has.
Initialize(c) ==
  /\ pc[c] = "initializing"
  /\ IF table THEN record' = Version[c] /\ Opened(c)
     ELSE UNCHANGED record /\ Ends(c)
  /\ UNCHANGED <<stack, table, code, bounds, history>>

\* Mutant: the record is left as it was.
UpdateUnrecorded(c) ==
  /\ pc[c] = "updating"
  /\ IF code # NoFunction
       THEN code' = Version[c] /\ Opened(c)
       ELSE UNCHANGED code /\ Ends(c)
  /\ UNCHANGED <<stack, table, record, bounds, history>>

\* _perform_lambda_update(), and step 1 of upgrade.
Update(c) ==
  /\ pc[c] = "updating"
  /\ Puts(c, "recording")
  /\ UNCHANGED <<stack, table, record, bounds, history>>

\* The record is put without a condition.  An upgrade that has updated while it
\* opened finds itself up to date, or with --force updates again.
Record(c) ==
  /\ pc[c] = "recording"
  /\ IF table THEN record' = Version[c] ELSE UNCHANGED record
  /\ IF table /\ call[c].kind = "upgrade" THEN Goto(c, "rechecking") ELSE Ends(c)
  /\ UNCHANGED <<stack, table, code, bounds, history>>

\* What upgrade checks when it has its repository; auto stands for --force.  That
\* it was forced counts once.
Recheck(c) ==
  /\ pc[c] = "rechecking"
  /\ IF table /\ record # NoRecord /\ ~Incompatible(c) /\ (call[c].auto \/ Outdated(c))
       THEN /\ pc' = [pc EXCEPT ![c] = "updating"]
            /\ call' = [call EXCEPT ![c].kind = "deploy"]
       ELSE Ends(c)
  /\ UNCHANGED <<infrastructure, bounds, history>>

\* delete, from the command line; a stack that is being created can be deleted too.
DeleteStack ==
  /\ stack \in {"creating", "ready", "failed"} /\ deletes < MaxDeletes
  /\ deletes' = deletes + 1
  /\ stack' = "deleting"
  /\ UNCHANGED <<table, code, record, pc, call, calls, faults, history>>

\* A client dies, or a call it makes raises.
Die(c) ==
  /\ pc[c] # "idle" /\ faults < MaxFaults
  /\ faults' = faults + 1
  /\ Ends(c)
  /\ UNCHANGED <<infrastructure, calls, deletes, history>>

Proceed(c) ==
  \/ Open(c) \/ Build(c) \/ Deploy(c) \/ Upgrade(c)
  \/ Resolve(c) \/ Describe(c) \/ Submit(c) \/ Wait(c) \/ DeployCode(c)
  \/ Check(c) \/ Initialize(c) \/ Update(c) \/ Record(c) \/ Recheck(c)

Next ==
  \/ \E c \in Clients : Proceed(c) \/ Die(c)
  \/ CloudFormation \/ FailStack \/ DeleteStack

Spec == Init /\ [][Next]_vars

------------------------------------------------------------------------------
(* Properties *)

\* Every variable has the type the code gives it; the function and the record exist
\* only while the table does, and the table only while the stack does.
TypeOK ==
  /\ stack \in Statuses
  /\ table \in BOOLEAN
  /\ code \in {NoFunction, Placeholder} \cup Versions
  /\ record \in {NoRecord} \cup Versions
  /\ pc \in [Clients -> PCs]
  /\ call \in [Clients -> [kind : Kinds, auto : BOOLEAN]]
  /\ calls \in Nat /\ faults \in Nat /\ deletes \in Nat
  /\ mixed \in BOOLEAN /\ unattended \in BOOLEAN
  /\ code # NoFunction \/ record # NoRecord => table
  /\ table => stack \in {"creating", "ready", "deleting"}

Quiet == faults = 0 /\ \A c \in Clients : pc[c] = "idle"

\* However many clients found no table and set out to create the stack, one of them
\* puts the code: once all calls have ended and none was cut short, a stack that is
\* ready does not run the template's placeholder; unless it was created by a deploy
\* with --no-wait and no call that waits has come to it since, of which the command
\* itself says that the code "will not be deployed" (cli.py:506).
CodeDeployed == Quiet /\ stack = "ready" /\ ~unattended => code \in Versions

\* The record is true: once all calls have ended and none was cut short, the version
\* it names is the version of the code, if no two calls of different versions
\* overlapped and no client ensured the infrastructure of a stack whose record names
\* another version.  Of a stack nobody waited for, an open() may have written the
\* record while the code is the placeholder; any other code is the recorded one there, too.
RecordIsTrue ==
  Quiet /\ ~mixed /\ stack = "ready" /\ record # NoRecord =>
    code = record \/ (unattended /\ code = Placeholder)

\* What set_version_record() says of lambda_version: "Currently deployed Lambda
\* version", whenever all calls have ended and none was cut short.
RecordSaysDeployed == Quiet /\ stack = "ready" /\ record # NoRecord => code = record
===============================================================================
