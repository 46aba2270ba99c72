-------------------------------- MODULE Cascade --------------------------------
(***************************************************************************)
(* acquire() of entities that cascade: every lease of a child also         *)
(* consumes from the one parent.  Two bucket items are written, together   *)
(* in one transaction on the slow path, one by one everywhere else, with   *)
(* compensating writes when the second one does not succeed.               *)
(*                                                                         *)
(* One limit, whole tokens.  Time is left to BucketLease: a refill adds    *)
(* any amount up to the ceiling, and rf is a counter of the writes that    *)
(* moved it.  No item is ever deleted here.                                *)
(***************************************************************************)
EXTENDS Integers, FiniteSetsExt

CONSTANTS
  Clients,      \* the tasks that acquire
  Children,     \* entities with cascade set
  Parent,       \* their parent
  Capacity,     \* [Entities -> tokens]
  Requests,     \* amounts a client may ask for
  Changes,      \* what a lease body may change its consumption by
  MaxAcquires,  \* bound on calls of acquire()
  MaxFaults     \* bound on crashes and failed calls

Entities == Children \cup {Parent}
Roles == {"child", "parent"}

ASSUME EntityAssumption ==
  /\ Parent \notin Children
  /\ IsFiniteSet(Clients) /\ IsFiniteSet(Children)
  /\ IsFiniteSet(Requests) /\ IsFiniteSet(Changes)
  /\ Capacity \in [Entities -> Nat \ {0}]
  /\ Requests \subseteq Nat \ {0} /\ Requests # {}
  /\ Changes \subseteq Int

VARIABLES
  item,      \* [entity -> its bucket item]
  pc,        \* where each client is in acquire()
  req,       \* [client -> the child it acquires and the amount]
  out,       \* [client -> the outcome of its speculative writes]
  plan,      \* [client -> the requests _commit_initial built]
  lease,     \* [client -> its open lease]
  cached,    \* [client -> the children in its process's entity cache]
  used,      \* history: [child -> consumption of the leases that ended well]
  acquires,  \* history: calls of acquire() so far
  faults     \* history: crashes and failed calls so far

vars == <<item, pc, req, out, plan, lease, cached, used, acquires, faults>>

------------------------------------------------------------------------------
PCs == {"idle", "speculating", "undoThenRead", "undoThenRaise", "parentReading", "parentWriting",
        "parentRetrying", "reading", "readingParent", "writing", "retrying", "open", "closing",
        "rollingback", "rollingbackParent"}

NoItem == [exists |-> FALSE, tk |-> 0, tc |-> 0, rf |-> 0]
NoRequest == [of |-> Parent, n |-> 0]
NoOutcome == [r \in Roles |-> "none"]
NoWrite == [kind |-> "none", rf |-> 0, refill |-> 0, ok |-> FALSE]
NoPlan == [r \in Roles |-> NoWrite]
NoLease == [initial |-> 0, want |-> 0]

At(c, r) == IF r = "parent" THEN Parent ELSE req[c].of
With(c, answer) == {r \in Roles : out[c][r] = answer}

\* ADD tk -n, tc +n on each of a set of items.
TakeFrom(S, n) ==
  [e \in Entities |-> IF e \in S THEN [item[e] EXCEPT !.tk = @ - n, !.tc = @ + n] ELSE item[e]]

\* The condition of a speculative or consumption-only write.
Covers(e, n) == item[e].exists /\ item[e].tk >= n

\* What refill_bucket may add, or take away above the ceiling.
Refills(e) ==
  LET room == Capacity[e] - item[e].tk
  IN  IF ~item[e].exists THEN {0} ELSE IF room >= 0 THEN 0..room ELSE room..0

\* try_consume on the bucket read, or on a full one if there is none; then the
\* request for it.
Built(e, n, refill) ==
  [kind   |-> IF item[e].exists THEN "normal" ELSE "create",
   rf     |-> item[e].rf,
   refill |-> refill,
   ok     |-> n <= refill + IF item[e].exists THEN item[e].tk ELSE Capacity[e]]

\* The conditions of build_composite_create and build_composite_normal.
Condition(e, n, p) ==
  \/ p.kind = "create" /\ ~item[e].exists
  \/ /\ p.kind = "normal" /\ item[e].exists
     /\ item[e].rf = p.rf
     /\ n > p.refill => item[e].tk >= n - p.refill

\* What they write: rf moves, unless the time is still the same.
Writes(e, n, p) ==
  IF p.kind = "create" THEN {[exists |-> TRUE, tk |-> Capacity[e] - n, tc |-> n, rf |-> 0]}
  ELSE {[item[e] EXCEPT !.tk = @ + p.refill - n, !.tc = @ + n, !.rf = @ + d] :
          d \in IF p.refill # 0 THEN {1} ELSE {0, 1}}

Goto(c, l) == pc' = [pc EXCEPT ![c] = l]

Forget(c) ==
  /\ Goto(c, "idle")
  /\ req' = [req EXCEPT ![c] = NoRequest]
  /\ out' = [out EXCEPT ![c] = NoOutcome]
  /\ plan' = [plan EXCEPT ![c] = NoPlan]
  /\ lease' = [lease EXCEPT ![c] = NoLease]

Open(c) ==
  /\ Goto(c, "open")
  /\ out' = [out EXCEPT ![c] = NoOutcome]
  /\ plan' = [plan EXCEPT ![c] = NoPlan]
  /\ lease' = [lease EXCEPT ![c] = [initial |-> req[c].n, want |-> req[c].n]]
  /\ UNCHANGED req

Init ==
  /\ item = [e \in Entities |-> NoItem]
  /\ pc = [c \in Clients |-> "idle"]
  /\ req = [c \in Clients |-> NoRequest]
  /\ out = [c \in Clients |-> NoOutcome]
  /\ plan = [c \in Clients |-> NoPlan]
  /\ lease = [c \in Clients |-> NoLease]
  /\ cached = [c \in Clients |-> {}]
  /\ used = [e \in Children |-> 0]
  /\ acquires = 0
  /\ faults = 0

------------------------------------------------------------------------------
(* The speculative writes *)

\* Both at once if the entity cache knows the parent, else the child's first.
Acquire(c, e, n) ==
  /\ pc[c] = "idle"
  /\ acquires < MaxAcquires
  /\ acquires' = acquires + 1
  /\ Goto(c, "speculating")
  /\ req' = [req EXCEPT ![c] = [of |-> e, n |-> n]]
  /\ out' = [out EXCEPT ![c] =
               [r \in Roles |-> IF r = "child" \/ e \in cached[c] THEN "due" ELSE "none"]]
  /\ UNCHANGED <<item, plan, lease, cached, used, faults>>

\* _speculative_consume_single; the child's answer fills the entity cache.
Speculate(c, r) ==
  /\ pc[c] = "speculating"
  /\ out[c][r] = "due"
  /\ \/ /\ Covers(At(c, r), req[c].n)
        /\ item' = TakeFrom({At(c, r)}, req[c].n)
        /\ out' = [out EXCEPT ![c][r] = "hit"]
        /\ cached' = IF r = "child" THEN [cached EXCEPT ![c] = @ \cup {req[c].of}] ELSE cached
     \/ /\ ~Covers(At(c, r), req[c].n)
        /\ out' = [out EXCEPT ![c][r] = IF item[At(c, r)].exists THEN "short" ELSE "missing"]
        /\ UNCHANGED <<item, cached>>
  /\ UNCHANGED <<pc, req, plan, lease, used, acquires, faults>>

\* Every write of asyncio.gather has answered.
Settled(c) == pc[c] = "speculating" /\ With(c, "due") = {}

\* The cache did not know the parent: its write comes after the child's.
ParentNext(c) ==
  /\ Settled(c)
  /\ out[c] = [child |-> "hit", parent |-> "none"]
  /\ out' = [out EXCEPT ![c].parent = "due"]
  /\ UNCHANGED <<item, pc, req, plan, lease, cached, used, acquires, faults>>

BothHit(c) ==
  /\ Settled(c)
  /\ out[c] = [child |-> "hit", parent |-> "hit"]
  /\ Open(c)
  /\ UNCHANGED <<item, cached, used, acquires, faults>>

\* _handle_nested_parent_failure, and the same after a sequential write: a
\* parent that a refill would help gets a slow path of its own, with the child's
\* consumption kept; otherwise the child's is given back.
ChildOnlyHit(c) ==
  /\ Settled(c)
  /\ out[c].child = "hit" /\ out[c].parent \in {"missing", "short"}
  /\ IF out[c].parent = "missing" THEN Goto(c, "undoThenRead")
     ELSE Goto(c, "parentReading") \/ Goto(c, "undoThenRaise")
  /\ UNCHANGED <<item, req, out, plan, lease, cached, used, acquires, faults>>

\* The parent's is given back; the rest is as if the child had been alone.
ParentOnlyHit(c) ==
  /\ Settled(c)
  /\ out[c].child # "hit" /\ out[c].parent = "hit"
  /\ \/ Goto(c, "undoThenRead")
     \/ out[c].child = "short" /\ Goto(c, "undoThenRaise")
  /\ UNCHANGED <<item, req, out, plan, lease, cached, used, acquires, faults>>

NoneHit(c) ==
  /\ Settled(c)
  /\ With(c, "hit") = {}
  /\ \/ /\ Goto(c, "reading")
        /\ out' = [out EXCEPT ![c] = NoOutcome]
        /\ UNCHANGED <<req, plan, lease>>
     \/ out[c].child = "short" /\ Forget(c)
  /\ UNCHANGED <<item, cached, used, acquires, faults>>

\* _compensate_speculative, then the slow path or RateLimitExceeded.
Undone(c) == TakeFrom({At(c, r) : r \in With(c, "hit")}, -req[c].n)

Undo(c) ==
  /\ pc[c] \in {"undoThenRead", "undoThenRaise"}
  /\ item' = Undone(c)
  /\ IF pc[c] = "undoThenRaise" THEN Forget(c)
     ELSE /\ Goto(c, "reading")
          /\ out' = [out EXCEPT ![c] = NoOutcome]
          /\ plan' = [plan EXCEPT ![c] = NoPlan]
          /\ UNCHANGED <<req, lease>>
  /\ UNCHANGED <<cached, used, acquires, faults>>

------------------------------------------------------------------------------
(* _try_parent_only_acquire: the child's consumption stays while the parent  *)
(* is read, refilled and written alone                                       *)

\* Mutant: the child is not given back when the parent cannot be had.
FailsUncompensated(c) ==
  /\ Goto(c, "reading")
  /\ out' = [out EXCEPT ![c] = NoOutcome]
  /\ UNCHANGED plan

ParentFails(c) == Goto(c, "undoThenRead") /\ UNCHANGED <<out, plan>>

ParentRead(c) ==
  /\ pc[c] = "parentReading"
  /\ \E refill \in Refills(Parent) :
       LET p == Built(Parent, req[c].n, refill)
       IN  IF p.ok
             THEN /\ plan' = [plan EXCEPT ![c].parent = p]
                  /\ Goto(c, "parentWriting")
                  /\ UNCHANGED out
             ELSE ParentFails(c)
  /\ UNCHANGED <<item, req, lease, cached, used, acquires, faults>>

ParentWrites(c) ==
  IF Condition(Parent, req[c].n, plan[c].parent)
    THEN {[item EXCEPT ![Parent] = w] : w \in Writes(Parent, req[c].n, plan[c].parent)}
    ELSE {}

ParentWrite(c) ==
  /\ pc[c] = "parentWriting"
  /\ \/ item' \in ParentWrites(c) /\ Open(c)
     \/ ParentWrites(c) = {} /\ Goto(c, "parentRetrying") /\ UNCHANGED <<item, req, out, plan, lease>>
  /\ UNCHANGED <<cached, used, acquires, faults>>

ParentRetry(c) ==
  /\ pc[c] = "parentRetrying"
  /\ \/ Covers(Parent, req[c].n) /\ item' = TakeFrom({Parent}, req[c].n) /\ Open(c)
     \/ ~Covers(Parent, req[c].n) /\ ParentFails(c) /\ UNCHANGED <<item, req, lease>>
  /\ UNCHANGED <<cached, used, acquires, faults>>

------------------------------------------------------------------------------
(* The slow path: two reads, one transaction *)

Read(c) ==
  /\ pc[c] = "reading"
  /\ \E refill \in Refills(req[c].of) :
       plan' = [plan EXCEPT ![c].child = Built(req[c].of, req[c].n, refill)]
  /\ cached' = [cached EXCEPT ![c] = @ \cup {req[c].of}]
  /\ Goto(c, "readingParent")
  /\ UNCHANGED <<item, req, out, lease, used, acquires, faults>>

\* Mutant: only the parent's limits are checked.
ReadParentUnchecked(c) ==
  /\ pc[c] = "readingParent"
  /\ \E refill \in Refills(Parent) :
       LET p == Built(Parent, req[c].n, refill)
       IN  /\ p.ok
           /\ plan' = [plan EXCEPT ![c].parent = p]
           /\ Goto(c, "writing")
  /\ UNCHANGED <<item, req, out, lease, cached, used, acquires, faults>>

ReadParent(c) ==
  /\ pc[c] = "readingParent"
  /\ \E refill \in Refills(Parent) :
       LET p == Built(Parent, req[c].n, refill)
       IN  IF p.ok /\ plan[c].child.ok
             THEN /\ plan' = [plan EXCEPT ![c].parent = p]
                  /\ Goto(c, "writing")
                  /\ UNCHANGED <<req, out, lease>>
             ELSE Forget(c)
  /\ UNCHANGED <<item, cached, used, acquires, faults>>

BothWrites(c) ==
  IF \A r \in Roles : Condition(At(c, r), req[c].n, plan[c][r])
    THEN {[item EXCEPT ![req[c].of] = v, ![Parent] = w] :
            v \in Writes(req[c].of, req[c].n, plan[c].child),
            w \in Writes(Parent, req[c].n, plan[c].parent)}
    ELSE {}

Write(c) ==
  /\ pc[c] = "writing"
  /\ \/ item' \in BothWrites(c) /\ Open(c)
     \/ BothWrites(c) = {} /\ Goto(c, "retrying") /\ UNCHANGED <<item, req, out, plan, lease>>
  /\ UNCHANGED <<cached, used, acquires, faults>>

\* The consumption-only transaction on both items, whichever condition failed.
RetryWrites(c) ==
  IF \A r \in Roles : Covers(At(c, r), req[c].n)
    THEN {TakeFrom({At(c, r) : r \in Roles}, req[c].n)} ELSE {}

Retry(c) ==
  /\ pc[c] = "retrying"
  /\ \/ item' \in RetryWrites(c) /\ Open(c)
     \/ RetryWrites(c) = {} /\ Forget(c) /\ UNCHANGED item
  /\ UNCHANGED <<cached, used, acquires, faults>>

------------------------------------------------------------------------------
(* The lease: its body, and write_each of what it owes or gets back *)

Change(c, d) ==
  /\ pc[c] = "open"
  /\ lease[c].want = lease[c].initial
  /\ lease' = [lease EXCEPT ![c].want = @ + d]
  /\ UNCHANGED <<item, pc, req, out, plan, cached, used, acquires, faults>>

Delta(c) == lease[c].want - lease[c].initial

Done(c) == Forget(c) /\ used' = [used EXCEPT ![req[c].of] = @ + lease[c].want]

CloseChild(c) ==
  /\ pc[c] = "open"
  /\ item' = TakeFrom({req[c].of}, Delta(c))
  /\ IF Delta(c) = 0 THEN Done(c)
     ELSE Goto(c, "closing") /\ UNCHANGED <<req, out, plan, lease, used>>
  /\ UNCHANGED <<cached, acquires, faults>>

CloseParent(c) ==
  /\ pc[c] = "closing"
  /\ item' = TakeFrom({Parent}, Delta(c))
  /\ Done(c)
  /\ UNCHANGED <<cached, acquires, faults>>

BodyRaises(c) ==
  /\ pc[c] = "open"
  /\ Goto(c, "rollingback")
  /\ UNCHANGED <<item, req, out, plan, lease, cached, used, acquires, faults>>

\* Mutant: only the child is given back.
RollbackChildAlone(c) ==
  /\ pc[c] = "rollingback"
  /\ item' = TakeFrom({req[c].of}, -lease[c].initial)
  /\ Forget(c)
  /\ UNCHANGED <<cached, used, acquires, faults>>

RollbackChild(c) ==
  /\ pc[c] = "rollingback"
  /\ item' = TakeFrom({req[c].of}, -lease[c].initial)
  /\ Goto(c, "rollingbackParent")
  /\ UNCHANGED <<req, out, plan, lease, cached, used, acquires, faults>>

RollbackParent(c) ==
  /\ pc[c] = "rollingbackParent"
  /\ item' = TakeFrom({Parent}, -lease[c].initial)
  /\ Forget(c)
  /\ UNCHANGED <<cached, used, acquires, faults>>

------------------------------------------------------------------------------
(* Failures *)

\* What the writes a client is waiting for may do to the table.  A gather that
\* raises leaves its other write running: it lands, or not, like the first.
Pending(c) ==
  CASE pc[c] = "speculating" ->
         {TakeFrom(S, req[c].n) :
            S \in SUBSET {At(c, r) : r \in {x \in With(c, "due") : Covers(At(c, x), req[c].n)}}}
    [] pc[c] \in {"undoThenRead", "undoThenRaise"} -> {Undone(c)}
    [] pc[c] = "parentWriting" -> ParentWrites(c)
    [] pc[c] = "parentRetrying" /\ Covers(Parent, req[c].n) -> {TakeFrom({Parent}, req[c].n)}
    [] pc[c] = "writing" -> BothWrites(c)
    [] pc[c] = "retrying" -> RetryWrites(c)
    [] pc[c] = "open" -> {TakeFrom({req[c].of}, Delta(c))}
    [] pc[c] = "closing" -> {TakeFrom({Parent}, Delta(c))}
    [] pc[c] = "rollingback" -> {TakeFrom({req[c].of}, -lease[c].initial)}
    [] pc[c] = "rollingbackParent" -> {TakeFrom({Parent}, -lease[c].initial)}
    [] OTHER -> {}

\* A call raises, its writes applied or not: the parent-only path gives the
\* child back and raises, a commit rolls back, all else only raises.
CallRaises(c) ==
  /\ faults < MaxFaults
  /\ faults' = faults + 1
  /\ pc[c] # "idle"
  /\ pc[c] = "open" => Delta(c) # 0
  /\ item' \in {item} \cup Pending(c)
  /\ CASE pc[c] \in {"parentReading", "parentWriting", "parentRetrying"} ->
            Goto(c, "undoThenRaise") /\ UNCHANGED <<req, out, plan, lease>>
       [] pc[c] \in {"open", "closing"} ->
            Goto(c, "rollingback") /\ UNCHANGED <<req, out, plan, lease>>
       [] OTHER -> Forget(c)
  /\ UNCHANGED <<cached, used, acquires>>

\* The process dies or the task is cancelled.
Crash(c) ==
  /\ faults < MaxFaults
  /\ faults' = faults + 1
  /\ pc[c] # "idle"
  /\ Forget(c)
  /\ UNCHANGED <<item, cached, used, acquires>>

ClientStep(c) ==
  \/ \E e \in Children, n \in Requests : Acquire(c, e, n)
  \/ \E r \in Roles : Speculate(c, r)
  \/ ParentNext(c) \/ BothHit(c) \/ ChildOnlyHit(c) \/ ParentOnlyHit(c) \/ NoneHit(c) \/ Undo(c)
  \/ ParentRead(c) \/ ParentWrite(c) \/ ParentRetry(c)
  \/ Read(c) \/ ReadParent(c) \/ Write(c) \/ Retry(c)
  \/ \E d \in Changes : Change(c, d)
  \/ CloseChild(c) \/ CloseParent(c) \/ BodyRaises(c) \/ RollbackChild(c) \/ RollbackParent(c)
  \/ CallRaises(c) \/ Crash(c)

Next == \E c \in Clients : ClientStep(c)

Spec == Init /\ [][Next]_vars

------------------------------------------------------------------------------
(* Properties *)

Bucket == [exists : BOOLEAN, tk : Int, tc : Int, rf : Nat]
Answers == {"none", "due", "hit", "short", "missing"}
Request == [kind : {"none", "create", "normal"}, rf : Nat, refill : Int, ok : BOOLEAN]

(* Type invariant.  A client that gives a speculative write back has exactly *)
(* one to give back, and one that writes has found both buckets sufficient.  *)
TypeOK ==
  /\ item \in [Entities -> Bucket]
  /\ pc \in [Clients -> PCs]
  /\ req \in [Clients -> [of : Entities, n : Nat]]
  /\ out \in [Clients -> [Roles -> Answers]]
  /\ plan \in [Clients -> [Roles -> Request]]
  /\ lease \in [Clients -> [initial : Nat, want : Int]]
  /\ cached \in [Clients -> SUBSET Children]
  /\ used \in [Children -> Int]
  /\ acquires \in Nat /\ faults \in Nat
  /\ \A c \in Clients :
       pc[c] \in {"undoThenRead", "undoThenRaise"} => Cardinality(With(c, "hit")) = 1
  /\ \A c \in Clients : pc[c] = "writing" => \A r \in Roles : plan[c][r].ok

\* No client is inside a call of acquire() or on its way out of one.
Quiet == \A c \in Clients : pc[c] \in {"idle", "open"}

\* What the leases of a child consumed: those that ended well and the open ones.
Leased(e) ==
  used[e] + SumFunction([c \in Clients |-> IF req[c].of = e THEN lease[c].initial ELSE 0])

(* A cascade consumes from both or from neither: without failures, once no   *)
(* call is under way, a child's counter is what its leases consumed, and the *)
(* parent's is all of that.  A rejected request, by whatever path, a late    *)
(* compensation and a rollback leave nothing behind.                         *)
ConsumedTogether ==
  faults = 0 /\ Quiet =>
    /\ \A e \in Children : item[e].tc = Leased(e)
    /\ item[Parent].tc = SumFunction([e \in Children |-> Leased(e)])

\* The most that one write moves.
Largest == Max(Requests \cup {IF d < 0 THEN -d ELSE d : d \in Changes})

(* One failure separates child and parent by one request at most, whenever   *)
(* it comes and whatever the compensations, rollbacks and retries after it.  *)
FaultsCostOneRequest ==
  Quiet =>
    LET gap == item[Parent].tc - SumFunction([e \in Children |-> item[e].tc])
    IN  gap <= faults * Largest /\ -gap <= faults * Largest

(* No write of an acquire takes a bucket below zero: not a speculative one   *)
(* racing a refill, not the transaction, not a parent-only write.  Only a    *)
(* lease that was admitted may, by adjusting.                                *)
AcquireNeverOverdraws ==
  [][\A e \in Entities :
       item'[e].tk < item[e].tk /\ item'[e].tk < 0 =>
         \E c \in Clients : pc[c] \in {"open", "closing"} /\ pc'[c] # pc[c]]_vars
================================================================================
