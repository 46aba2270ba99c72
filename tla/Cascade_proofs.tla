---------------------------- MODULE Cascade_proofs ----------------------------
(***************************************************************************)
(* Proofs about Cascade: its type invariant, what a child and its parent   *)
(* have counted, and that no write of an acquire overdraws.                *)
(*                                                                         *)
(* The counters of a child and of its parent differ, at any moment, by     *)
(* what the calls under way have written to one of them and not to the     *)
(* other.  The inductive invariant says what that is for each place in the *)
(* code, and that a failure adds one request at most to it.                *)
(***************************************************************************)
EXTENDS Cascade, Sums

------------------------------------------------------------------------------
(* The inductive invariant *)

Leasing == {"open", "closing", "rollingback", "rollingbackParent"}
Undoing == {"undoThenRead", "undoThenRaise"}
ParentOnly == {"parentReading", "parentWriting", "parentRetrying"}

\* The variables of the clients, and the others.
ClientTypes ==
  /\ pc \in [Clients -> PCs]
  /\ req \in [Clients -> [of : Entities, n : Nat]]
  /\ out \in [Clients -> [Roles -> Answers]]
  /\ plan \in [Clients -> [Roles -> Request]]
  /\ lease \in [Clients -> [initial : Nat, want : Int]]

TableTypes ==
  /\ item \in [Entities -> Bucket]
  /\ cached \in [Clients -> SUBSET Children]
  /\ used \in [Children -> Int]
  /\ acquires \in Nat /\ faults \in Nat

\* A call is for a child, and for an amount that clients ask for.
Requested ==
  \A c \in Clients : pc[c] # "idle" => req[c].of \in Children /\ req[c].n \in Requests

\* Speculative answers are remembered only as long as they are acted upon.
Answered ==
  \A c \in Clients :
    /\ pc[c] \in Undoing => (out[c].child = "hit" <=> out[c].parent # "hit")
    /\ pc[c] \in ParentOnly => out[c].child = "hit" /\ out[c].parent # "hit"
    /\ pc[c] \notin Undoing \cup ParentOnly \cup {"speculating"} => out[c] = NoOutcome

\* A write that would create an item was found to fit the bucket.
Planned ==
  \A c \in Clients :
    /\ \A r \in Roles : plan[c][r].kind = "create" /\ plan[c][r].ok => req[c].n <= Capacity[At(c, r)]
    /\ pc[c] = "idle" => plan[c] = NoPlan
    /\ pc[c] = "writing" => \A r \in Roles : plan[c][r].ok
    /\ pc[c] = "parentWriting" => plan[c].parent.ok

\* A lease asked for its request, and changed it at most once.
Held ==
  \A c \in Clients :
    IF pc[c] \in Leasing
      THEN lease[c].initial = req[c].n /\ lease[c].want - lease[c].initial \in Changes \cup {0}
      ELSE lease[c] = NoLease

\* Only items that exist were written to.
WroteToItems(c) ==
  \A r \in Roles : out[c][r] = "hit" \/ pc[c] \in Leasing => item[At(c, r)].exists

Present ==
  /\ \A e \in Entities : ~item[e].exists => item[e].tc = 0
  /\ \A c \in Clients : WroteToItems(c)

\* What client c has written to the child's counter and has not given back.
Taken(c) ==
  (IF out[c].child = "hit" THEN req[c].n ELSE 0)
    + IF pc[c] = "closing" THEN lease[c].want
      ELSE IF pc[c] = "rollingbackParent" THEN 0 ELSE lease[c].initial

\* By how much the parent's counter is ahead of the child's by client c.
Ahead(c) ==
  (IF out[c].parent = "hit" THEN req[c].n ELSE 0) - (IF out[c].child = "hit" THEN req[c].n ELSE 0)
    + IF pc[c] = "closing" THEN lease[c].initial - lease[c].want
      ELSE IF pc[c] = "rollingbackParent" THEN lease[c].initial ELSE 0

Share(c, e) == IF req[c].of = e THEN Taken(c) ELSE 0

TakenFrom(e) == SumFunctionOnSet([c \in Clients |-> Share(c, e)], Clients)
AheadInAll == SumFunctionOnSet([c \in Clients |-> Ahead(c)], Clients)
Gap == item[Parent].tc - SumFunctionOnSet([e \in Children |-> item[e].tc], Children)

\* Without failures a child's counter is what leases consumed and calls hold.
Counted == faults = 0 => \A e \in Children : item[e].tc = used[e] + TakenFrom(e)

\* The parent is ahead of the children by what the calls under way account for,
\* and by one request per failure.
Balanced == Gap - AheadInAll <= faults * Largest /\ AheadInAll - Gap <= faults * Largest

Local == ClientTypes /\ Requested /\ Answered /\ Planned /\ Held
Shape == TableTypes /\ Local
IInv == Shape /\ Present /\ Counted /\ Balanced

------------------------------------------------------------------------------
(* Where each client is *)

(* Forgetting a call leaves a client with nothing.                         *)
LEMMA ForgetLocal ==
  ASSUME Local, NEW c \in Clients, Forget(c)
  PROVE  Local'
<1> USE DEF Local, ClientTypes, Forget, Goto
<1>1. ClientTypes'
  BY EntityAssumption DEF PCs, Roles, Entities, Answers, Request, NoRequest, NoOutcome, NoPlan, NoWrite, NoLease
<1>2. Requested'
  BY DEF Requested
<1>3. Answered'
  BY DEF Answered, Undoing, ParentOnly
<1>4. Planned'
  <2>1. ASSUME NEW d \in Clients, d # c, NEW r \in Roles
        PROVE  plan'[d] = plan[d] /\ req'[d] = req[d] /\ pc'[d] = pc[d] /\ At(d, r)' = At(d, r)
    BY <2>1 DEF At
  <2>2. plan'[c] = NoPlan /\ pc'[c] = "idle"
    OBVIOUS
  <2>3. QED
    BY <2>1, <2>2 DEF Planned, NoPlan, NoWrite, Roles
<1>5. Held'
  <2>1. ASSUME NEW d \in Clients, d # c
        PROVE  lease'[d] = lease[d] /\ req'[d] = req[d] /\ pc'[d] = pc[d]
    BY <2>1
  <2>2. lease'[c] = NoLease /\ pc'[c] = "idle"
    OBVIOUS
  <2>3. QED
    BY <2>1, <2>2 DEF Held, Leasing
<1>6. QED
  BY <1>1, <1>2, <1>3, <1>4, <1>5

(* A lease opens with what was asked for.                                  *)
LEMMA OpenLocal ==
  ASSUME Local, NEW c \in Clients, pc[c] # "idle", Open(c)
  PROVE  Local'
<1> USE DEF Local, ClientTypes, Open, Goto
<1>1. ClientTypes'
  BY DEF PCs, Roles, Answers, Request, NoOutcome, NoPlan, NoWrite
<1>2. Requested'
  BY DEF Requested
<1>3. Answered'
  BY DEF Answered, Undoing, ParentOnly
<1>4. Planned'
  <2>1. ASSUME NEW d \in Clients, d # c, NEW r \in Roles
        PROVE  plan'[d] = plan[d] /\ req'[d] = req[d] /\ pc'[d] = pc[d] /\ At(d, r)' = At(d, r)
    BY <2>1 DEF At
  <2>2. plan'[c] = NoPlan /\ pc'[c] = "open"
    OBVIOUS
  <2>3. QED
    BY <2>1, <2>2 DEF Planned, NoPlan, NoWrite, Roles
<1>5. Held'
  <2>1. ASSUME NEW d \in Clients, d # c
        PROVE  lease'[d] = lease[d] /\ req'[d] = req[d] /\ pc'[d] = pc[d]
    BY <2>1
  <2>2. /\ lease'[c].initial = req'[c].n /\ lease'[c].want = lease'[c].initial
        /\ pc'[c] = "open" /\ lease'[c].initial \in Nat
    OBVIOUS
  <2>3. lease'[c].want - lease'[c].initial \in Changes \cup {0}
    BY <2>2
  <2>4. QED
    BY <2>1, <2>2, <2>3 DEF Held, Leasing
<1>6. QED
  BY <1>1, <1>2, <1>3, <1>4, <1>5

(* Going on to another place of the same kind changes nothing else.        *)
LEMMA GotoLocal ==
  ASSUME Local, NEW c \in Clients, NEW l \in PCs, Goto(c, l), UNCHANGED <<req, out, plan, lease>>,
         pc[c] # "idle", l \notin {"idle", "writing", "parentWriting"},
         l \in Leasing <=> pc[c] \in Leasing,
         l \in Undoing => (out[c].child = "hit" <=> out[c].parent # "hit"),
         l \in ParentOnly => out[c].child = "hit" /\ out[c].parent # "hit",
         l \notin Undoing \cup ParentOnly \cup {"speculating"} => out[c] = NoOutcome
  PROVE  Local'
<1> USE DEF Local, ClientTypes, Goto
<1>1. ClientTypes'
  OBVIOUS
<1>2. Requested'
  BY DEF Requested
<1>3. Answered'
  BY DEF Answered
<1>4. Planned'
  BY DEF Planned, At
<1>5. Held'
  BY DEF Held
<1>6. QED
  BY <1>1, <1>2, <1>3, <1>4, <1>5

(* A request is one _commit_initial can build, whatever the refill.        *)
LEMMA BuiltTypes ==
  ASSUME item \in [Entities -> Bucket], NEW e \in Entities, NEW n \in Nat, NEW refill \in Refills(e)
  PROVE  /\ Built(e, n, refill) \in Request
         /\ LET p == Built(e, n, refill) IN p.kind = "create" /\ p.ok => n <= Capacity[e]
<1>1. item[e] \in Bucket /\ Capacity[e] \in Nat
  BY EntityAssumption
<1>2. refill \in Int /\ (~item[e].exists => refill = 0)
  BY <1>1 DEF Refills, Bucket
<1>3. QED
  BY <1>1, <1>2 DEF Built, Request, Bucket

(* Each step of a client leaves every client where it may be.              *)
LEMMA LocalStep ==
  ASSUME Shape, NEW c \in Clients, ClientStep(c)
  PROVE  Local'
<1> USE DEF Shape
<1>0. req[c].of \in Entities /\ req[c].n \in Nat /\ Parent \in Entities
  BY EntityAssumption DEF Local, ClientTypes, Entities
<1>1. ASSUME NEW e \in Children, NEW n \in Requests, Acquire(c, e, n)
      PROVE  Local'
  <2> USE <1>1 DEF Acquire, Goto, Local, ClientTypes
  <2>1. ClientTypes'
    BY EntityAssumption DEF PCs, Roles, Entities, Answers
  <2>2. Requested'
    BY DEF Requested
  <2>3. Answered'
    BY DEF Answered, Undoing, ParentOnly
  <2>4. Planned'
    <3>1. ASSUME NEW d \in Clients, d # c, NEW r \in Roles
          PROVE  plan'[d] = plan[d] /\ req'[d] = req[d] /\ pc'[d] = pc[d] /\ At(d, r)' = At(d, r)
      BY <3>1 DEF At
    <3>2. plan'[c] = NoPlan /\ pc'[c] = "speculating"
      BY DEF Planned
    <3>3. QED
      BY <3>1, <3>2 DEF Planned, NoPlan, NoWrite, Roles
  <2>5. Held'
    BY DEF Held, Leasing
  <2>6. QED
    BY <2>1, <2>2, <2>3, <2>4, <2>5
<1>2. ASSUME NEW r \in Roles, Speculate(c, r)
      PROVE  Local'
  <2>1. PICK a \in {"hit", "short", "missing"} : out' = [out EXCEPT ![c][r] = a]
    BY <1>2 DEF Speculate
  <2>2. pc[c] = "speculating" /\ UNCHANGED <<pc, req, plan, lease>>
    BY <1>2 DEF Speculate
  <2> USE <2>1, <2>2 DEF Local, ClientTypes
  <2>3. ClientTypes'
    BY DEF Answers
  <2>4. Requested' /\ Held'
    BY DEF Requested, Held, Leasing
  <2>5. Answered'
    BY DEF Answered, Undoing, ParentOnly
  <2>6. Planned'
    BY DEF Planned, At
  <2>7. QED
    BY <2>3, <2>4, <2>5, <2>6
<1>3. CASE ParentNext(c)
  <2>1. /\ pc[c] = "speculating" /\ out' = [out EXCEPT ![c].parent = "due"]
        /\ UNCHANGED <<pc, req, plan, lease>>
    BY <1>3 DEF ParentNext, Settled
  <2> USE <2>1 DEF Local, ClientTypes
  <2>2. ClientTypes'
    BY DEF Roles, Answers
  <2>3. Requested' /\ Held'
    BY DEF Requested, Held, Leasing
  <2>4. Answered'
    BY DEF Answered, Undoing, ParentOnly
  <2>5. Planned'
    BY DEF Planned, At
  <2>6. QED
    BY <2>2, <2>3, <2>4, <2>5
<1>4. CASE BothHit(c)
  BY <1>4, OpenLocal DEF BothHit, Settled
<1>5. CASE ChildOnlyHit(c)
  <2>1. \E l \in {"undoThenRead", "parentReading", "undoThenRaise"} : Goto(c, l)
    BY <1>5 DEF ChildOnlyHit
  <2>2. QED
    BY <1>5, <2>1, GotoLocal DEF ChildOnlyHit, Settled, PCs, Leasing, Undoing, ParentOnly
<1>6. CASE ParentOnlyHit(c)
  <2>1. \E l \in {"undoThenRead", "undoThenRaise"} : Goto(c, l)
    BY <1>6 DEF ParentOnlyHit
  <2>2. QED
    BY <1>6, <2>1, GotoLocal DEF ParentOnlyHit, Settled, PCs, Leasing, Undoing, ParentOnly
<1>7. CASE NoneHit(c)
  <2>1. CASE Forget(c)
    BY <2>1, ForgetLocal
  <2>2. CASE Goto(c, "reading") /\ out' = [out EXCEPT ![c] = NoOutcome] /\ UNCHANGED <<req, plan, lease>>
    <3> USE <1>7, <2>2 DEF NoneHit, Settled, Goto, Local, ClientTypes
    <3>1. ClientTypes'
      BY DEF PCs, NoOutcome, Roles, Answers
    <3>2. Requested' /\ Held'
      BY DEF Requested, Held, Leasing
    <3>3. Answered'
      BY DEF Answered, Undoing, ParentOnly
    <3>4. Planned'
      BY DEF Planned, At
    <3>5. QED
      BY <3>1, <3>2, <3>3, <3>4
  <2>3. QED
    BY <1>7, <2>1, <2>2 DEF NoneHit
<1>8. CASE Undo(c)
  <2>1. CASE pc[c] = "undoThenRaise"
    BY <1>8, <2>1, ForgetLocal DEF Undo
  <2>2. CASE pc[c] = "undoThenRead"
    <3>1. /\ Goto(c, "reading") /\ out' = [out EXCEPT ![c] = NoOutcome]
          /\ plan' = [plan EXCEPT ![c] = NoPlan] /\ UNCHANGED <<req, lease>>
      BY <1>8, <2>2 DEF Undo
    <3> USE <2>2, <3>1 DEF Goto, Local, ClientTypes
    <3>2. ClientTypes'
      BY DEF PCs, NoOutcome, NoPlan, NoWrite, Roles, Answers, Request
    <3>3. Requested' /\ Held'
      BY DEF Requested, Held, Leasing
    <3>4. Answered'
      BY DEF Answered, Undoing, ParentOnly
    <3>5. Planned'
      BY DEF Planned, At, NoPlan, NoWrite
    <3>6. QED
      BY <3>2, <3>3, <3>4, <3>5
  <2>3. QED
    BY <1>8, <2>1, <2>2 DEF Undo
<1>9. CASE ParentRead(c)
  <2>1. PICK refill \in Refills(Parent) :
          LET p == Built(Parent, req[c].n, refill)
          IN  IF p.ok THEN /\ plan' = [plan EXCEPT ![c].parent = p]
                           /\ Goto(c, "parentWriting") /\ UNCHANGED out
              ELSE ParentFails(c)
    BY <1>9 DEF ParentRead
  <2> DEFINE p == Built(Parent, req[c].n, refill)
  <2>2. p \in Request /\ (p.kind = "create" /\ p.ok => req[c].n <= Capacity[Parent])
    BY <1>0, BuiltTypes DEF TableTypes
  <2>3. CASE ~p.ok
    <3>1. Goto(c, "undoThenRead") /\ UNCHANGED <<req, out, plan, lease>>
      BY <1>9, <2>1, <2>3 DEF ParentRead, ParentFails
    <3>2. pc[c] = "parentReading" /\ out[c].child = "hit" /\ out[c].parent # "hit"
      BY <1>9 DEF ParentRead, Local, Answered, ParentOnly
    <3>3. QED
      BY <3>1, <3>2, GotoLocal DEF PCs, Leasing, Undoing, ParentOnly
  <2>4. CASE p.ok
    <3>1. /\ pc[c] = "parentReading" /\ Goto(c, "parentWriting")
          /\ plan' = [plan EXCEPT ![c].parent = p] /\ UNCHANGED <<req, out, lease>>
      BY <1>9, <2>1, <2>4 DEF ParentRead
    <3> HIDE DEF p
    <3> USE <3>1 DEF Goto, Local, ClientTypes
    <3>2. ClientTypes'
      BY <2>2 DEF PCs, Roles
    <3>3. Requested' /\ Held'
      BY DEF Requested, Held, Leasing
    <3>4. Answered'
      BY DEF Answered, Undoing, ParentOnly
    <3>5. Planned'
      BY <2>2, <2>4 DEF Planned, At, Roles
    <3>6. QED
      BY <3>2, <3>3, <3>4, <3>5
  <2>5. QED
    BY <2>3, <2>4
<1>10. CASE ParentWrite(c)
  <2>1. CASE Open(c)
    BY <1>10, <2>1, OpenLocal DEF ParentWrite
  <2>2. CASE Goto(c, "parentRetrying") /\ UNCHANGED <<item, req, out, plan, lease>>
    <3>1. pc[c] = "parentWriting" /\ out[c].child = "hit" /\ out[c].parent # "hit"
      BY <1>10 DEF ParentWrite, Local, Answered, ParentOnly
    <3>2. QED
      BY <2>2, <3>1, GotoLocal DEF PCs, Leasing, Undoing, ParentOnly
  <2>3. QED
    BY <1>10, <2>1, <2>2 DEF ParentWrite
<1>11. CASE ParentRetry(c)
  <2>1. CASE Open(c)
    BY <1>11, <2>1, OpenLocal DEF ParentRetry
  <2>2. CASE ParentFails(c) /\ UNCHANGED <<item, req, lease>>
    <3>1. pc[c] = "parentRetrying" /\ out[c].child = "hit" /\ out[c].parent # "hit"
      BY <1>11 DEF ParentRetry, Local, Answered, ParentOnly
    <3>2. QED
      BY <2>2, <3>1, GotoLocal DEF ParentFails, PCs, Leasing, Undoing, ParentOnly
  <2>3. QED
    BY <1>11, <2>1, <2>2 DEF ParentRetry
<1>12. CASE Read(c)
  <2>1. PICK refill \in Refills(req[c].of) :
          plan' = [plan EXCEPT ![c].child = Built(req[c].of, req[c].n, refill)]
    BY <1>12 DEF Read
  <2> DEFINE p == Built(req[c].of, req[c].n, refill)
  <2>2. p \in Request /\ (p.kind = "create" /\ p.ok => req[c].n <= Capacity[req[c].of])
    BY <1>0, BuiltTypes DEF TableTypes
  <2>3. /\ pc[c] = "reading" /\ Goto(c, "readingParent")
        /\ plan' = [plan EXCEPT ![c].child = p] /\ UNCHANGED <<req, out, lease>>
    BY <1>12, <2>1 DEF Read
  <2> HIDE DEF p
  <2> USE <2>3 DEF Goto, Local, ClientTypes
  <2>4. ClientTypes'
    BY <2>2 DEF PCs, Roles
  <2>5. Requested' /\ Held'
    BY DEF Requested, Held, Leasing
  <2>6. Answered'
    BY DEF Answered, Undoing, ParentOnly
  <2>7. Planned'
    BY <2>2 DEF Planned, At, Roles
  <2>8. QED
    BY <2>4, <2>5, <2>6, <2>7
<1>13. CASE ReadParent(c)
  <2>1. PICK refill \in Refills(Parent) :
          LET p == Built(Parent, req[c].n, refill)
          IN  IF p.ok /\ plan[c].child.ok
                THEN /\ plan' = [plan EXCEPT ![c].parent = p]
                     /\ Goto(c, "writing") /\ UNCHANGED <<req, out, lease>>
                ELSE Forget(c)
    BY <1>13 DEF ReadParent
  <2> DEFINE p == Built(Parent, req[c].n, refill)
  <2>2. p \in Request /\ (p.kind = "create" /\ p.ok => req[c].n <= Capacity[Parent])
    BY <1>0, BuiltTypes DEF TableTypes
  <2>3. CASE ~(p.ok /\ plan[c].child.ok)
    BY <2>1, <2>3, ForgetLocal
  <2>4. CASE p.ok /\ plan[c].child.ok
    <3>1. /\ pc[c] = "readingParent" /\ Goto(c, "writing")
          /\ plan' = [plan EXCEPT ![c].parent = p] /\ UNCHANGED <<req, out, lease>>
      BY <1>13, <2>1, <2>4 DEF ReadParent
    <3> HIDE DEF p
    <3> USE <3>1 DEF Goto, Local, ClientTypes
    <3>2. ClientTypes'
      BY <2>2 DEF PCs, Roles
    <3>3. Requested' /\ Held'
      BY DEF Requested, Held, Leasing
    <3>4. Answered'
      BY DEF Answered, Undoing, ParentOnly
    <3>5. Planned'
      BY <2>2, <2>4 DEF Planned, At, Roles
    <3>6. QED
      BY <3>2, <3>3, <3>4, <3>5
  <2>5. QED
    BY <2>3, <2>4
<1>14. CASE Write(c)
  <2>1. CASE Open(c)
    BY <1>14, <2>1, OpenLocal DEF Write
  <2>2. CASE Goto(c, "retrying") /\ UNCHANGED <<item, req, out, plan, lease>>
    <3>1. pc[c] = "writing" /\ out[c] = NoOutcome
      BY <1>14 DEF Write, Local, Answered, Undoing, ParentOnly
    <3>2. QED
      BY <2>2, <3>1, GotoLocal DEF PCs, Leasing, Undoing, ParentOnly
  <2>3. QED
    BY <1>14, <2>1, <2>2 DEF Write
<1>15. CASE Retry(c)
  BY <1>15, OpenLocal, ForgetLocal DEF Retry
<1>16. ASSUME NEW d \in Changes, Change(c, d)
       PROVE  Local'
  <2> USE <1>16 DEF Change, Local, ClientTypes
  <2>1. d \in Int
    BY EntityAssumption
  <2>2. ClientTypes'
    BY <2>1
  <2>3. Requested' /\ Answered'
    BY DEF Requested, Answered
  <2>4. Planned'
    BY DEF Planned, At
  <2>5. Held'
    BY <2>1 DEF Held, Leasing
  <2>6. QED
    BY <2>2, <2>3, <2>4, <2>5
<1>17. CASE CloseChild(c)
  <2>1. CASE Forget(c)
    BY <2>1, ForgetLocal
  <2>2. CASE Goto(c, "closing") /\ UNCHANGED <<req, out, plan, lease, used>>
    <3>1. pc[c] = "open" /\ out[c] = NoOutcome
      BY <1>17 DEF CloseChild, Local, Answered, Undoing, ParentOnly
    <3>2. QED
      BY <2>2, <3>1, GotoLocal DEF PCs, Leasing, Undoing, ParentOnly
  <2>3. QED
    BY <1>17, <2>1, <2>2 DEF CloseChild, Done
<1>18. CASE CloseParent(c)
  BY <1>18, ForgetLocal DEF CloseParent, Done
<1>19. CASE BodyRaises(c)
  <2>1. pc[c] = "open" /\ out[c] = NoOutcome
    BY <1>19 DEF BodyRaises, Local, Answered, Undoing, ParentOnly
  <2>2. QED
    BY <1>19, <2>1, GotoLocal DEF BodyRaises, PCs, Leasing, Undoing, ParentOnly
<1>20. CASE RollbackChild(c)
  <2>1. pc[c] = "rollingback" /\ out[c] = NoOutcome
    BY <1>20 DEF RollbackChild, Local, Answered, Undoing, ParentOnly
  <2>2. QED
    BY <1>20, <2>1, GotoLocal DEF RollbackChild, PCs, Leasing, Undoing, ParentOnly
<1>21. CASE RollbackParent(c)
  BY <1>21, ForgetLocal DEF RollbackParent
<1>22. CASE CallRaises(c)
  <2>1. CASE pc[c] \in ParentOnly
    <3>1. Goto(c, "undoThenRaise") /\ UNCHANGED <<req, out, plan, lease>>
      BY <1>22, <2>1 DEF CallRaises, ParentOnly
    <3>2. out[c].child = "hit" /\ out[c].parent # "hit"
      BY <2>1 DEF Local, Answered
    <3>3. QED
      BY <2>1, <3>1, <3>2, GotoLocal DEF PCs, Leasing, Undoing, ParentOnly
  <2>2. CASE pc[c] \in {"open", "closing"}
    <3>1. Goto(c, "rollingback") /\ UNCHANGED <<req, out, plan, lease>>
      BY <1>22, <2>2 DEF CallRaises
    <3>2. out[c] = NoOutcome
      BY <2>2 DEF Local, Answered, Undoing, ParentOnly
    <3>3. QED
      BY <2>2, <3>1, <3>2, GotoLocal DEF PCs, Leasing, Undoing, ParentOnly
  <2>3. CASE pc[c] \notin ParentOnly \cup {"open", "closing"}
    <3>1. Forget(c)
      BY <1>22, <2>3 DEF CallRaises, ParentOnly
    <3>2. QED
      BY <3>1, ForgetLocal
  <2>4. QED
    BY <2>1, <2>2, <2>3
<1>23. CASE Crash(c)
  BY <1>23, ForgetLocal DEF Crash
<1>24. QED
  BY <1>1, <1>2, <1>3, <1>4, <1>5, <1>6, <1>7, <1>8, <1>9, <1>10, <1>11, <1>12, <1>13, <1>14,
     <1>15, <1>16, <1>17, <1>18, <1>19, <1>20, <1>21, <1>22, <1>23 DEF ClientStep

(* No step of a client touches what another one knows.                     *)
LEMMA OnlyItsOwn ==
  ASSUME Shape, NEW c \in Clients, ClientStep(c), NEW d \in Clients, d # c
  PROVE  pc'[d] = pc[d] /\ req'[d] = req[d] /\ out'[d] = out[d] /\ lease'[d] = lease[d]
<1> USE DEF Shape, Local, ClientTypes, Goto, Forget, Open, Done
<1>1. ASSUME NEW e \in Children, NEW n \in Requests, Acquire(c, e, n)
      PROVE  pc'[d] = pc[d] /\ req'[d] = req[d] /\ out'[d] = out[d] /\ lease'[d] = lease[d]
  BY <1>1 DEF Acquire
<1>2. ASSUME NEW r \in Roles, Speculate(c, r)
      PROVE  pc'[d] = pc[d] /\ req'[d] = req[d] /\ out'[d] = out[d] /\ lease'[d] = lease[d]
  BY <1>2 DEF Speculate
<1>3. CASE ParentNext(c)
  BY <1>3 DEF ParentNext
<1>4. CASE BothHit(c) \/ ChildOnlyHit(c) \/ ParentOnlyHit(c) \/ NoneHit(c)
  BY <1>4 DEF BothHit, ChildOnlyHit, ParentOnlyHit, NoneHit
<1>5. CASE Undo(c)
  BY <1>5 DEF Undo
<1>6. CASE ParentRead(c)
  BY <1>6 DEF ParentRead, ParentFails
<1>7. CASE ParentWrite(c) \/ ParentRetry(c)
  BY <1>7 DEF ParentWrite, ParentRetry, ParentFails
<1>8. CASE Read(c) \/ ReadParent(c)
  BY <1>8 DEF Read, ReadParent
<1>9. CASE Write(c) \/ Retry(c)
  BY <1>9 DEF Write, Retry
<1>10. ASSUME NEW x \in Changes, Change(c, x)
       PROVE  pc'[d] = pc[d] /\ req'[d] = req[d] /\ out'[d] = out[d] /\ lease'[d] = lease[d]
  BY <1>10 DEF Change
<1>11. CASE CloseChild(c) \/ CloseParent(c)
  BY <1>11 DEF CloseChild, CloseParent
<1>12. CASE BodyRaises(c) \/ RollbackChild(c) \/ RollbackParent(c)
  BY <1>12 DEF BodyRaises, RollbackChild, RollbackParent
<1>13. CASE CallRaises(c)
  BY <1>13 DEF CallRaises
<1>14. CASE Crash(c)
  BY <1>14 DEF Crash
<1>15. QED
  BY <1>1, <1>2, <1>3, <1>4, <1>5, <1>6, <1>7, <1>8, <1>9, <1>10, <1>11, <1>12, <1>13, <1>14 DEF ClientStep

------------------------------------------------------------------------------
(* What the writes do to an item *)

(* What taking n tokens from the items of S makes of each.                   *)
LEMMA TakeFromItem ==
  ASSUME item \in [Entities -> Bucket], NEW S, NEW n \in Int
  PROVE  /\ TakeFrom(S, n) \in [Entities -> Bucket]
         /\ \A e \in Entities :
              /\ TakeFrom(S, n)[e].exists = item[e].exists
              /\ TakeFrom(S, n)[e].tk = item[e].tk - IF e \in S THEN n ELSE 0
              /\ TakeFrom(S, n)[e].tc = item[e].tc + IF e \in S THEN n ELSE 0
<1>1. ASSUME NEW e \in Entities
      PROVE  /\ TakeFrom(S, n)[e] \in Bucket
             /\ TakeFrom(S, n)[e].exists = item[e].exists
             /\ TakeFrom(S, n)[e].tk = item[e].tk - IF e \in S THEN n ELSE 0
             /\ TakeFrom(S, n)[e].tc = item[e].tc + IF e \in S THEN n ELSE 0
  <2>1. item[e] \in Bucket
    OBVIOUS
  <2>2. TakeFrom(S, n)[e] = IF e \in S THEN [item[e] EXCEPT !.tk = item[e].tk - n, !.tc = item[e].tc + n] ELSE item[e]
    BY DEF TakeFrom
  <2> HIDE DEF TakeFrom
  <2> DEFINE t == TakeFrom(S, n)[e]
  <2>3. CASE e \in S
    <3>1. t = [exists |-> item[e].exists, tk |-> item[e].tk - n, tc |-> item[e].tc + n, rf |-> item[e].rf]
      BY <2>1, <2>2, <2>3 DEF Bucket
    <3>2. QED
      BY <2>1, <2>3, <3>1 DEF Bucket
  <2>4. CASE e \notin S
    BY <2>1, <2>2, <2>4 DEF Bucket
  <2>5. QED
    BY <2>3, <2>4
<1>2. TakeFrom(S, n) = [e \in Entities |-> TakeFrom(S, n)[e]]
  BY DEF TakeFrom
<1>3. QED
  BY <1>1, <1>2

(* A conditional write consumes what was asked for and does not overdraw.  *)
LEMMA WrittenItem ==
  ASSUME item \in [Entities -> Bucket], NEW e \in Entities, ~item[e].exists => item[e].tc = 0,
         NEW n \in Nat, NEW p \in Request, p.kind = "create" => n <= Capacity[e],
         Condition(e, n, p), NEW w \in Writes(e, n, p)
  PROVE  w \in Bucket /\ w.exists /\ w.tc = item[e].tc + n /\ (w.tk >= item[e].tk \/ w.tk >= 0)
<1>1. item[e] \in Bucket /\ Capacity[e] \in Nat
  BY EntityAssumption
<1>2. CASE p.kind = "create"
  <2>1. w = [exists |-> TRUE, tk |-> Capacity[e] - n, tc |-> n, rf |-> 0]
    BY <1>2 DEF Writes
  <2>2. item[e].tc = 0
    BY <1>2 DEF Condition
  <2>3. QED
    BY <1>1, <1>2, <2>1, <2>2 DEF Bucket
<1>3. CASE p.kind # "create"
  <2>1. PICK d \in {0, 1} : w = [item[e] EXCEPT !.tk = @ + p.refill - n, !.tc = @ + n, !.rf = @ + d]
    BY <1>3 DEF Writes
  <2>2. item[e].exists /\ (n > p.refill => item[e].tk >= n - p.refill)
    BY <1>3 DEF Condition
  <2>3. p.refill \in Int
    BY DEF Request
  <2>4. w = [exists |-> item[e].exists, tk |-> item[e].tk + p.refill - n,
             tc |-> item[e].tc + n, rf |-> item[e].rf + d]
    BY <1>1, <2>1 DEF Bucket
  <2>5. QED
    BY <1>1, <2>2, <2>3, <2>4 DEF Bucket
<1>4. QED
  BY <1>2, <1>3

------------------------------------------------------------------------------
(* What a client holds *)

(* Where a client stands decides what it has taken and how far it is ahead. *)
LEMMA Standing ==
  ASSUME Local, NEW c \in Clients
  PROVE  /\ Taken(c) \in Int /\ Ahead(c) \in Int
         /\ pc[c] \in {"idle", "reading", "readingParent", "writing", "retrying"} => Taken(c) = 0 /\ Ahead(c) = 0
         /\ pc[c] \in {"open", "rollingback"} => Taken(c) = req[c].n /\ Ahead(c) = 0
         /\ pc[c] \in ParentOnly => Taken(c) = req[c].n /\ Ahead(c) = -req[c].n
<1> USE DEF Local, ClientTypes
<1>1. req[c].n \in Nat /\ lease[c].initial \in Nat /\ lease[c].want \in Int
  OBVIOUS
<1>2. Taken(c) \in Int /\ Ahead(c) \in Int
  BY <1>1 DEF Taken, Ahead
<1>3. pc[c] \notin Leasing => lease[c].initial = 0
  BY DEF Held, NoLease
<1>4. pc[c] \notin Undoing \cup ParentOnly \cup {"speculating"} => out[c].child # "hit" /\ out[c].parent # "hit"
  BY DEF Answered, NoOutcome, Roles
<1>5. pc[c] \in {"idle", "reading", "readingParent", "writing", "retrying"} => Taken(c) = 0 /\ Ahead(c) = 0
  BY <1>3, <1>4 DEF Taken, Ahead, Leasing, Undoing, ParentOnly
<1>6. pc[c] \in {"open", "rollingback"} => Taken(c) = req[c].n /\ Ahead(c) = 0
  BY <1>1, <1>4 DEF Taken, Ahead, Held, Leasing, Undoing, ParentOnly
<1>7. pc[c] \in ParentOnly => Taken(c) = req[c].n /\ Ahead(c) = -req[c].n
  BY <1>1, <1>3 DEF Taken, Ahead, Answered, ParentOnly, Leasing
<1>8. QED
  BY <1>2, <1>5, <1>6, <1>7

(* A request, and what a lease may change, are bounded.                    *)
LEMMA LargestBounds ==
  ASSUME NEW n \in Requests
  PROVE  /\ Largest \in Nat /\ n <= Largest
         /\ \A d \in Changes \cup {0} : d <= Largest /\ -d <= Largest
<1> DEFINE f == [d \in Changes |-> IF d < 0 THEN -d ELSE d]
           T == {IF d < 0 THEN -d ELSE d : d \in Changes}
           M == Requests \cup T
<1>1. M \subseteq Nat
  BY EntityAssumption
<1>2. IsFiniteSet(M)
  <2>1. f \in Surjection(Changes, T)
    BY DEF Surjection
  <2>2. IsFiniteSet(T)
    <3> HIDE DEF f, T
    <3>1. QED
      BY <2>1, FS_Surjection, EntityAssumption
  <2>3. QED
    <3> HIDE DEF T
    <3>1. QED
      BY <2>2, FS_Union, EntityAssumption
<1>3. \E x \in M : \A y \in M : x >= y
  BY <1>1, <1>2, LargestExists
<1>4. Largest \in M /\ \A y \in M : Largest >= y
  <2>1. Largest = CHOOSE x \in M : \A y \in M : x >= y
    BY DEF Largest, Max
  <2> HIDE DEF M
  <2>2. QED
    BY <1>3, <2>1
<1>5. QED
  BY <1>1, <1>4, EntityAssumption

------------------------------------------------------------------------------
(* What one step does to the items and to what its client holds *)

\* The child's counter moves by kc and the parent's by kp; nothing is overdrawn
\* but by a lease that adjusts.
ItemStep(c, kc, kp) ==
  /\ item' \in [Entities -> Bucket]
  /\ \A e \in Entities :
       /\ item[e].exists => item'[e].exists
       /\ ~item'[e].exists => item'[e].tc = 0
       /\ item'[e].tc = item[e].tc + IF e = Parent THEN kp ELSE IF e = req[c].of THEN kc ELSE 0
       /\ item'[e].tk < item[e].tk /\ item'[e].tk < 0 => pc[c] \in {"open", "closing"} /\ pc'[c] # pc[c]

\* What the counters move by is what the client's share moves by, or, in a
\* failure, the parent's is off by one request.
Drift(c, kc, kp) == (kp - kc) - (Ahead(c)' - Ahead(c))

Booked(c, kc, kp) ==
  IF faults' = faults
    THEN /\ Drift(c, kc, kp) = 0
         /\ \A e \in Children :
              used'[e] - used[e] + (Share(c, e)' - Share(c, e)) = IF e = req[c].of THEN kc ELSE 0
    ELSE faults' = faults + 1 /\ Drift(c, kc, kp) <= Largest /\ -Drift(c, kc, kp) <= Largest

ClientAccounts(c) == \E kc, kp \in Int : ItemStep(c, kc, kp) /\ Booked(c, kc, kp) /\ WroteToItems(c)'

(* A step without a write moves no item.                                     *)
LEMMA NoWriteStep ==
  ASSUME Shape, Present, NEW c \in Clients, UNCHANGED item
  PROVE  ItemStep(c, 0, 0)
<1>1. \A e \in Entities : item[e] \in Bucket
  BY DEF Shape, TableTypes
<1>2. QED
  BY <1>1 DEF ItemStep, Bucket, Present, Shape, TableTypes

(* A write that takes k tokens from the items of the roles R.                *)
LEMMA TakeStep ==
  ASSUME Shape, Present, NEW c \in Clients, req[c].of \in Children,
         NEW R \in SUBSET Roles, NEW k \in Int, item' = TakeFrom({At(c, r) : r \in R}, k),
         \A r \in R : item[At(c, r)].exists,
         \/ k <= 0
         \/ \A r \in R : item[At(c, r)].tk >= k
         \/ pc[c] \in {"open", "closing"} /\ pc'[c] # pc[c]
  PROVE  ItemStep(c, IF "child" \in R THEN k ELSE 0, IF "parent" \in R THEN k ELSE 0)
<1> DEFINE S == {At(c, r) : r \in R}
<1>1. item \in [Entities -> Bucket] /\ \A e \in Entities : item[e] \in Bucket
  BY DEF Shape, TableTypes
<1>2. /\ item' \in [Entities -> Bucket]
      /\ \A e \in Entities :
           /\ item'[e].exists = item[e].exists
           /\ item'[e].tk = item[e].tk - IF e \in S THEN k ELSE 0
           /\ item'[e].tc = item[e].tc + IF e \in S THEN k ELSE 0
  BY <1>1, TakeFromItem
<1>3. req[c].of # Parent /\ Parent \in Entities
  BY EntityAssumption DEF Entities
<1>4. \A e \in Entities : e \in S <=> \/ e = Parent /\ "parent" \in R
                                      \/ e = req[c].of /\ "child" \in R
  BY <1>3 DEF At, Roles
<1>5. \A e \in S : item[e].exists
  OBVIOUS
<1>6. k <= 0 \/ (\A e \in S : item[e].tk >= k) \/ (pc[c] \in {"open", "closing"} /\ pc'[c] # pc[c])
  OBVIOUS
<1> HIDE DEF S
<1>7. ASSUME NEW e \in Entities
      PROVE  /\ item[e].exists => item'[e].exists
             /\ ~item'[e].exists => item'[e].tc = 0
             /\ item'[e].tc = item[e].tc + IF e = Parent THEN (IF "parent" \in R THEN k ELSE 0)
                                           ELSE IF e = req[c].of THEN (IF "child" \in R THEN k ELSE 0) ELSE 0
             /\ item'[e].tk < item[e].tk /\ item'[e].tk < 0 => pc[c] \in {"open", "closing"} /\ pc'[c] # pc[c]
  <2>1. item[e].tc \in Int /\ item[e].tk \in Int
    BY <1>1 DEF Bucket
  <2>2. ~item[e].exists => item[e].tc = 0
    BY DEF Present
  <2>3. item'[e].tc = item[e].tc + IF e = Parent THEN (IF "parent" \in R THEN k ELSE 0)
                                   ELSE IF e = req[c].of THEN (IF "child" \in R THEN k ELSE 0) ELSE 0
    BY <1>2, <1>3, <1>4
  <2>4. item'[e].tk < item[e].tk /\ item'[e].tk < 0 => pc[c] \in {"open", "closing"} /\ pc'[c] # pc[c]
    BY <1>2, <1>6, <2>1
  <2>5. QED
    BY <1>2, <1>5, <2>1, <2>2, <2>3, <2>4
<1>8. QED
  BY <1>2, <1>7 DEF ItemStep

(* The write of the parent-only slow path, alone or after a creation.        *)
LEMMA ParentWritesStep ==
  ASSUME Shape, Present, NEW c \in Clients, req[c].of \in Children, pc[c] = "parentWriting",
         item' \in ParentWrites(c)
  PROVE  ItemStep(c, 0, req[c].n) /\ item'[Parent].exists
<1> DEFINE n == req[c].n
           p == plan[c].parent
<1>1. /\ item \in [Entities -> Bucket] /\ \A e \in Entities : item[e] \in Bucket
      /\ Parent \in Entities /\ n \in Nat /\ p \in Request
  BY EntityAssumption DEF Shape, Local, TableTypes, ClientTypes, Entities, Roles
<1>2. p.kind = "create" => n <= Capacity[Parent]
  BY DEF Shape, Local, Planned, At, Roles
<1>3. Condition(Parent, n, p) /\ \E w \in Writes(Parent, n, p) : item' = [item EXCEPT ![Parent] = w]
  BY DEF ParentWrites
<1>4. PICK w \in Writes(Parent, n, p) : item' = [item EXCEPT ![Parent] = w]
  BY <1>3
<1>5. ~item[Parent].exists => item[Parent].tc = 0
  BY <1>1 DEF Present
<1>6. w \in Bucket /\ w.exists /\ w.tc = item[Parent].tc + n /\ (w.tk >= item[Parent].tk \/ w.tk >= 0)
  <2> HIDE DEF n, p
  <2>1. QED
    BY <1>1, <1>2, <1>3, <1>5, WrittenItem
<1>7. QED
  BY <1>1, <1>4, <1>6, EntityAssumption DEF ItemStep, Present, Bucket

(* The transaction of the full slow path.                                    *)
LEMMA BothWritesStep ==
  ASSUME Shape, Present, NEW c \in Clients, req[c].of \in Children, pc[c] = "writing",
         item' \in BothWrites(c)
  PROVE  ItemStep(c, req[c].n, req[c].n) /\ item'[Parent].exists /\ item'[req[c].of].exists
<1> DEFINE n == req[c].n
           e == req[c].of
           p == plan[c].child
           q == plan[c].parent
<1>1. /\ item \in [Entities -> Bucket] /\ \A x \in Entities : item[x] \in Bucket
      /\ Parent \in Entities /\ e \in Entities /\ e # Parent /\ n \in Nat /\ p \in Request /\ q \in Request
  BY EntityAssumption DEF Shape, Local, TableTypes, ClientTypes, Entities, Roles
<1>2. (q.kind = "create" => n <= Capacity[Parent]) /\ (p.kind = "create" => n <= Capacity[e])
  BY DEF Shape, Local, Planned, At, Roles
<1>3. /\ Condition(Parent, n, q) /\ Condition(e, n, p)
      /\ \E v \in Writes(e, n, p), w \in Writes(Parent, n, q) : item' = [item EXCEPT ![e] = v, ![Parent] = w]
  BY DEF BothWrites, At, Roles
<1>4. PICK v \in Writes(e, n, p), w \in Writes(Parent, n, q) : item' = [item EXCEPT ![e] = v, ![Parent] = w]
  BY <1>3
<1>5. (~item[Parent].exists => item[Parent].tc = 0) /\ (~item[e].exists => item[e].tc = 0)
  BY <1>1 DEF Present
<1> HIDE DEF n, e, p, q
<1>6. w \in Bucket /\ w.exists /\ w.tc = item[Parent].tc + n /\ (w.tk >= item[Parent].tk \/ w.tk >= 0)
  BY <1>1, <1>2, <1>3, <1>5, WrittenItem
<1>7. v \in Bucket /\ v.exists /\ v.tc = item[e].tc + n /\ (v.tk >= item[e].tk \/ v.tk >= 0)
  BY <1>1, <1>2, <1>3, <1>5, WrittenItem
<1>8. /\ item' \in [Entities -> Bucket] /\ item'[e] = v /\ item'[Parent] = w
      /\ \A x \in Entities : x # e /\ x # Parent => item'[x] = item[x]
  BY <1>1, <1>4, <1>6, <1>7
<1>9. ASSUME NEW x \in Entities
      PROVE  /\ item[x].exists => item'[x].exists
             /\ ~item'[x].exists => item'[x].tc = 0
             /\ item'[x].tc = item[x].tc + IF x = Parent THEN n ELSE IF x = e THEN n ELSE 0
             /\ ~(item'[x].tk < item[x].tk /\ item'[x].tk < 0)
  BY <1>1, <1>6, <1>7, <1>8 DEF Present, Bucket
<1>10. QED
  BY <1>1, <1>6, <1>7, <1>8, <1>9 DEF ItemStep, n, e

(* A call that is over holds nothing; a lease holds what was asked for; on *)
(* the way nothing changes.                                                *)
LEMMA Forgotten ==
  ASSUME Local, NEW c \in Clients, Forget(c)
  PROVE  Taken(c)' = 0 /\ Ahead(c)' = 0 /\ (\A e \in Children : Share(c, e)' = 0) /\ WroteToItems(c)'
<1>1. pc'[c] = "idle" /\ out'[c] = NoOutcome /\ lease'[c] = NoLease
  BY DEF Local, ClientTypes, Forget, Goto
<1>2. out'[c].child # "hit" /\ out'[c].parent # "hit" /\ lease'[c].initial = 0
  BY <1>1 DEF NoOutcome, NoLease, Roles
<1>3. Taken(c)' = 0 /\ Ahead(c)' = 0
  BY <1>1, <1>2 DEF Taken, Ahead
<1>4. WroteToItems(c)'
  BY <1>1 DEF WroteToItems, NoOutcome, Leasing
<1>5. QED
  BY <1>3, <1>4 DEF Share

(* A lease that opens has taken the request of both.                         *)
LEMMA Opened ==
  ASSUME Local, NEW c \in Clients, Open(c)
  PROVE  /\ Taken(c)' = req[c].n /\ Ahead(c)' = 0
         /\ \A e \in Children : Share(c, e)' = IF req[c].of = e THEN req[c].n ELSE 0
         /\ (\A r \in Roles : item'[At(c, r)].exists) => WroteToItems(c)'
<1>1. /\ pc'[c] = "open" /\ out'[c] = NoOutcome /\ lease'[c] = [initial |-> req[c].n, want |-> req[c].n]
      /\ req' = req /\ req[c].n \in Nat
  BY DEF Local, ClientTypes, Open, Goto
<1>2. out'[c].child # "hit" /\ out'[c].parent # "hit" /\ lease'[c].initial = req[c].n
  BY <1>1 DEF NoOutcome, Roles
<1>3. Taken(c)' = req[c].n /\ Ahead(c)' = 0
  BY <1>1, <1>2 DEF Taken, Ahead
<1>4. (\A r \in Roles : item'[At(c, r)].exists) => WroteToItems(c)'
  BY <1>1 DEF WroteToItems, At
<1>5. QED
  BY <1>1, <1>3, <1>4 DEF Share

(* A step that writes nothing and ends nothing keeps what was taken.         *)
LEMMA WentOn ==
  ASSUME Shape, Present, NEW c \in Clients, UNCHANGED <<req, lease>>,
         out'[c].child = "hit" <=> out[c].child = "hit",
         out'[c].parent = "hit" <=> out[c].parent = "hit",
         pc[c] \notin {"closing", "rollingbackParent"}, pc'[c] \notin {"closing", "rollingbackParent"},
         pc'[c] \in Leasing => pc[c] \in Leasing,
         \A e \in Entities : item[e].exists => item'[e].exists
  PROVE  /\ Taken(c)' = Taken(c) /\ Ahead(c)' = Ahead(c)
         /\ \A e \in Children : Share(c, e)' = Share(c, e)
         /\ WroteToItems(c)'
<1>1. Taken(c)' = Taken(c) /\ Ahead(c)' = Ahead(c)
  BY DEF Taken, Ahead
<1>2. \A e \in Children : Share(c, e)' = Share(c, e)
  BY <1>1 DEF Share
<1>3. WroteToItems(c)'
  <2>1. \A r \in Roles : At(c, r) \in Entities /\ At(c, r)' = At(c, r)
    BY EntityAssumption DEF At, Shape, Local, ClientTypes, Entities
  <2>2. QED
    BY <2>1 DEF WroteToItems, Present, Roles
<1>4. QED
  BY <1>1, <1>2, <1>3

(* A step that writes nothing and goes on.                                 *)
LEMMA QuietStep ==
  ASSUME Shape, Present, NEW c \in Clients, UNCHANGED <<item, req, lease, used, faults>>,
         out'[c].child = "hit" <=> out[c].child = "hit",
         out'[c].parent = "hit" <=> out[c].parent = "hit",
         pc[c] \notin {"closing", "rollingbackParent"}, pc'[c] \notin {"closing", "rollingbackParent"},
         pc'[c] \in Leasing => pc[c] \in Leasing
  PROVE  ClientAccounts(c)
<1>1. ItemStep(c, 0, 0)
  BY NoWriteStep
<1>2. /\ Taken(c)' = Taken(c) /\ Ahead(c)' = Ahead(c) /\ WroteToItems(c)'
      /\ \A e \in Children : Share(c, e)' = Share(c, e)
  BY WentOn
<1>3. Taken(c) \in Int /\ Ahead(c) \in Int /\ (\A e \in Children : Share(c, e) \in Int /\ used[e] \in Int)
  BY Standing DEF Shape, TableTypes, Share
<1>4. Booked(c, 0, 0)
  BY <1>2, <1>3 DEF Booked, Drift
<1>5. QED
  BY <1>1, <1>2, <1>4 DEF ClientAccounts

(* A step that ends a call that holds nothing.                             *)
LEMMA NothingHeldStep ==
  ASSUME Shape, Present, NEW c \in Clients, UNCHANGED <<item, used, faults>>, Forget(c),
         Taken(c) = 0, Ahead(c) = 0
  PROVE  ClientAccounts(c)
<1>1. ItemStep(c, 0, 0)
  BY NoWriteStep
<1>2. Ahead(c)' = 0 /\ WroteToItems(c)' /\ \A e \in Children : Share(c, e)' = 0
  BY Forgotten DEF Shape
<1>3. \A e \in Children : Share(c, e) = 0 /\ used[e] \in Int
  BY DEF Share, Shape, TableTypes
<1>4. Booked(c, 0, 0)
  BY <1>2, <1>3 DEF Booked, Drift
<1>5. QED
  BY <1>1, <1>2, <1>4 DEF ClientAccounts

(* A write to one of the two items.                                        *)
LEMMA TakeOne ==
  ASSUME Shape, Present, NEW c \in Clients, req[c].of \in Children, NEW r \in Roles, NEW k \in Int,
         item' = TakeFrom({At(c, r)}, k), item[At(c, r)].exists,
         \/ k <= 0
         \/ item[At(c, r)].tk >= k
         \/ pc[c] \in {"open", "closing"} /\ pc'[c] # pc[c]
  PROVE  ItemStep(c, IF r = "child" THEN k ELSE 0, IF r = "parent" THEN k ELSE 0)
<1> DEFINE R == {r}
<1>1. {At(c, x) : x \in R} = {At(c, r)}
  OBVIOUS
<1>2. item' = TakeFrom({At(c, x) : x \in R}, k) /\ R \in SUBSET Roles
  BY <1>1
<1>3. \A x \in R : x = r
  OBVIOUS
<1>4. ItemStep(c, IF "child" \in R THEN k ELSE 0, IF "parent" \in R THEN k ELSE 0)
  <2> HIDE DEF R
  <2>1. QED
    BY <1>2, <1>3, TakeStep
<1>5. ("child" \in R <=> r = "child") /\ ("parent" \in R <=> r = "parent")
  OBVIOUS
<1> HIDE DEF R
<1>6. QED
  BY <1>4, <1>5

(* The start of a call.                                                      *)
LEMMA AcquireAccounts ==
  ASSUME Shape, Present, NEW c \in Clients, NEW e \in Children, NEW n \in Requests, Acquire(c, e, n)
  PROVE  ItemStep(c, 0, 0) /\ Booked(c, 0, 0) /\ WroteToItems(c)'
<1>1. ItemStep(c, 0, 0)
  BY NoWriteStep DEF Acquire
<1>2. pc[c] = "idle" /\ Taken(c) = 0 /\ Ahead(c) = 0
  BY Standing DEF Acquire, Shape
<1>3. lease[c] = NoLease /\ out[c] = NoOutcome
  BY <1>2 DEF Shape, Local, Held, Answered, Leasing, Undoing, ParentOnly
<1>4. /\ out'[c].child \in {"due", "none"} /\ out'[c].parent \in {"due", "none"}
      /\ \A r \in Roles : out'[c][r] # "hit"
      /\ pc'[c] = "speculating" /\ lease'[c] = NoLease
  BY <1>3 DEF Acquire, Goto, Roles, Shape, Local, ClientTypes
<1>5. Taken(c)' = 0 /\ Ahead(c)' = 0
  BY <1>4 DEF Taken, Ahead, NoLease
<1>6. WroteToItems(c)'
  BY <1>4 DEF WroteToItems, Leasing
<1>7. \A x \in Children : used[x] \in Int /\ Share(c, x) = 0 /\ Share(c, x)' = 0
  BY <1>2, <1>5 DEF Share, Shape, TableTypes
<1>8. faults' = faults /\ used' = used
  BY DEF Acquire
<1>9. Booked(c, 0, 0)
  BY <1>2, <1>5, <1>7, <1>8 DEF Booked, Drift
<1>10. QED
  BY <1>1, <1>6, <1>9

(* A speculative write, to the child or to the parent.                       *)
LEMMA SpeculateAccounts ==
  ASSUME Shape, Present, NEW c \in Clients, NEW r \in Roles, Speculate(c, r)
  PROVE  ClientAccounts(c)
<1> DEFINE n == req[c].n
<1>1. /\ pc[c] = "speculating" /\ out[c][r] = "due" /\ out \in [Clients -> [Roles -> Answers]]
      /\ UNCHANGED <<pc, req, lease, used, faults>>
  BY DEF Speculate, Shape, Local, ClientTypes
<1>2. n \in Nat /\ req[c].of \in Children /\ lease[c] = NoLease
  BY <1>1 DEF Shape, Local, ClientTypes, Requested, Held, Leasing
<1>3. CASE out' = [out EXCEPT ![c][r] = IF item[At(c, r)].exists THEN "short" ELSE "missing"] /\ UNCHANGED item
  <2>1. /\ out'[c].child = "hit" <=> out[c].child = "hit"
        /\ out'[c].parent = "hit" <=> out[c].parent = "hit"
    BY <1>1, <1>3 DEF Roles
  <2>2. QED
    BY <1>1, <1>3, <2>1, QuietStep DEF Leasing
<1>4. CASE Covers(At(c, r), n) /\ item' = TakeFrom({At(c, r)}, n) /\ out' = [out EXCEPT ![c][r] = "hit"]
  <2>1. item[At(c, r)].exists /\ item[At(c, r)].tk >= n
    BY <1>4 DEF Covers
  <2>2. ItemStep(c, IF r = "child" THEN n ELSE 0, IF r = "parent" THEN n ELSE 0)
    <3> HIDE DEF n
    <3>1. QED
      BY <1>2, <1>4, <2>1, TakeOne
  <2>3. \A x \in Roles : out'[c][x] = IF x = r THEN "hit" ELSE out[c][x]
    BY <1>1, <1>4
  <2>4. lease[c].initial = 0
    BY <1>2 DEF NoLease
  <2>5. /\ Taken(c)' = Taken(c) + IF r = "child" THEN n ELSE 0
        /\ Ahead(c)' = Ahead(c) + IF r = "child" THEN -n ELSE n
        /\ Taken(c) \in Int /\ Ahead(c) \in Int
    BY <1>1, <1>2, <2>3, <2>4 DEF Taken, Ahead, Roles
  <2>6. WroteToItems(c)'
    <3>1. \A x \in Roles : At(c, x)' = At(c, x) /\ At(c, x) \in Entities
      BY <1>1, <1>2 DEF At, Entities
    <3>2. item'[At(c, r)].exists /\ \A e \in Entities : item[e].exists => item'[e].exists
      BY <2>1, <2>2, <3>1 DEF ItemStep
    <3>3. QED
      BY <1>1, <2>3, <3>1, <3>2 DEF WroteToItems, Present, Leasing
  <2>7. \A e \in Children : used[e] \in Int /\ Share(c, e) \in Int /\
          Share(c, e)' = Share(c, e) + IF e = req[c].of /\ r = "child" THEN n ELSE 0
    BY <1>1, <1>2, <2>5 DEF Share, Shape, TableTypes
  <2>8. Booked(c, IF r = "child" THEN n ELSE 0, IF r = "parent" THEN n ELSE 0)
    BY <1>1, <1>2, <2>5, <2>7 DEF Booked, Drift, Roles
  <2>9. QED
    BY <1>2, <2>2, <2>6, <2>8 DEF ClientAccounts
<1>5. QED
  BY <1>3, <1>4 DEF Speculate

(* A write that makes the lease.                                           *)
LEMMA OpenAccounts ==
  ASSUME Shape, Present, NEW c \in Clients, Open(c), UNCHANGED <<used, faults>>,
         req[c].of \in Children, NEW kc \in Int, NEW kp \in Int, ItemStep(c, kc, kp),
         kc = req[c].n - Taken(c), kp = kc - Ahead(c), \A r \in Roles : item'[At(c, r)].exists
  PROVE  ClientAccounts(c)
<1>1. req[c].n \in Nat /\ Taken(c) \in Int /\ Ahead(c) \in Int
  BY Standing DEF Shape, Local, ClientTypes
<1>2. /\ Ahead(c)' = 0 /\ WroteToItems(c)'
      /\ \A e \in Children : Share(c, e)' = IF req[c].of = e THEN req[c].n ELSE 0
  BY Opened DEF Shape
<1>3. \A e \in Children : used[e] \in Int /\ Share(c, e) = IF req[c].of = e THEN Taken(c) ELSE 0
  BY DEF Share, Shape, TableTypes
<1>4. Drift(c, kc, kp) = 0
  BY <1>1, <1>2 DEF Drift
<1>5. \A e \in Children :
        used'[e] - used[e] + (Share(c, e)' - Share(c, e)) = IF e = req[c].of THEN kc ELSE 0
  BY <1>1, <1>2, <1>3
<1>6. QED
  BY <1>2, <1>4, <1>5 DEF ClientAccounts, Booked

(* What follows the answers of the speculative writes.                       *)
LEMMA SpeculationAccounts ==
  ASSUME Shape, Present, NEW c \in Clients,
         \/ ParentNext(c) \/ BothHit(c) \/ ChildOnlyHit(c) \/ ParentOnlyHit(c) \/ NoneHit(c)
  PROVE  ClientAccounts(c)
<1>1. /\ pc[c] = "speculating" /\ out \in [Clients -> [Roles -> Answers]] /\ pc \in [Clients -> PCs]
      /\ UNCHANGED <<item, used, faults>>
  BY DEF ParentNext, BothHit, ChildOnlyHit, ParentOnlyHit, NoneHit, Settled, Shape, Local, ClientTypes
<1>2. req[c].of \in Children /\ req[c].n \in Nat /\ lease[c].initial = 0
  BY <1>1 DEF Shape, Local, ClientTypes, Requested, Held, Leasing, NoLease
<1>3. CASE ParentNext(c)
  <2>1. out' = [out EXCEPT ![c].parent = "due"] /\ out[c].parent = "none" /\ UNCHANGED <<pc, req, lease>>
    BY <1>3 DEF ParentNext
  <2>2. /\ out'[c].child = "hit" <=> out[c].child = "hit"
        /\ out'[c].parent = "hit" <=> out[c].parent = "hit"
    BY <1>1, <2>1 DEF Roles
  <2>3. QED
    BY <1>1, <2>1, <2>2, QuietStep DEF Leasing
<1>4. CASE BothHit(c)
  <2>1. out[c].child = "hit" /\ out[c].parent = "hit" /\ Open(c)
    BY <1>4 DEF BothHit
  <2>2. Taken(c) = req[c].n /\ Ahead(c) = 0
    BY <1>1, <1>2, <2>1 DEF Taken, Ahead
  <2>3. ItemStep(c, 0, 0)
    BY <1>1, NoWriteStep
  <2>4. \A r \in Roles : item'[At(c, r)].exists
    BY <1>1, <2>1 DEF Present, WroteToItems, Roles
  <2>5. 0 = req[c].n - Taken(c) /\ 0 = 0 - Ahead(c)
    BY <1>2, <2>2
  <2>6. QED
    BY <1>1, <1>2, <2>1, <2>3, <2>4, <2>5, OpenAccounts
<1>5. CASE ChildOnlyHit(c) \/ ParentOnlyHit(c)
  <2>1. \E l \in Undoing \cup ParentOnly : Goto(c, l)
    BY <1>5 DEF ChildOnlyHit, ParentOnlyHit, Undoing, ParentOnly
  <2>2. UNCHANGED <<req, out, lease>>
    BY <1>5 DEF ChildOnlyHit, ParentOnlyHit
  <2>3. pc'[c] \in Undoing \cup ParentOnly
    BY <1>1, <2>1 DEF Goto
  <2>4. QED
    BY <1>1, <2>2, <2>3, QuietStep DEF Undoing, ParentOnly, Leasing
<1>6. CASE NoneHit(c)
  <2>1. out[c].child # "hit" /\ out[c].parent # "hit"
    BY <1>6 DEF NoneHit, With, Roles
  <2>2. CASE Forget(c)
    <3>1. Taken(c) = 0 /\ Ahead(c) = 0
      BY <1>1, <1>2, <2>1 DEF Taken, Ahead
    <3>2. QED
      BY <1>1, <2>2, <3>1, NothingHeldStep
  <2>3. CASE Goto(c, "reading") /\ out' = [out EXCEPT ![c] = NoOutcome] /\ UNCHANGED <<req, plan, lease>>
    <3>1. pc'[c] = "reading" /\ out'[c].child # "hit" /\ out'[c].parent # "hit"
      BY <1>1, <2>3 DEF Goto, NoOutcome, Roles
    <3>2. QED
      BY <1>1, <2>1, <2>3, <3>1, QuietStep DEF Leasing
  <2>4. QED
    BY <1>6, <2>2, <2>3 DEF NoneHit
<1>7. QED
  BY <1>3, <1>4, <1>5, <1>6

(* What is given back is the one write that had been made.                 *)
LEMMA UndoneItems ==
  ASSUME Shape, Present, NEW c \in Clients, pc[c] \in Undoing, item' = Undone(c)
  PROVE  \E r \in Roles :
           /\ out[c][r] = "hit" /\ \A x \in Roles : out[c][x] = "hit" => x = r
           /\ ItemStep(c, IF r = "child" THEN -req[c].n ELSE 0, IF r = "parent" THEN -req[c].n ELSE 0)
<1>1. req[c].of \in Children /\ req[c].n \in Nat
  BY DEF Undoing, Shape, Local, ClientTypes, Requested
<1>2. PICK r \in Roles : out[c][r] = "hit" /\ \A x \in Roles : out[c][x] = "hit" => x = r
  BY DEF Shape, Local, Answered, Roles
<1>3. {At(c, x) : x \in With(c, "hit")} = {At(c, r)}
  BY <1>2 DEF With
<1>4. item' = TakeFrom({At(c, r)}, -req[c].n) /\ item[At(c, r)].exists
  BY <1>2, <1>3 DEF Undone, Present, WroteToItems
<1>5. -req[c].n \in Int /\ -req[c].n <= 0
  BY <1>1
<1>6. ItemStep(c, IF r = "child" THEN -req[c].n ELSE 0, IF r = "parent" THEN -req[c].n ELSE 0)
  BY <1>1, <1>4, <1>5, TakeOne
<1>7. QED
  BY <1>2, <1>6

(* The compensation, of the child or of the parent.                          *)
LEMMA UndoAccounts ==
  ASSUME Shape, Present, NEW c \in Clients, Undo(c)
  PROVE  ClientAccounts(c)
<1> DEFINE n == req[c].n
<1>1. /\ pc[c] \in Undoing /\ item' = Undone(c) /\ UNCHANGED <<used, faults>>
  BY DEF Undo, Undoing
<1>2. n \in Nat /\ lease[c].initial = 0 /\ req[c].of \in Children
  BY <1>1 DEF Shape, Local, ClientTypes, Requested, Held, Leasing, Undoing, NoLease
<1>3. PICK r \in Roles :
           /\ out[c][r] = "hit" /\ \A x \in Roles : out[c][x] = "hit" => x = r
           /\ ItemStep(c, IF r = "child" THEN -n ELSE 0, IF r = "parent" THEN -n ELSE 0)
  BY <1>1, UndoneItems
<1>4. Taken(c) = (IF r = "child" THEN n ELSE 0) /\ Ahead(c) = (IF r = "child" THEN -n ELSE n)
  BY <1>1, <1>2, <1>3 DEF Taken, Ahead, Roles, Undoing
<1>5. Ahead(c)' = 0 /\ WroteToItems(c)' /\ \A e \in Children : Share(c, e)' = 0
  <2>1. CASE Forget(c)
    BY <2>1, Forgotten DEF Shape
  <2>2. CASE ~Forget(c)
    <3>1. Goto(c, "reading") /\ out' = [out EXCEPT ![c] = NoOutcome] /\ UNCHANGED <<req, lease>>
      BY <2>2 DEF Undo
    <3>2. pc'[c] = "reading" /\ out'[c] = NoOutcome /\ lease'[c].initial = 0
      BY <1>2, <3>1 DEF Goto, Shape, Local, ClientTypes
    <3>3. \A x \in Roles : out'[c][x] # "hit"
      BY <3>2 DEF NoOutcome
    <3>4. out'[c].child # "hit" /\ out'[c].parent # "hit"
      BY <3>3 DEF Roles
    <3>5. Taken(c)' = 0 /\ Ahead(c)' = 0
      BY <3>2, <3>4 DEF Taken, Ahead
    <3>6. WroteToItems(c)'
      BY <3>2, <3>3 DEF WroteToItems, Leasing
    <3>7. QED
      BY <3>5, <3>6 DEF Share
  <2>3. QED
    BY <2>1, <2>2
<1>6. \A e \in Children : used[e] \in Int /\ Share(c, e) = IF req[c].of = e THEN Taken(c) ELSE 0
  BY DEF Share, Shape, TableTypes
<1>7. Drift(c, IF r = "child" THEN -n ELSE 0, IF r = "parent" THEN -n ELSE 0) = 0
  BY <1>2, <1>4, <1>5 DEF Drift, Roles
<1>8. Booked(c, IF r = "child" THEN -n ELSE 0, IF r = "parent" THEN -n ELSE 0)
  BY <1>1, <1>2, <1>4, <1>5, <1>6, <1>7 DEF Booked
<1>9. QED
  BY <1>2, <1>3, <1>5, <1>8 DEF ClientAccounts

(* The slow path of the parent alone.                                        *)
LEMMA ParentOnlyAccounts ==
  ASSUME Shape, Present, NEW c \in Clients, ParentRead(c) \/ ParentWrite(c) \/ ParentRetry(c)
  PROVE  ClientAccounts(c)
<1>1. /\ pc[c] \in ParentOnly /\ pc \in [Clients -> PCs] /\ UNCHANGED <<used, faults>>
  BY DEF ParentRead, ParentWrite, ParentRetry, ParentOnly, Shape, Local, ClientTypes
<1>2. /\ req[c].of \in Children /\ req[c].n \in Nat /\ out[c].child = "hit"
      /\ Taken(c) = req[c].n /\ Ahead(c) = -req[c].n
  BY <1>1, Standing DEF Shape, Local, ClientTypes, Requested, Answered, ParentOnly
<1>3. item[req[c].of].exists /\ req[c].of \in Entities /\ Parent \in Entities
  BY <1>2 DEF Present, WroteToItems, Roles, At, Entities
<1>4. ASSUME NEW l \in Undoing \cup ParentOnly, Goto(c, l), UNCHANGED <<item, req, out, lease>>
      PROVE  ClientAccounts(c)
  <2>1. pc'[c] \in Undoing \cup ParentOnly
    BY <1>1, <1>4 DEF Goto
  <2>2. QED
    BY <1>1, <1>4, <2>1, QuietStep DEF Undoing, ParentOnly, Leasing
<1>5. ASSUME Open(c), ItemStep(c, 0, req[c].n), item'[Parent].exists
      PROVE  ClientAccounts(c)
  <2>1. \A r \in Roles : item'[At(c, r)].exists
    BY <1>3, <1>5 DEF ItemStep, At
  <2>2. QED
    BY <1>1, <1>2, <1>5, <2>1, OpenAccounts
<1>6. CASE ParentRead(c)
  <2>1. UNCHANGED <<item, req, out, lease>> /\ (Goto(c, "parentWriting") \/ Goto(c, "undoThenRead"))
    BY <1>6 DEF ParentRead, ParentFails
  <2>2. QED
    BY <1>4, <2>1 DEF Undoing, ParentOnly
<1>7. CASE ParentWrite(c)
  <2>1. CASE item' \in ParentWrites(c) /\ Open(c)
    BY <1>2, <1>5, <1>7, <2>1, ParentWritesStep DEF ParentWrite
  <2>2. CASE Goto(c, "parentRetrying") /\ UNCHANGED <<item, req, out, plan, lease>>
    BY <1>4, <2>2 DEF ParentOnly
  <2>3. QED
    BY <1>7, <2>1, <2>2 DEF ParentWrite
<1>8. CASE ParentRetry(c)
  <2>1. CASE Covers(Parent, req[c].n) /\ item' = TakeFrom({Parent}, req[c].n) /\ Open(c)
    <3>1. "parent" \in Roles /\ At(c, "parent") = Parent
      BY DEF Roles, At
    <3>2. ItemStep(c, IF "parent" = "child" THEN req[c].n ELSE 0, IF "parent" = "parent" THEN req[c].n ELSE 0)
      BY <1>2, <2>1, <3>1, TakeOne DEF Covers
    <3>3. ItemStep(c, 0, req[c].n)
      BY <3>2
    <3>4. item'[Parent].exists
      BY <1>3, <2>1, <3>3 DEF ItemStep, Covers
    <3>5. QED
      BY <1>5, <2>1, <3>3, <3>4
  <2>2. CASE ParentFails(c) /\ UNCHANGED <<item, req, lease>>
    BY <1>4, <2>2 DEF ParentFails, Undoing
  <2>3. QED
    BY <1>8, <2>1, <2>2 DEF ParentRetry
<1>9. QED
  BY <1>6, <1>7, <1>8

(* The slow path of both.                                                    *)
LEMMA SlowPathAccounts ==
  ASSUME Shape, Present, NEW c \in Clients, Read(c) \/ ReadParent(c) \/ Write(c) \/ Retry(c)
  PROVE  ClientAccounts(c)
<1>1. /\ pc[c] \in {"reading", "readingParent", "writing", "retrying"} /\ pc \in [Clients -> PCs]
      /\ UNCHANGED <<used, faults>>
  BY DEF Read, ReadParent, Write, Retry, Shape, Local, ClientTypes
<1>2. /\ req[c].of \in Children /\ req[c].n \in Nat /\ Taken(c) = 0 /\ Ahead(c) = 0
  BY <1>1, Standing DEF Shape, Local, ClientTypes, Requested
<1>3. ASSUME NEW l \in {"readingParent", "writing", "retrying"}, Goto(c, l),
             UNCHANGED <<item, req, out, lease>>
      PROVE  ClientAccounts(c)
  <2>1. pc'[c] = l
    BY <1>1, <1>3 DEF Goto
  <2>2. QED
    BY <1>1, <1>3, <2>1, QuietStep DEF Leasing
<1>4. ASSUME Forget(c), UNCHANGED item
      PROVE  ClientAccounts(c)
  BY <1>1, <1>2, <1>4, NothingHeldStep
<1>5. ASSUME Open(c), ItemStep(c, req[c].n, req[c].n), item'[Parent].exists, item'[req[c].of].exists
      PROVE  ClientAccounts(c)
  <2>1. \A r \in Roles : item'[At(c, r)].exists
    BY <1>5 DEF At
  <2>2. QED
    BY <1>1, <1>2, <1>5, <2>1, OpenAccounts
<1>6. CASE Read(c)
  BY <1>3, <1>6 DEF Read
<1>7. CASE ReadParent(c)
  <2>1. CASE Forget(c)
    BY <1>4, <1>7, <2>1 DEF ReadParent
  <2>2. CASE Goto(c, "writing") /\ UNCHANGED <<req, out, lease>>
    BY <1>3, <1>7, <2>2 DEF ReadParent
  <2>3. QED
    BY <1>7, <2>1, <2>2 DEF ReadParent
<1>8. CASE Write(c)
  <2>1. CASE item' \in BothWrites(c) /\ Open(c)
    BY <1>2, <1>5, <1>8, <2>1, BothWritesStep DEF Write
  <2>2. CASE Goto(c, "retrying") /\ UNCHANGED <<item, req, out, plan, lease>>
    BY <1>3, <2>2
  <2>3. QED
    BY <1>8, <2>1, <2>2 DEF Write
<1>9. CASE Retry(c)
  <2>1. CASE item' \in RetryWrites(c) /\ Open(c)
    <3>1. /\ \A r \in Roles : Covers(At(c, r), req[c].n)
          /\ item' = TakeFrom({At(c, r) : r \in Roles}, req[c].n)
      BY <2>1 DEF RetryWrites
    <3>2. \A r \in Roles : item[At(c, r)].exists /\ item[At(c, r)].tk >= req[c].n
      BY <3>1 DEF Covers
    <3>3. ItemStep(c, IF "child" \in Roles THEN req[c].n ELSE 0, IF "parent" \in Roles THEN req[c].n ELSE 0)
      BY <1>2, <3>1, <3>2, TakeStep
    <3>4. ItemStep(c, req[c].n, req[c].n)
      BY <3>3 DEF Roles
    <3>5. item'[Parent].exists /\ item'[req[c].of].exists
      BY <1>2, <3>2, <3>4 DEF ItemStep, Roles, At, Entities
    <3>6. QED
      BY <1>5, <2>1, <3>4, <3>5
  <2>2. QED
    BY <1>4, <1>9, <2>1 DEF Retry
<1>10. QED
  BY <1>6, <1>7, <1>8, <1>9

(* What a client with a lease holds, and what its writes may be.           *)
LEMMA LeaseHolds ==
  ASSUME Shape, Present, NEW c \in Clients, pc[c] \in Leasing
  PROVE  /\ req[c].of \in Children /\ req[c].n \in Requests /\ req[c].n \in Nat
         /\ req[c].of \in Entities /\ Parent \in Entities
         /\ item[req[c].of].exists /\ item[Parent].exists
         /\ lease[c].initial = req[c].n /\ Delta(c) \in Changes \cup {0} /\ Delta(c) \in Int
         /\ out[c].child # "hit" /\ out[c].parent # "hit" /\ \A r \in Roles : out[c][r] # "hit"
         /\ lease[c].want = req[c].n + Delta(c)
<1>1. req[c].of \in Children /\ req[c].n \in Requests /\ req[c].n \in Nat
  BY DEF Shape, Local, ClientTypes, Requested, Leasing
<1>2. item[req[c].of].exists /\ item[Parent].exists
  BY DEF Present, WroteToItems, Roles, At
<1>3. lease[c].initial = req[c].n /\ lease[c].want \in Int /\ Delta(c) \in Changes \cup {0}
  BY DEF Shape, Local, ClientTypes, Held, Delta
<1>4. out[c] = NoOutcome
  BY DEF Shape, Local, Answered, Leasing, Undoing, ParentOnly
<1>5. QED
  BY <1>1, <1>2, <1>3, <1>4 DEF Entities, Delta, NoOutcome, Roles

(* The child's and the parent's part of a lease's writes.                  *)
LEMMA ChildTake ==
  ASSUME Shape, Present, NEW c \in Clients, pc[c] \in Leasing, NEW k \in Int,
         item' = TakeFrom({req[c].of}, k),
         k <= 0 \/ (pc[c] \in {"open", "closing"} /\ pc'[c] # pc[c])
  PROVE  ItemStep(c, k, 0)
<1>1. "child" \in Roles /\ At(c, "child") = req[c].of
  BY DEF Roles, At
<1>2. ItemStep(c, IF "child" = "child" THEN k ELSE 0, IF "child" = "parent" THEN k ELSE 0)
  BY <1>1, LeaseHolds, TakeOne
<1>3. QED
  BY <1>2

(* A single write to the parent, of a lease that is open or ending.          *)
LEMMA ParentTake ==
  ASSUME Shape, Present, NEW c \in Clients, pc[c] \in Leasing, NEW k \in Int,
         item' = TakeFrom({Parent}, k),
         k <= 0 \/ (pc[c] \in {"open", "closing"} /\ pc'[c] # pc[c])
  PROVE  ItemStep(c, 0, k)
<1>1. "parent" \in Roles /\ At(c, "parent") = Parent
  BY DEF Roles, At
<1>2. ItemStep(c, IF "parent" = "child" THEN k ELSE 0, IF "parent" = "parent" THEN k ELSE 0)
  BY <1>1, LeaseHolds, TakeOne
<1>3. QED
  BY <1>2

(* The items of a lease are there after every step.                        *)
LEMMA LeaseItems ==
  ASSUME Shape, Present, NEW c \in Clients, pc[c] \in Leasing, req'[c] = req[c],
         \A e \in Entities : item[e].exists => item'[e].exists
  PROVE  WroteToItems(c)'
BY LeaseHolds DEF WroteToItems, At

(* The end of a lease, well or not.                                          *)
LEMMA LeaseAccounts ==
  ASSUME Shape, Present, NEW c \in Clients,
         \/ CloseChild(c) \/ CloseParent(c) \/ BodyRaises(c) \/ RollbackChild(c) \/ RollbackParent(c)
         \/ \E d \in Changes : Change(c, d)
  PROVE  ClientAccounts(c)
<1> DEFINE n == req[c].n
<1>1. pc[c] \in Leasing /\ pc \in [Clients -> PCs] /\ lease \in [Clients -> [initial : Nat, want : Int]]
  BY DEF CloseChild, CloseParent, BodyRaises, RollbackChild, RollbackParent, Change, Leasing, Shape, Local, ClientTypes
<1>2. /\ req[c].of \in Children /\ n \in Nat /\ lease[c].initial = n /\ Delta(c) \in Int
      /\ lease[c].want = n + Delta(c) /\ out[c].child # "hit" /\ out[c].parent # "hit"
  BY <1>1, LeaseHolds
<1>3. \A e \in Children : used[e] \in Int /\ Share(c, e) = IF req[c].of = e THEN Taken(c) ELSE 0
  BY DEF Share, Shape, TableTypes
<1>4. /\ pc[c] \in {"open", "rollingback"} => Taken(c) = n /\ Ahead(c) = 0
      /\ pc[c] = "closing" => Taken(c) = n + Delta(c) /\ Ahead(c) = -Delta(c)
      /\ pc[c] = "rollingbackParent" => Taken(c) = 0 /\ Ahead(c) = n
  BY <1>2 DEF Taken, Ahead
<1>5. ASSUME NEW kc \in Int, NEW kp \in Int, ItemStep(c, kc, kp), Done(c), faults' = faults,
             kc = lease[c].want - Taken(c), kp = kc - Ahead(c)
      PROVE  ClientAccounts(c)
  <2>1. Ahead(c)' = 0 /\ WroteToItems(c)' /\ \A e \in Children : Share(c, e)' = 0
    BY <1>5, Forgotten DEF Shape, Done
  <2>2. \A e \in Children : used'[e] = used[e] + IF e = req[c].of THEN lease[c].want ELSE 0
    BY <1>2, <1>5 DEF Done, Shape, TableTypes
  <2>3. Taken(c) \in Int /\ Ahead(c) \in Int
    BY Standing DEF Shape
  <2>4. Drift(c, kc, kp) = 0
    BY <1>5, <2>1, <2>3 DEF Drift
  <2>5. \A e \in Children :
          used'[e] - used[e] + (Share(c, e)' - Share(c, e)) = IF e = req[c].of THEN kc ELSE 0
    BY <1>2, <1>3, <1>5, <2>1, <2>2, <2>3
  <2>6. QED
    BY <1>5, <2>1, <2>4, <2>5 DEF ClientAccounts, Booked
<1>6. ASSUME NEW kc \in Int, NEW kp \in Int, ItemStep(c, kc, kp), UNCHANGED <<used, faults, req>>,
             kc = Taken(c)' - Taken(c), kp = kc + Ahead(c)' - Ahead(c),
             Taken(c)' \in Int, Ahead(c)' \in Int
      PROVE  ClientAccounts(c)
  <2>1. WroteToItems(c)'
    BY <1>1, <1>6, LeaseItems DEF ItemStep
  <2>2. Taken(c) \in Int /\ Ahead(c) \in Int
    BY Standing DEF Shape
  <2>3. Drift(c, kc, kp) = 0
    BY <1>6, <2>2 DEF Drift
  <2>4. \A e \in Children : Share(c, e)' = IF req[c].of = e THEN Taken(c)' ELSE 0
    BY <1>6 DEF Share
  <2>5. \A e \in Children :
          used'[e] - used[e] + (Share(c, e)' - Share(c, e)) = IF e = req[c].of THEN kc ELSE 0
    BY <1>3, <1>6, <2>2, <2>4
  <2>6. QED
    BY <1>6, <2>1, <2>3, <2>5 DEF ClientAccounts, Booked
<1>7. CASE CloseChild(c)
  <2>1. pc[c] = "open" /\ faults' = faults /\ item' = TakeFrom({req[c].of}, Delta(c)) /\ pc'[c] # "open"
    BY <1>1, <1>7 DEF CloseChild, Done, Forget, Goto
  <2>2. ItemStep(c, Delta(c), 0)
    BY <1>1, <1>2, <2>1, ChildTake
  <2>3. CASE Delta(c) = 0
    <3>1. Done(c)
      BY <1>7, <2>3 DEF CloseChild
    <3>2. Delta(c) = lease[c].want - Taken(c) /\ 0 = Delta(c) - Ahead(c)
      BY <1>2, <1>4, <2>1, <2>3
    <3>3. QED
      BY <1>2, <1>5, <2>1, <2>2, <3>1, <3>2
  <2>4. CASE Delta(c) # 0
    <3>1. Goto(c, "closing") /\ UNCHANGED <<req, out, plan, lease, used>>
      BY <1>7, <2>4 DEF CloseChild
    <3>2. pc'[c] = "closing"
      BY <1>1, <3>1 DEF Goto
    <3>3. Taken(c)' = n + Delta(c) /\ Ahead(c)' = -Delta(c)
      BY <1>2, <3>1, <3>2 DEF Taken, Ahead
    <3>4. Delta(c) = Taken(c)' - Taken(c) /\ 0 = Delta(c) + Ahead(c)' - Ahead(c)
      BY <1>2, <1>4, <2>1, <3>3
    <3>5. Taken(c)' \in Int /\ Ahead(c)' \in Int
      BY <1>2, <3>3
    <3>6. QED
      BY <1>2, <1>6, <2>1, <2>2, <3>1, <3>4, <3>5
  <2>5. QED
    BY <2>3, <2>4
<1>8. CASE CloseParent(c)
  <2>1. pc[c] = "closing" /\ faults' = faults /\ item' = TakeFrom({Parent}, Delta(c)) /\ pc'[c] # "closing" /\ Done(c)
    BY <1>1, <1>8 DEF CloseParent, Done, Forget, Goto
  <2>2. ItemStep(c, 0, Delta(c))
    BY <1>1, <1>2, <2>1, ParentTake
  <2>3. 0 = lease[c].want - Taken(c) /\ Delta(c) = 0 - Ahead(c)
    BY <1>2, <1>4, <2>1
  <2>4. QED
    BY <1>2, <1>5, <2>1, <2>2, <2>3
<1>9. CASE BodyRaises(c)
  <2>1. pc[c] = "open" /\ pc'[c] = "rollingback" /\ UNCHANGED <<item, req, out, lease, used, faults>>
    BY <1>1, <1>9 DEF BodyRaises, Goto
  <2>2. QED
    BY <2>1, QuietStep DEF Leasing
<1>10. CASE RollbackChild(c)
  <2>1. /\ pc[c] = "rollingback" /\ pc'[c] = "rollingbackParent" /\ UNCHANGED <<req, out, lease, used, faults>>
        /\ item' = TakeFrom({req[c].of}, -n)
    BY <1>1, <1>2, <1>10 DEF RollbackChild, Goto
  <2>2. -n \in Int /\ -n <= 0
    BY <1>2
  <2>3. ItemStep(c, -n, 0)
    BY <1>1, <2>1, <2>2, ChildTake
  <2>4. Taken(c)' = 0 /\ Ahead(c)' = n
    BY <1>2, <2>1 DEF Taken, Ahead
  <2>5. -n = Taken(c)' - Taken(c) /\ 0 = -n + Ahead(c)' - Ahead(c)
    BY <1>2, <1>4, <2>1, <2>4
  <2>6. Taken(c)' \in Int /\ Ahead(c)' \in Int
    BY <1>2, <2>4
  <2>7. QED
    BY <1>6, <2>1, <2>2, <2>3, <2>5, <2>6
<1>11. CASE RollbackParent(c)
  <2>1. /\ pc[c] = "rollingbackParent" /\ Forget(c) /\ UNCHANGED <<used, faults>>
        /\ item' = TakeFrom({Parent}, -n)
    BY <1>2, <1>11 DEF RollbackParent
  <2>2. -n \in Int /\ -n <= 0
    BY <1>2
  <2>3. ItemStep(c, 0, -n)
    BY <1>1, <2>1, <2>2, ParentTake
  <2>4. Ahead(c)' = 0 /\ WroteToItems(c)' /\ \A e \in Children : Share(c, e)' = 0
    BY <2>1, Forgotten DEF Shape
  <2>5. Drift(c, 0, -n) = 0
    BY <1>2, <1>4, <2>1, <2>4 DEF Drift
  <2>6. \A e \in Children : used'[e] - used[e] + (Share(c, e)' - Share(c, e)) = 0
    BY <1>3, <1>4, <2>1, <2>4
  <2>7. QED
    BY <2>1, <2>2, <2>3, <2>4, <2>5, <2>6 DEF ClientAccounts, Booked
<1>12. CASE \E d \in Changes : Change(c, d)
  <2>1. /\ pc[c] = "open" /\ UNCHANGED <<item, pc, req, out, used, faults>> /\ lease'[c].initial = n
    BY <1>1, <1>2, <1>12 DEF Change
  <2>2. ItemStep(c, 0, 0)
    BY <2>1, NoWriteStep
  <2>3. Taken(c)' = n /\ Ahead(c)' = 0
    BY <1>2, <2>1 DEF Taken, Ahead
  <2>4. 0 = Taken(c)' - Taken(c) /\ 0 = 0 + Ahead(c)' - Ahead(c)
    BY <1>2, <1>4, <2>1, <2>3
  <2>5. Taken(c)' \in Int /\ Ahead(c)' \in Int
    BY <1>2, <2>3
  <2>6. QED
    BY <1>6, <2>1, <2>2, <2>4, <2>5
<1>13. QED
  BY <1>7, <1>8, <1>9, <1>10, <1>11, <1>12

------------------------------------------------------------------------------
(* Failures *)

(* How far a client may be ahead or behind, and what a failure leaves of it. *)
LEMMA AheadAtMost ==
  ASSUME Shape, Present, NEW c \in Clients, pc[c] # "idle"
  PROVE  /\ req[c].n \in Requests /\ req[c].n \in Nat /\ req[c].of \in Children
         /\ Largest \in Nat /\ req[c].n <= Largest
         /\ Ahead(c) \in Int /\ Ahead(c) <= Largest /\ -Ahead(c) <= Largest
<1>1. req[c].n \in Requests /\ req[c].n \in Nat /\ req[c].of \in Children
  BY DEF Shape, Local, ClientTypes, Requested
<1>2. Largest \in Nat /\ req[c].n <= Largest /\ \A d \in Changes \cup {0} : d <= Largest /\ -d <= Largest
  BY <1>1, LargestBounds
<1>3. CASE pc[c] \in Leasing
  <2>1. /\ lease[c].initial = req[c].n /\ Delta(c) \in Changes \cup {0} /\ Delta(c) \in Int
        /\ lease[c].want = req[c].n + Delta(c) /\ out[c].child # "hit" /\ out[c].parent # "hit"
    BY <1>3, LeaseHolds
  <2>2. Ahead(c) = IF pc[c] = "closing" THEN -Delta(c) ELSE IF pc[c] = "rollingbackParent" THEN req[c].n ELSE 0
    BY <1>1, <2>1 DEF Ahead
  <2>3. QED
    BY <1>1, <1>2, <2>1, <2>2
<1>4. CASE pc[c] \notin Leasing
  <2>1. Ahead(c) \in {0, req[c].n, -req[c].n}
    BY <1>1, <1>4 DEF Ahead, Leasing
  <2>2. QED
    BY <1>1, <1>2, <2>1
<1>5. QED
  BY <1>3, <1>4

(* A call that fails and is over.                                          *)
LEMMA EndsFailed ==
  ASSUME Shape, Present, NEW c \in Clients, Forget(c), faults' = faults + 1,
         NEW kc \in Int, NEW kp \in Int, ItemStep(c, kc, kp),
         (kp - kc) + Ahead(c) <= Largest, -((kp - kc) + Ahead(c)) <= Largest
  PROVE  ClientAccounts(c)
<1>1. Ahead(c)' = 0 /\ WroteToItems(c)' /\ Ahead(c) \in Int /\ faults \in Nat
  BY Forgotten, Standing DEF Shape, TableTypes
<1>2. Drift(c, kc, kp) = (kp - kc) + Ahead(c)
  BY <1>1 DEF Drift
<1>3. QED
  BY <1>1, <1>2 DEF ClientAccounts, Booked

(* A call that fails without having written.                               *)
LEMMA EndsUnwritten ==
  ASSUME Shape, Present, NEW c \in Clients, pc[c] # "idle", Forget(c), faults' = faults + 1, UNCHANGED item
  PROVE  ClientAccounts(c)
<1>1. ItemStep(c, 0, 0)
  BY NoWriteStep
<1>2. Ahead(c) \in Int /\ Ahead(c) <= Largest /\ -Ahead(c) <= Largest
  BY AheadAtMost
<1>3. (0 - 0) + Ahead(c) = Ahead(c)
  BY <1>2
<1>4. QED
  BY <1>1, <1>2, <1>3, EndsFailed

(* A failure among the writes of a gather: the late ones may yet land.     *)
LEMMA SpeculationFails ==
  ASSUME Shape, Present, NEW c \in Clients, pc[c] = "speculating", Forget(c), faults' = faults + 1,
         item' \in Pending(c)
  PROVE  ClientAccounts(c)
<1> DEFINE n == req[c].n
<1>1. n \in Nat /\ req[c].of \in Children /\ Largest \in Nat /\ n <= Largest
  BY AheadAtMost
<1>2. lease[c].initial = 0
  BY DEF Shape, Local, Held, Leasing, NoLease
<1>3. PICK S \in SUBSET {At(c, r) : r \in {x \in With(c, "due") : Covers(At(c, x), n)}} :
        item' = TakeFrom(S, n)
  BY DEF Pending
<1> DEFINE R == {x \in With(c, "due") : Covers(At(c, x), n) /\ At(c, x) \in S}
<1>4. S = {At(c, r) : r \in R}
  OBVIOUS
<1>5. R \in SUBSET Roles /\ \A r \in R : out[c][r] = "due" /\ item[At(c, r)].exists /\ item[At(c, r)].tk >= n
  BY DEF With, Covers
<1>6. item' = TakeFrom({At(c, r) : r \in R}, n)
  BY <1>3, <1>4
<1> HIDE DEF R, n
<1>7. ItemStep(c, IF "child" \in R THEN n ELSE 0, IF "parent" \in R THEN n ELSE 0)
  BY <1>1, <1>5, <1>6, TakeStep
<1> DEFINE kc == IF "child" \in R THEN n ELSE 0
           kp == IF "parent" \in R THEN n ELSE 0
<1>8. Ahead(c) = (IF out[c].parent = "hit" THEN n ELSE 0) - (IF out[c].child = "hit" THEN n ELSE 0)
  BY <1>1, <1>2 DEF Ahead, n
<1>9. ("child" \in R => out[c].child # "hit") /\ ("parent" \in R => out[c].parent # "hit")
  BY <1>5
<1>10. (kp - kc) + Ahead(c) \in {0, n, -n}
  BY <1>1, <1>8, <1>9
<1>11. (kp - kc) + Ahead(c) <= Largest /\ -((kp - kc) + Ahead(c)) <= Largest
  BY <1>1, <1>10
<1>12. kc \in Int /\ kp \in Int /\ ItemStep(c, kc, kp)
  BY <1>1, <1>7
<1> HIDE DEF kc, kp
<1>13. QED
  BY <1>11, <1>12, EndsFailed

(* A failure of a compensating write, which lands.                         *)
LEMMA UndoFails ==
  ASSUME Shape, Present, NEW c \in Clients, pc[c] \in Undoing, Forget(c), faults' = faults + 1,
         item' = Undone(c)
  PROVE  ClientAccounts(c)
<1> DEFINE n == req[c].n
<1>1. n \in Nat /\ req[c].of \in Children /\ Largest \in Nat /\ n <= Largest
  BY AheadAtMost DEF Undoing
<1>2. lease[c].initial = 0
  BY DEF Shape, Local, Held, Leasing, NoLease, Undoing
<1>3. PICK r \in Roles :
           /\ out[c][r] = "hit" /\ \A x \in Roles : out[c][x] = "hit" => x = r
           /\ ItemStep(c, IF r = "child" THEN -n ELSE 0, IF r = "parent" THEN -n ELSE 0)
  BY UndoneItems
<1>4. Ahead(c) = IF r = "child" THEN -n ELSE n
  BY <1>1, <1>2, <1>3 DEF Ahead, Roles, Undoing
<1> DEFINE kc == IF r = "child" THEN -n ELSE 0
           kp == IF r = "parent" THEN -n ELSE 0
<1>5. (kp - kc) + Ahead(c) = 0 /\ kc \in Int /\ kp \in Int
  BY <1>1, <1>4 DEF Roles
<1>6. ItemStep(c, kc, kp) /\ 0 <= Largest /\ -0 <= Largest
  BY <1>1, <1>3
<1> HIDE DEF kc, kp
<1>7. QED
  BY <1>5, <1>6, EndsFailed

(* A failure of the parent-only path: the child is still to be given back. *)
LEMMA ParentOnlyFails ==
  ASSUME Shape, Present, NEW c \in Clients, pc[c] \in ParentOnly, faults' = faults + 1,
         Goto(c, "undoThenRaise"), UNCHANGED <<req, out, lease>>, item' \in {item} \cup Pending(c)
  PROVE  ClientAccounts(c)
<1> DEFINE n == req[c].n
<1>1. n \in Nat /\ req[c].of \in Children /\ Largest \in Nat /\ n <= Largest /\ Ahead(c) \in Int
  BY AheadAtMost DEF ParentOnly
<1>2. ItemStep(c, 0, 0) \/ ItemStep(c, 0, n)
  <2>1. CASE item' = item
    BY <2>1, NoWriteStep
  <2>2. CASE pc[c] = "parentWriting" /\ item' \in ParentWrites(c)
    BY <1>1, <2>2, ParentWritesStep
  <2>3. CASE pc[c] = "parentRetrying" /\ Covers(Parent, n) /\ item' = TakeFrom({Parent}, n)
    <3>1. "parent" \in Roles /\ At(c, "parent") = Parent
      BY DEF Roles, At
    <3>2. item[At(c, "parent")].exists /\ item[At(c, "parent")].tk >= n /\ item' = TakeFrom({At(c, "parent")}, n)
      BY <2>3, <3>1 DEF Covers
    <3>3. n \in Int
      BY <1>1
    <3>4. ItemStep(c, IF "parent" = "child" THEN n ELSE 0, IF "parent" = "parent" THEN n ELSE 0)
      <4> HIDE DEF n
      <4>1. QED
        BY <1>1, <3>1, <3>2, <3>3, TakeOne
    <3>5. QED
      BY <3>4
  <2>4. item' = item \/ item' \in Pending(c)
    OBVIOUS
  <2>5. item' \in Pending(c) => \/ pc[c] = "parentWriting" /\ item' \in ParentWrites(c)
                                \/ pc[c] = "parentRetrying" /\ Covers(Parent, n) /\ item' = TakeFrom({Parent}, n)
    BY DEF Pending, ParentOnly
  <2>6. QED
    BY <2>1, <2>2, <2>3, <2>4, <2>5
<1>3. PICK kp \in {0, n} : ItemStep(c, 0, kp)
  BY <1>2
<1>4. pc'[c] = "undoThenRaise"
  BY DEF Goto, Shape, Local, ClientTypes
<1>5. Ahead(c)' = Ahead(c) /\ WroteToItems(c)'
  BY <1>3, <1>4, WentOn DEF Leasing, ParentOnly, ItemStep
<1>6. Drift(c, 0, kp) = kp
  BY <1>1, <1>3, <1>5 DEF Drift
<1>7. kp \in Int /\ Drift(c, 0, kp) <= Largest /\ -Drift(c, 0, kp) <= Largest
  BY <1>1, <1>3, <1>6
<1>8. faults' # faults
  BY DEF Shape, TableTypes
<1>9. QED
  BY <1>3, <1>5, <1>7, <1>8 DEF ClientAccounts, Booked

(* A failure of a commit: the lease is rolled back.                        *)
LEMMA CommitFails ==
  ASSUME Shape, Present, NEW c \in Clients, pc[c] \in {"open", "closing"}, faults' = faults + 1,
         Goto(c, "rollingback"), UNCHANGED <<req, out, lease>>, item' \in {item} \cup Pending(c)
  PROVE  ClientAccounts(c)
<1> DEFINE d == Delta(c)
<1>1. /\ req[c].n \in Requests /\ req[c].n \in Nat /\ d \in Changes \cup {0} /\ d \in Int
      /\ lease[c].want = req[c].n + d /\ lease[c].initial = req[c].n
      /\ out[c].child # "hit" /\ out[c].parent # "hit"
  BY LeaseHolds DEF Leasing
<1>2. Largest \in Nat /\ d <= Largest /\ -d <= Largest
  BY <1>1, LargestBounds
<1>3. pc'[c] = "rollingback"
  BY DEF Goto, Shape, Local, ClientTypes
<1>4. Ahead(c)' = 0 /\ Ahead(c) = IF pc[c] = "closing" THEN -d ELSE 0
  BY <1>1, <1>3 DEF Ahead
<1>5. \E kc, kp \in Int : /\ ItemStep(c, kc, kp)
                          /\ (kp - kc) + Ahead(c) \in {0, -d}
  <2>1. CASE item' = item
    <3>1. ItemStep(c, 0, 0)
      BY <2>1, NoWriteStep
    <3>2. (0 - 0) + Ahead(c) \in {0, -d}
      BY <1>1, <1>4
    <3>3. QED
      BY <3>1, <3>2
  <2>2. CASE pc[c] = "open" /\ item' = TakeFrom({req[c].of}, d)
    <3>1. ItemStep(c, d, 0)
      BY <1>1, <1>3, <2>2, ChildTake DEF Leasing
    <3>2. (0 - d) + Ahead(c) \in {0, -d}
      BY <1>1, <1>4, <2>2
    <3>3. QED
      BY <1>1, <3>1, <3>2
  <2>3. CASE pc[c] = "closing" /\ item' = TakeFrom({Parent}, d)
    <3>1. ItemStep(c, 0, d)
      BY <1>1, <1>3, <2>3, ParentTake DEF Leasing
    <3>2. (d - 0) + Ahead(c) \in {0, -d}
      BY <1>1, <1>4, <2>3
    <3>3. QED
      BY <1>1, <3>1, <3>2
  <2>4. item' \in Pending(c) => \/ pc[c] = "open" /\ item' = TakeFrom({req[c].of}, d)
                                \/ pc[c] = "closing" /\ item' = TakeFrom({Parent}, d)
    BY DEF Pending
  <2>5. QED
    BY <2>1, <2>2, <2>3, <2>4
<1>6. PICK kc \in Int, kp \in Int : ItemStep(c, kc, kp) /\ (kp - kc) + Ahead(c) \in {0, -d}
  BY <1>5
<1> HIDE DEF d
<1>7. Drift(c, kc, kp) = (kp - kc) + Ahead(c)
  BY <1>1, <1>4 DEF Drift
<1>8. Drift(c, kc, kp) <= Largest /\ -Drift(c, kc, kp) <= Largest
  BY <1>1, <1>2, <1>6, <1>7
<1>9. WroteToItems(c)'
  BY <1>6, LeaseItems DEF Leasing, ItemStep
<1>10. faults' # faults
  BY DEF Shape, TableTypes
<1>11. QED
  BY <1>6, <1>8, <1>9, <1>10 DEF ClientAccounts, Booked

(* A failure of a write that gives a lease back: there is no other attempt. *)
LEMMA RollbackFails ==
  ASSUME Shape, Present, NEW c \in Clients, pc[c] \in {"rollingback", "rollingbackParent"}, Forget(c),
         faults' = faults + 1, item' \in Pending(c)
  PROVE  ClientAccounts(c)
<1> DEFINE n == req[c].n
<1>1. /\ n \in Requests /\ n \in Nat /\ lease[c].initial = n
      /\ out[c].child # "hit" /\ out[c].parent # "hit" /\ Largest \in Nat /\ n <= Largest
  BY LeaseHolds, LargestBounds DEF Leasing
<1>2. -n \in Int /\ -n <= 0 /\ 0 \in Int
  BY <1>1
<1>3. Ahead(c) = IF pc[c] = "rollingbackParent" THEN n ELSE 0
  BY <1>1 DEF Ahead
<1>4. CASE pc[c] = "rollingback"
  <2>1. item' = TakeFrom({req[c].of}, -n)
    BY <1>1, <1>4 DEF Pending
  <2>2. ItemStep(c, -n, 0)
    BY <1>2, <1>4, <2>1, ChildTake DEF Leasing
  <2>3. (0 - (-n)) + Ahead(c) <= Largest /\ -((0 - (-n)) + Ahead(c)) <= Largest
    BY <1>1, <1>3, <1>4
  <2>4. QED
    BY <1>2, <2>2, <2>3, EndsFailed
<1>5. CASE pc[c] = "rollingbackParent"
  <2>1. item' = TakeFrom({Parent}, -n)
    BY <1>1, <1>5 DEF Pending
  <2>2. ItemStep(c, 0, -n)
    BY <1>2, <1>5, <2>1, ParentTake DEF Leasing
  <2>3. (-n - 0) + Ahead(c) <= Largest /\ -((-n - 0) + Ahead(c)) <= Largest
    BY <1>1, <1>3, <1>5
  <2>4. QED
    BY <1>2, <2>2, <2>3, EndsFailed
<1>6. QED
  BY <1>4, <1>5

(* A call that raises and a task that ends cost one request at most.         *)
LEMMA FailureAccounts ==
  ASSUME Shape, Present, NEW c \in Clients, CallRaises(c) \/ Crash(c)
  PROVE  ClientAccounts(c)
<1>1. pc[c] # "idle" /\ faults' = faults + 1 /\ pc[c] \in PCs
  BY DEF CallRaises, Crash, Shape, Local, ClientTypes
<1>2. CASE Crash(c)
  BY <1>1, <1>2, EndsUnwritten DEF Crash
<1>3. CASE CallRaises(c)
  <2>1. item' \in {item} \cup Pending(c)
    BY <1>3 DEF CallRaises
  <2>2. CASE pc[c] \in ParentOnly
    <3>1. Goto(c, "undoThenRaise") /\ UNCHANGED <<req, out, lease>>
      BY <1>3, <2>2 DEF CallRaises, ParentOnly
    <3>2. QED
      BY <1>1, <2>1, <2>2, <3>1, ParentOnlyFails
  <2>3. CASE pc[c] \in {"open", "closing"}
    <3>1. Goto(c, "rollingback") /\ UNCHANGED <<req, out, lease>>
      BY <1>3, <2>3 DEF CallRaises
    <3>2. QED
      BY <1>1, <2>1, <2>3, <3>1, CommitFails
  <2>4. CASE pc[c] \notin ParentOnly \cup {"open", "closing"}
    <3>1. Forget(c)
      BY <1>3, <2>4 DEF CallRaises, ParentOnly
    <3>2. CASE item' = item
      BY <1>1, <3>1, <3>2, EndsUnwritten
    <3>3. CASE item' \in Pending(c) /\ pc[c] = "speculating"
      BY <1>1, <3>1, <3>3, SpeculationFails
    <3>4. CASE item' \in Pending(c) /\ pc[c] \in Undoing
      <4>1. item' = Undone(c)
        BY <3>4 DEF Pending, Undoing
      <4>2. QED
        BY <1>1, <3>1, <3>4, <4>1, UndoFails
    <3>5. CASE item' \in Pending(c) /\ pc[c] \in {"writing", "retrying"}
      <4>1. req[c].of \in Children /\ req[c].n \in Nat /\ Ahead(c) = 0 /\ Largest \in Nat
        BY <1>1, <3>5, AheadAtMost, Standing DEF Shape
      <4>2. ItemStep(c, req[c].n, req[c].n)
        <5>1. CASE pc[c] = "writing"
          <6>1. item' \in BothWrites(c)
            BY <3>5, <5>1 DEF Pending
          <6>2. QED
            BY <4>1, <5>1, <6>1, BothWritesStep
        <5>2. CASE pc[c] = "retrying"
          <6>1. /\ \A r \in Roles : Covers(At(c, r), req[c].n)
                /\ item' = TakeFrom({At(c, r) : r \in Roles}, req[c].n)
            BY <3>5, <5>2 DEF Pending, RetryWrites
          <6>2. \A r \in Roles : item[At(c, r)].exists /\ item[At(c, r)].tk >= req[c].n
            BY <6>1 DEF Covers
          <6>3. ItemStep(c, IF "child" \in Roles THEN req[c].n ELSE 0, IF "parent" \in Roles THEN req[c].n ELSE 0)
            BY <4>1, <6>1, <6>2, TakeStep
          <6>4. QED
            BY <6>3 DEF Roles
        <5>3. QED
          BY <3>5, <5>1, <5>2
      <4>3. /\ (req[c].n - req[c].n) + Ahead(c) <= Largest
            /\ -((req[c].n - req[c].n) + Ahead(c)) <= Largest /\ req[c].n \in Int
        BY <4>1
      <4>4. QED
        BY <1>1, <3>1, <4>2, <4>3, EndsFailed
    <3>6. CASE item' \in Pending(c) /\ pc[c] \in {"rollingback", "rollingbackParent"}
      BY <1>1, <3>1, <3>6, RollbackFails
    <3>7. pc[c] \in {"reading", "readingParent"} => Pending(c) = {}
      BY DEF Pending
    <3>8. QED
      BY <1>1, <2>1, <2>4, <3>2, <3>3, <3>4, <3>5, <3>6, <3>7 DEF PCs, ParentOnly, Undoing
  <2>5. QED
    BY <2>2, <2>3, <2>4
<1>4. QED
  BY <1>2, <1>3

(* Every step of a client is accounted for.                                *)
LEMMA StepAccounts ==
  ASSUME Shape, Present, NEW c \in Clients, ClientStep(c)
  PROVE  ClientAccounts(c)
<1>1. CASE \E e \in Children, n \in Requests : Acquire(c, e, n)
  BY <1>1, AcquireAccounts DEF ClientAccounts
<1>2. CASE \E r \in Roles : Speculate(c, r)
  BY <1>2, SpeculateAccounts
<1>3. CASE ParentNext(c) \/ BothHit(c) \/ ChildOnlyHit(c) \/ ParentOnlyHit(c) \/ NoneHit(c)
  BY <1>3, SpeculationAccounts
<1>4. CASE Undo(c)
  BY <1>4, UndoAccounts
<1>5. CASE ParentRead(c) \/ ParentWrite(c) \/ ParentRetry(c)
  BY <1>5, ParentOnlyAccounts
<1>6. CASE Read(c) \/ ReadParent(c) \/ Write(c) \/ Retry(c)
  BY <1>6, SlowPathAccounts
<1>7. CASE \/ CloseChild(c) \/ CloseParent(c) \/ BodyRaises(c) \/ RollbackChild(c) \/ RollbackParent(c)
           \/ \E d \in Changes : Change(c, d)
  BY <1>7, LeaseAccounts
<1>8. CASE CallRaises(c) \/ Crash(c)
  BY <1>8, FailureAccounts
<1>9. QED
  BY <1>1, <1>2, <1>3, <1>4, <1>5, <1>6, <1>7, <1>8 DEF ClientStep

(* Where a step writes to a child's item, the child is the client's own.   *)
LEMMA OwnChildAccounts ==
  ASSUME Shape, Present, NEW c \in Clients, ClientStep(c)
  PROVE  \E kc, kp \in Int : /\ ItemStep(c, kc, kp) /\ Booked(c, kc, kp) /\ WroteToItems(c)'
                             /\ req[c].of \in Children \/ kc = 0
<1>1. CASE pc[c] = "idle"
  <2>1. \E e \in Children, n \in Requests : Acquire(c, e, n)
    BY <1>1 DEF ClientStep, Speculate, ParentNext, BothHit, ChildOnlyHit, ParentOnlyHit, NoneHit, Settled,
                Undo, ParentRead, ParentWrite, ParentRetry, Read, ReadParent, Write, Retry, Change, CloseChild,
                CloseParent, BodyRaises, RollbackChild, RollbackParent, CallRaises, Crash
  <2>2. ItemStep(c, 0, 0) /\ Booked(c, 0, 0) /\ WroteToItems(c)'
    BY <2>1, AcquireAccounts
  <2>3. QED
    BY <2>2
<1>2. CASE pc[c] # "idle"
  <2>1. req[c].of \in Children
    BY <1>2 DEF Shape, Local, Requested
  <2>2. QED
    BY <2>1, StepAccounts DEF ClientAccounts
<1>3. QED
  BY <1>1, <1>2

------------------------------------------------------------------------------
(* The invariant is inductive *)

(* What the steps do to the cache, the histories and the items.            *)
LEMMA TableStep ==
  ASSUME Shape, Present, NEW c \in Clients, ClientStep(c)
  PROVE  TableTypes'
<1> USE DEF Shape, TableTypes, Local, ClientTypes
<1>1. item' \in [Entities -> Bucket]
  BY StepAccounts DEF ClientAccounts, ItemStep
<1>2. pc[c] # "idle" => req[c].of \in Children
  BY DEF Requested
<1>3. acquires' \in {acquires, acquires + 1} /\ faults' \in {faults, faults + 1}
  BY DEF ClientStep, Acquire, Speculate, ParentNext, BothHit, ChildOnlyHit, ParentOnlyHit, NoneHit, Undo,
         ParentRead, ParentWrite, ParentRetry, Read, ReadParent, Write, Retry, Change, CloseChild, CloseParent,
         BodyRaises, RollbackChild, RollbackParent, CallRaises, Crash
<1>4. cached' = cached \/ (pc[c] # "idle" /\ cached' = [cached EXCEPT ![c] = @ \cup {req[c].of}])
  <2>1. ASSUME NEW r \in Roles, Speculate(c, r)
        PROVE  cached' = cached \/ (pc[c] # "idle" /\ cached' = [cached EXCEPT ![c] = @ \cup {req[c].of}])
    BY <2>1 DEF Speculate
  <2>2. CASE Read(c)
    BY <2>2 DEF Read
  <2>3. CASE ~(Read(c) \/ \E r \in Roles : Speculate(c, r))
    BY <2>3 DEF ClientStep, Acquire, ParentNext, BothHit, ChildOnlyHit, ParentOnlyHit, NoneHit, Undo,
         ParentRead, ParentWrite, ParentRetry, ReadParent, Write, Retry, Change, CloseChild, CloseParent,
         BodyRaises, RollbackChild, RollbackParent, CallRaises, Crash
  <2>4. QED
    BY <2>1, <2>2, <2>3
<1>5. used' = used \/ (pc[c] # "idle" /\ used' = [used EXCEPT ![req[c].of] = @ + lease[c].want])
  BY DEF ClientStep, Acquire, Speculate, ParentNext, BothHit, ChildOnlyHit, ParentOnlyHit, NoneHit, Undo,
         ParentRead, ParentWrite, ParentRetry, Read, ReadParent, Write, Retry, Change, CloseChild, CloseParent,
         BodyRaises, RollbackChild, RollbackParent, CallRaises, Crash, Done
<1>6. cached' \in [Clients -> SUBSET Children]
  <2>1. CASE cached' = cached
    BY <2>1
  <2>2. CASE pc[c] # "idle" /\ cached' = [cached EXCEPT ![c] = @ \cup {req[c].of}]
    <3>1. cached[c] \cup {req[c].of} \in SUBSET Children
      BY <1>2, <2>2
    <3>2. QED
      BY <2>2, <3>1
  <2>3. QED
    BY <1>4, <2>1, <2>2
<1>7. used' \in [Children -> Int]
  BY <1>2, <1>5
<1>8. QED
  BY <1>1, <1>3, <1>6, <1>7

(* An item, once there, stays; what others wrote to is still there.        *)
LEMMA PresentStep ==
  ASSUME Shape, Present, NEW c \in Clients, ClientStep(c)
  PROVE  Present'
<1>1. /\ \A e \in Entities : (item[e].exists => item'[e].exists) /\ (~item'[e].exists => item'[e].tc = 0)
      /\ WroteToItems(c)'
  BY StepAccounts DEF ClientAccounts, ItemStep
<1>2. ASSUME NEW d \in Clients
      PROVE  WroteToItems(d)'
  <2>1. CASE d = c
    BY <1>1, <2>1
  <2>2. CASE d # c
    <3>1. pc'[d] = pc[d] /\ req'[d] = req[d] /\ out'[d] = out[d]
      BY <2>2, OnlyItsOwn
    <3>2. \A r \in Roles : At(d, r)' = At(d, r) /\ At(d, r) \in Entities
      BY <3>1, EntityAssumption DEF At, Entities, Shape, Local, ClientTypes
    <3>3. WroteToItems(d)
      BY DEF Present
    <3>4. QED
      BY <1>1, <3>1, <3>2, <3>3 DEF WroteToItems
  <2>3. QED
    BY <2>1, <2>2
<1>3. QED
  BY <1>1, <1>2 DEF Present

(* Only the client that steps moves the sums over the clients.             *)
LEMMA SumsMove ==
  ASSUME Shape, NEW c \in Clients, ClientStep(c)
  PROVE  /\ AheadInAll' = AheadInAll + Ahead(c)' - Ahead(c)
         /\ AheadInAll \in Int /\ Ahead(c) \in Int /\ Ahead(c)' \in Int
         /\ \A e \in Children :
              /\ TakenFrom(e)' = TakenFrom(e) + Share(c, e)' - Share(c, e)
              /\ TakenFrom(e) \in Int /\ Share(c, e) \in Int /\ Share(c, e)' \in Int
<1>1. Local /\ Local' /\ IsFiniteSet(Clients)
  BY LocalStep, EntityAssumption DEF Shape
<1>2. \A d \in Clients : Taken(d) \in Int /\ Ahead(d) \in Int
  BY <1>1, Standing
<1>3. \A d \in Clients : Taken(d)' \in Int /\ Ahead(d)' \in Int
  BY <1>1 DEF Local, ClientTypes, Taken, Ahead
<1>4. \A d \in Clients \ {c} : Taken(d)' = Taken(d) /\ Ahead(d)' = Ahead(d) /\ req'[d] = req[d]
  BY OnlyItsOwn DEF Taken, Ahead
<1>5. AheadInAll' = AheadInAll + Ahead(c)' - Ahead(c) /\ AheadInAll \in Int
  <2> DEFINE f == [d \in Clients |-> Ahead(d)]
             g == [d \in Clients |-> Ahead(d)']
  <2>1. AheadInAll = SumFunctionOnSet(f, Clients) /\ AheadInAll' = SumFunctionOnSet(g, Clients)
    BY DEF AheadInAll
  <2>2. \A d \in Clients : f[d] \in Int /\ g[d] \in Int
    BY <1>2, <1>3
  <2>3. \A d \in Clients \ {c} : f[d] = g[d]
    BY <1>4
  <2>4. f[c] = Ahead(c) /\ g[c] = Ahead(c)'
    OBVIOUS
  <2> HIDE DEF f, g
  <2>5. QED
    BY <1>1, <2>1, <2>2, <2>3, <2>4, SumUpdate, SumInt
<1>6. ASSUME NEW e \in Children
      PROVE  /\ TakenFrom(e)' = TakenFrom(e) + Share(c, e)' - Share(c, e)
             /\ TakenFrom(e) \in Int /\ Share(c, e) \in Int /\ Share(c, e)' \in Int
  <2> DEFINE f == [d \in Clients |-> Share(d, e)]
             g == [d \in Clients |-> Share(d, e)']
  <2>1. TakenFrom(e) = SumFunctionOnSet(f, Clients) /\ TakenFrom(e)' = SumFunctionOnSet(g, Clients)
    BY DEF TakenFrom
  <2>2. \A d \in Clients : f[d] \in Int /\ g[d] \in Int
    BY <1>2, <1>3 DEF Share
  <2>3. \A d \in Clients \ {c} : f[d] = g[d]
    BY <1>4 DEF Share
  <2>4. f[c] = Share(c, e) /\ g[c] = Share(c, e)'
    OBVIOUS
  <2> HIDE DEF f, g
  <2>5. QED
    BY <1>1, <2>1, <2>2, <2>3, <2>4, SumUpdate, SumInt
<1>7. QED
  BY <1>2, <1>3, <1>5, <1>6

(* What a step writes to the two items is what the gap moves by.           *)
LEMMA GapMoves ==
  ASSUME Shape, NEW c \in Clients, NEW kc \in Int, NEW kp \in Int, ItemStep(c, kc, kp),
         req[c].of \in Children \/ kc = 0
  PROVE  Gap' = Gap + (kp - kc) /\ Gap \in Int
<1> DEFINE f == [e \in Children |-> item[e].tc]
           g == [e \in Children |-> item'[e].tc]
<1>1. \A e \in Entities : item[e] \in Bucket /\ item'[e] \in Bucket
  BY DEF Shape, TableTypes, ItemStep
<1>2. /\ Parent \in Entities /\ Children \subseteq Entities /\ Parent \notin Children /\ IsFiniteSet(Children)
  BY EntityAssumption DEF Entities
<1>3. \A e \in Entities : item[e].tc \in Int /\ item'[e].tc \in Int
  BY <1>1 DEF Bucket
<1>4. item'[Parent].tc = item[Parent].tc + kp
  BY <1>2 DEF ItemStep
<1>5. \A e \in Children : f[e] \in Int /\ g[e] \in Int /\ g[e] = f[e] + IF e = req[c].of THEN kc ELSE 0
  BY <1>2, <1>3 DEF ItemStep
<1>6. Gap = item[Parent].tc - SumFunctionOnSet(f, Children) /\ Gap' = item'[Parent].tc - SumFunctionOnSet(g, Children)
  BY DEF Gap
<1> HIDE DEF f, g
<1>7. SumFunctionOnSet(f, Children) \in Int
  BY <1>2, <1>5, SumInt
<1>8. SumFunctionOnSet(g, Children) = SumFunctionOnSet(f, Children) + kc
  <2>1. CASE req[c].of \in Children
    <3>1. \A e \in Children \ {req[c].of} : f[e] = g[e]
      BY <1>5
    <3>2. SumFunctionOnSet(g, Children) = SumFunctionOnSet(f, Children) + g[req[c].of] - f[req[c].of]
      BY <1>2, <1>5, <2>1, <3>1, SumUpdate
    <3>3. QED
      BY <1>5, <1>7, <2>1, <3>2
  <2>2. CASE kc = 0
    <3>1. \A e \in Children : f[e] = g[e]
      BY <1>5, <2>2
    <3>2. SumFunctionOnSet(f, Children) = SumFunctionOnSet(g, Children)
      BY <1>2, <3>1, SumSame
    <3>3. QED
      BY <1>7, <2>2, <3>2
  <2>3. QED
    BY <2>1, <2>2
<1>9. item[Parent].tc \in Int
  BY <1>2, <1>3
<1>10. QED
  BY <1>4, <1>6, <1>7, <1>8, <1>9

(* A client's step keeps the invariant, by what it accounts for.             *)
LEMMA StepInv ==
  ASSUME IInv, NEW c \in Clients, ClientStep(c)
  PROVE  IInv'
<1>1. Shape /\ Present /\ Counted /\ Balanced
  BY DEF IInv
<1>2. Shape' /\ Present'
  BY <1>1, LocalStep, TableStep, PresentStep DEF Shape
<1>3. PICK kc \in Int, kp \in Int : /\ ItemStep(c, kc, kp) /\ Booked(c, kc, kp)
                                    /\ req[c].of \in Children \/ kc = 0
  BY <1>1, OwnChildAccounts
<1>4. faults \in Nat /\ faults' \in Nat
  BY <1>1, <1>2 DEF Shape, TableTypes
<1>5. Counted'
  <2>1. SUFFICES ASSUME faults' = 0, NEW e \in Children
                 PROVE  item'[e].tc = used'[e] + TakenFrom(e)'
    BY DEF Counted
  <2>2. faults' = faults /\ faults = 0
    BY <1>3, <1>4, <2>1 DEF Booked
  <2>3. used'[e] - used[e] + (Share(c, e)' - Share(c, e)) = IF e = req[c].of THEN kc ELSE 0
    BY <1>3, <2>2 DEF Booked
  <2>4. item'[e].tc = item[e].tc + IF e = req[c].of THEN kc ELSE 0
    BY <1>3, EntityAssumption DEF ItemStep, Entities
  <2>5. item[e].tc = used[e] + TakenFrom(e)
    BY <1>1, <2>2 DEF Counted
  <2>6. /\ TakenFrom(e)' = TakenFrom(e) + Share(c, e)' - Share(c, e)
        /\ TakenFrom(e) \in Int /\ Share(c, e) \in Int /\ Share(c, e)' \in Int
    BY <1>1, SumsMove
  <2>7. used[e] \in Int /\ used'[e] \in Int
    BY <1>1, <1>2 DEF Shape, TableTypes
  <2>8. QED
    BY <2>3, <2>4, <2>5, <2>6, <2>7
<1>6. Balanced'
  <2>1. Gap' = Gap + (kp - kc) /\ Gap \in Int
    BY <1>1, <1>3, GapMoves
  <2>2. AheadInAll' = AheadInAll + Ahead(c)' - Ahead(c) /\ AheadInAll \in Int /\ Ahead(c) \in Int /\ Ahead(c)' \in Int
    BY <1>1, SumsMove
  <2>3. Drift(c, kc, kp) = (Gap' - AheadInAll') - (Gap - AheadInAll) /\ Drift(c, kc, kp) \in Int
    BY <2>1, <2>2 DEF Drift
  <2>4. CASE faults' = faults
    <3>1. Drift(c, kc, kp) = 0
      BY <1>3, <2>4 DEF Booked
    <3>2. Gap' - AheadInAll' = Gap - AheadInAll /\ AheadInAll' - Gap' = AheadInAll - Gap
      BY <2>1, <2>2, <2>3, <3>1
    <3>3. Largest' = Largest
      BY DEF Largest
    <3>4. QED
      BY <1>1, <2>4, <3>2, <3>3 DEF Balanced
  <2>5. CASE faults' # faults
    <3>1. faults' = faults + 1 /\ Drift(c, kc, kp) <= Largest /\ -Drift(c, kc, kp) <= Largest
      BY <1>3, <2>5 DEF Booked
    <3>2. pc[c] # "idle"
      BY <2>5 DEF ClientStep, Acquire, Speculate, ParentNext, BothHit, ChildOnlyHit, ParentOnlyHit, NoneHit, Undo,
         ParentRead, ParentWrite, ParentRetry, Read, ReadParent, Write, Retry, Change, CloseChild, CloseParent,
         BodyRaises, RollbackChild, RollbackParent, CallRaises, Crash
    <3>3. Largest \in Nat /\ Largest' = Largest
      BY <1>1, <3>2, AheadAtMost DEF Largest
    <3>4. faults' * Largest = faults * Largest + Largest /\ faults * Largest \in Int
      BY <1>4, <3>1, <3>3
    <3>5. Gap - AheadInAll <= faults * Largest /\ AheadInAll - Gap <= faults * Largest
      BY <1>1 DEF Balanced
    <3>6. (faults * Largest)' = faults * Largest + Largest
      BY <3>3, <3>4
    <3> DEFINE b == faults * Largest
               x == Drift(c, kc, kp)
    <3>7. b \in Int /\ x \in Int /\ x <= Largest /\ -x <= Largest /\ Gap - AheadInAll <= b /\ AheadInAll - Gap <= b
      BY <2>3, <3>1, <3>4, <3>5
    <3>8. Gap' \in Int /\ AheadInAll' \in Int /\ x = (Gap' - AheadInAll') - (Gap - AheadInAll)
      BY <2>1, <2>2, <2>3
    <3>9. b' = b + Largest
      BY <3>6
    <3>10. Balanced' <=> Gap' - AheadInAll' <= b' /\ AheadInAll' - Gap' <= b'
      BY DEF Balanced
    <3> HIDE DEF b, x
    <3>11. QED
      BY <2>1, <2>2, <3>3, <3>7, <3>8, <3>9, <3>10
  <2>6. QED
    BY <2>4, <2>5
<1>7. QED
  BY <1>2, <1>5, <1>6 DEF IInv

(* The invariant holds at the start.                                         *)
LEMMA InitInv == Init => IInv
<1> SUFFICES ASSUME Init PROVE IInv
  OBVIOUS
<1> USE DEF Init
<1>1. Parent \in Entities /\ Parent \notin Children /\ Children \subseteq Entities
      /\ IsFiniteSet(Clients) /\ IsFiniteSet(Children)
  BY EntityAssumption DEF Entities
<1>2. TableTypes
  BY DEF TableTypes, Bucket, NoItem
<1>3. ClientTypes
  BY <1>1 DEF ClientTypes, PCs, Roles, Answers, Request, NoRequest, NoOutcome, NoPlan, NoWrite, NoLease
<1>4. Local
  BY <1>3 DEF Local, Requested, Answered, Planned, Held, Undoing, ParentOnly, Leasing, NoPlan, NoWrite, Roles
<1>5. Present
  BY DEF Present, WroteToItems, Leasing, NoItem, NoOutcome
<1>6. \A c \in Clients : Taken(c) = 0 /\ Ahead(c) = 0
  BY <1>4, Standing
<1>7. Counted
  <2>1. ASSUME NEW e \in Children
        PROVE  TakenFrom(e) = 0
    <3> DEFINE f == [c \in Clients |-> Share(c, e)]
    <3>1. \A c \in Clients : f[c] = 0
      BY <1>6 DEF Share
    <3> HIDE DEF f
    <3>2. SumFunctionOnSet(f, Clients) = 0
      BY <1>1, <3>1, SumZero
    <3>3. QED
      BY <3>2 DEF TakenFrom, f
  <2>2. QED
    BY <1>1, <2>1 DEF Counted, NoItem
<1>8. Balanced
  <2>1. AheadInAll = 0
    <3> DEFINE f == [c \in Clients |-> Ahead(c)]
    <3>1. \A c \in Clients : f[c] = 0
      BY <1>6
    <3> HIDE DEF f
    <3>2. SumFunctionOnSet(f, Clients) = 0
      BY <1>1, <3>1, SumZero
    <3>3. QED
      BY <3>2 DEF AheadInAll, f
  <2>2. Gap = 0
    <3> DEFINE f == [e \in Children |-> item[e].tc]
    <3>1. \A e \in Children : f[e] = 0
      BY <1>1 DEF NoItem
    <3> HIDE DEF f
    <3>2. SumFunctionOnSet(f, Children) = 0
      BY <1>1, <3>1, SumZero
    <3>3. QED
      BY <1>1, <3>2 DEF Gap, f, NoItem
  <2>3. Balanced <=> 0 - 0 <= faults * Largest /\ 0 - 0 <= faults * Largest
    BY <2>1, <2>2 DEF Balanced
  <2>4. 0 * Largest = 0
    <3>1. Largest \in Nat
      BY LargestBounds, EntityAssumption
    <3>2. QED
      BY <3>1
  <2>5. QED
    BY <2>3, <2>4
<1>9. QED
  BY <1>2, <1>4, <1>5, <1>7, <1>8 DEF IInv, Shape

(* The inductive invariant holds in every reachable state.                 *)
LEMMA InvHolds == Spec => []IInv
<1>1. IInv /\ UNCHANGED vars => IInv'
  BY DEF vars, IInv, Shape, TableTypes, Local, ClientTypes, Requested, Answered, Planned, Held, Present,
         WroteToItems, Counted, Balanced, Gap, AheadInAll, TakenFrom, Share, Taken, Ahead, At, Largest
<1>2. IInv /\ [Next]_vars => IInv'
  BY <1>1, StepInv DEF Next
<1>3. QED
  BY InitInv, <1>2, PTL DEF Spec

------------------------------------------------------------------------------
(* The properties of Cascade *)

(* The type invariant: a client that gives a speculative write back has    *)
(* exactly one to give back, and one that writes found both buckets        *)
(* sufficient, whatever the numbers of tasks, children and amounts.        *)
THEOREM TypeCorrect == Spec => []TypeOK
<1>1. IInv => TypeOK
  <2> SUFFICES ASSUME IInv PROVE TypeOK
    OBVIOUS
  <2>1. ASSUME NEW c \in Clients, pc[c] \in Undoing
        PROVE  Cardinality(With(c, "hit")) = 1
    <3>1. PICK r \in Roles : out[c][r] = "hit" /\ \A x \in Roles : out[c][x] = "hit" => x = r
      BY <2>1 DEF IInv, Shape, Local, Answered, Roles
    <3>2. With(c, "hit") = {r}
      BY <3>1 DEF With
    <3>3. QED
      BY <3>2, FS_Singleton
  <2>2. \A c \in Clients : pc[c] = "writing" => \A r \in Roles : plan[c][r].ok
    BY DEF IInv, Shape, Local, Planned
  <2>3. QED
    BY <2>1, <2>2 DEF TypeOK, IInv, Shape, TableTypes, Local, ClientTypes, Undoing
<1>2. QED
  BY InvHolds, <1>1, PTL

(* Between calls nobody is ahead, and what was taken is what leases hold.  *)
LEMMA QuietSums ==
  ASSUME IInv, Quiet
  PROVE  /\ AheadInAll = 0
         /\ \A e \in Children : Leased(e) = used[e] + TakenFrom(e)
<1>1. Local /\ IsFiniteSet(Clients)
  BY EntityAssumption DEF IInv, Shape
<1>2. \A c \in Clients : /\ Ahead(c) = 0 /\ Taken(c) = lease[c].initial
                         /\ lease[c].initial \in Int
  <2> TAKE c \in Clients
  <2>1. pc[c] \in {"idle", "open"} /\ lease[c] \in [initial : Nat, want : Int]
    BY <1>1 DEF Quiet, Local, ClientTypes
  <2>2. pc[c] = "idle" => lease[c].initial = 0
    BY <1>1 DEF Local, Held, Leasing, NoLease
  <2>3. pc[c] = "open" => lease[c].initial = req[c].n
    BY <1>1 DEF Local, Held, Leasing
  <2>4. QED
    BY <1>1, <2>1, <2>2, <2>3, Standing
<1>3. AheadInAll = 0
  <2> DEFINE f == [c \in Clients |-> Ahead(c)]
  <2>1. \A c \in Clients : f[c] = 0
    BY <1>2
  <2>2. AheadInAll = SumFunctionOnSet(f, Clients)
    BY DEF AheadInAll
  <2> HIDE DEF f
  <2>3. QED
    BY <1>1, <2>1, <2>2, SumZero
<1>4. ASSUME NEW e \in Children
      PROVE  Leased(e) = used[e] + TakenFrom(e)
  <2> DEFINE f == [c \in Clients |-> IF req[c].of = e THEN lease[c].initial ELSE 0]
             g == [c \in Clients |-> Share(c, e)]
  <2>1. \A c \in Clients : f[c] = g[c]
    BY <1>2 DEF Share
  <2>2. DOMAIN f = Clients
    OBVIOUS
  <2>3. Leased(e) = used[e] + SumFunctionOnSet(f, DOMAIN f) /\ TakenFrom(e) = SumFunctionOnSet(g, Clients)
    BY DEF Leased, TakenFrom, SumFunction
  <2> HIDE DEF f, g
  <2>4. QED
    BY <1>1, <2>1, <2>2, <2>3, SumSame
<1>5. QED
  BY <1>3, <1>4

(* Without failures a child and its parent have counted the same: what the *)
(* leases of the children consumed, no more and no less, however many      *)
(* tasks speculate, compensate, retry and roll back at once.               *)
THEOREM TogetherConsumed == Spec => []ConsumedTogether
<1>1. IInv => ConsumedTogether
  <2> SUFFICES ASSUME IInv, faults = 0, Quiet
               PROVE  /\ \A e \in Children : item[e].tc = Leased(e)
                      /\ item[Parent].tc = SumFunction([e \in Children |-> Leased(e)])
    BY DEF ConsumedTogether
  <2>1. \A e \in Children : item[e].tc = Leased(e)
    BY QuietSums DEF IInv, Counted
  <2>2. AheadInAll = 0 /\ Gap <= 0 /\ -Gap <= 0 /\ Gap \in Int
    <3>1. Largest \in Nat
      BY LargestBounds, EntityAssumption
    <3>2. 0 * Largest = 0
      BY <3>1
    <3>3. AheadInAll = 0
      BY QuietSums
    <3>4. Gap - 0 <= 0 /\ 0 - Gap <= 0
      BY <3>2, <3>3 DEF IInv, Balanced
    <3>5. \A e \in Entities : item[e].tc \in Int
      BY DEF IInv, Shape, TableTypes, Bucket
    <3> DEFINE f == [e \in Children |-> item[e].tc]
    <3>6. Parent \in Entities /\ IsFiniteSet(Children) /\ \A e \in Children : f[e] \in Int
      BY <3>5, EntityAssumption DEF Entities
    <3>7. Gap = item[Parent].tc - SumFunctionOnSet(f, Children)
      BY DEF Gap
    <3> HIDE DEF f
    <3>8. Gap \in Int
      BY <3>5, <3>6, <3>7, SumInt
    <3>9. QED
      BY <3>3, <3>4, <3>8
  <2>3. item[Parent].tc = SumFunction([e \in Children |-> Leased(e)])
    <3> DEFINE f == [e \in Children |-> item[e].tc]
               g == [e \in Children |-> Leased(e)]
    <3>1. f = g
      BY <2>1
    <3>2. Gap = item[Parent].tc - SumFunctionOnSet(f, Children) /\ SumFunction(g) = SumFunctionOnSet(g, DOMAIN g)
      BY DEF Gap, SumFunction
    <3>3. DOMAIN g = Children
      OBVIOUS
    <3>4. \A e \in Children : f[e] \in Int
      BY DEF IInv, Shape, TableTypes, Bucket, Entities
    <3>5. item[Parent].tc \in Int /\ IsFiniteSet(Children)
      BY EntityAssumption DEF IInv, Shape, TableTypes, Bucket, Entities
    <3> HIDE DEF f, g
    <3>6. SumFunctionOnSet(f, Children) \in Int
      BY <3>4, <3>5, SumInt
    <3>7. item[Parent].tc = SumFunction(g)
      BY <2>2, <3>1, <3>2, <3>3, <3>5, <3>6
    <3>8. QED
      BY <3>7 DEF g
  <2>4. QED
    BY <2>1, <2>3
<1>2. QED
  BY InvHolds, <1>1, PTL

(* Every failure, whenever it comes, separates the parent from its         *)
(* children by one request or one change of a lease at most.               *)
THEOREM FaultsBounded == Spec => []FaultsCostOneRequest
<1>1. IInv => FaultsCostOneRequest
  <2> SUFFICES ASSUME IInv, Quiet
               PROVE  LET gap == item[Parent].tc - SumFunction([e \in Children |-> item[e].tc])
                      IN  gap <= faults * Largest /\ -gap <= faults * Largest
    BY DEF FaultsCostOneRequest
  <2> DEFINE f == [e \in Children |-> item[e].tc]
  <2>1. Gap = item[Parent].tc - SumFunction(f)
    BY DEF Gap, SumFunction
  <2>2. SumFunction(f) = SumFunctionOnSet(f, Children)
    BY DEF SumFunction
  <2>3. item[Parent].tc \in Int /\ IsFiniteSet(Children) /\ \A e \in Children : f[e] \in Int
    BY EntityAssumption DEF IInv, Shape, TableTypes, Bucket, Entities
  <2> HIDE DEF f
  <2>4. Gap \in Int
    BY <2>1, <2>2, <2>3, SumInt
  <2>5. Gap - 0 <= faults * Largest /\ 0 - Gap <= faults * Largest
    BY QuietSums DEF IInv, Balanced
  <2>6. Gap - 0 = Gap /\ 0 - Gap = -Gap
    BY <2>4
  <2>7. Gap <= faults * Largest /\ -Gap <= faults * Largest
    BY <2>5, <2>6
  <2>8. QED
    BY <2>1, <2>7 DEF f
<1>2. QED
  BY InvHolds, <1>1, PTL

(* No write of an acquire takes a bucket below zero: only a lease that was *)
(* admitted may, by adjusting.                                             *)
THEOREM NeverOverdrawn == Spec => AcquireNeverOverdraws
<1>1. ASSUME IInv, [Next]_vars, NEW e \in Entities, item'[e].tk < item[e].tk, item'[e].tk < 0
      PROVE  \E c \in Clients : pc[c] \in {"open", "closing"} /\ pc'[c] # pc[c]
  <2>1. CASE UNCHANGED vars
    <3>1. item[e].tk \in Int /\ item'[e].tk = item[e].tk
      BY <1>1, <2>1 DEF vars, IInv, Shape, TableTypes, Bucket
    <3>2. QED
      BY <1>1, <3>1
  <2>2. ASSUME NEW c \in Clients, ClientStep(c)
        PROVE  pc[c] \in {"open", "closing"} /\ pc'[c] # pc[c]
    BY <1>1, <2>2, StepAccounts DEF IInv, ClientAccounts, ItemStep
  <2>3. QED
    BY <1>1, <2>1, <2>2 DEF Next
<1>2. IInv /\ [Next]_vars =>
        [\A e \in Entities :
           item'[e].tk < item[e].tk /\ item'[e].tk < 0 =>
             \E c \in Clients : pc[c] \in {"open", "closing"} /\ pc'[c] # pc[c]]_vars
  BY <1>1
<1>3. QED
  BY InvHolds, <1>2, PTL DEF Spec, AcquireNeverOverdraws
================================================================================
