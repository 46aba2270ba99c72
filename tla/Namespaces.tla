------------------------------ MODULE Namespaces ------------------------------
(***************************************************************************)
(* The namespace registry: for each name a forward record with its opaque  *)
(* id, for each id a reverse record with its name and its status.          *)
(* Repositories open, register and resolve names through a cache of their  *)
(* own and write items under the id they resolved once; administrators     *)
(* delete, recover and purge in several calls that are no transaction, and *)
(* any of them may die between two calls.                                  *)
(*                                                                         *)
(* Calls that raise or return without a write are left out where nothing   *)
(* follows them.  Ids are issued in order instead of at random; that two   *)
(* random ids coincide is not modelled.                                    *)
(***************************************************************************)
EXTENDS Integers

CONSTANTS
  Repos,      \* processes, each with a Repository
  Admins,     \* those that delete, recover and purge
  Names,      \* names of namespaces
  NoName,     \* what a reverse record without a name has
  Items,      \* items of the data in a namespace
  MaxIds,     \* bound on the namespaces ever registered
  MaxDeaths   \* bound on the deaths of processes

ASSUME NamespaceAssumption ==
  /\ Admins \subseteq Repos
  /\ NoName \notin Names
  /\ MaxIds \in Nat

VARIABLES
  forward,  \* [name -> id of its forward record, NoId if there is none]
  reverse,  \* [id -> name and status of its reverse record]
  data,     \* [id -> items stored under it]
  issued,   \* ids issued so far
  cache,    \* [process -> [name -> id in _namespace_cache]]
  pc,       \* where each process is in its call
  call,     \* [process -> name, id and items of that call]
  owner,    \* history: [id -> name it was issued for]
  deaths,   \* history: deaths so far
  broken,   \* history: a deletion or a recovery died between its two writes
  contested \* history: names two administrators were at together, see RebindsAmid, PurgesAmid

registry == <<forward, reverse, data, issued, owner>>
faults == <<deaths, broken, contested>>
vars == <<forward, reverse, data, issued, cache, pc, call, owner, deaths, broken, contested>>

------------------------------------------------------------------------------
NoId == 0
Ids == 1..MaxIds
Statuses == {"none", "active", "deleted", "purging"}
PCs == {"idle", "registering", "existing", "unbinding", "marking", "rebinding",
        "activating", "condemning", "listing", "erasing"}

NoRecord == [name |-> NoName, status |-> "none"]
NoCall == [name |-> NoName, id |-> NoId, items |-> {}]
Uncached == [n \in Names |-> NoId]

Init ==
  /\ forward = Uncached
  /\ reverse = [i \in Ids |-> NoRecord]
  /\ data = [i \in Ids |-> {}]
  /\ issued = 0
  /\ cache = [r \in Repos |-> Uncached]
  /\ pc = [r \in Repos |-> "idle"]
  /\ call = [r \in Repos |-> NoCall]
  /\ owner = [i \in Ids |-> NoName]
  /\ deaths = 0
  /\ broken = FALSE
  /\ contested = {}

Goto(r, l) == pc' = [pc EXCEPT ![r] = l]

\* r begins a call of several steps.
Starts(r, l, n, i) ==
  /\ pc[r] = "idle"
  /\ Goto(r, l)
  /\ call' = [call EXCEPT ![r].name = n, ![r].id = i]

\* r's call goes on.
Steps(r, from, to) ==
  /\ pc[r] = from
  /\ Goto(r, to)

Returns(r, from) ==
  /\ Steps(r, from, "idle")
  /\ call' = [call EXCEPT ![r] = NoCall]

\* r's call has resolved its name: its repository caches the id.
Resolves(r, from, i) ==
  /\ Returns(r, from)
  /\ cache' = [cache EXCEPT ![r][call[r].name] = i]

------------------------------------------------------------------------------
(* Opening and registering *)

\* Repository.open(), with a new repository: it has resolved the name, or goes on to
\* register it.
Open(r, n) ==
  /\ pc[r] = "idle"
  /\ cache' = [cache EXCEPT ![r] = [Uncached EXCEPT ![n] = forward[n]]]
  /\ IF forward[n] # NoId THEN UNCHANGED <<pc, call>> ELSE Starts(r, "registering", n, NoId)
  /\ UNCHANGED <<registry, faults>>

\* register_namespace().
Register(r, n) ==
  /\ Starts(r, "registering", n, NoId)
  /\ UNCHANGED <<registry, cache, faults>>

\* Mutant: the last id is used again.
PutSameId(r) ==
  /\ pc[r] = "registering" /\ issued < MaxIds
  /\ LET n == call[r].name  i == IF issued = 0 THEN 1 ELSE issued
     IN  /\ forward[n] = NoId
         /\ forward' = [forward EXCEPT ![n] = i]
         /\ reverse' = [reverse EXCEPT ![i] = [name |-> n, status |-> "active"]]
         /\ owner' = [owner EXCEPT ![i] = IF issued = 0 THEN n ELSE @]
         /\ issued' = i
         /\ Resolves(r, "registering", i)
  /\ UNCHANGED <<data, faults>>

\* _register_namespace: both records in one transaction, under a new id.
PutBoth(r) ==
  /\ pc[r] = "registering" /\ issued < MaxIds
  /\ LET n == call[r].name  i == issued + 1
     IN  /\ forward[n] = NoId
         /\ forward' = [forward EXCEPT ![n] = i]
         /\ reverse' = [reverse EXCEPT ![i] = [name |-> n, status |-> "active"]]
         /\ owner' = [owner EXCEPT ![i] = n]
         /\ issued' = i
         /\ Resolves(r, "registering", i)
  /\ UNCHANGED <<data, faults>>

\* The transaction is canceled: the name has a forward record.
PutCanceled(r) ==
  /\ Steps(r, "registering", "existing")
  /\ forward[call[r].name] # NoId
  /\ UNCHANGED <<registry, call, cache, faults>>

\* The id the name has is resolved, by the cache first; it raises when that finds
\* none.
ResolveExisting(r) ==
  /\ pc[r] = "existing"
  /\ LET n == call[r].name
         i == IF cache[r][n] # NoId THEN cache[r][n] ELSE forward[n]
     IN  IF i # NoId THEN Resolves(r, "existing", i)
         ELSE Returns(r, "existing") /\ UNCHANGED cache
  /\ UNCHANGED <<registry, faults>>

\* namespace(): a scoped repository with the parent's cache; it raises when the
\* name is not found.
Scoped(r, n) ==
  /\ pc[r] = "idle"
  /\ LET i == IF cache[r][n] # NoId THEN cache[r][n] ELSE forward[n]
     IN  /\ i # NoId
         /\ cache' = [cache EXCEPT ![r][n] = i]
  /\ UNCHANGED <<registry, pc, call, faults>>

\* Some repository stores an item under the id it was opened with, however long ago:
\* no write looks at the registry again.  As there may be repositories in any number
\* of other processes, every id that was ever bound to a name has one.
Store(i, x) ==
  /\ i <= issued
  /\ data' = [data EXCEPT ![i] = @ \cup {x}]
  /\ UNCHANGED <<forward, reverse, issued, owner, cache, pc, call, faults>>

------------------------------------------------------------------------------
(* Administrators *)

\* a is to bind or to unbind a name, or is between that and the mark on its id.
Rebinds(a) == pc[a] \in {"unbinding", "marking", "rebinding", "activating"}

\* a has found the namespace deleted and is about to mark it as being purged.
Condemns(a, i) == pc[a] = "condemning" /\ call[a].id = i

\* r would delete or recover id i while another administrator deletes or recovers the
\* same name, or is about to mark i as being purged.
RebindsAmid(r, i) ==
  \E a \in Admins \ {r} : (Rebinds(a) /\ owner[call[a].id] = owner[i]) \/ Condemns(a, i)

\* r would purge id i while another administrator deletes or recovers it.
PurgesAmid(r, i) == \E a \in Admins \ {r} : Rebinds(a) /\ call[a].id = i

Contends(i, amid) ==
  /\ contested' = IF amid THEN contested \cup {owner[i]} ELSE contested
  /\ UNCHANGED <<deaths, broken>>

------------------------------------------------------------------------------
(* delete_namespace() *)

\* Mutant: that there is a forward record is not checked.
BeginDeleteAny(r, n) ==
  /\ Starts(r, "unbinding", n, forward[n])
  /\ UNCHANGED <<registry, cache, faults>>

BeginDelete(r, n) ==
  /\ forward[n] # NoId
  /\ Starts(r, "unbinding", n, forward[n])
  /\ Contends(forward[n], RebindsAmid(r, forward[n]))
  /\ UNCHANGED <<registry, cache>>

\* Whatever the forward record has by now.
DeleteForward(r) ==
  /\ Steps(r, "unbinding", "marking")
  /\ forward' = [forward EXCEPT ![call[r].name] = NoId]
  /\ UNCHANGED <<reverse, data, issued, owner, call, cache, faults>>

\* An update makes the record if there is none; it has no name then.
SetStatus(i, status) == reverse' = [reverse EXCEPT ![i].status = status]

MarkDeleted(r) ==
  /\ Returns(r, "marking")
  /\ SetStatus(call[r].id, "deleted")
  /\ cache' = [cache EXCEPT ![r][call[r].name] = NoId]
  /\ UNCHANGED <<forward, data, issued, owner, faults>>

------------------------------------------------------------------------------
(* recover_namespace() *)

\* Mutant: a purge in progress is not looked at.
BeginRecoverAny(r, i) ==
  /\ reverse[i].status \in {"deleted", "purging"} /\ reverse[i].name # NoName
  /\ Starts(r, "rebinding", reverse[i].name, i)
  /\ Contends(i, RebindsAmid(r, i))
  /\ UNCHANGED <<registry, cache>>

\* It raises for an active namespace, one being purged and one without a record or
\* without a name.
BeginRecover(r, i) ==
  /\ reverse[i].status = "deleted" /\ reverse[i].name # NoName
  /\ Starts(r, "rebinding", reverse[i].name, i)
  /\ Contends(i, RebindsAmid(r, i))
  /\ UNCHANGED <<registry, cache>>

\* Mutant: the forward record is put without its condition.
PutForwardAnyway(r) ==
  /\ Steps(r, "rebinding", "activating")
  /\ forward' = [forward EXCEPT ![call[r].name] = call[r].id]
  /\ UNCHANGED <<reverse, data, issued, owner, call, cache, faults>>

\* It raises when the name has been registered again.
PutForward(r) ==
  /\ pc[r] = "rebinding"
  /\ LET n == call[r].name
     IN  IF forward[n] = NoId
           THEN /\ Steps(r, "rebinding", "activating")
                /\ forward' = [forward EXCEPT ![n] = call[r].id]
                /\ UNCHANGED call
           ELSE Returns(r, "rebinding") /\ UNCHANGED forward
  /\ UNCHANGED <<reverse, data, issued, owner, cache, faults>>

MarkActive(r) ==
  /\ Returns(r, "activating")
  /\ SetStatus(call[r].id, "active")
  /\ cache' = [cache EXCEPT ![r][call[r].name] = call[r].id]
  /\ UNCHANGED <<forward, data, issued, owner, faults>>

------------------------------------------------------------------------------
(* purge_namespace() *)

\* Mutant: an active namespace is purged.
BeginPurgeAny(r, i) ==
  /\ reverse[i].status # "none"
  /\ Starts(r, IF reverse[i].status = "purging" THEN "listing" ELSE "condemning", NoName, i)
  /\ Contends(i, PurgesAmid(r, i))
  /\ UNCHANGED <<registry, cache>>

\* It raises for an active namespace and returns for one without a record; a purge
\* that was given up is taken up again.
BeginPurge(r, i) ==
  /\ reverse[i].status \in {"deleted", "purging"}
  /\ Starts(r, IF reverse[i].status = "purging" THEN "listing" ELSE "condemning", NoName, i)
  /\ Contends(i, PurgesAmid(r, i))
  /\ UNCHANGED <<registry, cache>>

MarkPurging(r) ==
  /\ Steps(r, "condemning", "listing")
  /\ SetStatus(call[r].id, "purging")
  /\ UNCHANGED <<forward, data, issued, owner, call, cache, faults>>

\* There is nothing left to erase of the page that was listed last.
PageDone(r) == pc[r] = "erasing" /\ call[r].items = {}

\* A page of GSI4, the first or another one; it follows the table with a delay: late
\* items are not found.
ListItems(r) ==
  /\ pc[r] = "listing" \/ PageDone(r)
  /\ Goto(r, "erasing")
  /\ \E found \in SUBSET data[call[r].id] : call' = [call EXCEPT ![r].items = found]
  /\ UNCHANGED <<registry, cache, faults>>

\* Batches of deletes, of which some may come back unprocessed.
EraseItems(r) ==
  /\ pc[r] = "erasing"
  /\ \E done \in (SUBSET call[r].items) \ {{}} :
       /\ data' = [data EXCEPT ![call[r].id] = @ \ done]
       /\ call' = [call EXCEPT ![r].items = @ \ done]
  /\ UNCHANGED <<forward, reverse, issued, owner, cache, pc, faults>>

DeleteReverse(r) ==
  /\ PageDone(r)
  /\ Returns(r, "erasing")
  /\ reverse' = [reverse EXCEPT ![call[r].id] = NoRecord]
  /\ UNCHANGED <<forward, data, issued, owner, cache, faults>>

------------------------------------------------------------------------------
\* A process dies, with all it has in memory, and starts again.
Die(r) ==
  /\ deaths < MaxDeaths
  /\ deaths' = deaths + 1
  /\ broken' = (broken \/ pc[r] \in {"marking", "activating"})
  /\ Goto(r, "idle")
  /\ call' = [call EXCEPT ![r] = NoCall]
  /\ cache' = [cache EXCEPT ![r] = Uncached]
  /\ UNCHANGED <<registry, contested>>

User(r) ==
  \/ \E n \in Names : Open(r, n) \/ Register(r, n) \/ Scoped(r, n)
  \/ PutBoth(r) \/ PutCanceled(r) \/ ResolveExisting(r)

Admin(r) ==
  \/ \E n \in Names : BeginDelete(r, n)
  \/ DeleteForward(r) \/ MarkDeleted(r)
  \/ \E i \in Ids : BeginRecover(r, i) \/ BeginPurge(r, i)
  \/ PutForward(r) \/ MarkActive(r)
  \/ MarkPurging(r) \/ ListItems(r) \/ EraseItems(r) \/ DeleteReverse(r)

Next ==
  \/ \E r \in Repos : User(r) \/ Die(r)
  \/ \E r \in Admins : Admin(r)
  \/ \E i \in Ids, x \in Items : Store(i, x)

Spec == Init /\ [][Next]_vars

------------------------------------------------------------------------------
(* Properties *)

\* A call that is under way has read what its next step needs.
Knows(r) ==
  /\ pc[r] \in {"registering", "existing", "unbinding", "marking", "rebinding", "activating"}
       => call[r].name \in Names
  /\ pc[r] \in {"unbinding", "marking", "rebinding", "activating", "condemning", "listing", "erasing"}
       => call[r].id \in Ids

\* Every variable has the type the code gives it, and no call goes on without the
\* name or the id that it was to read first.
TypeOK ==
  /\ forward \in [Names -> Ids \cup {NoId}]
  /\ reverse \in [Ids -> [name : Names \cup {NoName}, status : Statuses]]
  /\ data \in [Ids -> SUBSET Items]
  /\ issued \in 0..MaxIds
  /\ cache \in [Repos -> [Names -> Ids \cup {NoId}]]
  /\ pc \in [Repos -> PCs]
  /\ call \in [Repos -> [name : Names \cup {NoName}, id : Ids \cup {NoId}, items : SUBSET Items]]
  /\ owner \in [Ids -> Names \cup {NoName}]
  /\ deaths \in Nat
  /\ broken \in BOOLEAN /\ contested \subseteq Names \cup {NoName}
  /\ \A r \in Repos : Knows(r)

\* Tenants are kept apart: an id that a name is bound to, that a cache has for it
\* or that a recovery is about to bind to it was issued for that very name, so no
\* two names ever store their items under one id.
OwnIds ==
  \A n \in Names :
    /\ forward[n] # NoId => owner[forward[n]] = n
    /\ \A r \in Repos : cache[r][n] # NoId => owner[cache[r][n]] = n
    /\ \A i \in Ids : reverse[i].name = n => owner[i] = n

\* "Purge is in progress and is terminal": once a namespace is being purged, its
\* record is removed or stays as it is, whatever users and administrators do.  What is
\* excused is a deletion or a recovery that was under way together with another
\* one of that name, or together with the beginning of the purge (PreventsRecovery
\* shows it), or that was cut short between its two writes; a call that begins once the
\* namespace is marked is not.
PurgeIsTerminal ==
  [][~broken => \A i \in Ids :
       reverse[i].status = "purging" /\ owner[i] \notin contested =>
         reverse'[i].status \in {"purging", "none"}]_reverse

\* The comment of purge_namespace on status="purging": "prevents concurrent recovery".
PreventsRecovery ==
  [][\A i \in Ids : reverse[i].status = "purging" => reverse'[i].status # "active"]_reverse

Bound(i) == owner[i] # NoName /\ forward[owner[i]] = i

\* No purge deletes an item of a namespace that its name is bound to, with the same
\* exceptions.
LiveDataKept ==
  [][~broken => \A i \in Ids :
       data'[i] # data[i] /\ Bound(i) /\ owner[i] \notin contested => data[i] \subseteq data'[i]]_data

\* The two records of a namespace that no administrator is deleting or recovering agree:
\* it is bound to its name exactly if its status is active, so that it
\* can either be resolved, or recovered and purged; with the same exceptions.
RecordsAgree ==
  ~broken => \A i \in Ids :
    owner[i] \notin contested /\ (\A a \in Admins : Rebinds(a) => call[a].id # i) =>
      (reverse[i].status = "active" <=> Bound(i))
==============================================================================
