--------------------------- MODULE Namespaces_proofs ---------------------------
(***************************************************************************)
(* For any processes, administrators and names: the types of the registry, *)
(* that no id ever serves a name it was not issued for, and, of a name that *)
(* no two administrators contended for, that its two records agree between *)
(* calls, that a purge is final and that it deletes nothing in use.        *)
(***************************************************************************)
EXTENDS Namespaces, TLAPS

Calls == [name : Names \cup {NoName}, id : Ids \cup {NoId}, items : SUBSET Items]

(* The types without the last conjunct of TypeOK.                            *)
Typed ==
  /\ forward \in [Names -> Ids \cup {NoId}]
  /\ reverse \in [Ids -> [name : Names \cup {NoName}, status : Statuses]]
  /\ data \in [Ids -> SUBSET Items]
  /\ issued \in 0..MaxIds
  /\ cache \in [Repos -> [Names -> Ids \cup {NoId}]]
  /\ pc \in [Repos -> PCs]
  /\ call \in [Repos -> Calls]
  /\ owner \in [Ids -> Names \cup {NoName}]
  /\ deaths \in Nat
  /\ broken \in BOOLEAN /\ contested \subseteq Names \cup {NoName}

(* The type invariant in its parts.                                          *)
LEMMA TypedIs == TypeOK <=> Typed /\ \A r \in Repos : Knows(r)
BY DEF TypeOK, Typed, Calls

(* Ids not issued yet belong to nobody, and a deletion or a recovery under    *)
(* way will unbind or bind an id of the name it was issued for.              *)
Fresh == \A i \in Ids : i > issued => owner[i] = NoName
Named(r) == Rebinds(r) => owner[call[r].id] = call[r].name

Inv == TypeOK /\ OwnIds /\ Fresh /\ \A r \in Repos : Named(r)

-------------------------------------------------------------------------------
(* Types *)

(* A step changes the call of one process, and leaves the others knowing      *)
(* what they knew.                                                           *)
LEMMA KnowsOthers ==
  ASSUME Typed, NEW r \in Repos, \A q \in Repos : Knows(q), Knows(r)',
         \A q \in Repos \ {r} : pc'[q] = pc[q] /\ call'[q] = call[q]
  PROVE  \A q \in Repos : Knows(q)'
BY DEF Knows

(* A process without a call.                                                 *)
LEMMA NoCallTyped == NoCall \in Calls
BY DEF NoCall, Calls

(* A resolution ends the call and leaves those of others alone.              *)
LEMMA TypeResolves ==
  ASSUME Typed, NEW r \in Repos, NEW from \in PCs, NEW i \in Ids \cup {NoId}, Resolves(r, from, i)
  PROVE  /\ pc' \in [Repos -> PCs] /\ call' \in [Repos -> Calls]
         /\ cache' \in [Repos -> [Names -> Ids \cup {NoId}]]
         /\ pc'[r] = "idle"
         /\ \A q \in Repos \ {r} : pc'[q] = pc[q] /\ call'[q] = call[q]
<1>1. /\ pc' = [pc EXCEPT ![r] = "idle"] /\ call' = [call EXCEPT ![r] = NoCall]
      /\ cache' = [cache EXCEPT ![r][call[r].name] = i]
  BY DEF Resolves, Returns, Steps, Goto
<1>2. pc' \in [Repos -> PCs] /\ call' \in [Repos -> Calls]
  BY <1>1, NoCallTyped DEF Typed, PCs
<1>3. [cache[r] EXCEPT ![call[r].name] = i] \in [Names -> Ids \cup {NoId}]
  BY DEF Typed
<1>4. cache' \in [Repos -> [Names -> Ids \cup {NoId}]]
  BY <1>1, <1>3 DEF Typed
<1> QED
  BY <1>1, <1>2, <1>4 DEF Typed

(* What a step does to the calls: it changes that of r only, and r knows     *)
(* what its next step needs.                                                 *)
CallStep(r) ==
  /\ pc' \in [Repos -> PCs] /\ call' \in [Repos -> Calls]
  /\ Knows(r)'
  /\ \A q \in Repos \ {r} : pc'[q] = pc[q] /\ call'[q] = call[q]

(* A call that starts knows the name and the id it will need.                *)
LEMMA StartsCall ==
  ASSUME Typed, NEW r \in Repos, NEW l \in PCs, NEW n \in Names \cup {NoName},
         NEW i \in Ids \cup {NoId}, Starts(r, l, n, i),
         l \in {"registering", "unbinding", "rebinding"} => n \in Names,
         l \in {"unbinding", "rebinding", "condemning", "listing"} => i \in Ids,
         l \in {"registering", "unbinding", "rebinding", "condemning", "listing"}
  PROVE  CallStep(r) /\ pc'[r] = l /\ call'[r].name = n /\ call'[r].id = i
<1>1. pc' = [pc EXCEPT ![r] = l] /\ call' = [call EXCEPT ![r].name = n, ![r].id = i]
  BY DEF Starts, Goto
<1>2. pc' \in [Repos -> PCs]
  BY <1>1 DEF Typed
<1>3. call' \in [Repos -> Calls] /\ call'[r].name = n /\ call'[r].id = i
  BY <1>1 DEF Typed, Calls
<1>4. pc'[r] = l /\ \A q \in Repos \ {r} : pc'[q] = pc[q] /\ call'[q] = call[q]
  BY <1>1 DEF Typed
<1> QED
  BY <1>2, <1>3, <1>4 DEF CallStep, Knows

(* A call that goes on knows what it knew.                                   *)
LEMMA StepsCall ==
  ASSUME Typed, NEW r \in Repos, NEW from \in PCs, NEW to \in PCs, Steps(r, from, to), Knows(r),
         UNCHANGED call, to \in {"existing", "marking", "activating", "listing"},
         <<from, to>> \in {<<"registering", "existing">>, <<"unbinding", "marking">>,
                          <<"rebinding", "activating">>, <<"condemning", "listing">>}
  PROVE  CallStep(r) /\ pc[r] = from /\ pc'[r] = to
<1>1. pc[r] = from /\ pc' = [pc EXCEPT ![r] = to]
  BY DEF Steps, Goto
<1> QED
  BY <1>1 DEF CallStep, Knows, Typed

(* A call that returns needs to know nothing.                                *)
LEMMA ReturnsCall ==
  ASSUME Typed, NEW r \in Repos, NEW from, Returns(r, from)
  PROVE  CallStep(r) /\ pc[r] = from /\ pc'[r] = "idle"
<1>1. pc[r] = from /\ pc' = [pc EXCEPT ![r] = "idle"] /\ call' = [call EXCEPT ![r] = NoCall]
  BY DEF Returns, Steps, Goto
<1> QED
  BY <1>1, NoCallTyped DEF CallStep, Knows, Typed, PCs

(* A step within a place of the code.                                        *)
LEMMA SameCalls ==
  ASSUME Typed, NEW r \in Repos, Knows(r), UNCHANGED <<pc, call>>
  PROVE  CallStep(r)
BY DEF CallStep, Knows, Typed

(* The calls of a user.                                                      *)
LEMMA TypeUser ==
  ASSUME TypeOK, NEW r \in Repos, User(r)
  PROVE  Typed' /\ CallStep(r)
<1> Typed /\ Knows(r)
  BY TypedIs
<1> USE DEF registry, faults
<1>1. ASSUME NEW n \in Names, Open(r, n)
      PROVE  Typed' /\ CallStep(r)
  <2>1. CallStep(r)
    <3>1. CASE UNCHANGED <<pc, call>>
      BY <3>1, SameCalls
    <3>2. CASE Starts(r, "registering", n, NoId)
      BY <3>2, StartsCall DEF PCs
    <3> QED
      BY <1>1, <3>1, <3>2 DEF Open
  <2>2. [Uncached EXCEPT ![n] = forward[n]] \in [Names -> Ids \cup {NoId}]
    BY DEF Uncached, Typed
  <2> QED
    BY <1>1, <2>1, <2>2 DEF Open, Typed, CallStep
<1>2. ASSUME NEW n \in Names, Register(r, n)
      PROVE  Typed' /\ CallStep(r)
  <2>1. CallStep(r)
    BY <1>2, StartsCall DEF Register, PCs
  <2> QED
    BY <1>2, <2>1 DEF Register, Typed, CallStep
<1>3. ASSUME NEW n \in Names, Scoped(r, n)
      PROVE  Typed' /\ CallStep(r)
  <2> DEFINE i == IF cache[r][n] # NoId THEN cache[r][n] ELSE forward[n]
  <2>1. i \in Ids \cup {NoId}
    BY DEF Typed
  <2>2. cache' = [cache EXCEPT ![r][n] = i] /\ UNCHANGED <<pc, call>>
    BY <1>3 DEF Scoped
  <2>3. [cache[r] EXCEPT ![n] = i] \in [Names -> Ids \cup {NoId}]
    BY <2>1 DEF Typed
  <2>4. cache' \in [Repos -> [Names -> Ids \cup {NoId}]]
    BY <2>1, <2>2, <2>3 DEF Typed
  <2> QED
    BY <1>3, <2>2, <2>4, SameCalls DEF Scoped, Typed
<1>5. CASE PutBoth(r)
  <2> DEFINE n == call[r].name
             i == issued + 1
  <2>1. /\ i \in Ids /\ n \in Names
        /\ forward' = [forward EXCEPT ![n] = i]
        /\ reverse' = [reverse EXCEPT ![i] = [name |-> n, status |-> "active"]]
        /\ owner' = [owner EXCEPT ![i] = n]
        /\ issued' = i
        /\ Resolves(r, "registering", i)
    BY <1>5, NamespaceAssumption DEF PutBoth, Knows, Typed, Ids
  <2>2. issued' \in 0..MaxIds
    BY <2>1 DEF Ids
  <2>3. CallStep(r)
    BY <2>1, ReturnsCall DEF Resolves
  <2>4. [name |-> n, status |-> "active"] \in [name : Names \cup {NoName}, status : Statuses]
    BY <2>1 DEF Statuses
  <2>5. reverse' \in [Ids -> [name : Names \cup {NoName}, status : Statuses]]
    BY <2>1, <2>4 DEF Typed
  <2>6. forward' \in [Names -> Ids \cup {NoId}] /\ owner' \in [Ids -> Names \cup {NoName}]
    BY <2>1 DEF Typed
  <2>7. cache' \in [Repos -> [Names -> Ids \cup {NoId}]]
    BY <2>1, TypeResolves DEF PCs
  <2> QED
    BY <1>5, <2>2, <2>3, <2>5, <2>6, <2>7 DEF PutBoth, Typed, CallStep
<1>6. CASE PutCanceled(r)
  <2>1. CallStep(r)
    BY <1>6, StepsCall DEF PutCanceled, PCs
  <2> QED
    BY <1>6, <2>1 DEF PutCanceled, Typed, CallStep
<1>7. CASE ResolveExisting(r)
  <2> DEFINE n == call[r].name
             i == IF cache[r][n] # NoId THEN cache[r][n] ELSE forward[n]
  <2>1. n \in Names /\ i \in Ids \cup {NoId}
    BY <1>7 DEF ResolveExisting, Knows, Typed
  <2>2. CASE i # NoId
    <3>1. Resolves(r, "existing", i)
      BY <1>7, <2>2 DEF ResolveExisting
    <3>2. CallStep(r)
      BY <3>1, ReturnsCall DEF Resolves
    <3> QED
      BY <1>7, <2>1, <3>1, <3>2, TypeResolves DEF ResolveExisting, Typed, PCs
  <2>3. CASE i = NoId
    <3>1. CallStep(r) /\ UNCHANGED cache
      BY <1>7, <2>3, ReturnsCall DEF ResolveExisting
    <3> QED
      BY <1>7, <3>1 DEF ResolveExisting, Typed, CallStep
  <2> QED
    BY <2>2, <2>3
<1> QED
  BY <1>1, <1>2, <1>3, <1>5, <1>6, <1>7 DEF User

(* An item is stored.                                                        *)
LEMMA TypeStore ==
  ASSUME TypeOK, NEW i \in Ids, NEW x \in Items, Store(i, x)
  PROVE  TypeOK'
<1>1. data' \in [Ids -> SUBSET Items]
  BY DEF Store, TypeOK
<1> QED
  BY <1>1 DEF Store, TypeOK, Knows, faults

(* A status is written to a record that keeps its name.                      *)
LEMMA StatusTyped ==
  ASSUME Typed, NEW i \in Ids, NEW status \in Statuses, SetStatus(i, status)
  PROVE  /\ reverse' \in [Ids -> [name : Names \cup {NoName}, status : Statuses]]
         /\ \A j \in Ids : reverse'[j].name = reverse[j].name
BY DEF SetStatus, Typed

(* Contention is remembered.                                                 *)
LEMMA ContendsTyped ==
  ASSUME Typed, NEW i \in Ids, NEW amid, Contends(i, amid)
  PROVE  /\ contested' \subseteq Names \cup {NoName} /\ UNCHANGED <<deaths, broken>>
         /\ contested \subseteq contested' /\ (amid => owner[i] \in contested')
BY DEF Contends, Typed

(* The calls of an administrator.                                            *)
LEMMA TypeAdmin ==
  ASSUME TypeOK, NEW r \in Repos, Admin(r)
  PROVE  Typed' /\ CallStep(r)
<1> Typed /\ Knows(r)
  BY TypedIs
<1> USE DEF registry, faults
<1>1. ASSUME NEW n \in Names, BeginDelete(r, n)
      PROVE  Typed' /\ CallStep(r)
  <2>1. forward[n] \in Ids
    BY <1>1 DEF BeginDelete, Typed
  <2>2. CallStep(r)
    BY <1>1, <2>1, StartsCall DEF BeginDelete, PCs
  <2> QED
    BY <1>1, <2>1, <2>2, ContendsTyped DEF BeginDelete, Typed, CallStep
<1>2. CASE DeleteForward(r)
  <2>1. CallStep(r)
    BY <1>2, StepsCall DEF DeleteForward, PCs
  <2> QED
    BY <1>2, <2>1 DEF DeleteForward, Typed, CallStep
<1>3. CASE MarkDeleted(r) \/ MarkActive(r)
  <2>1. CallStep(r) /\ call[r].id \in Ids /\ call[r].name \in Names
    BY <1>3, ReturnsCall DEF MarkDeleted, MarkActive, Knows
  <2>2. reverse' \in [Ids -> [name : Names \cup {NoName}, status : Statuses]]
    BY <1>3, <2>1, StatusTyped DEF MarkDeleted, MarkActive, Statuses
  <2>3. PICK i \in Ids \cup {NoId} : cache' = [cache EXCEPT ![r][call[r].name] = i]
    BY <1>3, <2>1 DEF MarkDeleted, MarkActive
  <2>4. [cache[r] EXCEPT ![call[r].name] = i] \in [Names -> Ids \cup {NoId}]
    BY DEF Typed
  <2>5. cache' \in [Repos -> [Names -> Ids \cup {NoId}]]
    BY <2>3, <2>4 DEF Typed
  <2> QED
    BY <1>3, <2>1, <2>2, <2>5 DEF MarkDeleted, MarkActive, Typed, CallStep
<1>4. ASSUME NEW i \in Ids, BeginRecover(r, i)
      PROVE  Typed' /\ CallStep(r)
  <2>1. reverse[i].name \in Names
    BY <1>4 DEF BeginRecover, Typed
  <2>2. CallStep(r)
    BY <1>4, <2>1, StartsCall DEF BeginRecover, PCs
  <2> QED
    BY <1>4, <2>2, ContendsTyped DEF BeginRecover, Typed, CallStep
<1>5. ASSUME NEW i \in Ids, BeginPurge(r, i)
      PROVE  Typed' /\ CallStep(r)
  <2>1. CallStep(r)
    BY <1>5, StartsCall DEF BeginPurge, PCs
  <2> QED
    BY <1>5, <2>1, ContendsTyped DEF BeginPurge, Typed, CallStep
<1>6. CASE PutForward(r)
  <2>1. call[r].id \in Ids /\ call[r].name \in Names
    BY <1>6 DEF PutForward, Knows
  <2>2. forward' \in [Names -> Ids \cup {NoId}]
    BY <1>6, <2>1 DEF PutForward, Typed
  <2>3. CASE Steps(r, "rebinding", "activating") /\ UNCHANGED call
    <3>1. CallStep(r)
      BY <2>3, StepsCall DEF PCs
    <3> QED
      BY <1>6, <2>2, <3>1 DEF PutForward, Typed, CallStep
  <2>4. CASE Returns(r, "rebinding")
    <3>1. CallStep(r)
      BY <2>4, ReturnsCall
    <3> QED
      BY <1>6, <2>2, <3>1 DEF PutForward, Typed, CallStep
  <2> QED
    BY <1>6, <2>3, <2>4 DEF PutForward
<1>7. CASE MarkPurging(r)
  <2>1. CallStep(r) /\ call[r].id \in Ids
    BY <1>7, StepsCall DEF MarkPurging, PCs, Steps, Knows
  <2>2. reverse' \in [Ids -> [name : Names \cup {NoName}, status : Statuses]]
    BY <1>7, <2>1, StatusTyped DEF MarkPurging, Statuses
  <2> QED
    BY <1>7, <2>1, <2>2 DEF MarkPurging, Typed, CallStep
<1>8. CASE ListItems(r)
  <2>1. pc' = [pc EXCEPT ![r] = "erasing"] /\ call[r].id \in Ids
    BY <1>8 DEF ListItems, PageDone, Goto, Knows
  <2>2. PICK found \in SUBSET data[call[r].id] : call' = [call EXCEPT ![r].items = found]
    BY <1>8 DEF ListItems
  <2>3. found \in SUBSET Items
    BY <2>1 DEF Typed
  <2>4. call' \in [Repos -> Calls] /\ call'[r].id \in Ids
    BY <2>1, <2>2, <2>3 DEF Typed, Calls
  <2>5. CallStep(r)
    BY <2>1, <2>2, <2>4 DEF CallStep, Knows, Typed, PCs
  <2> QED
    BY <1>8, <2>5 DEF ListItems, Typed, CallStep
<1>9. CASE EraseItems(r)
  <2>1. pc[r] = "erasing" /\ call[r].id \in Ids
    BY <1>9 DEF EraseItems, Knows
  <2>2. PICK done \in SUBSET call[r].items :
          /\ data' = [data EXCEPT ![call[r].id] = @ \ done]
          /\ call' = [call EXCEPT ![r].items = @ \ done]
          /\ UNCHANGED pc
    BY <1>9 DEF EraseItems
  <2>3. call' \in [Repos -> Calls] /\ call'[r].id = call[r].id
    BY <2>2 DEF Typed, Calls
  <2>4. data' \in [Ids -> SUBSET Items]
    BY <2>2 DEF Typed
  <2>5. CallStep(r)
    BY <2>1, <2>2, <2>3 DEF CallStep, Knows, Typed
  <2> QED
    BY <1>9, <2>4, <2>5 DEF EraseItems, Typed, CallStep
<1>10. CASE DeleteReverse(r)
  <2>1. CallStep(r)
    BY <1>10, ReturnsCall DEF DeleteReverse
  <2>2. NoRecord \in [name : Names \cup {NoName}, status : Statuses]
    BY DEF NoRecord, Statuses
  <2>3. reverse' \in [Ids -> [name : Names \cup {NoName}, status : Statuses]]
    BY <1>10, <2>2 DEF DeleteReverse, Typed
  <2> QED
    BY <1>10, <2>1, <2>3 DEF DeleteReverse, Typed, CallStep
<1> QED
  BY <1>1, <1>2, <1>3, <1>4, <1>5, <1>6, <1>7, <1>8, <1>9, <1>10 DEF Admin

(* The death of a process.                                                   *)
LEMMA TypeDie ==
  ASSUME TypeOK, NEW r \in Repos, Die(r)
  PROVE  Typed' /\ CallStep(r)
<1> Typed /\ Knows(r)
  BY TypedIs
<1>1. Uncached \in [Names -> Ids \cup {NoId}]
  BY DEF Uncached
<1>2. CallStep(r)
  BY NoCallTyped DEF Die, Goto, CallStep, Knows, Typed, PCs
<1>3. deaths' \in Nat /\ broken' \in BOOLEAN
  BY DEF Die, Typed
<1> QED
  BY <1>1, <1>2, <1>3 DEF Die, Typed, CallStep, registry

(* Every action keeps the types.                                             *)
LEMMA TypeStep ==
  ASSUME TypeOK, [Next]_vars
  PROVE  TypeOK'
<1>1. CASE UNCHANGED vars
  BY <1>1 DEF TypeOK, Knows, vars
<1>2. CASE Next
  <2>1. ASSUME NEW r \in Repos, User(r) \/ Die(r) \/ Admin(r)
        PROVE  TypeOK'
    <3>1. Typed' /\ CallStep(r)
      BY <2>1, TypeUser, TypeDie, TypeAdmin
    <3>2. \A q \in Repos : Knows(q)'
      BY <3>1, KnowsOthers, TypedIs DEF CallStep
    <3> QED
      BY <3>1, <3>2 DEF TypeOK, Typed, Calls
  <2> QED
    BY <1>2, <2>1, TypeStore, NamespaceAssumption DEF Next
<1> QED
  BY <1>1, <1>2

(* The initial state has the types, and all ids are fresh.                   *)
LEMMA InvInit == Init => Inv
<1> SUFFICES ASSUME Init
             PROVE  Inv
  OBVIOUS
<1>1. TypeOK
  <2>1. /\ Uncached \in [Names -> Ids \cup {NoId}]
        /\ NoRecord \in [name : Names \cup {NoName}, status : Statuses]
    BY DEF Uncached, NoRecord, Statuses
  <2>2. 0 \in 0..MaxIds
    BY NamespaceAssumption
  <2>3. pc \in [Repos -> PCs] /\ call \in [Repos -> Calls]
    BY NoCallTyped DEF Init, PCs
  <2>4. Typed
    BY <2>1, <2>2, <2>3 DEF Init, Typed
  <2>5. \A r \in Repos : Knows(r)
    BY DEF Init, Knows
  <2> QED
    BY <2>4, <2>5, TypedIs
<1>2. OwnIds
  BY NamespaceAssumption DEF Init, OwnIds, Uncached, NoRecord
<1> QED
  BY <1>1, <1>2 DEF Inv, Fresh, Named, Rebinds, Init

-------------------------------------------------------------------------------
(* No id serves a name it was not issued for *)

(* The ids that were issued for a name, and none.                            *)
IdsOf(n) == {NoId} \cup {i \in Ids : owner[i] = n}

(* A step that issues no id, and binds, caches and records only ids for the   *)
(* names they were issued for, keeps what Inv says of ids.                   *)
LEMMA OwnStep ==
  ASSUME Inv, TypeOK', UNCHANGED <<owner, issued>>,
         \A n \in Names : forward'[n] = forward[n] \/ forward'[n] \in IdsOf(n),
         \A q \in Repos, n \in Names : cache'[q][n] = cache[q][n] \/ cache'[q][n] \in IdsOf(n),
         \A i \in Ids : reverse'[i].name \in {reverse[i].name, NoName},
         \A q \in Repos : Named(q)'
  PROVE  Inv'
<1>1. \A n \in Names : forward'[n] # NoId => owner'[forward'[n]] = n
  BY DEF Inv, OwnIds, IdsOf
<1>2. \A n \in Names, r \in Repos : cache'[r][n] # NoId => owner'[cache'[r][n]] = n
  BY DEF Inv, OwnIds, IdsOf
<1>3. \A n \in Names, i \in Ids : reverse'[i].name = n => owner'[i] = n
  BY NamespaceAssumption DEF Inv, OwnIds
<1> QED
  BY <1>1, <1>2, <1>3 DEF Inv, OwnIds, Fresh

(* A process whose call is not a recovery afterwards, and the others.        *)
LEMMA NamedOthers ==
  ASSUME Inv, NEW r \in Repos, CallStep(r), UNCHANGED owner, Named(r)'
  PROVE  \A q \in Repos : Named(q)'
BY DEF Inv, Named, Rebinds, CallStep

(* A name that is resolved to an id it was issued for.                       *)
LEMMA ResolvesOwn ==
  ASSUME Inv, TypeOK', NEW r \in Repos, NEW from \in PCs, NEW i \in Ids, Resolves(r, from, i),
         call[r].name \in Names, owner[i] = call[r].name, UNCHANGED <<forward, reverse, issued, owner>>
  PROVE  Inv'
<1>1. Typed
  BY TypedIs DEF Inv
<1>2. cache' = [cache EXCEPT ![r][call[r].name] = i]
  BY DEF Resolves
<1>3. \A q \in Repos, n \in Names : cache'[q][n] = cache[q][n] \/ cache'[q][n] \in IdsOf(n)
  BY <1>1, <1>2 DEF IdsOf, Typed
<1>4. \A q \in Repos : Named(q)'
  BY <1>1, TypeResolves, NamedOthers, ReturnsCall DEF Resolves, Named, Rebinds
<1> QED
  BY <1>3, <1>4, OwnStep

(* A registration gives a new name an id that nobody has.                    *)
LEMMA RegistersOwn ==
  ASSUME Inv, TypeOK', NEW r \in Repos, PutBoth(r)
  PROVE  Inv'
<1> DEFINE n == call[r].name
           i == issued + 1
<1>1. Typed /\ Knows(r)
  BY TypedIs DEF Inv
<1>2. /\ i \in Ids /\ n \in Names /\ i > issued
      /\ forward' = [forward EXCEPT ![n] = i]
      /\ reverse' = [reverse EXCEPT ![i] = [name |-> n, status |-> "active"]]
      /\ owner' = [owner EXCEPT ![i] = n]
      /\ issued' = i
      /\ Resolves(r, "registering", i)
  BY <1>1, NamespaceAssumption DEF PutBoth, Knows, Typed, Ids
<1>3. owner[i] = NoName
  BY <1>2 DEF Inv, Fresh
<1>4. cache' = [cache EXCEPT ![r][n] = i]
  BY <1>2 DEF Resolves
<1>5. owner'[i] = n /\ \A j \in Ids \ {i} : owner'[j] = owner[j]
  BY <1>1, <1>2 DEF Typed
<1>6. \A m \in Names : forward'[m] # NoId => owner'[forward'[m]] = m
  <2> SUFFICES ASSUME NEW m \in Names, forward'[m] # NoId
               PROVE  owner'[forward'[m]] = m
    OBVIOUS
  <2>1. CASE m = n
    BY <1>1, <1>2, <1>5, <2>1 DEF Typed
  <2>2. CASE m # n
    <3>1. forward'[m] = forward[m] /\ forward[m] \in Ids /\ owner[forward[m]] = m
      BY <1>1, <1>2, <2>2 DEF Typed, Inv, OwnIds
    <3> QED
      BY <3>1, <1>3, <1>5, NamespaceAssumption
  <2> QED
    BY <2>1, <2>2
<1>7. \A m \in Names, q \in Repos : cache'[q][m] # NoId => owner'[cache'[q][m]] = m
  <2> SUFFICES ASSUME NEW m \in Names, NEW q \in Repos, cache'[q][m] # NoId
               PROVE  owner'[cache'[q][m]] = m
    OBVIOUS
  <2>1. CASE m = n /\ q = r
    BY <1>1, <1>4, <1>5, <2>1 DEF Typed
  <2>2. CASE ~(m = n /\ q = r)
    <3>1. cache'[q][m] = cache[q][m] /\ cache[q][m] \in Ids \cup {NoId}
      BY <1>1, <1>4, <2>2 DEF Typed
    <3>2. cache[q][m] \in Ids /\ owner[cache[q][m]] = m
      BY <3>1 DEF Inv, OwnIds
    <3> QED
      BY <3>1, <3>2, <1>3, <1>5, NamespaceAssumption
  <2> QED
    BY <2>1, <2>2
<1>8. \A m \in Names, j \in Ids : reverse'[j].name = m => owner'[j] = m
  BY <1>1, <1>2, <1>5 DEF Typed, Inv, OwnIds
<1>9. Fresh'
  <2> SUFFICES ASSUME NEW j \in Ids, j > i
               PROVE  owner'[j] = NoName
    BY <1>2 DEF Fresh
  <2> QED
    BY <1>1, <1>5 DEF Inv, Fresh, Ids, Typed
<1>10. \A q \in Repos : Named(q)'
  <2> SUFFICES ASSUME NEW q \in Repos, Rebinds(q)'
               PROVE  owner'[call'[q].id] = call'[q].name
    BY DEF Named
  <2>1. q # r /\ pc'[q] = pc[q] /\ call'[q] = call[q]
    BY <1>1, <1>2, TypeResolves DEF PCs, Rebinds
  <2>2. owner[call[q].id] = call[q].name /\ call[q].id \in Ids /\ call[q].name \in Names
    BY <2>1, TypedIs DEF Inv, Named, Rebinds, Knows
  <2> QED
    BY <2>1, <2>2, <1>3, <1>5, NamespaceAssumption
<1> QED
  BY <1>6, <1>7, <1>8, <1>9, <1>10 DEF Inv, OwnIds

(* A user's step binds no id to another name.                                *)
LEMMA OwnUser ==
  ASSUME Inv, TypeOK', NEW r \in Repos, User(r)
  PROVE  Inv'
<1>1. Typed /\ Knows(r) /\ CallStep(r)
  BY TypedIs, TypeUser DEF Inv
<1> USE DEF registry, faults
<1>2. ASSUME UNCHANGED <<forward, reverse, issued, owner>>, Named(r)',
             \A q \in Repos, n \in Names : cache'[q][n] = cache[q][n] \/ cache'[q][n] \in IdsOf(n)
      PROVE  Inv'
  BY <1>1, <1>2, NamedOthers, OwnStep
<1>3. ASSUME NEW n \in Names, Open(r, n)
      PROVE  Inv'
  <2>1. pc'[r] \in {"idle", "registering"} /\ cache' = [cache EXCEPT ![r] = [Uncached EXCEPT ![n] = forward[n]]]
    BY <1>1, <1>3 DEF Open, Starts, Goto, Typed
  <2>2. \A q \in Repos, m \in Names : cache'[q][m] = cache[q][m] \/ cache'[q][m] \in IdsOf(m)
    BY <1>1, <2>1 DEF Typed, Uncached, IdsOf, Inv, OwnIds
  <2> QED
    BY <1>2, <1>3, <2>1, <2>2 DEF Open, Named, Rebinds
<1>4. ASSUME NEW n \in Names, Register(r, n)
      PROVE  Inv'
  <2>1. pc'[r] = "registering"
    BY <1>1, <1>4 DEF Register, Starts, Goto, Typed
  <2> QED
    BY <1>2, <1>4, <2>1 DEF Register, Named, Rebinds
<1>5. ASSUME NEW n \in Names, Scoped(r, n)
      PROVE  Inv'
  <2> DEFINE i == IF cache[r][n] # NoId THEN cache[r][n] ELSE forward[n]
  <2>1. i \in IdsOf(n) /\ cache' = [cache EXCEPT ![r][n] = i] /\ UNCHANGED <<pc, call, registry>>
    BY <1>1, <1>5 DEF Scoped, Typed, IdsOf, Inv, OwnIds
  <2>2. \A q \in Repos, m \in Names : cache'[q][m] = cache[q][m] \/ cache'[q][m] \in IdsOf(m)
    BY <1>1, <2>1 DEF Typed
  <2> QED
    BY <1>2, <2>1, <2>2 DEF Named, Rebinds, Inv
<1>7. CASE PutCanceled(r)
  <2>1. pc'[r] = "existing"
    BY <1>1, <1>7 DEF PutCanceled, Steps, Goto, Typed
  <2> QED
    BY <1>2, <1>7, <2>1 DEF PutCanceled, Named, Rebinds
<1>8. CASE ResolveExisting(r)
  <2> DEFINE n == call[r].name
             i == IF cache[r][n] # NoId THEN cache[r][n] ELSE forward[n]
  <2>1. n \in Names /\ i \in IdsOf(n)
    BY <1>1, <1>8 DEF ResolveExisting, Knows, Typed, IdsOf, Inv, OwnIds
  <2>2. CASE i # NoId
    <3>1. Resolves(r, "existing", i) /\ i \in Ids /\ owner[i] = n
      BY <1>8, <2>1, <2>2 DEF ResolveExisting, IdsOf
    <3> QED
      BY <1>8, <2>1, <3>1, ResolvesOwn DEF ResolveExisting, PCs
  <2>3. CASE i = NoId
    <3>1. Returns(r, "existing") /\ UNCHANGED cache
      BY <1>8, <2>3 DEF ResolveExisting
    <3>2. pc'[r] = "idle"
      BY <1>1, <3>1, ReturnsCall
    <3> QED
      BY <1>2, <1>8, <3>1, <3>2 DEF ResolveExisting, Named, Rebinds
  <2> QED
    BY <2>2, <2>3
<1> QED
  BY <1>3, <1>4, <1>5, <1>7, <1>8, RegistersOwn DEF User

(* What is stored is stored under an id that was issued.                      *)
LEMMA OwnStore ==
  ASSUME Inv, TypeOK', NEW i \in Ids, NEW x \in Items, Store(i, x)
  PROVE  Inv'
BY DEF Store, Inv, OwnIds, Fresh, Named, Rebinds, faults

(* Nor does an administrator's.                                              *)
LEMMA OwnAdmin ==
  ASSUME Inv, TypeOK', NEW r \in Repos, Admin(r)
  PROVE  Inv'
<1>1. Typed /\ Knows(r) /\ CallStep(r)
  BY TypedIs, TypeAdmin DEF Inv
<1> USE DEF registry, faults
<1>2. ASSUME UNCHANGED <<issued, owner>>, Named(r)',
             \A n \in Names : forward'[n] = forward[n] \/ forward'[n] \in IdsOf(n),
             \A q \in Repos, n \in Names : cache'[q][n] = cache[q][n] \/ cache'[q][n] \in IdsOf(n),
             \A i \in Ids : reverse'[i].name \in {reverse[i].name, NoName}
      PROVE  Inv'
  BY <1>1, <1>2, NamedOthers, OwnStep
<1>3. ASSUME UNCHANGED <<forward, reverse, issued, owner, cache>>, ~Rebinds(r)'
      PROVE  Inv'
  BY <1>2, <1>3 DEF Named
<1>4. ASSUME NEW n \in Names, BeginDelete(r, n)
      PROVE  Inv'
  <2>1. forward[n] \in Ids /\ owner[forward[n]] = n /\ Starts(r, "unbinding", n, forward[n])
    BY <1>1, <1>4 DEF BeginDelete, Typed, Inv, OwnIds
  <2>2. call'[r].id = forward[n] /\ call'[r].name = n
    BY <1>1, <2>1, StartsCall DEF PCs
  <2> QED
    BY <1>2, <1>4, <2>1, <2>2 DEF BeginDelete, Named
<1>5. CASE DeleteForward(r)
  <2>1. pc'[r] = "marking" /\ forward' = [forward EXCEPT ![call[r].name] = NoId]
    BY <1>1, <1>5 DEF DeleteForward, Steps, Goto, Typed
  <2>2. \A n \in Names : forward'[n] = forward[n] \/ forward'[n] \in IdsOf(n)
    BY <1>1, <2>1 DEF Typed, IdsOf
  <2> QED
    BY <1>2, <1>5, <2>1, <2>2 DEF DeleteForward, Steps, Named, Rebinds, Inv
<1>6. CASE MarkDeleted(r) \/ MarkActive(r)
  <2>1. pc'[r] = "idle" /\ call[r].id \in Ids /\ call[r].name \in Names
    BY <1>1, <1>6, ReturnsCall DEF MarkDeleted, MarkActive, Knows
  <2>2. \A i \in Ids : reverse'[i].name = reverse[i].name
    BY <1>1, <1>6, <2>1, StatusTyped DEF MarkDeleted, MarkActive, Statuses
  <2>3. MarkActive(r) => owner[call[r].id] = call[r].name
    BY DEF MarkActive, Returns, Steps, Inv, Named, Rebinds
  <2>4. PICK i \in IdsOf(call[r].name) : cache' = [cache EXCEPT ![r][call[r].name] = i]
    BY <1>6, <2>1, <2>3 DEF MarkDeleted, MarkActive, IdsOf
  <2>5. \A q \in Repos, n \in Names : cache'[q][n] = cache[q][n] \/ cache'[q][n] \in IdsOf(n)
    BY <1>1, <2>4 DEF Typed
  <2> QED
    BY <1>2, <1>6, <2>1, <2>2, <2>5 DEF MarkDeleted, MarkActive, Named, Rebinds
<1>7. ASSUME NEW i \in Ids, BeginRecover(r, i)
      PROVE  Inv'
  <2>1. reverse[i].name \in Names /\ Starts(r, "rebinding", reverse[i].name, i)
    BY <1>1, <1>7 DEF BeginRecover, Typed
  <2>2. call'[r].id = i /\ call'[r].name = reverse[i].name
    BY <1>1, <2>1, StartsCall DEF PCs
  <2>3. owner[i] = reverse[i].name
    BY <2>1 DEF Inv, OwnIds
  <2> QED
    BY <1>2, <1>7, <2>2, <2>3 DEF BeginRecover, Named
<1>8. ASSUME NEW i \in Ids, BeginPurge(r, i)
      PROVE  Inv'
  <2>1. pc'[r] \in {"listing", "condemning"}
    BY <1>1, <1>8 DEF BeginPurge, Starts, Goto, Typed
  <2> QED
    BY <1>3, <1>8, <2>1 DEF BeginPurge, Rebinds
<1>9. CASE PutForward(r)
  <2>1. call[r].id \in Ids /\ call[r].name \in Names /\ owner[call[r].id] = call[r].name
    BY <1>1, <1>9 DEF PutForward, Knows, Inv, Named, Rebinds
  <2>2. \A n \in Names : forward'[n] = forward[n] \/ forward'[n] \in IdsOf(n)
    BY <1>1, <1>9, <2>1 DEF PutForward, IdsOf, Typed
  <2>3. CASE UNCHANGED call
    BY <1>2, <1>9, <2>1, <2>2, <2>3 DEF PutForward, Named
  <2>4. CASE Returns(r, "rebinding")
    <3>1. pc'[r] = "idle"
      BY <1>1, <2>4, ReturnsCall
    <3> QED
      BY <1>2, <1>9, <2>2, <3>1 DEF PutForward, Named, Rebinds
  <2> QED
    BY <1>9, <2>3, <2>4 DEF PutForward
<1>10. CASE MarkPurging(r)
  <2>1. pc'[r] = "listing" /\ call[r].id \in Ids
    BY <1>1, <1>10 DEF MarkPurging, Steps, Goto, Knows, Typed
  <2>2. \A i \in Ids : reverse'[i].name = reverse[i].name
    BY <1>1, <1>10, <2>1, StatusTyped DEF MarkPurging, Statuses
  <2> QED
    BY <1>2, <1>10, <2>1, <2>2 DEF MarkPurging, Named, Rebinds
<1>11. CASE ListItems(r)
  <2>1. pc'[r] = "erasing"
    BY <1>1, <1>11 DEF ListItems, Goto, Typed
  <2> QED
    BY <1>3, <1>11, <2>1 DEF ListItems, Rebinds
<1>12. CASE EraseItems(r)
  <2>1. pc'[r] = "erasing"
    BY <1>12 DEF EraseItems
  <2> QED
    BY <1>3, <1>12, <2>1 DEF EraseItems, Rebinds
<1>13. CASE DeleteReverse(r)
  <2>1. pc'[r] = "idle" /\ reverse' = [reverse EXCEPT ![call[r].id] = NoRecord]
    BY <1>1, <1>13, ReturnsCall DEF DeleteReverse
  <2>2. \A i \in Ids : reverse'[i].name \in {reverse[i].name, NoName}
    BY <1>1, <2>1 DEF Typed, NoRecord
  <2> QED
    BY <1>2, <1>13, <2>1, <2>2 DEF DeleteReverse, Named, Rebinds
<1> QED
  BY <1>4, <1>5, <1>6, <1>7, <1>8, <1>9, <1>10, <1>11, <1>12, <1>13 DEF Admin

(* Nor does a death.                                                         *)
LEMMA OwnDie ==
  ASSUME Inv, TypeOK', NEW r \in Repos, Die(r)
  PROVE  Inv'
<1>1. Typed /\ CallStep(r)
  BY TypedIs, TypeDie DEF Inv
<1>2. pc'[r] = "idle" /\ cache' = [cache EXCEPT ![r] = Uncached] /\ UNCHANGED registry
  BY <1>1 DEF Die, Goto, Typed
<1>3. \A q \in Repos, n \in Names : cache'[q][n] = cache[q][n] \/ cache'[q][n] \in IdsOf(n)
  BY <1>1, <1>2 DEF Typed, Uncached, IdsOf
<1>4. \A q \in Repos : Named(q)'
  BY <1>1, <1>2, NamedOthers DEF Named, Rebinds, registry
<1> QED
  BY <1>2, <1>3, <1>4, OwnStep DEF registry

(* Every action keeps the invariant.                                         *)
LEMMA InvStep == Inv /\ [Next]_vars => Inv'
<1> SUFFICES ASSUME Inv, [Next]_vars
             PROVE  Inv'
  OBVIOUS
<1>1. TypeOK'
  BY TypeStep DEF Inv
<1>2. CASE UNCHANGED vars
  BY <1>1, <1>2 DEF vars, Inv, OwnIds, Fresh, Named, Rebinds
<1>3. CASE Next
  BY <1>1, <1>3, OwnUser, OwnDie, OwnAdmin, OwnStore, NamespaceAssumption DEF Next
<1> QED
  BY <1>2, <1>3

(* The invariant is one.                                                     *)
LEMMA InvCorrect == Spec => []Inv
BY InvInit, InvStep, PTL DEF Spec

-------------------------------------------------------------------------------
(* Every variable keeps its type, and no call goes on without what it was to *)
(* read first: TypeOK of the run "namespaces".                               *)
THEOREM TypeCorrect == Spec => []TypeOK
<1>1. Inv => TypeOK
  BY DEF Inv
<1> QED
  BY <1>1, InvCorrect, PTL

(* Tenants are kept apart: what is bound, cached or recovered under a name is *)
(* an id that was issued for it, whoever registers, deletes, recovers and    *)
(* purges at once, and whoever dies: OwnIds of the run "namespaces".         *)
THEOREM TenantsKeptApart == Spec => []OwnIds
<1>1. Inv => OwnIds
  BY DEF Inv
<1> QED
  BY <1>1, InvCorrect, PTL

(* No two names are ever bound to one id: the data of two tenants is never    *)
(* stored under one key.                                                     *)
THEOREM OneNamePerId ==
  Spec => [](\A i \in Ids, m, n \in Names : forward[m] = i /\ forward[n] = i => m = n)
<1>1. Inv => \A i \in Ids, m, n \in Names : forward[m] = i /\ forward[n] = i => m = n
  BY DEF Inv, OwnIds, Ids, NoId
<1> QED
  BY <1>1, InvCorrect, PTL

-------------------------------------------------------------------------------
(* A name nobody contends for: its records agree                             *)

(* An id of such a name, as long as no deletion or recovery died between its  *)
(* two writes.                                                               *)
Quiet(i) == ~broken /\ owner[i] \notin contested

(* An administrator's call is between its two writes to this id's records.   *)
Marks(i) == \E a \in Admins : pc[a] = "marking" /\ call[a].id = i
Activates(i) == \E a \in Admins : pc[a] = "activating" /\ call[a].id = i

UserPCs == {"idle", "registering", "existing"}

(* What an administrator is at was issued.                                   *)
Aims(a) == pc[a] \notin UserPCs => call[a].id <= issued

(* What an administrator has read is still so, or was advanced by another     *)
(* purge.                                                                    *)
Holds(a) ==
  LET i == call[a].id  status == reverse[i].status
  IN  pc[a] \notin UserPCs /\ Quiet(i) =>
      /\ pc[a] \in {"unbinding", "marking"} => status = "active"
      /\ pc[a] = "unbinding" => forward[call[a].name] = i
      /\ pc[a] \in {"rebinding", "activating"} => status = "deleted"
      /\ pc[a] = "condemning" => status \in {"deleted", "purging", "none"}
      /\ pc[a] \in {"listing", "erasing"} => status \in {"purging", "none"}

(* Nobody else deletes or recovers the name, or begins to purge the id, that  *)
(* a deletes or recovers.                                                    *)
Sole(a, b) ==
  a # b /\ Rebinds(a) /\ Quiet(call[a].id) =>
    ~Condemns(b, call[a].id) /\ (Rebinds(b) => owner[call[b].id] # owner[call[a].id])

(* A namespace is bound exactly if it is active, except between the two       *)
(* writes of a deletion, when it is still active, and of a recovery, when it *)
(* is bound already.                                                         *)
Agrees(i) == Quiet(i) => (Bound(i) <=> (reverse[i].status = "active" /\ ~Marks(i)) \/ Activates(i))

Unissued == \A i \in Ids : i > issued => reverse[i].status = "none"

AgreeInv ==
  /\ Unissued
  /\ \A a \in Admins : Aims(a) /\ Holds(a)
  /\ \A a, b \in Admins : Sole(a, b)
  /\ \A i \in Ids : Agrees(i)

(* The records agree at the start.                                           *)
LEMMA AgreeInit == Init => AgreeInv
<1> SUFFICES ASSUME Init
             PROVE  AgreeInv
  OBVIOUS
<1>1. \A r \in Repos : pc[r] = "idle"
  BY DEF Init
<1>2. \A i \in Ids : reverse[i].status = "none" /\ owner[i] = NoName
  BY DEF Init, NoRecord
<1>3. \A a \in Admins : pc[a] = "idle"
  BY <1>1, NamespaceAssumption
<1>4. \A a \in Admins : Aims(a) /\ Holds(a)
  BY <1>3 DEF Aims, Holds, UserPCs
<1>5. \A a, b \in Admins : Sole(a, b)
  BY <1>3 DEF Sole, Rebinds
<1>6. \A i \in Ids : Agrees(i)
  BY <1>2, <1>3 DEF Agrees, Bound, Activates
<1> QED
  BY <1>2, <1>4, <1>5, <1>6 DEF AgreeInv, Unissued

(* A step that changes neither record and, of an administrator, at most a     *)
(* call that is not between two writes.                                      *)
LEMMA AgreeKept ==
  ASSUME Inv, AgreeInv, UNCHANGED <<forward, reverse, issued, owner, contested>>, broken => broken',
         \A a \in Admins :
            \/ pc'[a] = pc[a] /\ call'[a] = call[a]
            \/ (~broken' => pc[a] \notin {"marking", "activating"}) /\ pc'[a] \in UserPCs
  PROVE  AgreeInv'
<1>1. \A i \in Ids \cup {NoId} : Quiet(i)' => Quiet(i)
  BY DEF Quiet
<1>2. \A a \in Admins : call[a].id \in Ids \cup {NoId} /\ Aims(a) /\ Holds(a)
  BY TypedIs, NamespaceAssumption DEF Inv, Typed, Calls, AgreeInv
<1>3. \A a \in Admins : Aims(a)' /\ Holds(a)'
  BY <1>1, <1>2 DEF Aims, Holds
<1>4. \A a, b \in Admins : Sole(a, b)'
  <2> SUFFICES ASSUME NEW a \in Admins, NEW b \in Admins, a # b, Rebinds(a)', Quiet(call[a].id)'
               PROVE  ~Condemns(b, call[a].id)' /\ (Rebinds(b)' => owner'[call'[b].id] # owner'[call'[a].id])
                      /\ call'[a] = call[a]
    BY DEF Sole, Condemns
  <2>1. pc'[a] = pc[a] /\ call'[a] = call[a]
    BY DEF Rebinds, UserPCs
  <2>2. Sole(a, b) /\ Rebinds(a) /\ Quiet(call[a].id)
    BY <1>1, <1>2, <2>1 DEF AgreeInv, Rebinds
  <2> QED
    BY <2>1, <2>2 DEF Sole, Condemns, Rebinds, UserPCs
<1>5. ASSUME NEW i \in Ids, ~broken'
      PROVE  (Marks(i)' <=> Marks(i)) /\ (Activates(i)' <=> Activates(i)) /\ (Bound(i)' <=> Bound(i))
  BY <1>5 DEF Marks, Activates, Bound, UserPCs
<1>6. \A i \in Ids : Agrees(i)'
  BY <1>1, <1>5 DEF AgreeInv, Agrees, Quiet
<1> QED
  BY <1>3, <1>4, <1>6 DEF AgreeInv, Unissued

(* A step of r leaves the others what they have read.                        *)
LEMMA HoldsOthers ==
  ASSUME Inv, AgreeInv, NEW r \in Repos, CallStep(r), r \in Admins \/ pc[r] \in UserPCs,
         \A i \in 1..issued : owner'[i] = owner[i], contested \subseteq contested', broken => broken',
         \A n \in Names : \/ forward'[n] = forward[n] \/ forward[n] = NoId
                          \/ Rebinds(r) /\ n = owner[call[r].id],
         \A i \in Ids : \/ reverse'[i].status = reverse[i].status \/ i > issued
                        \/ i = call[r].id /\ pc[r] \in {"marking", "activating"}
                        \/ i = call[r].id /\ pc[r] = "condemning" /\ reverse'[i].status = "purging"
                        \/ i = call[r].id /\ pc[r] = "erasing" /\ reverse'[i].status = "none"
  PROVE  \A a \in Admins \ {r} : Holds(a)'
<1> SUFFICES ASSUME NEW a \in Admins \ {r}, pc[a] \notin UserPCs, Quiet(call[a].id)'
             PROVE  Holds(a)'
  BY NamespaceAssumption DEF Holds, CallStep
<1> DEFINE i == call[a].id
<1>1. pc'[a] = pc[a] /\ call'[a] = call[a] /\ a \in Repos
  BY NamespaceAssumption DEF CallStep
<1>2. Typed /\ Knows(a) /\ pc[a] \in PCs /\ Named(a)
  BY <1>1, TypedIs DEF Inv, Typed
<1>3. i \in Ids /\ ~(i > issued) /\ i \in 1..issued
  BY <1>2, NamespaceAssumption DEF Knows, PCs, UserPCs, AgreeInv, Aims, Ids, Typed
<1>4. Quiet(i)
  BY <1>1, <1>3 DEF Quiet
<1>5. Holds(a)
  BY DEF AgreeInv
<1>6. Rebinds(a) /\ r \in Admins => /\ ~Condemns(r, i)
                                    /\ Rebinds(r) => owner[call[r].id] # owner[i]
  BY <1>4 DEF AgreeInv, Sole
<1>7. CASE Rebinds(a)
  <2>1. reverse'[i].status = reverse[i].status
    <3>1. ~(i = call[r].id /\ pc[r] \in {"marking", "activating"})
      BY <1>6, <1>7 DEF Rebinds, UserPCs
    <3>2. ~(i = call[r].id /\ pc[r] = "condemning")
      BY <1>6, <1>7 DEF Condemns, UserPCs
    <3>3. ~(i = call[r].id /\ pc[r] = "erasing")
      <4> SUFFICES ASSUME i = call[r].id, pc[r] = "erasing"
                   PROVE  FALSE
        OBVIOUS
      <4>1. Holds(r)
        BY DEF AgreeInv, UserPCs
      <4>2. reverse[i].status \in {"purging", "none"}
        BY <1>4, <4>1 DEF Holds, UserPCs
      <4> QED
        BY <1>4, <1>5, <1>7, <4>2 DEF Holds, Rebinds
    <3> QED
      BY <1>3, <3>1, <3>2, <3>3
  <2>2. pc[a] = "unbinding" => forward'[call[a].name] = i
    <3> SUFFICES ASSUME pc[a] = "unbinding"
                 PROVE  forward'[call[a].name] = i
      OBVIOUS
    <3>1. forward[call[a].name] = i /\ call[a].name \in Names /\ owner[i] = call[a].name
      BY <1>2, <1>4, <1>5, <1>7 DEF Holds, Knows, Named
    <3>2. i # NoId
      BY <1>3 DEF Ids, NoId
    <3>3. ~(Rebinds(r) /\ call[a].name = owner[call[r].id])
      BY <1>6, <1>7, <3>1 DEF Rebinds, UserPCs
    <3> QED
      BY <3>1, <3>2, <3>3
  <2> QED
    BY <1>1, <1>4, <1>5, <1>7, <2>1, <2>2 DEF Holds, Rebinds
<1>8. CASE ~Rebinds(a)
  <2>1. pc[a] \in {"condemning", "listing", "erasing"}
    BY <1>2, <1>8 DEF PCs, UserPCs, Rebinds
  <2>2. ASSUME pc[r] \in {"marking", "activating"}, i = call[r].id
        PROVE  pc[a] # "condemning" /\ reverse[i].status \notin {"purging", "none"}
    <3>1. r \in Admins /\ Rebinds(r)
      BY <2>2 DEF Rebinds, UserPCs
    <3>2. Sole(r, a) /\ Holds(r)
      BY <3>1 DEF AgreeInv
    <3>3. ~Condemns(a, i)
      BY <1>4, <2>2, <3>1, <3>2 DEF Sole
    <3>4. reverse[i].status \in {"active", "deleted"}
      BY <1>4, <2>2, <3>2 DEF Holds, UserPCs
    <3> QED
      BY <3>3, <3>4 DEF Condemns
  <2>3. \/ reverse'[i].status = reverse[i].status
        \/ pc[r] \in {"marking", "activating"} /\ i = call[r].id
        \/ reverse'[i].status \in {"purging", "none"}
    BY <1>3
  <2>4. reverse[i].status \in {"deleted", "purging", "none"} /\ (pc[a] # "condemning" => reverse[i].status \in {"purging", "none"})
    BY <1>4, <1>5, <2>1 DEF Holds, UserPCs
  <2>5. reverse'[i].status = reverse[i].status \/ reverse'[i].status \in {"purging", "none"}
    BY <2>1, <2>2, <2>3, <2>4
  <2> QED
    BY <1>1, <2>1, <2>4, <2>5 DEF Holds
<1> QED
  BY <1>7, <1>8

(* A step of r that begins neither a deletion, a recovery nor a purge leaves  *)
(* everyone alone with what is his.                                          *)
LEMMA SoleKept ==
  ASSUME Inv, AgreeInv, NEW r \in Repos, CallStep(r),
         \A i \in 1..issued : owner'[i] = owner[i], contested \subseteq contested', broken => broken',
         Rebinds(r)' => Rebinds(r) /\ call'[r].id = call[r].id, pc'[r] # "condemning"
  PROVE  \A a, b \in Admins : Sole(a, b)'
<1> SUFFICES ASSUME NEW a \in Admins, NEW b \in Admins, a # b, Rebinds(a)', Quiet(call[a].id)'
             PROVE  ~Condemns(b, call[a].id)'
                    /\ (Rebinds(b)' => owner'[call'[b].id] # owner'[call'[a].id])
  BY DEF Sole, Condemns
<1>1. \A c \in Admins : c # r => pc'[c] = pc[c] /\ call'[c] = call[c]
  BY NamespaceAssumption DEF CallStep
<1>2. \A c \in Admins : Rebinds(c)' => Rebinds(c) /\ call'[c].id = call[c].id
  BY <1>1 DEF Rebinds
<1>3. \A c \in Admins : Rebinds(c) => call[c].id \in 1..issued
  BY TypedIs, NamespaceAssumption DEF Inv, Typed, Knows, AgreeInv, Aims, Rebinds, UserPCs, Ids
<1>4. Sole(a, b) /\ Rebinds(a) /\ call'[a].id = call[a].id /\ call[a].id \in 1..issued
  BY <1>2, <1>3 DEF AgreeInv
<1>5. Quiet(call[a].id)
  BY <1>4 DEF Quiet
<1>6. ~Condemns(b, call[a].id)'
  BY <1>1, <1>4, <1>5 DEF Sole, Condemns
<1>7. Rebinds(b)' => owner'[call'[b].id] # owner'[call'[a].id]
  BY <1>2, <1>3, <1>4, <1>5 DEF Sole
<1> QED
  BY <1>6, <1>7

(* An administrator's call has an id.                                        *)
LEMMA AimedIds == ASSUME Inv, NEW a \in Admins, pc[a] \notin UserPCs PROVE call[a].id \in Ids
<1>1. Knows(a) /\ pc[a] \in PCs
  BY TypedIs, NamespaceAssumption DEF Inv, Typed
<1> QED
  BY <1>1 DEF Knows, PCs, UserPCs

(* A registration binds an id of which there is no record yet.               *)
LEMMA AgreeRegisters ==
  ASSUME Inv, AgreeInv, NEW r \in Repos, PutBoth(r)
  PROVE  AgreeInv'
<1>1. Typed /\ Knows(r)
  BY TypedIs DEF Inv
<1>0. PICK i \in Ids, n \in Names : i = issued + 1 /\ n = call[r].name
  BY <1>1, NamespaceAssumption DEF PutBoth, Knows, Typed, Ids
<1>2. /\ i > issued
      /\ forward[n] = NoId
      /\ forward' = [forward EXCEPT ![n] = i]
      /\ reverse' = [reverse EXCEPT ![i] = [name |-> n, status |-> "active"]]
      /\ owner' = [owner EXCEPT ![i] = n]
      /\ issued' = i
      /\ Resolves(r, "registering", i)
      /\ UNCHANGED <<broken, contested>>
  BY <1>0, <1>1, NamespaceAssumption DEF PutBoth, Typed, Ids, faults
<1>3. CallStep(r) /\ pc[r] = "registering" /\ pc'[r] = "idle"
  BY <1>1, <1>2, ReturnsCall DEF Resolves
<1>4. issued \in Int /\ issued' > issued /\ \A j \in Ids : j \in Int
  BY <1>0, <1>1, <1>2 DEF Typed, Ids
<1>5. /\ reverse'[i].status = "active" /\ \A j \in Ids \ {i} : reverse'[j] = reverse[j]
      /\ owner'[i] = n /\ \A j \in Ids \ {i} : owner'[j] = owner[j]
      /\ forward'[n] = i /\ \A m \in Names \ {n} : forward'[m] = forward[m]
  BY <1>1, <1>2 DEF Typed
<1>6. \A j \in 1..issued : owner'[j] = owner[j]
  BY <1>1, <1>2 DEF Typed
<1>7. \A a \in Admins : Aims(a)' /\ Holds(a)'
  <2>1. \A a \in Admins : Aims(a)'
    <3> SUFFICES ASSUME NEW a \in Admins, pc'[a] \notin UserPCs
                 PROVE  call'[a].id <= issued'
      BY DEF Aims
    <3>1. pc'[a] = pc[a] /\ call'[a] = call[a]
      BY <1>3, NamespaceAssumption DEF CallStep, UserPCs
    <3>2. call[a].id \in Ids /\ call[a].id <= issued
      BY <3>1, AimedIds DEF AgreeInv, Aims
    <3> QED
      BY <1>4, <1>2, <3>1, <3>2 DEF Ids
  <2>2. \A m \in Names : forward'[m] = forward[m] \/ forward[m] = NoId
    BY <1>2, <1>5
  <2>3. \A j \in Ids : reverse'[j].status = reverse[j].status \/ j > issued
    BY <1>2, <1>5
  <2>4. \A a \in Admins \ {r} : Holds(a)'
    BY <1>2, <1>3, <1>6, <2>2, <2>3, HoldsOthers DEF UserPCs
  <2> QED
    BY <1>3, <2>1, <2>4 DEF Holds, UserPCs
<1>8. \A a, b \in Admins : Sole(a, b)'
  BY <1>2, <1>3, <1>6, SoleKept DEF Rebinds
<1>9. \A a \in Admins : pc[a] \in PCs \ UserPCs => call[a].id \in Ids \ {i}
  BY <1>2, <1>4, AimedIds DEF AgreeInv, Aims
<1>10. \A j \in Ids : (Marks(j)' <=> Marks(j)) /\ (Activates(j)' <=> Activates(j))
  BY <1>3, NamespaceAssumption DEF Marks, Activates, CallStep
<1>11. ~Marks(i) /\ ~Activates(i)
  BY <1>9 DEF Marks, Activates, UserPCs, PCs
<1>12. ASSUME NEW j \in Ids \ {i}
       PROVE  Bound(j)' <=> Bound(j)
  <2>1. owner'[j] = owner[j] /\ owner[j] \in Names \cup {NoName} /\ j # NoId
    BY <1>1, <1>5 DEF Typed, Ids, NoId
  <2>2. CASE owner[j] = n
    BY <1>2, <1>5, <2>1, <2>2 DEF Bound
  <2>3. CASE owner[j] # n
    BY <1>5, <2>1, <2>3 DEF Bound
  <2> QED
    BY <2>2, <2>3
<1>13. Bound(i)'
  BY <1>2, <1>5, NamespaceAssumption DEF Bound
<1>14. ASSUME NEW j \in Ids
       PROVE  Agrees(j)'
  <2>1. CASE j = i
    BY <1>5, <1>10, <1>11, <1>13, <2>1 DEF Agrees
  <2>2. CASE j # i
    <3>1. owner'[j] = owner[j] /\ reverse'[j] = reverse[j] /\ Agrees(j)
      BY <1>5, <2>2 DEF AgreeInv
    <3> QED
      BY <1>2, <1>10, <1>12, <2>2, <3>1 DEF Agrees, Quiet
  <2> QED
    BY <2>1, <2>2
<1>15. Unissued'
  <2>1. \A j \in Ids : j > i => j > issued /\ j # i
    BY <1>0, <1>1, NamespaceAssumption DEF Typed, Ids
  <2> QED
    BY <1>2, <1>5, <2>1 DEF AgreeInv, Unissued
<1> QED
  BY <1>7, <1>8, <1>14, <1>15 DEF AgreeInv

(* A user's step keeps the agreement.                                        *)
LEMMA AgreeUser ==
  ASSUME Inv, AgreeInv, NEW r \in Repos, User(r)
  PROVE  AgreeInv'
<1>1. Typed /\ Knows(r) /\ CallStep(r)
  BY TypedIs, TypeUser DEF Inv
<1> USE DEF registry, faults
<1>2. ASSUME UNCHANGED <<forward, reverse, issued, owner, broken, contested>>, pc[r] \in UserPCs, pc'[r] \in UserPCs
      PROVE  AgreeInv'
  <2>1. \A a \in Admins : \/ pc'[a] = pc[a] /\ call'[a] = call[a]
                          \/ pc[a] \notin {"marking", "activating"} /\ pc'[a] \in UserPCs
    BY <1>1, <1>2, NamespaceAssumption DEF CallStep, UserPCs
  <2> QED
    BY <1>2, <2>1, AgreeKept
<1>3. ASSUME NEW n \in Names, Open(r, n) \/ Register(r, n) \/ Scoped(r, n)
      PROVE  AgreeInv'
  <2>1. pc[r] \in UserPCs /\ pc'[r] \in UserPCs
    BY <1>1, <1>3 DEF Open, Register, Scoped, Starts, Goto, UserPCs, Typed
  <2> QED
    BY <1>2, <1>3, <2>1 DEF Open, Register, Scoped
<1>4. CASE PutCanceled(r)
  <2>1. pc[r] \in UserPCs /\ pc'[r] \in UserPCs
    BY <1>1, <1>4 DEF PutCanceled, Steps, Goto, UserPCs, Typed
  <2> QED
    BY <1>2, <1>4, <2>1 DEF PutCanceled
<1>5. CASE ResolveExisting(r)
  <2>1. pc[r] \in UserPCs /\ pc'[r] \in UserPCs
    BY <1>1, <1>5, ReturnsCall DEF ResolveExisting, Resolves, UserPCs
  <2> QED
    BY <1>2, <1>5, <2>1 DEF ResolveExisting
<1> QED
  BY <1>3, <1>4, <1>5, AgreeRegisters DEF User

(* An item is stored.                                                        *)
LEMMA AgreeStore ==
  ASSUME Inv, AgreeInv, NEW i \in Ids, NEW x \in Items, Store(i, x)
  PROVE  AgreeInv'
BY AgreeKept DEF Store, faults

(* A death between two writes is remembered as broken.                       *)
LEMMA AgreeDie ==
  ASSUME Inv, AgreeInv, NEW r \in Repos, Die(r)
  PROVE  AgreeInv'
<1>1. /\ pc' = [pc EXCEPT ![r] = "idle"] /\ call' = [call EXCEPT ![r] = NoCall]
      /\ UNCHANGED <<forward, reverse, issued, owner, contested>>
      /\ broken' = (broken \/ pc[r] \in {"marking", "activating"})
  BY DEF Die, Goto, registry
<1>2. Typed
  BY TypedIs DEF Inv
<1>3. \A a \in Admins \ {r} : pc'[a] = pc[a] /\ call'[a] = call[a]
  BY <1>1, <1>2, NamespaceAssumption DEF Typed
<1>4. pc'[r] = "idle"
  BY <1>1, <1>2 DEF Typed
<1> QED
  BY <1>1, <1>3, <1>4, AgreeKept DEF UserPCs

(* An administrator begins, and remembers whom he contends with.             *)
LEMMA AgreeBegins ==
  ASSUME Inv, AgreeInv, NEW a \in Admins, NEW i \in Ids, NEW n \in Names \cup {NoName}, NEW amid,
         NEW l \in {"unbinding", "rebinding", "condemning", "listing"}, Starts(a, l, n, i),
         i <= issued, Contends(i, amid), UNCHANGED <<forward, reverse, issued, owner>>, CallStep(a),
         l \in {"unbinding", "rebinding"} /\ RebindsAmid(a, i) => amid,
         l = "condemning" /\ PurgesAmid(a, i) => amid,
         Quiet(i)' => /\ l = "unbinding" => reverse[i].status = "active" /\ forward[n] = i
                      /\ l \in {"rebinding", "condemning"} => reverse[i].status = "deleted"
                      /\ l = "listing" => reverse[i].status = "purging"
  PROVE  AgreeInv'
<1>1. Typed /\ a \in Repos
  BY TypedIs, NamespaceAssumption DEF Inv
<1>2. pc[a] = "idle" /\ pc'[a] = l /\ call'[a].id = i /\ call'[a].name = n
  BY <1>1 DEF Starts, Goto, Typed, Calls
<1>3. UNCHANGED broken /\ contested \subseteq contested' /\ (amid => owner[i] \in contested')
  BY <1>1, ContendsTyped
<1>4. \A b \in Admins \ {a} : pc'[b] = pc[b] /\ call'[b] = call[b]
  BY NamespaceAssumption DEF CallStep
<1>5. \A j \in Ids : Quiet(j)' => Quiet(j)
  BY <1>3 DEF Quiet
<1>6. \A b \in Admins : Aims(b)' /\ Holds(b)'
  <2>1. Aims(a)' /\ Holds(a)'
    BY <1>2, <1>5 DEF Aims, Holds
  <2>2. ASSUME NEW b \in Admins \ {a}
        PROVE  Aims(b)' /\ Holds(b)'
    <3>1. Aims(b) /\ Holds(b) /\ pc'[b] = pc[b] /\ call'[b] = call[b]
      BY <1>4 DEF AgreeInv
    <3>2. pc[b] \notin UserPCs => (Quiet(call[b].id)' => Quiet(call[b].id))
      BY <1>5, <3>1, AimedIds DEF Quiet
    <3> QED
      BY <3>1, <3>2 DEF Aims, Holds
  <2> QED
    BY <2>1, <2>2
<1>7. ASSUME NEW b \in Admins, NEW c \in Admins
      PROVE  Sole(b, c)'
  <2> SUFFICES ASSUME b # c, Rebinds(b)', Quiet(call[b].id)'
               PROVE  ~Condemns(c, call[b].id)'
                      /\ (Rebinds(c)' => owner[call'[c].id] # owner[call'[b].id])
    BY DEF Sole, Condemns
  <2>1. CASE b # a /\ c # a
    <3>1. Rebinds(b) /\ pc'[b] = pc[b] /\ call'[b] = call[b] /\ pc'[c] = pc[c] /\ call'[c] = call[c]
      BY <1>4, <2>1 DEF Rebinds
    <3>2. Quiet(call[b].id) /\ Sole(b, c)
      BY <1>5, <3>1, AimedIds DEF Rebinds, UserPCs, Quiet, AgreeInv
    <3> QED
      BY <3>1, <3>2 DEF Sole, Condemns, Rebinds
  <2>2. CASE b = a
    <3>1. l \in {"unbinding", "rebinding"} /\ owner[i] \notin contested'
      BY <1>2, <2>2 DEF Rebinds, Quiet
    <3>2. ~((Rebinds(c) /\ owner[call[c].id] = owner[i]) \/ Condemns(c, i))
      BY <1>3, <2>2, <3>1 DEF RebindsAmid
    <3> QED
      BY <1>2, <1>4, <2>2, <3>2 DEF Condemns, Rebinds
  <2>3. CASE b # a /\ c = a
    <3>1. Rebinds(b) /\ pc'[b] = pc[b] /\ call'[b] = call[b] /\ owner[call[b].id] \notin contested'
      BY <1>4, <2>3 DEF Rebinds, Quiet
    <3>2. l \in {"unbinding", "rebinding"} => owner[i] # owner[call[b].id]
      BY <1>3, <2>3, <3>1 DEF RebindsAmid
    <3>3. l = "condemning" => i # call[b].id
      BY <1>3, <2>3, <3>1 DEF PurgesAmid
    <3> QED
      BY <1>2, <2>3, <3>1, <3>2, <3>3 DEF Condemns, Rebinds
  <2> QED
    BY <2>1, <2>2, <2>3
<1>8. ASSUME NEW j \in Ids
      PROVE  Agrees(j)'
  <2>1. (Marks(j)' <=> Marks(j)) /\ (Activates(j)' <=> Activates(j))
    BY <1>2, <1>4 DEF Marks, Activates
  <2> QED
    BY <1>5, <2>1 DEF AgreeInv, Agrees, Bound
<1> QED
  BY <1>6, <1>7, <1>8 DEF AgreeInv, Unissued

(* An administrator goes on, or returns: what is left to show is of his name. *)
LEMMA AgreeGoesOn ==
  ASSUME Inv, AgreeInv, NEW a \in Admins, NEW j \in Ids, j = call[a].id, CallStep(a),
         pc[a] \notin UserPCs, UNCHANGED <<owner, issued, broken, contested>>,
         pc'[a] # "idle" => call'[a].id = j, Rebinds(a)' => Rebinds(a) /\ pc'[a] # "idle",
         pc'[a] # "condemning",
         \A n \in Names \ {owner[j]} : forward'[n] = forward[n], ~Rebinds(a) => UNCHANGED forward,
         \A i \in Ids \ {j} : reverse'[i] = reverse[i],
         \/ reverse'[j].status = reverse[j].status \/ pc[a] \in {"marking", "activating"}
         \/ pc[a] = "condemning" /\ reverse'[j].status = "purging"
         \/ pc[a] = "erasing" /\ reverse'[j].status = "none",
         Quiet(j) => Holds(a)' /\ \A i \in Ids : owner[i] = owner[j] => Agrees(i)',
         pc'[a] \in PCs \ {"registering", "existing"}
  PROVE  AgreeInv'
<1>1. Typed /\ a \in Repos /\ j <= issued
  BY TypedIs, NamespaceAssumption DEF Inv, AgreeInv, Aims
<1>2. Unissued'
  <2>1. \A i \in Ids : i > issued => i # j
    BY <1>1, NamespaceAssumption DEF Typed, Ids
  <2> QED
    BY <2>1 DEF AgreeInv, Unissued
<1>3. \A b \in Admins : Aims(b)'
  BY <1>1, NamespaceAssumption DEF AgreeInv, Aims, CallStep, UserPCs
<1>4. \A b \in Admins \ {a} : Holds(b)'
  <2>1. \A n \in Names : forward'[n] = forward[n] \/ (Rebinds(a) /\ n = owner[j])
    OBVIOUS
  <2>2. \A i \in Ids : \/ reverse'[i].status = reverse[i].status
                       \/ i = j /\ pc[a] \in {"marking", "activating"}
                       \/ i = j /\ pc[a] = "condemning" /\ reverse'[i].status = "purging"
                       \/ i = j /\ pc[a] = "erasing" /\ reverse'[i].status = "none"
    OBVIOUS
  <2> QED
    BY <1>1, <2>1, <2>2, HoldsOthers
<1>5. Holds(a)'
  <2>1. CASE pc'[a] = "idle"
    BY <2>1 DEF Holds, UserPCs
  <2>2. CASE pc'[a] # "idle"
    BY <2>2 DEF Holds, Quiet
  <2> QED
    BY <2>1, <2>2
<1>6. \A b, c \in Admins : Sole(b, c)'
  BY <1>1, SoleKept
<1>7. ASSUME NEW i \in Ids
      PROVE  Agrees(i)'
  <2>1. CASE owner[i] = owner[j]
    BY <2>1 DEF Quiet, Agrees
  <2>2. CASE owner[i] # owner[j]
    <3>1. reverse'[i] = reverse[i]
      BY <2>2
    <3>2. Bound(i)' <=> Bound(i)
      BY <1>1, <2>2 DEF Bound, Typed
    <3>3. (Marks(i)' <=> Marks(i)) /\ (Activates(i)' <=> Activates(i))
      BY <1>1, <2>2, NamespaceAssumption DEF Marks, Activates, CallStep, Rebinds
    <3> QED
      BY <3>1, <3>2, <3>3 DEF AgreeInv, Agrees, Quiet
  <2> QED
    BY <2>1, <2>2
<1> QED
  BY <1>2, <1>3, <1>4, <1>5, <1>6, <1>7 DEF AgreeInv

(* Of a name nobody contends for, the one who deletes or recovers it is alone. *)
LEMMA AloneMeans ==
  ASSUME Inv, AgreeInv, NEW a \in Admins, CallStep(a), Rebinds(a), UNCHANGED owner,
         Quiet(call[a].id), NEW i \in Ids, owner[i] = owner[call[a].id]
  PROVE  /\ Marks(i) <=> pc[a] = "marking" /\ call[a].id = i
         /\ Activates(i) <=> pc[a] = "activating" /\ call[a].id = i
         /\ Marks(i)' <=> pc'[a] = "marking" /\ call'[a].id = i
         /\ Activates(i)' <=> pc'[a] = "activating" /\ call'[a].id = i
<1>1. ASSUME NEW b \in Admins \ {a}, pc[b] \in {"marking", "activating"}
      PROVE  call[b].id # i
  BY <1>1 DEF AgreeInv, Sole, Rebinds
<1>2. \A b \in Admins \ {a} : pc'[b] = pc[b] /\ call'[b] = call[b]
  BY NamespaceAssumption DEF CallStep
<1> QED
  BY <1>1, <1>2 DEF Marks, Activates

(* An administrator finishes what it has begun.                              *)
LEMMA AgreeAdmin ==
  ASSUME Inv, AgreeInv, NEW a \in Admins, Admin(a)
  PROVE  AgreeInv'
<1>1. Typed /\ Knows(a) /\ CallStep(a) /\ a \in Repos /\ Named(a) /\ Holds(a)
  BY TypedIs, TypeAdmin, NamespaceAssumption DEF Inv, AgreeInv
<1> USE DEF registry, faults
<1>2. \A i \in Ids : reverse[i].status # "none" \/ owner[i] \in Names => i <= issued
  BY <1>1, NamespaceAssumption DEF AgreeInv, Unissued, Inv, Fresh, Typed, Ids
<1>3. \A i \in Ids : owner[i] \in Names \cup {NoName} /\ i # NoId
  BY <1>1 DEF Typed, Ids, NoId
<1>4. ASSUME NEW n \in Names, BeginDelete(a, n)
      PROVE  AgreeInv'
  <2>1. PICK i \in Ids : i = forward[n] /\ Starts(a, "unbinding", n, i) /\ Contends(i, RebindsAmid(a, i))
    BY <1>1, <1>4 DEF BeginDelete, Typed
  <2>2. owner[i] = n /\ Bound(i) /\ i <= issued
    BY <1>2, <1>3, <1>4, <2>1, NamespaceAssumption DEF BeginDelete, Bound, Inv, OwnIds
  <2>3. Quiet(i)' => reverse[i].status = "active"
    <3> SUFFICES ASSUME Quiet(i)', reverse[i].status # "active"
                 PROVE  FALSE
      OBVIOUS
    <3>1. Quiet(i) /\ ~RebindsAmid(a, i)
      BY <1>1, <1>4, <2>1, ContendsTyped DEF Quiet, BeginDelete
    <3>2. PICK b \in Admins : pc[b] = "activating" /\ call[b].id = i
      BY <2>2, <3>1 DEF AgreeInv, Agrees, Activates
    <3>3. b # a
      BY <2>1, <3>2 DEF Starts
    <3> QED
      BY <3>1, <3>2, <3>3 DEF RebindsAmid, Rebinds
  <2> QED
    BY <1>1, <1>4, <2>1, <2>2, <2>3, AgreeBegins DEF BeginDelete
<1>5. CASE DeleteForward(a)
  <2>1. PICK j \in Ids : j = call[a].id
    BY <1>5, <1>1 DEF DeleteForward, Steps, Knows
  <2>2. /\ pc[a] = "unbinding" /\ pc'[a] = "marking" /\ call' = call
        /\ forward' = [forward EXCEPT ![call[a].name] = NoId]
        /\ call[a].name \in Names /\ owner[j] = call[a].name
        /\ UNCHANGED <<reverse, issued, owner, broken, contested>>
    BY <1>1, <1>5, <2>1 DEF DeleteForward, Steps, Goto, Typed, Knows, Named, Rebinds
  <2>3. ASSUME Quiet(j)
        PROVE  Holds(a)' /\ \A i \in Ids : owner[i] = owner[j] => Agrees(i)'
    <3>1. reverse[j].status = "active" /\ forward[call[a].name] = j
      BY <1>1, <2>1, <2>2, <2>3 DEF Holds, UserPCs
    <3>2. ASSUME NEW i \in Ids, owner[i] = owner[j]
          PROVE  Agrees(i)'
      <4>1. (Bound(i) <=> i = j) /\ ~Bound(i)'
        BY <1>1, <1>3, <2>2, <3>1, <3>2, NamespaceAssumption DEF Bound, Typed
      <4>2. ~Activates(i)' /\ ~Activates(i) /\ ~Marks(i) /\ (Marks(i)' <=> i = j)
        BY <1>1, <2>1, <2>2, <2>3, <3>2, AloneMeans DEF Rebinds
      <4>3. Agrees(i) /\ Quiet(i)
        BY <2>3, <3>2 DEF AgreeInv, Quiet
      <4> QED
        BY <2>2, <4>1, <4>2, <4>3 DEF Agrees
    <3> QED
      BY <2>1, <2>2, <3>1, <3>2 DEF Holds
  <2> QED
    BY <1>1, <2>1, <2>2, <2>3, AgreeGoesOn DEF UserPCs, PCs, Rebinds, Typed
<1>6. CASE MarkDeleted(a)
  <2>1. PICK j \in Ids : j = call[a].id
    BY <1>6, <1>1 DEF MarkDeleted, Returns, Steps, Knows
  <2>2. /\ pc[a] = "marking" /\ pc'[a] = "idle"
        /\ reverse' = [reverse EXCEPT ![j].status = "deleted"]
        /\ UNCHANGED <<forward, owner, issued, broken, contested>>
    BY <1>1, <1>6, <2>1, ReturnsCall DEF MarkDeleted, SetStatus
  <2>3. reverse'[j].status = "deleted" /\ \A i \in Ids \ {j} : reverse'[i] = reverse[i]
    BY <1>1, <2>2 DEF Typed
  <2>4. ASSUME Quiet(j), NEW i \in Ids, owner[i] = owner[j]
        PROVE  Agrees(i)'
    <3>1. ~Activates(i)' /\ ~Activates(i) /\ (Marks(i) <=> i = j) /\ ~Marks(i)'
      BY <1>1, <2>1, <2>2, <2>4, AloneMeans DEF Rebinds
    <3>2. Agrees(i) /\ Quiet(i) /\ (Bound(i)' <=> Bound(i))
      BY <2>2, <2>4 DEF AgreeInv, Quiet, Bound
    <3> QED
      BY <2>3, <3>1, <3>2 DEF Agrees
  <2>5. Holds(a)'
    BY <2>2 DEF Holds, UserPCs
  <2> QED
    BY <1>1, <2>1, <2>2, <2>3, <2>4, <2>5, AgreeGoesOn DEF UserPCs, PCs, Rebinds
<1>7. ASSUME NEW i \in Ids, BeginRecover(a, i)
      PROVE  AgreeInv'
  <2>1. reverse[i].name \in Names /\ reverse[i].status = "deleted" /\ Starts(a, "rebinding", reverse[i].name, i)
        /\ i <= issued
    BY <1>1, <1>2, <1>7 DEF BeginRecover, Typed
  <2> QED
    BY <1>1, <1>7, <2>1, AgreeBegins DEF BeginRecover
<1>8. ASSUME NEW i \in Ids, BeginPurge(a, i)
      PROVE  AgreeInv'
  <2>1. PICK l \in {"listing", "condemning"} :
          /\ Starts(a, l, NoName, i)
          /\ reverse[i].status = IF l = "listing" THEN "purging" ELSE "deleted"
    BY <1>8 DEF BeginPurge
  <2>2. i <= issued
    BY <1>2, <2>1
  <2> QED
    BY <1>1, <1>8, <2>1, <2>2, AgreeBegins DEF BeginPurge
<1>9. CASE PutForward(a)
  <2> DEFINE n == call[a].name
  <2>1. PICK j \in Ids : j = call[a].id
    BY <1>9, <1>1 DEF PutForward, Knows
  <2>2. pc[a] = "rebinding" /\ n \in Names /\ owner[j] = n /\ UNCHANGED <<reverse, issued, owner, broken, contested>>
    BY <1>1, <1>9, <2>1 DEF PutForward, Knows, Named, Rebinds
  <2>3. CASE forward[n] # NoId
    <3>1. pc'[a] = "idle" /\ UNCHANGED forward
      BY <1>1, <1>9, <2>3, ReturnsCall DEF PutForward
    <3>2. ASSUME Quiet(j), NEW i \in Ids, owner[i] = owner[j]
          PROVE  Agrees(i)'
      <4>1. (Activates(i)' <=> Activates(i)) /\ (Marks(i)' <=> Marks(i)) /\ (Bound(i)' <=> Bound(i))
        BY <1>1, <2>1, <2>2, <3>1, <3>2, AloneMeans DEF Rebinds, Bound
      <4> QED
        BY <2>2, <4>1 DEF AgreeInv, Agrees, Quiet
    <3> QED
      BY <1>1, <2>1, <2>2, <3>1, <3>2, AgreeGoesOn DEF UserPCs, PCs, Rebinds, Holds
  <2>4. CASE forward[n] = NoId
    <3>1. pc'[a] = "activating" /\ call' = call /\ forward' = [forward EXCEPT ![n] = j]
      BY <1>1, <1>9, <2>1, <2>4 DEF PutForward, Steps, Goto, Typed
    <3>2. ASSUME Quiet(j)
          PROVE  Holds(a)'
      BY <1>1, <2>1, <2>2, <3>1, <3>2 DEF Holds, UserPCs
    <3>3. ASSUME Quiet(j), NEW i \in Ids, owner[i] = owner[j]
          PROVE  Agrees(i)'
      <4>1. ~Activates(i) /\ (Activates(i)' <=> i = j) /\ (Marks(i)' <=> Marks(i))
        BY <1>1, <2>1, <2>2, <3>1, <3>3, AloneMeans DEF Rebinds
      <4>2. ~Bound(i) /\ (Bound(i)' <=> i = j)
        BY <1>1, <1>3, <2>2, <2>4, <3>1, <3>3, NamespaceAssumption DEF Bound, Typed
      <4>3. Agrees(i) /\ Quiet(i)
        BY <3>3 DEF AgreeInv, Quiet
      <4> QED
        BY <2>2, <4>1, <4>2, <4>3 DEF Agrees
    <3> QED
      BY <1>1, <2>1, <2>2, <3>1, <3>2, <3>3, AgreeGoesOn DEF UserPCs, PCs, Rebinds, Typed
  <2> QED
    BY <2>3, <2>4
<1>10. CASE MarkActive(a)
  <2>1. PICK j \in Ids : j = call[a].id
    BY <1>10, <1>1 DEF MarkActive, Returns, Steps, Knows
  <2>2. /\ pc[a] = "activating" /\ pc'[a] = "idle"
        /\ reverse' = [reverse EXCEPT ![j].status = "active"]
        /\ UNCHANGED <<forward, owner, issued, broken, contested>>
    BY <1>1, <1>10, <2>1, ReturnsCall DEF MarkActive, SetStatus
  <2>3. reverse'[j].status = "active" /\ \A i \in Ids \ {j} : reverse'[i] = reverse[i]
    BY <1>1, <2>2 DEF Typed
  <2>4. ASSUME Quiet(j), NEW i \in Ids, owner[i] = owner[j]
        PROVE  Agrees(i)'
    <3>1. ~Activates(i)' /\ (Activates(i) <=> i = j) /\ ~Marks(i) /\ ~Marks(i)'
      BY <1>1, <2>1, <2>2, <2>4, AloneMeans DEF Rebinds
    <3>2. Agrees(i) /\ Quiet(i) /\ (Bound(i)' <=> Bound(i))
      BY <2>2, <2>4 DEF AgreeInv, Quiet, Bound
    <3> QED
      BY <2>3, <3>1, <3>2 DEF Agrees
  <2>5. Holds(a)'
    BY <2>2 DEF Holds, UserPCs
  <2> QED
    BY <1>1, <2>1, <2>2, <2>3, <2>4, <2>5, AgreeGoesOn DEF UserPCs, PCs, Rebinds
<1>11. CASE MarkPurging(a) \/ ListItems(a) \/ EraseItems(a) \/ DeleteReverse(a)
  <2>1. pc[a] \in {"condemning", "listing", "erasing"}
    BY <1>11 DEF MarkPurging, ListItems, EraseItems, DeleteReverse, Returns, Steps, PageDone
  <2>2. PICK j \in Ids : j = call[a].id
    BY <1>1, <2>1 DEF Knows
  <2>3. /\ pc'[a] \in {"idle", "listing", "erasing"} /\ (pc'[a] # "idle" => call'[a].id = j)
        /\ UNCHANGED <<forward, owner, issued, broken, contested>>
    <3>1. MarkPurging(a) => pc'[a] = "listing" /\ call' = call
      BY <1>1 DEF MarkPurging, Steps, Goto, Typed
    <3>2. ListItems(a) => pc'[a] = "erasing" /\ call'[a].id = call[a].id
      BY <1>1 DEF ListItems, Goto, Typed, Calls
    <3>3. EraseItems(a) => pc'[a] = "erasing" /\ call'[a].id = call[a].id
      BY <1>1 DEF EraseItems, Typed, Calls
    <3>4. DeleteReverse(a) => pc'[a] = "idle"
      BY <1>1, ReturnsCall DEF DeleteReverse
    <3> QED
      BY <1>11, <2>2, <3>1, <3>2, <3>3, <3>4 DEF MarkPurging, ListItems, EraseItems, DeleteReverse
  <2>4. /\ \A i \in Ids \ {j} : reverse'[i] = reverse[i]
        /\ \/ UNCHANGED reverse /\ pc[a] # "condemning"
           \/ pc[a] = "condemning" /\ reverse'[j].status = "purging"
           \/ pc[a] = "erasing" /\ reverse'[j].status = "none"
    <3>1. CASE MarkPurging(a)
      BY <1>1, <2>2, <3>1 DEF MarkPurging, Steps, SetStatus, Typed
    <3>2. CASE DeleteReverse(a)
      BY <1>1, <2>2, <3>2 DEF DeleteReverse, PageDone, Typed, NoRecord
    <3>3. CASE ListItems(a) \/ EraseItems(a)
      BY <3>3 DEF ListItems, EraseItems, PageDone
    <3> QED
      BY <1>11, <3>1, <3>2, <3>3
  <2>5. ASSUME Quiet(j)
        PROVE  reverse[j].status # "active" /\ reverse'[j].status # "active" /\ Holds(a)'
    BY <1>1, <2>1, <2>2, <2>3, <2>4, <2>5 DEF Holds, UserPCs
  <2>6. ASSUME Quiet(j), NEW i \in Ids, owner[i] = owner[j]
        PROVE  Agrees(i)'
    <3>1. (Activates(i)' <=> Activates(i)) /\ (Marks(i)' <=> Marks(i))
      BY <1>1, <2>1, <2>3, NamespaceAssumption DEF Marks, Activates, CallStep
    <3>2. Agrees(i) /\ Quiet(i) /\ (Bound(i)' <=> Bound(i))
      BY <2>3, <2>6 DEF AgreeInv, Quiet, Bound
    <3> QED
      BY <2>4, <2>5, <2>6, <3>1, <3>2 DEF Agrees
  <2> QED
    BY <1>1, <2>1, <2>2, <2>3, <2>4, <2>5, <2>6, AgreeGoesOn DEF UserPCs, PCs, Rebinds
<1> QED
  BY <1>4, <1>5, <1>6, <1>7, <1>8, <1>9, <1>10, <1>11 DEF Admin

(* Every step keeps the agreement.                                           *)
LEMMA AgreeStep == Inv /\ AgreeInv /\ [Next]_vars => AgreeInv'
<1> SUFFICES ASSUME Inv, AgreeInv, [Next]_vars
             PROVE  AgreeInv'
  OBVIOUS
<1>1. CASE UNCHANGED vars
  BY <1>1, AgreeKept DEF vars
<1>2. CASE Next
  BY <1>2, AgreeUser, AgreeDie, AgreeAdmin, AgreeStore DEF Next
<1> QED
  BY <1>1, <1>2

(* The agreement is an invariant.                                            *)
LEMMA AgreeCorrect == Spec => []AgreeInv
BY AgreeInit, AgreeStep, InvCorrect, PTL DEF Spec

(* What a step may do to a namespace that is being purged.                   *)
LEMMA TerminalStep ==
  ASSUME Inv, AgreeInv, [Next]_vars, NEW i \in Ids, Quiet(i), reverse[i].status = "purging"
  PROVE  reverse'[i].status \in {"purging", "none"}
<1>1. Typed /\ Unissued /\ \A a \in Admins : Holds(a)
  BY TypedIs DEF AgreeInv, Inv
<1>2. CASE UNCHANGED reverse
  BY <1>2
<1>3. ASSUME NEW r \in Repos, PutBoth(r)
      PROVE  reverse'[i].status \in {"purging", "none"}
  <2>1. i # issued + 1
    BY <1>1, <1>3, NamespaceAssumption DEF PutBoth, Unissued, Typed, Ids
  <2>2. PICK n : reverse' = [reverse EXCEPT ![issued + 1] = [name |-> n, status |-> "active"]]
    BY <1>3 DEF PutBoth
  <2> QED
    BY <1>1, <2>1, <2>2 DEF Typed
<1>4. ASSUME NEW r \in Repos, User(r) \/ Die(r)
      PROVE  reverse'[i].status \in {"purging", "none"}
  <2>1. PutBoth(r) \/ UNCHANGED reverse
    BY <1>4 DEF User, Open, Register, Scoped, PutCanceled, ResolveExisting, Die, registry
  <2> QED
    BY <1>2, <1>3, <2>1
<1>5. ASSUME NEW a \in Admins, Admin(a)
      PROVE  reverse'[i].status \in {"purging", "none"}
  <2>1. CASE MarkDeleted(a) \/ MarkActive(a)
    <3>1. pc[a] \in {"marking", "activating"} /\ a \in Repos
      BY <2>1, NamespaceAssumption DEF MarkDeleted, MarkActive, Returns, Steps
    <3>2. call[a].id # i
      BY <1>1, <3>1 DEF Holds, UserPCs
    <3> QED
      BY <1>1, <2>1, <3>2 DEF MarkDeleted, MarkActive, SetStatus, Typed
  <2>2. CASE MarkPurging(a)
    BY <1>1, <2>2 DEF MarkPurging, SetStatus, Typed
  <2>3. CASE DeleteReverse(a)
    BY <1>1, <2>3 DEF DeleteReverse, Typed, NoRecord
  <2>4. DeleteForward(a) \/ PutForward(a) \/ ListItems(a) \/ EraseItems(a) => UNCHANGED reverse
    BY DEF DeleteForward, PutForward, ListItems, EraseItems, registry
  <2>5. \A n \in Names : BeginDelete(a, n) => UNCHANGED reverse
    BY DEF BeginDelete, registry
  <2>6. \A j \in Ids : BeginRecover(a, j) \/ BeginPurge(a, j) => UNCHANGED reverse
    BY DEF BeginRecover, BeginPurge, registry
  <2> QED
    BY <1>2, <1>5, <2>1, <2>2, <2>3, <2>4, <2>5, <2>6 DEF Admin
<1> QED
  BY <1>2, <1>4, <1>5 DEF Next, vars, Store

(* No step takes data from a namespace its name is bound to.                 *)
LEMMA LiveStep ==
  ASSUME Inv, AgreeInv, [Next]_vars, NEW i \in Ids, Quiet(i), Bound(i)
  PROVE  data[i] \subseteq data'[i]
<1>1. Typed /\ Agrees(i) /\ \A a \in Admins : Holds(a)
  BY TypedIs DEF AgreeInv, Inv
<1>2. CASE UNCHANGED data
  BY <1>2
<1>3. ASSUME NEW j \in Ids, NEW x \in Items, Store(j, x)
      PROVE  data[i] \subseteq data'[i]
  BY <1>1, <1>3 DEF Store, Typed
<1>4. ASSUME NEW r \in Repos, User(r) \/ Die(r)
      PROVE  UNCHANGED data
  BY <1>4 DEF User, Open, Register, Scoped, PutBoth, PutCanceled, ResolveExisting, Die, registry
<1>5. ASSUME NEW a \in Admins, Admin(a)
      PROVE  data[i] \subseteq data'[i]
  <2>1. CASE EraseItems(a)
    <3>1. pc[a] = "erasing" /\ \A j \in Ids : j # call[a].id => data'[j] = data[j]
      BY <1>1, <2>1 DEF EraseItems, Typed
    <3>2. Quiet(call[a].id) => reverse[call[a].id].status \in {"purging", "none"}
      BY <1>1, <3>1 DEF Holds, UserPCs
    <3>3. i # call[a].id
      <4>1. reverse[i].status = "active" \/ Activates(i)
        BY <1>1 DEF Agrees
      <4>2. Activates(i) => reverse[i].status = "deleted"
        BY <1>1 DEF Activates, Holds, UserPCs
      <4> QED
        BY <3>2, <4>1, <4>2
    <3> QED
      BY <3>1, <3>3
  <2>2. DeleteForward(a) \/ MarkDeleted(a) \/ PutForward(a) \/ MarkActive(a) \/ MarkPurging(a)
          \/ ListItems(a) \/ DeleteReverse(a) => UNCHANGED data
    BY DEF DeleteForward, MarkDeleted, PutForward, MarkActive, MarkPurging, ListItems, DeleteReverse, registry
  <2>3. \A n \in Names : BeginDelete(a, n) => UNCHANGED data
    BY DEF BeginDelete, registry
  <2>4. \A j \in Ids : BeginRecover(a, j) \/ BeginPurge(a, j) => UNCHANGED data
    BY DEF BeginRecover, BeginPurge, registry
  <2> QED
    BY <1>2, <1>5, <2>1, <2>2, <2>3, <2>4 DEF Admin
<1> QED
  BY <1>2, <1>3, <1>4, <1>5 DEF Next, vars

(* However many administrators there are: the forward and the reverse record  *)
(* of every namespace agree whenever no deletion or recovery of it is under   *)
(* way, unless one met another of that name, or a purge that was beginning,  *)
(* or was cut short between its writes: RecordsAgree.                        *)
THEOREM RecordsAlwaysAgree == Spec => []RecordsAgree
<1>1. AgreeInv => RecordsAgree
  BY DEF AgreeInv, RecordsAgree, Agrees, Quiet, Marks, Activates, Rebinds
<1> QED
  BY <1>1, AgreeCorrect, PTL

(* However many administrators there are, and with the same exceptions: a     *)
(* namespace that is marked as being purged never becomes active or deleted   *)
(* again, whatever calls begin after the mark: PurgeIsTerminal.              *)
THEOREM PurgeNeverUndone == Spec => PurgeIsTerminal
<1>1. Inv /\ AgreeInv /\ [Next]_vars =>
        [~broken => \A i \in Ids :
           reverse[i].status = "purging" /\ owner[i] \notin contested =>
             reverse'[i].status \in {"purging", "none"}]_reverse
  BY TerminalStep DEF Quiet
<1> QED
  BY <1>1, AgreeCorrect, InvCorrect, PTL DEF Spec, PurgeIsTerminal

(* However many administrators there are, and with the same exceptions: no    *)
(* purge deletes an item of a namespace that its name is bound to:            *)
(* LiveDataKept.                                                             *)
THEOREM LiveDataNeverPurged == Spec => LiveDataKept
<1>1. Inv /\ AgreeInv /\ [Next]_vars =>
        [~broken => \A i \in Ids :
           data'[i] # data[i] /\ Bound(i) /\ owner[i] \notin contested => data[i] \subseteq data'[i]]_data
  BY LiveStep DEF Quiet
<1> QED
  BY <1>1, AgreeCorrect, InvCorrect, PTL DEF Spec, LiveDataKept
===============================================================================
