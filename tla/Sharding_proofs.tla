---------------------------- MODULE Sharding_proofs ----------------------------
(***************************************************************************)
(* The sharded bucket, proved for any number of clients, any capacities,   *)
(* rates and requests, any bound on shard_count, and any number of failed  *)
(* calls, of deaths of the aggregator and of redeliveries.  Inv is about   *)
(* the items, the records and who knows what of them, and is inductive by  *)
(* itself; UsageInv, relative to it, is the account of the consumption on  *)
(* its way from the leases through the stream to the snapshots.            *)
(***************************************************************************)
EXTENDS Sharding, Sums

Items == [n : Nat, tk : Int, wcu : Int, rf : Nat]
Records == [shard : Shards, was : Nat, n : Nat \ {0}, tc : Int, wcuTc : Int, tk : Int, wcu : Int, rf : Nat]
Calls == [req : Nat, shard : Shards, n : Nat, tried : SUBSET Shards, helps : BOOLEAN,
          fixed : BOOLEAN, rf : Nat, refill : Int]

\* Shard 0 leads, and only it may owe tokens.
ItemsOK ==
  /\ item \in [Shards -> Items]
  /\ item[0].n <= MaxShards
  /\ \A s \in Shards : item[s].n <= item[0].n
  /\ DebtOnShardZero

\* A record is of a shard that exists, from a time when shard 0 had at most its
\* present count.
RecOK(r) ==
  /\ r.shard \in Shards /\ Exists(r.shard)
  /\ r.n \in Nat /\ 1 <= r.n /\ r.n <= item[0].n
  /\ r.tk \in Int /\ r.wcu \in Int /\ r.rf \in Nat

StreamOK ==
  /\ stream \in Seq(Records)
  /\ \A i \in 1..Len(stream) : RecOK(stream[i]) /\ stream[i].was >= 1

\* A write of the aggregator goes to a shard, and creates none but with half of
\* the capacity at most.
OpOK(op) ==
  /\ op.to \in Shards
  /\ RecOK(op.rec)
  /\ op.kind = "refill" => op.to = op.rec.shard
  /\ op.kind = "double" => 2 * op.rec.n <= MaxShards
  /\ op.kind \in {"raise", "clone"} => op.to # 0 /\ op.rec.n >= 2

WorkOK == taken \in Nat /\ \A op \in work : OpOK(op)

\* No client knows more than shard 0; who is to write to shard 0 knows it exists.
ClientOK(c) ==
  /\ cached[c] <= item[0].n
  /\ call[c].n <= item[0].n
  /\ pc[c] \in {"bumping", "elsewhere"} => call[c].n >= 1
  /\ pc[c] \in {"rewriting", "open"} => Exists(0)

ClientsOK ==
  /\ pc \in [Clients -> PCs] /\ call \in [Clients -> Calls] /\ cached \in [Clients -> Nat]
  /\ \A c \in Clients : ClientOK(c)

\* A shard's account, empty as long as it does not exist.
FilledOK(s) ==
  /\ item[s].tk = created[s] + refilled[s] - used[s]
  /\ created[s] \in 0..(IF s = 0 THEN Capacity ELSE Capacity \div 2)
  /\ ~Exists(s) => created[s] = 0 /\ refilled[s] = 0 /\ used[s] = 0

AccountsOK ==
  /\ used \in [Shards -> Int] /\ refilled \in [Shards -> Int] /\ created \in [Shards -> Nat]
  /\ \A s \in Shards : FilledOK(s)

Inv == now \in Nat /\ ItemsOK /\ StreamOK /\ WorkOK /\ ClientsOK /\ AccountsOK

-------------------------------------------------------------------------------
(* Arithmetic *)

(* Parameters and shards.                                                    *)
LEMMA Parameters ==
  /\ Capacity \in Nat \ {0} /\ Rate \in Nat /\ WcuCapacity \in Nat \ {0} /\ MaxShards \in Nat \ {0}
  /\ 0 \in Shards /\ \A s \in Shards : s \in Nat
  /\ Requests \subseteq Nat \ {0} /\ Changes \subseteq Int
BY ShardAssumption DEF Shards

(* A share of a capacity is a natural number, half of it at most if there    *)
(* are two.                                                                  *)
LEMMA Shares ==
  ASSUME NEW n \in Nat, n >= 1
  PROVE  /\ Capacity \div n \in Nat /\ Rate \div n \in Nat /\ WcuCapacity \div n \in Nat
         /\ n >= 2 => Capacity \div n \in 0..Capacity \div 2
         /\ Capacity \div n <= Capacity
<1>1. \A c \in Nat : c \div n \in Nat /\ c \div n <= c
  BY Z3
<1>2. ASSUME n >= 2
      PROVE  Capacity \div n <= Capacity \div 2
  <2>1. \A c \in Nat, m \in Nat \ {0, 1} : c \div m <= c \div 2
    BY Z3T(60)
  <2>2. n \in Nat \ {0, 1} /\ Capacity \in Nat
    BY <1>2, Parameters
  <2> QED
    BY <2>1, <2>2
<1> QED
  BY <1>1, <1>2, Parameters

(* What refill_bucket leaves is an integer.                                  *)
LEMMA RefilledType ==
  ASSUME NEW tk \in Int, NEW rf \in Int, NEW cp \in Int, NEW ra \in Nat, now \in Nat
  PROVE  Refilled(tk, rf, cp, ra) \in Int
<1>1. ((now - rf) * ra) \div 1 \in Int
  BY Z3
<1> QED
  BY <1>1 DEF Refilled, Bucket!Refill, Bucket!Accrued, Bucket!Lesser

(* What the aggregator adds to a shard is not negative.                      *)
LEMMA Additions ==
  ASSUME now \in Nat, NEW st, RecOK(st)
  PROVE  TokensAdded(st) \in Nat /\ WcuAdded(st) \in Nat
<1>1. /\ st.tk \in Int /\ st.wcu \in Int /\ st.rf \in Nat
      /\ Capacity \div st.n \in Nat /\ Rate \div st.n \in Nat /\ WcuCapacity \div st.n \in Nat
  BY Shares DEF RecOK
<1>2. ASSUME NEW tk \in Int, NEW cp \in Nat, NEW ra \in Nat, NEW consumed
      PROVE  Addition(tk, st.rf, cp, ra, consumed) \in Nat
  <2>1. ASSUME NEW rf \in Nat
        PROVE  Refilled(tk, rf, cp, ra) \in Int
    BY RefilledType
  <2> QED
    BY <1>1, <2>1 DEF Addition
<1> QED
  BY <1>1, <1>2 DEF TokensAdded, WcuAdded

-------------------------------------------------------------------------------
(* What stays true while the counts grow *)

Grows == \A s \in Shards : item'[s].n \in Nat /\ item'[s].n >= item[s].n

(* A record stays a record of the past.                                      *)
LEMMA RecKept ==
  ASSUME ItemsOK, Grows, NEW r, RecOK(r)
  PROVE  RecOK(r)'
<1>1. item[0].n \in Nat /\ item[r.shard].n \in Nat
  BY Parameters DEF ItemsOK, Items, RecOK
<1> QED
  BY <1>1, Parameters DEF RecOK, Exists, Grows

(* The stream may lose its first records, or get a new one at its end.       *)
LEMMA StreamKept ==
  ASSUME ItemsOK, StreamOK, Grows,
         \/ stream' = stream
         \/ \E k \in Nat : stream' = SubSeq(stream, k + 1, Len(stream))
         \/ \E r \in Records : stream' = Append(stream, r) /\ RecOK(r)' /\ r.was >= 1
  PROVE  StreamOK'
<1>0. stream \in Seq(Records) /\ Len(stream) \in Nat
  BY DEF StreamOK
<1>1. ASSUME NEW i \in 1..Len(stream), NEW r, r = stream[i]
      PROVE  RecOK(r)' /\ r.was >= 1
  <2>1. RecOK(r) /\ r.was >= 1
    BY <1>1 DEF StreamOK
  <2> QED
    BY <2>1, RecKept
<1>2. SUFFICES stream' \in Seq(Records)
               /\ \A i \in 1..Len(stream') : \E r : r = stream'[i] /\ RecOK(r)' /\ r.was >= 1
  BY DEF StreamOK
<1>3. CASE stream' = stream
  BY <1>0, <1>1, <1>3
<1>4. ASSUME NEW k \in Nat, stream' = SubSeq(stream, k + 1, Len(stream))
      PROVE  stream' \in Seq(Records)
             /\ \A i \in 1..Len(stream') : \E r : r = stream'[i] /\ RecOK(r)' /\ r.was >= 1
  <2>1. stream' \in Seq(Records)
    BY <1>0, <1>4
  <2>2. \A i \in 1..Len(stream') : k + i \in 1..Len(stream) /\ stream'[i] = stream[k + i]
    BY <1>0, <1>4
  <2> QED
    BY <1>1, <2>1, <2>2
<1>5. ASSUME NEW r \in Records, stream' = Append(stream, r), RecOK(r)', r.was >= 1
      PROVE  stream' \in Seq(Records)
             /\ \A i \in 1..Len(stream') : \E q : q = stream'[i] /\ RecOK(q)' /\ q.was >= 1
  <2>1. stream' \in Seq(Records) /\ Len(stream') = Len(stream) + 1
    BY <1>0, <1>5
  <2>2. \A i \in 1..Len(stream') : /\ stream'[i] = IF i = Len(stream) + 1 THEN r ELSE stream[i]
                                  /\ (i = Len(stream) + 1 \/ i \in 1..Len(stream))
    BY <1>0, <1>5, <2>1
  <2> QED
    BY <1>1, <1>5, <2>1, <2>2
<1> QED
  BY <1>3, <1>4, <1>5

(* What the aggregator has still to do stays possible.                       *)
LEMMA WorkKept ==
  ASSUME ItemsOK, WorkOK, Grows, taken' \in Nat, \A op \in work' : op \in work
  PROVE  WorkOK'
<1>1. \A op \in work : OpOK(op)'
  BY RecKept DEF WorkOK, OpOK
<1> QED
  BY <1>1 DEF WorkOK

(* The clients that take no part know no more than before.                   *)
LEMMA ClientKept ==
  ASSUME ItemsOK, ClientsOK, Grows, NEW d \in Clients,
         pc'[d] = pc[d], call'[d] = call[d], cached'[d] = cached[d]
  PROVE  ClientOK(d)'
<1>1. item[0].n \in Nat /\ item'[0].n \in Nat /\ item'[0].n >= item[0].n
  BY Parameters DEF ItemsOK, Items, Grows
<1>2. ClientOK(d) /\ cached[d] \in Nat /\ call[d].n \in Nat
  BY DEF ClientsOK, Calls
<1> QED
  BY <1>1, <1>2 DEF ClientOK, Exists

(* Only client c knows something new.                                        *)
LEMMA ClientsStep ==
  ASSUME ItemsOK, ClientsOK, Grows, NEW c \in Clients,
         NEW l \in PCs, NEW k \in Calls, NEW n \in Nat,
         pc' = [pc EXCEPT ![c] = l], call' = [call EXCEPT ![c] = k], cached' = [cached EXCEPT ![c] = n],
         n <= item'[0].n, k.n <= item'[0].n,
         l \in {"bumping", "elsewhere"} => k.n >= 1,
         l \in {"rewriting", "open"} => Exists(0)'
  PROVE  ClientsOK'
<1>1. /\ pc' \in [Clients -> PCs] /\ call' \in [Clients -> Calls] /\ cached' \in [Clients -> Nat]
      /\ pc'[c] = l /\ call'[c] = k /\ cached'[c] = n
  BY DEF ClientsOK
<1>2. ClientOK(c)'
  BY <1>1 DEF ClientOK
<1>3. ASSUME NEW d \in Clients, d # c
      PROVE  ClientOK(d)'
  <2>1. pc'[d] = pc[d] /\ call'[d] = call[d] /\ cached'[d] = cached[d]
    BY <1>3 DEF ClientsOK
  <2> QED
    BY <2>1, ClientKept
<1> QED
  BY <1>1, <1>2, <1>3 DEF ClientsOK

(* No client learns anything.                                                *)
LEMMA ClientsSame ==
  ASSUME ItemsOK, ClientsOK, Grows, UNCHANGED <<pc, call, cached>>
  PROVE  ClientsOK'
BY ClientKept DEF ClientsOK

-------------------------------------------------------------------------------
(* Writes *)

\* What is left of Inv when the clients are set aside.
Table == now \in Nat /\ ItemsOK /\ StreamOK /\ WorkOK /\ AccountsOK

\* The aggregator has no more to do than before.
NoMoreWork == now' \in Nat /\ taken' \in Nat /\ \A op \in work' : op \in work

(* A step that writes no item.                                               *)
LEMMA Untouched ==
  ASSUME Table, NoMoreWork, UNCHANGED <<item, used, refilled, created>>,
         stream' = stream \/ \E k \in Nat : stream' = SubSeq(stream, k + 1, Len(stream))
  PROVE  Table' /\ Grows
<1>1. Grows
  BY DEF Grows, Table, ItemsOK, Items
<1>2. ItemsOK' /\ AccountsOK'
  BY DEF Table, ItemsOK, DebtOnShardZero, AccountsOK, FilledOK, Exists
<1> QED
  BY <1>1, <1>2, StreamKept, WorkKept DEF Table, NoMoreWork

\* What a write may make of shard s: no smaller a count, none beyond shard 0's but
\* within the bound, and a debt on shard 0 only.
MayBecome(s, new) ==
  /\ new \in Items
  /\ new.n >= 1 /\ new.n >= item[s].n
  /\ IF s = 0 THEN new.n <= MaxShards ELSE new.n <= item[0].n /\ new.tk >= 0
  /\ new.wcu >= 0

(* Such a write keeps the items in order.                                    *)
LEMMA ItemWritten ==
  ASSUME ItemsOK, NEW s \in Shards, NEW new, MayBecome(s, new), item' = [item EXCEPT ![s] = new]
  PROVE  ItemsOK' /\ Grows
<1>1. \A r \in Shards : item'[r] = IF r = s THEN new ELSE item[r]
  BY DEF ItemsOK
<1>2. item' \in [Shards -> Items] /\ \A r \in Shards : item[r] \in Items
  BY DEF ItemsOK, MayBecome
<1>3. Grows
  BY <1>1, <1>2 DEF Grows, MayBecome, Items
<1>4. item'[0].n <= MaxShards /\ item[0].n \in Nat /\ item'[0].n \in Nat /\ item'[0].n >= item[0].n
  BY <1>1, <1>2, <1>3, Parameters DEF MayBecome, ItemsOK, Items, Grows
<1>5. ASSUME NEW r \in Shards
      PROVE  item'[r].n <= item'[0].n /\ item'[r].wcu >= 0 /\ (r # 0 => item'[r].tk >= 0)
  <2>1. item[r].n <= item[0].n /\ item[r].wcu >= 0 /\ (r # 0 => item[r].tk >= 0) /\ item[r].n \in Nat
    BY <1>2 DEF ItemsOK, DebtOnShardZero, Items
  <2>2. new.n \in Nat
    BY DEF MayBecome, Items
  <2>3. CASE r = s
    BY <1>1, <1>4, <2>2, <2>3 DEF MayBecome
  <2>4. CASE r # s
    BY <1>1, <1>4, <2>1, <2>4
  <2> QED
    BY <2>3, <2>4
<1> QED
  BY <1>2, <1>3, <1>4, <1>5 DEF ItemsOK, DebtOnShardZero

(* A write of an item that exists, which consumes d of it and adds e to it.  *)
LEMMA Rewritten ==
  ASSUME Table, NoMoreWork, NEW s \in Shards, Exists(s), NEW new, MayBecome(s, new),
         NEW tc \in Int, NEW w \in Int, Write(s, new, tc, w),
         NEW d \in Int, NEW e \in Int, new.tk = item[s].tk + e - d,
         (used' = used /\ d = 0) \/ used' = [used EXCEPT ![s] = @ + d],
         (refilled' = refilled /\ e = 0) \/ refilled' = [refilled EXCEPT ![s] = @ + e],
         created' = created
  PROVE  Table' /\ Grows
<1>1. ItemsOK' /\ Grows
  BY ItemWritten DEF Write, Table
<1>2. StreamOK'
  <2> DEFINE rec == Record(s, new, tc, w)
  <2>1. item[s] \in Items /\ new \in Items /\ item[s].n >= 1 /\ item[s].n \in Nat
    BY DEF Table, ItemsOK, MayBecome, Exists, Items
  <2>2. /\ rec \in Records /\ rec.was >= 1 /\ rec.shard = s /\ rec.n = new.n /\ rec.n >= 1
        /\ rec.tk \in Int /\ rec.wcu \in Int /\ rec.rf \in Nat /\ rec.n \in Nat
    BY <2>1 DEF Record, Records, Items, MayBecome
  <2>3. item'[s] = new
    BY DEF Write, Table, ItemsOK
  <2>4. new.n <= item'[0].n
    BY <1>1, <2>3 DEF ItemsOK
  <2>5. stream' = Append(stream, rec)
    BY DEF Write
  <2> HIDE DEF rec
  <2>6. ASSUME NEW q, q = rec
        PROVE  RecOK(q)'
    BY <2>2, <2>3, <2>4, <2>6 DEF RecOK, Exists
  <2> QED
    BY <1>1, <2>2, <2>5, <2>6, StreamKept DEF Table
<1>3. WorkOK'
  BY <1>1, WorkKept DEF Table, NoMoreWork
<1>4. AccountsOK'
  <2>1. /\ used' \in [Shards -> Int] /\ refilled' \in [Shards -> Int] /\ created' \in [Shards -> Nat]
        /\ \A r \in Shards : /\ used'[r] = IF r = s THEN used[r] + d ELSE used[r]
                             /\ refilled'[r] = IF r = s THEN refilled[r] + e ELSE refilled[r]
    BY DEF Table, AccountsOK
  <2>2. \A r \in Shards : item'[r] = IF r = s THEN new ELSE item[r]
    BY DEF Write, Table, ItemsOK
  <2>3. ASSUME NEW r \in Shards
        PROVE  FilledOK(r)'
    <3>1. FilledOK(r) /\ used[r] \in Int /\ refilled[r] \in Int /\ created[r] \in Nat
      BY DEF Table, AccountsOK
    <3>2. item[r].tk \in Int /\ item[r].n \in Nat /\ new.n \in Nat /\ new.tk \in Int
      BY DEF Table, ItemsOK, Items, MayBecome
    <3>3. CASE r = s
      BY <2>1, <2>2, <3>1, <3>2, <3>3 DEF FilledOK, Exists, MayBecome
    <3>4. CASE r # s
      BY <2>1, <2>2, <3>1, <3>4 DEF FilledOK, Exists
    <3> QED
      BY <3>3, <3>4
  <2> QED
    BY <2>1, <2>3 DEF AccountsOK
<1> QED
  BY <1>1, <1>2, <1>3, <1>4 DEF Table, NoMoreWork

(* The creation of an item that does not exist, by a client or as a clone,   *)
(* with a part a of the capacity of which d is consumed at once.             *)
LEMMA Created ==
  ASSUME Table, NoMoreWork, NEW s \in Shards, ~Exists(s), NEW new, MayBecome(s, new),
         item' = [item EXCEPT ![s] = new], stream' = stream,
         NEW a \in 0..(IF s = 0 THEN Capacity ELSE Capacity \div 2), NEW d \in Int, new.tk = a - d,
         (used' = used /\ d = 0) \/ used' = [used EXCEPT ![s] = @ + d],
         refilled' = refilled, created' = [created EXCEPT ![s] = a]
  PROVE  Table' /\ Grows
<1>1. ItemsOK' /\ Grows
  BY ItemWritten DEF Table
<1>2. StreamOK' /\ WorkOK'
  BY <1>1, StreamKept, WorkKept DEF Table, NoMoreWork
<1>3. a \in Nat
  BY Parameters, Shares
<1>4. /\ used' \in [Shards -> Int] /\ refilled' \in [Shards -> Int] /\ created' \in [Shards -> Nat]
      /\ \A r \in Shards : /\ used'[r] = IF r = s THEN used[r] + d ELSE used[r]
                           /\ created'[r] = IF r = s THEN a ELSE created[r]
                           /\ item'[r] = IF r = s THEN new ELSE item[r]
  BY <1>3 DEF Table, AccountsOK, ItemsOK
<1>5. ASSUME NEW r \in Shards
      PROVE  FilledOK(r)'
  <2>1. FilledOK(r) /\ used[r] \in Int /\ refilled[r] \in Int /\ created[r] \in Nat
    BY DEF Table, AccountsOK
  <2>2. new.n \in Nat
    BY DEF Items, MayBecome
  <2>3. CASE r = s
    BY <1>3, <1>4, <2>1, <2>2, <2>3 DEF FilledOK, Exists, MayBecome
  <2>4. CASE r # s
    BY <1>4, <2>1, <2>4 DEF FilledOK, Exists
  <2> QED
    BY <2>3, <2>4
<1> QED
  BY <1>1, <1>2, <1>4, <1>5 DEF Table, NoMoreWork, AccountsOK

-------------------------------------------------------------------------------
(* The clients *)

(* What a client's call starts with.                                         *)
LEMMA CallTypes ==
  ASSUME Inv
  PROVE  /\ NoCall \in Calls /\ NoCall.n = 0
         /\ \A c \in Clients : /\ call[c] \in Calls /\ pc[c] \in PCs /\ cached[c] \in Nat /\ ClientOK(c)
                               /\ call[c].req \in Nat /\ call[c].shard \in Shards /\ call[c].n \in Nat
                               /\ call[c].rf \in Nat /\ call[c].refill \in Int
         /\ \A s \in Shards : /\ item[s] \in Items
                              /\ item[s].n \in Nat /\ item[s].tk \in Int /\ item[s].wcu \in Int
                              /\ item[s].rf \in Nat
                              /\ item[s].n <= item[0].n /\ item[s].n <= MaxShards
<1>1. NoCall \in Calls /\ NoCall.n = 0
  BY Parameters DEF NoCall, Calls
<1>2. ASSUME NEW s \in Shards
      PROVE  /\ item[s] \in Items
             /\ item[s].n \in Nat /\ item[s].tk \in Int /\ item[s].wcu \in Int /\ item[s].rf \in Nat
             /\ item[s].n <= item[0].n /\ item[s].n <= MaxShards
  BY Parameters DEF Inv, ItemsOK, Items
<1> QED
  BY <1>1, <1>2 DEF Inv, ClientsOK, Calls

(* Taking n tokens and one unit of wcu, where both are there.                *)
LEMMA Speculation ==
  ASSUME Inv, ClientStep, created' = created, NEW s \in Shards, NEW n \in Nat,
         Covers(s, n), Speculates(s, n)
  PROVE  Table' /\ Grows /\ Exists(0)' /\ item'[0].n >= item[s].n
<1> DEFINE new == [item[s] EXCEPT !.tk = @ - n, !.wcu = @ - 1]
<1>1. item[s] \in Items /\ item[s].n \in Nat /\ item[s].tk \in Int /\ item[s].wcu \in Int
      /\ item[s].n <= item[0].n /\ item[s].n <= MaxShards /\ item[0].n \in Nat
  BY CallTypes, Parameters
<1>2. /\ new \in Items /\ new.n = item[s].n /\ new.tk = item[s].tk - n /\ new.wcu = item[s].wcu - 1
      /\ new.tk \in Int /\ new.wcu \in Int
  <2>1. item[s].tk - n \in Int /\ item[s].wcu - 1 \in Int
    BY <1>1
  <2> QED
    BY <1>1, <2>1 DEF Items
<1>3. Write(s, new, n, 1)
  BY DEF Speculates
<1> HIDE DEF new
<1>4. Exists(s) /\ MayBecome(s, new) /\ new.tk = item[s].tk + 0 - n
  BY <1>1, <1>2 DEF Covers, MayBecome, Exists
<1>5. Table /\ NoMoreWork
  BY DEF Inv, Table, ClientStep, NoMoreWork, WorkOK
<1>6. used' = [used EXCEPT ![s] = @ + n] /\ refilled' = refilled
  BY DEF Speculates, Consumes
<1>7. Table' /\ Grows
  <2>1. n \in Int /\ 0 \in Int /\ 1 \in Int
    OBVIOUS
  <2>2. (used' = used /\ n = 0) \/ used' = [used EXCEPT ![s] = @ + n]
    BY <1>6
  <2>3. (refilled' = refilled /\ 0 = 0) \/ refilled' = [refilled EXCEPT ![s] = @ + 0]
    BY <1>6
  <2> QED
    BY <1>3, <1>4, <1>5, <2>1, <2>2, <2>3, Rewritten
<1>8. item'[0].n \in Nat /\ item'[0].n >= item[0].n /\ item[s].n > 0
  BY <1>4, <1>7, Parameters DEF Grows, Exists
<1> QED
  BY <1>1, <1>7, <1>8 DEF Exists

(* A step that only changes what a client knows.                             *)
LEMMA ClientOnly ==
  ASSUME Inv, ClientStep, UNCHANGED <<item, stream, used, refilled, created>>
  PROVE  Table' /\ Grows /\ item' = item /\ \A s \in Shards : Exists(s)' = Exists(s)
<1>1. Table /\ NoMoreWork
  BY DEF Inv, Table, ClientStep, NoMoreWork, WorkOK
<1> QED
  BY <1>1, Untouched DEF Exists

(* Forgetting a call.                                                        *)
LEMMA Forgotten ==
  ASSUME Inv, Table', Grows, NEW c \in Clients, Forget(c), cached' = cached
  PROVE  Inv'
<1>1. /\ NoCall \in Calls /\ NoCall.n = 0 /\ cached' = [cached EXCEPT ![c] = cached[c]]
      /\ cached[c] \in Nat /\ cached[c] <= item[0].n
  BY CallTypes DEF Inv, ClientsOK, ClientOK
<1>2. item[0].n \in Nat /\ item'[0].n \in Nat /\ item'[0].n >= item[0].n
  BY CallTypes, Parameters DEF Grows
<1>3. /\ ItemsOK /\ ClientsOK /\ "idle" \in PCs
      /\ pc' = [pc EXCEPT ![c] = "idle"] /\ call' = [call EXCEPT ![c] = NoCall]
  BY DEF Forget, Goto, PCs, Inv
<1>4. cached[c] <= item'[0].n /\ NoCall.n <= item'[0].n
  BY <1>1, <1>2
<1>5. ClientsOK'
  BY <1>1, <1>3, <1>4, ClientsStep
<1> QED
  BY <1>5 DEF Inv, Table

(* Going on with the same call, or a part of it.                             *)
LEMMA GoneOn ==
  ASSUME Inv, Table', Grows, NEW c \in Clients, NEW l \in PCs, NEW k \in Calls,
         Goto(c, l), call' = [call EXCEPT ![c] = k], cached' = cached,
         k.n <= item[0].n, l \in {"bumping", "elsewhere"} => k.n >= 1,
         l \in {"rewriting", "open"} => Exists(0)'
  PROVE  Inv'
<1>1. /\ cached' = [cached EXCEPT ![c] = cached[c]] /\ cached[c] \in Nat /\ cached[c] <= item[0].n
      /\ k.n \in Nat
  BY CallTypes DEF Inv, ClientsOK, ClientOK, Calls
<1>2. item[0].n \in Nat /\ item'[0].n \in Nat /\ item'[0].n >= item[0].n
  BY CallTypes, Parameters DEF Grows
<1>3. ItemsOK /\ ClientsOK /\ pc' = [pc EXCEPT ![c] = l]
  BY DEF Goto, Inv
<1>4. cached[c] <= item'[0].n /\ k.n <= item'[0].n
  BY <1>1, <1>2
<1>5. ClientsOK'
  BY <1>1, <1>3, <1>4, ClientsStep
<1> QED
  BY <1>5 DEF Inv, Table

(* The call of a client that has found an item.                              *)
LEMMA CalledType ==
  ASSUME Inv, NEW s \in Shards, NEW n \in Requests
  PROVE  /\ Called(s, n) \in Calls /\ Called(s, n).n = item[s].n /\ n \in Nat
         /\ \A h \in BOOLEAN : /\ [Called(s, n) EXCEPT !.helps = h] \in Calls
                               /\ [Called(s, n) EXCEPT !.helps = h].n = item[s].n
<1>1. NoCall \in Calls /\ item[s].n \in Nat /\ n \in Nat
  BY CallTypes, Parameters
<1> QED
  BY <1>1 DEF Called, Calls

(* acquire(): the first speculative write.                                   *)
LEMMA AcquireStep ==
  ASSUME Inv, NEW c \in Clients, NEW s \in Shards, NEW n \in Requests, Acquire(c, s, n)
  PROVE  Inv' /\ Grows
<1>1. ClientStep /\ created' = created /\ n \in Nat
  BY Parameters DEF Acquire
<1>2. item[s].n \in Nat /\ item[s].n <= item[0].n /\ item[0].n \in Nat
  BY CallTypes, Parameters
<1>3. CASE AcquireHit(c, s, n)
  <2>1. Table' /\ Grows /\ Exists(0)' /\ item'[0].n >= item[s].n
    BY <1>1, <1>3, Speculation DEF AcquireHit
  <2>2. ClientsOK'
    BY <1>2, <1>3, <2>1, ClientsStep, CalledType DEF AcquireHit, Goto, PCs, Inv
  <2> QED
    BY <2>1, <2>2 DEF Inv, Table
<1>4. CASE AcquireFails(c, s, n)
  <2>1. Table' /\ Grows
    BY <1>1, <1>4, ClientOnly DEF AcquireFails
  <2>2. CASE AfterFailure(s, n) = "idle"
    BY <1>4, <2>1, <2>2, Forgotten DEF AcquireFails, Forget
  <2>3. CASE AfterFailure(s, n) # "idle"
    <3>1. AfterFailure(s, n) \in PCs /\ AfterFailure(s, n) \notin {"rewriting", "open"}
      BY DEF AfterFailure, PCs
    <3>2. AfterFailure(s, n) \in {"bumping", "elsewhere"} => item[s].n >= 1
      BY <1>2 DEF AfterFailure, Exists
    <3>3. PICK h \in BOOLEAN : call' = [call EXCEPT ![c] = [Called(s, n) EXCEPT !.helps = h]]
      BY <1>4, <2>3 DEF AcquireFails, Exists, RefillHelps
    <3> QED
      BY <1>2, <1>4, <2>1, <3>1, <3>2, <3>3, CalledType, GoneOn DEF AcquireFails
  <2> QED
    BY <2>2, <2>3
<1> QED
  BY <1>3, <1>4 DEF Acquire

(* A change of shard 0, where it exists, that consumes d and adds e.         *)
LEMMA ShardZeroWritten ==
  ASSUME Inv, ClientStep, created' = created, Exists(0), NEW d \in Int, NEW e \in Int, NEW tc \in Int,
         NEW new \in Items, new.n >= item[0].n, new.n <= MaxShards,
         new.tk = item[0].tk + e - d, new.wcu = item[0].wcu, Write(0, new, tc, 0),
         (used' = used /\ d = 0) \/ used' = [used EXCEPT ![0] = @ + d],
         (refilled' = refilled /\ e = 0) \/ refilled' = [refilled EXCEPT ![0] = @ + e]
  PROVE  Table' /\ Grows /\ Exists(0)' /\ item'[0].n = new.n
<1>1. /\ item[0] \in Items /\ item[0].n \in Nat /\ item[0].wcu >= 0 /\ 0 \in Shards /\ new.n \in Nat
  BY CallTypes, Parameters DEF Inv, ItemsOK, DebtOnShardZero, Items
<1>2. MayBecome(0, new)
  <2>1. item[0].n >= 1 /\ item[0].n \in Nat /\ new.n \in Nat
    BY <1>1 DEF Exists
  <2>2. new.n >= 1 /\ new.wcu >= 0
    BY <1>1, <2>1
  <2> QED
    BY <2>2 DEF MayBecome
<1>3. Table /\ NoMoreWork
  BY DEF Inv, Table, ClientStep, NoMoreWork, WorkOK
<1>4. 0 \in Int
  OBVIOUS
<1>5. Table' /\ Grows
  BY <1>1, <1>2, <1>3, <1>4, Rewritten
<1>6. item'[0].n = new.n
  BY <1>1 DEF Write, Inv, ItemsOK
<1>7. new.n > 0
  BY <1>1 DEF Exists
<1> QED
  BY <1>5, <1>6, <1>7 DEF Exists

(* bump_shard_count.                                                         *)
LEMMA BumpStep ==
  ASSUME Inv, NEW c \in Clients, BumpShardCount(c)
  PROVE  Inv' /\ Grows
<1> DEFINE n == call[c].n
<1>1. /\ n \in Nat /\ n >= 1 /\ n <= item[0].n /\ item[0].n \in Nat /\ call[c] \in Calls
      /\ ItemsOK /\ ClientsOK /\ "reading" \in PCs /\ 2 * n \in Nat
  BY CallTypes, Parameters DEF BumpShardCount, ClientOK, Inv, PCs
<1>2. /\ ClientStep /\ created' = created /\ used' = used /\ refilled' = refilled
      /\ call' = [call EXCEPT ![c] = call[c]] /\ pc' = [pc EXCEPT ![c] = "reading"]
  BY DEF BumpShardCount, Goto, Inv, ClientsOK
<1>3. CASE /\ item[0].n = n /\ 2 * n <= MaxShards
           /\ Write(0, [item[0] EXCEPT !.n = 2 * n], 0, 0)
           /\ cached' = [cached EXCEPT ![c] = 2 * n]
  <2> DEFINE new == [item[0] EXCEPT !.n = 2 * n]
  <2>1. item[0] \in Items /\ item[0].tk \in Int
    BY CallTypes, Parameters
  <2>2. new \in Items /\ new.n = 2 * n /\ new.tk = item[0].tk + 0 - 0 /\ new.wcu = item[0].wcu
    BY <1>1, <2>1 DEF Items
  <2>3. Write(0, new, 0, 0)
    BY <1>3
  <2> HIDE DEF n, new
  <2>4. /\ 0 \in Int /\ Exists(0) /\ new.n >= item[0].n /\ new.n <= MaxShards
        /\ (used' = used /\ 0 = 0) \/ used' = [used EXCEPT ![0] = @ + 0]
        /\ (refilled' = refilled /\ 0 = 0) \/ refilled' = [refilled EXCEPT ![0] = @ + 0]
    BY <1>1, <1>2, <1>3, <2>2 DEF Exists
  <2>5. Table' /\ Grows /\ item'[0].n = 2 * n
    BY <1>2, <2>2, <2>3, <2>4, ShardZeroWritten
  <2>6. 2 * n <= item'[0].n /\ n <= item'[0].n
    BY <1>1, <2>5
  <2>7. ClientsOK'
    BY <1>1, <1>2, <1>3, <2>5, <2>6, ClientsStep DEF n
  <2> QED
    BY <2>5, <2>7 DEF Inv, Table
<1>4. CASE cached' = [cached EXCEPT ![c] = n] /\ UNCHANGED <<item, stream>>
  <2>1. Table' /\ Grows /\ item' = item
    BY <1>2, <1>4, ClientOnly
  <2>2. n <= item'[0].n
    BY <1>1, <2>1
  <2>3. ClientsOK'
    BY <1>1, <1>2, <1>4, <2>1, <2>2, ClientsStep
  <2> QED
    BY <2>1, <2>3 DEF Inv, Table
<1> QED
  BY <1>3, <1>4 DEF BumpShardCount

(* _retry_on_other_shard.                                                    *)
LEMMA RetryStep ==
  ASSUME Inv, NEW c \in Clients, NEW s \in Shards, RetryOnOtherShard(c, s)
  PROVE  Inv' /\ Grows
<1>1. /\ call[c] \in Calls /\ call[c].n \in Nat /\ call[c].req \in Nat /\ pc[c] = "elsewhere" /\ pc[c] \in PCs
      /\ call[c].n <= item[0].n /\ call[c].n >= 1 /\ call[c].tried \in SUBSET Shards
      /\ ClientStep /\ created' = created /\ cached' = cached
  BY CallTypes DEF RetryOnOtherShard, ClientOK, Calls
<1>2. CASE RetryHit(c, s)
  <2>1. Table' /\ Grows /\ Exists(0)'
    BY <1>1, <1>2, Speculation DEF RetryHit
  <2>2. call' = [call EXCEPT ![c] = [call[c] EXCEPT !.shard = s, !.fixed = TRUE]]
    BY <1>2 DEF RetryHit, Inv, ClientsOK
  <2>3. [call[c] EXCEPT !.shard = s, !.fixed = TRUE] \in Calls
        /\ [call[c] EXCEPT !.shard = s, !.fixed = TRUE].n = call[c].n
    BY <1>1 DEF Calls
  <2> QED
    BY <1>1, <1>2, <2>1, <2>2, <2>3, GoneOn DEF RetryHit, PCs
<1>3. CASE RetryFails(c, s)
  <2>1. Table' /\ Grows
    BY <1>1, <1>3, ClientOnly DEF RetryFails, RetryOnOtherShard
  <2>2. call' = [call EXCEPT ![c] = [call[c] EXCEPT !.tried = @ \cup {s}]]
    BY <1>3 DEF RetryFails, Inv, ClientsOK
  <2>3. [call[c] EXCEPT !.tried = @ \cup {s}] \in Calls
        /\ [call[c] EXCEPT !.tried = @ \cup {s}].n = call[c].n
    BY <1>1 DEF Calls
  <2>4. Goto(c, "elsewhere")
    BY <1>1, <1>3 DEF RetryFails, Goto, Inv, ClientsOK
  <2> QED
    BY <1>1, <2>1, <2>2, <2>3, <2>4, GoneOn DEF PCs
<1> QED
  BY <1>2, <1>3 DEF RetryOnOtherShard

(* A step of client c that writes nothing and leaves its call as it is.      *)
LEMMA OnlyGoes ==
  ASSUME Inv, ClientStep, UNCHANGED <<item, stream, used, refilled, created>>,
         NEW c \in Clients, NEW l \in PCs, Goto(c, l), UNCHANGED <<call, cached>>,
         l \notin {"bumping", "elsewhere"}, l \in {"rewriting", "open"} => Exists(0)
  PROVE  Inv' /\ Grows
<1>1. Table' /\ Grows /\ (Exists(0)' = Exists(0))
  BY ClientOnly, Parameters
<1>2. call[c] \in Calls /\ call[c].n <= item[0].n /\ call' = [call EXCEPT ![c] = call[c]]
  BY CallTypes DEF ClientOK, Inv, ClientsOK
<1> QED
  BY <1>1, <1>2, GoneOn

(* A step of client c that writes nothing and ends its call.                 *)
LEMMA OnlyForgets ==
  ASSUME Inv, ClientStep, UNCHANGED <<item, stream, used, refilled, created>>,
         NEW c \in Clients, Forget(c), cached' = cached
  PROVE  Inv' /\ Grows
<1>1. Table' /\ Grows
  BY ClientOnly
<1> QED
  BY <1>1, Forgotten

(* Giving up the shards.                                                     *)
LEMMA GiveUpStep ==
  ASSUME Inv, NEW c \in Clients, GiveUpShards(c)
  PROVE  Inv' /\ Grows
<1>1. ClientStep /\ UNCHANGED <<item, stream, used, refilled, created, cached>>
  BY DEF GiveUpShards
<1>2. CASE Goto(c, "reading") /\ UNCHANGED call
  BY <1>1, <1>2, OnlyGoes DEF PCs
<1>3. CASE Forget(c)
  BY <1>1, <1>3, OnlyForgets
<1> QED
  BY <1>2, <1>3 DEF GiveUpShards

(* The balance the slow path projects, and what it adds, are integers.       *)
LEMMA Projected ==
  ASSUME Inv
  PROVE  LET tk == IF Exists(0) THEN Refilled(item[0].tk, item[0].rf, Capacity, Rate) ELSE Capacity
         IN  tk \in Int /\ (IF Exists(0) THEN tk - item[0].tk ELSE 0) \in Int
<1>1. item[0].tk \in Int /\ item[0].rf \in Int /\ Capacity \in Int /\ Rate \in Nat /\ now \in Nat
  BY CallTypes, Parameters DEF Inv
<1>2. Refilled(item[0].tk, item[0].rf, Capacity, Rate) \in Int
  BY <1>1, RefilledType
<1> QED
  BY <1>1, <1>2

(* The read of the slow path.                                                *)
LEMMA ReadStep ==
  ASSUME Inv, NEW c \in Clients, Read(c)
  PROVE  Inv' /\ Grows
<1> DEFINE tk == IF Exists(0) THEN Refilled(item[0].tk, item[0].rf, Capacity, Rate) ELSE Capacity
           more == IF Exists(0) THEN tk - item[0].tk ELSE 0
           k == [call[c] EXCEPT !.n = item[0].n, !.rf = item[0].rf, !.refill = more]
<1>1. ClientStep /\ UNCHANGED <<item, stream, used, refilled, created, cached>>
  BY DEF Read
<1>2. more \in Int
  BY Projected
<1>3. /\ call[c] \in Calls /\ item[0].n \in Nat /\ item[0].rf \in Nat /\ item[0].n <= item[0].n
  BY CallTypes, Parameters
<1>4. CASE Forget(c)
  BY <1>1, <1>4, OnlyForgets
<1>5. CASE /\ Goto(c, "writing")
           /\ call' = [call EXCEPT ![c].n = item[0].n, ![c].rf = item[0].rf, ![c].refill = more]
  <2>1. call' = [call EXCEPT ![c] = k]
    BY <1>5 DEF Inv, ClientsOK
  <2> HIDE DEF more
  <2>2. k \in Calls /\ k.n = item[0].n
    BY <1>2, <1>3 DEF Calls
  <2> HIDE DEF k
  <2>3. Table' /\ Grows
    BY <1>1, ClientOnly
  <2> QED
    BY <1>1, <1>3, <1>5, <2>1, <2>2, <2>3, GoneOn DEF PCs
<1> QED
  BY <1>4, <1>5 DEF Read

(* The call of a client that found its tokens in shard 0.                    *)
LEMMA InShardZero ==
  ASSUME Inv, NEW c \in Clients, call' = [call EXCEPT ![c].shard = 0], Goto(c, "open"),
         cached' = cached, Table', Grows, Exists(0)'
  PROVE  Inv'
<1>1. /\ call[c] \in Calls /\ call[c].n <= item[0].n /\ 0 \in Shards
  BY CallTypes, Parameters DEF ClientOK
<1>2. call' = [call EXCEPT ![c] = [call[c] EXCEPT !.shard = 0]]
  BY DEF Inv, ClientsOK
<1>3. [call[c] EXCEPT !.shard = 0] \in Calls /\ [call[c] EXCEPT !.shard = 0].n = call[c].n
  BY <1>1 DEF Calls
<1> QED
  BY <1>1, <1>2, <1>3, GoneOn DEF PCs

(* The creation of shard 0.                                                  *)
LEMMA CreateStep ==
  ASSUME Inv, NEW c \in Clients, Create(c)
  PROVE  Inv' /\ Grows
<1> DEFINE new == [n |-> 1, tk |-> Capacity - call[c].req, wcu |-> WcuCapacity, rf |-> now]
<1>1. call[c].req \in Nat /\ call[c].req \in Int /\ now \in Nat /\ Capacity \in Nat /\ WcuCapacity \in Nat
      /\ MaxShards \in Nat \ {0} /\ 0 \in Shards /\ item[0].n \in Nat
  BY CallTypes, Parameters DEF Inv
<1>2. new \in Items /\ new.n = 1 /\ new.tk = Capacity - call[c].req /\ new.wcu >= 0
  <2>1. Capacity - call[c].req \in Int
    BY <1>1
  <2> QED
    BY <1>1, <2>1 DEF Items
<1>3. item' = [item EXCEPT ![0] = new] /\ stream' = stream /\ ~Exists(0) /\ ClientStep
      /\ used' = [used EXCEPT ![0] = @ + call[c].req] /\ refilled' = refilled
      /\ created' = [created EXCEPT ![0] = Capacity] /\ cached' = cached
      /\ Goto(c, "open") /\ call' = [call EXCEPT ![c].shard = 0]
  BY DEF Create, Consumes
<1> HIDE DEF new
<1>4. MayBecome(0, new)
  <2>1. item[0].n <= 1 /\ 1 <= MaxShards
    BY <1>1, <1>3 DEF Exists
  <2> QED
    BY <1>2, <2>1 DEF MayBecome
<1>5. Table /\ NoMoreWork
  BY <1>3 DEF Inv, Table, ClientStep, NoMoreWork, WorkOK
<1>6. Capacity \in 0..(IF 0 = 0 THEN Capacity ELSE Capacity \div 2)
  BY <1>1
<1>7. Table' /\ Grows
  BY <1>1, <1>2, <1>3, <1>4, <1>5, <1>6, Created
<1>8. Exists(0)'
  BY <1>1, <1>2, <1>3 DEF Exists, Inv, ItemsOK
<1> QED
  BY <1>3, <1>7, <1>8, InShardZero

(* The write with the lock.                                                  *)
LEMMA WriteNormalStep ==
  ASSUME Inv, NEW c \in Clients, WriteNormal(c)
  PROVE  Inv' /\ Grows
<1> DEFINE new == [item[0] EXCEPT !.tk = @ + call[c].refill - call[c].req, !.rf = now]
<1>1. /\ call[c].req \in Int /\ call[c].refill \in Int /\ now \in Nat /\ item[0] \in Items
      /\ item[0].tk \in Int /\ item[0].n \in Nat /\ item[0].n <= MaxShards
      /\ call[c].n > 0 /\ call[c].n \in Nat /\ call[c].n <= item[0].n
  BY CallTypes, Parameters DEF Inv, WriteNormal, Normal, ClientOK
<1>2. new \in Items /\ new.n = item[0].n /\ new.tk = item[0].tk + call[c].refill - call[c].req
      /\ new.wcu = item[0].wcu
  <2>1. item[0].tk + call[c].refill - call[c].req \in Int
    BY <1>1
  <2> QED
    BY <1>1, <2>1 DEF Items
<1>3. /\ Write(0, new, call[c].req, 0) /\ ClientStep /\ created' = created
      /\ used' = [used EXCEPT ![0] = @ + call[c].req]
      /\ refilled' = [refilled EXCEPT ![0] = @ + call[c].refill]
      /\ Goto(c, "open") /\ call' = [call EXCEPT ![c].shard = 0] /\ cached' = cached
  BY DEF WriteNormal
<1> HIDE DEF new
<1>4. Exists(0) /\ new.n >= item[0].n /\ new.n <= MaxShards
  BY <1>1, <1>2 DEF Exists
<1>5. Table' /\ Grows /\ Exists(0)'
  BY <1>1, <1>2, <1>3, <1>4, ShardZeroWritten
<1> QED
  BY <1>3, <1>5, InShardZero

(* The write with the lock that fails.                                       *)
LEMMA WriteFailsStep ==
  ASSUME Inv, NEW c \in Clients, WriteFails(c)
  PROVE  Inv' /\ Grows
<1>1. call[c].n \in Nat /\ call[c].n <= item[0].n /\ item[0].n \in Nat
  BY CallTypes, Parameters DEF ClientOK
<1>2. Exists(0)
  BY <1>1 DEF WriteFails, Exists
<1> QED
  BY <1>2, OnlyGoes DEF WriteFails, PCs

(* A write of shard 0 that only consumes d.                                  *)
LEMMA Consumption ==
  ASSUME Inv, ClientStep, created' = created, Exists(0), NEW d \in Int,
         Write(0, [item[0] EXCEPT !.tk = @ - d], d, 0), Consumes(0, d)
  PROVE  Table' /\ Grows /\ Exists(0)'
<1> DEFINE new == [item[0] EXCEPT !.tk = @ - d]
<1>1. item[0] \in Items /\ item[0].tk \in Int /\ item[0].n \in Nat /\ item[0].n <= MaxShards
  BY CallTypes, Parameters
<1>2. new \in Items /\ new.n = item[0].n /\ new.tk = item[0].tk + 0 - d /\ new.wcu = item[0].wcu
  <2>1. item[0].tk - d \in Int /\ item[0].tk - d = item[0].tk + 0 - d
    BY <1>1
  <2> QED
    BY <1>1, <2>1 DEF Items
<1>3. /\ Write(0, new, d, 0) /\ used' = [used EXCEPT ![0] = @ + d]
      /\ (refilled' = refilled /\ 0 = 0) \/ refilled' = [refilled EXCEPT ![0] = @ + 0]
  BY DEF Consumes
<1> HIDE DEF new
<1>4. new.n >= item[0].n /\ new.n <= MaxShards /\ 0 \in Int
  BY <1>1, <1>2
<1> QED
  BY <1>2, <1>3, <1>4, ShardZeroWritten

(* The retry of the slow path.                                               *)
LEMMA SlowRetryStep ==
  ASSUME Inv, NEW c \in Clients, Retry(c)
  PROVE  Inv' /\ Grows
<1>1. /\ ClientStep /\ created' = created /\ cached' = cached /\ pc[c] = "rewriting"
      /\ call[c].req \in Int
  BY CallTypes DEF Retry
<1>2. Exists(0)
  BY <1>1 DEF Inv, ClientsOK, ClientOK
<1>3. CASE /\ Write(0, [item[0] EXCEPT !.tk = @ - call[c].req], call[c].req, 0)
           /\ Consumes(0, call[c].req)
           /\ Goto(c, "open") /\ call' = [call EXCEPT ![c].shard = 0]
  <2>1. Table' /\ Grows /\ Exists(0)'
    BY <1>1, <1>2, <1>3, Consumption
  <2> QED
    BY <1>1, <1>3, <2>1, InShardZero
<1>4. CASE Forget(c) /\ UNCHANGED <<item, stream, used, refilled>>
  BY <1>1, <1>4, OnlyForgets
<1> QED
  BY <1>3, <1>4 DEF Retry

(* The end of a lease.                                                       *)
LEMMA SettleStep ==
  ASSUME Inv, NEW c \in Clients, NEW d \in Changes \cup {-n : n \in Requests}, Settle(c, d)
  PROVE  Inv' /\ Grows
<1>1. /\ ClientStep /\ created' = created /\ cached' = cached /\ Forget(c) /\ d \in Int
  BY Parameters DEF Settle
<1>2. Exists(0)
  BY DEF Settle, Inv, ClientsOK, ClientOK
<1>3. CASE UNCHANGED <<item, stream, used, refilled>>
  BY <1>1, <1>3, OnlyForgets
<1>4. CASE Write(0, [item[0] EXCEPT !.tk = @ - d], d, 0) /\ Consumes(0, d)
  <2>1. Table' /\ Grows
    BY <1>1, <1>2, <1>4, Consumption
  <2> QED
    BY <1>1, <2>1, Forgotten
<1> QED
  BY <1>3, <1>4 DEF Settle

(* The clients' steps.                                                       *)
LEMMA ClientKeeps ==
  ASSUME Inv, NEW c \in Clients, Client(c)
  PROVE  Inv' /\ Grows
<1>1. ASSUME SettleFixed(c)
      PROVE  Inv' /\ Grows
  BY <1>1, OnlyForgets DEF SettleFixed
<1> QED
  BY <1>1, AcquireStep, BumpStep, RetryStep, GiveUpStep, ReadStep, CreateStep, WriteNormalStep,
     WriteFailsStep, SlowRetryStep, SettleStep DEF Client

-------------------------------------------------------------------------------
(* The aggregator *)

(* What a batch holds.                                                       *)
LEMMA Batch ==
  ASSUME Inv, NEW k \in 1..MaxBatch, k <= Len(stream), NEW b, b = SubSeq(stream, 1, k)
  PROVE  /\ DOMAIN b = 1..k
         /\ \A i \in 1..k : RecOK(b[i]) /\ b[i] \in Records /\ b[i].was >= 1
<1>1. stream \in Seq(Records) /\ \A i \in 1..Len(stream) : RecOK(stream[i]) /\ stream[i].was >= 1
  BY DEF Inv, StreamOK
<1>2. k \in Nat /\ k >= 1
  OBVIOUS
<1>3. DOMAIN b = 1..k /\ \A i \in 1..k : b[i] = stream[i] /\ i \in 1..Len(stream)
  BY <1>1, <1>2
<1>4. \A i \in 1..Len(stream) : stream[i] \in Records
  BY <1>1
<1> QED
  BY <1>1, <1>3, <1>4

(* The aggregated state of a shard is as good as a record of it.             *)
LEMMA StatesOK ==
  ASSUME NEW b, \A i \in DOMAIN b : RecOK(b[i]) /\ b[i] \in Records, NEW st \in States(b)
  PROVE  RecOK(st)
<1>1. PICK p \in Firsts(b) \X Lasts(b) : st = Shard(b, p[1], p[2]) /\ b[p[1]].shard = b[p[2]].shard
  BY DEF States
<1>2. p[1] \in DOMAIN b /\ p[2] \in DOMAIN b
  BY <1>1 DEF Firsts, Lasts
<1>3. /\ RecOK(b[p[1]]) /\ RecOK(b[p[2]]) /\ b[p[2]] \in Records
  BY <1>2
<1>4. /\ st.shard = b[p[2]].shard /\ st.n = b[p[1]].n /\ st.tk = b[p[2]].tk /\ st.wcu = b[p[2]].wcu
      /\ st.rf = b[p[2]].rf
  BY <1>1, <1>3 DEF Shard, Records
<1> QED
  BY <1>3, <1>4 DEF RecOK

(* The propagation of a record reaches shards beyond the first that its      *)
(* count covers.                                                             *)
LEMMA PropagationsOK ==
  ASSUME Inv, NEW rec \in Records, RecOK(rec), rec.was >= 1, NEW i, NEW op \in Propagations(rec, i)
  PROVE  OpOK(op)
<1>1. rec.was \in Nat /\ rec.n \in Nat /\ rec.n <= item[0].n /\ item[0].n <= MaxShards /\ item[0].n \in Nat
      /\ rec.n > rec.was /\ MaxShards \in Nat
  BY CallTypes, Parameters DEF Records, RecOK, Propagations
<1>2. ASSUME NEW s \in 1..rec.was - 1 \cup rec.was..rec.n - 1, NEW kind \in {"raise", "clone"},
             op = Op(kind, 3, i, s, rec)
      PROVE  OpOK(op)
  <2>1. s \in Shards /\ s # 0 /\ rec.n >= 2
    BY <1>1, <1>2 DEF Shards
  <2>2. op.kind = kind /\ op.to = s /\ op.rec = rec
    BY <1>2 DEF Op
  <2> QED
    BY <2>1, <2>2 DEF OpOK
<1> QED
  BY <1>2 DEF Propagations

(* Every write planned for a batch is one of OpOK.                           *)
LEMMA PlannedOK ==
  ASSUME Inv, NEW k \in 1..MaxBatch, k <= Len(stream), NEW b, b = SubSeq(stream, 1, k),
         NEW op \in Counts(b) \cup Refills(b) \cup Doublings(b) \cup AllPropagations(b)
  PROVE  OpOK(op)
<1>1. /\ DOMAIN b = 1..k
      /\ \A i \in DOMAIN b : RecOK(b[i]) /\ b[i] \in Records /\ b[i].was >= 1
  BY Batch
<1>2. CASE op \in Counts(b)
  <2>1. PICK i \in DOMAIN b : op = Op("count", 0, i, 0, b[i])
    BY <1>2 DEF Counts
  <2>2. op.kind = "count" /\ op.to = 0 /\ op.rec = b[i]
    BY <2>1 DEF Op
  <2> QED
    BY <1>1, <2>2, Parameters DEF OpOK
<1>3. CASE op \in Refills(b)
  <2>1. PICK st \in States(b) : op = Op("refill", 1, 0, st.shard, st)
    BY <1>3 DEF Refills
  <2>2. RecOK(st)
    BY <1>1, StatesOK
  <2>3. op.kind = "refill" /\ op.to = st.shard /\ op.rec = st
    BY <2>1 DEF Op
  <2> QED
    BY <2>2, <2>3 DEF OpOK, RecOK
<1>4. CASE op \in Doublings(b)
  <2>1. PICK st \in States(b) : op = Op("double", 2, 0, 0, st) /\ 2 * st.n <= MaxShards
    BY <1>4 DEF Doublings
  <2>2. RecOK(st)
    BY <1>1, StatesOK
  <2>3. op.kind = "double" /\ op.to = 0 /\ op.rec = st
    BY <2>1 DEF Op
  <2> QED
    BY <2>1, <2>2, <2>3, Parameters DEF OpOK
<1>5. CASE op \in AllPropagations(b)
  <2>1. PICK i \in DOMAIN b : op \in Propagations(b[i], i)
    BY <1>5 DEF AllPropagations
  <2> QED
    BY <1>1, <2>1, PropagationsOK
<1> QED
  BY <1>2, <1>3, <1>4, <1>5

(* A step that neither the clients nor the items see.                        *)
LEMMA Unseen ==
  ASSUME Inv, NoMoreWork, UNCHANGED <<item, used, refilled, created, pc, call, cached>>,
         stream' = stream \/ \E k \in Nat : stream' = SubSeq(stream, k + 1, Len(stream))
  PROVE  Inv' /\ Grows
<1>1. Table' /\ Grows
  BY Untouched DEF Table, Inv
<1>2. ClientsOK'
  BY <1>1, ClientsSame DEF Inv
<1> QED
  BY <1>1, <1>2 DEF Table, Inv

(* The start of an invocation.                                               *)
LEMMA TakeBatchStep ==
  ASSUME Inv, NEW k \in 1..MaxBatch, TakeBatch(k)
  PROVE  Inv' /\ Grows
<1>1. /\ UNCHANGED <<item, used, refilled, created, pc, call, cached, now>> /\ k \in Nat
      /\ k <= Len(stream)
  BY DEF TakeBatch, clientVars
<1>2. CASE stream' = Drop(k) /\ UNCHANGED <<work, taken>>
  BY <1>1, <1>2, Unseen DEF Drop, NoMoreWork, Inv, WorkOK
<1>3. ASSUME NEW b, b = SubSeq(stream, 1, k), taken' = k, stream' = stream,
             work' = Counts(b) \cup Refills(b) \cup Doublings(b) \cup AllPropagations(b)
      PROVE  Inv' /\ Grows
  <2>1. \A op \in work' : OpOK(op)
    BY <1>1, <1>3, PlannedOK
  <2>2. Grows
    BY <1>1, CallTypes DEF Grows
  <2>3. ItemsOK' /\ AccountsOK' /\ now' \in Nat
    BY <1>1 DEF Inv, ItemsOK, DebtOnShardZero, AccountsOK, FilledOK, Exists
  <2>4. StreamOK'
    BY <1>3, <2>2, StreamKept DEF Inv
  <2>5. ClientsOK'
    BY <1>1, <2>2, ClientsSame DEF Inv
  <2>6. \A op \in work' : OpOK(op)'
    BY <2>1, <2>2, RecKept DEF OpOK, Inv
  <2>7. WorkOK'
    BY <1>1, <1>3, <2>6 DEF WorkOK
  <2> QED
    BY <2>2, <2>3, <2>4, <2>5, <2>7 DEF Inv
<1> QED
  BY <1>2, <1>3 DEF TakeBatch

\* What every write of a batch leaves alone.
Performing(op) ==
  /\ op \in work /\ work' = work \ {op}
  /\ UNCHANGED <<taken, now, used, pc, call, cached>>

(* A write of the batch, or its failure, is a step of the table.             *)
LEMMA OpTypes ==
  ASSUME Inv, NEW op, Performing(op)
  PROVE  /\ Table /\ NoMoreWork /\ OpOK(op)
         /\ op.to \in Shards /\ item[op.to] \in Items /\ item[0] \in Items
         /\ item[op.to].n \in Nat /\ item[op.to].tk \in Int /\ item[op.to].wcu \in Int
         /\ item[op.to].n <= item[0].n /\ item[0].n \in Nat /\ item[0].n <= MaxShards
         /\ item[op.to].wcu >= 0 /\ (op.to # 0 => item[op.to].tk >= 0)
         /\ op.rec.n \in Nat /\ op.rec.n >= 1 /\ op.rec.n <= item[0].n /\ op.rec.rf \in Nat
         /\ op.rec.shard \in Shards /\ Exists(op.rec.shard) /\ now \in Nat
<1>1. Table /\ NoMoreWork /\ OpOK(op)
  BY DEF Inv, Table, NoMoreWork, WorkOK, Performing
<1>2. op.to \in Shards /\ RecOK(op.rec)
  BY <1>1 DEF OpOK
<1>3. item[op.to].wcu >= 0 /\ (op.to # 0 => item[op.to].tk >= 0)
  BY <1>2 DEF Inv, ItemsOK, DebtOnShardZero
<1> QED
  BY <1>1, <1>2, <1>3, CallTypes, Parameters DEF RecOK, Inv

(* A refill.                                                                 *)
LEMMA RefillStep ==
  ASSUME Inv, NEW op, Performing(op), RefillApplies(op),
         Write(op.to, [item[op.to] EXCEPT !.tk = @ + TokensAdded(op.rec),
                                          !.wcu = @ + WcuAdded(op.rec), !.rf = now], 0, 0),
         refilled' = [refilled EXCEPT ![op.to] = @ + TokensAdded(op.rec)], created' = created
  PROVE  Table' /\ Grows
<1> DEFINE s == op.to
           e == TokensAdded(op.rec)
           w == WcuAdded(op.rec)
           new == [item[s] EXCEPT !.tk = @ + e, !.wcu = @ + w, !.rf = now]
<1>1. Table /\ NoMoreWork /\ OpOK(op) /\ s \in Shards /\ now \in Nat
  BY OpTypes
<1>2. e \in Nat /\ w \in Nat
  BY <1>1, Additions DEF OpOK
<1>3. Write(s, new, 0, 0) /\ refilled' = [refilled EXCEPT ![s] = @ + e] /\ used' = used
  BY DEF Performing
<1>4. Exists(s)
  BY <1>1 DEF RefillApplies, OpOK, RecOK
<1> HIDE DEF e, w
<1>5. item[s] \in Items /\ item[s].tk + e \in Int /\ item[s].wcu + w \in Int /\ item[s].wcu + w >= 0
      /\ (s # 0 => item[s].tk + e >= 0)
  BY <1>2, OpTypes
<1>6. /\ new \in Items /\ new.n = item[s].n /\ new.tk = item[s].tk + e /\ new.wcu = item[s].wcu + w
  BY <1>1, <1>5 DEF Items
<1>7. item[s].n >= 1 /\ item[s].n <= item[0].n /\ item[0].n <= MaxShards /\ item[s].n \in Nat
  BY <1>4, OpTypes DEF Exists
<1> HIDE DEF new
<1>8. MayBecome(s, new)
  BY <1>5, <1>6, <1>7 DEF MayBecome
<1>9. 0 \in Int /\ e \in Int /\ new.tk = item[s].tk + e - 0
  BY <1>2, <1>5, <1>6
<1>10. (used' = used /\ 0 = 0) \/ used' = [used EXCEPT ![s] = @ + 0]
  BY <1>3
<1> HIDE DEF s
<1> QED
  BY <1>1, <1>3, <1>4, <1>8, <1>9, <1>10, Rewritten

(* A write that only raises the count of a shard.                            *)
LEMMA CountWritten ==
  ASSUME Inv, NEW op, Performing(op), NEW s \in Shards, Exists(s), NEW n \in Nat, n >= item[s].n,
         IF s = 0 THEN n <= MaxShards ELSE n <= item[0].n,
         Write(s, [item[s] EXCEPT !.n = n], 0, 0), refilled' = refilled, created' = created
  PROVE  Table' /\ Grows
<1> DEFINE new == [item[s] EXCEPT !.n = n]
<1>1. /\ Table /\ NoMoreWork
  BY OpTypes
<1>2. /\ item[s] \in Items /\ item[s].n \in Nat /\ item[s].tk \in Int
      /\ item[s].wcu >= 0 /\ (s # 0 => item[s].tk >= 0)
  BY CallTypes DEF Inv, ItemsOK, DebtOnShardZero
<1>3. /\ new \in Items /\ new.n = n /\ new.tk = item[s].tk /\ new.wcu = item[s].wcu
  BY <1>2 DEF Items
<1>4. Write(s, new, 0, 0)
  OBVIOUS
<1> HIDE DEF new
<1>5. MayBecome(s, new) /\ new.tk = item[s].tk + 0 - 0 /\ 0 \in Int
  BY <1>2, <1>3 DEF MayBecome, Exists
<1>6. /\ (used' = used /\ 0 = 0) \/ used' = [used EXCEPT ![s] = @ + 0]
      /\ (refilled' = refilled /\ 0 = 0) \/ refilled' = [refilled EXCEPT ![s] = @ + 0]
  BY DEF Performing
<1> QED
  BY <1>1, <1>4, <1>5, <1>6, Rewritten

(* A clone.                                                                  *)
LEMMA CloneStep ==
  ASSUME Inv, NEW op, Performing(op), CloneApplies(op), stream' = stream, refilled' = refilled,
         item' = [item EXCEPT ![op.to] = [n |-> op.rec.n, tk |-> Capacity \div op.rec.n,
                                          wcu |-> WcuCapacity, rf |-> op.rec.rf]],
         created' = [created EXCEPT ![op.to] = IF @ = 0 THEN Capacity \div op.rec.n ELSE @]
  PROVE  Table' /\ Grows
<1> DEFINE s == op.to
           a == Capacity \div op.rec.n
           new == [n |-> op.rec.n, tk |-> a, wcu |-> WcuCapacity, rf |-> op.rec.rf]
<1>1. Table /\ NoMoreWork /\ s \in Shards /\ s # 0 /\ ~Exists(s) /\ op.rec.n >= 2 /\ op.rec.n \in Nat
      /\ op.rec.n <= item[0].n /\ op.rec.rf \in Nat /\ item[s].n \in Nat
  BY OpTypes DEF CloneApplies, OpOK
<1>2. a \in Nat /\ a \in 0..Capacity \div 2
  BY <1>1, Shares
<1>3. created[s] = 0 /\ item' = [item EXCEPT ![s] = new]
  BY <1>1 DEF Table, AccountsOK, FilledOK
<1>4. created' = [created EXCEPT ![s] = a]
  BY <1>3
<1> HIDE DEF a
<1>5. new \in Items /\ new.n = op.rec.n /\ new.tk = a /\ new.wcu = WcuCapacity /\ new.tk = a - 0 /\ 0 \in Int
  BY <1>1, <1>2, Parameters DEF Items
<1> HIDE DEF new
<1>6. MayBecome(s, new)
  BY <1>1, <1>2, <1>5, Parameters DEF MayBecome, Exists
<1>7. a \in 0..(IF s = 0 THEN Capacity ELSE Capacity \div 2)
      /\ ((used' = used /\ 0 = 0) \/ used' = [used EXCEPT ![s] = @ + 0])
  BY <1>1, <1>2 DEF Performing
<1>8. /\ Table /\ NoMoreWork /\ s \in Shards /\ ~Exists(s) /\ MayBecome(s, new)
      /\ item' = [item EXCEPT ![s] = new] /\ stream' = stream
      /\ refilled' = refilled /\ created' = [created EXCEPT ![s] = a]
  BY <1>1, <1>3, <1>4, <1>6
<1>9. 0 \in Int /\ new.tk = a - 0
  BY <1>5
<1> HIDE DEF s
<1> QED
  BY ONLY <1>7, <1>8, <1>9, Created

(* The writes of an invocation.                                              *)
LEMMA PerformStep ==
  ASSUME Inv, NEW op \in work, Perform(op)
  PROVE  Inv' /\ Grows
<1>1. Performing(op)
  BY DEF Perform, Performing, clientVars
<1>2. Table /\ NoMoreWork /\ OpOK(op)
  BY <1>1, OpTypes
<1>3. Table' /\ Grows
  <2>1. CASE /\ RefillApplies(op)
             /\ Write(op.to, [item[op.to] EXCEPT !.tk = @ + TokensAdded(op.rec),
                                                 !.wcu = @ + WcuAdded(op.rec), !.rf = now], 0, 0)
             /\ refilled' = [refilled EXCEPT ![op.to] = @ + TokensAdded(op.rec)]
             /\ UNCHANGED <<snapshot, created>>
    BY <1>1, <2>1, RefillStep
  <2>2. CASE /\ DoubleApplies(op)
             /\ Write(0, [item[0] EXCEPT !.n = 2 * op.rec.n], 0, 0)
             /\ UNCHANGED <<refilled, snapshot, created>>
    <3>1. op.rec.n = item[0].n /\ op.rec.n \in Nat /\ op.rec.n >= 1 /\ 2 * op.rec.n <= MaxShards
      BY <1>1, <1>2, <2>2, OpTypes DEF DoubleApplies, OpOK
    <3>2. Exists(0) /\ 2 * op.rec.n \in Nat /\ 2 * op.rec.n >= item[0].n
      BY <3>1 DEF Exists
    <3>3. IF 0 = 0 THEN 2 * op.rec.n <= MaxShards ELSE 2 * op.rec.n <= item[0].n
      BY <3>1
    <3> QED
      BY <1>1, <2>2, <3>2, <3>3, CountWritten, Parameters
  <2>3. CASE /\ RaiseApplies(op)
             /\ Write(op.to, [item[op.to] EXCEPT !.n = op.rec.n], 0, 0)
             /\ UNCHANGED <<refilled, snapshot, created>>
    <3>1. op.to # 0 /\ op.to \in Shards /\ Exists(op.to) /\ op.rec.n \in Nat /\ op.rec.n >= item[op.to].n
          /\ op.rec.n <= item[0].n
      BY <1>1, <1>2, <2>3, OpTypes DEF RaiseApplies, OpOK
    <3> QED
      BY <1>1, <2>3, <3>1, CountWritten
  <2>4. CASE /\ CloneApplies(op)
             /\ item' = [item EXCEPT ![op.to] = [n |-> op.rec.n, tk |-> Capacity \div op.rec.n,
                                                 wcu |-> WcuCapacity, rf |-> op.rec.rf]]
             /\ created' = [created EXCEPT ![op.to] = IF @ = 0 THEN Capacity \div op.rec.n ELSE @]
             /\ UNCHANGED <<stream, refilled, snapshot>>
    BY <1>1, <2>4, CloneStep
  <2>5. CASE UNCHANGED <<item, stream, refilled, created>>
    BY <1>1, <1>2, <2>5, Untouched DEF Performing
  <2> QED
    BY <2>1, <2>2, <2>3, <2>4, <2>5 DEF Perform, Effect
<1>4. ClientsOK'
  BY <1>1, <1>3, ClientsSame DEF Inv, Performing
<1> QED
  BY <1>3, <1>4 DEF Inv, Table

-------------------------------------------------------------------------------
(* The theorems *)

(* The invariant holds at the start, with or without a bucket.               *)
LEMMA InvInit ==
  ASSUME Init
  PROVE  Inv
<1>1. PICK n \in StartCounts : /\ item = [s \in Shards |-> FullItem(s, n)]
                               /\ cached = [c \in Clients |-> n]
                               /\ created = [s \in Shards |-> FullItem(s, n).tk]
  BY DEF Init
<1>2. n \in Nat /\ n <= MaxShards /\ n \in {0, 2, 4} /\ MaxShards \in Nat \ {0} /\ 0 \in Shards
  BY <1>1, ShardAssumption DEF Shards
<1>3. Capacity \in Nat \ {0} /\ WcuCapacity \in Nat \ {0} /\ Capacity \div 2 \in Nat
      /\ \A s \in Shards : s \in Nat
  BY Parameters, Shares
<1>4. ASSUME NEW s \in Shards
      PROVE  /\ FullItem(s, n) \in Items
             /\ FullItem(s, n).n = (IF s < n THEN n ELSE 0)
             /\ FullItem(s, n).tk \in 0..(IF s = 0 THEN Capacity ELSE Capacity \div 2)
             /\ FullItem(s, n).wcu >= 0
             /\ FullItem(s, n).n = 0 => FullItem(s, n).tk = 0
  <2>1. CASE n = 0
    BY <1>3, <2>1 DEF FullItem, NoItem, Items
  <2>2. CASE n = 2
    BY <1>3, <2>2 DEF FullItem, NoItem, Items
  <2>3. CASE n = 4
    <3>1. Capacity \div 4 \in 0..Capacity \div 2
      BY <1>3
    <3> QED
      BY <1>3, <2>3, <3>1 DEF FullItem, NoItem, Items
  <2> QED
    BY <1>2, <2>1, <2>2, <2>3
<1>5. item[0].n = n /\ \A s \in Shards : item[s] = FullItem(s, n) /\ item[s].n <= n
  BY <1>1, <1>2, <1>3, <1>4
<1>6. ItemsOK
  BY <1>1, <1>2, <1>3, <1>4, <1>5 DEF ItemsOK, DebtOnShardZero, Items
<1>7. StreamOK /\ WorkOK /\ now \in Nat
  BY DEF Init, StreamOK, WorkOK
<1>8. ClientsOK
  BY <1>1, <1>2, <1>5, Parameters DEF Init, ClientsOK, ClientOK, NoCall, Calls, PCs
<1>9. AccountsOK
  <2>1. used = [s \in Shards |-> 0] /\ refilled = [s \in Shards |-> 0]
    BY DEF Init
  <2>2. created \in [Shards -> Nat] /\ \A s \in Shards : created[s] = item[s].tk /\ item[s].tk \in Nat
    BY <1>1, <1>3, <1>4
  <2>3. ASSUME NEW s \in Shards
        PROVE  FilledOK(s)
    BY <1>4, <1>5, <2>1, <2>2 DEF FilledOK, Exists, Items
  <2> QED
    BY <2>1, <2>2, <2>3 DEF AccountsOK
<1> QED
  BY <1>6, <1>7, <1>8, <1>9 DEF Inv

(* Every step keeps it, and no count shrinks.                                *)
LEMMA InvStep ==
  ASSUME Inv, [Next]_vars
  PROVE  Inv' /\ Grows
<1>1. ASSUME NEW c \in Clients, Client(c)
      PROVE  Inv' /\ Grows
  BY <1>1, ClientKeeps
<1>2. ASSUME NEW k \in 1..MaxBatch, TakeBatch(k)
      PROVE  Inv' /\ Grows
  BY <1>2, TakeBatchStep
<1>3. ASSUME NEW op \in work, Perform(op)
      PROVE  Inv' /\ Grows
  BY <1>3, PerformStep
<1>4. CASE Return
  <2>1. taken \in Nat
    BY DEF Inv, WorkOK
  <2> QED
    BY <1>4, <2>1, Unseen DEF Return, Drop, NoMoreWork, Inv, clientVars
<1>5. ASSUME NEW op \in work, CallFails(op)
      PROVE  Inv' /\ Grows
  BY <1>5, Unseen DEF CallFails, NoMoreWork, Inv, WorkOK, clientVars
<1>6. CASE LambdaDies
  BY <1>6, Unseen DEF LambdaDies, NoMoreWork, Inv, clientVars
<1>7. CASE Tick
  BY <1>7, Unseen DEF Tick, NoMoreWork, Inv, WorkOK, clientVars, streamVars
<1>8. CASE UNCHANGED vars
  BY <1>8, Unseen DEF vars, NoMoreWork, Inv, WorkOK
<1> QED
  BY <1>1, <1>2, <1>3, <1>4, <1>5, <1>6, <1>7, <1>8 DEF Next, Aggregator

(* The invariant is one.                                                     *)
THEOREM InvHolds == Spec => []Inv
<1>1. Init => Inv
  BY InvInit
<1>2. Inv /\ [Next]_vars => Inv'
  BY InvStep
<1> QED
  BY <1>1, <1>2, PTL DEF Spec

(* No cache, no call and no other shard has a count beyond shard 0's: none   *)
(* aims at a shard that shard_count does not cover.                          *)
THEOREM ShardZeroAlwaysLeads == Spec => []ShardZeroLeads
<1>1. Inv => ShardZeroLeads
  BY DEF Inv, ItemsOK, ClientsOK, ClientOK, ShardZeroLeads
<1> QED
  BY <1>1, InvHolds, PTL

(* A shard is given its tokens once, whatever is delivered again, and what   *)
(* all those beyond the first are created with is half the capacity at most. *)
THEOREM ShardsAlwaysFilledOnce == Spec => []ShardsFilledOnce
<1>1. Inv => ShardsFilledOnce
  BY DEF Inv, AccountsOK, FilledOK, ShardsFilledOnce
<1> QED
  BY <1>1, InvHolds, PTL

(* Tokens are owed on shard 0 only, and the wcu limit is never overdrawn.    *)
THEOREM DebtAlwaysOnShardZero == Spec => []DebtOnShardZero
<1>1. Inv => DebtOnShardZero
  BY DEF Inv, ItemsOK
<1> QED
  BY <1>1, InvHolds, PTL

(* No step, of a client or of the aggregator, lowers the count of a shard.   *)
THEOREM CountsNeverShrink == Spec => CountsOnlyGrow
<1>1. Inv /\ [Next]_vars => [\A s \in Shards : item'[s].n >= item[s].n]_item
  BY InvStep DEF Grows
<1> QED
  BY <1>1, InvHolds, PTL DEF Spec, CountsOnlyGrow

-------------------------------------------------------------------------------
(* What the aggregator adds up *)

\* The consumption in the records of s after the k-th.
After(s, k) == SumFunctionOnSet([i \in DOMAIN s |-> s[i].tc], k + 1..Len(s))

(* The consumption in a record is an integer.                                *)
LEMMA TcTyped ==
  ASSUME NEW s \in Seq(Records)
  PROVE  /\ Len(s) \in Nat /\ DOMAIN s = 1..Len(s)
         /\ \A i \in 1..Len(s) : s[i] \in Records /\ s[i].tc \in Int
         /\ [i \in DOMAIN s |-> s[i].tc] \in [1..Len(s) -> Int]
         /\ \A k, n \in Int : IsFiniteSet(k..n)
<1>1. Len(s) \in Nat /\ DOMAIN s = 1..Len(s) /\ \A i \in 1..Len(s) : s[i] \in Records
  OBVIOUS
<1>2. \A r \in Records : r.tc \in Int
  BY DEF Records
<1> QED
  BY <1>1, <1>2, FS_Interval

(* So is the sum of any tail of the stream.                                  *)
LEMMA AfterTyped ==
  ASSUME NEW s \in Seq(Records), NEW k \in 0..Len(s)
  PROVE  After(s, k) \in Int
<1> DEFINE f == [i \in DOMAIN s |-> s[i].tc]
           S == k + 1..Len(s)
<1>1. IsFiniteSet(S) /\ \A i \in S : f[i] \in Int
  BY TcTyped
<1> HIDE DEF f, S
<1>2. SumFunctionOnSet(f, S) \in Int
  BY <1>1, SumInt
<1> QED
  BY <1>2 DEF After, f, S

(* One more record at the end.                                               *)
LEMMA AfterAppend ==
  ASSUME NEW s \in Seq(Records), NEW k \in 0..Len(s), NEW r \in Records
  PROVE  After(Append(s, r), k) = After(s, k) + r.tc
<1> DEFINE t == Append(s, r)
           f == [i \in DOMAIN s |-> s[i].tc]
           g == [i \in DOMAIN t |-> t[i].tc]
           S == k + 1..Len(s)
           x == Len(s) + 1
<1>1. t \in Seq(Records) /\ Len(t) = x /\ t[x] = r /\ \A i \in 1..Len(s) : t[i] = s[i]
  OBVIOUS
<1> HIDE DEF t
<1>2. DOMAIN t = 1..x /\ g \in [1..x -> Int] /\ g[x] = r.tc
  BY <1>1, TcTyped
<1>3. IsFiniteSet(S) /\ x \notin S /\ k + 1..x = S \cup {x} /\ S \subseteq 1..Len(s) /\ S \cup {x} \subseteq 1..x
  BY TcTyped
<1>4. \A i \in S : g[i] = f[i]
  BY <1>1, <1>2, <1>3, TcTyped
<1>5. \A i \in S \cup {x} : g[i] \in Int
  BY <1>2, <1>3
<1> HIDE DEF f, g, S
<1>6. SumFunctionOnSet(g, S \cup {x}) = SumFunctionOnSet(g, S) + g[x]
  <2> HIDE DEF x
  <2> QED
    BY <1>3, <1>5, SumNewElement
<1>7. SumFunctionOnSet(g, S) = SumFunctionOnSet(f, S)
  BY <1>3, <1>4, SumSame
<1>8. After(t, k) = SumFunctionOnSet(g, S \cup {x}) /\ After(s, k) = SumFunctionOnSet(f, S)
  <2>1. After(t, k) = SumFunctionOnSet(g, k + 1..x)
    BY <1>1 DEF After, g
  <2>2. SumFunctionOnSet(g, k + 1..x) = SumFunctionOnSet(g, S \cup {x})
    BY <1>3, Zenon
  <2> QED
    BY <2>1, <2>2 DEF After, f, S
<1> QED
  BY <1>2, <1>6, <1>7, <1>8 DEF t

(* The first k records are dropped.                                          *)
LEMMA AfterDrop ==
  ASSUME NEW s \in Seq(Records), NEW k \in 0..Len(s)
  PROVE  After(SubSeq(s, k + 1, Len(s)), 0) = After(s, k)
<1> DEFINE t == SubSeq(s, k + 1, Len(s))
           f == [i \in DOMAIN s |-> s[i].tc]
           g == [i \in DOMAIN t |-> t[i].tc]
           S == k + 1..Len(s)
           h == [i \in S |-> i - k]
<1>1. t \in Seq(Records) /\ Len(t) = Len(s) - k /\ \A i \in 1..Len(s) - k : t[i] = s[i + k]
  OBVIOUS
<1> HIDE DEF t
<1>2. IsFiniteSet(S) /\ \A i \in S : f[i] = s[i].tc /\ f[i] \in Int
  BY TcTyped
<1>3. \A i \in S : h[i] \in 1..Len(t) /\ h[i] + k = i
  BY <1>1
<1>4. \A i \in S : g[h[i]] = f[i]
  <2>1. \A j \in 1..Len(t) : g[j] = t[j].tc
    BY <1>1, TcTyped
  <2> HIDE DEF f, g, h
  <2> QED
    BY <1>1, <1>2, <1>3, <2>1
<1>5. \A i, j \in S : h[i] = h[j] => i = j
  BY <1>3
<1>6. {h[i] : i \in S} = 1..Len(t)
  <2>1. ASSUME NEW j \in 1..Len(t)
        PROVE  \E i \in S : h[i] = j
    <3>1. j + k \in S /\ h[j + k] = j
      BY <1>1, <2>1
    <3> QED
      BY <3>1
  <2> HIDE DEF h
  <2> QED
    BY <1>3, <2>1
<1> HIDE DEF f, g, h, S
<1>7. SumFunctionOnSet(g, {h[i] : i \in S}) = SumFunctionOnSet(f, S)
  <2>1. \A i \in S : f[i] \in Int /\ g[h[i]] = f[i]
    BY <1>2, <1>4
  <2> QED
    BY <1>2, <1>5, <2>1, SumImage
<1>8. SumFunctionOnSet(g, {h[i] : i \in S}) = SumFunctionOnSet(g, 1..Len(t))
  BY <1>6, Zenon
<1>9. After(t, 0) = SumFunctionOnSet(g, 1..Len(t))
  <2>1. 0 + 1..Len(t) = 1..Len(t)
    OBVIOUS
  <2>2. After(t, 0) = SumFunctionOnSet(g, 0 + 1..Len(t))
    BY DEF After, g
  <2> QED
    BY <2>1, <2>2, Zenon
<1>10. After(s, k) = SumFunctionOnSet(f, S)
  BY DEF After, f, S
<1> QED
  BY <1>7, <1>8, <1>9, <1>10 DEF t

(* The first k records and the rest.                                         *)
LEMMA AfterSplit ==
  ASSUME NEW s \in Seq(Records), NEW k \in 0..Len(s)
  PROVE  After(s, 0) = SumFunctionOnSet([i \in DOMAIN s |-> s[i].tc], 1..k) + After(s, k)
<1> DEFINE f == [i \in DOMAIN s |-> s[i].tc]
           A == 1..k
           B == k + 1..Len(s)
<1>1. IsFiniteSet(A) /\ IsFiniteSet(B) /\ A \cap B = {} /\ \A i \in A \cup B : f[i] \in Int
  BY TcTyped
<1>2. A \cup B = 0 + 1..Len(s)
  OBVIOUS
<1>3. After(s, 0) = SumFunctionOnSet(f, 0 + 1..Len(s)) /\ After(s, k) = SumFunctionOnSet(f, B)
  BY DEF After
<1> HIDE DEF f, A, B
<1>4. SumFunctionOnSet(f, A \cup B) = SumFunctionOnSet(f, A) + SumFunctionOnSet(f, B)
  BY <1>1, SumDisjoint
<1>5. SumFunctionOnSet(f, A \cup B) = After(s, 0)
  BY <1>2, <1>3, Zenon
<1> QED
  BY <1>3, <1>4, <1>5 DEF f, A

(* Ranks tell the records of a batch apart.                                  *)
LEMMA SameMultiple ==
  ASSUME NEW m \in Nat \ {0}, NEW i \in Nat, NEW j \in Nat, i * m = j * m
  PROVE  i = j
<1>1. ASSUME NEW x \in Nat, NEW y \in Nat, x < y
      PROVE  x * m < y * m
  <2>1. (y - x) * m > 0
    BY <1>1, Z3
  <2>2. (y - x) * m = y * m - x * m
    BY Z3
  <2>3. x * m \in Int /\ y * m \in Int
    BY Z3
  <2> QED
    BY <2>1, <2>2, <2>3
<1>2. CASE i < j
  BY <1>1, <1>2
<1>3. CASE j < i
  BY <1>1, <1>3
<1> QED
  BY <1>2, <1>3

(* A batch's counting writes are those of its records with any consumption,  *)
(* one for each: they add up to what the records do.                         *)
LEMMA CountsAddUp ==
  ASSUME NEW s \in Seq(Records), NEW k \in 0..Len(s), NEW b, b = SubSeq(s, 1, k),
         NEW W, Counts(b) \subseteq W
  PROVE  /\ IsFiniteSet(Counts(b))
         /\ SumFunctionOnSet([op \in W |-> op.rec.tc], Counts(b))
              = SumFunctionOnSet([i \in DOMAIN s |-> s[i].tc], 1..k)
         /\ \A op \in Counts(b) : op.kind = "count" /\ op.to = 0 /\ op.rec \in Records
<1> DEFINE f == [i \in DOMAIN s |-> s[i].tc]
           g == [op \in W |-> op.rec.tc]
           h == [i \in 1..k |-> Op("count", 0, i, 0, b[i])]
           S == {i \in 1..k : f[i] # 0}
<1>1. DOMAIN b = 1..k /\ 1..k \subseteq 1..Len(s) /\ \A i \in 1..k : b[i] = s[i]
  OBVIOUS
<1>2. \A i \in 1..k : f[i] = s[i].tc /\ f[i] \in Int /\ b[i] \in Records
  BY <1>1, TcTyped
<1>3. IsFiniteSet(1..k)
  BY TcTyped
<1>4. IsFiniteSet(S)
  BY <1>3, FS_Subset
<1>5. Counts(b) = {h[i] : i \in S}
  <2>1. Counts(b) = {Op("count", 0, i, 0, b[i]) : i \in {j \in DOMAIN b : b[j].tc # 0}}
    BY DEF Counts
  <2>2. {j \in DOMAIN b : b[j].tc # 0} = S
    BY <1>1, <1>2
  <2>3. \A i \in S : h[i] = Op("count", 0, i, 0, b[i])
    OBVIOUS
  <2> HIDE DEF h, S
  <2> QED
    BY <2>1, <2>2, <2>3
<1>6. \A i \in 1..k : /\ h[i].rank = i * MaxShards /\ h[i].rec = b[i]
                      /\ h[i].kind = "count" /\ h[i].to = 0
  <2>1. MaxBatch \in Nat /\ MaxShards \in Nat
    BY ShardAssumption
  <2>2. \A i \in 1..k : (0 * (MaxBatch + 1) + i) * MaxShards + 0 = i * MaxShards
    BY <2>1, Z3
  <2> QED
    BY <2>2 DEF Op
<1>7. \A i, j \in S : h[i] = h[j] => i = j
  <2> SUFFICES ASSUME NEW i \in 1..k, NEW j \in 1..k, h[i] = h[j]
               PROVE  i = j
    OBVIOUS
  <2>1. i * MaxShards = j * MaxShards
    BY <1>6
  <2> QED
    BY <2>1, SameMultiple, ShardAssumption
<1>8. \A i \in S : f[i] \in Int /\ g[h[i]] = f[i]
  <2>1. \A i \in S : h[i] \in W /\ h[i].rec = b[i] /\ b[i] = s[i] /\ f[i] = s[i].tc /\ f[i] \in Int
    <3>1. \A i \in S : i \in 1..k
      OBVIOUS
    <3> HIDE DEF h, f, S
    <3> QED
      BY <1>1, <1>2, <1>5, <1>6, <3>1
  <2> HIDE DEF h, f, S
  <2> QED
    BY <2>1
<1> HIDE DEF f, g, h
<1>9. SumFunctionOnSet(f, 1..k) = SumFunctionOnSet(f, S)
  BY <1>2, <1>3, SumNonzero
<1> HIDE DEF S
<1>10. IsFiniteSet({h[i] : i \in S}) /\ SumFunctionOnSet(g, {h[i] : i \in S}) = SumFunctionOnSet(f, S)
  BY <1>4, <1>7, <1>8, SumImage
<1>11. SumFunctionOnSet(g, {h[i] : i \in S}) = SumFunctionOnSet(g, Counts(b)) /\ IsFiniteSet(Counts(b))
  BY <1>5, <1>10, Zenon
<1>12. \A op \in Counts(b) : op.kind = "count" /\ op.to = 0 /\ op.rec \in Records
  <2>1. \A i \in S : i \in 1..k
    BY DEF S
  <2> QED
    BY <1>2, <1>5, <1>6, <2>1
<1> QED
  BY <1>9, <1>10, <1>11, <1>12 DEF f, g

-------------------------------------------------------------------------------
(* Types, and the usage that is counted                                      *)

Kinds == {"count", "refill", "double", "raise", "clone"}
WorkTyped == \A op \in work : op.kind \in Kinds /\ RecordOK(op.rec)
HistoryTyped ==
  snapshot \in Int /\ inserted \in Nat /\ dropped \in BOOLEAN /\ acquires \in Nat /\ faults \in Nat

CountOps == {op \in work : op.kind = "count"}
InWork == SumFunctionOnSet([op \in work |-> op.rec.tc], CountOps)
Net == SumFunctionOnSet(used, Shards)

\* There is work only for a batch, of records that are in the stream.
BatchOK == taken <= Len(stream) /\ (taken = 0 => work = {}) /\ IsFiniteSet(CountOps)

\* Nothing was inserted before there was an item.
UsageInv ==
  /\ WorkTyped /\ HistoryTyped /\ BatchOK
  /\ faults = 0 => snapshot + (After(stream, taken) + InWork) = Net - inserted
  /\ Exists(0) \/ inserted = 0

(* The account is the property the runs check.                               *)
LEMMA UsageMeans ==
  UsageInv => UsageIsCounted
BY DEF UsageInv, UsageIsCounted, Uncounted, After, InWork, CountOps, Net

(* The shards are finitely many, and their accounts integers.                *)
LEMMA NetTyped ==
  ASSUME AccountsOK
  PROVE  Net \in Int /\ IsFiniteSet(Shards) /\ \A s \in Shards : used[s] \in Int
<1>1. IsFiniteSet(Shards)
  BY ShardAssumption, FS_Interval DEF Shards
<1>2. \A s \in Shards : used[s] \in Int
  BY DEF AccountsOK
<1> QED
  BY <1>1, <1>2, SumInt DEF Net

(* So is the work, and its amounts.                                          *)
LEMMA InWorkTyped ==
  ASSUME WorkTyped, BatchOK
  PROVE  InWork \in Int /\ IsFiniteSet(CountOps) /\ \A op \in work : op.rec.tc \in Int
<1> DEFINE f == [op \in work |-> op.rec.tc]
<1>1. IsFiniteSet(CountOps) /\ \A op \in work : op.rec.tc \in Int
  BY DEF WorkTyped, BatchOK, RecordOK
<1>2. \A op \in CountOps : f[op] \in Int
  BY <1>1 DEF CountOps
<1> HIDE DEF f
<1>3. SumFunctionOnSet(f, CountOps) \in Int
  BY <1>1, <1>2, SumInt
<1> QED
  BY <1>1, <1>3 DEF InWork, f

(* Shard s is consumed of.                                                   *)
LEMMA NetConsumed ==
  ASSUME AccountsOK, NEW s \in Shards, NEW d \in Int, used' = [used EXCEPT ![s] = @ + d]
  PROVE  Net' = Net + d
<1>1. IsFiniteSet(Shards)
  BY NetTyped
<1>2. PICK f : f = used
  OBVIOUS
<1>3. PICK g : g = used'
  OBVIOUS
<1>4. \A y \in Shards : f[y] \in Int /\ g[y] = IF y = s THEN f[y] + d ELSE f[y]
  BY <1>2, <1>3 DEF AccountsOK
<1>5. SumFunctionOnSet(g, Shards) = SumFunctionOnSet(f, Shards) + d
  BY <1>1, <1>4, SumShift
<1> QED
  BY <1>2, <1>3, <1>5 DEF Net

(* A step of a client, which leaves the aggregator alone, with one record for *)
(* what it consumes or none.                                                 *)
ClientWrites ==
  \/ UNCHANGED <<stream, used, inserted>>
  \/ /\ UNCHANGED inserted
     /\ \E s \in Shards, d \in Int : \E new, w :
          stream' = Append(stream, Record(s, new, d, w)) /\ used' = [used EXCEPT ![s] = @ + d]

(* Such a step keeps the account.                                            *)
LEMMA UsageWritten ==
  ASSUME Inv, Inv', UsageInv, Grows, ClientWrites, UNCHANGED <<work, taken, snapshot, dropped, faults>>,
         acquires' \in Nat
  PROVE  UsageInv'
<1>1. stream \in Seq(Records) /\ stream' \in Seq(Records) /\ taken \in 0..Len(stream) /\ AccountsOK
  BY DEF Inv, StreamOK, WorkOK, UsageInv, BatchOK
<1>2. WorkTyped' /\ HistoryTyped'
  BY DEF UsageInv, WorkTyped, HistoryTyped, ClientWrites
<1>3. CountOps' = CountOps /\ InWork' = InWork
  BY DEF CountOps, InWork
<1>4. Exists(0)' \/ inserted' = 0
  <2>1. item'[0].n \in Nat /\ item'[0].n >= item[0].n /\ item[0].n \in Nat
    BY CallTypes, Parameters DEF Grows
  <2> QED
    BY <2>1 DEF UsageInv, Exists, ClientWrites
<1>5. CASE UNCHANGED <<stream, used, inserted>>
  <2>1. BatchOK' /\ After(stream, taken)' = After(stream, taken) /\ Net' = Net
    BY <1>3, <1>5 DEF UsageInv, BatchOK, After, Net
  <2> QED
    BY <1>2, <1>3, <1>4, <1>5, <2>1 DEF UsageInv
<1>6. ASSUME NEW s \in Shards, NEW d \in Int, NEW new, NEW w, UNCHANGED inserted,
             stream' = Append(stream, Record(s, new, d, w)), used' = [used EXCEPT ![s] = @ + d]
      PROVE  UsageInv'
  <2> DEFINE r == Record(s, new, d, w)
  <2>1. r.tc = d
    BY DEF Record
  <2> HIDE DEF r
  <2>2. stream' = Append(stream, r)
    BY <1>6 DEF r
  <2>3. r \in Records
    <3>1. Len(stream') = Len(stream) + 1 /\ stream'[Len(stream) + 1] = r /\ Len(stream) \in Nat
      BY <1>1, <2>2
    <3>2. \A i \in 1..Len(stream') : stream'[i] \in Records
      BY <1>1
    <3> QED
      BY <3>1, <3>2
  <2>4. After(stream', taken) = After(stream, taken) + d
    BY <1>1, <2>1, <2>2, <2>3, AfterAppend
  <2>5. BatchOK'
    BY <1>1, <1>3, <2>2 DEF UsageInv, BatchOK
  <2>6. Net' = Net + d
    BY <1>1, <1>6, NetConsumed
  <2>7. After(stream, taken) \in Int /\ Net \in Int /\ InWork \in Int /\ snapshot \in Int /\ inserted \in Int
    BY <1>1, AfterTyped, NetTyped, InWorkTyped DEF UsageInv, HistoryTyped
  <2>8. After(stream, taken)' = After(stream', taken)
    OBVIOUS
  <2>9. UNCHANGED <<inserted, snapshot, taken>> /\ faults' = faults
    BY <1>6
  <2>10. faults = 0 => snapshot + (After(stream, taken) + InWork) = Net - inserted
    BY DEF UsageInv
  <2>11. After(stream, taken)' = After(stream, taken) + d
    BY <2>4, <2>9
  <2> HIDE DEF After, InWork, Net
  <2>12. faults' = 0 => snapshot' + (After(stream, taken)' + InWork') = Net' - inserted'
    BY ONLY <1>3, <2>6, <2>7, <2>9, <2>10, <2>11
  <2> QED
    BY <1>2, <1>4, <2>5, <2>12 DEF UsageInv
<1> QED
  BY <1>5, <1>6 DEF ClientWrites

(* The creation of shard 0 leaves no record; its consumption is set apart.    *)
LEMMA UsageCreated ==
  ASSUME Inv, Inv', UsageInv, Grows, NEW c \in Clients, Create(c)
  PROVE  UsageInv'
<1>1. /\ ~Exists(0) /\ inserted' = call[c].req /\ call[c].req \in Nat
      /\ UNCHANGED <<stream, acquires, work, taken, snapshot, dropped, faults>>
      /\ used' = [used EXCEPT ![0] = @ + call[c].req]
  BY CallTypes DEF Create, Consumes, ClientStep
<1>2. inserted = 0
  BY <1>1 DEF UsageInv
<1>3. Exists(0)'
  BY Parameters DEF Create, Exists, Inv, ItemsOK
<1>4. Net' = Net + call[c].req
  <2>1. AccountsOK /\ 0 \in Shards /\ call[c].req \in Int
    BY <1>1, Parameters DEF Inv
  <2>2. PICK d \in Int : d = call[c].req
    BY <2>1
  <2>3. used' = [used EXCEPT ![0] = @ + d]
    BY <1>1, <2>2
  <2>4. Net' = Net + d
    BY <2>1, <2>3, NetConsumed
  <2> QED
    BY <2>2, <2>4
<1>5. /\ WorkTyped' /\ HistoryTyped' /\ BatchOK' /\ InWork' = InWork
      /\ After(stream, taken)' = After(stream, taken)
  BY <1>1 DEF UsageInv, WorkTyped, HistoryTyped, BatchOK, InWork, CountOps, After
<1>6. Net \in Int
  BY NetTyped DEF Inv
<1>7. faults' = 0 => snapshot' + (After(stream, taken)' + InWork') = Net' - inserted'
  BY <1>1, <1>2, <1>4, <1>5, <1>6 DEF UsageInv
<1> QED
  BY <1>3, <1>5, <1>7 DEF UsageInv

(* What a client's step writes.                                              *)
LEMMA UsageClient ==
  ASSUME Inv, Inv', UsageInv, Grows, NEW c \in Clients, Client(c)
  PROVE  UsageInv'
<1>1. acquires \in Nat
  BY DEF UsageInv, HistoryTyped
<1>2. ASSUME ClientStep, acquires' \in Nat, ClientWrites
      PROVE  UsageInv'
  BY <1>2, UsageWritten DEF ClientStep
<1>3. ASSUME NEW s \in Shards, NEW new, NEW w, Write(s, new, 0, w), UNCHANGED <<used, inserted>>
      PROVE  ClientWrites
  <2>1. used' = [used EXCEPT ![s] = @ + 0]
    BY <1>3 DEF Inv, AccountsOK
  <2>2. stream' = Append(stream, Record(s, new, 0, w))
    BY <1>3 DEF Write
  <2>3. 0 \in Int
    OBVIOUS
  <2>4. \E d \in Int : stream' = Append(stream, Record(s, new, d, w)) /\ used' = [used EXCEPT ![s] = @ + d]
    BY <2>1, <2>2, <2>3
  <2> QED
    BY <1>3, <2>4 DEF ClientWrites
<1>4. ASSUME NEW s \in Shards, NEW new, NEW w, NEW d \in Int, Write(s, new, d, w),
             used' = [used EXCEPT ![s] = @ + d], UNCHANGED inserted
      PROVE  ClientWrites
  <2>1. stream' = Append(stream, Record(s, new, d, w))
    BY <1>4 DEF Write
  <2> QED
    BY <1>4, <2>1 DEF ClientWrites
<1>5. ASSUME NEW s \in Shards, NEW n \in Requests, Acquire(c, s, n)
      PROVE  UsageInv'
  <2>1. ClientStep /\ acquires' \in Nat /\ UNCHANGED inserted /\ n \in Int
    BY <1>1, <1>5, Parameters DEF Acquire
  <2>2. CASE AcquireHit(c, s, n)
    BY <1>2, <1>4, <2>1, <2>2 DEF AcquireHit, Speculates, Consumes
  <2>3. CASE AcquireFails(c, s, n)
    BY <1>2, <2>1, <2>3 DEF AcquireFails, ClientWrites
  <2> QED
    BY <1>5, <2>2, <2>3 DEF Acquire
<1>6. CASE BumpShardCount(c)
  <2>1. ClientStep /\ acquires' \in Nat /\ UNCHANGED <<inserted, used>>
    BY <1>1, <1>6 DEF BumpShardCount
  <2>2. (\E new : Write(0, new, 0, 0)) \/ UNCHANGED stream
    BY <1>6 DEF BumpShardCount
  <2> QED
    BY <1>2, <1>3, <2>1, <2>2, Parameters DEF ClientWrites
<1>7. ASSUME NEW s \in Shards, RetryOnOtherShard(c, s)
      PROVE  UsageInv'
  <2>1. ClientStep /\ acquires' \in Nat /\ UNCHANGED inserted /\ call[c].req \in Int
    BY <1>1, <1>7, CallTypes DEF RetryOnOtherShard
  <2>2. CASE RetryHit(c, s)
    BY <1>2, <1>4, <2>1, <2>2 DEF RetryHit, Speculates, Consumes
  <2>3. CASE RetryFails(c, s)
    BY <1>2, <2>1, <2>3 DEF RetryFails, ClientWrites
  <2> QED
    BY <1>7, <2>2, <2>3 DEF RetryOnOtherShard
<1>8. CASE GiveUpShards(c) \/ Read(c) \/ WriteFails(c) \/ SettleFixed(c)
  <2>1. ClientStep /\ UNCHANGED <<acquires, inserted, stream, used>>
    BY <1>8 DEF GiveUpShards, Read, WriteFails, SettleFixed
  <2> QED
    BY <1>1, <1>2, <2>1 DEF ClientWrites
<1>9. CASE WriteNormal(c)
  <2>1. /\ ClientStep /\ UNCHANGED <<acquires, inserted>> /\ call[c].req \in Int
        /\ used' = [used EXCEPT ![0] = @ + call[c].req]
        /\ \E new : Write(0, new, call[c].req, 0)
    BY <1>9, CallTypes DEF WriteNormal
  <2> QED
    BY <1>1, <1>2, <1>4, <2>1, Parameters
<1>10. CASE Retry(c)
  <2>1. ClientStep /\ UNCHANGED <<acquires, inserted>> /\ call[c].req \in Int
    BY <1>10, CallTypes DEF Retry
  <2>2. \/ (\E new : Write(0, new, call[c].req, 0)) /\ used' = [used EXCEPT ![0] = @ + call[c].req]
        \/ UNCHANGED <<stream, used>>
    BY <1>10 DEF Retry, Consumes
  <2>3. ClientWrites
    BY <1>4, <2>1, <2>2, Parameters DEF ClientWrites
  <2> QED
    BY <1>1, <1>2, <2>1, <2>3
<1>11. ASSUME NEW d \in Changes \cup {-n : n \in Requests}, Settle(c, d)
       PROVE  UsageInv'
  <2>1. ClientStep /\ UNCHANGED <<acquires, inserted>> /\ d \in Int
    BY <1>11, Parameters DEF Settle
  <2>2. \/ (\E new : Write(0, new, d, 0)) /\ used' = [used EXCEPT ![0] = @ + d]
        \/ UNCHANGED <<stream, used>>
    BY <1>11 DEF Settle, Consumes
  <2>3. ClientWrites
    BY <1>4, <2>1, <2>2, Parameters DEF ClientWrites
  <2> QED
    BY <1>1, <1>2, <2>1, <2>3
<1> QED
  BY <1>5, <1>6, <1>7, <1>8, <1>9, <1>10, <1>11, UsageCreated DEF Client

(* What every step of the aggregator leaves in order.                        *)
LEMMA UsageFrame ==
  ASSUME Inv, Inv', UsageInv, Grows, work' \subseteq work, UNCHANGED <<inserted, acquires>>,
         snapshot' \in Int, dropped' \in BOOLEAN, faults' \in Nat, taken' <= Len(stream'),
         taken' = 0 => work' = {}
  PROVE  WorkTyped' /\ HistoryTyped' /\ BatchOK' /\ (Exists(0)' \/ inserted' = 0)
<1>1. WorkTyped' /\ HistoryTyped'
  BY DEF UsageInv, WorkTyped, HistoryTyped, RecordOK
<1>2. IsFiniteSet(CountOps)'
  <2>1. CountOps' \subseteq CountOps
    BY DEF CountOps
  <2> QED
    BY <2>1, FS_Subset DEF UsageInv, BatchOK
<1>3. item'[0].n \in Nat /\ item'[0].n >= item[0].n /\ item[0].n \in Nat
  BY CallTypes, Parameters DEF Grows
<1>4. Exists(0)' \/ inserted' = 0
  BY <1>3 DEF UsageInv, Exists
<1> QED
  BY <1>1, <1>2, <1>4 DEF BatchOK

(* The stream and the batch in it.                                           *)
LEMMA StreamTyped ==
  ASSUME Inv, UsageInv
  PROVE  /\ stream \in Seq(Records) /\ Len(stream) \in Nat /\ taken \in 0..Len(stream) /\ taken \in Nat
         /\ After(stream, taken) \in Int /\ InWork \in Int /\ Net \in Int
         /\ snapshot \in Int /\ inserted \in Int /\ faults \in Nat
         /\ faults = 0 => snapshot + (After(stream, taken) + InWork) = Net - inserted
<1>1. stream \in Seq(Records) /\ Len(stream) \in Nat /\ taken \in 0..Len(stream) /\ taken \in Nat
  BY DEF Inv, StreamOK, WorkOK, UsageInv, BatchOK
<1>2. After(stream, taken) \in Int
  BY <1>1, AfterTyped
<1>3. InWork \in Int /\ Net \in Int
  BY InWorkTyped, NetTyped DEF UsageInv, Inv
<1> QED
  BY <1>1, <1>2, <1>3 DEF UsageInv, HistoryTyped

(* The work that is left adds up to what it did, less what was counted.      *)
LEMMA WorkLeft ==
  ASSUME WorkTyped, BatchOK, NEW op \in work, work' = work \ {op}
  PROVE  InWork' = InWork - (IF op.kind = "count" THEN op.rec.tc ELSE 0)
<1> DEFINE f == [o \in work |-> o.rec.tc]
           g == [o \in work \ {op} |-> o.rec.tc]
           T == {o \in work \ {op} : o.kind = "count"}
<1>1. IsFiniteSet(CountOps) /\ (\A o \in work : o.rec.tc \in Int) /\ InWork \in Int
  BY InWorkTyped
<1>2. (\A o \in work : f[o] = o.rec.tc) /\ \A o \in T : g[o] = f[o] /\ f[o] \in Int
  BY <1>1
<1>3. T = CountOps \ {op} /\ IsFiniteSet(T)
  <2>1. T = CountOps \ {op}
    BY DEF CountOps
  <2> QED
    BY <1>1, <2>1, FS_Subset
<1>4. InWork = SumFunctionOnSet(f, CountOps) /\ InWork' = SumFunctionOnSet(g, T)
  BY DEF InWork, CountOps
<1>5. \A o \in CountOps : f[o] \in Int
  BY <1>1 DEF CountOps
<1>6. op.kind = "count" => op \in CountOps /\ f[op] = op.rec.tc /\ op.rec.tc \in Int
  BY <1>1 DEF CountOps
<1>7. op.kind # "count" => CountOps \ {op} = CountOps
  BY DEF CountOps
<1> HIDE DEF f, g, T
<1>8. SumFunctionOnSet(g, T) = SumFunctionOnSet(f, T)
  BY <1>2, <1>3, SumSame
<1>9. SumFunctionOnSet(f, T) = SumFunctionOnSet(f, CountOps \ {op}) /\ SumFunctionOnSet(f, T) \in Int
  BY <1>2, <1>3, SumInt
<1>10. CASE op.kind = "count"
  <2>1. SumFunctionOnSet(f, CountOps) = f[op] + SumFunctionOnSet(f, CountOps \ {op})
    BY <1>1, <1>5, <1>6, <1>10, SumElement
  <2> QED
    BY <1>4, <1>6, <1>8, <1>9, <1>10, <2>1
<1>11. CASE op.kind # "count"
  <2>1. SumFunctionOnSet(f, CountOps \ {op}) = SumFunctionOnSet(f, CountOps)
    BY <1>7, <1>11, Zenon
  <2> QED
    BY <1>1, <1>4, <1>8, <1>9, <1>11, <2>1
<1> QED
  BY <1>10, <1>11

(* A write of the batch: a count moves from the work into the snapshot, any  *)
(* other leaves a record of no consumption, or none.                         *)
LEMMA UsagePerform ==
  ASSUME Inv, Inv', UsageInv, Grows, NEW op \in work, Perform(op)
  PROVE  UsageInv'
<1>1. /\ work' = work \ {op} /\ UNCHANGED <<taken, used, inserted, dropped, faults, acquires>>
  BY DEF Perform, clientVars
<1>2. taken # 0
  BY DEF UsageInv, BatchOK
<1>3. InWork' = InWork - (IF op.kind = "count" THEN op.rec.tc ELSE 0)
  BY <1>1, WorkLeft DEF UsageInv
<1>4. Net' = Net
  BY <1>1 DEF Net
<1>5. op.rec.tc \in Int
  BY InWorkTyped DEF UsageInv
<1>6. /\ snapshot' = snapshot + (IF op.kind = "count" THEN op.rec.tc ELSE 0)
      /\ \/ stream' = stream
         \/ \E s \in Shards : \E new : stream' = Append(stream, Record(s, new, 0, 0))
  <2>1. op.to \in Shards /\ 0 \in Shards /\ snapshot \in Int
    BY StreamTyped, Parameters DEF Inv, WorkOK, OpOK
  <2>2. CASE RefillApplies(op) \/ DoubleApplies(op) \/ RaiseApplies(op) \/ CloneApplies(op)
    <3>1. op.kind # "count" /\ snapshot + 0 = snapshot
      BY <2>1, <2>2 DEF RefillApplies, DoubleApplies, RaiseApplies, CloneApplies
    <3>2. snapshot' = snapshot /\ (stream' = stream \/ \E s \in {0, op.to} : \E new : Write(s, new, 0, 0))
      BY <3>1 DEF Perform, Effect
    <3> QED
      BY <2>1, <3>1, <3>2 DEF Write
  <2>3. CASE ~(RefillApplies(op) \/ DoubleApplies(op) \/ RaiseApplies(op) \/ CloneApplies(op))
    BY <2>1, <2>3 DEF Perform, Effect
  <2> QED
    BY <2>2, <2>3
<1>7. After(stream, taken)' = After(stream, taken) /\ Len(stream') >= Len(stream)
  <2>1. stream \in Seq(Records) /\ taken \in 0..Len(stream) /\ After(stream, taken) \in Int
    BY StreamTyped
  <2>2. CASE stream' = stream
    BY <1>1, <2>1, <2>2
  <2>3. ASSUME NEW s \in Shards, NEW new, stream' = Append(stream, Record(s, new, 0, 0))
        PROVE  After(stream, taken)' = After(stream, taken) /\ Len(stream') >= Len(stream)
    <3> DEFINE r == Record(s, new, 0, 0)
    <3>1. r.tc = 0
      BY DEF Record
    <3> HIDE DEF r
    <3>2. stream' = Append(stream, r) /\ Len(stream') = Len(stream) + 1 /\ stream'[Len(stream) + 1] = r
      BY <2>1, <2>3 DEF r
    <3>3. stream' \in Seq(Records) /\ Len(stream) \in Nat
      BY <2>1 DEF Inv, StreamOK
    <3>4. r \in Records
      BY <3>2, <3>3
    <3>5. After(stream', taken) = After(stream, taken) + 0
      BY <2>1, <3>1, <3>2, <3>4, AfterAppend
    <3> QED
      BY <1>1, <2>1, <3>2, <3>3, <3>5
  <2> QED
    BY <1>6, <2>2, <2>3
<1>8. snapshot' \in Int /\ taken' <= Len(stream') /\ taken' # 0 /\ work' \subseteq work
      /\ dropped' \in BOOLEAN /\ faults' \in Nat
  <2>1. Len(stream') \in Nat
    BY DEF Inv, StreamOK
  <2> QED
    BY <1>1, <1>2, <1>5, <1>6, <1>7, <2>1, StreamTyped DEF UsageInv, HistoryTyped
<1>9. WorkTyped' /\ HistoryTyped' /\ BatchOK' /\ (Exists(0)' \/ inserted' = 0)
  BY <1>1, <1>8, UsageFrame
<1>10. faults' = 0 => snapshot' + (After(stream, taken)' + InWork') = Net' - inserted'
  <2>1. /\ After(stream, taken) \in Int /\ InWork \in Int /\ Net \in Int /\ snapshot \in Int /\ inserted \in Int
        /\ faults = 0 => snapshot + (After(stream, taken) + InWork) = Net - inserted
    BY StreamTyped
  <2>2. After(stream, taken)' = After(stream, taken) /\ inserted' = inserted /\ faults' = faults
        /\ snapshot' = snapshot + (IF op.kind = "count" THEN op.rec.tc ELSE 0)
    BY <1>1, <1>6, <1>7
  <2> QED
    BY ONLY <1>3, <1>4, <1>5, <2>1, <2>2
<1> QED
  BY <1>9, <1>10 DEF UsageInv

(* The end of an invocation, with or without its records being done with.    *)
LEMMA UsageReturn ==
  ASSUME Inv, Inv', UsageInv, Grows, Return
  PROVE  UsageInv'
<1>1. /\ work = {} /\ stream' = SubSeq(stream, taken + 1, Len(stream)) /\ taken' = 0
      /\ UNCHANGED <<work, used, snapshot, inserted, dropped, faults, acquires>>
  BY DEF Return, Drop, clientVars
<1>2. After(stream', 0) = After(stream, taken)
  BY <1>1, StreamTyped, AfterDrop
<1>3. After(stream, taken)' = After(stream, taken)
  BY <1>1, <1>2
<1>4. InWork' = InWork /\ Net' = Net
  BY <1>1 DEF InWork, CountOps, Net
<1>5. /\ work' \subseteq work /\ work' = {} /\ snapshot' \in Int /\ dropped' \in BOOLEAN /\ faults' \in Nat
      /\ taken' <= Len(stream')
  <2>1. Len(stream') \in Nat
    BY DEF Inv, StreamOK
  <2>2. taken' <= Len(stream')
    <3>1. taken' = 0
      BY <1>1
    <3> QED
      BY ONLY <2>1, <3>1
  <2>3. work' \subseteq work /\ work' = {}
    BY <1>1
  <2> QED
    BY <1>1, <2>2, <2>3 DEF UsageInv, HistoryTyped
<1>6. WorkTyped' /\ HistoryTyped' /\ BatchOK' /\ (Exists(0)' \/ inserted' = 0)
  BY <1>1, <1>5, UsageFrame
<1> QED
  BY <1>1, <1>3, <1>4, <1>6 DEF UsageInv

(* After a fault nothing is promised but the types.                          *)
LEMMA UsageFault ==
  ASSUME Inv, Inv', UsageInv, Grows, work' \subseteq work, stream' = stream,
         (taken' = taken) \/ (taken' = 0 /\ work' = {}), faults' = faults + 1, dropped' \in BOOLEAN,
         UNCHANGED <<snapshot, inserted, acquires>>
  PROVE  UsageInv'
<1>1. faults' \in Nat /\ faults' # 0
  BY StreamTyped
<1>2. snapshot' \in Int /\ taken' <= Len(stream') /\ (taken' = 0 => work' = {})
  BY StreamTyped DEF UsageInv, BatchOK
<1>3. WorkTyped' /\ HistoryTyped' /\ BatchOK' /\ (Exists(0)' \/ inserted' = 0)
  BY <1>1, <1>2, UsageFrame
<1> QED
  BY <1>1, <1>3 DEF UsageInv

(* A step that neither the stream nor the work sees.                         *)
LEMMA UsageSame ==
  ASSUME Inv, Inv', UsageInv, Grows,
         UNCHANGED <<work, taken, stream, used, snapshot, inserted, dropped, faults, acquires>>
  PROVE  UsageInv'
<1>1. WorkTyped' /\ HistoryTyped' /\ BatchOK' /\ (Exists(0)' \/ inserted' = 0)
  <2>1. snapshot' \in Int /\ dropped' \in BOOLEAN /\ faults' \in Nat /\ taken' <= Len(stream')
        /\ (taken' = 0 => work' = {}) /\ work' \subseteq work
    BY DEF UsageInv, HistoryTyped, BatchOK
  <2> QED
    BY <2>1, UsageFrame
<1>2. After(stream, taken)' = After(stream, taken) /\ InWork' = InWork /\ Net' = Net
  BY DEF After, InWork, CountOps, Net
<1> QED
  BY <1>1, <1>2 DEF UsageInv

(* What a batch's writes were computed from has the type of a record.        *)
LEMMA PlannedTyped ==
  ASSUME Inv, NEW k \in 1..MaxBatch, k <= Len(stream), NEW b, b = SubSeq(stream, 1, k),
         NEW op \in Counts(b) \cup Refills(b) \cup Doublings(b) \cup AllPropagations(b)
  PROVE  op.kind \in Kinds /\ RecordOK(op.rec) /\ (op \notin Counts(b) => op.kind # "count")
<1>1. DOMAIN b = 1..k /\ \A i \in 1..k : b[i] \in Records
  BY Batch
<1>2. \A r \in Records : RecordOK(r)
  BY DEF Records, RecordOK
<1>3. ASSUME NEW i \in 1..k, NEW kind, NEW stage, NEW to, op = Op(kind, stage, i, to, b[i]), kind \in Kinds
      PROVE  op.kind = kind /\ RecordOK(op.rec)
  BY <1>1, <1>2, <1>3 DEF Op
<1>4. ASSUME NEW st \in States(b)
      PROVE  RecordOK(st)
  <2>1. PICK p \in Firsts(b) \X Lasts(b) : st = Shard(b, p[1], p[2])
    BY DEF States
  <2>2. b[p[1]] \in Records /\ b[p[2]] \in Records
    BY <1>1, <2>1 DEF Firsts, Lasts
  <2>3. ASSUME NEW s
        PROVE  Consumed(b, s) \in Int /\ Written(b, s) \in Int
    <3> DEFINE f == [i \in DOMAIN b |-> b[i].tc]
               g == [i \in DOMAIN b |-> b[i].wcuTc]
               S == Of(b, s)
    <3>1. IsFiniteSet(S) /\ S \subseteq 1..k
      <4>1. S \subseteq 1..k /\ IsFiniteSet(1..k)
        BY <1>1, FS_Interval DEF Of
      <4> QED
        BY <4>1, FS_Subset
    <3>2. \A i \in 1..k : f[i] \in Int /\ g[i] \in Int
      BY <1>1 DEF Records
    <3> HIDE DEF f, g, S
    <3>3. SumFunctionOnSet(f, S) \in Int /\ SumFunctionOnSet(g, S) \in Int
      BY <3>1, <3>2, SumInt
    <3> QED
      BY <3>3 DEF Consumed, Written, f, g, S
  <2>4. PICK n, tc, w, r : /\ n = b[p[1]].n /\ tc = Consumed(b, b[p[2]].shard) /\ w = Written(b, b[p[2]].shard)
                           /\ r = b[p[2]] /\ st = [r EXCEPT !.n = n, !.tc = tc, !.wcuTc = w]
    BY <2>1 DEF Shard
  <2>5. n \in Nat \ {0} /\ tc \in Int /\ w \in Int
    BY <2>2, <2>3, <2>4 DEF Records
  <2>6. st \in Records
    <3>1. r \in Records /\ st = [r EXCEPT !.n = n, !.tc = tc, !.wcuTc = w]
      BY <2>2, <2>4
    <3> QED
      BY ONLY <2>5, <3>1 DEF Records
  <2> QED
    BY <1>2, <2>6
<1>5. CASE op \in Counts(b)
  <2>1. PICK i \in 1..k : op = Op("count", 0, i, 0, b[i])
    BY <1>1, <1>5 DEF Counts
  <2> QED
    BY <1>3, <1>5, <2>1 DEF Kinds
<1>6. CASE op \in Refills(b)
  <2>1. PICK st \in States(b) : op = Op("refill", 1, 0, st.shard, st)
    BY <1>6 DEF Refills
  <2>2. op.kind = "refill" /\ op.rec = st
    BY <2>1 DEF Op
  <2> QED
    BY <1>4, <2>2 DEF Kinds
<1>7. CASE op \in Doublings(b)
  <2>1. PICK st \in States(b) : op = Op("double", 2, 0, 0, st)
    BY <1>7 DEF Doublings
  <2>2. op.kind = "double" /\ op.rec = st
    BY <2>1 DEF Op
  <2> QED
    BY <1>4, <2>2 DEF Kinds
<1>8. CASE op \in AllPropagations(b)
  <2>1. PICK i \in 1..k : op \in Propagations(b[i], i)
    BY <1>1, <1>8 DEF AllPropagations
  <2>2. PICK kind \in {"raise", "clone"} : \E s : op = Op(kind, 3, i, s, b[i])
    <3> DEFINE R == {Op("raise", 3, i, s, b[i]) : s \in 1..b[i].was - 1}
               C == {Op("clone", 3, i, s, b[i]) : s \in b[i].was..b[i].n - 1}
    <3>1. op \in R \cup C
      BY <2>1 DEF Propagations
    <3>2. CASE op \in R
      <4>1. PICK s : op = Op("raise", 3, i, s, b[i])
        BY <3>2
      <4> QED
        BY <4>1, Zenon
    <3>3. CASE op \in C
      <4>1. PICK s : op = Op("clone", 3, i, s, b[i])
        BY <3>3
      <4> QED
        BY <4>1, Zenon
    <3> QED
      BY <3>1, <3>2, <3>3
  <2>3. kind \in Kinds /\ kind # "count"
    BY DEF Kinds
  <2> QED
    BY <1>3, <2>2, <2>3
<1> QED
  BY <1>5, <1>6, <1>7, <1>8

(* The start of an invocation: what the batch's records consumed passes from *)
(* the stream to the work, and is nothing if the batch is passed over.       *)
LEMMA UsageTakeBatch ==
  ASSUME Inv, Inv', UsageInv, Grows, NEW k \in 1..MaxBatch, TakeBatch(k)
  PROVE  UsageInv'
<1>1. PICK s, b : s = stream /\ b = SubSeq(s, 1, k)
  OBVIOUS
<1>2. /\ s \in Seq(Records) /\ k \in 0..Len(s) /\ taken = 0 /\ work = {} /\ Len(s) \in Nat /\ k # 0
      /\ UNCHANGED <<used, snapshot, inserted, faults, acquires>>
  BY <1>1, StreamTyped DEF TakeBatch, clientVars, UsageInv, BatchOK
<1>3. Net' = Net /\ snapshot' \in Int /\ faults' \in Nat /\ inserted' \in Nat /\ acquires' \in Nat
  BY <1>2 DEF Net, UsageInv, HistoryTyped
<1>4. Exists(0)' \/ inserted' = 0
  <2>1. item' = item
    BY DEF TakeBatch
  <2> QED
    BY <1>2, <2>1 DEF UsageInv, Exists
<1>5. InWork = 0
  <2>1. CountOps = {}
    BY <1>2 DEF CountOps
  <2> QED
    BY <2>1, SumEmpty DEF InWork
<1>6. PICK x : x = SumFunctionOnSet([i \in DOMAIN s |-> s[i].tc], 1..k)
  OBVIOUS
<1>7. After(s, 0) = x + After(s, k) /\ After(s, k) \in Int
  BY <1>2, <1>6, AfterSplit, AfterTyped
<1>8. After(stream, taken) = After(s, 0)
  BY <1>1, <1>2
<1>9. CASE Counts(b) = {}
  <2>1. /\ UNCHANGED <<work, taken>> /\ stream' = SubSeq(s, k + 1, Len(s))
        /\ dropped' = (dropped \/ AllPropagations(b) # {})
    BY <1>1, <1>9 DEF TakeBatch, Drop
  <2>2. x = 0
    <3> DEFINE g == [op \in work |-> op.rec.tc]
    <3>1. SumFunctionOnSet(g, Counts(b)) = x
      <4>1. Counts(b) \subseteq work
        BY <1>9
      <4> QED
        BY <1>1, <1>2, <1>6, <4>1, CountsAddUp
    <3> HIDE DEF g
    <3>2. SumFunctionOnSet(g, {}) = 0
      BY SumEmpty
    <3>3. SumFunctionOnSet(g, Counts(b)) = SumFunctionOnSet(g, {})
      BY <1>9, Zenon
    <3> QED
      BY <3>1, <3>2, <3>3
  <2>3. After(stream', 0) = After(s, k)
    BY <1>2, <2>1, AfterDrop
  <2>4. After(stream, taken)' = After(stream, taken)
    <3>1. After(stream, taken)' = After(stream', 0)
      BY <1>2, <2>1
    <3> QED
      BY ONLY <1>7, <1>8, <2>2, <2>3, <3>1
  <2>5. InWork' = InWork
    BY <2>1 DEF InWork, CountOps
  <2>6. dropped' \in BOOLEAN
    BY <2>1
  <2>7. Len(stream') \in Nat
    BY DEF Inv, StreamOK
  <2>8. work' \subseteq work /\ taken' <= Len(stream') /\ (taken' = 0 => work' = {})
    BY <1>2, <2>1, <2>7
  <2>9. WorkTyped' /\ HistoryTyped' /\ BatchOK'
    BY <1>2, <1>3, <2>6, <2>8, UsageFrame
  <2> QED
    BY <1>2, <1>3, <1>4, <2>4, <2>5, <2>9 DEF UsageInv
<1>10. CASE Counts(b) # {}
  <2>1. /\ taken' = k /\ UNCHANGED <<stream, dropped>>
        /\ work' = Counts(b) \cup Refills(b) \cup Doublings(b) \cup AllPropagations(b)
    BY <1>1, <1>10 DEF TakeBatch
  <2>2. PICK W : W = work'
    OBVIOUS
  <2>3. \A op \in W : op.kind \in Kinds /\ RecordOK(op.rec) /\ (op \notin Counts(b) => op.kind # "count")
    <3>1. b = SubSeq(stream, 1, k) /\ k <= Len(stream)
      BY <1>1, <1>2
    <3>2. W = Counts(b) \cup Refills(b) \cup Doublings(b) \cup AllPropagations(b)
      BY <2>1, <2>2
    <3> QED
      BY <3>1, <3>2, PlannedTyped
  <2>4. /\ IsFiniteSet(Counts(b)) /\ \A op \in Counts(b) : op.kind = "count"
        /\ SumFunctionOnSet([op \in W |-> op.rec.tc], Counts(b)) = x
    <3>1. Counts(b) \subseteq W
      BY <2>1, <2>2
    <3> QED
      BY <1>1, <1>2, <1>6, <3>1, CountsAddUp
  <2>5. CountOps' = Counts(b)
    BY <2>1, <2>2, <2>3, <2>4 DEF CountOps
  <2>6. InWork' = x
    <3> DEFINE g == [op \in W |-> op.rec.tc]
    <3>1. InWork' = SumFunctionOnSet(g, CountOps')
      BY <2>2 DEF InWork
    <3> HIDE DEF g
    <3>2. SumFunctionOnSet(g, CountOps') = SumFunctionOnSet(g, Counts(b))
      BY <2>5, Zenon
    <3> QED
      BY <2>4, <3>1, <3>2 DEF g
  <2>7. After(stream, taken)' = After(s, k)
    BY <1>1, <2>1
  <2>8. x \in Int
    <3> DEFINE f == [i \in DOMAIN s |-> s[i].tc]
    <3>1. IsFiniteSet(1..k) /\ \A i \in 1..k : f[i] \in Int
      BY <1>2, TcTyped
    <3>2. x = SumFunctionOnSet(f, 1..k)
      BY <1>6
    <3> HIDE DEF f
    <3> QED
      BY <3>1, <3>2, SumInt
  <2>9. WorkTyped' /\ HistoryTyped' /\ BatchOK'
    <3>1. WorkTyped'
      BY <2>2, <2>3 DEF WorkTyped
    <3>2. dropped' \in BOOLEAN
      BY <2>1 DEF UsageInv, HistoryTyped
    <3>3. taken' <= Len(stream') /\ taken' # 0
      BY <1>1, <1>2, <2>1
    <3>4. IsFiniteSet(CountOps')
      BY <2>4, <2>5
    <3> QED
      BY <1>3, <3>1, <3>2, <3>3, <3>4 DEF HistoryTyped, BatchOK
  <2>10. faults' = 0 => snapshot' + (After(stream, taken)' + InWork') = Net' - inserted'
    <3>1. /\ snapshot \in Int
          /\ faults = 0 => snapshot + (After(stream, taken) + InWork) = Net - inserted
      BY StreamTyped
    <3>2. UNCHANGED <<snapshot, inserted, faults>>
      BY <1>2
    <3> QED
      BY ONLY <1>3, <1>5, <1>7, <1>8, <2>6, <2>7, <2>8, <3>1, <3>2
  <2> QED
    BY <1>4, <2>9, <2>10 DEF UsageInv
<1> QED
  BY <1>9, <1>10

(* The usage is accounted for at the start.                                  *)
LEMMA UsageInit ==
  ASSUME Init, Inv
  PROVE  UsageInv
<1>1. /\ stream = <<>> /\ work = {} /\ taken = 0 /\ snapshot = 0 /\ inserted = 0 /\ dropped = FALSE
      /\ acquires = 0 /\ faults = 0 /\ used = [s \in Shards |-> 0]
  BY DEF Init
<1>2. Len(stream) = 0 /\ stream \in Seq(Records)
  BY <1>1
<1>3. CountOps = {} /\ IsFiniteSet(CountOps)
  <2>1. CountOps = {}
    BY <1>1 DEF CountOps
  <2> QED
    BY <2>1, FS_EmptySet
<1>4. InWork = 0
  BY <1>3, SumEmpty DEF InWork
<1>5. Net = 0
  <2>1. \A s \in Shards : used[s] = 0
    BY <1>1
  <2>2. IsFiniteSet(Shards)
    BY NetTyped DEF Inv
  <2> QED
    BY <2>1, <2>2, SumZero DEF Net
<1>6. After(stream, taken) = 0
  <2> DEFINE f == [i \in DOMAIN stream |-> stream[i].tc]
  <2>1. taken + 1..Len(stream) = {}
    BY <1>1, <1>2
  <2>2. After(stream, taken) = SumFunctionOnSet(f, taken + 1..Len(stream))
    BY DEF After
  <2> HIDE DEF f
  <2>3. SumFunctionOnSet(f, taken + 1..Len(stream)) = SumFunctionOnSet(f, {})
    BY <2>1, Zenon
  <2> QED
    BY <2>2, <2>3, SumEmpty
<1>7. WorkTyped /\ HistoryTyped /\ BatchOK
  <2>1. taken <= Len(stream)
    <3>1. taken = 0
      BY <1>1
    <3> QED
      BY ONLY <1>2, <3>1
  <2>2. WorkTyped /\ HistoryTyped
    <3>1. WorkTyped /\ dropped \in BOOLEAN
      BY <1>1, Zenon DEF WorkTyped
    <3>2. snapshot \in Int /\ inserted \in Nat /\ acquires \in Nat /\ faults \in Nat
      BY <1>1
    <3> QED
      BY <3>1, <3>2 DEF HistoryTyped
  <2>3. taken = 0 => work = {}
    BY <1>1
  <2> QED
    BY <1>3, <2>1, <2>2, <2>3 DEF BatchOK
<1> QED
  BY <1>1, <1>4, <1>5, <1>6, <1>7 DEF UsageInv

(* Every step keeps the account.                                             *)
LEMMA UsageStep ==
  ASSUME Inv, UsageInv, [Next]_vars
  PROVE  UsageInv'
<1>1. Inv' /\ Grows
  BY InvStep
<1>2. ASSUME NEW c \in Clients, Client(c)
      PROVE  UsageInv'
  BY <1>1, <1>2, UsageClient
<1>3. ASSUME NEW k \in 1..MaxBatch, TakeBatch(k)
      PROVE  UsageInv'
  BY <1>1, <1>3, UsageTakeBatch
<1>4. ASSUME NEW op \in work, Perform(op)
      PROVE  UsageInv'
  BY <1>1, <1>4, UsagePerform
<1>5. CASE Return
  BY <1>1, <1>5, UsageReturn
<1>6. ASSUME NEW op \in work, CallFails(op)
      PROVE  UsageInv'
  <2>1. /\ work' \subseteq work /\ faults' = faults + 1 /\ dropped' \in BOOLEAN
        /\ UNCHANGED <<stream, taken, snapshot, inserted, acquires>>
    BY <1>6 DEF CallFails, clientVars
  <2> QED
    BY <1>1, <2>1, UsageFault
<1>7. CASE LambdaDies
  <2>1. /\ work' = {} /\ taken' = 0 /\ faults' = faults + 1
        /\ UNCHANGED <<stream, snapshot, inserted, dropped, acquires>>
    BY <1>7 DEF LambdaDies, clientVars
  <2>2. work' \subseteq work /\ dropped' \in BOOLEAN
    BY <2>1 DEF UsageInv, HistoryTyped
  <2> QED
    BY <1>1, <2>1, <2>2, UsageFault
<1>8. CASE Tick \/ UNCHANGED vars
  BY <1>1, <1>8, UsageSame DEF Tick, vars, clientVars, streamVars
<1> QED
  BY <1>2, <1>3, <1>4, <1>5, <1>6, <1>7, <1>8 DEF Next, Aggregator

(* The two invariants together.                                              *)
THEOREM UsageInvHolds == Spec => [](Inv /\ UsageInv)
<1>1. Init => Inv /\ UsageInv
  BY InvInit, UsageInit
<1>2. (Inv /\ UsageInv) /\ [Next]_vars => (Inv /\ UsageInv)'
  BY InvStep, UsageStep
<1> QED
  BY <1>1, <1>2, PTL DEF Spec

(* Every variable has the type the code gives it, the aggregator's writes    *)
(* among them, whatever batches the stream delivers.                         *)
THEOREM TypeCorrect == Spec => []TypeOK
<1>1. Inv /\ UsageInv => TypeOK
  BY DEF Inv, ItemsOK, StreamOK, WorkOK, OpOK, ClientsOK, AccountsOK, Items, Records, Calls,
         UsageInv, WorkTyped, HistoryTyped, Kinds, TypeOK
<1> QED
  BY <1>1, UsageInvHolds, PTL

(* As long as nothing failed, the usage snapshots, the batch at hand and the *)
(* records still to be read account for all consumption but the first.       *)
THEOREM UsageAlwaysCounted == Spec => []UsageIsCounted
<1>1. UsageInv => UsageIsCounted
  BY UsageMeans
<1> QED
  BY <1>1, UsageInvHolds, PTL
===============================================================================
