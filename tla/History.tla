-------------------------------- MODULE History --------------------------------
(***************************************************************************)
(* What is kept of the past: the usage snapshots the aggregator counts up  *)
(* from the records of the buckets' changes, the audit events that are     *)
(* logged, expire and are archived, and the queries that read both page by *)
(* page while they change.                                                 *)
(*                                                                         *)
(* One entity, resource, limit and shard of the stream; time is counted in *)
(* hours.  The refills and shards the same invocation of the aggregator    *)
(* sees to are in BucketLease and Sharding.  Amounts are whole tokens, so  *)
(* the division by 1000 is exact; the expiry of snapshots, the layout of   *)
(* the archive's objects and the wording of reports are left out.  Queries *)
(* see the last write.                                                     *)
(***************************************************************************)
EXTENDS Integers, Sequences, FiniteSetsExt, Functions

CONSTANTS
  HoursPerDay,
  LastHour,          \* bound on time
  Windows,           \* SNAPSHOT_WINDOWS, in the order it has
  Amounts,           \* consumptions, negative for what is given back
  Loggers,           \* processes that log audit events
  Configured,        \* [client -> audit_retention_days of its stack options, or NoOptions]
  DefaultRetention,
  Delivered,         \* kinds of records that the function's event filter lets through
  EnableArchival,    \* ENABLE_ARCHIVAL
  Asked,             \* filters of the queries
  PageSize,          \* items a query returns at most
  SafetyLimit,       \* snapshots at which get_usage_summary() stops
  MaxEvents,         \* bound on the audit events
  MaxChanges,        \* bound on the writes of the bucket and the audit events together
  MaxFailures        \* bound on failed calls and deaths

Hours == 0..LastHour
Events == 1..MaxEvents
NoOptions == 0
NoEvent == 0

Filters == [window : {"any", "hourly", "daily"}, start : Hours, end : Hours]

ASSUME HistoryAssumption ==
  /\ HoursPerDay \in Nat \ {0} /\ LastHour \in Nat
  /\ Windows \in Seq({"hourly", "daily"})
  /\ Amounts \subseteq Int \ {0}
  /\ Configured \in [Loggers -> Nat] /\ DefaultRetention \in Nat \ {0}
  /\ Delivered \subseteq {"MODIFY", "REMOVE"} /\ EnableArchival \in BOOLEAN
  /\ Asked \subseteq Filters
  /\ PageSize \in Nat \ {0} /\ SafetyLimit \in Nat \ {0}
  /\ MaxEvents \in Nat /\ MaxChanges \in Nat /\ MaxFailures \in Nat

VARIABLES
  hour,      \* the time
  rf,        \* the hour of the bucket's last refill
  stream,    \* records not yet processed, oldest first
  agg,       \* the aggregator's invocation
  snapshots, \* [hour -> snapshot item with that window_start]
  audit,     \* ids of the audit events in the table
  due,       \* [event -> hour of its ttl]
  pending,   \* events with an id that are not put yet
  archive,   \* objects in the bucket: sets of events
  reader,    \* a caller paging through snapshots or events
  issued,    \* ids issued so far
  writes,    \* writes of the bucket so far
  failures,  \* history: failed calls and deaths so far
  put,       \* history: events that were put
  lost,      \* history: events whose archiving failed
  used,      \* history: [hour -> consumption in records with that rf]
  span       \* history: what the reader could have seen since it began

usage == <<hour, rf, stream, agg, snapshots, writes, used>>
trail == <<audit, due, pending, archive, issued, put, lost>>
historyVars == <<usage, trail, reader, failures, span>>

------------------------------------------------------------------------------
(* Windows and snapshots *)

\* get_window_key(); the sort key of the item does not name the kind of window, so
\* that the day's is the item of its first hour.
WindowKey(h, window) == IF window = "hourly" THEN h ELSE h - (h % HoursPerDay)

\* _calculate_window_end(): the last hour of the window.
WindowEnd(start, window) == IF window = "daily" THEN start + HoursPerDay - 1 ELSE start

NoSnapshot == [window |-> "none", count |-> 0, events |-> 0]

Exists(k) == snapshots[k].window # "none"

\* update_snapshot(): the first writer names the window, and all count.
Upserted(item, window, delta) ==
  [window |-> IF item.window = "none" THEN window ELSE item.window,
   count |-> item.count + delta,
   events |-> item.events + 1]

\* The filters are applied to the items a query returned.
Matches(k, item, f) ==
  /\ item.window # "none"
  /\ f.window \in {"any", item.window}
  /\ f.start <= k /\ k <= f.end

\* What the item adds to the total of a summary.
Contribution(k, item, f) == IF Matches(k, item, f) THEN item.count ELSE 0

------------------------------------------------------------------------------
(* Initial state *)

Idle == [taken |-> 0, left |-> {}, events |-> {}]

NoReader == [kind |-> "none", filter |-> [window |-> "any", start |-> 0, end |-> LastHour],
             cursor |-> 0, found |-> 0, total |-> 0, times |-> [e \in Events |-> 0],
             status |-> "done"]

NoSpan == [low |-> [k \in Hours |-> 0], high |-> [k \in Hours |-> 0], there |-> {}]

HistoryInit ==
  /\ hour = 0 /\ rf = 0 /\ stream = <<>> /\ agg = Idle
  /\ snapshots = [k \in Hours |-> NoSnapshot]
  /\ audit = {} /\ due = [e \in Events |-> 0] /\ pending = {} /\ archive = {}
  /\ reader = NoReader
  /\ issued = 0 /\ writes = 0 /\ failures = 0
  /\ put = {} /\ lost = {} /\ used = [h \in Hours |-> 0] /\ span = NoSpan

------------------------------------------------------------------------------
(* The table *)

Tick ==
  /\ hour < LastHour
  /\ hour' = hour + 1
  /\ UNCHANGED <<rf, stream, agg, snapshots, writes, used, trail, reader, failures, span>>

\* The stream has what the filter of the event source lets through.  The template's
\* wants of a removal that the key begins with AUDIT#; the keys of audit events begin
\* with their namespace, so as deployed Delivered is {"MODIFY"}, see NothingUnarchived.
Streamed(kind, rec) == IF kind \in Delivered THEN Append(stream, rec) ELSE stream

\* A write of the bucket: a refill with it moves rf, consumption alone does not.
WriteBucket(d) ==
  /\ writes + issued < MaxChanges
  /\ writes' = writes + 1
  /\ rf' \in {rf, hour}
  /\ stream' = Streamed("MODIFY", [at |-> rf', delta |-> d, event |-> NoEvent])
  /\ used' = [used EXCEPT ![rf'] = @ + d]
  /\ UNCHANGED <<hour, agg, snapshots, trail, reader, failures, span>>

\* _get_audit_retention_days(): only a client with stack options knows what was
\* configured, the record in the table is written where no other looks for it.
Retention(c) == IF Configured[c] = NoOptions THEN DefaultRetention ELSE Configured[c]

\* _log_audit_event(): the id and the ttl are fixed before the item is put.
LogEvent(c) ==
  /\ issued < MaxEvents /\ writes + issued < MaxChanges
  /\ issued' = issued + 1
  /\ pending' = pending \cup {issued'}
  /\ due' = [due EXCEPT ![issued'] = hour + Retention(c) * HoursPerDay]
  /\ UNCHANGED <<usage, audit, archive, put, lost, reader, failures, span>>

PutEvent(e) ==
  /\ e \in pending
  /\ pending' = pending \ {e}
  /\ audit' = audit \cup {e}
  /\ put' = put \cup {e}
  /\ UNCHANGED <<usage, due, archive, issued, lost, reader, failures, span>>

\* The put fails, and with it the call that logged; what it logs is done already.
PutFails(e) ==
  /\ e \in pending /\ failures < MaxFailures
  /\ failures' = failures + 1
  /\ pending' = pending \ {e}
  /\ UNCHANGED <<usage, audit, due, archive, issued, put, lost, reader, span>>

\* The item is deleted some time after its ttl.
Expire(e) ==
  /\ e \in audit /\ due[e] <= hour
  /\ audit' = audit \ {e}
  /\ stream' = Streamed("REMOVE", [at |-> 0, delta |-> 0, event |-> e])
  /\ span' = [span EXCEPT !.there = @ \ {e}]
  /\ UNCHANGED <<hour, rf, agg, snapshots, writes, used, due, pending, archive, issued, put,
                 lost, reader, failures>>

------------------------------------------------------------------------------
(* The aggregator's handler *)

\* Mutant: what was given back is not counted.
PositiveDeltas(n) == {i \in 1..n : stream[i].delta > 0}

\* extract_deltas(): the records among the first n in which the counter changed.
Deltas(n) == {i \in 1..n : stream[i].delta # 0}

\* extract_audit_event(), if archival is enabled.
Expired(n) == IF EnableArchival THEN {stream[i].event : i \in 1..n} \ {NoEvent} ELSE {}

\* The next update: delta after delta, and for each window after window.
First(left) ==
  CHOOSE p \in left : \A q \in left : p[1] < q[1] \/ (p[1] = q[1] /\ p[2] <= q[2])

\* Mutant: a batch that consumed nothing is not looked at any further.
TakeConsumption(n) ==
  /\ agg = Idle /\ n <= Len(stream)
  /\ agg' = [taken |-> n, left |-> Deltas(n) \X DOMAIN Windows,
             events |-> IF Deltas(n) = {} THEN {} ELSE Expired(n)]
  /\ UNCHANGED <<hour, rf, stream, snapshots, writes, used, trail, reader, failures, span>>

\* The records of a batch are its oldest; they stay in the stream until it returns.
TakeBatch(n) ==
  /\ agg = Idle /\ n <= Len(stream)
  /\ agg' = [taken |-> n, left |-> Deltas(n) \X DOMAIN Windows, events |-> Expired(n)]
  /\ UNCHANGED <<hour, rf, stream, snapshots, writes, used, trail, reader, failures, span>>

\* What the reader may have read of the item changes with it.
Widened(k, item) ==
  LET c == Contribution(k, item, reader.filter)
  IN  [span EXCEPT !.low[k] = IF c < @ THEN c ELSE @, !.high[k] = IF c > @ THEN c ELSE @]

UpdateSnapshot ==
  /\ agg.left # {}
  /\ LET p == First(agg.left)
         rec == stream[p[1]]
         window == Windows[p[2]]
         k == WindowKey(rec.at, window)
         item == Upserted(snapshots[k], window, rec.delta)
     IN  /\ snapshots' = [snapshots EXCEPT ![k] = item]
         /\ span' = IF reader.kind = "usage" /\ reader.status = "reading"
                      THEN Widened(k, item) ELSE span
         /\ agg' = [agg EXCEPT !.left = @ \ {p}]
  /\ UNCHANGED <<hour, rf, stream, writes, used, trail, reader, failures>>

\* An update that raises is logged, and the next one tried.
UpdateFails ==
  /\ agg.left # {} /\ failures < MaxFailures
  /\ failures' = failures + 1
  /\ agg' = [agg EXCEPT !.left = @ \ {First(@)}]
  /\ UNCHANGED <<hour, rf, stream, snapshots, writes, used, trail, reader, span>>

\* archive_audit_events(): one object has all events of the batch.
Archive ==
  /\ agg.left = {} /\ agg.events # {}
  /\ archive' = archive \cup {agg.events}
  /\ agg' = [agg EXCEPT !.events = {}]
  /\ UNCHANGED <<hour, rf, stream, snapshots, writes, used, audit, due, pending, issued, put,
                 lost, reader, failures, span>>

\* The error is reported in the answer, which nothing reads: the batch is not retried.
ArchiveFails ==
  /\ agg.left = {} /\ agg.events # {} /\ failures < MaxFailures
  /\ failures' = failures + 1
  /\ lost' = lost \cup agg.events
  /\ agg' = [agg EXCEPT !.events = {}]
  /\ UNCHANGED <<hour, rf, stream, snapshots, writes, used, audit, due, pending, archive, issued,
                 put, reader, span>>

\* Mutant: the records are dropped and the invocation goes on.
ReturnTaken ==
  /\ agg.taken > 0 /\ agg.left = {} /\ agg.events = {}
  /\ stream' = SubSeq(stream, agg.taken + 1, Len(stream))
  /\ UNCHANGED <<hour, rf, agg, snapshots, writes, used, trail, reader, failures, span>>

Return ==
  /\ agg.taken > 0 /\ agg.left = {} /\ agg.events = {}
  /\ stream' = SubSeq(stream, agg.taken + 1, Len(stream))
  /\ agg' = Idle
  /\ UNCHANGED <<hour, rf, snapshots, writes, used, trail, reader, failures, span>>

\* The invocation dies or times out: its records are delivered again, in batches of
\* another size.
Redeliver ==
  /\ agg.taken > 0 /\ failures < MaxFailures
  /\ failures' = failures + 1
  /\ agg' = Idle
  /\ UNCHANGED <<hour, rf, stream, snapshots, writes, used, trail, reader, span>>

------------------------------------------------------------------------------
(* Queries *)

\* A query goes on, newest first, after the key it starts from and stops at the
\* item that makes its page full, if any: whether more follow shows only then.
PageEnds(items, cursor) ==
  {i \in items : i < cursor /\ Cardinality({j \in items : i <= j /\ j < cursor}) >= PageSize}

LastPage(items, cursor) == PageEnds(items, cursor) = {}

\* LastEvaluatedKey, from which the next page goes on.
NextKey(items, cursor) == IF LastPage(items, cursor) THEN 0 ELSE Max(PageEnds(items, cursor))

Page(items, cursor) == {i \in items : NextKey(items, cursor) <= i /\ i < cursor}

Stored == {k \in Hours : Exists(k)}

TotalOf(keys) == SumFunctionOnSet([k \in Hours |-> snapshots[k].count], keys)

\* How often the reader has read each event.
ReadToo(page) == [e \in Events |-> reader.times[e] + IF e \in page THEN 1 ELSE 0]

BeginUsage(f) ==
  /\ reader.kind = "none"
  /\ reader' = [NoReader EXCEPT !.kind = "usage", !.filter = f, !.cursor = LastHour + 1,
                                !.status = "reading"]
  /\ LET now == [k \in Hours |-> Contribution(k, snapshots[k], f)]
     IN  span' = [NoSpan EXCEPT !.low = now, !.high = now]
  /\ UNCHANGED <<usage, trail, failures>>

\* Mutant: paging stops at a page of which nothing matches.
ReadUsageWhileFound ==
  /\ reader.kind = "usage" /\ reader.status = "reading"
  /\ LET matching == {k \in Page(Stored, reader.cursor) : Matches(k, snapshots[k], reader.filter)}
     IN  reader' = [reader EXCEPT
           !.cursor = NextKey(Stored, @),
           !.total = @ + TotalOf(matching),
           !.status = IF LastPage(Stored, reader.cursor) \/ matching = {} THEN "done" ELSE "reading"]
  /\ UNCHANGED <<usage, trail, failures, span>>

\* get_usage_summary() takes page after page of get_usage_snapshots(): what the
\* filters leave of a page may be nothing though more follows.
ReadUsage ==
  /\ reader.kind = "usage" /\ reader.status = "reading"
  /\ LET matching == {k \in Page(Stored, reader.cursor) : Matches(k, snapshots[k], reader.filter)}
         found == reader.found + Cardinality(matching)
     IN  reader' = [reader EXCEPT
           !.cursor = NextKey(Stored, @),
           !.found = found,
           !.total = @ + TotalOf(matching),
           !.status = IF LastPage(Stored, reader.cursor) THEN "done"
                      ELSE IF found >= SafetyLimit THEN "cut" ELSE "reading"]
  /\ UNCHANGED <<usage, trail, failures, span>>

\* The command usage list shows its first page and says whether there are more.
ShowPage ==
  /\ reader.kind = "usage" /\ reader.status = "reading" /\ reader.cursor <= LastHour
  /\ reader' = [reader EXCEPT !.status = "cut"]
  /\ UNCHANGED <<usage, trail, failures, span>>

BeginAudit ==
  /\ reader.kind = "none"
  /\ reader' = [NoReader EXCEPT !.kind = "audit", !.cursor = MaxEvents + 1, !.status = "reading"]
  /\ span' = [NoSpan EXCEPT !.there = audit]
  /\ UNCHANGED <<usage, trail, failures>>

\* Mutant: the page begins with the event it is to start after.
ReadAuditFrom ==
  /\ reader.kind = "audit" /\ reader.status = "reading"
  /\ reader' = [reader EXCEPT
       !.cursor = NextKey(audit, @ + 1),
       !.times = ReadToo(Page(audit, reader.cursor + 1)),
       !.status = IF LastPage(audit, reader.cursor + 1) THEN "done" ELSE "reading"]
  /\ UNCHANGED <<usage, trail, failures, span>>

\* get_audit_events(): after a full page the caller asks again, from its last event.
ReadAudit ==
  /\ reader.kind = "audit" /\ reader.status = "reading"
  /\ reader' = [reader EXCEPT
       !.cursor = NextKey(audit, @),
       !.times = ReadToo(Page(audit, reader.cursor)),
       !.status = IF LastPage(audit, reader.cursor) THEN "done" ELSE "reading"]
  /\ UNCHANGED <<usage, trail, failures, span>>

Report ==
  /\ reader.kind # "none" /\ reader.status # "reading"
  /\ reader' = NoReader /\ span' = NoSpan
  /\ UNCHANGED <<usage, trail, failures>>

Table ==
  \/ Tick
  \/ \E d \in Amounts : WriteBucket(d)
  \/ \E c \in Loggers : LogEvent(c)
  \/ \E e \in Events : PutEvent(e) \/ PutFails(e) \/ Expire(e)

Handler ==
  \/ \E n \in 1..(MaxChanges + MaxEvents) : TakeBatch(n)
  \/ UpdateSnapshot \/ UpdateFails \/ Archive \/ ArchiveFails \/ Return \/ Redeliver

Reader ==
  \/ \E f \in Asked : BeginUsage(f)
  \/ ReadUsage \/ ShowPage \/ BeginAudit \/ ReadAudit \/ Report

HistoryNext == Table \/ Handler \/ Reader

HistorySpec == HistoryInit /\ [][HistoryNext]_historyVars

------------------------------------------------------------------------------
(* Properties *)

\* What the bucket's and the table's streams carry.
StreamRecords == [at : Hours, delta : Amounts \cup {0}, event : Events \cup {NoEvent}]

Readers == [kind : {"none", "usage", "audit"}, filter : Filters, cursor : Nat, found : Nat,
            total : Int, times : [Events -> Nat], status : {"reading", "done", "cut"}]

\* Every variable has its type; the batch at hand is in the stream, and an id is in
\* one place.
HistoryTypeOK ==
  /\ hour \in Hours /\ rf \in 0..hour /\ writes \in Nat /\ used \in [Hours -> Int]
  /\ stream \in Seq(StreamRecords)
  /\ agg \in [taken : 0..Len(stream), left : SUBSET ((DOMAIN stream) \X (DOMAIN Windows)),
              events : SUBSET Events]
  /\ \A p \in agg.left : p[1] <= agg.taken
  /\ snapshots \in [Hours -> [window : {"none", "hourly", "daily"}, count : Int, events : Nat]]
  /\ issued \in 0..MaxEvents /\ audit \cup pending \subseteq 1..issued /\ audit \cap pending = {}
  /\ due \in [Events -> Nat]
  /\ archive \subseteq SUBSET Events /\ lost \subseteq Events /\ put \subseteq 1..issued
  /\ reader \in Readers /\ failures \in Nat
  /\ span \in [low : [Hours -> Int], high : [Hours -> Int], there : SUBSET Events]

\* What was consumed in the hours of a window of the j-th kind.
Consumed(k, j) ==
  SumFunctionOnSet(used, {h \in Hours : WindowKey(h, Windows[j]) = k})

\* The records whose update of that window is still to come.
Uncounted(j) == {i \in DOMAIN stream : i > agg.taken \/ <<i, j>> \in agg.left}

\* What they will add to it.
Waiting(k, j) ==
  SumFunctionOnSet([i \in DOMAIN stream |-> stream[i].delta],
                   {i \in Uncounted(j) : WindowKey(stream[i].at, Windows[j]) = k})

\* However the stream is cut into batches, and with what was given back: as long as
\* no update failed and no invocation died, the item of a key has exactly what was
\* consumed in its windows, but for what waits in the stream and the batch at hand.
SnapshotsAccount ==
  failures = 0 =>
    \A k \in Hours :
      snapshots[k].count =
        SumFunctionOnSet([j \in DOMAIN Windows |-> Consumed(k, j) - Waiting(k, j)], DOMAIN Windows)

\* The audit events the aggregator has been handed or is to be: the
\* removal waits for the handler, or it is archived, or the write of the archive's
\* object failed.
PassedOn == {stream[i].event : i \in DOMAIN stream} \cup (UNION archive) \cup lost

\* The handler loses nothing between the stream and the archive, however removals
\* are cut into batches with other records, delivered again when an invocation dies,
\* or come while another batch is at work.  It is about what the event source
\* delivers, whatever its filter is: the template's delivers no removal at all.
RemovalsArchived ==
  EnableArchival /\ "REMOVE" \in Delivered => put \ audit \subseteq PassedOn

\* What auditing.md:198 says: "expired audit events are automatically archived to S3".
\* It is false of the filter in the template.
NothingUnarchived == EnableArchival => put \ audit \subseteq PassedOn

\* Of a snapshot: "Aggregated usage for a time window", from window_start to
\* window_end, once everything is counted and nothing failed.
CountsItsWindow ==
  failures = 0 /\ stream = <<>> =>
    \A k \in Hours : Exists(k) =>
      snapshots[k].count =
        SumFunctionOnSet(used, k..WindowEnd(k, snapshots[k].window) \cap Hours)

\* A summary that read to the end lies between what its items had least and most
\* since it began: nothing that was there all along is missed, and nothing is
\* counted twice.
SummaryInRange ==
  reader.kind = "usage" /\ reader.status = "done" =>
    /\ SumFunctionOnSet(span.low, Hours) <= reader.total
    /\ reader.total <= SumFunctionOnSet(span.high, Hours)

\* No event is on two pages, and a caller who reads to the last page has seen every
\* event that was there all along, whatever is logged, put late or expires meanwhile.
AuditPagesComplete ==
  reader.kind = "audit" =>
    /\ \A e \in Events : reader.times[e] <= 1
    /\ reader.status = "done" => \A e \in span.there : reader.times[e] = 1
===============================================================================
