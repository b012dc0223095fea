------------------------------- MODULE Store -------------------------------
(***************************************************************************)
(* The store (src/jim/store/repo.py, models.py, interop/trust.py 24-34):   *)
(* MemoryStore and SqlStore driven by one sequence of calls, so that every *)
(* read can be asked of both.  Memory keeps dicts and lists; the database  *)
(* keeps tables of rows with columns of their own, selected, ordered and   *)
(* limited by queries: a set of rows where they are asked for by key, a    *)
(* sequence where every row is read back.                                  *)
(*                                                                         *)
(* Calls are made one after another, each at a later instant (Research and *)
(* MonitorFleet have the overlapping ones).  Money is in integer units;    *)
(* an average is the pair of its terms.  A payload or memo is known by the *)
(* instant it was written at.                                              *)
(***************************************************************************)
EXTENDS Integers, Sequences, FiniteSets
Funs == INSTANCE Functions

CONSTANTS
  BoughtRows,    \* [key, cost, ttl]
  BookedRows,    \* [status, price, data, inference, hit]
  SettledRows,   \* [payer, amount, product, success]
  InsightRows,   \* [key, text]
  MemoRows,      \* [key, fingerprint]
  EventRows,     \* [source, ok]
  WatchRows,     \* [id, created, enabled, wait]: due `wait` instants from now, {} for at once
  RunRows,       \* [id, status, price, data, inference]
  Nearness,      \* [text -> Nat]: cosine to the text searched for
  MemoTTL,       \* memo_cache_ttl_seconds
  MaxCalls       \* bound of a run: calls and waits

\* A row is no more than its columns.
ASSUME LedgerAssumption ==
  /\ \A q \in BookedRows : q = [status |-> q.status, price |-> q.price, data |-> q.data,
                               inference |-> q.inference, hit |-> q.hit]
  /\ \A r \in SettledRows : r = [payer |-> r.payer, amount |-> r.amount, product |-> r.product,
                                success |-> r.success]

\* A monitor's id is salted with the moment it was created at.
ASSUME WatchAssumption ==
  \A v, w \in WatchRows : w.created \in Nat /\ (v.id = w.id <=> v.created = w.created)

VARIABLES mem, sql, instant

storeVars == <<mem, sql, instant>>

EmptyMem == [purchases |-> <<>>, queries |-> <<>>, receipts |-> <<>>, insights |-> <<>>,
             memos |-> <<>>, events |-> <<>>, monitors |-> <<>>, runs |-> <<>>]

EmptySql == [purchases |-> {}, queries |-> <<>>, receipts |-> <<>>, insights |-> {},
             memos |-> {}, events |-> <<>>, monitors |-> {}, runs |-> <<>>]

StoreInit == mem = EmptyMem /\ sql = EmptySql /\ instant = 0

-----------------------------------------------------------------------------
(* Shared vocabulary. *)

With(f, k, v) == [x \in DOMAIN f \cup {k} |-> IF x = k THEN v ELSE f[x]]

Total(rows, Of(_)) == Funs!FoldFunction(LAMBDA r, n : n + Of(r), 0, rows)

\* ORDER BY stamp DESC LIMIT n over the shown rows, whose stamps are distinct: the
\* rows that fewer than n are newer than, each in its place.
Ranked(rows, stamp, shown, n) ==
  LET newer(i) == {j \in shown : stamp[j] > stamp[i]}
  IN  {[place |-> Cardinality(newer(i)), row |-> rows[i]] :
         i \in {x \in shown : Cardinality(newer(x)) < n}}

Latest(rows, shown, n) == Ranked(rows, [i \in DOMAIN rows |-> rows[i].at], shown, n)

\* What a page shows, in whatever order.
Shown(page) == {p.row : p \in page}

RowsWith(table, key) == {r \in table : r.key = key}

Average(total, n) == IF n = 0 THEN <<>> ELSE <<total, n>>

-----------------------------------------------------------------------------
(* Purchases: a dict entry overwritten, a table appended to. *)

MemBuy(m, p, at) ==
  [m EXCEPT !.purchases = With(@, p.key, [cost |-> p.cost, at |-> at, expires |-> at + p.ttl])]

SqlBuy(s, p, at) ==
  [s EXCEPT !.purchases =
     @ \cup {[key |-> p.key, cost |-> p.cost, at |-> at, expires |-> at + p.ttl]}]

Cached(row, at) == [cost |-> row.cost, payload |-> row.at, age |-> at - row.at]

MemCached(m, key, at) ==
  IF key \notin DOMAIN m.purchases \/ m.purchases[key].expires < at THEN {}
  ELSE {Cached(m.purchases[key], at)}

\* A bug: the query does not say which row of the key, and gets the oldest.
SqlCachedFirst(s, key, at) ==
  LET rows == RowsWith(s.purchases, key)
  IN  {Cached(r, at) : r \in {x \in rows : ~(x.expires < at) /\ \A y \in rows : y.at >= x.at}}

SqlCached(s, key, at) ==
  LET rows == RowsWith(s.purchases, key)
  IN  {Cached(r, at) : r \in {x \in rows : ~(x.expires < at) /\ \A y \in rows : y.at <= x.at}}

-----------------------------------------------------------------------------
(* The query ledger. *)

Margin(q) == q.price - q.data - q.inference

MemBook(m, q, at) ==
  [m EXCEPT !.queries = Append(@, [row |-> q, margin |-> Margin(q), at |-> at])]

QueryRecord(q, at) ==
  [status |-> q.status, price |-> q.price, data |-> q.data, inference |-> q.inference,
   hit |-> q.hit, margin |-> Margin(q), at |-> at]

SqlBook(s, q, at) == [s EXCEPT !.queries = Append(@, QueryRecord(q, at))]

\* _record_dict: the columns, back in the shape the summaries take.
Record(r) == [row |-> [status |-> r.status, price |-> r.price, data |-> r.data,
                       inference |-> r.inference, hit |-> r.hit],
              margin |-> r.margin, at |-> r.at]

Recorded(table) == [i \in DOMAIN table |-> Record(table[i])]

MemRecent(m, limit) == Latest(m.queries, DOMAIN m.queries, limit)

SqlRecent(s, limit) ==
  {[p EXCEPT !.row = Record(@)] : p \in Latest(s.queries, DOMAIN s.queries, limit)}

Summary(queries) ==
  LET billable == SelectSeq(queries, LAMBDA q : q.row.status = "ok")
      n        == Len(billable)
      revenue  == Total(billable, LAMBDA q : q.row.price)
      data     == Total(billable, LAMBDA q : q.row.data)
      inferred == Total(billable, LAMBDA q : q.row.inference)
      margin   == revenue - data - inferred
  IN [billable |-> n, total |-> Len(queries), revenue |-> revenue, data |-> data,
      inference |-> inferred, margin |-> margin, avg |-> Average(margin, n),
      pct |-> Average(margin, revenue),
      hitRate |-> Average(Len(SelectSeq(billable, LAMBDA q : q.row.hit)), n)]

-----------------------------------------------------------------------------
(* The settlement audit log. *)

MemSettle(m, r, at) == [m EXCEPT !.receipts = Append(@, [receipt |-> r, at |-> at])]

PaymentReceipt(r, at) ==
  [payer |-> r.payer, amount |-> r.amount, product |-> r.product, success |-> r.success, at |-> at]

SqlSettle(s, r, at) == [s EXCEPT !.receipts = Append(@, PaymentReceipt(r, at))]

Receipt(r) == [receipt |-> [payer |-> r.payer, amount |-> r.amount, product |-> r.product,
                            success |-> r.success], at |-> r.at]

Audited(table) == [i \in DOMAIN table |-> Receipt(table[i])]

MemReceipts(m, limit) == Latest(m.receipts, DOMAIN m.receipts, limit)

SqlReceipts(s, limit) ==
  {[p EXCEPT !.row = Receipt(@)] : p \in Latest(s.receipts, DOMAIN s.receipts, limit)}

\* A payer is an address in some letter case, or missing; .lower() of it.
Payer(r) == IF r.receipt.payer = {} THEN "unknown" ELSE (CHOOSE p \in r.receipt.payer : TRUE).address

Product(r) == IF r.receipt.product = {} THEN "other" ELSE CHOOSE p \in r.receipt.product : TRUE

GroupedBy(rows, Of(_)) ==
  [g \in {Of(rows[i]) : i \in DOMAIN rows} |->
     LET group == SelectSeq(rows, LAMBDA r : Of(r) = g)
     IN [payments |-> Len(group), usdc |-> Total(group, LAMBDA r : r.receipt.amount)]]

ReceiptSummary(receipts) ==
  LET settled == SelectSeq(receipts, LAMBDA r : r.receipt.success)
      revenue == Total(settled, LAMBDA r : r.receipt.amount)
      buyers  == GroupedBy(settled, Payer)
  IN [settlements |-> Len(settled), total |-> Len(receipts), revenue |-> revenue,
      buyers |-> buyers, unique |-> Cardinality(DOMAIN buyers),
      avg |-> Average(revenue, Len(settled)), products |-> GroupedBy(settled, Product)]

-----------------------------------------------------------------------------
(* Insights and memos: upserts by key. *)

MemInsight(m, i) == [m EXCEPT !.insights = With(@, i.key, i.text)]

\* The row of the key, which is unique, is updated; without one, a row is added.
Upserted(table, row) == (table \ RowsWith(table, row.key)) \cup {row}

SqlInsight(s, i) == [s EXCEPT !.insights = Upserted(@, i)]

\* The k nearest texts, by falling cosine: those that fewer than k are nearer
\* than, each in its place (of texts equally near, either may come first).
MemSearch(m, k) ==
  LET score(x)  == Nearness[m.insights[x]]
      nearer(x) == {y \in DOMAIN m.insights : score(y) > score(x)}
  IN  {[place |-> Cardinality(nearer(x)), key |-> x, text |-> m.insights[x]] :
         x \in {y \in DOMAIN m.insights : Cardinality(nearer(y)) < k}}

SqlSearch(s, k) ==
  LET nearer(r) == {x \in s.insights : Nearness[x.text] > Nearness[r.text]}
  IN  {[place |-> Cardinality(nearer(r)), key |-> r.key, text |-> r.text] :
         r \in {x \in s.insights : Cardinality(nearer(x)) < k}}

MemRemember(m, r, at) ==
  [m EXCEPT !.memos = With(@, r.key, [fingerprint |-> r.fingerprint, memo |-> at, at |-> at])]

SqlRemember(s, r, at) ==
  [s EXCEPT !.memos = Upserted(@, [key |-> r.key, fingerprint |-> r.fingerprint, memo |-> at, at |-> at])]

Fresh(row, fingerprint, at) ==
  IF row.fingerprint # fingerprint \/ at - row.at > MemoTTL THEN {}
  ELSE {[memo |-> row.memo, age |-> at - row.at]}

MemMemo(m, r, at) ==
  IF r.key \notin DOMAIN m.memos THEN {} ELSE Fresh(m.memos[r.key], r.fingerprint, at)

SqlMemo(s, r, at) ==
  UNION {Fresh(row, r.fingerprint, at) : row \in RowsWith(s.memos, r.key)}

-----------------------------------------------------------------------------
(* Trust. *)

MemTrust(m, e, at) == [m EXCEPT !.events = Append(@, [source |-> e.source, ok |-> e.ok, at |-> at])]

SqlTrust(s, e, at) == [s EXCEPT !.events = Append(@, [source |-> e.source, ok |-> e.ok, at |-> at])]

LaplaceScore(ok, fail) == <<ok + 1, ok + fail + 2>>

Scores(events) ==
  [src \in {events[i].source : i \in DOMAIN events} |->
     LET its  == SelectSeq(events, LAMBDA e : e.source = src)
         ok   == Len(SelectSeq(its, LAMBDA e : e.ok))
     IN [ok |-> ok, fail |-> Len(its) - ok, last |-> its[Len(its)].at,
         score |-> LaplaceScore(ok, Len(its) - ok)]]

-----------------------------------------------------------------------------
(* Monitors: the whole row, and in SQL the columns the scheduler asks by. *)

WatchRow(w, at) ==
  [id |-> w.id, created |-> w.created, enabled |-> w.enabled, next |-> {at + d : d \in w.wait}]

MemSave(m, row) == [m EXCEPT !.monitors = With(@, row.id, row)]

\* The column created_at is that of the table's row, which an update leaves alone.
Added(table, id, at) ==
  IF RowsWith(table, id) = {} THEN at ELSE (CHOOSE r \in RowsWith(table, id) : TRUE).at

SqlSave(s, row, at) ==
  [s EXCEPT !.monitors = Upserted(@, [key |-> row.id, enabled |-> row.enabled, next |-> row.next,
                                      data |-> row, at |-> Added(@, row.id, at)])]

MemGet(m, id) == IF id \in DOMAIN m.monitors THEN {m.monitors[id]} ELSE {}

SqlGet(s, id) == {r.data : r \in RowsWith(s.monitors, id)}

\* By the created_at in the row; by the column.
MemList(m, enabledOnly) ==
  LET shown == {id \in DOMAIN m.monitors : enabledOnly => m.monitors[id].enabled}
  IN  {[place |-> Cardinality({y \in shown : m.monitors[y].created < m.monitors[x].created}),
        row   |-> m.monitors[x]] : x \in shown}

SqlList(s, enabledOnly) ==
  LET shown == {r \in s.monitors : enabledOnly => r.enabled}
  IN  {[place |-> Cardinality({y \in shown : y.at < x.at}), row |-> x.data] : x \in shown}

MemDelete(m, id) == [m EXCEPT !.monitors = [x \in DOMAIN @ \ {id} |-> @[x]]]

SqlDelete(s, id) == [s EXCEPT !.monitors = @ \ RowsWith(@, id)]

Sooner(a, b) == \E s \in a, t \in b : s < t

\* A monitor without a time sorts first in memory, as "", and last in Postgres, as
\* NULL; of equal times either may come first.
MemDue(m, at) ==
  LET due == {id \in DOMAIN m.monitors :
                m.monitors[id].enabled /\ \A t \in m.monitors[id].next : t <= at}
      Before(a, b) == Sooner(a, b) \/ (a = {} /\ b # {})
  IN  {[place |-> Cardinality({y \in due : Before(m.monitors[y].next, m.monitors[x].next)}),
        row   |-> m.monitors[x]] : x \in due}

SqlDue(s, at) ==
  LET due == {r \in s.monitors : r.enabled /\ \A t \in r.next : t <= at}
      Before(a, b) == Sooner(a, b) \/ (a # {} /\ b = {})
  IN  {[place |-> Cardinality({y \in due : Before(y.next, x.next)}), row |-> x.data] : x \in due}

-----------------------------------------------------------------------------
(* Monitor runs: each row has its ran_at, the instant the run began at. *)

MemRan(m, r, ran) == [m EXCEPT !.runs = Append(@, [run |-> r, ran |-> ran])]

MonitorRunRow(r, ran, at) ==
  [id |-> r.id, status |-> r.status, material |-> r.status = "material", price |-> r.price,
   data |-> r.data, inference |-> r.inference, run |-> r, ran |-> ran, at |-> at]

SqlRan(s, r, ran, at) == [s EXCEPT !.runs = Append(@, MonitorRunRow(r, ran, at))]

Told(r) == [run |-> r.run, ran |-> r.ran]

\* monitor_id, material_only, then newest first, then the limit; the newest is
\* the last to begin in memory, the last to be inserted in the table.
MemFeed(m, limit, ids, materialOnly) ==
  LET shown == {i \in DOMAIN m.runs : m.runs[i].run.id \in ids
                  /\ (materialOnly => m.runs[i].run.status = "material")}
  IN  Ranked(m.runs, [i \in DOMAIN m.runs |-> m.runs[i].ran], shown, limit)

SqlFeed(s, limit, ids, materialOnly) ==
  LET shown == {i \in DOMAIN s.runs : s.runs[i].id \in ids
                  /\ (materialOnly => s.runs[i].material)}
  IN  {[p EXCEPT !.row = Told(@)] : p \in Latest(s.runs, shown, limit)}

RunSummary(runs) ==
  LET Of(status) == SelectSeq(runs, LAMBDA r : r.status = status)
      material   == Of("material")
  IN [total |-> Len(runs), updates |-> Len(material), quiet |-> Len(Of("quiet")),
      baseline |-> Len(Of("baseline")), errors |-> Len(Of("error")),
      rate |-> Average(Len(material), Len(runs)),
      revenue |-> Total(material, LAMBDA r : r.price),
      data |-> Total(runs, LAMBDA r : r.data),
      inference |-> Total(runs, LAMBDA r : r.inference),
      margin |-> Total(runs, Margin),
      saved |-> Average(Len(Of("quiet")) * Total(material, LAMBDA r : r.inference), Len(material))]

\* What the summary reads of a run, or of the row's columns.
Economics(r) ==
  [status |-> r.status, price |-> r.price, data |-> r.data, inference |-> r.inference]

MemStats(m) == RunSummary([i \in DOMAIN m.runs |-> Economics(m.runs[i].run)])

SqlStats(s) == RunSummary([i \in DOMAIN s.runs |-> Economics(s.runs[i])])

-----------------------------------------------------------------------------
(* One call on both. *)

Both(m, s) == mem' = m /\ sql' = s /\ instant' = instant + 1

Purchase == \E p \in BoughtRows : Both(MemBuy(mem, p, instant), SqlBuy(sql, p, instant))

Query == \E q \in BookedRows : Both(MemBook(mem, q, instant), SqlBook(sql, q, instant))

Settle == \E r \in SettledRows : Both(MemSettle(mem, r, instant), SqlSettle(sql, r, instant))

Derive == \E i \in InsightRows : Both(MemInsight(mem, i), SqlInsight(sql, i))

Remember == \E r \in MemoRows : Both(MemRemember(mem, r, instant), SqlRemember(sql, r, instant))

Vouch == \E e \in EventRows : Both(MemTrust(mem, e, instant), SqlTrust(sql, e, instant))

SaveWatch == \E w \in WatchRows :
  /\ w.created <= instant
  /\ Both(MemSave(mem, WatchRow(w, instant)), SqlSave(sql, WatchRow(w, instant), instant))

Unwatch == \E w \in WatchRows : Both(MemDelete(mem, w.id), SqlDelete(sql, w.id))

\* Runs overlap: one that began later may be recorded first.
RecordRun == \E r \in RunRows, ran \in 0..instant :
  /\ \A i \in DOMAIN mem.runs : mem.runs[i].ran # ran
  /\ Both(MemRan(mem, r, ran), SqlRan(sql, r, ran, instant))

Wait == Both(mem, sql)

StoreNext ==
  /\ instant < MaxCalls
  /\ \/ Purchase \/ Query \/ Settle \/ Derive \/ Remember \/ Vouch
     \/ SaveWatch \/ Unwatch \/ RecordRun \/ Wait

StoreSpec == StoreInit /\ [][StoreNext]_storeVars

-----------------------------------------------------------------------------
(* repo.py:8 "the engine and the dashboard are identical regardless of     *)
(* backend".  They are, read by read, but for the order of three pages,    *)
(* and the property says exactly when that order is the same too.          *)

\* The runs of these monitors were recorded in the order they began.
RecordedInOrder(ids) ==
  \A i, j \in {x \in DOMAIN sql.runs : sql.runs[x].id \in ids} :
    sql.runs[i].ran < sql.runs[j].ran <=> sql.runs[i].at < sql.runs[j].at

\* The monitors were first saved in the order they were created.
SavedInOrder ==
  \A v, w \in sql.monitors : v.data.created < w.data.created <=> v.at < w.at

\* Every enabled monitor has run before, and so has a time.
AllTimed == \A w \in sql.monitors : w.enabled => w.next # {}

\* At every moment every read of the interface - the cached purchase or memo and
\* its age, recent rows and summaries, scores, monitors, the feed - answers the
\* same from both backends: the same rows always; in the same order, and under a
\* limit the same page, if the feed's runs were recorded in the order they
\* began, the monitors saved as they were created, the due ones not new.
BackendsAgree ==
  /\ \A p \in BoughtRows : MemCached(mem, p.key, instant) = SqlCached(sql, p.key, instant)
  /\ \A r \in MemoRows : MemMemo(mem, r, instant) = SqlMemo(sql, r, instant)
  /\ MemSearch(mem, 1) = SqlSearch(sql, 1)
  /\ MemRecent(mem, 2) = SqlRecent(sql, 2)
  /\ Summary(mem.queries) = Summary(Recorded(sql.queries))
  /\ MemReceipts(mem, 2) = SqlReceipts(sql, 2)
  /\ ReceiptSummary(mem.receipts) = ReceiptSummary(Audited(sql.receipts))
  /\ Scores(mem.events) = Scores(sql.events)
  /\ \A w \in WatchRows : MemGet(mem, w.id) = SqlGet(sql, w.id)
  /\ \A e \in BOOLEAN :
       /\ Shown(MemList(mem, e)) = Shown(SqlList(sql, e))
       /\ SavedInOrder => MemList(mem, e) = SqlList(sql, e)
  /\ Shown(MemDue(mem, instant)) = Shown(SqlDue(sql, instant))
  /\ AllTimed => MemDue(mem, instant) = SqlDue(sql, instant)
  /\ \A e \in BOOLEAN, ids \in {{r.id} : r \in RunRows} \cup {{r.id : r \in RunRows}} :
       /\ Shown(MemFeed(mem, Len(sql.runs), ids, e)) = Shown(SqlFeed(sql, Len(sql.runs), ids, e))
       /\ RecordedInOrder(ids) => MemFeed(mem, 2, ids, e) = SqlFeed(sql, 2, ids, e)
  /\ MemStats(mem) = SqlStats(sql)

=============================================================================
