----------------------------- MODULE StoreProofs -----------------------------
(***************************************************************************)
(* Proofs about Store, for any rows, texts, fingerprints and expiry, and   *)
(* any number of calls: the dicts and lists of the one store and the       *)
(* tables of the other say the same after every call (StoreInv), and so    *)
(* every read answers the same, in the same order where the order of the   *)
(* calls was that of what they record (BackendsAgree).                     *)
(***************************************************************************)
EXTENDS Store, DataLemmas

\* A store is the record of its eight tables.
IsStore(x) ==
  x = [purchases |-> x.purchases, queries |-> x.queries, receipts |-> x.receipts,
       insights |-> x.insights, memos |-> x.memos, events |-> x.events,
       monitors |-> x.monitors, runs |-> x.runs]

\* The dict holds the last purchase of each key in the table, made before t.
BoughtAlike(dict, table, t) ==
  /\ DOMAIN dict = {r.key : r \in table}
  /\ \A r \in table : r.at \in Nat /\ r.at < t
  /\ \A r \in table : (\A q \in table : q.key = r.key => q.at <= r.at) =>
       dict[r.key] = [cost |-> r.cost, at |-> r.at, expires |-> r.expires]
  /\ \A r \in table : \E q \in table : q.key = r.key /\ \A p \in table : p.key = r.key => p.at <= q.at

\* What was bought before t was bought before t + 1.
LEMMA BoughtLater ==
  ASSUME NEW dict, NEW table, NEW t \in Nat, BoughtAlike(dict, table, t)
  PROVE  BoughtAlike(dict, table, t + 1)
BY DEF BoughtAlike

\* A purchase at t is the last of its key: the dict holds it, and the table
\* has no later one.
LEMMA BoughtOnce ==
  ASSUME NEW dict, NEW table, NEW t \in Nat, BoughtAlike(dict, table, t), NEW p
  PROVE  BoughtAlike(With(dict, p.key, [cost |-> p.cost, at |-> t, expires |-> t + p.ttl]),
                     table \cup {[key |-> p.key, cost |-> p.cost, at |-> t, expires |-> t + p.ttl]},
                     t + 1)
<1> DEFINE entry == [cost |-> p.cost, at |-> t, expires |-> t + p.ttl]
           row == [key |-> p.key, cost |-> p.cost, at |-> t, expires |-> t + p.ttl]
           D == With(dict, p.key, entry)
           T == table \cup {row}
<1>1. /\ row.key = p.key /\ row.at = t
      /\ entry = [cost |-> row.cost, at |-> row.at, expires |-> row.expires]
  OBVIOUS
<1>2. DOMAIN D = DOMAIN dict \cup {p.key} /\ D[p.key] = entry
      /\ \A x \in DOMAIN dict : x # p.key => D[x] = dict[x]
  BY DEF With
<1> HIDE DEF entry, row, D
<1>3. DOMAIN D = {r.key : r \in T}
  BY <1>1, <1>2 DEF BoughtAlike
<1>4. \A r \in table : r.at \in Nat /\ r.at < t
  BY DEF BoughtAlike
<1>5. \A r \in T : r.at \in Nat /\ r.at < t + 1
  BY <1>1, <1>4
<1>6. \A q \in T : q.at <= row.at
  BY <1>1, <1>4
<1>7. ASSUME NEW r \in T, \A q \in T : q.key = r.key => q.at <= r.at
      PROVE  D[r.key] = [cost |-> r.cost, at |-> r.at, expires |-> r.expires]
  <2>1. CASE r = row
    BY <1>1, <1>2, <2>1
  <2>2. CASE r # row
    <3>1. r \in table /\ r.key # p.key
      BY <1>1, <1>4, <1>7, <2>2
    <3> QED
      BY <1>2, <1>7, <3>1 DEF BoughtAlike
  <2> QED
    BY <2>1, <2>2
<1>8. ASSUME NEW r \in T
      PROVE  \E q \in T : q.key = r.key /\ \A x \in T : x.key = r.key => x.at <= q.at
  <2>1. CASE r.key = p.key
    BY <1>1, <1>6, <2>1
  <2>2. CASE r.key # p.key
    <3>1. r \in table
      BY <1>1, <2>2
    <3>2. PICK q \in table : q.key = r.key /\ \A x \in table : x.key = r.key => x.at <= q.at
      BY <3>1 DEF BoughtAlike
    <3>3. \A x \in T : x.key = r.key => x \in table
      BY <1>1, <2>2
    <3> QED
      BY <3>2, <3>3
  <2> QED
    BY <2>1, <2>2
<1>9. BoughtAlike(D, T, t + 1)
  <2> HIDE DEF T
  <2> QED
    BY <1>3, <1>5, <1>7, <1>8 DEF BoughtAlike
<1> QED
  BY <1>9 DEF D, T, entry, row

\* The entry of the dict and the latest row of the table answer the cache
\* alike.
LEMMA CachedAlike ==
  ASSUME NEW m, NEW s, NEW t \in Nat, BoughtAlike(m.purchases, s.purchases, t), NEW k
  PROVE  MemCached(m, k, t) = SqlCached(s, k, t)
<1> DEFINE rows == RowsWith(s.purchases, k)
           last == {r \in rows : \A y \in rows : y.at <= r.at}
<1>1. SqlCached(s, k, t) = {Cached(r, t) : r \in {x \in last : ~(x.expires < t)}}
  BY DEF SqlCached
<1>2. \A r \in last : /\ k \in DOMAIN m.purchases
                      /\ m.purchases[k] = [cost |-> r.cost, at |-> r.at, expires |-> r.expires]
  BY DEF RowsWith, BoughtAlike
<1>3. k \in DOMAIN m.purchases => last # {}
  BY DEF RowsWith, BoughtAlike
<1> HIDE DEF last
<1>4. ASSUME NEW r \in last
      PROVE  Cached(m.purchases[k], t) = Cached(r, t) /\ m.purchases[k].expires = r.expires
  <2> DEFINE e == m.purchases[k]
  <2>3. e = [cost |-> r.cost, at |-> r.at, expires |-> r.expires]
    BY <1>2
  <2> HIDE DEF e
  <2>1. e.cost = r.cost /\ e.at = r.at /\ e.expires = r.expires
    BY <2>3
  <2>2. Cached(e, t) = Cached(r, t)
    BY <2>1 DEF Cached
  <2> QED
    BY <2>1, <2>2 DEF e
<1>5. CASE k \notin DOMAIN m.purchases
  BY <1>1, <1>2, <1>5 DEF MemCached
<1>6. CASE k \in DOMAIN m.purchases
  BY <1>1, <1>3, <1>4, <1>6 DEF MemCached
<1> QED
  BY <1>5, <1>6

-----------------------------------------------------------------------------
\* A table has one row for each key of the dict.
Keyed(dict, table) ==
  /\ DOMAIN dict = {r.key : r \in table}
  /\ \A q, r \in table : q.key = r.key => q = r

\* An upsert leaves one row for each key, that of its own key among them.
LEMMA UpsertKeeps ==
  ASSUME NEW dict, NEW table, Keyed(dict, table), NEW row, NEW v
  PROVE  LET D == With(dict, row.key, v)
             T == Upserted(table, row)
         IN  /\ Keyed(D, T)
             /\ D[row.key] = v
             /\ \A r \in T : r = row \/ (r \in table /\ D[r.key] = dict[r.key])
<1> DEFINE D == With(dict, row.key, v)
           T == Upserted(table, row)
<1>1. DOMAIN D = DOMAIN dict \cup {row.key} /\ D[row.key] = v
      /\ \A x \in DOMAIN dict : x # row.key => D[x] = dict[x]
  BY DEF With
<1>2. T = {r \in table : r.key # row.key} \cup {row}
  BY DEF Upserted, RowsWith
<1> HIDE DEF D, T
<1>3. Keyed(D, T)
  BY <1>1, <1>2 DEF Keyed
<1>4. \A r \in T : r = row \/ (r \in table /\ D[r.key] = dict[r.key])
  BY <1>1, <1>2 DEF Keyed
<1> QED
  BY <1>1, <1>3, <1>4 DEF D, T

\* Some rows of the table are as many as their keys.
LEMMA CountByKey ==
  ASSUME NEW dict, NEW table, Keyed(dict, table), IsFiniteSet(table), NEW T \in SUBSET table
  PROVE  Cardinality({r.key : r \in T}) = Cardinality(T)
<1> DEFINE K == {r.key : r \in T}
           f == [r \in T |-> r.key]
<1>1. f \in [T -> K] /\ \A r \in T : f[r] = r.key
  OBVIOUS
<1>2. \A y \in K : \E r \in T : f[r] = y
  BY <1>1
<1>3. \A q, r \in T : f[q] = f[r] => q = r
  BY <1>1 DEF Keyed
<1> HIDE DEF f, K
<1>4. f \in Bijection(T, K)
  BY <1>1, <1>2, <1>3 DEF Bijection, Injection, Surjection, IsInjective
<1>5. IsFiniteSet(T)
  BY FS_Subset
<1>6. ExistsBijection(T, K)
  BY <1>4 DEF ExistsBijection
<1>7. Cardinality(K) = Cardinality(T)
  BY <1>5, <1>6, FS_Bijection
<1> QED
  BY <1>7 DEF K

\* The dict and the table of insights hold the same text for each key.
InsightsAlike(dict, table) ==
  /\ Keyed(dict, table)
  /\ IsFiniteSet(table)
  /\ \A r \in table : dict[r.key] = r.text

\* Upserting an insight keeps dict and table alike.
LEMMA InsightKept ==
  ASSUME NEW dict, NEW table, InsightsAlike(dict, table), NEW i
  PROVE  InsightsAlike(With(dict, i.key, i.text), Upserted(table, i))
<1> DEFINE D == With(dict, i.key, i.text)
           T == Upserted(table, i)
<1>1. /\ Keyed(D, T) /\ D[i.key] = i.text
      /\ \A r \in T : r = i \/ (r \in table /\ D[r.key] = dict[r.key])
  BY UpsertKeeps DEF InsightsAlike
<1>2. IsFiniteSet(T)
  <2>1. IsFiniteSet(table \ RowsWith(table, i.key))
    BY FS_Difference DEF InsightsAlike
  <2> QED
    BY <2>1, FS_AddElement DEF Upserted
<1> HIDE DEF D, T
<1>3. \A r \in T : D[r.key] = r.text
  BY <1>1 DEF InsightsAlike
<1> QED
  BY <1>1, <1>2, <1>3 DEF InsightsAlike, D, T

\* The nearest k are the same: as many keys of the dict are nearer than a text
\* as there are rows of the table.
LEMMA SearchAlike ==
  ASSUME NEW m, NEW s, InsightsAlike(m.insights, s.insights), NEW k \in Nat
  PROVE  MemSearch(m, k) = SqlSearch(s, k)
<1> DEFINE keys == DOMAIN m.insights
           near(x) == {y \in keys : Nearness[m.insights[y]] > Nearness[m.insights[x]]}
           closer(r) == {x \in s.insights : Nearness[x.text] > Nearness[r.text]}
<1>1. /\ keys = {r.key : r \in s.insights}
      /\ \A r \in s.insights : m.insights[r.key] = r.text
      /\ \A q, r \in s.insights : q.key = r.key => q = r
  BY DEF InsightsAlike, Keyed
<1>2. ASSUME NEW r \in s.insights
      PROVE  Cardinality(near(r.key)) = Cardinality(closer(r))
  <2>1. near(r.key) = {x.key : x \in closer(r)}
    BY <1>1
  <2>2. closer(r) \in SUBSET s.insights
    OBVIOUS
  <2>3. Keyed(m.insights, s.insights) /\ IsFiniteSet(s.insights)
    BY DEF InsightsAlike
  <2> HIDE DEF near, closer
  <2> QED
    BY <2>1, <2>2, <2>3, CountByKey
<1>3. MemSearch(m, k) = {[place |-> Cardinality(near(x)), key |-> x, text |-> m.insights[x]] :
                           x \in {y \in keys : Cardinality(near(y)) < k}}
  BY DEF MemSearch
<1>4. SqlSearch(s, k) = {[place |-> Cardinality(closer(r)), key |-> r.key, text |-> r.text] :
                           r \in {x \in s.insights : Cardinality(closer(x)) < k}}
  BY DEF SqlSearch
<1> HIDE DEF near, closer, keys
<1> QED
  BY <1>1, <1>2, <1>3, <1>4

\* The dict and the table of memos hold the same memo for each key.
MemosAlike(dict, table) ==
  /\ Keyed(dict, table)
  /\ \A r \in table : dict[r.key] = [fingerprint |-> r.fingerprint, memo |-> r.memo, at |-> r.at]

\* Upserting a memo keeps dict and table alike.
LEMMA MemoKept ==
  ASSUME NEW dict, NEW table, MemosAlike(dict, table), NEW k, NEW f, NEW t
  PROVE  MemosAlike(With(dict, k, [fingerprint |-> f, memo |-> t, at |-> t]),
                    Upserted(table, [key |-> k, fingerprint |-> f, memo |-> t, at |-> t]))
<1> DEFINE row == [key |-> k, fingerprint |-> f, memo |-> t, at |-> t]
           v == [fingerprint |-> f, memo |-> t, at |-> t]
           D == With(dict, k, v)
           T == Upserted(table, row)
<1>1. row.key = k /\ v = [fingerprint |-> row.fingerprint, memo |-> row.memo, at |-> row.at]
  OBVIOUS
<1> HIDE DEF row, v
<1>2. /\ Keyed(D, T) /\ D[k] = v
      /\ \A r \in T : r = row \/ (r \in table /\ D[r.key] = dict[r.key])
  <2>1. Keyed(dict, table)
    BY DEF MemosAlike
  <2>2. D = With(dict, row.key, v)
    BY <1>1
  <2> HIDE DEF D
  <2> QED
    BY <1>1, <2>1, <2>2, UpsertKeeps
<1> HIDE DEF D, T
<1>3. \A r \in T : D[r.key] = [fingerprint |-> r.fingerprint, memo |-> r.memo, at |-> r.at]
  BY <1>1, <1>2 DEF MemosAlike
<1>4. MemosAlike(D, T)
  BY <1>2, <1>3 DEF MemosAlike
<1> QED
  BY <1>4 DEF D, T, row, v

\* A fresh memo, or none, is found alike.
LEMMA MemoAlike ==
  ASSUME NEW m, NEW s, MemosAlike(m.memos, s.memos), NEW r, NEW t
  PROVE  MemMemo(m, r, t) = SqlMemo(s, r, t)
<1> DEFINE k == r.key
<1>1. ASSUME NEW x \in s.memos
      PROVE  Fresh(m.memos[x.key], r.fingerprint, t) = Fresh(x, r.fingerprint, t)
  <2> DEFINE e == m.memos[x.key]
  <2>3. e = [fingerprint |-> x.fingerprint, memo |-> x.memo, at |-> x.at]
    BY DEF MemosAlike
  <2> HIDE DEF e
  <2>1. e.fingerprint = x.fingerprint /\ e.memo = x.memo /\ e.at = x.at
    BY <2>3
  <2>2. Fresh(e, r.fingerprint, t) = Fresh(x, r.fingerprint, t)
    BY <2>1 DEF Fresh
  <2> QED
    BY <2>2 DEF e
<1>2. CASE k \in DOMAIN m.memos
  <2>1. PICK x \in s.memos : RowsWith(s.memos, k) = {x} /\ x.key = k
    BY <1>2 DEF MemosAlike, Keyed, RowsWith
  <2> QED
    BY <1>1, <1>2, <2>1 DEF MemMemo, SqlMemo
<1>3. CASE k \notin DOMAIN m.memos
  <2>1. RowsWith(s.memos, k) = {}
    BY <1>3 DEF MemosAlike, Keyed, RowsWith
  <2> QED
    BY <1>3, <2>1 DEF MemMemo, SqlMemo
<1> QED
  BY <1>2, <1>3

\* The row of a monitor is stored whole, and its columns are those of the row.
WatchesAlike(dict, table) ==
  /\ Keyed(dict, table)
  /\ IsFiniteSet(table)
  /\ \A r \in table : dict[r.key] = r.data /\ r.enabled = r.data.enabled /\ r.next = r.data.next

\* Upserting a monitor keeps dict and table alike.
LEMMA WatchKept ==
  ASSUME NEW dict, NEW table, WatchesAlike(dict, table), NEW w, NEW t
  PROVE  WatchesAlike(With(dict, w.id, w),
                      Upserted(table, [key |-> w.id, enabled |-> w.enabled, next |-> w.next,
                                       data |-> w, at |-> t]))
<1> DEFINE row == [key |-> w.id, enabled |-> w.enabled, next |-> w.next, data |-> w, at |-> t]
           D == With(dict, w.id, w)
           T == Upserted(table, row)
<1>1. row.key = w.id /\ row.data = w /\ row.enabled = w.enabled /\ row.next = w.next
  OBVIOUS
<1> HIDE DEF row
<1>2. /\ Keyed(D, T) /\ D[w.id] = w
      /\ \A r \in T : r = row \/ (r \in table /\ D[r.key] = dict[r.key])
  BY <1>1, UpsertKeeps DEF WatchesAlike
<1>4. IsFiniteSet(T)
  <2>1. IsFiniteSet(table \ RowsWith(table, row.key))
    BY FS_Difference DEF WatchesAlike
  <2> QED
    BY <2>1, FS_AddElement DEF Upserted
<1> HIDE DEF D, T
<1>3. WatchesAlike(D, T)
  BY <1>1, <1>2, <1>4 DEF WatchesAlike
<1> QED
  BY <1>3 DEF D, T, row

\* Deleting a monitor keeps dict and table alike.
LEMMA WatchDropped ==
  ASSUME NEW dict, NEW table, WatchesAlike(dict, table), NEW k
  PROVE  WatchesAlike([x \in DOMAIN dict \ {k} |-> dict[x]], table \ RowsWith(table, k))
<1>1. IsFiniteSet(table \ RowsWith(table, k))
  BY FS_Difference DEF WatchesAlike
<1> QED
  BY <1>1 DEF WatchesAlike, Keyed, RowsWith

\* One monitor is the same row.
LEMMA WatchAnswers ==
  ASSUME NEW m, NEW s, WatchesAlike(m.monitors, s.monitors), NEW w
  PROVE  MemGet(m, w) = SqlGet(s, w)
BY DEF WatchesAlike, Keyed, MemGet, SqlGet, RowsWith

\* The rows at the indices top, each in its place.
Placed(rows, top, rank) == {[place |-> rank[i], row |-> rows[i]] : i \in top}

\* A page shows the rows it places.
LEMMA PlacedShows ==
  ASSUME NEW rows, NEW top, NEW rank
  PROVE  Shown(Placed(rows, top, rank)) = {rows[i] : i \in top}
<1> DEFINE at(i) == [place |-> rank[i], row |-> rows[i]]
<1>1. \A i : at(i).row = rows[i]
  OBVIOUS
<1>2. Placed(rows, top, rank) = {at(i) : i \in top}
  BY DEF Placed
<1> HIDE DEF at
<1> QED
  BY <1>1, <1>2 DEF Shown

\* All monitors, or the enabled ones, are the same rows; in the same places if
\* the table's rows were added as the monitors were created.
LEMMA ListAlike ==
  ASSUME NEW m, NEW s, WatchesAlike(m.monitors, s.monitors), NEW e \in BOOLEAN
  PROVE  /\ Shown(MemList(m, e)) = Shown(SqlList(s, e))
         /\ (\A v, w \in s.monitors : v.data.created < w.data.created <=> v.at < w.at)
              => MemList(m, e) = SqlList(s, e)
<1> DEFINE keys == {id \in DOMAIN m.monitors : e => m.monitors[id].enabled}
           rows == {r \in s.monitors : e => r.enabled}
           older(x) == {y \in keys : m.monitors[y].created < m.monitors[x].created}
           earlier(r) == {q \in rows : q.at < r.at}
<1>1. keys = {r.key : r \in rows} /\ \A r \in rows : m.monitors[r.key] = r.data
  BY DEF WatchesAlike, Keyed
<1>2. MemList(m, e) = {[place |-> Cardinality(older(x)), row |-> m.monitors[x]] : x \in keys}
  BY DEF MemList
<1>3. SqlList(s, e) = {[place |-> Cardinality(earlier(r)), row |-> r.data] : r \in rows}
  BY DEF SqlList
<1>4. Shown(MemList(m, e)) = {m.monitors[x] : x \in keys}
  <2> DEFINE rank == [x \in keys |-> Cardinality(older(x))]
  <2>1. \A x \in keys : rank[x] = Cardinality(older(x))
    OBVIOUS
  <2> HIDE DEF keys, older, rank
  <2>2. MemList(m, e) = Placed(m.monitors, keys, rank)
    BY <1>2, <2>1 DEF Placed
  <2> QED
    BY <2>2, PlacedShows
<1>5. Shown(SqlList(s, e)) = {r.data : r \in rows}
  <2> DEFINE rank == [r \in rows |-> Cardinality(earlier(r))]
             data == [r \in rows |-> r.data]
  <2>1. \A r \in rows : rank[r] = Cardinality(earlier(r)) /\ data[r] = r.data
    OBVIOUS
  <2> HIDE DEF rows, earlier, rank, data
  <2>2. SqlList(s, e) = Placed(data, rows, rank)
    BY <1>3, <2>1 DEF Placed
  <2>3. {data[r] : r \in rows} = {r.data : r \in rows}
    BY <2>1
  <2> QED
    BY <2>2, <2>3, PlacedShows
<1>6. Shown(MemList(m, e)) = Shown(SqlList(s, e))
  <2> HIDE DEF keys, rows
  <2> QED
    BY <1>1, <1>4, <1>5
<1>7. ASSUME \A v, w \in s.monitors : v.data.created < w.data.created <=> v.at < w.at
      PROVE  MemList(m, e) = SqlList(s, e)
  <2>1. ASSUME NEW r \in rows
        PROVE  Cardinality(older(r.key)) = Cardinality(earlier(r))
    <3>1. older(r.key) = {q.key : q \in earlier(r)}
      BY <1>1, <1>7
    <3>2. earlier(r) \in SUBSET s.monitors
      OBVIOUS
    <3>3. Keyed(m.monitors, s.monitors) /\ IsFiniteSet(s.monitors)
      BY DEF WatchesAlike
    <3> HIDE DEF older, earlier, keys, rows
    <3> QED
      BY <3>1, <3>2, <3>3, CountByKey
  <2> HIDE DEF older, earlier, keys, rows
  <2> QED
    BY <1>1, <1>2, <1>3, <2>1
<1> QED
  BY <1>6, <1>7

\* The monitors that are due are the same rows; in the same places if every
\* enabled one has a time.
LEMMA DueAlike ==
  ASSUME NEW m, NEW s, WatchesAlike(m.monitors, s.monitors), NEW t
  PROVE  /\ Shown(MemDue(m, t)) = Shown(SqlDue(s, t))
         /\ (\A w \in s.monitors : w.enabled => w.next # {}) => MemDue(m, t) = SqlDue(s, t)
<1> DEFINE keys == {id \in DOMAIN m.monitors :
                     m.monitors[id].enabled /\ \A x \in m.monitors[id].next : x <= t}
           rows == {r \in s.monitors : r.enabled /\ \A x \in r.next : x <= t}
           First(a, b) == Sooner(a, b) \/ (a = {} /\ b # {})
           Last(a, b) == Sooner(a, b) \/ (a # {} /\ b = {})
           before(x) == {y \in keys : First(m.monitors[y].next, m.monitors[x].next)}
           ahead(r) == {q \in rows : Last(q.next, r.next)}
<1>1. keys = {r.key : r \in rows}
      /\ \A r \in rows : m.monitors[r.key] = r.data /\ m.monitors[r.key].next = r.next
  BY DEF WatchesAlike, Keyed
<1>2. MemDue(m, t) = {[place |-> Cardinality(before(x)), row |-> m.monitors[x]] : x \in keys}
  BY DEF MemDue
<1>3. SqlDue(s, t) = {[place |-> Cardinality(ahead(r)), row |-> r.data] : r \in rows}
  BY DEF SqlDue
<1>4. Shown(MemDue(m, t)) = {m.monitors[x] : x \in keys}
  <2> DEFINE rank == [x \in keys |-> Cardinality(before(x))]
  <2>1. \A x \in keys : rank[x] = Cardinality(before(x))
    OBVIOUS
  <2> HIDE DEF keys, before, rank
  <2>2. MemDue(m, t) = Placed(m.monitors, keys, rank)
    BY <1>2, <2>1 DEF Placed
  <2> QED
    BY <2>2, PlacedShows
<1>5. Shown(SqlDue(s, t)) = {r.data : r \in rows}
  <2> DEFINE rank == [r \in rows |-> Cardinality(ahead(r))]
             data == [r \in rows |-> r.data]
  <2>1. \A r \in rows : rank[r] = Cardinality(ahead(r)) /\ data[r] = r.data
    OBVIOUS
  <2> HIDE DEF rows, ahead, rank, data
  <2>2. SqlDue(s, t) = Placed(data, rows, rank)
    BY <1>3, <2>1 DEF Placed
  <2>3. {data[r] : r \in rows} = {r.data : r \in rows}
    BY <2>1
  <2> QED
    BY <2>2, <2>3, PlacedShows
<1>6. Shown(MemDue(m, t)) = Shown(SqlDue(s, t))
  <2> HIDE DEF keys, rows
  <2> QED
    BY <1>1, <1>4, <1>5
<1>7. ASSUME \A w \in s.monitors : w.enabled => w.next # {}
      PROVE  MemDue(m, t) = SqlDue(s, t)
  <2>1. \A q, r \in rows : First(q.next, r.next) <=> Last(q.next, r.next)
    BY <1>7
  <2>2. ASSUME NEW r \in rows
        PROVE  Cardinality(before(r.key)) = Cardinality(ahead(r))
    <3>1. before(r.key) = {q.key : q \in ahead(r)}
      <4> HIDE DEF keys, rows, First, Last
      <4> QED
        BY <1>1, <2>1
    <3>2. ahead(r) \in SUBSET s.monitors
      OBVIOUS
    <3>3. Keyed(m.monitors, s.monitors) /\ IsFiniteSet(s.monitors)
      BY DEF WatchesAlike
    <3> HIDE DEF before, ahead, keys, rows
    <3> QED
      BY <3>1, <3>2, <3>3, CountByKey
  <2> HIDE DEF before, ahead, keys, rows
  <2> QED
    BY <1>1, <1>2, <1>3, <2>2
<1> QED
  BY <1>6, <1>7

-----------------------------------------------------------------------------
\* Reading an appended table is appending what its last row reads as.
LEMMA LogGrows ==
  ASSUME NEW V, NEW table \in Seq(V), NEW row \in V, NEW f
  PROVE  /\ Append(table, row) \in Seq(V)
         /\ [i \in DOMAIN Append(table, row) |-> f[Append(table, row)[i]]]
              = Append([i \in DOMAIN table |-> f[table[i]]], f[row])
<1> DEFINE T == Append(table, row)
           W == {f[v] : v \in V}
           log == [i \in DOMAIN table |-> f[table[i]]]
           new == [i \in DOMAIN T |-> f[T[i]]]
<1>1. T \in Seq(V) /\ DOMAIN T = 1..(Len(table) + 1) /\ DOMAIN table = 1..Len(table) /\ Len(table) \in Nat
      /\ T[Len(table) + 1] = row /\ \A i \in 1..Len(table) : T[i] = table[i]
  OBVIOUS
<1>2. log \in Seq(W) /\ Len(log) = Len(table)
  <2>1. log \in [1..Len(table) -> W]
    BY <1>1
  <2> HIDE DEF log, W
  <2> QED
    BY <2>1, <1>1
<1>3. f[row] \in W
  OBVIOUS
<1>4. /\ DOMAIN Append(log, f[row]) = 1..(Len(table) + 1)
      /\ Append(log, f[row])[Len(table) + 1] = f[row]
      /\ \A i \in 1..Len(table) : Append(log, f[row])[i] = log[i]
      /\ Append(log, f[row]) \in Seq(W)
  <2> HIDE DEF log, W
  <2> QED
    BY <1>1, <1>2, <1>3
<1>5. \A i \in 1..Len(table) : log[i] = f[table[i]]
  BY <1>1
<1> HIDE DEF T, log
<1>6. new = Append(log, f[row])
  <2>1. \A i \in 1..(Len(table) + 1) : new[i] = Append(log, f[row])[i]
    <3>1. SUFFICES ASSUME NEW i \in 1..(Len(table) + 1) PROVE new[i] = Append(log, f[row])[i]
      OBVIOUS
    <3>2. i \in 1..Len(table) \/ i = Len(table) + 1
      BY <1>1
    <3> QED
      BY <3>1, <3>2, <1>1, <1>4, <1>5
  <2>2. Append(log, f[row]) = [i \in 1..(Len(table) + 1) |-> Append(log, f[row])[i]]
    BY <1>4
  <2> QED
    BY <2>1, <2>2, <1>1
<1> QED
  BY <1>1, <1>6 DEF T, log

\* Rows stamped in the same order are ranked in the same places.
LEMMA RankedPlaces ==
  ASSUME NEW log, NEW table, NEW f, NEW g, NEW shown, NEW n,
         \A i, j \in shown : f[j] > f[i] <=> g[j] > g[i]
  PROVE  \E top, rank :
           /\ top \subseteq shown
           /\ Ranked(log, f, shown, n) = Placed(log, top, rank)
           /\ Ranked(table, g, shown, n) = Placed(table, top, rank)
<1> DEFINE newer(i) == {j \in shown : f[j] > f[i]}
           above(i) == {j \in shown : g[j] > g[i]}
           rank == [i \in shown |-> Cardinality(newer(i))]
           top == {i \in shown : Cardinality(newer(i)) < n}
<1>1. \A i \in shown : newer(i) = above(i)
  OBVIOUS
<1>2. Ranked(log, f, shown, n) = {[place |-> Cardinality(newer(i)), row |-> log[i]] : i \in top}
  BY DEF Ranked
<1>3. Ranked(table, g, shown, n) = {[place |-> Cardinality(above(i)), row |-> table[i]] :
                                      i \in {x \in shown : Cardinality(above(x)) < n}}
  BY DEF Ranked
<1> HIDE DEF newer, above
<1>4. {x \in shown : Cardinality(above(x)) < n} = top
  BY <1>1
<1>5. \A i \in top : rank[i] = Cardinality(newer(i)) /\ rank[i] = Cardinality(above(i))
  BY <1>1
<1>7. top \in SUBSET shown
  OBVIOUS
<1> HIDE DEF rank, top
<1>8. /\ Ranked(log, f, shown, n) = Placed(log, top, rank)
      /\ Ranked(table, g, shown, n) = Placed(table, top, rank)
  BY <1>2, <1>3, <1>4, <1>5 DEF Placed
<1> QED
  BY <1>7, <1>8

\* Rows with the same stamps have the same latest ones, in the same places.
LEMMA LatestPlaces ==
  ASSUME NEW log, NEW table, NEW shown, NEW n,
         shown \subseteq DOMAIN log, shown \subseteq DOMAIN table,
         \A i \in shown : log[i].at = table[i].at
  PROVE  \E top, rank :
           /\ top \subseteq shown
           /\ Latest(log, shown, n) = Placed(log, top, rank)
           /\ Latest(table, shown, n) = Placed(table, top, rank)
<1> DEFINE f == [i \in DOMAIN log |-> log[i].at]
           g == [i \in DOMAIN table |-> table[i].at]
<1>1. \A i, j \in shown : f[j] > f[i] <=> g[j] > g[i]
  OBVIOUS
<1>2. Latest(log, shown, n) = Ranked(log, f, shown, n)
      /\ Latest(table, shown, n) = Ranked(table, g, shown, n)
  BY DEF Latest
<1> HIDE DEF f, g
<1> QED
  BY <1>1, <1>2, RankedPlaces

\* A page with room for every row places every row.
LEMMA RankedShows ==
  ASSUME NEW rows, NEW stamp, NEW n \in Nat, NEW shown \in SUBSET (1..n),
         \A i \in shown : stamp[i] \in Int
  PROVE  \E rank : Ranked(rows, stamp, shown, n) = Placed(rows, shown, rank)
<1> DEFINE newer(i) == {j \in shown : stamp[j] > stamp[i]}
           rank == [i \in shown |-> Cardinality(newer(i))]
<1>1. ASSUME NEW i \in shown
      PROVE  Cardinality(newer(i)) < n
  <2>1. newer(i) \subseteq (1..n) \ {i} /\ i \in 1..n
    <3>1. stamp[i] \in Int /\ ~(stamp[i] > stamp[i])
      OBVIOUS
    <3>2. i \notin newer(i) /\ newer(i) \subseteq shown
      BY <3>1
    <3> HIDE DEF newer
    <3> QED
      BY <3>2
  <2>2. IsFiniteSet(1..n) /\ Cardinality(1..n) = n
    BY FS_Interval
  <2>3. IsFiniteSet((1..n) \ {i}) /\ Cardinality((1..n) \ {i}) = n - 1
    BY <2>1, <2>2, FS_RemoveElement
  <2> HIDE DEF newer
  <2>4. Cardinality(newer(i)) <= n - 1 /\ Cardinality(newer(i)) \in Nat
    BY <2>1, <2>3, FS_Subset, FS_CardinalityType
  <2> QED
    BY <2>4
<1>2. {x \in shown : Cardinality(newer(x)) < n} = shown
  <2> HIDE DEF newer
  <2> QED
    BY <1>1
<1>3. Ranked(rows, stamp, shown, n)
        = {[place |-> Cardinality(newer(i)), row |-> rows[i]] :
             i \in {x \in shown : Cardinality(newer(x)) < n}}
  BY DEF Ranked
<1>4. \A i \in shown : rank[i] = Cardinality(newer(i))
  OBVIOUS
<1> HIDE DEF newer, rank
<1>5. Ranked(rows, stamp, shown, n) = Placed(rows, shown, rank)
  BY <1>2, <1>3, <1>4 DEF Placed
<1> QED
  BY <1>5

QueryTable   == {QueryRecord(q, t) : q \in BookedRows, t \in Nat}
ReceiptTable == {PaymentReceipt(r, t) : r \in SettledRows, t \in Nat}
RunTable     == {MonitorRunRow(r, n, t) : r \in RunRows, n, t \in Nat}

\* The list is what the rows of the table read as.
QueriesAlike(log, table) == table \in Seq(QueryTable) /\ log = Recorded(table)
ReceiptsAlike(log, table) == table \in Seq(ReceiptTable) /\ log = Audited(table)
RunsAlike(log, table) ==
  table \in Seq(RunTable) /\ log = [i \in DOMAIN table |-> Told(table[i])]

\* A booked query reads back, from its columns, as it was booked.
LEMMA QueryBooked ==
  ASSUME NEW log, NEW table, QueriesAlike(log, table), NEW q \in BookedRows, NEW t \in Nat
  PROVE  QueriesAlike(Append(log, [row |-> q, margin |-> Margin(q), at |-> t]),
                      Append(table, QueryRecord(q, t)))
<1> DEFINE f == [v \in QueryTable |-> Record(v)]
           row == QueryRecord(q, t)
           T == Append(table, row)
<1>1. row \in QueryTable
  BY DEF QueryTable
<1>2. Record(row) = [row |-> q, margin |-> Margin(q), at |-> t]
  BY LedgerAssumption DEF QueryRecord, Record
<1>3. f[row] = Record(row)
  BY <1>1
<1>4. table \in Seq(QueryTable) /\ log = Recorded(table)
  BY DEF QueriesAlike
<1> HIDE DEF row
<1>5. log = [i \in DOMAIN table |-> f[table[i]]]
  BY <1>4 DEF Recorded
<1> HIDE DEF f
<1>6. T \in Seq(QueryTable) /\ [i \in DOMAIN T |-> f[T[i]]] = Append(log, f[row])
  BY <1>1, <1>4, <1>5, LogGrows
<1> HIDE DEF T
<1>7. Recorded(T) = [i \in DOMAIN T |-> f[T[i]]]
  BY <1>6 DEF f, Recorded
<1>8. QueriesAlike(Append(log, [row |-> q, margin |-> Margin(q), at |-> t]), T)
  BY <1>2, <1>3, <1>6, <1>7 DEF QueriesAlike
<1> QED
  BY <1>8 DEF T, row

\* A settlement reads back, from its columns, as it was audited.
LEMMA ReceiptSettled ==
  ASSUME NEW log, NEW table, ReceiptsAlike(log, table), NEW r \in SettledRows, NEW t \in Nat
  PROVE  ReceiptsAlike(Append(log, [receipt |-> r, at |-> t]), Append(table, PaymentReceipt(r, t)))
<1> DEFINE f == [v \in ReceiptTable |-> Receipt(v)]
           row == PaymentReceipt(r, t)
           T == Append(table, row)
<1>1. row \in ReceiptTable
  BY DEF ReceiptTable
<1>2. Receipt(row) = [receipt |-> r, at |-> t]
  BY LedgerAssumption DEF PaymentReceipt, Receipt
<1>3. f[row] = Receipt(row)
  BY <1>1
<1>4. table \in Seq(ReceiptTable) /\ log = Audited(table)
  BY DEF ReceiptsAlike
<1> HIDE DEF row
<1>5. log = [i \in DOMAIN table |-> f[table[i]]]
  BY <1>4 DEF Audited
<1> HIDE DEF f
<1>6. T \in Seq(ReceiptTable) /\ [i \in DOMAIN T |-> f[T[i]]] = Append(log, f[row])
  BY <1>1, <1>4, <1>5, LogGrows
<1> HIDE DEF T
<1>7. Audited(T) = [i \in DOMAIN T |-> f[T[i]]]
  BY <1>6 DEF f, Audited
<1>8. ReceiptsAlike(Append(log, [receipt |-> r, at |-> t]), T)
  BY <1>2, <1>3, <1>6, <1>7 DEF ReceiptsAlike
<1> QED
  BY <1>8 DEF T, row

\* A monitor run reads back as it was recorded.
LEMMA RunTold ==
  ASSUME NEW log, NEW table, RunsAlike(log, table), NEW r \in RunRows, NEW n \in Nat, NEW t \in Nat
  PROVE  RunsAlike(Append(log, [run |-> r, ran |-> n]), Append(table, MonitorRunRow(r, n, t)))
<1> DEFINE f == [v \in RunTable |-> Told(v)]
           row == MonitorRunRow(r, n, t)
           T == Append(table, row)
<1>1. row \in RunTable
  BY DEF RunTable
<1>2. Told(row) = [run |-> r, ran |-> n]
  BY DEF MonitorRunRow, Told
<1>3. f[row] = Told(row)
  BY <1>1
<1>4. table \in Seq(RunTable) /\ log = [i \in DOMAIN table |-> Told(table[i])]
  BY DEF RunsAlike
<1> HIDE DEF row
<1>5. log = [i \in DOMAIN table |-> f[table[i]]]
  BY <1>4
<1> HIDE DEF f
<1>6. T \in Seq(RunTable) /\ [i \in DOMAIN T |-> f[T[i]]] = Append(log, f[row])
  BY <1>1, <1>4, <1>5, LogGrows
<1> HIDE DEF T
<1>7. [i \in DOMAIN T |-> Told(T[i])] = [i \in DOMAIN T |-> f[T[i]]]
  BY <1>6 DEF f
<1>8. RunsAlike(Append(log, [run |-> r, ran |-> n]), T)
  BY <1>2, <1>3, <1>6, <1>7 DEF RunsAlike
<1> QED
  BY <1>8 DEF T, row

\* The recent queries and the summary of the ledger are the same.
LEMMA RecentAlike ==
  ASSUME NEW m, NEW s, NEW n, QueriesAlike(m.queries, s.queries)
  PROVE  MemRecent(m, n) = SqlRecent(s, n) /\ Summary(m.queries) = Summary(Recorded(s.queries))
<1> DEFINE log == m.queries
           table == s.queries
           shown == DOMAIN table
<1>1. log = Recorded(table)
  BY DEF QueriesAlike
<1>2. DOMAIN log = shown /\ DOMAIN table = shown
      /\ \A i \in shown : log[i] = Record(table[i]) /\ log[i].at = table[i].at
  BY <1>1 DEF Recorded, Record
<1>3. MemRecent(m, n) = Latest(log, shown, n)
      /\ SqlRecent(s, n) = {[p EXCEPT !.row = Record(@)] : p \in Latest(table, shown, n)}
  BY <1>2 DEF MemRecent, SqlRecent
<1> HIDE DEF log, table, shown
<1>4. PICK top, rank :
         /\ top \subseteq shown
         /\ Latest(log, shown, n) = Placed(log, top, rank)
         /\ Latest(table, shown, n) = Placed(table, top, rank)
  <2>1. shown \subseteq DOMAIN log /\ shown \subseteq DOMAIN table /\ \A i \in shown : log[i].at = table[i].at
    BY <1>2
  <2> QED
    BY <2>1, LatestPlaces
<1>5. ASSUME NEW i \in top, NEW p, p = [place |-> rank[i], row |-> table[i]]
      PROVE  [p EXCEPT !.row = Record(@)] = [place |-> rank[i], row |-> log[i]]
  BY <1>2, <1>4, <1>5
<1>6. {[p EXCEPT !.row = Record(@)] : p \in Placed(table, top, rank)} = Placed(log, top, rank)
  <2> DEFINE views == {[p EXCEPT !.row = Record(@)] : p \in Placed(table, top, rank)}
  <2>1. ASSUME NEW x \in views
        PROVE  x \in Placed(log, top, rank)
    <3>1. PICK p \in Placed(table, top, rank) : x = [p EXCEPT !.row = Record(@)]
      OBVIOUS
    <3>2. PICK i \in top : p = [place |-> rank[i], row |-> table[i]]
      BY <3>1 DEF Placed
    <3>3. x = [place |-> rank[i], row |-> log[i]]
      BY <1>5, <3>1, <3>2
    <3> QED
      BY <3>3 DEF Placed
  <2>2. ASSUME NEW i \in top
        PROVE  [place |-> rank[i], row |-> log[i]] \in views
    <3> DEFINE p == [place |-> rank[i], row |-> table[i]]
    <3>1. p \in Placed(table, top, rank)
      BY DEF Placed
    <3>2. [p EXCEPT !.row = Record(@)] = [place |-> rank[i], row |-> log[i]]
      BY <1>5
    <3> HIDE DEF p
    <3> QED
      BY <3>1, <3>2
  <2> HIDE DEF views
  <2>3. views = Placed(log, top, rank)
    BY <2>1, <2>2 DEF Placed
  <2> QED
    BY <2>3 DEF views
<1>7. Summary(m.queries) = Summary(Recorded(s.queries))
  BY <1>1 DEF log, table
<1> QED
  BY <1>3, <1>4, <1>6, <1>7

\* The receipts and the summary of the settlements are the same.
LEMMA ReceiptsAnswer ==
  ASSUME NEW m, NEW s, NEW n, ReceiptsAlike(m.receipts, s.receipts)
  PROVE  /\ MemReceipts(m, n) = SqlReceipts(s, n)
         /\ ReceiptSummary(m.receipts) = ReceiptSummary(Audited(s.receipts))
<1> DEFINE log == m.receipts
           table == s.receipts
           shown == DOMAIN table
<1>1. log = Audited(table)
  BY DEF ReceiptsAlike
<1>2. DOMAIN log = shown /\ DOMAIN table = shown
      /\ \A i \in shown : log[i] = Receipt(table[i]) /\ log[i].at = table[i].at
  BY <1>1 DEF Audited, Receipt
<1>3. MemReceipts(m, n) = Latest(log, shown, n)
      /\ SqlReceipts(s, n) = {[p EXCEPT !.row = Receipt(@)] : p \in Latest(table, shown, n)}
  BY <1>2 DEF MemReceipts, SqlReceipts
<1> HIDE DEF log, table, shown
<1>4. PICK top, rank :
         /\ top \subseteq shown
         /\ Latest(log, shown, n) = Placed(log, top, rank)
         /\ Latest(table, shown, n) = Placed(table, top, rank)
  <2>1. shown \subseteq DOMAIN log /\ shown \subseteq DOMAIN table /\ \A i \in shown : log[i].at = table[i].at
    BY <1>2
  <2> QED
    BY <2>1, LatestPlaces
<1>5. ASSUME NEW i \in top, NEW p, p = [place |-> rank[i], row |-> table[i]]
      PROVE  [p EXCEPT !.row = Receipt(@)] = [place |-> rank[i], row |-> log[i]]
  BY <1>2, <1>4, <1>5
<1>6. {[p EXCEPT !.row = Receipt(@)] : p \in Placed(table, top, rank)} = Placed(log, top, rank)
  <2> DEFINE views == {[p EXCEPT !.row = Receipt(@)] : p \in Placed(table, top, rank)}
  <2>1. ASSUME NEW x \in views
        PROVE  x \in Placed(log, top, rank)
    <3>1. PICK p \in Placed(table, top, rank) : x = [p EXCEPT !.row = Receipt(@)]
      OBVIOUS
    <3>2. PICK i \in top : p = [place |-> rank[i], row |-> table[i]]
      BY <3>1 DEF Placed
    <3>3. x = [place |-> rank[i], row |-> log[i]]
      BY <1>5, <3>1, <3>2
    <3> QED
      BY <3>3 DEF Placed
  <2>2. ASSUME NEW i \in top
        PROVE  [place |-> rank[i], row |-> log[i]] \in views
    <3> DEFINE p == [place |-> rank[i], row |-> table[i]]
    <3>1. p \in Placed(table, top, rank)
      BY DEF Placed
    <3>2. [p EXCEPT !.row = Receipt(@)] = [place |-> rank[i], row |-> log[i]]
      BY <1>5
    <3> HIDE DEF p
    <3> QED
      BY <3>1, <3>2
  <2> HIDE DEF views
  <2>3. views = Placed(log, top, rank)
    BY <2>1, <2>2 DEF Placed
  <2> QED
    BY <2>3 DEF views
<1>7. ReceiptSummary(m.receipts) = ReceiptSummary(Audited(s.receipts))
  BY <1>1 DEF log, table
<1> QED
  BY <1>3, <1>4, <1>6, <1>7

\* What the list and the table hold of each run.
LEMMA RunsRead ==
  ASSUME NEW log, NEW table, RunsAlike(log, table)
  PROVE  /\ table \in Seq(RunTable) /\ DOMAIN log = DOMAIN table
         /\ \A i \in DOMAIN table :
              /\ log[i] = Told(table[i])
              /\ log[i].ran = table[i].ran /\ log[i].run = table[i].run
              /\ table[i].ran \in Nat /\ table[i].at \in Nat
              /\ table[i].id = table[i].run.id
              /\ table[i].material = (table[i].run.status = "material")
              /\ Economics(table[i].run) = Economics(table[i])
<1>1. table \in Seq(RunTable) /\ DOMAIN log = DOMAIN table /\ \A i \in DOMAIN table : log[i] = Told(table[i])
  BY DEF RunsAlike
<1>2. ASSUME NEW i \in DOMAIN table
      PROVE  /\ log[i].ran = table[i].ran /\ log[i].run = table[i].run
             /\ table[i].ran \in Nat /\ table[i].at \in Nat
             /\ table[i].id = table[i].run.id
             /\ table[i].material = (table[i].run.status = "material")
             /\ Economics(table[i].run) = Economics(table[i])
  <2>1. table[i] \in RunTable
    BY <1>1
  <2>2. PICK r \in RunRows, n \in Nat, t \in Nat : table[i] = MonitorRunRow(r, n, t)
    BY <2>1 DEF RunTable
  <2>3. /\ table[i].run = r /\ table[i].id = r.id /\ table[i].material = (r.status = "material")
        /\ table[i].status = r.status /\ table[i].price = r.price /\ table[i].data = r.data
        /\ table[i].inference = r.inference /\ table[i].ran = n /\ table[i].at = t
    BY <2>2 DEF MonitorRunRow
  <2>4. log[i].ran = table[i].ran /\ log[i].run = table[i].run
    BY <1>1 DEF Told
  <2>5. Economics(table[i].run) = Economics(table[i])
    BY <2>3 DEF Economics
  <2> QED
    BY <2>3, <2>4, <2>5
<1> QED
  BY <1>1, <1>2

\* What the rows of a page read as.
ToldPage(page) == {[p EXCEPT !.row = Told(@)] : p \in page}

\* The runs a feed shows; when the runs of the list began; when those of the
\* table were recorded.
FeedRows(s, ids, e) == {i \in DOMAIN s.runs : s.runs[i].id \in ids /\ (e => s.runs[i].material)}
Began(m) == [i \in DOMAIN m.runs |-> m.runs[i].ran]
Recording(s) == [i \in DOMAIN s.runs |-> s.runs[i].at]

\* The same runs are shown by the feed of any monitors, filtered on either form
\* of a run, and at the same indices.
LEMMA FeedShown ==
  ASSUME NEW m, NEW s, NEW n, RunsAlike(m.runs, s.runs), NEW ids, NEW e \in BOOLEAN,
         NEW shown, shown = FeedRows(s, ids, e), NEW f, f = Began(m), NEW g, g = Recording(s)
  PROVE  /\ MemFeed(m, n, ids, e) = Ranked(m.runs, f, shown, n)
         /\ SqlFeed(s, n, ids, e) = ToldPage(Ranked(s.runs, g, shown, n))
<1>1. DOMAIN m.runs = DOMAIN s.runs
      /\ \A i \in DOMAIN s.runs :
           /\ m.runs[i].run = s.runs[i].run /\ s.runs[i].id = s.runs[i].run.id
           /\ s.runs[i].material = (s.runs[i].run.status = "material")
  BY RunsRead
<1>2. shown = {i \in DOMAIN m.runs : m.runs[i].run.id \in ids
                 /\ (e => m.runs[i].run.status = "material")}
  BY <1>1 DEF FeedRows
<1>3. MemFeed(m, n, ids, e) = Ranked(m.runs, f, shown, n)
  BY <1>2 DEF MemFeed, Began
<1>4. SqlFeed(s, n, ids, e) = ToldPage(Ranked(s.runs, g, shown, n))
  BY DEF SqlFeed, Latest, ToldPage, FeedRows, Recording
<1> QED
  BY <1>3, <1>4

\* What a table's placed rows read as is what the list has in those places.
LEMMA ToldPlaces ==
  ASSUME NEW log, NEW table, NEW top, NEW rank, \A i \in top : log[i] = Told(table[i])
  PROVE  ToldPage(Placed(table, top, rank)) = Placed(log, top, rank)
<1> DEFINE views == {[p EXCEPT !.row = Told(@)] : p \in Placed(table, top, rank)}
<1>1. ASSUME NEW i \in top, NEW p, p = [place |-> rank[i], row |-> table[i]]
      PROVE  [p EXCEPT !.row = Told(@)] = [place |-> rank[i], row |-> log[i]]
  BY <1>1
<1>2. ASSUME NEW x \in views
      PROVE  x \in Placed(log, top, rank)
  <2>1. PICK p \in Placed(table, top, rank) : x = [p EXCEPT !.row = Told(@)]
    OBVIOUS
  <2>2. PICK i \in top : p = [place |-> rank[i], row |-> table[i]]
    BY <2>1 DEF Placed
  <2>3. x = [place |-> rank[i], row |-> log[i]]
    BY <1>1, <2>1, <2>2
  <2> QED
    BY <2>3 DEF Placed
<1>3. ASSUME NEW i \in top
      PROVE  [place |-> rank[i], row |-> log[i]] \in views
  <2> DEFINE p == [place |-> rank[i], row |-> table[i]]
  <2>1. p \in Placed(table, top, rank)
    BY DEF Placed
  <2>2. [p EXCEPT !.row = Told(@)] = [place |-> rank[i], row |-> log[i]]
    BY <1>1
  <2> HIDE DEF p
  <2> QED
    BY <2>1, <2>2
<1> HIDE DEF views
<1>4. views = Placed(log, top, rank)
  BY <1>2, <1>3 DEF Placed
<1> QED
  BY <1>4 DEF views, ToldPage

\* A feed with room for every run shows the same runs.
LEMMA FeedHolds ==
  ASSUME NEW m, NEW s, RunsAlike(m.runs, s.runs), NEW ids, NEW e \in BOOLEAN
  PROVE  Shown(MemFeed(m, Len(s.runs), ids, e)) = Shown(SqlFeed(s, Len(s.runs), ids, e))
<1> DEFINE n == Len(s.runs)
           shown == FeedRows(s, ids, e)
           f == Began(m)
           g == Recording(s)
<1>1. s.runs \in Seq(RunTable) /\ DOMAIN m.runs = DOMAIN s.runs
      /\ \A i \in DOMAIN s.runs : /\ m.runs[i] = Told(s.runs[i])
                                  /\ m.runs[i].ran \in Nat /\ s.runs[i].at \in Nat
  BY RunsRead
<1>2. n \in Nat /\ shown \in SUBSET (1..n)
  BY <1>1 DEF FeedRows
<1>3. \A i \in shown : f[i] \in Int /\ g[i] \in Int
  BY <1>1 DEF FeedRows, Began, Recording
<1>4. \A i \in shown : m.runs[i] = Told(s.runs[i])
  BY <1>1 DEF FeedRows
<1>5. shown = FeedRows(s, ids, e) /\ f = Began(m) /\ g = Recording(s)
  OBVIOUS
<1> HIDE DEF n, shown, f, g
<1>6. MemFeed(m, n, ids, e) = Ranked(m.runs, f, shown, n)
      /\ SqlFeed(s, n, ids, e) = ToldPage(Ranked(s.runs, g, shown, n))
  BY <1>5, FeedShown
<1>7. PICK memRank : Ranked(m.runs, f, shown, n) = Placed(m.runs, shown, memRank)
  BY <1>2, <1>3, RankedShows
<1>8. PICK sqlRank : Ranked(s.runs, g, shown, n) = Placed(s.runs, shown, sqlRank)
  BY <1>2, <1>3, RankedShows
<1>9. ToldPage(Placed(s.runs, shown, sqlRank)) = Placed(m.runs, shown, sqlRank)
  BY <1>4, ToldPlaces
<1>10. MemFeed(m, n, ids, e) = Placed(m.runs, shown, memRank)
       /\ SqlFeed(s, n, ids, e) = Placed(m.runs, shown, sqlRank)
  BY <1>6, <1>7, <1>8, <1>9
<1>11. Shown(Placed(m.runs, shown, memRank)) = Shown(Placed(m.runs, shown, sqlRank))
  BY PlacedShows, Zenon
<1>12. Shown(MemFeed(m, n, ids, e)) = Shown(SqlFeed(s, n, ids, e))
  BY <1>10, <1>11
<1> QED
  BY <1>12 DEF n

\* A page of the feed is the same if its runs were recorded in the order they
\* began.
LEMMA FeedAlike ==
  ASSUME NEW m, NEW s, NEW n, RunsAlike(m.runs, s.runs), NEW ids, NEW e \in BOOLEAN,
         \A i, j \in {x \in DOMAIN s.runs : s.runs[x].id \in ids} :
           s.runs[i].ran < s.runs[j].ran <=> s.runs[i].at < s.runs[j].at
  PROVE  MemFeed(m, n, ids, e) = SqlFeed(s, n, ids, e)
<1> DEFINE shown == FeedRows(s, ids, e)
           f == Began(m)
           g == Recording(s)
<1>1. DOMAIN m.runs = DOMAIN s.runs
      /\ \A i \in DOMAIN s.runs : /\ m.runs[i] = Told(s.runs[i]) /\ m.runs[i].ran = s.runs[i].ran
                                  /\ s.runs[i].ran \in Nat /\ s.runs[i].at \in Nat
  BY RunsRead
<1>2. \A i, j \in shown : f[j] > f[i] <=> g[j] > g[i]
  <2>1. SUFFICES ASSUME NEW i \in shown, NEW j \in shown PROVE f[j] > f[i] <=> g[j] > g[i]
    OBVIOUS
  <2>2. /\ f[i] = s.runs[i].ran /\ f[j] = s.runs[j].ran /\ g[i] = s.runs[i].at /\ g[j] = s.runs[j].at
        /\ f[i] \in Nat /\ f[j] \in Nat /\ g[i] \in Nat /\ g[j] \in Nat
    BY <1>1 DEF FeedRows, Began, Recording
  <2>3. s.runs[i].ran < s.runs[j].ran <=> s.runs[i].at < s.runs[j].at
    BY DEF FeedRows
  <2> QED
    BY <2>2, <2>3
<1>3. \A i \in shown : m.runs[i] = Told(s.runs[i])
  BY <1>1 DEF FeedRows
<1>4. shown = FeedRows(s, ids, e) /\ f = Began(m) /\ g = Recording(s)
  OBVIOUS
<1> HIDE DEF shown, f, g
<1>5. MemFeed(m, n, ids, e) = Ranked(m.runs, f, shown, n)
      /\ SqlFeed(s, n, ids, e) = ToldPage(Ranked(s.runs, g, shown, n))
  BY <1>4, FeedShown
<1>6. PICK top, rank :
         /\ top \subseteq shown
         /\ Ranked(m.runs, f, shown, n) = Placed(m.runs, top, rank)
         /\ Ranked(s.runs, g, shown, n) = Placed(s.runs, top, rank)
  BY <1>2, RankedPlaces
<1>7. ToldPage(Placed(s.runs, top, rank)) = Placed(m.runs, top, rank)
  BY <1>3, <1>6, ToldPlaces
<1> QED
  BY <1>5, <1>6, <1>7

\* The statistics of the runs are the same.
LEMMA StatsAlike ==
  ASSUME NEW m, NEW s, RunsAlike(m.runs, s.runs)
  PROVE  MemStats(m) = SqlStats(s)
<1>1. [i \in DOMAIN m.runs |-> Economics(m.runs[i].run)] = [i \in DOMAIN s.runs |-> Economics(s.runs[i])]
  BY RunsRead
<1> QED
  BY <1>1 DEF MemStats, SqlStats

-----------------------------------------------------------------------------
(* The inductive invariant: each dict or list and its table say the same.  *)

StoreInv ==
  /\ instant \in Nat
  /\ IsStore(mem) /\ IsStore(sql)
  /\ BoughtAlike(mem.purchases, sql.purchases, instant)
  /\ QueriesAlike(mem.queries, sql.queries)
  /\ ReceiptsAlike(mem.receipts, sql.receipts)
  /\ InsightsAlike(mem.insights, sql.insights)
  /\ MemosAlike(mem.memos, sql.memos)
  /\ mem.events = sql.events
  /\ WatchesAlike(mem.monitors, sql.monitors)
  /\ RunsAlike(mem.runs, sql.runs)

\* Both stores are empty at first.
LEMMA StoreInitial == StoreInit => StoreInv
<1> SUFFICES ASSUME StoreInit PROVE StoreInv
  OBVIOUS
<1>1. /\ IsStore(mem) /\ IsStore(sql) /\ instant \in Nat /\ mem.events = sql.events
  BY DEF StoreInit, EmptyMem, EmptySql, IsStore
<1>2. BoughtAlike(<<>>, {}, instant) /\ InsightsAlike(<<>>, {}) /\ MemosAlike(<<>>, {}) /\ WatchesAlike(<<>>, {})
  BY FS_EmptySet DEF BoughtAlike, InsightsAlike, MemosAlike, WatchesAlike, Keyed
<1>3. QueriesAlike(<<>>, <<>>) /\ ReceiptsAlike(<<>>, <<>>) /\ RunsAlike(<<>>, <<>>)
  BY DEF QueriesAlike, ReceiptsAlike, RunsAlike, Recorded, Audited
<1>4. mem = EmptyMem /\ sql = EmptySql
  BY DEF StoreInit
<1> QED
  BY <1>1, <1>2, <1>3, <1>4 DEF StoreInv, EmptyMem, EmptySql

\* Replacing one table of a store leaves the others; one fact for each table.
LEMMA PurchasesReplaced ==
  ASSUME NEW x, IsStore(x), NEW y, NEW v, y = [x EXCEPT !.purchases = v]
  PROVE  /\ IsStore(y) /\ y.purchases = v
         /\ y.queries = x.queries /\ y.receipts = x.receipts /\ y.insights = x.insights
         /\ y.memos = x.memos /\ y.events = x.events /\ y.monitors = x.monitors /\ y.runs = x.runs
<1>1. y = [purchases |-> v, queries |-> x.queries, receipts |-> x.receipts, insights |-> x.insights, memos |-> x.memos, events |-> x.events, monitors |-> x.monitors, runs |-> x.runs]
  BY DEF IsStore
<1> QED
  BY <1>1 DEF IsStore

\* The same of the query ledger.
LEMMA QueriesReplaced ==
  ASSUME NEW x, IsStore(x), NEW y, NEW v, y = [x EXCEPT !.queries = v]
  PROVE  /\ IsStore(y) /\ y.queries = v
         /\ y.purchases = x.purchases /\ y.receipts = x.receipts /\ y.insights = x.insights
         /\ y.memos = x.memos /\ y.events = x.events /\ y.monitors = x.monitors /\ y.runs = x.runs
<1>1. y = [purchases |-> x.purchases, queries |-> v, receipts |-> x.receipts, insights |-> x.insights, memos |-> x.memos, events |-> x.events, monitors |-> x.monitors, runs |-> x.runs]
  BY DEF IsStore
<1> QED
  BY <1>1 DEF IsStore

\* The same of the settlement audit log.
LEMMA ReceiptsReplaced ==
  ASSUME NEW x, IsStore(x), NEW y, NEW v, y = [x EXCEPT !.receipts = v]
  PROVE  /\ IsStore(y) /\ y.receipts = v
         /\ y.purchases = x.purchases /\ y.queries = x.queries /\ y.insights = x.insights
         /\ y.memos = x.memos /\ y.events = x.events /\ y.monitors = x.monitors /\ y.runs = x.runs
<1>1. y = [purchases |-> x.purchases, queries |-> x.queries, receipts |-> v, insights |-> x.insights, memos |-> x.memos, events |-> x.events, monitors |-> x.monitors, runs |-> x.runs]
  BY DEF IsStore
<1> QED
  BY <1>1 DEF IsStore

\* The same of the insights.
LEMMA InsightsReplaced ==
  ASSUME NEW x, IsStore(x), NEW y, NEW v, y = [x EXCEPT !.insights = v]
  PROVE  /\ IsStore(y) /\ y.insights = v
         /\ y.purchases = x.purchases /\ y.queries = x.queries /\ y.receipts = x.receipts
         /\ y.memos = x.memos /\ y.events = x.events /\ y.monitors = x.monitors /\ y.runs = x.runs
<1>1. y = [purchases |-> x.purchases, queries |-> x.queries, receipts |-> x.receipts, insights |-> v, memos |-> x.memos, events |-> x.events, monitors |-> x.monitors, runs |-> x.runs]
  BY DEF IsStore
<1> QED
  BY <1>1 DEF IsStore

\* The same of the memos.
LEMMA MemosReplaced ==
  ASSUME NEW x, IsStore(x), NEW y, NEW v, y = [x EXCEPT !.memos = v]
  PROVE  /\ IsStore(y) /\ y.memos = v
         /\ y.purchases = x.purchases /\ y.queries = x.queries /\ y.receipts = x.receipts
         /\ y.insights = x.insights /\ y.events = x.events /\ y.monitors = x.monitors /\ y.runs = x.runs
<1>1. y = [purchases |-> x.purchases, queries |-> x.queries, receipts |-> x.receipts, insights |-> x.insights, memos |-> v, events |-> x.events, monitors |-> x.monitors, runs |-> x.runs]
  BY DEF IsStore
<1> QED
  BY <1>1 DEF IsStore

\* The same of the trust events.
LEMMA EventsReplaced ==
  ASSUME NEW x, IsStore(x), NEW y, NEW v, y = [x EXCEPT !.events = v]
  PROVE  /\ IsStore(y) /\ y.events = v
         /\ y.purchases = x.purchases /\ y.queries = x.queries /\ y.receipts = x.receipts
         /\ y.insights = x.insights /\ y.memos = x.memos /\ y.monitors = x.monitors /\ y.runs = x.runs
<1>1. y = [purchases |-> x.purchases, queries |-> x.queries, receipts |-> x.receipts, insights |-> x.insights, memos |-> x.memos, events |-> v, monitors |-> x.monitors, runs |-> x.runs]
  BY DEF IsStore
<1> QED
  BY <1>1 DEF IsStore

\* The same of the monitors.
LEMMA MonitorsReplaced ==
  ASSUME NEW x, IsStore(x), NEW y, NEW v, y = [x EXCEPT !.monitors = v]
  PROVE  /\ IsStore(y) /\ y.monitors = v
         /\ y.purchases = x.purchases /\ y.queries = x.queries /\ y.receipts = x.receipts
         /\ y.insights = x.insights /\ y.memos = x.memos /\ y.events = x.events /\ y.runs = x.runs
<1>1. y = [purchases |-> x.purchases, queries |-> x.queries, receipts |-> x.receipts, insights |-> x.insights, memos |-> x.memos, events |-> x.events, monitors |-> v, runs |-> x.runs]
  BY DEF IsStore
<1> QED
  BY <1>1 DEF IsStore

\* The same of the monitor runs.
LEMMA RunsReplaced ==
  ASSUME NEW x, IsStore(x), NEW y, NEW v, y = [x EXCEPT !.runs = v]
  PROVE  /\ IsStore(y) /\ y.runs = v
         /\ y.purchases = x.purchases /\ y.queries = x.queries /\ y.receipts = x.receipts
         /\ y.insights = x.insights /\ y.memos = x.memos /\ y.events = x.events /\ y.monitors = x.monitors
<1>1. y = [purchases |-> x.purchases, queries |-> x.queries, receipts |-> x.receipts, insights |-> x.insights, memos |-> x.memos, events |-> x.events, monitors |-> x.monitors, runs |-> v]
  BY DEF IsStore
<1> QED
  BY <1>1 DEF IsStore

\* save_purchase keeps the stores alike.
LEMMA StorePurchase ==
  ASSUME StoreInv, Purchase
  PROVE  StoreInv'
<1>1. PICK p \in BoughtRows : mem' = MemBuy(mem, p, instant) /\ sql' = SqlBuy(sql, p, instant)
  BY DEF Purchase, Both
<1>2. instant' = instant + 1 /\ instant \in Nat
  BY DEF Purchase, Both, StoreInv
<1> DEFINE dict == With(mem.purchases, p.key,
                                   [cost |-> p.cost, at |-> instant, expires |-> instant + p.ttl])
           table == sql.purchases \cup
           {[key |-> p.key, cost |-> p.cost, at |-> instant, expires |-> instant + p.ttl]}
<1>3. mem' = [mem EXCEPT !.purchases = dict] /\ sql' = [sql EXCEPT !.purchases = table]
  BY <1>1 DEF MemBuy, SqlBuy
<1>4. BoughtAlike(dict, table, instant')
  BY <1>2, BoughtOnce DEF StoreInv
<1> HIDE DEF dict, table
<1>5. /\ IsStore(mem') /\ mem'.purchases = dict
      /\ mem'.queries = mem.queries /\ mem'.receipts = mem.receipts /\ mem'.insights = mem.insights
      /\ mem'.memos = mem.memos /\ mem'.events = mem.events /\ mem'.monitors = mem.monitors /\ mem'.runs = mem.runs
  BY <1>3, PurchasesReplaced DEF StoreInv
<1>6. /\ IsStore(sql') /\ sql'.purchases = table
      /\ sql'.queries = sql.queries /\ sql'.receipts = sql.receipts /\ sql'.insights = sql.insights
      /\ sql'.memos = sql.memos /\ sql'.events = sql.events /\ sql'.monitors = sql.monitors /\ sql'.runs = sql.runs
  BY <1>3, PurchasesReplaced DEF StoreInv
<1> QED
  BY <1>2, <1>4, <1>5, <1>6 DEF StoreInv

\* save_query keeps the stores alike.
LEMMA StoreQuery ==
  ASSUME StoreInv, Query
  PROVE  StoreInv'
<1>1. PICK q \in BookedRows : mem' = MemBook(mem, q, instant) /\ sql' = SqlBook(sql, q, instant)
  BY DEF Query, Both
<1>2. instant' = instant + 1 /\ instant \in Nat
  BY DEF Query, Both, StoreInv
<1> DEFINE dict == Append(mem.queries, [row |-> q, margin |-> Margin(q), at |-> instant])
           table == Append(sql.queries, QueryRecord(q, instant))
<1>3. mem' = [mem EXCEPT !.queries = dict] /\ sql' = [sql EXCEPT !.queries = table]
  BY <1>1 DEF MemBook, SqlBook
<1>4. QueriesAlike(dict, table)
  BY QueryBooked DEF StoreInv
<1> HIDE DEF dict, table
<1>5. /\ IsStore(mem') /\ mem'.queries = dict
      /\ mem'.purchases = mem.purchases /\ mem'.receipts = mem.receipts /\ mem'.insights = mem.insights
      /\ mem'.memos = mem.memos /\ mem'.events = mem.events /\ mem'.monitors = mem.monitors /\ mem'.runs = mem.runs
  BY <1>3, QueriesReplaced DEF StoreInv
<1>6. /\ IsStore(sql') /\ sql'.queries = table
      /\ sql'.purchases = sql.purchases /\ sql'.receipts = sql.receipts /\ sql'.insights = sql.insights
      /\ sql'.memos = sql.memos /\ sql'.events = sql.events /\ sql'.monitors = sql.monitors /\ sql'.runs = sql.runs
  BY <1>3, QueriesReplaced DEF StoreInv
<1> QED
  BY BoughtLater, <1>2, <1>4, <1>5, <1>6 DEF StoreInv

\* save_receipt keeps the stores alike.
LEMMA StoreSettle ==
  ASSUME StoreInv, Settle
  PROVE  StoreInv'
<1>1. PICK r \in SettledRows : mem' = MemSettle(mem, r, instant) /\ sql' = SqlSettle(sql, r, instant)
  BY DEF Settle, Both
<1>2. instant' = instant + 1 /\ instant \in Nat
  BY DEF Settle, Both, StoreInv
<1> DEFINE dict == Append(mem.receipts, [receipt |-> r, at |-> instant])
           table == Append(sql.receipts, PaymentReceipt(r, instant))
<1>3. mem' = [mem EXCEPT !.receipts = dict] /\ sql' = [sql EXCEPT !.receipts = table]
  BY <1>1 DEF MemSettle, SqlSettle
<1>4. ReceiptsAlike(dict, table)
  BY ReceiptSettled DEF StoreInv
<1> HIDE DEF dict, table
<1>5. /\ IsStore(mem') /\ mem'.receipts = dict
      /\ mem'.purchases = mem.purchases /\ mem'.queries = mem.queries /\ mem'.insights = mem.insights
      /\ mem'.memos = mem.memos /\ mem'.events = mem.events /\ mem'.monitors = mem.monitors /\ mem'.runs = mem.runs
  BY <1>3, ReceiptsReplaced DEF StoreInv
<1>6. /\ IsStore(sql') /\ sql'.receipts = table
      /\ sql'.purchases = sql.purchases /\ sql'.queries = sql.queries /\ sql'.insights = sql.insights
      /\ sql'.memos = sql.memos /\ sql'.events = sql.events /\ sql'.monitors = sql.monitors /\ sql'.runs = sql.runs
  BY <1>3, ReceiptsReplaced DEF StoreInv
<1> QED
  BY BoughtLater, <1>2, <1>4, <1>5, <1>6 DEF StoreInv

\* save_insight keeps the stores alike.
LEMMA StoreDerive ==
  ASSUME StoreInv, Derive
  PROVE  StoreInv'
<1>1. PICK i \in InsightRows : mem' = MemInsight(mem, i) /\ sql' = SqlInsight(sql, i)
  BY DEF Derive, Both
<1>2. instant' = instant + 1 /\ instant \in Nat
  BY DEF Derive, Both, StoreInv
<1> DEFINE dict == With(mem.insights, i.key, i.text)
           table == Upserted(sql.insights, i)
<1>3. mem' = [mem EXCEPT !.insights = dict] /\ sql' = [sql EXCEPT !.insights = table]
  BY <1>1 DEF MemInsight, SqlInsight
<1>4. InsightsAlike(dict, table)
  BY InsightKept DEF StoreInv
<1> HIDE DEF dict, table
<1>5. /\ IsStore(mem') /\ mem'.insights = dict
      /\ mem'.purchases = mem.purchases /\ mem'.queries = mem.queries /\ mem'.receipts = mem.receipts
      /\ mem'.memos = mem.memos /\ mem'.events = mem.events /\ mem'.monitors = mem.monitors /\ mem'.runs = mem.runs
  BY <1>3, InsightsReplaced DEF StoreInv
<1>6. /\ IsStore(sql') /\ sql'.insights = table
      /\ sql'.purchases = sql.purchases /\ sql'.queries = sql.queries /\ sql'.receipts = sql.receipts
      /\ sql'.memos = sql.memos /\ sql'.events = sql.events /\ sql'.monitors = sql.monitors /\ sql'.runs = sql.runs
  BY <1>3, InsightsReplaced DEF StoreInv
<1> QED
  BY BoughtLater, <1>2, <1>4, <1>5, <1>6 DEF StoreInv

\* save_memo keeps the stores alike.
LEMMA StoreRemember ==
  ASSUME StoreInv, Remember
  PROVE  StoreInv'
<1>1. PICK r \in MemoRows : mem' = MemRemember(mem, r, instant) /\ sql' = SqlRemember(sql, r, instant)
  BY DEF Remember, Both
<1>2. instant' = instant + 1 /\ instant \in Nat
  BY DEF Remember, Both, StoreInv
<1> DEFINE dict == With(mem.memos, r.key,
                               [fingerprint |-> r.fingerprint, memo |-> instant, at |-> instant])
           table == Upserted(sql.memos,
           [key |-> r.key, fingerprint |-> r.fingerprint, memo |-> instant, at |-> instant])
<1>3. mem' = [mem EXCEPT !.memos = dict] /\ sql' = [sql EXCEPT !.memos = table]
  BY <1>1 DEF MemRemember, SqlRemember
<1>4. MemosAlike(dict, table)
  BY MemoKept DEF StoreInv
<1> HIDE DEF dict, table
<1>5. /\ IsStore(mem') /\ mem'.memos = dict
      /\ mem'.purchases = mem.purchases /\ mem'.queries = mem.queries /\ mem'.receipts = mem.receipts
      /\ mem'.insights = mem.insights /\ mem'.events = mem.events /\ mem'.monitors = mem.monitors /\ mem'.runs = mem.runs
  BY <1>3, MemosReplaced DEF StoreInv
<1>6. /\ IsStore(sql') /\ sql'.memos = table
      /\ sql'.purchases = sql.purchases /\ sql'.queries = sql.queries /\ sql'.receipts = sql.receipts
      /\ sql'.insights = sql.insights /\ sql'.events = sql.events /\ sql'.monitors = sql.monitors /\ sql'.runs = sql.runs
  BY <1>3, MemosReplaced DEF StoreInv
<1> QED
  BY BoughtLater, <1>2, <1>4, <1>5, <1>6 DEF StoreInv

\* record_trust_event keeps the stores alike.
LEMMA StoreVouch ==
  ASSUME StoreInv, Vouch
  PROVE  StoreInv'
<1>1. PICK e \in EventRows : mem' = MemTrust(mem, e, instant) /\ sql' = SqlTrust(sql, e, instant)
  BY DEF Vouch, Both
<1>2. instant' = instant + 1 /\ instant \in Nat
  BY DEF Vouch, Both, StoreInv
<1> DEFINE dict == Append(mem.events, [source |-> e.source, ok |-> e.ok, at |-> instant])
           table == Append(sql.events, [source |-> e.source, ok |-> e.ok, at |-> instant])
<1>3. mem' = [mem EXCEPT !.events = dict] /\ sql' = [sql EXCEPT !.events = table]
  BY <1>1 DEF MemTrust, SqlTrust
<1>4. dict = table
  BY DEF StoreInv
<1> HIDE DEF dict, table
<1>5. /\ IsStore(mem') /\ mem'.events = dict
      /\ mem'.purchases = mem.purchases /\ mem'.queries = mem.queries /\ mem'.receipts = mem.receipts
      /\ mem'.insights = mem.insights /\ mem'.memos = mem.memos /\ mem'.monitors = mem.monitors /\ mem'.runs = mem.runs
  BY <1>3, EventsReplaced DEF StoreInv
<1>6. /\ IsStore(sql') /\ sql'.events = table
      /\ sql'.purchases = sql.purchases /\ sql'.queries = sql.queries /\ sql'.receipts = sql.receipts
      /\ sql'.insights = sql.insights /\ sql'.memos = sql.memos /\ sql'.monitors = sql.monitors /\ sql'.runs = sql.runs
  BY <1>3, EventsReplaced DEF StoreInv
<1> QED
  BY BoughtLater, <1>2, <1>4, <1>5, <1>6 DEF StoreInv

\* save_monitor keeps the stores alike.
LEMMA StoreSaveWatch ==
  ASSUME StoreInv, SaveWatch
  PROVE  StoreInv'
<1>1. PICK w \in WatchRows : mem' = MemSave(mem, WatchRow(w, instant))
                               /\ sql' = SqlSave(sql, WatchRow(w, instant), instant)
  BY DEF SaveWatch, Both
<1>2. instant' = instant + 1 /\ instant \in Nat
  BY DEF SaveWatch, Both, StoreInv
<1> DEFINE row == WatchRow(w, instant)
           dict == With(mem.monitors, row.id, row)
           table == Upserted(sql.monitors,
             [key |-> row.id, enabled |-> row.enabled, next |-> row.next, data |-> row,
              at |-> Added(sql.monitors, row.id, instant)])
<1>3. mem' = [mem EXCEPT !.monitors = dict] /\ sql' = [sql EXCEPT !.monitors = table]
  BY <1>1 DEF MemSave, SqlSave
<1>4. WatchesAlike(dict, table)
  BY WatchKept DEF StoreInv
<1> HIDE DEF dict, table
<1>5. /\ IsStore(mem') /\ mem'.monitors = dict
      /\ mem'.purchases = mem.purchases /\ mem'.queries = mem.queries /\ mem'.receipts = mem.receipts
      /\ mem'.insights = mem.insights /\ mem'.memos = mem.memos /\ mem'.events = mem.events /\ mem'.runs = mem.runs
  BY <1>3, MonitorsReplaced DEF StoreInv
<1>6. /\ IsStore(sql') /\ sql'.monitors = table
      /\ sql'.purchases = sql.purchases /\ sql'.queries = sql.queries /\ sql'.receipts = sql.receipts
      /\ sql'.insights = sql.insights /\ sql'.memos = sql.memos /\ sql'.events = sql.events /\ sql'.runs = sql.runs
  BY <1>3, MonitorsReplaced DEF StoreInv
<1> QED
  BY BoughtLater, <1>2, <1>4, <1>5, <1>6 DEF StoreInv

\* delete_monitor keeps the stores alike.
LEMMA StoreUnwatch ==
  ASSUME StoreInv, Unwatch
  PROVE  StoreInv'
<1>1. PICK w \in WatchRows : mem' = MemDelete(mem, w.id) /\ sql' = SqlDelete(sql, w.id)
  BY DEF Unwatch, Both
<1>2. instant' = instant + 1 /\ instant \in Nat
  BY DEF Unwatch, Both, StoreInv
<1> DEFINE dict == [x \in DOMAIN mem.monitors \ {w.id} |-> mem.monitors[x]]
           table == sql.monitors \ RowsWith(sql.monitors, w.id)
<1>3. mem' = [mem EXCEPT !.monitors = dict] /\ sql' = [sql EXCEPT !.monitors = table]
  BY <1>1 DEF MemDelete, SqlDelete
<1>4. WatchesAlike(dict, table)
  BY WatchDropped DEF StoreInv
<1> HIDE DEF dict, table
<1>5. /\ IsStore(mem') /\ mem'.monitors = dict
      /\ mem'.purchases = mem.purchases /\ mem'.queries = mem.queries /\ mem'.receipts = mem.receipts
      /\ mem'.insights = mem.insights /\ mem'.memos = mem.memos /\ mem'.events = mem.events /\ mem'.runs = mem.runs
  BY <1>3, MonitorsReplaced DEF StoreInv
<1>6. /\ IsStore(sql') /\ sql'.monitors = table
      /\ sql'.purchases = sql.purchases /\ sql'.queries = sql.queries /\ sql'.receipts = sql.receipts
      /\ sql'.insights = sql.insights /\ sql'.memos = sql.memos /\ sql'.events = sql.events /\ sql'.runs = sql.runs
  BY <1>3, MonitorsReplaced DEF StoreInv
<1> QED
  BY BoughtLater, <1>2, <1>4, <1>5, <1>6 DEF StoreInv

\* save_monitor_run keeps the stores alike.
LEMMA StoreRecordRun ==
  ASSUME StoreInv, RecordRun
  PROVE  StoreInv'
<1>1. PICK r \in RunRows, n \in 0..instant : mem' = MemRan(mem, r, n) /\ sql' = SqlRan(sql, r, n, instant)
  BY DEF RecordRun, Both
<1>2. instant' = instant + 1 /\ instant \in Nat
  BY DEF RecordRun, Both, StoreInv
<1> DEFINE dict == Append(mem.runs, [run |-> r, ran |-> n])
           table == Append(sql.runs, MonitorRunRow(r, n, instant))
<1>3. mem' = [mem EXCEPT !.runs = dict] /\ sql' = [sql EXCEPT !.runs = table]
  BY <1>1 DEF MemRan, SqlRan
<1>4. RunsAlike(dict, table)
  BY <1>2, RunTold DEF StoreInv
<1> HIDE DEF dict, table
<1>5. /\ IsStore(mem') /\ mem'.runs = dict
      /\ mem'.purchases = mem.purchases /\ mem'.queries = mem.queries /\ mem'.receipts = mem.receipts
      /\ mem'.insights = mem.insights /\ mem'.memos = mem.memos /\ mem'.events = mem.events /\ mem'.monitors = mem.monitors
  BY <1>3, RunsReplaced DEF StoreInv
<1>6. /\ IsStore(sql') /\ sql'.runs = table
      /\ sql'.purchases = sql.purchases /\ sql'.queries = sql.queries /\ sql'.receipts = sql.receipts
      /\ sql'.insights = sql.insights /\ sql'.memos = sql.memos /\ sql'.events = sql.events /\ sql'.monitors = sql.monitors
  BY <1>3, RunsReplaced DEF StoreInv
<1> QED
  BY BoughtLater, <1>2, <1>4, <1>5, <1>6 DEF StoreInv

\* Time alone changes no table.
LEMMA StoreWait ==
  ASSUME StoreInv, Wait
  PROVE  StoreInv'
BY BoughtLater DEF StoreInv, Wait, Both

\* Every call keeps the stores alike.
LEMMA StoreInductive == StoreInv /\ [StoreNext]_storeVars => StoreInv'
<1> SUFFICES ASSUME StoreInv, [StoreNext]_storeVars PROVE StoreInv'
  OBVIOUS
<1>1. CASE UNCHANGED storeVars
  BY <1>1 DEF StoreInv, storeVars
<1>2. CASE StoreNext
  BY <1>2, StorePurchase, StoreQuery, StoreSettle, StoreDerive, StoreRemember, StoreVouch,
     StoreSaveWatch, StoreUnwatch, StoreRecordRun, StoreWait DEF StoreNext
<1> QED
  BY <1>1, <1>2

\* Stores that are alike answer every read the same.
LEMMA AlikeAgree == StoreInv => BackendsAgree
<1> SUFFICES ASSUME StoreInv PROVE BackendsAgree
  OBVIOUS
<1>1. \A p \in BoughtRows : MemCached(mem, p.key, instant) = SqlCached(sql, p.key, instant)
  BY CachedAlike DEF StoreInv
<1>2. \A r \in MemoRows : MemMemo(mem, r, instant) = SqlMemo(sql, r, instant)
  BY MemoAlike DEF StoreInv
<1>3. MemSearch(mem, 1) = SqlSearch(sql, 1)
  BY SearchAlike DEF StoreInv
<1>4. /\ MemRecent(mem, 2) = SqlRecent(sql, 2)
      /\ Summary(mem.queries) = Summary(Recorded(sql.queries))
  BY RecentAlike DEF StoreInv
<1>5. /\ MemReceipts(mem, 2) = SqlReceipts(sql, 2)
      /\ ReceiptSummary(mem.receipts) = ReceiptSummary(Audited(sql.receipts))
  BY ReceiptsAnswer DEF StoreInv
<1>6. Scores(mem.events) = Scores(sql.events)
  BY DEF StoreInv
<1>7. \A w \in WatchRows : MemGet(mem, w.id) = SqlGet(sql, w.id)
  BY WatchAnswers DEF StoreInv
<1>8. \A e \in BOOLEAN : /\ Shown(MemList(mem, e)) = Shown(SqlList(sql, e))
                         /\ SavedInOrder => MemList(mem, e) = SqlList(sql, e)
  BY ListAlike DEF StoreInv, SavedInOrder
<1>9. /\ Shown(MemDue(mem, instant)) = Shown(SqlDue(sql, instant))
      /\ AllTimed => MemDue(mem, instant) = SqlDue(sql, instant)
  BY DueAlike DEF StoreInv, AllTimed
<1>10. ASSUME NEW e \in BOOLEAN, NEW ids
       PROVE  /\ Shown(MemFeed(mem, Len(sql.runs), ids, e)) = Shown(SqlFeed(sql, Len(sql.runs), ids, e))
              /\ RecordedInOrder(ids) => MemFeed(mem, 2, ids, e) = SqlFeed(sql, 2, ids, e)
  <2>1. RunsAlike(mem.runs, sql.runs)
    BY DEF StoreInv
  <2>2. ASSUME RecordedInOrder(ids)
        PROVE  MemFeed(mem, 2, ids, e) = SqlFeed(sql, 2, ids, e)
    <3>1. \A i, j \in {x \in DOMAIN sql.runs : sql.runs[x].id \in ids} :
            sql.runs[i].ran < sql.runs[j].ran <=> sql.runs[i].at < sql.runs[j].at
      BY <2>2 DEF RecordedInOrder
    <3> QED
      BY <2>1, <3>1, FeedAlike
  <2> QED
    BY <2>1, <2>2, FeedHolds
<1>11. MemStats(mem) = SqlStats(sql)
  BY StatsAlike DEF StoreInv
<1> QED
  BY <1>1, <1>2, <1>3, <1>4, <1>5, <1>6, <1>7, <1>8, <1>9, <1>10, <1>11 DEF BackendsAgree

\* MemoryStore and SqlStore answer every read of the interface with the same
\* rows, after any calls in any order (repo.py:8), for any rows, texts and
\* expiry; and in the same order where runs were recorded as they began,
\* monitors saved as they were created, and the due ones have run before.
THEOREM BackendsAgreeAlways == StoreSpec => []BackendsAgree
<1>1. StoreSpec => []StoreInv
  BY StoreInitial, StoreInductive, PTL DEF StoreSpec
<1> QED
  BY <1>1, AlikeAgree, PTL

=============================================================================
