--------------------------- MODULE ReadersProofs ---------------------------
(***************************************************************************)
(* What the readers of a window store are told is so, whatever is          *)
(* collected, pruned or lost meanwhile, and however many changes, holes    *)
(* and seconds there are: the invariant of the window they share, and on   *)
(* top of it that of the timeline, of the script and of the status.        *)
(***************************************************************************)
EXTENDS Readers, WindowStoreProofs, FiniteSetTheorems, SequenceTheorems

----------------------------------------------------------------------------
(***************************************************************************)
(* A page                                                                  *)
(*                                                                         *)
(* What a page of a timeline holds, for any number of changes and any      *)
(* limit: the newest of those asked for, each once, and all of them when   *)
(* the page is not full.                                                   *)
(***************************************************************************)
\* Finitely many rows, no two with the same id.
Rows(E) ==
    /\ E \subseteq Txn
    /\ IsFiniteSet(E)
    /\ \A t, u \in E : t.id = u.id => t = u

\* How many rows of E are newer than t.
Rank(E, t) == Cardinality({u \in E : u.id > t.id})

\* A subset of rows is a set of rows.
LEMMA SubsetOfRows ==
    ASSUME NEW E, Rows(E), NEW S \in SUBSET E
    PROVE  Rows(S)
BY FS_Subset DEF Rows

\* A row is not newer than itself.
LEMMA RankType ==
    ASSUME NEW E, Rows(E), NEW t \in E
    PROVE  Rank(E, t) \in 0 .. Cardinality(E) - 1
<1> DEFINE newer == {u \in E : u.id > t.id}
<1>1. IsFiniteSet(E) /\ t.id \in Nat
  BY DEF Rows, Txn
<1>2. newer \in SUBSET (E \ {t})
  BY <1>1
<1>3. /\ IsFiniteSet(E \ {t}) /\ Cardinality(E \ {t}) = Cardinality(E) - 1
      /\ Cardinality(E) \in Nat
  BY <1>1, FS_RemoveElement, FS_CardinalityType
<1> HIDE DEF newer
<1>4. /\ IsFiniteSet(newer) /\ Cardinality(newer) \in Nat
      /\ Cardinality(newer) <= Cardinality(E) - 1
  <2>1. IsFiniteSet(newer) /\ Cardinality(newer) <= Cardinality(E \ {t})
    BY <1>2, <1>3, FS_Subset
  <2> QED
    BY <1>3, <2>1, FS_CardinalityType
<1>5. Rank(E, t) = Cardinality(newer)
  BY DEF Rank, newer
<1> QED
  BY <1>3, <1>4, <1>5

\* The newer of two rows has fewer before it.
LEMMA RankOrder ==
    ASSUME NEW E, Rows(E), NEW t \in E, NEW u \in E, u.id < t.id
    PROVE  Rank(E, t) < Rank(E, u)
<1> DEFINE newer(v) == {w \in E : w.id > v.id}
<1>1. t.id \in Nat /\ u.id \in Nat /\ \A w \in E : w.id \in Nat
  BY DEF Rows, Txn
<1>2. newer(t) \cup {t} \subseteq newer(u) /\ t \notin newer(t)
  BY <1>1
<1>3. newer(t) \in SUBSET E /\ newer(u) \in SUBSET E
  OBVIOUS
<1>4. Rank(E, t) = Cardinality(newer(t)) /\ Rank(E, u) = Cardinality(newer(u))
  BY DEF Rank
<1> HIDE DEF newer
<1>5. IsFiniteSet(newer(t)) /\ IsFiniteSet(newer(u))
  BY <1>3, FS_Subset DEF Rows
<1>6. Cardinality(newer(t) \cup {t}) = Cardinality(newer(t)) + 1
  BY <1>2, <1>5, FS_AddElement
<1>7. Cardinality(newer(t) \cup {t}) <= Cardinality(newer(u))
  BY <1>2, <1>5, FS_Subset
<1>8. Cardinality(newer(t)) \in Nat /\ Cardinality(newer(u)) \in Nat
  BY <1>5, FS_CardinalityType
<1> QED
  BY <1>4, <1>6, <1>7, <1>8

\* Each row has a rank of its own.
LEMMA RankIsItsOwn ==
    ASSUME NEW E, Rows(E), NEW t \in E, NEW u \in E, Rank(E, t) = Rank(E, u)
    PROVE  t = u
<1>1. t.id \in Nat /\ u.id \in Nat
  BY DEF Rows, Txn
<1>2. Rank(E, t) \in Int /\ Rank(E, u) \in Int
  BY RankType
<1>3. ~ (t.id < u.id) /\ ~ (u.id < t.id)
  BY <1>2, RankOrder
<1> QED
  BY <1>1, <1>3 DEF Rows

\* Every rank below the number of rows is some row's.
LEMMA EveryRank ==
    ASSUME NEW E, Rows(E), NEW k \in 0 .. Cardinality(E) - 1
    PROVE  \E t \in E : Rank(E, t) = k
<1> DEFINE ranks == 0 .. Cardinality(E) - 1
           f == [t \in E |-> Rank(E, t)]
<1>1. IsFiniteSet(E) /\ Cardinality(E) \in Nat
  BY FS_CardinalityType DEF Rows
<1>2. f \in Injection(E, ranks)
  <2>1. f \in [E -> ranks]
    BY RankType
  <2>2. \A t, u \in E : f[t] = f[u] => t = u
    BY RankIsItsOwn
  <2> QED
    BY <2>1, <2>2 DEF Injection, IsInjective
<1>3. IsFiniteSet(ranks) /\ Cardinality(ranks) = Cardinality(E)
  <2> DEFINE last == Cardinality(E) - 1
  <2>1. last \in Int
    BY <1>1
  <2> HIDE DEF last
  <2>2. IsFiniteSet(0 .. last) /\ Cardinality(0 .. last) = IF 0 > last THEN 0 ELSE last - 0 + 1
    BY <2>1, FS_Interval
  <2> QED
    BY <1>1, <2>2 DEF last
<1>4. f \in Surjection(E, ranks)
  <2> HIDE DEF f, ranks
  <2> QED
    BY <1>2, <1>3, FS_Injection
<1> QED
  BY <1>4 DEF Surjection

----------------------------------------------------------------------------
\* A page lists the rows it is made of, each once.
LEMMA NewestFirstLists ==
    ASSUME NEW E, Rows(E)
    PROVE  /\ NewestFirst(E) \in Seq(Txn)
           /\ Len(NewestFirst(E)) = Cardinality(E)
           /\ \A k \in 1 .. Len(NewestFirst(E)) : NewestFirst(E)[k] \in E
           /\ \A j, k \in 1 .. Len(NewestFirst(E)) : NewestFirst(E)[j] = NewestFirst(E)[k] => j = k
           /\ \A t \in E : \E k \in 1 .. Len(NewestFirst(E)) : NewestFirst(E)[k] = t
<1> DEFINE n == Cardinality(E)
           s == NewestFirst(E)
<1>1. n \in Nat /\ E \subseteq Txn
  BY FS_CardinalityType DEF Rows
<1>2. s = [k \in 1 .. n |-> CHOOSE t \in E : Rank(E, t) = k - 1]
  BY DEF NewestFirst, Rank
<1>3. ASSUME NEW k \in 1 .. n
      PROVE  s[k] \in E /\ Rank(E, s[k]) = k - 1
  <2>1. k - 1 \in 0 .. n - 1
    BY <1>1
  <2>2. \E t \in E : Rank(E, t) = k - 1
    BY <2>1, EveryRank
  <2>3. s[k] = CHOOSE t \in E : Rank(E, t) = k - 1
    BY <1>2
  <2> QED
    BY <2>2, <2>3
<1>4. s \in [1 .. n -> Txn]
  BY <1>1, <1>2, <1>3
<1>5. s \in Seq(Txn) /\ Len(s) = n
  BY <1>1, <1>4
<1> HIDE DEF s, n
<1>6. \A j, k \in 1 .. n : s[j] = s[k] => j = k
  BY <1>1, <1>3
<1>7. ASSUME NEW t \in E PROVE \E k \in 1 .. n : s[k] = t
  <2>1. Rank(E, t) \in 0 .. n - 1
    BY RankType DEF n
  <2>2. Rank(E, t) + 1 \in 1 .. n /\ (Rank(E, t) + 1) - 1 = Rank(E, t)
    BY <1>1, <2>1
  <2>3. Rank(E, s[Rank(E, t) + 1]) = Rank(E, t) /\ s[Rank(E, t) + 1] \in E
    BY <1>3, <2>2
  <2>4. s[Rank(E, t) + 1] = t
    BY <2>3, RankIsItsOwn
  <2> QED
    BY <2>2, <2>4
<1> QED
  BY <1>3, <1>5, <1>6, <1>7 DEF s, n

\* A page leaves out nothing newer than what it holds.
LEMMA NewestIsNewest ==
    ASSUME NEW S, Rows(S), NEW n \in Nat, NEW t \in Newest(S, n), NEW u \in S, u.id >= t.id
    PROVE  u \in Newest(S, n)
<1>1. t \in S /\ Rank(S, t) < n
  BY DEF Newest, Rank
<1>2. t.id \in Nat /\ u.id \in Nat
  BY <1>1 DEF Rows, Txn
<1>3. Rank(S, t) \in Int /\ Rank(S, u) \in Int
  BY <1>1, RankType
<1>4. Rank(S, u) < n
  <2>1. CASE u = t
    BY <1>1, <2>1
  <2>2. CASE t.id < u.id
    <3>1. Rank(S, u) < Rank(S, t)
      BY <1>1, <2>2, RankOrder
    <3> QED
      BY <1>1, <1>3, <3>1
  <2> QED
    BY <1>1, <1>2, <2>1, <2>2 DEF Rows
<1> QED
  BY <1>4 DEF Newest, Rank

\* A page that is not full holds all there is.
LEMMA NotFullIsAll ==
    ASSUME NEW S, Rows(S), NEW n \in Nat, Cardinality(Newest(S, n)) < n
    PROVE  Newest(S, n) = S
<1> DEFINE page == Newest(S, n)
           ranks == 0 .. n - 1
           f == [t \in page |-> Rank(S, t)]
<1>1. page \in SUBSET S /\ \A t \in S : t \in page <=> Rank(S, t) < n
  BY DEF Newest, Rank
<1>2. IsFiniteSet(page) /\ Cardinality(page) \in Nat /\ Cardinality(S) \in Nat
  BY <1>1, FS_Subset, FS_CardinalityType DEF Rows
<1>3. SUFFICES ASSUME NEW t \in S, t \notin page PROVE FALSE
  BY <1>1
<1>4. Rank(S, t) \in 0 .. Cardinality(S) - 1 /\ Rank(S, t) >= n
  <2>1. Rank(S, t) \in 0 .. Cardinality(S) - 1 /\ ~ (Rank(S, t) < n)
    BY <1>1, <1>3, RankType
  <2> QED
    BY <2>1
<1>5. f \in Surjection(page, ranks)
  <2>1. ASSUME NEW u \in page PROVE f[u] \in ranks
    <3>1. u \in S /\ Rank(S, u) < n
      BY <1>1
    <3>2. Rank(S, u) \in 0 .. Cardinality(S) - 1
      BY <3>1, RankType
    <3> QED
      BY <3>1, <3>2
  <2>2. ASSUME NEW k \in ranks PROVE \E u \in page : f[u] = k
    <3>1. k \in 0 .. Cardinality(S) - 1 /\ k < n
      BY <1>2, <1>4
    <3>2. PICK u \in S : Rank(S, u) = k
      BY <3>1, EveryRank
    <3> QED
      BY <1>1, <3>1, <3>2
  <2> QED
    BY <2>1, <2>2 DEF Surjection
<1>6. IsFiniteSet(ranks) /\ Cardinality(ranks) = n
  <2>1. Cardinality(ranks) = IF 0 > n - 1 THEN 0 ELSE (n - 1) - 0 + 1
    BY FS_Interval
  <2> QED
    BY <2>1, FS_Interval
<1> HIDE DEF f, ranks, page
<1>7. Cardinality(ranks) <= Cardinality(page)
  BY <1>2, <1>5, FS_Surjection
<1> QED
  BY <1>2, <1>6, <1>7 DEF page

----------------------------------------------------------------------------
(***************************************************************************)
(* What a reader relies on                                                 *)
(***************************************************************************)
Change == [at : Nat, kind : Kinds]

\* A row says the truth about the change it stands for.
Faithful(t) == t.src \in 1 .. Len(collected) /\ t.at = collected[t.src].at

\* What a reader may rely on: the rows are those of the changes collected,
\* each once and in their order, but for what lies behind the boundary.
WindowOK ==
    /\ clock \in Nat /\ Retention < clock
    /\ store \in Store /\ collected \in Seq(Change)
    /\ store.from # 0
    /\ store.checkpoint.pos = Len(collected)

RowsOK ==
    /\ IsFiniteSet(store.txns) /\ IdsBounded(store)
    /\ OrderOf(store)
    /\ \A t \in store.txns : Faithful(t) /\ t.id # 0
    /\ \A t, u \in store.txns : t.src = u.src => t = u
    /\ RowAtCheckpoint(store)

NothingMissing ==
    \A i \in 1 .. Len(collected) : i \in Sources(store) \/ collected[i].at < store.from

DatesPast == \A i \in 1 .. Len(collected) : collected[i].at <= clock

WindowInv == WindowOK /\ RowsOK /\ NothingMissing /\ DatesPast

\* What the others' steps may do to the window under a reader's eyes.
WindowMoves ==
    /\ clock <= clock'
    /\ store.from <= store'.from /\ store.to <= store'.to
    /\ \A g \in store.gaps \ store'.gaps : g.to < store'.from
    /\ \A m \in store.misses \ store'.misses : m < store'.from
    /\ Len(collected) <= Len(collected')
    /\ \A i \in 1 .. Len(collected) : collected'[i] = collected[i]
    /\ \A t \in store'.txns \ store.txns : t.src = Len(collected) + 1

----------------------------------------------------------------------------
(***************************************************************************)
(* The window                                                              *)
(***************************************************************************)
\* A change collected has a date.
LEMMA ChangeType ==
    ASSUME WindowOK, NEW i \in 1 .. Len(collected)
    PROVE  collected[i] \in Change /\ collected[i].at \in Nat
<1>1. collected[i] \in Change
  BY DEF WindowOK
<1> QED
  BY <1>1 DEF Change

\* Coverage is opened on an empty store.
LEMMA WindowInit == InitWindow => WindowInv
<1> SUFFICES ASSUME InitWindow PROVE WindowInv
  OBVIOUS
<1> USE DEF InitWindow
<1>1. EmptyStore \in Store /\ Retention \in Nat /\ clock = Retention + 1
  BY StoreAssumption DEF EmptyStore, Store, Checkpoint, ZeroCheckpoint, Instant
<1>2. /\ store \in Store /\ store.from = clock /\ store.txns = {}
      /\ store.checkpoint = ZeroCheckpoint
  <2>1. EmptyStore.from = 0 /\ EmptyStore.txns = {} /\ EmptyStore.checkpoint = ZeroCheckpoint
    BY DEF EmptyStore
  <2>2. store = OpenCoverage(EmptyStore, clock) /\ clock \in Nat
    BY <1>1
  <2> HIDE DEF InitWindow
  <2> QED
    BY <1>1, <2>1, <2>2, OpenCoverageFields
<1>3. collected \in Seq(Change) /\ Len(collected) = 0
  OBVIOUS
<1> HIDE DEF InitWindow
<1>4. WindowOK
  BY <1>1, <1>2, <1>3 DEF WindowOK, ZeroCheckpoint
<1>5. RowsOK
  BY <1>2, FS_EmptySet DEF RowsOK, IdsBounded, OrderOf, InOrder, BehindCheckpoint, RowAtCheckpoint
<1> QED
  BY <1>3, <1>4, <1>5 DEF WindowInv, NothingMissing, DatesPast

\* A write that stores nothing: what it drops lies behind the boundary it
\* leaves.
LEMMA WindowWrite ==
    ASSUME WindowInv, UNCHANGED <<clock, collected>>, store' \in Store,
           store'.checkpoint = store.checkpoint,
           store'.from >= store.from, store'.to >= store.to,
           store'.txns \subseteq store.txns,
           \A t \in store.txns \ store'.txns : t.at < store'.from,
           \A g \in store.gaps \ store'.gaps : g.to < store'.from,
           \A m \in store.misses \ store'.misses : m < store'.from,
           RowAtCheckpoint(store')
    PROVE  WindowInv' /\ WindowMoves
<1>1. /\ store.from \in Nat /\ store'.from \in Nat /\ store.to \in Nat /\ store'.to \in Nat
      /\ clock \in Nat /\ Len(collected) \in Nat
  BY DEF WindowInv, WindowOK, Store, Instant
<1>2. WindowOK' /\ DatesPast'
  BY <1>1 DEF WindowInv, WindowOK, DatesPast
<1>3. RowsOK'
  <2>1. IsFiniteSet(store'.txns)
    BY FS_Subset DEF WindowInv, RowsOK
  <2> QED
    BY <2>1 DEF WindowInv, RowsOK, IdsBounded, OrderOf, InOrder, BehindCheckpoint, Faithful
<1>4. NothingMissing'
  <2> SUFFICES ASSUME NEW i \in 1 .. Len(collected), i \notin Sources(store')
               PROVE  collected[i].at < store'.from
    BY DEF NothingMissing, Sources
  <2>1. CASE i \in Sources(store)
    <3>1. PICK t \in store.txns : t.src = i
      BY <2>1 DEF Sources
    <3>2. t \notin store'.txns
      BY <3>1 DEF Sources
    <3>3. t.at = collected[i].at
      BY <3>1 DEF WindowInv, RowsOK, Faithful
    <3> QED
      BY <3>2, <3>3
  <2>2. CASE collected[i].at < store.from
    <3>1. collected[i].at \in Nat
      BY ChangeType DEF WindowInv
    <3> QED
      BY <1>1, <2>2, <3>1
  <2> QED
    BY <2>1, <2>2 DEF WindowInv, NothingMissing
<1>5. WindowMoves
  BY <1>1 DEF WindowMoves
<1> QED
  BY <1>2, <1>3, <1>4, <1>5 DEF WindowInv

\* A change appended: the newest, under an id of its own.
LEMMA CollectStep ==
    ASSUME WindowInv, NEW kind \in Kinds, NEW at \in {clock - 1, clock} \ {Retention},
           Collect(kind, at)
    PROVE  WindowInv' /\ WindowMoves
<1> DEFINE n == Len(collected) + 1
           new == [id |-> NextId(store.txns), src |-> n, at |-> at]
<1>1. /\ store \in Store /\ IdsBounded(store) /\ clock \in Nat /\ at \in Nat /\ at <= clock
      /\ collected \in Seq(Change) /\ Len(collected) \in Nat /\ n \in Nat
      /\ store.checkpoint.pos = Len(collected) /\ OrderOf(store)
  BY StoreAssumption DEF WindowInv, WindowOK, RowsOK
<1>2. [at |-> at, kind |-> kind] \in Change
  BY <1>1 DEF Change
<1>3. /\ clock' = clock /\ collected' = Append(collected, [at |-> at, kind |-> kind])
      /\ collected' \in Seq(Change)
      /\ Len(collected') = n /\ collected'[n].at = at
      /\ \A i \in 1 .. Len(collected) : collected'[i] = collected[i]
  BY <1>1, <1>2 DEF Collect
<1>4. store' = AppendTransaction(store, n, at)
  BY <1>3 DEF Collect
<1>5. \A t \in store.txns : t.src \in Nat /\ t.src < n /\ t.id \in Nat
  BY <1>1 DEF OrderOf, BehindCheckpoint, Store, Txn
<1>6. n \notin Sources(store)
  BY <1>1, <1>5 DEF Sources
<1>7. /\ store' \in Store
      /\ new \in Txn
      /\ \A t \in store.txns : t.id < new.id
      /\ store'.txns = store.txns \cup {new}
      /\ store'.gaps = store.gaps /\ store'.misses = store.misses /\ store'.from = store.from
      /\ store'.checkpoint.pos = n
  BY <1>1, <1>4, <1>6, AppendTransactionFields
<1>8. store'.to >= store.to
  BY <1>1, <1>4, AppendTransactionReaches
<1>9. OrderOf(store') /\ IdsBounded(store')
  BY <1>1, <1>4, AppendInOrder, AppendBounded
<1>10. RowAtCheckpoint(store')
  <2>1. \A t \in store.txns : t.src = n => t.at = at
    BY <1>1, <1>5
  <2> QED
    BY <1>1, <1>4, <2>1, AppendRowAtCheckpoint
<1>11. new.src = n /\ new.at = at /\ new.id \in Nat /\ new.id # 0
  <2>1. NextId(store.txns) # 0
    <3>1. PICK most \in Nat : \A t \in store.txns : t.id <= most
      BY <1>1 DEF IdsBounded
    <3>2. NextId(store.txns) \in Nat /\ \A t \in store.txns : t.id < NextId(store.txns)
      BY <1>1, <3>1, NextIdIsLarger DEF Store
    <3>3. CASE store.txns = {}
      BY <3>3 DEF NextId
    <3>4. CASE store.txns # {}
      BY <1>5, <3>2, <3>4
    <3> QED
      BY <3>3, <3>4
  <2> QED
    BY <1>7, <2>1 DEF Txn
<1> HIDE DEF n, new
<1>12. WindowOK'
  BY <1>1, <1>3, <1>7 DEF WindowInv, WindowOK
<1>13. RowsOK'
  <2>1. IsFiniteSet(store'.txns)
    BY <1>7, FS_AddElement DEF WindowInv, RowsOK
  <2>2. \A t \in store'.txns : Faithful(t)' /\ t.id # 0
    BY <1>1, <1>3, <1>7, <1>11 DEF WindowInv, RowsOK, Faithful, n
  <2>3. \A t, u \in store'.txns : t.src = u.src => t = u
    BY <1>5, <1>7, <1>11 DEF WindowInv, RowsOK
  <2> QED
    BY <1>9, <1>10, <2>1, <2>2, <2>3 DEF RowsOK
<1>14. NothingMissing'
  BY <1>1, <1>3, <1>7, <1>11 DEF WindowInv, NothingMissing, Sources, n
<1>15. DatesPast'
  BY <1>1, <1>3 DEF WindowInv, DatesPast, n
<1>16. WindowMoves
  <2>1. store.from \in Nat /\ store'.from \in Nat /\ store.to \in Nat /\ store'.to \in Nat
    BY <1>1, <1>7 DEF Store, Instant
  <2> QED
    BY <1>1, <1>3, <1>7, <1>8, <1>11, <2>1 DEF WindowMoves, n
<1> QED
  BY <1>12, <1>13, <1>14, <1>15, <1>16 DEF WindowInv

\* A step that leaves the window alone.
LEMMA WindowStays == WindowInv /\ UNCHANGED window => WindowInv'
BY DEF window, WindowInv, WindowOK, RowsOK, NothingMissing, DatesPast, Faithful

\* Every step of the others.
LEMMA WindowStep ==
    ASSUME WindowInv, NextWindow
    PROVE  WindowInv' /\ WindowMoves
<1>1. /\ store \in Store /\ clock \in Nat /\ store.from \in Nat /\ store.to \in Nat
      /\ RowAtCheckpoint(store)
  BY DEF WindowInv, WindowOK, RowsOK, Store, Instant
<1>2. CASE Tick
  <2>1. /\ clock' = clock + 1 /\ store' = store /\ collected' = collected
    BY <1>2 DEF Tick
  <2>2. \A i \in 1 .. Len(collected) : collected[i].at \in Nat
    BY ChangeType DEF WindowInv
  <2>3. WindowOK' /\ DatesPast'
    BY <1>1, <2>1, <2>2, StoreAssumption DEF WindowInv, WindowOK, DatesPast
  <2>4. RowsOK' /\ NothingMissing'
    BY <2>1 DEF WindowInv, RowsOK, NothingMissing, Faithful
  <2>5. WindowMoves
    <3>1. Len(collected) \in Nat
      BY DEF WindowInv, WindowOK
    <3> QED
      BY <1>1, <2>1, <3>1 DEF WindowMoves
  <2> QED
    BY <2>3, <2>4, <2>5 DEF WindowInv
<1>3. CASE Heartbeat
  <2>1. /\ store' \in Store
        /\ store'.txns = store.txns /\ store'.gaps = store.gaps /\ store'.misses = store.misses
        /\ store'.checkpoint = store.checkpoint /\ store'.from = store.from
        /\ store'.to >= store.to
    BY <1>1, <1>3, AdvanceCoverageFields DEF Heartbeat
  <2> QED
    BY <1>1, <1>3, <2>1, WindowWrite DEF Heartbeat, RowAtCheckpoint
<1>4. CASE RunPrune
  <2>1. store' = Prune(store, clock) /\ clock' = clock /\ collected' = collected
    BY <1>4 DEF RunPrune
  <2>2. RowAtCheckpoint(store')
    BY <1>1, <2>1, PruneRowAtCheckpoint
  <2>3. /\ store' \in Store /\ store'.from >= store.from
        /\ store'.checkpoint = store.checkpoint /\ store'.to = store.to
        /\ store'.txns \subseteq store.txns
        /\ \A t \in store.txns \ store'.txns : t.at < store'.from
        /\ \A g \in store.gaps \ store'.gaps : g.to < store'.from
        /\ \A m \in store.misses \ store'.misses : m < store'.from
    BY <1>1, <2>1, PruneFields
  <2>4. store'.to >= store.to
    BY <1>1, <2>3
  <2> QED
    BY <2>1, <2>2, <2>3, <2>4, WindowWrite
<1>5. CASE LoseLog
  <2>1. store.checkpoint.at \in Nat /\ {} \in SUBSET Nat
    BY <1>1 DEF Store, Checkpoint, Instant
  <2>2. /\ store' \in Store /\ store.gaps \subseteq store'.gaps
        /\ store'.txns = store.txns /\ store'.misses = store.misses
        /\ store'.checkpoint = store.checkpoint /\ store'.from = store.from /\ store'.to = store.to
    BY <1>1, <1>5, <2>1, RecordGapFields DEF LoseLog
  <2> QED
    BY <1>1, <1>5, <2>2, WindowWrite DEF LoseLog, Hole, RowAtCheckpoint
<1>6. CASE LoseRows
  <2>1. /\ store' \in Store /\ store.misses \subseteq store'.misses
        /\ store'.txns = store.txns /\ store'.gaps = store.gaps
        /\ store'.checkpoint = store.checkpoint /\ store'.from = store.from /\ store'.to = store.to
    BY <1>1, <1>6, RecordMissFields DEF LoseRows
  <2> QED
    BY <1>1, <1>6, <2>1, WindowWrite DEF LoseRows, Hole, RowAtCheckpoint
<1> QED
  BY <1>2, <1>3, <1>4, <1>5, <1>6, CollectStep DEF NextWindow

----------------------------------------------------------------------------
(***************************************************************************)
(* The status report                                                       *)
(***************************************************************************)
Report == [now : Nat, from : Nat, to : Nat, gaps : SUBSET Gap, misses : SUBSET Instant,
           problem : BOOLEAN, newest : Nat]

\* What is known of the holes told of when the report was asked for, and of
\* the coverage it has read.
StatusInv ==
    /\ stage \in {"idle", "asked", "read", "reported"}
    /\ stage = "asked" =>
          /\ \A g \in told.gaps : g.to \in Nat /\ (g \in store.gaps \/ g.to < store.from)
          /\ \A m \in told.misses : m \in Nat /\ (m \in store.misses \/ m < store.from)
    /\ stage \in {"read", "reported"} =>
          /\ \A g \in told.gaps : g.to >= report.from => g \in report.gaps
          /\ \A m \in told.misses : m >= report.from => m \in report.misses
          /\ report.to <= store.to
    /\ report \in Report
    /\ ~ report.problem

\* Nothing is told and nothing reported.
LEMMA StatusInit == InitStatus => StatusInv
BY DEF InitStatus, StatusInv, NoReport, Report

\* What happens to the store does not touch what was read of it.
LEMMA StatusUnderWrites ==
    ASSUME WindowInv, WindowInv', WindowMoves, StatusInv, UNCHANGED <<stage, report, told>>
    PROVE  StatusInv'
<1>1. /\ store.from \in Nat /\ store'.from \in Nat /\ store.to \in Nat /\ store'.to \in Nat
  BY DEF WindowInv, WindowOK, Store, Instant
<1>2. stage = "asked" =>
          /\ \A g \in told.gaps : g.to \in Nat /\ (g \in store'.gaps \/ g.to < store'.from)
          /\ \A m \in told.misses : m \in Nat /\ (m \in store'.misses \/ m < store'.from)
  BY <1>1 DEF StatusInv, WindowMoves
<1>3. stage \in {"read", "reported"} => report.to <= store'.to
  BY <1>1 DEF StatusInv, WindowMoves, Report
<1> QED
  BY <1>2, <1>3 DEF StatusInv

\* Integrity finds the checkpoint no later than the newest change.
LEMMA CheckpointInOrder ==
    ASSUME WindowInv
    PROVE  ~ CheckpointAhead(store)
<1>1. /\ store \in Store /\ clock \in Nat /\ RowAtCheckpoint(store)
      /\ \A t \in store.txns : t.at <= clock
  BY DEF WindowInv, WindowOK, RowsOK, Faithful, DatesPast
<1> QED
  BY <1>1, RowAtCheckpointSuffices

\* The steps of the report itself.
LEMMA StatusStep ==
    ASSUME WindowInv, StatusInv, Ask \/ ReadSnapshot \/ CheckIntegrity
    PROVE  StatusInv'
<1>1. /\ store \in Store /\ clock \in Nat /\ store.to \in Nat /\ store.from # 0
      /\ \A g \in store.gaps : g.to \in Nat
      /\ \A m \in store.misses : m \in Nat
  BY DEF WindowInv, WindowOK, Store, Gap, Instant
<1>2. CASE Ask
  <2>1. /\ stage' = "asked" /\ report' \in Report /\ report'.problem = FALSE
        /\ told'.gaps = store.gaps /\ told'.misses = store.misses /\ store' = store
    BY <1>1, <1>2 DEF Ask, NoReport, Report, window
  <2> QED
    BY <1>1, <2>1 DEF StatusInv
<1>3. CASE ReadSnapshot
  <2>1. /\ stage = "asked" /\ stage' = "read" /\ told' = told /\ store' = store
        /\ report' = [[report EXCEPT !.from = CoverageFrom(store), !.to = store.to]
                         EXCEPT !.gaps = store.gaps, !.misses = store.misses]
    BY <1>3 DEF ReadSnapshot, ReadHoles, ReadCoverage, window
  <2>2. CoverageFrom(store) \in Nat /\ CoverageFrom(store) >= store.from /\ store.from \in Nat
    BY <1>1, CoverageFromType DEF Store, Instant
  <2>3. store.gaps \in SUBSET Gap /\ store.misses \in SUBSET Instant
    BY <1>1 DEF Store
  <2>4. /\ report' \in Report /\ report'.problem = report.problem
        /\ report'.from >= store.from /\ report'.from \in Nat /\ report'.to = store.to
        /\ report'.gaps = store.gaps /\ report'.misses = store.misses
    BY <1>1, <2>1, <2>2, <2>3 DEF StatusInv, Report
  <2>5. \A g \in told.gaps : g.to >= report'.from => g \in report'.gaps
    BY <2>1, <2>2, <2>4 DEF StatusInv
  <2>6. \A m \in told.misses : m >= report'.from => m \in report'.misses
    BY <2>1, <2>2, <2>4 DEF StatusInv
  <2> QED
    BY <1>1, <2>1, <2>4, <2>5, <2>6 DEF StatusInv
<1>4. CASE CheckIntegrity
  <2>1. /\ stage = "read" /\ stage' = "reported" /\ told' = told /\ store' = store
        /\ report' = [report EXCEPT !.problem = CheckpointAhead(store)]
    BY <1>4 DEF CheckIntegrity, window
  <2>2. CheckpointAhead(store) = FALSE
    <3>1. CheckpointAhead(store) \in BOOLEAN
      BY DEF CheckpointAhead
    <3> QED
      BY <3>1, CheckpointInOrder
  <2>3. /\ report' \in Report /\ ~ report'.problem
        /\ report'.from = report.from /\ report'.to = report.to
        /\ report'.gaps = report.gaps /\ report'.misses = report.misses
    <3>1. report' = [report EXCEPT !.problem = FALSE]
      BY <2>1, <2>2
    <3> QED
      BY <3>1 DEF StatusInv, Report
  <2> QED
    BY <2>1, <2>3 DEF StatusInv
<1> QED
  BY <1>2, <1>3, <1>4

\* While the staleness it left lasts, what a report that says OK promises holds.
LEMMA HealthyAnswers ==
    ASSUME WindowInv, StatusInv
    PROVE  OKHolds
<1> SUFFICES ASSUME stage = "reported", Healthy(report),
                    clock <= Later(report.now, report.to + MaxStaleness),
                    NEW w \in Windows,
                    ~ (w.from # 0 /\ w.from < CoverageFrom(store)), ~ (w.to > store.to),
                    store.gaps = {}, store.misses = {}
             PROVE  Answers(store, w.from, w.to, clock)
  BY DEF OKHolds
<1>1. /\ store \in Store /\ store.to \in Nat /\ clock \in Nat
      /\ report.to \in Nat /\ report.now \in Nat /\ report.to <= store.to
      /\ MaxStaleness \in Nat /\ Retention \in Nat
  BY StoreAssumption DEF WindowInv, WindowOK, StatusInv, Report, Store, Instant
<1>2. report.to # 0 /\ report.now - report.to <= MaxStaleness
  BY DEF Healthy, StaleBy
<1>3. w.from \in Nat /\ w.to \in Nat
  BY <1>1 DEF Windows
<1>4. CoverageFrom(store) \in Nat
  BY <1>1, CoverageFromType
<1>5. store.to # 0 /\ clock - store.to <= MaxStaleness
  BY <1>1, <1>2 DEF Later
<1> QED
  BY <1>1, <1>3, <1>4, <1>5 DEF Answers

----------------------------------------------------------------------------
(***************************************************************************)
(* The script                                                              *)
(***************************************************************************)
AskedType == asked.from \in Nat /\ asked.to \in Nat

\* What is left of the snapshot: rows of distinct ids, in their order.
TodoOK ==
    /\ todo \subseteq Txn
    /\ \E b \in Nat : \A t \in todo : t.id <= b
    /\ \A t, u \in todo : t.id < u.id <=> t.src < u.src
    /\ \A t, u \in todo : t.src = u.src => t = u

\* What is written comes out of the snapshot, newest first, and nothing left
\* of it is newer.
WrittenOK ==
    /\ written \in Seq(Txn)
    /\ \A j, k \in 1 .. Len(written) : j < k => written[j].src > written[k].src
    /\ \A k \in 1 .. Len(written), t \in todo : t.src < written[k].src

\* A change of the window is written or left to be.
NothingForgotten ==
    \A i \in 1 .. Len(collected) :
        InWindow(i) /\ collected[i].kind = "rows" =>
            \/ \E t \in todo : t.src = i
            \/ \E k \in 1 .. Len(written) : written[k].src = i

\* The trailer is written when nothing is left, it is there from then on until
\* the process fails or dies, and what is synced or renamed has it.
TrailerOK ==
    /\ trailer = "end" => /\ pc \in {"ended", "flushed", "closed", "done", "dead"}
                          /\ todo = {} /\ WrittenOK /\ NothingForgotten
    /\ pc \in {"ended", "flushed", "closed", "done"} => trailer = "end"
    /\ pc \in {"ended", "flushed", "closed"} => sink = "file"
    /\ pc \in {"flushed", "closed"} => synced
    /\ synced => trailer = "end"
    /\ renamed => synced /\ pc \in {"done", "dead"}

ScriptInv ==
    /\ pc \in {"idle", "opened", "scanned", "writing", "ended", "flushed", "closed",
               "done", "failed", "dead"}
    /\ TrailerOK
    /\ pc \in {"idle", "opened", "scanned"} => written = <<>>
    /\ pc = "writing" => TodoOK /\ WrittenOK /\ NothingForgotten

\* Nothing is begun.
LEMMA ScriptInit == InitScript => ScriptInv
BY DEF InitScript, ScriptInv, TrailerOK

\* The newest change left is one of them.
LEMMA LatestIsLeft ==
    ASSUME TodoOK, todo # {}
    PROVE  Latest \in todo /\ \A u \in todo : u.id <= Latest.id
<1> DEFINE ids == {t.id : t \in todo}
<1>1. PICK b \in Nat : \A t \in todo : t.id <= b
  BY DEF TodoOK
<1>2. ids \in SUBSET Nat /\ ids # {} /\ \A x \in ids : x <= b
  BY <1>1 DEF TodoOK, Txn
<1>3. \A t \in todo : t.id \in ids
  OBVIOUS
<1>4. \A x \in ids : \E t \in todo : t.id = x
  OBVIOUS
<1> HIDE DEF ids
<1>5. Max(ids) \in ids /\ \A x \in ids : x <= Max(ids)
  BY <1>1, <1>2, MaxOfNaturals
<1>6. \E t \in todo : \A u \in todo : u.id <= t.id
  BY <1>3, <1>4, <1>5
<1> QED
  BY <1>6 DEF Latest

\* The second pass takes a snapshot of a window that lacks nothing.
LEMMA SecondPassStep ==
    ASSUME WindowInv, AskedType, ScriptInv, SecondPass
    PROVE  ScriptInv'
<1>1. /\ pc = "scanned" /\ pc' = "writing" /\ written = <<>> /\ written' = <<>>
      /\ trailer' = trailer /\ synced' = synced /\ renamed' = renamed
      /\ trailer # "end" /\ ~ synced /\ ~ renamed
      /\ store' = store /\ collected' = collected /\ asked' = asked
      /\ todo' = Visited({"rows"}) /\ upto' = Len(collected)
      /\ bound' = WindowBounds(store, asked.from, asked.to).from
      /\ Answers(store, asked.from, asked.to, Now)
  BY DEF SecondPass, Snapshot, Refuses, ScriptInv, TrailerOK, window
<1>2. /\ store \in Store /\ store.from # 0 /\ store.from \in Nat /\ IdsBounded(store)
      /\ OrderOf(store) /\ \A t \in store.txns : Faithful(t)
      /\ \A t, u \in store.txns : t.src = u.src => t = u
  BY DEF WindowInv, WindowOK, RowsOK, Store, Instant
<1>3. todo' \subseteq store.txns
  BY <1>1 DEF Visited, Events
<1>4. TodoOK'
  <2>1. store.txns \subseteq Txn
    BY <1>2 DEF Store
  <2>2. PICK b \in Nat : \A t \in store.txns : t.id <= b
    BY <1>2 DEF IdsBounded
  <2> QED
    BY <1>2, <1>3, <2>1, <2>2 DEF TodoOK, OrderOf, InOrder
<1>5. WrittenOK'
  BY <1>1 DEF WrittenOK
<1>6. bound' >= store.from /\ (asked.from # 0 => bound' = asked.from)
  <2>1. CoverageFrom(store) = store.from
    BY <1>2, CoverageFromType
  <2>2. asked.from # 0 => asked.from >= CoverageFrom(store)
    BY <1>1 DEF Answers
  <2> QED
    BY <1>1, <1>2, <2>1, <2>2 DEF WindowBounds, AskedType
<1>7. NothingForgotten'
  <2> SUFFICES ASSUME NEW i \in 1 .. Len(collected), bound' <= collected[i].at,
                      asked.to # 0 => collected[i].at <= asked.to,
                      collected[i].kind = "rows"
               PROVE  \E t \in todo' : t.src = i
    BY <1>1 DEF NothingForgotten, InWindow
  <2>1. collected[i].at \in Nat
    BY ChangeType DEF WindowInv
  <2>2. bound' \in Nat
    <3>1. CoverageFrom(store) \in Nat
      BY <1>2, CoverageFromType
    <3> QED
      BY <1>1, <3>1 DEF WindowBounds, AskedType
  <2>3. ~ (collected[i].at < store.from)
    BY <1>2, <1>6, <2>1, <2>2
  <2>4. PICK t \in store.txns : t.src = i
    BY <2>3 DEF WindowInv, NothingMissing, Sources
  <2>5. t.at = collected[i].at
    BY <1>2, <2>4 DEF Faithful
  <2>6. Match(t, asked.from, asked.to)
    BY <1>6, <2>1, <2>2, <2>5 DEF Match
  <2>7. t \in Visited({"rows"})
    BY <2>4, <2>6 DEF Visited, Events, KindOf
  <2> QED
    BY <1>1, <2>4, <2>7
<1> QED
  BY <1>1, <1>4, <1>5, <1>7 DEF ScriptInv, TrailerOK

\* A statement written is that of the newest change left.
LEMMA WriteStep ==
    ASSUME ScriptInv, WriteStatement
    PROVE  ScriptInv'
<1> DEFINE t == Latest
<1>1. /\ pc = "writing" /\ pc' = "writing" /\ todo # {}
      /\ written' = Append(written, t) /\ todo' = todo \ {t}
      /\ trailer' = trailer /\ synced' = synced /\ renamed' = renamed
      /\ collected' = collected /\ asked' = asked /\ bound' = bound /\ upto' = upto
  BY DEF WriteStatement, window, passes
<1>2. TodoOK /\ WrittenOK /\ NothingForgotten
  BY <1>1 DEF ScriptInv
<1>3. t \in todo /\ \A u \in todo : u.id <= t.id
  BY <1>1, <1>2, LatestIsLeft
<1> HIDE DEF t
<1>4. t \in Txn /\ written \in Seq(Txn) /\ Len(written) \in Nat
  BY <1>2, <1>3 DEF TodoOK, WrittenOK
<1>5. \A u \in todo : u.src \in Nat /\ u.id \in Nat /\ (u # t => u.src < t.src)
  BY <1>2, <1>3 DEF TodoOK, Txn
<1>6. \A k \in 1 .. Len(written) : written[k].src \in Nat
  <2>1. \A k \in 1 .. Len(written) : written[k] \in Txn
    BY <1>4
  <2> QED
    BY <2>1 DEF Txn
<1>7. /\ written' \in Seq(Txn) /\ Len(written') = Len(written) + 1
      /\ written'[Len(written) + 1] = t
      /\ \A k \in 1 .. Len(written) : written'[k] = written[k]
  BY <1>1, <1>4
<1>8. TodoOK'
  BY <1>1, <1>2 DEF TodoOK
<1>9. WrittenOK'
  <2>1. \A k \in 1 .. Len(written) : t.src < written[k].src
    BY <1>2, <1>3 DEF WrittenOK
  <2>2. ASSUME NEW j \in 1 .. Len(written'), NEW k \in 1 .. Len(written'), j < k
        PROVE  written'[j].src > written'[k].src
    <3>1. j \in 1 .. Len(written) /\ (k \in 1 .. Len(written) \/ k = Len(written) + 1)
      BY <1>4, <1>7, <2>2
    <3> QED
      BY <1>2, <1>6, <1>7, <2>1, <2>2, <3>1 DEF WrittenOK
  <2>3. ASSUME NEW k \in 1 .. Len(written'), NEW u \in todo'
        PROVE  u.src < written'[k].src
    <3>1. k \in 1 .. Len(written) \/ k = Len(written) + 1
      BY <1>4, <1>7
    <3>2. u \in todo /\ u # t
      BY <1>1
    <3> QED
      BY <1>2, <1>5, <1>7, <3>1, <3>2 DEF WrittenOK
  <2> QED
    BY <1>7, <2>2, <2>3 DEF WrittenOK
<1>10. NothingForgotten'
  <2> SUFFICES ASSUME NEW i \in 1 .. Len(collected), InWindow(i), collected[i].kind = "rows"
               PROVE  \/ \E u \in todo' : u.src = i
                      \/ \E k \in 1 .. Len(written') : written'[k].src = i
    BY <1>1 DEF NothingForgotten, InWindow
  <2>1. CASE \E k \in 1 .. Len(written) : written[k].src = i
    <3>1. PICK k \in 1 .. Len(written) : written[k].src = i
      BY <2>1
    <3>2. k \in 1 .. Len(written') /\ written'[k].src = i
      BY <1>4, <1>7, <3>1
    <3> QED
      BY <3>2
  <2>2. CASE \E u \in todo : u.src = i
    <3>1. PICK u \in todo : u.src = i
      BY <2>2
    <3>2. CASE u = t
      <4>1. Len(written) + 1 \in 1 .. Len(written')
        BY <1>4, <1>7
      <4> QED
        BY <1>7, <3>1, <3>2, <4>1
    <3> QED
      BY <1>1, <3>1, <3>2
  <2> QED
    BY <1>2, <2>1, <2>2 DEF NothingForgotten
<1> QED
  BY <1>1, <1>8, <1>9, <1>10 DEF ScriptInv, TrailerOK

\* The end of a script, of a process that fails, dies or loses its machine.
EndOfScript ==
    \/ CloseWriter \/ SyncFile \/ CloseFile \/ Rename
    \/ Refuse \/ StepFails \/ Kill \/ PowerLoss

\* A trailer goes on a script that has nothing left, and nothing that follows
\* it, a failure, a kill or a power loss, leaves it on a lesser one.
LEMMA EndStep ==
    ASSUME ScriptInv, EndOfScript
    PROVE  ScriptInv'
<1>1. /\ todo' = todo /\ collected' = collected /\ asked' = asked /\ sink' = sink
      /\ bound' = bound /\ upto' = upto
  BY DEF EndOfScript, CloseWriter, SyncFile, CloseFile, Rename, Refuse, StepFails, Fail,
         Kill, PowerLoss, window, passes
<1>2. ASSUME written' = written
      PROVE  (TodoOK => TodoOK') /\ (WrittenOK => WrittenOK')
             /\ (NothingForgotten => NothingForgotten')
  BY <1>1, <1>2 DEF TodoOK, WrittenOK, NothingForgotten, InWindow
<1>3. CASE CloseWriter
  <2>1. WrittenOK' /\ NothingForgotten' /\ todo = {}
    BY <1>2, <1>3 DEF CloseWriter, ScriptInv
  <2>2. ~ synced /\ ~ renamed /\ synced' = synced /\ renamed' = renamed
    BY <1>3 DEF CloseWriter, ScriptInv, TrailerOK
  <2> QED
    BY <1>1, <1>3, <2>1, <2>2 DEF CloseWriter, ScriptInv, TrailerOK
<1>4. CASE SyncFile \/ CloseFile \/ Rename
  <2>1. /\ written' = written /\ trailer = "end" /\ trailer' = "end"
        /\ WrittenOK /\ NothingForgotten /\ todo = {}
    BY <1>4 DEF SyncFile, CloseFile, Rename, ScriptInv, TrailerOK
  <2>2. WrittenOK' /\ NothingForgotten'
    BY <1>2, <2>1
  <2> QED
    BY <1>1, <1>4, <2>1, <2>2 DEF SyncFile, CloseFile, Rename, ScriptInv, TrailerOK
<1>5. CASE Refuse \/ StepFails
  <2>1. pc' = "failed" /\ trailer' # "end" /\ ~ synced' /\ ~ renamed'
    BY <1>5 DEF Refuse, StepFails, Fail, ScriptInv, TrailerOK
  <2> QED
    BY <2>1 DEF ScriptInv, TrailerOK
<1>6. CASE Kill
  <2>1. written' = written
    BY <1>6 DEF Kill
  <2> QED
    BY <1>1, <1>2, <1>6, <2>1 DEF Kill, ScriptInv, TrailerOK
<1>7. CASE PowerLoss
  <2>1. pc' = "dead" /\ synced' = synced /\ (renamed' => renamed)
    <3>1. pc' = "dead" /\ synced' = synced
      BY <1>7 DEF PowerLoss
    <3>2. renamed' = renamed \/ renamed' = FALSE
      BY <1>7, Zenon DEF PowerLoss
    <3>3. renamed' => renamed
      BY <3>2, Zenon
    <3> QED
      BY <3>1, <3>3
  <2>2. CASE UNCHANGED <<written, trailer>>
    BY <1>1, <1>2, <2>1, <2>2 DEF ScriptInv, TrailerOK
  <2>3. CASE ~ synced /\ trailer' = "nothing"
    BY <2>1, <2>3 DEF ScriptInv, TrailerOK
  <2> QED
    BY <1>7, <2>2, <2>3 DEF PowerLoss
<1> QED
  BY <1>3, <1>4, <1>5, <1>6, <1>7 DEF EndOfScript

\* The steps of the script itself.
ScriptMoves ==
    \/ \E w \in Windows, to \in Sinks : Begin(w, to)
    \/ FirstPass \/ SecondPass \/ WriteStatement \/ EndOfScript

LEMMA ScriptStep ==
    ASSUME WindowInv, AskedType, ScriptInv, ScriptMoves
    PROVE  ScriptInv' /\ AskedType'
<1>1. ASSUME NEW w \in Windows, NEW to \in Sinks, Begin(w, to)
      PROVE  ScriptInv' /\ AskedType'
  <2>1. /\ pc = "idle" /\ pc' = "opened" /\ asked' = w /\ written' = written
        /\ trailer' = trailer /\ synced' = synced /\ renamed' = renamed
    BY <1>1 DEF Begin
  <2>2. w.from \in Nat /\ w.to \in Nat
    BY StoreAssumption DEF Windows, WindowInv, WindowOK
  <2> QED
    BY <2>1, <2>2 DEF ScriptInv, TrailerOK, AskedType
<1>2. CASE FirstPass
  BY <1>2 DEF FirstPass, ScriptInv, TrailerOK, AskedType
<1>3. CASE SecondPass
  BY <1>3, SecondPassStep DEF SecondPass, Snapshot, AskedType
<1>4. CASE WriteStatement
  BY <1>4, WriteStep DEF WriteStatement, AskedType
<1>5. CASE EndOfScript
  <2>1. asked' = asked
    BY <1>5 DEF EndOfScript, CloseWriter, SyncFile, CloseFile, Rename, Refuse, StepFails,
                Fail, Kill, PowerLoss
  <2> QED
    BY <1>5, <2>1, EndStep DEF AskedType
<1> QED
  BY <1>1, <1>2, <1>3, <1>4, <1>5 DEF ScriptMoves

\* A script with its trailer undoes its window, and only such a one has the
\* name asked for.
LEMMA ScriptIsWhole ==
    ASSUME WindowInv, ScriptInv
    PROVE  TrailerMeansComplete /\ FileIsWhole
<1>1. ASSUME trailer = "end"
      PROVE  UndoesTheWindow
  <2>1. todo = {} /\ WrittenOK /\ NothingForgotten
    BY <1>1 DEF ScriptInv, TrailerOK
  <2>2. DOMAIN written = 1 .. Len(written) /\ DOMAIN collected = 1 .. Len(collected)
    BY <2>1 DEF WrittenOK, WindowInv, WindowOK
  <2> QED
    BY <2>1, <2>2 DEF WrittenOK, NothingForgotten, UndoesTheWindow
<1>2. renamed => trailer = "end"
  BY DEF ScriptInv, TrailerOK
<1> QED
  BY <1>1, <1>2 DEF TrailerMeansComplete, FileIsWhole

----------------------------------------------------------------------------
(***************************************************************************)
(* The timeline                                                            *)
(***************************************************************************)
\* What is listed is rows of changes collected, each once, as they are
\* stored if they still are.
ListedOK ==
    /\ listed \in Seq(Txn)
    /\ \A k \in 1 .. Len(listed) : listed[k].src \in 1 .. Len(collected)
    /\ \A j, k \in 1 .. Len(listed) : listed[j].src = listed[k].src => j = k
    /\ \A k \in 1 .. Len(listed), t \in store.txns : t.src = listed[k].src => t = listed[k]

\* A change of the window that was there at the start, and is still.
Expected == {t \in first \cap store.txns : Match(t, asked.from, asked.to)}

Lists(t) == \E k \in 1 .. Len(listed) : listed[k] = t

\* The cursor parts what is listed from what is to come.
CursorParts ==
    /\ cursor = 0 => listed = <<>>
    /\ cursor # 0 => /\ \A k \in 1 .. Len(listed) : listed[k].id >= cursor
                     /\ \A t \in Expected : t.id >= cursor => Lists(t)

TimelineInv ==
    /\ cursor \in Nat
    /\ ListedOK
    /\ \A t \in first : t.src \in 1 .. Len(collected)
    /\ ~ over => CursorParts
    /\ over => \A t \in Expected : Lists(t)

\* No page is read.
LEMMA TimelineInit == InitTimeline => TimelineInv
BY DEF InitTimeline, TimelineInv, ListedOK, CursorParts, Expected

\* What happens to the store takes nothing from what is listed, and adds
\* nothing to what is to be.
LEMMA TimelineUnderWrites ==
    ASSUME WindowInv, WindowInv', WindowMoves, TimelineInv, UNCHANGED <<asked, timeline>>
    PROVE  TimelineInv'
<1>1. /\ Len(collected) \in Nat /\ Len(collected') \in Nat /\ Len(collected) <= Len(collected')
      /\ cursor' = cursor /\ listed' = listed /\ first' = first /\ over' = over /\ asked' = asked
      /\ \A t \in store'.txns \ store.txns : t.src = Len(collected) + 1
  BY DEF WindowInv, WindowOK, WindowMoves, timeline
<1>2. ListedOK /\ \A t \in first : t.src \in 1 .. Len(collected)
  BY DEF TimelineInv
<1>3. \A t \in store'.txns : t.src \in Nat
  BY DEF WindowInv, WindowOK, Store, Txn
<1>4. ListedOK'
  <2>1. ASSUME NEW k \in 1 .. Len(listed), NEW t \in store'.txns, t.src = listed[k].src
        PROVE  t = listed[k]
    <3>1. t.src \in 1 .. Len(collected)
      BY <1>2, <2>1 DEF ListedOK
    <3>2. t \in store.txns
      BY <1>1, <3>1
    <3> QED
      BY <1>2, <2>1, <3>2 DEF ListedOK
  <2> QED
    BY <1>1, <1>2, <2>1 DEF ListedOK
<1>5. Expected' \subseteq Expected
  <2> SUFFICES ASSUME NEW t \in first, t \in store'.txns PROVE t \in store.txns
    BY <1>1 DEF Expected
  <2>1. t.src \in Nat /\ t.src <= Len(collected)
    BY <1>2, <1>3
  <2> QED
    BY <1>1, <2>1
<1>6. \A t \in first' : t.src \in 1 .. Len(collected')
  BY <1>1, <1>2
<1>7. (~ over => CursorParts) => (~ over' => CursorParts')
  BY <1>1, <1>5 DEF CursorParts, Lists
<1>8. (over => \A t \in Expected : Lists(t)) => (over' => (\A t \in Expected : Lists(t))')
  BY <1>1, <1>5 DEF Lists
<1> QED
  BY <1>1, <1>4, <1>6, <1>7, <1>8 DEF TimelineInv

\* A page: what it holds was not listed yet, and with it everything down to
\* its cursor is.
LEMMA ReadPageStep ==
    ASSUME WindowInv, TimelineInv, NEW w \in Windows, ReadPage(w)
    PROVE  TimelineInv' /\ AskedType'
<1> DEFINE matching == {t \in Events(store, w.from, w.to) : cursor = 0 \/ t.id < cursor}
           entries == Page(w, cursor)
           page == NewestFirst(entries)
<1>1. /\ ~ over /\ asked' = w /\ listed' = listed \o page
      /\ over' = (Cardinality(entries) < Limit)
      /\ cursor' = IF over' THEN cursor ELSE Min({t.id : t \in entries})
      /\ first' = IF cursor = 0 THEN store.txns ELSE first
      /\ store' = store /\ collected' = collected
      /\ cursor # 0 => w = asked
  BY DEF ReadPage, window
<1>2. /\ store \in Store /\ Len(collected) \in Nat /\ cursor \in Nat /\ Limit \in Nat /\ Limit # 0
      /\ ListedOK /\ CursorParts /\ \A t \in first : t.src \in 1 .. Len(collected)
  BY <1>1, TimelineAssumption DEF WindowInv, WindowOK, TimelineInv
<1>3. /\ Rows(store.txns) /\ \A t \in store.txns : t.id # 0 /\ t.src \in 1 .. Len(collected)
      /\ \A t, u \in store.txns : t.src = u.src => t = u
  <2>1. store.txns \subseteq Txn
    BY <1>2 DEF Store
  <2>2. \A t, u \in store.txns : t.id = u.id => t = u
    <3>1. \A t, u \in store.txns : t.id = u.id => t.src = u.src
      BY <2>1 DEF Txn, WindowInv, RowsOK, OrderOf, InOrder
    <3> QED
      BY <3>1 DEF WindowInv, RowsOK
  <2> QED
    BY <2>1, <2>2 DEF WindowInv, RowsOK, Rows, Faithful
<1>4. /\ matching \subseteq store.txns /\ Rows(matching)
      /\ \A t \in matching : t.id \in Nat /\ t.id # 0
  <2>1. matching \in SUBSET store.txns
    BY DEF Events
  <2>2. Rows(matching)
    BY <1>3, <2>1, SubsetOfRows
  <2> QED
    BY <1>3, <2>1, <2>2 DEF Rows, Txn
<1>5. entries = Newest(matching, Limit)
  BY DEF Page
<1>6. entries \in SUBSET matching
  BY <1>5 DEF Newest
<1>7. Rows(entries) /\ Cardinality(entries) \in Nat
  <2>1. Rows(entries)
    BY <1>4, <1>6, SubsetOfRows
  <2> QED
    BY <2>1, FS_CardinalityType DEF Rows
<1>8. /\ page \in Seq(Txn) /\ Len(page) = Cardinality(entries)
      /\ \A k \in 1 .. Len(page) : page[k] \in entries
      /\ \A j, k \in 1 .. Len(page) : page[j] = page[k] => j = k
      /\ \A t \in entries : \E k \in 1 .. Len(page) : page[k] = t
  BY <1>7, NewestFirstLists
<1>9. \A t \in matching : \A k \in 1 .. Len(listed) : t.src # listed[k].src
  <2> SUFFICES ASSUME NEW t \in matching, NEW k \in 1 .. Len(listed), t.src = listed[k].src
               PROVE  FALSE
    OBVIOUS
  <2>1. t = listed[k]
    BY <1>2, <1>4 DEF ListedOK
  <2>2. cursor # 0 /\ listed[k].id >= cursor
    <3>1. listed # <<>>
      BY <1>2 DEF ListedOK
    <3> QED
      BY <1>2, <3>1 DEF CursorParts
  <2>3. t.id < cursor /\ t.id \in Nat
    BY <1>4, <2>2
  <2> QED
    BY <1>2, <2>1, <2>2, <2>3
<1>10. listed \in Seq(Txn) /\ Len(listed) \in Nat /\ Len(page) \in Nat
  BY <1>2, <1>7, <1>8 DEF ListedOK
<1>11. /\ listed' \in Seq(Txn) /\ Len(listed') = Len(listed) + Len(page)
       /\ \A k \in 1 .. Len(listed) : listed'[k] = listed[k]
       /\ \A k \in 1 .. Len(page) : listed'[Len(listed) + k] = page[k]
  <2> DEFINE both == listed \o page
  <2> HIDE DEF page
  <2>0. /\ both \in Seq(Txn) /\ Len(both) = Len(listed) + Len(page)
        /\ \A i \in 1 .. Len(listed) + Len(page) :
              both[i] = IF i <= Len(listed) THEN listed[i] ELSE page[i - Len(listed)]
    <3>1. listed \in Seq(Txn) /\ page \in Seq(Txn)
      BY <1>8, <1>10
    <3> QED
      BY <3>1, ConcatProperties, Zenon
  <2>1. /\ listed' \in Seq(Txn) /\ Len(listed') = Len(listed) + Len(page)
        /\ \A i \in 1 .. Len(listed) + Len(page) :
              listed'[i] = IF i <= Len(listed) THEN listed[i] ELSE page[i - Len(listed)]
    BY <1>1, <2>0
  <2>2. ASSUME NEW k \in 1 .. Len(page) PROVE listed'[Len(listed) + k] = page[k]
    <3>1. /\ Len(listed) + k \in 1 .. Len(listed) + Len(page)
          /\ ~ (Len(listed) + k <= Len(listed)) /\ (Len(listed) + k) - Len(listed) = k
      BY <1>10
    <3> QED
      BY <2>1, <3>1
  <2> QED
    BY <1>10, <2>1, <2>2
<1> HIDE DEF page, entries, matching
<1>12. \A i \in 1 .. Len(listed') :
          \/ i \in 1 .. Len(listed)
          \/ \E k \in 1 .. Len(page) : i = Len(listed) + k
  <2> SUFFICES ASSUME NEW i \in 1 .. Len(listed'), i \notin 1 .. Len(listed)
               PROVE  \E k \in 1 .. Len(page) : i = Len(listed) + k
    OBVIOUS
  <2>1. i - Len(listed) \in 1 .. Len(page) /\ i = Len(listed) + (i - Len(listed))
    BY <1>10, <1>11
  <2> QED
    BY <2>1
<1>13. \A t : Lists(t) => Lists(t)'
  <2> SUFFICES ASSUME NEW t, NEW k \in 1 .. Len(listed), listed[k] = t PROVE Lists(t)'
    BY DEF Lists
  <2>1. k \in 1 .. Len(listed')
    BY <1>10, <1>11
  <2> QED
    BY <1>11, <2>1 DEF Lists
<1>14. \A t \in entries : Lists(t)'
  <2> SUFFICES ASSUME NEW t \in entries PROVE Lists(t)'
    OBVIOUS
  <2>1. PICK k \in 1 .. Len(page) : page[k] = t
    BY <1>8
  <2>2. Len(listed) + k \in 1 .. Len(listed')
    BY <1>10, <1>11
  <2> QED
    BY <1>11, <2>1, <2>2 DEF Lists
<1>15. ListedOK'
  <2>1. \A k \in 1 .. Len(page) : page[k] \in matching /\ page[k] \in store.txns
    BY <1>4, <1>6, <1>8
  <2>2. ASSUME NEW i \in 1 .. Len(listed')
        PROVE  /\ listed'[i].src \in 1 .. Len(collected)
               /\ \A t \in store.txns : t.src = listed'[i].src => t = listed'[i]
    <3>1. CASE i \in 1 .. Len(listed)
      BY <1>2, <1>11, <3>1 DEF ListedOK
    <3>2. ASSUME NEW k \in 1 .. Len(page), i = Len(listed) + k
          PROVE  /\ listed'[i].src \in 1 .. Len(collected)
                 /\ \A t \in store.txns : t.src = listed'[i].src => t = listed'[i]
      BY <1>3, <1>11, <2>1, <3>2
    <3> QED
      BY <1>12, <3>1, <3>2
  <2>3. ASSUME NEW i \in 1 .. Len(listed'), NEW j \in 1 .. Len(listed'),
               listed'[i].src = listed'[j].src
        PROVE  i = j
    <3>1. CASE i \in 1 .. Len(listed) /\ j \in 1 .. Len(listed)
      BY <1>2, <1>11, <2>3, <3>1 DEF ListedOK
    <3>2. ASSUME NEW k \in 1 .. Len(page), NEW l \in 1 .. Len(page),
                 i = Len(listed) + k, j = Len(listed) + l
          PROVE  i = j
      <4>1. page[k].src = page[l].src
        BY <1>11, <2>3, <3>2
      <4>2. page[k] = page[l]
        BY <1>3, <2>1, <4>1
      <4> QED
        BY <1>8, <3>2, <4>2
    <3>3. ASSUME NEW k \in 1 .. Len(page), i = Len(listed) + k, j \in 1 .. Len(listed)
          PROVE  FALSE
      BY <1>9, <1>11, <2>1, <2>3, <3>3
    <3>4. ASSUME NEW k \in 1 .. Len(page), j = Len(listed) + k, i \in 1 .. Len(listed)
          PROVE  FALSE
      BY <1>9, <1>11, <2>1, <2>3, <3>4
    <3> QED
      BY <1>12, <3>1, <3>2, <3>3, <3>4
  <2> QED
    BY <1>1, <1>11, <2>2, <2>3 DEF ListedOK
<1>16. \A t \in first' : t.src \in 1 .. Len(collected')
  BY <1>1, <1>2, <1>3
\* What is expected after this page and was not listed before it.
<1>17. ASSUME NEW t \in Expected' PROVE t \in matching \/ (cursor # 0 /\ Lists(t))
  <2>1. t \in first' /\ t \in store.txns /\ Match(t, w.from, w.to)
    BY <1>1 DEF Expected
  <2>2. t.id \in Nat
    BY <1>2, <2>1 DEF Store, Txn
  <2>3. CASE cursor = 0 \/ t.id < cursor
    BY <2>1, <2>3 DEF matching, Events
  <2>4. CASE cursor # 0 /\ t.id >= cursor
    <3>1. t \in Expected
      BY <1>1, <2>1, <2>4 DEF Expected
    <3> QED
      BY <1>2, <2>4, <3>1 DEF CursorParts
  <2> QED
    BY <1>2, <2>2, <2>3, <2>4
<1>18. AskedType'
  <2>1. w.from \in Nat /\ w.to \in Nat
    BY StoreAssumption DEF Windows, WindowInv, WindowOK
  <2> QED
    BY <1>1, <2>1 DEF AskedType
<1>19. CASE over'
  <2>1. entries = matching
    <3>1. Cardinality(entries) < Limit
      BY <1>1, <1>19
    <3> QED
      BY <1>2, <1>4, <1>5, <3>1, NotFullIsAll
  <2>2. \A t \in Expected' : Lists(t)'
    BY <1>13, <1>14, <1>17, <2>1
  <2>3. cursor' \in Nat
    BY <1>1, <1>2, <1>19
  <2> QED
    BY <1>15, <1>16, <1>18, <1>19, <2>2, <2>3 DEF TimelineInv
<1>20. CASE ~ over'
  <2> DEFINE ids == {t.id : t \in entries}
  <2>1. entries # {}
    <3>1. Cardinality(entries) # 0
      <4>1. ~ (Cardinality(entries) < Limit)
        BY <1>1, <1>20
      <4> QED
        BY <1>2, <1>7, <4>1
    <3> QED
      BY <3>1, FS_EmptySet
  <2>2. ids \in SUBSET Nat /\ ids # {} /\ \A x \in ids : x # 0
    BY <1>4, <1>6, <2>1
  <2>3. cursor' = Min(ids)
    BY <1>1, <1>20
  <2>4. (\A t \in entries : t.id \in ids) /\ (\A x \in ids : \E t \in entries : t.id = x)
    OBVIOUS
  <2> HIDE DEF ids
  <2>5. cursor' \in ids /\ \A x \in ids : cursor' <= x
    BY <2>2, <2>3, MinOfNaturals
  <2>6. cursor' \in Nat /\ cursor' # 0
    BY <2>2, <2>5
  <2>7. PICK last \in entries : last.id = cursor'
    BY <2>4, <2>5
  <2>8. last \in matching /\ last.id \in Nat /\ (cursor # 0 => cursor' < cursor)
    BY <1>4, <1>6, <2>7 DEF matching
  <2>9. ASSUME NEW k \in 1 .. Len(listed') PROVE listed'[k].id >= cursor'
    <3>1. CASE k \in 1 .. Len(listed)
      <4>1. listed # <<>>
        BY <1>10, <3>1
      <4>2. cursor # 0 /\ listed[k].id >= cursor
        BY <1>2, <3>1, <4>1 DEF CursorParts
      <4>3. listed[k] \in Txn
        BY <1>10, <3>1
      <4>4. listed[k].id \in Nat
        BY <4>3 DEF Txn
      <4> QED
        BY <1>2, <1>11, <2>6, <2>8, <3>1, <4>2, <4>4
    <3>2. ASSUME NEW j \in 1 .. Len(page), k = Len(listed) + j
          PROVE  listed'[k].id >= cursor'
      <4>1. listed'[k] \in entries
        BY <1>8, <1>11, <3>2
      <4>2. listed'[k].id \in ids
        BY <2>4, <4>1
      <4> QED
        BY <2>2, <2>5, <2>6, <4>2
    <3> QED
      BY <1>12, <3>1, <3>2
  <2>10. ASSUME NEW t \in Expected', t.id >= cursor' PROVE Lists(t)'
    <3>1. CASE cursor # 0 /\ Lists(t)
      BY <1>13, <3>1
    <3>2. CASE t \in matching
      <4>1. t \in Newest(matching, Limit)
        BY <1>2, <1>4, <1>5, <2>7, <2>10, <3>2, NewestIsNewest
      <4> QED
        BY <1>5, <1>14, <4>1
    <3> QED
      BY <1>17, <3>1, <3>2
  <2>11. CursorParts'
    BY <2>6, <2>9, <2>10 DEF CursorParts
  <2> QED
    BY <1>15, <1>16, <1>18, <1>20, <2>6, <2>11 DEF TimelineInv
<1> QED
  BY <1>19, <1>20

\* What the invariant says of a timeline that is over, and of one that is not.
LEMMA TimelineIsWhole ==
    ASSUME TimelineInv
    PROVE  ListedOnce /\ NoneMissing
<1>1. DOMAIN listed = 1 .. Len(listed)
  BY DEF TimelineInv, ListedOK
<1> QED
  BY <1>1 DEF TimelineInv, ListedOK, ListedOnce, NoneMissing, Expected, Lists

----------------------------------------------------------------------------
(***************************************************************************)
(* One reader at the window                                                *)
(***************************************************************************)
\* Every reader's invariant, of the one there is and of those that never
\* begin.
ReaderInv ==
    /\ WindowInv /\ AskedType
    /\ TimelineInv /\ (reader # "timeline" => InitTimeline)
    /\ ScriptInv /\ (reader # "script" => InitScript)
    /\ StatusInv /\ (reader # "status" => InitStatus)

\* No reader has begun.
LEMMA ReaderInit == Init => ReaderInv
<1> SUFFICES ASSUME Init PROVE ReaderInv
  OBVIOUS
<1>1. WindowInv /\ TimelineInv /\ ScriptInv /\ StatusInv
  BY WindowInit, TimelineInit, ScriptInit, StatusInit DEF Init
<1>2. AskedType
  BY DEF Init, InitWindow, AskedType
<1> QED
  BY <1>1, <1>2 DEF Init, ReaderInv

\* A step of the timeline, of the script or of the report, or of the others
\* under the eyes of one of them.
LEMMA ReaderStep == ReaderInv /\ [Next]_vars => ReaderInv'
<1> SUFFICES ASSUME ReaderInv, [Next]_vars PROVE ReaderInv'
  OBVIOUS
<1>1. WindowInv /\ AskedType /\ TimelineInv /\ ScriptInv /\ StatusInv
  BY DEF ReaderInv
<1>2. CASE reader = "timeline" /\ FollowTimeline /\ UNCHANGED <<reader, script, reporting>>
  <2>1. InitScript' /\ InitStatus' /\ reader' = "timeline"
    BY <1>2 DEF ReaderInv, InitScript, InitStatus, script, passes, reporting
  <2>2. ScriptInv' /\ StatusInv'
    BY <2>1 DEF InitScript, ScriptInv, TrailerOK, InitStatus, StatusInv, NoReport, Report
  <2>3. CASE NextWindow /\ UNCHANGED <<asked, timeline>>
    <3>1. WindowInv' /\ WindowMoves
      BY <1>1, <2>3, WindowStep
    <3>2. TimelineInv' /\ AskedType'
      BY <1>1, <2>3, <3>1, TimelineUnderWrites DEF AskedType
    <3> QED
      BY <2>1, <2>2, <3>1, <3>2 DEF ReaderInv
  <2>4. ASSUME NEW w \in Windows, ReadPage(w) PROVE ReaderInv'
    <3>1. TimelineInv' /\ AskedType'
      BY <1>1, <2>4, ReadPageStep
    <3>2. UNCHANGED window
      BY <2>4 DEF ReadPage
    <3>3. WindowInv'
      BY <1>1, <3>2, WindowStays
    <3> QED
      BY <2>1, <2>2, <3>1, <3>3 DEF ReaderInv
  <2> QED
    BY <1>2, <2>3, <2>4 DEF FollowTimeline
<1>3. CASE reader = "script" /\ GenerateScript /\ UNCHANGED <<reader, timeline, reporting>>
  <2>1. InitTimeline' /\ InitStatus' /\ reader' = "script"
    BY <1>3 DEF ReaderInv, InitTimeline, timeline, InitStatus, reporting
  <2>2. TimelineInv' /\ StatusInv'
    BY <2>1 DEF InitTimeline, TimelineInv, ListedOK, CursorParts, Expected,
                InitStatus, StatusInv, NoReport, Report
  <2>3. CASE NextWindow /\ Watched /\ UNCHANGED <<asked, script>>
    <3>1. WindowInv'
      BY <1>1, <2>3, WindowStep
    <3>2. ScriptInv' /\ AskedType'
      BY <1>1, <2>3 DEF Watched, script, ScriptInv, TrailerOK, AskedType
    <3> QED
      BY <2>1, <2>2, <3>1, <3>2 DEF ReaderInv
  <2>4. ASSUME ScriptMoves
        PROVE  ReaderInv'
    <3>1. ScriptInv' /\ AskedType'
      BY <1>1, <2>4, ScriptStep
    <3>2. UNCHANGED window
      BY <2>4 DEF ScriptMoves, EndOfScript, Begin, FirstPass, SecondPass, Snapshot,
                  WriteStatement, CloseWriter, SyncFile, CloseFile, Rename,
                  Refuse, StepFails, Fail, Kill, PowerLoss
    <3>3. WindowInv'
      BY <1>1, <3>2, WindowStays
    <3> QED
      BY <2>1, <2>2, <3>1, <3>3 DEF ReaderInv
  <2> QED
    BY <1>3, <2>3, <2>4 DEF GenerateScript, ScriptMoves, EndOfScript
<1>4. CASE reader = "status" /\ ReportStatus /\ UNCHANGED <<reader, timeline, script>>
  <2>1. InitTimeline' /\ InitScript' /\ reader' = "status"
    BY <1>4 DEF ReaderInv, InitTimeline, timeline, InitScript, script, passes
  <2>2. TimelineInv' /\ ScriptInv'
    BY <2>1 DEF InitTimeline, TimelineInv, ListedOK, CursorParts, Expected,
                InitScript, ScriptInv, TrailerOK
  <2>3. CASE NextWindow /\ UNCHANGED <<asked, reporting>>
    <3>1. WindowInv' /\ WindowMoves
      BY <1>1, <2>3, WindowStep
    <3>2. StatusInv' /\ AskedType'
      BY <1>1, <2>3, <3>1, StatusUnderWrites DEF reporting, AskedType
    <3> QED
      BY <2>1, <2>2, <3>1, <3>2 DEF ReaderInv
  <2>4. CASE Ask \/ ReadSnapshot \/ CheckIntegrity
    <3>1. StatusInv'
      BY <1>1, <2>4, StatusStep
    <3>2. UNCHANGED <<window, asked>>
      BY <2>4 DEF Ask, ReadSnapshot, CheckIntegrity
    <3>3. WindowInv' /\ AskedType'
      BY <1>1, <3>2, WindowStays DEF AskedType
    <3> QED
      BY <2>1, <2>2, <3>1, <3>3 DEF ReaderInv
  <2> QED
    BY <1>4, <2>3, <2>4 DEF ReportStatus
<1>5. CASE UNCHANGED vars
  <2>1. UNCHANGED <<window, reader, asked, timeline, script, reporting>>
    BY <1>5 DEF vars
  <2>2. WindowInv' /\ AskedType'
    BY <1>1, <2>1, WindowStays DEF AskedType
  <2>3. TimelineInv' /\ (InitTimeline => InitTimeline')
    BY <1>1, <2>1 DEF window, timeline, TimelineInv, ListedOK, CursorParts, Expected, Lists,
                      InitTimeline
  <2>4. ScriptInv' /\ (InitScript => InitScript')
    BY <1>1, <2>1 DEF window, script, passes, ScriptInv, TrailerOK, TodoOK, WrittenOK, NothingForgotten,
                      InWindow, InitScript
  <2>5. StatusInv' /\ (InitStatus => InitStatus')
    BY <1>1, <2>1 DEF window, reporting, StatusInv, InitStatus
  <2> QED
    BY <2>1, <2>2, <2>3, <2>4, <2>5 DEF ReaderInv
<1> QED
  BY <1>2, <1>3, <1>4, <1>5 DEF Next

\* The invariant of the readers, for every limit and every window store.
THEOREM ReaderInvariance == Spec => []ReaderInv
<1>1. Init => ReaderInv
  BY ReaderInit
<1>2. ReaderInv /\ [Next]_vars => ReaderInv'
  BY ReaderStep
<1> QED
  BY <1>1, <1>2, PTL DEF Spec

\* A timeline lists no change twice, however many are appended between two of
\* its pages and however many go on one (Store.Page).
THEOREM ListsOnce == Spec => []ListedOnce
<1>1. ReaderInv => ListedOnce
  BY TimelineIsWhole DEF ReaderInv
<1> QED
  BY <1>1, ReaderInvariance, PTL

\* A timeline followed to its end misses no change of its window that was
\* there when it was begun and is there still (Store.Page, handleChanges).
THEOREM ListsAll == Spec => []NoneMissing
<1>1. ReaderInv => NoneMissing
  BY TimelineIsWhole DEF ReaderInv
<1> QED
  BY <1>1, ReaderInvariance, PTL

\* A script that ends with its trailer undoes every row change of its window,
\* newest first, and one a failure, a kill or a power loss cut short has no
\* trailer (EachEvent, Writer.Close).
THEOREM ScriptsAreComplete == Spec => []TrailerMeansComplete
<1>1. ReaderInv => TrailerMeansComplete
  BY ScriptIsWhole DEF ReaderInv
<1> QED
  BY <1>1, ReaderInvariance, PTL

\* The file asked for holds a script that undoes its whole window or is not
\* there, in every state a kill or a power loss leaves between the creation
\* of the temporary file and after its renaming (generateFromStore).
THEOREM FilesAreWhole == Spec => []FileIsWhole
<1>1. ReaderInv => FileIsWhole
  BY ScriptIsWhole DEF ReaderInv
<1> QED
  BY <1>1, ReaderInvariance, PTL

\* A report that says OK holds until the staleness it left is used up
\* (Verdict and checkCoverage agree).
THEOREM OKIsKept == Spec => []OKHolds
<1>1. ReaderInv => OKHolds
  BY HealthyAnswers DEF ReaderInv
<1> QED
  BY <1>1, ReaderInvariance, PTL

\* A report leaves out no hole that was known when it was asked for and lies in
\* the coverage it gives (Store.Status).
THEOREM ReportsAreOfOneMoment == Spec => []ReportIsOneMoment
<1>1. ReaderInv => ReportIsOneMoment
  BY DEF ReaderInv, StatusInv, ReportIsOneMoment
<1> QED
  BY <1>1, ReaderInvariance, PTL

\* Integrity finds no fault with a store a collector is writing to.
THEOREM AlarmsAreTrue == Spec => []NoFalseAlarm
<1>1. ReaderInv => NoFalseAlarm
  BY DEF ReaderInv, StatusInv, NoFalseAlarm
<1> QED
  BY <1>1, ReaderInvariance, PTL
=============================================================================
