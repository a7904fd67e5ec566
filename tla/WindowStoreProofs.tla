------------------------- MODULE WindowStoreProofs -------------------------
(***************************************************************************)
(* What the operators of WindowStore return, field by field: the facts the *)
(* proofs about the modules that use the store cite.                       *)
(***************************************************************************)
EXTENDS WindowStore, WellFoundedInduction, TLAPS

\* A bounded non-empty set of naturals has a maximum, and Max is it.
LEMMA MaxOfNaturals ==
    ASSUME NEW S \in SUBSET Nat, S # {}, NEW bound \in Nat, \A x \in S : x <= bound
    PROVE  Max(S) \in S /\ \A x \in S : x <= Max(S)
<1> DEFINE T == {b \in Nat : \A x \in S : x <= b}
<1>1. T \subseteq Nat /\ T # {}
  OBVIOUS
<1>2. PICK m \in T : \A y \in T : <<y, m>> \notin OpToRel(<, Nat)
  BY <1>1, NatLessThanWellFounded, WFMin
<1>3. \A y \in T : ~ (y < m)
  BY <1>1, <1>2 DEF OpToRel
<1>4. m \in S
  <2> SUFFICES ASSUME m \notin S PROVE FALSE
    OBVIOUS
  <2>1. \A x \in S : x < m
    OBVIOUS
  <2>2. m > 0
    <3>1. PICK x \in S : TRUE
      OBVIOUS
    <3>2. x \in Nat /\ m \in Nat /\ x < m
      BY <2>1, <3>1
    <3> QED
      BY <3>2
  <2>3. m - 1 \in T
    BY <2>1, <2>2
  <2> QED
    BY <2>3, <1>3
<1>5. \E x \in S : \A y \in S : x >= y
  BY <1>4
<1> QED
  BY <1>5 DEF Max

\* A non-empty set of naturals has a minimum, and Min is it.
LEMMA MinOfNaturals ==
    ASSUME NEW S \in SUBSET Nat, S # {}
    PROVE  Min(S) \in S /\ \A x \in S : Min(S) <= x
<1>1. PICK m \in S : \A y \in S : <<y, m>> \notin OpToRel(<, Nat)
  BY NatLessThanWellFounded, WFMin
<1>2. \A y \in S : ~ (y < m)
  BY <1>1 DEF OpToRel
<1>3. \E x \in S : \A y \in S : x <= y
  BY <1>2
<1> QED
  BY <1>3 DEF Min

\* The id of the next row is larger than every id in use.
LEMMA NextIdIsLarger ==
    ASSUME NEW rows \in SUBSET Txn, NEW bound \in Nat, \A t \in rows : t.id <= bound
    PROVE  NextId(rows) \in Nat /\ \A t \in rows : t.id < NextId(rows)
<1>1. CASE rows = {}
  BY <1>1 DEF NextId
<1>2. CASE rows # {}
  <2> DEFINE ids == {t.id : t \in rows}
  <2>1. ids \in SUBSET Nat /\ ids # {} /\ \A x \in ids : x <= bound
    BY <1>2 DEF Txn
  <2> HIDE DEF ids
  <2>2. Max(ids) \in ids /\ \A x \in ids : x <= Max(ids)
    BY <2>1, MaxOfNaturals
  <2>3. NextId(rows) = 1 + Max(ids)
    BY <1>2 DEF NextId, ids
  <2>4. \A t \in rows : t.id \in Nat /\ t.id <= Max(ids)
    BY <2>2 DEF ids, Txn
  <2>5. Max(ids) \in Nat
    BY <2>1, <2>2
  <2> QED
    BY <2>3, <2>4, <2>5
<1> QED
  BY <1>1, <1>2

----------------------------------------------------------------------------
\* The later of two instants is one, and no earlier than either.
LEMMA LaterType ==
    ASSUME NEW a \in Nat, NEW b \in Int
    PROVE  Later(a, b) \in Nat /\ Later(a, b) >= a /\ Later(a, b) >= b
BY DEF Later

\* AdvanceCoverage touches the high-water mark only.
LEMMA AdvanceCoverageFields ==
    ASSUME NEW s \in Store, NEW when \in Nat
    PROVE  LET r == AdvanceCoverage(s, when)
           IN  /\ r \in Store
               /\ r.txns = s.txns /\ r.gaps = s.gaps /\ r.misses = s.misses
               /\ r.checkpoint = s.checkpoint /\ r.from = s.from
               /\ r.to = Later(s.to, when) /\ r.to \in {s.to, when} /\ r.to >= s.to
BY LaterType DEF AdvanceCoverage, Later, Store, Instant

\* RecordGap adds the gap and touches nothing else.
LEMMA RecordGapFields ==
    ASSUME NEW s \in Store, NEW from \in Nat, NEW to \in Nat, NEW covers \in SUBSET Nat
    PROVE  LET r == RecordGap(s, from, to, covers)
           IN  /\ r \in Store
               /\ r.gaps = s.gaps \cup {[from |-> from, to |-> to, covers |-> covers]}
               /\ r.txns = s.txns /\ r.misses = s.misses
               /\ r.checkpoint = s.checkpoint /\ r.from = s.from /\ r.to = s.to
BY DEF RecordGap, Store, Gap, Instant

\* RecordMiss adds the miss and touches nothing else.
LEMMA RecordMissFields ==
    ASSUME NEW s \in Store, NEW when \in Nat
    PROVE  LET r == RecordMiss(s, when)
           IN  /\ r \in Store
               /\ r.misses = s.misses \cup {when}
               /\ r.txns = s.txns /\ r.gaps = s.gaps
               /\ r.checkpoint = s.checkpoint /\ r.from = s.from /\ r.to = s.to
BY DEF RecordMiss, Store, Instant

\* OpenCoverage never moves the boundary back and touches nothing else.
LEMMA OpenCoverageFields ==
    ASSUME NEW s \in Store, NEW when \in Nat
    PROVE  LET r == OpenCoverage(s, when)
           IN  /\ r \in Store
               /\ r.from = (IF s.from = 0 THEN when ELSE s.from) /\ r.from >= s.from
               /\ r.txns = s.txns /\ r.gaps = s.gaps /\ r.misses = s.misses
               /\ r.checkpoint = s.checkpoint /\ r.to = s.to
BY DEF OpenCoverage, Store, Instant

\* What pruning takes lies behind the coverage boundary it leaves, and of two
\* rows it never takes the later and leaves the earlier.
LEMMA PruneFields ==
    ASSUME NEW s \in Store, NEW now \in Nat
    PROVE  LET r == Prune(s, now)
           IN  /\ r \in Store
               /\ r.from >= s.from
               /\ r.checkpoint = s.checkpoint /\ r.to = s.to
               /\ \A t \in s.txns, u \in r.txns : u.at <= t.at => t \in r.txns
               /\ r.txns \subseteq s.txns /\ \A t \in s.txns \ r.txns : t.at < r.from
               /\ r.gaps \subseteq s.gaps /\ \A g \in s.gaps \ r.gaps : g.to < r.from
               /\ r.misses \subseteq s.misses /\ \A m \in s.misses \ r.misses : m < r.from
<1> DEFINE edge == now - Retention
           r == Prune(s, now)
<1> Retention \in Nat
  BY StoreAssumption
<1>1. CASE Retention = 0
  BY <1>1 DEF Prune, Store, Instant
<1>2. CASE Retention # 0
  <2>1. r = [s EXCEPT !.txns   = {t \in s.txns : t.at >= edge},
                      !.gaps   = {g \in s.gaps : g.to >= edge},
                      !.misses = {m \in s.misses : m >= edge},
                      !.from   = Later(s.from, edge)]
    BY <1>2 DEF Prune
  <2>2. edge \in Int /\ s.from \in Nat
    BY DEF Store, Instant
  <2>3. /\ r.txns = {t \in s.txns : t.at >= edge}
        /\ r.gaps = {g \in s.gaps : g.to >= edge}
        /\ r.misses = {m \in s.misses : m >= edge}
        /\ r.from = Later(s.from, edge)
        /\ r.checkpoint = s.checkpoint /\ r.to = s.to
    BY <2>1 DEF Store
  <2>4. r.from \in Nat /\ r.from >= s.from /\ r.from >= edge
    BY <2>2, <2>3, LaterType
  <2>5. r \in Store
    BY <2>1, <2>2, <2>3, <2>4 DEF Store, Instant
  <2>6. /\ \A t \in s.txns : t.at \in Nat
        /\ \A g \in s.gaps : g.to \in Nat
        /\ \A m \in s.misses : m \in Nat
    BY DEF Store, Txn, Gap, Instant
  <2> HIDE DEF r, edge
  <2> QED
    BY <2>2, <2>3, <2>4, <2>5, <2>6 DEF r
<1> QED
  BY <1>1, <1>2

\* A transaction is added under a fresh id, unless it is stored already; the
\* checkpoint moves in either case.
LEMMA AppendTransactionFields ==
    ASSUME NEW s \in Store, NEW src \in Nat, NEW at \in Nat, IdsBounded(s)
    PROVE  /\ AppendTransaction(s, src, at) \in Store
           /\ [id |-> NextId(s.txns), src |-> src, at |-> at] \in Txn
           /\ \A t \in s.txns : t.id < NextId(s.txns)
           /\ src \in Sources(s) => AppendTransaction(s, src, at).txns = s.txns
           /\ src \notin Sources(s) => AppendTransaction(s, src, at).txns =
                 s.txns \cup {[id |-> NextId(s.txns), src |-> src, at |-> at]}
           /\ AppendTransaction(s, src, at).gaps = s.gaps
           /\ AppendTransaction(s, src, at).misses = s.misses
           /\ AppendTransaction(s, src, at).from = s.from
           /\ AppendTransaction(s, src, at).checkpoint.pos = src
<1> DEFINE new == [id |-> NextId(s.txns), src |-> src, at |-> at]
           mid == [s EXCEPT !.txns = IF src \in Sources(s) THEN s.txns ELSE Insert(s, src, at),
                            !.checkpoint = [pos |-> src, at |-> at]]
<1>1. NextId(s.txns) \in Nat /\ \A t \in s.txns : t.id < NextId(s.txns)
  BY NextIdIsLarger DEF Store, IdsBounded
<1>2. new \in Txn
  BY <1>1 DEF Txn, Instant
<1>3. Insert(s, src, at) = s.txns \cup {new}
  BY DEF Insert
<1>4. /\ mid \in Store
      /\ mid.txns = IF src \in Sources(s) THEN s.txns ELSE s.txns \cup {new}
      /\ mid.gaps = s.gaps /\ mid.misses = s.misses /\ mid.from = s.from
      /\ mid.checkpoint = [pos |-> src, at |-> at]
  BY <1>2, <1>3 DEF Store, Checkpoint, Instant
<1>5. AppendTransaction(s, src, at) = AdvanceCoverage(mid, at)
  BY DEF AppendTransaction
<1> HIDE DEF mid
<1>6. /\ AdvanceCoverage(mid, at) \in Store
      /\ AdvanceCoverage(mid, at).txns = mid.txns
      /\ AdvanceCoverage(mid, at).gaps = mid.gaps
      /\ AdvanceCoverage(mid, at).misses = mid.misses
      /\ AdvanceCoverage(mid, at).from = mid.from
      /\ AdvanceCoverage(mid, at).checkpoint = mid.checkpoint
  BY <1>4, AdvanceCoverageFields
<1> QED
  BY <1>1, <1>2, <1>4, <1>5, <1>6

\* The checkpoint is the appended transaction's even when its rows were there
\* already, and the high-water mark is no earlier than its date.
LEMMA AppendTransactionReaches ==
    ASSUME NEW s \in Store, NEW src \in Nat, NEW at \in Nat
    PROVE  /\ AppendTransaction(s, src, at).checkpoint = [pos |-> src, at |-> at]
           /\ AppendTransaction(s, src, at).to \in {s.to, at}
           /\ AppendTransaction(s, src, at).to >= s.to
           /\ AppendTransaction(s, src, at).to >= at
<1> DEFINE rows == IF src \in Sources(s) THEN s.txns ELSE Insert(s, src, at)
           mid == [s EXCEPT !.txns = rows, !.checkpoint = [pos |-> src, at |-> at]]
<1>1. AppendTransaction(s, src, at) = [mid EXCEPT !.to = Later(mid.to, at)]
  BY DEF AppendTransaction, AdvanceCoverage
<1> HIDE DEF rows
<1>2. /\ [mid EXCEPT !.to = Later(mid.to, at)].checkpoint = [pos |-> src, at |-> at]
      /\ [mid EXCEPT !.to = Later(mid.to, at)].to = Later(s.to, at)
  BY DEF Store
<1>3. s.to \in Nat
  BY DEF Store, Instant
<1> QED
  BY <1>1, <1>2, <1>3 DEF Later

\* There are as many rows as before, or one more.
LEMMA AppendBounded ==
    ASSUME NEW s \in Store, NEW src \in Nat, NEW at \in Nat, IdsBounded(s)
    PROVE  IdsBounded(AppendTransaction(s, src, at))
<1> DEFINE r == AppendTransaction(s, src, at)
           new == [id |-> NextId(s.txns), src |-> src, at |-> at]
<1>1. /\ r \in Store /\ new \in Txn
      /\ src \in Sources(s) => r.txns = s.txns
      /\ src \notin Sources(s) => r.txns = s.txns \cup {new}
  BY AppendTransactionFields
<1> PICK bound \in Nat : \A t \in s.txns : t.id <= bound
  BY DEF IdsBounded
<1>2. new.id \in Nat
  BY <1>1 DEF Txn
<1> HIDE DEF r
<1>3. \A t \in r.txns : t.id <= new.id \/ t.id <= bound
  BY <1>1, <1>2 DEF Store, Txn
<1>4. \A t \in r.txns : t.id \in Nat
  BY <1>1 DEF Store, Txn
<1> HIDE DEF new
<1>5. \A t \in r.txns : t.id <= new.id + bound
  BY <1>2, <1>3, <1>4
<1>6. new.id + bound \in Nat
  BY <1>2
<1>7. IdsBounded(r)
  BY <1>5, <1>6 DEF IdsBounded
<1> QED
  BY <1>7 DEF r

----------------------------------------------------------------------------
\* Rows in the order of their source.
InOrder(s) == \A t, u \in s.txns : t.src < u.src <=> t.id < u.id

\* What is stored was stored with its checkpoint or before it.
BehindCheckpoint(s) == \A t \in s.txns : t.src <= s.checkpoint.pos

OrderOf(s) == InOrder(s) /\ BehindCheckpoint(s)

\* A transaction newer than all there is takes its place at the end.
LEMMA AppendInOrder ==
    ASSUME NEW s, s \in Store, IdsBounded(s), OrderOf(s),
           NEW src \in Nat, NEW at \in Nat, s.checkpoint.pos < src
    PROVE  OrderOf(AppendTransaction(s, src, at))
<1> DEFINE r == AppendTransaction(s, src, at)
           new == [id |-> NextId(s.txns), src |-> src, at |-> at]
<1>1. \A t \in s.txns : t.src \in Nat /\ t.id \in Nat /\ s.checkpoint.pos \in Nat
  BY DEF Store, Txn, Checkpoint
<1>2. \A t \in s.txns : t.src < src
  BY <1>1 DEF OrderOf, BehindCheckpoint
<1>3. src \notin Sources(s)
  BY <1>1, <1>2 DEF Sources
<1>4. /\ r.txns = s.txns \cup {new} /\ r.checkpoint.pos = src
      /\ \A t \in s.txns : t.id < new.id
      /\ new.id \in Nat
  BY <1>3, AppendTransactionFields DEF Txn
<1>5. new.src = src
  OBVIOUS
<1> HIDE DEF new, r
<1>6. BehindCheckpoint(r)
  BY <1>1, <1>2, <1>4, <1>5 DEF BehindCheckpoint
<1>7. InOrder(r)
  BY <1>1, <1>2, <1>4, <1>5 DEF OrderOf, InOrder
<1> QED
  BY <1>6, <1>7 DEF OrderOf, r

----------------------------------------------------------------------------
\* Some row is dated as late as the checkpoint, if any are left.
RowAtCheckpoint(s) ==
    ~ IsZero(s.checkpoint) /\ s.txns # {} => \E t \in s.txns : t.at >= s.checkpoint.at

\* Appending leaves the transaction of the new checkpoint, stored before or
\* now.
LEMMA AppendRowAtCheckpoint ==
    ASSUME NEW s \in Store, IdsBounded(s), NEW i \in Nat, NEW when \in Nat,
           \A t \in s.txns : t.src = i => t.at = when
    PROVE  RowAtCheckpoint(AppendTransaction(s, i, when))
<1> DEFINE r == AppendTransaction(s, i, when)
           new == [id |-> NextId(s.txns), src |-> i, at |-> when]
<1>1. /\ i \in Sources(s) => r.txns = s.txns
      /\ i \notin Sources(s) => r.txns = s.txns \cup {new}
      /\ r.checkpoint.at = when
  <2>1. r.checkpoint = [pos |-> i, at |-> when]
    BY AppendTransactionReaches
  <2>2. r.checkpoint.at = when
    BY <2>1
  <2>3. i \in Sources(s) => r.txns = s.txns
    BY AppendTransactionFields, ZenonT(60)
  <2>4. new \in Txn /\ (i \notin Sources(s) => r.txns = s.txns \cup {new})
    BY AppendTransactionFields
  <2> QED
    BY <2>2, <2>3, <2>4
<1> HIDE DEF r
<1>2. \E t \in r.txns : t.at = when
  <2>1. CASE i \in Sources(s)
    <3>1. PICK t \in s.txns : t.src = i
      BY <2>1 DEF Sources
    <3>2. t.at = when
      BY <3>1
    <3> QED
      BY <1>1, <2>1, <3>1, <3>2
  <2>2. CASE i \notin Sources(s)
    <3>1. new \in r.txns /\ new.at = when
      BY <1>1, <2>2
    <3> QED
      BY <3>1
  <2> QED
    BY <2>1, <2>2
<1>3. \E t \in r.txns : t.at >= r.checkpoint.at
  BY <1>1, <1>2
<1>4. RowAtCheckpoint(r)
  BY <1>3 DEF RowAtCheckpoint
<1> QED
  BY <1>4 DEF r

\* Pruning takes the rows of a later date only after those of an earlier one.
LEMMA PruneRowAtCheckpoint ==
    ASSUME NEW s \in Store, NEW now \in Nat, RowAtCheckpoint(s)
    PROVE  RowAtCheckpoint(Prune(s, now))
<1> DEFINE r == Prune(s, now)
<1>1. /\ r.txns \subseteq s.txns /\ r.checkpoint = s.checkpoint
      /\ \A t \in s.txns, u \in r.txns : u.at <= t.at => t \in r.txns
  BY PruneFields
<1>2. s.checkpoint.at \in Nat /\ \A t \in s.txns : t.at \in Nat
  BY DEF Store, Checkpoint, Txn, Instant
<1> HIDE DEF r
<1>3. ASSUME ~ IsZero(s.checkpoint), r.txns # {}
      PROVE  \E t \in r.txns : t.at >= s.checkpoint.at
  <2>1. PICK t \in s.txns : t.at >= s.checkpoint.at
    BY <1>1, <1>3 DEF RowAtCheckpoint
  <2>2. PICK u \in r.txns : TRUE
    BY <1>3
  <2>3. CASE u.at <= t.at
    BY <1>1, <2>1, <2>2, <2>3
  <2>4. CASE ~ (u.at <= t.at)
    <3>1. u.at \in Nat /\ t.at \in Nat
      BY <1>1, <1>2, <2>1, <2>2
    <3>2. u.at >= s.checkpoint.at
      BY <1>2, <2>1, <2>4, <3>1
    <3> QED
      BY <2>2, <3>2
  <2> QED
    BY <2>3, <2>4
<1> QED
  BY <1>1, <1>3 DEF RowAtCheckpoint, r

\* A store with such a row passes Integrity's check of the checkpoint.
LEMMA RowAtCheckpointSuffices ==
    ASSUME NEW s \in Store, RowAtCheckpoint(s),
           NEW now \in Nat, \A t \in s.txns : t.at <= now
    PROVE  ~ CheckpointAhead(s)
<1> DEFINE dates == {t.at : t \in s.txns}
<1>1. SUFFICES ASSUME ~ IsZero(s.checkpoint), s.txns # {}
               PROVE  ~ (s.checkpoint.at > Max(dates))
  BY DEF CheckpointAhead
<1>2. s.checkpoint.at \in Nat /\ \A t \in s.txns : t.at \in Nat
  BY DEF Store, Checkpoint, Txn, Instant
<1>3. dates \in SUBSET Nat /\ dates # {} /\ \A x \in dates : x <= now
  BY <1>1, <1>2
<1>4. PICK t \in s.txns : t.at >= s.checkpoint.at
  BY <1>1 DEF RowAtCheckpoint
<1>5. t.at \in dates
  BY <1>4
<1> HIDE DEF dates
<1>6. Max(dates) \in Nat /\ t.at \in Nat /\ t.at <= Max(dates)
  BY <1>3, <1>5, MaxOfNaturals
<1> QED
  BY <1>2, <1>4, <1>6

----------------------------------------------------------------------------
\* Coverage begins at the boundary, or without one at the earliest change.
LEMMA CoverageFromType ==
    ASSUME NEW s \in Store
    PROVE  /\ CoverageFrom(s) \in Nat
           /\ s.from # 0 => CoverageFrom(s) = s.from
           /\ CoverageFrom(s) >= s.from
<1>1. s.from \in Nat
  BY DEF Store, Instant
<1>2. CASE s.from # 0 \/ s.txns = {}
  BY <1>1, <1>2 DEF CoverageFrom
<1>3. CASE s.from = 0 /\ s.txns # {}
  <2> DEFINE dates == {t.at : t \in s.txns}
  <2>1. dates \in SUBSET Nat /\ dates # {}
    BY <1>3 DEF Store, Txn, Instant
  <2>2. CoverageFrom(s) = Min(dates)
    BY <1>3 DEF CoverageFrom
  <2> HIDE DEF dates
  <2>3. Min(dates) \in Nat
    BY <2>1, MinOfNaturals
  <2> QED
    BY <1>3, <2>2, <2>3
<1> QED
  BY <1>2, <1>3

\* A window the store answers for lies clear of its gaps and misses, and
\* begins no earlier than its coverage.
LEMMA AnsweredWindow ==
    ASSUME NEW s \in Store, NEW from \in Nat, NEW to \in Nat, NEW now \in Nat,
           Answers(s, from, to, now),
           NEW when \in Nat,
           WindowBounds(s, from, to).from <= when, when <= WindowBounds(s, from, to).to
    PROVE  /\ s.from <= when
           /\ \A g \in s.gaps : ~ (g.from <= when /\ when <= g.to)
           /\ when \notin s.misses
           /\ from # 0 => when >= from
           /\ to # 0 => when <= to
<1> DEFINE lo == WindowBounds(s, from, to).from
           hi == WindowBounds(s, from, to).to
           start == CoverageFrom(s)
<1>1. /\ s.from \in Nat /\ s.to \in Nat
      /\ \A g \in s.gaps : g.from \in Nat /\ g.to \in Nat
      /\ \A m \in s.misses : m \in Nat
  BY DEF Store, Gap, Instant
<1>2. start \in Nat /\ start >= s.from
  BY CoverageFromType
<1>3. lo = (IF from = 0 THEN start ELSE from) /\ hi = (IF to = 0 THEN s.to ELSE to)
  BY DEF WindowBounds
<1>4. /\ from # 0 => from >= start
      /\ \A g \in s.gaps : g.to < lo \/ hi < g.from
      /\ \A m \in s.misses : m < lo \/ hi < m
  BY DEF Answers
<1> HIDE DEF lo, hi, start
<1>5. lo \in Nat /\ hi \in Nat /\ lo <= when /\ when <= hi /\ s.from <= lo
  BY <1>1, <1>2, <1>3, <1>4 DEF lo, hi
<1> QED
  BY <1>1, <1>3, <1>4, <1>5
=============================================================================
