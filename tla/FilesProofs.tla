---------------------------- MODULE FilesProofs ----------------------------
(***************************************************************************)
(* A script from the binlog files and one from the store of a collector    *)
(* that has read them to the end undo the same changes, for any log of     *)
(* transactions of the kinds a scan of the files understands.  The scan is *)
(* followed event by event beside what the source committed; the store has *)
(* what was committed (StoreInvariance), and what it records as missing is *)
(* what the scan refuses.                                                  *)
(***************************************************************************)
EXTENDS Files, AssemblerProofs

----------------------------------------------------------------------------
(***************************************************************************)
(* The row changes of a sequence of changes                                *)
(***************************************************************************)
\* Putting three sequences together, in whichever order it is done.
InARow(u, v, w) == (u \o v) \o w = u \o (v \o w)

\* Changes in a row.
LEMMA ChangesInARow ==
    ASSUME NEW u \in Seq(Change), NEW v \in Seq(Change), NEW w \in Seq(Change)
    PROVE  InARow(u, v, w)
<1>1. (u \o v) \o w = u \o (v \o w)
  BY ConcatAssociative, SMTT(30)
<1> QED
  BY <1>1 DEF InARow

\* What is left of one change when only rows are.
RowOnly(c) == IF groups[c.group] # "ddl" THEN <<c>> ELSE <<>>

\* The row changes of one change more.
LEMMA RowsOfOneMore ==
    ASSUME NEW u \in Seq(Change), RowChanges(u) \in Seq(Change), NEW x \in Change
    PROVE  /\ RowChanges(Append(u, x)) = RowChanges(u) \o RowOnly(x)
           /\ RowChanges(Append(u, x)) \in Seq(Change)
<1> DEFINE v == Append(u, x)
           q == [i \in DOMAIN u |-> RowOnly(u[i])]
           p == [i \in DOMAIN v |-> RowOnly(v[i])]
           y == RowOnly(x)
<1>1. /\ Len(u) \in Nat /\ DOMAIN u = 1 .. Len(u) /\ DOMAIN v = 1 .. Len(u) + 1
      /\ v[Len(u) + 1] = x /\ \A i \in 1 .. Len(u) : v[i] = u[i] /\ u[i] \in Change
  OBVIOUS
<1>2. \A c \in Change : RowOnly(c) \in Seq(Change)
  BY DEF RowOnly
<1>3. q \in Seq(Seq(Change)) /\ y \in Seq(Change) /\ Len(q) = Len(u)
  BY <1>1, <1>2
<1>4. p = Append(q, y)
  <2>1. p \in Seq(Seq(Change)) /\ Len(p) = Len(u) + 1
    <3>1. \A i \in 1 .. Len(u) + 1 : v[i] \in Change
      BY <1>1
    <3> HIDE DEF v
    <3> QED
      BY <1>1, <1>2, <3>1
  <2>2. Append(q, y) \in Seq(Seq(Change)) /\ Len(Append(q, y)) = Len(u) + 1
    BY <1>3
  <2>3. \A i \in 1 .. Len(u) + 1 : p[i] = Append(q, y)[i]
    <3> TAKE i \in 1 .. Len(u) + 1
    <3>1. p[i] = RowOnly(v[i])
      BY <1>1
    <3>2. CASE i = Len(u) + 1
      <4>1. Append(q, y)[i] = y
        BY <1>3, <3>2
      <4> QED
        BY <1>1, <3>1, <3>2, <4>1
    <3>3. CASE i # Len(u) + 1
      <4>1. i \in 1 .. Len(u)
        BY <1>1, <3>3
      <4>2. Append(q, y)[i] = q[i] /\ q[i] = RowOnly(u[i])
        BY <1>1, <1>3, <4>1
      <4> QED
        BY <1>1, <3>1, <4>1, <4>2
    <3> QED
      BY <3>2, <3>3
  <2> HIDE DEF p, q, y
  <2> QED
    BY <2>1, <2>2, <2>3, SeqEqual
<1>5. RowChanges(u) = FlattenSeq(q) /\ RowChanges(v) = FlattenSeq(p)
  BY DEF RowChanges, RowOnly
<1> HIDE DEF p, q, y
<1>6. /\ FlattenSeq(Append(q, y)) = FlattenSeq(q) \o y
      /\ FlattenSeq(Append(q, y)) \in Seq(Change)
  BY <1>3, <1>5, FlattenAppend
<1> QED
  BY <1>4, <1>5, <1>6 DEF y

\* Those of none.
LEMMA RowsOfNone == RowChanges(<<>>) = <<>>
<1>1. PICK none : none = <<>>
  OBVIOUS
<1>2. [i \in DOMAIN none |-> RowOnly(none[i])] = <<>>
  BY <1>1
<1>3. RowChanges(none) = FlattenSeq([i \in DOMAIN none |-> RowOnly(none[i])])
  BY DEF RowChanges, RowOnly
<1> QED
  BY <1>1, <1>2, <1>3, FlattenEmpty

\* The row changes of some changes and then others are those of the ones and
\* then of the others.
LEMMA RowsOfBoth ==
    ASSUME NEW u \in Seq(Change), NEW w \in Seq(Change)
    PROVE  /\ RowChanges(u) \in Seq(Change)
           /\ RowChanges(u \o w) = RowChanges(u) \o RowChanges(w)
<1> DEFINE Typed(n) == \A v \in Seq(Change) : Len(v) = n => RowChanges(v) \in Seq(Change)
           T == {n \in Nat : Typed(n)}
           Joins(n) == \A v \in Seq(Change) :
                           Len(v) = n => RowChanges(u \o v) = RowChanges(u) \o RowChanges(v)
           J == {n \in Nat : Joins(n)}
<1>0. ASSUME NEW v \in Seq(Change), NEW n \in Nat, Len(v) = n + 1
      PROVE  \E t \in Seq(Change), x \in Change : v = Append(t, x) /\ Len(t) = n
  <2> DEFINE t == SubSeq(v, 1, n)
             x == v[n + 1]
  <2>1. t \in Seq(Change) /\ x \in Change /\ Len(t) = n /\ \A i \in 1 .. n : t[i] = v[i]
    BY <1>0
  <2>2. Append(t, x) \in Seq(Change) /\ Len(Append(t, x)) = Len(v)
    BY <1>0, <2>1
  <2>3. \A i \in 1 .. Len(v) : Append(t, x)[i] = v[i]
    <3> HIDE DEF t
    <3> QED
      BY <1>0, <2>1
  <2>4. Append(t, x) = v
    <3> HIDE DEF t, x
    <3> QED
      BY <2>2, <2>3, SeqEqual
  <2> QED
    BY <2>1, <2>4
<1>1. 0 \in T
  <2>1. ASSUME NEW v \in Seq(Change), Len(v) = 0 PROVE RowChanges(v) \in Seq(Change)
    <3>1. v = <<>>
      BY <2>1
    <3> QED
      BY <3>1, RowsOfNone
  <2> QED
    BY <2>1
<1>2. ASSUME NEW n \in Nat, n \in T PROVE n + 1 \in T
  <2>1. ASSUME NEW v \in Seq(Change), Len(v) = n + 1 PROVE RowChanges(v) \in Seq(Change)
    <3>1. PICK t \in Seq(Change), x \in Change : v = Append(t, x) /\ Len(t) = n
      BY <1>0, <2>1
    <3>2. RowChanges(t) \in Seq(Change)
      BY <1>2, <3>1
    <3> QED
      BY <3>1, <3>2, RowsOfOneMore
  <2> QED
    BY <2>1
<1> HIDE DEF T
<1>3. Nat \subseteq T
  BY <1>1, <1>2, NatSets
<1>4. ASSUME NEW v \in Seq(Change) PROVE RowChanges(v) \in Seq(Change)
  <2>1. Len(v) \in T
    BY <1>3
  <2> QED
    BY <2>1 DEF T
<1>5. 0 \in J
  <2>1. ASSUME NEW v \in Seq(Change), Len(v) = 0
        PROVE  RowChanges(u \o v) = RowChanges(u) \o RowChanges(v)
    <3>1. v = <<>>
      BY <2>1
    <3>2. u \o v = u /\ RowChanges(u) \o RowChanges(v) = RowChanges(u)
      BY <1>4, <3>1, RowsOfNone, ConcatEmptySeq
    <3> QED
      BY <3>2
  <2> QED
    BY <2>1
<1>6. ASSUME NEW n \in Nat, n \in J PROVE n + 1 \in J
  <2>1. ASSUME NEW v \in Seq(Change), Len(v) = n + 1
        PROVE  RowChanges(u \o v) = RowChanges(u) \o RowChanges(v)
    <3>1. PICK t \in Seq(Change), x \in Change : v = Append(t, x) /\ Len(t) = n
      BY <1>0, <2>1
    <3>2. PICK a \in Seq(Change) : a = u \o t
      BY ConcatProperties
    <3>3. u \o v = Append(a, x)
      <4>0. <<x>> \in Seq(Change)
        OBVIOUS
      <4>1. PICK one \in Seq(Change) : one = <<x>>
        BY <4>0
      <4>2. Append(t, x) = t \o one /\ Append(a, x) = a \o one
        BY <4>1, AppendIsConcat
      <4>3. InARow(u, t, one)
        BY ChangesInARow
      <4> QED
        BY <3>1, <3>2, <4>2, <4>3 DEF InARow
    <3>4. /\ RowChanges(Append(a, x)) = RowChanges(a) \o RowOnly(x)
          /\ RowChanges(Append(t, x)) = RowChanges(t) \o RowOnly(x)
      BY <1>4, RowsOfOneMore
    <3>5. RowChanges(a) = RowChanges(u) \o RowChanges(t)
      BY <1>6, <3>1, <3>2
    <3>6. RowChanges(u) \in Seq(Change) /\ RowChanges(t) \in Seq(Change)
      BY <1>4
    <3>7. RowOnly(x) \in Seq(Change)
      BY DEF RowOnly
    <3>8. InARow(RowChanges(u), RowChanges(t), RowOnly(x))
      BY <3>6, <3>7, ChangesInARow
    <3> QED
      BY <3>1, <3>3, <3>4, <3>5, <3>8 DEF InARow
  <2> QED
    BY <2>1
<1> HIDE DEF J
<1>7. Nat \subseteq J
  BY <1>5, <1>6, NatSets
<1>8. Len(w) \in J
  BY <1>7
<1> QED
  BY <1>4, <1>8 DEF J
----------------------------------------------------------------------------
(***************************************************************************)
(* How far the scan has come, and what was committed up to there           *)
(***************************************************************************)
\* What the scan has taken of the first n events, and what was committed by
\* the first n transactions.
Scanned(n) == FlattenSeq([i \in 1 .. n |-> EventsFrom(log[i])])

KeptUpTo(n) == FlattenSeq([g \in 1 .. n |-> Kept(g)])

\* What the scan takes of an event is changes.
LEMMA EventsFromType ==
    ASSUME LogTypes, NEW i \in 1 .. Len(log)
    PROVE  EventsFrom(log[i]) \in Seq(Change)
<1>1. log[i] \in LogEvent
  BY DEF LogTypes
<1>2. log[i].group \in Nat /\ log[i].stmt \in Nat
  BY <1>1 DEF LogEvent
<1>3. PICK c \in Change : c = [group |-> log[i].group, stmt |-> log[i].stmt]
  BY <1>2 DEF Change
<1>4. <<c>> \in Seq(Change) /\ <<>> \in Seq(Change)
  OBVIOUS
<1> QED
  BY <1>3, <1>4 DEF EventsFrom

\* Nothing scanned and nothing committed.
LEMMA ScanStart == Scanned(0) = <<>> /\ KeptUpTo(0) = <<>> /\ CommittedUpTo(0) = <<>>
<1>1. /\ [i \in 1 .. 0 |-> EventsFrom(log[i])] = <<>>
      /\ [g \in 1 .. 0 |-> Kept(g)] = <<>> /\ [g \in 1 .. 0 |-> CommitOf(g)] = <<>>
  OBVIOUS
<1> QED
  BY <1>1, FlattenEmpty DEF Scanned, KeptUpTo, CommittedUpTo

\* One event more.
LEMMA ScanNext ==
    ASSUME LogTypes
    PROVE  \A n \in 0 .. Len(log) :
              /\ Scanned(n) \in Seq(Change)
              /\ n < Len(log) => Scanned(n + 1) = Scanned(n) \o EventsFrom(log[n + 1])
<1> DEFINE m == Len(log)
           c == [i \in 1 .. m |-> EventsFrom(log[i])]
<1>1. m \in Nat
  BY DEF LogTypes
<1>2. \A i \in 1 .. m : c[i] = EventsFrom(log[i]) /\ c[i] \in Seq(Change)
  BY EventsFromType
<1> HIDE DEF c
<1>3. \A n \in 0 .. m : Scanned(n) = UpToNth(c, n)
  <2> SUFFICES ASSUME NEW n \in 0 .. m PROVE Scanned(n) = UpToNth(c, n)
    OBVIOUS
  <2>1. [i \in 1 .. n |-> EventsFrom(log[i])] = [i \in 1 .. n |-> c[i]]
    BY <1>1, <1>2
  <2> QED
    BY <2>1 DEF Scanned, UpToNth
<1> HIDE DEF m
<1>4. \A n \in 0 .. m : UpToNth(c, n) \in Seq(Change)
  BY <1>1, <1>2, UpToType
<1>5. ASSUME NEW n \in 0 .. m, n < m PROVE Scanned(n + 1) = Scanned(n) \o EventsFrom(log[n + 1])
  <2>1. n \in Nat /\ n + 1 \in 1 .. m /\ n + 1 \in 0 .. m
    BY <1>1, <1>5
  <2>2. UpToNth(c, n + 1) = UpToNth(c, n) \o c[n + 1]
    BY <1>1, <1>2, <1>4, <1>5, <2>1, UpToNext
  <2> QED
    BY <1>2, <1>3, <2>1, <2>2
<1> QED
  BY <1>3, <1>4, <1>5 DEF m

\* One transaction more.
LEMMA KeptNext ==
    ASSUME LogTypes, NoCreate
    PROVE  \A n \in 0 .. Len(groups) :
              /\ KeptUpTo(n) \in Seq(Change)
              /\ n < Len(groups) => KeptUpTo(n + 1) = KeptUpTo(n) \o Kept(n + 1)
<1> DEFINE m == Len(groups)
           c == [g \in 1 .. m |-> Kept(g)]
<1>1. m \in Nat /\ groups \in Seq(Kinds)
  BY DEF LogTypes
<1>2. \A g \in 1 .. m : c[g] = Kept(g) /\ c[g] \in Seq(Change)
  BY <1>1, CommitIs
<1> HIDE DEF c
<1>3. \A n \in 0 .. m : KeptUpTo(n) = UpToNth(c, n)
  <2> SUFFICES ASSUME NEW n \in 0 .. m PROVE KeptUpTo(n) = UpToNth(c, n)
    OBVIOUS
  <2>1. [g \in 1 .. n |-> Kept(g)] = [g \in 1 .. n |-> c[g]]
    BY <1>1, <1>2
  <2> QED
    BY <2>1 DEF KeptUpTo, UpToNth
<1> HIDE DEF m
<1>4. \A n \in 0 .. m : UpToNth(c, n) \in Seq(Change)
  BY <1>1, <1>2, UpToType
<1>5. ASSUME NEW n \in 0 .. m, n < m PROVE KeptUpTo(n + 1) = KeptUpTo(n) \o Kept(n + 1)
  <2>1. n \in Nat /\ n + 1 \in 1 .. m /\ n + 1 \in 0 .. m
    BY <1>1, <1>5
  <2>2. UpToNth(c, n + 1) = UpToNth(c, n) \o c[n + 1]
    BY <1>1, <1>2, <1>4, <1>5, <2>1, UpToNext
  <2> QED
    BY <1>2, <1>3, <2>1, <2>2
<1> QED
  BY <1>3, <1>4, <1>5 DEF m

\* The changes committed are those of the transactions that have some.
LEMMA CommittedChanges ==
    ASSUME LogTypes, NoCreate
    PROVE  \A n \in 0 .. Len(groups) : FlattenSeq(CommittedUpTo(n)) = KeptUpTo(n)
<1> DEFINE N == {n \in Nat : n <= Len(groups) => FlattenSeq(CommittedUpTo(n)) = KeptUpTo(n)}
<1>1. Len(groups) \in Nat /\ groups \in Seq(Kinds)
  BY DEF LogTypes
<1>2. 0 \in N
  BY ScanStart, FlattenEmpty
<1>3. ASSUME NEW n \in Nat, n \in N PROVE n + 1 \in N
  <2>1. ASSUME n + 1 <= Len(groups) PROVE FlattenSeq(CommittedUpTo(n + 1)) = KeptUpTo(n + 1)
    <3>1. n < Len(groups) /\ n \in 0 .. Len(groups) /\ n + 1 \in 1 .. Len(groups)
      BY <1>1, <2>1
    <3>2. PICK k : k = Kept(n + 1)
      OBVIOUS
    <3>3. k \in Seq(Change)
      BY <1>1, <3>1, <3>2, CommitIs
    <3>4. PICK q : q = CommittedUpTo(n)
      OBVIOUS
    <3>5. q \in Seq(Seq(Change)) /\ CommittedUpTo(n + 1) = q \o CommitOf(n + 1)
      BY <3>1, <3>4, CommittedNext
    <3>6. FlattenSeq(q) = KeptUpTo(n) /\ FlattenSeq(q) \in Seq(Change)
      BY <1>3, <3>1, <3>4, KeptNext
    <3>7. KeptUpTo(n + 1) = FlattenSeq(q) \o k
      BY <3>1, <3>2, <3>6, KeptNext
    <3>8. CASE k = <<>>
      <4>1. CommitOf(n + 1) = <<>>
        BY <3>2, <3>8 DEF CommitOf
      <4>2. q \o <<>> = q
        BY <3>5, ConcatEmptySeq
      <4>3. FlattenSeq(q) \o <<>> = FlattenSeq(q)
        BY <3>6, ConcatEmptySeq
      <4> QED
        BY <3>5, <3>6, <3>7, <3>8, <4>1, <4>2, <4>3
    <3>9. CASE k # <<>>
      <4>1. CommitOf(n + 1) = <<k>>
        BY <3>2, <3>9 DEF CommitOf
      <4>2. Append(q, k) = q \o <<k>>
        BY <3>3, <3>5, AppendIsConcat
      <4>3. FlattenSeq(Append(q, k)) = FlattenSeq(q) \o k
        BY <3>3, <3>5, <3>6, FlattenAppend
      <4> QED
        BY <3>5, <3>7, <4>1, <4>2, <4>3
    <3> QED
      BY <3>8, <3>9
  <2> QED
    BY <2>1
<1> HIDE DEF N
<1>4. Nat \subseteq N
  BY <1>2, <1>3, NatSets
<1> QED
  BY <1>1, <1>4 DEF N
----------------------------------------------------------------------------
(***************************************************************************)
(* The rows of a transaction, event by event                               *)
(***************************************************************************)
\* The kinds a scan of the files understands and can read.
Plain == {"insert", "statements", "unwanted", "ddl", "session"}

\* The row changes the scan has of a transaction after j of its events.
SoFar(kind, j, g) ==
    CASE kind = "insert" /\ j >= 3 -> <<[group |-> g, stmt |-> 2]>>
      [] kind = "statements" /\ j = 3 -> <<[group |-> g, stmt |-> 1]>>
      [] kind = "statements" /\ j >= 4 ->
            <<[group |-> g, stmt |-> 1], [group |-> g, stmt |-> 2]>>
      [] OTHER -> <<>>

\* An event with rows is a change, and no other is a row change.
LEMMA RowsOfEvent ==
    ASSUME NEW e, NEW g \in Nat, e.group = g, e.stmt \in Nat
    PROVE  /\ e.type \notin {"rows", "ddl"} => RowChanges(EventsFrom(e)) = <<>>
           /\ groups[g] = "ddl" => RowChanges(EventsFrom(e)) = <<>>
           /\ e.type = "rows" /\ groups[g] # "ddl" =>
                 RowChanges(EventsFrom(e)) = <<[group |-> g, stmt |-> e.stmt]>>
<1>1. CASE e.type \notin {"rows", "ddl"}
  <2>1. EventsFrom(e) = <<>>
    BY <1>1 DEF EventsFrom
  <2> QED
    BY <1>1, <2>1, RowsOfNone
<1>2. CASE e.type \in {"rows", "ddl"}
  <2>1. PICK c : c = [group |-> g, stmt |-> e.stmt]
    OBVIOUS
  <2>2. c \in Change /\ c.group = g
    BY <2>1 DEF Change
  <2>3. EventsFrom(e) = <<c>>
    BY <1>2, <2>1 DEF EventsFrom
  <2>4. PICK none \in Seq(Change) : none = <<>>
    <3>1. <<>> \in Seq(Change)
      OBVIOUS
    <3> QED
      BY <3>1
  <2>5. RowChanges(Append(none, c)) = RowChanges(none) \o RowOnly(c)
    <3>1. RowChanges(none) \in Seq(Change)
      BY <2>4, RowsOfNone
    <3> QED
      BY <2>2, <3>1, RowsOfOneMore
  <2>6. Append(none, c) = <<c>> /\ RowChanges(none) = <<>>
    BY <2>4, RowsOfNone
  <2>7. RowOnly(c) \in Seq(Change)
    BY <2>2 DEF RowOnly
  <2>8. <<>> \o RowOnly(c) = RowOnly(c)
    BY <2>7, ConcatEmptySeq
  <2>9. RowChanges(EventsFrom(e)) = RowOnly(c)
    BY <2>3, <2>5, <2>6, <2>8
  <2> QED
    BY <1>2, <2>1, <2>2, <2>9 DEF RowOnly
<1> QED
  BY <1>1, <1>2

\* At its start there are none.
LEMMA SoFarStart ==
    ASSUME NEW kind, NEW g
    PROVE  SoFar(kind, 0, g) = <<>>
BY DEF SoFar

\* They are changes.
LEMMA SoFarType ==
    ASSUME NEW kind, NEW j, NEW g \in Nat
    PROVE  SoFar(kind, j, g) \in Seq(Change)
<1>1. PICK a \in Change, b \in Change : a = [group |-> g, stmt |-> 1] /\ b = [group |-> g, stmt |-> 2]
  BY DEF Change
<1>2. /\ <<>> \in Seq(Change) /\ <<a>> \in Seq(Change) /\ <<b>> \in Seq(Change)
      /\ <<a, b>> \in Seq(Change)
  OBVIOUS
<1>3. SoFar(kind, j, g) \in {<<>>, <<a>>, <<b>>, <<a, b>>}
  BY <1>1 DEF SoFar
<1> QED
  BY <1>2, <1>3

\* When it ends they are those that were committed.
LEMMA SoFarEnd ==
    ASSUME NEW g \in Nat, groups[g] \in Plain
    PROVE  /\ Kept(g) \in Seq(Change)
           /\ RowChanges(Kept(g)) = SoFar(groups[g], Size(groups[g]), g)
<1> DEFINE kind == groups[g]
<1>1. PICK a \in Change, b \in Change : a = [group |-> g, stmt |-> 1] /\ b = [group |-> g, stmt |-> 2]
  BY DEF Change
<1>2. a.group = g /\ b.group = g
  BY <1>1
<1>3. PICK none \in Seq(Change) : none = <<>>
  <2>1. <<>> \in Seq(Change)
    OBVIOUS
  <2> QED
    BY <2>1
<1>4. RowChanges(none) = none
  BY <1>3, RowsOfNone
<1>5. ASSUME NEW c \in Change
      PROVE  /\ <<c>> = Append(none, c) /\ <<c>> \in Seq(Change)
             /\ RowChanges(<<c>>) = RowOnly(c)
  <2>1. <<c>> = Append(none, c) /\ Append(none, c) \in Seq(Change)
    BY <1>3
  <2>2. RowChanges(Append(none, c)) = none \o RowOnly(c)
    BY <1>4, RowsOfOneMore
  <2>3. RowOnly(c) \in Seq(Change)
    BY DEF RowOnly
  <2>4. none \o RowOnly(c) = RowOnly(c)
    BY <1>3, <2>3, ConcatEmptySeq
  <2> QED
    BY <2>1, <2>2, <2>4
<1>6. CASE kind \in {"unwanted", "session"}
  <2>1. StoredOf[kind] = <<>>
    BY <1>6, StoredIs
  <2>2. Kept(g) = <<>>
    BY <2>1 DEF Kept
  <2>3. SoFar(kind, Size(kind), g) = <<>>
    BY <1>6 DEF SoFar
  <2> QED
    BY <1>3, <1>4, <2>2, <2>3
<1>7. CASE kind = "ddl"
  <2>1. StoredOf[kind] = <<1>>
    BY <1>7, StoredIs
  <2>2. Kept(g) = <<a>>
    BY <1>1, <2>1 DEF Kept
  <2>3. SoFar(kind, Size(kind), g) = <<>>
    BY <1>7 DEF SoFar
  <2>4. RowOnly(a) = <<>>
    BY <1>2, <1>7 DEF RowOnly
  <2> QED
    BY <1>5, <2>2, <2>3, <2>4
<1>8. CASE kind = "insert"
  <2>1. StoredOf[kind] = <<2>>
    BY <1>8, StoredIs
  <2>2. Kept(g) = <<b>>
    BY <1>1, <2>1 DEF Kept
  <2>3. SoFar(kind, Size(kind), g) = <<b>>
    BY <1>1, <1>8, Sizes DEF SoFar
  <2>4. RowOnly(b) = <<b>>
    BY <1>2, <1>8 DEF RowOnly
  <2> QED
    BY <1>5, <2>2, <2>3, <2>4
<1>9. CASE kind = "statements"
  <2>1. StoredOf[kind] = <<1, 2>>
    BY <1>9, StoredIs
  <2>2. Kept(g) = <<a, b>>
    BY <1>1, <2>1 DEF Kept
  <2>3. SoFar(kind, Size(kind), g) = <<a, b>>
    BY <1>1, <1>9, Sizes DEF SoFar
  <2>4. RowOnly(a) = <<a>> /\ RowOnly(b) = <<b>>
    BY <1>2, <1>9 DEF RowOnly
  <2>5. PICK u \in Seq(Change) : u = <<a>>
    BY <1>5
  <2>6. <<a, b>> = Append(u, b) /\ u \o <<b>> = <<a, b>> /\ <<a, b>> \in Seq(Change)
    <3>1. <<a, b>> = Append(u, b)
      BY <2>5
    <3>2. Append(u, b) = u \o <<b>>
      BY AppendIsConcat
    <3>3. Append(u, b) \in Seq(Change)
      OBVIOUS
    <3> QED
      BY <3>1, <3>2, <3>3
  <2>7. RowChanges(u) = u
    BY <1>5, <2>4, <2>5
  <2>8. RowChanges(Append(u, b)) = u \o <<b>>
    BY <2>4, <2>7, RowsOfOneMore
  <2> QED
    BY <2>2, <2>3, <2>6, <2>8
<1> QED
  BY <1>6, <1>7, <1>8, <1>9 DEF Plain

\* One event of it more.
LEMMA SoFarNext ==
    ASSUME NEW g \in Nat, groups[g] \in Plain, NEW j \in 1 .. Size(groups[g]),
           NEW e, Is(e, g, Forms[groups[g]][j])
    PROVE  /\ RowChanges(EventsFrom(e)) \in Seq(Change)
           /\ SoFar(groups[g], j, g)
                 = SoFar(groups[g], j - 1, g) \o RowChanges(EventsFrom(e))
<1> DEFINE kind == groups[g]
           x == RowChanges(EventsFrom(e))
           event == Forms[kind][j]
<1>1. PICK a \in Change, b \in Change : a = [group |-> g, stmt |-> 1] /\ b = [group |-> g, stmt |-> 2]
  BY DEF Change
<1>2. kind \in DOMAIN Forms /\ Size(kind) \in Nat
  BY FormsAre, SizeType DEF Plain
<1>3. e.type = event.type /\ e.stmt = event.stmt /\ e.group = g /\ event.stmt \in Nat
  BY <1>2, FormParts DEF Is
<1>4. /\ e.type \notin {"rows", "ddl"} => x = <<>>
      /\ kind = "ddl" => x = <<>>
      /\ e.type = "rows" /\ kind # "ddl" => x = <<[group |-> g, stmt |-> e.stmt]>>
  BY <1>3, RowsOfEvent
<1>5. SoFar(kind, j - 1, g) \in Seq(Change) /\ SoFar(kind, j, g) \in Seq(Change)
  BY SoFarType
<1>6. CASE kind = "insert" /\ j = 3
  <2>1. event = Rows(2)
    BY <1>6, FormsAre
  <2>2. x = <<b>>
    BY <1>1, <1>3, <1>4, <1>6, <2>1 DEF Rows, Event
  <2>3. SoFar(kind, j - 1, g) = <<>> /\ SoFar(kind, j, g) = <<b>>
    BY <1>1, <1>6 DEF SoFar
  <2>4. <<b>> \in Seq(Change) /\ <<>> \o <<b>> = <<b>>
    OBVIOUS
  <2> QED
    BY <2>2, <2>3, <2>4
<1>7. CASE kind = "statements" /\ j = 3
  <2>1. event = Rows(1)
    BY <1>7, FormsAre
  <2>2. x = <<a>>
    BY <1>1, <1>3, <1>4, <1>7, <2>1 DEF Rows, Event
  <2>3. SoFar(kind, j - 1, g) = <<>> /\ SoFar(kind, j, g) = <<a>>
    BY <1>1, <1>7 DEF SoFar
  <2>4. <<a>> \in Seq(Change) /\ <<>> \o <<a>> = <<a>>
    OBVIOUS
  <2> QED
    BY <2>2, <2>3, <2>4
<1>8. CASE kind = "statements" /\ j = 4
  <2>1. event = Rows(2)
    BY <1>8, FormsAre
  <2>2. x = <<b>>
    BY <1>1, <1>3, <1>4, <1>8, <2>1 DEF Rows, Event
  <2>3. SoFar(kind, j - 1, g) = <<a>> /\ SoFar(kind, j, g) = <<a, b>>
    BY <1>1, <1>8 DEF SoFar
  <2>4. <<b>> \in Seq(Change) /\ <<a, b>> = <<a>> \o <<b>>
    <3>1. PICK u \in Seq(Change) : u = <<a>>
      <4>1. <<a>> \in Seq(Change)
        OBVIOUS
      <4> QED
        BY <4>1
    <3>2. <<a, b>> = Append(u, b)
      BY <3>1
    <3>3. Append(u, b) = u \o <<b>>
      BY AppendIsConcat
    <3> QED
      BY <3>1, <3>2, <3>3
  <2> QED
    BY <2>2, <2>3, <2>4
<1>9. CASE /\ ~ (kind = "insert" /\ j = 3)
           /\ ~ (kind = "statements" /\ j = 3) /\ ~ (kind = "statements" /\ j = 4)
  <2>1. kind # "ddl" => event.type \notin {"rows", "ddl"}
    <3>1. CASE kind = "insert"
      <4>1. j \in {1, 2, 4}
        BY <1>9, <3>1, Sizes
      <4>2. event \in {Begin, Event("unwanted", 1), Commit}
        BY <3>1, <4>1, FormsAre
      <4> QED
        BY <4>2 DEF Begin, Event, Commit
    <3>2. CASE kind = "statements"
      <4>1. j \in {1, 2, 5}
        BY <1>9, <3>2, Sizes
      <4>2. event \in {Begin, Event("annotate", 1), Commit}
        BY <3>2, <4>1, FormsAre
      <4> QED
        BY <4>2 DEF Begin, Event, Commit
    <3>3. CASE kind = "unwanted"
      <4>1. j \in {1, 2, 3}
        BY <3>3, Sizes
      <4>2. event \in {Begin, Event("unwanted", 1), Commit}
        BY <3>3, <4>1, FormsAre
      <4> QED
        BY <4>2 DEF Begin, Event, Commit
    <3>4. CASE kind = "session"
      <4>1. j = 1
        BY <3>4, Sizes
      <4>2. event = Event("session", 0)
        BY <3>4, <4>1, FormsAre
      <4> QED
        BY <4>2 DEF Event
    <3> QED
      BY <3>1, <3>2, <3>3, <3>4 DEF Plain
  <2>2. x = <<>>
    BY <1>3, <1>4, <2>1
  <2>3. SoFar(kind, j, g) = SoFar(kind, j - 1, g)
    <3>1. CASE kind = "insert"
      <4>1. j \in {1, 2, 4}
        BY <1>9, <3>1, Sizes
      <4> QED
        BY <3>1, <4>1 DEF SoFar
    <3>2. CASE kind = "statements"
      <4>1. j \in {1, 2, 5}
        BY <1>9, <3>2, Sizes
      <4> QED
        BY <3>2, <4>1 DEF SoFar
    <3>3. CASE kind \notin {"insert", "statements"}
      BY <3>3 DEF SoFar
    <3> QED
      BY <3>1, <3>2, <3>3
  <2>4. SoFar(kind, j - 1, g) \o <<>> = SoFar(kind, j - 1, g)
    BY <1>5, ConcatEmptySeq
  <2> QED
    BY <2>2, <2>3, <2>4
<1> QED
  BY <1>6, <1>7, <1>8, <1>9

----------------------------------------------------------------------------
(***************************************************************************)
(* The scan and the commits, side by side                                  *)
(***************************************************************************)
\* The transaction is open after i events.
Inside(i, s, g) == Within(i, s, g) /\ i < s + Size(groups[g])

\* After i events: the row changes of the transactions that have ended, and of
\* the one that is open those its events have had so far.
AlongWith(i, d, part) ==
    /\ Span(d, i)
    /\ RowChanges(Scanned(i)) = RowChanges(KeptUpTo(d)) \o part
    /\ \A s, g : Inside(i, s, g) => part = SoFar(groups[g], i - s, g)
    /\ (\A s, g : ~ Inside(i, s, g)) => part = <<>>

Along(i) == \E d \in 0 .. Len(groups), part \in Seq(Change) : AlongWith(i, d, part)

\* Every transaction is of a kind whose rows a scan of the files understands.
AllPlain == \A g \in 1 .. Len(groups) : groups[g] \in Plain

\* At the start of the log there is nothing.
LEMMA AlongStart ==
    ASSUME LogTypes
    PROVE  Along(0)
<1>1. groups \in Seq(Kinds) /\ Len(groups) \in Nat /\ Len(log) \in Nat
  BY DEF LogTypes
<1>2. Span(0, 0)
  <2> SUFFICES ASSUME NEW s \in 1 .. Len(log), NEW g \in 1 .. Len(groups), Holds(s, g)
               PROVE  s + Size(groups[g]) <= 0 <=> g <= 0
    BY DEF Span
  <2>1. Size(groups[g]) \in Nat
    BY <1>1, KindIs
  <2> QED
    BY <2>1
<1>3. \A s, g : ~ Inside(0, s, g)
  BY DEF Inside, Within, Holds
<1>4. RowChanges(Scanned(0)) = RowChanges(KeptUpTo(0)) \o <<>>
  <2>1. RowChanges(Scanned(0)) = <<>> /\ RowChanges(KeptUpTo(0)) = <<>>
    BY ScanStart, RowsOfNone
  <2>2. <<>> \in Seq(Change) /\ <<>> \o <<>> = <<>>
    OBVIOUS
  <2> QED
    BY <2>1, <2>2
<1>5. 0 \in 0 .. Len(groups) /\ <<>> \in Seq(Change)
  BY <1>1
<1> QED
  BY <1>2, <1>3, <1>4, <1>5 DEF Along, AlongWith

\* An event of no transaction, and one that begins one: no transaction is open
\* before it.
LEMMA BetweenTransactions ==
    ASSUME LogInv, NEW i \in 1 .. Len(log), log[i].type \in Names \cup {"rotate"}
    PROVE  \A s, g : ~ Inside(i - 1, s, g)
<1> SUFFICES ASSUME NEW s, NEW g, Inside(i - 1, s, g) PROVE FALSE
  OBVIOUS
<1>1. groups \in Seq(Kinds) /\ Len(log) \in Nat /\ i \in Nat
  BY DEF LogInv, LogTypes
<1>2. Holds(s, g) /\ s <= i - 1 /\ i - 1 < s + Size(groups[g]) /\ s \in Nat /\ g \in 1 .. Len(groups)
  BY DEF Inside, Within, Holds
<1>3. Size(groups[g]) \in Nat
  BY <1>1, <1>2, KindIs
<1>4. s < i /\ i <= s + Size(groups[g])
  BY <1>1, <1>2, <1>3
<1>5. log[i].type \notin {"gtid", "anonymous", "rotate"}
  BY <1>1, <1>2, <1>4, HeldEvent
<1> QED
  BY <1>5 DEF Names

\* Such an event adds nothing to either.
LEMMA AlongBetween ==
    ASSUME LogInv, NEW i \in 1 .. Len(log), log[i].type \in Names \cup {"rotate"}, Along(i - 1)
    PROVE  Along(i)
<1>1. /\ groups \in Seq(Kinds) /\ Len(log) \in Nat /\ i \in Nat /\ LogTypes
      /\ i - 1 \in 0 .. Len(log) /\ i - 1 < Len(log) /\ i - 1 + 1 = i
  BY DEF LogInv, LogTypes
<1>2. PICK d \in 0 .. Len(groups), part \in Seq(Change) :
          /\ Span(d, i - 1)
          /\ RowChanges(Scanned(i - 1)) = RowChanges(KeptUpTo(d)) \o part
          /\ (\A s, g : ~ Inside(i - 1, s, g)) => part = <<>>
  BY DEF Along, AlongWith
<1>3. part = <<>>
  BY <1>2, BetweenTransactions
<1>4. ASSUME NEW s, NEW g, Within(i, s, g) PROVE s = i /\ g \in 1 .. Len(groups)
  <2>1. Holds(s, g) /\ s <= i /\ i <= s + Size(groups[g]) /\ s \in Nat /\ g \in 1 .. Len(groups)
    BY <1>4 DEF Within, Holds
  <2>2. ~ (s < i)
    <3>1. s < i => log[i].type \notin {"gtid", "anonymous", "rotate"}
      BY <1>1, <2>1, HeldEvent
    <3> QED
      BY <3>1 DEF Names
  <2> QED
    BY <1>1, <2>1, <2>2
<1>5. Span(d, i)
  <2>1. \A s, g : Within(i, s, g) => s + Size(groups[g]) # i
    <3> SUFFICES ASSUME NEW s, NEW g, Within(i, s, g) PROVE s + Size(groups[g]) # i
      OBVIOUS
    <3>1. s = i /\ g \in 1 .. Len(groups)
      BY <1>4
    <3>2. Size(groups[g]) \in Nat /\ Size(groups[g]) >= 1
      BY <1>1, <3>1, KindIs
    <3> QED
      BY <1>1, <3>1, <3>2
  <2> QED
    BY <1>2, <2>1, SpanStays
<1>6. \A s, g : Inside(i, s, g) => part = SoFar(groups[g], i - s, g)
  <2> SUFFICES ASSUME NEW s, NEW g, Inside(i, s, g) PROVE part = SoFar(groups[g], i - s, g)
    OBVIOUS
  <2>1. s = i
    BY <1>4 DEF Inside
  <2>2. i - s = 0
    BY <1>1, <2>1
  <2> QED
    BY <1>3, <2>2, SoFarStart
<1>7. EventsFrom(log[i]) = <<>>
  BY DEF EventsFrom, Names
<1>8. Scanned(i) = Scanned(i - 1)
  <2>1. Scanned(i - 1) \in Seq(Change) /\ Scanned(i - 1 + 1) = Scanned(i - 1) \o EventsFrom(log[i - 1 + 1])
    BY <1>1, ScanNext
  <2>2. Scanned(i) = Scanned(i - 1) \o <<>>
    BY <1>1, <1>7, <2>1
  <2>3. Scanned(i - 1) \o <<>> = Scanned(i - 1)
    BY <2>1, ConcatEmptySeq
  <2> QED
    BY <2>2, <2>3
<1>9. RowChanges(Scanned(i)) = RowChanges(KeptUpTo(d)) \o part
  BY <1>2, <1>8
<1> QED
  BY <1>3, <1>5, <1>6, <1>9 DEF Along, AlongWith

\* An event of a transaction adds to what it has so far, and the last one makes
\* that what was committed.
LEMMA AlongTransaction ==
    ASSUME LogInv, Placed, Ordered, NoCreate, AllPlain,
           NEW i \in 1 .. Len(log), NEW s \in 1 .. Len(log), NEW g \in 1 .. Len(groups),
           Within(i, s, g), s < i, Along(i - 1)
    PROVE  Along(i)
<1> DEFINE kind == groups[g]
           j == i - s
           x == RowChanges(EventsFrom(log[i]))
<1>1. /\ groups \in Seq(Kinds) /\ Len(log) \in Nat /\ i \in Nat /\ LogTypes /\ Len(groups) \in Nat
      /\ i - 1 \in 0 .. Len(log) /\ i - 1 < Len(log) /\ i - 1 + 1 = i
      /\ kind \in Plain /\ g \in Nat
  BY DEF LogInv, LogTypes, AllPlain
<1>2. Holds(s, g) /\ s <= i /\ i <= s + Size(kind) /\ s \in Nat
  BY DEF Within, Holds
<1>3. Size(kind) \in Nat /\ Size(kind) >= 1
  BY <1>1, KindIs
<1>4. j \in 1 .. Size(kind) /\ Is(log[i], g, Forms[kind][j])
  BY <1>1, <1>2, HeldEvent
<1>5. Inside(i - 1, s, g)
  BY <1>1, <1>2, <1>3 DEF Inside, Within
<1>6. PICK d \in 0 .. Len(groups), part \in Seq(Change) :
          /\ Span(d, i - 1)
          /\ RowChanges(Scanned(i - 1)) = RowChanges(KeptUpTo(d)) \o part
          /\ \A t, h : Inside(i - 1, t, h) => part = SoFar(groups[h], i - 1 - t, h)
  BY DEF Along, AlongWith
<1>7. part = SoFar(kind, j - 1, g)
  <2>1. part = SoFar(kind, i - 1 - s, g)
    BY <1>5, <1>6
  <2>2. i - 1 - s = j - 1
    BY <1>1, <1>2
  <2> QED
    BY <2>1, <2>2
<1>8. x \in Seq(Change) /\ SoFar(kind, j, g) = part \o x
  <2> HIDE DEF j
  <2> QED
    BY <1>1, <1>4, <1>7, SoFarNext
<1>9. PICK kept \in Seq(Change) : kept = RowChanges(KeptUpTo(d))
  BY <1>1, KeptNext, RowsOfBoth
<1>10. RowChanges(Scanned(i)) = kept \o SoFar(kind, j, g)
  <2>1. /\ Scanned(i - 1) \in Seq(Change)
        /\ Scanned(i - 1 + 1) = Scanned(i - 1) \o EventsFrom(log[i - 1 + 1])
    BY <1>1, ScanNext
  <2>2. EventsFrom(log[i]) \in Seq(Change)
    BY <1>1, EventsFromType
  <2>3. RowChanges(Scanned(i)) = RowChanges(Scanned(i - 1)) \o x
    <3>1. PICK u \in Seq(Change), w \in Seq(Change) : u = Scanned(i - 1) /\ w = EventsFrom(log[i])
      BY <2>1, <2>2
    <3>2. RowChanges(u \o w) = RowChanges(u) \o RowChanges(w)
      BY RowsOfBoth
    <3>3. Scanned(i) = u \o w
      BY <1>1, <2>1, <3>1
    <3> QED
      BY <3>1, <3>2, <3>3
  <2>4. RowChanges(Scanned(i)) = (kept \o part) \o x
    BY <1>6, <1>9, <2>3
  <2>5. InARow(kept, part, x)
    <3> HIDE DEF x
    <3> QED
      BY <1>8, ChangesInARow
  <2> QED
    BY <1>8, <2>4, <2>5 DEF InARow
<1>11. \A t, h : Within(i, t, h) => t = s /\ h = g
  BY <1>1, HeldOnce
<1>12. SoFar(kind, j, g) \in Seq(Change)
  BY <1>1, SoFarType
<1>13. CASE i < s + Size(kind)
  <2>1. Span(d, i)
    <3>1. \A t, h : Within(i, t, h) => t + Size(groups[h]) # i
      BY <1>1, <1>2, <1>3, <1>11, <1>13
    <3> QED
      BY <1>6, <3>1, SpanStays
  <2>2. \A t, h : Inside(i, t, h) => SoFar(kind, j, g) = SoFar(groups[h], i - t, h)
    BY <1>11 DEF Inside
  <2>3. Inside(i, s, g)
    BY <1>13 DEF Inside
  <2> HIDE DEF kind, j
  <2> QED
    BY <1>9, <1>10, <1>12, <2>1, <2>2, <2>3 DEF Along, AlongWith
<1>14. CASE i = s + Size(kind)
  <2>1. g = d + 1 /\ Span(g, i)
    BY <1>2, <1>6, <1>14, SpanGrows
  <2>2. \A t, h : ~ Inside(i, t, h)
    <3> SUFFICES ASSUME NEW t, NEW h, Inside(i, t, h) PROVE FALSE
      OBVIOUS
    <3>1. t = s /\ h = g /\ i < t + Size(groups[h])
      BY <1>11 DEF Inside
    <3> QED
      BY <1>1, <1>3, <1>14, <3>1
  <2>3. j = Size(kind)
    <3>1. PICK z \in Nat : z = Size(kind)
      BY <1>3
    <3>2. i - s = z
      BY <1>2, <1>14, <3>1
    <3> QED
      BY <3>1, <3>2
  <2>4. Kept(g) \in Seq(Change) /\ RowChanges(Kept(g)) = SoFar(kind, j, g)
    BY <1>1, <2>3, SoFarEnd
  <2>5. KeptUpTo(d) \in Seq(Change) /\ KeptUpTo(g) = KeptUpTo(d) \o Kept(g)
    <3>1. d \in 0 .. Len(groups) /\ d < Len(groups)
      BY <1>1, <2>1
    <3> QED
      BY <1>1, <2>1, <3>1, KeptNext
  <2>6. RowChanges(KeptUpTo(g)) = kept \o SoFar(kind, j, g)
    BY <1>9, <2>4, <2>5, RowsOfBoth
  <2>7. RowChanges(Scanned(i)) \in Seq(Change) /\ RowChanges(Scanned(i)) \o <<>> = RowChanges(Scanned(i))
    <3>1. Scanned(i) \in Seq(Change)
      BY <1>1, ScanNext
    <3>2. RowChanges(Scanned(i)) \in Seq(Change)
      BY <3>1, RowsOfBoth
    <3> QED
      BY <3>2, ConcatEmptySeq
  <2>8. RowChanges(Scanned(i)) = RowChanges(KeptUpTo(g)) \o <<>>
    BY <1>10, <2>6, <2>7
  <2>9. PICK none \in Seq(Change) : none = <<>>
    <3>1. <<>> \in Seq(Change)
      OBVIOUS
    <3> QED
      BY <3>1
  <2>10. /\ RowChanges(Scanned(i)) = RowChanges(KeptUpTo(g)) \o none
         /\ (\A t, h : Inside(i, t, h) => none = SoFar(groups[h], i - t, h))
         /\ ((\A t, h : ~ Inside(i, t, h)) => none = <<>>)
    BY <2>2, <2>8, <2>9
  <2>11. g \in 0 .. Len(groups)
    BY <1>1
  <2>12. AlongWith(i, g, none)
    BY <2>1, <2>10 DEF AlongWith
  <2> QED
    BY <2>11, <2>12 DEF Along
<1>15. i < s + Size(kind) \/ i = s + Size(kind)
  <2>1. PICK z \in Nat : z = Size(kind)
    BY <1>3
  <2>2. i <= s + z
    BY <1>2, <2>1
  <2>3. i < s + z \/ i = s + z
    BY <1>1, <1>2, <2>2
  <2> QED
    BY <2>1, <2>3
<1> QED
  BY <1>13, <1>14, <1>15

\* So it is after every event of the log.
LEMMA AlongTheLog ==
    ASSUME LogInv, Placed, Ordered, NoCreate, AllPlain
    PROVE  Along(Len(log))
<1> DEFINE N == {i \in Nat : i <= Len(log) => Along(i)}
<1>1. Len(log) \in Nat /\ LogTypes
  BY DEF LogInv, LogTypes
<1>2. 0 \in N
  BY <1>1, AlongStart
<1>3. ASSUME NEW n \in Nat, n \in N PROVE n + 1 \in N
  <2>1. ASSUME n + 1 <= Len(log) PROVE Along(n + 1)
    <3>1. PICK i \in 1 .. Len(log) : i = n + 1
      BY <1>1, <2>1
    <3>2. Along(i - 1)
      <4>1. Along(n) /\ i - 1 = n
        BY <1>1, <1>3, <2>1, <3>1
      <4> QED
        BY <4>1
    <3>3. CASE log[i].type \in Names \cup {"rotate"}
      BY <3>1, <3>2, <3>3, AlongBetween
    <3>4. CASE log[i].type \notin Names \cup {"rotate"}
      <4>1. PICK s \in 1 .. Len(log), g \in 1 .. Len(groups) : Within(i, s, g)
        BY <3>4 DEF LogInv, WholeTransactions
      <4>2. s < i
        BY <3>4, <4>1 DEF Within, Holds
      <4> QED
        BY <3>1, <3>2, <4>1, <4>2, AlongTransaction
    <3> QED
      BY <3>3, <3>4
  <2> QED
    BY <2>1
<1> HIDE DEF N
<1>4. Nat \subseteq N
  BY <1>2, <1>3, NatSets
<1> QED
  BY <1>1, <1>4 DEF N

\* At the end of the log all transactions have ended.
LEMMA SpanOfAll ==
    ASSUME LogInv, Placed, NEW d \in 0 .. Len(groups), Span(d, Len(log))
    PROVE  d = Len(groups)
<1> SUFFICES ASSUME d # Len(groups) PROVE FALSE
  OBVIOUS
<1>1. Len(log) \in Nat /\ Len(groups) \in Nat
  BY DEF LogInv, LogTypes
<1>2. PICK g \in 1 .. Len(groups) : g = Len(groups)
  BY <1>1
<1>3. PICK s \in 1 .. Len(log) : Holds(s, g)
  BY DEF Placed
<1>4. s + Size(groups[g]) <= Len(log)
  BY <1>3 DEF Holds
<1>5. g <= d
  BY <1>3, <1>4 DEF Span
<1> QED
  BY <1>1, <1>2, <1>5

\* A scan of the whole log has the row changes of all that was committed.
LEMMA ScanIsCommitted ==
    ASSUME LogInv, Placed, Ordered, NoCreate, AllPlain
    PROVE  RowChanges(Scanned(Len(log))) = RowChanges(KeptUpTo(Len(groups)))
<1>1. /\ groups \in Seq(Kinds) /\ Len(log) \in Nat /\ Len(groups) \in Nat /\ LogTypes
  BY DEF LogInv, LogTypes
<1>3. Along(Len(log))
  BY AlongTheLog
<1>4. PICK d \in 0 .. Len(groups), part \in Seq(Change) : AlongWith(Len(log), d, part)
  BY <1>3 DEF Along
<1>5. d = Len(groups)
  BY <1>4, SpanOfAll DEF AlongWith
<1>6. \A s, g : ~ Inside(Len(log), s, g)
  <2> SUFFICES ASSUME NEW s, NEW g, Inside(Len(log), s, g) PROVE FALSE
    OBVIOUS
  <2>1. s + Size(groups[g]) <= Len(log) /\ s \in Nat /\ g \in 1 .. Len(groups)
        /\ Len(log) < s + Size(groups[g])
    BY DEF Inside, Within, Holds
  <2>2. Size(groups[g]) \in Nat
    BY <1>1, <2>1, KindIs
  <2> QED
    BY <1>1, <2>1, <2>2
<1>7. part = <<>> /\ RowChanges(Scanned(Len(log))) = RowChanges(KeptUpTo(d)) \o part
  BY <1>4, <1>6 DEF AlongWith
<1>8. RowChanges(KeptUpTo(d)) \in Seq(Change)
  <2>1. KeptUpTo(d) \in Seq(Change)
    BY <1>1, KeptNext
  <2> QED
    BY <2>1, RowsOfBoth
<1>9. RowChanges(KeptUpTo(d)) \o <<>> = RowChanges(KeptUpTo(d))
  BY <1>8, ConcatEmptySeq
<1> QED
  BY <1>5, <1>7, <1>9

----------------------------------------------------------------------------
(***************************************************************************)
(* What was missed                                                         *)
(***************************************************************************)
\* What is recorded as missing is missing of a transaction of the log.
MissesAreTrue == \A x \in misses : \E g \in 1 .. Len(groups) : x \in Missing(g)

\* What is recorded of a transaction is missing of it.
LEMMA ToldIsMissing ==
    ASSUME NEW g, groups[g] \in DOMAIN Forms
    PROVE  Told(g) \subseteq Missing(g)
<1> DEFINE kind == groups[g]
<1>1. /\ kind = "unreadable" => MissedOf[kind] = {2}
      /\ kind = "compressed" => MissedOf[kind] = {1, 2}
  BY FormsAre DEF MissedOf
<1> QED
  BY <1>1 DEF Told, ToldOf, Missing

\* What handling an event records as missing is of its transaction.
LEMMA HandledMisses ==
    ASSUME LogInv, NEW i \in 1 .. Len(log), log[i].type # "xa",
           NEW n \in Nat, NEW query, NEW rows, Hand(i - 1, query, rows)
    PROVE  \A x \in ToSet(Handle(Holding(NextFile(i - 1), n, query, rows), log[i]).miss) :
               \E g \in 1 .. Len(groups) : x \in Missing(g)
<1> DEFINE a == Holding(NextFile(i - 1), n, query, rows)
           r == Handle(a, log[i])
<1>1. log \in Seq(LogEvent) /\ groups \in Seq(Kinds) /\ Len(log) \in Nat
  BY DEF LogInv, LogTypes
<1>2. CASE log[i].type \in Names \cup {"rotate"}
  <2>1. r.miss = <<>>
    <3>1. CASE log[i].type = "rotate"
      <4>1. r = Result(Holding(NextFile(i), n, query, rows), <<>>, <<>>)
        BY <3>1, HandledRotate
      <4> HIDE DEF r
      <4> QED
        BY <4>1 DEF Result
    <3>2. CASE log[i].type \in Names
      <4>1. PICK m : m = IF log[i].type = "gtid" THEN log[i].group ELSE n
        OBVIOUS
      <4>2. r = Result(Holding(NextFile(i), m, query, rows), <<>>, <<>>)
        BY <3>2, <4>1, HandledName
      <4> HIDE DEF r
      <4> QED
        BY <4>2 DEF Result
    <3> QED
      BY <1>2, <3>1, <3>2
  <2> HIDE DEF r
  <2>2. ToSet(r.miss) = {}
    BY <2>1 DEF ToSet
  <2> QED
    BY <2>2 DEF r
<1>3. CASE log[i].type \notin Names \cup {"rotate"}
  <2>1. PICK s \in 1 .. Len(log), g \in 1 .. Len(groups) : Within(i, s, g)
    BY <1>3 DEF LogInv, WholeTransactions
  <2>2. s < i
    BY <1>3, <2>1 DEF Within, Holds
  <2> DEFINE kind == groups[g]
             j == i - s
             m == NameAfter(kind, j, n)
             d == IDOf(log[i].file, n, log[i])
  <2>3. /\ kind \in DOMAIN Forms
        /\ r = Result(Holding(NextFile(i), m, Announced(kind, j), InHand(kind, j, g)),
                      Given(GivenOut(kind, j, g), d), Missed(kind, j, g))
    BY <2>1, <2>2, HandledForm
  <2> HIDE DEF r, m, d, j
  <2>4. r.miss = Missed(kind, j, g)
    BY <2>3 DEF Result
  <2>5. ToSet(r.miss) \subseteq Missing(g)
    BY <2>3, <2>4, MissedIs, ToldIsMissing
  <2> QED
    BY <2>5 DEF r
<1> QED
  BY <1>2, <1>3

\* While the server appends to its log, it stays so.
LEMMA MissesStay ==
    ASSUME MissesAreTrue, Grows, Len(groups) \in Nat, Len(groups') \in Nat, misses' = misses
    PROVE  MissesAreTrue'
<1> SUFFICES ASSUME NEW x \in misses PROVE \E g \in 1 .. Len(groups') : x \in Missing(g)'
  BY DEF MissesAreTrue
<1>1. PICK g \in 1 .. Len(groups) : x \in Missing(g)
  BY DEF MissesAreTrue
<1>2. x \in Missing(g)'
  BY <1>1 DEF Grows, Missing
<1>3. g \in 1 .. Len(groups')
  BY DEF Grows
<1> QED
  BY <1>2, <1>3

\* Reading an event keeps it so.
LEMMA MissesRead ==
    ASSUME HandInv, MissesAreTrue, Reading, NextEvent.type # "xa", groups' = groups,
           misses' = misses \cup ToSet(Handle(asm, NextEvent).miss)
    PROVE  MissesAreTrue'
<1>1. /\ LogInv /\ groups \in Seq(Kinds) /\ Len(log) \in Nat
      /\ pc = "streaming" /\ at < Len(log) /\ at \in Nat
  BY DEF HandInv, LogInv, LogTypes, Reading
<1>2. PICK n, query, rows : /\ n \in Nat /\ asm = Holding(NextFile(at), n, query, rows)
                            /\ Hand(at, query, rows)
  BY <1>1 DEF HandInv, AsmInv
<1>3. PICK i \in 1 .. Len(log) : i = at + 1
  BY <1>1
<1>4. NextEvent = log[i] /\ i - 1 = at
  BY <1>1, <1>3 DEF NextEvent
<1>5. asm = Holding(NextFile(i - 1), n, query, rows) /\ Hand(i - 1, query, rows)
  BY <1>2, <1>4
<1>6. log[i].type # "xa"
  BY <1>4
<1>7. \A x \in ToSet(Handle(Holding(NextFile(i - 1), n, query, rows), log[i]).miss) :
          \E g \in 1 .. Len(groups) : x \in Missing(g)
  BY <1>1, <1>2, <1>5, <1>6, HandledMisses
<1>8. \A x \in ToSet(Handle(asm, NextEvent).miss) : \E g \in 1 .. Len(groups) : x \in Missing(g)
  BY <1>4, <1>5, <1>7
<1>9. \A x \in misses' : \E g \in 1 .. Len(groups) : x \in Missing(g)
  BY <1>8 DEF MissesAreTrue
<1>10. \A g : Missing(g)' = Missing(g)
  BY DEF Missing
<1> QED
  BY <1>9, <1>10 DEF MissesAreTrue

\* Every step keeps it so.
LEMMA MissesNext == HandInv /\ MissesAreTrue /\ [Next]_vars => MissesAreTrue'
<1> SUFFICES ASSUME HandInv, MissesAreTrue, [Next]_vars PROVE MissesAreTrue'
  OBVIOUS
<1>1. LogInv /\ LogTypes /\ Len(groups) \in Nat
  BY DEF HandInv, LogInv, LogTypes
<1>2. ASSUME UNCHANGED <<groups, misses>> PROVE MissesAreTrue'
  <2>1. \A g : Missing(g)' = Missing(g)
    BY <1>2 DEF Missing
  <2> QED
    BY <1>2, <2>1 DEF MissesAreTrue
<1>3. ASSUME NEW kind \in Kinds, NEW named \in Naming, Write(kind, named) PROVE MissesAreTrue'
  <2>1. LogInv' /\ Grows
    BY <1>1, <1>3, WriteStep
  <2>2. Len(groups') \in Nat
    BY <2>1 DEF Grows
  <2>3. misses' = misses
    BY <1>3 DEF Write
  <2> QED
    BY <1>1, <2>1, <2>2, <2>3, MissesStay
<1>4. CASE Rotate
  BY <1>2, <1>4 DEF Rotate
<1>5. CASE Attach
  BY <1>2, <1>5 DEF Attach
<1>6. CASE HandleEvent
  <2>1. /\ Reading /\ NextEvent.type # "xa" /\ groups' = groups
        /\ misses' = misses \cup ToSet(Handle(asm, NextEvent).miss)
    BY <1>6 DEF HandleEvent
  <2> QED
    BY <2>1, MissesRead
<1>7. CASE StreamFails
  BY <1>2, <1>7 DEF StreamFails, Drop
<1>8. CASE StoreFails
  <2>1. /\ Reading /\ NextEvent.type # "xa" /\ groups' = groups
        /\ misses' = misses \cup ToSet(Handle(asm, NextEvent).miss)
    BY <1>8 DEF StoreFails, Drop
  <2> QED
    BY <2>1, MissesRead
<1>9. CASE HandleXA
  BY <1>2, <1>9 DEF HandleXA
<1>10. CASE UNCHANGED vars
  BY <1>2, <1>10 DEF vars
<1> QED
  BY <1>3, <1>4, <1>5, <1>6, <1>7, <1>8, <1>9, <1>10 DEF Next

\* No row is recorded as missing that the log does not have unreadable.
THEOREM NoFalseMisses ==
    Spec => []MissesAreTrue
<1>1. Init => MissesAreTrue
  BY DEF Init, MissesAreTrue
<1>2. HandInv /\ MissesAreTrue /\ [Next]_vars => MissesAreTrue'
  BY MissesNext
<1>3. Spec => []HandInv
  BY HandInvariance
<1> QED
  BY <1>1, <1>2, <1>3, PTL DEF Spec

----------------------------------------------------------------------------
(***************************************************************************)
(* The two ways into the log                                               *)
(***************************************************************************)
\* When all is stored, what is stored is what was committed.
LEMMA StoredIsCommitted ==
    ASSUME AllInv, NoCreate, CaughtUp
    PROVE  /\ FlattenSeq(Recorded) = KeptUpTo(Len(groups))
           /\ \A g \in 1 .. Len(groups) : Told(g) \subseteq misses
<1>1. /\ StoreInv /\ LogTypes /\ txns \in Seq(Txn) /\ Len(groups) \in Nat
      /\ pc = "streaming" /\ at = Len(log) /\ skipped = {}
  BY DEF AllInv, HandInv, LogInv, LogTypes, CaughtUp
<1>2. PICK f \in 0 .. Len(groups) : skipped = 1 .. f /\ Stores(f)
  BY <1>1 DEF StoreInv
<1>3. f = 0
  <2>1. 1 .. f = {}
    BY <1>1, <1>2
  <2>2. f # 0 => 1 \in 1 .. f
    BY <1>1
  <2> QED
    BY <2>1, <2>2
<1>4. PICK d \in 0 .. Len(groups) : Span(d, at) /\ DoneUpTo(f, d)
  BY <1>1, <1>2 DEF Stores, AtStream
<1>5. d = Len(groups)
  <2>1. LogInv /\ Placed
    BY DEF AllInv, HandInv, StoreInv
  <2> QED
    BY <1>1, <1>4, <2>1, SpanOfAll
<1>6. /\ CommittedUpTo(d) = CommittedUpTo(0) \o Recorded
      /\ \A g \in f + 1 .. d : Has(g)
  BY <1>3, <1>4 DEF DoneUpTo
<1>7. Recorded = CommittedUpTo(d)
  <2>1. Listed
    BY <1>1, RecordedIs
  <2>2. <<>> \o Recorded = Recorded
    BY <2>1, ConcatEmptySeq DEF Listed
  <2> QED
    BY <1>6, <2>2, ScanStart
<1>8. FlattenSeq(Recorded) = KeptUpTo(Len(groups))
  BY <1>1, <1>5, <1>7, CommittedChanges
<1>9. \A g \in 1 .. Len(groups) : Told(g) \subseteq misses
  BY <1>1, <1>3, <1>5, <1>6 DEF Has
<1> QED
  BY <1>8, <1>9

\* Only one kind of transaction has an event of its own whose rows cannot be
\* read.
LEMMA OnlyUnreadable ==
    ASSUME NEW kind \in DOMAIN Forms, NEW j \in 1 .. Size(kind),
           Forms[kind][j].type = "unreadable"
    PROVE  kind = "unreadable"
<1> DEFINE e == Forms[kind][j]
<1>1. ASSUME NEW n, NEW type, type # "unreadable" PROVE Event(type, n).type # "unreadable"
  BY <1>1 DEF Event
<1>2. Begin.type # "unreadable" /\ Commit.type # "unreadable"
      /\ \A n : Rows(n).type # "unreadable"
  BY <1>1 DEF Begin, Commit, Rows
<1>3. CASE kind = "insert"
  <2>1. j \in 1 .. 4
    BY <1>3, Sizes
  <2>2. e \in {Begin, Event("unwanted", 1), Rows(2), Commit}
    BY <1>3, <2>1, FormsAre
  <2> QED
    BY <1>1, <1>2, <2>2
<1>4. CASE kind = "statements"
  <2>1. j \in 1 .. 5
    BY <1>4, Sizes
  <2>2. e \in {Begin, Event("annotate", 1), Rows(1), Rows(2), Commit}
    BY <1>4, <2>1, FormsAre
  <2> QED
    BY <1>1, <1>2, <2>2
<1>5. CASE kind = "unwanted"
  <2>1. j \in 1 .. 3
    BY <1>5, Sizes
  <2>2. e \in {Begin, Event("unwanted", 1), Commit}
    BY <1>5, <2>1, FormsAre
  <2> QED
    BY <1>1, <1>2, <2>2
<1>6. CASE kind \in {"rolledback", "xa"}
  <2>1. j \in 1 .. 3
    BY <1>6, Sizes
  <2>2. e \in {Begin, Rows(1), Event("rollback", 0), Event("xa", 0)}
    BY <1>6, <2>1, FormsAre
  <2> QED
    BY <1>1, <1>2, <2>2
<1>7. CASE kind \in {"ddl", "session"}
  <2>1. j = 1
    BY <1>7, Sizes
  <2>2. e \in {Event("ddl", 1), Event("session", 0)}
    BY <1>7, <2>1, FormsAre
  <2> QED
    BY <1>1, <2>2
<1>8. CASE kind = "create"
  <2>1. j \in 1 .. 4
    BY <1>8, Sizes
  <2>2. e \in {Begin, Event("ddl", 1), Rows(2), Commit}
    BY <1>8, <2>1, FormsAre
  <2> QED
    BY <1>1, <1>2, <2>2
<1>9. CASE kind = "compressed"
  <2>1. j = 1
    BY <1>9, Sizes
  <2> QED
    BY <1>9, <2>1, PayloadIs
<1> QED
  BY <1>3, <1>4, <1>5, <1>6, <1>7, <1>8, <1>9, FormsAre

\* The transactions whose rows cannot be read are those that make the scan
\* refuse.
LEMMA WhereItRefuses ==
    ASSUME LogInv, Placed, \A g \in 1 .. Len(groups) : groups[g] # "compressed"
    PROVE  /\ EventsFromFiles(log).refused <=>
                  \E g \in 1 .. Len(groups) : groups[g] = "unreadable"
           /\ \A g \in 1 .. Len(groups) : Missing(g) # {} <=> groups[g] = "unreadable"
<1>1. /\ log \in Seq(LogEvent) /\ groups \in Seq(Kinds) /\ Len(log) \in Nat
      /\ DOMAIN log = 1 .. Len(log)
  BY DEF LogInv, LogTypes
<1>2. EventsFromFiles(log).refused <=> \E i \in 1 .. Len(log) : log[i].type = "unreadable"
  BY <1>1 DEF EventsFromFiles, NoFile
<1>3. ASSUME NEW g \in 1 .. Len(groups), groups[g] = "unreadable"
      PROVE  \E i \in 1 .. Len(log) : log[i].type = "unreadable"
  <2>1. PICK s \in 1 .. Len(log) : Holds(s, g)
    BY DEF Placed
  <2>2. /\ s + 6 <= Len(log) /\ Is(log[s + 4], g, Forms["unreadable"][4])
    BY <1>3, <2>1, Sizes DEF Holds
  <2>3. Forms["unreadable"][4] = Event("unreadable", 2)
    BY FormsAre
  <2>4. log[s + 4].type = "unreadable"
    BY <2>2, <2>3 DEF Is, Event
  <2>5. s + 4 \in 1 .. Len(log)
    BY <1>1, <2>2
  <2> QED
    BY <2>4, <2>5
<1>4. ASSUME NEW i \in 1 .. Len(log), log[i].type = "unreadable"
      PROVE  \E g \in 1 .. Len(groups) : groups[g] = "unreadable"
  <2>1. PICK s \in 1 .. Len(log), g \in 1 .. Len(groups) : Within(i, s, g)
    BY <1>4 DEF LogInv, WholeTransactions
  <2>2. Holds(s, g) /\ s < i /\ i <= s + Size(groups[g]) /\ i \in Nat
    BY <1>4, <2>1 DEF Within, Holds, Names
  <2>3. PICK j \in 1 .. Size(groups[g]) : Is(log[i], g, Forms[groups[g]][j])
    BY <1>1, <2>2, HeldEvent
  <2>4. Forms[groups[g]][j].type = "unreadable"
    BY <1>4, <2>3 DEF Is
  <2>5. groups[g] \in DOMAIN Forms
    BY <1>1, KindIs
  <2>6. groups[g] = "unreadable"
    BY <2>4, <2>5, OnlyUnreadable
  <2> QED
    BY <2>6
<1>5. ASSUME NEW g \in 1 .. Len(groups) PROVE Missing(g) # {} <=> groups[g] = "unreadable"
  <2>1. groups[g] \in DOMAIN Forms
    BY <1>1, KindIs
  <2>2. CASE groups[g] = "unreadable"
    <3>1. MissedOf[groups[g]] = {2}
      BY <2>2, FormsAre DEF MissedOf
    <3>2. [group |-> g, stmt |-> 2] \in Missing(g)
      BY <3>1 DEF Missing
    <3> QED
      BY <2>2, <3>2
  <2>3. CASE groups[g] # "unreadable"
    <3>1. MissedOf[groups[g]] = {}
      BY <2>1, <2>3, FormsAre DEF MissedOf
    <3>2. Missing(g) = {}
      BY <3>1 DEF Missing
    <3> QED
      BY <2>3, <3>2
  <2> QED
    BY <2>2, <2>3
<1> QED
  BY <1>2, <1>3, <1>4, <1>5

\* A script from the binlog files and one from the store of a collector that
\* has read them to the end undo the same changes in the same order, or the
\* files are refused and the store has a miss: for any log of transactions
\* that are not compressed, rolled back or prepared.
THEOREM FilesAgreeAlways ==
    ASSUME NoCreate, MixedNaming = FALSE
    PROVE  Spec => []FilesAgree
<1>1. AllInv /\ MissesAreTrue => FilesAgree
  <2> DEFINE files == EventsFromFiles(log)
             stored == FlattenSeq([i \in DOMAIN txns |-> Changes(txns[i].rows)])
  <2> SUFFICES ASSUME AllInv, MissesAreTrue, CaughtUp, ToSet(groups) \cap Blind = {}
               PROVE  IF files.refused THEN misses # {}
                      ELSE misses = {} /\ RowChanges(files.changes) = RowChanges(stored)
    BY DEF FilesAgree
  <2>1. /\ LogInv /\ LogTypes /\ Placed /\ Ordered /\ groups \in Seq(Kinds)
        /\ Len(groups) \in Nat /\ Len(log) \in Nat /\ DOMAIN log = 1 .. Len(log)
    BY DEF AllInv, HandInv, StoreInv, LogInv, LogTypes
  <2>2. \A g \in 1 .. Len(groups) :
            groups[g] \in {"insert", "statements", "unwanted", "unreadable", "ddl", "session"}
    <3> TAKE g \in 1 .. Len(groups)
    <3>1. groups[g] \in ToSet(groups)
      BY <2>1 DEF ToSet
    <3>2. groups[g] \notin Blind
      BY <3>1
    <3>3. groups[g] \in Kinds /\ groups[g] \in DOMAIN Forms
      BY <2>1, KindIs
    <3> QED
      BY <3>2, <3>3, FormsAre DEF Blind, NoCreate
  <2>4. /\ FlattenSeq(Recorded) = KeptUpTo(Len(groups))
        /\ \A g \in 1 .. Len(groups) : Told(g) \subseteq misses
    BY StoredIsCommitted
  <2>5. /\ files.refused <=> \E g \in 1 .. Len(groups) : groups[g] = "unreadable"
        /\ \A g \in 1 .. Len(groups) : Missing(g) # {} <=> groups[g] = "unreadable"
    BY <2>1, <2>2, WhereItRefuses
  <2>6. CASE files.refused
    <3>1. misses # {}
      <4>1. PICK g \in 1 .. Len(groups) : groups[g] = "unreadable"
        BY <2>5, <2>6
      <4>2. Told(g) # {}
        BY <4>1 DEF Told, ToldOf
      <4> QED
        BY <2>4, <4>1, <4>2
    <3> QED
      BY <2>6, <3>1
  <2>7. CASE ~ files.refused
    <3>1. misses = {}
      BY <2>5, <2>7 DEF MissesAreTrue
    <3>2. AllPlain
      BY <2>2, <2>5, <2>7 DEF AllPlain, Plain
    <3>3. files.changes = Scanned(Len(log))
      BY <2>1, <2>7 DEF EventsFromFiles, NoFile, Scanned
    <3>4. stored = FlattenSeq(Recorded)
      BY DEF Recorded
    <3>5. RowChanges(Scanned(Len(log))) = RowChanges(KeptUpTo(Len(groups)))
      BY <2>1, <3>2, ScanIsCommitted
    <3>6. RowChanges(files.changes) = RowChanges(stored)
      BY <2>4, <3>3, <3>4, <3>5
    <3> QED
      BY <2>7, <3>1, <3>6
  <2> QED
    BY <2>6, <2>7
<1> QED
  BY <1>1, StoreInvariance, NoFalseMisses, PTL
=============================================================================
