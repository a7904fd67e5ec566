---------------------------- MODULE RevertProofs ----------------------------
(***************************************************************************)
(* A revert script takes a table back one change at a time, whatever the   *)
(* changes, the keys and the values, and however many there are.           *)
(***************************************************************************)
EXTENDS Revert, FiniteSetTheorems, SequenceTheorems, TLAPS

Cells == Keys \cup Values \cup {Null}

Tables == UNION {[ids -> Rows] : ids \in SUBSET Nat}

Event == [op : {"insert", "update", "delete"}, id : Nat,
          before : Rows \cup {Null}, after : Rows \cup {Null}]

----------------------------------------------------------------------------
(***************************************************************************)
(* Rows and tables                                                         *)
(***************************************************************************)
\* A row: a key, a datum and what is computed from it.
LEMMA RowIs ==
    ASSUME NEW r
    PROVE  r \in Rows <=> /\ r \in [Columns -> Cells]
                          /\ r["k"] \in Keys /\ r["v"] \in Values \cup {Null}
                          /\ r["g"] = r["v"]
<1>1. ASSUME r \in Rows
      PROVE  /\ r \in [Columns -> Cells]
             /\ r["k"] \in Keys /\ r["v"] \in Values \cup {Null} /\ r["g"] = r["v"]
  <2>1. PICK s \in [Columns -> Cells] :
            /\ s["k"] \in Keys /\ s["v"] \in Values \cup {Null}
            /\ r = Computed(s)
    BY <1>1 DEF Rows, Cells
  <2>2. r = [s EXCEPT !["g"] = s["v"]]
    BY <2>1 DEF Computed
  <2>3. s["v"] \in Cells /\ {"k", "v", "g"} = Columns
    BY <2>1 DEF Columns
  <2> QED
    BY <2>1, <2>2, <2>3
<1>2. ASSUME r \in [Columns -> Cells],
             r["k"] \in Keys, r["v"] \in Values \cup {Null}, r["g"] = r["v"]
      PROVE  r \in Rows
  <2>1. r = Computed(r)
    BY <1>2 DEF Computed, Columns
  <2> QED
    BY <1>2, <2>1 DEF Rows, Cells
<1> QED
  BY <1>1, <1>2

\* The key and the datum make a row what it is.
LEMMA SameRow ==
    ASSUME NEW r \in Rows, NEW s \in Rows, r["k"] = s["k"], r["v"] = s["v"]
    PROVE  r = s
<1>1. /\ r \in [Columns -> Cells] /\ s \in [Columns -> Cells]
      /\ r["g"] = r["v"] /\ s["g"] = s["v"]
  BY RowIs
<1> QED
  BY <1>1 DEF Columns

\* What a table holds.
LEMMA TableIs ==
    ASSUME NEW t
    PROVE  t \in Tables <=> /\ DOMAIN t \subseteq Nat
                            /\ t \in [DOMAIN t -> Rows]
BY DEF Tables

\* A row added or replaced.
LEMMA WithFields ==
    ASSUME table \in Tables, NEW id \in Nat, NEW row \in Rows
    PROVE  /\ With(id, row) \in Tables
           /\ DOMAIN With(id, row) = DOMAIN table \cup {id}
           /\ With(id, row)[id] = row
           /\ \A i \in DOMAIN table \ {id} : With(id, row)[i] = table[i]
BY TableIs DEF With

\* A row taken away.
LEMMA WithoutFields ==
    ASSUME table \in Tables, NEW id
    PROVE  /\ Without(id) \in Tables
           /\ DOMAIN Without(id) = DOMAIN table \ {id}
           /\ \A i \in DOMAIN table \ {id} : Without(id)[i] = table[i]
BY TableIs DEF Without

\* Restoring what an update changed, and no more.
LEMMA UpdateAssigns ==
    ASSUME NEW ev \in Event, ev.before \in Rows, ev.after \in Rows,
           Stmt = UpdateRow(ev), NEW row \in Rows
    PROVE  /\ "g" \notin DOMAIN Stmt.set
           /\ Assigned(row) \in Rows
           /\ Assigned(row)["k"] =
                 IF ev.before["k"] # ev.after["k"] THEN ev.before["k"] ELSE row["k"]
           /\ Assigned(row)["v"] =
                 IF ev.before["v"] # ev.after["v"] THEN ev.before["v"] ELSE row["v"]
<1> DEFINE changed == {d \in Columns \ ReadOnly : ev.before[d] # ev.after[d]}
           cells == [c \in Columns |-> IF c \in changed THEN ev.before[c] ELSE row[c]]
<1>1. Stmt.set = [c \in changed |-> ev.before[c]] /\ DOMAIN Stmt.set = changed
  BY DEF UpdateRow
<1>2. Assigned(row) = Computed(cells)
  BY <1>1 DEF Assigned
<1>3. /\ row \in [Columns -> Cells] /\ row["k"] \in Keys /\ row["v"] \in Values \cup {Null}
      /\ ev.before \in [Columns -> Cells]
      /\ ev.before["k"] \in Keys /\ ev.before["v"] \in Values \cup {Null}
  BY RowIs
<1>4. /\ cells \in [Columns -> Cells]
      /\ cells["k"] = IF ev.before["k"] # ev.after["k"] THEN ev.before["k"] ELSE row["k"]
      /\ cells["v"] = IF ev.before["v"] # ev.after["v"] THEN ev.before["v"] ELSE row["v"]
  BY <1>3 DEF Columns, ReadOnly
<1> HIDE DEF cells
<1>5. cells["v"] \in Cells /\ "g" \in Columns /\ "k" \in Columns /\ "v" \in Columns
  BY <1>3, <1>4 DEF Cells, Columns
<1>6. /\ Assigned(row) \in [Columns -> Cells]
      /\ Assigned(row)["k"] = cells["k"] /\ Assigned(row)["v"] = cells["v"]
      /\ Assigned(row)["g"] = cells["v"]
  BY <1>2, <1>4, <1>5 DEF Computed
<1>7. Assigned(row) \in Rows
  BY <1>3, <1>4, <1>6, RowIs
<1>8. "g" \notin DOMAIN Stmt.set
  BY <1>1 DEF ReadOnly
<1> QED
  BY <1>4, <1>6, <1>7, <1>8

\* Inserting again the row that was deleted.
LEMMA InsertAssigns ==
    ASSUME NEW ev \in Event, ev.before \in Rows, Stmt = InsertRow(ev)
    PROVE  "g" \notin DOMAIN Stmt.set /\ Assigned(Absent) = ev.before
<1> DEFINE kept == Columns \ ReadOnly
           cells == [c \in Columns |-> IF c \in kept THEN ev.before[c] ELSE Absent[c]]
<1>1. Stmt.set = [c \in kept |-> ev.before[c]] /\ DOMAIN Stmt.set = kept
  BY DEF InsertRow
<1>2. Assigned(Absent) = Computed(cells)
  BY <1>1 DEF Assigned
<1>3. /\ ev.before \in [Columns -> Cells] /\ ev.before["g"] = ev.before["v"]
  BY RowIs
<1>4. cells = [c \in Columns |-> IF c = "g" THEN Null ELSE ev.before[c]]
  BY DEF Columns, ReadOnly, Absent
<1>5. Computed(cells) = ev.before
  BY <1>3, <1>4 DEF Computed, Columns
<1> QED
  BY <1>1, <1>2, <1>5 DEF ReadOnly

----------------------------------------------------------------------------
(***************************************************************************)
(* The changes the server made                                             *)
(***************************************************************************)
\* An event takes one table to the next: one row added, replaced or taken away.
Effect(ev, t, u) ==
    /\ DOMAIN u \ {ev.id} = DOMAIN t \ {ev.id}
    /\ \A i \in DOMAIN t \ {ev.id} : u[i] = t[i]
    /\ ev.op = "insert" => /\ ev.id \notin DOMAIN t
                           /\ ev.id \in DOMAIN u /\ u[ev.id] = ev.after
    /\ ev.op = "update" => /\ ev.id \in DOMAIN t /\ t[ev.id] = ev.before
                           /\ ev.id \in DOMAIN u /\ u[ev.id] = ev.after
    /\ ev.op = "delete" => /\ ev.id \in DOMAIN t /\ t[ev.id] = ev.before
                           /\ ev.id \notin DOMAIN u

KeysUnique(t) ==
    keyed => \A i, j \in DOMAIN t : t[i]["k"] = t[j]["k"] => i = j

Logs ==
    /\ events \in Seq(Event) /\ past \in Seq(Tables)
    /\ Len(past) = Len(events) + 1 /\ Len(events) <= MaxEvents
    /\ \A m \in 1 .. Len(events) :
          /\ Effect(events[m], past[m], past[m + 1])
          /\ events[m].id \in 1 .. m
          /\ events[m].op = "insert" => events[m].id = m
    /\ \A b \in 1 .. Len(past) : KeysUnique(past[b]) /\ DOMAIN past[b] \subseteq 1 .. b - 1

\* A row deleted does not come back under its name.
NeverBack ==
    \A m \in 1 .. Len(events), b \in 1 .. Len(past) :
        m < b /\ events[m].op = "delete" => events[m].id \notin DOMAIN past[b]

\* A stretch of changes in which no update changes a datum.
DataLeft(a, b) ==
    \A m \in a .. b - 1 : events[m].op = "update" => events[m].before["v"] = events[m].after["v"]

\* A row has the same datum before and after it.
DatumKept ==
    \A a, b \in 1 .. Len(past) : a <= b /\ DataLeft(a, b) =>
        \A i \in DOMAIN past[a] \cap DOMAIN past[b] : past[a][i]["v"] = past[b][i]["v"]

HistoryOK == keyed \in BOOLEAN /\ Logs /\ NeverBack /\ DatumKept

\* One more change.
LEMMA LogStep ==
    ASSUME HistoryOK, table = past[Len(past)],
           NEW op \in {"insert", "update", "delete"}, NEW id \in 1 .. Len(events) + 1,
           NEW before \in Rows \cup {Null}, NEW after \in Rows \cup {Null},
           Log(op, id, before, after), table' \in Tables, KeysUnique(table'),
           DOMAIN table' \subseteq DOMAIN table \cup {id},
           Effect([op |-> op, id |-> id, before |-> before, after |-> after], table, table'),
           op = "insert" => id = Len(events) + 1
    PROVE  HistoryOK' /\ table' = past'[Len(past')]
<1> DEFINE n == Len(events)
           ev == [op |-> op, id |-> id, before |-> before, after |-> after]
<1>1. /\ events \in Seq(Event) /\ past \in Seq(Tables) /\ n \in Nat /\ Len(past) = n + 1
      /\ Logs /\ NeverBack /\ DatumKept /\ MaxEvents \in Nat
  BY RevertAssumption DEF HistoryOK, Logs
<1>2. ev \in Event /\ ev.id = id /\ ev.op = op /\ ev.before = before /\ ev.after = after
  BY <1>1 DEF Event
<1>3. /\ events' = Append(events, ev) /\ past' = Append(past, table') /\ keyed' = keyed
      /\ n < MaxEvents
  BY DEF Log
<1> HIDE DEF ev
<1>4. /\ events' \in Seq(Event) /\ Len(events') = n + 1 /\ events'[n + 1] = ev
      /\ \A m \in 1 .. n : events'[m] = events[m]
  BY <1>1, <1>2, <1>3
<1>5. /\ past' \in Seq(Tables) /\ Len(past') = n + 2 /\ past'[n + 2] = table'
      /\ \A b \in 1 .. n + 1 : past'[b] = past[b]
  BY <1>1, <1>3
<1>6. Effect(ev, past[n + 1], table')
  BY <1>1 DEF ev
<1>7. DOMAIN past[n + 1] \subseteq 1 .. n /\ DOMAIN table' \subseteq 1 .. n + 1
  <2>1. n + 1 \in 1 .. Len(past)
    BY <1>1
  <2>2. DOMAIN past[n + 1] \subseteq 1 .. (n + 1) - 1
    BY <1>1, <2>1 DEF Logs
  <2> QED
    BY <1>1, <2>2
<1> HIDE DEF n
<1>8. Logs'
  <2>1. ASSUME NEW m \in 1 .. n + 1
        PROVE  /\ Effect(events'[m], past'[m], past'[m + 1])
               /\ events'[m].id \in 1 .. m
               /\ events'[m].op = "insert" => events'[m].id = m
    <3>1. CASE m \in 1 .. n
      <4>1. m \in 1 .. n + 1 /\ m + 1 \in 1 .. n + 1
        BY <1>1, <3>1
      <4>2. events'[m] = events[m] /\ past'[m] = past[m] /\ past'[m + 1] = past[m + 1]
        BY <1>4, <1>5, <3>1, <4>1
      <4> QED
        BY <1>1, <3>1, <4>2 DEF Logs, n
    <3>2. CASE m = n + 1
      <4>1. events'[m] = ev /\ past'[m] = past[n + 1] /\ past'[m + 1] = table'
        BY <1>1, <1>4, <1>5, <3>2
      <4> QED
        BY <1>2, <1>6, <3>2, <4>1 DEF n
    <3> QED
      BY <1>1, <3>1, <3>2
  <2>2. ASSUME NEW b \in 1 .. n + 2
        PROVE  KeysUnique(past[b])' /\ DOMAIN past'[b] \subseteq 1 .. b - 1
    <3>1. CASE b \in 1 .. n + 1
      BY <1>1, <1>3, <1>5, <3>1 DEF Logs, KeysUnique
    <3>2. CASE b = n + 2
      BY <1>1, <1>3, <1>5, <1>7, <3>2 DEF KeysUnique
    <3> QED
      BY <1>1, <3>1, <3>2
  <2> QED
    BY <1>1, <1>3, <1>4, <1>5, <2>1, <2>2 DEF Logs
<1>9. NeverBack'
  <2> SUFFICES ASSUME NEW m \in 1 .. n + 1, NEW b \in 1 .. n + 2,
                      m < b, events'[m].op = "delete", events'[m].id \in DOMAIN past'[b]
               PROVE  FALSE
    BY <1>4, <1>5 DEF NeverBack
  <2>1. CASE m \in 1 .. n /\ b \in 1 .. n + 1
    BY <1>1, <1>4, <1>5, <2>1 DEF NeverBack, n
  <2>2. CASE m \in 1 .. n /\ b = n + 2
    <3>1. events[m].op = "delete" /\ events[m].id \in DOMAIN table'
      BY <1>4, <1>5, <2>2
    <3>2. events[m].id \in 1 .. m
      BY <1>1, <2>2 DEF Logs, n
    <3>3. n + 1 \in 1 .. Len(past) /\ m < n + 1
      BY <1>1, <2>2
    <3>4. events[m].id \notin DOMAIN past[n + 1]
      BY <1>1, <2>2, <3>1, <3>3 DEF NeverBack, n
    <3>5. events[m].id = id
      BY <1>2, <1>6, <3>1, <3>4 DEF Effect
    <3>6. op # "delete" /\ op # "update"
      BY <1>2, <1>6, <3>1, <3>4, <3>5 DEF Effect
    <3>7. id = n + 1
      BY <3>6 DEF n
    <3> QED
      BY <1>1, <2>2, <3>2, <3>5, <3>7
  <2>3. CASE m = n + 1 /\ b = n + 2
    BY <1>2, <1>4, <1>5, <1>6, <2>3 DEF Effect
  <2> QED
    BY <1>1, <2>1, <2>2, <2>3
<1>10. DatumKept'
  <2> SUFFICES ASSUME NEW a \in 1 .. n + 2, NEW b \in 1 .. n + 2, a <= b, DataLeft(a, b)',
                      NEW i \in DOMAIN past'[a], i \in DOMAIN past'[b]
               PROVE  past'[a][i]["v"] = past'[b][i]["v"]
    BY <1>5 DEF DatumKept
  <2>1. CASE b \in 1 .. n + 1
    <3>1. a \in 1 .. Len(past) /\ b \in 1 .. Len(past) /\ past'[a] = past[a] /\ past'[b] = past[b]
      BY <1>1, <1>5, <2>1
    <3>2. DataLeft(a, b)
      <4>1. \A m \in a .. b - 1 : events'[m] = events[m]
        BY <1>1, <1>4, <2>1
      <4> QED
        BY <4>1 DEF DataLeft
    <3> QED
      BY <1>1, <3>1, <3>2 DEF DatumKept
  <2>2. CASE a = n + 2
    BY <1>1, <2>2
  <2>3. CASE a \in 1 .. n + 1 /\ b = n + 2
    <3>1. past'[a] = past[a] /\ past'[b] = table' /\ n + 1 \in 1 .. Len(past) /\ a \in 1 .. Len(past)
      BY <1>1, <1>5, <2>3
    <3>2. DataLeft(a, n + 1)
      <4>1. \A m \in a .. (n + 1) - 1 : events'[m] = events[m] /\ m \in a .. b - 1
        BY <1>1, <1>4, <2>3
      <4> QED
        BY <4>1 DEF DataLeft
    <3>3. DOMAIN past[a] \subseteq 1 .. n
      <4>1. DOMAIN past[a] \subseteq 1 .. a - 1
        BY <1>1, <3>1 DEF Logs
      <4> QED
        BY <1>1, <2>3, <4>1
    <3>4. i # n + 1
      BY <1>1, <3>1, <3>3
    <3>5. i \in DOMAIN past[n + 1] /\ (i # id => table'[i] = past[n + 1][i])
      <4>1. CASE i # id
        BY <1>2, <1>6, <3>1, <4>1 DEF Effect
      <4>2. CASE i = id
        <5>1. op # "insert"
          BY <3>4, <4>2 DEF n
        <5>2. op # "delete"
          BY <1>2, <1>6, <3>1, <4>2 DEF Effect
        <5> QED
          BY <1>2, <1>6, <4>2, <5>1, <5>2 DEF Effect
      <4> QED
        BY <4>1, <4>2
    <3>6. past[a][i]["v"] = past[n + 1][i]["v"]
      BY <1>1, <2>3, <3>1, <3>2, <3>5 DEF DatumKept
    <3>7. past[n + 1][i]["v"] = table'[i]["v"]
      <4>1. CASE i # id
        BY <3>5, <4>1
      <4>2. CASE i = id
        <5>1. op = "update" /\ past[n + 1][i] = before /\ table'[i] = after
          <6>1. op # "insert"
            BY <3>4, <4>2 DEF n
          <6>2. op # "delete"
            BY <1>2, <1>6, <3>1, <4>2 DEF Effect
          <6> QED
            BY <1>2, <1>6, <4>2, <6>1, <6>2 DEF Effect
        <5>2. n + 1 \in a .. b - 1
          BY <1>1, <2>3
        <5>3. before["v"] = after["v"]
          BY <1>2, <1>4, <5>1, <5>2 DEF DataLeft
        <5> QED
          BY <5>1, <5>3
      <4> QED
        BY <4>1, <4>2
    <3> QED
      BY <3>1, <3>6, <3>7
  <2> QED
    BY <1>1, <2>1, <2>2, <2>3
<1> QED
  BY <1>3, <1>5, <1>8, <1>9, <1>10 DEF HistoryOK

\* Every change the server makes.
LEMMA ChangeStep ==
    ASSUME HistoryOK, table = past[Len(past)], Change
    PROVE  HistoryOK' /\ table' = past'[Len(past')]
<1>1. /\ Len(events) \in Nat /\ Len(past) = Len(events) + 1 /\ past \in Seq(Tables)
      /\ table \in Tables /\ KeysUnique(table) /\ DOMAIN table \subseteq 1 .. Len(events)
  <2>1. /\ Len(events) \in Nat /\ Len(past) = Len(events) + 1 /\ past \in Seq(Tables)
    BY DEF HistoryOK, Logs
  <2>2. Len(past) \in 1 .. Len(past)
    BY <2>1
  <2>3. KeysUnique(table) /\ DOMAIN table \subseteq 1 .. Len(past) - 1
    BY <2>2 DEF HistoryOK, Logs
  <2>4. table \in Tables
    BY <2>1, <2>2
  <2> QED
    BY <2>1, <2>3, <2>4
<1>2. \A row \in Rows : row["k"] \in Keys
  BY RowIs
<1>3. ASSUME NEW row \in Rows, Insert(row)
      PROVE  HistoryOK' /\ table' = past'[Len(past')]
  <2> DEFINE id == Len(events) + 1
  <2>1. /\ id \in Nat /\ id \in 1 .. Len(events) + 1 /\ id \notin DOMAIN table
        /\ Fits(id, row) /\ table' = With(id, row) /\ Log("insert", id, Null, row)
    BY <1>1, <1>3 DEF Insert
  <2> HIDE DEF id
  <2>2. /\ table' \in Tables /\ DOMAIN table' = DOMAIN table \cup {id} /\ table'[id] = row
        /\ \A i \in DOMAIN table \ {id} : table'[i] = table[i]
    <3>1. /\ With(id, row) \in Tables
          /\ DOMAIN With(id, row) = DOMAIN table \cup {id}
          /\ With(id, row)[id] = row
          /\ \A i \in DOMAIN table \ {id} : With(id, row)[i] = table[i]
      BY <1>1, <2>1, WithFields
    <3>2. DOMAIN table \cup {id} = DOMAIN table' /\ table' = With(id, row)
      BY <2>1, <3>1
    <3> QED
      BY <3>1, <3>2
  <2>3. KeysUnique(table')
    BY <1>1, <2>1, <2>2 DEF KeysUnique, Fits
  <2>4. Effect([op |-> "insert", id |-> id, before |-> Null, after |-> row], table, table')
    BY <2>1, <2>2 DEF Effect
  <2> QED
    BY <2>1, <2>2, <2>3, <2>4, LogStep DEF id
<1>4. ASSUME NEW id \in DOMAIN table, NEW row \in Rows, Update(id, row)
      PROVE  HistoryOK' /\ table' = past'[Len(past')]
  <2>1. /\ id \in Nat /\ id \in 1 .. Len(events) + 1 /\ Fits(id, row)
        /\ table' = With(id, row) /\ Log("update", id, table[id], row) /\ table[id] \in Rows
    BY <1>1, <1>4, TableIs DEF Update
  <2>2. /\ table' \in Tables /\ DOMAIN table' = DOMAIN table /\ table'[id] = row
        /\ \A i \in DOMAIN table \ {id} : table'[i] = table[i]
    <3>1. /\ With(id, row) \in Tables
          /\ DOMAIN With(id, row) = DOMAIN table \cup {id}
          /\ With(id, row)[id] = row
          /\ \A i \in DOMAIN table \ {id} : With(id, row)[i] = table[i]
      BY <1>1, <2>1, WithFields
    <3>2. DOMAIN table \cup {id} = DOMAIN table' /\ table' = With(id, row)
      BY <2>1, <3>1
    <3> QED
      BY <3>1, <3>2
  <2>3. KeysUnique(table')
    BY <1>1, <2>1, <2>2 DEF KeysUnique, Fits
  <2>4. Effect([op |-> "update", id |-> id, before |-> table[id], after |-> row], table, table')
    BY <2>1, <2>2 DEF Effect
  <2> QED
    BY <2>1, <2>2, <2>3, <2>4, LogStep
<1>5. ASSUME NEW id \in DOMAIN table, Delete(id)
      PROVE  HistoryOK' /\ table' = past'[Len(past')]
  <2>1. /\ id \in 1 .. Len(events) + 1 /\ table' = Without(id)
        /\ Log("delete", id, table[id], Null) /\ table[id] \in Rows
    BY <1>1, <1>5, TableIs DEF Delete
  <2>2. /\ table' \in Tables /\ DOMAIN table' = DOMAIN table \ {id}
        /\ \A i \in DOMAIN table \ {id} : table'[i] = table[i]
    BY <1>1, <2>1, WithoutFields
  <2>3. KeysUnique(table')
    BY <1>1, <2>2 DEF KeysUnique
  <2>4. Effect([op |-> "delete", id |-> id, before |-> table[id], after |-> Null], table, table')
    BY <2>1, <2>2 DEF Effect
  <2> QED
    BY <2>1, <2>2, <2>3, <2>4, LogStep
<1> QED
  BY <1>3, <1>4, <1>5 DEF Change

----------------------------------------------------------------------------
(***************************************************************************)
(* Tables that hold the same rows                                          *)
(***************************************************************************)
\* f pairs the rows of one with the equal ones of the other.
Pairs(f, t, u) ==
    /\ f \in [DOMAIN t -> DOMAIN u]
    /\ \A i, j \in DOMAIN t : f[i] = f[j] => i = j
    /\ \A j \in DOMAIN u : \E i \in DOMAIN t : f[i] = j
    /\ \A i \in DOMAIN t : t[i] = u[f[i]]

Same(t, u) == \E f : Pairs(f, t, u)

\* A table holds the same rows as itself.
LEMMA SameAsItself ==
    ASSUME NEW t
    PROVE  Same(t, t)
<1> DEFINE f == [i \in DOMAIN t |-> i]
<1>1. Pairs(f, t, t)
  BY DEF Pairs
<1> QED
  BY <1>1 DEF Same

\* Of equal rows any two may be paired.
LEMMA PairedWith ==
    ASSUME NEW t, NEW u, Same(t, u), NEW i \in DOMAIN t, NEW j \in DOMAIN u, t[i] = u[j]
    PROVE  \E g : Pairs(g, t, u) /\ g[i] = j
<1>1. PICK f : Pairs(f, t, u)
  BY DEF Same
<1> DEFINE g == [x \in DOMAIN t |-> IF x = i THEN j ELSE IF f[x] = j THEN f[i] ELSE f[x]]
<1>2. g \in [DOMAIN t -> DOMAIN u]
  BY <1>1 DEF Pairs
<1>3. \A x, y \in DOMAIN t : g[x] = g[y] => x = y
  BY <1>1 DEF Pairs
<1>4. \A y \in DOMAIN u : \E x \in DOMAIN t : g[x] = y
  <2> SUFFICES ASSUME NEW y \in DOMAIN u PROVE \E x \in DOMAIN t : g[x] = y
    OBVIOUS
  <2>1. CASE y = j
    BY <2>1
  <2>2. CASE y # j /\ y = f[i]
    <3>1. PICK x \in DOMAIN t : f[x] = j
      BY <1>1 DEF Pairs
    <3> QED
      BY <2>2, <3>1
  <2>3. CASE y # j /\ y # f[i]
    <3>1. PICK x \in DOMAIN t : f[x] = y
      BY <1>1 DEF Pairs
    <3> QED
      BY <2>3, <3>1
  <2> QED
    BY <2>1, <2>2, <2>3
<1>5. \A x \in DOMAIN t : t[x] = u[g[x]]
  BY <1>1 DEF Pairs
<1>6. Pairs(g, t, u) /\ g[i] = j
  <2> HIDE DEF g
  <2>1. g[i] = j
    BY DEF g
  <2> QED
    BY <1>2, <1>3, <1>4, <1>5, <2>1 DEF Pairs
<1> QED
  BY <1>6

\* They hold each row equally often.
LEMMA SameImages ==
    ASSUME NEW t, NEW u, Same(t, u), IsFiniteSet(DOMAIN t)
    PROVE  Images(t) = Images(u)
<1>1. PICK f : Pairs(f, t, u)
  BY DEF Same
<1> DEFINE rowsOf(x) == {x[id] : id \in DOMAIN x}
           named(x, row) == {id \in DOMAIN x : x[id] = row}
<1>2. rowsOf(t) = rowsOf(u)
  BY <1>1 DEF Pairs
<1>3. ASSUME NEW row
      PROVE  Cardinality(named(t, row)) = Cardinality(named(u, row))
  <2> DEFINE A == named(t, row)
             B == named(u, row)
             h == [i \in A |-> f[i]]
  <2>1. IsFiniteSet(A)
    BY FS_Subset
  <2>2. h \in [A -> B] /\ \A i, j \in A : h[i] = h[j] => i = j
    BY <1>1 DEF Pairs
  <2>3. \A j \in B : \E i \in A : h[i] = j
    BY <1>1 DEF Pairs
  <2> HIDE DEF A, B, h
  <2>4. h \in Bijection(A, B)
    BY <2>2, <2>3 DEF Bijection, Injection, Surjection, IsInjective
  <2>5. ExistsBijection(A, B)
    BY <2>4 DEF ExistsBijection
  <2> QED
    BY <2>1, <2>5, FS_Bijection DEF A, B
<1>4. /\ Images(t) = [row \in rowsOf(t) |-> Cardinality(named(t, row))]
      /\ Images(u) = [row \in rowsOf(u) |-> Cardinality(named(u, row))]
  BY DEF Images
<1> HIDE DEF rowsOf, named
<1> QED
  BY <1>2, <1>3, <1>4

----------------------------------------------------------------------------
(***************************************************************************)
(* The script                                                              *)
(***************************************************************************)
Undo(m) == [id |-> events[m].id, do |-> Statement(events[m])]

\* The script has brought the table back to before this event.
Here == first + Len(script)

\* What is left of the script undoes the events before it, newest first.
PlanOK ==
    /\ first \in 1 .. Len(events)
    /\ script \in Seq({Undo(m) : m \in 1 .. Len(events)})
    /\ Here <= Len(events) + 1
    /\ \A j \in 1 .. Len(script) : script[j] = Undo(Here - j)

\* The rows still to be brought back are not there.
ToComeBack ==
    \A m \in first .. Here - 1 : events[m].op = "delete" => events[m].id \notin DOMAIN table

TableOK ==
    /\ table \in Tables /\ KeysUnique(table)
    /\ writes \in Nat /\ DOMAIN table \subseteq 1 .. MaxEvents + writes
    /\ ToComeBack

\* The images an event has are rows.
LEMMA EffectImages ==
    ASSUME NEW ev \in Event, NEW t \in Tables, NEW u \in Tables, Effect(ev, t, u)
    PROVE  /\ ev.op = "insert" => ev.after \in Rows
           /\ ev.op = "update" => ev.before \in Rows /\ ev.after \in Rows
           /\ ev.op = "delete" => ev.before \in Rows
BY TableIs DEF Effect

\* The statement that is next undoes the event before the one undone last.
LEMMA NextUndo ==
    ASSUME HistoryOK, PlanOK, script # <<>>, NEW m, m = Here - 1
    PROVE  /\ m \in first .. Len(events) /\ first \in 1 .. Len(events) /\ Len(events) \in Nat
           /\ m \in 1 .. Len(events) /\ m \in 1 .. Len(past) /\ m + 1 \in 1 .. Len(past)
           /\ Here = m + 1 /\ script[1] = Undo(m) /\ Stmt = Statement(events[m])
           /\ events[m] \in Event /\ events[m].id \in 1 .. m
           /\ past[m] \in Tables /\ past[m + 1] \in Tables
           /\ Effect(events[m], past[m], past[m + 1])
           /\ KeysUnique(past[m]) /\ KeysUnique(past[m + 1])
<1>1. /\ Len(script) \in Nat /\ Len(script) # 0 /\ first \in Nat /\ Len(events) \in Nat
      /\ first \in 1 .. Len(events) /\ Here <= Len(events) + 1
      /\ events \in Seq(Event) /\ past \in Seq(Tables) /\ Len(past) = Len(events) + 1
  BY DEF HistoryOK, Logs, PlanOK
<1>2. /\ m \in first .. Len(events) /\ m \in 1 .. Len(events) /\ m \in 1 .. Len(past)
      /\ m + 1 \in 1 .. Len(past) /\ Here = m + 1 /\ 1 \in 1 .. Len(script)
  BY <1>1 DEF Here
<1>3. script[1] = Undo(m)
  BY <1>2 DEF PlanOK
<1>4. Stmt = Statement(events[m])
  BY <1>3 DEF Undo, Stmt
<1>5. events[m] \in Event /\ past[m] \in Tables /\ past[m + 1] \in Tables
  BY <1>1, <1>2
<1>6. /\ events[m].id \in 1 .. m /\ Effect(events[m], past[m], past[m + 1])
      /\ KeysUnique(past[m]) /\ KeysUnique(past[m + 1])
  BY <1>2 DEF HistoryOK, Logs
<1> QED
  BY <1>1, <1>2, <1>3, <1>4, <1>5, <1>6

\* A statement run leaves the others.
LEMMA PlanStep ==
    ASSUME HistoryOK, PlanOK, script # <<>>, script' = Tail(script),
           UNCHANGED <<keyed, events, past, first>>
    PROVE  PlanOK' /\ Here' = Here - 1
<1> DEFINE S == {Undo(m) : m \in 1 .. Len(events)}
<1>1. /\ script \in Seq(S) /\ Len(script) \in Nat /\ first \in Nat /\ Len(events) \in Nat
      /\ \A j \in 1 .. Len(script) : script[j] = Undo(Here - j)
  BY DEF HistoryOK, Logs, PlanOK
<1> HIDE DEF S
<1>2. /\ script' \in Seq(S) /\ Len(script') = Len(script) - 1
      /\ \A j \in 1 .. Len(script) - 1 : script'[j] = script[j + 1]
  <2>1. /\ Tail(script) \in Seq(S) /\ Len(Tail(script)) = Len(script) - 1
        /\ \A j \in 1 .. Len(Tail(script)) : Tail(script)[j] = script[j + 1]
    BY <1>1, HeadTailProperties
  <2> QED
    BY <2>1
<1>3. Here' = Here - 1 /\ Here \in Nat
  BY <1>1, <1>2 DEF Here
<1>4. \A ev : Statement(ev)' = Statement(ev)
  BY DEF Statement, DeleteRow, UpdateRow, InsertRow, WhereClause
<1>5. S' = S
  BY <1>4 DEF S, Undo
<1>6. ASSUME NEW j \in 1 .. Len(script')
      PROVE  script'[j] = Undo(Here - j)'
  <2>1. j \in 1 .. Len(script) - 1 /\ j + 1 \in 1 .. Len(script) /\ Here - (j + 1) = Here' - j
    BY <1>1, <1>2, <1>3
  <2>2. script'[j] = Undo(Here - (j + 1))
    BY <1>1, <1>2, <2>1
  <2> QED
    BY <1>4, <2>1, <2>2 DEF Undo
<1>7. (script \in Seq({Undo(m) : m \in 1 .. Len(events)}))'
  BY <1>2, <1>5 DEF S
<1>8. (Here <= Len(events) + 1)' /\ (first \in 1 .. Len(events))'
  BY <1>1, <1>3 DEF PlanOK
<1> QED
  BY <1>3, <1>6, <1>7, <1>8 DEF PlanOK

\* The script that is generated undoes the events of the window.
LEMMA PlanMade ==
    ASSUME HistoryOK, NEW from \in 1 .. Len(events), Generate(from)
    PROVE  PlanOK' /\ Here' = Len(events) + 1
<1> DEFINE n == Len(events)
           evs == SubSeq(events, from, n)
           len == n - from + 1
           S == {Undo(m) : m \in 1 .. n}
<1>1. /\ script' = Plan(evs) /\ first' = from /\ events' = events /\ keyed' = keyed
      /\ events \in Seq(Event) /\ n \in Nat
  BY DEF Generate, HistoryOK, Logs
<1>2. len \in Nat /\ len >= 1 /\ from \in Nat /\ from + len = n + 1
  BY <1>1
<1>3. Len(evs) = len /\ \A i \in 1 .. len : evs[i] = events[from + i - 1]
  <2>1. \A i \in from .. n : events[i] \in Event
    BY <1>1
  <2> HIDE DEF n
  <2>2. from \in Int /\ n \in Int /\ from <= n
    BY <1>1, <1>2
  <2>3. /\ Len(evs) = IF from <= n THEN n - from + 1 ELSE 0
        /\ \A i \in 1 .. n - from + 1 : evs[i] = events[from + i - 1]
    BY <2>1, <2>2, SubSeqProperties
  <2> QED
    BY <2>2, <2>3
<1>4. evs \in Seq(Event)
  <2>1. \A i \in from .. n : events[i] \in Event
    BY <1>1
  <2> HIDE DEF n
  <2> QED
    BY <1>1, <1>2, <2>1, SubSeqProperties
<1>5. DOMAIN evs = 1 .. len
  BY <1>3, <1>4
<1> HIDE DEF evs
<1>6. ASSUME NEW j \in 1 .. len
      PROVE  Plan(evs)[j] = Undo(n + 1 - j) /\ n + 1 - j \in 1 .. n
  <2>1. len + 1 - j \in 1 .. len /\ from + (len + 1 - j) - 1 = n + 1 - j /\ n + 1 - j \in 1 .. n
    BY <1>1, <1>2
  <2>2. evs[len + 1 - j] = events[n + 1 - j]
    BY <1>3, <2>1
  <2>3. Plan(evs)[j] = [id |-> evs[Len(evs) + 1 - j].id, do |-> Statement(evs[Len(evs) + 1 - j])]
    BY <1>5 DEF Plan
  <2> QED
    BY <1>3, <2>1, <2>2, <2>3 DEF Undo
<1>7. Plan(evs) = [j \in 1 .. len |-> Undo(n + 1 - j)]
  <2>1. Plan(evs) = [j \in 1 .. len |->
            [id |-> evs[Len(evs) + 1 - j].id, do |-> Statement(evs[Len(evs) + 1 - j])]]
    BY <1>5 DEF Plan
  <2>2. \A j \in 1 .. len : Undo(n + 1 - j) =
            [id |-> evs[Len(evs) + 1 - j].id, do |-> Statement(evs[Len(evs) + 1 - j])]
    BY <1>6, <2>1
  <2> QED
    BY <2>1, <2>2
<1> HIDE DEF n, len
<1>8. script' \in Seq(S) /\ Len(script') = len
  <2>1. \A j \in 1 .. len : Undo(n + 1 - j) \in S
    BY <1>6
  <2> HIDE DEF S
  <2> QED
    BY <1>1, <1>2, <1>7, <2>1
<1>9. \A ev : Statement(ev)' = Statement(ev)
  BY <1>1 DEF Statement, DeleteRow, UpdateRow, InsertRow, WhereClause
<1>10. S' = S
  BY <1>1, <1>9 DEF n, Undo
<1>11. Here' = n + 1
  BY <1>1, <1>2, <1>8 DEF Here
<1>12. ASSUME NEW j \in 1 .. Len(script')
       PROVE  script'[j] = Undo(Here - j)'
  <2>1. script'[j] = Undo(n + 1 - j)
    BY <1>1, <1>6, <1>8
  <2> QED
    BY <1>1, <1>9, <1>11, <2>1 DEF Undo
<1>13. (script \in Seq({Undo(m) : m \in 1 .. Len(events)}))'
  BY <1>8, <1>10 DEF S, n
<1>14. (Here <= Len(events) + 1)' /\ (first \in 1 .. Len(events))'
  BY <1>1, <1>11 DEF n
<1> QED
  BY <1>11, <1>12, <1>13, <1>14 DEF PlanOK, n

\* The statement for each kind of event.
LEMMA StatementFor ==
    ASSUME NEW ev \in Event
    PROVE  /\ ev.op = "insert" => Statement(ev) = DeleteRow(ev)
           /\ ev.op = "update" => Statement(ev) = UpdateRow(ev)
           /\ ev.op = "delete" => Statement(ev) = InsertRow(ev)
           /\ Statement(ev).verb = "delete" <=> ev.op = "insert"
           /\ Statement(ev).verb = "update" <=> ev.op = "update"
           /\ Statement(ev).verb = "insert" <=> ev.op = "delete"
<1>1. ev.op \in {"insert", "update", "delete"}
  BY DEF Event
<1> QED
  BY <1>1 DEF Statement, DeleteRow, UpdateRow, InsertRow

\* By its key, a statement finds the rows that have it.
LEMMA FoundByKey ==
    ASSUME keyed = TRUE, NEW row, Stmt.where = WhereClause(row)
    PROVE  Matching = {id \in DOMAIN table : table[id]["k"] = row["k"]}
<1>1. Stmt.where = [c \in {"k"} |-> row[c]]
  BY DEF WhereClause
<1> QED
  BY <1>1 DEF Matching

\* A statement finds the row its event left, or one that equals it.
LEMMA FoundAreEqual ==
    ASSUME keyed \in BOOLEAN, table \in Tables, NEW u \in Tables, KeysUnique(u), Same(table, u),
           NEW j \in DOMAIN u, Stmt.where = WhereClause(u[j])
    PROVE  Matching # {} /\ \A id \in Matching : id \in DOMAIN table /\ table[id] = u[j]
<1>1. PICK f : Pairs(f, table, u)
  BY DEF Same
<1>2. PICK i \in DOMAIN table : f[i] = j /\ table[i] = u[j]
  BY <1>1 DEF Pairs
<1>3. u[j] \in Rows /\ \A id \in DOMAIN table : table[id] \in Rows
  BY TableIs
<1>4. CASE keyed = TRUE
  <2>1. Matching = {id \in DOMAIN table : table[id]["k"] = u[j]["k"]}
    BY <1>4, FoundByKey
  <2>2. ASSUME NEW id \in DOMAIN table, table[id]["k"] = u[j]["k"]
        PROVE  table[id] = u[j]
    <3>1. f[id] \in DOMAIN u /\ table[id] = u[f[id]]
      BY <1>1 DEF Pairs
    <3>2. f[id] = j
      BY <1>4, <2>2, <3>1 DEF KeysUnique
    <3> QED
      BY <3>1, <3>2
  <2> QED
    BY <1>2, <2>1, <2>2
<1>5. CASE keyed = FALSE
  <2>1. Stmt.where = [c \in Columns |-> u[j][c]]
    BY <1>5 DEF WhereClause
  <2>2. Matching = {id \in DOMAIN table : \A c \in Columns : table[id][c] = u[j][c]}
    BY <2>1 DEF Matching
  <2>3. ASSUME NEW id \in DOMAIN table, \A c \in Columns : table[id][c] = u[j][c]
        PROVE  table[id] = u[j]
    <3>1. table[id]["k"] = u[j]["k"] /\ table[id]["v"] = u[j]["v"]
      BY <2>3 DEF Columns
    <3> QED
      BY <1>3, <3>1, SameRow
  <2> QED
    BY <1>2, <2>2, <2>3
<1> QED
  BY <1>4, <1>5

\* A row inserted is taken away, or one that equals it.
LEMMA InsertUndone ==
    ASSUME NEW t, NEW p, NEW u, NEW ev, Effect(ev, p, u), ev.op = "insert", Same(t, u),
           NEW id \in DOMAIN t, t[id] = ev.after,
           NEW s, DOMAIN s = DOMAIN t \ {id}, \A i \in DOMAIN t \ {id} : s[i] = t[i]
    PROVE  Same(s, p)
<1>1. /\ ev.id \in DOMAIN u /\ u[ev.id] = t[id] /\ DOMAIN p = DOMAIN u \ {ev.id}
      /\ \A i \in DOMAIN p : u[i] = p[i]
  BY DEF Effect
<1>2. PICK g : Pairs(g, t, u) /\ g[id] = ev.id
  BY <1>1, PairedWith
<1> DEFINE h == [i \in DOMAIN s |-> g[i]]
<1>3. Pairs(h, s, p)
  BY <1>1, <1>2 DEF Pairs
<1> QED
  BY <1>3 DEF Same

\* A row updated is put back, or one that equals it.
LEMMA UpdateUndone ==
    ASSUME NEW t, NEW p, NEW u, NEW ev, Effect(ev, p, u), ev.op = "update", Same(t, u),
           NEW id \in DOMAIN t, t[id] = ev.after,
           NEW s, DOMAIN s = DOMAIN t, \A i \in DOMAIN t \ {id} : s[i] = t[i], s[id] = ev.before
    PROVE  Same(s, p)
<1>1. /\ ev.id \in DOMAIN u /\ u[ev.id] = t[id] /\ DOMAIN p = DOMAIN u
      /\ \A i \in DOMAIN p \ {ev.id} : u[i] = p[i]
      /\ p[ev.id] = ev.before
  BY DEF Effect
<1>2. PICK g : Pairs(g, t, u) /\ g[id] = ev.id
  BY <1>1, PairedWith
<1>3. ASSUME NEW i \in DOMAIN s PROVE s[i] = p[g[i]]
  <2>1. CASE i = id
    BY <1>1, <1>2, <2>1
  <2>2. CASE i # id
    <3>1. g[i] # ev.id /\ g[i] \in DOMAIN p /\ t[i] = u[g[i]]
      BY <1>1, <1>2, <2>2 DEF Pairs
    <3> QED
      BY <1>1, <2>2, <3>1
  <2> QED
    BY <2>1, <2>2
<1>4. Pairs(g, s, p)
  BY <1>1, <1>2, <1>3 DEF Pairs
<1> QED
  BY <1>4 DEF Same

\* A row deleted is back.
LEMMA DeleteUndone ==
    ASSUME NEW t, NEW p, NEW u, NEW ev, Effect(ev, p, u), ev.op = "delete", Same(t, u),
           ev.id \notin DOMAIN t,
           NEW s, DOMAIN s = DOMAIN t \cup {ev.id},
           \A i \in DOMAIN t \ {ev.id} : s[i] = t[i], s[ev.id] = ev.before
    PROVE  Same(s, p)
<1>1. /\ ev.id \notin DOMAIN u /\ DOMAIN p = DOMAIN u \cup {ev.id}
      /\ \A i \in DOMAIN u : u[i] = p[i]
      /\ p[ev.id] = ev.before
  BY DEF Effect
<1>2. PICK g : Pairs(g, t, u)
  BY DEF Same
<1> DEFINE h == [i \in DOMAIN s |-> IF i = ev.id THEN ev.id ELSE g[i]]
<1>3. h \in [DOMAIN s -> DOMAIN p]
  BY <1>1, <1>2 DEF Pairs
<1>4. \A i, j \in DOMAIN s : h[i] = h[j] => i = j
  BY <1>1, <1>2 DEF Pairs
<1>5. \A j \in DOMAIN p : \E i \in DOMAIN s : h[i] = j
  <2> SUFFICES ASSUME NEW j \in DOMAIN p PROVE \E i \in DOMAIN s : h[i] = j
    OBVIOUS
  <2>1. CASE j = ev.id
    BY <2>1
  <2>2. CASE j # ev.id
    <3>1. PICK i \in DOMAIN t : g[i] = j
      BY <1>1, <1>2, <2>2 DEF Pairs
    <3> QED
      BY <3>1
  <2> QED
    BY <2>1, <2>2
<1>6. \A i \in DOMAIN s : s[i] = p[h[i]]
  BY <1>1, <1>2 DEF Pairs
<1>7. Pairs(h, s, p)
  <2> HIDE DEF h
  <2> QED
    BY <1>3, <1>4, <1>5, <1>6 DEF Pairs
<1> QED
  BY <1>7 DEF Same

\* With nobody else writing, a statement is not rejected and undoes its event.
LEMMA StatementUndoes ==
    ASSUME HistoryOK, PlanOK, TableOK, script # <<>>, RunStatement,
           Same(table, past[Here])
    PROVE  pc' = "running" /\ Same(table', past[Here - 1])
<1> DEFINE m == Here - 1
           ev == events[m]
           p == past[m]
           u == past[Here]
<1>0. m = Here - 1 /\ pc = "running"
  BY DEF RunStatement
<1> HIDE DEF m
<1>1. /\ Here = m + 1 /\ Stmt = Statement(ev) /\ script[1] = Undo(m)
      /\ ev \in Event /\ ev.id \in 1 .. m /\ m \in first .. Len(events) /\ m \in Nat
      /\ p \in Tables /\ u \in Tables /\ Effect(ev, p, u) /\ KeysUnique(p) /\ KeysUnique(u)
  BY <1>0, NextUndo
<1>2. /\ keyed \in BOOLEAN /\ table \in Tables /\ KeysUnique(table) /\ ToComeBack
      /\ Same(table, u)
  BY DEF HistoryOK, TableOK
<1> HIDE DEF ev, p, u
<1>3. CASE ev.op = "insert"
  <2>1. /\ Stmt = DeleteRow(ev) /\ Stmt.verb = "delete" /\ Stmt.where = WhereClause(ev.after)
        /\ ev.id \in DOMAIN u /\ u[ev.id] = ev.after
    BY <1>1, <1>3, StatementFor DEF DeleteRow, Effect
  <2>2. Matching # {} /\ \A id \in Matching : id \in DOMAIN table /\ table[id] = ev.after
    BY <1>1, <1>2, <2>1, FoundAreEqual
  <2>3. PICK id \in DOMAIN table : RunDelete(id)
    BY <2>1, <2>2 DEF RunStatement, RunUpdate, RunInsert, MatchesNothing, Rejected
  <2>4. pc' = pc /\ table' = Without(id) /\ table[id] = ev.after
    BY <2>2, <2>3 DEF RunDelete, Next1
  <2>5. DOMAIN table' = DOMAIN table \ {id} /\ \A i \in DOMAIN table \ {id} : table'[i] = table[i]
    BY <1>2, <2>4, WithoutFields
  <2>6. Same(table', p)
    <3> DEFINE left == table'
    <3>1. /\ Effect(ev, p, u) /\ ev.op = "insert" /\ Same(table, u)
          /\ id \in DOMAIN table /\ table[id] = ev.after
      BY <1>1, <1>2, <1>3, <2>3, <2>4
    <3>2. DOMAIN left = DOMAIN table \ {id} /\ \A i \in DOMAIN table \ {id} : left[i] = table[i]
      BY <2>5
    <3> HIDE DEF left
    <3>3. Same(left, p)
      BY <3>1, <3>2, InsertUndone
    <3> QED
      BY <3>3 DEF left
  <2> QED
    BY <1>0, <2>4, <2>6 DEF p
<1>4. CASE ev.op = "update"
  <2>1. /\ Stmt = UpdateRow(ev) /\ Stmt.verb = "update" /\ Stmt.where = WhereClause(ev.after)
        /\ ev.id \in DOMAIN u /\ u[ev.id] = ev.after /\ ev.id \in DOMAIN p /\ p[ev.id] = ev.before
    <3>1. Stmt = UpdateRow(ev)
      BY <1>1, <1>4, StatementFor
    <3>2. Stmt.verb = "update" /\ Stmt.where = WhereClause(ev.after)
      BY <3>1 DEF UpdateRow
    <3> QED
      BY <1>1, <1>4, <3>1, <3>2 DEF Effect
  <2>2. ev.before \in Rows /\ ev.after \in Rows
    BY <1>1, <1>4, EffectImages
  <2>3. Matching # {} /\ \A id \in Matching : id \in DOMAIN table /\ table[id] = ev.after
    BY <1>1, <1>2, <2>1, FoundAreEqual
  <2>4. "g" \notin DOMAIN Stmt.set /\ Assigned(ev.after) = ev.before
    <3>1. /\ "g" \notin DOMAIN Stmt.set /\ Assigned(ev.after) \in Rows
          /\ Assigned(ev.after)["k"] = ev.before["k"] /\ Assigned(ev.after)["v"] = ev.before["v"]
      BY <1>1, <2>1, <2>2, UpdateAssigns
    <3> QED
      BY <2>2, <3>1, SameRow
  <2>5. ASSUME NEW id \in Matching PROVE Assigns(id)
    <3>1. id \in DOMAIN table /\ table[id] = ev.after
      BY <2>3
    <3>2. PICK g : Pairs(g, table, u) /\ g[id] = ev.id
      BY <1>2, <2>1, <3>1, PairedWith
    <3>3. ASSUME keyed, NEW i \in DOMAIN table \ {id} PROVE table[i]["k"] # ev.before["k"]
      <4>1. g[i] # ev.id /\ g[i] \in DOMAIN u /\ table[i] = u[g[i]]
        BY <3>1, <3>2 DEF Pairs
      <4>2. g[i] \in DOMAIN p /\ u[g[i]] = p[g[i]]
        BY <1>1, <4>1 DEF Effect
      <4> QED
        BY <1>1, <2>1, <3>3, <4>1, <4>2 DEF KeysUnique
    <3> QED
      BY <2>4, <3>1, <3>3 DEF Assigns, Fits
  <2>6. PICK id \in DOMAIN table : RunUpdate(id)
    BY <2>1, <2>3, <2>5 DEF RunStatement, RunDelete, RunInsert, MatchesNothing, Rejected
  <2>7. pc' = pc /\ table' = With(id, ev.before) /\ table[id] = ev.after
    BY <2>3, <2>4, <2>6 DEF RunUpdate, Next1
  <2>8. /\ DOMAIN table' = DOMAIN table /\ table'[id] = ev.before
        /\ \A i \in DOMAIN table \ {id} : table'[i] = table[i]
    <3>1. id \in Nat
      BY <1>2, TableIs
    <3>2. /\ DOMAIN With(id, ev.before) = DOMAIN table \cup {id}
          /\ With(id, ev.before)[id] = ev.before
          /\ \A i \in DOMAIN table \ {id} : With(id, ev.before)[i] = table[i]
      BY <1>2, <2>2, <3>1, WithFields
    <3> QED
      BY <2>7, <3>2
  <2>9. Same(table', p)
    BY <1>1, <1>2, <1>4, <2>7, <2>8, UpdateUndone
  <2> QED
    BY <1>0, <2>7, <2>9 DEF p
<1>5. CASE ev.op = "delete"
  <2>1. /\ Stmt = InsertRow(ev) /\ Stmt.verb = "insert" /\ script[1].id = ev.id
        /\ ev.id \in DOMAIN p /\ p[ev.id] = ev.before /\ ev.id \notin DOMAIN u
    BY <1>1, <1>5, StatementFor DEF Effect, Undo, ev
  <2>2. ev.before \in Rows
    BY <1>1, <1>5, EffectImages
  <2>3. "g" \notin DOMAIN Stmt.set /\ Assigned(Absent) = ev.before
    BY <1>1, <2>1, <2>2, InsertAssigns
  <2>4. ev.id \notin DOMAIN table
    BY <1>0, <1>1, <1>2, <1>5 DEF ToComeBack, ev
  <2>5. Inserts
    <3>1. PICK g : Pairs(g, table, u)
      BY <1>2 DEF Same
    <3>2. ASSUME keyed, NEW i \in DOMAIN table \ {ev.id} PROVE table[i]["k"] # ev.before["k"]
      <4>1. g[i] # ev.id /\ g[i] \in DOMAIN u /\ table[i] = u[g[i]]
        BY <2>1, <3>1 DEF Pairs
      <4>2. g[i] \in DOMAIN p /\ u[g[i]] = p[g[i]]
        BY <1>1, <4>1 DEF Effect
      <4> QED
        BY <1>1, <2>1, <3>2, <4>1, <4>2 DEF KeysUnique
    <3> QED
      BY <2>1, <2>3, <3>2 DEF Inserts, Fits
  <2>6. RunInsert
    BY <2>1, <2>5 DEF RunStatement, RunDelete, RunUpdate, MatchesNothing, Rejected
  <2>7. pc' = pc /\ table' = With(ev.id, ev.before)
    BY <2>1, <2>3, <2>6 DEF RunInsert, Next1
  <2>8. /\ DOMAIN table' = DOMAIN table \cup {ev.id} /\ table'[ev.id] = ev.before
        /\ \A i \in DOMAIN table \ {ev.id} : table'[i] = table[i]
    <3>1. /\ DOMAIN With(ev.id, ev.before) = DOMAIN table \cup {ev.id}
          /\ With(ev.id, ev.before)[ev.id] = ev.before
          /\ \A i \in DOMAIN table \ {ev.id} : With(ev.id, ev.before)[i] = table[i]
      <4>1. ev.id \in Nat
        BY <1>1
      <4> QED
        BY <1>2, <2>2, <4>1, WithFields
    <3> QED
      BY <2>7, <3>1
  <2>9. Same(table', p)
    BY <1>1, <1>2, <1>5, <2>4, <2>8, DeleteUndone
  <2> QED
    BY <1>0, <2>7, <2>9 DEF p
<1>6. ev.op \in {"insert", "update", "delete"}
  BY <1>1 DEF Event
<1> QED
  BY <1>3, <1>4, <1>5, <1>6

\* A statement run leaves a table, with its keys unique, and without the rows
\* still to be brought back.
LEMMA TableStep ==
    ASSUME HistoryOK, PlanOK, TableOK, script # <<>>, RunStatement, pc' = "running"
    PROVE  TableOK' /\ PlanOK' /\ Here' = Here - 1
<1> DEFINE m == Here - 1
           ev == events[m]
<1>0. m = Here - 1
  OBVIOUS
<1> HIDE DEF m
<1>1. /\ Here = m + 1 /\ Stmt = Statement(ev) /\ script[1] = Undo(m)
      /\ ev \in Event /\ ev.id \in 1 .. m /\ m \in first .. Len(events) /\ m \in 1 .. Len(events)
      /\ first \in 1 .. Len(events) /\ m \in 1 .. Len(past)
      /\ past[m] \in Tables /\ past[m + 1] \in Tables /\ Effect(ev, past[m], past[m + 1])
      /\ Len(events) \in Nat
  BY <1>0, NextUndo
<1>2. /\ table \in Tables /\ KeysUnique(table) /\ writes \in Nat /\ MaxEvents \in Nat
      /\ DOMAIN table \subseteq 1 .. MaxEvents + writes /\ ToComeBack
      /\ NeverBack /\ Len(events) <= MaxEvents
  BY RevertAssumption DEF TableOK, HistoryOK, Logs
<1>3. /\ Next1 /\ pc # "stopped"
      /\ UNCHANGED <<keyed, events, past, first, writes>> /\ script' = Tail(script)
  <2>1. Next1
    BY DEF RunStatement, RunDelete, RunUpdate, RunInsert, MatchesNothing, Rejected
  <2> QED
    BY <2>1 DEF Next1, RunStatement
<1>4. PlanOK' /\ Here' = m
  BY <1>0, <1>3, PlanStep
<1>5. ASSUME DOMAIN table' \subseteq DOMAIN table, table' \in Tables, KeysUnique(table)'
      PROVE  TableOK'
  <2>1. ToComeBack'
    BY <1>1, <1>2, <1>3, <1>4, <1>5 DEF ToComeBack
  <2> QED
    BY <1>2, <1>3, <1>5, <2>1 DEF TableOK
<1> HIDE DEF ev
<1>6. ASSUME NEW id \in DOMAIN table, RunDelete(id) PROVE TableOK'
  <2>1. table' = Without(id)
    BY <1>6 DEF RunDelete
  <2>2. /\ table' \in Tables /\ DOMAIN table' = DOMAIN table \ {id}
        /\ \A i \in DOMAIN table \ {id} : table'[i] = table[i]
    BY <1>2, <2>1, WithoutFields
  <2>3. KeysUnique(table)'
    BY <1>2, <1>3, <2>2 DEF KeysUnique
  <2> QED
    BY <1>5, <2>2, <2>3
<1>7. ASSUME NEW id \in DOMAIN table, RunUpdate(id) PROVE TableOK'
  <2> DEFINE row == Assigned(table[id])
  <2>1. table' = With(id, row) /\ Fits(id, row) /\ Stmt.verb = "update"
    BY <1>7 DEF RunUpdate, Assigns
  <2>2. row \in Rows /\ id \in Nat
    <3>1. ev.op = "update" /\ Stmt = UpdateRow(ev)
      BY <1>1, <2>1, StatementFor
    <3>2. ev.before \in Rows /\ ev.after \in Rows
      BY <1>1, <3>1, EffectImages
    <3>3. table[id] \in Rows /\ id \in Nat
      BY <1>2, <1>7, TableIs
    <3> QED
      BY <1>1, <3>1, <3>2, <3>3, UpdateAssigns
  <2> HIDE DEF row
  <2>3. /\ table' \in Tables /\ DOMAIN table' = DOMAIN table /\ table'[id] = row
        /\ \A i \in DOMAIN table \ {id} : table'[i] = table[i]
    <3>1. /\ With(id, row) \in Tables /\ DOMAIN With(id, row) = DOMAIN table \cup {id}
          /\ With(id, row)[id] = row
          /\ \A i \in DOMAIN table \ {id} : With(id, row)[i] = table[i]
      BY <1>2, <2>2, WithFields
    <3> QED
      BY <1>7, <2>1, <3>1
  <2>4. KeysUnique(table)'
    BY <1>2, <1>3, <2>1, <2>3 DEF KeysUnique, Fits
  <2> QED
    BY <1>5, <2>3, <2>4
<1>8. CASE RunInsert
  <2> DEFINE row == Assigned(Absent)
  <2>1. /\ table' = With(ev.id, row) /\ Fits(ev.id, row) /\ Stmt.verb = "insert"
    BY <1>1, <1>8 DEF RunInsert, Inserts, Undo, ev
  <2>2. ev.op = "delete" /\ row \in Rows /\ ev.id \in Nat
    <3>1. ev.op = "delete" /\ Stmt = InsertRow(ev)
      BY <1>1, <2>1, StatementFor
    <3>2. ev.before \in Rows
      BY <1>1, <3>1, EffectImages
    <3>3. row = ev.before
      BY <1>1, <3>1, <3>2, InsertAssigns
    <3> QED
      BY <1>1, <3>1, <3>2, <3>3
  <2> HIDE DEF row
  <2>3. /\ table' \in Tables /\ DOMAIN table' = DOMAIN table \cup {ev.id} /\ table'[ev.id] = row
        /\ \A i \in DOMAIN table \ {ev.id} : table'[i] = table[i]
    <3>1. /\ With(ev.id, row) \in Tables /\ DOMAIN With(ev.id, row) = DOMAIN table \cup {ev.id}
          /\ With(ev.id, row)[ev.id] = row
          /\ \A i \in DOMAIN table \ {ev.id} : With(ev.id, row)[i] = table[i]
      BY <1>2, <2>2, WithFields
    <3> QED
      BY <2>1, <3>1
  <2>4. KeysUnique(table)'
    BY <1>2, <1>3, <2>1, <2>3 DEF KeysUnique, Fits
  <2>5. ev.id \in 1 .. MaxEvents + writes
    BY <1>1, <1>2
  <2>6. ToComeBack'
    <3> SUFFICES ASSUME NEW k \in first .. m - 1, events[k].op = "delete"
                 PROVE  events[k].id \notin DOMAIN table'
      BY <1>3, <1>4 DEF ToComeBack
    <3>1. k \in first .. Here - 1 /\ k \in 1 .. Len(events) /\ k < m
      BY <1>1
    <3>2. events[k].id \notin DOMAIN table
      BY <1>2, <3>1 DEF ToComeBack
    <3>3. events[k].id \notin DOMAIN past[m]
      BY <1>1, <1>2, <3>1 DEF NeverBack
    <3>4. ev.id \in DOMAIN past[m]
      BY <1>1, <2>2 DEF Effect
    <3> QED
      BY <2>3, <3>2, <3>3, <3>4
  <2> QED
    BY <1>0, <1>2, <1>3, <1>4, <2>3, <2>4, <2>5, <2>6 DEF TableOK
<1>9. CASE MatchesNothing
  BY <1>0, <1>2, <1>3, <1>4, <1>5, <1>9 DEF MatchesNothing, KeysUnique
<1>10. ~ Rejected
  BY DEF Rejected
<1> QED
  BY <1>0, <1>4, <1>6, <1>7, <1>8, <1>9, <1>10 DEF RunStatement

\* What another session writes is a row of the same key.
LEMMA RewrittenIs ==
    ASSUME NEW row \in Rows, NEW value \in Values \cup {Null}
    PROVE  /\ Rewritten(row, value) \in Rows
           /\ Rewritten(row, value)["k"] = row["k"] /\ Rewritten(row, value)["v"] = value
<1> DEFINE cells == [row EXCEPT !["v"] = value]
<1>1. row \in [Columns -> Cells] /\ row["k"] \in Keys /\ value \in Cells
  BY RowIs DEF Cells
<1>2. cells \in [Columns -> Cells] /\ cells["k"] = row["k"] /\ cells["v"] = value
  BY <1>1 DEF Columns
<1> HIDE DEF cells
<1>3. /\ Computed(cells) \in [Columns -> Cells] /\ Computed(cells)["k"] = row["k"]
      /\ Computed(cells)["v"] = value /\ Computed(cells)["g"] = value
  BY <1>1, <1>2 DEF Computed, Columns
<1>4. Rewritten(row, value) = Computed(cells)
  BY DEF Rewritten, cells
<1> QED
  BY <1>1, <1>3, <1>4, RowIs

\* Another session leaves a table with its keys unique, without the rows still
\* to be brought back.
LEMMA OthersStep ==
    ASSUME HistoryOK, PlanOK, TableOK,
           \/ \E id \in DOMAIN table, value \in Values \cup {Null} : OtherWrites(id, value)
           \/ \E row \in Rows : OtherInserts(row)
    PROVE  TableOK' /\ PlanOK' /\ Here' = Here /\ writes' = writes + 1 /\ pc' = pc
<1>1. /\ table \in Tables /\ KeysUnique(table) /\ writes \in Nat /\ MaxEvents \in Nat
      /\ DOMAIN table \subseteq 1 .. MaxEvents + writes /\ ToComeBack
      /\ Len(events) \in Nat /\ Len(events) <= MaxEvents /\ first \in 1 .. Len(events)
      /\ Here <= Len(events) + 1 /\ Len(script) \in Nat
  BY RevertAssumption DEF TableOK, HistoryOK, Logs, PlanOK
<1>2. /\ UNCHANGED <<keyed, events, past, pc, script, first>> /\ writes' = writes + 1
  BY DEF OtherWrites, OtherInserts
<1>3. PlanOK' /\ Here' = Here
  <2>1. Here' = Here
    BY <1>2 DEF Here
  <2>2. \A ev : Statement(ev)' = Statement(ev)
    BY <1>2 DEF Statement, DeleteRow, UpdateRow, InsertRow, WhereClause
  <2> QED
    BY <1>2, <2>1, <2>2 DEF PlanOK, Undo
<1>4. ASSUME NEW id \in DOMAIN table, NEW value \in Values \cup {Null}, OtherWrites(id, value)
      PROVE  TableOK'
  <2> DEFINE row == Rewritten(table[id], value)
  <2>1. table' = With(id, row) /\ id \in Nat /\ row \in Rows /\ row["k"] = table[id]["k"]
    BY <1>1, <1>4, TableIs, RewrittenIs DEF OtherWrites
  <2> HIDE DEF row
  <2>2. /\ table' \in Tables /\ DOMAIN table' = DOMAIN table /\ table'[id] = row
        /\ \A i \in DOMAIN table \ {id} : table'[i] = table[i]
    <3>1. /\ With(id, row) \in Tables /\ DOMAIN With(id, row) = DOMAIN table \cup {id}
          /\ With(id, row)[id] = row
          /\ \A i \in DOMAIN table \ {id} : With(id, row)[i] = table[i]
      BY <1>1, <2>1, WithFields
    <3> QED
      BY <1>4, <2>1, <3>1
  <2>3. \A i \in DOMAIN table : table'[i]["k"] = table[i]["k"]
    BY <2>1, <2>2
  <2>4. KeysUnique(table)'
    BY <1>1, <1>2, <2>2, <2>3 DEF KeysUnique
  <2>5. ToComeBack'
    BY <1>1, <1>2, <1>3, <2>2 DEF ToComeBack
  <2> QED
    BY <1>1, <1>2, <2>2, <2>4, <2>5 DEF TableOK
<1>5. ASSUME NEW row \in Rows, OtherInserts(row)
      PROVE  TableOK'
  <2> DEFINE id == MaxEvents + writes + 1
  <2>1. table' = With(id, row) /\ id \in Nat /\ Fits(id, row) /\ id \notin DOMAIN table
    BY <1>1, <1>5 DEF OtherInserts
  <2>2. \A k \in 1 .. Len(events) : events[k].id # id
    <3>1. \A k \in 1 .. Len(events) : events[k].id \in 1 .. k
      BY DEF HistoryOK, Logs
    <3> QED
      BY <1>1, <3>1
  <2>3. id \in 1 .. MaxEvents + writes'
    BY <1>1, <1>2
  <2> HIDE DEF id
  <2>4. /\ table' \in Tables /\ DOMAIN table' = DOMAIN table \cup {id} /\ table'[id] = row
        /\ \A i \in DOMAIN table \ {id} : table'[i] = table[i]
    <3>1. /\ With(id, row) \in Tables /\ DOMAIN With(id, row) = DOMAIN table \cup {id}
          /\ With(id, row)[id] = row
          /\ \A i \in DOMAIN table \ {id} : With(id, row)[i] = table[i]
      BY <1>1, <2>1, WithFields
    <3> QED
      BY <2>1, <3>1
  <2>5. KeysUnique(table)'
    BY <1>1, <1>2, <2>1, <2>4 DEF KeysUnique, Fits
  <2>6. ToComeBack'
    <3>1. \A k \in first .. Here - 1 : k \in 1 .. Len(events)
      BY <1>1 DEF Here
    <3> QED
      BY <1>1, <1>2, <1>3, <2>2, <2>4, <3>1 DEF ToComeBack
  <2> QED
    BY <1>1, <1>2, <2>3, <2>4, <2>5, <2>6 DEF TableOK
<1> QED
  BY <1>2, <1>3, <1>4, <1>5

----------------------------------------------------------------------------
(***************************************************************************)
(* What other sessions wrote                                               *)
(***************************************************************************)
\* The rows they added.
Others == DOMAIN expected \ (1 .. MaxEvents)

\* Of a table with a key, what the script has brought it back to and what is
\* expected in the end differ in what is still to be undone: the rows there
\* are and their keys, but not the data other sessions may write.
SurviveOK ==
    /\ expected \in Tables
    /\ DOMAIN table = DOMAIN past[Here] \cup Others
    /\ DOMAIN expected = DOMAIN past[first] \cup Others
    /\ \A i \in Others : table[i] = expected[i]
    /\ \A i \in DOMAIN past[Here] : table[i]["k"] = past[Here][i]["k"]
    /\ \A i \in DOMAIN past[first] : expected[i]["k"] = past[first][i]["k"]
    /\ \A i \in DOMAIN past[first] \ DOMAIN past[Here] : expected[i]["v"] = past[first][i]["v"]
    /\ Unrelated => \A i \in DOMAIN past[first] \cap DOMAIN past[Here] :
                        table[i]["v"] = expected[i]["v"]
    /\ ~ Unrelated => /\ \A i \in DOMAIN past[Here] : table[i]["v"] = past[Here][i]["v"]
                      /\ \A i \in DOMAIN past[first] : expected[i]["v"] = past[first][i]["v"]

\* The rows of the server's history have names of their own.
LEMMA NamesApart ==
    ASSUME HistoryOK, PlanOK, TableOK
    PROVE  /\ \A i \in DOMAIN past[Here] : i \in 1 .. MaxEvents /\ i \notin Others
           /\ \A i \in DOMAIN past[first] : i \in 1 .. first - 1 /\ i \in 1 .. MaxEvents /\ i \notin Others
           /\ past[Here] \in Tables /\ past[first] \in Tables
<1>1. /\ Len(events) \in Nat /\ Len(events) <= MaxEvents /\ Len(past) = Len(events) + 1
      /\ first \in 1 .. Len(events) /\ Here <= Len(events) + 1 /\ Len(script) \in Nat
      /\ past \in Seq(Tables) /\ writes \in Nat /\ MaxEvents \in Nat
      /\ \A b \in 1 .. Len(past) : DOMAIN past[b] \subseteq 1 .. b - 1
  BY RevertAssumption DEF HistoryOK, Logs, PlanOK, TableOK
<1>2. Here \in 1 .. Len(past) /\ first \in 1 .. Len(past)
  BY <1>1 DEF Here
<1>3. DOMAIN past[Here] \subseteq 1 .. Here - 1 /\ DOMAIN past[first] \subseteq 1 .. first - 1
  BY <1>1, <1>2
<1> QED
  BY <1>1, <1>2, <1>3 DEF Others

\* A statement of the script finds the row its event left and no other.
LEMMA SurviveStep ==
    ASSUME HistoryOK, PlanOK, TableOK, SurviveOK, keyed = TRUE,
           script # <<>>, RunStatement, pc' = "running"
    PROVE  SurviveOK'
<1> DEFINE m == Here - 1
           ev == events[m]
           u == past[Here]
           p == past[m]
           a == past[first]
<1>0. m = Here - 1
  OBVIOUS
<1> HIDE DEF m
<1>1. /\ Here = m + 1 /\ Stmt = Statement(ev) /\ script[1] = Undo(m)
      /\ ev \in Event /\ ev.id \in 1 .. m /\ m \in first .. Len(events) /\ m \in Nat
      /\ m \in 1 .. Len(past) /\ first \in 1 .. Len(past) /\ first <= m /\ first \in Nat
      /\ p \in Tables /\ u \in Tables /\ Effect(ev, p, u) /\ KeysUnique(u)
  <2>1. /\ Here = m + 1 /\ Stmt = Statement(events[m]) /\ script[1] = Undo(m)
        /\ events[m] \in Event /\ events[m].id \in 1 .. m /\ m \in first .. Len(events)
        /\ m \in 1 .. Len(past) /\ m \in 1 .. Len(events)
        /\ past[m] \in Tables /\ past[m + 1] \in Tables /\ KeysUnique(past[m + 1])
        /\ Effect(events[m], past[m], past[m + 1]) /\ first \in 1 .. Len(events)
    BY <1>0, NextUndo
  <2>2. Len(past) = Len(events) + 1 /\ Len(events) \in Nat
    BY DEF HistoryOK, Logs
  <2> QED
    BY <2>1, <2>2
<1>2. Here' = m /\ TableOK'
  BY <1>0, TableStep
<1>3. /\ UNCHANGED <<keyed, events, past, first, writes, expected>>
  BY DEF RunStatement, RunDelete, RunUpdate, RunInsert, MatchesNothing, Rejected, Next1
<1>4. /\ table \in Tables /\ KeysUnique(table) /\ ToComeBack /\ DatumKept /\ events \in Seq(Event)
      /\ DOMAIN table = DOMAIN u \cup Others /\ DOMAIN expected = DOMAIN a \cup Others
      /\ \A i \in Others : table[i] = expected[i]
      /\ \A i \in DOMAIN u : table[i]["k"] = u[i]["k"]
      /\ \A i \in DOMAIN a : expected[i]["k"] = a[i]["k"]
      /\ \A i \in DOMAIN a \ DOMAIN u : expected[i]["v"] = a[i]["v"]
      /\ Unrelated => \A i \in DOMAIN a \cap DOMAIN u : table[i]["v"] = expected[i]["v"]
      /\ ~ Unrelated => /\ \A i \in DOMAIN u : table[i]["v"] = u[i]["v"]
                        /\ \A i \in DOMAIN a : expected[i]["v"] = a[i]["v"]
  BY DEF HistoryOK, Logs, TableOK, SurviveOK
<1>5. /\ \A i \in DOMAIN u : i \notin Others
      /\ \A i \in DOMAIN a : i \in 1 .. first - 1 /\ i \notin Others
  BY NamesApart
<1>6. /\ past[Here]' = p /\ past[first]' = a /\ Others' = Others /\ (Unrelated' <=> Unrelated)
      /\ expected' = expected /\ expected \in Tables
  BY <1>2, <1>3 DEF Others, Unrelated, SurviveOK
\* It is enough that the table is what it was but for the row of the event.
<1>7. ASSUME DOMAIN table' = DOMAIN p \cup Others,
             \A i \in Others : table'[i] = expected[i],
             \A i \in DOMAIN p : table'[i]["k"] = p[i]["k"],
             \A i \in DOMAIN a \ DOMAIN p : expected[i]["v"] = a[i]["v"],
             Unrelated => \A i \in DOMAIN a \cap DOMAIN p : table'[i]["v"] = expected[i]["v"],
             ~ Unrelated => \A i \in DOMAIN p : table'[i]["v"] = p[i]["v"]
      PROVE  SurviveOK'
  BY <1>4, <1>6, <1>7 DEF SurviveOK
<1> HIDE DEF ev, p, u, a
<1>8. ASSUME NEW j \in DOMAIN u, u[j]["k"] = table[j]["k"],
             Matching = {id \in DOMAIN table : table[id]["k"] = u[j]["k"]}
      PROVE  Matching = {j}
  BY <1>4, <1>8 DEF KeysUnique
<1>9. CASE ev.op = "insert"
  <2>1. /\ Stmt = DeleteRow(ev) /\ Stmt.verb = "delete" /\ Stmt.where = WhereClause(ev.after)
        /\ ev.id \in DOMAIN u /\ u[ev.id] = ev.after /\ ev.id \notin DOMAIN p
        /\ DOMAIN p = DOMAIN u \ {ev.id} /\ \A i \in DOMAIN p : u[i] = p[i]
    <3>1. Stmt = DeleteRow(ev)
      BY <1>1, <1>9, StatementFor
    <3>2. Stmt.verb = "delete" /\ Stmt.where = WhereClause(ev.after)
      BY <3>1 DEF DeleteRow
    <3> QED
      BY <1>1, <1>9, <3>1, <3>2 DEF Effect
  <2>2. Matching = {ev.id}
    BY <1>4, <1>8, <2>1, FoundByKey
  <2>3. RunDelete(ev.id)
    BY <2>1, <2>2 DEF RunStatement, RunDelete, RunUpdate, RunInsert, MatchesNothing, Rejected
  <2>4. /\ DOMAIN table' = DOMAIN table \ {ev.id}
        /\ \A i \in DOMAIN table \ {ev.id} : table'[i] = table[i]
    BY <1>4, <2>3, WithoutFields DEF RunDelete
  <2>5. ev.id \notin DOMAIN a
    <3>1. ev.id = m
      <4>1. m \in 1 .. Len(events)
        BY <1>1, NextUndo, <1>0
      <4> QED
        BY <1>9, <4>1 DEF HistoryOK, Logs, ev
    <3> QED
      BY <1>1, <1>5, <3>1
  <2> QED
    BY <1>4, <1>5, <1>7, <2>1, <2>4, <2>5
<1>10. CASE ev.op = "update"
  <2>1. /\ ev.id \in DOMAIN u /\ u[ev.id] = ev.after /\ ev.id \in DOMAIN p /\ p[ev.id] = ev.before
        /\ DOMAIN p = DOMAIN u /\ \A i \in DOMAIN p \ {ev.id} : u[i] = p[i]
    BY <1>1, <1>10 DEF Effect
  <2>2. Stmt = UpdateRow(ev) /\ ev.before \in Rows /\ ev.after \in Rows
    BY <1>1, <1>10, StatementFor, EffectImages
  <2>3. Stmt.verb = "update" /\ Stmt.where = WhereClause(ev.after)
    BY <2>2 DEF UpdateRow
  <2>4. Matching = {ev.id}
    BY <1>4, <1>8, <2>1, <2>3, FoundByKey
  <2>5. RunUpdate(ev.id)
    BY <2>3, <2>4 DEF RunStatement, RunDelete, RunUpdate, RunInsert, MatchesNothing, Rejected
  <2> DEFINE row == Assigned(table[ev.id])
  <2>6. ev.id \in Nat /\ ev.id \in DOMAIN table /\ table[ev.id] \in Rows
    BY <1>1, <1>4, <2>1, TableIs
  <2>7. /\ row \in Rows
        /\ row["k"] = IF ev.before["k"] # ev.after["k"] THEN ev.before["k"] ELSE table[ev.id]["k"]
        /\ row["v"] = IF ev.before["v"] # ev.after["v"] THEN ev.before["v"] ELSE table[ev.id]["v"]
    BY <1>1, <2>2, <2>6, UpdateAssigns
  <2>8. table' = With(ev.id, row)
    BY <2>5 DEF RunUpdate
  <2> HIDE DEF row
  <2>9. /\ DOMAIN table' = DOMAIN table /\ table'[ev.id] = row
        /\ \A i \in DOMAIN table \ {ev.id} : table'[i] = table[i]
    <3>1. /\ DOMAIN With(ev.id, row) = DOMAIN table \cup {ev.id}
          /\ With(ev.id, row)[ev.id] = row
          /\ \A i \in DOMAIN table \ {ev.id} : With(ev.id, row)[i] = table[i]
      BY <1>4, <2>6, <2>7, WithFields
    <3> QED
      BY <2>6, <2>8, <3>1
  <2>10. row["k"] = p[ev.id]["k"]
    BY <1>4, <2>1, <2>7
  <2>11. Unrelated => row["v"] = table[ev.id]["v"]
    BY <1>1, <1>10, <2>7 DEF Unrelated, ev
  <2>12. ~ Unrelated => row["v"] = p[ev.id]["v"]
    BY <1>4, <2>1, <2>7
  <2>13. \A i \in Others : table'[i] = expected[i]
    BY <1>4, <1>5, <2>1, <2>9
  <2>14. \A i \in DOMAIN p : table'[i]["k"] = p[i]["k"]
    BY <1>4, <2>1, <2>9, <2>10
  <2>15. Unrelated => \A i \in DOMAIN a \cap DOMAIN p : table'[i]["v"] = expected[i]["v"]
    BY <1>4, <2>1, <2>9, <2>11
  <2>16. ~ Unrelated => \A i \in DOMAIN p : table'[i]["v"] = p[i]["v"]
    BY <1>4, <2>1, <2>9, <2>12
  <2> QED
    BY <1>4, <1>7, <2>1, <2>9, <2>13, <2>14, <2>15, <2>16
<1>11. CASE ev.op = "delete"
  <2>1. /\ ev.id \in DOMAIN p /\ p[ev.id] = ev.before /\ ev.id \notin DOMAIN u
        /\ DOMAIN p = DOMAIN u \cup {ev.id} /\ \A i \in DOMAIN u : u[i] = p[i]
        /\ ev.before \in Rows
    BY <1>1, <1>11, EffectImages DEF Effect
  <2>2. Stmt = InsertRow(ev) /\ Stmt.verb = "insert" /\ script[1].id = ev.id /\ ev.id \in Nat
    BY <1>1, <1>11, StatementFor DEF Undo, ev
  <2>3. RunInsert
    BY <2>2 DEF RunStatement, RunDelete, RunUpdate, RunInsert, MatchesNothing, Rejected
  <2>4. Assigned(Absent) = ev.before
    BY <1>1, <2>1, <2>2, InsertAssigns
  <2>5. table' = With(ev.id, ev.before)
    BY <2>2, <2>3, <2>4 DEF RunInsert
  <2>6. /\ DOMAIN table' = DOMAIN table \cup {ev.id} /\ table'[ev.id] = ev.before
        /\ \A i \in DOMAIN table \ {ev.id} : table'[i] = table[i]
    <3>1. /\ DOMAIN With(ev.id, ev.before) = DOMAIN table \cup {ev.id}
          /\ With(ev.id, ev.before)[ev.id] = ev.before
          /\ \A i \in DOMAIN table \ {ev.id} : With(ev.id, ev.before)[i] = table[i]
      BY <1>4, <2>1, <2>2, WithFields
    <3> QED
      BY <2>5, <3>1
  <2>7. ev.id \notin DOMAIN table
    BY <1>1, <1>4, <1>11 DEF ToComeBack, ev
  <2>8. Unrelated /\ ev.id \in DOMAIN a => ev.before["v"] = expected[ev.id]["v"]
    <3> SUFFICES ASSUME Unrelated, ev.id \in DOMAIN a
                 PROVE  ev.before["v"] = expected[ev.id]["v"]
      OBVIOUS
    <3>1. DataLeft(first, m)
      BY <1>1 DEF Unrelated, DataLeft
    <3>2. a[ev.id]["v"] = p[ev.id]["v"]
      BY <1>1, <1>4, <2>1, <3>1 DEF DatumKept, a, p
    <3> QED
      BY <1>4, <2>1, <3>2
  <2>9. \A i \in Others : table'[i] = expected[i]
    BY <1>4, <2>6, <2>7
  <2>10. \A i \in DOMAIN p : table'[i]["k"] = p[i]["k"]
    BY <1>4, <2>1, <2>6, <2>7
  <2>11. Unrelated => \A i \in DOMAIN a \cap DOMAIN p : table'[i]["v"] = expected[i]["v"]
    BY <1>4, <2>1, <2>6, <2>7, <2>8
  <2>12. ~ Unrelated => \A i \in DOMAIN p : table'[i]["v"] = p[i]["v"]
    BY <1>4, <2>1, <2>6, <2>7
  <2> QED
    BY <1>4, <1>7, <2>1, <2>6, <2>9, <2>10, <2>11, <2>12
<1>12. ev.op \in {"insert", "update", "delete"}
  BY <1>1 DEF Event
<1> QED
  BY <1>9, <1>10, <1>11, <1>12

\* What another session writes, the table and what is expected of it both get.
LEMMA OthersSurvive ==
    ASSUME HistoryOK, PlanOK, TableOK, SurviveOK,
           \/ \E id \in DOMAIN table, value \in Values \cup {Null} : OtherWrites(id, value)
           \/ \E row \in Rows : OtherInserts(row)
    PROVE  SurviveOK'
<1> DEFINE u == past[Here]
           a == past[first]
<1>1. /\ table \in Tables /\ expected \in Tables /\ writes \in Nat /\ MaxEvents \in Nat
      /\ DOMAIN table = DOMAIN u \cup Others /\ DOMAIN expected = DOMAIN a \cup Others
      /\ DOMAIN table \subseteq 1 .. MaxEvents + writes
      /\ \A i \in Others : table[i] = expected[i]
      /\ \A i \in DOMAIN u : table[i]["k"] = u[i]["k"]
      /\ \A i \in DOMAIN a : expected[i]["k"] = a[i]["k"]
      /\ \A i \in DOMAIN a \ DOMAIN u : expected[i]["v"] = a[i]["v"]
      /\ Unrelated => \A i \in DOMAIN a \cap DOMAIN u : table[i]["v"] = expected[i]["v"]
      /\ ~ Unrelated => /\ \A i \in DOMAIN u : table[i]["v"] = u[i]["v"]
                        /\ \A i \in DOMAIN a : expected[i]["v"] = a[i]["v"]
  BY RevertAssumption DEF TableOK, SurviveOK
<1>2. /\ \A i \in DOMAIN u : i \in 1 .. MaxEvents /\ i \notin Others
      /\ \A i \in DOMAIN a : i \in 1 .. MaxEvents /\ i \notin Others
  BY NamesApart
<1>3. /\ Here' = Here
      /\ UNCHANGED <<keyed, events, past, first>> /\ (Unrelated' <=> Unrelated)
  <2>1. UNCHANGED <<keyed, events, past, first>>
    BY DEF OtherWrites, OtherInserts
  <2> QED
    BY <2>1, OthersStep DEF Unrelated
<1>4. past[Here]' = u /\ past[first]' = a
  BY <1>3
<1> HIDE DEF u, a
<1>5. ASSUME NEW id \in DOMAIN table, NEW value \in Values \cup {Null}, OtherWrites(id, value)
      PROVE  SurviveOK'
  <2> DEFINE row == Rewritten(table[id], value)
             row2 == Rewritten(expected[id], value)
  <2>1. /\ table' = With(id, row) /\ id \in Nat /\ row \in Rows /\ row["k"] = table[id]["k"]
        /\ row["v"] = value /\ Unrelated
    BY <1>1, <1>5, TableIs, RewrittenIs DEF OtherWrites
  <2>2. id \in DOMAIN expected =>
            /\ row2 \in Rows /\ row2["k"] = expected[id]["k"] /\ row2["v"] = value
    BY <1>1, TableIs, RewrittenIs
  <2>3. expected' = IF id \in DOMAIN expected THEN [expected EXCEPT ![id] = row2] ELSE expected
    BY <1>5 DEF OtherWrites
  <2>4. id \in Others => row2 = row
    BY <1>1
  <2> HIDE DEF row, row2
  <2>5. /\ DOMAIN table' = DOMAIN table /\ table'[id] = row
        /\ \A i \in DOMAIN table \ {id} : table'[i] = table[i]
    <3>1. /\ DOMAIN With(id, row) = DOMAIN table \cup {id}
          /\ With(id, row)[id] = row
          /\ \A i \in DOMAIN table \ {id} : With(id, row)[i] = table[i]
      BY <1>1, <2>1, WithFields
    <3> QED
      BY <1>5, <2>1, <3>1
  <2>6. /\ expected' \in Tables /\ DOMAIN expected' = DOMAIN expected
        /\ \A i \in DOMAIN expected \ {id} : expected'[i] = expected[i]
        /\ id \in DOMAIN expected => expected'[id] = row2
    <3>1. DOMAIN expected \subseteq Nat /\ expected \in [DOMAIN expected -> Rows]
      BY <1>1, TableIs
    <3>2. CASE id \in DOMAIN expected
      <4>1. expected' = [expected EXCEPT ![id] = row2] /\ row2 \in Rows
        BY <2>2, <2>3, <3>2
      <4>2. DOMAIN expected' = DOMAIN expected /\ expected' \in [DOMAIN expected -> Rows]
        BY <3>1, <4>1
      <4> QED
        BY <3>1, <3>2, <4>1, <4>2, TableIs
    <3>3. CASE id \notin DOMAIN expected
      BY <1>1, <2>3, <3>3
    <3> QED
      BY <3>2, <3>3
  <2>7. Others' = Others
    BY <2>6 DEF Others
  <2>8. \A i \in Others : table'[i] = expected'[i]
    BY <1>1, <2>4, <2>5, <2>6
  <2>9. \A i \in DOMAIN u : table'[i]["k"] = u[i]["k"]
    BY <1>1, <2>1, <2>5
  <2>10. \A i \in DOMAIN a : expected'[i]["k"] = a[i]["k"]
    BY <1>1, <2>2, <2>6
  <2>11. \A i \in DOMAIN a \ DOMAIN u : expected'[i]["v"] = a[i]["v"]
    <3>1. \A i \in DOMAIN a \ DOMAIN u : i # id
      BY <1>1, <1>2
    <3> QED
      BY <1>1, <2>6, <3>1
  <2>12. \A i \in DOMAIN a \cap DOMAIN u : table'[i]["v"] = expected'[i]["v"]
    BY <1>1, <2>1, <2>2, <2>5, <2>6
  <2> QED
    BY <1>1, <1>3, <1>4, <2>1, <2>5, <2>6, <2>7, <2>8, <2>9, <2>10, <2>11, <2>12 DEF SurviveOK
<1>6. ASSUME NEW row \in Rows, OtherInserts(row)
      PROVE  SurviveOK'
  <2> DEFINE id == MaxEvents + writes + 1
  <2>1. /\ table' = With(id, row) /\ id \in Nat /\ id \notin 1 .. MaxEvents /\ id \notin DOMAIN table
        /\ expected' = [i \in DOMAIN expected \cup {id} |-> IF i = id THEN row ELSE expected[i]]
    BY <1>1, <1>6 DEF OtherInserts
  <2> HIDE DEF id
  <2>2. /\ DOMAIN table' = DOMAIN table \cup {id} /\ table'[id] = row
        /\ \A i \in DOMAIN table : table'[i] = table[i]
    <3>1. /\ DOMAIN With(id, row) = DOMAIN table \cup {id}
          /\ With(id, row)[id] = row
          /\ \A i \in DOMAIN table \ {id} : With(id, row)[i] = table[i]
      BY <1>1, <2>1, WithFields
    <3> QED
      BY <2>1, <3>1
  <2>3. id \notin DOMAIN expected /\ id \notin DOMAIN u /\ id \notin DOMAIN a
    BY <1>1, <1>2, <2>1
  <2>4. /\ expected' \in Tables /\ DOMAIN expected' = DOMAIN expected \cup {id}
        /\ \A i \in DOMAIN expected : expected'[i] = expected[i]
        /\ expected'[id] = row
    <3>1. DOMAIN expected \subseteq Nat /\ expected \in [DOMAIN expected -> Rows]
      BY <1>1, TableIs
    <3>2. DOMAIN expected' = DOMAIN expected \cup {id} /\ DOMAIN expected' \subseteq Nat
      BY <2>1, <3>1
    <3>3. expected' \in [DOMAIN expected' -> Rows]
      BY <2>1, <3>1, <3>2
    <3>4. expected' \in Tables
      BY <3>2, <3>3, TableIs
    <3> QED
      BY <2>1, <2>3, <3>2, <3>4
  <2>5. Others' = Others \cup {id}
    BY <2>1, <2>4 DEF Others
  <2>6. \A i \in Others' : table'[i] = expected'[i]
    BY <1>1, <2>2, <2>4, <2>5
  <2> QED
    BY <1>1, <1>3, <1>4, <2>2, <2>3, <2>4, <2>5, <2>6 DEF SurviveOK
<1> QED
  BY <1>5, <1>6

----------------------------------------------------------------------------
(***************************************************************************)
(* The invariant                                                           *)
(***************************************************************************)
RunInv ==
    /\ PlanOK /\ TableOK
    /\ writes = 0 => Same(table, past[Here])
    /\ keyed = TRUE => SurviveOK

RevertInv ==
    /\ HistoryOK
    /\ pc \in {"logging", "running", "stopped"}
    /\ pc = "logging" => table = past[Len(past)] /\ writes = 0
    /\ pc = "running" => RunInv
    /\ pc = "stopped" => writes \in Nat /\ writes > 0

\* No change is made yet.
LEMMA RevertInit == Init => RevertInv
<1> SUFFICES ASSUME Init PROVE RevertInv
  OBVIOUS
<1>1. <<>> \in Tables /\ DOMAIN <<>> = {}
  <2>1. DOMAIN <<>> = {} /\ <<>> \in [{} -> Rows]
    OBVIOUS
  <2> QED
    BY <2>1 DEF Tables
<1>2. /\ keyed \in BOOLEAN /\ events = <<>> /\ past = <<table>> /\ table = <<>>
      /\ pc = "logging" /\ writes = 0
  BY RevertAssumption DEF Init
<1>3. past \in Seq(Tables) /\ Len(past) = 1 /\ past[1] = <<>>
  BY <1>1, <1>2
<1>4. events \in Seq(Event) /\ Len(events) = 0
  BY <1>2
<1>5. Logs
  BY <1>1, <1>3, <1>4, RevertAssumption DEF Logs, KeysUnique
<1>6. NeverBack
  BY <1>4 DEF NeverBack
<1>7. DatumKept
  BY <1>1, <1>3 DEF DatumKept
<1> QED
  BY <1>2, <1>3, <1>5, <1>6, <1>7 DEF RevertInv, HistoryOK

\* The history is as good as before where it does not change.
LEMMA HistoryKept ==
    ASSUME HistoryOK, UNCHANGED <<keyed, events, past>>
    PROVE  HistoryOK'
<1>1. Logs'
  <2>1. \A m \in 1 .. Len(events) : Effect(events[m], past[m], past[m + 1])'
    BY DEF HistoryOK, Logs, Effect
  <2>2. \A b \in 1 .. Len(past) : KeysUnique(past[b])'
    BY DEF HistoryOK, Logs, KeysUnique
  <2> QED
    BY <2>1, <2>2 DEF HistoryOK, Logs
<1>2. NeverBack'
  BY DEF HistoryOK, NeverBack
<1>3. DatumKept'
  BY DEF HistoryOK, DatumKept, DataLeft
<1> QED
  BY <1>1, <1>2, <1>3 DEF HistoryOK

\* What is expected of a script is the table before the window.
LEMMA RunBegins ==
    ASSUME RevertInv, NEW from \in 1 .. Len(events), Generate(from)
    PROVE  RunInv'
<1>1. /\ HistoryOK /\ Len(events) \in Nat /\ Len(past) = Len(events) + 1
      /\ past \in Seq(Tables) /\ MaxEvents \in Nat /\ Len(events) <= MaxEvents
  BY RevertAssumption DEF RevertInv, HistoryOK, Logs
<1>2. /\ table = past[Len(past)] /\ writes = 0 /\ first' = from /\ expected' = past[from]
      /\ UNCHANGED <<keyed, table, events, past, writes>>
  BY DEF Generate, RevertInv
<1>3. PlanOK' /\ Here' = Len(past)
  BY <1>1, PlanMade
<1>4. Len(past) \in 1 .. Len(past) /\ from \in 1 .. Len(past)
  BY <1>1
<1>5. /\ table \in Tables /\ KeysUnique(table) /\ DOMAIN table \subseteq 1 .. MaxEvents
      /\ past[from] \in Tables /\ DOMAIN past[from] \subseteq 1 .. MaxEvents
      /\ DOMAIN past[from] \subseteq 1 .. from - 1
  <2>1. KeysUnique(table) /\ DOMAIN table \subseteq 1 .. Len(past) - 1
    BY <1>2, <1>4 DEF RevertInv, HistoryOK, Logs
  <2>2. DOMAIN past[from] \subseteq 1 .. from - 1
    BY <1>4 DEF RevertInv, HistoryOK, Logs
  <2> QED
    BY <1>1, <1>2, <1>4, <2>1, <2>2
<1>6. past[Here]' = table /\ past[first]' = past[from]
  BY <1>2, <1>3
<1>7. TableOK'
  <2>1. ToComeBack'
    BY <1>1, <1>2, <1>3, <1>4 DEF ToComeBack, HistoryOK, NeverBack
  <2> QED
    BY <1>1, <1>2, <1>5, <2>1 DEF TableOK, KeysUnique
<1>8. Same(table, past[Here])'
  <2>1. PICK f : Pairs(f, table, table)
    BY SameAsItself DEF Same
  <2>2. Pairs(f, table, past[Here])'
    BY <1>2, <1>6, <2>1 DEF Pairs
  <2> QED
    BY <2>2 DEF Same
<1>9. SurviveOK'
  <2>1. Others' = {}
    BY <1>2, <1>5 DEF Others
  <2>2. Unrelated' => \A i \in DOMAIN past[from] \cap DOMAIN table :
                          past[from][i]["v"] = table[i]["v"]
    <3> SUFFICES ASSUME Unrelated'
                 PROVE  \A i \in DOMAIN past[from] \cap DOMAIN table :
                            past[from][i]["v"] = table[i]["v"]
      OBVIOUS
    <3>1. DataLeft(from, Len(past))
      BY <1>1, <1>2 DEF Unrelated, DataLeft
    <3> QED
      BY <1>1, <1>2, <1>4, <3>1 DEF HistoryOK, DatumKept
  <2> QED
    BY <1>2, <1>5, <1>6, <2>1, <2>2 DEF SurviveOK
<1> QED
  BY <1>2, <1>3, <1>7, <1>8, <1>9 DEF RunInv

\* A statement of the script.
LEMMA RunStep ==
    ASSUME RevertInv, RunStatement
    PROVE  RevertInv'
<1>1. HistoryOK /\ RunInv /\ script # <<>> /\ pc = "running"
  BY DEF RunStatement, RevertInv
<1>2. UNCHANGED <<keyed, events, past, first, writes>> /\ (pc' = "running" \/ pc' = "stopped")
  BY <1>1 DEF RunStatement, RunDelete, RunUpdate, RunInsert, MatchesNothing, Rejected, Next1
<1>3. HistoryOK'
  BY <1>1, <1>2, HistoryKept
<1>4. writes = 0 => pc' = "running" /\ Same(table', past[Here - 1])
  BY <1>1, StatementUndoes DEF RunInv
<1>5. CASE pc' = "running"
  <2>1. TableOK' /\ PlanOK' /\ Here' = Here - 1
    BY <1>1, <1>5, TableStep DEF RunInv
  <2>2. (writes = 0 => Same(table, past[Here]))'
    BY <1>2, <1>4, <2>1 DEF Same, Pairs
  <2>3. (keyed = TRUE => SurviveOK)'
    <3>1. keyed = TRUE => SurviveOK'
      BY <1>1, <1>5, SurviveStep DEF RunInv
    <3> QED
      BY <1>2, <3>1
  <2> QED
    BY <1>3, <1>5, <2>1, <2>2, <2>3 DEF RevertInv, RunInv
<1>6. CASE pc' = "stopped"
  <2>1. writes \in Nat /\ writes # 0
    BY <1>1, <1>4, <1>6 DEF RunInv, TableOK
  <2> QED
    BY <1>2, <1>3, <1>6, <2>1 DEF RevertInv
<1> QED
  BY <1>2, <1>5, <1>6

\* Every step.
LEMMA RevertStep == RevertInv /\ [Next]_vars => RevertInv'
<1> SUFFICES ASSUME RevertInv, [Next]_vars PROVE RevertInv'
  OBVIOUS
<1>1. CASE Change
  <2>1. pc = "logging" /\ pc' = pc /\ writes' = writes
    BY <1>1 DEF Change, Insert, Update, Delete, Log
  <2>2. HistoryOK' /\ table' = past'[Len(past')]
    BY <1>1, <2>1, ChangeStep DEF RevertInv
  <2> QED
    BY <2>1, <2>2 DEF RevertInv
<1>2. ASSUME NEW from \in 1 .. Len(events), Generate(from) PROVE RevertInv'
  <2>1. pc' = "running" /\ UNCHANGED <<keyed, events, past>>
    BY <1>2 DEF Generate
  <2>2. HistoryOK'
    BY <2>1, HistoryKept DEF RevertInv
  <2> QED
    BY <1>2, <2>1, <2>2, RunBegins DEF RevertInv
<1>3. CASE RunStatement
  BY <1>3, RunStep
<1>4. ASSUME \/ \E id \in DOMAIN table, value \in Values \cup {Null} : OtherWrites(id, value)
             \/ \E row \in Rows : OtherInserts(row)
      PROVE  RevertInv'
  <2>1. pc = "running" /\ UNCHANGED <<keyed, events, past>>
    BY <1>4 DEF OtherWrites, OtherInserts
  <2>2. HistoryOK /\ RunInv
    BY <2>1 DEF RevertInv
  <2>3. TableOK' /\ PlanOK' /\ writes' = writes + 1 /\ pc' = pc /\ writes \in Nat
    BY <1>4, <2>2, OthersStep DEF RunInv, TableOK
  <2>4. HistoryOK'
    BY <2>1, <2>2, HistoryKept
  <2>5. keyed' = TRUE => SurviveOK'
    BY <1>4, <2>1, <2>2, OthersSurvive DEF RunInv
  <2> QED
    BY <2>1, <2>3, <2>4, <2>5 DEF RevertInv, RunInv
<1>5. CASE UNCHANGED vars
  <2>1. /\ UNCHANGED <<keyed, table, events, past, pc, script, first, writes, expected>>
        /\ Here' = Here /\ HistoryOK'
    BY <1>5, HistoryKept DEF vars, RevertInv, Here
  <2>2. RunInv => RunInv'
    <3> SUFFICES ASSUME RunInv PROVE RunInv'
      OBVIOUS
    <3>1. \A ev : Statement(ev)' = Statement(ev)
      BY <2>1 DEF Statement, DeleteRow, UpdateRow, InsertRow, WhereClause
    <3>2. PlanOK'
      BY <2>1, <3>1 DEF RunInv, PlanOK, Undo
    <3>3. TableOK'
      BY <2>1 DEF RunInv, TableOK, ToComeBack, KeysUnique
    <3>4. Same(table, past[Here])' = Same(table, past[Here])
      BY <2>1 DEF Same, Pairs
    <3>5. keyed = TRUE => SurviveOK'
      BY <2>1 DEF RunInv, SurviveOK, Others, Unrelated
    <3> QED
      BY <2>1, <3>2, <3>3, <3>4, <3>5 DEF RunInv
  <2> QED
    BY <2>1, <2>2 DEF RevertInv
<1> QED
  BY <1>1, <1>2, <1>3, <1>4, <1>5 DEF Next

\* The invariant of a run, for all keys and values and any number of changes.
THEOREM RevertInvariance == Spec => []RevertInv
<1>1. Init => RevertInv
  BY RevertInit
<1>2. RevertInv /\ [Next]_vars => RevertInv'
  BY RevertStep
<1> QED
  BY <1>1, <1>2, PTL DEF Spec

\* With nobody else writing, the server rejects no statement of a script
\* (Plan, Statement).
THEOREM NoStatementRejected == Spec => []NothingRejected
<1>1. RevertInv => NothingRejected
  BY DEF RevertInv, NothingRejected
<1> QED
  BY <1>1, RevertInvariance, PTL

\* With nobody else writing, a script takes the table back one change at a
\* time, wherever it is broken off (Plan).
THEOREM BackInTime == Spec => []StepsBackInTime
<1>1. ASSUME RevertInv PROVE StepsBackInTime
  <2> SUFFICES ASSUME pc = "running", writes = 0
               PROVE  Images(table) = Images(past[Here])
    BY DEF StepsBackInTime, Here
  <2>1. TableOK /\ Same(table, past[Here]) /\ MaxEvents + writes \in Nat
    BY <1>1, RevertAssumption DEF RevertInv, RunInv
  <2>2. IsFiniteSet(DOMAIN table)
    <3>1. DOMAIN table \in SUBSET (1 .. MaxEvents + writes)
      BY <2>1 DEF TableOK
    <3> DEFINE n == MaxEvents + writes
    <3>2. n \in Int
      BY <2>1
    <3> HIDE DEF n
    <3>3. IsFiniteSet(1 .. n)
      BY <3>2, FS_Interval
    <3> QED
      BY <3>1, <3>3, FS_Subset DEF n
  <2> QED
    BY <2>1, <2>2, SameImages
<1> QED
  BY <1>1, RevertInvariance, PTL

\* A script run to its end brings back the table as it was before the window,
\* with what other sessions wrote meanwhile (updateRow).
THEOREM OthersKeepTheirs == Spec => []OtherWritesSurvive
<1>1. ASSUME RevertInv PROVE OtherWritesSurvive
  <2> SUFFICES ASSUME keyed, pc = "running", script = <<>> PROVE table = expected
    BY DEF OtherWritesSurvive
  <2>1. /\ keyed = TRUE /\ HistoryOK /\ PlanOK /\ TableOK /\ SurviveOK
    BY <1>1 DEF RevertInv, RunInv, HistoryOK
  <2>2. Here = first
    BY <2>1 DEF Here, PlanOK
  <2>3. /\ table \in Tables /\ expected \in Tables /\ DOMAIN table = DOMAIN expected
        /\ \A i \in Others : table[i] = expected[i]
        /\ \A i \in DOMAIN past[first] :
              table[i]["k"] = expected[i]["k"] /\ table[i]["v"] = expected[i]["v"]
        /\ DOMAIN table = DOMAIN past[first] \cup Others
    BY <2>1, <2>2 DEF TableOK, SurviveOK
  <2>4. table \in [DOMAIN table -> Rows] /\ expected \in [DOMAIN table -> Rows]
    BY <2>3, TableIs
  <2>5. \A i \in DOMAIN table : table[i] = expected[i]
    BY <2>3, <2>4, SameRow
  <2> QED
    BY <2>4, <2>5
<1> QED
  BY <1>1, RevertInvariance, PTL
=============================================================================
