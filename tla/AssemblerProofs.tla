-------------------------- MODULE AssemblerProofs --------------------------
(***************************************************************************)
(* The assembler leaves nothing over from one transaction to the next, and *)
(* the store it fills keeps the promise of Delivery, for any log, any      *)
(* number of files and of attempts that fail.                              *)
(***************************************************************************)
EXTENDS Assembler, FiniteSetTheorems, SequenceTheorems, NaturalsInduction,
        WellFoundedInduction, TLAPS

----------------------------------------------------------------------------
(***************************************************************************)
(* Sequences of sequences, one after the other                             *)
(***************************************************************************)
\* Induction over the natural numbers, for a set of them.
LEMMA NatSets ==
    ASSUME NEW S, 0 \in S, \A n \in Nat : n \in S => n + 1 \in S
    PROVE  Nat \subseteq S
<1> SUFFICES ASSUME Nat \ S # {} PROVE FALSE
  OBVIOUS
<1>1. PICK m \in Nat \ S : \A y \in Nat \ S : <<y, m>> \notin OpToRel(<, Nat)
  <2>1. Nat \ S \subseteq Nat
    OBVIOUS
  <2> QED
    BY <2>1, NatLessThanWellFounded, WFMin
<1>2. \A y \in Nat \ S : ~ (y < m)
  BY <1>1 DEF OpToRel
<1>3. m \in Nat /\ m \notin S /\ m # 0
  OBVIOUS
<1>4. m - 1 \in Nat /\ m - 1 < m /\ m - 1 + 1 = m
  BY <1>3
<1>5. m - 1 \in S
  BY <1>2, <1>4
<1> QED
  BY <1>3, <1>4, <1>5

Flat(q, n, f) == f = [i \in 1 .. n |-> IF i = 1 THEN q[i] ELSE f[i - 1] \o q[i]]

\* The recursion has a solution.
LEMMA FlatExists ==
    ASSUME NEW q, NEW n \in Nat
    PROVE  \E f : Flat(q, n, f)
<1> DEFINE S == {m \in Nat : \E f : Flat(q, m, f)}
<1>1. 0 \in S
  <2> DEFINE f == [i \in 1 .. 0 |-> <<>>]
  <2>1. Flat(q, 0, f)
    BY DEF Flat
  <2> QED
    BY <2>1
<1>2. ASSUME NEW m \in Nat, m \in S PROVE m + 1 \in S
  <2>1. PICK f : Flat(q, m, f)
    BY <1>2
  <2> DEFINE g == [i \in 1 .. m + 1 |->
                     IF i = m + 1 THEN IF i = 1 THEN q[i] ELSE f[m] \o q[i] ELSE f[i]]
  <2>2. \A i \in 1 .. m : f[i] = IF i = 1 THEN q[i] ELSE f[i - 1] \o q[i]
    BY <2>1 DEF Flat
  <2>3. \A i \in 1 .. m + 1 : g[i] = IF i = 1 THEN q[i] ELSE g[i - 1] \o q[i]
    BY <2>2
  <2>4. Flat(q, m + 1, g)
    BY <2>3 DEF Flat
  <2> QED
    BY <2>4
<1> HIDE DEF S
<1>3. Nat \subseteq S
  BY <1>1, <1>2, NatSets
<1> QED
  BY <1>3 DEF S

\* Its elements, one by one.
LEMMA FlatAt ==
    ASSUME NEW q, NEW n \in Nat, NEW f, Flat(q, n, f), NEW k \in Nat, k < n
    PROVE  f[k + 1] = IF k = 0 THEN q[k + 1] ELSE f[k] \o q[k + 1]
<1>1. \A i \in 1 .. n : f[i] = IF i = 1 THEN q[i] ELSE f[i - 1] \o q[i]
  BY DEF Flat
<1>2. k + 1 \in 1 .. n /\ k + 1 - 1 = k
  OBVIOUS
<1>3. f[k + 1] = IF k + 1 = 1 THEN q[k + 1] ELSE f[k + 1 - 1] \o q[k + 1]
  BY <1>1, <1>2
<1>4. k + 1 = 1 <=> k = 0
  OBVIOUS
<1> QED
  BY <1>2, <1>3, <1>4

\* What FlattenSeq gives is the last of such a solution.
LEMMA FlattenIs ==
    ASSUME NEW q, Len(q) \in Nat \ {0}
    PROVE  \E f : Flat(q, Len(q), f) /\ FlattenSeq(q) = f[Len(q)]
<1> DEFINE f == CHOOSE f : Flat(q, Len(q), f)
<1>1. Flat(q, Len(q), f)
  BY FlatExists
<1>2. FlattenSeq(q) = f[Len(q)]
  BY DEF FlattenSeq, Flat
<1> QED
  BY <1>1, <1>2

\* Solutions agree.
LEMMA FlatUnique ==
    ASSUME NEW q, NEW p, NEW n \in Nat, NEW m \in Nat, NEW f, NEW g,
           Flat(q, n, f), Flat(p, m, g), m <= n, \A i \in 1 .. m : p[i] = q[i]
    PROVE  \A i \in 1 .. m : g[i] = f[i]
<1> DEFINE S == {k \in Nat : k \in 1 .. m => g[k] = f[k]}
<1>1. 0 \in S
  OBVIOUS
<1>2. ASSUME NEW k \in Nat, k \in S PROVE k + 1 \in S
  <2>1. ASSUME k + 1 \in 1 .. m PROVE g[k + 1] = f[k + 1]
    <3>1. k < m /\ k < n /\ p[k + 1] = q[k + 1]
      BY <2>1
    <3>2. f[k + 1] = IF k = 0 THEN q[k + 1] ELSE f[k] \o q[k + 1]
      BY <3>1, FlatAt
    <3>4. g[k + 1] = IF k = 0 THEN p[k + 1] ELSE g[k] \o p[k + 1]
      BY <3>1, FlatAt
    <3>3. k # 0 => g[k] = f[k]
      BY <1>2, <2>1
    <3> QED
      BY <3>1, <3>2, <3>3, <3>4
  <2> QED
    BY <2>1
<1> HIDE DEF S
<1>3. Nat \subseteq S
  BY <1>1, <1>2, NatSets
<1> QED
  BY <1>3 DEF S

\* Nothing to flatten.
LEMMA FlattenEmpty == FlattenSeq(<<>>) = <<>>
BY DEF FlattenSeq

\* One sequence more, behind others.
LEMMA FlattenMore ==
    ASSUME NEW q, NEW p, NEW n \in Nat, n # 0, Len(q) = n, Len(p) = n + 1,
           \A i \in 1 .. n : p[i] = q[i]
    PROVE  FlattenSeq(p) = FlattenSeq(q) \o p[n + 1]
<1>1. PICK f : Flat(p, n + 1, f) /\ FlattenSeq(p) = f[n + 1]
  BY FlattenIs
<1>2. PICK g : Flat(q, n, g) /\ FlattenSeq(q) = g[n]
  BY FlattenIs
<1>3. f[n + 1] = IF n = 0 THEN p[n + 1] ELSE f[n] \o p[n + 1]
  <2> DEFINE m == n + 1
  <2>1. m \in Nat /\ n < m /\ Flat(p, m, f)
    BY <1>1
  <2> HIDE DEF m
  <2>2. f[n + 1] = IF n = 0 THEN p[n + 1] ELSE f[n] \o p[n + 1]
    BY <2>1, FlatAt, ZenonT(60)
  <2> QED
    BY <2>2
<1>4. g[n] = f[n]
  <2>1. n + 1 \in Nat /\ n <= n + 1 /\ n \in 1 .. n /\ \A i \in 1 .. n : q[i] = p[i]
    OBVIOUS
  <2> QED
    BY <1>1, <1>2, <2>1, FlatUnique
<1> QED
  BY <1>1, <1>2, <1>3, <1>4

\* One sequence alone.
LEMMA FlattenOne ==
    ASSUME NEW p, Len(p) = 1
    PROVE  FlattenSeq(p) = p[1]
<1>1. PICK f : Flat(p, 1, f) /\ FlattenSeq(p) = f[1]
  <2>1. Len(p) \in Nat \ {0}
    OBVIOUS
  <2> QED
    BY <2>1, FlattenIs
<1>2. f[0 + 1] = IF 0 = 0 THEN p[0 + 1] ELSE f[0] \o p[0 + 1]
  <2>1. 0 \in Nat /\ 1 \in Nat /\ 0 < 1
    OBVIOUS
  <2> QED
    BY <1>1, <2>1, FlatAt
<1> QED
  BY <1>1, <1>2

\* One sequence more.
LEMMA FlattenAppend ==
    ASSUME NEW S, NEW q \in Seq(Seq(S)), NEW x \in Seq(S), FlattenSeq(q) \in Seq(S)
    PROVE  /\ FlattenSeq(Append(q, x)) = FlattenSeq(q) \o x
           /\ FlattenSeq(Append(q, x)) \in Seq(S)
<1> DEFINE p == Append(q, x)
           n == Len(q)
<1>1. n \in Nat /\ Len(p) = n + 1 /\ p[n + 1] = x /\ \A i \in 1 .. n : p[i] = q[i]
  OBVIOUS
<1>2. FlattenSeq(q) \o x \in Seq(S)
  BY ConcatProperties
<1>3. CASE n = 0
  <2>1. q = <<>> /\ Len(p) = 1 /\ p[1] = x
    BY <1>1, <1>3
  <2>2. FlattenSeq(p) = x
    BY <2>1, FlattenOne
  <2>3. <<>> \o x = x
    BY EmptySeq, ConcatEmptySeq
  <2> QED
    BY <1>2, <2>1, <2>2, <2>3, FlattenEmpty
<1>4. CASE n # 0
  <2> HIDE DEF p, n
  <2>1. FlattenSeq(p) = FlattenSeq(q) \o p[n + 1]
    BY <1>1, <1>4, FlattenMore DEF n
  <2>2. FlattenSeq(p) = FlattenSeq(q) \o x
    BY <1>1, <2>1
  <2> QED
    BY <1>2, <2>2 DEF p
<1> QED
  BY <1>3, <1>4

----------------------------------------------------------------------------
(***************************************************************************)
(* A compressed transaction                                                *)
(***************************************************************************)
InTurn(a, e, n, f) ==
    f = [k \in 0 .. n |-> IF k = 0 THEN Quiet(a) ELSE UnwrapNext(f[k - 1], e, e.inner[k])]

\* Its events can be handled in turn.
LEMMA InTurnExists ==
    ASSUME NEW a, NEW e, NEW n \in Nat
    PROVE  \E f : InTurn(a, e, n, f)
<1> DEFINE S == {m \in Nat : \E f : InTurn(a, e, m, f)}
<1>1. 0 \in S
  <2> DEFINE f == [k \in 0 .. 0 |-> Quiet(a)]
  <2>1. InTurn(a, e, 0, f)
    BY DEF InTurn
  <2> QED
    BY <2>1
<1>2. ASSUME NEW m \in Nat, m \in S PROVE m + 1 \in S
  <2>1. PICK f : InTurn(a, e, m, f)
    BY <1>2
  <2> DEFINE g == [k \in 0 .. m + 1 |->
                     IF k = m + 1 THEN UnwrapNext(f[m], e, e.inner[k]) ELSE f[k]]
  <2>2. \A k \in 0 .. m : f[k] = IF k = 0 THEN Quiet(a) ELSE UnwrapNext(f[k - 1], e, e.inner[k])
    BY <2>1 DEF InTurn
  <2>3. \A k \in 0 .. m + 1 :
            g[k] = IF k = 0 THEN Quiet(a) ELSE UnwrapNext(g[k - 1], e, e.inner[k])
    BY <2>2
  <2>4. InTurn(a, e, m + 1, g)
    BY <2>3 DEF InTurn
  <2> QED
    BY <2>4
<1> HIDE DEF S
<1>3. Nat \subseteq S
  BY <1>1, <1>2, NatSets
<1> QED
  BY <1>3 DEF S

\* Five events in turn.
LEMMA UnwrapFive ==
    ASSUME NEW a, NEW e, Len(e.inner) = 5
    PROVE  \E r1, r2, r3, r4 :
               /\ r1 = UnwrapNext(Quiet(a), e, e.inner[1])
               /\ r2 = UnwrapNext(r1, e, e.inner[2])
               /\ r3 = UnwrapNext(r2, e, e.inner[3])
               /\ r4 = UnwrapNext(r3, e, e.inner[4])
               /\ Unwrap(a, e) = UnwrapNext(r4, e, e.inner[5])
<1> DEFINE f == CHOOSE f : InTurn(a, e, 5, f)
<1>1. InTurn(a, e, 5, f)
  BY InTurnExists
<1>2. Unwrap(a, e) = f[5]
  BY DEF Unwrap, InTurn
<1> HIDE DEF f
<1>3. \A k \in 0 .. 5 : f[k] = IF k = 0 THEN Quiet(a) ELSE UnwrapNext(f[k - 1], e, e.inner[k])
  BY <1>1 DEF InTurn
<1>4. /\ f[0] = Quiet(a)
      /\ f[1] = UnwrapNext(f[0], e, e.inner[1]) /\ f[2] = UnwrapNext(f[1], e, e.inner[2])
      /\ f[3] = UnwrapNext(f[2], e, e.inner[3]) /\ f[4] = UnwrapNext(f[3], e, e.inner[4])
      /\ f[5] = UnwrapNext(f[4], e, e.inner[5])
  BY <1>3
<1> QED
  BY <1>2, <1>4

----------------------------------------------------------------------------
(***************************************************************************)
(* What an event does to the assembler                                     *)
(***************************************************************************)
Names == {"gtid", "anonymous"}


\* Each type of event.
LEMMA PlainTypes ==
    ASSUME NEW a, NEW e
    PROVE  /\ e.type = "begin" => HandlePlain(a, e) = Quiet([a EXCEPT !.events = <<>>, !.query = 0])
           /\ e.type = "commit" => HandlePlain(a, e) = CommitRows(a, e)
           /\ e.type = "rollback" => HandlePlain(a, e) = Quiet(Reset(a))
           /\ e.type = "ddl" => HandlePlain(a, e) = SchemaChange(a, e)
           /\ e.type = "session" => HandlePlain(a, e) = Quiet(a)
           /\ e.type = "annotate" => HandlePlain(a, e) = Quiet([a EXCEPT !.query = e.stmt])
           /\ e.type = "anonymous" => HandlePlain(a, e) = Quiet(a)
           /\ e.type = "gtid" => HandlePlain(a, e) = Quiet([a EXCEPT !.gtid = e.group])
           /\ e.type = "rotate" => HandlePlain(a, e) = Quiet([a EXCEPT !.logFile = e.file + 1])
           /\ e.type \in {"rows", "unwanted"} =>
                 HandlePlain(a, e) =
                     Quiet([a EXCEPT !.events = Append(@, Row(e, a.query)), !.query = 0])
           /\ e.type = "unreadable" =>
                 HandlePlain(a, e) = Result(a, <<>>, <<[group |-> e.group, stmt |-> e.stmt]>>)
<1>1. e.type \in {"begin", "commit", "rollback", "ddl", "session"} =>
          HandlePlain(a, e) = Statement(a, e)
  BY DEF HandlePlain
<1>2. e.type \in {"rows", "unwanted", "unreadable"} => HandlePlain(a, e) = AppendRows(a, e)
  BY DEF HandlePlain
<1>3. e.type \in {"annotate", "anonymous", "gtid", "rotate"} =>
          HandlePlain(a, e) =
              CASE e.type = "rotate"    -> Quiet([a EXCEPT !.logFile = e.file + 1])
                [] e.type = "annotate"  -> Quiet([a EXCEPT !.query = e.stmt])
                [] e.type = "gtid"      -> Quiet([a EXCEPT !.gtid = e.group])
                [] e.type = "anonymous" -> Quiet(a)
  BY DEF HandlePlain
<1>4. /\ e.type = "begin" => HandlePlain(a, e) = Quiet([a EXCEPT !.events = <<>>, !.query = 0])
      /\ e.type = "commit" => HandlePlain(a, e) = CommitRows(a, e)
      /\ e.type = "rollback" => HandlePlain(a, e) = Quiet(Reset(a))
      /\ e.type = "ddl" => HandlePlain(a, e) = SchemaChange(a, e)
      /\ e.type = "session" => HandlePlain(a, e) = Quiet(a)
  BY <1>1 DEF Statement
<1>5. /\ e.type \in {"rows", "unwanted"} =>
             HandlePlain(a, e) =
                 Quiet([a EXCEPT !.events = Append(@, Row(e, a.query)), !.query = 0])
      /\ e.type = "unreadable" =>
             HandlePlain(a, e) = Result(a, <<>>, <<[group |-> e.group, stmt |-> e.stmt]>>)
  BY <1>2 DEF AppendRows
<1>6. /\ e.type = "annotate" => HandlePlain(a, e) = Quiet([a EXCEPT !.query = e.stmt])
      /\ e.type = "anonymous" => HandlePlain(a, e) = Quiet(a)
      /\ e.type = "gtid" => HandlePlain(a, e) = Quiet([a EXCEPT !.gtid = e.group])
      /\ e.type = "rotate" => HandlePlain(a, e) = Quiet([a EXCEPT !.logFile = e.file + 1])
  BY <1>3
<1> QED
  BY <1>4, <1>5, <1>6

\* The events that the forms are made of.
LEMMA FormsAre ==
    /\ Forms["insert"] = <<Begin, Event("unwanted", 1), Rows(2), Commit>>
    /\ Forms["statements"] = <<Begin, Event("annotate", 1), Rows(1), Rows(2), Commit>>
    /\ Forms["unwanted"] = <<Begin, Event("unwanted", 1), Commit>>
    /\ Forms["unreadable"] =
          <<Begin, Rows(1), Event("annotate", 2), Event("unreadable", 2), Rows(3), Commit>>
    /\ Forms["rolledback"] = <<Begin, Rows(1), Event("rollback", 0)>>
    /\ Forms["ddl"] = <<Event("ddl", 1)>>
    /\ Forms["session"] = <<Event("session", 0)>>
    /\ Forms["create"] = <<Begin, Event("ddl", 1), Rows(2), Commit>>
    /\ Forms["xa"] = <<Begin, Rows(1), Event("xa", 0)>>
    /\ Forms["compressed"] =
          <<[Event("payload", 0) EXCEPT !.inner =
                <<Begin, Event("unreadable", 1), Event("unreadable", 2), Rows(3), Commit>>]>>
    /\ DOMAIN Forms = {"insert", "statements", "unwanted", "unreadable", "rolledback", "ddl",
                       "session", "create", "xa", "compressed"}
BY DEF Forms

\* An assembler with this file, name, statement announced and rows.
Holding(file, gtid, query, events) ==
    [logFile |-> file, gtid |-> gtid, query |-> query, events |-> events]

RowOf(g, n, query, wanted) == [group |-> g, stmt |-> n, query |-> query, wanted |-> wanted]

One(row) == Append(<<>>, row)

Two(row, next) == Append(One(row), next)

\* The rows the assembler has after j events of a transaction, and the
\* statement announced to it.
InHand(kind, j, g) ==
    CASE kind \in {"insert", "unwanted"} /\ j = 2 -> One(RowOf(g, 1, 0, FALSE))
      [] kind = "insert" /\ j = 3 -> Two(RowOf(g, 1, 0, FALSE), RowOf(g, 2, 0, TRUE))
      [] kind = "statements" /\ j = 3 -> One(RowOf(g, 1, 1, TRUE))
      [] kind = "statements" /\ j = 4 -> Two(RowOf(g, 1, 1, TRUE), RowOf(g, 2, 0, TRUE))
      [] kind = "unreadable" /\ j \in {2, 3, 4} -> One(RowOf(g, 1, 0, TRUE))
      [] kind = "unreadable" /\ j = 5 -> Two(RowOf(g, 1, 0, TRUE), RowOf(g, 3, 2, TRUE))
      [] kind \in {"rolledback", "xa"} /\ j = 2 -> One(RowOf(g, 1, 0, TRUE))
      [] kind = "create" /\ j = 3 -> One(RowOf(g, 2, 0, TRUE))
      [] OTHER -> <<>>

Announced(kind, j) ==
    CASE kind = "statements" /\ j = 2 -> 1
      [] kind = "unreadable" /\ j \in {3, 4} -> 2
      [] OTHER -> 0

\* The rows it gives out for the j-th event, and what it records as missing.
GivenOut(kind, j, g) ==
    CASE kind = "insert" /\ j = 4 -> InHand(kind, 3, g)
      [] kind = "statements" /\ j = 5 -> InHand(kind, 4, g)
      [] kind = "unwanted" /\ j = 3 -> InHand(kind, 2, g)
      [] kind = "unreadable" /\ j = 6 -> InHand(kind, 5, g)
      [] kind = "ddl" /\ j = 1 -> One(RowOf(g, 1, 1, TRUE))
      [] kind = "compressed" /\ j = 1 -> One(RowOf(g, 3, 0, TRUE))
      [] kind = "create" /\ j = 2 -> One(RowOf(g, 1, 1, TRUE))
      [] kind = "create" /\ j = 4 -> InHand(kind, 3, g)
      [] OTHER -> <<>>

Missed(kind, j, g) ==
    CASE kind = "unreadable" /\ j = 4 -> <<[group |-> g, stmt |-> 2]>>
      [] kind = "compressed" /\ j = 1 -> <<[group |-> g, stmt |-> 2]>>
      [] OTHER -> <<>>

Size(kind) == Len(Forms[kind])

\* The name it has after the j-th event: a schema change does not end one.
NameAfter(kind, j, n) == IF j = Size(kind) /\ kind \notin {"ddl", "session"} THEN 0 ELSE n

Given(rows, id) == IF rows = <<>> THEN <<>> ELSE <<[id |-> id, rows |-> rows]>>

IDOf(file, n, e) ==
    IF n # 0 THEN [gtid |-> n, file |-> 0, pos |-> 0] ELSE [gtid |-> 0, file |-> file, pos |-> e.pos]

Turn(file, n, e, kind, j, g) ==
    Handle(Holding(file, n, Announced(kind, j - 1), InHand(kind, j - 1, g)), e)
        = Result(Holding(file, NameAfter(kind, j, n), Announced(kind, j), InHand(kind, j, g)),
                 Given(GivenOut(kind, j, g), IDOf(file, n, e)), Missed(kind, j, g))

\* The event of a transaction that this is.
Is(e, g, event) ==
    e.type = event.type /\ e.stmt = event.stmt /\ e.inner = event.inner /\ e.group = g

\* BEGIN.
LEMMA EffectOfBegin ==
    ASSUME NEW f, NEW n, NEW q, NEW rows, NEW e, e.type = "begin"
    PROVE  HandlePlain(Holding(f, n, q, rows), e) = Quiet(Holding(f, n, 0, <<>>))
<1> DEFINE a == Holding(f, n, q, rows)
<1>1. a.logFile = f /\ a.gtid = n /\ a.query = q /\ a.events = rows
  BY DEF Holding
<1>2. [a EXCEPT !.events = <<>>, !.query = 0] = Holding(f, n, 0, <<>>)
  <2>1. \A x : [a EXCEPT !.events = x, !.query = 0] = Holding(f, n, 0, x)
    <3> TAKE x
    <3>1. [a EXCEPT !.events = x, !.query = 0] = [[a EXCEPT !.events = x] EXCEPT !.query = 0]
      OBVIOUS
    <3>2. [a EXCEPT !.events = x] = Holding(f, n, q, x)
      BY DEF Holding
    <3>3. [Holding(f, n, q, x) EXCEPT !.query = 0] = Holding(f, n, 0, x)
      BY DEF Holding
    <3> QED
      BY <3>1, <3>2, <3>3
  <2> HIDE DEF a
  <2> QED
    BY <2>1
<1>3. HandlePlain(a, e) = Quiet([a EXCEPT !.events = <<>>, !.query = 0])
  BY PlainTypes
<1> QED
  BY <1>1, <1>2, <1>3

\* An annotation.
LEMMA EffectOfAnnotate ==
    ASSUME NEW f, NEW n, NEW q, NEW rows, NEW e, e.type = "annotate"
    PROVE  HandlePlain(Holding(f, n, q, rows), e) = Quiet(Holding(f, n, e.stmt, rows))
<1> DEFINE a == Holding(f, n, q, rows)
<1>1. a.logFile = f /\ a.gtid = n /\ a.query = q /\ a.events = rows
  BY DEF Holding
<1>2. [a EXCEPT !.query = e.stmt] = Holding(f, n, e.stmt, rows)
  BY DEF Holding
<1>3. HandlePlain(a, e) = Quiet([a EXCEPT !.query = e.stmt])
  BY PlainTypes
<1> QED
  BY <1>1, <1>2, <1>3

\* A GTID.
LEMMA EffectOfGTID ==
    ASSUME NEW f, NEW n, NEW q, NEW rows, NEW e, e.type = "gtid"
    PROVE  HandlePlain(Holding(f, n, q, rows), e) = Quiet(Holding(f, e.group, q, rows))
<1> DEFINE a == Holding(f, n, q, rows)
<1>1. a.logFile = f /\ a.gtid = n /\ a.query = q /\ a.events = rows
  BY DEF Holding
<1>2. [a EXCEPT !.gtid = e.group] = Holding(f, e.group, q, rows)
  BY DEF Holding
<1>3. HandlePlain(a, e) = Quiet([a EXCEPT !.gtid = e.group])
  BY PlainTypes
<1> QED
  BY <1>1, <1>2, <1>3

\* The end of a file.
LEMMA EffectOfRotate ==
    ASSUME NEW f, NEW n, NEW q, NEW rows, NEW e, e.type = "rotate"
    PROVE  HandlePlain(Holding(f, n, q, rows), e) = Quiet(Holding(e.file + 1, n, q, rows))
<1> DEFINE a == Holding(f, n, q, rows)
<1>1. a.logFile = f /\ a.gtid = n /\ a.query = q /\ a.events = rows
  BY DEF Holding
<1>2. [a EXCEPT !.logFile = e.file + 1] = Holding(e.file + 1, n, q, rows)
  BY DEF Holding
<1>3. HandlePlain(a, e) = Quiet([a EXCEPT !.logFile = e.file + 1])
  BY PlainTypes
<1> QED
  BY <1>1, <1>2, <1>3

\* Rows.
LEMMA EffectOfRows ==
    ASSUME NEW f, NEW n, NEW q, NEW rows, NEW e, e.type \in {"rows", "unwanted"}
    PROVE  HandlePlain(Holding(f, n, q, rows), e) = 
               Quiet(Holding(f, n, 0, Append(rows, Row(e, q))))
<1> DEFINE a == Holding(f, n, q, rows)
<1>1. a.logFile = f /\ a.gtid = n /\ a.query = q /\ a.events = rows
  BY DEF Holding
<1>2. [a EXCEPT !.events = Append(@, Row(e, a.query)), !.query = 0]
          = Holding(f, n, 0, Append(rows, Row(e, q)))
  <2>1. \A x : [a EXCEPT !.events = x, !.query = 0] = Holding(f, n, 0, x)
    <3> TAKE x
    <3>1. [a EXCEPT !.events = x, !.query = 0] = [[a EXCEPT !.events = x] EXCEPT !.query = 0]
      OBVIOUS
    <3>2. [a EXCEPT !.events = x] = Holding(f, n, q, x)
      BY DEF Holding
    <3>3. [Holding(f, n, q, x) EXCEPT !.query = 0] = Holding(f, n, 0, x)
      BY DEF Holding
    <3> QED
      BY <3>1, <3>2, <3>3
  <2> HIDE DEF a
  <2> QED
    BY <1>1, <2>1
<1>3. HandlePlain(a, e) = 
        Quiet([a EXCEPT !.events = Append(@, Row(e, a.query)), !.query = 0])
  BY PlainTypes
<1> QED
  BY <1>1, <1>2, <1>3

\* ROLLBACK.
LEMMA EffectOfRollback ==
    ASSUME NEW f, NEW n, NEW q, NEW rows, NEW e, e.type = "rollback"
    PROVE  HandlePlain(Holding(f, n, q, rows), e) = Quiet(Holding(f, 0, 0, <<>>))
<1> DEFINE a == Holding(f, n, q, rows)
<1>1. a.logFile = f /\ a.gtid = n /\ a.query = q /\ a.events = rows
  BY DEF Holding
<1>2. Reset(a) = Holding(f, 0, 0, <<>>)
  BY <1>1 DEF Reset, Fresh, Holding
<1>3. HandlePlain(a, e) = Quiet(Reset(a))
  BY PlainTypes
<1> QED
  BY <1>1, <1>2, <1>3

\* COMMIT.
LEMMA EffectOfCommit ==
    ASSUME NEW f, NEW n, NEW q, NEW rows, NEW e, e.type = "commit"
    PROVE  HandlePlain(Holding(f, n, q, rows), e)
               = Result(Holding(f, 0, 0, <<>>), Given(rows, IDOf(f, n, e)), <<>>)
<1> DEFINE a == Holding(f, n, q, rows)
<1>1. a.logFile = f /\ a.gtid = n /\ a.query = q /\ a.events = rows
  BY DEF Holding
<1>2. Reset(a) = Holding(f, 0, 0, <<>>)
  BY <1>1 DEF Reset, Fresh, Holding
<1>3. SourceID(a, e) = IDOf(f, n, e)
  BY <1>1 DEF SourceID, IDOf
<1>4. HandlePlain(a, e) = CommitRows(a, e)
  BY PlainTypes
<1> QED
  BY <1>1, <1>2, <1>3, <1>4 DEF CommitRows, Given, Quiet

\* A schema change.
LEMMA EffectOfSchemaChange ==
    ASSUME NEW f, NEW n, NEW q, NEW rows, NEW e, e.type = "ddl"
    PROVE  HandlePlain(Holding(f, n, q, rows), e)
               = Result(Holding(f, n, q, rows),
                        <<[id |-> IDOf(f, n, e), rows |-> <<Row(e, e.stmt)>>]>>, <<>>)
<1> DEFINE a == Holding(f, n, q, rows)
<1>1. a.logFile = f /\ a.gtid = n
  BY DEF Holding
<1>2. SourceID(a, e) = IDOf(f, n, e)
  BY <1>1 DEF SourceID, IDOf
<1>3. HandlePlain(a, e) = SchemaChange(a, e)
  BY PlainTypes
<1> QED
  BY <1>2, <1>3 DEF SchemaChange

\* An event of the log, with nothing else in it.
Whole(e) ==
    e = [type |-> e.type, stmt |-> e.stmt, inner |-> e.inner, group |-> e.group,
         file |-> e.file, pos |-> e.pos]

\* A sequence of one row.
LEMMA OneIs ==
    ASSUME NEW x
    PROVE  /\ One(x) = <<x>> /\ Len(One(x)) = 1 /\ One(x)[1] = x /\ One(x) # <<>>
BY DEF One

\* A second row.
LEMMA TwoAre ==
    ASSUME NEW x, NEW y
    PROVE  /\ Len(Two(x, y)) = 2 /\ Two(x, y) # <<>>
           /\ Two(x, y)[1] = x /\ Two(x, y)[2] = y
BY DEF One, Two

\* BEGIN, a row of a table not asked for, a row, COMMIT.
LEMMA TurnInsert ==
    ASSUME NEW g, NEW f, NEW n, NEW j \in 1 .. 4, NEW e, Is(e, g, Forms["insert"][j])
    PROVE  Turn(f, n, e, "insert", j, g)
<1> DEFINE a == Holding(f, n, Announced("insert", j - 1), InHand("insert", j - 1, g))
<1>1. Size("insert") = 4 /\ e.group = g
  BY FormsAre DEF Size, Is
<1>2. Handle(a, e) = HandlePlain(a, e)
  <2>1. e.type # "payload"
    BY FormsAre DEF Is, Begin, Commit, Rows, Event
  <2> QED
    BY <2>1 DEF Handle
<1>3. CASE j = 1
  <2>1. e.type = "begin" /\ e.stmt = 0
    BY <1>3, FormsAre DEF Is, Begin, Commit, Rows, Event
  <2>2. Announced("insert", j - 1) = 0 /\ InHand("insert", j - 1, g) = <<>>
    BY <1>3 DEF Announced, InHand
  <2>3. Announced("insert", j) = 0 /\ InHand("insert", j, g) = <<>>
    BY <1>3 DEF Announced, InHand
  <2>4. GivenOut("insert", j, g) = <<>> /\ Missed("insert", j, g) = <<>>
    BY <1>3 DEF GivenOut, InHand, Missed
  <2>5. NameAfter("insert", j, n) = n
    BY <1>3, <1>1 DEF NameAfter
  <2> DEFINE rows == <<>>
  <2>6. a = Holding(f, n, 0, rows)
    BY <2>2
  <2> HIDE DEF a, rows
  <2>8. HandlePlain(a, e) = Quiet(Holding(f, n, 0, <<>>))
    BY <1>1, <2>1, <2>6, EffectOfBegin
  <2> HIDE DEF Holding, One
  <2> QED
    BY <1>2, <2>3, <2>4, <2>5, <2>6, <2>8 DEF Turn, a, rows, Quiet, Given
<1>4. CASE j = 2
  <2>1. e.type = "unwanted" /\ e.stmt = 1
    BY <1>4, FormsAre DEF Is, Begin, Commit, Rows, Event
  <2>2. Announced("insert", j - 1) = 0 /\ InHand("insert", j - 1, g) = <<>>
    BY <1>4 DEF Announced, InHand
  <2>3. Announced("insert", j) = 0 /\ InHand("insert", j, g) = One(RowOf(g, 1, 0, FALSE))
    BY <1>4 DEF Announced, InHand
  <2>4. GivenOut("insert", j, g) = <<>> /\ Missed("insert", j, g) = <<>>
    BY <1>4 DEF GivenOut, InHand, Missed
  <2>5. NameAfter("insert", j, n) = n
    BY <1>4, <1>1 DEF NameAfter
  <2> DEFINE rows == <<>>
  <2>6. a = Holding(f, n, 0, rows)
    BY <2>2
  <2> HIDE DEF a, rows
  <2>7. Row(e, 0) = RowOf(g, 1, 0, FALSE)
    BY <1>1, <2>1 DEF Row, RowOf
  <2>8. HandlePlain(a, e) = Quiet(Holding(f, n, 0, One(RowOf(g, 1, 0, FALSE))))
    <3>1. HandlePlain(a, e) = Quiet(Holding(f, n, 0, Append(rows, Row(e, 0))))
      BY <2>1, <2>6, EffectOfRows
    <3> QED
      BY <3>1, <2>7 DEF One, Two, rows
  <2> HIDE DEF Holding, One
  <2> QED
    BY <1>2, <2>3, <2>4, <2>5, <2>8 DEF Turn, a, rows, Quiet, Given
<1>5. CASE j = 3
  <2>1. e.type = "rows" /\ e.stmt = 2
    BY <1>5, FormsAre DEF Is, Begin, Commit, Rows, Event
  <2>2. Announced("insert", j - 1) = 0 /\ InHand("insert", j - 1, g) = One(RowOf(g, 1, 0, FALSE))
    BY <1>5 DEF Announced, InHand
  <2>3. Announced("insert", j) = 0 /\ InHand("insert", j, g) = Two(RowOf(g, 1, 0, FALSE), RowOf(g, 2, 0, TRUE))
    BY <1>5 DEF Announced, InHand
  <2>4. GivenOut("insert", j, g) = <<>> /\ Missed("insert", j, g) = <<>>
    BY <1>5 DEF GivenOut, InHand, Missed
  <2>5. NameAfter("insert", j, n) = n
    BY <1>5, <1>1 DEF NameAfter
  <2> DEFINE rows == One(RowOf(g, 1, 0, FALSE))
  <2>6. a = Holding(f, n, 0, rows)
    BY <2>2
  <2> HIDE DEF a, rows
  <2>7. Row(e, 0) = RowOf(g, 2, 0, TRUE)
    BY <1>1, <2>1 DEF Row, RowOf
  <2>8. HandlePlain(a, e) = Quiet(Holding(f, n, 0, Two(RowOf(g, 1, 0, FALSE), RowOf(g, 2, 0, TRUE))))
    <3>1. HandlePlain(a, e) = Quiet(Holding(f, n, 0, Append(rows, Row(e, 0))))
      BY <2>1, <2>6, EffectOfRows
    <3> QED
      BY <3>1, <2>7 DEF One, Two, rows
  <2> HIDE DEF Holding, One
  <2> QED
    BY <1>2, <2>3, <2>4, <2>5, <2>8 DEF Turn, a, rows, Quiet, Given
<1>6. CASE j = 4
  <2>1. e.type = "commit" /\ e.stmt = 0
    BY <1>6, FormsAre DEF Is, Begin, Commit, Rows, Event
  <2>2. Announced("insert", j - 1) = 0 /\ InHand("insert", j - 1, g) = Two(RowOf(g, 1, 0, FALSE), RowOf(g, 2, 0, TRUE))
    BY <1>6 DEF Announced, InHand
  <2>3. Announced("insert", j) = 0 /\ InHand("insert", j, g) = <<>>
    BY <1>6 DEF Announced, InHand
  <2>4. GivenOut("insert", j, g) = Two(RowOf(g, 1, 0, FALSE), RowOf(g, 2, 0, TRUE)) /\ Missed("insert", j, g) = <<>>
    BY <1>6 DEF GivenOut, InHand, Missed
  <2>5. NameAfter("insert", j, n) = 0
    BY <1>6, <1>1 DEF NameAfter
  <2> DEFINE rows == Two(RowOf(g, 1, 0, FALSE), RowOf(g, 2, 0, TRUE))
  <2>6. a = Holding(f, n, 0, rows)
    BY <2>2
  <2> HIDE DEF a, rows
  <2>8. HandlePlain(a, e) = Result(Holding(f, 0, 0, <<>>), Given(rows, IDOf(f, n, e)), <<>>)
    BY <1>1, <2>1, <2>6, EffectOfCommit
  <2> HIDE DEF Holding, One
  <2> QED
    BY <1>2, <2>3, <2>4, <2>5, <2>6, <2>8 DEF Turn, a, rows
<1> QED
  BY <1>3, <1>4, <1>5, <1>6

\* An annotated statement and one that is not.
LEMMA TurnStatements ==
    ASSUME NEW g, NEW f, NEW n, NEW j \in 1 .. 5, NEW e, Is(e, g, Forms["statements"][j])
    PROVE  Turn(f, n, e, "statements", j, g)
<1> DEFINE a == Holding(f, n, Announced("statements", j - 1), InHand("statements", j - 1, g))
<1>1. Size("statements") = 5 /\ e.group = g
  BY FormsAre DEF Size, Is
<1>2. Handle(a, e) = HandlePlain(a, e)
  <2>1. e.type # "payload"
    BY FormsAre DEF Is, Begin, Commit, Rows, Event
  <2> QED
    BY <2>1 DEF Handle
<1>3. CASE j = 1
  <2>1. e.type = "begin" /\ e.stmt = 0
    BY <1>3, FormsAre DEF Is, Begin, Commit, Rows, Event
  <2>2. Announced("statements", j - 1) = 0 /\ InHand("statements", j - 1, g) = <<>>
    BY <1>3 DEF Announced, InHand
  <2>3. Announced("statements", j) = 0 /\ InHand("statements", j, g) = <<>>
    BY <1>3 DEF Announced, InHand
  <2>4. GivenOut("statements", j, g) = <<>> /\ Missed("statements", j, g) = <<>>
    BY <1>3 DEF GivenOut, InHand, Missed
  <2>5. NameAfter("statements", j, n) = n
    BY <1>3, <1>1 DEF NameAfter
  <2> DEFINE rows == <<>>
  <2>6. a = Holding(f, n, 0, rows)
    BY <2>2
  <2> HIDE DEF a, rows
  <2>8. HandlePlain(a, e) = Quiet(Holding(f, n, 0, <<>>))
    BY <1>1, <2>1, <2>6, EffectOfBegin
  <2> HIDE DEF Holding, One
  <2> QED
    BY <1>2, <2>3, <2>4, <2>5, <2>6, <2>8 DEF Turn, a, rows, Quiet, Given
<1>4. CASE j = 2
  <2>1. e.type = "annotate" /\ e.stmt = 1
    BY <1>4, FormsAre DEF Is, Begin, Commit, Rows, Event
  <2>2. Announced("statements", j - 1) = 0 /\ InHand("statements", j - 1, g) = <<>>
    BY <1>4 DEF Announced, InHand
  <2>3. Announced("statements", j) = 1 /\ InHand("statements", j, g) = <<>>
    BY <1>4 DEF Announced, InHand
  <2>4. GivenOut("statements", j, g) = <<>> /\ Missed("statements", j, g) = <<>>
    BY <1>4 DEF GivenOut, InHand, Missed
  <2>5. NameAfter("statements", j, n) = n
    BY <1>4, <1>1 DEF NameAfter
  <2> DEFINE rows == <<>>
  <2>6. a = Holding(f, n, 0, rows)
    BY <2>2
  <2> HIDE DEF a, rows
  <2>8. HandlePlain(a, e) = Quiet(Holding(f, n, 1, rows))
    BY <1>1, <2>1, <2>6, EffectOfAnnotate
  <2> HIDE DEF Holding, One
  <2> QED
    BY <1>2, <2>3, <2>4, <2>5, <2>6, <2>8 DEF Turn, a, rows, Quiet, Given
<1>5. CASE j = 3
  <2>1. e.type = "rows" /\ e.stmt = 1
    BY <1>5, FormsAre DEF Is, Begin, Commit, Rows, Event
  <2>2. Announced("statements", j - 1) = 1 /\ InHand("statements", j - 1, g) = <<>>
    BY <1>5 DEF Announced, InHand
  <2>3. Announced("statements", j) = 0 /\ InHand("statements", j, g) = One(RowOf(g, 1, 1, TRUE))
    BY <1>5 DEF Announced, InHand
  <2>4. GivenOut("statements", j, g) = <<>> /\ Missed("statements", j, g) = <<>>
    BY <1>5 DEF GivenOut, InHand, Missed
  <2>5. NameAfter("statements", j, n) = n
    BY <1>5, <1>1 DEF NameAfter
  <2> DEFINE rows == <<>>
  <2>6. a = Holding(f, n, 1, rows)
    BY <2>2
  <2> HIDE DEF a, rows
  <2>7. Row(e, 1) = RowOf(g, 1, 1, TRUE)
    BY <1>1, <2>1 DEF Row, RowOf
  <2>8. HandlePlain(a, e) = Quiet(Holding(f, n, 0, One(RowOf(g, 1, 1, TRUE))))
    <3>1. HandlePlain(a, e) = Quiet(Holding(f, n, 0, Append(rows, Row(e, 1))))
      BY <2>1, <2>6, EffectOfRows
    <3> QED
      BY <3>1, <2>7 DEF One, Two, rows
  <2> HIDE DEF Holding, One
  <2> QED
    BY <1>2, <2>3, <2>4, <2>5, <2>8 DEF Turn, a, rows, Quiet, Given
<1>6. CASE j = 4
  <2>1. e.type = "rows" /\ e.stmt = 2
    BY <1>6, FormsAre DEF Is, Begin, Commit, Rows, Event
  <2>2. Announced("statements", j - 1) = 0 /\ InHand("statements", j - 1, g) = One(RowOf(g, 1, 1, TRUE))
    BY <1>6 DEF Announced, InHand
  <2>3. Announced("statements", j) = 0 /\ InHand("statements", j, g) = Two(RowOf(g, 1, 1, TRUE), RowOf(g, 2, 0, TRUE))
    BY <1>6 DEF Announced, InHand
  <2>4. GivenOut("statements", j, g) = <<>> /\ Missed("statements", j, g) = <<>>
    BY <1>6 DEF GivenOut, InHand, Missed
  <2>5. NameAfter("statements", j, n) = n
    BY <1>6, <1>1 DEF NameAfter
  <2> DEFINE rows == One(RowOf(g, 1, 1, TRUE))
  <2>6. a = Holding(f, n, 0, rows)
    BY <2>2
  <2> HIDE DEF a, rows
  <2>7. Row(e, 0) = RowOf(g, 2, 0, TRUE)
    BY <1>1, <2>1 DEF Row, RowOf
  <2>8. HandlePlain(a, e) = Quiet(Holding(f, n, 0, Two(RowOf(g, 1, 1, TRUE), RowOf(g, 2, 0, TRUE))))
    <3>1. HandlePlain(a, e) = Quiet(Holding(f, n, 0, Append(rows, Row(e, 0))))
      BY <2>1, <2>6, EffectOfRows
    <3> QED
      BY <3>1, <2>7 DEF One, Two, rows
  <2> HIDE DEF Holding, One
  <2> QED
    BY <1>2, <2>3, <2>4, <2>5, <2>8 DEF Turn, a, rows, Quiet, Given
<1>7. CASE j = 5
  <2>1. e.type = "commit" /\ e.stmt = 0
    BY <1>7, FormsAre DEF Is, Begin, Commit, Rows, Event
  <2>2. Announced("statements", j - 1) = 0 /\ InHand("statements", j - 1, g) = Two(RowOf(g, 1, 1, TRUE), RowOf(g, 2, 0, TRUE))
    BY <1>7 DEF Announced, InHand
  <2>3. Announced("statements", j) = 0 /\ InHand("statements", j, g) = <<>>
    BY <1>7 DEF Announced, InHand
  <2>4. GivenOut("statements", j, g) = Two(RowOf(g, 1, 1, TRUE), RowOf(g, 2, 0, TRUE)) /\ Missed("statements", j, g) = <<>>
    BY <1>7 DEF GivenOut, InHand, Missed
  <2>5. NameAfter("statements", j, n) = 0
    BY <1>7, <1>1 DEF NameAfter
  <2> DEFINE rows == Two(RowOf(g, 1, 1, TRUE), RowOf(g, 2, 0, TRUE))
  <2>6. a = Holding(f, n, 0, rows)
    BY <2>2
  <2> HIDE DEF a, rows
  <2>8. HandlePlain(a, e) = Result(Holding(f, 0, 0, <<>>), Given(rows, IDOf(f, n, e)), <<>>)
    BY <1>1, <2>1, <2>6, EffectOfCommit
  <2> HIDE DEF Holding, One
  <2> QED
    BY <1>2, <2>3, <2>4, <2>5, <2>6, <2>8 DEF Turn, a, rows
<1> QED
  BY <1>3, <1>4, <1>5, <1>6, <1>7

\* Rows of tables not asked for.
LEMMA TurnUnwanted ==
    ASSUME NEW g, NEW f, NEW n, NEW j \in 1 .. 3, NEW e, Is(e, g, Forms["unwanted"][j])
    PROVE  Turn(f, n, e, "unwanted", j, g)
<1> DEFINE a == Holding(f, n, Announced("unwanted", j - 1), InHand("unwanted", j - 1, g))
<1>1. Size("unwanted") = 3 /\ e.group = g
  BY FormsAre DEF Size, Is
<1>2. Handle(a, e) = HandlePlain(a, e)
  <2>1. e.type # "payload"
    BY FormsAre DEF Is, Begin, Commit, Rows, Event
  <2> QED
    BY <2>1 DEF Handle
<1>3. CASE j = 1
  <2>1. e.type = "begin" /\ e.stmt = 0
    BY <1>3, FormsAre DEF Is, Begin, Commit, Rows, Event
  <2>2. Announced("unwanted", j - 1) = 0 /\ InHand("unwanted", j - 1, g) = <<>>
    BY <1>3 DEF Announced, InHand
  <2>3. Announced("unwanted", j) = 0 /\ InHand("unwanted", j, g) = <<>>
    BY <1>3 DEF Announced, InHand
  <2>4. GivenOut("unwanted", j, g) = <<>> /\ Missed("unwanted", j, g) = <<>>
    BY <1>3 DEF GivenOut, InHand, Missed
  <2>5. NameAfter("unwanted", j, n) = n
    BY <1>3, <1>1 DEF NameAfter
  <2> DEFINE rows == <<>>
  <2>6. a = Holding(f, n, 0, rows)
    BY <2>2
  <2> HIDE DEF a, rows
  <2>8. HandlePlain(a, e) = Quiet(Holding(f, n, 0, <<>>))
    BY <1>1, <2>1, <2>6, EffectOfBegin
  <2> HIDE DEF Holding, One
  <2> QED
    BY <1>2, <2>3, <2>4, <2>5, <2>6, <2>8 DEF Turn, a, rows, Quiet, Given
<1>4. CASE j = 2
  <2>1. e.type = "unwanted" /\ e.stmt = 1
    BY <1>4, FormsAre DEF Is, Begin, Commit, Rows, Event
  <2>2. Announced("unwanted", j - 1) = 0 /\ InHand("unwanted", j - 1, g) = <<>>
    BY <1>4 DEF Announced, InHand
  <2>3. Announced("unwanted", j) = 0 /\ InHand("unwanted", j, g) = One(RowOf(g, 1, 0, FALSE))
    BY <1>4 DEF Announced, InHand
  <2>4. GivenOut("unwanted", j, g) = <<>> /\ Missed("unwanted", j, g) = <<>>
    BY <1>4 DEF GivenOut, InHand, Missed
  <2>5. NameAfter("unwanted", j, n) = n
    BY <1>4, <1>1 DEF NameAfter
  <2> DEFINE rows == <<>>
  <2>6. a = Holding(f, n, 0, rows)
    BY <2>2
  <2> HIDE DEF a, rows
  <2>7. Row(e, 0) = RowOf(g, 1, 0, FALSE)
    BY <1>1, <2>1 DEF Row, RowOf
  <2>8. HandlePlain(a, e) = Quiet(Holding(f, n, 0, One(RowOf(g, 1, 0, FALSE))))
    <3>1. HandlePlain(a, e) = Quiet(Holding(f, n, 0, Append(rows, Row(e, 0))))
      BY <2>1, <2>6, EffectOfRows
    <3> QED
      BY <3>1, <2>7 DEF One, Two, rows
  <2> HIDE DEF Holding, One
  <2> QED
    BY <1>2, <2>3, <2>4, <2>5, <2>8 DEF Turn, a, rows, Quiet, Given
<1>5. CASE j = 3
  <2>1. e.type = "commit" /\ e.stmt = 0
    BY <1>5, FormsAre DEF Is, Begin, Commit, Rows, Event
  <2>2. Announced("unwanted", j - 1) = 0 /\ InHand("unwanted", j - 1, g) = One(RowOf(g, 1, 0, FALSE))
    BY <1>5 DEF Announced, InHand
  <2>3. Announced("unwanted", j) = 0 /\ InHand("unwanted", j, g) = <<>>
    BY <1>5 DEF Announced, InHand
  <2>4. GivenOut("unwanted", j, g) = One(RowOf(g, 1, 0, FALSE)) /\ Missed("unwanted", j, g) = <<>>
    BY <1>5 DEF GivenOut, InHand, Missed
  <2>5. NameAfter("unwanted", j, n) = 0
    BY <1>5, <1>1 DEF NameAfter
  <2> DEFINE rows == One(RowOf(g, 1, 0, FALSE))
  <2>6. a = Holding(f, n, 0, rows)
    BY <2>2
  <2> HIDE DEF a, rows
  <2>8. HandlePlain(a, e) = Result(Holding(f, 0, 0, <<>>), Given(rows, IDOf(f, n, e)), <<>>)
    BY <1>1, <2>1, <2>6, EffectOfCommit
  <2> HIDE DEF Holding, One
  <2> QED
    BY <1>2, <2>3, <2>4, <2>5, <2>6, <2>8 DEF Turn, a, rows
<1> QED
  BY <1>3, <1>4, <1>5

\* Rows that can be read, some that cannot, announced, and rows that can, not
\* announced: they are given the statement of those that cannot.
LEMMA TurnUnreadable ==
    ASSUME NEW g, NEW f, NEW n, NEW j \in 1 .. 6, NEW e, Is(e, g, Forms["unreadable"][j])
    PROVE  Turn(f, n, e, "unreadable", j, g)
<1> DEFINE a == Holding(f, n, Announced("unreadable", j - 1), InHand("unreadable", j - 1, g))
<1>1. Size("unreadable") = 6 /\ e.group = g
  BY FormsAre DEF Size, Is
<1>2. Handle(a, e) = HandlePlain(a, e)
  <2>1. e.type # "payload"
    BY FormsAre DEF Is, Begin, Commit, Rows, Event
  <2> QED
    BY <2>1 DEF Handle
<1>3. CASE j = 1
  <2>1. e.type = "begin" /\ e.stmt = 0
    BY <1>3, FormsAre DEF Is, Begin, Commit, Rows, Event
  <2>2. /\ Announced("unreadable", j - 1) = 0
        /\ InHand("unreadable", j - 1, g) = <<>>
    BY <1>3 DEF Announced, InHand
  <2>3. /\ Announced("unreadable", j) = 0
        /\ InHand("unreadable", j, g) = <<>>
    BY <1>3 DEF Announced, InHand
  <2>4. /\ GivenOut("unreadable", j, g) = <<>>
        /\ Missed("unreadable", j, g) = <<>>
    BY <1>3 DEF GivenOut, InHand, Missed
  <2>5. NameAfter("unreadable", j, n) = n
    BY <1>3, <1>1 DEF NameAfter
  <2> DEFINE rows == <<>>
  <2>6. a = Holding(f, n, 0, rows)
    BY <2>2
  <2> HIDE DEF a, rows
  <2>8. HandlePlain(a, e) = Quiet(Holding(f, n, 0, <<>>))
    BY <1>1, <2>1, <2>6, EffectOfBegin
  <2> HIDE DEF Holding, One
  <2> QED
    BY <1>2, <2>3, <2>4, <2>5, <2>6, <2>8 DEF Turn, a, rows, Quiet, Given
<1>4. CASE j = 2
  <2>1. e.type = "rows" /\ e.stmt = 1
    BY <1>4, FormsAre DEF Is, Begin, Commit, Rows, Event
  <2>2. /\ Announced("unreadable", j - 1) = 0
        /\ InHand("unreadable", j - 1, g) = <<>>
    BY <1>4 DEF Announced, InHand
  <2>3. /\ Announced("unreadable", j) = 0
        /\ InHand("unreadable", j, g) = One(RowOf(g, 1, 0, TRUE))
    BY <1>4 DEF Announced, InHand
  <2>4. /\ GivenOut("unreadable", j, g) = <<>>
        /\ Missed("unreadable", j, g) = <<>>
    BY <1>4 DEF GivenOut, InHand, Missed
  <2>5. NameAfter("unreadable", j, n) = n
    BY <1>4, <1>1 DEF NameAfter
  <2> DEFINE rows == <<>>
  <2>6. a = Holding(f, n, 0, rows)
    BY <2>2
  <2> HIDE DEF a, rows
  <2>7. Row(e, 0) = RowOf(g, 1, 0, TRUE)
    BY <1>1, <2>1 DEF Row, RowOf
  <2>8. HandlePlain(a, e) = Quiet(Holding(f, n, 0, One(RowOf(g, 1, 0, TRUE))))
    <3>1. HandlePlain(a, e) = Quiet(Holding(f, n, 0, Append(rows, Row(e, 0))))
      BY <2>1, <2>6, EffectOfRows
    <3> QED
      BY <3>1, <2>7 DEF One, Two, rows
  <2> HIDE DEF Holding, One
  <2> QED
    BY <1>2, <2>3, <2>4, <2>5, <2>8 DEF Turn, a, rows, Quiet, Given
<1>5. CASE j = 3
  <2>1. e.type = "annotate" /\ e.stmt = 2
    BY <1>5, FormsAre DEF Is, Begin, Commit, Rows, Event
  <2>2. /\ Announced("unreadable", j - 1) = 0
        /\ InHand("unreadable", j - 1, g) = One(RowOf(g, 1, 0, TRUE))
    BY <1>5 DEF Announced, InHand
  <2>3. /\ Announced("unreadable", j) = 2
        /\ InHand("unreadable", j, g) = One(RowOf(g, 1, 0, TRUE))
    BY <1>5 DEF Announced, InHand
  <2>4. /\ GivenOut("unreadable", j, g) = <<>>
        /\ Missed("unreadable", j, g) = <<>>
    BY <1>5 DEF GivenOut, InHand, Missed
  <2>5. NameAfter("unreadable", j, n) = n
    BY <1>5, <1>1 DEF NameAfter
  <2> DEFINE rows == One(RowOf(g, 1, 0, TRUE))
  <2>6. a = Holding(f, n, 0, rows)
    BY <2>2
  <2> HIDE DEF a, rows
  <2>8. HandlePlain(a, e) = Quiet(Holding(f, n, 2, rows))
    BY <1>1, <2>1, <2>6, EffectOfAnnotate
  <2> HIDE DEF Holding, One
  <2> QED
    BY <1>2, <2>3, <2>4, <2>5, <2>6, <2>8 DEF Turn, a, rows, Quiet, Given
<1>6. CASE j = 4
  <2>1. e.type = "unreadable" /\ e.stmt = 2
    BY <1>6, FormsAre DEF Is, Begin, Commit, Rows, Event
  <2>2. /\ Announced("unreadable", j - 1) = 2
        /\ InHand("unreadable", j - 1, g) = One(RowOf(g, 1, 0, TRUE))
    BY <1>6 DEF Announced, InHand
  <2>3. /\ Announced("unreadable", j) = 2
        /\ InHand("unreadable", j, g) = One(RowOf(g, 1, 0, TRUE))
    BY <1>6 DEF Announced, InHand
  <2>4. /\ GivenOut("unreadable", j, g) = <<>>
        /\ Missed("unreadable", j, g) = <<[group |-> g, stmt |-> 2]>>
    BY <1>6 DEF GivenOut, InHand, Missed
  <2>5. NameAfter("unreadable", j, n) = n
    BY <1>6, <1>1 DEF NameAfter
  <2> DEFINE rows == One(RowOf(g, 1, 0, TRUE))
  <2>6. a = Holding(f, n, 2, rows)
    BY <2>2
  <2> HIDE DEF a, rows
  <2>8. HandlePlain(a, e) = Result(a, <<>>, <<[group |-> g, stmt |-> 2]>>)
    <3>1. HandlePlain(a, e) = Result(a, <<>>, <<[group |-> e.group, stmt |-> e.stmt]>>)
      BY <2>1, PlainTypes
    <3>2. [group |-> e.group, stmt |-> e.stmt] = [group |-> g, stmt |-> 2]
      BY <1>1, <2>1
    <3> QED
      BY <3>1, <3>2
  <2> HIDE DEF Holding, One
  <2> QED
    BY <1>2, <2>3, <2>4, <2>5, <2>6, <2>8 DEF Turn, a, rows, Quiet, Given
<1>7. CASE j = 5
  <2>1. e.type = "rows" /\ e.stmt = 3
    BY <1>7, FormsAre DEF Is, Begin, Commit, Rows, Event
  <2>2. /\ Announced("unreadable", j - 1) = 2
        /\ InHand("unreadable", j - 1, g) = One(RowOf(g, 1, 0, TRUE))
    BY <1>7 DEF Announced, InHand
  <2>3. /\ Announced("unreadable", j) = 0
        /\ InHand("unreadable", j, g) = Two(RowOf(g, 1, 0, TRUE), RowOf(g, 3, 2, TRUE))
    BY <1>7 DEF Announced, InHand
  <2>4. /\ GivenOut("unreadable", j, g) = <<>>
        /\ Missed("unreadable", j, g) = <<>>
    BY <1>7 DEF GivenOut, InHand, Missed
  <2>5. NameAfter("unreadable", j, n) = n
    BY <1>7, <1>1 DEF NameAfter
  <2> DEFINE rows == One(RowOf(g, 1, 0, TRUE))
  <2>6. a = Holding(f, n, 2, rows)
    BY <2>2
  <2> HIDE DEF a, rows
  <2>7. Row(e, 2) = RowOf(g, 3, 2, TRUE)
    BY <1>1, <2>1 DEF Row, RowOf
  <2>8. HandlePlain(a, e) = Quiet(Holding(f, n, 0, Two(RowOf(g, 1, 0, TRUE), RowOf(g, 3, 2, TRUE))))
    <3>1. HandlePlain(a, e) = Quiet(Holding(f, n, 0, Append(rows, Row(e, 2))))
      BY <2>1, <2>6, EffectOfRows
    <3> QED
      BY <3>1, <2>7 DEF One, Two, rows
  <2> HIDE DEF Holding, One
  <2> QED
    BY <1>2, <2>3, <2>4, <2>5, <2>8 DEF Turn, a, rows, Quiet, Given
<1>8. CASE j = 6
  <2>1. e.type = "commit" /\ e.stmt = 0
    BY <1>8, FormsAre DEF Is, Begin, Commit, Rows, Event
  <2>2. /\ Announced("unreadable", j - 1) = 0
        /\ InHand("unreadable", j - 1, g) = Two(RowOf(g, 1, 0, TRUE), RowOf(g, 3, 2, TRUE))
    BY <1>8 DEF Announced, InHand
  <2>3. /\ Announced("unreadable", j) = 0
        /\ InHand("unreadable", j, g) = <<>>
    BY <1>8 DEF Announced, InHand
  <2>4. /\ GivenOut("unreadable", j, g) = Two(RowOf(g, 1, 0, TRUE), RowOf(g, 3, 2, TRUE))
        /\ Missed("unreadable", j, g) = <<>>
    BY <1>8 DEF GivenOut, InHand, Missed
  <2>5. NameAfter("unreadable", j, n) = 0
    BY <1>8, <1>1 DEF NameAfter
  <2> DEFINE rows == Two(RowOf(g, 1, 0, TRUE), RowOf(g, 3, 2, TRUE))
  <2>6. a = Holding(f, n, 0, rows)
    BY <2>2
  <2> HIDE DEF a, rows
  <2>8. HandlePlain(a, e) = Result(Holding(f, 0, 0, <<>>), Given(rows, IDOf(f, n, e)), <<>>)
    BY <1>1, <2>1, <2>6, EffectOfCommit
  <2> HIDE DEF Holding, One
  <2> QED
    BY <1>2, <2>3, <2>4, <2>5, <2>6, <2>8 DEF Turn, a, rows
<1> QED
  BY <1>3, <1>4, <1>5, <1>6, <1>7, <1>8

\* Rows, and a ROLLBACK.
LEMMA TurnRolledBack ==
    ASSUME NEW g, NEW f, NEW n, NEW j \in 1 .. 3, NEW e, Is(e, g, Forms["rolledback"][j])
    PROVE  Turn(f, n, e, "rolledback", j, g)
<1> DEFINE a == Holding(f, n, Announced("rolledback", j - 1), InHand("rolledback", j - 1, g))
<1>1. Size("rolledback") = 3 /\ e.group = g
  BY FormsAre DEF Size, Is
<1>2. Handle(a, e) = HandlePlain(a, e)
  <2>1. e.type # "payload"
    BY FormsAre DEF Is, Begin, Commit, Rows, Event
  <2> QED
    BY <2>1 DEF Handle
<1>3. CASE j = 1
  <2>1. e.type = "begin" /\ e.stmt = 0
    BY <1>3, FormsAre DEF Is, Begin, Commit, Rows, Event
  <2>2. Announced("rolledback", j - 1) = 0 /\ InHand("rolledback", j - 1, g) = <<>>
    BY <1>3 DEF Announced, InHand
  <2>3. Announced("rolledback", j) = 0 /\ InHand("rolledback", j, g) = <<>>
    BY <1>3 DEF Announced, InHand
  <2>4. GivenOut("rolledback", j, g) = <<>> /\ Missed("rolledback", j, g) = <<>>
    BY <1>3 DEF GivenOut, InHand, Missed
  <2>5. NameAfter("rolledback", j, n) = n
    BY <1>3, <1>1 DEF NameAfter
  <2> DEFINE rows == <<>>
  <2>6. a = Holding(f, n, 0, rows)
    BY <2>2
  <2> HIDE DEF a, rows
  <2>8. HandlePlain(a, e) = Quiet(Holding(f, n, 0, <<>>))
    BY <1>1, <2>1, <2>6, EffectOfBegin
  <2> HIDE DEF Holding, One
  <2> QED
    BY <1>2, <2>3, <2>4, <2>5, <2>6, <2>8 DEF Turn, a, rows, Quiet, Given
<1>4. CASE j = 2
  <2>1. e.type = "rows" /\ e.stmt = 1
    BY <1>4, FormsAre DEF Is, Begin, Commit, Rows, Event
  <2>2. Announced("rolledback", j - 1) = 0 /\ InHand("rolledback", j - 1, g) = <<>>
    BY <1>4 DEF Announced, InHand
  <2>3. Announced("rolledback", j) = 0 /\ InHand("rolledback", j, g) = One(RowOf(g, 1, 0, TRUE))
    BY <1>4 DEF Announced, InHand
  <2>4. GivenOut("rolledback", j, g) = <<>> /\ Missed("rolledback", j, g) = <<>>
    BY <1>4 DEF GivenOut, InHand, Missed
  <2>5. NameAfter("rolledback", j, n) = n
    BY <1>4, <1>1 DEF NameAfter
  <2> DEFINE rows == <<>>
  <2>6. a = Holding(f, n, 0, rows)
    BY <2>2
  <2> HIDE DEF a, rows
  <2>7. Row(e, 0) = RowOf(g, 1, 0, TRUE)
    BY <1>1, <2>1 DEF Row, RowOf
  <2>8. HandlePlain(a, e) = Quiet(Holding(f, n, 0, One(RowOf(g, 1, 0, TRUE))))
    <3>1. HandlePlain(a, e) = Quiet(Holding(f, n, 0, Append(rows, Row(e, 0))))
      BY <2>1, <2>6, EffectOfRows
    <3> QED
      BY <3>1, <2>7 DEF One, Two, rows
  <2> HIDE DEF Holding, One
  <2> QED
    BY <1>2, <2>3, <2>4, <2>5, <2>8 DEF Turn, a, rows, Quiet, Given
<1>5. CASE j = 3
  <2>1. e.type = "rollback" /\ e.stmt = 0
    BY <1>5, FormsAre DEF Is, Begin, Commit, Rows, Event
  <2>2. Announced("rolledback", j - 1) = 0 /\ InHand("rolledback", j - 1, g) = One(RowOf(g, 1, 0, TRUE))
    BY <1>5 DEF Announced, InHand
  <2>3. Announced("rolledback", j) = 0 /\ InHand("rolledback", j, g) = <<>>
    BY <1>5 DEF Announced, InHand
  <2>4. GivenOut("rolledback", j, g) = <<>> /\ Missed("rolledback", j, g) = <<>>
    BY <1>5 DEF GivenOut, InHand, Missed
  <2>5. NameAfter("rolledback", j, n) = 0
    BY <1>5, <1>1 DEF NameAfter
  <2> DEFINE rows == One(RowOf(g, 1, 0, TRUE))
  <2>6. a = Holding(f, n, 0, rows)
    BY <2>2
  <2> HIDE DEF a, rows
  <2>8. HandlePlain(a, e) = Quiet(Holding(f, 0, 0, <<>>))
    BY <1>1, <2>1, <2>6, EffectOfRollback
  <2> HIDE DEF Holding, One
  <2> QED
    BY <1>2, <2>3, <2>4, <2>5, <2>6, <2>8 DEF Turn, a, rows, Quiet, Given
<1> QED
  BY <1>3, <1>4, <1>5

\* A schema change.
LEMMA TurnSchemaChange ==
    ASSUME NEW g, NEW f, NEW n, NEW j \in 1 .. 1, NEW e, Is(e, g, Forms["ddl"][j])
    PROVE  Turn(f, n, e, "ddl", j, g)
<1> DEFINE a == Holding(f, n, Announced("ddl", j - 1), InHand("ddl", j - 1, g))
<1>1. Size("ddl") = 1 /\ e.group = g
  BY FormsAre DEF Size, Is
<1>2. Handle(a, e) = HandlePlain(a, e)
  <2>1. e.type # "payload"
    BY FormsAre DEF Is, Begin, Commit, Rows, Event
  <2> QED
    BY <2>1 DEF Handle
<1>3. CASE j = 1
  <2>1. e.type = "ddl" /\ e.stmt = 1
    BY <1>3, FormsAre DEF Is, Begin, Commit, Rows, Event
  <2>2. Announced("ddl", j - 1) = 0 /\ InHand("ddl", j - 1, g) = <<>>
    BY <1>3 DEF Announced, InHand
  <2>3. Announced("ddl", j) = 0 /\ InHand("ddl", j, g) = <<>>
    BY <1>3 DEF Announced, InHand
  <2>4. GivenOut("ddl", j, g) = One(RowOf(g, 1, 1, TRUE)) /\ Missed("ddl", j, g) = <<>>
    BY <1>3 DEF GivenOut, InHand, Missed
  <2>5. NameAfter("ddl", j, n) = n
    BY <1>3, <1>1 DEF NameAfter
  <2> DEFINE rows == <<>>
  <2>6. a = Holding(f, n, 0, rows)
    BY <2>2
  <2> HIDE DEF a, rows
  <2>7. Row(e, 1) = RowOf(g, 1, 1, TRUE)
    BY <1>1, <2>1 DEF Row, RowOf
  <2>8. HandlePlain(a, e) = Result(a, <<[id |-> IDOf(f, n, e), rows |-> One(RowOf(g, 1, 1, TRUE))]>>, <<>>)
    <3>1. HandlePlain(a, e) = Result(a, <<[id |-> IDOf(f, n, e), rows |-> <<Row(e, e.stmt)>>]>>, <<>>)
      BY <2>1, <2>6, EffectOfSchemaChange
    <3>2. <<Row(e, e.stmt)>> = One(RowOf(g, 1, 1, TRUE))
      BY <2>1, <2>7, OneIs
    <3> QED
      BY <3>1, <3>2
  <2>9. One(RowOf(g, 1, 1, TRUE)) # <<>>
    BY OneIs
  <2> HIDE DEF Holding, One
  <2> QED
    BY <1>2, <2>3, <2>4, <2>5, <2>6, <2>8, <2>9 DEF Turn, a, rows, Given
<1> QED
  BY <1>3

\* A statement that changes nothing.
LEMMA TurnSession ==
    ASSUME NEW g, NEW f, NEW n, NEW j \in 1 .. 1, NEW e, Is(e, g, Forms["session"][j])
    PROVE  Turn(f, n, e, "session", j, g)
<1> DEFINE a == Holding(f, n, Announced("session", j - 1), InHand("session", j - 1, g))
<1>1. Size("session") = 1 /\ e.group = g
  BY FormsAre DEF Size, Is
<1>2. Handle(a, e) = HandlePlain(a, e)
  <2>1. e.type # "payload"
    BY FormsAre DEF Is, Begin, Commit, Rows, Event
  <2> QED
    BY <2>1 DEF Handle
<1>3. CASE j = 1
  <2>1. e.type = "session" /\ e.stmt = 0
    BY <1>3, FormsAre DEF Is, Begin, Commit, Rows, Event
  <2>2. Announced("session", j - 1) = 0 /\ InHand("session", j - 1, g) = <<>>
    BY <1>3 DEF Announced, InHand
  <2>3. Announced("session", j) = 0 /\ InHand("session", j, g) = <<>>
    BY <1>3 DEF Announced, InHand
  <2>4. GivenOut("session", j, g) = <<>> /\ Missed("session", j, g) = <<>>
    BY <1>3 DEF GivenOut, InHand, Missed
  <2>5. NameAfter("session", j, n) = n
    BY <1>3, <1>1 DEF NameAfter
  <2> DEFINE rows == <<>>
  <2>6. a = Holding(f, n, 0, rows)
    BY <2>2
  <2> HIDE DEF a, rows
  <2>8. HandlePlain(a, e) = Quiet(a)
    BY <1>1, <2>1, <2>6, PlainTypes
  <2> HIDE DEF Holding, One
  <2> QED
    BY <1>2, <2>3, <2>4, <2>5, <2>6, <2>8 DEF Turn, a, rows, Quiet, Given
<1> QED
  BY <1>3

\* A schema change inside a transaction, which ends nothing.
LEMMA TurnCreate ==
    ASSUME NEW g, NEW f, NEW n, NEW j \in 1 .. 4, NEW e, Is(e, g, Forms["create"][j])
    PROVE  Turn(f, n, e, "create", j, g)
<1> DEFINE a == Holding(f, n, Announced("create", j - 1), InHand("create", j - 1, g))
<1>1. Size("create") = 4 /\ e.group = g
  BY FormsAre DEF Size, Is
<1>2. Handle(a, e) = HandlePlain(a, e)
  <2>1. e.type # "payload"
    BY FormsAre DEF Is, Begin, Commit, Rows, Event
  <2> QED
    BY <2>1 DEF Handle
<1>3. CASE j = 1
  <2>1. e.type = "begin" /\ e.stmt = 0
    BY <1>3, FormsAre DEF Is, Begin, Commit, Rows, Event
  <2>2. Announced("create", j - 1) = 0 /\ InHand("create", j - 1, g) = <<>>
    BY <1>3 DEF Announced, InHand
  <2>3. Announced("create", j) = 0 /\ InHand("create", j, g) = <<>>
    BY <1>3 DEF Announced, InHand
  <2>4. GivenOut("create", j, g) = <<>> /\ Missed("create", j, g) = <<>>
    BY <1>3 DEF GivenOut, InHand, Missed
  <2>5. NameAfter("create", j, n) = n
    BY <1>3, <1>1 DEF NameAfter
  <2> DEFINE rows == <<>>
  <2>6. a = Holding(f, n, 0, rows)
    BY <2>2
  <2> HIDE DEF a, rows
  <2>8. HandlePlain(a, e) = Quiet(Holding(f, n, 0, <<>>))
    BY <1>1, <2>1, <2>6, EffectOfBegin
  <2> HIDE DEF Holding, One
  <2> QED
    BY <1>2, <2>3, <2>4, <2>5, <2>6, <2>8 DEF Turn, a, rows, Quiet, Given
<1>4. CASE j = 2
  <2>1. e.type = "ddl" /\ e.stmt = 1
    BY <1>4, FormsAre DEF Is, Begin, Commit, Rows, Event
  <2>2. Announced("create", j - 1) = 0 /\ InHand("create", j - 1, g) = <<>>
    BY <1>4 DEF Announced, InHand
  <2>3. Announced("create", j) = 0 /\ InHand("create", j, g) = <<>>
    BY <1>4 DEF Announced, InHand
  <2>4. GivenOut("create", j, g) = One(RowOf(g, 1, 1, TRUE)) /\ Missed("create", j, g) = <<>>
    BY <1>4 DEF GivenOut, InHand, Missed
  <2>5. NameAfter("create", j, n) = n
    BY <1>4, <1>1 DEF NameAfter
  <2> DEFINE rows == <<>>
  <2>6. a = Holding(f, n, 0, rows)
    BY <2>2
  <2> HIDE DEF a, rows
  <2>7. Row(e, 1) = RowOf(g, 1, 1, TRUE)
    BY <1>1, <2>1 DEF Row, RowOf
  <2>8. HandlePlain(a, e) = Result(a, <<[id |-> IDOf(f, n, e), rows |-> One(RowOf(g, 1, 1, TRUE))]>>, <<>>)
    <3>1. HandlePlain(a, e) = Result(a, <<[id |-> IDOf(f, n, e), rows |-> <<Row(e, e.stmt)>>]>>, <<>>)
      BY <2>1, <2>6, EffectOfSchemaChange
    <3>2. <<Row(e, e.stmt)>> = One(RowOf(g, 1, 1, TRUE))
      BY <2>1, <2>7, OneIs
    <3> QED
      BY <3>1, <3>2
  <2>9. One(RowOf(g, 1, 1, TRUE)) # <<>>
    BY OneIs
  <2> HIDE DEF Holding, One
  <2> QED
    BY <1>2, <2>3, <2>4, <2>5, <2>6, <2>8, <2>9 DEF Turn, a, rows, Given
<1>5. CASE j = 3
  <2>1. e.type = "rows" /\ e.stmt = 2
    BY <1>5, FormsAre DEF Is, Begin, Commit, Rows, Event
  <2>2. Announced("create", j - 1) = 0 /\ InHand("create", j - 1, g) = <<>>
    BY <1>5 DEF Announced, InHand
  <2>3. Announced("create", j) = 0 /\ InHand("create", j, g) = One(RowOf(g, 2, 0, TRUE))
    BY <1>5 DEF Announced, InHand
  <2>4. GivenOut("create", j, g) = <<>> /\ Missed("create", j, g) = <<>>
    BY <1>5 DEF GivenOut, InHand, Missed
  <2>5. NameAfter("create", j, n) = n
    BY <1>5, <1>1 DEF NameAfter
  <2> DEFINE rows == <<>>
  <2>6. a = Holding(f, n, 0, rows)
    BY <2>2
  <2> HIDE DEF a, rows
  <2>7. Row(e, 0) = RowOf(g, 2, 0, TRUE)
    BY <1>1, <2>1 DEF Row, RowOf
  <2>8. HandlePlain(a, e) = Quiet(Holding(f, n, 0, One(RowOf(g, 2, 0, TRUE))))
    <3>1. HandlePlain(a, e) = Quiet(Holding(f, n, 0, Append(rows, Row(e, 0))))
      BY <2>1, <2>6, EffectOfRows
    <3> QED
      BY <3>1, <2>7 DEF One, Two, rows
  <2> HIDE DEF Holding, One
  <2> QED
    BY <1>2, <2>3, <2>4, <2>5, <2>8 DEF Turn, a, rows, Quiet, Given
<1>6. CASE j = 4
  <2>1. e.type = "commit" /\ e.stmt = 0
    BY <1>6, FormsAre DEF Is, Begin, Commit, Rows, Event
  <2>2. Announced("create", j - 1) = 0 /\ InHand("create", j - 1, g) = One(RowOf(g, 2, 0, TRUE))
    BY <1>6 DEF Announced, InHand
  <2>3. Announced("create", j) = 0 /\ InHand("create", j, g) = <<>>
    BY <1>6 DEF Announced, InHand
  <2>4. GivenOut("create", j, g) = One(RowOf(g, 2, 0, TRUE)) /\ Missed("create", j, g) = <<>>
    BY <1>6 DEF GivenOut, InHand, Missed
  <2>5. NameAfter("create", j, n) = 0
    BY <1>6, <1>1 DEF NameAfter
  <2> DEFINE rows == One(RowOf(g, 2, 0, TRUE))
  <2>6. a = Holding(f, n, 0, rows)
    BY <2>2
  <2> HIDE DEF a, rows
  <2>8. HandlePlain(a, e) = Result(Holding(f, 0, 0, <<>>), Given(rows, IDOf(f, n, e)), <<>>)
    BY <1>1, <2>1, <2>6, EffectOfCommit
  <2> HIDE DEF Holding, One
  <2> QED
    BY <1>2, <2>3, <2>4, <2>5, <2>6, <2>8 DEF Turn, a, rows
<1> QED
  BY <1>3, <1>4, <1>5, <1>6

\* An XA transaction, up to the event that is refused.
LEMMA TurnXA ==
    ASSUME NEW g, NEW f, NEW n, NEW j \in 1 .. 2, NEW e, Is(e, g, Forms["xa"][j])
    PROVE  Turn(f, n, e, "xa", j, g)
<1> DEFINE a == Holding(f, n, Announced("xa", j - 1), InHand("xa", j - 1, g))
<1>1. Size("xa") = 3 /\ e.group = g
  BY FormsAre DEF Size, Is
<1>2. Handle(a, e) = HandlePlain(a, e)
  <2>1. e.type # "payload"
    BY FormsAre DEF Is, Begin, Commit, Rows, Event
  <2> QED
    BY <2>1 DEF Handle
<1>3. CASE j = 1
  <2>1. e.type = "begin" /\ e.stmt = 0
    BY <1>3, FormsAre DEF Is, Begin, Commit, Rows, Event
  <2>2. Announced("xa", j - 1) = 0 /\ InHand("xa", j - 1, g) = <<>>
    BY <1>3 DEF Announced, InHand
  <2>3. Announced("xa", j) = 0 /\ InHand("xa", j, g) = <<>>
    BY <1>3 DEF Announced, InHand
  <2>4. GivenOut("xa", j, g) = <<>> /\ Missed("xa", j, g) = <<>>
    BY <1>3 DEF GivenOut, InHand, Missed
  <2>5. NameAfter("xa", j, n) = n
    BY <1>3, <1>1 DEF NameAfter
  <2> DEFINE rows == <<>>
  <2>6. a = Holding(f, n, 0, rows)
    BY <2>2
  <2> HIDE DEF a, rows
  <2>8. HandlePlain(a, e) = Quiet(Holding(f, n, 0, <<>>))
    BY <1>1, <2>1, <2>6, EffectOfBegin
  <2> HIDE DEF Holding, One
  <2> QED
    BY <1>2, <2>3, <2>4, <2>5, <2>6, <2>8 DEF Turn, a, rows, Quiet, Given
<1>4. CASE j = 2
  <2>1. e.type = "rows" /\ e.stmt = 1
    BY <1>4, FormsAre DEF Is, Begin, Commit, Rows, Event
  <2>2. Announced("xa", j - 1) = 0 /\ InHand("xa", j - 1, g) = <<>>
    BY <1>4 DEF Announced, InHand
  <2>3. Announced("xa", j) = 0 /\ InHand("xa", j, g) = One(RowOf(g, 1, 0, TRUE))
    BY <1>4 DEF Announced, InHand
  <2>4. GivenOut("xa", j, g) = <<>> /\ Missed("xa", j, g) = <<>>
    BY <1>4 DEF GivenOut, InHand, Missed
  <2>5. NameAfter("xa", j, n) = n
    BY <1>4, <1>1 DEF NameAfter
  <2> DEFINE rows == <<>>
  <2>6. a = Holding(f, n, 0, rows)
    BY <2>2
  <2> HIDE DEF a, rows
  <2>7. Row(e, 0) = RowOf(g, 1, 0, TRUE)
    BY <1>1, <2>1 DEF Row, RowOf
  <2>8. HandlePlain(a, e) = Quiet(Holding(f, n, 0, One(RowOf(g, 1, 0, TRUE))))
    <3>1. HandlePlain(a, e) = Quiet(Holding(f, n, 0, Append(rows, Row(e, 0))))
      BY <2>1, <2>6, EffectOfRows
    <3> QED
      BY <3>1, <2>7 DEF One, Two, rows
  <2> HIDE DEF Holding, One
  <2> QED
    BY <1>2, <2>3, <2>4, <2>5, <2>8 DEF Turn, a, rows, Quiet, Given
<1> QED
  BY <1>3, <1>4

\* The event a compressed transaction is.
LEMMA PayloadIs ==
    /\ Forms["compressed"][1].type = "payload" /\ Forms["compressed"][1].stmt = 0
    /\ Forms["compressed"][1].inner =
          <<Begin, Event("unreadable", 1), Event("unreadable", 2), Rows(3), Commit>>
<1> DEFINE inner ==
              <<Begin, Event("unreadable", 1), Event("unreadable", 2), Rows(3), Commit>>
<1>1. Forms["compressed"][1] = [Event("payload", 0) EXCEPT !.inner = inner]
  BY FormsAre
<1> HIDE DEF inner
<1>2. Forms["compressed"][1] = [type |-> "payload", stmt |-> 0, inner |-> inner]
  BY <1>1 DEF Event
<1> QED
  BY <1>2 DEF inner

\* The event an inner event stands for.
LEMMA InnerIs ==
    ASSUME NEW e, Whole(e), NEW event
    PROVE  LET d == [e EXCEPT !.type = event.type, !.stmt = event.stmt]
           IN  d.type = event.type /\ d.stmt = event.stmt /\ d.group = e.group /\ d.pos = e.pos
<1> DEFINE t == event.type
           n == event.stmt
           d == [e EXCEPT !.type = t, !.stmt = n]
<1> HIDE DEF t, n
<1>1. e = [type |-> e.type, stmt |-> e.stmt, inner |-> e.inner, group |-> e.group,
           file |-> e.file, pos |-> e.pos]
  BY DEF Whole
<1> DEFINE c == [type |-> t, stmt |-> e.stmt, inner |-> e.inner, group |-> e.group,
                 file |-> e.file, pos |-> e.pos]
<1>2. d = [[e EXCEPT !.type = t] EXCEPT !.stmt = n]
  OBVIOUS
<1>3. [e EXCEPT !.type = t] = c
  BY <1>1
<1>4. d = [type |-> t, stmt |-> n, inner |-> e.inner, group |-> e.group,
           file |-> e.file, pos |-> e.pos]
  <2>1. [c EXCEPT !.stmt = n] = [type |-> t, stmt |-> n, inner |-> e.inner, group |-> e.group,
                                 file |-> e.file, pos |-> e.pos]
    OBVIOUS
  <2> HIDE DEF c, d
  <2> QED
    BY <1>2, <1>3, <2>1
<1>5. d.type = t /\ d.stmt = n /\ d.group = e.group /\ d.pos = e.pos
  BY <1>4
<1> QED
  BY <1>5 DEF t, n

\* An inner event.
LEMMA InnerStep ==
    ASSUME NEW e, Whole(e), NEW event, NEW r, NEW s,
           \A d : /\ d.type = event.type /\ d.stmt = event.stmt
                  /\ d.group = e.group /\ d.pos = e.pos
                  => HandlePlain(r.asm, d) = s
    PROVE  UnwrapNext(r, e, event) = Result(s.asm, Either(s.txn, r.txn), Either(s.miss, r.miss))
<1> DEFINE d == [e EXCEPT !.type = event.type, !.stmt = event.stmt]
<1>1. d.type = event.type /\ d.stmt = event.stmt /\ d.group = e.group /\ d.pos = e.pos
  BY InnerIs
<1>2. UnwrapNext(r, e, event)
          = Result(HandlePlain(r.asm, d).asm, Either(HandlePlain(r.asm, d).txn, r.txn),
                   Either(HandlePlain(r.asm, d).miss, r.miss))
  BY DEF UnwrapNext
<1> HIDE DEF d
<1>3. HandlePlain(r.asm, d) = s
  BY <1>1
<1> QED
  BY <1>2, <1>3

\* The parts of a result.
LEMMA ResultParts ==
    ASSUME NEW a, NEW txn, NEW miss
    PROVE  /\ Result(a, txn, miss).asm = a
           /\ Result(a, txn, miss).txn = txn /\ Result(a, txn, miss).miss = miss
BY DEF Result

\* A compressed transaction: rows that cannot be read twice, of which the last
\* is kept, rows that can, COMMIT.
LEMMA TurnCompressed ==
    ASSUME NEW g, NEW f, NEW n, NEW e, Whole(e), Is(e, g, Forms["compressed"][1])
    PROVE  Turn(f, n, e, "compressed", 1, g)
<1> DEFINE m1 == <<[group |-> g, stmt |-> 1]>>
           m == <<[group |-> g, stmt |-> 2]>>
           rows == One(RowOf(g, 3, 0, TRUE))
<1>1. e.type = "payload" /\ e.group = g /\ Len(e.inner) = 5
      /\ e.inner[1] = Begin /\ e.inner[2] = Event("unreadable", 1)
      /\ e.inner[3] = Event("unreadable", 2) /\ e.inner[4] = Rows(3) /\ e.inner[5] = Commit
  BY PayloadIs DEF Is
<1>2. /\ Announced("compressed", 0) = 0 /\ InHand("compressed", 0, g) = <<>>
      /\ Announced("compressed", 1) = 0 /\ InHand("compressed", 1, g) = <<>>
      /\ GivenOut("compressed", 1, g) = rows /\ Missed("compressed", 1, g) = m
      /\ NameAfter("compressed", 1, n) = 0
  <2>1. Announced("compressed", 0) = 0 /\ InHand("compressed", 0, g) = <<>>
    BY DEF Announced, InHand
  <2>2. Announced("compressed", 1) = 0 /\ InHand("compressed", 1, g) = <<>>
    BY DEF Announced, InHand
  <2>3. GivenOut("compressed", 1, g) = rows
    BY DEF GivenOut
  <2>4. Missed("compressed", 1, g) = m
    BY DEF Missed
  <2>5. Size("compressed") = 1
    BY FormsAre DEF Size
  <2>6. NameAfter("compressed", 1, n) = 0
    BY <2>5 DEF NameAfter
  <2> QED
    BY <2>1, <2>2, <2>3, <2>4, <2>6
<1> DEFINE a == Holding(f, n, 0, <<>>)
<1>3. Handle(a, e) = Unwrap(a, e)
  BY <1>1 DEF Handle
<1>4. PICK r1, r2, r3, r4 : /\ r1 = UnwrapNext(Quiet(a), e, e.inner[1])
                            /\ r2 = UnwrapNext(r1, e, e.inner[2])
                            /\ r3 = UnwrapNext(r2, e, e.inner[3])
                            /\ r4 = UnwrapNext(r3, e, e.inner[4])
                            /\ Unwrap(a, e) = UnwrapNext(r4, e, e.inner[5])
  BY <1>1, UnwrapFive
<1>5. r1 = Result(a, <<>>, <<>>)
  <2>1. Begin.type = "begin"
    BY DEF Begin, Event
  <2>2. \A d : d.type = Begin.type => HandlePlain(a, d) = Result(a, <<>>, <<>>)
    BY <2>1, EffectOfBegin DEF Quiet
  <2>3. Quiet(a).asm = a /\ Quiet(a).txn = <<>> /\ Quiet(a).miss = <<>>
    BY ResultParts DEF Quiet
  <2> HIDE DEF a
  <2>4. UnwrapNext(Quiet(a), e, Begin)
            = Result(Result(a, <<>>, <<>>).asm,
                     Either(Result(a, <<>>, <<>>).txn, Quiet(a).txn),
                     Either(Result(a, <<>>, <<>>).miss, Quiet(a).miss))
    BY <2>2, <2>3, InnerStep
  <2> QED
    BY <1>1, <1>4, <2>3, <2>4, ResultParts DEF Either
<1>6. r2 = Result(a, <<>>, m1)
  <2>1. Event("unreadable", 1).type = "unreadable" /\ Event("unreadable", 1).stmt = 1
    BY DEF Event
  <2> HIDE DEF a
  <2>2. ASSUME NEW d, d.type = Event("unreadable", 1).type, d.stmt = Event("unreadable", 1).stmt,
               d.group = e.group
        PROVE  HandlePlain(a, d) = Result(a, <<>>, m1)
    <3>1. HandlePlain(a, d) = Result(a, <<>>, <<[group |-> d.group, stmt |-> d.stmt]>>)
      BY <2>1, <2>2, PlainTypes, ZenonT(60)
    <3>2. [group |-> d.group, stmt |-> d.stmt] = [group |-> g, stmt |-> 1]
      BY <1>1, <2>1, <2>2
    <3> QED
      BY <3>1, <3>2
  <2>3. r1.asm = a /\ r1.txn = <<>> /\ r1.miss = <<>>
    BY <1>5, ResultParts
  <2>4. m1 # <<>>
    OBVIOUS
  <2> HIDE DEF m1
  <2>5. UnwrapNext(r1, e, Event("unreadable", 1))
            = Result(Result(a, <<>>, m1).asm, Either(Result(a, <<>>, m1).txn, r1.txn),
                     Either(Result(a, <<>>, m1).miss, r1.miss))
    BY <2>2, <2>3, InnerStep
  <2> QED
    BY <1>1, <1>4, <2>3, <2>4, <2>5, ResultParts DEF Either
<1> HIDE DEF m1
<1>7. r3 = Result(a, <<>>, m)
  <2>1. Event("unreadable", 2).type = "unreadable" /\ Event("unreadable", 2).stmt = 2
    BY DEF Event
  <2> HIDE DEF a
  <2>2. ASSUME NEW d, d.type = Event("unreadable", 2).type, d.stmt = Event("unreadable", 2).stmt,
               d.group = e.group
        PROVE  HandlePlain(a, d) = Result(a, <<>>, m)
    <3>1. HandlePlain(a, d) = Result(a, <<>>, <<[group |-> d.group, stmt |-> d.stmt]>>)
      BY <2>1, <2>2, PlainTypes, ZenonT(60)
    <3>2. [group |-> d.group, stmt |-> d.stmt] = [group |-> g, stmt |-> 2]
      BY <1>1, <2>1, <2>2
    <3> QED
      BY <3>1, <3>2
  <2>3. r2.asm = a /\ r2.txn = <<>> /\ r2.miss = m1
    BY <1>6, ResultParts
  <2>4. m # <<>>
    OBVIOUS
  <2> HIDE DEF m
  <2>5. UnwrapNext(r2, e, Event("unreadable", 2))
            = Result(Result(a, <<>>, m).asm, Either(Result(a, <<>>, m).txn, r2.txn),
                     Either(Result(a, <<>>, m).miss, r2.miss))
    BY <2>2, <2>3, InnerStep
  <2> QED
    BY <1>1, <1>4, <2>3, <2>4, <2>5, ResultParts DEF Either
<1> DEFINE b == Holding(f, n, 0, rows)
<1> HIDE DEF m
<1>8. r4 = Result(b, <<>>, m)
  <2>1. Rows(3).type = "rows" /\ Rows(3).stmt = 3
    BY DEF Rows, Event
  <2>2. ASSUME NEW d, d.type = Rows(3).type, d.stmt = Rows(3).stmt, d.group = e.group
        PROVE  HandlePlain(a, d) = Result(b, <<>>, <<>>)
    <3>1. Row(d, 0) = RowOf(g, 3, 0, TRUE)
      BY <1>1, <2>1, <2>2 DEF Row, RowOf
    <3> DEFINE none == <<>>
    <3> HIDE DEF none
    <3>2. HandlePlain(Holding(f, n, 0, none), d) = Quiet(Holding(f, n, 0, Append(none, Row(d, 0))))
      BY <2>1, <2>2, EffectOfRows
    <3> QED
      BY <3>1, <3>2 DEF none, One, Quiet
  <2> HIDE DEF a, b
  <2>3. r3.asm = a /\ r3.txn = <<>> /\ r3.miss = m
    BY <1>7, ResultParts
  <2>4. UnwrapNext(r3, e, Rows(3))
            = Result(Result(b, <<>>, <<>>).asm, Either(Result(b, <<>>, <<>>).txn, r3.txn),
                     Either(Result(b, <<>>, <<>>).miss, r3.miss))
    BY <2>2, <2>3, InnerStep
  <2> QED
    BY <1>1, <1>4, <2>3, <2>4, ResultParts DEF Either
<1> DEFINE t == <<[id |-> IDOf(f, n, e), rows |-> rows]>>
<1>9. Unwrap(a, e) = Result(Holding(f, 0, 0, <<>>), t, m)
  <2>1. Commit.type = "commit"
    BY DEF Commit, Event
  <2>2. Given(rows, IDOf(f, n, e)) = t /\ t # <<>>
    BY OneIs DEF Given
  <2>3. ASSUME NEW d, d.type = Commit.type, d.pos = e.pos
        PROVE  HandlePlain(b, d) = Result(Holding(f, 0, 0, <<>>), t, <<>>)
    <3>1. IDOf(f, n, d) = IDOf(f, n, e)
      BY <2>3 DEF IDOf
    <3> HIDE DEF rows, t
    <3>2. HandlePlain(b, d) = Result(Holding(f, 0, 0, <<>>), Given(rows, IDOf(f, n, d)), <<>>)
      BY <2>1, <2>3, EffectOfCommit
    <3> QED
      BY <2>2, <3>1, <3>2
  <2> DEFINE c == Holding(f, 0, 0, <<>>)
  <2> HIDE DEF a, b, c, t
  <2>4. r4.asm = b /\ r4.txn = <<>> /\ r4.miss = m
    BY <1>8, ResultParts
  <2>5. UnwrapNext(r4, e, Commit)
            = Result(Result(c, t, <<>>).asm, Either(Result(c, t, <<>>).txn, r4.txn),
                     Either(Result(c, t, <<>>).miss, r4.miss))
    BY <2>3, <2>4, InnerStep DEF c
  <2> QED
    BY <1>1, <1>4, <2>2, <2>4, <2>5, ResultParts DEF Either, c
<1>10. Given(rows, IDOf(f, n, e)) = t
  BY OneIs DEF Given
<1> HIDE DEF rows, t
<1> QED
  BY <1>2, <1>3, <1>9, <1>10 DEF Turn

\* How many events the transactions have.
LEMMA Sizes ==
    /\ Size("insert") = 4 /\ Size("statements") = 5 /\ Size("unwanted") = 3
    /\ Size("unreadable") = 6 /\ Size("rolledback") = 3 /\ Size("ddl") = 1
    /\ Size("session") = 1 /\ Size("compressed") = 1 /\ Size("create") = 4 /\ Size("xa") = 3
BY FormsAre DEF Size

\* Every kind of transaction has events.
LEMMA SizeType ==
    ASSUME NEW kind \in DOMAIN Forms
    PROVE  Size(kind) \in Nat /\ Size(kind) >= 1
<1>1. kind \in {"insert", "statements", "unwanted", "unreadable", "rolledback", "ddl",
                "session", "create", "xa", "compressed"}
  BY FormsAre
<1> QED
  BY <1>1, Sizes

\* What each event of a transaction does to the assembler: an XA transaction
\* is refused before it ends.
LEMMA Turns ==
    ASSUME NEW kind \in DOMAIN Forms, NEW j \in 1 .. Size(kind), NEW g, NEW f, NEW n,
           NEW e, Whole(e), Is(e, g, Forms[kind][j]), e.type # "xa"
    PROVE  Turn(f, n, e, kind, j, g)
<1>1. kind \in {"insert", "statements", "unwanted", "unreadable", "rolledback", "ddl",
                "session", "create", "xa", "compressed"}
  BY FormsAre
<1>2. kind = "insert" => Turn(f, n, e, kind, j, g)
  BY Sizes, TurnInsert
<1>3. kind = "statements" => Turn(f, n, e, kind, j, g)
  BY Sizes, TurnStatements
<1>4. kind = "unwanted" => Turn(f, n, e, kind, j, g)
  BY Sizes, TurnUnwanted
<1>5. kind = "unreadable" => Turn(f, n, e, kind, j, g)
  BY Sizes, TurnUnreadable
<1>6. kind = "rolledback" => Turn(f, n, e, kind, j, g)
  BY Sizes, TurnRolledBack
<1>7. kind = "ddl" => Turn(f, n, e, kind, j, g)
  BY Sizes, TurnSchemaChange
<1>8. kind = "session" => Turn(f, n, e, kind, j, g)
  BY Sizes, TurnSession
<1>9. kind = "create" => Turn(f, n, e, kind, j, g)
  BY Sizes, TurnCreate
<1>10. kind = "compressed" => Turn(f, n, e, kind, j, g)
  <2>1. kind = "compressed" => j = 1
    BY Sizes
  <2> QED
    BY <2>1, TurnCompressed
<1>11. kind = "xa" => Turn(f, n, e, kind, j, g)
  <2>1. Event("xa", 0).type = "xa"
    BY DEF Event
  <2>2. kind = "xa" => j \in 1 .. 2
    BY <2>1, Sizes, FormsAre DEF Is
  <2> QED
    BY <2>2, TurnXA
<1> QED
  BY <1>1, <1>2, <1>3, <1>4, <1>5, <1>6, <1>7, <1>8, <1>9, <1>10, <1>11

\* A transaction begins and ends with nothing in hand.
LEMMA EndsClean ==
    ASSUME NEW kind \in DOMAIN Forms, NEW g
    PROVE  /\ InHand(kind, 0, g) = <<>> /\ Announced(kind, 0) = 0
           /\ InHand(kind, Size(kind), g) = <<>> /\ Announced(kind, Size(kind)) = 0
<1>1. kind \in {"insert", "statements", "unwanted", "unreadable", "rolledback", "ddl",
                "session", "create", "xa", "compressed"}
  BY FormsAre
<1>2. InHand(kind, 0, g) = <<>>
  BY DEF InHand
<1>3. Announced(kind, 0) = 0 /\ Announced(kind, Size(kind)) = 0
  BY Sizes DEF Announced
<1>4. /\ InHand("insert", 4, g) = <<>> /\ InHand("statements", 5, g) = <<>>
      /\ InHand("unwanted", 3, g) = <<>> /\ InHand("unreadable", 6, g) = <<>>
      /\ InHand("rolledback", 3, g) = <<>> /\ InHand("ddl", 1, g) = <<>>
      /\ InHand("session", 1, g) = <<>> /\ InHand("compressed", 1, g) = <<>>
      /\ InHand("create", 4, g) = <<>> /\ InHand("xa", 3, g) = <<>>
  BY DEF InHand
<1>5. InHand(kind, Size(kind), g) = <<>>
  BY <1>1, <1>4, Sizes
<1> QED
  BY <1>2, <1>3, <1>5

\* Rows are given out by a transaction that keeps none, and say which
\* statement they are of.
LEMMA GivenOutClean ==
    ASSUME NEW kind \in DOMAIN Forms, NEW j \in 1 .. Size(kind), NEW g, GivenOut(kind, j, g) # <<>>
    PROVE  /\ InHand(kind, j, g) = <<>> /\ Announced(kind, j) = 0
           /\ kind = "create" \/ j = Size(kind)
<1>1. \/ kind = "insert" /\ j = 4
      \/ kind = "statements" /\ j = 5
      \/ kind = "unwanted" /\ j = 3
      \/ kind = "unreadable" /\ j = 6
      \/ kind = "ddl" /\ j = 1
      \/ kind = "compressed" /\ j = 1
      \/ kind = "create" /\ j = 2
      \/ kind = "create" /\ j = 4
  BY DEF GivenOut
<1>2. /\ InHand("insert", 4, g) = <<>> /\ InHand("statements", 5, g) = <<>>
      /\ InHand("unwanted", 3, g) = <<>> /\ InHand("unreadable", 6, g) = <<>>
      /\ InHand("ddl", 1, g) = <<>> /\ InHand("compressed", 1, g) = <<>>
      /\ InHand("create", 2, g) = <<>> /\ InHand("create", 4, g) = <<>>
  BY DEF InHand
<1>3. InHand(kind, j, g) = <<>>
  BY <1>1, <1>2
<1>4. Announced(kind, j) = 0
  BY <1>1 DEF Announced
<1>5. kind = "create" \/ j = Size(kind)
  BY <1>1, Sizes
<1> QED
  BY <1>3, <1>4, <1>5

\* No event of a transaction names one or ends a file.
LEMMA FormTypes ==
    ASSUME NEW kind \in DOMAIN Forms, NEW j \in 1 .. Size(kind)
    PROVE  Forms[kind][j].type \notin {"gtid", "anonymous", "rotate"}
<1>1. kind \in {"insert", "statements", "unwanted", "unreadable", "rolledback", "ddl",
                "session", "create", "xa", "compressed"}
  BY FormsAre
<1> DEFINE Safe(t) == t \in {"begin", "unwanted", "rows", "commit", "annotate", "unreadable",
                             "rollback", "ddl", "session", "payload", "xa"}
<1>2. /\ Begin.type = "begin" /\ Commit.type = "commit"
      /\ \A n : Rows(n).type = "rows" /\ \A t : Event(t, n).type = t
  BY DEF Begin, Commit, Rows, Event
<1>3. kind = "insert" => Safe(Forms[kind][j].type)
  BY <1>2, Sizes, FormsAre
<1>4. kind = "statements" => Safe(Forms[kind][j].type)
  BY <1>2, Sizes, FormsAre
<1>5. kind = "unwanted" => Safe(Forms[kind][j].type)
  BY <1>2, Sizes, FormsAre
<1>6. kind = "unreadable" => Safe(Forms[kind][j].type)
  BY <1>2, Sizes, FormsAre
<1>7. kind = "rolledback" => Safe(Forms[kind][j].type)
  BY <1>2, Sizes, FormsAre
<1>8. kind \in {"ddl", "session"} => Safe(Forms[kind][j].type)
  BY <1>2, Sizes, FormsAre
<1>9. kind = "create" => Safe(Forms[kind][j].type)
  BY <1>2, Sizes, FormsAre
<1>10. kind = "xa" => Safe(Forms[kind][j].type)
  BY <1>2, Sizes, FormsAre
<1>11. kind = "compressed" => Safe(Forms[kind][j].type)
  BY Sizes, PayloadIs
<1> QED
  BY <1>1, <1>3, <1>4, <1>5, <1>6, <1>7, <1>8, <1>9, <1>10, <1>11

\* The rows given out that are asked for.
WantedOut(kind, j, g) ==
    CASE kind = "insert" /\ j = 4 -> One(RowOf(g, 2, 0, TRUE))
      [] kind = "statements" /\ j = 5 -> Two(RowOf(g, 1, 1, TRUE), RowOf(g, 2, 0, TRUE))
      [] kind = "unreadable" /\ j = 6 -> Two(RowOf(g, 1, 0, TRUE), RowOf(g, 3, 2, TRUE))
      [] kind = "ddl" /\ j = 1 -> One(RowOf(g, 1, 1, TRUE))
      [] kind = "compressed" /\ j = 1 -> One(RowOf(g, 3, 0, TRUE))
      [] kind = "create" /\ j = 2 -> One(RowOf(g, 1, 1, TRUE))
      [] kind = "create" /\ j = 4 -> One(RowOf(g, 2, 0, TRUE))
      [] OTHER -> <<>>

\* Of no rows none are wanted, of one it or none, of two those that are.
LEMMA WantedFew ==
    ASSUME NEW x, NEW y
    PROVE  /\ Wanted(<<>>) = <<>>
           /\ Wanted(One(x)) = IF x.wanted THEN One(x) ELSE <<>>
           /\ Wanted(Two(x, y)) = (IF x.wanted THEN <<x>> ELSE <<>>)
                                      \o (IF y.wanted THEN <<y>> ELSE <<>>)
<1> DEFINE P(rows) == [i \in DOMAIN rows |-> IF rows[i].wanted THEN <<rows[i]>> ELSE <<>>]
<1>1. Wanted(<<>>) = <<>>
  <2>1. P(<<>>) = <<>>
    OBVIOUS
  <2> QED
    BY <2>1, FlattenEmpty DEF Wanted
<1>2. Wanted(One(x)) = IF x.wanted THEN One(x) ELSE <<>>
  <2>1. DOMAIN One(x) = 1 .. 1 /\ One(x)[1] = x /\ One(x) = <<x>>
    BY OneIs
  <2> DEFINE p == P(One(x))
  <2>2. Len(p) = 1 /\ p[1] = IF x.wanted THEN <<x>> ELSE <<>>
    BY <2>1
  <2>3. Wanted(One(x)) = FlattenSeq(p)
    BY DEF Wanted
  <2> HIDE DEF p
  <2> QED
    BY <2>1, <2>2, <2>3, FlattenOne
<1>3. Wanted(Two(x, y)) = (IF x.wanted THEN <<x>> ELSE <<>>)
                              \o (IF y.wanted THEN <<y>> ELSE <<>>)
  <2>1. DOMAIN Two(x, y) = 1 .. 2 /\ Two(x, y)[1] = x /\ Two(x, y)[2] = y
    BY TwoAre DEF One, Two
  <2> DEFINE p == P(Two(x, y))
             q == P(One(x))
  <2>2. Len(p) = 2 /\ p[1] = (IF x.wanted THEN <<x>> ELSE <<>>)
        /\ p[2] = (IF y.wanted THEN <<y>> ELSE <<>>)
    BY <2>1
  <2>3. DOMAIN One(x) = 1 .. 1 /\ One(x)[1] = x
    BY OneIs
  <2>4. Len(q) = 1 /\ q[1] = IF x.wanted THEN <<x>> ELSE <<>>
    BY <2>3
  <2>5. Wanted(Two(x, y)) = FlattenSeq(p)
    BY DEF Wanted
  <2> HIDE DEF p, q
  <2>6. FlattenSeq(q) = q[1]
    BY <2>4, FlattenOne
  <2>7. FlattenSeq(p) = FlattenSeq(q) \o p[2]
    <3> DEFINE n == 1
    <3>1. n \in Nat /\ n # 0 /\ Len(q) = n /\ Len(p) = n + 1 /\ \A i \in 1 .. n : p[i] = q[i]
      BY <2>2, <2>4
    <3>2. n + 1 = 2
      OBVIOUS
    <3> HIDE DEF n
    <3>3. FlattenSeq(p) = FlattenSeq(q) \o p[n + 1]
      BY <3>1, FlattenMore
    <3> QED
      BY <3>2, <3>3
  <2> QED
    BY <2>2, <2>4, <2>5, <2>6, <2>7
<1> QED
  BY <1>1, <1>2, <1>3

\* The rows a transaction gives out, once those not asked for are left out.
LEMMA WantedIs ==
    ASSUME NEW kind, NEW j, NEW g
    PROVE  Wanted(GivenOut(kind, j, g)) = WantedOut(kind, j, g)
<1> DEFINE plain == RowOf(g, 1, 0, TRUE)
           second == RowOf(g, 2, 0, TRUE)
           first == RowOf(g, 1, 1, TRUE)
           other == RowOf(g, 1, 0, FALSE)
           third == RowOf(g, 3, 0, TRUE)
           outlived == RowOf(g, 3, 2, TRUE)
<1>1. plain.wanted = TRUE /\ second.wanted = TRUE /\ first.wanted = TRUE /\ other.wanted = FALSE
      /\ third.wanted = TRUE /\ outlived.wanted = TRUE
  BY DEF RowOf
<1> HIDE DEF plain, second, first, other, third, outlived
<1>2. /\ Wanted(One(plain)) = One(plain) /\ Wanted(One(second)) = One(second)
      /\ Wanted(One(first)) = One(first) /\ Wanted(One(other)) = <<>>
      /\ Wanted(One(third)) = One(third)
  BY <1>1, WantedFew
<1>3. Wanted(Two(other, second)) = One(second)
  <2>1. Wanted(Two(other, second)) = <<>> \o <<second>>
    BY <1>1, WantedFew
  <2>2. <<>> \o <<second>> = <<second>>
    OBVIOUS
  <2> QED
    BY <2>1, <2>2, OneIs
<1>4. ASSUME NEW x, NEW y, x.wanted = TRUE, y.wanted = TRUE
      PROVE  Wanted(Two(x, y)) = Two(x, y)
  <2>1. Wanted(Two(x, y)) = <<x>> \o <<y>>
    BY <1>4, WantedFew
  <2> DEFINE S == {x, y}
             p == <<x>> \o <<y>>
             q == Two(x, y)
  <2>2. p \in Seq(S) /\ Len(p) = 2 /\ p[1] = x /\ p[2] = y
    OBVIOUS
  <2>3. q \in Seq(S)
    <3>1. <<>> \in Seq(S) /\ x \in S /\ y \in S
      OBVIOUS
    <3>2. One(x) \in Seq(S)
      BY <3>1, AppendProperties DEF One
    <3> HIDE DEF S
    <3> QED
      BY <3>1, <3>2, AppendProperties DEF Two
  <2>4. Len(q) = 2 /\ q[1] = x /\ q[2] = y
    BY TwoAre
  <2> HIDE DEF p, q, S
  <2>5. p = q
    BY <2>2, <2>3, <2>4, SeqEqual
  <2> QED
    BY <2>1, <2>5 DEF p, q
<1>5. /\ InHand("insert", 3, g) = Two(other, second) /\ InHand("statements", 4, g) = Two(first, second)
      /\ InHand("unwanted", 2, g) = One(other) /\ InHand("unreadable", 5, g) = Two(plain, outlived)
      /\ InHand("create", 3, g) = One(second)
  BY DEF InHand, plain, second, first, other, outlived
<1>6. CASE kind = "insert" /\ j = 4
  BY <1>3, <1>5, <1>6 DEF GivenOut, WantedOut, second
<1>7. CASE kind = "statements" /\ j = 5
  <2>1. Wanted(Two(first, second)) = Two(first, second)
    BY <1>1, <1>4
  <2> QED
    BY <1>5, <1>7, <2>1 DEF GivenOut, WantedOut, first, second
<1>8. CASE kind = "unwanted" /\ j = 3
  BY <1>2, <1>5, <1>8 DEF GivenOut, WantedOut
<1>9. CASE kind = "unreadable" /\ j = 6
  <2>1. Wanted(Two(plain, outlived)) = Two(plain, outlived)
    BY <1>1, <1>4
  <2> QED
    BY <1>5, <1>9, <2>1 DEF GivenOut, WantedOut, plain, outlived
<1>10. CASE kind = "ddl" /\ j = 1
  BY <1>2, <1>10 DEF GivenOut, WantedOut, first
<1>11. CASE kind = "compressed" /\ j = 1
  BY <1>2, <1>11 DEF GivenOut, WantedOut, third
<1>12. CASE kind = "create" /\ j = 2
  <2>1. GivenOut("create", 2, g) = One(first)
    BY DEF GivenOut, first
  <2>2. WantedOut("create", 2, g) = One(first)
    BY DEF WantedOut, first
  <2> QED
    BY <1>2, <1>12, <2>1, <2>2
<1>13. CASE kind = "create" /\ j = 4
  <2>1. GivenOut("create", 4, g) = InHand("create", 3, g)
    BY DEF GivenOut
  <2>2. WantedOut("create", 4, g) = One(second)
    BY DEF WantedOut, second
  <2> QED
    BY <1>2, <1>5, <1>13, <2>1, <2>2
<1>14. CASE /\ ~ (kind = "insert" /\ j = 4) /\ ~ (kind = "statements" /\ j = 5)
            /\ ~ (kind = "unwanted" /\ j = 3) /\ ~ (kind = "unreadable" /\ j = 6)
            /\ ~ (kind = "ddl" /\ j = 1) /\ ~ (kind = "compressed" /\ j = 1)
            /\ ~ (kind = "create" /\ j = 2) /\ ~ (kind = "create" /\ j = 4)
  <2>1. GivenOut(kind, j, g) = <<>>
    BY <1>14 DEF GivenOut
  <2>2. WantedOut(kind, j, g) = <<>>
    BY <1>14 DEF WantedOut
  <2> QED
    BY <2>1, <2>2, WantedFew
<1> QED
  BY <1>6, <1>7, <1>8, <1>9, <1>10, <1>11, <1>12, <1>13, <1>14

\* They say which statement they are of, or none, but after rows that could
\* not be read: then they may say it was that statement.
LEMMA WantedQueries ==
    ASSUME groups \in Seq(Kinds), NEW g \in 1 .. Len(groups), NEW j,
           NEW row \in ToSet(WantedOut(groups[g], j, g)), row.query # 0
    PROVE  QueryIsOf(row)
<1> DEFINE kind == groups[g]
           plain == RowOf(g, 1, 0, TRUE)
           second == RowOf(g, 2, 0, TRUE)
           first == RowOf(g, 1, 1, TRUE)
           third == RowOf(g, 3, 0, TRUE)
           outlived == RowOf(g, 3, 2, TRUE)
<1>1. /\ plain.query = 0 /\ second.query = 0 /\ third.query = 0
      /\ first.query = 1 /\ first.stmt = 1
      /\ outlived.query = 2 /\ outlived.stmt = 3 /\ outlived.group = g
  BY DEF RowOf
<1> HIDE DEF plain, second, first, third, outlived
<1>2. \/ kind = "unreadable" /\ WantedOut(kind, j, g) = Two(plain, outlived)
      \/ WantedOut(kind, j, g) \in {<<>>, One(second), One(first), One(third), Two(first, second)}
  BY DEF WantedOut, plain, second, first, third, outlived
<1>3. ToSet(<<>>) = {}
  BY DEF ToSet
<1>4. \A x : ToSet(One(x)) = {x}
  <2> TAKE x
  <2>1. DOMAIN One(x) = 1 .. 1 /\ One(x)[1] = x
    BY OneIs
  <2>2. {One(x)[i] : i \in 1 .. 1} = {x}
    BY <2>1
  <2> QED
    BY <2>1, <2>2 DEF ToSet
<1>5. \A x, y : ToSet(Two(x, y)) = {x, y}
  BY DEF ToSet, Two, One
<1>6. \/ row \in {plain, second, third, first}
      \/ kind = "unreadable" /\ row = outlived
  BY <1>2, <1>3, <1>4, <1>5
<1>7. CASE row = first
  BY <1>1, <1>7 DEF QueryIsOf
<1>8. CASE kind = "unreadable" /\ row = outlived
  <2>1. MissedOf[kind] = {2}
    BY <1>8, FormsAre DEF MissedOf
  <2>2. [group |-> g, stmt |-> 2] \in Missing(g)
    BY <2>1 DEF Missing
  <2>3. row.query = 2 /\ row.query < row.stmt /\ row.group = g
    BY <1>1, <1>8
  <2> QED
    BY <2>2, <2>3 DEF QueryIsOf
<1> QED
  BY <1>1, <1>6, <1>7, <1>8

----------------------------------------------------------------------------
(***************************************************************************)
(* The log                                                                 *)
(***************************************************************************)
Types == {"gtid", "anonymous", "rotate", "begin", "unwanted", "rows", "commit", "annotate",
          "unreadable", "rollback", "ddl", "session", "payload", "xa"}

Inners == {<<>>, Forms["compressed"][1].inner}

LogEvent == [type : Types, stmt : Nat, inner : Inners, group : Nat, file : Nat, pos : Nat]

\* Transaction g is in the log, behind the event at s that names it.
Holds(s, g) ==
    /\ s \in 1 .. Len(log) /\ g \in 1 .. Len(groups)
    /\ s + Size(groups[g]) <= Len(log)
    /\ log[s].type \in Names /\ log[s].group = g
    /\ \A j \in 1 .. Size(groups[g]) : Is(log[s + j], g, Forms[groups[g]][j])

Within(i, s, g) == Holds(s, g) /\ s <= i /\ i <= s + Size(groups[g])

Before(d, e) == \/ d.file < e.file
                \/ d.file = e.file /\ d.pos < e.pos

NextFile(i) == IF i < Len(log) THEN log[i + 1].file ELSE EndOfLog.file

\* Every event ends a file or is one of a transaction.
WholeTransactions ==
    \A i \in 1 .. Len(log) :
        \/ log[i].type = "rotate" /\ log[i].group = 0
        \/ \E s \in 1 .. Len(log), g \in 1 .. Len(groups) : Within(i, s, g)

\* Positions rise, and a file goes on until it is rotated.
PositionsRise ==
    /\ \A i \in 1 .. Len(log) : log[i].file >= 1 /\ log[i].pos >= 1
    /\ \A i \in 1 .. Len(log), k \in 1 .. Len(log) : i < k => Before(log[i], log[k])
    /\ \A i \in 1 .. Len(log) :
          NextFile(i) = IF log[i].type = "rotate" THEN log[i].file + 1 ELSE log[i].file
    /\ NextFile(0) = 1

LogTypes ==
    /\ log \in Seq(LogEvent) /\ groups \in Seq(Kinds)

LogInv == LogTypes /\ WholeTransactions /\ PositionsRise

\* The events of the transactions are ones the log can hold.
LEMMA FormParts ==
    ASSUME NEW kind \in DOMAIN Forms, NEW j \in 1 .. Size(kind)
    PROVE  /\ Forms[kind][j].type \in Types /\ Forms[kind][j].stmt \in Nat
           /\ Forms[kind][j].inner \in Inners
<1>1. kind \in {"insert", "statements", "unwanted", "unreadable", "rolledback", "ddl",
                "session", "create", "xa", "compressed"}
  BY FormsAre
<1> DEFINE Fits(e) == e.type \in Types /\ e.stmt \in Nat /\ e.inner \in Inners
<1>2. \A n \in Nat, t \in Types : Fits(Event(t, n))
  <2> TAKE n \in Nat, t \in Types
  <2>1. Event(t, n).type = t /\ Event(t, n).stmt = n /\ Event(t, n).inner = <<>>
    BY DEF Event
  <2> QED
    BY <2>1 DEF Inners
<1>3. /\ Fits(Begin) /\ Fits(Commit) /\ Fits(Rows(1)) /\ Fits(Rows(2)) /\ Fits(Rows(3))
      /\ Fits(Event("unwanted", 1)) /\ Fits(Event("annotate", 1))
      /\ Fits(Event("annotate", 2)) /\ Fits(Event("unreadable", 2))
      /\ Fits(Event("rollback", 0)) /\ Fits(Event("ddl", 1)) /\ Fits(Event("session", 0))
      /\ Fits(Event("xa", 0))
  <2> HIDE DEF Fits
  <2>1. \A t \in {"begin", "unwanted", "rows", "commit", "annotate", "unreadable", "rollback",
                  "ddl", "session", "xa"} : t \in Types
    BY DEF Types
  <2> QED
    BY <1>2, <2>1 DEF Begin, Commit, Rows
<1>4. Fits(Forms["compressed"][1])
  BY PayloadIs DEF Types, Inners
<1> HIDE DEF Fits
<1>5. kind = "insert" => Fits(Forms[kind][j])
  BY <1>3, Sizes, FormsAre
<1>6. kind = "statements" => Fits(Forms[kind][j])
  BY <1>3, Sizes, FormsAre
<1>7. kind = "unwanted" => Fits(Forms[kind][j])
  BY <1>3, Sizes, FormsAre
<1>8. kind = "unreadable" => Fits(Forms[kind][j])
  BY <1>3, Sizes, FormsAre
<1>9. kind = "rolledback" => Fits(Forms[kind][j])
  BY <1>3, Sizes, FormsAre
<1>10. kind \in {"ddl", "session"} => Fits(Forms[kind][j])
  BY <1>3, Sizes, FormsAre
<1>11. kind = "create" => Fits(Forms[kind][j])
  BY <1>3, Sizes, FormsAre
<1>12. kind = "xa" => Fits(Forms[kind][j])
  BY <1>3, Sizes, FormsAre
<1>13. kind = "compressed" => Fits(Forms[kind][j])
  BY <1>4, Sizes
<1>14. Fits(Forms[kind][j])
  BY <1>1, <1>5, <1>6, <1>7, <1>8, <1>9, <1>10, <1>11, <1>12, <1>13
<1> QED
  BY <1>14 DEF Fits

\* An event of a log is whole.
LEMMA EventIsWhole ==
    ASSUME NEW l \in Seq(LogEvent), NEW i \in 1 .. Len(l)
    PROVE  /\ Whole(l[i]) /\ l[i] \in LogEvent
           /\ l[i].file \in Nat /\ l[i].pos \in Nat /\ l[i].group \in Nat
           /\ l[i].type \in Types
<1> DEFINE e == l[i]
<1>1. e \in LogEvent
  OBVIOUS
<1> HIDE DEF e
<1>2. e \in [type : Types, stmt : Nat, inner : Inners, group : Nat, file : Nat, pos : Nat]
  BY <1>1 DEF LogEvent
<1>3. Whole(e)
  BY <1>2 DEF Whole
<1>4. e.file \in Nat /\ e.pos \in Nat /\ e.group \in Nat /\ e.type \in Types
  BY <1>2
<1> QED
  BY <1>1, <1>3, <1>4 DEF e

\* Where a server with this log is writing.
EndOf(l) ==
    IF l = <<>> THEN [file |-> 1, pos |-> 0]
    ELSE IF l[Len(l)].type = "rotate" THEN [file |-> l[Len(l)].file + 1, pos |-> 0]
         ELSE [file |-> l[Len(l)].file, pos |-> l[Len(l)].pos]

\* It is a position.
LEMMA EndOfIs ==
    ASSUME NEW l \in Seq(LogEvent)
    PROVE  EndOf(l).file \in Nat /\ EndOf(l).pos \in Nat
<1>1. CASE l = <<>>
  BY <1>1 DEF EndOf
<1>2. CASE l # <<>>
  <2>1. Len(l) \in 1 .. Len(l)
    BY <1>2
  <2>2. l[Len(l)].file \in Nat /\ l[Len(l)].pos \in Nat
    BY <2>1, EventIsWhole
  <2> DEFINE e == l[Len(l)]
  <2>3. EndOf(l) = IF e.type = "rotate" THEN [file |-> e.file + 1, pos |-> 0]
                   ELSE [file |-> e.file, pos |-> e.pos]
    BY <1>2 DEF EndOf
  <2> HIDE DEF e
  <2> QED
    BY <2>2, <2>3 DEF e
<1> QED
  BY <1>1, <1>2

\* The server of the model is writing there, before a step and after it.
LEMMA EndIs ==
    /\ EndOfLog = EndOf(log)
    /\ EndOfLog' = EndOf(log')
<1>1. EndOfLog = EndOf(log)
  BY DEF EndOfLog, EndOf, Last
<1>2. EndOfLog' = EndOf(log')
  BY DEF EndOfLog, EndOf, Last
<1> QED
  BY <1>1, <1>2

\* Events behind the log.
LEMMA LoggedIs ==
    ASSUME log \in Seq(LogEvent), NEW events, NEW n \in Nat, NEW group \in Nat,
           DOMAIN events = 1 .. n,
           \A i \in 1 .. n : /\ events[i].type \in Types /\ events[i].stmt \in Nat
                             /\ events[i].inner \in Inners
    PROVE  /\ Logged(events, group) \in Seq(LogEvent)
           /\ Len(Logged(events, group)) = Len(log) + n
           /\ \A i \in 1 .. Len(log) : Logged(events, group)[i] = log[i]
           /\ \A i \in 1 .. n :
                 Logged(events, group)[Len(log) + i]
                     = [type |-> events[i].type, stmt |-> events[i].stmt,
                        inner |-> events[i].inner, group |-> group,
                        file |-> EndOfLog.file, pos |-> EndOfLog.pos + i]
<1> DEFINE E(i) == [type |-> events[i].type, stmt |-> events[i].stmt,
                    inner |-> events[i].inner, group |-> group,
                    file |-> EndOfLog.file, pos |-> EndOfLog.pos + i]
           more == [i \in 1 .. n |-> E(i)]
<1>1. EndOfLog.file \in Nat /\ EndOfLog.pos \in Nat
  BY EndIs, EndOfIs
<1>2. \A i \in 1 .. n : E(i) \in LogEvent
  <2> TAKE i \in 1 .. n
  <2>1. events[i].type \in Types /\ events[i].stmt \in Nat /\ events[i].inner \in Inners
    OBVIOUS
  <2>2. EndOfLog.pos + i \in Nat
    BY <1>1
  <2> QED
    BY <1>1, <2>1, <2>2 DEF LogEvent
<1>3. Logged(events, group) = log \o more
  BY DEF Logged
<1> HIDE DEF E
<1>4. more \in Seq(LogEvent) /\ Len(more) = n /\ \A i \in 1 .. n : more[i] = E(i)
  BY <1>2
<1> HIDE DEF more
<1>5. /\ log \o more \in Seq(LogEvent) /\ Len(log \o more) = Len(log) + n
      /\ \A i \in 1 .. Len(log) : (log \o more)[i] = log[i]
      /\ \A i \in 1 .. n : (log \o more)[Len(log) + i] = more[i]
  BY <1>4, SMTT(30)
<1>6. \A i \in 1 .. n : Logged(events, group)[Len(log) + i] = E(i)
  BY <1>3, <1>4, <1>5
<1> QED
  BY <1>3, <1>5, <1>6 DEF E

\* A transaction is of a kind that has a form.
LEMMA KindIs ==
    ASSUME groups \in Seq(Kinds), NEW g \in 1 .. Len(groups)
    PROVE  /\ groups[g] \in DOMAIN Forms
           /\ Size(groups[g]) \in Nat /\ Size(groups[g]) >= 1
<1>1. groups[g] \in Kinds
  OBVIOUS
<1>2. groups[g] \in DOMAIN Forms
  BY <1>1, AssemblerAssumption
<1> QED
  BY <1>2, SizeType

\* The events of a transaction are where it is, and are none of its names.
LEMMA HeldEvent ==
    ASSUME groups \in Seq(Kinds), NEW s, NEW g, Holds(s, g), NEW i \in Nat, s < i,
           i <= s + Size(groups[g])
    PROVE  /\ i - s \in 1 .. Size(groups[g])
           /\ Is(log[i], g, Forms[groups[g]][i - s])
           /\ log[i].type \notin {"gtid", "anonymous", "rotate"} /\ log[i].group = g
<1>1. s \in Nat /\ g \in 1 .. Len(groups)
      /\ \A j \in 1 .. Size(groups[g]) : Is(log[s + j], g, Forms[groups[g]][j])
  BY DEF Holds
<1>2. groups[g] \in DOMAIN Forms /\ Size(groups[g]) \in Nat
  BY <1>1, KindIs
<1> DEFINE j == i - s
<1>3. j \in 1 .. Size(groups[g]) /\ s + j = i
  BY <1>1, <1>2
<1> HIDE DEF j
<1>4. Is(log[i], g, Forms[groups[g]][j])
  BY <1>1, <1>3
<1>5. Forms[groups[g]][j].type \notin {"gtid", "anonymous", "rotate"}
  BY <1>2, <1>3, FormTypes
<1>6. log[i].type = Forms[groups[g]][j].type /\ log[i].group = g
  BY <1>4 DEF Is
<1> QED
  BY <1>3, <1>4, <1>5, <1>6 DEF j

\* An event is of one transaction.
LEMMA HeldOnce ==
    ASSUME groups \in Seq(Kinds), NEW i \in Nat, NEW s, NEW g, NEW t, NEW h,
           Within(i, s, g), Within(i, t, h)
    PROVE  s = t /\ g = h
<1>1. /\ Holds(s, g) /\ s <= i /\ i <= s + Size(groups[g]) /\ s \in Nat
      /\ log[s].type \in Names /\ log[s].group = g
      /\ Holds(t, h) /\ t <= i /\ i <= t + Size(groups[h]) /\ t \in Nat
      /\ log[t].type \in Names /\ log[t].group = h
  BY DEF Within, Holds
<1>2. g \in 1 .. Len(groups) /\ h \in 1 .. Len(groups)
  BY <1>1 DEF Holds
<1>3. Size(groups[g]) \in Nat /\ Size(groups[h]) \in Nat
  BY <1>2, KindIs
<1>4. ~ (s < t)
  <2> SUFFICES ASSUME s < t PROVE FALSE
    OBVIOUS
  <2>1. t <= s + Size(groups[g])
    BY <1>1, <1>3
  <2>2. log[t].type \notin {"gtid", "anonymous", "rotate"}
    BY <1>1, <2>1, HeldEvent
  <2> QED
    BY <1>1, <2>2 DEF Names
<1>5. ~ (t < s)
  <2> SUFFICES ASSUME t < s PROVE FALSE
    OBVIOUS
  <2>1. s <= t + Size(groups[h])
    BY <1>1, <1>3
  <2>2. log[s].type \notin {"gtid", "anonymous", "rotate"}
    BY <1>1, <2>1, HeldEvent
  <2> QED
    BY <1>1, <2>2 DEF Names
<1>6. s = t
  BY <1>1, <1>4, <1>5
<1> QED
  BY <1>1, <1>6

\* As many events lie up to the position of one as it has before it and
\* itself.
LEMMA UpToEvent ==
    ASSUME LogInv, NEW n \in 1 .. Len(log), NEW p, p.file = log[n].file, p.pos = log[n].pos
    PROVE  UpTo(p) = n
<1>1. log \in Seq(LogEvent) /\ DOMAIN log = 1 .. Len(log) /\ Len(log) \in Nat
  BY DEF LogInv, LogTypes
<1>2. \A i \in 1 .. Len(log) : log[i].file \in Nat /\ log[i].pos \in Nat
  BY <1>1, EventIsWhole
<1>3. \A i \in 1 .. Len(log), k \in 1 .. Len(log) : i < k => Before(log[i], log[k])
  BY DEF LogInv, PositionsRise
<1> DEFINE Up(i) == log[i].file < p.file \/ (log[i].file = p.file /\ log[i].pos <= p.pos)
<1>4. ASSUME NEW i \in 1 .. Len(log) PROVE Up(i) <=> i <= n
  <2>1. CASE i < n
    <3>1. Before(log[i], log[n])
      BY <1>3, <2>1
    <3> QED
      BY <1>2, <2>1, <3>1 DEF Before
  <2>2. CASE i = n
    BY <1>2, <2>2
  <2>3. CASE i > n
    <3>1. Before(log[n], log[i])
      BY <1>3, <2>3
    <3> QED
      BY <1>2, <2>3, <3>1 DEF Before
  <2> QED
    BY <2>1, <2>2, <2>3
<1>5. {i \in DOMAIN log : Up(i)} = 1 .. n
  <2> HIDE DEF Up
  <2> QED
    BY <1>1, <1>4
<1>6. Cardinality(1 .. n) = n
  BY FS_Interval
<1> QED
  BY <1>5, <1>6 DEF UpTo

\* All of them lie up to the end.
LEMMA UpToEnd ==
    ASSUME LogInv
    PROVE  UpTo(EndOfLog) = Len(log)
<1>1. log \in Seq(LogEvent) /\ DOMAIN log = 1 .. Len(log) /\ Len(log) \in Nat
  BY DEF LogInv, LogTypes
<1>2. CASE log = <<>>
  <2>1. {i \in DOMAIN log : \/ log[i].file < EndOfLog.file
                            \/ log[i].file = EndOfLog.file /\ log[i].pos <= EndOfLog.pos} = {}
    BY <1>2
  <2> QED
    BY <1>2, <2>1, FS_EmptySet DEF UpTo
<1>3. CASE log # <<>>
  <2> DEFINE n == Len(log)
             e == log[n]
  <2>1. n \in 1 .. n
    BY <1>1, <1>3
  <2>2. EndOf(log) = IF e.type = "rotate" THEN [file |-> e.file + 1, pos |-> 0]
                     ELSE [file |-> e.file, pos |-> e.pos]
    BY <1>3 DEF EndOf
  <2>3. CASE e.type # "rotate"
    <3>1. EndOfLog.file = log[n].file /\ EndOfLog.pos = log[n].pos
      BY <2>2, <2>3, EndIs
    <3> HIDE DEF n
    <3> QED
      BY <2>1, <3>1, UpToEvent DEF n
  <2>4. CASE e.type = "rotate"
    <3>1. EndOfLog.file = e.file + 1
      BY <2>2, <2>4, EndIs
    <3>2. \A i \in 1 .. Len(log) : log[i].file \in Nat /\ log[i].pos \in Nat
      BY <1>1, EventIsWhole
    <3>3. \A i \in 1 .. Len(log) : log[i].file < EndOfLog.file
      <4> TAKE i \in 1 .. Len(log)
      <4>1. CASE i = n
        BY <2>1, <3>1, <3>2, <4>1
      <4>2. CASE i # n
        <5>1. Before(log[i], log[n])
          BY <2>1, <4>2 DEF LogInv, PositionsRise
        <5> QED
          BY <2>1, <3>1, <3>2, <5>1 DEF Before
      <4> QED
        BY <4>1, <4>2
    <3>4. {i \in DOMAIN log : \/ log[i].file < EndOfLog.file
                              \/ log[i].file = EndOfLog.file /\ log[i].pos <= EndOfLog.pos}
             = 1 .. Len(log)
      BY <1>1, <3>3
    <3>5. Cardinality(1 .. Len(log)) = Len(log)
      BY <1>1, FS_Interval, SMTT(30)
    <3> QED
      BY <3>4, <3>5 DEF UpTo
  <2> QED
    BY <2>3, <2>4
<1> QED
  BY <1>2, <1>3

\* The end of the log lies behind its events.
LEMMA EndIsLast ==
    ASSUME LogInv
    PROVE  /\ EndOfLog.file \in Nat /\ EndOfLog.file >= 1 /\ EndOfLog.pos \in Nat
           /\ \A i \in 1 .. Len(log) : \/ log[i].file < EndOfLog.file
                                       \/ log[i].file = EndOfLog.file /\ log[i].pos <= EndOfLog.pos
<1>1. log \in Seq(LogEvent) /\ Len(log) \in Nat
  BY DEF LogInv, LogTypes
<1>2. \A i \in 1 .. Len(log) : log[i].file \in Nat /\ log[i].pos \in Nat /\ log[i].file >= 1
  BY <1>1, EventIsWhole DEF LogInv, PositionsRise
<1>3. EndOfLog.file \in Nat /\ EndOfLog.pos \in Nat
  BY <1>1, EndIs, EndOfIs
<1>4. CASE log = <<>>
  <2>1. EndOfLog.file = 1
    BY <1>4, EndIs DEF EndOf
  <2> QED
    BY <1>3, <1>4, <2>1
<1>5. CASE log # <<>>
  <2> DEFINE n == Len(log)
             e == log[n]
  <2>1. n \in 1 .. n
    BY <1>1, <1>5
  <2>2. EndOf(log) = IF e.type = "rotate" THEN [file |-> e.file + 1, pos |-> 0]
                     ELSE [file |-> e.file, pos |-> e.pos]
    BY <1>5 DEF EndOf
  <2>3. \/ EndOfLog.file = e.file + 1
        \/ EndOfLog.file = e.file /\ EndOfLog.pos = e.pos
    BY <2>2, EndIs
  <2>4. ASSUME NEW i \in 1 .. Len(log)
        PROVE  \/ log[i].file < EndOfLog.file
               \/ log[i].file = EndOfLog.file /\ log[i].pos <= EndOfLog.pos
    <3>1. CASE i = n
      BY <1>2, <2>1, <2>3, <3>1
    <3>2. CASE i # n
      <4>1. Before(log[i], log[n])
        BY <2>1, <3>2 DEF LogInv, PositionsRise
      <4> QED
        BY <1>2, <2>1, <2>3, <4>1 DEF Before
    <3> QED
      BY <3>1, <3>2
  <2>5. EndOfLog.file >= 1
    BY <1>2, <2>1, <2>3
  <2> QED
    BY <1>3, <2>4, <2>5
<1> QED
  BY <1>4, <1>5

\* The server writes behind the log, and what it has written stays.
LEMMA LogGrows ==
    ASSUME LogInv, NEW events, NEW n \in Nat, n >= 1, NEW group \in Nat,
           DOMAIN events = 1 .. n,
           \A i \in 1 .. n : /\ events[i].type \in Types /\ events[i].stmt \in Nat
                             /\ events[i].inner \in Inners
                             /\ i < n => events[i].type # "rotate",
           log' = Logged(events, group)
    PROVE  /\ log' \in Seq(LogEvent) /\ Len(log') = Len(log) + n
           /\ \A i \in 1 .. Len(log) : log'[i] = log[i]
           /\ \A i \in 1 .. n : Is(log'[Len(log) + i], group, events[i])
           /\ \A i \in 0 .. Len(log) : NextFile(i)' = NextFile(i)
           /\ PositionsRise'
<1> DEFINE k == Len(log)
           end == EndOfLog
           new(i) == log'[k + i]
<1>1. log \in Seq(LogEvent) /\ k \in Nat
  BY DEF LogInv, LogTypes
<1>2. /\ log' \in Seq(LogEvent) /\ Len(log') = k + n
      /\ \A i \in 1 .. k : log'[i] = log[i]
      /\ \A i \in 1 .. n : new(i) = [type |-> events[i].type, stmt |-> events[i].stmt,
                                     inner |-> events[i].inner, group |-> group,
                                     file |-> end.file, pos |-> end.pos + i]
  BY <1>1, LoggedIs, ZenonT(60)
<1>3. \A i \in 1 .. n : /\ Is(new(i), group, events[i]) /\ new(i).type = events[i].type
                        /\ new(i).file = end.file /\ new(i).pos = end.pos + i
  <2> HIDE DEF new, end
  <2> TAKE i \in 1 .. n
  <2>1. new(i) = [type |-> events[i].type, stmt |-> events[i].stmt, inner |-> events[i].inner,
                  group |-> group, file |-> end.file, pos |-> end.pos + i]
    BY <1>2
  <2>2. /\ new(i).type = events[i].type /\ new(i).stmt = events[i].stmt
        /\ new(i).inner = events[i].inner /\ new(i).group = group
    BY <2>1
  <2>3. new(i).file = end.file /\ new(i).pos = end.pos + i
    BY <2>1
  <2> QED
    BY <2>2, <2>3 DEF Is
<1>4. /\ end.file \in Nat /\ end.file >= 1 /\ end.pos \in Nat
      /\ \A i \in 1 .. k : \/ log[i].file < end.file
                           \/ log[i].file = end.file /\ log[i].pos <= end.pos
  BY EndIsLast
<1>5. \A i \in 1 .. k : log[i].file \in Nat /\ log[i].pos \in Nat
  BY <1>1, EventIsWhole
<1> HIDE DEF k, end, new
<1>6. \A i \in 1 .. k + n : i \in 1 .. k \/ (i - k \in 1 .. n /\ log'[i] = new(i - k))
  <2> TAKE i \in 1 .. k + n
  <2>1. k + (i - k) = i
    BY <1>1
  <2> QED
    BY <1>1, <2>1 DEF new
<1>7. \A i \in 0 .. k : NextFile(i)' = NextFile(i)
  <2> TAKE i \in 0 .. k
  <2>1. NextFile(i) = IF i < k THEN log[i + 1].file ELSE end.file
    BY DEF NextFile, k, end
  <2>2. NextFile(i)' = log'[i + 1].file
    BY <1>1, <1>2 DEF NextFile
  <2>3. CASE i < k
    <3>1. i + 1 \in 1 .. k
      BY <1>1, <2>3
    <3> QED
      BY <1>2, <2>1, <2>2, <2>3, <3>1
  <2>4. CASE i = k
    <3>1. log'[i + 1] = new(1)
      BY <2>4 DEF new
    <3> QED
      BY <1>3, <2>1, <2>2, <2>4, <3>1
  <2> QED
    BY <1>1, <2>3, <2>4
<1>8. \A i \in 1 .. Len(log') : log'[i].file >= 1 /\ log'[i].pos >= 1
  <2> TAKE i \in 1 .. Len(log')
  <2>1. CASE i \in 1 .. k
    <3>1. log[i].file >= 1 /\ log[i].pos >= 1
      BY <2>1 DEF LogInv, PositionsRise, k
    <3> QED
      BY <1>2, <2>1, <3>1
  <2>2. CASE i \notin 1 .. k
    <3>1. i - k \in 1 .. n /\ log'[i] = new(i - k)
      BY <1>2, <1>6, <2>2
    <3> QED
      BY <1>3, <1>4, <3>1
  <2> QED
    BY <2>1, <2>2
<1>9. \A i \in 1 .. Len(log'), m \in 1 .. Len(log') : i < m => Before(log'[i], log'[m])
  <2> SUFFICES ASSUME NEW i \in 1 .. Len(log'), NEW m \in 1 .. Len(log'), i < m
               PROVE  Before(log'[i], log'[m])
    OBVIOUS
  <2>1. CASE m \in 1 .. k
    <3>1. i \in 1 .. k
      BY <1>1, <2>1
    <3>2. Before(log[i], log[m])
      BY <2>1, <3>1 DEF LogInv, PositionsRise, k
    <3> QED
      BY <1>2, <2>1, <3>1, <3>2
  <2>2. CASE m \notin 1 .. k
    <3>1. m - k \in 1 .. n /\ log'[m] = new(m - k)
      BY <1>2, <1>6, <2>2
    <3>2. log'[m].file = end.file /\ log'[m].pos = end.pos + (m - k)
      BY <1>3, <3>1
    <3>3. CASE i \in 1 .. k
      <4>1. log'[i] = log[i]
        BY <1>2, <3>3
      <4>2. \/ log[i].file < end.file
            \/ log[i].file = end.file /\ log[i].pos <= end.pos
        BY <1>4, <3>3
      <4>3. log[i].file \in Nat /\ log[i].pos \in Nat
        BY <1>5, <3>3
      <4>4. end.pos + (m - k) > end.pos
        BY <1>1, <1>4, <3>1
      <4>5. log[i].pos <= end.pos => log[i].pos < end.pos + (m - k)
        BY <1>1, <1>4, <3>1, <4>3, SMTT(30)
      <4> QED
        BY <3>2, <4>1, <4>2, <4>5 DEF Before
    <3>4. CASE i \notin 1 .. k
      <4>1. i - k \in 1 .. n /\ log'[i] = new(i - k)
        BY <1>2, <1>6, <3>4
      <4>2. log'[i].file = end.file /\ log'[i].pos = end.pos + (i - k)
        BY <1>3, <4>1
      <4>3. end.pos + (i - k) < end.pos + (m - k)
        BY <1>1, <1>4
      <4> QED
        BY <3>2, <4>2, <4>3 DEF Before
    <3> QED
      BY <3>3, <3>4
  <2> QED
    BY <2>1, <2>2
<1>10. \A i \in 1 .. Len(log') :
          NextFile(i)' = IF log'[i].type = "rotate" THEN log'[i].file + 1 ELSE log'[i].file
  <2> TAKE i \in 1 .. Len(log')
  <2>1. CASE i \in 1 .. k
    <3>1. NextFile(i)' = NextFile(i)
      BY <1>1, <1>7, <2>1
    <3>2. NextFile(i) = IF log[i].type = "rotate" THEN log[i].file + 1 ELSE log[i].file
      BY <2>1 DEF LogInv, PositionsRise, k
    <3> QED
      BY <1>2, <2>1, <3>1, <3>2
  <2>2. CASE i \notin 1 .. k
    <3>1. i - k \in 1 .. n /\ log'[i] = new(i - k)
      BY <1>2, <1>6, <2>2
    <3>2. log'[i].file = end.file /\ log'[i].type = events[i - k].type
      BY <1>3, <3>1
    <3>3. CASE i < k + n
      <4>1. i + 1 \in 1 .. k + n /\ i + 1 \notin 1 .. k
        BY <1>1, <2>2, <3>1, <3>3
      <4> DEFINE m == i + 1
      <4>2. m - k \in 1 .. n /\ log'[m] = new(m - k)
        BY <1>6, <4>1
      <4> HIDE DEF m
      <4>3. log'[m].file = end.file
        BY <1>3, <4>2
      <4>4. NextFile(i)' = log'[m].file
        BY <1>2, <3>3 DEF NextFile, m
      <4>5. i - k < n
        BY <1>1, <3>1, <3>3
      <4>6. events[i - k].type # "rotate"
        BY <3>1, <4>5
      <4> QED
        BY <3>2, <4>3, <4>4, <4>6
    <3>4. CASE i = k + n
      <4>1. NextFile(i)' = EndOf(log').file
        BY <1>1, <1>2, <3>4, EndIs DEF NextFile
      <4>2. log' # <<>> /\ i = Len(log')
        BY <1>1, <1>2, <3>4
      <4> DEFINE e == log'[i]
      <4>3. EndOf(log') = IF e.type = "rotate" THEN [file |-> e.file + 1, pos |-> 0]
                          ELSE [file |-> e.file, pos |-> e.pos]
        BY <4>2 DEF EndOf
      <4> HIDE DEF e
      <4>4. EndOf(log').file = IF e.type = "rotate" THEN e.file + 1 ELSE e.file
        BY <4>3
      <4> QED
        BY <4>1, <4>4 DEF e
    <3> QED
      BY <1>1, <1>2, <3>3, <3>4
  <2> QED
    BY <2>1, <2>2
<1>11. NextFile(0)' = 1
  BY <1>1, <1>7 DEF LogInv, PositionsRise
<1>12. PositionsRise'
  BY <1>8, <1>9, <1>10, <1>11 DEF PositionsRise
<1> QED
  BY <1>2, <1>3, <1>7, <1>12 DEF k, new

\* What the log and its transactions were they still are.
Grows ==
    /\ log' \in Seq(LogEvent) /\ groups' \in Seq(Kinds)
    /\ Len(log) <= Len(log') /\ \A i \in 1 .. Len(log) : log'[i] = log[i]
    /\ Len(groups) <= Len(groups') /\ \A g \in 1 .. Len(groups) : groups'[g] = groups[g]

\* A transaction stays where it is.
LEMMA HoldsStay ==
    ASSUME LogInv, Grows, NEW s, NEW g, Holds(s, g)
    PROVE  Holds(s, g)'
<1>1. log \in Seq(LogEvent) /\ groups \in Seq(Kinds) /\ Len(log) \in Nat /\ Len(groups) \in Nat
  BY DEF LogInv, LogTypes
<1>2. /\ s \in 1 .. Len(log) /\ g \in 1 .. Len(groups)
      /\ s + Size(groups[g]) <= Len(log)
      /\ log[s].type \in Names /\ log[s].group = g
      /\ \A j \in 1 .. Size(groups[g]) : Is(log[s + j], g, Forms[groups[g]][j])
  BY DEF Holds
<1>3. /\ log' \in Seq(LogEvent) /\ groups' \in Seq(Kinds)
      /\ Len(log) <= Len(log') /\ \A i \in 1 .. Len(log) : log'[i] = log[i]
      /\ Len(groups) <= Len(groups') /\ \A h \in 1 .. Len(groups) : groups'[h] = groups[h]
  BY DEF Grows
<1>4. groups'[g] = groups[g] /\ Size(groups[g]) \in Nat
  BY <1>1, <1>2, <1>3, KindIs
<1>5. s \in 1 .. Len(log') /\ g \in 1 .. Len(groups') /\ log'[s] = log[s]
  <2>1. Len(log') \in Nat /\ Len(groups') \in Nat
    BY <1>3
  <2> QED
    BY <1>1, <1>2, <1>3, <2>1
<1>6. s + Size(groups'[g]) <= Len(log')
  BY <1>1, <1>2, <1>3, <1>4
<1>7. \A j \in 1 .. Size(groups'[g]) : Is(log'[s + j], g, Forms[groups'[g]][j])
  <2> TAKE j \in 1 .. Size(groups'[g])
  <2>1. j \in 1 .. Size(groups[g]) /\ s + j \in 1 .. Len(log)
    BY <1>1, <1>2, <1>4
  <2>2. log'[s + j] = log[s + j]
    BY <1>3, <2>1
  <2> QED
    BY <1>2, <1>4, <2>1, <2>2
<1>8. log'[s].type \in Names /\ log'[s].group = g
  BY <1>2, <1>5
<1> QED
  BY <1>5, <1>6, <1>7, <1>8 DEF Holds

\* One that begins in what was the log was in it.
LEMMA HeldBefore ==
    ASSUME LogInv, Grows, NEW s, NEW g, Holds(s, g)', s \in 1 .. Len(log)
    PROVE  Holds(s, g)
<1>1. log \in Seq(LogEvent) /\ groups \in Seq(Kinds)
  BY DEF LogInv, LogTypes
<1>2. log'[s].type \in Names /\ log'[s].group = g
  BY DEF Holds
<1>3. log[s].type \in Names /\ log[s].group = g
  BY <1>2 DEF Grows
<1>4. PICK t \in 1 .. Len(log), h \in 1 .. Len(groups) : Within(s, t, h)
  BY <1>3 DEF LogInv, WholeTransactions, Names
<1>5. Holds(t, h) /\ t <= s /\ s <= t + Size(groups[h]) /\ t \in Nat /\ s \in Nat
  BY <1>4 DEF Within
<1>6. t = s
  <2> SUFFICES ASSUME t < s PROVE FALSE
    BY <1>5
  <2>1. log[s].type \notin {"gtid", "anonymous", "rotate"}
    BY <1>1, <1>5, HeldEvent
  <2> QED
    BY <1>3, <2>1 DEF Names
<1>7. h = g
  BY <1>3, <1>5, <1>6 DEF Holds
<1> QED
  BY <1>5, <1>6, <1>7

\* What the assembler has of the transaction event i is of.
Hand(i, query, rows) ==
    /\ \A s \in 1 .. Len(log), g \in 1 .. Len(groups) :
          Within(i, s, g) => /\ rows = InHand(groups[g], i - s, g)
                             /\ query = Announced(groups[g], i - s)
    /\ i = 0 \/ log[i].type = "rotate" => rows = <<>> /\ query = 0

\* It has the same when the log has grown.
LEMMA HandStays ==
    ASSUME LogInv, Grows, NEW i \in 0 .. Len(log), NEW query, NEW rows, Hand(i, query, rows)
    PROVE  Hand(i, query, rows)'
<1>1. log \in Seq(LogEvent) /\ groups \in Seq(Kinds) /\ Len(log) \in Nat
  BY DEF LogInv, LogTypes
<1>2. ASSUME NEW s \in 1 .. Len(log'), NEW g \in 1 .. Len(groups'), Within(i, s, g)'
      PROVE  /\ rows = InHand(groups'[g], i - s, g)
             /\ query = Announced(groups'[g], i - s)
  <2>1. Holds(s, g)' /\ s <= i /\ i <= s + Size(groups'[g])
    BY <1>2 DEF Within
  <2>2. s \in 1 .. Len(log)
    BY <1>1, <2>1
  <2>3. Holds(s, g)
    BY <2>1, <2>2, HeldBefore
  <2>4. g \in 1 .. Len(groups)
    BY <2>3 DEF Holds
  <2>5. groups'[g] = groups[g]
    BY <2>4 DEF Grows
  <2>6. Within(i, s, g)
    BY <2>1, <2>3, <2>5 DEF Within
  <2> QED
    BY <2>2, <2>4, <2>5, <2>6 DEF Hand
<1>3. i = 0 \/ log'[i].type = "rotate" => rows = <<>> /\ query = 0
  BY <1>1 DEF Hand, Grows
<1> QED
  BY <1>2, <1>3 DEF Hand

\* Between two transactions it has nothing.
LEMMA BetweenClean ==
    ASSUME LogInv, NEW i \in 1 .. Len(log), log[i].type \in {"gtid", "anonymous", "rotate"},
           NEW query, NEW rows, Hand(i - 1, query, rows)
    PROVE  rows = <<>> /\ query = 0
<1>1. log \in Seq(LogEvent) /\ groups \in Seq(Kinds) /\ Len(log) \in Nat
  BY DEF LogInv, LogTypes
<1>2. CASE i = 1
  BY <1>2 DEF Hand
<1>3. CASE i # 1
  <2> DEFINE k == i - 1
  <2>1. k \in 1 .. Len(log) /\ k + 1 = i /\ k \in Nat
    BY <1>1, <1>3
  <2>2. CASE log[k].type = "rotate"
    BY <2>2 DEF Hand
  <2>3. CASE log[k].type # "rotate"
    <3>1. PICK s \in 1 .. Len(log), g \in 1 .. Len(groups) : Within(k, s, g)
      BY <2>1, <2>3 DEF LogInv, WholeTransactions
    <3>2. Holds(s, g) /\ s <= k /\ k <= s + Size(groups[g])
      BY <3>1 DEF Within
    <3>3. groups[g] \in DOMAIN Forms /\ Size(groups[g]) \in Nat
      BY <1>1, KindIs
    <3>4. k = s + Size(groups[g])
      <4> SUFFICES ASSUME k # s + Size(groups[g]) PROVE FALSE
        OBVIOUS
      <4>1. i \in Nat /\ s < i /\ i <= s + Size(groups[g])
        BY <2>1, <3>2, <3>3
      <4>2. log[i].type \notin {"gtid", "anonymous", "rotate"}
        BY <1>1, <3>2, <4>1, HeldEvent
      <4> QED
        BY <4>2
    <3>5. k - s = Size(groups[g])
      BY <2>1, <3>3, <3>4
    <3>6. rows = InHand(groups[g], k - s, g) /\ query = Announced(groups[g], k - s)
      BY <3>1 DEF Hand
    <3> QED
      BY <3>3, <3>5, <3>6, EndsClean
  <2> QED
    BY <2>2, <2>3
<1> QED
  BY <1>2, <1>3

\* And at the end of the log.
LEMMA EndClean ==
    ASSUME LogInv, NEW query, NEW rows
    PROVE  Hand(Len(log), query, rows) <=> (rows = <<>> /\ query = 0)
<1>1. log \in Seq(LogEvent) /\ groups \in Seq(Kinds) /\ Len(log) \in Nat
  BY DEF LogInv, LogTypes
<1> DEFINE n == Len(log)
<1>2. \A s \in 1 .. n, g \in 1 .. Len(groups) :
          Within(n, s, g) => /\ n - s = Size(groups[g])
                             /\ InHand(groups[g], n - s, g) = <<>>
                             /\ Announced(groups[g], n - s) = 0
  <2> SUFFICES ASSUME NEW s \in 1 .. n, NEW g \in 1 .. Len(groups), Within(n, s, g)
               PROVE  /\ n - s = Size(groups[g])
                      /\ InHand(groups[g], n - s, g) = <<>>
                      /\ Announced(groups[g], n - s) = 0
    OBVIOUS
  <2>1. s + Size(groups[g]) <= n /\ n <= s + Size(groups[g])
    BY DEF Within, Holds
  <2>2. groups[g] \in DOMAIN Forms /\ Size(groups[g]) \in Nat
    BY <1>1, KindIs
  <2>3. n - s = Size(groups[g])
    <3>1. PICK z, l : z = Size(groups[g]) /\ l = n
      OBVIOUS
    <3>2. z \in Nat /\ l \in Nat /\ s \in 1 .. l /\ s + z <= l /\ l <= s + z
      BY <1>1, <2>1, <2>2, <3>1
    <3>3. l - s = z
      BY <3>2
    <3> QED
      BY <3>1, <3>3
  <2> QED
    BY <2>2, <2>3, EndsClean
<1>3. ASSUME rows = <<>>, query = 0 PROVE Hand(n, query, rows)
  BY <1>2, <1>3 DEF Hand
<1>4. ASSUME Hand(n, query, rows) PROVE rows = <<>> /\ query = 0
  <2>1. CASE n = 0 \/ log[n].type = "rotate"
    BY <1>4, <2>1 DEF Hand
  <2>2. CASE ~ (n = 0 \/ log[n].type = "rotate")
    <3>1. PICK s \in 1 .. n, g \in 1 .. Len(groups) : Within(n, s, g)
      <4>1. n \in 1 .. n
        BY <1>1, <2>2
      <4> QED
        BY <2>2, <4>1 DEF LogInv, WholeTransactions
    <3>2. rows = InHand(groups[g], n - s, g) /\ query = Announced(groups[g], n - s)
      BY <1>4, <3>1 DEF Hand
    <3> QED
      BY <1>2, <3>1, <3>2
  <2> QED
    BY <2>1, <2>2
<1> QED
  BY <1>3, <1>4

----------------------------------------------------------------------------
(***************************************************************************)
(* The stream                                                              *)
(***************************************************************************)
\* The end of a file: the next event is read against the next one.
LEMMA HandledRotate ==
    ASSUME LogInv, NEW i \in 1 .. Len(log), log[i].type = "rotate",
           NEW f, NEW n, NEW query, NEW rows, Hand(i - 1, query, rows)
    PROVE  /\ Handle(Holding(f, n, query, rows), log[i])
                 = Result(Holding(NextFile(i), n, query, rows), <<>>, <<>>)
           /\ Hand(i, query, rows) /\ rows = <<>> /\ query = 0
<1>1. log \in Seq(LogEvent) /\ groups \in Seq(Kinds) /\ Len(log) \in Nat
  BY DEF LogInv, LogTypes
<1>2. rows = <<>> /\ query = 0
  BY BetweenClean
<1> DEFINE e == log[i]
<1>3. e.type = "rotate" /\ NextFile(i) = e.file + 1
  BY DEF LogInv, PositionsRise
<1> HIDE DEF e
<1>4. Handle(Holding(f, n, query, rows), e) = HandlePlain(Holding(f, n, query, rows), e)
  BY <1>3 DEF Handle
<1>5. HandlePlain(Holding(f, n, query, rows), e) = Quiet(Holding(e.file + 1, n, query, rows))
  BY <1>3, EffectOfRotate
<1>6. \A s \in 1 .. Len(log), g \in 1 .. Len(groups) : ~ Within(i, s, g)
  <2> SUFFICES ASSUME NEW s \in 1 .. Len(log), NEW g \in 1 .. Len(groups), Within(i, s, g)
               PROVE  FALSE
    OBVIOUS
  <2>1. Holds(s, g) /\ s <= i /\ i <= s + Size(groups[g]) /\ log[s].type \in Names
    BY DEF Within, Holds
  <2>2. CASE s = i
    BY <2>1, <2>2 DEF Names
  <2>3. CASE s # i
    <3>1. s < i
      BY <2>1, <2>3
    <3>2. log[i].type \notin {"gtid", "anonymous", "rotate"}
      BY <1>1, <2>1, <3>1, HeldEvent
    <3> QED
      BY <3>2
  <2> QED
    BY <2>2, <2>3
<1>7. Hand(i, query, rows)
  BY <1>2, <1>6 DEF Hand
<1> QED
  BY <1>2, <1>3, <1>4, <1>5, <1>7 DEF Quiet, e

\* The event that names a transaction, or says that it has no name.
LEMMA HandledName ==
    ASSUME LogInv, NEW i \in 1 .. Len(log), log[i].type \in Names,
           NEW n, NEW query, NEW rows, Hand(i - 1, query, rows)
    PROVE  /\ Handle(Holding(NextFile(i - 1), n, query, rows), log[i])
                 = Result(Holding(NextFile(i), IF log[i].type = "gtid" THEN log[i].group ELSE n,
                                  query, rows), <<>>, <<>>)
           /\ Hand(i, query, rows) /\ rows = <<>> /\ query = 0
<1>1. log \in Seq(LogEvent) /\ groups \in Seq(Kinds) /\ Len(log) \in Nat
  BY DEF LogInv, LogTypes
<1>2. rows = <<>> /\ query = 0
  BY BetweenClean DEF Names
<1> DEFINE e == log[i]
           f == NextFile(i - 1)
<1>3. f = e.file /\ NextFile(i) = e.file
  <2>1. i - 1 < Len(log) /\ i - 1 + 1 = i
    BY <1>1
  <2>2. f = e.file
    BY <2>1 DEF NextFile
  <2>3. log[i].type # "rotate"
    BY DEF Names
  <2> QED
    BY <2>2, <2>3 DEF LogInv, PositionsRise
<1>4. e.type \in {"gtid", "anonymous"}
  BY DEF Names
<1> HIDE DEF e, f
<1>5. Handle(Holding(f, n, query, rows), e) = HandlePlain(Holding(f, n, query, rows), e)
  BY <1>4 DEF Handle
<1>6. e.type = "gtid" => HandlePlain(Holding(f, n, query, rows), e)
                             = Quiet(Holding(f, e.group, query, rows))
  BY EffectOfGTID
<1>7. e.type = "anonymous" => HandlePlain(Holding(f, n, query, rows), e)
                                  = Quiet(Holding(f, n, query, rows))
  BY PlainTypes
<1>8. \A s \in 1 .. Len(log), g \in 1 .. Len(groups) :
          Within(i, s, g) => i - s = 0 /\ groups[g] \in DOMAIN Forms
  <2> SUFFICES ASSUME NEW s \in 1 .. Len(log), NEW g \in 1 .. Len(groups), Within(i, s, g)
               PROVE  i - s = 0 /\ groups[g] \in DOMAIN Forms
    OBVIOUS
  <2>1. Holds(s, g) /\ s <= i /\ i <= s + Size(groups[g])
    BY DEF Within
  <2>2. ~ (s < i)
    <3> SUFFICES ASSUME s < i PROVE FALSE
      OBVIOUS
    <3>1. log[i].type \notin {"gtid", "anonymous", "rotate"}
      BY <1>1, <2>1, HeldEvent
    <3> QED
      BY <3>1 DEF Names
  <2>3. groups[g] \in DOMAIN Forms
    BY <1>1, KindIs
  <2> QED
    BY <2>1, <2>2, <2>3
<1>9. Hand(i, query, rows)
  <2>1. i # 0 /\ log[i].type # "rotate"
    BY DEF Names
  <2> QED
    BY <1>2, <1>8, <2>1, EndsClean DEF Hand
<1> QED
  BY <1>2, <1>3, <1>4, <1>5, <1>6, <1>7, <1>9 DEF Quiet, e, f

\* An event of a transaction.
LEMMA HandledForm ==
    ASSUME LogInv, NEW i \in 1 .. Len(log), NEW s \in 1 .. Len(log), NEW g \in 1 .. Len(groups),
           Within(i, s, g), s < i, log[i].type # "xa",
           NEW n, NEW query, NEW rows, Hand(i - 1, query, rows)
    PROVE  LET kind == groups[g]
               j == i - s
           IN  /\ j \in 1 .. Size(kind) /\ kind \in DOMAIN Forms
               /\ Handle(Holding(NextFile(i - 1), n, query, rows), log[i])
                     = Result(Holding(NextFile(i), NameAfter(kind, j, n),
                                      Announced(kind, j), InHand(kind, j, g)),
                              Given(GivenOut(kind, j, g), IDOf(log[i].file, n, log[i])),
                              Missed(kind, j, g))
               /\ Hand(i, Announced(kind, j), InHand(kind, j, g))
               /\ NextFile(i) = log[i].file
<1> DEFINE kind == groups[g]
           j == i - s
           e == log[i]
           f == NextFile(i - 1)
<1>1. log \in Seq(LogEvent) /\ groups \in Seq(Kinds) /\ Len(log) \in Nat
  BY DEF LogInv, LogTypes
<1>2. Holds(s, g) /\ i <= s + Size(kind)
  BY DEF Within
<1>3. /\ j \in 1 .. Size(kind) /\ Is(e, g, Forms[kind][j])
      /\ e.type \notin {"gtid", "anonymous", "rotate"} /\ e.group = g
  BY <1>1, <1>2, HeldEvent
<1>4. kind \in DOMAIN Forms
  BY <1>1, KindIs
<1>5. Whole(e)
  BY <1>1, EventIsWhole
<1>6. f = e.file /\ NextFile(i) = e.file
  <2>1. i - 1 < Len(log) /\ i - 1 + 1 = i
    BY <1>1
  <2>2. f = e.file
    BY <2>1 DEF NextFile
  <2> QED
    BY <1>3, <2>2 DEF LogInv, PositionsRise
<1>7. query = Announced(kind, j - 1) /\ rows = InHand(kind, j - 1, g)
  <2>1. Within(i - 1, s, g)
    <3>1. Size(kind) \in Nat
      BY <1>1, KindIs
    <3> QED
      BY <1>2, <3>1 DEF Within
  <2>2. i - 1 - s = j - 1
    OBVIOUS
  <2>3. rows = InHand(groups[g], i - 1 - s, g) /\ query = Announced(groups[g], i - 1 - s)
    BY <2>1 DEF Hand
  <2> QED
    BY <2>2, <2>3
<1>8. Hand(i, Announced(kind, j), InHand(kind, j, g))
  <2>1. i # 0 /\ log[i].type # "rotate"
    BY <1>3
  <2>2. ASSUME NEW t \in 1 .. Len(log), NEW h \in 1 .. Len(groups), Within(i, t, h)
        PROVE  t = s /\ h = g
    <3>1. i \in Nat
      OBVIOUS
    <3> QED
      BY <1>1, <2>2, <3>1, HeldOnce
  <2> QED
    BY <2>1, <2>2 DEF Hand
<1>9. e.type # "xa"
  OBVIOUS
<1> HIDE DEF kind, j, e, f
<1>10. Turn(f, n, e, kind, j, g)
  BY <1>3, <1>4, <1>5, <1>9, Turns
<1>11. Handle(Holding(f, n, query, rows), e)
           = Result(Holding(f, NameAfter(kind, j, n), Announced(kind, j), InHand(kind, j, g)),
                    Given(GivenOut(kind, j, g), IDOf(f, n, e)), Missed(kind, j, g))
  BY <1>7, <1>10 DEF Turn
<1> QED
  BY <1>3, <1>4, <1>6, <1>8, <1>11 DEF kind, j, e, f

\* The assembler has what it should of the transaction it is in.
AsmInv ==
    pc = "streaming" =>
        /\ at \in 0 .. Len(log)
        /\ \E n, query, rows : /\ n \in Nat /\ asm = Holding(NextFile(at), n, query, rows)
                               /\ Hand(at, query, rows)

\* A checkpoint is the position of an event that leaves nothing in hand.
CheckInv ==
    \/ checkpoint = Start
    \/ \E c \in 1 .. Len(log) : /\ checkpoint = [file |-> log[c].file, pos |-> log[c].pos]
                                /\ log[c].type # "rotate"
                                /\ Hand(c, 0, <<>>)

\* The transactions the assembler can give out.
Txn == {[id |-> d, rows |-> WantedOut(kind, j, g)] :
           d \in [gtid : Nat, file : Nat, pos : Nat], kind \in DOMAIN Forms, j \in Nat, g \in Nat}

HandInv == LogInv /\ AsmInv /\ CheckInv /\ txns \in Seq(Txn) /\ at \in Nat

\* It holds at the start.
LEMMA HandInit == Init => HandInv
<1> SUFFICES ASSUME Init PROVE HandInv
  OBVIOUS
<1>1. log = <<>> /\ groups = <<>> /\ pc = "detached" /\ txns = <<>> /\ checkpoint = Start /\ at = 0
  BY DEF Init
<1>2. LogTypes /\ Len(log) = 0
  BY <1>1 DEF LogTypes
<1>3. NextFile(0) = 1
  <2>1. EndOf(log).file = 1
    BY <1>1 DEF EndOf
  <2> QED
    BY <1>2, <2>1, EndIs DEF NextFile
<1>4. LogInv
  BY <1>2, <1>3 DEF LogInv, WholeTransactions, PositionsRise
<1>5. AsmInv /\ CheckInv
  BY <1>1 DEF AsmInv, CheckInv
<1> QED
  BY <1>1, <1>4, <1>5 DEF HandInv

\* The server's steps leave what is known of the assembler.
LEMMA ServerStep ==
    ASSUME HandInv, LogInv', Grows, \A i \in 0 .. Len(log) : NextFile(i)' = NextFile(i),
           UNCHANGED <<pc, at, asm, txns, checkpoint>>
    PROVE  HandInv'
<1>1. log \in Seq(LogEvent) /\ Len(log) \in Nat /\ LogInv
  BY DEF HandInv, LogInv, LogTypes
<1>2. AsmInv'
  <2> SUFFICES ASSUME pc = "streaming"
               PROVE  /\ at \in 0 .. Len(log')
                      /\ \E n, query, rows : /\ n \in Nat /\ asm = Holding(NextFile(at)', n, query, rows)
                                             /\ Hand(at, query, rows)'
    BY DEF AsmInv
  <2>1. at \in 0 .. Len(log)
    BY DEF HandInv, AsmInv
  <2>2. PICK n, query, rows : /\ n \in Nat /\ asm = Holding(NextFile(at), n, query, rows)
                              /\ Hand(at, query, rows)
    BY DEF HandInv, AsmInv
  <2>3. Hand(at, query, rows)'
    <3> DEFINE i == at
    <3>1. i \in 0 .. Len(log) /\ Hand(i, query, rows) /\ i' = i
      BY <2>1, <2>2
    <3>2. \A k \in 0 .. Len(log) : Hand(k, query, rows) => Hand(k, query, rows)'
      BY <1>1, HandStays
    <3> QED
      BY <2>1, <2>2, <3>2 DEF Hand, Within, Holds
  <2>4. NextFile(at)' = NextFile(at)
    BY <2>1 DEF NextFile
  <2>5. at \in 0 .. Len(log')
    BY <1>1, <2>1 DEF Grows
  <2> QED
    BY <2>2, <2>3, <2>4, <2>5
<1>3. CheckInv'
  <2>1. CASE checkpoint = Start
    BY <2>1 DEF CheckInv
  <2>2. CASE checkpoint # Start
    <3>1. PICK c \in 1 .. Len(log) :
                 /\ checkpoint = [file |-> log[c].file, pos |-> log[c].pos]
                 /\ log[c].type # "rotate"
                 /\ Hand(c, 0, <<>>)
      BY <2>2 DEF HandInv, CheckInv
    <3>2. Hand(c, 0, <<>>)'
      BY <1>1, <3>1, HandStays
    <3>3. c \in 1 .. Len(log') /\ log'[c] = log[c]
      BY <1>1 DEF Grows
    <3> QED
      BY <3>1, <3>2, <3>3 DEF CheckInv
  <2> QED
    BY <2>1, <2>2
<1> QED
  BY <1>2, <1>3 DEF HandInv

\* A form is a sequence of events.
LEMMA FormSeq ==
    ASSUME NEW kind \in DOMAIN Forms
    PROVE  Forms[kind] \in Seq({Forms[kind][j] : j \in 1 .. Size(kind)})
<1>1. kind \in {"insert", "statements", "unwanted", "unreadable", "rolledback", "ddl",
                "session", "create", "xa", "compressed"}
  BY FormsAre
<1> DEFINE IsSeq(f, n) == f \in Seq({f[j] : j \in 1 .. n})
<1>2. \A a : IsSeq(<<a>>, 1)
  <2> TAKE a
  <2>1. a \in {<<a>>[j] : j \in 1 .. 1}
    OBVIOUS
  <2> QED
    BY <2>1
<1>3. \A a, b, c : IsSeq(<<a, b, c>>, 3)
  <2> TAKE a, b, c
  <2> DEFINE S == {<<a, b, c>>[j] : j \in 1 .. 3}
  <2>1. a \in S /\ b \in S /\ c \in S
    OBVIOUS
  <2> HIDE DEF S
  <2>2. <<a, b, c>> \in Seq(S)
    BY <2>1
  <2> QED
    BY <2>2 DEF S
<1>4. \A a, b, c, d : IsSeq(<<a, b, c, d>>, 4)
  <2> TAKE a, b, c, d
  <2> DEFINE S == {<<a, b, c, d>>[j] : j \in 1 .. 4}
  <2>1. a \in S /\ b \in S /\ c \in S /\ d \in S
    OBVIOUS
  <2> HIDE DEF S
  <2>2. <<a, b, c, d>> \in Seq(S)
    BY <2>1
  <2> QED
    BY <2>2 DEF S
<1>5. \A a, b, c, d, e : IsSeq(<<a, b, c, d, e>>, 5)
  <2> TAKE a, b, c, d, e
  <2> DEFINE S == {<<a, b, c, d, e>>[j] : j \in 1 .. 5}
  <2>1. a \in S /\ b \in S /\ c \in S /\ d \in S /\ e \in S
    OBVIOUS
  <2> HIDE DEF S
  <2>2. <<a, b, c, d, e>> \in Seq(S)
    BY <2>1
  <2> QED
    BY <2>2 DEF S
<1>9. \A a, b, c, d, e, f : IsSeq(<<a, b, c, d, e, f>>, 6)
  <2> TAKE a, b, c, d, e, f
  <2> DEFINE S == {<<a, b, c, d, e, f>>[j] : j \in 1 .. 6}
  <2>1. a \in S /\ b \in S /\ c \in S /\ d \in S /\ e \in S /\ f \in S
    OBVIOUS
  <2> HIDE DEF S
  <2>2. <<a, b, c, d, e, f>> \in Seq(S)
    BY <2>1
  <2> QED
    BY <2>2 DEF S
<1> HIDE DEF IsSeq
<1>6. /\ IsSeq(Forms["insert"], 4) /\ IsSeq(Forms["statements"], 5)
      /\ IsSeq(Forms["unwanted"], 3) /\ IsSeq(Forms["unreadable"], 6)
      /\ IsSeq(Forms["rolledback"], 3) /\ IsSeq(Forms["create"], 4) /\ IsSeq(Forms["xa"], 3)
  BY <1>3, <1>4, <1>5, <1>9, FormsAre
<1>7. IsSeq(Forms["ddl"], 1) /\ IsSeq(Forms["session"], 1) /\ IsSeq(Forms["compressed"], 1)
  BY <1>2, FormsAre
<1>8. IsSeq(Forms[kind], Size(kind))
  BY <1>1, <1>6, <1>7, Sizes
<1> QED
  BY <1>8 DEF IsSeq

\* A transaction is added to the log, under a name of this type.
OneMore(type) ==
    \E s, g : /\ s = Len(log) + 1 /\ g = Len(groups) + 1 /\ Len(groups') = g
              /\ Holds(s, g)' /\ log'[s].type = type
              /\ \A t \in 1 .. Len(log') : t > s => log'[t].type \notin Names

\* A transaction reaches the log.
LEMMA WriteStep ==
    ASSUME LogInv, NEW kind \in Kinds, NEW named \in Naming, Write(kind, named)
    PROVE  /\ LogInv' /\ Grows /\ \A i \in 0 .. Len(log) : NextFile(i)' = NextFile(i)
           /\ OneMore(IF named THEN "gtid" ELSE "anonymous")
<1> DEFINE name == Event(IF named THEN "gtid" ELSE "anonymous", 0)
           events == <<name>> \o Forms[kind]
           m == Size(kind)
<1>0. PICK k, s, g : k = Len(log) /\ s = Len(log) + 1 /\ g = Len(groups')
  OBVIOUS
<1>1. log \in Seq(LogEvent) /\ groups \in Seq(Kinds) /\ k \in Nat /\ Len(groups) \in Nat
  BY <1>0 DEF LogInv, LogTypes
<1>2. /\ groups' \in Seq(Kinds) /\ g = Len(groups) + 1 /\ groups'[g] = kind
      /\ \A h \in 1 .. Len(groups) : groups'[h] = groups[h]
  BY <1>0, <1>1 DEF Write
<1>3. kind \in DOMAIN Forms /\ m \in Nat /\ m >= 1
  BY AssemblerAssumption, SizeType
<1>4. name.type \in {"gtid", "anonymous"} /\ name.stmt = 0 /\ name.inner = <<>>
  BY DEF Event
<1>5. /\ DOMAIN events = 1 .. m + 1 /\ events[1] = name
      /\ \A j \in 1 .. m : events[j + 1] = Forms[kind][j]
  <2> DEFINE form == Forms[kind]
  <2>1. form \in Seq({form[j] : j \in 1 .. m}) /\ Len(form) = m
    BY <1>3, FormSeq DEF Size
  <2> QED
    BY <1>3, <2>1
<1>6. log' = Logged(events, g)
  BY <1>0 DEF Write
<1> HIDE DEF events
<1>7. \A i \in 1 .. m + 1 : /\ events[i].type \in Types /\ events[i].stmt \in Nat
                            /\ events[i].inner \in Inners
                            /\ events[i].type # "rotate"
  <2> TAKE i \in 1 .. m + 1
  <2>1. CASE i = 1
    BY <1>4, <1>5, <2>1 DEF Types, Inners
  <2>2. CASE i # 1
    <3> DEFINE j == i - 1
    <3>1. j \in 1 .. m /\ j + 1 = i
      BY <1>3, <2>2
    <3> HIDE DEF j
    <3>2. events[i] = Forms[kind][j]
      BY <1>5, <3>1
    <3> QED
      BY <1>3, <3>1, <3>2, FormParts, FormTypes
  <2> QED
    BY <2>1, <2>2
<1>8. /\ log' \in Seq(LogEvent) /\ Len(log') = k + (m + 1)
      /\ \A i \in 1 .. k : log'[i] = log[i]
      /\ \A i \in 1 .. m + 1 : Is(log'[k + i], g, events[i])
      /\ \A i \in 0 .. k : NextFile(i)' = NextFile(i)
      /\ PositionsRise'
  <2> DEFINE n == m + 1
  <2>1. n \in Nat /\ n >= 1 /\ g \in Nat
    BY <1>1, <1>2, <1>3
  <2>2. DOMAIN events = 1 .. n
        /\ \A i \in 1 .. n : /\ events[i].type \in Types /\ events[i].stmt \in Nat
                             /\ events[i].inner \in Inners
                             /\ i < n => events[i].type # "rotate"
    BY <1>5, <1>7
  <2> HIDE DEF n, m
  <2>3. /\ log' \in Seq(LogEvent) /\ Len(log') = Len(log) + n
        /\ \A i \in 1 .. Len(log) : log'[i] = log[i]
        /\ \A i \in 1 .. n : Is(log'[Len(log) + i], g, events[i])
        /\ \A i \in 0 .. Len(log) : NextFile(i)' = NextFile(i)
        /\ PositionsRise'
    BY <1>6, <2>1, <2>2, LogGrows
  <2> QED
    BY <1>0, <2>3 DEF n
<1>9. Grows
  BY <1>0, <1>1, <1>2, <1>3, <1>8 DEF Grows
<1>10. Holds(s, g)'
  <2>1. s \in 1 .. Len(log') /\ g \in 1 .. Len(groups') /\ s + m <= Len(log')
    BY <1>0, <1>1, <1>2, <1>3, <1>8
  <2>2. Is(log'[s], g, name)
    BY <1>0, <1>3, <1>5, <1>8
  <2>3. \A j \in 1 .. m : Is(log'[s + j], g, Forms[kind][j])
    <3> TAKE j \in 1 .. m
    <3> DEFINE i == j + 1
    <3>1. i \in 1 .. m + 1 /\ k + i = s + j /\ events[i] = Forms[kind][j]
      BY <1>0, <1>1, <1>3, <1>5
    <3> HIDE DEF i
    <3> QED
      BY <1>8, <3>1
  <2>4. log'[s].type \in Names /\ log'[s].group = g
    BY <1>4, <2>2 DEF Is, Names
  <2> QED
    BY <1>2, <2>1, <2>3, <2>4 DEF Holds
<1>11. WholeTransactions'
  <2> SUFFICES ASSUME NEW i \in 1 .. Len(log')
               PROVE  \/ log'[i].type = "rotate" /\ log'[i].group = 0
                      \/ \E t \in 1 .. Len(log'), h \in 1 .. Len(groups') : Within(i, t, h)'
    BY DEF WholeTransactions
  <2>1. CASE i \in 1 .. k
    <3>1. log'[i] = log[i]
      BY <1>8, <2>1
    <3>2. CASE log[i].type = "rotate" /\ log[i].group = 0
      BY <3>1, <3>2
    <3>3. CASE ~ (log[i].type = "rotate" /\ log[i].group = 0)
      <4>1. PICK t \in 1 .. Len(log), h \in 1 .. Len(groups) : Within(i, t, h)
        BY <1>0, <2>1, <3>3 DEF LogInv, WholeTransactions
      <4>2. Holds(t, h) /\ t <= i /\ i <= t + Size(groups[h])
        BY <4>1 DEF Within
      <4>3. Holds(t, h)'
        BY <1>9, <4>2, HoldsStay
      <4>4. groups'[h] = groups[h]
        BY <1>2
      <4>5. Within(i, t, h)'
        BY <4>2, <4>3, <4>4 DEF Within
      <4>6. t \in 1 .. Len(log') /\ h \in 1 .. Len(groups')
        BY <4>3 DEF Holds
      <4> QED
        BY <4>5, <4>6
    <3> QED
      BY <3>2, <3>3
  <2>2. CASE i \notin 1 .. k
    <3>1. s <= i /\ i <= s + m
        BY <1>0, <1>1, <1>3, <1>8, <2>2
    <3>2. Within(i, s, g)'
      BY <1>2, <1>10, <3>1 DEF Within
    <3>3. s \in 1 .. Len(log') /\ g \in 1 .. Len(groups')
      BY <1>10 DEF Holds
    <3> QED
      BY <3>2, <3>3
  <2> QED
    BY <2>1, <2>2
<1>12. OneMore(IF named THEN "gtid" ELSE "anonymous")
  <2>1. log'[s].type = IF named THEN "gtid" ELSE "anonymous"
    <3>1. Is(log'[s], g, name)
      BY <1>0, <1>3, <1>5, <1>8
    <3> QED
      BY <3>1 DEF Is, Event
  <2>2. \A t \in 1 .. Len(log') : t > s => log'[t].type \notin Names
    <3> SUFFICES ASSUME NEW t \in 1 .. Len(log'), t > s PROVE log'[t].type \notin Names
      OBVIOUS
    <3> DEFINE j == t - s
    <3>1. j \in 1 .. m /\ s + j = t
      BY <1>0, <1>1, <1>3, <1>8
    <3> HIDE DEF j
    <3>2. Is(log'[s + j], g, Forms[kind][j])
      BY <1>2, <1>10, <3>1 DEF Holds
    <3>3. Forms[kind][j].type \notin {"gtid", "anonymous", "rotate"}
      BY <1>3, <3>1, FormTypes
    <3> QED
      BY <3>1, <3>2, <3>3 DEF Is, Names
  <2> QED
    BY <1>0, <1>2, <1>10, <2>1, <2>2 DEF OneMore
<1> QED
  BY <1>0, <1>2, <1>8, <1>9, <1>11, <1>12 DEF LogInv, LogTypes

\* The server moves on to a new file.
LEMMA RotateStep ==
    ASSUME LogInv, Rotate
    PROVE  /\ LogInv' /\ Grows /\ \A i \in 0 .. Len(log) : NextFile(i)' = NextFile(i)
           /\ groups' = groups
           /\ \A t \in 1 .. Len(log') : t > Len(log) => log'[t].type \notin Names
<1> DEFINE name == Event("rotate", 0)
           events == <<name>>
<1>0. PICK k : k = Len(log)
  OBVIOUS
<1>1. log \in Seq(LogEvent) /\ groups \in Seq(Kinds) /\ k \in Nat /\ Len(groups) \in Nat
  BY <1>0 DEF LogInv, LogTypes
<1>2. name.type = "rotate" /\ name.stmt = 0 /\ name.inner = <<>>
  BY DEF Event
<1>3. log' = Logged(events, 0) /\ groups' = groups
  BY DEF Rotate
<1>4. DOMAIN events = 1 .. 1 /\ events[1] = name
  OBVIOUS
<1> HIDE DEF events
<1>5. \A i \in 1 .. 1 : /\ events[i].type \in Types /\ events[i].stmt \in Nat
                        /\ events[i].inner \in Inners
                        /\ i < 1 => events[i].type # "rotate"
  BY <1>2, <1>4 DEF Types, Inners
<1>6. /\ log' \in Seq(LogEvent) /\ Len(log') = k + 1
      /\ \A i \in 1 .. k : log'[i] = log[i]
      /\ \A i \in 1 .. 1 : Is(log'[k + i], 0, events[i])
      /\ \A i \in 0 .. k : NextFile(i)' = NextFile(i)
      /\ PositionsRise'
  <2> DEFINE n == 1
             g == 0
  <2>1. n \in Nat /\ n >= 1 /\ g \in Nat /\ n = 1 /\ g = 0
    OBVIOUS
  <2>3. DOMAIN events = 1 .. n
        /\ \A i \in 1 .. n : /\ events[i].type \in Types /\ events[i].stmt \in Nat
                             /\ events[i].inner \in Inners
                             /\ i < n => events[i].type # "rotate"
    BY <1>4, <1>5
  <2>4. log' = Logged(events, g)
    BY <1>3
  <2> HIDE DEF n, g
  <2>2. /\ log' \in Seq(LogEvent) /\ Len(log') = Len(log) + n
        /\ \A i \in 1 .. Len(log) : log'[i] = log[i]
        /\ \A i \in 1 .. n : Is(log'[Len(log) + i], g, events[i])
        /\ \A i \in 0 .. Len(log) : NextFile(i)' = NextFile(i)
        /\ PositionsRise'
    BY <2>1, <2>3, <2>4, LogGrows
  <2> QED
    BY <1>0, <2>1, <2>2
<1>7. Grows
  BY <1>0, <1>1, <1>3, <1>6 DEF Grows
<1>8. WholeTransactions'
  <2> SUFFICES ASSUME NEW i \in 1 .. Len(log')
               PROVE  \/ log'[i].type = "rotate" /\ log'[i].group = 0
                      \/ \E t \in 1 .. Len(log'), h \in 1 .. Len(groups') : Within(i, t, h)'
    BY DEF WholeTransactions
  <2>1. CASE i \in 1 .. k
    <3>1. log'[i] = log[i]
      BY <1>6, <2>1
    <3>2. CASE log[i].type = "rotate" /\ log[i].group = 0
      BY <3>1, <3>2
    <3>3. CASE ~ (log[i].type = "rotate" /\ log[i].group = 0)
      <4>1. PICK t \in 1 .. Len(log), h \in 1 .. Len(groups) : Within(i, t, h)
        BY <1>0, <2>1, <3>3 DEF LogInv, WholeTransactions
      <4>2. Holds(t, h) /\ t <= i /\ i <= t + Size(groups[h])
        BY <4>1 DEF Within
      <4>3. Holds(t, h)'
        BY <1>7, <4>2, HoldsStay
      <4>4. Within(i, t, h)'
        BY <1>3, <4>2, <4>3 DEF Within
      <4>5. t \in 1 .. Len(log') /\ h \in 1 .. Len(groups')
        BY <4>3 DEF Holds
      <4> QED
        BY <4>4, <4>5
    <3> QED
      BY <3>2, <3>3
  <2>2. CASE i \notin 1 .. k
    <3>1. i = k + 1
      BY <1>1, <1>6, <2>2
    <3>2. Is(log'[i], 0, name)
      BY <1>4, <1>6, <3>1
    <3> QED
      BY <1>2, <3>2 DEF Is
  <2> QED
    BY <2>1, <2>2
<1>9. \A t \in 1 .. Len(log') : t > Len(log) => log'[t].type \notin Names
  <2> SUFFICES ASSUME NEW t \in 1 .. Len(log'), t > Len(log) PROVE log'[t].type \notin Names
    OBVIOUS
  <2>1. t = k + 1
    BY <1>0, <1>1, <1>6
  <2>2. Is(log'[t], 0, name)
    BY <1>4, <1>6, <2>1
  <2> QED
    BY <1>2, <2>2 DEF Is, Names
<1> QED
  BY <1>0, <1>3, <1>6, <1>7, <1>8, <1>9 DEF LogInv, LogTypes

\* While the server writes nothing, what the log says stays.
LEMMA Frozen ==
    ASSUME UNCHANGED <<log, groups>>
    PROVE  /\ LogInv' <=> LogInv
           /\ \A i, query, rows : Hand(i, query, rows)' <=> Hand(i, query, rows)
           /\ \A i : NextFile(i)' = NextFile(i)
           /\ \A i, s, g : Within(i, s, g)' <=> Within(i, s, g)
<1>1. \A s, g : Holds(s, g)' <=> Holds(s, g)
  BY DEF Holds
<1>2. \A i, s, g : Within(i, s, g)' <=> Within(i, s, g)
  BY <1>1 DEF Within
<1>3. \A i, query, rows : Hand(i, query, rows)' <=> Hand(i, query, rows)
  BY <1>2 DEF Hand
<1>4. \A i : NextFile(i)' = NextFile(i)
  BY EndIs DEF NextFile
<1>5. WholeTransactions' <=> WholeTransactions
  BY <1>2 DEF WholeTransactions
<1>6. PositionsRise' <=> PositionsRise
  BY <1>4 DEF PositionsRise
<1>7. LogTypes' <=> LogTypes
  BY DEF LogTypes
<1> QED
  BY <1>2, <1>3, <1>4, <1>5, <1>6, <1>7 DEF LogInv

\* What handling event i comes to, with the name n in hand: the assembler has
\* what it should, and a transaction it gives out leaves nothing in it.
Outcome(r, i, n) ==
    /\ \E m, query, rows : /\ m \in Nat /\ r.asm = Holding(NextFile(i), m, query, rows)
                           /\ Hand(i, query, rows)
    /\ \/ r.txn = <<>>
       \/ \E s \in 1 .. Len(log), g \in 1 .. Len(groups) :
             LET kind == groups[g]
                 j == i - s
             IN  /\ Within(i, s, g) /\ s < i /\ j \in 1 .. Size(kind)
                 /\ kind \in DOMAIN Forms /\ GivenOut(kind, j, g) # <<>>
                 /\ r.txn = <<[id |-> IDOf(log[i].file, n, log[i]), rows |-> GivenOut(kind, j, g)]>>
                 /\ r.asm.logFile = log[i].file
                 /\ Hand(i, 0, <<>>)

\* The next event, whatever it is.
LEMMA Handled ==
    ASSUME LogInv, NEW i \in 1 .. Len(log), log[i].type # "xa",
           NEW n \in Nat, NEW query, NEW rows, Hand(i - 1, query, rows)
    PROVE  Outcome(Handle(Holding(NextFile(i - 1), n, query, rows), log[i]), i, n)
<1> DEFINE a == Holding(NextFile(i - 1), n, query, rows)
           r == Handle(a, log[i])
<1>1. log \in Seq(LogEvent) /\ groups \in Seq(Kinds) /\ Len(log) \in Nat
  BY DEF LogInv, LogTypes
<1>2. CASE log[i].type = "rotate"
  <2>1. r = Result(Holding(NextFile(i), n, query, rows), <<>>, <<>>) /\ Hand(i, query, rows)
    BY <1>2, HandledRotate
  <2> HIDE DEF r
  <2>2. r.asm = Holding(NextFile(i), n, query, rows) /\ r.txn = <<>>
    BY <2>1, ResultParts
  <2> QED
    BY <2>1, <2>2 DEF r, Outcome
<1>3. CASE log[i].type \in Names
  <2> DEFINE m == IF log[i].type = "gtid" THEN log[i].group ELSE n
  <2>1. r = Result(Holding(NextFile(i), m, query, rows), <<>>, <<>>) /\ Hand(i, query, rows)
    BY <1>3, HandledName
  <2>2. m \in Nat
    BY <1>1, EventIsWhole
  <2> HIDE DEF r, m
  <2>3. r.asm = Holding(NextFile(i), m, query, rows) /\ r.txn = <<>>
    BY <2>1, ResultParts
  <2> QED
    BY <2>1, <2>2, <2>3 DEF r, Outcome
<1>4. CASE log[i].type \notin Names \cup {"rotate"}
  <2>1. PICK s \in 1 .. Len(log), g \in 1 .. Len(groups) : Within(i, s, g)
    BY <1>4 DEF LogInv, WholeTransactions
  <2>2. s < i
    BY <1>4, <2>1 DEF Within, Holds
  <2> DEFINE kind == groups[g]
             j == i - s
             m == NameAfter(kind, j, n)
             d == IDOf(log[i].file, n, log[i])
  <2>3. /\ j \in 1 .. Size(kind) /\ kind \in DOMAIN Forms
        /\ r = Result(Holding(NextFile(i), m, Announced(kind, j), InHand(kind, j, g)),
                      Given(GivenOut(kind, j, g), d), Missed(kind, j, g))
        /\ Hand(i, Announced(kind, j), InHand(kind, j, g))
        /\ NextFile(i) = log[i].file
    BY <2>1, <2>2, HandledForm
  <2>4. m \in Nat
    BY DEF NameAfter
  <2> HIDE DEF r, m, d, kind, j
  <2>5. /\ r.asm = Holding(NextFile(i), m, Announced(kind, j), InHand(kind, j, g))
        /\ r.txn = Given(GivenOut(kind, j, g), d)
    BY <2>3, ResultParts
  <2>6. r.asm.logFile = log[i].file
    BY <2>3, <2>5 DEF Holding
  <2>7. CASE GivenOut(kind, j, g) = <<>>
    <3>1. r.txn = <<>>
      BY <2>5, <2>7 DEF Given
    <3> QED
      BY <2>3, <2>4, <2>5, <3>1 DEF r, Outcome
  <2>8. CASE GivenOut(kind, j, g) # <<>>
    <3>1. r.txn = <<[id |-> d, rows |-> GivenOut(kind, j, g)]>>
      BY <2>5, <2>8 DEF Given
    <3>2. InHand(kind, j, g) = <<>> /\ Announced(kind, j) = 0
      BY <2>3, <2>8, GivenOutClean
    <3>3. Hand(i, 0, <<>>)
      BY <2>3, <3>2
    <3> QED
      BY <2>1, <2>2, <2>3, <2>4, <2>5, <2>6, <2>8, <3>1, <3>3 DEF r, d, kind, j, Outcome
  <2> QED
    BY <2>7, <2>8
<1> QED
  BY <1>2, <1>3, <1>4

\* A transaction the assembler gives out is one it can give out.
LEMMA TxnIs ==
    ASSUME NEW kind \in DOMAIN Forms, NEW j \in Nat, NEW g \in Nat,
           NEW d \in [gtid : Nat, file : Nat, pos : Nat],
           NEW t, t = [id |-> d, rows |-> GivenOut(kind, j, g)]
    PROVE  /\ [t EXCEPT !.rows = Wanted(@)] = [id |-> d, rows |-> WantedOut(kind, j, g)]
           /\ [t EXCEPT !.rows = Wanted(@)] \in Txn
           /\ t.id = d /\ Wanted(t.rows) = WantedOut(kind, j, g)
<1>1. t.id = d /\ t.rows = GivenOut(kind, j, g)
  OBVIOUS
<1>2. Wanted(t.rows) = WantedOut(kind, j, g)
  BY <1>1, WantedIs
<1> DEFINE w == Wanted(t.rows)
<1> HIDE DEF w
<1>3. [t EXCEPT !.rows = w] = [id |-> d, rows |-> w]
  OBVIOUS
<1>4. [t EXCEPT !.rows = Wanted(@)] = [id |-> d, rows |-> WantedOut(kind, j, g)]
  BY <1>2, <1>3 DEF w
<1>5. [id |-> d, rows |-> WantedOut(kind, j, g)] \in Txn
  BY DEF Txn
<1> QED
  BY <1>1, <1>2, <1>4, <1>5

\* A transaction stored has what one of the log gives out.
GivenOutBy(t) == \E g \in 1 .. Len(groups), j \in Nat : t.rows = WantedOut(groups[g], j, g)

StoresOne == txns' = txns \/ \E t : GivenOutBy(t) /\ txns' = Append(txns, t)

\* The stream takes the next event.
LEMMA HandleStep ==
    ASSUME HandInv, HandleEvent
    PROVE  HandInv' /\ StoresOne
<1> DEFINE i == at + 1
           e == log[i]
           r == Handle(asm, e)
<1>1. /\ LogInv /\ AsmInv /\ CheckInv /\ txns \in Seq(Txn) /\ at \in Nat
      /\ log \in Seq(LogEvent) /\ groups \in Seq(Kinds) /\ Len(log) \in Nat
  BY DEF HandInv, LogInv, LogTypes
<1>2. /\ pc = "streaming" /\ at < Len(log) /\ e.type # "xa"
      /\ asm' = r.asm /\ at' = i
      /\ IF r.txn = <<>> \/ Wanted(r.txn[1].rows) = <<>>
         THEN UNCHANGED <<txns, checkpoint>>
         ELSE /\ AppendTransaction(r.txn[1])
              /\ checkpoint' = [file |-> r.asm.logFile, pos |-> e.pos]
      /\ UNCHANGED <<groups, log, drops, pc, skipped>>
  BY DEF HandleEvent, Reading, NextEvent
<1>3. i \in 1 .. Len(log) /\ i - 1 = at
  BY <1>1, <1>2
<1>4. PICK n, query, rows : /\ n \in Nat /\ asm = Holding(NextFile(at), n, query, rows)
                            /\ Hand(at, query, rows)
  BY <1>1, <1>2 DEF AsmInv
<1>5. Outcome(r, i, n)
  <2> DEFINE k == i
  <2>1. /\ k \in 1 .. Len(log) /\ log[k].type # "xa" /\ Hand(k - 1, query, rows)
        /\ asm = Holding(NextFile(k - 1), n, query, rows)
    BY <1>2, <1>3, <1>4
  <2> HIDE DEF k
  <2>2. Outcome(Handle(Holding(NextFile(k - 1), n, query, rows), log[k]), k, n)
    BY <1>1, <1>4, <2>1, Handled
  <2> QED
    BY <2>1, <2>2 DEF k
<1> HIDE DEF r
<1>6. /\ LogInv' /\ \A k, q, rs : Hand(k, q, rs)' <=> Hand(k, q, rs)
      /\ \A k : NextFile(k)' = NextFile(k)
  BY <1>1, <1>2, Frozen
<1>7. AsmInv'
  <2>1. PICK m, q, rs : m \in Nat /\ r.asm = Holding(NextFile(i), m, q, rs) /\ Hand(i, q, rs)
    BY <1>5 DEF Outcome
  <2>2. at' \in 0 .. Len(log')
    BY <1>2, <1>3
  <2>3. asm' = Holding(NextFile(at)', m, q, rs)
    <3>1. NextFile(at)' = NextFile(i)
      BY <1>2, EndIs DEF NextFile
    <3> QED
      BY <1>2, <2>1, <3>1
  <2>4. Hand(at, q, rs)'
    <3>1. Hand(at, q, rs)' <=> Hand(i, q, rs)
      BY <1>2 DEF Hand, Within, Holds
    <3> QED
      BY <2>1, <3>1
  <2> QED
    BY <2>1, <2>2, <2>3, <2>4 DEF AsmInv
<1>8. CASE r.txn = <<>> \/ Wanted(r.txn[1].rows) = <<>>
  <2>1. txns' = txns /\ checkpoint' = checkpoint
    BY <1>2, <1>8
  <2>2. CheckInv'
    BY <1>1, <1>2, <1>6, <2>1 DEF CheckInv
  <2> QED
    BY <1>1, <1>2, <1>6, <1>7, <2>1, <2>2 DEF HandInv, StoresOne
<1>9. CASE ~ (r.txn = <<>> \/ Wanted(r.txn[1].rows) = <<>>)
  <2>1. PICK s \in 1 .. Len(log), g \in 1 .. Len(groups) :
               LET kind == groups[g]
                   j == i - s
               IN  /\ Within(i, s, g) /\ s < i /\ j \in 1 .. Size(kind)
                   /\ kind \in DOMAIN Forms /\ GivenOut(kind, j, g) # <<>>
                   /\ r.txn = <<[id |-> IDOf(e.file, n, e), rows |-> GivenOut(kind, j, g)]>>
                   /\ r.asm.logFile = e.file
                   /\ Hand(i, 0, <<>>)
    BY <1>5, <1>9 DEF Outcome
  <2> DEFINE kind == groups[g]
             j == i - s
             d == IDOf(e.file, n, e)
             t == [id |-> d, rows |-> GivenOut(kind, j, g)]
  <2>2. /\ j \in 1 .. Size(kind) /\ kind \in DOMAIN Forms /\ r.txn = <<t>> /\ r.txn[1] = t
        /\ r.asm.logFile = e.file /\ Hand(i, 0, <<>>) /\ Within(i, s, g) /\ s < i
    BY <2>1
  <2>3. AppendTransaction(t) /\ checkpoint' = [file |-> e.file, pos |-> e.pos]
    BY <1>2, <1>9, <2>2
  <2>4. e.file \in Nat /\ e.pos \in Nat
    BY <1>1, <1>3, EventIsWhole
  <2>5. d \in [gtid : Nat, file : Nat, pos : Nat]
    BY <1>4, <2>4 DEF IDOf
  <2>6. j \in Nat /\ g \in Nat
    BY <2>2
  <2> HIDE DEF t, d, j, kind
  <2>7. /\ [t EXCEPT !.rows = Wanted(@)] \in Txn
        /\ [t EXCEPT !.rows = Wanted(@)] = [id |-> d, rows |-> WantedOut(kind, j, g)]
    BY <2>2, <2>5, <2>6, TxnIs DEF t
  <2> DEFINE w == [t EXCEPT !.rows = Wanted(@)]
  <2>8. txns' = IF t.id \in Stored THEN txns ELSE Append(txns, w)
    BY <2>3 DEF AppendTransaction
  <2> HIDE DEF w
  <2>9. txns' \in Seq(Txn)
    BY <1>1, <2>7, <2>8 DEF w
  <2>10. CheckInv'
    <3>1. log[i].type # "rotate"
      <4>1. Holds(s, g) /\ i <= s + Size(groups[g])
        BY <2>2 DEF Within
      <4>2. i \in Nat
        BY <1>3
      <4> QED
        BY <1>1, <2>2, <4>1, <4>2, HeldEvent
    <3>2. /\ i \in 1 .. Len(log') /\ Hand(i, 0, <<>>)
          /\ checkpoint' = [file |-> log'[i].file, pos |-> log'[i].pos]
          /\ log'[i].type # "rotate"
      BY <1>2, <1>3, <2>2, <2>3, <3>1
    <3> DEFINE k == i
    <3>3. \E c \in 1 .. Len(log') : /\ checkpoint' = [file |-> log'[c].file, pos |-> log'[c].pos]
                                    /\ log'[c].type # "rotate"
                                    /\ Hand(c, 0, <<>>)
      BY <3>2
    <3>4. \E c \in 1 .. Len(log') : /\ checkpoint' = [file |-> log'[c].file, pos |-> log'[c].pos]
                                    /\ log'[c].type # "rotate"
                                    /\ Hand(c, 0, <<>>)'
      BY <1>6, <3>3
    <3> QED
      BY <3>4 DEF CheckInv
  <2>11. HandInv'
    BY <1>2, <1>3, <1>6, <1>7, <2>9, <2>10 DEF HandInv
  <2>12. GivenOutBy(w)
    <3>1. w.rows = WantedOut(kind, j, g)
      BY <2>7 DEF w
    <3> QED
      BY <2>6, <3>1 DEF GivenOutBy, kind
  <2> QED
    BY <2>8, <2>11, <2>12 DEF StoresOne
<1> QED
  BY <1>8, <1>9

\* An attempt begins at the checkpoint, or where the server is.
LEMMA AttachStep ==
    ASSUME HandInv, Attach
    PROVE  HandInv'
<1> DEFINE from == IF checkpoint = Start THEN EndOfLog ELSE checkpoint
<1>1. /\ LogInv /\ CheckInv /\ txns \in Seq(Txn)
      /\ log \in Seq(LogEvent) /\ groups \in Seq(Kinds) /\ Len(log) \in Nat
  BY DEF HandInv, LogInv, LogTypes
<1>2. /\ at' = UpTo(from) /\ asm' = Fresh(from.file)
      /\ UNCHANGED <<groups, log, txns, checkpoint>>
  BY DEF Attach
<1>3. /\ LogInv' /\ \A k, q, rs : Hand(k, q, rs)' <=> Hand(k, q, rs)
      /\ \A k : NextFile(k)' = NextFile(k)
  BY <1>1, <1>2, Frozen
<1>4. Fresh(from.file) = Holding(from.file, 0, 0, <<>>)
  BY DEF Fresh, Holding
<1>5. at' \in 0 .. Len(log) /\ from.file = NextFile(at') /\ Hand(at', 0, <<>>)
  <2>1. CASE checkpoint = Start
    <3>1. at' = Len(log)
      BY <1>1, <1>2, <2>1, UpToEnd
    <3>2. Hand(Len(log), 0, <<>>)
      BY <1>1, EndClean
    <3>3. from.file = EndOfLog.file
      BY <2>1
    <3> HIDE DEF from
    <3>4. NextFile(Len(log)) = EndOfLog.file
      BY <1>1 DEF NextFile
    <3> QED
      BY <1>1, <3>1, <3>2, <3>3, <3>4
  <2>2. CASE checkpoint # Start
    <3>1. PICK c \in 1 .. Len(log) :
                 /\ checkpoint = [file |-> log[c].file, pos |-> log[c].pos]
                 /\ log[c].type # "rotate"
                 /\ Hand(c, 0, <<>>)
      BY <1>1, <2>2 DEF CheckInv
    <3>2. from = checkpoint
      BY <2>2
    <3>3. from.file = log[c].file /\ from.pos = log[c].pos
      BY <3>1, <3>2
    <3> HIDE DEF from
    <3>4. at' = c
      BY <1>1, <1>2, <3>3, UpToEvent
    <3>5. NextFile(c) = log[c].file
      BY <1>1, <3>1 DEF LogInv, PositionsRise
    <3> QED
      BY <1>1, <3>1, <3>3, <3>4, <3>5
  <2> QED
    BY <2>1, <2>2
<1> HIDE DEF from
<1>6. AsmInv'
  <2>1. PICK k : k = at'
    OBVIOUS
  <2>2. /\ k \in 0 .. Len(log') /\ asm' = Holding(NextFile(k), 0, 0, <<>>) /\ Hand(k, 0, <<>>)
    BY <1>2, <1>4, <1>5, <2>1
  <2>3. NextFile(at)' = NextFile(k)
    BY <1>2, <2>1, EndIs DEF NextFile
  <2>4. Hand(at, 0, <<>>)' <=> Hand(k, 0, <<>>)
    BY <1>2, <2>1 DEF Hand, Within, Holds
  <2> QED
    BY <2>1, <2>2, <2>3, <2>4 DEF AsmInv
<1>7. CheckInv'
  BY <1>1, <1>2, <1>3 DEF CheckInv
<1>8. at' \in Nat
  BY <1>1, <1>5
<1> QED
  BY <1>1, <1>2, <1>3, <1>6, <1>7, <1>8 DEF HandInv

\* Every step keeps it.
LEMMA HandNext == HandInv /\ [Next]_vars => HandInv'
<1> SUFFICES ASSUME HandInv, [Next]_vars PROVE HandInv'
  OBVIOUS
<1>1. /\ LogInv /\ AsmInv /\ CheckInv /\ txns \in Seq(Txn) /\ at \in Nat
  BY DEF HandInv
<1>2. ASSUME NEW kind \in Kinds, NEW named \in Naming, Write(kind, named) PROVE HandInv'
  <2>1. LogInv' /\ Grows /\ \A i \in 0 .. Len(log) : NextFile(i)' = NextFile(i)
    BY <1>1, <1>2, WriteStep
  <2>2. UNCHANGED <<pc, at, asm, txns, checkpoint>>
    BY <1>2 DEF Write
  <2> QED
    BY <2>1, <2>2, ServerStep
<1>3. CASE Rotate
  <2>1. LogInv' /\ Grows /\ \A i \in 0 .. Len(log) : NextFile(i)' = NextFile(i)
    BY <1>1, <1>3, RotateStep
  <2>2. UNCHANGED <<pc, at, asm, txns, checkpoint>>
    BY <1>3 DEF Rotate
  <2> QED
    BY <2>1, <2>2, ServerStep
<1>4. CASE Attach
  BY <1>4, AttachStep
<1>5. CASE HandleEvent
  BY <1>5, HandleStep
<1>6. ASSUME UNCHANGED <<log, groups, txns, checkpoint>>, at' = 0, pc' # "streaming"
      PROVE  HandInv'
  <2>1. /\ LogInv' /\ \A k, q, rs : Hand(k, q, rs)' <=> Hand(k, q, rs)
    BY <1>1, <1>6, Frozen
  <2>2. CheckInv'
    BY <1>1, <1>6, <2>1 DEF CheckInv
  <2>3. AsmInv'
    BY <1>6 DEF AsmInv
  <2> QED
    BY <1>1, <1>6, <2>1, <2>2, <2>3 DEF HandInv
<1>7. CASE StreamFails \/ StoreFails
  BY <1>6, <1>7 DEF StreamFails, StoreFails, Drop
<1>8. CASE HandleXA
  BY <1>6, <1>8 DEF HandleXA
<1>9. CASE UNCHANGED vars
  <2>1. UNCHANGED <<log, groups, txns, checkpoint, at, pc, asm>>
    BY <1>9 DEF vars
  <2>2. /\ LogInv' /\ \A k, q, rs : Hand(k, q, rs)' <=> Hand(k, q, rs)
        /\ \A k : NextFile(k)' = NextFile(k)
    BY <1>1, <2>1, Frozen
  <2>3. CheckInv'
    BY <1>1, <2>1, <2>2 DEF CheckInv
  <2>4. AsmInv'
    <3>1. AsmInv' <=> AsmInv
      BY <2>1, EndIs DEF AsmInv, Hand, Within, Holds, NextFile
    <3> QED
      BY <1>1, <3>1
  <2> QED
    BY <1>1, <2>1, <2>2, <2>3, <2>4 DEF HandInv
<1> QED
  BY <1>2, <1>3, <1>4, <1>5, <1>7, <1>8, <1>9 DEF Next

\* It is an invariant of the specification.
THEOREM HandInvariance == Spec => []HandInv
<1>1. Init => HandInv
  BY HandInit
<1>2. HandInv /\ [Next]_vars => HandInv'
  BY HandNext
<1> QED
  BY <1>1, <1>2, PTL DEF Spec

\* Between two transactions nothing of the last one is left to go into the
\* next, and positions are read against the file the stream is in (reset,
\* query_, the rotate event, the assembler of a new attempt): for any kinds of
\* transaction, named or not, any log and any attempts that fail.
THEOREM NothingLeft == Spec => []NothingLeftOver
<1>1. HandInv => NothingLeftOver
  <2> SUFFICES ASSUME HandInv, pc = "streaming",
                      at < Len(log) /\ at > 0 => log[at].group # NextEvent.group
               PROVE  /\ asm.events = <<>> /\ asm.query = 0
                      /\ asm.logFile = IF at < Len(log) THEN NextEvent.file ELSE EndOfLog.file
    BY DEF NothingLeftOver
  <2>1. LogInv /\ AsmInv /\ at \in Nat /\ groups \in Seq(Kinds) /\ Len(log) \in Nat
    BY DEF HandInv, LogInv, LogTypes
  <2>2. PICK n, query, rows : /\ n \in Nat /\ asm = Holding(NextFile(at), n, query, rows)
                              /\ Hand(at, query, rows)
    BY <2>1 DEF AsmInv
  <2>3. at \in 0 .. Len(log)
    BY <2>1 DEF AsmInv
  <2>4. rows = <<>> /\ query = 0
    <3>1. CASE at = Len(log)
      BY <2>1, <2>2, <3>1, EndClean
    <3>2. CASE at = 0
      BY <2>2, <3>2 DEF Hand
    <3>3. CASE at # Len(log) /\ at # 0
      <4> DEFINE i == at + 1
      <4>1. at < Len(log) /\ at > 0 /\ i \in 1 .. Len(log) /\ at \in 1 .. Len(log) /\ i - 1 = at
        BY <2>1, <2>3, <3>3
      <4>2. log[at].group # log[i].group
        BY <4>1 DEF NextEvent
      <4>3. CASE log[at].type = "rotate"
        BY <2>2, <4>3 DEF Hand
      <4>4. CASE log[at].type # "rotate"
        <5>1. PICK s \in 1 .. Len(log), g \in 1 .. Len(groups) : Within(at, s, g)
          BY <2>1, <4>1, <4>4 DEF LogInv, WholeTransactions
        <5>2. /\ Holds(s, g) /\ s <= at /\ at <= s + Size(groups[g])
              /\ log[s].group = g
          BY <5>1 DEF Within, Holds
        <5>3. Size(groups[g]) \in Nat /\ groups[g] \in DOMAIN Forms
          BY <2>1, KindIs
        <5>4. log[at].group = g
          BY <2>1, <5>2, HeldEvent
        <5>5. at = s + Size(groups[g])
          <6> SUFFICES ASSUME at # s + Size(groups[g]) PROVE FALSE
            OBVIOUS
          <6>1. i \in Nat /\ s < i /\ i <= s + Size(groups[g])
            <7> DEFINE m == Size(groups[g])
            <7>1. m \in Nat /\ s \in Nat /\ at \in Nat /\ s <= at /\ at <= s + m /\ at # s + m
              BY <2>1, <5>2, <5>3
            <7> HIDE DEF m
            <7>2. at + 1 \in Nat /\ s < at + 1 /\ at + 1 <= s + m
              BY <7>1
            <7> QED
              BY <7>2 DEF m
          <6> HIDE DEF i
          <6>2. log[i].group = g
            BY <2>1, <5>2, <6>1, HeldEvent
          <6> QED
            BY <4>2, <5>4, <6>2
        <5>6. at - s = Size(groups[g])
          BY <2>1, <5>3, <5>5
        <5>7. rows = InHand(groups[g], at - s, g) /\ query = Announced(groups[g], at - s)
          BY <2>2, <5>1 DEF Hand
        <5> QED
          BY <5>3, <5>6, <5>7, EndsClean
      <4> QED
        BY <4>3, <4>4
    <3> QED
      BY <3>1, <3>2, <3>3
  <2>5. asm.events = rows /\ asm.query = query /\ asm.logFile = NextFile(at)
    BY <2>2 DEF Holding
  <2> QED
    BY <2>4, <2>5 DEF NextFile, NextEvent
<1> QED
  BY <1>1, HandInvariance, PTL

\* The rows of every transaction stored are those one of the log gives out.
RowsAreGiven == \A i \in DOMAIN txns : GivenOutBy(txns[i])

LEMMA RowsNext == HandInv /\ RowsAreGiven /\ [Next]_vars => RowsAreGiven'
<1> SUFFICES ASSUME HandInv, RowsAreGiven, [Next]_vars PROVE RowsAreGiven'
  OBVIOUS
<1>1. txns \in Seq(Txn) /\ groups \in Seq(Kinds) /\ Len(groups) \in Nat
  BY DEF HandInv, LogInv, LogTypes
<1>2. ASSUME txns' = txns, groups' = groups PROVE RowsAreGiven'
  BY <1>2 DEF RowsAreGiven, GivenOutBy
<1>3. ASSUME NEW kind, txns' = txns, groups' = Append(groups, kind), kind \in Kinds
      PROVE  RowsAreGiven'
  <2>1. \A g \in 1 .. Len(groups) : g \in 1 .. Len(groups') /\ groups'[g] = groups[g]
    BY <1>1, <1>3
  <2> QED
    BY <1>3, <2>1 DEF RowsAreGiven, GivenOutBy
<1>4. CASE HandleEvent
  <2>1. groups' = groups /\ StoresOne
    BY <1>4, HandleStep DEF HandleEvent
  <2>2. ASSUME NEW t, GivenOutBy(t), txns' = Append(txns, t) PROVE RowsAreGiven'
    <3> SUFFICES ASSUME NEW i \in DOMAIN txns'
                 PROVE  \E g \in 1 .. Len(groups'), j \in Nat :
                            txns'[i].rows = WantedOut(groups'[g], j, g)
      BY DEF RowsAreGiven, GivenOutBy
    <3>1. \/ txns'[i] = t
          \/ i \in DOMAIN txns /\ txns'[i] = txns[i]
      BY <1>1, <2>2 DEF Txn
    <3>2. GivenOutBy(txns'[i])
      BY <2>2, <3>1 DEF RowsAreGiven
    <3> QED
      BY <2>1, <3>2 DEF GivenOutBy
  <2> QED
    BY <1>2, <2>1, <2>2 DEF StoresOne
<1> QED
  BY <1>2, <1>3, <1>4
     DEF Next, Write, Rotate, Attach, StreamFails, StoreFails, Drop, HandleXA, vars

\* A stored change never names a statement that other stored rows were
\* announced with: the one it names caused it, or is one before it whose rows
\* could not be read and are a miss (appendRows clears the announcement with
\* the rows it describes, but returns before that for those).
THEOREM QueriesStayTheirs == Spec => []QueriesAreTheirs
<1>1. HandInv /\ RowsAreGiven => QueriesAreTheirs
  <2> SUFFICES ASSUME HandInv, RowsAreGiven, NEW i \in DOMAIN txns,
                      NEW row \in ToSet(txns[i].rows), row.query # 0
               PROVE  QueryIsOf(row)
    BY DEF QueriesAreTheirs
  <2>1. groups \in Seq(Kinds)
    BY DEF HandInv, LogInv, LogTypes
  <2>2. PICK g \in 1 .. Len(groups), j \in Nat : txns[i].rows = WantedOut(groups[g], j, g)
    BY DEF RowsAreGiven, GivenOutBy
  <2> QED
    BY <2>1, <2>2, WantedQueries
<1>2. Init => RowsAreGiven
  BY DEF Init, RowsAreGiven
<1>3. HandInv /\ RowsAreGiven /\ [Next]_vars => (HandInv /\ RowsAreGiven)'
  BY HandNext, RowsNext
<1> QED
  BY <1>1, <1>2, <1>3, HandInit, PTL DEF Spec

----------------------------------------------------------------------------
(***************************************************************************)
(* What the store holds                                                    *)
(***************************************************************************)
NamesAgree ==
    \A i \in 1 .. Len(log), k \in 1 .. Len(log) :
        log[i].type \in Names /\ log[k].type \in Names => log[i].type = log[k].type

\* Every transaction is in the log, and in the order of their numbers.
Placed == \A g \in 1 .. Len(groups) : \E s \in 1 .. Len(log) : Holds(s, g)

Ordered ==
    \A s \in 1 .. Len(log), t \in 1 .. Len(log), g \in 1 .. Len(groups), h \in 1 .. Len(groups) :
        Holds(s, g) /\ Holds(t, h) /\ s < t => g < h

\* The transactions that end by event i are those up to d.
Span(d, i) ==
    \A s \in 1 .. Len(log), g \in 1 .. Len(groups) :
        Holds(s, g) => (s + Size(groups[g]) <= i <=> g <= d)

CommitOf(g) == IF Kept(g) = <<>> THEN <<>> ELSE <<Kept(g)>>

CommittedUpTo(n) == FlattenSeq([g \in 1 .. n |-> CommitOf(g)])

\* The rows of it that are recorded as missing: of a payload the last ones.
ToldOf(kind) == IF kind \in {"unreadable", "compressed"} THEN {2} ELSE {}

Told(g) == {[group |-> g, stmt |-> n] : n \in ToldOf(groups[g])}

Has(g) ==
    /\ \A x \in ToSet(Kept(g)) : \E i \in DOMAIN txns : x \in ToSet(Changes(txns[i].rows))
    /\ Told(g) \subseteq misses

\* From the first transaction behind f to d the store has what it should.
DoneUpTo(f, d) ==
    /\ d \in 0 .. Len(groups) /\ f <= d
    /\ CommittedUpTo(d) = CommittedUpTo(f) \o Recorded
    /\ \A g \in f + 1 .. d : Has(g)

\* The identity of the transaction named at s.
IDAt(s, g) ==
    IF log[s].type = "gtid" THEN [gtid |-> g, file |-> 0, pos |-> 0]
    ELSE [gtid |-> 0, file |-> log[s + Size(groups[g])].file, pos |-> log[s + Size(groups[g])].pos]

IDsUpTo(d) ==
    \A i \in DOMAIN txns :
        \E s \in 1 .. Len(log), g \in 1 .. Len(groups) :
            Holds(s, g) /\ g <= d /\ txns[i].id = IDAt(s, g)

\* The name in hand is the one of the transaction the stream is in.
NameInHand ==
    /\ (\A i \in 1 .. Len(log) : log[i].type # "gtid") => asm.gtid = 0
    /\ \A s \in 1 .. Len(log), g \in 1 .. Len(groups) :
          Within(at, s, g) /\ log[s].type = "gtid" /\ at < s + Size(groups[g]) => asm.gtid = g

\* The rows of it that could not be read so far are recorded.
MissesInHand(f) ==
    \A s \in 1 .. Len(log), g \in 1 .. Len(groups) :
        Within(at, s, g) /\ f < g =>
            \A j \in 1 .. at - s : ToSet(Missed(groups[g], j, g)) \subseteq misses

\* The checkpoint is the end of a transaction, and the store has what it
\* should up to there.
AtCheckpoint(f) ==
    /\ checkpoint = Start => txns = <<>>
    /\ checkpoint # Start =>
          \E s \in 1 .. Len(log), d \in 1 .. Len(groups) :
              LET c == log[s + Size(groups[d])]
              IN  /\ Holds(s, d) /\ checkpoint = [file |-> c.file, pos |-> c.pos]
                  /\ DoneUpTo(f, d) /\ IDsUpTo(d)

\* A stream has put there what it has gone past.
AtStream(f) ==
    /\ \E d \in 0 .. Len(groups) : Span(d, at) /\ DoneUpTo(f, d) /\ IDsUpTo(d)
    /\ NameInHand /\ MissesInHand(f)

Stores(f) == AtCheckpoint(f) /\ (pc = "streaming" => AtStream(f))

StoreInv ==
    /\ NamesAgree /\ Placed /\ Ordered
    /\ \E f \in 0 .. Len(groups) : skipped = 1 .. f /\ Stores(f)

\* What the server adds comes behind what there is.
LEMMA OrderStays ==
    ASSUME LogInv, LogInv', Grows, NamesAgree, Placed, Ordered,
           \/ /\ groups' = groups
              /\ \A t \in 1 .. Len(log') : t > Len(log) => log'[t].type \notin Names
           \/ \E type : /\ OneMore(type)
                        /\ \A i \in 1 .. Len(log) : log[i].type \in Names => log[i].type = type
    PROVE  /\ NamesAgree' /\ Placed' /\ Ordered'
           /\ \A d \in 0 .. Len(groups), i \in 0 .. Len(log) : Span(d, i) => Span(d, i)'
<1>1. /\ log \in Seq(LogEvent) /\ groups \in Seq(Kinds) /\ Len(log) \in Nat /\ Len(groups) \in Nat
      /\ log' \in Seq(LogEvent) /\ groups' \in Seq(Kinds) /\ Len(log') \in Nat
      /\ Len(groups') \in Nat
  BY DEF LogInv, LogTypes
<1>2. /\ Len(log) <= Len(log') /\ \A i \in 1 .. Len(log) : log'[i] = log[i]
      /\ Len(groups) <= Len(groups') /\ \A g \in 1 .. Len(groups) : groups'[g] = groups[g]
  BY DEF Grows
<1>3. \A t \in 1 .. Len(log') :
         t > Len(log) /\ log'[t].type \in Names =>
            /\ t = Len(log) + 1 /\ log'[t].group = Len(groups) + 1
            /\ \A i \in 1 .. Len(log) : log[i].type \in Names => log[i].type = log'[t].type
  <2> SUFFICES ASSUME NEW t \in 1 .. Len(log'), t > Len(log), log'[t].type \in Names
               PROVE  /\ t = Len(log) + 1 /\ log'[t].group = Len(groups) + 1
                      /\ \A i \in 1 .. Len(log) : log[i].type \in Names => log[i].type = log'[t].type
    OBVIOUS
  <2>1. PICK type : /\ OneMore(type)
                    /\ \A i \in 1 .. Len(log) : log[i].type \in Names => log[i].type = type
    OBVIOUS
  <2>2. PICK s, g : /\ s = Len(log) + 1 /\ g = Len(groups) + 1 /\ Len(groups') = g
                    /\ Holds(s, g)' /\ log'[s].type = type
                    /\ \A u \in 1 .. Len(log') : u > s => log'[u].type \notin Names
    BY <2>1 DEF OneMore
  <2>3. t = s
    BY <1>1, <2>2
  <2>4. log'[s].group = g
    BY <2>2 DEF Holds
  <2> QED
    BY <2>1, <2>2, <2>3, <2>4
<1>4. NamesAgree'
  <2> SUFFICES ASSUME NEW i \in 1 .. Len(log'), NEW k \in 1 .. Len(log'),
                      log'[i].type \in Names, log'[k].type \in Names
               PROVE  log'[i].type = log'[k].type
    BY DEF NamesAgree
  <2>1. CASE i \in 1 .. Len(log) /\ k \in 1 .. Len(log)
    BY <1>2, <2>1 DEF NamesAgree
  <2>2. CASE i \in 1 .. Len(log) /\ k > Len(log)
    BY <1>2, <1>3, <2>2
  <2>3. CASE i > Len(log) /\ k \in 1 .. Len(log)
    BY <1>2, <1>3, <2>3
  <2>4. CASE i > Len(log) /\ k > Len(log)
    BY <1>3, <2>4
  <2> QED
    BY <1>1, <2>1, <2>2, <2>3, <2>4
<1>5. ASSUME NEW s, NEW g, Holds(s, g)'
      PROVE  \/ Holds(s, g) /\ s \in 1 .. Len(log) /\ g \in 1 .. Len(groups)
             \/ s = Len(log) + 1 /\ g = Len(groups) + 1
  <2>1. s \in 1 .. Len(log') /\ log'[s].type \in Names /\ log'[s].group = g
    BY <1>5 DEF Holds
  <2>2. CASE s \in 1 .. Len(log)
    <3>1. Holds(s, g)
      BY <1>5, <2>2, HeldBefore
    <3> QED
      BY <3>1 DEF Holds
  <2>3. CASE s \notin 1 .. Len(log)
    <3>1. s > Len(log)
      BY <1>1, <2>1, <2>3
    <3> QED
      BY <1>3, <2>1, <3>1
  <2> QED
    BY <2>2, <2>3
<1>6. Placed'
  <2> SUFFICES ASSUME NEW g \in 1 .. Len(groups')
               PROVE  \E s \in 1 .. Len(log') : Holds(s, g)'
    BY DEF Placed
  <2>1. CASE g \in 1 .. Len(groups)
    <3>1. PICK s \in 1 .. Len(log) : Holds(s, g)
      BY <2>1 DEF Placed
    <3>2. Holds(s, g)'
      BY <3>1, HoldsStay
    <3> QED
      BY <3>2 DEF Holds
  <2>2. CASE g \notin 1 .. Len(groups)
    <3>1. groups' # groups
      BY <2>2
    <3>2. PICK type : OneMore(type)
      BY <3>1
    <3>3. PICK s, h : /\ s = Len(log) + 1 /\ h = Len(groups) + 1 /\ Len(groups') = h
                      /\ Holds(s, h)'
      BY <3>2 DEF OneMore
    <3>4. g = h
      BY <1>1, <2>2, <3>3
    <3>5. Holds(s, g)'
      BY <3>3, <3>4
    <3> QED
      BY <3>5 DEF Holds
  <2> QED
    BY <2>1, <2>2
<1>7. Ordered'
  <2> SUFFICES ASSUME NEW s \in 1 .. Len(log'), NEW t \in 1 .. Len(log'),
                      NEW g \in 1 .. Len(groups'), NEW h \in 1 .. Len(groups'),
                      Holds(s, g)', Holds(t, h)', s < t
               PROVE  g < h
    BY DEF Ordered
  <2>1. CASE Holds(t, h) /\ t \in 1 .. Len(log) /\ h \in 1 .. Len(groups)
    <3>1. Holds(s, g) /\ s \in 1 .. Len(log) /\ g \in 1 .. Len(groups)
      BY <1>1, <1>5, <2>1
    <3> QED
      BY <2>1, <3>1 DEF Ordered
  <2>2. CASE t = Len(log) + 1 /\ h = Len(groups) + 1
    <3>1. Holds(s, g) /\ s \in 1 .. Len(log) /\ g \in 1 .. Len(groups)
      BY <1>1, <1>5, <2>2
    <3> QED
      BY <1>1, <2>2, <3>1
  <2> QED
    BY <1>5, <2>1, <2>2
<1>8. ASSUME NEW d \in 0 .. Len(groups), NEW i \in 0 .. Len(log), Span(d, i)
      PROVE  Span(d, i)'
  <2> SUFFICES ASSUME NEW s \in 1 .. Len(log'), NEW g \in 1 .. Len(groups'), Holds(s, g)'
               PROVE  s + Size(groups'[g]) <= i <=> g <= d
    BY DEF Span
  <2>1. CASE Holds(s, g) /\ s \in 1 .. Len(log) /\ g \in 1 .. Len(groups)
    <3>1. groups'[g] = groups[g]
      BY <1>2, <2>1
    <3> QED
      BY <1>8, <2>1, <3>1 DEF Span
  <2>2. CASE s = Len(log) + 1 /\ g = Len(groups) + 1
    <3>1. groups'[g] \in Kinds
      BY <1>1
    <3>2. Size(groups'[g]) \in Nat
      BY <3>1, AssemblerAssumption, SizeType
    <3> QED
      BY <1>1, <2>2, <3>2
  <2> QED
    BY <1>5, <2>1, <2>2
<1> QED
  BY <1>4, <1>6, <1>7, <1>8


----------------------------------------------------------------------------
(***************************************************************************)
(* What the log says of a transaction stays as the log grows               *)
(***************************************************************************)
\* What is to be stored of it, and what is a miss.
LEMMA KeptStays ==
    ASSUME Grows, NEW g \in 1 .. Len(groups)
    PROVE  Kept(g)' = Kept(g) /\ Told(g)' = Told(g) /\ CommitOf(g)' = CommitOf(g)
<1>1. groups'[g] = groups[g]
  BY DEF Grows
<1>2. Kept(g)' = Kept(g) /\ Told(g)' = Told(g)
  BY <1>1 DEF Kept, Told
<1> QED
  BY <1>2 DEF CommitOf

\* What the source committed up to it.
LEMMA CommittedStays ==
    ASSUME Grows, LogTypes, NEW n \in 0 .. Len(groups)
    PROVE  CommittedUpTo(n)' = CommittedUpTo(n)
<1> DEFINE these == [g \in 1 .. n |-> CommitOf(g)]
<1>1. Len(groups) \in Nat
  BY DEF LogTypes
<1>2. ASSUME NEW g \in 1 .. n PROVE CommitOf(g)' = CommitOf(g)
  BY <1>1, <1>2, KeptStays
<1>3. [g \in 1 .. n |-> CommitOf(g)'] = these
  BY <1>2
<1>4. CommittedUpTo(n)' = FlattenSeq([g \in 1 .. n |-> CommitOf(g)'])
  BY DEF CommittedUpTo
<1>5. CommittedUpTo(n) = FlattenSeq(these)
  BY DEF CommittedUpTo
<1> HIDE DEF these
<1> QED
  BY <1>3, <1>4, <1>5

\* What the store has of it, while the store loses nothing.
LEMMA HasStays ==
    ASSUME Grows, NEW g \in 1 .. Len(groups), Has(g), misses \subseteq misses',
           \A i \in DOMAIN txns : i \in DOMAIN txns' /\ txns'[i] = txns[i]
    PROVE  Has(g)'
<1>1. Kept(g)' = Kept(g) /\ Told(g)' = Told(g)
  BY KeptStays
<1>2. ASSUME NEW x \in ToSet(Kept(g))
      PROVE  \E i \in DOMAIN txns' : x \in ToSet(Changes(txns'[i].rows))
  <2>1. PICK i \in DOMAIN txns : x \in ToSet(Changes(txns[i].rows))
    BY <1>2 DEF Has
  <2>2. i \in DOMAIN txns' /\ txns'[i] = txns[i]
    BY <2>1
  <2> QED
    BY <2>1, <2>2
<1>3. Told(g) \subseteq misses'
  BY DEF Has
<1>4. Has(g)' <=> /\ \A x \in ToSet(Kept(g)') :
                        \E i \in DOMAIN txns' : x \in ToSet(Changes(txns'[i].rows))
                  /\ Told(g)' \subseteq misses'
  BY DEF Has, Changes, ToSet
<1> QED
  BY <1>1, <1>2, <1>3, <1>4

\* What it has of those up to one.
LEMMA DoneStays ==
    ASSUME Grows, LogTypes, NEW f \in Nat, NEW d, DoneUpTo(f, d),
           txns' = txns, misses \subseteq misses'
    PROVE  DoneUpTo(f, d)'
<1>1. Len(groups) \in Nat /\ Len(groups') \in Nat /\ Len(groups) <= Len(groups')
  BY DEF Grows, LogTypes
<1>2. d \in 0 .. Len(groups) /\ f <= d /\ CommittedUpTo(d) = CommittedUpTo(f) \o Recorded
      /\ \A g \in f + 1 .. d : Has(g)
  BY DEF DoneUpTo
<1>3. f \in 0 .. Len(groups)
  BY <1>1, <1>2
<1>4. CommittedUpTo(d)' = CommittedUpTo(d) /\ CommittedUpTo(f)' = CommittedUpTo(f)
  BY <1>2, <1>3, CommittedStays
<1>5. Recorded' = Recorded
  BY DEF Recorded, Changes
<1>6. ASSUME NEW g \in f + 1 .. d PROVE Has(g)'
  <2>1. g \in 1 .. Len(groups) /\ Has(g)
    BY <1>1, <1>2
  <2> QED
    BY <2>1, HasStays
<1>7. CommittedUpTo(d)' = (CommittedUpTo(f) \o Recorded)'
  BY <1>2, <1>4, <1>5
<1> QED
  BY <1>1, <1>2, <1>6, <1>7 DEF DoneUpTo

\* The identities of the transactions it has.
LEMMA IDsStay ==
    ASSUME Grows, LogInv, NEW d, IDsUpTo(d), txns' = txns
    PROVE  IDsUpTo(d)'
<1> SUFFICES ASSUME NEW i \in DOMAIN txns
             PROVE  \E s \in 1 .. Len(log'), g \in 1 .. Len(groups') :
                        Holds(s, g)' /\ g <= d /\ txns'[i].id = IDAt(s, g)'
  BY DEF IDsUpTo
<1>1. PICK s \in 1 .. Len(log), g \in 1 .. Len(groups) :
             Holds(s, g) /\ g <= d /\ txns[i].id = IDAt(s, g)
  BY DEF IDsUpTo
<1>2. /\ Len(log) \in Nat /\ Len(groups) \in Nat /\ groups \in Seq(Kinds)
      /\ Len(log') \in Nat /\ Len(groups') \in Nat
  BY DEF Grows, LogInv, LogTypes
<1>3. Size(groups[g]) \in Nat /\ s + Size(groups[g]) <= Len(log)
  BY <1>1, <1>2, KindIs DEF Holds
<1>4. s + Size(groups[g]) \in 1 .. Len(log)
  BY <1>2, <1>3
<1>5. log'[s] = log[s] /\ groups'[g] = groups[g]
      /\ log'[s + Size(groups[g])] = log[s + Size(groups[g])]
  BY <1>1, <1>4 DEF Grows
<1>6. IDAt(s, g)' = IDAt(s, g)
  <2> DEFINE k == s + Size(groups[g])
  <2>1. (s + Size(groups[g]))' = k
    BY <1>5 DEF Size
  <2>2. IDAt(s, g)' = IF log'[s].type = "gtid" THEN [gtid |-> g, file |-> 0, pos |-> 0]
                      ELSE [gtid |-> 0, file |-> log'[k].file, pos |-> log'[k].pos]
    BY <2>1 DEF IDAt
  <2>3. IDAt(s, g) = IF log[s].type = "gtid" THEN [gtid |-> g, file |-> 0, pos |-> 0]
                     ELSE [gtid |-> 0, file |-> log[k].file, pos |-> log[k].pos]
    BY DEF IDAt
  <2> HIDE DEF k
  <2> QED
    BY <1>5, <2>2, <2>3 DEF k
<1>7. Holds(s, g)'
  BY <1>1, HoldsStay
<1>8. s \in 1 .. Len(log') /\ g \in 1 .. Len(groups')
  BY <1>1, <1>2 DEF Grows
<1> QED
  BY <1>1, <1>6, <1>7, <1>8

\* What is known at the checkpoint stays.
LEMMA CheckpointStays ==
    ASSUME LogInv, Grows, NEW f \in Nat, AtCheckpoint(f), txns' = txns, checkpoint' = checkpoint,
           misses \subseteq misses'
    PROVE  AtCheckpoint(f)'
<1>1. /\ LogTypes /\ groups \in Seq(Kinds) /\ Len(log) \in Nat
      /\ Len(groups) \in Nat /\ Len(log') \in Nat /\ Len(groups') \in Nat
      /\ Len(log) <= Len(log') /\ Len(groups) <= Len(groups')
      /\ \A i \in 1 .. Len(log) : log'[i] = log[i]
      /\ \A g \in 1 .. Len(groups) : groups'[g] = groups[g]
  BY DEF LogInv, LogTypes, Grows
<1>2. \A d : DoneUpTo(f, d) => DoneUpTo(f, d)'
  BY <1>1, DoneStays
<1>3. \A d : IDsUpTo(d) => IDsUpTo(d)'
  BY <1>1, IDsStay
<1>4. ASSUME checkpoint # Start
      PROVE  \E s \in 1 .. Len(log'), d \in 1 .. Len(groups') :
                LET c == log'[s + Size(groups'[d])]
                IN  /\ Holds(s, d)' /\ checkpoint = [file |-> c.file, pos |-> c.pos]
                    /\ DoneUpTo(f, d)' /\ IDsUpTo(d)'
  <2>1. PICK s \in 1 .. Len(log), d \in 1 .. Len(groups) :
               LET c == log[s + Size(groups[d])]
               IN  /\ Holds(s, d) /\ checkpoint = [file |-> c.file, pos |-> c.pos]
                   /\ DoneUpTo(f, d) /\ IDsUpTo(d)
    BY <1>4 DEF AtCheckpoint
  <2>2. Size(groups[d]) \in Nat /\ s + Size(groups[d]) <= Len(log)
    BY <1>1, <2>1, KindIs DEF Holds
  <2>3. groups'[d] = groups[d] /\ log'[s + Size(groups'[d])] = log[s + Size(groups[d])]
    BY <1>1, <2>2
  <2>4. Holds(s, d)'
    BY <1>1, <2>1, HoldsStay
  <2>5. s \in 1 .. Len(log') /\ d \in 1 .. Len(groups')
    BY <1>1
  <2> QED
    BY <1>2, <1>3, <2>1, <2>3, <2>4, <2>5
<1>5. checkpoint = Start => txns' = <<>>
  BY DEF AtCheckpoint
<1>6. Start' = Start /\ \A kind : Size(kind)' = Size(kind)
  BY DEF Start, Size
<1> QED
  BY <1>4, <1>5, <1>6 DEF AtCheckpoint, Size

\* A step of the server leaves what is known of the store.
LEMMA StoreServer ==
    ASSUME HandInv, StoreInv, LogInv', Grows,
           NamesAgree', Placed', Ordered',
           \A d \in 0 .. Len(groups), i \in 0 .. Len(log) : Span(d, i) => Span(d, i)',
           UNCHANGED <<pc, at, asm, txns, misses, checkpoint, skipped>>
    PROVE  StoreInv'
<1>1. /\ LogInv /\ LogTypes /\ AsmInv /\ groups \in Seq(Kinds) /\ Len(log) \in Nat
      /\ Len(groups) \in Nat /\ Len(log') \in Nat /\ Len(groups') \in Nat
      /\ Len(log) <= Len(log') /\ Len(groups) <= Len(groups')
      /\ \A i \in 1 .. Len(log) : log'[i] = log[i]
      /\ \A g \in 1 .. Len(groups) : groups'[g] = groups[g]
  BY DEF HandInv, LogInv, LogTypes, Grows
<1>2. PICK f \in 0 .. Len(groups) : skipped = 1 .. f /\ Stores(f)
  BY DEF StoreInv
<1>3. f \in Nat /\ f \in 0 .. Len(groups')
  BY <1>1
<1>4. \A d : DoneUpTo(f, d) => DoneUpTo(f, d)' /\ d \in 0 .. Len(groups')
  <2> TAKE d
  <2> SUFFICES ASSUME DoneUpTo(f, d) PROVE DoneUpTo(f, d)' /\ d \in 0 .. Len(groups')
    OBVIOUS
  <2>1. DoneUpTo(f, d)'
    BY <1>1, <1>3, DoneStays
  <2>2. d \in 0 .. Len(groups)
    BY DEF DoneUpTo
  <2> QED
    BY <1>1, <2>1, <2>2
<1>5. \A d : IDsUpTo(d) => IDsUpTo(d)'
  BY <1>1, IDsStay
<1>6. AtCheckpoint(f)'
  BY <1>1, <1>2, <1>3, CheckpointStays DEF Stores
<1>7. ASSUME pc = "streaming"
      PROVE  /\ \E d \in 0 .. Len(groups') : Span(d, at)' /\ DoneUpTo(f, d)' /\ IDsUpTo(d)'
             /\ NameInHand' /\ MissesInHand(f)'
  <2>1. at \in 0 .. Len(log) /\ at' = at
    BY <1>1, <1>7 DEF AsmInv
  <2>2. PICK d \in 0 .. Len(groups) : Span(d, at) /\ DoneUpTo(f, d) /\ IDsUpTo(d)
    BY <1>2, <1>7 DEF Stores, AtStream
  <2>3. Span(d, at)'
    <3>1. PICK i : i = at
      OBVIOUS
    <3>2. Span(d, i)'
      BY <2>1, <2>2, <3>1
    <3> QED
      BY <2>1, <3>1, <3>2 DEF Span
  <2>4. \A s, g : Within(at, s, g)' =>
                     Within(at, s, g) /\ s \in 1 .. Len(log) /\ g \in 1 .. Len(groups)
    <3> TAKE s, g
    <3> SUFFICES ASSUME Within(at, s, g)'
                 PROVE  Within(at, s, g) /\ s \in 1 .. Len(log) /\ g \in 1 .. Len(groups)
      OBVIOUS
    <3>1. Holds(s, g)' /\ s <= at /\ at <= s + Size(groups'[g])
      BY <2>1 DEF Within, Size
    <3>2. s \in 1 .. Len(log)
      BY <1>1, <2>1, <3>1 DEF Holds
    <3>3. Holds(s, g)
      BY <1>1, <3>1, <3>2, HeldBefore
    <3>4. g \in 1 .. Len(groups)
      BY <3>3 DEF Holds
    <3>5. groups'[g] = groups[g]
      BY <1>1, <3>4
    <3> QED
      BY <3>1, <3>2, <3>3, <3>4, <3>5 DEF Within
  <2>5. NameInHand /\ MissesInHand(f)
    BY <1>2, <1>7 DEF Stores, AtStream
  <2>6. NameInHand'
    <3>1. ASSUME \A i \in 1 .. Len(log') : log'[i].type # "gtid" PROVE asm'.gtid = 0
      <4>1. \A i \in 1 .. Len(log) : log[i].type # "gtid"
        BY <1>1, <3>1
      <4> QED
        BY <2>5, <4>1 DEF NameInHand
    <3>2. ASSUME NEW s \in 1 .. Len(log'), NEW g \in 1 .. Len(groups'), Within(at, s, g)',
                 log'[s].type = "gtid", at < s + Size(groups'[g])
          PROVE  asm'.gtid = g
      <4>1. Within(at, s, g) /\ s \in 1 .. Len(log) /\ g \in 1 .. Len(groups)
        BY <2>4, <3>2
      <4>2. log[s].type = "gtid" /\ groups'[g] = groups[g]
        BY <1>1, <3>2, <4>1
      <4> QED
        BY <2>5, <3>2, <4>1, <4>2 DEF NameInHand
    <3> QED
      BY <2>1, <3>1, <3>2 DEF NameInHand, Size
  <2>7. MissesInHand(f)'
    <3>1. ASSUME NEW s \in 1 .. Len(log'), NEW g \in 1 .. Len(groups'), Within(at, s, g)', f < g,
                 NEW j \in 1 .. at - s
          PROVE  ToSet(Missed(groups'[g], j, g)) \subseteq misses'
      <4>1. Within(at, s, g) /\ s \in 1 .. Len(log) /\ g \in 1 .. Len(groups)
        BY <2>4, <3>1
      <4>2. groups'[g] = groups[g]
        BY <1>1, <4>1
      <4>3. ToSet(Missed(groups[g], j, g)) \subseteq misses
        BY <2>5, <3>1, <4>1 DEF MissesInHand
      <4> QED
        BY <4>2, <4>3
    <3> QED
      BY <2>1, <3>1 DEF MissesInHand, Missed, ToSet
  <2> QED
    BY <1>1, <1>4, <1>5, <2>2, <2>3, <2>6, <2>7
<1>8. Stores(f)'
  BY <1>6, <1>7 DEF Stores, AtStream
<1> QED
  BY <1>2, <1>3, <1>8 DEF StoreInv

----------------------------------------------------------------------------
(***************************************************************************)
(* What a transaction gives out is what the log says is to be stored       *)
(***************************************************************************)
StmtsOf(g, stmts) == [i \in DOMAIN stmts |-> [group |-> g, stmt |-> stmts[i]]]

\* Rows that are those of these statements.
LEMMA ChangesAre ==
    ASSUME NEW rows, NEW stmts, NEW g, DOMAIN rows = DOMAIN stmts,
           \A i \in DOMAIN stmts : rows[i].group = g /\ rows[i].stmt = stmts[i]
    PROVE  Changes(rows) = StmtsOf(g, stmts)
BY DEF Changes, StmtsOf

\* One row, and two.
LEMMA ChangesFew ==
    ASSUME NEW g, NEW n, NEW m, NEW q, NEW p
    PROVE  /\ Changes(<<>>) = StmtsOf(g, <<>>)
           /\ Changes(One(RowOf(g, n, q, TRUE))) = StmtsOf(g, <<n>>)
           /\ Changes(Two(RowOf(g, n, q, TRUE), RowOf(g, m, p, TRUE)))
                 = StmtsOf(g, <<n, m>>)
<1>1. Changes(<<>>) = StmtsOf(g, <<>>)
  <2> DEFINE rows == <<>>
             stmts == <<>>
  <2>1. DOMAIN rows = DOMAIN stmts /\ \A i \in DOMAIN stmts : rows[i].group = g /\ rows[i].stmt = stmts[i]
    OBVIOUS
  <2> HIDE DEF rows, stmts
  <2>2. Changes(rows) = StmtsOf(g, stmts)
    BY <2>1, ChangesAre
  <2> QED
    BY <2>2 DEF rows, stmts
<1>2. Changes(One(RowOf(g, n, q, TRUE))) = StmtsOf(g, <<n>>)
  <2> DEFINE x == RowOf(g, n, q, TRUE)
             rows == One(x)
             stmts == <<n>>
  <2>1. x.group = g /\ x.stmt = n
    BY DEF RowOf
  <2> HIDE DEF x
  <2>2. DOMAIN rows = 1 .. 1 /\ DOMAIN stmts = 1 .. 1 /\ stmts[1] = n /\ rows[1] = x
    BY DEF One
  <2>3. rows[1].group = g /\ rows[1].stmt = n
    BY <2>1, <2>2
  <2> HIDE DEF rows, stmts
  <2>4. Changes(rows) = StmtsOf(g, stmts)
    BY <2>2, <2>3, ChangesAre
  <2> QED
    BY <2>4 DEF rows, stmts, x
<1>3. Changes(Two(RowOf(g, n, q, TRUE), RowOf(g, m, p, TRUE))) = StmtsOf(g, <<n, m>>)
  <2> DEFINE x == RowOf(g, n, q, TRUE)
             y == RowOf(g, m, p, TRUE)
             rows == Two(x, y)
             stmts == <<n, m>>
  <2>1. x.group = g /\ x.stmt = n /\ y.group = g /\ y.stmt = m
    BY DEF RowOf
  <2> HIDE DEF x, y
  <2>2. DOMAIN rows = 1 .. 2 /\ rows[1] = x /\ rows[2] = y
    BY DEF Two, One
  <2>3. DOMAIN stmts = 1 .. 2 /\ stmts[1] = n /\ stmts[2] = m
    OBVIOUS
  <2>4. /\ rows[1].group = g /\ rows[1].stmt = n
        /\ rows[2].group = g /\ rows[2].stmt = m
    BY <2>1, <2>2
  <2> HIDE DEF rows, stmts
  <2>5. Changes(rows) = StmtsOf(g, stmts)
    BY <2>2, <2>3, <2>4, ChangesAre
  <2> QED
    BY <2>5 DEF rows, stmts, x, y
<1> QED
  BY <1>1, <1>2, <1>3

\* What is to be stored of a kind of transaction.
LEMMA StoredIs ==
    /\ StoredOf["insert"] = <<2>> /\ StoredOf["statements"] = <<1, 2>>
    /\ StoredOf["unwanted"] = <<>> /\ StoredOf["unreadable"] = <<1, 3>>
    /\ StoredOf["rolledback"] = <<>> /\ StoredOf["ddl"] = <<1>> /\ StoredOf["session"] = <<>>
    /\ StoredOf["compressed"] = <<3>> /\ StoredOf["xa"] = <<>>
BY DEF StoredOf

\* The rows it gives out when it ends are those; a statement that commits on
\* its own inside a transaction ("create") splits what it gives out.
LEMMA KeptIs ==
    ASSUME NEW g \in Nat, groups[g] \in DOMAIN Forms, groups[g] # "create",
           NEW out, out = WantedOut(groups[g], Size(groups[g]), g)
    PROVE  /\ Changes(out) = Kept(g)
           /\ out = <<>> <=> Kept(g) = <<>>
           /\ Kept(g) \in Seq([group : Nat, stmt : Nat])
<1> DEFINE kind == groups[g]
           S == StoredOf[kind]
<1>1. Kept(g) = StmtsOf(g, S)
  BY DEF Kept, StmtsOf
<1>2. kind \in {"insert", "statements", "unwanted", "unreadable", "rolledback", "ddl",
                "session", "xa", "compressed"}
  BY FormsAre
<1>3. CASE kind \in {"unwanted", "rolledback", "session", "xa"}
  <2>1. S = <<>>
    BY <1>3, StoredIs
  <2>2. out = <<>>
    BY <1>3 DEF WantedOut
  <2>3. Kept(g) = StmtsOf(g, <<>>)
    BY <1>1, <2>1
  <2>4. Changes(out) = Kept(g)
    BY <2>2, <2>3, ChangesFew
  <2>5. Kept(g) = <<>>
    BY <2>3 DEF StmtsOf
  <2> QED
    BY <2>2, <2>4, <2>5
<1>4. CASE kind \in {"insert", "compressed", "ddl"}
  <2>1. PICK n \in Nat : /\ S = <<n>>
                         /\ \E q : out = One(RowOf(g, n, q, TRUE))
    <3>1. CASE kind = "insert"
      <4>1. S = <<2>> /\ out = One(RowOf(g, 2, 0, TRUE))
        BY <3>1, StoredIs, Sizes DEF WantedOut
      <4> QED
        BY <4>1
    <3>2. CASE kind = "compressed"
      <4>1. S = <<3>> /\ out = One(RowOf(g, 3, 0, TRUE))
        BY <3>2, StoredIs, Sizes DEF WantedOut
      <4> QED
        BY <4>1
    <3>3. CASE kind = "ddl"
      <4>1. S = <<1>> /\ out = One(RowOf(g, 1, 1, TRUE))
        BY <3>3, StoredIs, Sizes DEF WantedOut
      <4> QED
        BY <4>1
    <3> QED
      BY <1>4, <3>1, <3>2, <3>3
  <2>2. PICK q : out = One(RowOf(g, n, q, TRUE))
    BY <2>1
  <2>3. Kept(g) = StmtsOf(g, <<n>>)
    BY <1>1, <2>1
  <2>4. Changes(out) = Kept(g)
    BY <2>2, <2>3, ChangesFew
  <2>5. out # <<>>
    BY <2>2, OneIs
  <2>6. Kept(g) # <<>> /\ Kept(g) \in Seq([group : Nat, stmt : Nat])
    <3> DEFINE T == <<n>>
    <3>1. DOMAIN T = 1 .. 1 /\ T[1] = n
      OBVIOUS
    <3> HIDE DEF T
    <3>2. Kept(g) = [i \in 1 .. 1 |-> [group |-> g, stmt |-> T[i]]]
      BY <2>3, <3>1 DEF T, StmtsOf
    <3> QED
      BY <3>1, <3>2
  <2> QED
    BY <2>4, <2>5, <2>6
<1>5. ASSUME NEW n \in Nat, NEW m \in Nat, NEW q, NEW p, S = <<n, m>>,
             out = Two(RowOf(g, n, q, TRUE), RowOf(g, m, p, TRUE))
      PROVE  /\ Changes(out) = Kept(g) /\ out # <<>>
             /\ Kept(g) # <<>> /\ Kept(g) \in Seq([group : Nat, stmt : Nat])
  <2>1. Kept(g) = StmtsOf(g, <<n, m>>)
    BY <1>1, <1>5
  <2> DEFINE rows == Two(RowOf(g, n, q, TRUE), RowOf(g, m, p, TRUE))
  <2>2. Changes(rows) = StmtsOf(g, <<n, m>>)
    BY ChangesFew
  <2>3. rows # <<>>
    BY TwoAre
  <2>4. Kept(g) # <<>> /\ Kept(g) \in Seq([group : Nat, stmt : Nat])
    <3> DEFINE T == <<n, m>>
    <3>1. DOMAIN T = 1 .. 2 /\ T[1] = n /\ T[2] = m
      OBVIOUS
    <3> HIDE DEF T
    <3>2. Kept(g) = [i \in 1 .. 2 |-> [group |-> g, stmt |-> T[i]]]
      BY <2>1, <3>1 DEF T, StmtsOf
    <3> QED
      BY <3>1, <3>2
  <2>5. out = rows
    BY <1>5
  <2> HIDE DEF kind, S, rows
  <2> QED
    BY <2>1, <2>2, <2>3, <2>4, <2>5
<1>6. CASE kind = "statements"
  <2>1. S = <<1, 2>> /\ out = Two(RowOf(g, 1, 1, TRUE), RowOf(g, 2, 0, TRUE))
    BY <1>6, StoredIs, Sizes DEF WantedOut
  <2> HIDE DEF S
  <2> QED
    BY <1>5, <2>1
<1>7. CASE kind = "unreadable"
  <2>1. S = <<1, 3>> /\ out = Two(RowOf(g, 1, 0, TRUE), RowOf(g, 3, 2, TRUE))
    BY <1>7, StoredIs, Sizes DEF WantedOut
  <2> HIDE DEF S
  <2> QED
    BY <1>5, <2>1
<1> QED
  BY <1>2, <1>3, <1>4, <1>6, <1>7

\* Until it ends it gives out nothing.
LEMMA GivenAtTheEnd ==
    ASSUME NEW kind \in DOMAIN Forms, kind # "create", NEW j \in 1 .. Size(kind), j < Size(kind), NEW g
    PROVE  GivenOut(kind, j, g) = <<>>
<1>1. Size(kind) \in Nat
  BY SizeType
<1> QED
  BY <1>1, GivenOutClean

\* What is recorded of it some event of it misses.
LEMMA ToldIs ==
    ASSUME NEW g, groups[g] \in DOMAIN Forms, NEW x \in Told(g)
    PROVE  \E j \in 1 .. Size(groups[g]) : x \in ToSet(Missed(groups[g], j, g))
<1> DEFINE kind == groups[g]
<1>1. kind \in {"unreadable", "compressed"} /\ x = [group |-> g, stmt |-> 2]
  BY DEF Told, ToldOf
<1>2. x \in ToSet(<<x>>)
  BY DEF ToSet
<1>3. CASE kind = "unreadable"
  <2>1. Missed(kind, 4, g) = <<x>> /\ 4 \in 1 .. Size(kind)
    BY <1>1, <1>3, Sizes DEF Missed
  <2> QED
    BY <1>2, <2>1
<1>4. CASE kind = "compressed"
  <2>1. Missed(kind, 1, g) = <<x>> /\ 1 \in 1 .. Size(kind)
    BY <1>1, <1>4, Sizes DEF Missed
  <2> QED
    BY <1>2, <2>1
<1> QED
  BY <1>1, <1>3, <1>4

\* And what is missing of it is recorded, or was followed by what is.
LEMMA ToldKeeps ==
    ASSUME groups \in Seq(Kinds), NEW g \in 1 .. Len(groups), Told(g) \subseteq misses,
           NEW x \in Missing(g)
    PROVE  MissKept(x)
<1> DEFINE kind == groups[g]
           last == [group |-> g, stmt |-> 2]
<1>1. PICK n \in MissedOf[kind] : x = [group |-> g, stmt |-> n]
  BY DEF Missing
<1>2. /\ kind = "unreadable" => n = 2
      /\ kind = "compressed" => n \in {1, 2}
      /\ kind \in {"unreadable", "compressed"}
  <2>1. kind \in DOMAIN Forms
    BY KindIs
  <2>2. MissedOf[kind] = CASE kind = "unreadable" -> {2}
                           [] kind = "compressed" -> {1, 2}
                           [] OTHER -> {}
    BY <2>1 DEF MissedOf
  <2> QED
    BY <1>1, <2>2
<1>3. last \in misses
  BY <1>2 DEF Told, ToldOf
<1>4. CASE n = 2
  BY <1>1, <1>3, <1>4 DEF MissKept
<1>5. CASE kind = "compressed" /\ n = 1
  <2>1. groups[x.group] = "compressed" /\ last.group = x.group /\ x.stmt < last.stmt
    BY <1>1, <1>5
  <2> QED
    BY <1>3, <2>1 DEF MissKept
<1> QED
  BY <1>2, <1>4, <1>5

----------------------------------------------------------------------------
(***************************************************************************)
(* What the source committed up to a transaction                           *)
(***************************************************************************)
UpToNth(c, n) == FlattenSeq([g \in 1 .. n |-> c[g]])

\* One more.
LEMMA UpToNext ==
    ASSUME NEW S, NEW c, NEW m \in Nat, \A g \in 1 .. m : c[g] \in Seq(S),
           NEW n \in Nat, n < m, UpToNth(c, n) \in Seq(S)
    PROVE  /\ UpToNth(c, n + 1) = UpToNth(c, n) \o c[n + 1]
           /\ UpToNth(c, n + 1) \in Seq(S)
<1> DEFINE q == [g \in 1 .. n |-> c[g]]
           p == [g \in 1 .. n + 1 |-> c[g]]
           x == c[n + 1]
<1>1. q \in Seq(Seq(S)) /\ Len(q) = n
  OBVIOUS
<1>2. x \in Seq(S)
  OBVIOUS
<1>3. p = Append(q, x)
  <2>1. p \in Seq(Seq(S)) /\ Len(p) = n + 1
    OBVIOUS
  <2>2. Append(q, x) \in Seq(Seq(S)) /\ Len(Append(q, x)) = n + 1
    BY <1>1, <1>2
  <2>3. \A i \in 1 .. n + 1 : p[i] = Append(q, x)[i]
    <3> TAKE i \in 1 .. n + 1
    <3>1. CASE i = n + 1
      BY <1>1, <3>1
    <3>2. CASE i # n + 1
      <4>1. i \in 1 .. n
        BY <3>2
      <4> QED
        BY <1>1, <4>1
    <3> QED
      BY <3>1, <3>2
  <2> HIDE DEF p, q, x
  <2> QED
    BY <2>1, <2>2, <2>3, SeqEqual
<1>4. FlattenSeq(q) = UpToNth(c, n) /\ FlattenSeq(p) = UpToNth(c, n + 1)
  BY DEF UpToNth
<1> HIDE DEF p, q
<1>5. /\ FlattenSeq(Append(q, x)) = FlattenSeq(q) \o x
      /\ FlattenSeq(Append(q, x)) \in Seq(S)
  BY <1>1, <1>2, <1>4, FlattenAppend
<1> QED
  BY <1>3, <1>4, <1>5

\* As many as there are.
LEMMA UpToType ==
    ASSUME NEW S, NEW c, NEW m \in Nat, \A g \in 1 .. m : c[g] \in Seq(S)
    PROVE  \A n \in 0 .. m : UpToNth(c, n) \in Seq(S)
<1> DEFINE N == {n \in Nat : n <= m => UpToNth(c, n) \in Seq(S)}
<1>1. 0 \in N
  <2>1. UpToNth(c, 0) = <<>>
    <3>1. [g \in 1 .. 0 |-> c[g]] = <<>>
      OBVIOUS
    <3> QED
      BY <3>1, FlattenEmpty DEF UpToNth
  <2> QED
    BY <2>1, EmptySeq
<1>2. ASSUME NEW n \in Nat, n \in N PROVE n + 1 \in N
  <2>1. ASSUME n + 1 <= m PROVE UpToNth(c, n + 1) \in Seq(S)
    <3>1. n < m /\ UpToNth(c, n) \in Seq(S)
      BY <1>2, <2>1
    <3> QED
      BY <3>1, UpToNext
  <2> QED
    BY <2>1
<1> HIDE DEF N
<1>3. Nat \subseteq N
  BY <1>1, <1>2, NatSets
<1> QED
  BY <1>3 DEF N

Begins(S, part, whole) == \E rest \in Seq(S) : whole = part \o rest

\* Fewer are the beginning of more.
LEMMA UpToPrefix ==
    ASSUME NEW S, NEW c, NEW m \in Nat, \A g \in 1 .. m : c[g] \in Seq(S),
           NEW n \in 0 .. m
    PROVE  Begins(S, UpToNth(c, n), UpToNth(c, m))
<1> DEFINE N == {k \in Nat : n + k <= m =>
                     \E rest \in Seq(S) : UpToNth(c, n + k) = UpToNth(c, n) \o rest}
<1>0. UpToNth(c, n) \in Seq(S)
  BY UpToType
<1>1. 0 \in N
  <2>1. UpToNth(c, n + 0) = UpToNth(c, n)
    OBVIOUS
  <2>2. UpToNth(c, n) = UpToNth(c, n) \o <<>>
    BY <1>0, ConcatEmptySeq
  <2>3. <<>> \in Seq(S)
    BY EmptySeq
  <2> QED
    BY <2>1, <2>2, <2>3
<1>2. ASSUME NEW k \in Nat, k \in N PROVE k + 1 \in N
  <2>1. ASSUME n + (k + 1) <= m
        PROVE  \E rest \in Seq(S) : UpToNth(c, n + (k + 1)) = UpToNth(c, n) \o rest
    <3> DEFINE i == n + k
    <3>1. i \in Nat /\ i < m /\ n + (k + 1) = i + 1 /\ i + 1 \in 1 .. m /\ i \in 0 .. m
      BY <2>1
    <3>2. PICK rest \in Seq(S) : UpToNth(c, i) = UpToNth(c, n) \o rest
      BY <1>2, <3>1
    <3> HIDE DEF i
    <3>3. UpToNth(c, i) \in Seq(S)
      BY <3>1, UpToType
    <3>4. UpToNth(c, i + 1) = UpToNth(c, i) \o c[i + 1]
      BY <3>1, <3>3, UpToNext
    <3>5. c[i + 1] \in Seq(S)
      BY <3>1
    <3> DEFINE x == c[i + 1]
               u == UpToNth(c, n)
    <3>6. UpToNth(c, i + 1) = (u \o rest) \o x
      BY <3>2, <3>4
    <3>9. u \in Seq(S) /\ x \in Seq(S)
      BY <1>0, <3>5
    <3> HIDE DEF x, u
    <3>7. (u \o rest) \o x = u \o (rest \o x)
      BY <3>9, ConcatAssociative
    <3>8. rest \o x \in Seq(S)
      BY <3>9, ConcatProperties
    <3> QED
      BY <3>1, <3>6, <3>7, <3>8 DEF u
  <2> QED
    BY <2>1
<1> HIDE DEF N
<1>3. Nat \subseteq N
  BY <1>1, <1>2, NatSets
<1>4. PICK k \in Nat : k \in N /\ n + k = m
  <2>1. m - n \in Nat /\ n + (m - n) = m
    OBVIOUS
  <2> QED
    BY <1>3, <2>1
<1>5. n + k <= m
  BY <1>4
<1>6. \E rest \in Seq(S) : UpToNth(c, n + k) = UpToNth(c, n) \o rest
  BY <1>4, <1>5 DEF N
<1>7. \E rest \in Seq(S) : UpToNth(c, m) = UpToNth(c, n) \o rest
  BY <1>4, <1>6
<1> QED
  BY <1>7 DEF Begins

Change == [group : Nat, stmt : Nat]

NoCreate == "create" \notin Kinds

\* What a transaction adds.
LEMMA CommitIs ==
    ASSUME NoCreate, groups \in Seq(Kinds), NEW g \in 1 .. Len(groups)
    PROVE  CommitOf(g) \in Seq(Seq(Change)) /\ Kept(g) \in Seq(Change)
<1>1. groups[g] \in DOMAIN Forms /\ groups[g] # "create" /\ g \in Nat
  BY KindIs DEF NoCreate
<1>2. Kept(g) \in Seq(Change)
  BY <1>1, KeptIs DEF Change
<1> QED
  BY <1>2 DEF CommitOf

\* What the source committed up to a transaction, as a sequence of what each
\* of them adds.
LEMMA CommittedIs ==
    ASSUME LogTypes, NoCreate
    PROVE  \E c : /\ \A g \in 1 .. Len(groups) : c[g] \in Seq(Seq(Change)) /\ c[g] = CommitOf(g)
                  /\ \A n \in 0 .. Len(groups) : CommittedUpTo(n) = UpToNth(c, n)
                  /\ Committed = UpToNth(c, Len(groups))
<1> DEFINE c == [g \in 1 .. Len(groups) |-> CommitOf(g)]
<1>1. groups \in Seq(Kinds) /\ Len(groups) \in Nat /\ DOMAIN groups = 1 .. Len(groups)
  BY DEF LogTypes
<1>2. \A g \in 1 .. Len(groups) : c[g] = CommitOf(g)
  OBVIOUS
<1>3. \A g \in 1 .. Len(groups) : c[g] \in Seq(Seq(Change))
  BY <1>1, <1>2, CommitIs
<1>4. ASSUME NEW n \in 0 .. Len(groups) PROVE CommittedUpTo(n) = UpToNth(c, n)
  <2>1. \A g \in 1 .. n : c[g] = CommitOf(g)
    BY <1>1, <1>2
  <2>2. [g \in 1 .. n |-> CommitOf(g)] = [g \in 1 .. n |-> c[g]]
    BY <2>1
  <2> HIDE DEF c
  <2> QED
    BY <2>2 DEF CommittedUpTo, UpToNth
<1>5. Committed = UpToNth(c, Len(groups))
  <2>1. CommittedUpTo(Len(groups)) = UpToNth(c, Len(groups))
    BY <1>1, <1>4
  <2>2. Committed = CommittedUpTo(Len(groups))
    BY <1>1 DEF Committed, CommittedUpTo, CommitOf
  <2> QED
    BY <2>1, <2>2
<1> HIDE DEF c
<1> QED
  BY <1>2, <1>3, <1>4, <1>5

\* One transaction more.
LEMMA CommittedNext ==
    ASSUME LogTypes, NoCreate, NEW n \in Nat, n < Len(groups)
    PROVE  /\ CommittedUpTo(n) \in Seq(Seq(Change))
           /\ CommittedUpTo(n + 1) = CommittedUpTo(n) \o CommitOf(n + 1)
<1>1. PICK c : /\ \A g \in 1 .. Len(groups) : c[g] \in Seq(Seq(Change)) /\ c[g] = CommitOf(g)
               /\ \A k \in 0 .. Len(groups) : CommittedUpTo(k) = UpToNth(c, k)
  BY CommittedIs
<1>2. /\ Len(groups) \in Nat /\ n \in 0 .. Len(groups) /\ n + 1 \in 1 .. Len(groups)
      /\ n + 1 \in 0 .. Len(groups)
  BY DEF LogTypes
<1>3. UpToNth(c, n) \in Seq(Seq(Change))
  BY <1>1, <1>2, UpToType
<1>4. UpToNth(c, n + 1) = UpToNth(c, n) \o c[n + 1]
  <2> DEFINE m == Len(groups)
             S == Seq(Change)
  <2>1. m \in Nat /\ n < m /\ UpToNth(c, n) \in Seq(S) /\ \A g \in 1 .. m : c[g] \in Seq(S)
    BY <1>1, <1>2, <1>3
  <2> HIDE DEF m, S
  <2> QED
    BY <2>1, UpToNext
<1>5. c[n + 1] = CommitOf(n + 1) /\ CommittedUpTo(n + 1) = UpToNth(c, n + 1)
      /\ CommittedUpTo(n) = UpToNth(c, n)
  BY <1>1, <1>2
<1> QED
  BY <1>3, <1>4, <1>5

----------------------------------------------------------------------------
(***************************************************************************)
(* The stream goes past an event                                           *)
(***************************************************************************)
\* An event that ends no transaction leaves the last one that ended.
LEMMA SpanStays ==
    ASSUME LogInv, NEW i \in 1 .. Len(log), NEW d, Span(d, i - 1),
           \A s, g : Within(i, s, g) => s + Size(groups[g]) # i
    PROVE  Span(d, i)
<1> SUFFICES ASSUME NEW s \in 1 .. Len(log), NEW g \in 1 .. Len(groups), Holds(s, g)
             PROVE  s + Size(groups[g]) <= i <=> g <= d
  BY DEF Span
<1>1. groups \in Seq(Kinds) /\ Len(log) \in Nat
  BY DEF LogInv, LogTypes
<1>2. Size(groups[g]) \in Nat /\ Size(groups[g]) >= 1
  BY <1>1, KindIs
<1>3. s + Size(groups[g]) <= i - 1 <=> g <= d
  BY DEF Span
<1>4. s + Size(groups[g]) # i
  <2> SUFFICES ASSUME s + Size(groups[g]) = i PROVE FALSE
    OBVIOUS
  <2>1. Within(i, s, g)
    BY <1>2 DEF Within
  <2> QED
    BY <2>1
<1> QED
  BY <1>2, <1>3, <1>4

\* One that ends a transaction ends the next one.
LEMMA SpanGrows ==
    ASSUME LogInv, Placed, Ordered, NEW i \in 1 .. Len(log), NEW d \in 0 .. Len(groups),
           Span(d, i - 1),
           NEW s \in 1 .. Len(log), NEW g \in 1 .. Len(groups), Holds(s, g), s + Size(groups[g]) = i
    PROVE  g = d + 1 /\ Span(g, i)
<1>1. groups \in Seq(Kinds) /\ Len(log) \in Nat /\ Len(groups) \in Nat /\ i \in Nat
  BY DEF LogInv, LogTypes
<1>2. \A h \in 1 .. Len(groups) : Size(groups[h]) \in Nat /\ Size(groups[h]) >= 1
  BY <1>1, KindIs
<1>3. g > d
  <2>1. s + Size(groups[g]) <= i - 1 <=> g <= d
    BY DEF Span
  <2> QED
    BY <1>1, <2>1
<1>4. Within(i, s, g) /\ Within(s, s, g)
  BY <1>2 DEF Within
<1>5. g = d + 1
  <2> SUFFICES ASSUME g # d + 1 PROVE FALSE
    OBVIOUS
  <2> DEFINE h == d + 1
  <2>1. h \in 1 .. Len(groups) /\ h < g /\ ~ (h <= d)
    BY <1>1, <1>3
  <2> HIDE DEF h
  <2>2. PICK t \in 1 .. Len(log) : Holds(t, h)
    BY <2>1 DEF Placed
  <2>3. t + Size(groups[h]) >= i
    <3>1. t + Size(groups[h]) <= i - 1 <=> h <= d
      BY <2>1, <2>2 DEF Span
    <3> QED
      BY <1>1, <1>2, <2>1, <3>1
  <2>4. ~ (s < t)
    BY <1>1, <2>1, <2>2 DEF Ordered
  <2>5. Within(s, t, h)
    <3>1. t <= s
      BY <2>4
    <3>2. s <= t + Size(groups[h])
      BY <1>2, <2>1, <2>3
    <3> QED
      BY <2>2, <3>1, <3>2 DEF Within
  <2>6. s \in Nat
    OBVIOUS
  <2>7. g = h
    BY <1>1, <1>4, <2>5, <2>6, HeldOnce
  <2> QED
    BY <2>1, <2>7
<1>6. Span(g, i)
  <2> SUFFICES ASSUME NEW t \in 1 .. Len(log), NEW h \in 1 .. Len(groups), Holds(t, h)
               PROVE  t + Size(groups[h]) <= i <=> h <= g
    BY DEF Span
  <2>1. t + Size(groups[h]) <= i - 1 <=> h <= d
    BY DEF Span
  <2>2. ASSUME t + Size(groups[h]) = i PROVE h = g
    <3>1. Within(i, t, h)
      BY <1>2, <2>2 DEF Within
    <3> QED
      BY <1>1, <1>4, <3>1, HeldOnce
  <2>3. ASSUME h = g PROVE t = s
    <3>1. ~ (s < t) /\ ~ (t < s)
      BY <1>1, <2>3 DEF Ordered
    <3> QED
      BY <3>1
  <2>4. CASE h = g
    <3>1. t = s /\ t + Size(groups[h]) = i
      BY <2>3, <2>4
    <3> QED
      BY <1>1, <2>4, <3>1
  <2>5. CASE h # g
    <3>1. t + Size(groups[h]) # i
      BY <2>2, <2>5
    <3>2. t + Size(groups[h]) \in Nat
      BY <1>2
    <3>3. h <= g <=> h <= d
      BY <1>5, <2>5
    <3> QED
      BY <1>1, <2>1, <3>1, <3>2, <3>3
  <2> QED
    BY <2>4, <2>5
<1> QED
  BY <1>5, <1>6

\* While the server writes nothing, where the transactions are stays.
LEMMA OrderFrozen ==
    ASSUME LogTypes, UNCHANGED <<log, groups>>
    PROVE  /\ Grows /\ (NamesAgree <=> NamesAgree') /\ (Placed <=> Placed') /\ (Ordered <=> Ordered')
           /\ \A s, g : Holds(s, g)' <=> Holds(s, g)
           /\ \A d, i : Span(d, i)' <=> Span(d, i)
<1>1. Grows
  BY DEF Grows, LogTypes
<1>2. \A s, g : Holds(s, g)' <=> Holds(s, g)
  BY DEF Holds, Size, Is
<1>3. NamesAgree <=> NamesAgree'
  BY DEF NamesAgree
<1>4. Placed <=> Placed'
  BY <1>2 DEF Placed
<1>5. Ordered <=> Ordered'
  BY <1>2 DEF Ordered
<1>6. \A d, i : Span(d, i)' <=> Span(d, i)
  BY <1>2 DEF Span, Size
<1> QED
  BY <1>1, <1>2, <1>3, <1>4, <1>5, <1>6

\* An event that ends no transaction: the store stays as it was.
LEMMA StoreQuiet ==
    ASSUME LogInv, at \in Nat, NEW f \in Nat, Stores(f), pc = "streaming",
           UNCHANGED <<log, groups, txns, checkpoint>>, misses \subseteq misses',
           NEW i \in 1 .. Len(log), i = at + 1, at' = i,
           \A s, g : Within(i, s, g) => s + Size(groups[g]) # i,
           NameInHand', MissesInHand(f)'
    PROVE  Stores(f)'
<1>1. LogTypes /\ at = i - 1
  BY DEF LogInv
<1>2. Grows /\ \A d, k : Span(d, k)' <=> Span(d, k)
  BY <1>1, OrderFrozen
<1>3. AtCheckpoint(f)'
  BY <1>2, CheckpointStays DEF Stores
<1>4. PICK d \in 0 .. Len(groups) : Span(d, at) /\ DoneUpTo(f, d) /\ IDsUpTo(d)
  BY DEF Stores, AtStream
<1>5. Span(d, i)
  BY <1>1, <1>4, SpanStays
<1>6. Span(d, i)' /\ DoneUpTo(f, d)' /\ IDsUpTo(d)'
  BY <1>1, <1>2, <1>4, <1>5, DoneStays, IDsStay
<1>7. Span(d, at)'
  BY <1>6 DEF Span
<1> QED
  BY <1>3, <1>4, <1>6, <1>7 DEF Stores, AtStream

\* Two transactions have two identities.
LEMMA TwoIdentities ==
    ASSUME LogInv, NEW s, NEW g, NEW t, NEW h, Holds(s, g), Holds(t, h), IDAt(s, g) = IDAt(t, h)
    PROVE  g = h
<1>1. /\ groups \in Seq(Kinds) /\ log \in Seq(LogEvent) /\ Len(log) \in Nat /\ Len(groups) \in Nat
      /\ \A i \in 1 .. Len(log), k \in 1 .. Len(log) : i < k => Before(log[i], log[k])
  BY DEF LogInv, LogTypes, PositionsRise
<1> DEFINE i == s + Size(groups[g])
           k == t + Size(groups[h])
<1>2. /\ g \in 1 .. Len(groups) /\ h \in 1 .. Len(groups)
      /\ s \in 1 .. Len(log) /\ t \in 1 .. Len(log) /\ i <= Len(log) /\ k <= Len(log)
  BY DEF Holds
<1>3. /\ Size(groups[g]) \in Nat /\ Size(groups[g]) >= 1
      /\ Size(groups[h]) \in Nat /\ Size(groups[h]) >= 1
  BY <1>1, <1>2, KindIs
<1>4. i \in 1 .. Len(log) /\ k \in 1 .. Len(log) /\ s <= i /\ t <= k
  BY <1>1, <1>2, <1>3
<1>5. IDAt(s, g) = IF log[s].type = "gtid" THEN [gtid |-> g, file |-> 0, pos |-> 0]
                   ELSE [gtid |-> 0, file |-> log[i].file, pos |-> log[i].pos]
  BY DEF IDAt
<1>6. IDAt(t, h) = IF log[t].type = "gtid" THEN [gtid |-> h, file |-> 0, pos |-> 0]
                   ELSE [gtid |-> 0, file |-> log[k].file, pos |-> log[k].pos]
  BY DEF IDAt
<1>7. Within(i, s, g) /\ Within(k, t, h)
  <2>1. i <= s + Size(groups[g]) /\ k <= t + Size(groups[h])
    BY <1>4
  <2> HIDE DEF i, k
  <2> QED
    BY <1>4, <2>1 DEF Within
<1> HIDE DEF i, k
<1>8. CASE log[s].type = "gtid" \/ log[t].type = "gtid"
  <2>1. g # 0 /\ h # 0
    BY <1>2
  <2>2. IDAt(s, g).gtid = IF log[s].type = "gtid" THEN g ELSE 0
    BY <1>5
  <2>3. IDAt(t, h).gtid = IF log[t].type = "gtid" THEN h ELSE 0
    BY <1>6
  <2> QED
    BY <1>8, <2>1, <2>2, <2>3
<1>9. CASE log[s].type # "gtid" /\ log[t].type # "gtid"
  <2>1. IDAt(s, g).file = log[i].file /\ IDAt(s, g).pos = log[i].pos
    BY <1>5, <1>9
  <2>2. IDAt(t, h).file = log[k].file /\ IDAt(t, h).pos = log[k].pos
    BY <1>6, <1>9
  <2>3. log[i].file = log[k].file /\ log[i].pos = log[k].pos
    BY <2>1, <2>2
  <2>4. log[i].file \in Nat /\ log[i].pos \in Nat
    BY <1>1, <1>4, EventIsWhole
  <2>5. ~ Before(log[i], log[k]) /\ ~ Before(log[k], log[i])
    BY <2>3, <2>4 DEF Before
  <2>6. i = k
    BY <1>1, <1>4, <2>5
  <2>7. i \in Nat
    BY <1>4
  <2> QED
    BY <1>1, <1>7, <2>6, <2>7, HeldOnce
<1> QED
  BY <1>8, <1>9

\* Sequences of two sorts, one after the other.
LEMMA ConcatThree ==
    ASSUME NEW A, NEW B, NEW u \in Seq(A), NEW v \in Seq(B), NEW w \in Seq(A)
    PROVE  (u \o v) \o w = u \o (v \o w)
<1> DEFINE S == A \cup B
<1>1. u \in Seq(S) /\ v \in Seq(S) /\ w \in Seq(S)
  OBVIOUS
<1> HIDE DEF S
<1> QED
  BY <1>1, ConcatAssociative

Listed == Recorded \in Seq({Recorded[i] : i \in DOMAIN Recorded})

\* What is recorded, behind what comes before it.
LEMMA RecordedBehind ==
    ASSUME NEW C, NEW u \in Seq(C), NEW w \in Seq(C),
           Listed
    PROVE  (u \o Recorded) \o w = u \o (Recorded \o w)
<1>1. PICK B : Recorded \in Seq(B)
  BY DEF Listed
<1>2. PICK v : v = Recorded
  OBVIOUS
<1>3. v \in Seq(B)
  BY <1>1, <1>2
<1>4. (u \o v) \o w = u \o (v \o w)
  BY <1>3, ConcatThree
<1> QED
  BY <1>2, <1>4

\* The store has what it should up to one transaction more.
LEMMA DoneNext ==
    ASSUME LogTypes, NoCreate, UNCHANGED <<log, groups>>, NEW f \in Nat, NEW d \in Nat, NEW g,
           g = d + 1, g <= Len(groups), DoneUpTo(f, d), misses \subseteq misses',
           \A i \in DOMAIN txns : i \in DOMAIN txns' /\ txns'[i] = txns[i],
           Listed,
           Recorded' = Recorded \o CommitOf(g), Has(g)'
    PROVE  DoneUpTo(f, g)'
<1>1. Grows /\ Len(groups) \in Nat
  BY OrderFrozen DEF LogTypes
<1>2. d \in 0 .. Len(groups) /\ f <= d /\ CommittedUpTo(d) = CommittedUpTo(f) \o Recorded
      /\ \A h \in f + 1 .. d : Has(h)
  BY DEF DoneUpTo
<1>3. f \in 0 .. Len(groups) /\ g \in 0 .. Len(groups) /\ g \in 1 .. Len(groups) /\ g \in Nat
      /\ f < Len(groups) /\ d < Len(groups)
  BY <1>1, <1>2
<1>4. CommittedUpTo(f)' = CommittedUpTo(f) /\ CommittedUpTo(g)' = CommittedUpTo(g)
  BY <1>1, <1>3, CommittedStays
<1>5. CommittedUpTo(g) = CommittedUpTo(d) \o CommitOf(g)
  BY <1>3, CommittedNext
<1>6. PICK C : CommittedUpTo(f) \in Seq(C) /\ CommitOf(g) \in Seq(C)
  BY <1>3, CommittedNext, CommitIs DEF LogTypes
<1>7. PICK u, w : u = CommittedUpTo(f) /\ w = CommitOf(g)
  OBVIOUS
<1>12. u \in Seq(C) /\ w \in Seq(C)
  BY <1>6, <1>7
<1>13. (u \o Recorded) \o w = u \o (Recorded \o w)
  BY <1>12, RecordedBehind
<1>8. CommittedUpTo(g) = CommittedUpTo(f) \o (Recorded \o CommitOf(g))
  BY <1>2, <1>5, <1>7, <1>13
<1>9. CommittedUpTo(g)' = CommittedUpTo(f)' \o Recorded'
  BY <1>4, <1>8
<1>10. ASSUME NEW h \in f + 1 .. g PROVE Has(h)'
  <2>1. CASE h = g
    BY <2>1
  <2>2. CASE h # g
    <3>1. h \in f + 1 .. d /\ h \in 1 .. Len(groups)
      BY <1>2, <1>3, <2>2
    <3>2. Has(h)
      BY <1>2, <3>1
    <3> QED
      BY <1>1, <3>1, <3>2, HasStays
  <2> QED
    BY <2>1, <2>2
<1>11. g \in 0 .. Len(groups') /\ f <= g
  BY <1>2, <1>3
<1> QED
  BY <1>9, <1>10, <1>11 DEF DoneUpTo

\* What is recorded is a sequence.
LEMMA RecordedIs ==
    ASSUME txns \in Seq(Txn)
    PROVE  /\ Listed
           /\ DOMAIN Recorded = 1 .. Len(txns) /\ Len(Recorded) = Len(txns)
<1> DEFINE C(i) == Changes(txns[i].rows)
<1>1. DOMAIN txns = 1 .. Len(txns) /\ Len(txns) \in Nat
  OBVIOUS
<1>2. Recorded = [i \in 1 .. Len(txns) |-> C(i)]
  BY <1>1 DEF Recorded
<1> HIDE DEF C
<1> QED
  BY <1>1, <1>2 DEF Listed

\* A transaction more.
LEMMA RecordedNext ==
    ASSUME txns \in Seq(Txn), NEW t \in Txn, txns' = Append(txns, t)
    PROVE  /\ \A i \in DOMAIN txns : i \in DOMAIN txns' /\ txns'[i] = txns[i]
           /\ Len(txns) + 1 \in DOMAIN txns' /\ txns'[Len(txns) + 1] = t
           /\ DOMAIN txns' = DOMAIN txns \cup {Len(txns) + 1}
           /\ \A kept : kept = Changes(t.rows) => Recorded' = Recorded \o <<kept>>
<1>1. /\ DOMAIN txns = 1 .. Len(txns) /\ Len(txns) \in Nat
      /\ DOMAIN txns' = 1 .. Len(txns) + 1 /\ txns'[Len(txns) + 1] = t
      /\ \A i \in 1 .. Len(txns) : txns'[i] = txns[i]
  OBVIOUS
<1>2. ASSUME NEW kept, kept = Changes(t.rows) PROVE Recorded' = Recorded \o <<kept>>
  <2> DEFINE n == Len(txns)
             r == Recorded
             r2 == r \o <<kept>>
  <2>1. r \in Seq({r[i] : i \in DOMAIN r}) /\ Len(r) = n /\ DOMAIN r = 1 .. n
    BY RecordedIs DEF Listed
  <2>2. \A i \in 1 .. n : r[i] = Changes(txns[i].rows)
    BY <1>1 DEF Recorded
  <2>3. Recorded' = [i \in 1 .. n + 1 |-> Changes(txns'[i].rows)]
    BY <1>1 DEF Recorded, Changes
  <2> HIDE DEF n, r
  <2> DEFINE S == {r[i] : i \in DOMAIN r} \cup {kept}
  <2>4. r \in Seq(S) /\ <<kept>> \in Seq(S)
    BY <2>1
  <2>5. /\ r2 = [i \in 1 .. n + 1 |-> IF i <= n THEN r[i] ELSE kept]
    <3>1. n \in Nat
      BY <1>1 DEF n
    <3>2. r2 \in Seq(S) /\ Len(r2) = n + 1
      BY <2>1, <2>4, <3>1
    <3>3. \A i \in 1 .. n + 1 : r2[i] = IF i <= n THEN r[i] ELSE kept
      BY <2>1, <2>4, <3>1
    <3> HIDE DEF r2, S
    <3> QED
      BY <3>1, <3>2, <3>3
  <2>6. \A i \in 1 .. n + 1 : Changes(txns'[i].rows) = IF i <= n THEN r[i] ELSE kept
    <3> TAKE i \in 1 .. n + 1
    <3>1. n \in Nat
      BY <1>1 DEF n
    <3>2. CASE i <= n
      <4>1. i \in 1 .. n /\ txns'[i] = txns[i]
        BY <1>1, <3>1, <3>2 DEF n
      <4> QED
        BY <2>2, <3>2, <4>1
    <3>3. CASE ~ (i <= n)
      <4>1. i = n + 1 /\ txns'[i] = t
        BY <1>1, <3>1, <3>3 DEF n
      <4> QED
        BY <1>2, <3>3, <4>1
    <3> QED
      BY <3>2, <3>3
  <2>7. [i \in 1 .. n + 1 |-> Changes(txns'[i].rows)]
           = [i \in 1 .. n + 1 |-> IF i <= n THEN r[i] ELSE kept]
    BY <2>6
  <2> QED
    BY <2>3, <2>5, <2>7 DEF r
<1> QED
  BY <1>1, <1>2

\* What a transaction leaves of itself in the store when it ends.
Ends(s, g, out) ==
    LET e == log[s + Size(groups[g])]
    IN  IF out = <<>> THEN txns' = txns /\ checkpoint' = checkpoint
        ELSE /\ txns' = IF IDAt(s, g) \in Stored THEN txns
                        ELSE Append(txns, [id |-> IDAt(s, g), rows |-> out])
             /\ checkpoint' = [file |-> e.file, pos |-> e.pos]

\* An event that ends one: its rows are stored, whole and behind the others.
LEMMA StoreEnd ==
    ASSUME LogInv, NoCreate, Placed, Ordered, at \in Nat, NEW f \in Nat, Stores(f),
           pc = "streaming", UNCHANGED <<log, groups>>, misses \subseteq misses',
           NEW i \in 1 .. Len(log), i = at + 1, at' = i,
           NEW s \in 1 .. Len(log), NEW g \in 1 .. Len(groups), Holds(s, g),
           s + Size(groups[g]) = i,
           NEW out, out = WantedOut(groups[g], Size(groups[g]), g), Ends(s, g, out),
           txns \in Seq(Txn), [id |-> IDAt(s, g), rows |-> out] \in Txn,
           NameInHand', MissesInHand(f)'
    PROVE  Stores(f)'
<1>1. /\ LogTypes /\ at = i - 1 /\ groups \in Seq(Kinds) /\ log \in Seq(LogEvent)
      /\ Len(log) \in Nat /\ Len(groups) \in Nat
  BY DEF LogInv, LogTypes
<1>2. /\ Grows /\ \A d, k : Span(d, k)' <=> Span(d, k)
      /\ \A t, h : Holds(t, h)' <=> Holds(t, h)
  BY <1>1, OrderFrozen
<1>3. PICK d \in 0 .. Len(groups) : Span(d, at) /\ DoneUpTo(f, d) /\ IDsUpTo(d)
  BY DEF Stores, AtStream
<1>4. g = d + 1 /\ Span(g, i)
  BY <1>1, <1>3, SpanGrows
<1>5. Span(g, at)'
  <2>1. Span(g, i)'
    BY <1>2, <1>4
  <2> QED
    BY <2>1 DEF Span
<1>6. f <= d /\ d \in Nat /\ f < g
  BY <1>3, <1>4 DEF DoneUpTo
<1>7. /\ groups[g] \in DOMAIN Forms /\ groups[g] # "create" /\ g \in Nat
      /\ Size(groups[g]) \in Nat /\ Size(groups[g]) >= 1
  <2>1. groups[g] \in Kinds
    BY <1>1
  <2> QED
    BY <1>1, <2>1, KindIs DEF NoCreate
<1>8. Changes(out) = Kept(g) /\ (out = <<>> <=> Kept(g) = <<>>)
  BY <1>7, KeptIs
<1>9. Told(g) \subseteq misses'
  <2> SUFFICES ASSUME NEW x \in Told(g) PROVE x \in misses'
    OBVIOUS
  <2>1. PICK j \in 1 .. Size(groups[g]) : x \in ToSet(Missed(groups[g], j, g))
    BY <1>7, ToldIs
  <2>2. Within(at, s, g)'
    <3>1. Holds(s, g)' /\ s <= at' /\ at' <= s + Size(groups'[g])
      BY <1>2, <1>7
    <3> QED
      BY <3>1 DEF Within, Size
  <2>3. j \in 1 .. at' - s /\ s \in 1 .. Len(log') /\ g \in 1 .. Len(groups')
    BY <1>7
  <2>4. ToSet(Missed(groups'[g], j, g)) \subseteq misses'
    <3>1. MissesInHand(f)' <=>
              \A t \in 1 .. Len(log'), h \in 1 .. Len(groups') :
                  Within(at, t, h)' /\ f < h =>
                      \A k \in 1 .. at' - t : ToSet(Missed(groups'[h], k, h)) \subseteq misses'
      BY DEF MissesInHand, Missed, ToSet
    <3> QED
      BY <1>6, <2>2, <2>3, <3>1
  <2> QED
    BY <2>1, <2>4
<1>10. Listed
  BY RecordedIs
<1>11. Kept(g)' = Kept(g) /\ Told(g)' = Told(g)
  BY <1>2, KeptStays
<1>12. CASE out = <<>>
  <2>1. txns' = txns /\ checkpoint' = checkpoint /\ Kept(g) = <<>>
    BY <1>8, <1>12 DEF Ends
  <2>2. AtCheckpoint(f)'
    BY <1>2, <2>1, CheckpointStays DEF Stores
  <2>3. Recorded' = Recorded \o CommitOf(g)
    <3>1. Recorded' = Recorded
      BY <2>1 DEF Recorded, Changes
    <3>2. CommitOf(g) = <<>>
      BY <2>1 DEF CommitOf
    <3> QED
      BY <1>10, <3>1, <3>2, ConcatEmptySeq DEF Listed
  <2>4. Has(g)'
    <3>1. ToSet(Kept(g)') = {}
      BY <1>11, <2>1 DEF ToSet
    <3>2. Told(g)' \subseteq misses'
      BY <1>9, <1>11
    <3> QED
      BY <3>1, <3>2 DEF Has, ToSet
  <2>5. DoneUpTo(f, g)'
    <3>1. g = d + 1 /\ g <= Len(groups) /\ DoneUpTo(f, d) /\ LogTypes
          /\ \A k \in DOMAIN txns : k \in DOMAIN txns' /\ txns'[k] = txns[k]
      BY <1>1, <1>3, <1>4, <2>1
    <3> QED
      BY <1>6, <1>10, <2>3, <2>4, <3>1, DoneNext
  <2>6. IDsUpTo(g)'
    <3>1. IDsUpTo(d)'
      BY <1>2, <1>3, <2>1, IDsStay
    <3>2. \A h \in 1 .. Len(groups') : h <= d => h <= g
      BY <1>1, <1>4, <1>6
    <3> QED
      BY <3>1, <3>2 DEF IDsUpTo
  <2>7. g \in 0 .. Len(groups')
    BY <1>1
  <2> QED
    BY <1>5, <2>2, <2>5, <2>6, <2>7 DEF Stores, AtStream
<1>13. CASE out # <<>>
  <2> DEFINE t == [id |-> IDAt(s, g), rows |-> out]
             c == log[i]
             n == Len(txns) + 1
  <2>1. IDAt(s, g) \notin Stored
    <3> SUFFICES ASSUME NEW k \in DOMAIN txns, txns[k].id = IDAt(s, g) PROVE FALSE
      BY DEF Stored
    <3>1. PICK u \in 1 .. Len(log), h \in 1 .. Len(groups) :
                 Holds(u, h) /\ h <= d /\ txns[k].id = IDAt(u, h)
      BY <1>3 DEF IDsUpTo
    <3>2. g = h
      BY <3>1, TwoIdentities
    <3> QED
      BY <1>4, <1>6, <3>1, <3>2
  <2>2. txns' = Append(txns, t) /\ checkpoint' = [file |-> c.file, pos |-> c.pos]
    BY <1>13, <2>1 DEF Ends
  <2>3. t \in Txn /\ t.rows = out /\ t.id = IDAt(s, g)
    OBVIOUS
  <2> HIDE DEF t
  <2>4. /\ \A k \in DOMAIN txns : k \in DOMAIN txns' /\ txns'[k] = txns[k]
        /\ n \in DOMAIN txns' /\ txns'[n] = t
        /\ DOMAIN txns' = DOMAIN txns \cup {n}
        /\ \A kept : kept = Changes(t.rows) => Recorded' = Recorded \o <<kept>>
    BY <2>2, <2>3, RecordedNext
  <2> HIDE DEF n
  <2>5. Recorded' = Recorded \o CommitOf(g)
    <3>1. Kept(g) = Changes(t.rows) /\ CommitOf(g) = <<Kept(g)>>
      BY <1>8, <1>13, <2>3 DEF CommitOf
    <3> QED
      BY <2>4, <3>1
  <2>6. Has(g)'
    <3>1. \A x \in ToSet(Kept(g)) : x \in ToSet(Changes(txns'[n].rows))
      BY <1>8, <2>3, <2>4
    <3>2. \A x \in ToSet(Kept(g)') : \E k \in DOMAIN txns' : x \in ToSet(Changes(txns'[k].rows))
      BY <1>11, <2>4, <3>1
    <3>3. Told(g)' \subseteq misses'
      BY <1>9, <1>11
    <3> QED
      BY <3>2, <3>3 DEF Has, ToSet, Changes
  <2>7. DoneUpTo(f, g)'
    <3>1. g = d + 1 /\ g <= Len(groups) /\ DoneUpTo(f, d) /\ LogTypes
      BY <1>1, <1>3, <1>4
    <3> QED
      BY <1>6, <1>10, <2>4, <2>5, <2>6, <3>1, DoneNext
  <2>8. \A u, h : IDAt(u, h)' = IDAt(u, h)
    BY DEF IDAt, Size
  <2>9. IDsUpTo(g)'
    <3> SUFFICES ASSUME NEW k \in DOMAIN txns'
                 PROVE  \E u \in 1 .. Len(log'), h \in 1 .. Len(groups') :
                            Holds(u, h)' /\ h <= g /\ txns'[k].id = IDAt(u, h)'
      BY DEF IDsUpTo
    <3>1. CASE k \in DOMAIN txns
      <4>1. PICK u \in 1 .. Len(log), h \in 1 .. Len(groups) :
                   Holds(u, h) /\ h <= d /\ txns[k].id = IDAt(u, h)
        BY <1>3, <3>1 DEF IDsUpTo
      <4>2. h <= g
        BY <1>1, <1>4, <1>6, <4>1
      <4> QED
        BY <1>2, <2>4, <2>8, <3>1, <4>1, <4>2
    <3>2. CASE k = n
      <4>1. txns'[k].id = IDAt(s, g)
        BY <2>3, <2>4, <3>2
      <4>2. g <= g
        BY <1>1
      <4> QED
        BY <1>2, <2>8, <4>1, <4>2
    <3> QED
      BY <2>4, <3>1, <3>2
  <2>10. AtCheckpoint(f)'
    <3>1. checkpoint' # Start'
      <4>1. c.file >= 1 /\ checkpoint'.file = c.file
        BY <2>2 DEF LogInv, PositionsRise
      <4>2. Start'.file = 0
        BY DEF Start
      <4> QED
        BY <4>1, <4>2
    <3>2. /\ s \in 1 .. Len(log') /\ g \in 1 .. Len(groups') /\ Holds(s, g)'
          /\ log'[s + Size(groups'[g])] = c
      BY <1>2
    <3>3. \E u \in 1 .. Len(log'), h \in 1 .. Len(groups') :
              LET e == log'[u + Size(groups'[h])]
              IN  /\ Holds(u, h)' /\ checkpoint' = [file |-> e.file, pos |-> e.pos]
                  /\ DoneUpTo(f, h)' /\ IDsUpTo(h)'
      BY <2>2, <2>7, <2>9, <3>2
    <3> QED
      BY <3>1, <3>3 DEF AtCheckpoint, Size
  <2>11. g \in 0 .. Len(groups')
    BY <1>1
  <2> QED
    BY <1>5, <2>7, <2>9, <2>10, <2>11 DEF Stores, AtStream
<1> QED
  BY <1>12, <1>13

\* What is to be shown of the name in hand and of the misses behind event i.
LEMMA InHandNext ==
    ASSUME UNCHANGED <<log, groups>>, NEW i, at' = i, NEW m, asm'.gtid = m, NEW f,
           (\A k \in 1 .. Len(log) : log[k].type # "gtid") => m = 0,
           \A s \in 1 .. Len(log), g \in 1 .. Len(groups) :
               Within(i, s, g) /\ log[s].type = "gtid" /\ i < s + Size(groups[g]) => m = g,
           \A s \in 1 .. Len(log), g \in 1 .. Len(groups) :
               Within(i, s, g) /\ f < g =>
                   \A j \in 1 .. i - s : ToSet(Missed(groups[g], j, g)) \subseteq misses'
    PROVE  NameInHand' /\ MissesInHand(f)'
<1>1. \A s, g : Within(at, s, g)' <=> Within(i, s, g)
  BY DEF Within, Holds, Size, Is
<1>2. NameInHand'
  BY <1>1 DEF NameInHand, Size
<1>3. MissesInHand(f)'
  <2>1. MissesInHand(f)' <=>
            \A s \in 1 .. Len(log'), g \in 1 .. Len(groups') :
                Within(at, s, g)' /\ f < g =>
                    \A j \in 1 .. at' - s : ToSet(Missed(groups'[g], j, g)) \subseteq misses'
    BY DEF MissesInHand, Missed, ToSet
  <2> QED
    BY <1>1, <2>1
<1> QED
  BY <1>2, <1>3

\* The end of a file.
LEMMA StoreRotate ==
    ASSUME LogInv, NoCreate, at \in Nat, NEW f \in Nat, Stores(f), pc = "streaming",
           UNCHANGED <<log, groups, txns, checkpoint>>, misses \subseteq misses',
           NEW i \in 1 .. Len(log), i = at + 1, at' = i, log[i].type = "rotate",
           asm'.gtid = asm.gtid
    PROVE  Stores(f)'
<1>1. groups \in Seq(Kinds) /\ i \in Nat
  BY DEF LogInv, LogTypes
<1>2. \A s, g : ~ Within(i, s, g)
  <2> SUFFICES ASSUME NEW s, NEW g, Within(i, s, g) PROVE FALSE
    OBVIOUS
  <2>1. Holds(s, g) /\ s <= i /\ i <= s + Size(groups[g]) /\ s \in Nat /\ log[s].type \in Names
    BY DEF Within, Holds
  <2>2. s # i
    BY <2>1 DEF Names
  <2>3. s < i
    BY <1>1, <2>1, <2>2
  <2> QED
    BY <1>1, <2>1, <2>3, HeldEvent
<1>3. NameInHand /\ MissesInHand(f)
  BY DEF Stores, AtStream
<1> DEFINE m == asm.gtid
<1>4. (\A k \in 1 .. Len(log) : log[k].type # "gtid") => m = 0
  BY <1>3 DEF NameInHand
<1> HIDE DEF m
<1>5. NameInHand' /\ MissesInHand(f)'
  BY <1>2, <1>4, InHandNext DEF m
<1> QED
  BY <1>2, <1>5, StoreQuiet

\* The event that names a transaction.
LEMMA StoreName ==
    ASSUME LogInv, NoCreate, at \in Nat, NEW f \in Nat, Stores(f), pc = "streaming",
           UNCHANGED <<log, groups, txns, checkpoint>>, misses \subseteq misses',
           NEW i \in 1 .. Len(log), i = at + 1, at' = i, log[i].type \in Names,
           asm'.gtid = IF log[i].type = "gtid" THEN log[i].group ELSE asm.gtid
    PROVE  Stores(f)'
<1>1. groups \in Seq(Kinds) /\ i \in Nat
  BY DEF LogInv, LogTypes
<1>2. \A s, g : Within(i, s, g) => /\ s = i /\ log[i].group = g /\ s + Size(groups[g]) # i
  <2> SUFFICES ASSUME NEW s, NEW g, Within(i, s, g)
               PROVE  s = i /\ log[i].group = g /\ s + Size(groups[g]) # i
    OBVIOUS
  <2>1. /\ Holds(s, g) /\ s <= i /\ i <= s + Size(groups[g]) /\ s \in Nat /\ log[s].group = g
        /\ g \in 1 .. Len(groups)
    BY DEF Within, Holds
  <2>2. s = i
    <3> SUFFICES ASSUME s < i PROVE FALSE
      BY <1>1, <2>1
    <3> QED
      BY <1>1, <2>1, HeldEvent DEF Names
  <2>3. Size(groups[g]) \in Nat /\ Size(groups[g]) >= 1
    BY <1>1, <2>1, KindIs
  <2> QED
    BY <1>1, <2>1, <2>2, <2>3
<1>3. NameInHand /\ MissesInHand(f)
  BY DEF Stores, AtStream
<1> DEFINE m == IF log[i].type = "gtid" THEN log[i].group ELSE asm.gtid
<1>4. (\A k \in 1 .. Len(log) : log[k].type # "gtid") => m = 0
  BY <1>3 DEF NameInHand
<1>5. \A s \in 1 .. Len(log), g \in 1 .. Len(groups) :
         Within(i, s, g) /\ log[s].type = "gtid" /\ i < s + Size(groups[g]) => m = g
  BY <1>2
<1>6. \A s \in 1 .. Len(log), g \in 1 .. Len(groups) :
         Within(i, s, g) /\ f < g =>
             \A j \in 1 .. i - s : ToSet(Missed(groups[g], j, g)) \subseteq misses'
  <2> SUFFICES ASSUME NEW s \in 1 .. Len(log), NEW g \in 1 .. Len(groups), Within(i, s, g),
                      NEW j \in 1 .. i - s
               PROVE  FALSE
    OBVIOUS
  <2>1. i - s = 0
    BY <1>1, <1>2
  <2> QED
    BY <2>1
<1> HIDE DEF m
<1>7. asm'.gtid = m
  BY DEF m
<1>8. NameInHand' /\ MissesInHand(f)'
  BY <1>4, <1>5, <1>6, <1>7, InHandNext
<1> QED
  BY <1>2, <1>8, StoreQuiet

\* Another event of a transaction.
LEMMA FormInHand ==
    ASSUME LogInv, NamesAgree, at \in Nat, NEW f \in Nat, Stores(f), pc = "streaming",
           UNCHANGED <<log, groups>>,
           NEW i \in 1 .. Len(log), i = at + 1, at' = i,
           NEW s \in 1 .. Len(log), NEW g \in 1 .. Len(groups), Within(i, s, g), s < i,
           NEW n, asm.gtid = n, asm'.gtid = NameAfter(groups[g], i - s, n),
           misses' = misses \cup ToSet(Missed(groups[g], i - s, g))
    PROVE  NameInHand' /\ MissesInHand(f)'
<1>1. groups \in Seq(Kinds) /\ i \in Nat /\ at = i - 1 /\ s <= at /\ s \in Nat
  BY DEF LogInv, LogTypes
<1>2. \A t, h : Within(i, t, h) => t = s /\ h = g
  BY <1>1, HeldOnce
<1>3. Size(groups[g]) \in Nat /\ Holds(s, g) /\ i <= s + Size(groups[g])
  BY <1>1, KindIs DEF Within
<1>4. Within(at, s, g)
  BY <1>1, <1>3 DEF Within
<1>5. NameInHand /\ MissesInHand(f)
  BY DEF Stores, AtStream
<1> DEFINE m == NameAfter(groups[g], i - s, n)
<1>6. (\A k \in 1 .. Len(log) : log[k].type # "gtid") => m = 0
  <2>1. (\A k \in 1 .. Len(log) : log[k].type # "gtid") => n = 0
    BY <1>5 DEF NameInHand
  <2>2. m = 0 \/ m = n
    BY DEF NameAfter
  <2> QED
    BY <2>1, <2>2
<1>7. log[s].type = "gtid" /\ i < s + Size(groups[g]) => m = g
  <2> SUFFICES ASSUME log[s].type = "gtid", i < s + Size(groups[g]) PROVE m = g
    OBVIOUS
  <2>1. at < s + Size(groups[g]) /\ i - s # Size(groups[g])
    BY <1>1, <1>3
  <2>2. n = g
    BY <1>4, <1>5, <2>1 DEF NameInHand
  <2> QED
    BY <2>1, <2>2 DEF NameAfter
<1>8. f < g => \A j \in 1 .. i - s : ToSet(Missed(groups[g], j, g)) \subseteq misses'
  <2> SUFFICES ASSUME f < g, NEW j \in 1 .. i - s
               PROVE  ToSet(Missed(groups[g], j, g)) \subseteq misses'
    OBVIOUS
  <2>1. CASE j = i - s
    BY <2>1
  <2>2. CASE j # i - s
    <3>1. j \in 1 .. at - s
      BY <1>1, <2>2
    <3>2. ToSet(Missed(groups[g], j, g)) \subseteq misses
      BY <1>4, <1>5, <3>1 DEF MissesInHand
    <3> QED
      BY <3>2
  <2> QED
    BY <2>1, <2>2
<1> HIDE DEF m
<1>9. asm'.gtid = m
  BY DEF m
<1>10. /\ \A t \in 1 .. Len(log), h \in 1 .. Len(groups) :
             Within(i, t, h) /\ log[t].type = "gtid" /\ i < t + Size(groups[h]) => m = h
       /\ \A t \in 1 .. Len(log), h \in 1 .. Len(groups) :
             Within(i, t, h) /\ f < h =>
                 \A j \in 1 .. i - t : ToSet(Missed(groups[h], j, h)) \subseteq misses'
  BY <1>2, <1>7, <1>8
<1> QED
  BY <1>6, <1>9, <1>10, InHandNext

\* The name a transaction is stored under is its own.
LEMMA NameIsTheirs ==
    ASSUME LogInv, NamesAgree, NameInHand, at \in Nat,
           NEW s \in 1 .. Len(log), NEW g \in 1 .. Len(groups), NEW i \in 1 .. Len(log),
           i = at + 1, Holds(s, g), s + Size(groups[g]) = i, s < i, NEW n, asm.gtid = n
    PROVE  IDOf(log[i].file, n, log[i]) = IDAt(s, g)
<1>1. groups \in Seq(Kinds) /\ i \in Nat /\ at = i - 1 /\ s <= at /\ s \in Nat
  BY DEF LogInv, LogTypes
<1>2. IDAt(s, g) = IF log[s].type = "gtid" THEN [gtid |-> g, file |-> 0, pos |-> 0]
                   ELSE [gtid |-> 0, file |-> log[i].file, pos |-> log[i].pos]
  BY DEF IDAt
<1>3. CASE log[s].type = "gtid"
  <2>1. Within(at, s, g) /\ at < s + Size(groups[g])
    BY <1>1 DEF Within
  <2>2. n = g /\ g # 0
    BY <1>3, <2>1 DEF NameInHand
  <2> QED
    BY <1>2, <1>3, <2>2 DEF IDOf
<1>4. CASE log[s].type # "gtid"
  <2>1. log[s].type \in Names
    BY DEF Holds
  <2>2. \A k \in 1 .. Len(log) : log[k].type # "gtid"
    BY <1>4, <2>1 DEF NamesAgree, Names
  <2>3. n = 0
    BY <2>2 DEF NameInHand
  <2> QED
    BY <1>2, <1>4, <2>3 DEF IDOf
<1> QED
  BY <1>3, <1>4

\* The stream takes an event: the store has what it should afterwards.
LEMMA StoreHandle ==
    ASSUME HandInv, NoCreate, StoreInv, HandleEvent
    PROVE  StoreInv'
<1> DEFINE i == at + 1
           e == log[i]
           r == Handle(asm, e)
<1>1. /\ LogInv /\ AsmInv /\ txns \in Seq(Txn) /\ at \in Nat
      /\ log \in Seq(LogEvent) /\ groups \in Seq(Kinds) /\ Len(log) \in Nat
      /\ Len(groups) \in Nat /\ LogTypes /\ WholeTransactions
  BY DEF HandInv, LogInv, LogTypes
<1>2. /\ pc = "streaming" /\ at < Len(log) /\ e.type # "xa"
      /\ asm' = r.asm /\ at' = i /\ misses' = misses \cup ToSet(r.miss)
      /\ IF r.txn = <<>> \/ Wanted(r.txn[1].rows) = <<>>
         THEN UNCHANGED <<txns, checkpoint>>
         ELSE /\ AppendTransaction(r.txn[1])
              /\ checkpoint' = [file |-> r.asm.logFile, pos |-> e.pos]
      /\ UNCHANGED <<groups, log, drops, pc, skipped>>
  BY DEF HandleEvent, Reading, NextEvent
<1>3. i \in 1 .. Len(log) /\ i - 1 = at /\ i = at + 1
  BY <1>1, <1>2
<1>4. PICK n, query, rows : /\ n \in Nat /\ asm = Holding(NextFile(at), n, query, rows)
                            /\ Hand(at, query, rows)
  BY <1>1, <1>2 DEF AsmInv
<1>5. asm.gtid = n
  BY <1>4 DEF Holding
<1>6. NamesAgree /\ Placed /\ Ordered /\ NamesAgree' /\ Placed' /\ Ordered'
  BY <1>1, <1>2, OrderFrozen DEF StoreInv
<1>7. PICK f \in 0 .. Len(groups) : skipped = 1 .. f /\ Stores(f)
  BY DEF StoreInv
<1>8. f \in Nat
  BY <1>1
<1>9. /\ Hand(i - 1, query, rows) /\ asm = Holding(NextFile(i - 1), n, query, rows)
  BY <1>3, <1>4
<1>10. r.miss = <<>> => ToSet(r.miss) = {}
  BY DEF ToSet
<1>11. e = log[i] /\ r = Handle(Holding(NextFile(i - 1), n, query, rows), log[i])
  BY <1>9
<1> HIDE DEF r, e, i
<1>12. CASE e.type = "rotate"
  <2>1. r = Result(Holding(NextFile(i), n, query, rows), <<>>, <<>>)
    BY <1>1, <1>3, <1>9, <1>11, <1>12, HandledRotate
  <2>2. /\ r.txn = <<>> /\ r.miss = <<>> /\ r.asm = Holding(NextFile(i), n, query, rows)
    BY <2>1, ResultParts
  <2>3. asm'.gtid = asm.gtid
    BY <1>2, <1>5, <2>2 DEF Holding
  <2>4. UNCHANGED <<log, groups, txns, checkpoint>> /\ misses \subseteq misses'
    BY <1>2, <2>2
  <2>5. Stores(f)'
    BY <1>1, <1>2, <1>3, <1>7, <1>8, <1>11, <1>12, <2>3, <2>4, StoreRotate
  <2> QED
    BY <1>2, <1>6, <1>7, <2>5 DEF StoreInv
<1>13. CASE e.type \in Names
  <2> DEFINE m == IF log[i].type = "gtid" THEN log[i].group ELSE n
  <2>1. r = Result(Holding(NextFile(i), m, query, rows), <<>>, <<>>)
    BY <1>1, <1>3, <1>9, <1>11, <1>13, HandledName
  <2> HIDE DEF m
  <2>2. /\ r.txn = <<>> /\ r.miss = <<>> /\ r.asm = Holding(NextFile(i), m, query, rows)
    BY <2>1, ResultParts
  <2>3. asm'.gtid = IF log[i].type = "gtid" THEN log[i].group ELSE asm.gtid
    <3>1. asm'.gtid = m
      BY <1>2, <2>2 DEF Holding
    <3> QED
      BY <1>5, <3>1 DEF m
  <2>4. UNCHANGED <<log, groups, txns, checkpoint>> /\ misses \subseteq misses'
    BY <1>2, <2>2
  <2>5. Stores(f)'
    BY <1>1, <1>2, <1>3, <1>7, <1>8, <1>11, <1>13, <2>3, <2>4, StoreName
  <2> QED
    BY <1>2, <1>6, <1>7, <2>5 DEF StoreInv
<1>14. CASE e.type # "rotate" /\ e.type \notin Names
  <2>1. PICK s \in 1 .. Len(log), g \in 1 .. Len(groups) : Within(i, s, g)
    BY <1>1, <1>3, <1>11, <1>14 DEF WholeTransactions
  <2>2. /\ Holds(s, g) /\ s <= i /\ i <= s + Size(groups[g]) /\ log[s].type \in Names
    BY <2>1 DEF Within, Holds
  <2>3. s # i /\ i \in Nat /\ s \in Nat
    BY <1>3, <1>11, <1>14, <2>2
  <2>4. s < i
    BY <2>2, <2>3
  <2> DEFINE kind == groups[g]
             j == i - s
             d == IDOf(log[i].file, n, log[i])
             given == GivenOut(kind, j, g)
             out == WantedOut(kind, j, g)
  <2>5. /\ j \in 1 .. Size(kind) /\ kind \in DOMAIN Forms
        /\ r = Result(Holding(NextFile(i), NameAfter(kind, j, n), Announced(kind, j),
                              InHand(kind, j, g)),
                      Given(given, d), Missed(kind, j, g))
        /\ NextFile(i) = log[i].file
    BY <1>1, <1>2, <1>3, <1>9, <1>11, <2>1, <2>4, HandledForm
  <2>6. kind # "create"
    BY <1>1 DEF NoCreate
  <2>7. /\ r.txn = Given(given, d) /\ r.miss = Missed(kind, j, g)
        /\ r.asm.gtid = NameAfter(kind, j, n) /\ r.asm.logFile = log[i].file
    <3> DEFINE a == Holding(NextFile(i), NameAfter(kind, j, n), Announced(kind, j), InHand(kind, j, g))
    <3>1. a.gtid = NameAfter(kind, j, n) /\ a.logFile = log[i].file
      BY <2>5 DEF Holding
    <3> HIDE DEF a, given, d
    <3>2. r.asm = a /\ r.txn = Given(given, d) /\ r.miss = Missed(kind, j, g)
      BY <2>5, ResultParts DEF a
    <3> QED
      BY <3>1, <3>2
  <2>8. NameInHand' /\ MissesInHand(f)'
    <3>1. /\ asm'.gtid = NameAfter(groups[g], i - s, n)
          /\ misses' = misses \cup ToSet(Missed(groups[g], i - s, g))
      BY <1>2, <2>7
    <3> QED
      BY <1>1, <1>2, <1>3, <1>5, <1>6, <1>7, <1>8, <2>1, <2>4, <3>1, FormInHand
  <2>9. misses \subseteq misses'
    BY <1>2
  <2>10. CASE j < Size(kind)
    <3>1. given = <<>>
      BY <2>5, <2>6, <2>10, GivenAtTheEnd
    <3> HIDE DEF given, d
    <3>2. txns' = txns /\ checkpoint' = checkpoint
      BY <1>2, <2>7, <3>1 DEF Given
    <3>3. \A t, h : Within(i, t, h) => t + Size(groups[h]) # i
      <4>1. \A t, h : Within(i, t, h) => t = s /\ h = g
        BY <1>1, <2>1, <2>3, HeldOnce
      <4>2. Size(kind) \in Nat
        BY <2>5, SizeType
      <4>3. s + Size(kind) # i
        BY <2>3, <2>10, <4>2
      <4> QED
        BY <4>1, <4>3
    <3>4. Stores(f)'
      BY <1>1, <1>2, <1>3, <1>7, <1>8, <2>8, <2>9, <3>2, <3>3, StoreQuiet
    <3> QED
      BY <1>2, <1>6, <1>7, <3>4 DEF StoreInv
  <2>11. CASE j = Size(kind)
    <3>1. Size(kind) \in Nat /\ s + Size(groups[g]) = i
      BY <2>3, <2>5, <2>11, SizeType
    <3>2. Wanted(given) = out /\ out = WantedOut(groups[g], Size(groups[g]), g)
      BY <2>11, WantedIs
    <3>3. d = IDAt(s, g)
      <4>1. NameInHand
        BY <1>2, <1>7 DEF Stores, AtStream
      <4> QED
        BY <1>1, <1>3, <1>5, <1>6, <2>2, <2>4, <3>1, <4>1, NameIsTheirs
    <3>4. log[i].file \in Nat /\ log[i].pos \in Nat
      BY <1>1, <1>3, EventIsWhole
    <3>5. d \in [gtid : Nat, file : Nat, pos : Nat]
      BY <1>4, <3>4 DEF IDOf
    <3> DEFINE t == [id |-> d, rows |-> given]
    <3>6. /\ [t EXCEPT !.rows = Wanted(@)] = [id |-> d, rows |-> out]
          /\ [t EXCEPT !.rows = Wanted(@)] \in Txn
          /\ t.id = d /\ Wanted(t.rows) = out
      <4>1. j \in Nat /\ g \in Nat
        BY <2>5
      <4> HIDE DEF d, j, kind
      <4> QED
        BY <2>5, <3>5, <4>1, TxnIs
    <3>7. [id |-> IDAt(s, g), rows |-> out] \in Txn
      BY <3>3, <3>6
    <3> HIDE DEF given, d, out, t
    <3>8. Ends(s, g, out)
      <4>1. CASE out = <<>>
        <5>1. txns' = txns /\ checkpoint' = checkpoint
          <6>1. CASE given = <<>>
            BY <1>2, <2>7, <6>1 DEF Given
          <6>2. CASE given # <<>>
            <7>1. r.txn[1] = t
              BY <2>7, <6>2 DEF Given, t
            <7> QED
              BY <1>2, <3>6, <4>1, <7>1
          <6> QED
            BY <6>1, <6>2
        <5> QED
          BY <4>1, <5>1 DEF Ends
      <4>2. CASE out # <<>>
        <5>1. given # <<>>
          BY <3>2, <4>2, WantedFew
        <5>2. r.txn[1] = t /\ r.txn # <<>>
          BY <2>7, <5>1 DEF Given, t
        <5>3. AppendTransaction(t) /\ checkpoint' = [file |-> r.asm.logFile, pos |-> e.pos]
          BY <1>2, <3>6, <4>2, <5>2
        <5>4. txns' = IF t.id \in Stored THEN txns ELSE Append(txns, [t EXCEPT !.rows = Wanted(@)])
          BY <5>3 DEF AppendTransaction
        <5>5. txns' = IF IDAt(s, g) \in Stored THEN txns
                      ELSE Append(txns, [id |-> IDAt(s, g), rows |-> out])
          BY <3>3, <3>6, <5>4
        <5>6. checkpoint' = [file |-> log[i].file, pos |-> log[i].pos]
          BY <1>11, <2>7, <5>3
        <5> QED
          BY <3>1, <4>2, <5>5, <5>6 DEF Ends
      <4> QED
        BY <4>1, <4>2
    <3>9. Stores(f)'
      BY <1>1, <1>2, <1>3, <1>6, <1>7, <1>8, <2>2, <2>8, <2>9, <3>1, <3>2, <3>7, <3>8, StoreEnd
    <3> QED
      BY <1>2, <1>6, <1>7, <3>9 DEF StoreInv
  <2>12. Size(kind) \in Nat
    BY <2>5, SizeType
  <2> HIDE DEF j, kind
  <2> QED
    BY <2>5, <2>10, <2>11, <2>12
<1> QED
  BY <1>12, <1>13, <1>14

----------------------------------------------------------------------------
(***************************************************************************)
(* The store keeps the promise                                             *)
(***************************************************************************)
\* What an event of a transaction misses is recorded of it.
LEMMA MissedIs ==
    ASSUME NEW g, NEW j
    PROVE  ToSet(Missed(groups[g], j, g)) \subseteq Told(g)
<1> DEFINE kind == groups[g]
<1>1. \/ kind \in {"unreadable", "compressed"}
         /\ Missed(kind, j, g) = <<[group |-> g, stmt |-> 2]>>
      \/ Missed(kind, j, g) = <<>>
  BY DEF Missed
<1> QED
  BY <1>1 DEF Told, ToldOf, ToSet

\* At the start the store has nothing and owes nothing.
LEMMA StoreInit == Init => StoreInv
<1> SUFFICES ASSUME Init PROVE StoreInv
  OBVIOUS
<1>1. /\ log = <<>> /\ groups = <<>> /\ Len(log) = 0 /\ Len(groups) = 0 /\ txns = <<>>
      /\ checkpoint = Start /\ skipped = {} /\ pc = "detached"
  BY DEF Init
<1>2. NamesAgree /\ Placed /\ Ordered
  BY <1>1 DEF NamesAgree, Placed, Ordered
<1>3. Stores(0)
  BY <1>1 DEF Stores, AtCheckpoint
<1>4. 0 \in 0 .. Len(groups) /\ skipped = 1 .. 0
  BY <1>1
<1> QED
  BY <1>2, <1>3, <1>4 DEF StoreInv

\* The transactions up to the one that ends at a position are those the log
\* has up to there.
LEMMA SpanAt ==
    ASSUME LogInv, Ordered, NEW s \in 1 .. Len(log), NEW d \in 1 .. Len(groups), Holds(s, d)
    PROVE  Span(d, s + Size(groups[d]))
<1>1. groups \in Seq(Kinds) /\ Len(log) \in Nat /\ Len(groups) \in Nat
  BY DEF LogInv, LogTypes
<1>2. \A h \in 1 .. Len(groups) : Size(groups[h]) \in Nat /\ Size(groups[h]) >= 1
  BY <1>1, KindIs
<1> SUFFICES ASSUME NEW t \in 1 .. Len(log), NEW h \in 1 .. Len(groups), Holds(t, h)
             PROVE  t + Size(groups[h]) <= s + Size(groups[d]) <=> h <= d
  BY DEF Span
<1>3. Within(s, s, d) /\ Within(t, t, h)
  BY <1>2 DEF Within
<1>4. CASE t = s
  <2>1. h = d
    BY <1>1, <1>3, <1>4, HeldOnce
  <2> QED
    BY <1>1, <1>2, <1>4, <2>1
<1>5. CASE t < s
  <2>1. h < d
    BY <1>5 DEF Ordered
  <2>2. t + Size(groups[h]) < s
    <3> SUFFICES ASSUME ~ (t + Size(groups[h]) < s) PROVE FALSE
      OBVIOUS
    <3>1. Within(s, t, h)
      <4>1. s <= t + Size(groups[h]) /\ t <= s
        BY <1>2, <1>5
      <4> QED
        BY <4>1 DEF Within
    <3>2. s \in Nat
      OBVIOUS
    <3>3. s = t
      BY <1>1, <1>3, <3>1, <3>2, HeldOnce
    <3> QED
      BY <1>5, <3>3
  <2> QED
    BY <1>1, <1>2, <2>1, <2>2
<1>6. CASE s < t
  <2>1. d < h
    BY <1>6 DEF Ordered
  <2>2. s + Size(groups[d]) < t
    <3> SUFFICES ASSUME ~ (s + Size(groups[d]) < t) PROVE FALSE
      OBVIOUS
    <3>1. Within(t, s, d)
      <4>1. t <= s + Size(groups[d]) /\ s <= t
        BY <1>2, <1>6
      <4> QED
        BY <4>1 DEF Within
    <3>2. t \in Nat
      OBVIOUS
    <3>3. s = t
      BY <1>1, <1>3, <3>1, <3>2, HeldOnce
    <3> QED
      BY <1>6, <3>3
  <2> QED
    BY <1>1, <1>2, <2>1, <2>2
<1> QED
  BY <1>4, <1>5, <1>6

\* An attempt begins where the store is, or behind all there is.
LEMMA StoreAttach ==
    ASSUME HandInv, NoCreate, StoreInv, Attach
    PROVE  StoreInv'
<1> DEFINE from == IF checkpoint = Start THEN EndOfLog ELSE checkpoint
<1>1. /\ LogInv /\ LogTypes /\ groups \in Seq(Kinds) /\ Len(log) \in Nat /\ Len(groups) \in Nat
      /\ DOMAIN groups = 1 .. Len(groups) /\ txns \in Seq(Txn)
  BY DEF HandInv, LogInv, LogTypes
<1>2. /\ at' = UpTo(from) /\ asm' = Fresh(from.file) /\ pc' = "streaming"
      /\ skipped' = IF checkpoint = Start THEN DOMAIN groups ELSE skipped
      /\ UNCHANGED <<groups, log, txns, misses, checkpoint>>
  BY DEF Attach
<1>3. NamesAgree /\ Placed /\ Ordered /\ NamesAgree' /\ Placed' /\ Ordered'
  BY <1>1, <1>2, OrderFrozen DEF StoreInv
<1>4. Grows /\ \A d, i : Span(d, i)' <=> Span(d, i)
  BY <1>1, <1>2, OrderFrozen
<1>5. PICK f \in 0 .. Len(groups) : skipped = 1 .. f /\ Stores(f)
  BY DEF StoreInv
<1>6. asm'.gtid = 0
  BY <1>2 DEF Fresh
<1>7. CASE checkpoint = Start
  <2>1. PICK n, i : n = Len(groups) /\ i = Len(log)
    OBVIOUS
  <2>2. at' = i /\ n \in 0 .. Len(groups) /\ n \in 0 .. Len(groups') /\ n \in Nat
    BY <1>1, <1>2, <1>7, <2>1, UpToEnd
  <2>3. txns' = <<>> /\ checkpoint' = Start
    BY <1>2, <1>5, <1>7 DEF Stores, AtCheckpoint
  <2>4. AtCheckpoint(n)'
    BY <2>3 DEF AtCheckpoint, Start
  <2>5. Span(n, at)'
    <3>1. Span(n, i)
      BY <1>1, <2>1 DEF Span, Holds
    <3>2. Span(n, i)'
      BY <1>4, <3>1
    <3> QED
      BY <2>2, <3>2 DEF Span
  <2>6. DoneUpTo(n, n)'
    <3>1. Recorded' = <<>>
      BY <2>3 DEF Recorded
    <3>2. PICK u : u = CommittedUpTo(n)
      OBVIOUS
    <3>3. CommittedUpTo(n)' = u
      BY <1>1, <1>2, <1>4, <2>2, <3>2, CommittedStays
    <3>4. u \o <<>> = u
      <4>1. PICK c : /\ \A g \in 1 .. Len(groups) : c[g] \in Seq(Seq(Change))
                     /\ CommittedUpTo(n) = UpToNth(c, n)
        BY <1>1, <2>2, CommittedIs
      <4>2. PICK S : \A g \in 1 .. Len(groups) : c[g] \in Seq(S)
        BY <4>1
      <4>3. u \in Seq(S)
        BY <1>1, <2>2, <3>2, <4>1, <4>2, UpToType
      <4> QED
        BY <4>3, ConcatEmptySeq
    <3>5. CommittedUpTo(n)' = CommittedUpTo(n)' \o Recorded'
      BY <3>1, <3>3, <3>4
    <3>6. \A g \in n + 1 .. n : FALSE
      BY <2>2
    <3>7. n <= n
      BY <2>2
    <3> QED
      BY <2>2, <3>5, <3>6, <3>7 DEF DoneUpTo
  <2>7. IDsUpTo(n)'
    BY <2>3 DEF IDsUpTo
  <2>8. NameInHand' /\ MissesInHand(n)'
    <3>1. \A s \in 1 .. Len(log), g \in 1 .. Len(groups) :
             Within(i, s, g) => ~ (i < s + Size(groups[g]))
      <4> SUFFICES ASSUME NEW s \in 1 .. Len(log), NEW g \in 1 .. Len(groups), Within(i, s, g)
                   PROVE  ~ (i < s + Size(groups[g]))
        OBVIOUS
      <4>1. s + Size(groups[g]) <= Len(log) /\ Size(groups[g]) \in Nat
        BY <1>1, KindIs DEF Within, Holds
      <4> QED
        BY <1>1, <2>1, <4>1
    <3>2. \A g \in 1 .. Len(groups) : ~ (n < g)
      BY <1>1, <2>1
    <3>3. UNCHANGED <<log, groups>>
      BY <1>2
    <3>4. PICK m : asm'.gtid = m /\ m = 0
      BY <1>6
    <3> QED
      BY <2>2, <3>1, <3>2, <3>3, <3>4, InHandNext
  <2>9. skipped' = 1 .. n
    BY <1>1, <1>2, <1>7, <2>1
  <2>10. Stores(n)'
    BY <2>2, <2>4, <2>5, <2>6, <2>7, <2>8 DEF Stores, AtStream
  <2> QED
    BY <1>3, <2>2, <2>9, <2>10 DEF StoreInv
<1>8. CASE checkpoint # Start
  <2>1. PICK s \in 1 .. Len(log), d \in 1 .. Len(groups) :
               LET c == log[s + Size(groups[d])]
               IN  /\ Holds(s, d) /\ checkpoint = [file |-> c.file, pos |-> c.pos]
                   /\ DoneUpTo(f, d) /\ IDsUpTo(d)
    BY <1>5, <1>8 DEF Stores, AtCheckpoint
  <2>2. PICK i : i = s + Size(groups[d])
    OBVIOUS
  <2>3. /\ Holds(s, d) /\ checkpoint = [file |-> log[i].file, pos |-> log[i].pos]
        /\ DoneUpTo(f, d) /\ IDsUpTo(d)
    BY <2>1, <2>2
  <2>4. Size(groups[d]) \in Nat /\ Size(groups[d]) >= 1 /\ groups[d] \in DOMAIN Forms
    BY <1>1, KindIs
  <2>5. i \in 1 .. Len(log) /\ i \in Nat /\ s < i
    <3>1. s + Size(groups[d]) <= Len(log)
      BY <2>3 DEF Holds
    <3>2. PICK z, l : z = Size(groups[d]) /\ l = Len(log)
      OBVIOUS
    <3>3. z \in Nat /\ z >= 1 /\ l \in Nat /\ s \in 1 .. l /\ s + z <= l /\ i = s + z
      BY <1>1, <2>2, <2>4, <3>1, <3>2
    <3>4. i \in 1 .. l /\ i \in Nat /\ s < i
      BY <3>3
    <3> QED
      BY <3>2, <3>4
  <2>6. Span(d, i)
    BY <1>1, <1>3, <2>2, <2>3, SpanAt
  <2>7. Within(i, s, d)
    BY <2>2, <2>3, <2>4, <2>5 DEF Within
  <2>8. i - s = Size(groups[d]) /\ ~ (i < s + Size(groups[d]))
    BY <2>2, <2>4
  <2>9. at' = i
    <3>1. from.file = log[i].file /\ from.pos = log[i].pos
      BY <1>8, <2>3
    <3> HIDE DEF from
    <3> QED
      BY <1>1, <1>2, <2>5, <3>1, UpToEvent
  <2>10. f \in Nat /\ f <= d
    BY <1>1, <2>3 DEF DoneUpTo
  <2>11. AtCheckpoint(f)' /\ DoneUpTo(f, d)' /\ IDsUpTo(d)'
    BY <1>1, <1>2, <1>4, <1>5, <2>3, <2>10, CheckpointStays, DoneStays, IDsStay DEF Stores
  <2>12. Span(d, at)'
    <3>1. Span(d, i)'
      BY <1>4, <2>6
    <3> QED
      BY <2>9, <3>1 DEF Span
  <2>13. \A t, h : Within(i, t, h) => t = s /\ h = d
    BY <1>1, <2>5, <2>7, HeldOnce
  <2>14. f < d => \A j \in 1 .. i - s : ToSet(Missed(groups[d], j, d)) \subseteq misses'
    <3> SUFFICES ASSUME f < d, NEW j \in 1 .. i - s
                 PROVE  ToSet(Missed(groups[d], j, d)) \subseteq misses'
      OBVIOUS
    <3>1. Has(d)
      <4>1. d \in f + 1 .. d
        BY <2>10
      <4> QED
        BY <2>3, <4>1 DEF DoneUpTo
    <3>2. ToSet(Missed(groups[d], j, d)) \subseteq Told(d)
      BY <2>4, MissedIs
    <3> QED
      BY <1>2, <3>1, <3>2 DEF Has
  <2>15. NameInHand' /\ MissesInHand(f)'
    <3>1. /\ \A t \in 1 .. Len(log), h \in 1 .. Len(groups) :
                Within(i, t, h) => ~ (i < t + Size(groups[h]))
          /\ \A t \in 1 .. Len(log), h \in 1 .. Len(groups) :
                Within(i, t, h) /\ f < h =>
                    \A j \in 1 .. i - t : ToSet(Missed(groups[h], j, h)) \subseteq misses'
      BY <2>8, <2>13, <2>14
    <3>2. UNCHANGED <<log, groups>>
      BY <1>2
    <3>3. PICK m : asm'.gtid = m /\ m = 0
      BY <1>6
    <3> QED
      BY <2>9, <3>1, <3>2, <3>3, InHandNext
  <2>16. d \in 0 .. Len(groups') /\ f \in 0 .. Len(groups')
    BY <1>1, <1>2
  <2>17. Stores(f)'
    BY <2>11, <2>12, <2>15, <2>16 DEF Stores, AtStream
  <2>18. skipped' = 1 .. f
    BY <1>2, <1>5, <1>8
  <2> QED
    BY <1>3, <2>16, <2>17, <2>18 DEF StoreInv
<1> QED
  BY <1>7, <1>8

\* An attempt that ends leaves the store as it is.
LEMMA StoreStops ==
    ASSUME HandInv, StoreInv, UNCHANGED <<groups, log, txns, checkpoint, skipped>>,
           misses \subseteq misses', pc' # "streaming"
    PROVE  StoreInv'
<1>1. LogInv /\ LogTypes /\ Len(groups) \in Nat
  BY DEF HandInv, LogInv, LogTypes
<1>2. Grows /\ NamesAgree' /\ Placed' /\ Ordered'
  BY <1>1, OrderFrozen DEF StoreInv
<1>3. PICK f \in 0 .. Len(groups) : skipped = 1 .. f /\ Stores(f)
  BY DEF StoreInv
<1>4. f \in Nat /\ f \in 0 .. Len(groups') /\ skipped' = 1 .. f
  BY <1>1, <1>3
<1>5. AtCheckpoint(f)'
  BY <1>1, <1>2, <1>3, <1>4, CheckpointStays DEF Stores
<1>6. Stores(f)'
  BY <1>5 DEF Stores
<1> QED
  BY <1>2, <1>4, <1>6 DEF StoreInv

\* A server that names them all in one way goes on doing so.
LEMMA StoreWrite ==
    ASSUME HandInv, StoreInv, MixedNaming = FALSE,
           NEW kind \in Kinds, NEW named \in Naming, Write(kind, named)
    PROVE  StoreInv'
<1>1. LogInv /\ LogTypes /\ DOMAIN log = 1 .. Len(log)
  BY DEF HandInv, LogInv, LogTypes
<1>2. PICK type : type = IF named THEN "gtid" ELSE "anonymous"
  OBVIOUS
<1>3. LogInv' /\ Grows /\ OneMore(type)
  BY <1>1, <1>2, WriteStep
<1>4. NamedAlready \subseteq {named}
  BY DEF Write
<1>5. \A i \in 1 .. Len(log) : log[i].type \in Names => log[i].type = type
  <2> SUFFICES ASSUME NEW i \in 1 .. Len(log), log[i].type \in Names
               PROVE  log[i].type = type
    OBVIOUS
  <2>1. (log[i].type = "gtid") \in NamedAlready
    BY <1>1 DEF NamedAlready, Names
  <2>2. (log[i].type = "gtid") = named
    BY <1>4, <2>1
  <2>3. CASE named
    BY <1>2, <2>2, <2>3
  <2>4. CASE ~ named
    <3>1. log[i].type # "gtid"
      BY <2>2, <2>4
    <3> QED
      BY <1>2, <2>4, <3>1 DEF Names
  <2> QED
    BY <2>3, <2>4
<1>6. NamesAgree /\ Placed /\ Ordered
  BY DEF StoreInv
<1>7. /\ NamesAgree' /\ Placed' /\ Ordered'
      /\ \A d \in 0 .. Len(groups), i \in 0 .. Len(log) : Span(d, i) => Span(d, i)'
  BY <1>1, <1>3, <1>5, <1>6, OrderStays
<1>8. UNCHANGED <<pc, at, asm, txns, misses, checkpoint, skipped>>
  BY DEF Write
<1> QED
  BY <1>3, <1>7, <1>8, StoreServer

\* Between two attempts the stream is nowhere.
Rests == pc # "streaming" => at = 0

\* It holds throughout.
LEMMA RestsNext == Rests /\ [Next]_vars => Rests'
<1> SUFFICES ASSUME Rests, [Next]_vars PROVE Rests'
  OBVIOUS
<1>1. ASSUME NEW kind \in Kinds, NEW named \in Naming, Write(kind, named) PROVE Rests'
  BY <1>1 DEF Write, Rests
<1>2. CASE Rotate
  BY <1>2 DEF Rotate, Rests
<1>3. CASE Attach
  BY <1>3 DEF Attach, Rests
<1>4. CASE HandleEvent
  BY <1>4 DEF HandleEvent, Reading, Rests
<1>5. CASE StreamFails \/ StoreFails
  BY <1>5 DEF StreamFails, StoreFails, Drop, Rests
<1>6. CASE HandleXA
  BY <1>6 DEF HandleXA, Rests
<1>7. CASE UNCHANGED vars
  BY <1>7 DEF vars, Rests
<1> QED
  BY <1>1, <1>2, <1>3, <1>4, <1>5, <1>6, <1>7 DEF Next

\* Every step keeps what is known of the store.
LEMMA StoreNext ==
    ASSUME NoCreate, MixedNaming = FALSE, HandInv, StoreInv, [Next]_vars
    PROVE  StoreInv'
<1>1. LogInv /\ LogTypes
  BY DEF HandInv, LogInv
<1>2. ASSUME NEW kind \in Kinds, NEW named \in Naming, Write(kind, named) PROVE StoreInv'
  BY <1>2, StoreWrite
<1>3. CASE Rotate
  <2>1. /\ LogInv' /\ Grows /\ groups' = groups
        /\ \A t \in 1 .. Len(log') : t > Len(log) => log'[t].type \notin Names
    BY <1>1, <1>3, RotateStep
  <2>2. NamesAgree /\ Placed /\ Ordered
    BY DEF StoreInv
  <2>3. /\ NamesAgree' /\ Placed' /\ Ordered'
        /\ \A d \in 0 .. Len(groups), i \in 0 .. Len(log) : Span(d, i) => Span(d, i)'
    BY <1>1, <2>1, <2>2, OrderStays
  <2>4. UNCHANGED <<pc, at, asm, txns, misses, checkpoint, skipped>>
    BY <1>3 DEF Rotate
  <2> QED
    BY <2>1, <2>3, <2>4, StoreServer
<1>4. CASE Attach
  BY <1>4, StoreAttach
<1>5. CASE HandleEvent
  BY <1>5, StoreHandle
<1>6. CASE StreamFails \/ StoreFails
  BY <1>6, StoreStops DEF StreamFails, StoreFails, Drop
<1>7. CASE HandleXA
  BY <1>7, StoreStops DEF HandleXA
<1>8. CASE UNCHANGED vars
  <2>1. UNCHANGED <<log, groups, pc, at, asm, txns, misses, checkpoint, skipped>>
    BY <1>8 DEF vars
  <2>2. /\ Grows /\ NamesAgree' /\ Placed' /\ Ordered'
        /\ \A d, i : Span(d, i)' <=> Span(d, i)
    BY <1>1, <2>1, OrderFrozen DEF StoreInv
  <2>3. LogInv'
    BY <1>1, <2>1, Frozen
  <2> QED
    BY <2>1, <2>2, <2>3, StoreServer
<1> QED
  BY <1>2, <1>3, <1>4, <1>5, <1>6, <1>7, <1>8 DEF Next

AllInv == HandInv /\ Rests /\ StoreInv

\* What is known of the log, of the assembler and of the store holds of every
\* state, if the server names its transactions all in one way and logs no
\* CREATE TABLE ... SELECT as one of them.
THEOREM StoreInvariance ==
    ASSUME NoCreate, MixedNaming = FALSE
    PROVE  Spec => []AllInv
<1>1. Init => AllInv
  <2>1. Init => Rests
    BY DEF Init, Rests
  <2> QED
    BY <2>1, HandInit, StoreInit DEF AllInv
<1>2. AllInv /\ [Next]_vars => AllInv'
  BY HandNext, RestsNext, StoreNext DEF AllInv
<1> QED
  BY <1>1, <1>2, PTL DEF Spec

\* A transaction the log holds is passed when the stream, or the checkpoint,
\* is behind its last event.
LEMMA PassedIs ==
    ASSUME LogInv, NEW s, NEW g, Holds(s, g), Passed(g)
    PROVE  \E i \in 1 .. Len(log) : /\ i = s + Size(groups[g])
                                    /\ i <= at \/ i <= UpTo(checkpoint)
<1>1. groups \in Seq(Kinds) /\ Len(log) \in Nat /\ DOMAIN log = 1 .. Len(log)
  BY DEF LogInv, LogTypes
<1>2. s \in 1 .. Len(log) /\ g \in 1 .. Len(groups) /\ s + Size(groups[g]) <= Len(log)
  BY DEF Holds
<1>3. Size(groups[g]) \in Nat /\ Size(groups[g]) >= 1
  BY <1>1, <1>2, KindIs
<1>4. PICK i : i = s + Size(groups[g])
  OBVIOUS
<1>5. i \in 1 .. Len(log) /\ s < i /\ i \in Nat /\ i <= s + Size(groups[g])
  BY <1>1, <1>2, <1>3, <1>4
<1>6. log[i].group = g
  BY <1>1, <1>5, HeldEvent
<1> QED
  BY <1>1, <1>4, <1>5, <1>6 DEF Passed

\* What the stream has gone past is in the store, whatever was dropped, read
\* again or refused on the way; of the rows of one payload that cannot be read
\* only the last are sure to be a miss (handle, stream, unwrap,
\* AppendTransaction, attach).
THEOREM NothingIsDropped ==
    ASSUME NoCreate, MixedNaming = FALSE
    PROVE  Spec => []NothingDropped
<1>1. AllInv => NothingDropped
  <2> SUFFICES ASSUME AllInv PROVE NothingDropped
    OBVIOUS
  <2> SUFFICES ASSUME NEW g \in DOMAIN groups \ skipped, Passed(g) PROVE Has(g)
    <3>1. groups \in Seq(Kinds)
      BY DEF AllInv, HandInv, LogInv, LogTypes
    <3>2. DOMAIN groups = 1 .. Len(groups)
      BY <3>1
    <3>3. ASSUME NEW g \in 1 .. Len(groups), Has(g)
          PROVE  /\ \A x \in ToSet(Kept(g)) : \E i \in DOMAIN txns : x \in ToSet(Changes(txns[i].rows))
                 /\ \A x \in Missing(g) : MissKept(x)
      BY <3>1, <3>3, ToldKeeps DEF Has
    <3> QED
      BY <3>2, <3>3 DEF NothingDropped
  <2>1. /\ HandInv /\ StoreInv /\ LogInv /\ groups \in Seq(Kinds) /\ Len(groups) \in Nat
        /\ Len(log) \in Nat /\ DOMAIN groups = 1 .. Len(groups) /\ at \in Nat
        /\ Placed /\ Ordered
    BY DEF AllInv, StoreInv, HandInv, LogInv, LogTypes
  <2>2. PICK f \in 0 .. Len(groups) : skipped = 1 .. f /\ Stores(f)
    BY <2>1 DEF StoreInv
  <2>3. g \in 1 .. Len(groups) /\ f < g
    BY <2>1, <2>2
  <2>4. PICK s \in 1 .. Len(log) : Holds(s, g)
    BY <2>1, <2>3 DEF Placed
  <2>5. PICK i \in 1 .. Len(log) : /\ i = s + Size(groups[g])
                                   /\ i <= at \/ i <= UpTo(checkpoint)
    BY <2>1, <2>4, PassedIs
  <2>6. ASSUME NEW d, DoneUpTo(f, d), NEW k, Span(d, k), i <= k PROVE Has(g)
    <3>1. g <= d
      BY <2>3, <2>4, <2>5, <2>6 DEF Span
    <3>2. d \in 0 .. Len(groups) /\ \A h \in f + 1 .. d : Has(h)
      BY <2>6 DEF DoneUpTo
    <3>3. g \in f + 1 .. d
      BY <2>1, <2>3, <3>1, <3>2
    <3> QED
      BY <3>2, <3>3
  <2>7. CASE i <= at
    <3>1. pc = "streaming"
      BY <2>1, <2>7 DEF AllInv, Rests
    <3>2. PICK d \in 0 .. Len(groups) : Span(d, at) /\ DoneUpTo(f, d)
      BY <2>2, <3>1 DEF Stores, AtStream
    <3> QED
      BY <2>6, <2>7, <3>2
  <2>8. CASE i <= UpTo(checkpoint)
    <3>1. CASE checkpoint = Start
      <4>1. \A k \in 1 .. Len(log) : log[k].file >= 1 /\ log[k].file \in Nat
        BY <2>1, EventIsWhole DEF LogInv, LogTypes, PositionsRise
      <4>2. {k \in DOMAIN log : \/ log[k].file < Start.file
                                \/ log[k].file = Start.file /\ log[k].pos <= Start.pos} = {}
        BY <2>1, <4>1 DEF Start, LogInv, LogTypes
      <4>3. UpTo(checkpoint) = 0
        BY <3>1, <4>2, FS_EmptySet DEF UpTo
      <4> QED
        BY <2>8, <4>3
    <3>2. CASE checkpoint # Start
      <4>1. PICK t \in 1 .. Len(log), d \in 1 .. Len(groups) :
                   LET c == log[t + Size(groups[d])]
                   IN  /\ Holds(t, d) /\ checkpoint = [file |-> c.file, pos |-> c.pos]
                       /\ DoneUpTo(f, d)
        BY <2>2, <3>2 DEF Stores, AtCheckpoint
      <4>2. PICK k : k = t + Size(groups[d])
        OBVIOUS
      <4>3. Size(groups[d]) \in Nat /\ t + Size(groups[d]) <= Len(log)
        BY <2>1, <4>1, KindIs DEF Holds
      <4>4. k \in 1 .. Len(log)
        BY <2>1, <4>2, <4>3
      <4>5. checkpoint.file = log[k].file /\ checkpoint.pos = log[k].pos
        BY <4>1, <4>2
      <4>6. UpTo(checkpoint) = k
        BY <2>1, <4>4, <4>5, UpToEvent
      <4>7. Span(d, k)
        BY <2>1, <4>1, <4>2, SpanAt
      <4> QED
        BY <2>6, <2>8, <4>1, <4>6, <4>7
    <3> QED
      BY <3>1, <3>2
  <2> QED
    BY <2>5, <2>7, <2>8
<1> QED
  BY <1>1, StoreInvariance, PTL

----------------------------------------------------------------------------
(***************************************************************************)
(* Delivery                                                                *)
(***************************************************************************)
\* What two sequences in a row hold.
LEMMA ConcatAt ==
    ASSUME NEW S, NEW u \in Seq(S), NEW w \in Seq(S)
    PROVE  /\ u \o w \in Seq(S) /\ Len(u \o w) = Len(u) + Len(w)
           /\ \A i \in 1 .. Len(u) : (u \o w)[i] = u[i]
           /\ \A i \in 1 .. Len(w) : (u \o w)[Len(u) + i] = w[i]
<1>0. PICK m, k : m = Len(u) /\ k = Len(w)
  OBVIOUS
<1>1. /\ u \o w \in Seq(S) /\ Len(u \o w) = m + k /\ m \in Nat /\ k \in Nat
      /\ \A i \in 1 .. m + k : (u \o w)[i] = IF i <= m THEN u[i] ELSE w[i - m]
  BY <1>0, ConcatProperties
<1>2. ASSUME NEW i \in 1 .. k PROVE (u \o w)[m + i] = w[i]
  <2>1. PICK j : j = m + i
    OBVIOUS
  <2>2. j \in 1 .. m + k /\ ~ (j <= m) /\ j - m = i
    BY <1>1, <2>1
  <2> QED
    BY <1>1, <2>1, <2>2
<1>3. ASSUME NEW i \in 1 .. m PROVE (u \o w)[i] = u[i]
  BY <1>1
<1> QED
  BY <1>0, <1>1, <1>2, <1>3

\* What a part of a sequence holds.
LEMMA PartAt ==
    ASSUME NEW S, NEW w \in Seq(S), NEW m \in Nat, NEW l \in Nat, m + l <= Len(w),
           NEW a, NEW b, a = m + 1, b = m + l
    PROVE  /\ SubSeq(w, a, b) \in Seq(S) /\ Len(SubSeq(w, a, b)) = l
           /\ \A i \in 1 .. l : SubSeq(w, a, b)[i] = w[m + i]
<1>1. a \in Int /\ b \in Int /\ \A i \in a .. b : w[i] \in S
  OBVIOUS
<1>2. /\ SubSeq(w, a, b) \in Seq(S)
      /\ Len(SubSeq(w, a, b)) = IF a <= b THEN b - a + 1 ELSE 0
      /\ \A i \in 1 .. b - a + 1 : SubSeq(w, a, b)[i] = w[a + i - 1]
  BY <1>1, SubSeqProperties
<1>3. b - a + 1 = l /\ (a <= b <=> l # 0) /\ \A i \in 1 .. l : a + i - 1 = m + i
  OBVIOUS
<1> QED
  BY <1>2, <1>3

Part(w, a, b) == SubSeq(w, a, b)

\* A sequence lies in another, behind its first m elements and up to the b-th.
LiesAt(q, whole, m, b) ==
    /\ m \in Nat /\ b = m + Len(q) /\ b <= Len(whole)
    /\ \A i \in 1 .. Len(q) : whole[m + i] = q[i]

\* It is that part of it.
LEMMA IsPart ==
    ASSUME NEW S, NEW whole \in Seq(S), NEW q \in Seq(S), NEW m, NEW b, LiesAt(q, whole, m, b),
           NEW a, a = m + 1
    PROVE  q = Part(whole, a, b)
<1> DEFINE p == SubSeq(whole, a, b)
<1>0. PICK l : l = Len(q)
  OBVIOUS
<1>4. /\ m \in Nat /\ l \in Nat /\ b = m + l /\ m + l <= Len(whole)
      /\ \A i \in 1 .. l : whole[m + i] = q[i]
  BY <1>0 DEF LiesAt
<1>1. p \in Seq(S) /\ Len(p) = l
  BY <1>4, PartAt
<1>2. \A i \in 1 .. l : p[i] = whole[m + i]
  BY <1>4, PartAt
<1> HIDE DEF p
<1>3. Len(q) = Len(p) /\ \A i \in 1 .. Len(q) : q[i] = p[i]
  BY <1>0, <1>1, <1>2, <1>4
<1> QED
  BY <1>1, <1>3, SeqEqual DEF p, Part

Joined(u, w) == u \o w

\* The same of two sequences joined, part by part.
LEMMA JoinedIs ==
    ASSUME NEW S, NEW u \in Seq(S), NEW w \in Seq(S)
    PROVE  Joined(u, w) \in Seq(S) /\ Len(Joined(u, w)) = Len(u) + Len(w)
BY ConcatAt DEF Joined

\* The first of them.
LEMMA JoinedFirst ==
    ASSUME NEW S, NEW u \in Seq(S), NEW w \in Seq(S), NEW i \in 1 .. Len(u)
    PROVE  Joined(u, w)[i] = u[i]
BY ConcatAt DEF Joined

\* The second.
LEMMA JoinedThen ==
    ASSUME NEW S, NEW u \in Seq(S), NEW w \in Seq(S), NEW i \in 1 .. Len(w), NEW k, k = Len(u) + i
    PROVE  Joined(u, w)[k] = w[i]
BY ConcatAt DEF Joined

Between(u, w, rest, whole) == whole = Joined(Joined(u, w), rest)

OneLonger(v, w) == Len(w) = Len(v) + 1 /\ \A i \in 1 .. Len(v) : w[i] = v[i]

FurtherIn(whole, v, w) ==
    \E first \in 1 .. Len(whole) - Len(v) :
        /\ v = SubSeq(whole, first, first + Len(v) - 1)
        /\ w = SubSeq(whole, first, first + Len(v))

\* A sequence in the middle of another is a part of it, and so is what it was
\* before its last element.
LEMMA OneFurther ==
    ASSUME NEW S, NEW u \in Seq(S), NEW v \in Seq(S), NEW w \in Seq(S), NEW rest \in Seq(S),
           OneLonger(v, w), NEW whole, Between(u, w, rest, whole)
    PROVE  FurtherIn(whole, v, w)
<1>1. PICK m, n, k : m = Len(u) /\ n = Len(v) /\ k = Len(rest)
  OBVIOUS
<1>2. /\ m \in Nat /\ n \in Nat /\ k \in Nat /\ Len(w) = n + 1
      /\ \A i \in 1 .. n : w[i] = v[i]
  BY <1>1 DEF OneLonger
<1>3. PICK t : t = Joined(u, w)
  OBVIOUS
<1>4. t \in Seq(S) /\ Len(t) = m + (n + 1)
  BY <1>1, <1>2, <1>3, JoinedIs
<1>5. whole = Joined(t, rest)
  BY <1>3 DEF Between
<1>6. whole \in Seq(S) /\ Len(whole) = m + (n + 1) + k
  BY <1>1, <1>4, <1>5, JoinedIs
<1>7. ASSUME NEW i \in 1 .. n + 1 PROVE whole[m + i] = w[i]
  <2>1. PICK j : j = m + i
    OBVIOUS
  <2>2. j \in 1 .. Len(t)
    BY <1>2, <1>4, <2>1
  <2>3. whole[j] = t[j]
    BY <1>4, <1>5, <2>2, JoinedFirst
  <2>4. i \in 1 .. Len(w) /\ j = Len(u) + i
    BY <1>1, <1>2, <2>1
  <2>5. t[j] = w[i]
    BY <1>3, <2>4, JoinedThen
  <2> QED
    BY <2>1, <2>3, <2>5
<1>8. PICK first, b, c : first = m + 1 /\ b = m + n /\ c = m + (n + 1)
  OBVIOUS
<1>9. v = Part(whole, first, b)
  <2>1. \A i \in 1 .. n : whole[m + i] = v[i]
    <3> SUFFICES ASSUME NEW i \in 1 .. n PROVE whole[m + i] = v[i]
      OBVIOUS
    <3>1. i \in 1 .. n + 1 /\ w[i] = v[i]
      BY <1>2
    <3> QED
      BY <1>7, <3>1
  <2>2. LiesAt(v, whole, m, b)
    BY <1>1, <1>2, <1>6, <1>8, <2>1 DEF LiesAt
  <2> QED
    BY <1>6, <1>8, <2>2, IsPart
<1>10. w = Part(whole, first, c)
  <2>1. LiesAt(w, whole, m, c)
    BY <1>2, <1>6, <1>7, <1>8 DEF LiesAt
  <2> QED
    BY <1>6, <1>8, <2>1, IsPart
<1>11. b = first + n - 1 /\ c = first + n /\ first \in 1 .. Len(whole) - n
  BY <1>2, <1>6, <1>8
<1> QED
  BY <1>1, <1>9, <1>10, <1>11 DEF FurtherIn, Part

\* What the source committed is what it committed up to the last transaction,
\* and one more adds at most one to it.
LEMMA CommittedParts ==
    LogTypes /\ NoCreate =>
        \E c : /\ \A g \in 1 .. Len(groups) : c[g] \in Seq(Seq(Change)) /\ c[g] = CommitOf(g)
               /\ \A n \in 0 .. Len(groups) : CommittedUpTo(n) = UpToNth(c, n)
               /\ Committed = UpToNth(c, Len(groups))
BY CommittedIs

\* The same of the next state.
LEMMA CommittedPartsNext ==
    LogTypes' /\ NoCreate =>
        \E c : /\ \A g \in 1 .. Len(groups') : c[g] \in Seq(Seq(Change)) /\ c[g] = CommitOf(g)'
               /\ \A n \in 0 .. Len(groups') : CommittedUpTo(n)' = UpToNth(c, n)
               /\ Committed' = UpToNth(c, Len(groups'))
<1>1. (LogTypes /\ NoCreate =>
          \E c : /\ \A g \in 1 .. Len(groups) : c[g] \in Seq(Seq(Change)) /\ c[g] = CommitOf(g)
                 /\ \A n \in 0 .. Len(groups) : CommittedUpTo(n) = UpToNth(c, n)
                 /\ Committed = UpToNth(c, Len(groups)))'
  BY CommittedParts, PTL
<1> QED
  BY <1>1 DEF NoCreate

\* Up to a transaction it is the beginning of what was committed in all.
LEMMA CommittedRest ==
    ASSUME LogTypes, NoCreate, NEW f \in 0 .. Len(groups), NEW d \in 0 .. Len(groups)
    PROVE  \E A : /\ CommittedUpTo(f) \in Seq(A)
                  /\ Begins(A, CommittedUpTo(d), Committed)
<1>1. PICK c : /\ \A g \in 1 .. Len(groups) : c[g] \in Seq(Seq(Change))
               /\ \A n \in 0 .. Len(groups) : CommittedUpTo(n) = UpToNth(c, n)
               /\ Committed = UpToNth(c, Len(groups))
  BY CommittedIs
<1>2. PICK A, m : A = Seq(Change) /\ m = Len(groups)
  OBVIOUS
<1>3. m \in Nat /\ f \in 0 .. m /\ d \in 0 .. m /\ \A g \in 1 .. m : c[g] \in Seq(A)
  BY <1>1, <1>2 DEF LogTypes
<1>4. UpToNth(c, f) \in Seq(A)
  BY <1>3, UpToType
<1>5. Begins(A, UpToNth(c, d), UpToNth(c, m))
  BY <1>3, UpToPrefix
<1> QED
  BY <1>1, <1>2, <1>3, <1>4, <1>5

\* The sequence that is committed is longer by one, or the same.
LEMMA CommitStep ==
    ASSUME NEW S, NEW u \in Seq(S), NEW x, x = <<>> \/ \E y \in S : x = <<y>>
    PROVE  \/ u \o x = u
           \/ /\ Len(u \o x) = Len(u) + 1
              /\ SubSeq(u \o x, 1, Len(u)) = u
<1>1. CASE x = <<>>
  BY <1>1, ConcatEmptySeq
<1>2. ASSUME NEW y \in S, x = <<y>>
      PROVE  /\ Len(u \o x) = Len(u) + 1
             /\ SubSeq(u \o x, 1, Len(u)) = u
  <2> DEFINE w == u \o x
             p == SubSeq(w, 1, Len(u))
  <2>1. /\ w \in Seq(S) /\ Len(w) = Len(u) + 1 /\ Len(u) \in Nat
        /\ \A i \in 1 .. Len(u) : w[i] = u[i]
    BY <1>2
  <2> HIDE DEF w
  <2>2. p \in Seq(S) /\ Len(p) = Len(u) /\ \A i \in 1 .. Len(u) : p[i] = w[i]
    BY <2>1
  <2> HIDE DEF p
  <2>3. p = u
    BY <2>1, <2>2, SeqEqual
  <2> QED
    BY <2>1, <2>3 DEF p, w
<1> QED
  BY <1>1, <1>2

\* A transaction that reaches the log is a commit, or nothing if none of its
\* rows is asked for.
LEMMA WriteDelivers ==
    ASSUME NoCreate, HandInv, NEW kind \in Kinds, NEW named \in Naming, Write(kind, named)
    PROVE  Promise!Commit \/ UNCHANGED <<Committed, Recorded>>
<1>1. LogInv /\ LogTypes /\ Len(groups) \in Nat
  BY DEF HandInv, LogInv, LogTypes
<1>2. LogInv' /\ Grows
  BY <1>1, WriteStep
<1>3. PICK n : n = Len(groups)
  OBVIOUS
<1>4. Len(groups') = n + 1 /\ n \in Nat
  BY <1>1, <1>3 DEF Write, LogTypes
<1>5. Recorded' = Recorded
  BY DEF Write, Recorded, Changes
<1>7. PICK c : /\ \A g \in 1 .. n + 1 : c[g] \in Seq(Seq(Change)) /\ c[g] = CommitOf(g)'
               /\ \A k \in 0 .. n + 1 : CommittedUpTo(k)' = UpToNth(c, k)
               /\ Committed' = UpToNth(c, n + 1)
  <2>1. LogTypes' /\ NoCreate'
    BY <1>2 DEF LogInv, NoCreate
  <2> QED
    BY <1>4, <2>1, CommittedPartsNext
<1>8. PICK S : S = Seq(Change)
  OBVIOUS
<1>9. UpToNth(c, n) \in Seq(S) /\ UpToNth(c, n + 1) = UpToNth(c, n) \o c[n + 1]
  <2>1. PICK m : m = n + 1
    OBVIOUS
  <2>2. m \in Nat /\ n < m /\ n \in 0 .. m /\ \A g \in 1 .. m : c[g] \in Seq(S)
    BY <1>4, <1>7, <1>8, <2>1
  <2>3. UpToNth(c, n) \in Seq(S)
    BY <2>2, UpToType
  <2> QED
    BY <1>4, <2>2, <2>3, UpToNext
<1>10. Committed = UpToNth(c, n)
  <2>1. n \in 0 .. n /\ n \in 0 .. n + 1
    BY <1>4
  <2>2. Committed = CommittedUpTo(n)
    BY <1>1, <1>3, <2>1, CommittedParts
  <2>3. CommittedUpTo(n)' = CommittedUpTo(n)
    BY <1>1, <1>2, <1>3, <2>1, CommittedStays
  <2> QED
    BY <1>7, <2>1, <2>2, <2>3
<1>11. c[n + 1] = <<>> \/ \E y \in S : c[n + 1] = <<y>>
  <2>1. n + 1 \in 1 .. n + 1
    BY <1>4
  <2>2. PICK k : k = n + 1
    OBVIOUS
  <2>3. c[k] = CommitOf(k)' /\ c[k] \in Seq(S)
    BY <1>7, <1>8, <2>1, <2>2
  <2>4. CommitOf(k)' = <<>> \/ CommitOf(k)' = <<Kept(k)'>>
    BY DEF CommitOf
  <2>5. ASSUME c[k] = <<Kept(k)'>> PROVE Kept(k)' \in S
    <3>1. c[k][1] \in S /\ c[k][1] = Kept(k)'
      BY <2>3, <2>5
    <3> QED
      BY <3>1
  <2> QED
    BY <2>2, <2>3, <2>4, <2>5
<1>12. \/ Committed' = Committed
       \/ /\ Len(Committed') = Len(Committed) + 1
          /\ SubSeq(Committed', 1, Len(Committed)) = Committed
  <2>1. PICK u, x, w : u = UpToNth(c, n) /\ x = c[n + 1] /\ w = u \o x
    OBVIOUS
  <2>2. u \in Seq(S) /\ (x = <<>> \/ \E y \in S : x = <<y>>)
    BY <1>9, <1>11, <2>1
  <2>3. \/ u \o x = u
        \/ /\ Len(u \o x) = Len(u) + 1
           /\ SubSeq(u \o x, 1, Len(u)) = u
    BY <2>2, CommitStep
  <2>4. Committed' = u \o x /\ Committed = u
    BY <1>7, <1>9, <1>10, <2>1
  <2> QED
    BY <2>3, <2>4
<1> QED
  BY <1>5, <1>12 DEF Promise!Commit

\* A transaction stored is the next one committed, whole, behind those stored
\* before it, with none left out.
LEMMA HandleDelivers ==
    ASSUME NoCreate, HandInv, StoreInv, HandInv', StoreInv', HandleEvent
    PROVE  Promise!Record \/ UNCHANGED <<Committed, Recorded>>
<1>1. /\ LogInv /\ LogTypes /\ Len(groups) \in Nat /\ txns \in Seq(Txn) /\ txns' \in Seq(Txn)
  BY DEF HandInv, LogInv, LogTypes
<1>2. /\ pc = "streaming" /\ UNCHANGED <<groups, log, pc, skipped>>
      /\ txns' = txns \/ \E t : txns' = Append(txns, t)
  BY DEF HandleEvent, Reading, AppendTransaction
<1>3. Committed' = Committed
  BY <1>2 DEF Committed, Kept
<1>4. CASE txns' = txns
  <2>1. Recorded' = Recorded
    BY <1>4 DEF Recorded, Changes
  <2> QED
    BY <1>3, <2>1
<1>5. CASE txns' # txns
  <2>1. PICK t : txns' = Append(txns, t)
    BY <1>2, <1>5
  <2>2. t \in Txn
    <3>1. Len(txns) \in Nat /\ Len(txns') = Len(txns) + 1 /\ txns'[Len(txns) + 1] = t
      BY <1>1, <2>1
    <3> QED
      BY <1>1, <3>1
  <2>3. PICK x : x = Changes(t.rows)
    OBVIOUS
  <2>4. Recorded' = Recorded \o <<x>>
    BY <1>1, <2>1, <2>2, <2>3, RecordedNext
  <2>5. PICK f \in 0 .. Len(groups) : skipped' = 1 .. f /\ Stores(f)'
    BY <1>2 DEF StoreInv
  <2>6. PICK d \in 0 .. Len(groups) : DoneUpTo(f, d)'
    BY <1>2, <2>5 DEF Stores, AtStream
  <2>7. f \in Nat /\ f \in 0 .. Len(groups) /\ d \in 0 .. Len(groups)
    BY <1>1
  <2>8. CommittedUpTo(d) = CommittedUpTo(f) \o Recorded'
    <3>1. Grows
      BY <1>1, <1>2, OrderFrozen
    <3>2. CommittedUpTo(d)' = CommittedUpTo(d) /\ CommittedUpTo(f)' = CommittedUpTo(f)
      BY <1>1, <2>7, <3>1, CommittedStays
    <3>3. CommittedUpTo(d)' = CommittedUpTo(f)' \o Recorded'
      BY <2>6 DEF DoneUpTo
    <3> QED
      BY <3>2, <3>3
  <2>9. PICK A : /\ CommittedUpTo(f) \in Seq(A)
                 /\ Begins(A, CommittedUpTo(d), Committed)
    BY <1>1, <2>7, CommittedRest
  <2>10. PICK rest \in Seq(A) : Committed = CommittedUpTo(d) \o rest
    BY <2>9 DEF Begins
  <2>11. PICK u, v, w, whole : /\ u = CommittedUpTo(f) /\ v = Recorded /\ w = Recorded'
                               /\ whole = Committed
    OBVIOUS
  <2>12. PICK B : v \in Seq(B)
    BY <1>1, <2>11, RecordedIs DEF Listed
  <2>13. PICK S : S = A \cup B \cup {x}
    OBVIOUS
  <2>14. u \in Seq(S) /\ rest \in Seq(S) /\ v \in Seq(S) /\ <<x>> \in Seq(S)
    BY <2>9, <2>11, <2>12, <2>13
  <2>15. w \in Seq(S) /\ OneLonger(v, w)
    BY <2>4, <2>11, <2>14, ConcatAt DEF OneLonger
  <2>16. Between(u, w, rest, whole)
    BY <2>8, <2>10, <2>11 DEF Between, Joined
  <2>17. FurtherIn(whole, v, w)
    BY <2>14, <2>15, <2>16, OneFurther
  <2>18. Promise!Record <=>
            /\ \E first \in 1 .. Len(Committed) - Len(Recorded) :
                  /\ Recorded = SubSeq(Committed, first, first + Len(Recorded) - 1)
                  /\ Recorded' = SubSeq(Committed, first, first + Len(Recorded))
            /\ Committed' = Committed
    BY DEF Promise!Record
  <2> QED
    BY <1>3, <2>11, <2>17, <2>18 DEF FurtherIn
<1> QED
  BY <1>4, <1>5

\* The store keeps the promise of Delivery: the transactions the source
\* committed, whole, once each, in order and from the first on without a
\* hole, however often the stream is cut and taken up again (assembler: "the
\* source applied it as one").
THEOREM StoreDelivers ==
    ASSUME NoCreate, MixedNaming = FALSE
    PROVE  Spec => Delivers
<1>1. Init => Promise!Init
  <2> SUFFICES ASSUME Init PROVE Promise!Init
    OBVIOUS
  <2>1. groups = <<>> /\ txns = <<>>
    BY DEF Init
  <2>2. [g \in DOMAIN groups |-> IF Kept(g) = <<>> THEN <<>> ELSE <<Kept(g)>>] = <<>>
    BY <2>1
  <2>3. Committed = <<>>
    BY <2>2, FlattenEmpty DEF Committed
  <2>4. Recorded = <<>>
    BY <2>1 DEF Recorded
  <2> QED
    BY <2>3, <2>4 DEF Promise!Init
<1>2. AllInv /\ AllInv' /\ [Next]_vars => [Promise!Next]_<<Committed, Recorded>>
  <2> SUFFICES ASSUME AllInv, AllInv', [Next]_vars
               PROVE  Promise!Commit \/ Promise!Record \/ UNCHANGED <<Committed, Recorded>>
    BY DEF Promise!Next
  <2>1. ASSUME NEW kind \in Kinds, NEW named \in Naming, Write(kind, named)
        PROVE  Promise!Commit \/ UNCHANGED <<Committed, Recorded>>
    BY <2>1, WriteDelivers DEF AllInv
  <2>2. CASE HandleEvent
    BY <2>2, HandleDelivers DEF AllInv
  <2>3. ASSUME UNCHANGED <<groups, txns>> PROVE UNCHANGED <<Committed, Recorded>>
    BY <2>3 DEF Committed, Kept, Recorded, Changes
  <2>4. CASE Rotate
    BY <2>3, <2>4 DEF Rotate
  <2>5. CASE Attach
    BY <2>3, <2>5 DEF Attach
  <2>6. CASE StreamFails \/ StoreFails
    BY <2>3, <2>6 DEF StreamFails, StoreFails, Drop
  <2>7. CASE HandleXA
    BY <2>3, <2>7 DEF HandleXA
  <2>8. CASE UNCHANGED vars
    BY <2>3, <2>8 DEF vars
  <2> QED
    BY <2>1, <2>2, <2>4, <2>5, <2>6, <2>7, <2>8 DEF Next
<1> QED
  BY <1>1, <1>2, StoreInvariance, PTL DEF Spec, Delivers, Promise!Spec
=============================================================================
