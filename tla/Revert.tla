------------------------------- MODULE Revert -------------------------------
(***************************************************************************)
(* Running a revert script: the statements internal/reverse makes of the   *)
(* row changes of a table, run newest first by an operator, one after the  *)
(* other and in no transaction, while other sessions go on writing.        *)
(*                                                                         *)
(* A row has a column "k", the primary key where the table has one, a      *)
(* column of data "v", and a column "g" that the server computes from it   *)
(* (here: as equal to it).                                                 *)
(***************************************************************************)
EXTENDS Integers, Sequences, FiniteSets

CONSTANTS Keyed,      \* may the table have a primary key: TRUE, FALSE or both
          Keys,       \* values of "k"
          Values,     \* values of "v", besides Null
          Null,
          MaxEvents,  \* bound on the row changes
          MaxWrites   \* bound on the writes of other sessions

ASSUME RevertAssumption ==
    /\ Keyed \subseteq BOOLEAN
    /\ Null \notin Keys \cup Values
    /\ {MaxEvents, MaxWrites} \subseteq Nat

VARIABLES
    keyed,     \* the table has a primary key
    table,     \* its rows, under a name of their own that no statement sees
    events,    \* its changes in the order the server made them
    past,      \* history: the table before each event, and after the last
    pc,        \* logging, running, or stopped at a statement that failed
    script,    \* the statements still to be run
    first,     \* the oldest event the script undoes
    writes,    \* how many writes of other sessions there were
    expected   \* history: the table the script is to bring back, with those

vars == <<keyed, table, events, past, pc, script, first, writes, expected>>

Columns == {"k", "v", "g"}

Computed(row) == [row EXCEPT !["g"] = row["v"]]

Rows == {Computed(row) : row \in {r \in [Columns -> Keys \cup Values \cup {Null}] :
            /\ r["k"] \in Keys
            /\ {r["v"], r["g"]} \subseteq Values \cup {Null}}}

Without(id) == [i \in DOMAIN table \ {id} |-> table[i]]

With(id, row) == [i \in DOMAIN table \cup {id} |-> IF i = id THEN row ELSE table[i]]

\* The server holds a primary key to be unique.
Fits(id, row) == keyed => \A i \in DOMAIN table \ {id} : table[i]["k"] # row["k"]

----------------------------------------------------------------------------
(***************************************************************************)
(* The statement that undoes an event                                      *)
(***************************************************************************)
\* The columns marked as computed by the server (MarkReadOnly, markGenerated).
NothingMarked == {}

ReadOnly == {"g"}

\* A predicate gives the value of each column it names, IS NULL for Null: the
\* primary key, or the whole row for want of one.
WhereClause(row) == [c \in IF keyed THEN {"k"} ELSE Columns |-> row[c]]

DeleteRow(ev) == [verb |-> "delete", where |-> WhereClause(ev.after), set |-> <<>>]

RestoreEveryColumn(ev) ==
    [verb |-> "update", where |-> WhereClause(ev.after),
     set |-> [c \in Columns \ ReadOnly |-> ev.before[c]]]

\* Located by the key it has now, and only what the event changed restored.
UpdateRow(ev) ==
    [verb |-> "update", where |-> WhereClause(ev.after),
     set |-> [c \in {d \in Columns \ ReadOnly : ev.before[d] # ev.after[d]} |-> ev.before[c]]]

InsertRow(ev) ==
    [verb |-> "insert", where |-> <<>>,
     set |-> [c \in Columns \ ReadOnly |-> ev.before[c]]]

Statement(ev) == CASE ev.op = "insert" -> DeleteRow(ev)
                   [] ev.op = "update" -> UpdateRow(ev)
                   [] ev.op = "delete" -> InsertRow(ev)

PlanInOrder(evs) ==
    [n \in DOMAIN evs |-> [id |-> evs[n].id, do |-> Statement(evs[n])]]

\* Newest first.  id names the row a statement brings back, for the history.
Plan(evs) ==
    [n \in DOMAIN evs |->
        LET ev == evs[Len(evs) + 1 - n] IN [id |-> ev.id, do |-> Statement(ev)]]

----------------------------------------------------------------------------
(***************************************************************************)
(* The server                                                              *)
(***************************************************************************)
Init ==
    /\ keyed \in Keyed
    /\ table = <<>> /\ events = <<>> /\ past = <<table>>
    /\ pc = "logging" /\ script = <<>> /\ first = 1
    /\ writes = 0 /\ expected = <<>>

Log(op, id, before, after) ==
    /\ pc = "logging" /\ Len(events) < MaxEvents
    /\ events' = Append(events, [op |-> op, id |-> id, before |-> before, after |-> after])
    /\ past' = Append(past, table')
    /\ UNCHANGED <<keyed, pc, script, first, writes, expected>>

Insert(row) ==
    LET id == Len(events) + 1
    IN  /\ Fits(id, row)
        /\ table' = With(id, row)
        /\ Log("insert", id, Null, row)

Update(id, row) ==
    /\ table[id] # row /\ Fits(id, row)
    /\ table' = With(id, row)
    /\ Log("update", id, table[id], row)

Delete(id) ==
    /\ table' = Without(id)
    /\ Log("delete", id, table[id], Null)

Change == \/ \E row \in Rows : Insert(row)
          \/ \E id \in DOMAIN table, row \in Rows : Update(id, row)
          \/ \E id \in DOMAIN table : Delete(id)

----------------------------------------------------------------------------
(***************************************************************************)
(* The operator and the other sessions                                     *)
(***************************************************************************)
\* The window reaches from some change to the last one.
Generate(from) ==
    /\ pc = "logging" /\ pc' = "running"
    /\ script' = Plan(SubSeq(events, from, Len(events)))
    /\ first' = from
    /\ expected' = past[from]
    /\ UNCHANGED <<keyed, table, events, past, writes>>

Stmt == script[1].do

Assigned(row) ==
    Computed([c \in Columns |-> IF c \in DOMAIN Stmt.set THEN Stmt.set[c] ELSE row[c]])

Matching == {id \in DOMAIN table : \A c \in DOMAIN Stmt.where : table[id][c] = Stmt.where[c]}

Next1 == script' = Tail(script) /\ UNCHANGED <<keyed, events, past, pc, first, writes, expected>>

\* LIMIT 1: one of the rows that match, the server does not say which.
RunDelete(id) ==
    /\ Stmt.verb = "delete" /\ id \in Matching
    /\ table' = Without(id)
    /\ Next1

Assigns(id) == "g" \notin DOMAIN Stmt.set /\ Fits(id, Assigned(table[id]))

RunUpdate(id) ==
    /\ Stmt.verb = "update" /\ id \in Matching
    /\ Assigns(id)
    /\ table' = With(id, Assigned(table[id]))
    /\ Next1

Absent == [c \in Columns |-> Null]

Inserts == "g" \notin DOMAIN Stmt.set /\ Fits(script[1].id, Assigned(Absent))

RunInsert ==
    /\ Stmt.verb = "insert" /\ Inserts
    /\ table' = With(script[1].id, Assigned(Absent))
    /\ Next1

\* A statement that matches no row is no error.
MatchesNothing ==
    /\ Stmt.verb # "insert" /\ Matching = {}
    /\ UNCHANGED table
    /\ Next1

\* One that assigns to a computed column or repeats a key is, and the client
\* stops at it.
Rejected ==
    /\ \/ Stmt.verb = "insert" /\ ~ Inserts
       \/ Stmt.verb = "update" /\ \E id \in Matching : ~ Assigns(id)
    /\ pc' = "stopped"
    /\ UNCHANGED <<keyed, table, events, past, script, first, writes, expected>>

RunStatement ==
    /\ pc = "running" /\ script # <<>>
    /\ \/ \E id \in DOMAIN table : RunDelete(id) \/ RunUpdate(id)
       \/ RunInsert \/ MatchesNothing \/ Rejected

\* Another session writes to a column that no update in the window changed.
Unrelated ==
    \A n \in first .. Len(events) :
        events[n].op = "update" => events[n].before["v"] = events[n].after["v"]

Rewritten(row, value) == Computed([row EXCEPT !["v"] = value])

OtherWrites(id, value) ==
    /\ pc = "running" /\ writes < MaxWrites
    /\ Unrelated /\ table[id]["v"] # value
    /\ table' = With(id, Rewritten(table[id], value))
    /\ expected' = IF id \in DOMAIN expected
                   THEN [expected EXCEPT ![id] = Rewritten(@, value)]
                   ELSE expected
    /\ writes' = writes + 1
    /\ UNCHANGED <<keyed, events, past, pc, script, first>>

\* Or a row of its own, whose key a statement of the script may want.
OtherInserts(row) ==
    /\ pc = "running" /\ writes < MaxWrites
    /\ LET id == MaxEvents + writes + 1
       IN  /\ Fits(id, row)
           /\ table' = With(id, row)
           /\ expected' = [i \in DOMAIN expected \cup {id} |-> IF i = id THEN row ELSE expected[i]]
    /\ writes' = writes + 1
    /\ UNCHANGED <<keyed, events, past, pc, script, first>>

Next == \/ Change
        \/ \E from \in 1 .. Len(events) : Generate(from)
        \/ RunStatement
        \/ \E id \in DOMAIN table, value \in Values \cup {Null} : OtherWrites(id, value)
        \/ \E row \in Rows : OtherInserts(row)

Spec == Init /\ [][Next]_vars

----------------------------------------------------------------------------
Images(t) ==
    LET images == {t[id] : id \in DOMAIN t}
    IN  [row \in images |-> Cardinality({id \in DOMAIN t : t[id] = row})]

\* With nobody else writing, the server rejects no statement of a script,
\* whatever the changes it undoes: a key is free by the time it is taken
\* again, and no computed column is assigned to (Plan, Statement).
NothingRejected == pc = "stopped" => writes > 0

\* With nobody else writing, a script takes the table back one change at a
\* time: wherever it is broken off, the table is what it was before some
\* change, duplicate rows and all, and in the end what it was before the
\* window (Plan: otherwise "the result matches neither the before nor the
\* after state").
StepsBackInTime ==
    pc = "running" /\ writes = 0 => Images(table) = Images(past[first + Len(script)])

\* A script that was run to its end has brought back the table as it was
\* before the window, with the rows other sessions added meanwhile and what
\* they wrote to columns the window leaves alone (updateRow: "a concurrent
\* write to an unrelated column survives the reversal").
OtherWritesSurvive == keyed /\ pc = "running" /\ script = <<>> => table = expected
=============================================================================
