----------------------------- MODULE Assembler -----------------------------
(***************************************************************************)
(* From binlog events to stored transactions: the assembler of             *)
(* internal/source/mysql/assemble.go under the loop of stream, with the    *)
(* attempts that end in the middle of a transaction.  Collector has a      *)
(* transaction for one step; here it is the events the server writes for   *)
(* it.  Dates, coverage and purges are Collector's.                        *)
(***************************************************************************)
EXTENDS Integers, Sequences, SequencesExt, FiniteSets

CONSTANTS Kinds,       \* kinds of transaction the server writes
          Naming,      \* may it name them: TRUE, a GTID; FALSE, an anonymous one
          MixedNaming, \* some of them named and some not
          MaxGroups,   \* bound on the transactions
          MaxRotates,  \* bound on the log files
          MaxDrops     \* bound on the attempts that fail

(***************************************************************************)
(* The events of a transaction after the one that names it.  stmt numbers  *)
(* its statements; 0 is no statement.  A payload is a compressed           *)
(* transaction, with the events it stands for.                             *)
(***************************************************************************)
Event(type, stmt) == [type |-> type, stmt |-> stmt, inner |-> <<>>]

Begin    == Event("begin", 0)
Commit   == Event("commit", 0)
Rows(n)  == Event("rows", n)

Forms ==
    [insert      |-> <<Begin, Event("unwanted", 1), Rows(2), Commit>>,
     \* the first of two statements annotated
     statements  |-> <<Begin, Event("annotate", 1), Rows(1), Rows(2), Commit>>,
     unwanted    |-> <<Begin, Event("unwanted", 1), Commit>>,
     \* only the statement annotated whose rows cannot be read
     unreadable  |-> <<Begin, Rows(1), Event("annotate", 2), Event("unreadable", 2), Rows(3), Commit>>,
     \* rows of tables no transaction covers are logged before a ROLLBACK
     rolledback  |-> <<Begin, Rows(1), Event("rollback", 0)>>,
     ddl         |-> <<Event("ddl", 1)>>,
     session     |-> <<Event("session", 0)>>,
     compressed  |-> <<[Event("payload", 0) EXCEPT !.inner =
                           <<Begin, Event("unreadable", 1), Event("unreadable", 2), Rows(3), Commit>>]>>,
     \* CREATE TABLE ... SELECT, one transaction of a server with atomic DDL
     create      |-> <<Begin, Event("ddl", 1), Rows(2), Commit>>,
     xa          |-> <<Begin, Rows(1), Event("xa", 0)>>]

ASSUME AssemblerAssumption ==
    /\ Kinds \subseteq DOMAIN Forms
    /\ Naming \subseteq BOOLEAN /\ MixedNaming \in BOOLEAN
    /\ {MaxGroups, MaxRotates, MaxDrops} \subseteq Nat

VARIABLES
    groups,      \* the kinds of the transactions in the log
    log,         \* the events in the server's log files, one after the other
    drops,       \* how many attempts failed
    pc,          \* detached, streaming, or halted after a Refusal
    at,          \* how many events of the log the stream has delivered
    asm,         \* the assembler
    txns,        \* the txn rows with their row_change rows, in the order of ids
    misses,      \* the rows recorded as missing
    checkpoint,  \* the position after the last transaction stored
    skipped      \* history: transactions an attach without a checkpoint jumped over

vars == <<groups, log, drops, pc, at, asm, txns, misses, checkpoint, skipped>>

Position == [file : Nat, pos : Nat]
Start    == [file |-> 0, pos |-> 0]

\* Where the server is writing.  A rotate event is the last one of its file.
EndOfLog ==
    IF log = <<>> THEN [file |-> 1, pos |-> 0]
    ELSE LET e == Last(log)
         IN  IF e.type = "rotate" THEN [file |-> e.file + 1, pos |-> 0]
             ELSE [file |-> e.file, pos |-> e.pos]

UpTo(p) == Cardinality({i \in DOMAIN log : \/ log[i].file < p.file
                                           \/ log[i].file = p.file /\ log[i].pos <= p.pos})

----------------------------------------------------------------------------
(***************************************************************************)
(* The server                                                              *)
(***************************************************************************)
Logged(events, group) ==
    log \o [i \in DOMAIN events |->
               [type |-> events[i].type, stmt |-> events[i].stmt, inner |-> events[i].inner,
                group |-> group, file |-> EndOfLog.file, pos |-> EndOfLog.pos + i]]

NamedAlready == {log[i].type = "gtid" : i \in {j \in DOMAIN log : log[j].type \in {"gtid", "anonymous"}}}

\* A transaction reaches the log as a whole, when it ends.
Write(kind, named) ==
    /\ Len(groups) < MaxGroups
    /\ MixedNaming \/ NamedAlready \subseteq {named}
    /\ groups' = Append(groups, kind)
    /\ log' = Logged(<<Event(IF named THEN "gtid" ELSE "anonymous", 0)>> \o Forms[kind],
                     Len(groups'))
    /\ UNCHANGED <<drops, pc, at, asm, txns, misses, checkpoint, skipped>>

Rotate ==
    /\ EndOfLog.file <= MaxRotates /\ EndOfLog.pos > 0
    /\ log' = Logged(<<Event("rotate", 0)>>, 0)
    /\ UNCHANGED <<groups, drops, pc, at, asm, txns, misses, checkpoint, skipped>>

----------------------------------------------------------------------------
(***************************************************************************)
(* The assembler: each handler returns the assembler after the event and   *)
(* what the event did, a transaction or a miss at most.                    *)
(***************************************************************************)
Fresh(file) == [logFile |-> file, gtid |-> 0, query |-> 0, events |-> <<>>]

Result(a, txn, miss) == [asm |-> a, txn |-> txn, miss |-> miss]

Quiet(a) == Result(a, <<>>, <<>>)

Reset(a) == Fresh(a.logFile)

SourceIDIgnoringFile(a, e) ==
    IF a.gtid # 0 THEN [gtid |-> a.gtid, file |-> 0, pos |-> 0]
                  ELSE [gtid |-> 0, file |-> 0, pos |-> e.pos]

SourceID(a, e) ==
    IF a.gtid # 0 THEN [gtid |-> a.gtid, file |-> 0, pos |-> 0]
                  ELSE [gtid |-> 0, file |-> a.logFile, pos |-> e.pos]

Row(e, query) ==
    [group |-> e.group, stmt |-> e.stmt, query |-> query, wanted |-> e.type # "unwanted"]

QueryCarried(a, e) ==
    IF e.type = "unreadable" THEN Result(a, <<>>, <<[group |-> e.group, stmt |-> e.stmt]>>)
    ELSE Quiet([a EXCEPT !.events = Append(@, Row(e, a.query))])

\* Rows that cannot be converted are a miss; the others wait for the commit,
\* and the statement announced goes with the first of them.
AppendRows(a, e) ==
    IF e.type = "unreadable" THEN Result(a, <<>>, <<[group |-> e.group, stmt |-> e.stmt]>>)
    ELSE Quiet([a EXCEPT !.events = Append(@, Row(e, a.query)), !.query = 0])

\* A transaction with no rows leaves nothing to reverse.
CommitRows(a, e) ==
    IF a.events = <<>> THEN Quiet(Reset(a))
    ELSE Result(Reset(a), <<[id |-> SourceID(a, e), rows |-> a.events]>>, <<>>)

\* A schema change commits on its own, whatever is being assembled.
SchemaChange(a, e) ==
    Result(a, <<[id |-> SourceID(a, e), rows |-> <<Row(e, e.stmt)>>]>>, <<>>)

NotRolledBack(a, e) ==
    CASE e.type = "begin"    -> Quiet([a EXCEPT !.query = 0])
      [] e.type = "commit"   -> CommitRows(a, e)
      [] e.type = "rollback" -> Quiet(a)
      [] e.type = "ddl"      -> SchemaChange(a, e)
      [] e.type = "session"  -> Quiet(a)

\* The statements logged as text (query_).
Statement(a, e) ==
    CASE e.type = "begin"    -> Quiet([a EXCEPT !.events = <<>>, !.query = 0])
      [] e.type = "commit"   -> CommitRows(a, e)
      [] e.type = "rollback" -> Quiet(Reset(a))
      [] e.type = "ddl"      -> SchemaChange(a, e)
      [] e.type = "session"  -> Quiet(a)

\* An anonymous event is the absence of a name.
HandlePlain(a, e) ==
    CASE e.type = "rotate"    -> Quiet([a EXCEPT !.logFile = e.file + 1])
      [] e.type = "annotate"  -> Quiet([a EXCEPT !.query = e.stmt])
      [] e.type = "gtid"      -> Quiet([a EXCEPT !.gtid = e.group])
      [] e.type = "anonymous" -> Quiet(a)
      [] e.type \in {"rows", "unwanted", "unreadable"} -> AppendRows(a, e)
      [] OTHER -> Statement(a, e)

Either(new, old) == IF new = <<>> THEN old ELSE new

\* A compressed transaction: its events in turn, the last transaction and the
\* last miss of them kept.
UnwrapNext(r, e, event) ==
    LET s == HandlePlain(r.asm, [e EXCEPT !.type = event.type, !.stmt = event.stmt])
    IN  Result(s.asm, Either(s.txn, r.txn), Either(s.miss, r.miss))

Unwrap(a, e) ==
    LET upTo[n \in 0 .. Len(e.inner)] ==
            IF n = 0 THEN Quiet(a) ELSE UnwrapNext(upTo[n - 1], e, e.inner[n])
    IN  upTo[Len(e.inner)]

Handle(a, e) == IF e.type = "payload" THEN Unwrap(a, e) ELSE HandlePlain(a, e)

----------------------------------------------------------------------------
(***************************************************************************)
(* The stream                                                              *)
(***************************************************************************)
Init ==
    /\ groups = <<>> /\ log = <<>> /\ drops = 0
    /\ pc = "detached" /\ at = 0 /\ asm = Fresh(1)
    /\ txns = <<>> /\ misses = {} /\ checkpoint = Start /\ skipped = {}

\* The assembler of an attempt is new, and so is what it has assembled.
Attach ==
    /\ pc = "detached"
    /\ LET from == IF checkpoint = Start THEN EndOfLog ELSE checkpoint
       IN  /\ at' = UpTo(from)
           /\ asm' = Fresh(from.file)
    /\ skipped' = IF checkpoint = Start THEN DOMAIN groups ELSE skipped
    /\ pc' = "streaming"
    /\ UNCHANGED <<groups, log, drops, txns, misses, checkpoint>>

Wanted(rows) ==
    FlattenSeq([i \in DOMAIN rows |-> IF rows[i].wanted THEN <<rows[i]>> ELSE <<>>])

Stored == {txns[i].id : i \in DOMAIN txns}

AppendUnfiltered(txn) ==
    txns' = IF txn.id \in Stored THEN txns ELSE Append(txns, txn)

\* AppendTransaction: a transaction already stored is not stored again.
AppendTransaction(txn) ==
    txns' = IF txn.id \in Stored THEN txns
            ELSE Append(txns, [txn EXCEPT !.rows = Wanted(@)])

Reading == pc = "streaming" /\ at < Len(log)

NextEvent == log[at + 1]

\* One event: the miss it is recorded, then the transaction, with the
\* checkpoint, unless none of its rows is wanted.
HandleEvent ==
    /\ Reading /\ NextEvent.type # "xa"
    /\ LET r == Handle(asm, NextEvent)
       IN  /\ asm' = r.asm
           /\ misses' = misses \cup ToSet(r.miss)
           /\ IF r.txn = <<>> \/ Wanted(r.txn[1].rows) = <<>>
              THEN UNCHANGED <<txns, checkpoint>>
              ELSE /\ AppendTransaction(r.txn[1])
                   /\ checkpoint' = [file |-> r.asm.logFile, pos |-> NextEvent.pos]
    /\ at' = at + 1
    /\ UNCHANGED <<groups, log, drops, pc, skipped>>

\* An attempt ends between two events, at the commit, or with the miss of an
\* event recorded and its transaction not.
Drop ==
    /\ drops < MaxDrops /\ drops' = drops + 1
    /\ pc = "streaming" /\ pc' = "detached"
    /\ at' = 0 /\ asm' = Fresh(1)
    /\ UNCHANGED <<groups, log, txns, checkpoint, skipped>>

StreamFails == Drop /\ UNCHANGED misses

StoreFails ==
    /\ Reading /\ NextEvent.type # "xa"
    /\ misses' = misses \cup ToSet(Handle(asm, NextEvent).miss)
    /\ misses' # misses
    /\ Drop

HandleXA ==
    /\ Reading /\ NextEvent.type = "xa"
    /\ pc' = "halted" /\ at' = 0 /\ asm' = Fresh(1)
    /\ UNCHANGED <<groups, log, drops, txns, misses, checkpoint, skipped>>

Next == \/ \E kind \in Kinds, named \in Naming : Write(kind, named)
        \/ Rotate \/ Attach \/ HandleEvent \/ StreamFails \/ StoreFails \/ HandleXA

Spec == Init /\ [][Next]_vars
----------------------------------------------------------------------------
(***************************************************************************)
(* What the log says, read without the assembler                           *)
(***************************************************************************)
\* The statements of a transaction that are to be stored, and those whose rows
\* are a miss: none of one that does not take effect.
StoredOf == [insert |-> <<2>>, statements |-> <<1, 2>>, unwanted |-> <<>>, unreadable |-> <<1, 3>>,
             rolledback |-> <<>>, ddl |-> <<1>>, session |-> <<>>, compressed |-> <<3>>,
             create |-> <<1, 2>>, xa |-> <<>>]

MissedOf == [kind \in DOMAIN Forms |-> CASE kind = "unreadable" -> {2}
                                         [] kind = "compressed" -> {1, 2}
                                         [] OTHER -> {}]

Kept(g) == [i \in DOMAIN StoredOf[groups[g]] |-> [group |-> g, stmt |-> StoredOf[groups[g]][i]]]

Missing(g) == {[group |-> g, stmt |-> n] : n \in MissedOf[groups[g]]}

Changes(rows) == [i \in DOMAIN rows |-> [group |-> rows[i].group, stmt |-> rows[i].stmt]]

Passed(g) == \A i \in DOMAIN log : log[i].group = g => i <= at \/ i <= UpTo(checkpoint)

----------------------------------------------------------------------------
(***************************************************************************)
(* Properties                                                              *)
(***************************************************************************)
\* Rows that cannot be read are recorded as a miss, or were followed in their
\* payload by others that are: unwrap has room for one.
MissKept(x) == \/ x \in misses
               \/ /\ groups[x.group] = "compressed"
                  /\ \E y \in misses : y.group = x.group /\ x.stmt < y.stmt

\* What the stream has gone past is in the store: the rows of a transaction
\* that took effect among the stored ones, those that cannot be read among
\* the misses, one of each payload at least (handle, stream, unwrap,
\* AppendTransaction).
NothingDropped ==
    \A g \in DOMAIN groups \ skipped :
        Passed(g) =>
            /\ \A x \in ToSet(Kept(g)) : \E i \in DOMAIN txns : x \in ToSet(Changes(txns[i].rows))
            /\ \A x \in Missing(g) : MissKept(x)

\* The statement named with a change caused it, or is one before it in its
\* transaction whose own rows could not be read: those return before the
\* announcement is cleared.
QueryIsOf(row) == \/ row.query = row.stmt
                  \/ /\ row.query < row.stmt
                     /\ [group |-> row.group, stmt |-> row.query] \in Missing(row.group)

\* A stored change never names a statement that other stored rows were
\* announced with, though a statement is announced once and may be followed
\* by one that is not (appendRows: "it describes those rows and not whatever
\* follows them", which it keeps to but after unreadable rows).
QueriesAreTheirs ==
    \A i \in DOMAIN txns : \A row \in ToSet(txns[i].rows) : row.query # 0 => QueryIsOf(row)

\* Between two transactions nothing of the last one is left to go into the
\* next, and the file that positions are read against is the one the stream
\* is in (reset, query_, the rotate event, the assembler of a new attempt).
NothingLeftOver ==
    pc = "streaming" /\ (at < Len(log) /\ at > 0 => log[at].group # NextEvent.group) =>
        /\ asm.events = <<>> /\ asm.query = 0
        /\ asm.logFile = IF at < Len(log) THEN NextEvent.file ELSE EndOfLog.file

\* What the source committed of the tables asked for, and what the store has.
Committed == FlattenSeq([g \in DOMAIN groups |-> IF Kept(g) = <<>> THEN <<>> ELSE <<Kept(g)>>])

Recorded == [i \in DOMAIN txns |-> Changes(txns[i].rows)]

Promise == INSTANCE Delivery WITH committed <- Committed, recorded <- Recorded

\* The store keeps the promise of Delivery: whole transactions, once each, in
\* order and without a hole (assembler: "the source applied it as one").
Delivers == Promise!Spec
=============================================================================
