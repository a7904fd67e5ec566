# A verification project for mulligan

mulligan follows the binary log of a MySQL or MariaDB server into a *window
store* (one SQLite file) and, from the store or from binlog files, writes the
SQL that undoes the row changes of a window. What it promises is narrow and
easily lost: a script holds **every** change of its window or is refused, and
running it brings the table back. The modules here state that promise, part by
part, and check it: TLC on small instances, TLAPS for every value of the
constants. Every invariant and action property of the passing runs is proved,
and so is the refinement; liveness is model-checked.

Sections: [1 the system](#1-the-system), [2 the modules](#2-the-modules),
[3 the runs](#3-the-runs), [4 fairness](#4-fairness),
[5 the proofs](#5-the-proofs), [6 findings](#6-findings),
[7 what is assumed and not modelled](#7-what-is-assumed-and-what-is-not-modelled),
[8 plan](#8-plan). `PROJECT.json` has the same in tables: every mapped
definition with the lines it stands for, every run, mutant, hazard and finding.

## 1 The system

```
  MySQL/MariaDB ── binlog stream ──> source/mysql ── writes ──> store (SQLite)
                                     Run, stream,               txn, row_change, gap,
                                     attach, assembler          miss, meta
                                          ^                        |        |
                                 cli/watch: claim, coverage,       |        |
                                 pruner, shutdown          api: changes,  cli: generate
                                                           revert, status      |
                                                                |              v
                                                                └─> reverse, script ──> SQL ──> operator
```

| component (package) | state | operations | what is hard | what makes it correct |
|---|---|---|---|---|
| window store (`internal/store`) | transactions with their row changes, gaps, misses; the meta rows with the checkpoint and the coverage bounds | `AppendTransaction`, `RecordGap`, `RecordMiss`, `OpenCoverage`, `AdvanceCoverage`, `Prune`; `EachEvent`, `Page`, `checkCoverage`, `Integrity` | pruning forgets rows, gaps and misses each by its own date; a redelivery; power loss under `synchronous=NORMAL` | a window that is answered is complete; a transaction is stored once; the checkpoint is never past what is stored |
| claim (`store/claim.go`, `lock_*.go`) | an advisory lock on a file | `Claim`, `Release`, the kernel at process exit | a platform without locks | one collector at a time, so that row ids follow the source |
| collector (`source/mysql/source.go`) | the attempt: the checkpoint read, the stream, `startFresh` | `Run`, `stream`, `attach`, `unresumable` | reconnecting in the middle of a transaction, a purge of the server's logs, a log read behind the clock | nothing is passed over in silence, and everything is read in the end |
| assembler (`source/mysql/assemble.go`) | log file, GTID, statement text, rows so far | one handler per event | what one transaction leaves to the next; identifiers that repeat; compressed transactions | stored transactions are the committed ones, whole, once and in order |
| watch (`cli/watch.go`) | the context, the pruner | claim, open coverage, run, prune on a timer, shut down | who waits for whom | it gets to its end and releases the store |
| timeline (`api/changes.go`, `store/page.go`) | none; the client keeps a cursor | `handleChanges`, `Page`, `Change` | appends and prunes between pages | no change twice, none left out |
| script generation (`cli/run.go`, `api/revert.go`, `script/writer.go`) | the output | two passes over the window, trailer, sync, close, rename | snapshots of different instants, errors after the status is sent, a kill or a power loss between any two steps | a script that looks finished, or has the name asked for, is complete |
| reverse engine (`internal/reverse`) | none | `Plan`, `Statement` | order, keys that are reused, generated columns, other sessions | the table steps back one change per statement |
| status (`store/status.go`, `integrity.go`, `api/status.go`, `cli/status.go`) | none | `Status`, `Verdict`, `Integrity` | several reads while a collector writes; what was said is relied on later | a report is of one moment; OK means that the store answers |
| row codec (`store/codec.go`, `change/raw.go`) | the records in the store | `EncodeRow`, `DecodeRow`, `EncodeColumns`, `DecodeColumns` | numbers of varying length, records cut, altered or from a newer build | what went in comes out as the same literal; what did not go in does not come out |
| binlog files (`internal/binlog`, `generate` from files) | none | `ReadFile`, `eventsFrom`, `eventsFromFiles` | a second way through the same log, one event at a time | both ways undo the same changes |
| literals, preflight, detail route, HTTP and CLI | none shared | see section 7 | text | the repository's table and golden tests |

Interaction is through the store alone, but for the calls inside one process:
`watch` runs the source and the pruner as two goroutines on one store handle;
`serve`, `generate` and `status` are other processes, or requests, that read
snapshots of it. Every write is one SQLite transaction, so a write is one step of a model
and the interleavings that count are those *between* writes, between a read and
what is done with it, and between the passes of one command.

## 2 The modules

`WindowStore` is the store as a value, with one operator for each of its
writes and reads; it has no variables, and the modules that use the store
apply the operators in their actions.

```
  (P): theorems and proofs.  A line is EXTENDS where nothing else is said.

  WindowStore ─┬─ WindowStoreProofs (P) ─── CollectorProofs and ReadersProofs too
               ├─ Collector ─┬─ MCCollector
               │             └─ CollectorProofs (P) ─── CollectorOrderProofs (P)
               └─ Collecting ─┬─ Timeline ─┐
                              ├─ Script ───┼─ Readers ─── ReadersProofs (P)
                              └─ Status ───┘
  Delivery ──INSTANCE── Assembler ─┬─ Files ─────────────── FilesProofs (P)
                                   └─ AssemblerProofs (P) ─── FilesProofs too
  Revert ─── RevertProofs (P)
  Codec ─┬─ MCCodec
         └─ CodecProofs (P)
```

**WindowStore** (`internal/store`). A transaction with its changes is one
element of `txns` (they are written in one SQLite transaction): the id that
orders a revert, the identifier the source gave it, its date in seconds. Gaps
carry a history field, the log positions they were written on behalf of. Ids
are given out the way SQLite gives out an INTEGER PRIMARY KEY, from the largest
in use, so pruning can bring one back. `Answers` is `checkCoverage`.

**Collector** (`watch`, `Run`, `stream`, `attach`, `Claim`). A server appends
transactions of five kinds to its log and purges old parts of it; each watch
process goes through

```
  down ──Start──> idle ──LoadCheckpoint──> attaching ──Resume, AttachAtCurrent──> streaming
  attaching, streaming ──Refused──> lost ──RecoverFromPurge──> idle
  attaching, streaming ──Disconnect──> idle
  streaming ──HandleXA──> halted        lost ──GapFails──> halted
  idle, attaching, streaming ──Cancelled──> halted ──Return──> down
```

and, streaming, through one action for each event that changes something:
unstamped events (rotate, heartbeat), table maps, unreadable rows, commits that
are stored, commits with nothing left to store, XA. Failures (a lost
connection, a refusal that is not a purge, a gap that cannot be written, a
signal, a kill, a power loss that takes the unsynced writes) are chosen by the
constant `Faults` and counted. Positions are indices into the log. The dates of
a transaction and of its unreadable rows may precede the commit by up to
`Skew`: they are the dates of statements, and the server logs commits.
`late` and `unseen` are history: what an attach without a checkpoint jumped
over. In `Collector` a transaction is one entry of the log; what it is made of
is Assembler's matter, and `missed` is the only thing it remembers from inside
one.

**Assembler** (`assembler.handle` and the loop of `stream` over it). Here the
log is events in files: the event that names a transaction, `BEGIN`, row
events, annotations, DDL, `COMMIT`, rotations, a compressed payload with its
inner events, XA. A transaction with unreadable rows annotates them and not the
rows that follow, and a compressed payload has two such events: the forms in which
the handlers keep something too long, or one thing too few (findings 11 and
12). The handlers are functions from an assembler and an event to
the assembler after it with a transaction or a miss at most; a compressed
transaction applies them to its inner events in turn (`UnwrapNext`). Attempts end between two events or between the
write of a miss and that of its transaction.

**Delivery** is the abstract specification: two sequences, what was committed
and what is recorded, and a step that records the next committed transaction
whole. `Assembler` implements it under the refinement mapping
`committed <- the statements each transaction keeps`, `recorded <- the txn rows
in the order of their ids`.

**Files** adds the other way to the same log: what `eventsFrom` makes of each
event and when `ReadFile` stops, beside the rows the collector has stored once
it has read all there is.

**Collecting** is the environment of the readers: a store appended to, moved on
by heartbeats and pruned, with holes recorded as gaps and misses. **Timeline**
is a client that follows the cursors of `GET /api/changes`; **Script** the two
passes of `generate` and of `GET /api/revert`, and what follows them, each a step
that can fail: the trailer (`CloseWriter`) and, of a file, `SyncFile`,
`CloseFile` and `Rename`. `Kill` stops a process at any of these without its
deferred calls, and `PowerLoss` takes from a file that is not `synced` any end
of what was written, and may keep or lose a rename;
**Status** the report of `mulligan status` and `GET /api/status`: the clock,
then one snapshot, then the integrity check, each a step of its own. **Readers**
puts the three beside one store and says who goes on. A behaviour has one reader: no reader changes
anything the store or another reader sees, so what is to be seen of several is
seen of each alone.

**Codec** is the encoder and the decoder as operators on sequences of bytes,
read after read as the code takes them off the front, over a state that is one
record and what becomes of it: written, refused, cut short, extended, altered a
byte, or written by a newer build. `Literal` is the part of the reverse engine
that decides which values are told apart in a statement. The values and columns
that are stored are constants, any part of what Go's types can hold
(`GoValues`, `GoColumns`); **MCCodec** picks the ones for TLC.

**Revert** runs what `reverse.Plan` made, on a table with a key, a column of
data and a generated column, or on one without a key: rows with duplicates, a
key taken again, `LIMIT 1` choosing among equal rows, NULLs, and another
session that updates or inserts.

In every module the definitions right above a mapped one that share its first
words or carry a fault in their name (`AppendWithoutConflict`,
`PageLimitedBeforeMatch`, `RecoverByForgetting`...) are mutants: the definition
with a plausible bug. No specification uses them; each property is tried
against the specification with one of them put in place, and fails.

## 3 The runs

| run | module, instance | distinct states | what it shows |
|---|---|---|---|
| `collector_window` | one collector, 2 transactions (rows, unreadable, mixed) dated up to a second before the commit, a purge, two refusals (true or spurious) or kills | 1.0 million | `AnswersAreComplete`, `GapsSpanTheirChanges`, `CheckpointNotAhead`, `CoverageNeedsAStream`, `CheckpointAdvances` |
| `collector_power` | two collectors and the lock, dates up to a second before the commit, a kill or a power loss | 1.6 million | `TypeOK`, `NoSilentLoss`, `SourceOrder`, `CheckpointAdvances` |
| `collector_unlocked` | two collectors at once, no lock, a reconnect | 0.5 million | `StoredOnce`, `NoSilentLoss` |
| `collector_live` | one collector, every failure but power, fairness | 38 thousand | `EventuallyAccounted` |
| `assembler` | 3 transactions of nine kinds, named or anonymous, two files, two failed attempts | 0.7 million | `NothingDropped`, `QueriesAreTheirs`, `NothingLeftOver`, the refinement `Delivers`; `FilesAgree` |
| `readers` | 3 changes, a gap or a miss, pages of one, three outputs, a failure, a kill or a power loss anywhere, one reader | 2.2 million | `ListedOnce`, `NoneMissing`; `TrailerMeansComplete`, `FileIsWhole`; `OKHolds`, `ReportIsOneMoment`, `NoFalseAlarm` |
| `codec` | (`MCCodec`) every row of up to two values of all types, every list of up to two columns, one byte altered | 0.2 million | `RendersTheSame`, `ColumnsComeBack`, `NothingMadeUp`, `OnlyWhatCouldBeWritten` |
| `revert` | 4 row changes, 2 keys, a value and NULL, one write of another session | 0.5 million | `NothingRejected`, `StepsBackInTime`, `OtherWritesSurvive` |
| `collector_backlog` | 2 transactions, a lost connection, fairness | | a collector that comes back to a backlog marks it as read: section 6 |
| `collector_jumps`, `collector_shutdown`, `assembler_create` | the smallest instance that shows it | | a comment of the code that the code does not keep: section 6 |

**Why the bounds are enough.** Two transactions are one that is stored and
one that is delivered again, lost, or dated before it; in `collector_window` two
failures let a recovery be followed by another, or by a kill.
`MaxClock` lets the clock pass the date of a change by more than `Retention`,
so that it is pruned, and by more than `MaxStaleness`, so that a window is
refused for age; both are one second, and no comparison in the code depends on
how far past an edge an instant is. One purge suffices to make a resume point
unreachable, and one failure to end an attempt at any place; that a second one
adds nothing to the safety of the collector is not left to the bound, but
proved (section 5). In `Assembler` two failed attempts are needed for a
transaction that is delivered a third time, two files for positions that repeat
from one file to the next. In `Revert` four events are the fewest that give a
key away, take it again and change the row in between; two keys are needed to
change one.

In `readers` a page of one makes every change a page's edge, so a timeline of
three has every place a change can come or go in between; one hole at a time,
since a second only refuses what the first did, and a prune makes room for
another. After the second snapshot of a script the store is not followed:
nothing in the script looks at it again. `Kill` may come at every step of a
script and `PowerLoss` at every step of one that goes to a file, after the
rename too. `FileIsWhole` is about what a file then holds, and not about how it
got there: without the `Sync`, a power loss after the rename breaks it, which is
its mutant.

`Codec` scales bytes and words down together. A byte has sixteen values and not
256, a number takes two bytes at most and not ten, and a word has sixteen
values and not 2^64. That keeps what the code's edges hang on: a high bit that
says more follows, a last byte of which one bit counts, a number that does not
fit a word, one that goes on for too long, and a nanosecond field that can hold
more than a second has. The values are the edges: the smallest and the largest
of each type, the last number of one byte and the first of two, a time before
1970, texts that are numbers and texts that are not. Two items suffice for one
to run into the next.

The mutants are the other half of the answer: each property fails
in its own run, under the same bounds, when the code it is about is wrong in
a plausible way.

**Deadlock** is not checked in any run: the bounds on clock, log and failures
make every model stop, and so do a `halted` watch, a finished script and a
table brought back. Where waiting for ever would be an error (`watch` and its
pruner) it is stated as a liveness property instead.

**Symmetry.** In `collector_power` and `collector_unlocked` the collectors are
model values no definition tells apart, and nothing checked there is a liveness
property.

**Skew.** The dates of transactions are not in commit order, and no run that
is about dates takes them to be. `NoSilentLoss`, `StoredOnce`, `SourceOrder`,
`CheckpointNotAhead` and `CheckpointAdvances` do not depend on it.
`GapsSpanTheirChanges` and `AnswersAreComplete` give it what the code gives it:
a gap begins at most `Skew` after the changes it was recorded for, so the last
`Skew` seconds of a window that ends before the gap may lack some of them
(finding 8). `collector_live`, which asks when and not what, has `Skew = 0`, and
so have the runs that find a violation, which need none.

**What AnswersAreComplete leaves out.** It speaks of the changes a collector
has read past, and excepts those in `late` and `unseen`, and those whose gap begins
after the window by no more than `Skew`. What is behind the exceptions is not
good: finding 8 is about the last, `collector_backlog` is about changes not yet read,
`collector_jumps` about those jumped over. The property says that there is no
fourth way to answer a window without its changes.

## 4 Fairness

`FairSpec` of `Collector` asks for weak fairness of `Run(c)` and `Return(c)`:
a process that can go on does, the server answers a request, and an event it
has sent arrives. `Run` in the code is a loop without a way to give up, with a
wait between two attempts; the attempts, the recovery and the reads are its
steps. Nothing is assumed of the server writing, purging or sending
heartbeats, of restarts (an operator's doing), of the pruner, of the disk or of
failures, whose number is bounded: a connection that fails for ever keeps
nothing from failing. `EventuallyAccounted` says what that buys, and lets go of
a change when the collector is killed, interrupted or refuses an XA
transaction. The safety runs use `Spec`, without fairness.

## 5 The proofs

Each theorem is about `Spec` of its module and holds for every value of the
constants: any number of collectors, transactions, changes, keys, values,
seconds, failures. TLC's runs show the same properties on one instance each.

| module | theorem | what it states | assumes |
|---|---|---|---|
| `CollectorProofs` | `Invariance` | `[]IInv` | |
| | `TypeCorrect` | `[]TypeOK` | |
| | `NothingLostInSilence` | `[]NoSilentLoss` | |
| | `OneRowEach` | `[]StoredOnce` | |
| `CollectorOrderProofs` | `OrderInvariance` | `[]OrderInv` | `LockSupported` |
| | `RowsInSourceOrder` | `[]SourceOrder` | `LockSupported` |
| | `OnlyPowerTakesBack` | `CheckpointAdvances` | `LockSupported` |
| | `MarkFollowsAStream` | `CoverageNeedsAStream` | |
| | `CheckpointIsSound` | `[]CheckpointNotAhead` | |
| | `GapsAreWhereTheyShould` | `[]GapsSpanTheirChanges` | |
| | `WindowsAreComplete` | `[]AnswersAreComplete` | |
| `AssemblerProofs` | `HandInvariance` | `[]HandInv` | |
| | `NothingLeft` | `[]NothingLeftOver` | |
| | `QueriesStayTheirs` | `[]QueriesAreTheirs` | |
| | `StoreInvariance` | `[]AllInv` | `NoCreate`, `MixedNaming = FALSE` |
| | `NothingIsDropped` | `[]NothingDropped` | `NoCreate`, `MixedNaming = FALSE` |
| | `StoreDelivers` | `Delivers`, the refinement of `Delivery` | `NoCreate`, `MixedNaming = FALSE` |
| `ReadersProofs` | `ReaderInvariance` | `[]ReaderInv` | |
| | `ListsOnce`, `ListsAll` | `[]ListedOnce`, `[]NoneMissing` | |
| | `ScriptsAreComplete`, `FilesAreWhole` | `[]TrailerMeansComplete`, `[]FileIsWhole` | |
| | `OKIsKept`, `ReportsAreOfOneMoment`, `AlarmsAreTrue` | `[]OKHolds`, `[]ReportIsOneMoment`, `[]NoFalseAlarm` | |
| `RevertProofs` | `RevertInvariance` | `[]RevertInv` | |
| | `NoStatementRejected`, `BackInTime`, `OthersKeepTheirs` | `[]NothingRejected`, `[]StepsBackInTime`, `[]OtherWritesSurvive` | |
| `FilesProofs` | `NoFalseMisses` | `[]MissesAreTrue` | |
| | `FilesAgreeAlways` | `[]FilesAgree` | `NoCreate`, `MixedNaming = FALSE` |
| `CodecProofs` | `CodecInvariance` | `[]CodecInv` | |
| | `CodecRendersTheSame`, `CodecColumnsComeBack` | `[]RendersTheSame`, `[]ColumnsComeBack` | |
| | `CodecNothingMadeUp`, `CodecOnlyWhatCouldBeWritten` | `[]NothingMadeUp`, `[]OnlyWhatCouldBeWritten` | |

`WindowStoreProofs` holds lemmas only: what each write does to each field of a
store (`AppendTransactionFields`, `PruneFields`, ...), and that a new id is
larger than those in use.

**Assumptions.** The modules' named `ASSUME`s (`StoreAssumption`,
`CollectorAssumption`, `CollectingAssumption`, `TimelineAssumption`,
`ScriptAssumption`, `AssemblerAssumption`, `RevertAssumption`,
`CodecAssumption`, `ValuesAssumption`) give the constants their types, a page a
limit above zero and a table a NULL that is no value. For the codec they say
that a byte has room for the codes it uses, that the nanoseconds of a second
and the length of a slice fit a word, and that what is stored is made of Go's
values. TLC evaluates each in the run of its module. Beyond those, a theorem has
only what the last column says:

- `LockSupported`: on a platform without file locks two processes may follow
  one store, and `SourceOrder` fails. `NoSilentLoss` and `StoredOnce` do without.
- `NoCreate` (no `CREATE TABLE ... SELECT` in one transaction) and
  `MixedNaming = FALSE` (a server gives all its transactions a GTID or none):
  the two halves of finding 4. A schema change leaves its GTID in hand; without
  either assumption rows, or an anonymous transaction, are stored under it and
  dropped. `StoreDelivers` says that no other rows that can be read are, and
  `NothingIsDropped` that of those that cannot only a miss is, one of a
  compressed transaction that has a later one (finding 12).
  `FilesAgreeAlways` needs both because the files do not drop what the store
  does. `NothingLeftOver` and `QueriesAreTheirs` need neither.

### The collector

`NoSilentLoss` is not inductive. A change counts as accounted for when its rows
are stored, when it is behind the coverage boundary, or when a gap or a jump
covers it; `Prune` takes rows and gaps away, and only their dates, as the store
has them, decide which. So `IInv` says that a stored row has the date of the
transaction it stands for (`RowsAreFaithful`), and that a gap ends no earlier
than the changes it was recorded for (`GapsEndLate`): whatever Prune removes is
then behind the boundary it sets. That a gap ends late enough needs that nothing
in the log is dated after the clock. What a collector has in memory has to be
accounted for as well (`SessionInv`): the checkpoint it read, since `Resume` and
`RecoverFromPurge` go by it long after; the place it has read to; and the miss it
has recorded of the transaction it is in, since a transaction with a miss is
passed over on the strength of that. And the same is said of `disk`, which a
power loss makes the store. `StoredOnce` is one part of the invariant and needs
that ids are bounded (`IdsBounded`), or the largest would not exist.

A write to the store keeps what was accounted for. That is shown once
(`WriteKeeps`, from `Keeps`) and each write is shown to be such a write
(`AppendKeeps`, `GapKeeps`, `PruneKeeps`, ...); a step is then a write with
little else (`WriteStep`), a step that leaves the store alone (`QuietStep`), or
the end of an attempt (`LeaveInv`). Only `Commit`, `HandleCommit`,
`HandleDropped`, `HandleUnreadable`, `LoadCheckpoint`, `Resume`,
`AttachAtCurrent`, `RecoverFromPurge` and `PowerLoss` have an argument of their
own.

*The order of things* (`OrderInv`): with a lock at most one process is up
(`OneAtATime`), what the store and the disk hold is in the order of the log and
no further than the checkpoint (`OrderOf`), and a session is not behind the
store (`NotBehind`), so that what it stores next comes after everything there.
`CheckpointAdvances` and `CoverageNeedsAStream` are action properties: every
action is classed by what it may do to the store (`WritesStore`, `StoresNext`).

*Windows.* `RowsAtCheckpoints` says that some row is dated at the checkpoint or
later as long as there are rows, which survives pruning because what it leaves
is dated after what it takes. `SpanInv` says that no commit is dated more than
`Skew` before an earlier one, and that the checkpoint and every session's copy of
it carry the date of the transaction at their position; a gap therefore begins
before what it covers, give or take `Skew`. It therefore meets a window that holds
one of its changes and goes on for `Skew` after it (`ClearOfGaps`), and the rest of
`AnswersAreComplete` is `NoSilentLoss`: the change is stored, refused for, or
excepted.

### The assembler

`HandInv` says of the log that it is made of whole transactions
(`WholeTransactions`) and that positions rise inside a file (`PositionsRise`);
of the assembler, that it holds exactly what the place in the log calls for
(`Hand`, `Holding`: the rows and the announced statement of the events since the
transaction began); and of the checkpoint, that it is the position of an event
after which nothing is in hand. A resume thus finds an assembler with nothing in
it at a place that calls for nothing, and each handler takes one `Hand` to the
next; a compressed transaction is the same step for step of its inner events.
The statement in hand is the last one announced since readable rows came, those
that cannot be read leave it there, and what is stored is what the events of one
transaction left in hand at some place of it (`RowsAreGiven`); for each form that
gives the statements its rows can name, and `QueriesStayTheirs`.

`StoreInv` adds the store. Transactions are in the log in the order of their
numbers and each once (`Placed`, `Ordered`). There is an `f`, the transactions
committed before the first attach, such that what was committed up to the
checkpoint is what was committed up to `f` followed by what is recorded
(`DoneUpTo`), and so it is up to where the stream is. What lies
between the two left nothing to store. A row's identifier, a GTID or a file and
a position, is that of a transaction the stream has gone past (`IDsUpTo`,
`NamesAgree`), so that none to come is taken for a redelivery and dropped; and
the GTID in hand is that of the transaction the stream is in (`NameInHand`).
Misses are recorded before the transaction they are in ends
(`MissesInHand`; of a payload, those that `ToldOf` says get out of it), and an attempt that ends in between only records them again.
`Delivery`'s steps are then the server's, which commit a transaction, and those
in which a handler gives one out; every other step stutters. The
sequences of sequences that `Committed` flattens are reasoned about by
`FlatExists` and its kin, with induction over the natural numbers as a set
(`NatSets`), since the library's rule takes an operator.

### The readers

`ReaderInv` is the window (`WindowInv`: rows are faithful, distinct and in
order, nothing collected is missing but behind the boundary, nothing is dated
after the clock) and, on top of it, an invariant of each reader. What the
collector does under a reader's eyes is one relation (`WindowMoves`): coverage
and clock only grow, a hole that goes is behind the boundary, a row that comes
stands for a new change. Each reader's invariant is shown to survive that
relation once, instead of once for each write. A timeline's is that what was
there at the beginning, is there still and is not behind the cursor is listed; a
script's, that every change of its window is written or left to write, newest
first, until it has its trailer, that what has a trailer keeps it and its
statements or loses the trailer first, and that only what is synced is renamed
(`TrailerOK`, kept by the failures, kills and power losses of `EndStep`); a report's, that a hole it was told of is in it or behind the coverage it
gives. `OKHolds` then follows from the bounds of a window and
those of the staleness alone.

### The script on a table

`RevertInv` keeps the history (`HistoryOK`: each event takes one past table to
the next, no row name is used twice, a datum changes only in an update), the plan
(`PlanOK`: what is left of the script is the undoing of what is left of the
window, in reverse), the table (`TableOK`: keys are unique and rows still to
come back are not there) and, for a table nobody else writes to, that it *is* the
past table, up to the names of rows with the same contents. With others writing,
`SurviveOK` says row by row what the table and the table it should become have
in common. That a key is free when it is taken again is `KeysUnique` of the past
table, which the table is.

### The binlog files

A scan of the files has no steps to take an invariant through, so it is
followed along the log instead (`Along`). After any number of events, what the
scan has kept (`Scanned`) has the row changes of the transactions that have
ended, as they were committed (`KeptUpTo`), and of the one that is open (`Inside`)
those its events have had so far. That is an induction over the log, with
`LogInv` of `AssemblerProofs` to say which transaction an event is of and which
event of it. At the end it gives, for a log without
the kinds of finding 9, that the scan refuses exactly when some transaction has
rows that cannot be read (`WhereItRefuses`), and otherwise has what was
committed. The store has what was committed by `StoreInvariance`, once it
has read everything (`StoredIsCommitted`), and a miss for every row that could
not be read. That it has no other is an invariant of its own, `MissesAreTrue`: a
miss is only ever recorded for rows missing from a transaction that the log has.
It holds for every log, however it is named and wherever a stream begins.

### The codec

Reading is made of readers, functions from bytes to a value and the bytes
behind it, or to a refusal, and so is the argument. Of each reader, from the
digit of a number up to the items of a row, three things are shown:
it gives only what its writer could have written (it is in `Reading` of that
set); it does not look at what comes behind (`Carries`: more bytes at the end
are left over and change nothing); and it takes back what its writer put down.
Putting one reader after another keeps all three. The first gives
`OnlyWhatCouldBeWritten`: what is read can be stored, and by the third comes back. From the
second and the third follows `NothingMadeUp`: a record that was cut, read with
what was cut off put back, would have to leave something over; one that was
extended does leave it, and a newer one is refused at its first byte. `RendersTheSame`
and `ColumnsComeBack` are the third, with what
the tag of a value forgets and keeps. `CodecInv` says what the record was and
what became of it (`Became`); it is inductive since each of a record's ends is
one step from a written one. Digits and items are recursive functions: that they
exist and step as they say is proved (`StepsExist`), and induction runs over
sets of numbers (`NatSets`).

### Only model-checked

- `EventuallyAccounted`: liveness under fairness is beyond this prover.

The mutants and the runs that find a violation are TLC's as well: what the code
gets wrong (section 6) is shown on an instance.

## 6 Findings

Where the code and what it says of itself part ways. The first four have a run
that TLC finds violated; `PROJECT.json` quotes the lines.

1. *Jumped over, and answered.* `watch` opens coverage, then connects and
   attaches at the server's current position. A change committed between the
   two is jumped over and lies inside the coverage. The same happens after a
   reconnect while only unwanted transactions went by, and after a purge, where
   the gap ends before the position the next attempt reads (`collector_jumps`).
2. *Coverage ahead of the reading.* The rotate event that opens a stream has no
   timestamp and moves coverage to the clock, also when a backlog is still to
   be read: a window up to now is answered without it. `collector_backlog` shows
   a collector that stored one transaction, lost its connection with another to
   be read, and resumed from its checkpoint: the mark passes the second before
   it is read.
3. *A watch that does not return.* When `Run` returns an error, the deferred
   wait for the pruner comes before the deferred cancellation the pruner waits
   for (`collector_shutdown`).
4. *CREATE TABLE ... SELECT.* Under one GTID the schema change takes the
   transaction's identifier and its rows are dropped as a redelivery
   (`assembler_create`). With `MixedNaming = TRUE` in `assembler.cfg` an anonymous
   transaction after a named schema change goes the same way.
5. *Ids are given out again* after pruning has removed the newest rows, though
   a comment says that they do not move. A timeline read to its end comes to no
   harm; a kept change id may lead to another change.
6. *The warning of a schema change* is from the first pass and the statements
   are from the second; one collected in between is not warned of.
7. *DEFAULT_GENERATED.* MySQL 8 reports it in EXTRA for a column with an
   expression default, which preflight takes for a generated column; such a
   column is then never restored.
8. *Gaps begin at a date, not at a position.* A gap begins at the date of the
   last stored transaction; one committed after it may be dated before it, and
   lies outside the gap that was recorded for it. A window that ends before the
   gap is answered without it. How far outside is bounded by the disorder of the
   dates (`GapsSpanTheirChanges`), and so is what is lost
   (`AnswersAreComplete`).
9. *What a script from files leaves out or puts in.* `eventsFrom` looks at one
   event at a time: it passes over a compressed transaction whole, and scripts
   rows that were rolled back or belong to an XA transaction not yet committed.
   The collector unwraps, discards and refuses them. `FilesAgree` excepts these
   three kinds (`Blind`), and holds for the others.
10. *A script from files is not renamed into place* but written under its own
    name, and has no trailer: part of one looks like a whole one.
11. *A statement that outlives unreadable rows.* They return before the
    announced statement is cleared; rows without one of their own get it.
    `QueriesAreTheirs` excepts this case and no other.
12. *Two misses in one compressed transaction.* The last one is kept.
    `NothingDropped` excepts this case and no other.
13. *Bind is called once*, at the start of `watch`, and not on every connect.
14. *The integrity check runs inside the read transaction* of `Status`, which a
    comment says it does not.
15. *A bare time in the hour that clocks repeat* may mean the one before the
    most recent.

## 7 What is assumed, and what is not modelled

*Assumed of the outside*, and marked external in the map: the server's log is a
sequence of transactions that are logged when they commit, each dated by events
that precede the commit; a table map precedes its rows with their date; a
stream opens with an artificial rotate event; a heartbeat is sent by an idle
server; position and GTID say which transactions come next; the events inside a
compressed payload take the payload's position; the kernel releases a lock with
its process; SQLite writes one transaction at a time and, under
`synchronous=NORMAL` with a WAL, loses the last ones and no others at a power
loss; a file that was synced keeps its content, one that was not keeps some
beginning of it, and a rename reaches the disk before or after the content;
MySQL runs `UPDATE` and `DELETE ... LIMIT 1` on one of the rows that
match, holds primary keys unique and computes generated columns.

*Abstracted.* Seconds, not nanoseconds, as in the store and the binlog. One
change per transaction in `Collecting`, and tables by name nowhere: a filter by
table only makes a window smaller. Retry waits take no time. One clock for the
server and the collector.

The *quoting* of text and bytes in a literal, and what a float looks like in
one, are not looked into: `Literal` keeps which values have one and which share
one. In `Codec` a float is one byte or two.

*Not modelled:*
- quoting, comments, display and layout of a script: functions of text without
  state, with tables of tests of their own;
- opening a store, its settings, `Bind` and migrations: they come once, before
  anything modelled here, and the list of migrations is empty. Two processes
  that open a new store at the same instant can fail each other (a hazard in
  `PROJECT.json` without a property); a store is bound to one server here;
- preflight and connection strings: asked once, before collecting. The columns
  preflight read are constants of `Revert`;
- the detail route: one row read by its id. That ids come back is finding 5;
- HTTP routing, the token check, the shutdown of `serve` and flags: requests
  share nothing but the store, and a response that is cut off is
  `StepFails` of `Script`, a server that dies `Kill`;
- a window with a bare time, which the server resolves again for every page of
  a timeline: `Timeline` asks with dates;
- in the assembler: savepoints;
- in the collector, two pieces no run of the program reaches: a transaction the
  store can never encode, and the gap check on the first event of a resumed
  stream, which asks for a timestamp that the first event, an artificial one,
  does not have.

## 8 Plan

What was written, in this order, and why: `WindowStore` and `Collector` with
its proofs (the promise stands or falls with them), `Assembler` over `Delivery`
(what a transaction is), `Script` and `Timeline` (the readers), `Revert` (what
running a script does); then `Status` and `Readers` with gaps and misses under
all three, `Codec`, and `Files` over `Assembler`.

To extend the model:
- savepoints, as further `Forms` of `Assembler`;
- a log that starts over (`RESET MASTER`), with `Bind`, and two processes that
  open one store;
- a schema that changes while a collector runs, with the columns preflight read;
- `Collector` shown to implement `Delivery` between two jumps, and `Assembler`
  composed with the store's coverage.

To prove: `Collector` implementing `Delivery` between two jumps, once it is
stated, and each extension above with its component's invariant.
