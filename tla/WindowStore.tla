---------------------------- MODULE WindowStore ----------------------------
(***************************************************************************)
(* The window store of internal/store: the rolling window of collected     *)
(* transactions in one SQLite file, with the checkpoint, the coverage      *)
(* bounds and the record of what is known to be missing.                   *)
(*                                                                         *)
(* Every write the program makes is one SQLite transaction, so each is an  *)
(* operator from a store value to the next one; modules that use the store *)
(* apply them in their actions.  Instants are whole seconds (the store     *)
(* keeps Unix seconds) and 0 is the unset instant: Go's zero time, or a    *)
(* meta row that does not exist.                                           *)
(***************************************************************************)
EXTENDS Integers, FiniteSets, FiniteSetsExt

CONSTANTS Retention,    \* seconds of history to keep; 0 keeps everything
          MaxStaleness  \* seconds the high-water mark may trail the clock

ASSUME StoreAssumption == /\ Retention \in Nat
                          /\ MaxStaleness \in Nat

Instant == Nat

(***************************************************************************)
(* txns      the txn rows with their row_change rows; id is the integer    *)
(*           primary key that orders a revert, src the source_txn_id (the  *)
(*           log position of the commit), at the committed_at column.      *)
(* gaps      periods known not to be recorded.  covers is a history field: *)
(*           the log positions the row was written on behalf of.           *)
(* misses    instants of changes that were seen and could not be read.     *)
(***************************************************************************)
Txn == [id : Nat, src : Nat, at : Instant]

Gap == [from : Instant, to : Instant, covers : SUBSET Nat]

Checkpoint == [pos : Nat, at : Instant]

Store == [txns : SUBSET Txn, gaps : SUBSET Gap, misses : SUBSET Instant,
          checkpoint : Checkpoint, from : Instant, to : Instant]

ZeroCheckpoint == [pos |-> 0, at |-> 0]

IsZero(cp) == cp.pos = 0

EmptyStore == [txns |-> {}, gaps |-> {}, misses |-> {},
               checkpoint |-> ZeroCheckpoint, from |-> 0, to |-> 0]

Sources(s) == {t.src : t \in s.txns}

\* What lets NextId find a largest id: there are finitely many rows.
IdsBounded(s) == \E bound \in Nat : \A t \in s.txns : t.id <= bound

----------------------------------------------------------------------------
(***************************************************************************)
(* Writes                                                                  *)
(***************************************************************************)

\* SQLite gives an INTEGER PRIMARY KEY one more than the largest in use.
NextId(rows) == IF rows = {} THEN 1 ELSE 1 + Max({t.id : t \in rows})

Later(a, b) == IF a < b THEN b ELSE a

\* The high-water mark moves, never backwards.
AdvanceCoverage(s, when) == [s EXCEPT !.to = Later(@, when)]

Insert(s, src, at) ==
    s.txns \cup {[id |-> NextId(s.txns), src |-> src, at |-> at]}

\* (the mutants of this module and of those that use it: a definition with a
\* fault put into it, against which a property is tried)
AppendWithoutConflict(s, src, at) ==
    AdvanceCoverage([s EXCEPT !.txns = Insert(s, src, at),
                              !.checkpoint = [pos |-> src, at |-> at]], at)

\* One source transaction, the checkpoint it moves to and the coverage it
\* reaches, all or nothing.  A transaction already stored is not stored
\* again, and the checkpoint is written all the same.
AppendTransaction(s, src, at) ==
    AdvanceCoverage(
        [s EXCEPT !.txns = IF src \in Sources(s) THEN @ ELSE Insert(s, src, at),
                  !.checkpoint = [pos |-> src, at |-> at]],
        at)

RecordGap(s, from, to, covers) ==
    [s EXCEPT !.gaps = @ \cup {[from |-> from, to |-> to, covers |-> covers]}]

RecordMiss(s, when) == [s EXCEPT !.misses = @ \cup {when}]

\* A restart leaves a coverage that is already open where it is.
OpenCoverage(s, when) == [s EXCEPT !.from = IF @ = 0 THEN when ELSE @]

PruneRowsOnly(s, now) == [s EXCEPT !.txns = {t \in @ : t.at >= now - Retention}]

\* Rows, gaps and misses behind the retention edge go, and the coverage
\* boundary moves to the edge with them.
Prune(s, now) ==
    LET edge == now - Retention
    IN  IF Retention = 0
        THEN s
        ELSE [s EXCEPT !.txns   = {t \in @ : t.at >= edge},
                       !.gaps   = {g \in @ : g.to >= edge},
                       !.misses = {m \in @ : m >= edge},
                       !.from   = Later(@, edge)]

----------------------------------------------------------------------------
(***************************************************************************)
(* Reads.  A window is a pair of bounds, inclusive, 0 for an open one.     *)
(***************************************************************************)

\* A store nobody opened coverage on covers from its earliest change.
CoverageFrom(s) ==
    IF s.from # 0 \/ s.txns = {} THEN s.from ELSE Min({t.at : t \in s.txns})

WindowBounds(s, from, to) ==
    [from |-> IF from = 0 THEN CoverageFrom(s) ELSE from,
     to   |-> IF to = 0 THEN s.to ELSE to]

AnswersDespiteMisses(s, from, to, now) ==
    LET w == WindowBounds(s, from, to)
    IN  /\ s.to # 0
        /\ now - s.to <= MaxStaleness
        /\ from # 0 => from >= CoverageFrom(s)
        /\ \A g \in s.gaps : g.to < w.from \/ w.to < g.from

\* checkCoverage: the store answers for the window.
Answers(s, from, to, now) ==
    LET w == WindowBounds(s, from, to)
    IN  /\ s.to # 0
        /\ now - s.to <= MaxStaleness
        /\ from # 0 => from >= CoverageFrom(s)
        /\ to # 0 => to <= s.to + MaxStaleness
        /\ \A g \in s.gaps : g.to < w.from \/ w.to < g.from
        /\ \A m \in s.misses : m < w.from \/ w.to < m

Match(t, from, to) == /\ from # 0 => t.at >= from
                      /\ to # 0 => t.at <= to

Events(s, from, to) == {t \in s.txns : Match(t, from, to)}

\* The check Integrity makes on the checkpoint (its other check, for a
\* transaction without rows, has no counterpart here: a transaction and its
\* rows are one element of txns).
CheckpointAhead(s) ==
    /\ ~ IsZero(s.checkpoint)
    /\ s.txns # {}
    /\ s.checkpoint.at > Max({t.at : t \in s.txns})
=============================================================================
