------------------------------- MODULE Files -------------------------------
(***************************************************************************)
(* A script generated from the server's binlog files, beside the store a   *)
(* collector made of the same log: eventsFromFiles and ReadFile look at    *)
(* one event at a time, without the assembler (internal/cli/run.go,        *)
(* internal/binlog/read.go).  The files keep no state; what there is to    *)
(* show is that the two ways in undo the same changes.                     *)
(***************************************************************************)
EXTENDS Assembler

NoFile == [refused |-> TRUE, changes |-> <<>>]

\* eventsFrom, of one event: the changes of the tables asked for, and schema
\* changes.  What says of the others whether they took effect is passed over.
EventsFrom(e) ==
    IF e.type \in {"rows", "ddl"} THEN <<[group |-> e.group, stmt |-> e.stmt]>> ELSE <<>>

UnreadablePassedOver(events) ==
    [refused |-> FALSE, changes |-> FlattenSeq([i \in DOMAIN events |-> EventsFrom(events[i])])]

\* ReadFile of each file in the order of the log, which is the order they are
\* named in: rows that cannot be converted stop the scan.
EventsFromFiles(events) ==
    IF \E i \in DOMAIN events : events[i].type = "unreadable" THEN NoFile
    ELSE [refused |-> FALSE,
          changes |-> FlattenSeq([i \in DOMAIN events |-> EventsFrom(events[i])])]

\* splitSchemaChanges: only rows are reversed.
RowChanges(changes) ==
    FlattenSeq([i \in DOMAIN changes |->
                   IF groups[changes[i].group] # "ddl" THEN <<changes[i]>> ELSE <<>>])

----------------------------------------------------------------------------
\* The files were read while the collector had stored all there was.
CaughtUp == pc = "streaming" /\ at = Len(log) /\ skipped = {}

\* Kinds of which a file scan does not see, or does not know, what became of
\* the rows.
Blind == {"compressed", "rolledback", "xa"}

\* A script from the files and one from the store undo the same changes in
\* the same order, and where the files refuse the store does: it has a miss
\* (eventsFrom: "silently dropping it would return a revert script missing the
\* statement that caused the damage").
FilesAgree ==
    CaughtUp /\ ToSet(groups) \cap Blind = {} =>
        LET files == EventsFromFiles(log)
            stored == FlattenSeq([i \in DOMAIN txns |-> Changes(txns[i].rows)])
        IN  IF files.refused THEN misses # {}
            ELSE misses = {} /\ RowChanges(files.changes) = RowChanges(stored)
=============================================================================
