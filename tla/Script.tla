------------------------------- MODULE Script -------------------------------
(***************************************************************************)
(* A revert script streamed out of the window store while a collector      *)
(* appends to it and prunes it: mulligan generate, to a file or to stdout  *)
(* (generateFromStore), and GET /api/revert (handleRevert).  Two passes    *)
(* over the window, the first for the schema changes to warn of, the       *)
(* second for the statements; each reads one snapshot of the store.        *)
(***************************************************************************)
EXTENDS Collecting

CONSTANT Sinks  \* where a script may go

\* file      generate -out: a temporary file, renamed when it is written
\* stdout    generate
\* response  the body of GET /api/revert
ASSUME ScriptAssumption == Sinks \subseteq {"file", "stdout", "response"}

VARIABLES
    pc,       \* idle, opened, scanned, writing; ended, flushed and closed, of a
              \* file; done, failed or dead
    sink,     \* where the script goes
    now,      \* when the request was received, of a response
    todo,     \* what is left of the snapshot of the second pass
    bound,    \* history: its lower bound
    upto,     \* history: how many changes had been collected by then
    written,  \* the statements written, by the changes they undo
    trailer,  \* what the script ends with: nothing, an error, its end
    synced,   \* what is written is on the disk
    renamed   \* the file asked for is the one written

passes == <<now, bound, upto>>
script == <<pc, sink, passes, todo, written, trailer, synced, renamed>>

InitScript ==
    /\ pc = "idle" /\ sink = "none"
    /\ now = 0 /\ todo = {} /\ bound = 0 /\ upto = 0
    /\ written = <<>> /\ trailer = "nothing"
    /\ synced = FALSE /\ renamed = FALSE

\* A run that fails: the temporary file is removed; a response whose status
\* is sent says so in its last line.
Fail ==
    /\ pc' = "failed"
    /\ written' = IF sink = "file" THEN <<>> ELSE written
    /\ trailer' = CASE sink = "file" -> "nothing"
                    [] sink = "response" /\ pc # "opened" -> "error"
                    [] OTHER -> trailer
    /\ synced' = FALSE
    /\ UNCHANGED <<window, asked, sink, passes, todo, renamed>>

\* handleRevert reads the clock once, generateFromStore before each pass.
Begin(w, to) ==
    /\ pc = "idle" /\ pc' = "opened"
    /\ asked' = w /\ sink' = to
    /\ now' = IF to = "response" THEN clock ELSE now
    /\ UNCHANGED <<window, todo, bound, upto, written, trailer, synced, renamed>>

Now == IF sink = "response" THEN now ELSE clock

\* EachEvent refuses before it hands over anything.
Refuses == ~ Answers(store, asked.from, asked.to, Now)

Visited(kinds) == {t \in Events(store, asked.from, asked.to) : KindOf(t) \in kinds}

\* The schema changes it comes upon are kept for the header.
FirstPass ==
    /\ pc = "opened" /\ pc' = "scanned"
    /\ ~ Refuses
    /\ UNCHANGED <<window, asked, sink, passes, todo, written, trailer, synced, renamed>>

Snapshot ==
    /\ todo' = Visited({"rows"})
    /\ bound' = WindowBounds(store, asked.from, asked.to).from
    /\ upto' = Len(collected)
    /\ UNCHANGED <<window, asked, sink, now, written, trailer, synced, renamed>>

SecondPassUnchecked == pc = "scanned" /\ pc' = "writing" /\ Snapshot

\* The header is written with the warnings, and the second pass begins.
SecondPass ==
    /\ pc = "scanned" /\ pc' = "writing"
    /\ ~ Refuses
    /\ Snapshot

Refuse ==
    /\ pc \in {"opened", "scanned"} /\ Refuses
    /\ Fail

Latest == CHOOSE t \in todo : \A u \in todo : u.id <= t.id

\* Statement reverses the newest change left, and Write flushes it.
WriteStatement ==
    /\ pc = "writing" /\ todo # {}
    /\ written' = Append(written, Latest)
    /\ todo' = todo \ {Latest}
    /\ UNCHANGED <<window, asked, pc, sink, passes, trailer, synced, renamed>>

\* Nothing is left: Close writes the trailer and flushes it, and a script that
\* goes to no file is done.
CloseWriter ==
    /\ pc = "writing" /\ todo = {}
    /\ trailer' = "end"
    /\ pc' = IF sink = "file" THEN "ended" ELSE "done"
    /\ UNCHANGED <<window, asked, sink, passes, todo, written, synced, renamed>>

SyncForgotten ==
    /\ pc = "ended" /\ pc' = "flushed"
    /\ UNCHANGED <<window, asked, sink, passes, todo, written, trailer, synced, renamed>>

\* tmp.Sync.
SyncFile ==
    /\ pc = "ended" /\ pc' = "flushed"
    /\ synced' = TRUE
    /\ UNCHANGED <<window, asked, sink, passes, todo, written, trailer, renamed>>

\* tmp.Close.
CloseFile ==
    /\ pc = "flushed" /\ pc' = "closed"
    /\ UNCHANGED <<window, asked, sink, passes, todo, written, trailer, synced, renamed>>

\* os.Rename.
Rename ==
    /\ pc = "closed" /\ pc' = "done"
    /\ renamed' = TRUE
    /\ UNCHANGED <<window, asked, sink, passes, todo, written, trailer, synced>>

\* The change cannot be reversed, or a write fails (a full disk, a client that
\* went away), that of the trailer among them, or Sync, Close or Rename.
StepFails == pc \in {"writing", "ended", "flushed", "closed"} /\ Fail

Busy == {"opened", "scanned", "writing", "ended", "flushed", "closed"}

\* A process that dies runs none of its deferred calls.
Kill ==
    /\ pc \in Busy /\ pc' = "dead"
    /\ UNCHANGED <<window, asked, sink, passes, todo, written, trailer, synced, renamed>>

\* The machine stops.  Of a file not synced any end may be lost, and a rename
\* may be lost or kept: the two are not ordered.
PowerLoss ==
    /\ sink = "file" /\ pc \in Busy \cup {"done"} /\ pc' = "dead"
    /\ \/ UNCHANGED <<written, trailer>>
       \/ /\ ~ synced
          /\ \E k \in 0 .. Len(written) : written' = SubSeq(written, 1, k)
          /\ trailer' = "nothing"
    /\ renamed' \in {renamed, FALSE}
    /\ UNCHANGED <<window, asked, sink, passes, todo, synced>>

\* The second pass is the last to look at the store, and what it writes comes
\* out of its snapshot: what is collected after that is not followed.
Watched == pc \in {"idle", "opened", "scanned"}

GenerateScript ==
    \/ NextWindow /\ Watched /\ UNCHANGED <<asked, script>>
    \/ \E w \in Windows, to \in Sinks : Begin(w, to)
    \/ FirstPass \/ SecondPass \/ Refuse
    \/ WriteStatement \/ CloseWriter \/ SyncFile \/ CloseFile \/ Rename
    \/ StepFails \/ Kill \/ PowerLoss

----------------------------------------------------------------------------
\* Change i was there to be read and is in the window asked for.
InWindow(i) ==
    /\ i <= upto
    /\ bound <= collected[i].at
    /\ asked.to # 0 => collected[i].at <= asked.to

\* What is written undoes every row change collected in the window by the time
\* it was read, newest first.
UndoesTheWindow ==
    /\ \A i \in DOMAIN collected :
          InWindow(i) /\ collected[i].kind = "rows" =>
              \E k \in DOMAIN written : written[k].src = i
    /\ \A j, k \in DOMAIN written : j < k => written[j].src > written[k].src

\* A script with its trailer undoes the whole window, whatever was appended or
\* pruned meanwhile, and one cut short by a failure, a kill or a power loss has
\* no trailer (EachEvent, Writer.Close).
TrailerMeansComplete == trailer = "end" => UndoesTheWindow

\* The file asked for holds a whole script, with its trailer, or is not there,
\* though the process is killed or the power fails before, between and after
\* the steps that make it (generateFromStore: it "never exists in a
\* half-written state").
FileIsWhole == renamed => trailer = "end" /\ UndoesTheWindow
=============================================================================
