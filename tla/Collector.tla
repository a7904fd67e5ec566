----------------------------- MODULE Collector -----------------------------
(***************************************************************************)
(* mulligan watch: collectors following one server's binary log into a     *)
(* window store (internal/cli/watch.go, internal/source/mysql/source.go).  *)
(*                                                                         *)
(* The log is a sequence of committed transactions; position i is the      *)
(* position of the i-th commit event.  A transaction is dated by its last  *)
(* rows, or by its commit event when it has none to show, and a miss by    *)
(* the rows it could not read: the server keeps neither in commit order,   *)
(* and Skew bounds how much earlier than the commit they may be.  Whole    *)
(* seconds, as in the binlog and in the store; the clock starts past       *)
(* Retention, as the Unix clock does.                                      *)
(***************************************************************************)
EXTENDS WindowStore, Sequences

CONSTANTS Collectors,     \* watch processes that may be run against the store
          LockSupported,  \* the platform has an advisory file lock
          Kinds,          \* kinds of transaction the server writes
          Skew,           \* most a date may precede its commit, in seconds
          MaxTxns,        \* bound on the log
          MaxClock,       \* bound on the clock
          MaxPurges,      \* bound on how often the server discards old logs
          Faults,         \* what may go wrong
          MaxFaults       \* bound on how often something does

\* rows        row changes of collected tables, or a schema change
\* filtered    only tables the collector was not asked for
\* unreadable  only a rows event that cannot be decoded
\* mixed       such a rows event, and rows that can be read
\* xa          an XA transaction, which the collector refuses
AllKinds == {"rows", "filtered", "unreadable", "mixed", "xa"}

\* connection  the connection fails, or a write to the store
\* refusal     ER 1236 for another reason than a purge
\* gap         the write of a gap fails
\* signal      the operator interrupts the collector
\* kill        the process dies
\* power       the machine does
AllFaults == {"connection", "refusal", "gap", "signal", "kill", "power"}

ASSUME CollectorAssumption ==
    /\ Collectors # {}
    /\ Faults \subseteq AllFaults
    /\ LockSupported \in BOOLEAN
    /\ Kinds \subseteq AllKinds
    /\ {Skew, MaxTxns, MaxClock, MaxPurges, MaxFaults} \subseteq Nat

VARIABLES
    clock,    \* seconds, one clock for the server and the collectors
    log,      \* the server's binary log
    purged,   \* log positions up to here are gone from the server
    purges,   \* how often logs were purged
    faults,   \* how many failures there were
    store,    \* the window store as every process sees it
    disk,     \* what a power loss would leave of it
    pc,       \* per collector: where watch is
    base,     \* the checkpoint its current attempt resumes from
    ctx,      \* the context of the process is cancelled
    fresh,    \* Source.startFresh
    pos,      \* the log position its stream has been handled up to
    stamp,    \* the next event of the stream carries no timestamp
    missed,   \* the miss of the transaction after pos has been recorded
    late,     \* history: positions a recovery from a purge jumped over that
              \* no recorded gap was written for
    unseen    \* history: positions an attach without a checkpoint jumped over

server == <<clock, log, purged, purges>>
session == <<pc, ctx, base, fresh, pos, stamp, missed>>
history == <<late, unseen>>
vars == <<server, faults, store, disk, session, history>>

\* at is the date of the transaction and miss that of its unreadable rows.
Entry == [at : Instant, miss : Instant, kind : AllKinds]

\* down       no process
\* idle       in Run, about to make an attempt
\* attaching  in stream, the checkpoint read
\* streaming  reading events
\* lost       stream returned unresumable
\* halted     Run returned; watch waits for the pruner before it lets go of
\*            the store
States == {"down", "idle", "attaching", "streaming", "lost", "halted"}

Kept(i) == log[i].kind \in {"rows", "mixed"}

Missing(i) == log[i].kind \in {"unreadable", "mixed"}

Covered(s) == UNION {g.covers : g \in s.gaps}

----------------------------------------------------------------------------
Init ==
    /\ clock = Retention + 1
    /\ log = <<>>
    /\ purged = 0 /\ purges = 0 /\ faults = 0
    /\ store = EmptyStore /\ disk = EmptyStore
    /\ pc = [c \in Collectors |-> "down"]
    /\ base = [c \in Collectors |-> ZeroCheckpoint]
    /\ pos = [c \in Collectors |-> 0]
    /\ fresh = [c \in Collectors |-> FALSE]
    /\ ctx = fresh /\ stamp = fresh /\ missed = fresh
    /\ late = {} /\ unseen = {}

Fault(kind) == kind \in Faults /\ faults < MaxFaults /\ faults' = faults + 1

Goto(c, state) == pc' = [pc EXCEPT ![c] = state]

\* An attempt ends: its stream and whatever was assembled from it are gone.
\* Only unresumable carries the checkpoint it resumed from.
Leave(c, state) ==
    /\ Goto(c, state)
    /\ base' = [base EXCEPT ![c] = IF state = "lost" THEN @ ELSE ZeroCheckpoint]
    /\ pos' = [pos EXCEPT ![c] = 0]
    /\ stamp' = [stamp EXCEPT ![c] = FALSE]
    /\ missed' = [missed EXCEPT ![c] = FALSE]

\* It ends with an error, which Run does not look at once it is cancelled.
Fail(c, state) == Leave(c, IF ctx[c] THEN "halted" ELSE state)

----------------------------------------------------------------------------
(***************************************************************************)
(* The server                                                              *)
(***************************************************************************)
Tick ==
    /\ clock < Retention + MaxClock
    /\ clock' = clock + 1
    /\ UNCHANGED <<log, purged, purges, faults, store, disk, session, history>>

Commit(kind, at, miss) ==
    /\ Len(log) < MaxTxns
    /\ clock - Skew <= at /\ clock - Skew <= miss
    /\ kind \in {"unreadable", "mixed"} \/ miss = at
    /\ log' = Append(log, [at |-> at, miss |-> miss, kind |-> kind])
    /\ UNCHANGED <<clock, purged, purges, faults, store, disk, session, history>>

Purge(upto) ==
    /\ purges < MaxPurges
    /\ upto \in purged + 1 .. Len(log)
    /\ purged' = upto
    /\ purges' = purges + 1
    /\ UNCHANGED <<clock, log, faults, store, disk, session, history>>

----------------------------------------------------------------------------
(***************************************************************************)
(* A collector starting, attaching and recovering                          *)
(***************************************************************************)
ClaimUnchecked(c) == TRUE

\* Store.Claim: the kernel's lock, held until the process ends.
Claim(c) == LockSupported => \A d \in Collectors \ {c} : pc[d] = "down"

StartAtTheMark(c) ==
    /\ pc[c] = "down"
    /\ Claim(c)
    /\ store' = AdvanceCoverage(OpenCoverage(store, clock), clock)
    /\ Goto(c, "idle")
    /\ UNCHANGED <<server, faults, disk, base, fresh, pos, stamp, missed, ctx, history>>

\* watch up to Run: claim the store, open coverage on it.
Start(c) ==
    /\ pc[c] = "down"
    /\ Claim(c)
    /\ store' = OpenCoverage(store, clock)
    /\ Goto(c, "idle")
    /\ UNCHANGED <<server, faults, disk, base, fresh, pos, stamp, missed, ctx, history>>

\* stream reads the checkpoint once, and ignores it once after a recovery.
LoadCheckpoint(c) ==
    /\ pc[c] = "idle"
    /\ base' = [base EXCEPT ![c] = IF fresh[c] THEN ZeroCheckpoint ELSE store.checkpoint]
    /\ fresh' = [fresh EXCEPT ![c] = FALSE]
    /\ Goto(c, "attaching")
    /\ UNCHANGED <<server, faults, store, disk, pos, stamp, missed, ctx, history>>

\* The stream opens with an artificial rotate event, which has no timestamp.
Open(c, from) ==
    /\ Goto(c, "streaming")
    /\ pos' = [pos EXCEPT ![c] = from]
    /\ stamp' = [stamp EXCEPT ![c] = TRUE]
    /\ missed' = [missed EXCEPT ![c] = FALSE]

\* attach resumes where the checkpoint says, if the server still has it.  A
\* position at the very end of what was purged is one only a GTID set finds.
Resume(c) ==
    /\ pc[c] = "attaching"
    /\ ~ IsZero(base[c]) /\ base[c].pos >= purged
    /\ Open(c, base[c].pos)
    /\ UNCHANGED <<server, faults, store, disk, base, fresh, ctx, history>>

\* Without one it begins where the server is writing (currentPosition).  What
\* it jumps over is noted in the history variables.
Jumped == (store.checkpoint.pos + 1 .. Len(log)) \ Covered(store)

AttachAtCurrent(c) ==
    /\ pc[c] = "attaching"
    /\ IsZero(base[c])
    /\ Open(c, Len(log))
    /\ IF IsZero(store.checkpoint)
       THEN unseen' = unseen \cup Jumped /\ late' = late
       ELSE late' = late \cup Jumped /\ unseen' = unseen
    /\ UNCHANGED <<server, faults, store, disk, base, fresh, ctx>>

\* (retried like any other failure)
RetryRefused(c) ==
    /\ pc[c] = "attaching" /\ ~ IsZero(base[c]) /\ base[c].pos <= purged
    /\ Leave(c, "idle")
    /\ UNCHANGED <<server, faults, store, disk, fresh, ctx, history>>

\* The server answers ER 1236, at the attach or at a read: it no longer has
\* the position.
Refused(c) ==
    /\ \/ pc[c] = "attaching" /\ ~ IsZero(base[c]) /\ base[c].pos <= purged
       \/ pc[c] = "streaming" /\ ~ stamp[c] /\ pos[c] < purged
    /\ Fail(c, IF IsZero(base[c]) THEN "idle" ELSE "lost")
    /\ UNCHANGED <<server, faults, store, disk, fresh, ctx, history>>

\* (the hole taken to begin at the mark)
RecoverFromTheMark(c) ==
    /\ pc[c] = "lost"
    /\ store' = RecordGap(store, store.to, clock, base[c].pos + 1 .. Len(log))
    /\ fresh' = [fresh EXCEPT ![c] = TRUE]
    /\ Leave(c, "idle")
    /\ UNCHANGED <<server, faults, disk, ctx, history>>

\* (the checkpoint dropped, so that the next attempt starts afresh)
RecoverByForgetting(c) ==
    /\ pc[c] = "lost"
    /\ store' = [RecordGap(store, base[c].at, clock, base[c].pos + 1 .. Len(log))
                  EXCEPT !.checkpoint = ZeroCheckpoint]
    /\ Leave(c, "idle")
    /\ UNCHANGED <<server, faults, disk, fresh, ctx, history>>

\* Run records the hole, from the checkpoint the attempt had read until now,
\* and has the next attempt ignore the checkpoint.
RecoverFromPurge(c) ==
    /\ pc[c] = "lost"
    /\ store' = RecordGap(store, base[c].at, clock, base[c].pos + 1 .. Len(log))
    /\ fresh' = [fresh EXCEPT ![c] = TRUE]
    /\ Leave(c, "idle")
    /\ UNCHANGED <<server, faults, disk, ctx, history>>

----------------------------------------------------------------------------
(***************************************************************************)
(* A collector reading its stream: one action per event that moves state   *)
(***************************************************************************)
Next1(c) == pos[c] + 1

Reading(c) == /\ pc[c] = "streaming" /\ ~ stamp[c]
              /\ pos[c] < Len(log) /\ pos[c] >= purged

\* A server with nothing to send sends a heartbeat.
SendHeartbeat(c) ==
    /\ pc[c] = "streaming" /\ ~ stamp[c]
    /\ pos[c] = Len(log)
    /\ stamp' = [stamp EXCEPT ![c] = TRUE]
    /\ UNCHANGED <<server, faults, store, disk, pc, base, fresh, pos, missed, ctx, history>>

\* A rotate or a heartbeat is stamped with the collector's clock.
HandleUnstamped(c) ==
    /\ pc[c] = "streaming" /\ stamp[c]
    /\ store' = AdvanceCoverage(store, clock)
    /\ stamp' = [stamp EXCEPT ![c] = FALSE]
    /\ UNCHANGED <<server, faults, disk, pc, base, fresh, pos, missed, ctx, history>>

\* The table map ahead of rows advances coverage to its own timestamp, which
\* is theirs.
HandleTableMap(c, when) ==
    /\ Reading(c)
    /\ log[Next1(c)].kind # "xa"
    /\ when \in {log[Next1(c)].at, log[Next1(c)].miss}
    /\ store' = AdvanceCoverage(store, when)
    /\ UNCHANGED <<server, faults, disk, session, history>>

HandleUnreadable(c) ==
    /\ Reading(c)
    /\ Missing(Next1(c)) /\ ~ missed[c]
    /\ store' = RecordMiss(store, log[Next1(c)].miss)
    /\ missed' = [missed EXCEPT ![c] = TRUE]
    /\ UNCHANGED <<server, faults, disk, pc, base, fresh, pos, stamp, ctx, history>>

PassTwo(c) ==
    /\ pos' = [pos EXCEPT ![c] = Next1(c) + 1]
    /\ missed' = [missed EXCEPT ![c] = FALSE]
    /\ UNCHANGED <<server, faults, disk, pc, base, fresh, stamp, ctx, history>>

Pass(c) ==
    /\ pos' = [pos EXCEPT ![c] = Next1(c)]
    /\ missed' = [missed EXCEPT ![c] = FALSE]
    /\ UNCHANGED <<server, faults, disk, pc, base, fresh, stamp, ctx, history>>

\* A commit with rows to keep is stored with the checkpoint after it.
HandleCommit(c) ==
    /\ Reading(c)
    /\ Kept(Next1(c)) /\ (Missing(Next1(c)) => missed[c])
    /\ store' = AppendTransaction(store, Next1(c), log[Next1(c)].at)
    /\ Pass(c)

Dropped(c) == \/ log[Next1(c)].kind = "filtered"
              \/ log[Next1(c)].kind = "unreadable" /\ missed[c]

\* (the checkpoint moved as well)
CheckpointDropped(c) ==
    /\ Reading(c)
    /\ Dropped(c)
    /\ store' = [AdvanceCoverage(store, log[Next1(c)].at) EXCEPT
                     !.checkpoint = [pos |-> Next1(c), at |-> log[Next1(c)].at]]
    /\ Pass(c)

\* A commit with no rows left, none wanted or none readable, moves coverage
\* and not the checkpoint.
HandleDropped(c) ==
    /\ Reading(c)
    /\ Dropped(c)
    /\ store' = AdvanceCoverage(store, log[Next1(c)].at)
    /\ Pass(c)

\* A Refusal ends Run.
HandleXA(c) ==
    /\ Reading(c)
    /\ log[Next1(c)].kind = "xa"
    /\ Leave(c, "halted")
    /\ UNCHANGED <<server, faults, store, disk, fresh, ctx, history>>

\* startPruning, on its timer, while the process runs.
RunPrune(c) ==
    /\ pc[c] \notin {"down", "halted"}
    /\ store' = Prune(store, clock)
    /\ store' # store
    /\ UNCHANGED <<server, faults, disk, session, history>>

----------------------------------------------------------------------------
(***************************************************************************)
(* Failures                                                                *)
(***************************************************************************)
\* The connection fails, or a write to the store does: the attempt ends and
\* with it whatever was assembled.
Disconnect(c) ==
    /\ Fault("connection")
    /\ pc[c] \in {"attaching", "streaming"}
    /\ Fail(c, "idle")
    /\ UNCHANGED <<server, store, disk, fresh, ctx, history>>

\* ER 1236 for another reason than a purge is not told apart.
RefusedSpuriously(c) ==
    /\ Fault("refusal")
    /\ pc[c] \in {"attaching", "streaming"} /\ ~ IsZero(base[c])
    /\ Fail(c, "lost")
    /\ UNCHANGED <<server, store, disk, fresh, ctx, history>>

\* Recording the gap fails, which ends Run.
GapFails(c) ==
    /\ Fault("gap")
    /\ pc[c] = "lost"
    /\ Leave(c, "halted")
    /\ UNCHANGED <<server, store, disk, fresh, ctx, history>>

\* The process ends and the kernel drops its lock.
Exit(c) ==
    /\ Leave(c, "down")
    /\ fresh' = [fresh EXCEPT ![c] = FALSE]
    /\ ctx' = [ctx EXCEPT ![c] = FALSE]
    /\ UNCHANGED <<server, store, disk, history>>

Kill(c) ==
    /\ Fault("kill")
    /\ pc[c] # "down"
    /\ Exit(c)

Signal(c) ==
    /\ Fault("signal")
    /\ pc[c] # "down" /\ ~ ctx[c]
    /\ ctx' = [ctx EXCEPT ![c] = TRUE]
    /\ UNCHANGED <<server, store, disk, pc, base, fresh, pos, stamp, missed, history>>

\* Run returns nil once it notices.
Cancelled(c) ==
    /\ ctx[c] /\ pc[c] \in {"idle", "attaching", "streaming"}
    /\ Leave(c, "halted")
    /\ UNCHANGED <<server, faults, store, disk, fresh, ctx, history>>

\* The deferred pruning() waits for the pruner, which ends only when the
\* context does; after it, Release.
Return(c) ==
    /\ pc[c] = "halted" /\ ctx[c]
    /\ Exit(c)
    /\ UNCHANGED faults

\* synchronous=NORMAL: a write reaches the disk some time after its commit,
\* in order, and a power loss takes the ones that have not.
Sync ==
    /\ "power" \in Faults
    /\ disk # store
    /\ disk' = store
    /\ UNCHANGED <<server, faults, store, session, history>>

PowerLoss ==
    /\ Fault("power")
    /\ disk # store
    /\ store' = disk
    /\ pc' = [c \in Collectors |-> "down"]
    /\ base' = [c \in Collectors |-> ZeroCheckpoint]
    /\ pos' = [c \in Collectors |-> 0]
    /\ fresh' = [c \in Collectors |-> FALSE]
    /\ ctx' = fresh' /\ stamp' = fresh' /\ missed' = fresh'
    /\ UNCHANGED <<server, disk, history>>

----------------------------------------------------------------------------
Instants == Retention + 1 .. clock

Server == \/ Tick
          \/ \E kind \in Kinds, at, miss \in Instants : Commit(kind, at, miss)
          \/ \E upto \in 1 .. Len(log) : Purge(upto)

Attach(c) == Resume(c) \/ AttachAtCurrent(c) \/ Refused(c)

Read(c) == \/ HandleUnstamped(c) \/ HandleUnreadable(c)
           \/ HandleCommit(c) \/ HandleDropped(c) \/ HandleXA(c)
           \/ \E when \in Instants : HandleTableMap(c, when)

Run(c) == LoadCheckpoint(c) \/ Attach(c) \/ RecoverFromPurge(c) \/ Read(c)
          \/ Cancelled(c)

Failure == PowerLoss \/ \E c \in Collectors : Disconnect(c) \/ RefusedSpuriously(c)
                                              \/ GapFails(c) \/ Kill(c) \/ Signal(c)

Next == \/ Server \/ Sync \/ Failure
        \/ \E c \in Collectors : Start(c) \/ Run(c) \/ Return(c)
                                  \/ SendHeartbeat(c) \/ RunPrune(c)

Spec == Init /\ [][Next]_vars

\* The process is scheduled, the server answers and the connection carries
\* events; nothing is assumed of the writers on the server, of purges,
\* failures, restarts, heartbeats, pruning or the disk.
FairSpec == Spec /\ \A c \in Collectors : WF_vars(Run(c)) /\ WF_vars(Return(c))

----------------------------------------------------------------------------
(***************************************************************************)
(* Properties                                                              *)
(***************************************************************************)
\* Every variable keeps its type.
TypeOK ==
    /\ clock \in Instant
    /\ log \in Seq(Entry)
    /\ purged \in Nat /\ purges \in Nat /\ faults \in Nat
    /\ store \in Store /\ disk \in Store
    /\ pc \in [Collectors -> States]
    /\ base \in [Collectors -> Checkpoint]
    /\ pos \in [Collectors -> 0 .. Len(log)]
    /\ ctx \in [Collectors -> BOOLEAN]
    /\ fresh \in [Collectors -> BOOLEAN]
    /\ stamp \in [Collectors -> BOOLEAN]
    /\ missed \in [Collectors -> BOOLEAN]
    /\ late \subseteq 1 .. Len(log) /\ unseen \subseteq 1 .. Len(log)

\* What the store holds of position i, or why it may do without: the change
\* is behind the coverage boundary, a gap was recorded on its behalf, or an
\* attach at the server's current position jumped over it.
Excused(s, i, when) == \/ when < s.from
                       \/ i \in Covered(s) \cup late \cup unseen

RowsAccounted(s, i) == i \in Sources(s) \/ Excused(s, i, log[i].at)

MissAccounted(s, i) == log[i].miss \in s.misses \/ Excused(s, i, log[i].miss)

Accounted(s, i) == /\ Kept(i) => RowsAccounted(s, i)
                   /\ Missing(i) => MissAccounted(s, i)

PassedBy(i) == \/ i <= store.checkpoint.pos
               \/ \E c \in Collectors : pc[c] = "streaming" /\ i <= pos[c]

\* The position collection goes on from never runs ahead of what the store
\* holds or knows it lacks, through kills, power losses, reconnects in the
\* middle of a transaction, pruning and recoveries (Run, stream, handle,
\* AppendTransaction, RecordMiss, RecordGap, Prune).
NoSilentLoss == \A i \in 1 .. Len(log) : PassedBy(i) => Accounted(store, i)

Within(w, when) == w.from <= when /\ when <= w.to

\* The windows that may be asked for; an inverted one is refused.
AskedFor ==
    LET bounds == {0} \cup (1 .. clock + MaxStaleness)
    IN  {w \in [from : bounds, to : bounds] : w.from # 0 /\ w.to # 0 => w.from <= w.to}

\* A window the store answers for holds every collected change in it that a
\* collector has read past, and none that could not be read, but for the
\* changes jumped over without a gap, and but for the last Skew seconds of a
\* window that a gap comes after: however dates stray from the order of the
\* log, nothing else is lost (checkCoverage, Events, Prune).
AnswersAreComplete ==
    \A w \in AskedFor : Answers(store, w.from, w.to, clock) =>
        LET bounds == WindowBounds(store, w.from, w.to)
            Vouched(i, when) == /\ Within(bounds, when)
                                /\ i \in Covered(store) => when + Skew <= bounds.to
        IN  \A i \in 1 .. Len(log) : PassedBy(i) /\ i \notin late \cup unseen =>
                /\ Missing(i) => ~ Vouched(i, log[i].miss)
                /\ Kept(i) /\ Vouched(i, log[i].at) =>
                      \E t \in Events(store, w.from, w.to) : t.src = i

\* The ids a revert is ordered by follow the order the source committed in,
\* and a redelivered transaction is stored once (Claim, AppendTransaction).
SourceOrder == \A t, u \in store.txns : t.src < u.src <=> t.id < u.id

\* However often a transaction is delivered, its rows are stored once and
\* under an id of their own (AppendTransaction's ON CONFLICT).
StoredOnce == \A t, u \in store.txns : (t.src = u.src \/ t.id = u.id) => t = u

\* A recorded gap ends no earlier than any change it was recorded for and
\* begins at most Skew after it, whatever was stored before in another order
\* of dates (Run, stream: from the checkpoint's time until now).
GapsSpanTheirChanges ==
    \A g \in store.gaps : \A i \in g.covers : \A when \in {log[i].at, log[i].miss} :
        g.from <= when + Skew /\ when <= g.to

\* Integrity finds nothing wrong with the checkpoint of a store the program
\* wrote, whatever was pruned or lost.
CheckpointNotAhead == ~ CheckpointAhead(store)

\* The high-water mark moves only while a collector reads its stream and
\* never past the clock, so a store nobody collects into goes stale
\* (handle, AdvanceCoverage, Run).
CoverageNeedsAStream ==
    [][store'.to > store.to => /\ \E c \in Collectors : pc[c] = "streaming"
                               /\ store'.to <= clock]_vars

\* Only a power loss takes the checkpoint back (LoadCheckpoint, attach,
\* AppendTransaction).
CheckpointAdvances ==
    [][store'.checkpoint.pos < store.checkpoint.pos => store' = disk]_vars

\* A change committed while a collector runs, and runs on, is in the end
\* stored or accounted for, unless it is refused (Run's retries, and the
\* recovery that would otherwise be tried for ever).
EventuallyAccounted ==
    \A i \in 1 .. MaxTxns, c \in Collectors :
        i <= Len(log) ~> \/ i <= Len(log) /\ Accounted(store, i)
                         \/ pc[c] \in {"down", "halted"}

----------------------------------------------------------------------------
(***************************************************************************)
(* The inductive invariant behind NoSilentLoss and StoredOnce.  Pruning    *)
(* takes away what accounted for a change, so what is stored must say the  *)
(* truth about when: rows carry the date of the transaction they stand     *)
(* for, and a gap ends no earlier than the changes it was recorded for.    *)
(***************************************************************************)
RowsAreFaithful(s) ==
    \A t \in s.txns : t.src \in 1 .. Len(log) /\ t.at = log[t.src].at

Past(i, when) == log[i].at <= when /\ log[i].miss <= when

GapsEndLate(s) == \A g \in s.gaps : \A i \in g.covers : i \in 1 .. Len(log) /\ Past(i, g.to)

NoTwins(s) == \A t, u \in s.txns : (t.src = u.src \/ t.id = u.id) => t = u

AccountedTo(s, n) == \A i \in 1 .. Len(log) : i <= n => Accounted(s, i)

StoreInv(s) ==
    /\ s \in Store
    /\ RowsAreFaithful(s) /\ GapsEndLate(s) /\ NoTwins(s) /\ IdsBounded(s)
    /\ s.checkpoint.pos <= Len(log)
    /\ AccountedTo(s, s.checkpoint.pos)

\* An attempt that resumes from b, has been handled up to p, and m: it has
\* recorded the miss of the transaction after p.
SessionOK(s, b, p, m) ==
    /\ b.pos <= Len(log)
    /\ AccountedTo(s, b.pos)
    /\ AccountedTo(s, p)
    /\ m => p < Len(log) /\ MissAccounted(s, p + 1)

SessionInv(c) == SessionOK(store, base[c], pos[c], missed[c])

IInv ==
    /\ TypeOK
    /\ \A i \in 1 .. Len(log) : Past(i, clock)
    /\ StoreInv(store)
    /\ StoreInv(disk)
    /\ \A c \in Collectors : SessionInv(c)

----------------------------------------------------------------------------
(***************************************************************************)
(* What the comments in the code promise and the code does not keep        *)
(***************************************************************************)
\* currentPosition: the changes an attach without a checkpoint jumps over
\* "would fall outside the coverage this collector opens"; unresumable: those
\* jumped over after a purge are in the hole that is recorded.  Either way a
\* window that holds one is refused.
JumpsAreRefused ==
    \A i \in unseen \cup late :
        \/ log[i].at <= store.from \/ store.to <= log[i].at
        \/ \E g \in store.gaps : g.from <= log[i].at /\ log[i].at <= g.to

\* A change behind the mark that is still to be read.
Overtaken(i) == /\ i <= Len(log) /\ log[i].at < store.to
                /\ ~ PassedBy(i) /\ ~ Excused(store, i, log[i].at)

\* An attempt under way to a checkpoint the server has gone on from.
Backlog(c, i) == /\ pc[c] = "attaching" /\ ~ IsZero(base[c])
                 /\ i \in base[c].pos + 1 .. Len(log) /\ ~ Overtaken(i)

\* Coverage.To is "the furthest point the collector has reached", and a rotate
\* event moves it because the collector "has seen everything up to that
\* instant": the mark of a collector that resumes behind the server does not
\* go past a change of its backlog before that is read.
NothingUnreadBehindCoverage ==
    \A i \in 1 .. MaxTxns, c \in Collectors : [](Backlog(c, i) => []~ Overtaken(i))

\* startPruning returns "a function that stops" the pruner: a watch whose Run
\* has returned gets to the end and gives the store up.
WatchReturns == \A c \in Collectors : pc[c] = "halted" ~> pc[c] = "down"
=============================================================================
