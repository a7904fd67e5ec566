------------------------------- MODULE Status -------------------------------
(***************************************************************************)
(* A report on the health of the window store while a collector appends to *)
(* it and prunes it: mulligan status and GET /api/status (Store.Status,    *)
(* Report.Verdict, Integrity).  What the report says of the window comes   *)
(* out of one snapshot, the integrity checks read the store after it.      *)
(***************************************************************************)
EXTENDS Collecting

VARIABLES
    stage,   \* idle, asked, read, checking or reported
    report,  \* what was read so far
    told     \* history: the gaps and misses there were when it was asked for

reporting == <<stage, report, told>>

\* now is the instant asked about, newest what the check of the checkpoint
\* has read, problem that Integrity found something.
NoReport == [now |-> 0, from |-> 0, to |-> 0, gaps |-> {}, misses |-> {},
             problem |-> FALSE, newest |-> 0]

InitStatus ==
    /\ stage = "idle" /\ report = NoReport
    /\ told = [gaps |-> {}, misses |-> {}]

\* handleStatus and status take the time first.
Ask ==
    /\ stage = "idle" /\ stage' = "asked"
    /\ report' = [NoReport EXCEPT !.now = clock]
    /\ told' = [gaps |-> store.gaps, misses |-> store.misses]
    /\ UNCHANGED <<window, asked>>

ReadCoverage == [report EXCEPT !.from = CoverageFrom(store), !.to = store.to]

ReadHoles(r) == [r EXCEPT !.gaps = store.gaps, !.misses = store.misses]

\* (coverage and holes read by two transactions)
SnapshotInTwo ==
    \/ /\ stage = "asked" /\ stage' = "half"
       /\ report' = ReadCoverage
       /\ UNCHANGED <<window, asked, told>>
    \/ /\ stage = "half" /\ stage' = "read"
       /\ report' = ReadHoles(report)
       /\ UNCHANGED <<window, asked, told>>

\* Status: coverage, gaps and misses out of one transaction.
ReadSnapshot ==
    /\ stage = "asked" /\ stage' = "read"
    /\ report' = ReadHoles(ReadCoverage)
    /\ UNCHANGED <<window, asked, told>>

\* (the newest change and the checkpoint read by two statements)
IntegrityInTwo ==
    \/ /\ stage = "read" /\ stage' = "checking"
       /\ report' = [report EXCEPT !.newest = Max({0} \cup {t.at : t \in store.txns})]
       /\ UNCHANGED <<window, asked, told>>
    \/ /\ stage = "checking" /\ stage' = "reported"
       /\ report' = [report EXCEPT !.problem =
                        report.newest # 0 /\ store.checkpoint.at > report.newest]
       /\ UNCHANGED <<window, asked, told>>

\* Integrity: each check is one statement.
CheckIntegrity ==
    /\ stage = "read" /\ stage' = "reported"
    /\ report' = [report EXCEPT !.problem = CheckpointAhead(store)]
    /\ UNCHANGED <<window, asked, told>>

ReportStatus == \/ NextWindow /\ UNCHANGED <<asked, reporting>>
                \/ Ask \/ ReadSnapshot \/ CheckIntegrity

StaleBy(r) == r.now - r.to

HealthyWithoutAge(r) == ~ r.problem /\ r.to # 0

\* Verdict is empty; the gaps and misses do not decide it.
Healthy(r) == ~ r.problem /\ r.to # 0 /\ StaleBy(r) <= MaxStaleness

----------------------------------------------------------------------------
\* A report that says OK is worth something: at the instant it speaks of, and
\* until the staleness allowance it left is used up, the store refuses no
\* window inside its coverage but for a hole, whatever is collected, lost or
\* pruned meanwhile (Verdict and checkCoverage: a status that says OK "while
\* generate refuses is worse than no status at all").
OKHolds ==
    /\ stage = "reported" /\ Healthy(report)
    /\ clock <= Later(report.now, report.to + MaxStaleness)
    => \A w \in Windows :
          \/ w.from # 0 /\ w.from < CoverageFrom(store)
          \/ w.to > store.to
          \/ store.gaps # {} \/ store.misses # {}
          \/ Answers(store, w.from, w.to, clock)

\* No report describes a window that never existed: a hole that was known
\* when it was asked for, and that lies in the coverage it gives, is listed.
ReportIsOneMoment ==
    stage = "reported" =>
        /\ \A g \in told.gaps : g.to >= report.from => g \in report.gaps
        /\ \A m \in told.misses : m >= report.from => m \in report.misses

\* Integrity raises no alarm about a store a collector is writing to.
NoFalseAlarm == ~ report.problem
=============================================================================
