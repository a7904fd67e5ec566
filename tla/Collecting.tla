----------------------------- MODULE Collecting -----------------------------
(***************************************************************************)
(* The window store as its readers find it: a collector appends to it and  *)
(* prunes it while they read.  What the collector goes through to do so is *)
(* Collector's; here a transaction comes with one change and is appended   *)
(* in the order of its commit, and a hole in what was collected is a gap   *)
(* or a miss.                                                              *)
(***************************************************************************)
EXTENDS WindowStore, Sequences

CONSTANTS Kinds,     \* kinds of change collected
          MaxTxns,   \* bound on the changes
          MaxHoles,  \* bound on the gaps and misses there are at a time
          MaxClock   \* bound on the clock

\* rows    a row change
\* schema  a schema change
ASSUME CollectingAssumption ==
    /\ Kinds \subseteq {"rows", "schema"}
    /\ {MaxTxns, MaxHoles, MaxClock} \subseteq Nat

VARIABLES
    clock,      \* seconds
    store,      \* the window store
    collected,  \* history: every change appended so far, pruned or not
    asked       \* the window a reader asks for

window == <<clock, store, collected>>

KindOf(t) == collected[t.src].kind

InitWindow ==
    /\ clock = Retention + 1
    /\ store = OpenCoverage(EmptyStore, clock)
    /\ collected = <<>>
    /\ asked = [from |-> 0, to |-> 0]

Tick ==
    /\ clock < Retention + MaxClock
    /\ clock' = clock + 1
    /\ UNCHANGED <<store, collected>>

Collect(kind, at) ==
    /\ Len(collected) < MaxTxns
    /\ collected' = Append(collected, [at |-> at, kind |-> kind])
    /\ store' = AppendTransaction(store, Len(collected'), at)
    /\ UNCHANGED clock

Heartbeat ==
    /\ store' = AdvanceCoverage(store, clock)
    /\ UNCHANGED <<clock, collected>>

RunPrune ==
    /\ store' = Prune(store, clock)
    /\ UNCHANGED <<clock, collected>>

Hole == /\ Cardinality(store.gaps) + Cardinality(store.misses) < MaxHoles
        /\ UNCHANGED <<clock, collected>>

\* A recovery from a purge, from the checkpoint's time until now.
LoseLog ==
    /\ ~ IsZero(store.checkpoint)
    /\ store' = RecordGap(store, store.checkpoint.at, clock, {})
    /\ Hole

LoseRows ==
    /\ store' = RecordMiss(store, clock)
    /\ Hole

NextWindow ==
    \/ Tick \/ Heartbeat \/ RunPrune \/ LoseLog \/ LoseRows
    \/ \E kind \in Kinds, at \in {clock - 1, clock} \ {Retention} : Collect(kind, at)

\* A window an operator may ask for, from the first second of the system on;
\* an inverted one is refused (buildFilter, filterFromQuery).
Windows ==
    LET bounds == {0} \cup (Retention + 1 .. clock)
    IN  {w \in [from : bounds, to : bounds] :
            w.from # 0 /\ w.to # 0 => w.from <= w.to}
=============================================================================
