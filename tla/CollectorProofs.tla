-------------------------- MODULE CollectorProofs --------------------------
(***************************************************************************)
(* The collector never loses a change in silence, and stores none twice,   *)
(* whatever the number of collectors, the length of the log, the skew of   *)
(* its timestamps and the failures: the inductive invariant IInv of        *)
(* Collector, step by step.                                                *)
(***************************************************************************)
EXTENDS Collector, WindowStoreProofs

\* A write from s to r loses nothing that s accounts for.
Keeps(s, r) ==
    \A i \in 1 .. Len(log) : /\ Accounted(s, i) => Accounted(r, i)
                             /\ MissAccounted(s, i) => MissAccounted(r, i)

LogOK == log \in Seq(Entry)

----------------------------------------------------------------------------
(***************************************************************************)
(* Writes to the store, the log standing still                             *)
(***************************************************************************)
\* A log entry's dates are instants.
LEMMA EntryType ==
    ASSUME LogOK, NEW i \in 1 .. Len(log)
    PROVE  log[i] \in Entry /\ log[i].at \in Nat /\ log[i].miss \in Nat
<1>1. log[i] \in Entry
  BY DEF LogOK
<1> QED
  BY <1>1 DEF Entry, Instant

\* Every write but the storing of a transaction: what it drops lies behind
\* the boundary it leaves, and the gaps it adds end late enough.
LEMMA WriteKeeps ==
    ASSUME LogOK, NEW s, NEW r \in Store, StoreInv(s),
           r.checkpoint = s.checkpoint, r.from >= s.from,
           r.txns \subseteq s.txns, \A t \in s.txns \ r.txns : t.at < r.from,
           \A g \in s.gaps \ r.gaps : g.to < r.from,
           \A m \in s.misses \ r.misses : m < r.from,
           \A g \in r.gaps \ s.gaps : \A i \in g.covers :
                i \in 1 .. Len(log) /\ Past(i, g.to)
    PROVE  StoreInv(r) /\ Keeps(s, r)
<1>1. s \in Store
  BY DEF StoreInv
<1>2. s.from \in Nat /\ r.from \in Nat
  BY <1>1 DEF Store, Instant
<1>3. ASSUME NEW i \in 1 .. Len(log), NEW when \in {log[i].at, log[i].miss},
             Excused(s, i, when)
      PROVE  Excused(r, i, when)
  <2>1. when \in Nat
    BY EntryType
  <2>2. CASE when < s.from
    BY <1>2, <2>1, <2>2 DEF Excused
  <2>3. CASE i \in late \cup unseen
    BY <2>3 DEF Excused
  <2>4. CASE i \in Covered(s)
    <3>1. PICK g \in s.gaps : i \in g.covers
      BY <2>4 DEF Covered
    <3>2. CASE g \in r.gaps
      BY <3>1, <3>2 DEF Excused, Covered
    <3>3. CASE g \notin r.gaps
      <4>1. g.to < r.from /\ when <= g.to
        BY <3>1, <3>3 DEF StoreInv, GapsEndLate, Past
      <4>2. g.to \in Nat
        BY <1>1 DEF Store, Gap, Instant
      <4> QED
        BY <1>2, <2>1, <4>1, <4>2 DEF Excused
    <3> QED
      BY <3>2, <3>3
  <2> QED
    BY <1>3, <2>2, <2>3, <2>4 DEF Excused
<1>4. ASSUME NEW i \in 1 .. Len(log), i \in Sources(s), i \notin Sources(r)
      PROVE  Excused(r, i, log[i].at)
  <2>1. PICK t \in s.txns : t.src = i
    BY <1>4 DEF Sources
  <2>2. t \notin r.txns
    BY <1>4, <2>1 DEF Sources
  <2>3. t.at < r.from /\ t.at = log[i].at
    BY <2>1, <2>2 DEF StoreInv, RowsAreFaithful
  <2> QED
    BY <2>3 DEF Excused
<1>5. ASSUME NEW i \in 1 .. Len(log), log[i].miss \in s.misses, log[i].miss \notin r.misses
      PROVE  Excused(r, i, log[i].miss)
  BY <1>5 DEF Excused
<1>6. Keeps(s, r)
  BY <1>3, <1>4, <1>5 DEF Keeps, Accounted, RowsAccounted, MissAccounted
<1>7. RowsAreFaithful(r) /\ NoTwins(r) /\ IdsBounded(r)
  BY DEF StoreInv, RowsAreFaithful, NoTwins, IdsBounded
<1>8. GapsEndLate(r)
  BY DEF StoreInv, GapsEndLate
<1>9. AccountedTo(r, r.checkpoint.pos)
  BY <1>6 DEF StoreInv, AccountedTo, Keeps
<1> QED
  BY <1>6, <1>7, <1>8, <1>9 DEF StoreInv

\* Storing transaction i, everything before it accounted for.
LEMMA AppendKeeps ==
    ASSUME LogOK, NEW s, StoreInv(s), NEW i \in 1 .. Len(log),
           AccountedTo(s, i - 1),
           Missing(i) => MissAccounted(s, i)
    PROVE  LET r == AppendTransaction(s, i, log[i].at)
           IN  /\ StoreInv(r) /\ Keeps(s, r)
               /\ Accounted(r, i)
               /\ r.checkpoint.pos = i
<1> DEFINE r == AppendTransaction(s, i, log[i].at)
           new == [id |-> NextId(s.txns), src |-> i, at |-> log[i].at]
<1>1. s \in Store /\ s.txns \in SUBSET Txn
  BY DEF StoreInv, Store
<1>2. IdsBounded(s)
  BY DEF StoreInv
<1>3. i \in Nat /\ log[i].at \in Nat
  BY EntryType
<1>4. /\ r \in Store
      /\ new \in Txn
      /\ \A t \in s.txns : t.id < new.id
      /\ i \in Sources(s) => r.txns = s.txns
      /\ i \notin Sources(s) => r.txns = s.txns \cup {new}
      /\ r.gaps = s.gaps /\ r.misses = s.misses /\ r.from = s.from
      /\ r.checkpoint.pos = i
  BY <1>1, <1>2, <1>3, AppendTransactionFields
<1> HIDE DEF r
<1>5. \A j \in 1 .. Len(log) : \A when : Excused(s, j, when) <=> Excused(r, j, when)
  BY <1>4 DEF Excused, Covered
<1>6. Sources(s) \subseteq Sources(r) /\ i \in Sources(r)
  BY <1>4 DEF Sources
<1>7. Keeps(s, r)
  BY <1>4, <1>5, <1>6 DEF Keeps, Accounted, RowsAccounted, MissAccounted
<1>8. Accounted(r, i)
  BY <1>4, <1>5, <1>6 DEF Accounted, RowsAccounted, MissAccounted
<1>9. RowsAreFaithful(r) /\ GapsEndLate(r)
  BY <1>4 DEF StoreInv, RowsAreFaithful, GapsEndLate
<1>10. NoTwins(r)
  <2>1. CASE i \in Sources(s)
    BY <1>4, <2>1 DEF StoreInv, NoTwins
  <2>2. CASE i \notin Sources(s)
    <3>1. \A t \in s.txns : t.src # new.src
      BY <2>2 DEF Sources
    <3>2. \A t \in s.txns : t.id # new.id
      BY <1>1, <1>4 DEF Txn
    <3>3. r.txns = s.txns \cup {new}
      BY <1>4, <2>2
    <3> HIDE DEF new
    <3> QED
      BY <3>1, <3>2, <3>3 DEF StoreInv, NoTwins
  <2> QED
    BY <2>1, <2>2
<1>11. IdsBounded(r)
  BY <1>1, <1>2, <1>3, AppendBounded DEF r
<1>12. AccountedTo(r, i)
  BY <1>3, <1>7, <1>8 DEF AccountedTo, Keeps
<1> QED
  BY <1>4, <1>7, <1>8, <1>9, <1>10, <1>11, <1>12 DEF StoreInv, r

\* A write that loses nothing leaves an attempt as accounted for as it was.
LEMMA SessionKept ==
    ASSUME LogOK, NEW s, NEW r, Keeps(s, r), NEW b, NEW p \in 0 .. Len(log), NEW m,
           SessionOK(s, b, p, m)
    PROVE  SessionOK(r, b, p, m)
<1>1. AccountedTo(r, b.pos) /\ AccountedTo(r, p)
  BY DEF SessionOK, AccountedTo, Keeps
<1>2. m => MissAccounted(r, p + 1)
  BY DEF SessionOK, Keeps, LogOK
<1> QED
  BY <1>1, <1>2 DEF SessionOK

----------------------------------------------------------------------------
(***************************************************************************)
(* From one state to the next: what held of the old log holds of the new   *)
(***************************************************************************)
\* The log only grows, and so does what was jumped over.
LogGrows ==
    /\ LogOK /\ LogOK'
    /\ Len(log) <= Len(log')
    /\ \A i \in 1 .. Len(log) : log'[i] = log[i]
    /\ late \subseteq late' /\ unseen \subseteq unseen'

\* A step of a collector leaves the log as it is.
LEMMA LogStands ==
    ASSUME LogOK, UNCHANGED <<log, late, unseen>>
    PROVE  LogGrows
BY DEF LogGrows, LogOK

\* What the old log says of the next store, the next log says of it too.
LEMMA StoreCarried ==
    ASSUME LogGrows, StoreInv(store')
    PROVE  StoreInv(store)'
<1>1. /\ Len(log) \in Nat /\ Len(log') \in Nat
      /\ Len(log) <= Len(log')
      /\ \A i \in 1 .. Len(log) : i \in 1 .. Len(log') /\ log'[i] = log[i]
  BY DEF LogGrows, LogOK
<1>2. store' \in Store /\ store'.checkpoint.pos \in Nat
  BY DEF StoreInv, Store, Checkpoint
<1>3. RowsAreFaithful(store)' /\ GapsEndLate(store)' /\ NoTwins(store)' /\ IdsBounded(store)'
  BY <1>1 DEF StoreInv, RowsAreFaithful, GapsEndLate, Past, NoTwins, IdsBounded
<1>4. store'.checkpoint.pos <= Len(log')
  BY <1>1, <1>2 DEF StoreInv
<1>5. AccountedTo(store, store.checkpoint.pos)'
  <2> SUFFICES ASSUME NEW i \in 1 .. Len(log'), i <= store'.checkpoint.pos
               PROVE  Accounted(store, i)'
    BY DEF AccountedTo
  <2>1. i \in 1 .. Len(log)
    BY <1>1, <1>2 DEF StoreInv
  <2>2. Accounted(store', i)
    BY <2>1 DEF StoreInv, AccountedTo
  <2> QED
    BY <1>1, <2>1, <2>2 DEF LogGrows, Accounted, RowsAccounted, MissAccounted, Excused, Covered, Sources,
           Kept, Missing
<1> QED
  BY <1>2, <1>3, <1>4, <1>5 DEF StoreInv

\* The same of what would survive a power loss.
LEMMA DiskCarried ==
    ASSUME LogGrows, StoreInv(disk')
    PROVE  StoreInv(disk)'
<1>1. /\ Len(log) \in Nat /\ Len(log') \in Nat
      /\ Len(log) <= Len(log')
      /\ \A i \in 1 .. Len(log) : i \in 1 .. Len(log') /\ log'[i] = log[i]
  BY DEF LogGrows, LogOK
<1>2. disk' \in Store /\ disk'.checkpoint.pos \in Nat
  BY DEF StoreInv, Store, Checkpoint
<1>3. RowsAreFaithful(disk)' /\ GapsEndLate(disk)' /\ NoTwins(disk)' /\ IdsBounded(disk)'
  BY <1>1 DEF StoreInv, RowsAreFaithful, GapsEndLate, Past, NoTwins, IdsBounded
<1>4. disk'.checkpoint.pos <= Len(log')
  BY <1>1, <1>2 DEF StoreInv
<1>5. AccountedTo(disk, disk.checkpoint.pos)'
  <2> SUFFICES ASSUME NEW i \in 1 .. Len(log'), i <= disk'.checkpoint.pos
               PROVE  Accounted(disk, i)'
    BY DEF AccountedTo
  <2>1. i \in 1 .. Len(log)
    BY <1>1, <1>2 DEF StoreInv
  <2>2. Accounted(disk', i)
    BY <2>1 DEF StoreInv, AccountedTo
  <2> QED
    BY <1>1, <2>1, <2>2 DEF LogGrows, Accounted, RowsAccounted, MissAccounted, Excused, Covered, Sources,
           Kept, Missing
<1> QED
  BY <1>2, <1>3, <1>4, <1>5 DEF StoreInv

\* The same of an attempt's position.
LEMMA SessionCarried ==
    ASSUME LogGrows, NEW c \in Collectors,
           base'[c].pos \in Nat, pos'[c] \in 0 .. Len(log),
           SessionOK(store', base'[c], pos'[c], missed'[c])
    PROVE  SessionInv(c)'
<1>1. /\ Len(log) \in Nat /\ Len(log') \in Nat
      /\ Len(log) <= Len(log')
      /\ \A i \in 1 .. Len(log) : i \in 1 .. Len(log') /\ log'[i] = log[i]
  BY DEF LogGrows, LogOK
<1>2. base'[c].pos <= Len(log) /\ base'[c].pos <= Len(log')
  BY <1>1 DEF SessionOK
<1>3. ASSUME NEW i \in 1 .. Len(log), Accounted(store', i)
      PROVE  Accounted(store, i)'
  BY <1>1, <1>3 DEF LogGrows, Accounted, RowsAccounted, MissAccounted, Excused, Covered, Sources,
           Kept, Missing
<1>4. ASSUME NEW i \in 1 .. Len(log), MissAccounted(store', i)
      PROVE  MissAccounted(store, i)'
  BY <1>1, <1>4 DEF LogGrows, MissAccounted, Excused, Covered
<1>5. AccountedTo(store, base[c].pos)'
  BY <1>1, <1>2, <1>3 DEF SessionOK, AccountedTo
<1>6. AccountedTo(store, pos[c])'
  BY <1>1, <1>3 DEF SessionOK, AccountedTo
<1>7. missed'[c] => pos'[c] < Len(log') /\ MissAccounted(store, pos[c] + 1)'
  <2> SUFFICES ASSUME missed'[c]
               PROVE  pos'[c] < Len(log') /\ MissAccounted(store, pos[c] + 1)'
    OBVIOUS
  <2>1. pos'[c] < Len(log) /\ MissAccounted(store', pos'[c] + 1)
    BY DEF SessionOK
  <2>2. pos'[c] + 1 \in 1 .. Len(log)
    BY <1>1, <2>1
  <2> QED
    BY <1>1, <1>4, <2>1, <2>2
<1> QED
  BY <1>2, <1>5, <1>6, <1>7 DEF SessionInv, SessionOK, Next1

\* A store nobody writes to loses nothing.
LEMMA KeepsItself == ASSUME NEW s PROVE Keeps(s, s)
BY DEF Keeps

\* A session that goes on, ends, or is read from the start of the attempt.
LEMMA SessionQuiet ==
    ASSUME IInv, TypeOK', LogGrows, Keeps(store, store'), NEW d \in Collectors,
           \/ base'[d] = base[d] /\ pos'[d] = pos[d] /\ missed'[d] = missed[d]
           \/ /\ base'[d] \in {base[d], ZeroCheckpoint}
              /\ pos'[d] \in {pos[d], 0}
              /\ missed'[d] = FALSE
    PROVE  SessionInv(d)'
<1>1. base'[d].pos \in Nat
  BY DEF TypeOK, Checkpoint
<1>2. pos[d] \in 0 .. Len(log) /\ Len(log) \in Nat /\ LogOK
  BY DEF IInv, TypeOK, LogOK
<1>3. pos'[d] \in 0 .. Len(log)
  BY <1>2
<1>4. SessionOK(store, base[d], pos[d], missed[d])
  BY DEF IInv, SessionInv
<1>5. SessionOK(store', base[d], pos[d], missed[d])
  BY <1>2, <1>4, SessionKept
<1>6. /\ AccountedTo(store', 0) /\ AccountedTo(store', ZeroCheckpoint.pos)
      /\ ZeroCheckpoint.pos <= Len(log)
  BY <1>2 DEF AccountedTo, ZeroCheckpoint
<1>7. SessionOK(store', base'[d], pos'[d], missed'[d])
  BY <1>5, <1>6 DEF SessionOK
<1> QED
  BY <1>1, <1>3, <1>7, SessionCarried

\* What a step has to show for the invariant to go on holding.
LEMMA InvStep ==
    ASSUME IInv, TypeOK', LogGrows, StoreInv(store'), StoreInv(disk'),
           \A i \in 1 .. Len(log') : Past(i, clock)',
           \A d \in Collectors : SessionInv(d)'
    PROVE  IInv'
BY StoreCarried, DiskCarried DEF IInv

\* A step of one collector, the server and the disk as they are.
LEMMA CollectorStep ==
    ASSUME IInv, TypeOK', UNCHANGED <<server, disk, history>>,
           StoreInv(store'),
           \A d \in Collectors : SessionInv(d)'
    PROVE  IInv'
<1>1. LogGrows
  BY LogStands DEF IInv, TypeOK, LogOK, server, history
<1>2. \A i \in 1 .. Len(log') : Past(i, clock)'
  BY DEF IInv, Past, server
<1>3. StoreInv(disk')
  BY DEF IInv
<1> QED
  BY <1>1, <1>2, <1>3, InvStep

----------------------------------------------------------------------------
(***************************************************************************)
(* The server                                                              *)
(***************************************************************************)
\* Time passing: no date comes to lie in the future.
LEMMA TickInv == IInv /\ Tick => IInv'
<1> SUFFICES ASSUME IInv, Tick PROVE IInv'
  OBVIOUS
<1> USE DEF Tick, session, history
<1>1. TypeOK'
  BY DEF IInv, TypeOK, Instant
<1>2. LogGrows
  BY LogStands DEF IInv, TypeOK, LogOK
<1>3. \A i \in 1 .. Len(log') : Past(i, clock)'
  <2>1. \A i \in 1 .. Len(log) : log[i].at \in Nat /\ log[i].miss \in Nat
    BY EntryType DEF IInv, TypeOK, LogOK
  <2>2. clock \in Nat /\ clock' = clock + 1 /\ log' = log
    BY DEF IInv, TypeOK, Instant
  <2>3. \A i \in 1 .. Len(log) : log[i].at <= clock /\ log[i].miss <= clock
    BY DEF IInv, Past
  <2>4. \A i \in 1 .. Len(log) : log[i].at <= clock + 1 /\ log[i].miss <= clock + 1
    BY <2>1, <2>2, <2>3
  <2> QED
    BY <2>2, <2>4 DEF Past
<1>4. \A d \in Collectors : SessionInv(d)'
  BY <1>1, <1>2, KeepsItself, SessionQuiet
<1> QED
  BY <1>1, <1>2, <1>3, <1>4, InvStep DEF IInv

\* The server committing a transaction dated no later than now.
LEMMA CommitInv ==
    ASSUME NEW kind \in Kinds, NEW at \in Instants, NEW miss \in Instants
    PROVE  IInv /\ Commit(kind, at, miss) => IInv'
<1> SUFFICES ASSUME IInv, Commit(kind, at, miss) PROVE IInv'
  OBVIOUS
<1> USE DEF Commit, session, history
<1>1. /\ log \in Seq(Entry) /\ clock \in Nat
      /\ at \in Nat /\ at <= clock /\ miss \in Nat /\ miss <= clock
  BY StoreAssumption DEF IInv, TypeOK, Instant, Instants
<1>2. [at |-> at, miss |-> miss, kind |-> kind] \in Entry
  BY <1>1, CollectorAssumption DEF Entry, Instant
<1>3. /\ log' \in Seq(Entry)
      /\ Len(log') = Len(log) + 1
      /\ \A i \in 1 .. Len(log) : log'[i] = log[i]
      /\ log'[Len(log) + 1].at = at /\ log'[Len(log) + 1].miss = miss
  BY <1>1, <1>2
<1>4. TypeOK'
  <2>1. 1 .. Len(log) \subseteq 1 .. Len(log') /\ 0 .. Len(log) \subseteq 0 .. Len(log')
    BY <1>1, <1>3
  <2>2. pos' \in [Collectors -> 0 .. Len(log')]
    BY <2>1 DEF IInv, TypeOK
  <2> QED
    BY <1>3, <2>1, <2>2 DEF IInv, TypeOK
<1>5. LogGrows
  BY <1>1, <1>3 DEF LogGrows, LogOK
<1>6. \A i \in 1 .. Len(log') : Past(i, clock)'
  BY <1>1, <1>3 DEF IInv, Past
<1>7. \A d \in Collectors : SessionInv(d)'
  BY <1>4, <1>5, KeepsItself, SessionQuiet
<1> QED
  BY <1>4, <1>5, <1>6, <1>7, InvStep DEF IInv

\* The server discarding logs, which the store does not notice.
LEMMA PurgeInv ==
    ASSUME NEW upto \in Nat
    PROVE  IInv /\ Purge(upto) => IInv'
<1> SUFFICES ASSUME IInv, Purge(upto) PROVE IInv'
  OBVIOUS
<1> USE DEF Purge, session, history
<1>1. TypeOK'
  BY DEF IInv, TypeOK
<1>2. LogGrows
  BY LogStands DEF IInv, TypeOK, LogOK
<1>3. \A d \in Collectors : SessionInv(d)'
  BY <1>1, <1>2, KeepsItself, SessionQuiet
<1>4. \A i \in 1 .. Len(log') : Past(i, clock)'
  BY DEF IInv, Past
<1> QED
  BY <1>1, <1>2, <1>3, <1>4, InvStep DEF IInv

----------------------------------------------------------------------------
(***************************************************************************)
(* A collector that only moves on, or that writes what loses nothing       *)
(***************************************************************************)
\* The store is left alone, and sessions go on or end.
LEMMA QuietStep ==
    ASSUME IInv, TypeOK', UNCHANGED <<server, store, disk, history>>,
           \A d \in Collectors :
              \/ base'[d] = base[d] /\ pos'[d] = pos[d] /\ missed'[d] = missed[d]
              \/ /\ base'[d] \in {base[d], ZeroCheckpoint}
                 /\ pos'[d] \in {pos[d], 0}
                 /\ missed'[d] = FALSE
    PROVE  IInv'
<1>1. LogGrows
  BY LogStands DEF IInv, TypeOK, LogOK, server, history
<1>2. Keeps(store, store')
  BY KeepsItself
<1>3. \A d \in Collectors : SessionInv(d)'
  BY <1>1, <1>2, SessionQuiet
<1> QED
  BY <1>3, CollectorStep DEF IInv

\* The store is written to, nothing lost, and sessions go on or end.
LEMMA WriteStep ==
    ASSUME IInv, TypeOK', UNCHANGED <<server, disk, history>>,
           StoreInv(store'), Keeps(store, store'),
           \A d \in Collectors :
              \/ base'[d] = base[d] /\ pos'[d] = pos[d] /\ missed'[d] = missed[d]
              \/ /\ base'[d] \in {base[d], ZeroCheckpoint}
                 /\ pos'[d] \in {pos[d], 0}
                 /\ missed'[d] = FALSE
    PROVE  IInv'
<1>1. LogGrows
  BY LogStands DEF IInv, TypeOK, LogOK, server, history
<1>2. \A d \in Collectors : SessionInv(d)'
  BY <1>1, SessionQuiet
<1> QED
  BY <1>2, CollectorStep

\* An attempt that ends leaves every other attempt alone.
LEMMA LeaveSessions ==
    ASSUME TypeOK, NEW c \in Collectors, NEW state \in States, Leave(c, state)
    PROVE  /\ pc' \in [Collectors -> States]
           /\ base' \in [Collectors -> Checkpoint]
           /\ pos' \in [Collectors -> 0 .. Len(log)]
           /\ stamp' \in [Collectors -> BOOLEAN]
           /\ missed' \in [Collectors -> BOOLEAN]
           /\ \A d \in Collectors :
                \/ base'[d] = base[d] /\ pos'[d] = pos[d] /\ missed'[d] = missed[d]
                \/ /\ base'[d] \in {base[d], ZeroCheckpoint}
                   /\ pos'[d] \in {pos[d], 0}
                   /\ missed'[d] = FALSE
<1>1. ZeroCheckpoint \in Checkpoint
  BY DEF ZeroCheckpoint, Checkpoint, Instant
<1>2. 0 \in 0 .. Len(log)
  BY DEF TypeOK
<1> QED
  BY <1>1, <1>2 DEF TypeOK, Leave, Goto

\* The actions that end an attempt and write nothing.
LEMMA LeaveInv ==
    ASSUME IInv, NEW c \in Collectors, NEW state \in States, Leave(c, state),
           UNCHANGED <<server, store, disk, history>>,
           faults' \in Nat, fresh' \in [Collectors -> BOOLEAN], ctx' \in [Collectors -> BOOLEAN]
    PROVE  IInv'
<1>1. TypeOK
  BY DEF IInv
<1>2. TypeOK'
  BY <1>1, LeaveSessions DEF TypeOK, server, history
<1> QED
  BY <1>1, <1>2, LeaveSessions, QuietStep

\* ... those among them that end it with an error (Run's first look at it).
LEMMA FailInv ==
    ASSUME IInv, NEW c \in Collectors, NEW state \in States, Fail(c, state),
           UNCHANGED <<server, store, disk, fresh, ctx, history>>, faults' \in Nat
    PROVE  IInv'
<1>1. (IF ctx[c] THEN "halted" ELSE state) \in States
  BY DEF States
<1>2. fresh' \in [Collectors -> BOOLEAN] /\ ctx' \in [Collectors -> BOOLEAN]
  BY DEF IInv, TypeOK
<1> QED
  BY <1>1, <1>2, LeaveInv DEF Fail

\* A failure keeps the count of failures a number.
LEMMA FaultType == TypeOK => \A kind : Fault(kind) => faults' \in Nat
BY DEF TypeOK, Fault

\* Every way an attempt or its process ends (Run's returns, stream's errors, watch's exit).
LEMMA EndsInv ==
    ASSUME NEW c \in Collectors
    PROVE  /\ IInv /\ Refused(c) => IInv'
           /\ IInv /\ HandleXA(c) => IInv'
           /\ IInv /\ Disconnect(c) => IInv'
           /\ IInv /\ RefusedSpuriously(c) => IInv'
           /\ IInv /\ GapFails(c) => IInv'
           /\ IInv /\ Kill(c) => IInv'
           /\ IInv /\ Cancelled(c) => IInv'
           /\ IInv /\ Return(c) => IInv'
<1> USE DEF States
<1>1. ASSUME IInv, Refused(c) PROVE IInv'
  <2>1. (IF IsZero(base[c]) THEN "idle" ELSE "lost") \in States
    OBVIOUS
  <2> QED
    BY <1>1, <2>1, FailInv DEF Refused, IInv, TypeOK
<1>2. ASSUME IInv, HandleXA(c) PROVE IInv'
  BY <1>2, LeaveInv DEF HandleXA, IInv, TypeOK
<1>3. ASSUME IInv, Disconnect(c) PROVE IInv'
  BY <1>3, FailInv, FaultType DEF Disconnect, IInv, TypeOK
<1>4. ASSUME IInv, RefusedSpuriously(c) PROVE IInv'
  BY <1>4, FailInv, FaultType DEF RefusedSpuriously, IInv, TypeOK
<1>5. ASSUME IInv, GapFails(c) PROVE IInv'
  BY <1>5, LeaveInv, FaultType DEF GapFails, IInv, TypeOK
<1>6. ASSUME IInv, Exit(c), faults' \in Nat PROVE IInv'
  <2>1. fresh' \in [Collectors -> BOOLEAN] /\ ctx' \in [Collectors -> BOOLEAN]
    BY <1>6 DEF Exit, IInv, TypeOK
  <2> QED
    BY <1>6, <2>1, LeaveInv DEF Exit
<1>7. ASSUME IInv, Kill(c) PROVE IInv'
  BY <1>6, <1>7, FaultType DEF Kill, IInv
<1>8. ASSUME IInv, Cancelled(c) PROVE IInv'
  BY <1>8, LeaveInv DEF Cancelled, IInv, TypeOK
<1>9. ASSUME IInv, Return(c) PROVE IInv'
  BY <1>6, <1>9 DEF Return, IInv, TypeOK
<1> QED
  BY <1>1, <1>2, <1>3, <1>4, <1>5, <1>7, <1>8, <1>9

----------------------------------------------------------------------------
(***************************************************************************)
(* The writes that move no position                                        *)
(***************************************************************************)
\* Advancing coverage (advanceCoverageTo) loses nothing.
LEMMA AdvanceKeeps ==
    ASSUME IInv, NEW when \in Nat
    PROVE  /\ StoreInv(AdvanceCoverage(store, when))
           /\ Keeps(store, AdvanceCoverage(store, when))
<1> DEFINE r == AdvanceCoverage(store, when)
<1>1. LogOK /\ StoreInv(store) /\ store \in Store /\ store.from \in Nat
  BY DEF IInv, TypeOK, LogOK, StoreInv, Store, Instant
<1>2. /\ r \in Store
      /\ r.txns = store.txns /\ r.gaps = store.gaps /\ r.misses = store.misses
      /\ r.checkpoint = store.checkpoint /\ r.from = store.from
  BY <1>1, AdvanceCoverageFields
<1> HIDE DEF r
<1>3. r.from >= store.from
  BY <1>1, <1>2
<1>4. StoreInv(r) /\ Keeps(store, r)
  BY <1>1, <1>2, <1>3, WriteKeeps
<1> QED
  BY <1>4 DEF r

\* Recording a miss (RecordMiss) loses nothing, and the miss is there.
LEMMA MissKeeps ==
    ASSUME IInv, NEW when \in Nat
    PROVE  /\ StoreInv(RecordMiss(store, when))
           /\ Keeps(store, RecordMiss(store, when))
           /\ when \in RecordMiss(store, when).misses
<1> DEFINE r == RecordMiss(store, when)
<1>1. LogOK /\ StoreInv(store) /\ store \in Store /\ store.from \in Nat
  BY DEF IInv, TypeOK, LogOK, StoreInv, Store, Instant
<1>2. /\ r \in Store
      /\ r.misses = store.misses \cup {when}
      /\ r.txns = store.txns /\ r.gaps = store.gaps
      /\ r.checkpoint = store.checkpoint /\ r.from = store.from
  BY <1>1, RecordMissFields
<1> HIDE DEF r
<1>3. r.from >= store.from
  BY <1>1, <1>2
<1>4. StoreInv(r) /\ Keeps(store, r)
  BY <1>1, <1>2, <1>3, WriteKeeps
<1> QED
  BY <1>2, <1>4 DEF r

\* Opening coverage (OpenCoverage) loses nothing.
LEMMA OpenKeeps ==
    ASSUME IInv, NEW when \in Nat
    PROVE  /\ StoreInv(OpenCoverage(store, when))
           /\ Keeps(store, OpenCoverage(store, when))
<1>1. LogOK /\ StoreInv(store) /\ store \in Store
  BY DEF IInv, TypeOK, LogOK, StoreInv
<1> QED
  BY <1>1, OpenCoverageFields, WriteKeeps

\* Pruning (Prune) loses nothing the boundary it leaves does not excuse.
LEMMA PruneKeeps ==
    ASSUME IInv
    PROVE  /\ StoreInv(Prune(store, clock))
           /\ Keeps(store, Prune(store, clock))
<1>1. LogOK /\ StoreInv(store) /\ store \in Store /\ clock \in Nat
  BY DEF IInv, TypeOK, LogOK, StoreInv, Instant
<1>2. \A g \in Prune(store, clock).gaps \ store.gaps : FALSE
  BY <1>1, PruneFields
<1> QED
  BY <1>1, <1>2, PruneFields, WriteKeeps

\* A hole that ends now ends no earlier than anything in the log.
LEMMA GapKeeps ==
    ASSUME IInv, NEW from \in Nat, NEW first \in Nat \ {0}
    PROVE  /\ StoreInv(RecordGap(store, from, clock, first .. Len(log)))
           /\ Keeps(store, RecordGap(store, from, clock, first .. Len(log)))
<1> DEFINE covers == first .. Len(log)
           r == RecordGap(store, from, clock, covers)
<1>1. LogOK /\ StoreInv(store) /\ store \in Store /\ store.from \in Nat /\ clock \in Nat
  BY DEF IInv, TypeOK, LogOK, StoreInv, Store, Instant
<1>2. covers \in SUBSET Nat /\ \A i \in covers : i \in 1 .. Len(log) /\ Past(i, clock)
  BY <1>1 DEF IInv, LogOK
<1> HIDE DEF covers
<1>3. /\ r \in Store
      /\ r.gaps = store.gaps \cup {[from |-> from, to |-> clock, covers |-> covers]}
      /\ r.txns = store.txns /\ r.misses = store.misses
      /\ r.checkpoint = store.checkpoint /\ r.from = store.from
  BY <1>1, <1>2, RecordGapFields
<1> HIDE DEF r
<1>4. \A g \in r.gaps \ store.gaps : g.covers = covers /\ g.to = clock
  BY <1>3
<1>5. \A g \in r.gaps \ store.gaps : \A i \in g.covers :
          i \in 1 .. Len(log) /\ Past(i, g.to)
  BY <1>2, <1>4
<1>6. /\ store.gaps \subseteq r.gaps /\ r.txns \subseteq store.txns
      /\ store.txns \subseteq r.txns /\ store.misses \subseteq r.misses
      /\ r.from >= store.from
  BY <1>1, <1>3
<1>7. StoreInv(r) /\ Keeps(store, r)
  BY <1>1, <1>3, <1>5, <1>6, WriteKeeps
<1> QED
  BY <1>7 DEF r, covers

\* Starting, pruning, and the reading of events that move no position.
LEMMA WritesInv ==
    ASSUME NEW c \in Collectors
    PROVE  /\ IInv /\ Start(c) => IInv'
           /\ IInv /\ RunPrune(c) => IInv'
           /\ IInv /\ HandleUnstamped(c) => IInv'
           /\ IInv /\ (\E when \in Instants : HandleTableMap(c, when)) => IInv'
           /\ IInv /\ RecoverFromPurge(c) => IInv'
<1> USE DEF session
<1>1. ASSUME IInv, Start(c) PROVE IInv'
  <2>1. StoreInv(store') /\ Keeps(store, store')
    BY <1>1, OpenKeeps DEF Start, IInv, TypeOK, Instant
  <2>2. TypeOK'
    BY <1>1, <2>1 DEF Start, Goto, States, IInv, TypeOK, StoreInv, server, history
  <2> QED
    BY <1>1, <2>1, <2>2, WriteStep DEF Start
<1>2. ASSUME IInv, RunPrune(c) PROVE IInv'
  <2>1. StoreInv(store') /\ Keeps(store, store')
    BY <1>2, PruneKeeps DEF RunPrune
  <2>2. TypeOK'
    BY <1>2, <2>1 DEF RunPrune, IInv, TypeOK, StoreInv, server, history
  <2> QED
    BY <1>2, <2>1, <2>2, WriteStep DEF RunPrune
<1>3. ASSUME IInv, HandleUnstamped(c) PROVE IInv'
  <2>1. StoreInv(store') /\ Keeps(store, store')
    BY <1>3, AdvanceKeeps DEF HandleUnstamped, IInv, TypeOK, Instant
  <2>2. TypeOK'
    BY <1>3, <2>1 DEF HandleUnstamped, IInv, TypeOK, StoreInv, server, history
  <2> QED
    BY <1>3, <2>1, <2>2, WriteStep DEF HandleUnstamped
<1>4. ASSUME IInv, NEW when \in Instants, HandleTableMap(c, when) PROVE IInv'
  <2>2. when \in Nat
    BY <1>4, StoreAssumption DEF IInv, TypeOK, Instant, Instants
  <2>3. StoreInv(store') /\ Keeps(store, store')
    BY <1>4, <2>2, AdvanceKeeps DEF HandleTableMap
  <2>4. TypeOK'
    BY <1>4, <2>3 DEF HandleTableMap, IInv, TypeOK, StoreInv, server, history
  <2> QED
    BY <1>4, <2>3, <2>4, WriteStep DEF HandleTableMap
<1>5. ASSUME IInv, RecoverFromPurge(c) PROVE IInv'
  <2>1. base[c].at \in Nat /\ base[c].pos + 1 \in Nat \ {0}
    BY <1>5 DEF IInv, TypeOK, Checkpoint, Instant
  <2>2. StoreInv(store') /\ Keeps(store, store')
    BY <1>5, <2>1, GapKeeps DEF RecoverFromPurge
  <2>3. TypeOK /\ Leave(c, "idle") /\ "idle" \in States
    BY <1>5 DEF RecoverFromPurge, IInv, States
  <2>4. TypeOK'
    BY <1>5, <2>2, <2>3, LeaveSessions DEF RecoverFromPurge, TypeOK, StoreInv, server, history
  <2> QED
    BY <1>5, <2>2, <2>3, <2>4, LeaveSessions, WriteStep DEF RecoverFromPurge
<1> QED
  BY <1>1, <1>2, <1>3, <1>4, <1>5

----------------------------------------------------------------------------
(***************************************************************************)
(* A collector attaching, and what else leaves the store alone             *)
(***************************************************************************)
\* Opening a stream moves one collector, to the start of that stream.
LEMMA OpenSessions ==
    ASSUME TypeOK, NEW c \in Collectors, NEW from \in 0 .. Len(log), Open(c, from)
    PROVE  /\ pc' \in [Collectors -> States]
           /\ pos' \in [Collectors -> 0 .. Len(log)]
           /\ stamp' \in [Collectors -> BOOLEAN]
           /\ missed' \in [Collectors -> BOOLEAN]
           /\ pos'[c] = from /\ missed'[c] = FALSE
           /\ \A d \in Collectors \ {c} : pos'[d] = pos[d] /\ missed'[d] = missed[d]
BY DEF TypeOK, Open, Goto, States

\* An attempt takes on the checkpoint, which the store accounts for.
LEMMA LoadCheckpointInv ==
    ASSUME NEW c \in Collectors
    PROVE  IInv /\ LoadCheckpoint(c) => IInv'
<1> SUFFICES ASSUME IInv, LoadCheckpoint(c) PROVE IInv'
  OBVIOUS
<1> USE DEF LoadCheckpoint
<1>1. store.checkpoint \in Checkpoint /\ ZeroCheckpoint \in Checkpoint
  BY DEF IInv, TypeOK, Store, ZeroCheckpoint, Checkpoint, Instant
<1>2. TypeOK'
  BY <1>1 DEF IInv, TypeOK, Goto, States, server, history
<1>3. LogGrows
  BY LogStands DEF IInv, TypeOK, LogOK, server, history
<1>4. SessionInv(c)'
  <2>1. SessionOK(store, base'[c], pos[c], missed[c])
    <3>1. CASE base'[c] = store.checkpoint
      BY <3>1 DEF IInv, SessionInv, SessionOK, StoreInv
    <3>2. CASE base'[c] = ZeroCheckpoint
      <4>1. Len(log) \in Nat
        BY DEF IInv, TypeOK
      <4>2. base'[c].pos = 0
        BY <3>2 DEF ZeroCheckpoint
      <4>3. AccountedTo(store, 0)
        BY <4>1 DEF AccountedTo
      <4>4. SessionOK(store, base[c], pos[c], missed[c])
        BY DEF IInv, SessionInv
      <4> HIDE DEF LoadCheckpoint
      <4> QED
        BY <4>1, <4>2, <4>3, <4>4 DEF SessionOK
    <3>3. base'[c] \in {store.checkpoint, ZeroCheckpoint}
      BY DEF IInv, TypeOK
    <3> QED
      BY <3>1, <3>2, <3>3
  <2>2. base'[c].pos \in Nat /\ pos'[c] \in 0 .. Len(log)
    BY <1>2 DEF IInv, TypeOK, Checkpoint
  <2> QED
    BY <1>3, <2>1, <2>2, SessionCarried
<1>5. \A d \in Collectors \ {c} : SessionInv(d)'
  BY <1>2, <1>3, KeepsItself, SessionQuiet DEF IInv, TypeOK
<1>6. \A d \in Collectors : SessionInv(d)'
  BY <1>4, <1>5
<1> QED
  BY <1>2, <1>6, CollectorStep DEF IInv

\* A stream that begins at the checkpoint of its attempt (attach).
LEMMA ResumeInv ==
    ASSUME NEW c \in Collectors
    PROVE  IInv /\ Resume(c) => IInv'
<1> SUFFICES ASSUME IInv, Resume(c) PROVE IInv'
  OBVIOUS
<1> USE DEF Resume
<1>1. TypeOK /\ Open(c, base[c].pos) /\ base[c].pos \in 0 .. Len(log)
  BY DEF IInv, TypeOK, Checkpoint, SessionInv, SessionOK
<1>2. TypeOK'
  BY <1>1, OpenSessions DEF TypeOK, server, history
<1>3. LogGrows
  BY <1>1, LogStands DEF TypeOK, LogOK, server, history
<1>4. SessionInv(c)'
  <2>1. SessionOK(store, base[c], base[c].pos, FALSE)
    BY DEF IInv, SessionInv, SessionOK
  <2>2. pos'[c] = base[c].pos /\ missed'[c] = FALSE
    BY <1>1, OpenSessions
  <2>3. SessionOK(store', base'[c], pos'[c], missed'[c])
    BY <2>1, <2>2
  <2>4. base'[c].pos \in Nat /\ pos'[c] \in 0 .. Len(log)
    BY <1>1, <2>2 DEF TypeOK, Checkpoint
  <2> QED
    BY <1>3, <2>3, <2>4, SessionCarried
<1>5. \A d \in Collectors \ {c} : SessionInv(d)'
  BY <1>1, <1>2, <1>3, KeepsItself, OpenSessions, SessionQuiet
<1>6. \A d \in Collectors : SessionInv(d)'
  BY <1>4, <1>5
<1> QED
  BY <1>2, <1>6, CollectorStep DEF IInv

\* What the attach jumps over joins late or unseen as it does.
LEMMA AttachAtCurrentInv ==
    ASSUME NEW c \in Collectors
    PROVE  IInv /\ AttachAtCurrent(c) => IInv'
<1> SUFFICES ASSUME IInv, AttachAtCurrent(c) PROVE IInv'
  OBVIOUS
<1> USE DEF AttachAtCurrent
<1>1. /\ TypeOK /\ Open(c, Len(log)) /\ Len(log) \in 0 .. Len(log)
      /\ log' = log /\ clock' = clock /\ store' = store /\ disk' = disk /\ base' = base
  BY DEF IInv, TypeOK, server
<1>2. /\ late \subseteq late' /\ unseen \subseteq unseen'
      /\ late' \cup unseen' = late \cup unseen \cup Jumped
  OBVIOUS
<1>3. Jumped \subseteq 1 .. Len(log)
  BY <1>1 DEF TypeOK, Jumped, Store, Checkpoint
<1>4. late' \subseteq 1 .. Len(log') /\ unseen' \subseteq 1 .. Len(log')
  BY <1>1, <1>3 DEF TypeOK
<1>5. TypeOK'
  BY <1>1, <1>4, OpenSessions DEF TypeOK, server
<1>6. LogGrows
  BY <1>1, <1>2 DEF LogGrows, LogOK, TypeOK
<1>7. \A d \in Collectors \ {c} : SessionInv(d)'
  BY <1>1, <1>5, <1>6, KeepsItself, OpenSessions, SessionQuiet
<1>8. SessionInv(c)'
  <2>1. SessionOK(store', base'[c], 0, FALSE)
    BY <1>1 DEF IInv, TypeOK, SessionInv, SessionOK, AccountedTo
  <2>2. pos'[c] = Len(log) /\ missed'[c] = FALSE
    BY <1>1, OpenSessions
  <2>3. ASSUME NEW i \in 1 .. Len(log')
        PROVE  Accounted(store, i)'
    <3>1. CASE i <= store.checkpoint.pos
      <4>1. Accounted(store, i)
        BY <1>1, <3>1 DEF IInv, StoreInv, AccountedTo
      <4> QED
        BY <1>1, <1>2, <4>1
           DEF Accounted, RowsAccounted, MissAccounted, Excused, Covered, Sources, Kept, Missing
    <3>2. CASE ~ (i <= store.checkpoint.pos)
      <4>1. i \in Covered(store) \cup Jumped
        BY <1>1, <3>2 DEF Jumped, TypeOK, Store, Checkpoint
      <4>2. \A when : Excused(store, i, when)'
        BY <1>1, <1>2, <4>1 DEF Excused, Covered
      <4> QED
        BY <4>2 DEF Accounted, RowsAccounted, MissAccounted
    <3> QED
      BY <3>1, <3>2
  <2>4. AccountedTo(store, pos[c])' /\ AccountedTo(store, base[c].pos)'
    BY <2>3 DEF AccountedTo
  <2>5. base'[c].pos <= Len(log')
    BY <1>1 DEF IInv, SessionInv, SessionOK
  <2> QED
    BY <2>2, <2>4, <2>5 DEF SessionInv, SessionOK
<1>9. \A d \in Collectors : SessionInv(d)'
  BY <1>7, <1>8
<1>10. \A i \in 1 .. Len(log') : Past(i, clock)'
  BY <1>1 DEF IInv, Past
<1> QED
  BY <1>1, <1>5, <1>6, <1>9, <1>10, InvStep DEF IInv

\* Steps that move neither a position nor the store.
LEMMA QuietInv ==
    ASSUME NEW c \in Collectors
    PROVE  /\ IInv /\ SendHeartbeat(c) => IInv'
           /\ IInv /\ Signal(c) => IInv'
<1>1. ASSUME IInv, SendHeartbeat(c) PROVE IInv'
  <2>1. TypeOK'
    BY <1>1 DEF SendHeartbeat, IInv, TypeOK, server, history
  <2> QED
    BY <1>1, <2>1, QuietStep DEF SendHeartbeat
<1>2. ASSUME IInv, Signal(c) PROVE IInv'
  <2>1. TypeOK'
    BY <1>2, FaultType DEF Signal, IInv, TypeOK, server, history
  <2> QED
    BY <1>2, <2>1, QuietStep DEF Signal
<1> QED
  BY <1>1, <1>2

----------------------------------------------------------------------------
(***************************************************************************)
(* A power loss takes the store back to what the disk had                  *)
(***************************************************************************)
\* The disk catching up with the store.
LEMMA SyncInv == IInv /\ Sync => IInv'
<1> SUFFICES ASSUME IInv, Sync PROVE IInv'
  OBVIOUS
<1> USE DEF Sync, session
<1>1. TypeOK'
  BY DEF IInv, TypeOK, server, history
<1>2. LogGrows
  BY LogStands DEF IInv, TypeOK, LogOK, server, history
<1>3. \A d \in Collectors : SessionInv(d)'
  BY <1>1, <1>2, KeepsItself, SessionQuiet
<1>4. \A i \in 1 .. Len(log') : Past(i, clock)'
  BY DEF IInv, Past, server
<1> QED
  BY <1>1, <1>2, <1>3, <1>4, InvStep DEF IInv

\* A power loss: the store goes back to one that met the invariant, with the
\* checkpoint it had then, and every attempt is gone.
LEMMA PowerLossInv == IInv /\ PowerLoss => IInv'
<1> SUFFICES ASSUME IInv, PowerLoss PROVE IInv'
  OBVIOUS
<1> USE DEF PowerLoss
<1>1. TypeOK'
  <2>1. faults' \in Nat
    BY FaultType DEF IInv
  <2>2. ZeroCheckpoint \in Checkpoint
    BY DEF ZeroCheckpoint, Checkpoint, Instant
  <2>3. 0 \in 0 .. Len(log')
    BY DEF IInv, TypeOK, server
  <2> QED
    BY <2>1, <2>2, <2>3 DEF IInv, TypeOK, server, history, States
<1>2. LogGrows
  BY LogStands DEF IInv, TypeOK, LogOK, server, history
<1>3. ASSUME NEW d \in Collectors PROVE SessionInv(d)'
  <2>1. base'[d] = ZeroCheckpoint /\ pos'[d] = 0 /\ missed'[d] = FALSE
    OBVIOUS
  <2>2. SessionOK(store', ZeroCheckpoint, 0, FALSE)
    BY DEF SessionOK, AccountedTo, ZeroCheckpoint, IInv, TypeOK
  <2>3. ZeroCheckpoint.pos \in Nat /\ 0 \in 0 .. Len(log)
    BY DEF ZeroCheckpoint, IInv, TypeOK
  <2> QED
    BY <1>2, <2>1, <2>2, <2>3, SessionCarried
<1>4. \A i \in 1 .. Len(log') : Past(i, clock)'
  BY DEF IInv, Past, server
<1>5. StoreInv(store') /\ StoreInv(disk')
  BY DEF IInv
<1> QED
  BY <1>1, <1>2, <1>3, <1>4, <1>5, InvStep

----------------------------------------------------------------------------
(***************************************************************************)
(* A collector reading on                                                  *)
(***************************************************************************)
\* pos moves past a transaction the written store accounts for.
LEMMA PassStep ==
    ASSUME IInv, NEW c \in Collectors, Reading(c), Pass(c),
           StoreInv(store'), Keeps(store, store'), Accounted(store', Next1(c))
    PROVE  IInv'
<1> USE DEF Pass
<1>1. TypeOK /\ LogOK /\ pos[c] \in Nat /\ Next1(c) = pos[c] + 1 /\ Next1(c) \in 1 .. Len(log)
  BY DEF IInv, TypeOK, LogOK, Reading, Next1
<1>2. TypeOK'
  <2>1. pos' \in [Collectors -> 0 .. Len(log)]
    BY <1>1 DEF TypeOK
  <2> QED
    BY <1>1, <2>1 DEF TypeOK, StoreInv, server, history
<1>3. LogGrows
  BY <1>1, LogStands DEF server, history
<1>4. SessionInv(c)'
  <2>1. SessionOK(store', base[c], pos[c], missed[c])
    BY <1>1, SessionKept DEF IInv, TypeOK, SessionInv
  <2>2. pos'[c] = pos[c] + 1 /\ missed'[c] = FALSE /\ base'[c] = base[c]
    BY <1>1 DEF TypeOK
  <2>3. AccountedTo(store', pos[c] + 1)
    <3> SUFFICES ASSUME NEW i \in 1 .. Len(log), i <= pos[c] + 1
                 PROVE  Accounted(store', i)
      BY DEF AccountedTo
    <3>1. CASE i = pos[c] + 1
      BY <1>1, <3>1
    <3>2. CASE i <= pos[c]
      BY <2>1, <3>2 DEF SessionOK, AccountedTo
    <3> QED
      BY <1>1, <3>1, <3>2
  <2>4. SessionOK(store', base'[c], pos'[c], missed'[c])
    BY <2>1, <2>2, <2>3 DEF SessionOK
  <2>5. base'[c].pos \in Nat /\ pos'[c] \in 0 .. Len(log)
    BY <1>1, <2>2 DEF TypeOK, Checkpoint
  <2> QED
    BY <1>3, <2>4, <2>5, SessionCarried
<1>5. ASSUME NEW d \in Collectors \ {c} PROVE SessionInv(d)'
  <2>1. base'[d] = base[d] /\ pos'[d] = pos[d] /\ missed'[d] = missed[d]
    BY <1>1 DEF TypeOK
  <2> QED
    BY <1>2, <1>3, <2>1, SessionQuiet
<1>6. \A d \in Collectors : SessionInv(d)'
  BY <1>4, <1>5
<1> QED
  BY <1>2, <1>6, CollectorStep

\* The entry a collector reads next is in the log.
LEMMA NextEntry ==
    ASSUME IInv, NEW c \in Collectors, Reading(c)
    PROVE  /\ Next1(c) \in 1 .. Len(log)
           /\ log[Next1(c)].at \in Nat /\ log[Next1(c)].miss \in Nat
<1>1. LogOK /\ Next1(c) \in 1 .. Len(log)
  BY DEF IInv, TypeOK, LogOK, Reading, Next1
<1> QED
  BY <1>1, EntryType

\* A commit stored: the new position is accounted for by the row itself.
LEMMA HandleCommitInv ==
    ASSUME NEW c \in Collectors
    PROVE  IInv /\ HandleCommit(c) => IInv'
<1> SUFFICES ASSUME IInv, HandleCommit(c) PROVE IInv'
  OBVIOUS
<1> DEFINE i == Next1(c)
<1>1. LogOK /\ StoreInv(store) /\ Reading(c) /\ Pass(c) /\ i \in 1 .. Len(log)
  BY NextEntry DEF HandleCommit, IInv, TypeOK, LogOK
<1>2. AccountedTo(store, i - 1)
  BY DEF IInv, TypeOK, SessionInv, SessionOK, Next1
<1>3. Missing(i) => MissAccounted(store, i)
  BY DEF HandleCommit, IInv, SessionInv, SessionOK, Next1
<1>4. store' = AppendTransaction(store, i, log[i].at)
  BY DEF HandleCommit
<1> HIDE DEF i
<1>5. StoreInv(store') /\ Keeps(store, store') /\ Accounted(store', i)
  BY <1>1, <1>2, <1>3, <1>4, AppendKeeps
<1> QED
  BY <1>1, <1>5, PassStep DEF i

\* A transaction dropped: of no interest, or its miss is on record.
LEMMA HandleDroppedInv ==
    ASSUME NEW c \in Collectors
    PROVE  IInv /\ HandleDropped(c) => IInv'
<1> SUFFICES ASSUME IInv, HandleDropped(c) PROVE IInv'
  OBVIOUS
<1>1. Reading(c) /\ Pass(c) /\ log[Next1(c)].at \in Nat /\ Next1(c) \in 1 .. Len(log)
  BY NextEntry DEF HandleDropped
<1>2. StoreInv(store') /\ Keeps(store, store')
  BY <1>1, AdvanceKeeps DEF HandleDropped
<1>3. ~ Kept(Next1(c))
  BY DEF HandleDropped, Dropped, Kept
<1>4. Missing(Next1(c)) => MissAccounted(store', Next1(c))
  <2> SUFFICES ASSUME Missing(Next1(c)) PROVE MissAccounted(store', Next1(c))
    OBVIOUS
  <2>1. missed[c]
    BY DEF HandleDropped, Dropped, Missing
  <2>2. MissAccounted(store, Next1(c))
    BY <2>1 DEF IInv, SessionInv, SessionOK, Next1
  <2> QED
    BY <1>1, <1>2, <2>2 DEF Keeps
<1> QED
  BY <1>1, <1>2, <1>3, <1>4, PassStep DEF Accounted

\* A rows event that cannot be decoded: its miss is recorded before its commit
\* is passed.
LEMMA HandleUnreadableInv ==
    ASSUME NEW c \in Collectors
    PROVE  IInv /\ HandleUnreadable(c) => IInv'
<1> SUFFICES ASSUME IInv, HandleUnreadable(c) PROVE IInv'
  OBVIOUS
<1> USE DEF HandleUnreadable
<1>1. Next1(c) \in 1 .. Len(log) /\ log[Next1(c)].miss \in Nat
  BY NextEntry
<1>2. /\ StoreInv(store') /\ Keeps(store, store')
      /\ log[Next1(c)].miss \in store'.misses
  BY <1>1, MissKeeps
<1>3. TypeOK'
  BY <1>2 DEF IInv, TypeOK, StoreInv, server, history
<1>4. LogGrows
  BY LogStands DEF IInv, TypeOK, LogOK, server, history
<1>5. SessionInv(c)'
  <2>1. LogOK /\ pos[c] \in 0 .. Len(log) /\ SessionOK(store, base[c], pos[c], missed[c])
    BY DEF IInv, TypeOK, LogOK, SessionInv
  <2>2. SessionOK(store', base[c], pos[c], missed[c])
    BY <1>2, <2>1, SessionKept
  <2>3. MissAccounted(store', pos[c] + 1)
    BY <1>2 DEF MissAccounted, Next1
  <2>4. pos[c] < Len(log)
    BY DEF Reading
  <2>5. SessionOK(store', base'[c], pos'[c], missed'[c])
    BY <2>2, <2>3, <2>4 DEF SessionOK
  <2>6. base'[c].pos \in Nat /\ pos'[c] \in 0 .. Len(log)
    BY <2>1, <1>3 DEF TypeOK, Checkpoint
  <2> QED
    BY <1>4, <2>5, <2>6, SessionCarried
<1>6. ASSUME NEW d \in Collectors \ {c} PROVE SessionInv(d)'
  <2>1. base'[d] = base[d] /\ pos'[d] = pos[d] /\ missed'[d] = missed[d]
    BY DEF IInv, TypeOK
  <2> QED
    BY <1>2, <1>3, <1>4, <2>1, SessionQuiet
<1>7. \A d \in Collectors : SessionInv(d)'
  BY <1>5, <1>6
<1> QED
  BY <1>2, <1>3, <1>7, CollectorStep

----------------------------------------------------------------------------
(***************************************************************************)
(* The theorems                                                            *)
(***************************************************************************)
\* An empty store beside an empty log accounts for everything.
LEMMA InitInv == Init => IInv
<1> SUFFICES ASSUME Init PROVE IInv
  OBVIOUS
<1> USE DEF Init
<1>1. EmptyStore \in Store /\ ZeroCheckpoint \in Checkpoint /\ Retention + 1 \in Nat
  BY StoreAssumption DEF EmptyStore, Store, ZeroCheckpoint, Checkpoint, Instant
<1>2. log \in Seq(Entry) /\ Len(log) = 0
  OBVIOUS
<1>3. TypeOK
  BY <1>1, <1>2 DEF TypeOK, Instant, States
<1>4. StoreInv(EmptyStore)
  <2>1. IdsBounded(EmptyStore)
    BY DEF IdsBounded, EmptyStore
  <2> QED
    BY <1>1, <1>2, <2>1 DEF StoreInv, EmptyStore, ZeroCheckpoint, RowsAreFaithful,
                            GapsEndLate, NoTwins, AccountedTo
<1>5. ASSUME NEW c \in Collectors PROVE SessionInv(c)
  BY <1>2 DEF SessionInv, SessionOK, ZeroCheckpoint, AccountedTo
<1> QED
  BY <1>2, <1>3, <1>4, <1>5 DEF IInv

\* Every step of the server, the disk, a collector or a failure.
LEMMA NextInv == IInv /\ [Next]_vars => IInv'
<1> SUFFICES ASSUME IInv, [Next]_vars PROVE IInv'
  OBVIOUS
<1>1. CASE Server
  <2>1. clock \in Nat /\ Len(log) \in Nat /\ Retention \in Nat
    BY StoreAssumption DEF IInv, TypeOK, Instant
  <2>2. ASSUME NEW upto \in 1 .. Len(log), Purge(upto) PROVE IInv'
    BY <2>1, <2>2, PurgeInv
  <2> QED
    BY <1>1, <2>2, TickInv, CommitInv DEF Server
<1>2. CASE Sync
  BY <1>2, SyncInv
<1>3. CASE Failure
  BY <1>3, PowerLossInv, EndsInv, QuietInv DEF Failure
<1>4. ASSUME NEW c \in Collectors, Run(c) PROVE IInv'
  <2>1. CASE Attach(c)
    BY <2>1, ResumeInv, AttachAtCurrentInv, EndsInv DEF Attach
  <2>2. CASE Read(c)
    BY <2>2, WritesInv, HandleUnreadableInv, HandleCommitInv, HandleDroppedInv, EndsInv
       DEF Read
  <2> QED
    BY <1>4, <2>1, <2>2, LoadCheckpointInv, WritesInv, EndsInv DEF Run
<1>5. ASSUME NEW c \in Collectors, Start(c) \/ Return(c) \/ SendHeartbeat(c) \/ RunPrune(c)
      PROVE  IInv'
  BY <1>5, WritesInv, EndsInv, QuietInv
<1>6. CASE UNCHANGED vars
  <2>1. TypeOK'
    BY <1>6 DEF IInv, TypeOK, vars, server, session, history
  <2> QED
    BY <1>6, <2>1, QuietStep DEF vars, server, session, history
<1> QED
  BY <1>1, <1>2, <1>3, <1>4, <1>5, <1>6 DEF Next

\* The strengthened invariant holds in every reachable state: whatever a
\* checkpoint, a resumed attempt or an open stream has gone past is accounted
\* for in the store, and in what a power loss would leave of it.
THEOREM Invariance == Spec => []IInv
<1>1. Init => IInv
  BY InitInv
<1>2. IInv /\ [Next]_vars => IInv'
  BY NextInv
<1> QED
  BY <1>1, <1>2, PTL DEF Spec

\* Every variable keeps its type: in particular what a collector writes to
\* the store is well-formed, its next row id a number and its position one
\* the log has.
THEOREM TypeCorrect == Spec => []TypeOK
<1>1. IInv => TypeOK
  BY DEF IInv
<1> QED
  BY <1>1, Invariance, PTL

\* What a collector has gone past is in the store, or known to be missing,
\* or behind the coverage boundary, or was jumped over by an attach.
THEOREM NothingLostInSilence == Spec => []NoSilentLoss
<1>1. IInv => NoSilentLoss
  BY DEF IInv, StoreInv, SessionInv, SessionOK, AccountedTo, NoSilentLoss, PassedBy
<1> QED
  BY <1>1, Invariance, PTL

\* However many collectors deliver it, with a lock or without one, a
\* transaction is stored once, under an id no other has.
THEOREM OneRowEach == Spec => []StoredOnce
<1>1. IInv => StoredOnce
  BY DEF IInv, StoreInv, NoTwins, StoredOnce
<1> QED
  BY <1>1, Invariance, PTL
=============================================================================
