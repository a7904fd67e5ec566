------------------------ MODULE CollectorOrderProofs ------------------------
(***************************************************************************)
(* What a collector does to the store and to its session, step by step,    *)
(* and what follows for the order of things: where the platform has a file *)
(* lock, rows are stored in the order of the source and the checkpoint     *)
(* only goes forward; with or without one, the high-water mark moves only  *)
(* while a stream is read.                                                 *)
(*                                                                         *)
(* And what a window can be trusted to hold, however far the dates of the  *)
(* log stray from its order.  The checkpoint is never dated after the      *)
(* rows.  A gap begins at most Skew after the changes it was recorded for, *)
(* so only in the last Skew seconds of a window the store answers for can  *)
(* one of them be missing.                                                 *)
(***************************************************************************)
EXTENDS CollectorProofs

\* Every way a collector writes to the store.
WritesStore(c) ==
    \/ pc[c] = "down" /\ store' = OpenCoverage(store, clock)
    \/ pc[c] = "lost" /\ store' = RecordGap(store, base[c].at, clock, base[c].pos + 1 .. Len(log))
    \/ store' = Prune(store, clock)
    \/ /\ pc[c] = "streaming"
       /\ \/ \E when \in Nat : when <= clock /\ store' = AdvanceCoverage(store, when)
          \/ \E when \in Nat : store' = RecordMiss(store, when)

\* The one that moves the checkpoint.
StoresNext(c) ==
    /\ Reading(c)
    /\ store' = AppendTransaction(store, Next1(c), log[Next1(c)].at)

\* How a step takes one session on.
GoesOn(d) == pc'[d] = pc[d] /\ base'[d] = base[d] /\ pos'[d] = pos[d]

Rests(d) == /\ pc'[d] \in {"down", "idle", "lost", "halted"}
            /\ base'[d] \in {base[d], ZeroCheckpoint}

Loads(d) == /\ pc[d] = "idle" /\ pc'[d] = "attaching" /\ store' = store
            /\ base'[d] \in {ZeroCheckpoint, store.checkpoint}

Opens(d) == /\ pc[d] = "attaching" /\ pc'[d] = "streaming" /\ store' = store
            /\ base'[d] = base[d]
            /\ pos'[d] = IF IsZero(base[d]) THEN Len(log) ELSE base[d].pos

Passes(d) == /\ Reading(d) /\ pc'[d] = "streaming"
             /\ base'[d] = base[d] /\ pos'[d] = Next1(d)

Takes(d) == GoesOn(d) \/ Rests(d) \/ Loads(d) \/ Opens(d) \/ Passes(d)

\* What one collector's step does: it stores the transaction it passes, or
\* leaves the checkpoint and the rows there are to others.
MovesOn(c) == /\ store' = store \/ WritesStore(c)
              /\ \A d \in Collectors : Takes(d)

Stores(c) == /\ StoresNext(c) /\ Passes(c)
             /\ \A d \in Collectors \ {c} : GoesOn(d)

----------------------------------------------------------------------------
\* Leaving an attempt or starting a process: one session rests, the others go on.
LEMMA LeaveTakes ==
    ASSUME IInv, NEW c \in Collectors, NEW state \in {"down", "idle", "lost", "halted"},
           Leave(c, state)
    PROVE  \A d \in Collectors : Takes(d)
<1>1. Rests(c)
  BY DEF Leave, Goto, Rests, IInv, TypeOK
<1>2. \A d \in Collectors \ {c} : GoesOn(d)
  BY DEF Leave, Goto, GoesOn, IInv, TypeOK
<1> QED
  BY <1>1, <1>2 DEF Takes

\* The server's steps and the disk's leave every session and the store alone.
LEMMA ServerLeavesAlone ==
    ASSUME Server \/ Sync
    PROVE  store' = store /\ session' = session
BY DEF Server, Sync, Tick, Commit, Purge

\* A step of one collector.
CollectorNext(c) == \/ Start(c) \/ Run(c) \/ Return(c) \/ SendHeartbeat(c) \/ RunPrune(c)
                    \/ Disconnect(c) \/ RefusedSpuriously(c) \/ GapFails(c) \/ Kill(c)
                    \/ Signal(c)

\* A step is the server's, the disk's, a power loss or one collector's.
LEMMA NextKinds ==
    ASSUME [Next]_vars
    PROVE  \/ Server \/ Sync \/ PowerLoss \/ UNCHANGED vars
           \/ \E c \in Collectors : CollectorNext(c)
BY DEF Next, Failure, CollectorNext

\* The reading of an event: what it writes and how far it takes the session.
LEMMA ReadEffect ==
    ASSUME IInv, NEW c \in Collectors, Read(c)
    PROVE  /\ MovesOn(c) \/ Stores(c)
           /\ UNCHANGED <<server, disk>>
<1>1. CASE HandleUnstamped(c)
  <2>1. clock \in Nat /\ clock <= clock
    BY DEF IInv, TypeOK, Instant
  <2> QED
    BY <1>1, <2>1 DEF HandleUnstamped, WritesStore, MovesOn, Takes, GoesOn
<1>2. CASE HandleUnreadable(c)
  BY <1>2, NextEntry DEF HandleUnreadable, Reading, WritesStore, MovesOn, Takes, GoesOn
<1>3. ASSUME NEW when \in Instants, HandleTableMap(c, when)
      PROVE  MovesOn(c) /\ UNCHANGED <<server, disk>>
  <2>1. when \in Nat /\ when <= clock
    BY StoreAssumption DEF Instants, IInv, TypeOK, Instant
  <2> QED
    BY <1>3, <2>1 DEF HandleTableMap, Reading, WritesStore, MovesOn, Takes, GoesOn, session
<1>4. ASSUME Pass(c), Reading(c)
      PROVE  Passes(c) /\ \A d \in Collectors \ {c} : GoesOn(d)
  BY <1>4 DEF Passes, Pass, Reading, GoesOn, IInv, TypeOK
<1>5. CASE HandleCommit(c)
  BY <1>4, <1>5 DEF HandleCommit, Pass, StoresNext, Stores
<1>6. CASE HandleDropped(c)
  <2> DEFINE when == log[Next1(c)].at
  <2>1. /\ Reading(c) /\ Pass(c) /\ store' = AdvanceCoverage(store, when)
        /\ when \in Nat /\ when <= clock
    BY <1>6, NextEntry DEF HandleDropped, IInv, Past
  <2> HIDE DEF when
  <2>2. WritesStore(c)
    BY <2>1 DEF WritesStore, Reading
  <2> QED
    BY <1>4, <2>1, <2>2 DEF Pass, MovesOn, Takes
<1>7. CASE HandleXA(c)
  BY <1>7, LeaveTakes DEF HandleXA, MovesOn
<1> QED
  BY <1>1, <1>2, <1>3, <1>5, <1>6, <1>7 DEF Read

\* Any step of a collector.
LEMMA CollectorEffect ==
    ASSUME IInv, NEW c \in Collectors, CollectorNext(c)
    PROVE  /\ MovesOn(c) \/ Stores(c)
           /\ UNCHANGED <<server, disk>>
<1>1. CASE Start(c)
  <2>1. Rests(c) /\ \A d \in Collectors \ {c} : GoesOn(d)
    BY <1>1 DEF Start, Goto, Rests, GoesOn, IInv, TypeOK
  <2> QED
    BY <1>1, <2>1 DEF Start, WritesStore, MovesOn, Takes
<1>2. CASE LoadCheckpoint(c)
  <2>1. Loads(c) /\ \A d \in Collectors \ {c} : GoesOn(d)
    BY <1>2 DEF LoadCheckpoint, Goto, Loads, GoesOn, IInv, TypeOK
  <2> QED
    BY <1>2, <2>1 DEF LoadCheckpoint, MovesOn, Takes
<1>3. CASE Resume(c) \/ AttachAtCurrent(c)
  <2>1. Opens(c) /\ \A d \in Collectors \ {c} : GoesOn(d)
    BY <1>3 DEF Resume, AttachAtCurrent, Open, Goto, Opens, GoesOn, IInv, TypeOK
  <2> QED
    BY <1>3, <2>1 DEF Resume, AttachAtCurrent, MovesOn, Takes
<1>4. ASSUME NEW state \in {"idle", "lost"}, Fail(c, state)
      PROVE  \A d \in Collectors : Takes(d)
  <2>1. (IF ctx[c] THEN "halted" ELSE state) \in {"down", "idle", "lost", "halted"}
    OBVIOUS
  <2> QED
    BY <1>4, <2>1, LeaveTakes DEF Fail
<1>5. CASE Refused(c)
  <2>1. (IF IsZero(base[c]) THEN "idle" ELSE "lost") \in {"idle", "lost"}
    OBVIOUS
  <2> QED
    BY <1>4, <1>5, <2>1 DEF Refused, MovesOn
<1>6. CASE Disconnect(c)
  BY <1>4, <1>6 DEF Disconnect, MovesOn
<1>7. CASE RefusedSpuriously(c)
  BY <1>4, <1>7 DEF RefusedSpuriously, MovesOn
<1>8. CASE GapFails(c)
  BY <1>8, LeaveTakes DEF GapFails, MovesOn
<1>9. CASE Kill(c) \/ Return(c)
  BY <1>9, LeaveTakes DEF Kill, Return, Exit, MovesOn
<1>10. CASE Cancelled(c)
  BY <1>10, LeaveTakes DEF Cancelled, MovesOn
<1>11. CASE RecoverFromPurge(c)
  BY <1>11, LeaveTakes DEF RecoverFromPurge, MovesOn, WritesStore
<1>12. CASE Signal(c) \/ SendHeartbeat(c)
  BY <1>12 DEF Signal, SendHeartbeat, MovesOn, Takes, GoesOn
<1>13. CASE RunPrune(c)
  BY <1>13 DEF RunPrune, WritesStore, MovesOn, Takes, GoesOn, session
<1>14. CASE Read(c)
  BY <1>14, ReadEffect
<1> QED
  BY <1>1, <1>2, <1>3, <1>5, <1>6, <1>7, <1>8, <1>9, <1>10, <1>11, <1>12, <1>13, <1>14
     DEF CollectorNext, Run, Attach

----------------------------------------------------------------------------
(***************************************************************************)
(* One process at a time, where the kernel keeps the lock                  *)
(***************************************************************************)
OneAtATime == \A c, d \in Collectors : c # d => pc[c] = "down" \/ pc[d] = "down"

\* Nothing but the start of a process brings one up (Claim).
LEMMA OnlyStartBringsUp ==
    ASSUME IInv, NEW c \in Collectors, CollectorNext(c), ~ Start(c)
    PROVE  \A d \in Collectors : pc[d] = "down" => pc'[d] = "down"
<1>1. ASSUME NEW state \in States, pc[c] # "down", Leave(c, state)
      PROVE  \A d \in Collectors : pc[d] = "down" => pc'[d] = "down"
  BY <1>1 DEF Leave, Goto, IInv, TypeOK
<1>2. ASSUME NEW state \in States, pc[c] # "down", Fail(c, state)
      PROVE  \A d \in Collectors : pc[d] = "down" => pc'[d] = "down"
  <2>1. (IF ctx[c] THEN "halted" ELSE state) \in States
    BY DEF States
  <2> QED
    BY <1>1, <1>2, <2>1 DEF Fail
<1>3. CASE Refused(c)
  <2>1. (IF IsZero(base[c]) THEN "idle" ELSE "lost") \in States
    BY DEF States
  <2> QED
    BY <1>2, <1>3, <2>1 DEF Refused
<1>4. CASE Disconnect(c) \/ RefusedSpuriously(c)
  BY <1>2, <1>4 DEF Disconnect, RefusedSpuriously, States
<1>5. CASE GapFails(c) \/ Kill(c) \/ Return(c) \/ Cancelled(c) \/ RecoverFromPurge(c) \/ HandleXA(c)
  BY <1>1, <1>5 DEF GapFails, Kill, Return, Exit, Cancelled, RecoverFromPurge, HandleXA,
                    Reading, States
<1>6. CASE Signal(c) \/ SendHeartbeat(c) \/ RunPrune(c)
  BY <1>6 DEF Signal, SendHeartbeat, RunPrune, session
<1>7. CASE LoadCheckpoint(c) \/ Resume(c) \/ AttachAtCurrent(c)
  BY <1>7 DEF LoadCheckpoint, Resume, AttachAtCurrent, Open, Goto, IInv, TypeOK
<1>8. CASE HandleUnstamped(c) \/ HandleUnreadable(c) \/ HandleCommit(c) \/ HandleDropped(c)
  BY <1>8 DEF HandleUnstamped, HandleUnreadable, HandleCommit, HandleDropped, Pass
<1>9. CASE \E when \in Instants : HandleTableMap(c, when)
  BY <1>9 DEF HandleTableMap, session
<1> QED
  BY <1>3, <1>4, <1>5, <1>6, <1>7, <1>8, <1>9 DEF CollectorNext, Run, Attach, Read

\* Two processes are never up together.
LEMMA OneAtATimeStep ==
    ASSUME LockSupported, IInv, OneAtATime, [Next]_vars
    PROVE  OneAtATime'
<1>1. CASE Server \/ Sync \/ UNCHANGED vars
  BY <1>1, ServerLeavesAlone DEF OneAtATime, session, vars
<1>2. CASE PowerLoss
  BY <1>2 DEF PowerLoss, OneAtATime
<1>3. ASSUME NEW c \in Collectors, CollectorNext(c)
      PROVE  OneAtATime'
  <2>1. CASE Start(c)
    BY <2>1 DEF Start, Claim, Goto, OneAtATime, IInv, TypeOK
  <2>2. CASE ~ Start(c)
    BY <1>3, <2>2, OnlyStartBringsUp DEF OneAtATime
  <2> QED
    BY <2>1, <2>2
<1> QED
  BY <1>1, <1>2, <1>3, NextKinds

----------------------------------------------------------------------------
(***************************************************************************)
(* The order of the rows                                                   *)
(***************************************************************************)
\* An attempt under way goes on from the checkpoint or from beyond it, so what
\* it stores next is newer than all there is.
NotBehind(c) ==
    /\ pc[c] = "streaming" => store.checkpoint.pos <= pos[c]
    /\ pc[c] = "attaching" /\ ~ IsZero(base[c]) => store.checkpoint.pos <= base[c].pos

OrderInv == /\ OneAtATime
            /\ OrderOf(store) /\ OrderOf(disk)
            /\ \A c \in Collectors : NotBehind(c)

\* The checkpoint is a position of the log.
LEMMA CheckpointInLog ==
    ASSUME IInv
    PROVE  /\ store.checkpoint.pos \in 0 .. Len(log) /\ Len(log) \in Nat
           /\ store \in Store /\ clock \in Nat
BY DEF IInv, StoreInv, TypeOK, Store, Checkpoint, Instant

\* Every write but the storing of a transaction leaves the checkpoint, and
\* adds no row.
LEMMA WriteAddsNoRow ==
    ASSUME IInv, NEW c \in Collectors, WritesStore(c)
    PROVE  /\ store'.txns \subseteq store.txns
           /\ store'.checkpoint = store.checkpoint
<1>1. store \in Store /\ clock \in Nat
  BY CheckpointInLog
<1>2. ASSUME store' = RecordGap(store, base[c].at, clock, base[c].pos + 1 .. Len(log))
      PROVE  store'.txns = store.txns /\ store'.checkpoint = store.checkpoint
  <2> DEFINE covers == base[c].pos + 1 .. Len(log)
  <2>1. base[c].at \in Nat /\ covers \in SUBSET Nat
    BY DEF IInv, TypeOK, Checkpoint, Instant
  <2>2. store' = RecordGap(store, base[c].at, clock, covers)
    BY <1>2
  <2> HIDE DEF covers
  <2> QED
    BY <1>1, <2>1, <2>2, RecordGapFields, ZenonT(60)
<1>3. CASE store' = OpenCoverage(store, clock)
  BY <1>1, <1>3, OpenCoverageFields
<1>4. CASE store' = Prune(store, clock)
  BY <1>1, <1>4, PruneFields
<1>5. ASSUME NEW when \in Nat, store' = AdvanceCoverage(store, when)
      PROVE  store'.txns = store.txns /\ store'.checkpoint = store.checkpoint
  BY <1>1, <1>5, AdvanceCoverageFields
<1>6. ASSUME NEW when \in Nat, store' = RecordMiss(store, when)
      PROVE  store'.txns = store.txns /\ store'.checkpoint = store.checkpoint
  BY <1>1, <1>6, RecordMissFields
<1> QED
  BY <1>2, <1>3, <1>4, <1>5, <1>6 DEF WritesStore

\* What a collector stores next is newer than all there is.
LEMMA StoresNextInOrder ==
    ASSUME IInv, OrderInv, NEW c \in Collectors, StoresNext(c)
    PROVE  /\ pc[c] = "streaming" /\ Next1(c) = pos[c] + 1 /\ pos[c] \in Nat
           /\ store.checkpoint.pos <= pos[c]
           /\ OrderOf(store') /\ store'.checkpoint.pos = Next1(c)
<1>1. /\ Reading(c) /\ store' = AppendTransaction(store, Next1(c), log[Next1(c)].at)
      /\ Next1(c) \in Nat /\ log[Next1(c)].at \in Nat
  BY NextEntry DEF StoresNext
<1>2. /\ store \in Store /\ IdsBounded(store) /\ store.checkpoint.pos \in Nat
      /\ pos[c] \in Nat
  BY CheckpointInLog DEF IInv, StoreInv, TypeOK
<1>3. pc[c] = "streaming" /\ Next1(c) = pos[c] + 1 /\ store.checkpoint.pos <= pos[c]
  BY <1>1 DEF Reading, Next1, OrderInv, NotBehind
<1>4. store.checkpoint.pos < Next1(c) /\ OrderOf(store)
  BY <1>2, <1>3 DEF OrderInv
<1>5. PICK src, when : src = Next1(c) /\ when = log[Next1(c)].at
  OBVIOUS
<1>6. /\ src \in Nat /\ when \in Nat /\ store' = AppendTransaction(store, src, when)
      /\ store.checkpoint.pos < src
  BY <1>1, <1>4, <1>5
<1>7. OrderOf(store')
  BY <1>2, <1>4, <1>6, AppendInOrder
<1>8. store'.checkpoint.pos = src
  BY <1>2, <1>6, AppendTransactionFields, ZenonT(60)
<1> QED
  BY <1>2, <1>3, <1>5, <1>7, <1>8

\* The order survives every step.
LEMMA OrderStep ==
    ASSUME LockSupported, IInv, OrderInv, [Next]_vars
    PROVE  OrderInv'
<1>1. OneAtATime'
  BY OneAtATimeStep DEF OrderInv
<1>2. CASE Server \/ Sync \/ UNCHANGED vars
  <2>1. /\ store' = store /\ pc' = pc /\ pos' = pos /\ base' = base
        /\ disk' \in {disk, store}
    BY <1>2, ServerLeavesAlone DEF session, vars, Server, Tick, Commit, Purge, Sync
  <2> QED
    BY <1>1, <2>1 DEF OrderInv, OrderOf, InOrder, BehindCheckpoint, NotBehind
<1>3. CASE PowerLoss
  BY <1>1, <1>3 DEF PowerLoss, OrderInv, OrderOf, InOrder, BehindCheckpoint, NotBehind
<1>4. ASSUME NEW c \in Collectors, CollectorNext(c)
      PROVE  OrderInv'
  <2>1. MovesOn(c) \/ Stores(c)
    BY <1>4, CollectorEffect
  <2>2. disk' = disk /\ log' = log /\ OrderOf(disk)'
    BY <1>4, CollectorEffect DEF server, OrderInv, OrderOf, InOrder, BehindCheckpoint
  <2>3. CASE MovesOn(c)
    <3>1. store'.txns \subseteq store.txns /\ store'.checkpoint = store.checkpoint
      BY <2>3, WriteAddsNoRow DEF MovesOn
    <3>2. OrderOf(store)'
      BY <3>1 DEF OrderInv, OrderOf, InOrder, BehindCheckpoint
    <3>3. ASSUME NEW d \in Collectors PROVE NotBehind(d)'
      <4>1. NotBehind(d) /\ Takes(d) /\ store.checkpoint.pos \in 0 .. Len(log)
            /\ Len(log) \in Nat /\ pos[d] \in Nat /\ base[d].pos \in Nat
        BY <2>3, CheckpointInLog DEF MovesOn, OrderInv, IInv, TypeOK, Checkpoint
      <4>2. CASE GoesOn(d) \/ Rests(d)
        BY <3>1, <4>1, <4>2 DEF GoesOn, Rests, NotBehind
      <4>3. CASE Loads(d)
        BY <3>1, <4>1, <4>3 DEF Loads, NotBehind, IsZero, ZeroCheckpoint
      <4>4. CASE Opens(d)
        BY <3>1, <4>1, <4>4 DEF Opens, NotBehind
      <4>5. CASE Passes(d)
        BY <3>1, <4>1, <4>5 DEF Passes, Reading, Next1, NotBehind
      <4> QED
        BY <4>1, <4>2, <4>3, <4>4, <4>5 DEF Takes
    <3> QED
      BY <1>1, <2>2, <3>2, <3>3 DEF OrderInv
  <2>4. CASE Stores(c)
    <3>1. /\ pc[c] = "streaming" /\ Next1(c) = pos[c] + 1 /\ pos[c] \in Nat
          /\ store.checkpoint.pos <= pos[c]
          /\ OrderOf(store') /\ store'.checkpoint.pos = Next1(c)
      BY <2>4, StoresNextInOrder DEF Stores
    <3>2. NotBehind(c)'
      BY <2>4, <3>1 DEF Stores, Passes, NotBehind
    <3>3. ASSUME NEW d \in Collectors \ {c} PROVE NotBehind(d)'
      BY <2>4, <3>1 DEF Stores, GoesOn, OrderInv, OneAtATime, NotBehind
    <3> QED
      BY <1>1, <2>2, <3>1, <3>2, <3>3 DEF OrderInv
  <2> QED
    BY <2>1, <2>3, <2>4
<1> QED
  BY <1>2, <1>3, <1>4, NextKinds

\* No collector up, nothing stored: everything is in order.
LEMMA OrderInit == Init => OrderInv
BY DEF Init, OrderInv, OneAtATime, OrderOf, InOrder, BehindCheckpoint, NotBehind, EmptyStore,
       ZeroCheckpoint

----------------------------------------------------------------------------
(***************************************************************************)
(* The high-water mark                                                     *)
(***************************************************************************)
\* The disk trails the store in what it covers, too.
MarkOnDisk == disk.to <= store.to

\* What one collector's step does to the mark: a step that raises it reads a
\* stream, and takes it no further than the clock.
LEMMA MarkOfAStep ==
    ASSUME IInv, NEW c \in Collectors, CollectorNext(c)
    PROVE  /\ store'.to \in Nat /\ store'.to >= store.to
           /\ store'.to > store.to => pc[c] = "streaming" /\ store'.to <= clock
<1>1. store \in Store /\ clock \in Nat /\ store.to \in Nat
  BY CheckpointInLog DEF Store, Instant
<1>2. CASE MovesOn(c)
  <2>1. CASE store' = store
    BY <1>1, <2>1
  <2>2. CASE store' = RecordGap(store, base[c].at, clock, base[c].pos + 1 .. Len(log))
    BY <1>1, <2>2 DEF RecordGap, Store
  <2>3. CASE store' = OpenCoverage(store, clock)
    BY <1>1, <2>3, OpenCoverageFields
  <2>4. CASE store' = Prune(store, clock)
    <3>1. Prune(store, clock).to = store.to
      BY <1>1, PruneFields
    <3> QED
      BY <1>1, <2>4, <3>1
  <2>5. ASSUME NEW when \in Nat, when <= clock, pc[c] = "streaming",
               store' = AdvanceCoverage(store, when)
        PROVE  /\ store'.to \in Nat /\ store'.to >= store.to
               /\ store'.to > store.to => pc[c] = "streaming" /\ store'.to <= clock
    <3>1. store'.to \in {store.to, when} /\ store'.to >= store.to
      BY <1>1, <2>5, AdvanceCoverageFields
    <3> QED
      BY <1>1, <2>5, <3>1
  <2>6. ASSUME NEW when \in Nat, store' = RecordMiss(store, when)
        PROVE  store'.to = store.to
    BY <1>1, <2>6, RecordMissFields
  <2> QED
    BY <1>1, <1>2, <2>1, <2>2, <2>3, <2>4, <2>5, <2>6 DEF MovesOn, WritesStore
<1>3. CASE Stores(c)
  <2> DEFINE at == log[Next1(c)].at
  <2>1. /\ pc[c] = "streaming" /\ at \in Nat /\ at <= clock /\ Next1(c) \in Nat
        /\ store' = AppendTransaction(store, Next1(c), at)
    BY <1>3, NextEntry DEF Stores, StoresNext, Reading, IInv, Past
  <2> HIDE DEF at
  <2>2. store'.to \in {store.to, at} /\ store'.to >= store.to
    BY <1>1, <2>1, AppendTransactionReaches
  <2> QED
    BY <1>1, <2>1, <2>2
<1> QED
  BY <1>2, <1>3, CollectorEffect

\* Who raises the mark, and that nothing on disk is ahead of it.
LEMMA MarkStep ==
    ASSUME IInv, MarkOnDisk, [Next]_vars
    PROVE  /\ MarkOnDisk'
           /\ store'.to > store.to => /\ \E c \in Collectors : pc[c] = "streaming"
                                      /\ store'.to <= clock
<1>1. store.to \in Nat /\ disk.to \in Nat /\ disk.to <= store.to
  BY DEF IInv, TypeOK, Store, Instant, MarkOnDisk
<1>2. CASE Server \/ Sync \/ UNCHANGED vars
  <2>1. store' = store /\ disk' \in {disk, store}
    BY <1>2, ServerLeavesAlone DEF vars, Server, Tick, Commit, Purge, Sync
  <2> QED
    BY <1>1, <2>1 DEF MarkOnDisk
<1>3. CASE PowerLoss
  <2>1. store' = disk /\ disk' = disk
    BY <1>3 DEF PowerLoss
  <2> QED
    BY <1>1, <2>1 DEF MarkOnDisk
<1>4. ASSUME NEW c \in Collectors, CollectorNext(c)
      PROVE  /\ MarkOnDisk'
             /\ store'.to > store.to => /\ \E d \in Collectors : pc[d] = "streaming"
                                        /\ store'.to <= clock
  <2>1. disk' = disk
    BY <1>4, CollectorEffect
  <2>2. /\ store'.to \in Nat /\ store'.to >= store.to
        /\ store'.to > store.to => pc[c] = "streaming" /\ store'.to <= clock
    BY <1>4, MarkOfAStep
  <2> QED
    BY <1>1, <2>1, <2>2 DEF MarkOnDisk
<1> QED
  BY <1>2, <1>3, <1>4, NextKinds

----------------------------------------------------------------------------
(***************************************************************************)
(* The theorems                                                            *)
(***************************************************************************)
\* With one process at a time, what is stored was stored no later than the
\* checkpoint says, an attempt goes on from there or beyond, and a power loss
\* goes back to a store of which the same is true.
THEOREM OrderInvariance == ASSUME LockSupported PROVE Spec => []OrderInv
<1>1. Init => OrderInv
  BY OrderInit
<1>2. IInv /\ OrderInv /\ [Next]_vars => OrderInv'
  BY OrderStep
<1> QED
  BY <1>1, <1>2, Invariance, PTL DEF Spec

\* Where the kernel keeps the lock, the ids a revert is ordered by follow the
\* order of the source, through reconnects, purges, kills and power losses.
THEOREM RowsInSourceOrder == ASSUME LockSupported PROVE Spec => []SourceOrder
<1>1. OrderInv => SourceOrder
  BY DEF OrderInv, OrderOf, InOrder, SourceOrder
<1> QED
  BY <1>1, OrderInvariance, PTL

\* Where the kernel keeps the lock, only a power loss takes the checkpoint
\* back: no recovery, retry or second process makes the source repeat itself.
THEOREM OnlyPowerTakesBack == ASSUME LockSupported PROVE Spec => CheckpointAdvances
<1>1. ASSUME IInv, OrderInv, [Next]_vars
      PROVE  [store'.checkpoint.pos < store.checkpoint.pos => store' = disk]_vars
  <2>1. store.checkpoint.pos \in Nat
    BY <1>1, CheckpointInLog
  <2>2. CASE Server \/ Sync \/ UNCHANGED vars
    BY <2>1, <2>2, ServerLeavesAlone DEF vars
  <2>3. CASE PowerLoss
    BY <2>3 DEF PowerLoss
  <2>4. ASSUME NEW c \in Collectors, CollectorNext(c)
        PROVE  ~ (store'.checkpoint.pos < store.checkpoint.pos)
    <3>1. CASE MovesOn(c)
      BY <1>1, <2>1, <3>1, WriteAddsNoRow DEF MovesOn
    <3>2. CASE Stores(c)
      BY <1>1, <2>1, <3>2, StoresNextInOrder DEF Stores
    <3> QED
      BY <1>1, <2>4, <3>1, <3>2, CollectorEffect
  <2> QED
    BY <1>1, <2>2, <2>3, <2>4, NextKinds
<1> QED
  BY <1>1, Invariance, OrderInvariance, PTL DEF Spec, CheckpointAdvances

\* A store nobody collects into goes stale: only a stream that is being read
\* moves the high-water mark, and none past the clock, lock or no lock.
THEOREM MarkFollowsAStream == Spec => CoverageNeedsAStream
<1>1. Init => MarkOnDisk
  BY DEF Init, MarkOnDisk, EmptyStore
<1>2. IInv /\ MarkOnDisk /\ [Next]_vars => MarkOnDisk'
  BY MarkStep
<1>3. IInv /\ MarkOnDisk /\ [Next]_vars =>
        [store'.to > store.to => /\ \E c \in Collectors : pc[c] = "streaming"
                                 /\ store'.to <= clock]_vars
  BY MarkStep
<1> QED
  BY <1>1, <1>2, <1>3, Invariance, PTL DEF Spec, CoverageNeedsAStream

----------------------------------------------------------------------------
(***************************************************************************)
(* The checkpoint and the rows                                             *)
(***************************************************************************)
\* The rows, the gaps and the checkpoint after a write that stores nothing.
LEMMA WriteLeaves ==
    ASSUME IInv, NEW c \in Collectors, WritesStore(c)
    PROVE  /\ store' = Prune(store, clock) \/ store'.txns = store.txns
           /\ store'.checkpoint = store.checkpoint
           /\ store'.gaps \subseteq store.gaps \cup
                {[from |-> base[c].at, to |-> clock, covers |-> base[c].pos + 1 .. Len(log)]}
<1>1. store \in Store /\ clock \in Nat
  BY CheckpointInLog
<1>2. ASSUME store' = RecordGap(store, base[c].at, clock, base[c].pos + 1 .. Len(log))
      PROVE  /\ store'.txns = store.txns /\ store'.checkpoint = store.checkpoint
             /\ store'.gaps = store.gaps \cup
                  {[from |-> base[c].at, to |-> clock, covers |-> base[c].pos + 1 .. Len(log)]}
  BY <1>1, <1>2 DEF RecordGap, Store
<1>3. CASE store' = OpenCoverage(store, clock)
  BY <1>1, <1>3, OpenCoverageFields
<1>4. CASE store' = Prune(store, clock)
  <2>1. Prune(store, clock).gaps \subseteq store.gaps /\ Prune(store, clock).checkpoint = store.checkpoint
    BY <1>1, PruneFields
  <2> QED
    BY <1>4, <2>1
<1>5. ASSUME NEW when \in Nat, store' = AdvanceCoverage(store, when)
      PROVE  store'.txns = store.txns /\ store'.checkpoint = store.checkpoint
             /\ store'.gaps = store.gaps
  BY <1>1, <1>5, AdvanceCoverageFields
<1>6. ASSUME NEW when \in Nat, store' = RecordMiss(store, when)
      PROVE  store'.txns = store.txns /\ store'.checkpoint = store.checkpoint
             /\ store'.gaps = store.gaps
  BY <1>1, <1>6, RecordMissFields
<1> QED
  BY <1>2, <1>3, <1>4, <1>5, <1>6 DEF WritesStore

RowsAtCheckpoints == RowAtCheckpoint(store) /\ RowAtCheckpoint(disk)

\* No step leaves the checkpoint dated after every row.
LEMMA RowsAtCheckpointsStep ==
    ASSUME IInv, RowsAtCheckpoints, [Next]_vars
    PROVE  RowsAtCheckpoints'
<1>1. CASE Server \/ Sync \/ UNCHANGED vars
  <2>1. store' = store /\ disk' \in {disk, store}
    BY <1>1, ServerLeavesAlone DEF vars, Server, Tick, Commit, Purge, Sync
  <2> QED
    BY <2>1 DEF RowsAtCheckpoints, RowAtCheckpoint
<1>2. CASE PowerLoss
  BY <1>2 DEF PowerLoss, RowsAtCheckpoints, RowAtCheckpoint
<1>3. ASSUME NEW c \in Collectors, CollectorNext(c) PROVE RowsAtCheckpoints'
  <2>1. disk' = disk /\ (MovesOn(c) \/ Stores(c))
    BY <1>3, CollectorEffect
  <2>2. CASE MovesOn(c)
    <3>1. CASE store' = store
      BY <2>1, <3>1 DEF RowsAtCheckpoints, RowAtCheckpoint
    <3>2. CASE store' = Prune(store, clock)
      <4>1. RowAtCheckpoint(Prune(store, clock))
        BY CheckpointInLog, PruneRowAtCheckpoint DEF RowsAtCheckpoints
      <4> QED
        BY <2>1, <3>2, <4>1 DEF RowsAtCheckpoints, RowAtCheckpoint
    <3>3. CASE store'.txns = store.txns /\ store'.checkpoint = store.checkpoint
      BY <2>1, <3>3 DEF RowsAtCheckpoints, RowAtCheckpoint
    <3> QED
      BY <2>2, <3>1, <3>2, <3>3, WriteLeaves DEF MovesOn
  <2>3. CASE Stores(c)
    <3>1. /\ store' = AppendTransaction(store, Next1(c), log[Next1(c)].at)
          /\ Next1(c) \in 1 .. Len(log) /\ LogOK /\ StoreInv(store)
      BY <2>3, NextEntry DEF Stores, StoresNext, IInv, TypeOK, LogOK
    <3>2. /\ log[Next1(c)].at \in Nat /\ store \in Store /\ IdsBounded(store)
          /\ \A t \in store.txns : t.src = Next1(c) => t.at = log[Next1(c)].at
      BY <3>1, EntryType DEF StoreInv, RowsAreFaithful
    <3>3. RowAtCheckpoint(store')
      BY <3>1, <3>2, AppendRowAtCheckpoint
    <3> QED
      BY <2>1, <3>3 DEF RowsAtCheckpoints, RowAtCheckpoint
  <2> QED
    BY <2>1, <2>2, <2>3
<1> QED
  BY <1>1, <1>2, <1>3, NextKinds

\* What Integrity looks for is not there.
LEMMA NotAheadOfRows ==
    ASSUME IInv, RowsAtCheckpoints
    PROVE  CheckpointNotAhead
<1>1. store \in Store /\ clock \in Nat /\ RowAtCheckpoint(store)
  BY CheckpointInLog DEF RowsAtCheckpoints
<1>2. \A t \in store.txns : t.at <= clock
  BY DEF IInv, StoreInv, RowsAreFaithful, Past
<1> QED
  BY <1>1, <1>2, RowAtCheckpointSuffices DEF CheckpointNotAhead

\* Integrity finds the checkpoint of a store the program wrote in order, after
\* any history of collecting, pruning, redelivery and power loss.
THEOREM CheckpointIsSound == Spec => []CheckpointNotAhead
<1>1. Init => RowsAtCheckpoints
  BY DEF Init, RowsAtCheckpoints, RowAtCheckpoint, EmptyStore
<1>2. IInv /\ RowsAtCheckpoints /\ [Next]_vars => RowsAtCheckpoints'
  BY RowsAtCheckpointsStep
<1>3. IInv /\ RowsAtCheckpoints => CheckpointNotAhead
  BY NotAheadOfRows
<1> QED
  BY <1>1, <1>2, <1>3, Invariance, PTL DEF Spec

----------------------------------------------------------------------------
(***************************************************************************)
(* The gaps and the changes they were recorded for                         *)
(***************************************************************************)
\* A later commit is dated at most Skew before an earlier one.
NoEarlier(when, j) == when <= log[j].at + Skew /\ when <= log[j].miss + Skew

DatesNearlyRise == \A i, j \in 1 .. Len(log) : i <= j => NoEarlier(log[i].at, j)

\* A checkpoint carries the date of the transaction it stands at.
DatedBy(cp) == IF IsZero(cp) THEN cp.at = 0
               ELSE cp.pos \in 1 .. Len(log) /\ cp.at = log[cp.pos].at

GapsBeginEarly(s) == \A g \in s.gaps : \A j \in g.covers : NoEarlier(g.from, j)

SpanOf(s) == GapsBeginEarly(s) /\ DatedBy(s.checkpoint)

SpanInv == /\ DatesNearlyRise
           /\ SpanOf(store) /\ SpanOf(disk)
           /\ \A c \in Collectors : DatedBy(base[c])

\* What a gap covers are positions of the log, with dates to speak of.
LEMMA CoveredInLog ==
    ASSUME IInv, NEW s \in {store, disk}, NEW g \in s.gaps, NEW j \in g.covers
    PROVE  j \in 1 .. Len(log) /\ log[j].at \in Nat /\ log[j].miss \in Nat /\ g.from \in Nat
<1>1. s \in Store /\ GapsEndLate(s)
  BY DEF IInv, StoreInv
<1>2. j \in 1 .. Len(log) /\ g.from \in Nat
  BY <1>1 DEF GapsEndLate, Store, Gap, Instant
<1> QED
  BY <1>2, EntryType DEF IInv, TypeOK, LogOK

\* The server commits no earlier than Skew before now, and the log is past.
LEMMA CommitSpan ==
    ASSUME IInv, SpanInv, NEW kind \in Kinds, NEW at \in Instants, NEW miss \in Instants,
           Commit(kind, at, miss)
    PROVE  SpanInv'
<1> DEFINE n == Len(log) + 1
<1>1. /\ log \in Seq(Entry) /\ clock \in Nat /\ Skew \in Nat
      /\ at \in Nat /\ miss \in Nat /\ clock <= at + Skew /\ clock <= miss + Skew /\ at <= clock
  BY StoreAssumption, CollectorAssumption DEF IInv, TypeOK, Instant, Instants, Commit
<1>2. [at |-> at, miss |-> miss, kind |-> kind] \in Entry
  BY <1>1, CollectorAssumption DEF Entry, Instant
<1>3. /\ Len(log) \in Nat /\ Len(log') = n
      /\ \A i \in 1 .. Len(log) : log'[i] = log[i]
      /\ log'[n].at = at /\ log'[n].miss = miss
  BY <1>1, <1>2 DEF Commit
<1>4. \A i \in 1 .. Len(log) : log[i].at \in Nat /\ log[i].at <= clock
  BY EntryType DEF IInv, TypeOK, LogOK, Past
<1>5. DatesNearlyRise'
  <2> SUFFICES ASSUME NEW i \in 1 .. n, NEW j \in 1 .. n, i <= j
               PROVE  NoEarlier(log[i].at, j)'
    BY <1>3 DEF DatesNearlyRise
  <2>1. CASE j # n
    <3>1. i \in 1 .. Len(log) /\ j \in 1 .. Len(log)
      BY <1>3, <2>1
    <3>2. NoEarlier(log[i].at, j)
      BY <3>1 DEF SpanInv, DatesNearlyRise
    <3> QED
      BY <1>3, <3>1, <3>2 DEF NoEarlier
  <2>2. CASE j = n
    <3>1. log'[i].at <= clock /\ log'[i].at \in Nat
      BY <1>1, <1>3, <1>4
    <3>2. log'[i].at <= at + Skew /\ log'[i].at <= miss + Skew
      BY <1>1, <3>1
    <3> QED
      BY <1>3, <2>2, <3>2 DEF NoEarlier
  <2> QED
    BY <2>1, <2>2
<1>6. ASSUME NEW cp, DatedBy(cp)
      PROVE  IF IsZero(cp) THEN cp.at = 0
             ELSE cp.pos \in 1 .. Len(log') /\ cp.at = log'[cp.pos].at
  BY <1>3, <1>6 DEF DatedBy
<1>7. ASSUME NEW s \in {store, disk}, SpanOf(s)
      PROVE  \A g \in s.gaps : \A j \in g.covers :
                g.from <= log'[j].at + Skew /\ g.from <= log'[j].miss + Skew
  BY <1>3, <1>7, CoveredInLog DEF SpanOf, GapsBeginEarly, NoEarlier
<1>8. store' = store /\ disk' = disk /\ base' = base
  BY DEF Commit, session
<1>9. SpanOf(store)' /\ SpanOf(disk)'
  BY <1>6, <1>7, <1>8 DEF SpanInv, SpanOf, GapsBeginEarly, NoEarlier, DatedBy
<1>10. \A c \in Collectors : DatedBy(base[c])'
  BY <1>6, <1>8 DEF SpanInv, DatedBy
<1> QED
  BY <1>5, <1>9, <1>10 DEF SpanInv

\* Steps that leave the log alone, and whose stores and checkpoints are sound.
LEMMA SpanCarried ==
    ASSUME SpanInv, log' = log, SpanOf(store'), SpanOf(disk'),
           \A c \in Collectors : DatedBy(base'[c])
    PROVE  SpanInv'
BY DEF SpanInv, SpanOf, DatesNearlyRise, NoEarlier, GapsBeginEarly, DatedBy

\* A recovery's hole begins at the date of the checkpoint the attempt resumed
\* from, and so do the changes behind it, or nearly.
LEMMA NewGapBeginsEarly ==
    ASSUME IInv, SpanInv, NEW c \in Collectors
    PROVE  \A j \in base[c].pos + 1 .. Len(log) : NoEarlier(base[c].at, j)
<1> SUFFICES ASSUME NEW j \in base[c].pos + 1 .. Len(log)
             PROVE  NoEarlier(base[c].at, j)
  OBVIOUS
<1>1. /\ base[c].pos \in Nat /\ Len(log) \in Nat /\ Skew \in Nat /\ j \in 1 .. Len(log)
      /\ DatedBy(base[c]) /\ LogOK
  BY CollectorAssumption DEF IInv, TypeOK, LogOK, Checkpoint, SpanInv
<1>2. log[j].at \in Nat /\ log[j].miss \in Nat
  BY <1>1, EntryType
<1>3. CASE IsZero(base[c])
  <2>1. base[c].at = 0
    BY <1>1, <1>3 DEF DatedBy
  <2>2. 0 <= log[j].at + Skew /\ 0 <= log[j].miss + Skew
    BY <1>1, <1>2
  <2> QED
    BY <2>1, <2>2 DEF NoEarlier
<1>4. CASE ~ IsZero(base[c])
  <2>1. base[c].pos \in 1 .. Len(log) /\ base[c].at = log[base[c].pos].at /\ base[c].pos <= j
    BY <1>1, <1>4 DEF DatedBy
  <2> QED
    BY <1>1, <2>1 DEF SpanInv, DatesNearlyRise
<1> QED
  BY <1>3, <1>4

\* Every step keeps the gaps early and the checkpoints dated.
LEMMA SpanStep ==
    ASSUME IInv, SpanInv, [Next]_vars
    PROVE  SpanInv'
<1>1. ASSUME NEW kind \in Kinds, NEW at \in Instants, NEW miss \in Instants, Commit(kind, at, miss)
      PROVE  SpanInv'
  BY <1>1, CommitSpan
<1>2. CASE Tick \/ (\E upto \in 1 .. Len(log) : Purge(upto)) \/ Sync \/ UNCHANGED vars
  <2>1. store' = store /\ disk' \in {disk, store} /\ base' = base /\ log' = log
    BY <1>2 DEF vars, server, session, Tick, Purge, Sync
  <2> QED
    BY <2>1, SpanCarried DEF SpanInv
<1>3. CASE PowerLoss
  <2>1. /\ store' = disk /\ disk' = disk /\ log' = log
        /\ \A c \in Collectors : base'[c] = ZeroCheckpoint
    BY <1>3 DEF PowerLoss, server
  <2>2. DatedBy(ZeroCheckpoint)
    BY DEF DatedBy, ZeroCheckpoint, IsZero
  <2> QED
    BY <2>1, <2>2, SpanCarried DEF SpanInv
<1>4. ASSUME NEW c \in Collectors, CollectorNext(c) PROVE SpanInv'
  <2>1. disk' = disk /\ log' = log /\ (MovesOn(c) \/ Stores(c))
    BY <1>4, CollectorEffect DEF server
  <2>2. DatedBy(ZeroCheckpoint)
    BY DEF DatedBy, ZeroCheckpoint, IsZero
  <2>3. ASSUME NEW d \in Collectors PROVE DatedBy(base'[d])
    BY <2>1, <2>2 DEF MovesOn, Stores, Takes, GoesOn, Rests, Loads, Opens, Passes, SpanInv, SpanOf
  <2>4. SpanOf(store')
    <3>1. CASE MovesOn(c)
      <4>1. CASE store' = store
        BY <4>1 DEF SpanInv
      <4>2. CASE WritesStore(c)
        <5>1. store'.checkpoint = store.checkpoint
          BY <4>2, WriteLeaves
        <5>2. ASSUME NEW g \in store'.gaps PROVE \A j \in g.covers : NoEarlier(g.from, j)
          <6> DEFINE hole == [from |-> base[c].at, to |-> clock, covers |-> base[c].pos + 1 .. Len(log)]
          <6>1. g \in store.gaps \/ g = hole
            BY <4>2, <5>2, WriteLeaves
          <6>2. \A j \in hole.covers : NoEarlier(hole.from, j)
            BY NewGapBeginsEarly
          <6> HIDE DEF hole
          <6> QED
            BY <6>1, <6>2 DEF SpanInv, SpanOf, GapsBeginEarly
        <5> QED
          BY <5>1, <5>2 DEF SpanInv, SpanOf, GapsBeginEarly
      <4> QED
        BY <3>1, <4>1, <4>2 DEF MovesOn
    <3>2. CASE Stores(c)
      <4> DEFINE when == log[Next1(c)].at
      <4>1. /\ store' = AppendTransaction(store, Next1(c), when)
            /\ Next1(c) \in 1 .. Len(log) /\ Next1(c) \in Nat /\ when \in Nat
            /\ store \in Store /\ IdsBounded(store)
        BY <3>2, NextEntry DEF Stores, StoresNext, IInv, StoreInv
      <4> HIDE DEF when
      <4>2. store'.checkpoint = [pos |-> Next1(c), at |-> when]
        BY <4>1, AppendTransactionReaches
      <4>3. store'.gaps = store.gaps
        BY <4>1, AppendTransactionFields, ZenonT(60)
      <4>4. store'.checkpoint.pos = Next1(c) /\ store'.checkpoint.at = log[Next1(c)].at
        BY <4>2 DEF when
      <4>5. DatedBy(store'.checkpoint)
        BY <4>1, <4>4 DEF DatedBy, IsZero
      <4> QED
        BY <4>3, <4>5 DEF SpanInv, SpanOf, GapsBeginEarly
    <3> QED
      BY <2>1, <3>1, <3>2
  <2> QED
    BY <2>1, <2>3, <2>4, SpanCarried DEF SpanInv
<1> QED
  BY <1>1, <1>2, <1>3, <1>4, NextKinds DEF Server

\* No log, no gap, no checkpoint.
LEMMA SpanInit == Init => SpanInv
<1>1. Init => log = <<>> /\ Len(log) = 0
  BY DEF Init
<1> QED
  BY <1>1 DEF Init, SpanInv, DatesNearlyRise, SpanOf, GapsBeginEarly, DatedBy, IsZero,
          EmptyStore, ZeroCheckpoint

\* The hole a gap records is where its changes are, give or take Skew.
LEMMA SpansOfGaps ==
    ASSUME IInv, SpanInv
    PROVE  GapsSpanTheirChanges
<1> SUFFICES ASSUME NEW g \in store.gaps, NEW i \in g.covers
             PROVE  \A when \in {log[i].at, log[i].miss} :
                        g.from <= when + Skew /\ when <= g.to
  BY DEF GapsSpanTheirChanges
<1>1. NoEarlier(g.from, i)
  BY DEF SpanInv, SpanOf, GapsBeginEarly
<1>2. Past(i, g.to)
  BY DEF IInv, StoreInv, GapsEndLate
<1> QED
  BY <1>1, <1>2 DEF NoEarlier, Past

----------------------------------------------------------------------------
(***************************************************************************)
(* What a window answers for                                               *)
(***************************************************************************)
\* A window that a gap does not meet ends less than Skew after any change of
\* the gap that lies in it.
LEMMA ClearOfGaps ==
    ASSUME IInv, GapsSpanTheirChanges,
           NEW w \in AskedFor, Answers(store, w.from, w.to, clock),
           NEW g \in store.gaps, NEW i \in g.covers, NEW when \in {log[i].at, log[i].miss},
           Within(WindowBounds(store, w.from, w.to), when)
    PROVE  WindowBounds(store, w.from, w.to).to < when + Skew
<1> DEFINE lo == WindowBounds(store, w.from, w.to).from
           hi == WindowBounds(store, w.from, w.to).to
<1>0. Skew \in Nat
  BY CollectorAssumption
<1>1. /\ store \in Store /\ w.from \in Nat /\ w.to \in Nat
      /\ store.from \in Nat /\ store.to \in Nat
  BY StoreAssumption DEF AskedFor, IInv, TypeOK, Instant, Store
<1>2. when \in Nat /\ g.from \in Nat /\ g.to \in Nat
  BY <1>1, CoveredInLog DEF Store, Gap, Instant
<1>3. CoverageFrom(store) \in Nat
  BY <1>1, CoverageFromType
<1>4. lo \in Nat /\ hi \in Nat
  BY <1>1, <1>3 DEF WindowBounds
<1>5. lo <= when /\ when <= hi
  BY DEF Within
<1>6. g.to < lo \/ hi < g.from
  BY DEF Answers
<1>7. g.from <= when + Skew /\ when <= g.to
  BY DEF GapsSpanTheirChanges
<1> HIDE DEF lo, hi
<1>8. hi < when + Skew
  BY <1>0, <1>2, <1>4, <1>5, <1>6, <1>7
<1> QED
  BY <1>8 DEF hi

\* A window the store answers for is complete but for its last Skew seconds:
\* nothing in it was pruned or could not be read, and nothing before those
\* seconds fell into a gap.
LEMMA CompleteBetweenGaps ==
    ASSUME IInv, GapsSpanTheirChanges
    PROVE  AnswersAreComplete
<1> SUFFICES ASSUME NEW w \in AskedFor, Answers(store, w.from, w.to, clock),
                    NEW i \in 1 .. Len(log), PassedBy(i), i \notin late \cup unseen
             PROVE  LET bounds == WindowBounds(store, w.from, w.to)
                        vouched(when) == /\ Within(bounds, when)
                                         /\ i \in Covered(store) => when + Skew <= bounds.to
                    IN  /\ Missing(i) => ~ vouched(log[i].miss)
                        /\ Kept(i) /\ vouched(log[i].at) =>
                              \E t \in Events(store, w.from, w.to) : t.src = i
  BY DEF AnswersAreComplete
<1> DEFINE hi == WindowBounds(store, w.from, w.to).to
           in(when) == Within(WindowBounds(store, w.from, w.to), when)
           vouched(when) == in(when) /\ (i \in Covered(store) => when + Skew <= hi)
<1>0. Skew \in Nat
  BY CollectorAssumption
<1>1. /\ store \in Store /\ clock \in Nat /\ w.from \in Nat /\ w.to \in Nat
      /\ log[i].at \in Nat /\ log[i].miss \in Nat
      /\ store.from \in Nat /\ store.to \in Nat
  BY StoreAssumption, EntryType
     DEF AskedFor, IInv, TypeOK, LogOK, Instant, Store
<1>2. Accounted(store, i)
  BY DEF IInv, StoreInv, SessionInv, SessionOK, AccountedTo, PassedBy
<1>3. ASSUME NEW when \in {log[i].at, log[i].miss}, vouched(when)
      PROVE  /\ ~ Excused(store, i, when)
             /\ when \notin store.misses
             /\ w.from # 0 => when >= w.from
             /\ w.to # 0 => when <= w.to
  <2>1. when \in Nat
    BY <1>1
  <2>2. WindowBounds(store, w.from, w.to).from <= when /\ when <= WindowBounds(store, w.from, w.to).to
    BY <1>3 DEF Within
  <2>3. /\ store.from <= when
        /\ when \notin store.misses
        /\ w.from # 0 => when >= w.from
        /\ w.to # 0 => when <= w.to
    BY <1>1, <2>1, <2>2, AnsweredWindow
  <2>4. i \notin Covered(store)
    <3> SUFFICES ASSUME NEW g \in store.gaps, i \in g.covers
                 PROVE  FALSE
      BY DEF Covered
    <3>1. hi < when + Skew
      BY <1>3, ClearOfGaps
    <3>2. when + Skew <= hi
      BY <1>3 DEF Covered
    <3>3. hi \in Nat
      BY <1>1, CoverageFromType DEF WindowBounds
    <3> HIDE DEF hi
    <3> QED
      BY <1>0, <2>1, <3>1, <3>2, <3>3
  <2> QED
    BY <1>1, <2>1, <2>3, <2>4 DEF Excused
<1>4. Missing(i) => ~ vouched(log[i].miss)
  BY <1>2, <1>3 DEF Accounted, MissAccounted
<1>5. ASSUME Kept(i), vouched(log[i].at)
      PROVE  \E t \in Events(store, w.from, w.to) : t.src = i
  <2>1. i \in Sources(store)
    BY <1>2, <1>3, <1>5 DEF Accounted, RowsAccounted
  <2>2. PICK t \in store.txns : t.src = i
    BY <2>1 DEF Sources
  <2>3. t.at = log[i].at
    BY <2>2 DEF IInv, StoreInv, RowsAreFaithful
  <2>4. Match(t, w.from, w.to)
    BY <1>3, <1>5, <2>3 DEF Match
  <2> QED
    BY <2>2, <2>4 DEF Events
<1> QED
  BY <1>4, <1>5

----------------------------------------------------------------------------
(***************************************************************************)
(* The theorems                                                            *)
(***************************************************************************)
\* However far the dates of the log stray from its order, a recorded gap ends
\* no earlier than any change it was recorded for and begins no more than that
\* after it, whoever recorded it and after whatever failures.
THEOREM GapsAreWhereTheyShould == Spec => []GapsSpanTheirChanges
<1>1. Init => SpanInv
  BY SpanInit
<1>2. IInv /\ SpanInv /\ [Next]_vars => SpanInv'
  BY SpanStep
<1>3. IInv /\ SpanInv => GapsSpanTheirChanges
  BY SpansOfGaps
<1> QED
  BY <1>1, <1>2, <1>3, Invariance, PTL DEF Spec

\* A window the store answers for holds every change in it that was read past,
\* and none that could not be read, but for what was jumped over and what a gap
\* that begins after the window should have held in its last Skew seconds.
THEOREM WindowsAreComplete == Spec => []AnswersAreComplete
<1>1. IInv /\ GapsSpanTheirChanges => AnswersAreComplete
  BY CompleteBetweenGaps
<1> QED
  BY <1>1, Invariance, GapsAreWhereTheyShould, PTL
=============================================================================
