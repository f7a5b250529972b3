----------------------- MODULE MetricsCollectorProofs -----------------------
(***************************************************************************)
(* Proofs about MetricsCollector, for any number of scrapes, handlers and  *)
(* targets: the lock NodeServer.mu keeps scrapes and writers of the map of *)
(* mount contexts apart, and the two passes of a scrape see one map.       *)
(***************************************************************************)
EXTENDS MetricsCollector, TLAPS

ScrapeSteps  == Iterating \cup {"start", "done"}
HandlerSteps == {"start", "reading", "unmounted", "locking", "writing", "done"}

(* The read locks a goroutine has at a step. Only a scrape has two.        *)
Depth(l) == IF l = "nestedRead" THEN 2
            ELSE IF l \in Iterating \cup {"reading"} THEN 1 ELSE 0

StepOfKind == /\ \A s \in Scrapes : pc[s] \in ScrapeSteps
              /\ \A h \in Handlers : pc[h] \in HandlerSteps

ReadersCounted == \A p \in Threads : holds[p] = Depth(pc[p])

(* The writer that waits and the writer that writes are where they say,    *)
(* and a writer writes alone.                                              *)
WritersKnown ==
    /\ \A h \in Handlers : pc[h] = "locking" <=> announced = h
    /\ \A h \in Handlers : pc[h] = "writing" <=> writer = h
    /\ announced = None \/ writer = None
    /\ writer # None => \A p \in Threads : holds[p] = 0

MutexInv == TypeOK /\ StepOfKind /\ ReadersCounted /\ WritersKnown

LEMMA MutexInit == Init => MutexInv
<1> SUFFICES ASSUME Init PROVE MutexInv
  OBVIOUS
<1>1. TypeOK
  BY DEF Init, Mu!Init, TypeOK, Iterating, Threads
<1>2. StepOfKind /\ ReadersCounted
  BY DEF Init, Mu!Init, StepOfKind, ReadersCounted, ScrapeSteps, HandlerSteps,
         Iterating, Threads, Depth
<1>3. WritersKnown
  BY ThreadsAssumption DEF Init, Mu!Init, WritersKnown, Threads
<1>. QED
  BY <1>1, <1>2, <1>3 DEF MutexInv

(* The steps that leave the mutex alone move between steps of one depth.   *)
LEMMA QuietStep ==
  ASSUME MutexInv, NEW p \in Threads, NEW l, UNCHANGED mutex, TypeOK',
         Goto(p, l) \/ (UNCHANGED pc /\ l = pc[p]),
         p \in Scrapes, l \in ScrapeSteps, Depth(l) = Depth(pc[p])
  PROVE  MutexInv'
<1>1. pc' = [pc EXCEPT ![p] = l]
  BY DEF Goto, MutexInv, TypeOK
<1>2. p \notin Handlers
  BY ThreadsAssumption
<1>3. StepOfKind' /\ ReadersCounted'
  BY <1>1, <1>2 DEF MutexInv, TypeOK, StepOfKind, ReadersCounted, mutex, Threads
<1>4. WritersKnown'
  BY <1>1, <1>2 DEF MutexInv, TypeOK, WritersKnown, mutex, Threads
<1>. QED
  BY <1>3, <1>4 DEF MutexInv

(* Taking a read lock: nobody writes or waits to write.                    *)
LEMMA RLockStep ==
  ASSUME MutexInv, NEW p \in Threads, NEW l, Mu!RLock(p), Goto(p, l), TypeOK',
         p \in Scrapes => l \in ScrapeSteps,
         p \in Handlers => l \in HandlerSteps \ {"locking", "writing"},
         Depth(l) = Depth(pc[p]) + 1
  PROVE  MutexInv'
<1>1. StepOfKind'
  BY DEF MutexInv, TypeOK, StepOfKind, Goto, Threads
<1>2. ReadersCounted'
  BY DEF MutexInv, TypeOK, ReadersCounted, Goto, Threads, Mu!RLock
<1>3. \A h \in Handlers : pc'[h] \notin {"locking", "writing"}
  BY ThreadsAssumption DEF MutexInv, TypeOK, WritersKnown, Mu!RLock, Goto, Threads
<1>4. WritersKnown'
  BY <1>3, ThreadsAssumption DEF MutexInv, WritersKnown, Mu!RLock
<1>. QED
  BY <1>1, <1>2, <1>4 DEF MutexInv

(* Giving a read lock back.                                                *)
LEMMA RUnlockStep ==
  ASSUME MutexInv, NEW p \in Threads, NEW l, Mu!RUnlock(p), Goto(p, l), TypeOK',
         p \in Scrapes => l \in ScrapeSteps,
         p \in Handlers => /\ pc[p] = "reading"
                           /\ l \in HandlerSteps \ {"locking", "writing"},
         Depth(l) = Depth(pc[p]) - 1
  PROVE  MutexInv'
<1>1. StepOfKind'
  BY DEF MutexInv, TypeOK, StepOfKind, Goto, Threads
<1>2. ReadersCounted'
  BY DEF MutexInv, TypeOK, ReadersCounted, Goto, Threads, Mu!RUnlock
<1>3. writer = None
  BY DEF MutexInv, TypeOK, WritersKnown, Mu!RUnlock
<1>4. WritersKnown'
  BY <1>3, ThreadsAssumption DEF MutexInv, TypeOK, WritersKnown, Mu!RUnlock, Goto, Threads
<1>. QED
  BY <1>1, <1>2, <1>4 DEF MutexInv

LEMMA TypeStep == MutexInv /\ [Next]_vars => TypeOK'
<1> SUFFICES ASSUME MutexInv, [Next]_vars PROVE TypeOK'
  OBVIOUS
<1> USE DEF MutexInv, TypeOK, mutex, scrape, Goto, Threads, Iterating
<1>1. ASSUME NEW s \in Scrapes, CollectVFSMetrics(s) PROVE TypeOK'
  BY <1>1 DEF CollectVFSMetrics, Mu!RLock, ReadersCounted, Depth
<1>2. ASSUME NEW s \in Scrapes, AggregateVolumeStats(s) PROVE TypeOK'
  BY <1>2 DEF AggregateVolumeStats
<1>3. ASSUME NEW s \in Scrapes, EmitVolumeMetrics(s) PROVE TypeOK'
  BY <1>3 DEF EmitVolumeMetrics
<1>4. ASSUME NEW s \in Scrapes, ReadDirFails(s) PROVE TypeOK'
  BY <1>4 DEF ReadDirFails
<1>5. ASSUME NEW s \in Scrapes, ReadDir(s) PROVE TypeOK'
  BY <1>5 DEF ReadDir
<1>6. ASSUME NEW s \in Scrapes, NestedRLock(s) PROVE TypeOK'
  BY <1>6 DEF NestedRLock, Mu!RLock, ReadersCounted, Depth
<1>7. ASSUME NEW s \in Scrapes, NestedRUnlock(s) PROVE TypeOK'
  BY <1>7 DEF NestedRUnlock, Mu!RUnlock
<1>8. ASSUME NEW s \in Scrapes, CollectDone(s) PROVE TypeOK'
  BY <1>8 DEF CollectDone, Mu!RUnlock
<1>9. ASSUME NEW h \in Handlers, GetMountContext(h) PROVE TypeOK'
  BY <1>9 DEF GetMountContext, Mu!RLock, ReadersCounted, Depth
<1>10. ASSUME NEW h \in Handlers, GotMountContext(h) PROVE TypeOK'
  BY <1>10 DEF GotMountContext, Mu!RUnlock
<1>11. ASSUME NEW h \in Handlers, WriteAnnounce(h) PROVE TypeOK'
  BY <1>11 DEF WriteAnnounce, Mu!Announce
<1>12. ASSUME NEW h \in Handlers, WriteLock(h) PROVE TypeOK'
  BY <1>12 DEF WriteLock, Mu!Acquire
<1>13. ASSUME NEW h \in Handlers, WriteDone(h) PROVE TypeOK'
  BY <1>13 DEF WriteDone, Mu!Unlock
<1>14. CASE UNCHANGED vars
  BY <1>14 DEF vars
<1>. QED
  BY <1>1, <1>2, <1>3, <1>4, <1>5, <1>6, <1>7, <1>8, <1>9, <1>10, <1>11, <1>12,
     <1>13, <1>14 DEF Next, ScrapeStep, HandlerStep

LEMMA MutexStep == MutexInv /\ [Next]_vars => MutexInv'
<1> SUFFICES ASSUME MutexInv, [Next]_vars PROVE MutexInv'
  OBVIOUS
<1>0. TypeOK'
  BY TypeStep
<1>a. \A s \in Scrapes : s \in Threads /\ s \notin Handlers
  BY ThreadsAssumption DEF Threads
<1>b. \A h \in Handlers : h \in Threads /\ h \notin Scrapes
  BY ThreadsAssumption DEF Threads
<1> USE DEF ScrapeSteps, HandlerSteps, Iterating, Depth
<1>1. ASSUME NEW s \in Scrapes, CollectVFSMetrics(s) PROVE MutexInv'
  BY <1>1, <1>0, <1>a, RLockStep DEF CollectVFSMetrics
<1>2. ASSUME NEW s \in Scrapes, AggregateVolumeStats(s) PROVE MutexInv'
  BY <1>2, <1>0, <1>a, QuietStep DEF AggregateVolumeStats
<1>3. ASSUME NEW s \in Scrapes, EmitVolumeMetrics(s) PROVE MutexInv'
  BY <1>3, <1>0, <1>a, QuietStep DEF EmitVolumeMetrics
<1>4. ASSUME NEW s \in Scrapes, ReadDirFails(s) PROVE MutexInv'
  BY <1>4, <1>0, <1>a, QuietStep DEF ReadDirFails
<1>5. ASSUME NEW s \in Scrapes, ReadDir(s) PROVE MutexInv'
  BY <1>5, <1>0, <1>a, QuietStep DEF ReadDir
<1>6. ASSUME NEW s \in Scrapes, NestedRLock(s) PROVE MutexInv'
  BY <1>6, <1>0, <1>a, RLockStep DEF NestedRLock
<1>7. ASSUME NEW s \in Scrapes, NestedRUnlock(s) PROVE MutexInv'
  BY <1>7, <1>0, <1>a, RUnlockStep DEF NestedRUnlock
<1>8. ASSUME NEW s \in Scrapes, CollectDone(s) PROVE MutexInv'
  BY <1>8, <1>0, <1>a, RUnlockStep DEF CollectDone
<1>9. ASSUME NEW h \in Handlers, GetMountContext(h) PROVE MutexInv'
  BY <1>9, <1>0, <1>b, RLockStep DEF GetMountContext
<1>10. ASSUME NEW h \in Handlers, GotMountContext(h) PROVE MutexInv'
  BY <1>10, <1>0, <1>b, RUnlockStep DEF GotMountContext
<1>11. ASSUME NEW h \in Handlers, WriteAnnounce(h) PROVE MutexInv'
  <2>1. StepOfKind' /\ ReadersCounted'
    BY <1>11, <1>b DEF WriteAnnounce, Mu!Announce, Goto, MutexInv, TypeOK, StepOfKind,
       ReadersCounted, Threads
  <2>2. WritersKnown'
    BY <1>11, <1>b, ThreadsAssumption
    DEF WriteAnnounce, Mu!Announce, Goto, MutexInv, TypeOK, WritersKnown, Threads
  <2>. QED
    BY <2>1, <2>2, <1>0 DEF MutexInv
<1>12. ASSUME NEW h \in Handlers, WriteLock(h) PROVE MutexInv'
  <2>1. StepOfKind' /\ ReadersCounted'
    BY <1>12, <1>b DEF WriteLock, Mu!Acquire, Goto, MutexInv, TypeOK, StepOfKind,
       ReadersCounted, Threads
  <2>2. WritersKnown'
    BY <1>12, <1>b, ThreadsAssumption
    DEF WriteLock, Mu!Acquire, Goto, MutexInv, TypeOK, WritersKnown, Threads
  <2>. QED
    BY <2>1, <2>2, <1>0 DEF MutexInv
<1>13. ASSUME NEW h \in Handlers, WriteDone(h) PROVE MutexInv'
  <2>1. StepOfKind' /\ ReadersCounted'
    BY <1>13, <1>b DEF WriteDone, Mu!Unlock, Goto, MutexInv, TypeOK, StepOfKind,
       ReadersCounted, Threads
  <2>2. WritersKnown'
    BY <1>13, <1>b, ThreadsAssumption
    DEF WriteDone, Mu!Unlock, Goto, MutexInv, TypeOK, WritersKnown, Threads
  <2>. QED
    BY <2>1, <2>2, <1>0 DEF MutexInv
<1>14. CASE UNCHANGED vars
  BY <1>14 DEF vars, mutex, MutexInv, TypeOK, StepOfKind, ReadersCounted, WritersKnown, scrape
<1>. QED
  BY <1>1, <1>2, <1>3, <1>4, <1>5, <1>6, <1>7, <1>8, <1>9, <1>10, <1>11, <1>12,
     <1>13, <1>14 DEF Next, ScrapeStep, HandlerStep

LEMMA AlwaysMutex == Spec => []MutexInv
  BY MutexInit, MutexStep, PTL DEF Spec

(* Every variable keeps its kind: in particular a goroutine never has more *)
(* than two read locks of NodeServer.mu, nor fewer than none.              *)
THEOREM CollectorTyped == Spec => []TypeOK
<1>1. MutexInv => TypeOK
  BY DEF MutexInv
<1>. QED
  BY <1>1, AlwaysMutex, PTL

(* A goroutine that reads the map has a read lock, so a writer excludes it.*)
LEMMA WriterAlone ==
  ASSUME MutexInv, NEW h \in Handlers, pc[h] = "writing", NEW p \in Threads
  PROVE  pc[p] \notin Iterating \cup {"reading"}
<1>1. holds[p] = 0
  BY ThreadsAssumption DEF MutexInv, WritersKnown
<1>. QED
  BY <1>1 DEF MutexInv, ReadersCounted, Depth, Iterating

(* No number of scrapes and handlers makes the Go map of contexts be       *)
(* written while it is read or iterated over (getMountContext,             *)
(* setMountContext, deleteMountContext, collectVFSMetrics).                *)
THEOREM NoConcurrentMapWrite == Spec => []NoMapRace
<1>1. MutexInv => NoMapRace
  BY WriterAlone DEF NoMapRace
<1>. QED
  BY <1>1, AlwaysMutex, PTL
-----------------------------------------------------------------------------
SecondPass == {"health", "nested", "nestedRead"}

(* How far a scrape is with the map it has locked.                         *)
PassOf(s) ==
    /\ pc[s] = "start" => aggregated[s] = {} /\ emitted[s] = {}
    /\ pc[s] = "aggregate" => aggregated[s] \cup todo[s] = contexts /\ emitted[s] = {}
    /\ pc[s] \in SecondPass =>
            aggregated[s] = contexts /\ emitted[s] \cup todo[s] = contexts
    /\ pc[s] = "done" => emitted[s] \cup todo[s] = aggregated[s]

SnapshotInv == \A s \in Scrapes : PassOf(s)

(* A scrape that takes no part in a step notices nothing while the map     *)
(* stays as it is.                                                         *)
LEMMA PassStays ==
  ASSUME NEW s \in Scrapes, PassOf(s), pc'[s] = pc[s], contexts' = contexts,
         todo'[s] = todo[s], aggregated'[s] = aggregated[s], emitted'[s] = emitted[s]
  PROVE  PassOf(s)'
  BY DEF PassOf, SecondPass

LEMMA SnapshotStep == MutexInv /\ SnapshotInv /\ [Next]_vars => SnapshotInv'
<1> SUFFICES ASSUME MutexInv, SnapshotInv, [Next]_vars, NEW u \in Scrapes
             PROVE  PassOf(u)'
  BY DEF SnapshotInv
<1>0. TypeOK /\ PassOf(u)
  BY DEF MutexInv, SnapshotInv
<1>a. u \in Threads /\ u \notin Handlers
  BY ThreadsAssumption DEF Threads
<1> USE DEF TypeOK, PassOf, SecondPass, Goto, Iterating
<1>1. ASSUME NEW s \in Scrapes, CollectVFSMetrics(s) PROVE PassOf(u)'
  BY <1>1, <1>0, <1>a DEF CollectVFSMetrics
<1>2. ASSUME NEW s \in Scrapes, AggregateVolumeStats(s) PROVE PassOf(u)'
  <2>1. CASE s = u
    BY <1>2, <1>0, <2>1 DEF AggregateVolumeStats
  <2>2. CASE s # u
    BY <1>2, <1>0, <2>2, PassStays DEF AggregateVolumeStats
  <2>. QED
    BY <2>1, <2>2
<1>3. ASSUME NEW s \in Scrapes, EmitVolumeMetrics(s) PROVE PassOf(u)'
  BY <1>3, <1>0, <1>a DEF EmitVolumeMetrics
<1>4. ASSUME NEW s \in Scrapes, ReadDirFails(s) PROVE PassOf(u)'
  <2>1. CASE s = u
    BY <1>4, <1>0, <2>1 DEF ReadDirFails
  <2>2. CASE s # u
    BY <1>4, <1>0, <2>2, PassStays DEF ReadDirFails
  <2>. QED
    BY <2>1, <2>2
<1>5. ASSUME NEW s \in Scrapes, ReadDir(s) PROVE PassOf(u)'
  BY <1>5, <1>0, <1>a DEF ReadDir, scrape
<1>6. ASSUME NEW s \in Scrapes, NestedRLock(s) PROVE PassOf(u)'
  BY <1>6, <1>0, <1>a DEF NestedRLock, scrape
<1>7. ASSUME NEW s \in Scrapes, NestedRUnlock(s) PROVE PassOf(u)'
  <2>1. CASE s = u
    BY <1>7, <1>0, <1>a, <2>1 DEF NestedRUnlock
  <2>2. CASE s # u
    BY <1>7, <1>0, <1>a, <2>2, PassStays DEF NestedRUnlock
  <2>. QED
    BY <2>1, <2>2
<1>8. ASSUME NEW s \in Scrapes, CollectDone(s) PROVE PassOf(u)'
  BY <1>8, <1>0, <1>a DEF CollectDone, scrape
<1>9. ASSUME NEW h \in Handlers, GetMountContext(h) PROVE PassOf(u)'
  BY <1>9, <1>0, <1>a, PassStays DEF GetMountContext, scrape
<1>10. ASSUME NEW h \in Handlers, GotMountContext(h) PROVE PassOf(u)'
  BY <1>10, <1>0, <1>a, PassStays DEF GotMountContext, scrape
<1>11. ASSUME NEW h \in Handlers, WriteAnnounce(h) PROVE PassOf(u)'
  BY <1>11, <1>0, <1>a, PassStays DEF WriteAnnounce, scrape
<1>12. ASSUME NEW h \in Handlers, WriteLock(h) PROVE PassOf(u)'
  BY <1>12, <1>0, <1>a, PassStays DEF WriteLock, scrape
<1>13. ASSUME NEW h \in Handlers, WriteDone(h) PROVE PassOf(u)'
  (* The map changes, but no scrape is on its way through it.              *)
  <2>1. pc[u] \notin Iterating
    BY <1>13, <1>a, WriterAlone DEF WriteDone
  <2>. QED
    BY <1>13, <1>0, <1>a, <2>1 DEF WriteDone, scrape
<1>14. CASE UNCHANGED vars
  BY <1>14, <1>0, PassStays DEF vars, scrape
<1>. QED
  BY <1>1, <1>2, <1>3, <1>4, <1>5, <1>6, <1>7, <1>8, <1>9, <1>10, <1>11, <1>12,
     <1>13, <1>14 DEF Next, ScrapeStep, HandlerStep

(* However many handlers store and delete contexts meanwhile, a scrape     *)
(* reports the health of exactly the mounts whose statistics it reports    *)
(* (aggregateVolumeStats, collectMountHealthMetrics).                      *)
THEOREM OneSnapshot == Spec => []SameSnapshot
<1>1. Init => SnapshotInv
  BY DEF Init, SnapshotInv, PassOf, SecondPass, Threads
<1>2. SnapshotInv => SameSnapshot
  BY DEF SnapshotInv, SameSnapshot, PassOf, SecondPass
<1>. QED
  BY <1>1, <1>2, AlwaysMutex, SnapshotStep, PTL DEF Spec
=============================================================================
