-------------------------- MODULE MetricsCollector --------------------------
(***************************************************************************)
(* A Prometheus scrape (pkg/rclone/metrics_collector.go) against the node  *)
(* service's map of mount contexts, which NodeServer.mu guards.            *)
(*                                                                         *)
(* Collect holds a read lock of the mutex while it goes over the map twice,*)
(* once for the VFS statistics and once for the health of the mounts.      *)
(* isMountHealthy looks the context up again through getMountContext,      *)
(* which takes a second read lock. The handlers take read and write locks  *)
(* for single accesses (getMountContext, setMountContext,                  *)
(* deleteMountContext).                                                    *)
(***************************************************************************)
EXTENDS Naturals, FiniteSets

CONSTANTS
    Scrapes,    \* HTTP requests to the metrics endpoint
    Handlers,   \* calls of the node service that use the map
    Targets,    \* target paths
    None

ASSUME ThreadsAssumption ==
    /\ Scrapes \cap Handlers = {}
    /\ None \notin Scrapes \cup Handlers

VARIABLES
    pc,             \* where a scrape or a handler is
    req,            \* a handler's operation and target
    contexts,       \* keys of NodeServer.mountContext
    todo,           \* keys the current pass of a scrape has still to visit
    aggregated,     \* targets whose VFS statistics the scrape has added up
    emitted,        \* targets whose health the scrape has emitted
    holds, announced, writer

Threads == Scrapes \cup Handlers
Mu == INSTANCE RWMutex

scrape == <<todo, aggregated, emitted>>
mutex  == <<holds, announced, writer>>
vars   == <<pc, req, contexts, scrape, mutex>>

Goto(p, l) == pc' = [pc EXCEPT ![p] = l]

Init ==
    /\ pc = [p \in Threads |-> "start"]
    /\ req \in [Handlers -> [op : {"publish", "unpublish", "stats"}, target : Targets]]
    /\ contexts \in SUBSET Targets
    /\ todo = [s \in Scrapes |-> {}]
    /\ aggregated = [s \in Scrapes |-> {}]
    /\ emitted = [s \in Scrapes |-> {}]
    /\ Mu!Init
-----------------------------------------------------------------------------
(* A scrape: Collect, collectVFSMetrics.                                   *)

(* Mutation: the scrape reads the map without the lock.                    *)
CollectUnlocked(s) ==
    /\ pc[s] = "start"
    /\ todo' = [todo EXCEPT ![s] = contexts]
    /\ Goto(s, "aggregate")
    /\ UNCHANGED <<req, contexts, aggregated, emitted, mutex>>

CollectVFSMetrics(s) ==
    /\ pc[s] = "start"
    /\ Mu!RLock(s)
    /\ todo' = [todo EXCEPT ![s] = contexts]
    /\ Goto(s, "aggregate")
    /\ UNCHANGED <<req, contexts, aggregated, emitted>>

(* Mutation: aggregateVolumeStats releases the lock when it returns.       *)
AggregateAndUnlock(s) ==
    /\ pc[s] = "aggregate"
    /\ \E t \in todo[s] :
        /\ todo' = [todo EXCEPT ![s] = @ \ {t}]
        /\ aggregated' = [aggregated EXCEPT ![s] = @ \cup {t}]
        /\ IF todo[s] = {t} THEN Mu!RUnlock(s) ELSE UNCHANGED mutex
    /\ UNCHANGED <<pc, req, contexts, emitted>>

(* One round of aggregateVolumeStats, in the order of a Go map.            *)
AggregateVolumeStats(s) ==
    /\ pc[s] = "aggregate"
    /\ \E t \in todo[s] :
        /\ todo' = [todo EXCEPT ![s] = @ \ {t}]
        /\ aggregated' = [aggregated EXCEPT ![s] = @ \cup {t}]
    /\ UNCHANGED <<pc, req, contexts, emitted, mutex>>

(* emitVolumeMetrics; the second pass, collectMountHealthMetrics, begins.  *)
EmitVolumeMetrics(s) ==
    /\ pc[s] = "aggregate" /\ todo[s] = {}
    /\ todo' = [todo EXCEPT ![s] = contexts]
    /\ Goto(s, "health")
    /\ UNCHANGED <<req, contexts, aggregated, emitted, mutex>>

(* isMountHealthy, os.ReadDir fails: unhealthy, and no context is read.    *)
ReadDirFails(s) ==
    /\ pc[s] = "health"
    /\ \E t \in todo[s] :
        /\ todo' = [todo EXCEPT ![s] = @ \ {t}]
        /\ emitted' = [emitted EXCEPT ![s] = @ \cup {t}]
    /\ UNCHANGED <<pc, req, contexts, aggregated, mutex>>

(* isMountHealthy, os.ReadDir succeeds: getMountContext comes next.        *)
ReadDir(s) ==
    /\ pc[s] = "health" /\ todo[s] # {}
    /\ Goto(s, "nested")
    /\ UNCHANGED <<req, contexts, scrape, mutex>>

(* getMountContext inside isMountHealthy: a second read lock.              *)
NestedRLock(s) ==
    /\ pc[s] = "nested"
    /\ Mu!RLock(s)
    /\ Goto(s, "nestedRead")
    /\ UNCHANGED <<req, contexts, scrape>>

(* Mutation: the RUnlock of getMountContext is forgotten.                  *)
NestedKeepsLock(s) ==
    /\ pc[s] = "nestedRead"
    /\ \E t \in todo[s] :
        /\ todo' = [todo EXCEPT ![s] = @ \ {t}]
        /\ emitted' = [emitted EXCEPT ![s] = @ \cup {t}]
    /\ Goto(s, "health")
    /\ UNCHANGED <<req, contexts, aggregated, mutex>>

(* Its deferred RUnlock; the health gauge of the target is emitted.        *)
NestedRUnlock(s) ==
    /\ pc[s] = "nestedRead"
    /\ Mu!RUnlock(s)
    /\ \E t \in todo[s] :
        /\ todo' = [todo EXCEPT ![s] = @ \ {t}]
        /\ emitted' = [emitted EXCEPT ![s] = @ \cup {t}]
    /\ Goto(s, "health")
    /\ UNCHANGED <<req, contexts, aggregated>>

(* The deferred RUnlock of collectVFSMetrics.                              *)
CollectDone(s) ==
    /\ pc[s] = "health" /\ todo[s] = {}
    /\ Mu!RUnlock(s)
    /\ Goto(s, "done")
    /\ UNCHANGED <<req, contexts, scrape>>
-----------------------------------------------------------------------------
(* The accesses of the two handlers.                                       *)

(* getMountContext in NodeUnpublishVolume, and in NodeGetVolumeStats       *)
(* through isMountHealthy.                                                 *)
GetMountContext(h) ==
    /\ pc[h] = "start" /\ req[h].op \in {"unpublish", "stats"}
    /\ Mu!RLock(h)
    /\ Goto(h, "reading")
    /\ UNCHANGED <<req, contexts, scrape>>

GotMountContext(h) ==
    /\ pc[h] = "reading"
    /\ Mu!RUnlock(h)
    /\ Goto(h, IF req[h].op = "stats" THEN "done" ELSE "unmounted")
    /\ UNCHANGED <<req, contexts, scrape>>

(* Mutation: the map is written under the read lock.                       *)
WriteUnderRLock(h) ==
    /\ \/ pc[h] = "start" /\ req[h].op = "publish"
       \/ pc[h] = "unmounted"
    /\ writer = None
    /\ Goto(h, "writing")
    /\ UNCHANGED <<req, contexts, scrape, mutex>>

(* setMountContext or deleteMountContext announces its write lock.         *)
WriteAnnounce(h) ==
    /\ \/ pc[h] = "start" /\ req[h].op = "publish"
       \/ pc[h] = "unmounted"
    /\ Mu!Announce(h)
    /\ Goto(h, "locking")
    /\ UNCHANGED <<req, contexts, scrape>>

WriteLock(h) ==
    /\ pc[h] = "locking"
    /\ Mu!Acquire(h)
    /\ Goto(h, "writing")
    /\ UNCHANGED <<req, contexts, scrape>>

WriteDone(h) ==
    /\ pc[h] = "writing"
    /\ contexts' = IF req[h].op = "publish" THEN contexts \cup {req[h].target}
                   ELSE contexts \ {req[h].target}
    /\ Mu!Unlock(h)
    /\ Goto(h, "done")
    /\ UNCHANGED <<req, scrape>>

ScrapeStep(s) ==
    \/ CollectVFSMetrics(s) \/ AggregateVolumeStats(s) \/ EmitVolumeMetrics(s)
    \/ ReadDirFails(s) \/ ReadDir(s) \/ NestedRLock(s) \/ NestedRUnlock(s)
    \/ CollectDone(s)

HandlerStep(h) ==
    \/ GetMountContext(h) \/ GotMountContext(h) \/ WriteAnnounce(h)
    \/ WriteLock(h) \/ WriteDone(h)

Next == (\E s \in Scrapes : ScrapeStep(s)) \/ (\E h \in Handlers : HandlerStep(h))

Spec == Init /\ [][Next]_vars

(* Goroutines that can run are scheduled, and sync.RWMutex starves none.   *)
FairSpec ==
    /\ Spec
    /\ \A s \in Scrapes : WF_vars(ScrapeStep(s))
    /\ \A h \in Handlers : SF_vars(HandlerStep(h))
-----------------------------------------------------------------------------
Iterating == {"aggregate", "health", "nested", "nestedRead"}

(* Every variable holds a value of its kind: a goroutine has at most two   *)
(* read locks of NodeServer.mu, and only handlers write.                   *)
TypeOK ==
    /\ pc \in [Threads -> Iterating \cup {"start", "done", "reading", "unmounted",
                                          "locking", "writing"}]
    /\ req \in [Handlers -> [op : {"publish", "unpublish", "stats"}, target : Targets]]
    /\ contexts \subseteq Targets
    /\ todo \in [Scrapes -> SUBSET Targets]
    /\ aggregated \in [Scrapes -> SUBSET Targets]
    /\ emitted \in [Scrapes -> SUBSET Targets]
    /\ holds \in [Threads -> 0 .. 2]
    /\ announced \in Handlers \cup {None}
    /\ writer \in Handlers \cup {None}

(* The Go map of contexts is never written while a goroutine iterates over *)
(* it or reads it: the runtime would end the process.                      *)
NoMapRace ==
    (\E h \in Handlers : pc[h] = "writing") =>
        \A p \in Threads : pc[p] \notin Iterating \cup {"reading"}

(* The two passes of a scrape see the same mounts, whatever the handlers   *)
(* do meanwhile: a scrape reports the health of exactly the targets whose  *)
(* VFS statistics it reports.                                              *)
SameSnapshot ==
    \A s \in Scrapes : pc[s] \in {"health", "nested", "nestedRead", "done"} =>
        emitted[s] \cup todo[s] = aggregated[s]

(* A scrape that has begun goes over all mounts and comes to an end        *)
(* (collectVFSMetrics).                                                    *)
ScrapeCompletes == \A s \in Scrapes : pc[s] = "aggregate" ~> pc[s] = "done"
=============================================================================
