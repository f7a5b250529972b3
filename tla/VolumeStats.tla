---------------------------- MODULE VolumeStats -----------------------------
(***************************************************************************)
(* What the driver says about its mounts: the answer of NodeGetVolumeStats *)
(* and the samples of a Prometheus scrape, while mounts come and go and    *)
(* their VFS statistics change. A mount passes the stages of NodeServer:   *)
(* it is served before its context is stored, and its path is unmounted    *)
(* and removed before its context is forgotten.                            *)
(*                                                                         *)
(* A scrape takes the contexts one by one, twice, and holds NodeServer.mu  *)
(* for reading meanwhile: no context comes or goes, but mounts and their   *)
(* statistics change under it. MetricsCollector has the lock itself.       *)
(***************************************************************************)
EXTENDS Naturals, Sequences, FiniteSetsExt

CONSTANTS
    Targets,    \* target paths
    Path,       \* target -> the components of its path
    VolumeOf,   \* target -> CSI volume
    RemoteOf,   \* volume -> name of its remote
    Calls,      \* calls of NodeGetVolumeStats
    Stats,      \* the statistics a VFS may have
    MaxMounts   \* bound: target paths that exist at a time

ASSUME PathsAssumption ==
    /\ IsFiniteSet(Targets)
    /\ Path \in [Targets -> Seq(STRING) \ {<<>>}]
    /\ VolumeOf \in [Targets -> DOMAIN RemoteOf]
    /\ Stats \subseteq [pending : Nat, full : BOOLEAN]

VARIABLES
    context,    \* targets with a mount context
    kernel,     \* target -> "absent", "bare" (a directory), "served",
                \* "failing" (served, but its remote fails), "dead"
    stats,      \* target -> statistics of the VFS its context names
    scrape,     \* the scrape that runs, a record
    call        \* calls of NodeGetVolumeStats

vars == <<context, kernel, stats, scrape, call>>

Stat0 == [pending |-> 0, full |-> FALSE]

(* A scrape:                                                               *)
(*   pc        the pass it is in                                           *)
(*   mounts    the contexts it iterates over                               *)
(*   left      those still to come in the pass                             *)
(*   volumes   label -> series of the volume                               *)
(*   health    samples of mount_healthy                                    *)
(*   seen      history: the statistics of each mount in the first pass,    *)
(*             until the scrape takes them                                 *)
(*   states    history: the states of each target in the second pass,      *)
(*             until the scrape looks                                      *)
NoScrape ==
    [pc |-> "idle", mounts |-> {}, left |-> {}, volumes |-> [l \in {} |-> Stat0],
     health |-> {}, seen |-> [t \in Targets |-> {}], states |-> [t \in Targets |-> {}]]

Init ==
    /\ context = {}
    /\ kernel = [t \in Targets |-> "absent"]
    /\ stats = [t \in Targets |-> Stat0]
    /\ scrape = NoScrape
    /\ call \in [Calls -> [pc : {"statfs"}, target : Targets, seen : {{}},
                           answer : {"none"}]]

(* The kernel's state of a target changes under those that look at it.     *)
Becomes(t, s) ==
    /\ kernel' = [kernel EXCEPT ![t] = s]
    /\ call' = [c \in Calls |->
                  IF call[c].target = t /\ call[c].pc = "health"
                  THEN [call[c] EXCEPT !.seen = @ \cup {s}] ELSE call[c]]
    /\ scrape' = IF scrape.pc = "health" /\ t \in scrape.left
                 THEN [scrape EXCEPT !.states[t] = @ \cup {s}] ELSE scrape

(* NodeServer.mu is free for writing.                                      *)
Unlocked == scrape.pc = "idle"
-----------------------------------------------------------------------------
(* The life of a mount, as the node service drives it.                     *)

Mount(t) ==
    /\ t \notin context /\ kernel[t] \in {"absent", "bare"}
    /\ Cardinality({u \in Targets : kernel[u] # "absent" \/ u \in context} \ {t}) < MaxMounts
    /\ Becomes(t, "served")
    /\ UNCHANGED <<context, stats>>

(* The VFS has worked since it was started.                                *)
SetMountContext(t) ==
    /\ Unlocked
    /\ kernel[t] \in {"served", "failing"} /\ t \notin context
    /\ context' = context \cup {t}
    /\ \E s \in Stats \cup {Stat0} : stats' = [stats EXCEPT ![t] = s]
    /\ UNCHANGED <<kernel, scrape, call>>

(* mountPoint.Unmount; the directory stays until CleanupMountWithForce.    *)
Unmount(t) ==
    /\ t \in context /\ kernel[t] \in {"served", "failing"}
    /\ Becomes(t, "bare")
    /\ UNCHANGED <<context, stats>>

(* CleanupMountWithForce unmounts what is still mounted, after a failed    *)
(* Unmount too, and removes the directory, which may fail.                 *)
CleanupMount(t) ==
    /\ kernel[t] # "absent"
    /\ Becomes(t, "absent") \/ Becomes(t, "bare")
    /\ UNCHANGED <<context, stats>>

DeleteMountContext(t) ==
    /\ Unlocked
    /\ t \in context /\ kernel[t] = "absent"
    /\ context' = context \ {t}
    /\ stats' = [stats EXCEPT ![t] = Stat0]
    /\ UNCHANGED <<kernel, scrape, call>>

(* The VFS works: uploads queue up, the disk cache fills and empties.      *)
VFSChange(t) ==
    /\ t \in context
    /\ \E s \in Stats \cup {Stat0} :
        /\ stats' = [stats EXCEPT ![t] = s]
        /\ scrape' = IF scrape.pc = "stats" /\ t \in scrape.left
                     THEN [scrape EXCEPT !.seen[t] = @ \cup {s}] ELSE scrape
    /\ UNCHANGED <<context, kernel, call>>

(* The remote of a mount fails and recovers: ReadDir goes to it.           *)
RemoteChange(t) ==
    /\ \/ kernel[t] = "served" /\ Becomes(t, "failing")
       \/ kernel[t] = "failing" /\ Becomes(t, "served")
    /\ UNCHANGED <<context, stats>>

(* The process ends and starts again, its mounts are dead.                 *)
Crash ==
    /\ context' = {}
    /\ kernel' = [t \in Targets |->
                    IF kernel[t] \in {"served", "failing"} THEN "dead" ELSE kernel[t]]
    /\ call' = [c \in Calls |-> [call[c] EXCEPT
                    !.pc = IF @ = "health" THEN "lost" ELSE @]]
    /\ scrape' = NoScrape
    /\ stats' = [t \in Targets |-> Stat0]
-----------------------------------------------------------------------------
(* csiRcloneCollector.                                                     *)

(* The component that follows the first occurrence of a name.              *)
After(path, name) ==
    LET at == {i \in DOMAIN path : path[i] = name /\ i < Len(path)}
    IN  IF at = {} THEN {} ELSE {path[Min(at) + 1]}

extractVolumeID(t) ==
    LET v == After(Path[t], "kubernetes.io~csi")
    IN  IF v = {} THEN Path[t][Len(Path[t])] ELSE CHOOSE p \in v : TRUE

extractPodID(t) ==
    LET v == After(Path[t], "pods") IN IF v = {} THEN "unknown" ELSE CHOOSE p \in v : TRUE

(* Mutation: the statistics of the last mount replace those before it.     *)
aggregateLast(s, vm) == [vm EXCEPT !.pending = s.pending, !.full = s.full]

(* aggregateVFSStats and aggregateDiskCacheStats.                          *)
aggregateVFSStats(s, vm) ==
    [vm EXCEPT !.pending = @ + s.pending, !.full = @ \/ s.full]

(* The directory can be read.                                              *)
Readable == {"bare", "served"}

(* Mutation: a mount without a context is unhealthy.                       *)
isMountKnown(t) == kernel[t] \in Readable /\ t \in context

(* isMountHealthy. VFS.Stats has no entry "errors", so the context decides *)
(* nothing.                                                                *)
isMountHealthy(t) == kernel[t] \in Readable

(* collectVFSMetrics takes NodeServer.mu for reading.                      *)
Collect ==
    /\ Unlocked
    /\ scrape' = [NoScrape EXCEPT !.pc = "stats", !.mounts = context, !.left = context,
                                  !.seen = [t \in Targets |->
                                            IF t \in context THEN {stats[t]} ELSE {}]]
    /\ UNCHANGED <<context, kernel, stats, call>>

(* aggregateVolumeStats, one mount in the order of the map. The first of a *)
(* label gives the series its remote.                                      *)
AggregateMount(t) ==
    LET l    == extractVolumeID(t)
        init == [remote |-> RemoteOf[VolumeOf[t]], pending |-> 0, full |-> FALSE]
        vs   == scrape.volumes
    IN
    /\ scrape.pc = "stats" /\ t \in scrape.left
    /\ scrape' = [scrape EXCEPT
            !.left = @ \ {t},
            !.volumes = [k \in DOMAIN vs \cup {l} |->
                IF k = l THEN aggregateVFSStats(stats[t], IF l \in DOMAIN vs THEN vs[l] ELSE init)
                ELSE vs[k]]]
    /\ UNCHANGED <<context, kernel, stats, call>>

(* emitVolumeMetrics, and the second iteration begins.                     *)
EmitVolumes ==
    /\ scrape.pc = "stats" /\ scrape.left = {}
    /\ scrape' = [scrape EXCEPT !.pc = "health", !.left = scrape.mounts,
                                !.states = [t \in Targets |->
                                    IF t \in scrape.mounts THEN {kernel[t]} ELSE {}]]
    /\ UNCHANGED <<context, kernel, stats, call>>

(* collectMountHealthMetrics, one mount.                                   *)
CheckMount(t) ==
    /\ scrape.pc = "health" /\ t \in scrape.left
    /\ scrape' = [scrape EXCEPT
            !.left = @ \ {t},
            !.health = @ \cup {[volume |-> extractVolumeID(t), pod |-> extractPodID(t),
                               target |-> t, value |-> isMountHealthy(t)]}]
    /\ UNCHANGED <<context, kernel, stats, call>>

(* Every sample is out; the deferred RUnlock.                              *)
Finished == scrape.pc = "health" /\ scrape.left = {}

Collected ==
    /\ Finished
    /\ scrape' = NoScrape
    /\ UNCHANGED <<context, kernel, stats, call>>
-----------------------------------------------------------------------------
(* NodeGetVolumeStats.                                                     *)

Answer(c, a) == call' = [call EXCEPT ![c].pc = "done", ![c].answer = a,
                                     ![c].seen = @ \cup {kernel[call[c].target]}]

(* Mutation: an error of Statfs leaves the condition of the answer out.    *)
StatfsError(c) ==
    /\ call[c].pc = "statfs"
    /\ IF kernel[call[c].target] \in {"absent", "dead"}
       THEN Answer(c, "none")
       ELSE call' = [call EXCEPT ![c].pc = "health", ![c].seen = {kernel[call[c].target]}]
    /\ UNCHANGED <<context, kernel, stats, scrape>>

(* unix.Statfs; its error is answered as an abnormal condition. A mount    *)
(* whose remote fails still answers it.                                    *)
Statfs(c) ==
    /\ call[c].pc = "statfs"
    /\ IF kernel[call[c].target] \in {"absent", "dead"}
       THEN Answer(c, "abnormal")
       ELSE call' = [call EXCEPT ![c].pc = "health", ![c].seen = {kernel[call[c].target]}]
    /\ UNCHANGED <<context, kernel, stats, scrape>>

VolumeCondition(c) ==
    /\ call[c].pc = "health"
    /\ Answer(c, IF isMountHealthy(call[c].target) THEN "healthy" ELSE "abnormal")
    /\ UNCHANGED <<context, kernel, stats, scrape>>

Next ==
    \/ \E t \in Targets : \/ Mount(t) \/ SetMountContext(t) \/ Unmount(t)
                          \/ CleanupMount(t) \/ DeleteMountContext(t) \/ VFSChange(t)
                          \/ RemoteChange(t) \/ AggregateMount(t) \/ CheckMount(t)
    \/ \E c \in Calls : Statfs(c) \/ VolumeCondition(c)
    \/ Collect \/ EmitVolumes \/ Collected \/ Crash

Spec == Init /\ [][Next]_vars
-----------------------------------------------------------------------------
(* Properties.                                                             *)

Labels == {"unknown"} \cup UNION {Range(Path[t]) : t \in Targets}
States == {"absent", "bare", "served", "failing", "dead"}
Series == [remote : Range(RemoteOf), pending : Nat, full : BOOLEAN]

(* Every variable holds a value of its kind.                               *)
TypeOK ==
    /\ context \subseteq Targets
    /\ kernel \in [Targets -> States]
    /\ stats \in [Targets -> Stats \cup {Stat0}]
    /\ scrape.pc \in {"idle", "stats", "health"}
    /\ scrape.left \subseteq scrape.mounts /\ scrape.mounts \subseteq Targets
    /\ DOMAIN scrape.volumes \subseteq Labels /\ Range(scrape.volumes) \subseteq Series
    /\ scrape.health \subseteq [volume : Labels, pod : Labels, target : Targets, value : BOOLEAN]
    /\ scrape.seen \in [Targets -> SUBSET (Stats \cup {Stat0})]
    /\ scrape.states \in [Targets -> SUBSET States]
    /\ call \in [Calls -> [pc : {"statfs", "health", "done", "lost"}, target : Targets,
                           seen : SUBSET States, answer : {"none", "healthy", "abnormal"}]]
    /\ \A c \in Calls : call[c].answer = "none" <=> call[c].pc # "done"

(* An answer of NodeGetVolumeStats is right about a mount that did not     *)
(* change during the call: a served one is healthy, even before its        *)
(* context is stored, one that is dead, missing or whose remote fails is   *)
(* abnormal (Statfs, isMountHealthy).                                      *)
SteadyIsTold ==
    \A c \in Calls : call[c].pc = "done" =>
        /\ call[c].seen = {"served"} => call[c].answer = "healthy"
        /\ call[c].seen \subseteq States \ Readable => call[c].answer = "abnormal"

(* The uploads that are pending on mounts, given the statistics of each.   *)
Pending(f) == MapThenSumSet(LAMBDA t : f[t].pending, DOMAIN f)

(* A series adds up mounts: one statistic of each, which it had while the  *)
(* scrape looked.                                                          *)
AddsUp(vm, ts) ==
    \E f \in [ts -> Stats \cup {Stat0}] :
        /\ \A t \in ts : f[t] \in scrape.seen[t]
        /\ vm.pending = Pending(f)
        /\ vm.full <=> \E t \in ts : f[t].full

(* A finished scrape counts every mount once, in the series of its label,  *)
(* with statistics the mount really had meanwhile, though they change from *)
(* step to step, and tells of every mount whether it could be read then,   *)
(* though mounts come and go (aggregateVolumeStats,                        *)
(* collectMountHealthMetrics).                                             *)
ScrapeIsTrue ==
    Finished =>
        /\ DOMAIN scrape.volumes = {extractVolumeID(t) : t \in scrape.mounts}
        /\ \A l \in DOMAIN scrape.volumes :
            AddsUp(scrape.volumes[l], {t \in scrape.mounts : extractVolumeID(t) = l})
        /\ {h.target : h \in scrape.health} = scrape.mounts
        /\ \A h \in scrape.health :
            \E s \in scrape.states[h.target] : h.value <=> s \in Readable
=============================================================================
