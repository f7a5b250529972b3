----------------------------- MODULE NodeServer -----------------------------
(***************************************************************************)
(* The CSI node service of the driver (pkg/rclone/nodeserver.go) with the  *)
(* per-volume operation locks (pkg/rclone/utils.go).                       *)
(*                                                                         *)
(* Every gRPC call runs in a goroutine of its own, so NodePublishVolume    *)
(* and NodeUnpublishVolume are sequences of steps that interleave freely.  *)
(* Three things are shared between them: the map of operation locks, the   *)
(* map of mount contexts, and rclone's process-wide in-memory config. What *)
(* outlives the process is the kernel's mount table: FUSE mounts are       *)
(* served by the driver itself, so a crash leaves mounts nobody serves.    *)
(*                                                                         *)
(* A mount (a mountlib.MountPoint with its VFS and its context) is named   *)
(* by the publish call that creates it.                                    *)
(***************************************************************************)
EXTENDS Naturals, Sequences

CONSTANTS
    Calls,          \* gRPC calls, one goroutine each
    Targets,        \* target paths
    Volumes,        \* volume IDs
    Remotes,        \* rclone config section names
    VolumeOf,       \* the volume the CO publishes at a target path
    RemotesOf,      \* the sections of a volume's configData (nested remotes)
    UpdateParams,   \* volumes with type-prefixed parameters: UpdateRemote runs
    AllowNonEmpty,  \* the mounts carry the allow-non-empty option
    MaxRetries,     \* polls of waitForVFSCacheSync (maxRetries)
    None

ASSUME ConstantsAssumption ==
    /\ VolumeOf \in [Targets -> Volumes]
    /\ RemotesOf \in [Volumes -> SUBSET Remotes]
    /\ \A v \in Volumes : RemotesOf[v] # {}
    /\ UpdateParams \subseteq Volumes
    /\ AllowNonEmpty \in BOOLEAN
    /\ MaxRetries \in Nat
    /\ None \notin Calls

VARIABLES
    pc,             \* where the goroutine of a call is
    req,            \* the request: operation and target path
    result,         \* gRPC status the call returns ("lost" in a crash)
    found,          \* what prepareTargetDirectory found at the target
    todo,           \* sections loadRcloneConfig has still to write
    opened,         \* calls whose fs.NewFs succeeded
    mc,             \* the mount context NodeUnpublishVolume looked up
    retry,          \* retryCount of waitForVFSCacheSync
    locks,          \* Driver.volumeLocks
    configMu,       \* holder of NodeServer.configMu
    config,         \* sections of rclone's in-memory config
    mountContext,   \* NodeServer.mountContext
    live,           \* mounts whose VFS has been started and not shut down
    dirty,          \* mounts with uploads in progress or queued
    exists,         \* target directories that exist
    layers,         \* kernel mounts stacked on a target, top last
    serving         \* mounts whose FUSE connection the process serves

locals == <<pc, result, found, todo, opened, mc, retry>>
driver == <<locks, configMu, config, mountContext>>
vfs    == <<live, dirty>>
kernel == <<exists, layers, serving>>
vars   == <<req, locals, driver, vfs, kernel>>

Target(c) == req[c].target
Volume(c) == VolumeOf[Target(c)]

(* The key of an operation lock: fmt.Sprintf("%s-%s", volumeID, target).   *)
LockKey(c) == <<Volume(c), Target(c)>>

PublishSteps   == {"params", "prepare", "load", "loading", "newfs", "mount",
                   "ready", "store", "cleanup"}
UnpublishSteps == {"lookup", "sync", "unmount", "delete", "force", "forget"}

(* The steps between TryAcquire and the deferred Release.                  *)
Holding == PublishSteps \cup UnpublishSteps \cup {"release"}

Goto(c, l) == pc' = [pc EXCEPT ![c] = l]

(* A return statement: the deferred Release is still to come.              *)
Return(c, code) ==
    /\ result' = [result EXCEPT ![c] = code]
    /\ Goto(c, "release")
-----------------------------------------------------------------------------
(* The rclone config: sections are global. A section is there as soon as   *)
(* one of its keys is; what the keys hold is the matter of ConfigLoad.     *)

DeleteSections(cfg, rs) == cfg \ rs

(* The kernel's view of a target path.                                     *)
Mounted(t) == layers[t] # <<>>
Top(t)     == layers[t][Len(layers[t])]
Dead(t)    == Mounted(t) /\ Top(t) \notin serving
Pop(t)     == SubSeq(layers[t], 1, Len(layers[t]) - 1)

Unserve(t) == serving \ (IF Mounted(t) THEN {Top(t)} ELSE {})
-----------------------------------------------------------------------------
Init ==
    /\ req \in [Calls -> [op : {"publish", "unpublish"}, target : Targets]]
    /\ pc = [c \in Calls |-> "start"]
    /\ result = [c \in Calls |-> "none"]
    /\ found = [c \in Calls |-> "none"]
    /\ todo = [c \in Calls |-> {}]
    /\ opened = {}
    /\ mc = [c \in Calls |-> None]
    /\ retry = [c \in Calls |-> 0]
    /\ locks = {}
    /\ configMu = None
    /\ config = {}
    /\ mountContext = [t \in Targets |-> None]
    /\ live = {} /\ dirty = {}
    /\ exists = {}
    /\ layers = [t \in Targets |-> <<>>]
    /\ serving = {}
-----------------------------------------------------------------------------
(* Both handlers: validation and the operation lock.                       *)

(* validatePublishVolumeRequest or validateUnpublishVolumeRequest refuses  *)
(* the request before any lock is taken.                                   *)
Reject(c) ==
    /\ pc[c] = "start"
    /\ result' = [result EXCEPT ![c] = "InvalidArgument"]
    /\ Goto(c, "done")
    /\ UNCHANGED <<req, found, todo, opened, mc, retry, driver, vfs, kernel>>

(* Mutation: the Release is deferred before the result of TryAcquire is    *)
(* looked at, so that an aborted call frees the lock of the running one.   *)
AbortReleases(c) ==
    /\ pc[c] = "start"
    /\ LockKey(c) \in locks
    /\ result' = [result EXCEPT ![c] = "Aborted"]
    /\ locks' = locks \ {LockKey(c)}
    /\ Goto(c, "done")
    /\ UNCHANGED <<req, found, todo, opened, mc, retry,
                   configMu, config, mountContext, vfs, kernel>>

(* TryAcquire found the key in the map: codes.Aborted.                     *)
Abort(c) ==
    /\ pc[c] = "start"
    /\ LockKey(c) \in locks
    /\ result' = [result EXCEPT ![c] = "Aborted"]
    /\ Goto(c, "done")
    /\ UNCHANGED <<req, found, todo, opened, mc, retry, driver, vfs, kernel>>

(* Mutation: TryAcquire does not look whether the key is already there.    *)
AcquireBlindly(c) ==
    /\ pc[c] = "start"
    /\ locks' = locks \cup {LockKey(c)}
    /\ Goto(c, IF req[c].op = "publish" THEN "params" ELSE "lookup")
    /\ UNCHANGED <<req, result, found, todo, opened, mc, retry,
                   configMu, config, mountContext, vfs, kernel>>

TryAcquire(c) ==
    /\ pc[c] = "start"
    /\ LockKey(c) \notin locks
    /\ locks' = locks \cup {LockKey(c)}
    /\ Goto(c, IF req[c].op = "publish" THEN "params" ELSE "lookup")
    /\ UNCHANGED <<req, result, found, todo, opened, mc, retry,
                   configMu, config, mountContext, vfs, kernel>>

(* The deferred Release, after every other deferred call of the handler.   *)
Release(c) ==
    /\ pc[c] = "release"
    /\ locks' = locks \ {LockKey(c)}
    /\ Goto(c, "done")
    /\ UNCHANGED <<req, result, found, todo, opened, mc, retry,
                   configMu, config, mountContext, vfs, kernel>>
-----------------------------------------------------------------------------
(* NodePublishVolume.                                                      *)

(* mergeVolumeParameters and extractPublishParams.                         *)
ExtractParams(c) ==
    /\ pc[c] = "params"
    /\ \/ Goto(c, "prepare") /\ UNCHANGED result
       \/ Return(c, "InvalidArgument")
    /\ UNCHANGED <<req, found, todo, opened, mc, retry, driver, vfs, kernel>>

TargetState(t) ==
    IF t \notin exists THEN "absent"
    ELSE IF ~Mounted(t) THEN "directory"
    ELSE IF Dead(t) THEN "dead" ELSE "mounted"

(* prepareTargetDirectory. A dead mount makes IsLikelyNotMountPoint return *)
(* an error that is not IsNotExist, and any other target may (a parent of  *)
(* the path that cannot be searched); the directory may not be made. A     *)
(* mounted target makes the function return nil, after which the caller    *)
(* goes on as for an empty directory.                                      *)
PrepareTargetDirectory(c) ==
    /\ pc[c] = "prepare"
    /\ found' = [found EXCEPT ![c] = TargetState(Target(c))]
    /\ \/ /\ TargetState(Target(c)) # "dead"
          /\ exists' = exists \cup {Target(c)}
          /\ Goto(c, "load") /\ UNCHANGED result
       \/ Return(c, "Internal") /\ UNCHANGED exists
    /\ UNCHANGED <<req, todo, opened, mc, retry, driver, vfs, layers, serving>>

(* generateConfigData or parseAllConfigRemotes fails.                      *)
ConfigInvalid(c) ==
    /\ pc[c] = "load"
    /\ Return(c, "InvalidArgument")
    /\ UNCHANGED <<req, found, todo, opened, mc, retry, driver, vfs, kernel>>

(* loadRcloneConfig takes configMu for the whole loop over the sections.   *)
LoadBegin(c) ==
    /\ pc[c] = "load"
    /\ configMu = None
    /\ configMu' = c
    /\ todo' = [todo EXCEPT ![c] = RemotesOf[Volume(c)]]
    /\ Goto(c, "loading")
    /\ UNCHANGED <<req, result, found, opened, mc, retry,
                   locks, config, mountContext, vfs, kernel>>

(* One round of the loop over allRemotes, in the order of a Go map.        *)
LoadRemote(c) ==
    /\ pc[c] = "loading"
    /\ \E r \in todo[c] :
        /\ config' = config \cup {r}
        /\ todo' = [todo EXCEPT ![c] = @ \ {r}]
    /\ UNCHANGED <<req, pc, result, found, opened, mc, retry,
                   locks, configMu, mountContext, vfs, kernel>>

(* UpdateRemote, called when the loop over the keys of a section meets     *)
(* "type", fails: the error return leaves the sections written so far and  *)
(* the part of this one that the loop had come to, and its nil slice of    *)
(* names leaves nothing to clean up.                                       *)
UpdateRemoteFails(c) ==
    /\ pc[c] = "loading"
    /\ Volume(c) \in UpdateParams
    /\ \E r \in todo[c] : config' = config \cup {r}
    /\ todo' = [todo EXCEPT ![c] = {}]
    /\ configMu' = None
    /\ Return(c, "Internal")
    /\ UNCHANGED <<req, found, opened, mc, retry, locks, mountContext, vfs, kernel>>

(* Mutation: configMu is not unlocked after the loop.                      *)
LoadEndKeepsMutex(c) ==
    /\ pc[c] = "loading"
    /\ todo[c] = {}
    /\ Goto(c, "newfs")
    /\ UNCHANGED <<req, result, found, todo, opened, mc, retry, driver, vfs, kernel>>

LoadEnd(c) ==
    /\ pc[c] = "loading"
    /\ todo[c] = {}
    /\ configMu' = None
    /\ Goto(c, "newfs")
    /\ UNCHANGED <<req, result, found, todo, opened, mc, retry,
                   locks, config, mountContext, vfs, kernel>>

(* An error anywhere in createAndMountFilesystem: the context is           *)
(* cancelled and the deferred cleanup of the handler comes next.           *)
FailMount(c) == Goto(c, "cleanup")

(* createAndMountFilesystem up to fs.NewFs, which resolves the sections of *)
(* the remote without holding configMu. Bad options, a missing section or  *)
(* the backend make it fail.                                               *)
NewFs(c) ==
    /\ pc[c] = "newfs"
    /\ \/ /\ RemotesOf[Volume(c)] \subseteq config
          /\ opened' = opened \cup {c}
          /\ Goto(c, "mount")
       \/ FailMount(c) /\ UNCHANGED opened
    /\ UNCHANGED <<req, result, found, todo, mc, retry, driver, vfs, kernel>>

(* createAndMountFilesystem after fs.NewFs. The mount and VFS options or   *)
(* the mount type may be refused. mountPoint.Mount then starts the VFS and *)
(* only after that calls MountFn, which fails or, in CheckAllowNonEmpty,   *)
(* refuses a target that is already a mount point: nobody shuts that VFS   *)
(* down, and cancelling the context of the mount does not reach it.        *)
Mount(c) ==
    LET t == Target(c) IN
    /\ pc[c] = "mount"
    /\ \/ /\ AllowNonEmpty \/ ~Mounted(t)
          /\ t \in exists
          /\ layers' = [layers EXCEPT ![t] = Append(@, c)]
          /\ serving' = serving \cup {c}
          /\ live' = live \cup {c}
          /\ Goto(c, "ready")
       \/ /\ live' \in {live, live \cup {c}}
          /\ FailMount(c) /\ UNCHANGED <<layers, serving>>
    /\ UNCHANGED <<req, result, found, todo, opened, mc, retry, driver,
                   dirty, exists>>

(* handleRcloneDaemon: WaitMountReady looks the target up in the mount     *)
(* table; when it is not there it asks the daemon process, which is nil.   *)
WaitMountReady(c) ==
    /\ pc[c] = "ready"
    /\ Goto(c, IF Mounted(Target(c)) THEN "store" ELSE "panicked")
    /\ UNCHANGED <<req, result, found, todo, opened, mc, retry, driver, vfs, kernel>>

SetMountContext(c) ==
    /\ pc[c] = "store"
    /\ mountContext' = [mountContext EXCEPT ![Target(c)] = c]
    /\ Return(c, "OK")
    /\ UNCHANGED <<req, found, todo, opened, mc, retry,
                   locks, configMu, config, vfs, kernel>>

(* Mutation: mountSuccess is set too early, the clean-up does not run.     *)
CleanupSkipped(c) ==
    /\ pc[c] = "cleanup"
    /\ Return(c, "Internal")
    /\ UNCHANGED <<req, found, todo, opened, mc, retry, driver, vfs, kernel>>

(* The deferred cleanupConfigRemotes of a failed publish. The status is    *)
(* the one createAndMountFilesystem chose; an error of the rclone options  *)
(* has none and reaches the caller as Unknown.                             *)
CleanupConfigRemotes(c) ==
    /\ pc[c] = "cleanup"
    /\ configMu = None
    /\ config' = DeleteSections(config, RemotesOf[Volume(c)])
    /\ \E code \in {"Internal", "InvalidArgument", "Unknown"} : Return(c, code)
    /\ UNCHANGED <<req, found, todo, opened, mc, retry,
                   locks, configMu, mountContext, vfs, kernel>>
-----------------------------------------------------------------------------
(* NodeUnpublishVolume.                                                    *)

(* Mutation: the context is not looked up by target path.                  *)
GetAnyMountContext(c) ==
    /\ pc[c] = "lookup"
    /\ \E t \in Targets :
        /\ mc' = [mc EXCEPT ![c] = mountContext[t]]
        /\ Goto(c, IF mountContext[t] = None THEN "force" ELSE "sync")
    /\ UNCHANGED <<req, result, found, todo, opened, retry, driver, vfs, kernel>>

GetMountContext(c) ==
    /\ pc[c] = "lookup"
    /\ mc' = [mc EXCEPT ![c] = mountContext[Target(c)]]
    /\ Goto(c, IF mountContext[Target(c)] = None THEN "force" ELSE "sync")
    /\ UNCHANGED <<req, result, found, todo, opened, retry, driver, vfs, kernel>>

(* Mutation: the loop runs one time too often.                             *)
SyncPollOnceMore(c) ==
    /\ pc[c] = "sync"
    /\ IF mc[c] \in dirty /\ retry[c] <= MaxRetries
       THEN retry' = [retry EXCEPT ![c] = @ + 1] /\ UNCHANGED pc
       ELSE Goto(c, "unmount") /\ UNCHANGED retry
    /\ UNCHANGED <<req, result, found, todo, opened, mc, driver, vfs, kernel>>

(* waitForVFSCacheSync: one poll of the VFS statistics. The loop ends when *)
(* nothing is pending or when the retries are used up.                     *)
SyncPoll(c) ==
    /\ pc[c] = "sync"
    /\ IF mc[c] \in dirty /\ retry[c] < MaxRetries
       THEN retry' = [retry EXCEPT ![c] = @ + 1] /\ UNCHANGED pc
       ELSE Goto(c, "unmount") /\ UNCHANGED retry
    /\ UNCHANGED <<req, result, found, todo, opened, mc, driver, vfs, kernel>>

(* Mutation: an error of mountPoint.Unmount skips the VFS shutdown and the *)
(* cancellation of the context.                                            *)
UnmountOrGiveUp(c) ==
    LET t == Target(c) IN
    /\ pc[c] = "unmount"
    /\ \/ /\ Mounted(t)
          /\ live' = live \ {mc[c]}
          /\ layers' = [layers EXCEPT ![t] = Pop(t)]
          /\ serving' = Unserve(t)
       \/ UNCHANGED <<live, layers, serving>>
    /\ Goto(c, "delete")
    /\ UNCHANGED <<req, result, found, todo, opened, mc, retry, driver,
                   dirty, exists>>

(* mountPoint.Unmount shuts the VFS down and then unmounts the path; its   *)
(* error is only logged. The context is cancelled in either case.          *)
UnmountMountPoint(c) ==
    LET t == Target(c) IN
    /\ pc[c] = "unmount"
    /\ live' = live \ {mc[c]}
    /\ \/ /\ Mounted(t)
          /\ layers' = [layers EXCEPT ![t] = Pop(t)]
          /\ serving' = Unserve(t)
       \/ UNCHANGED <<layers, serving>>
    /\ Goto(c, "delete")
    /\ UNCHANGED <<req, result, found, todo, opened, mc, retry, driver,
                   dirty, exists>>

(* Deleting the remotes recorded in the mount context, under configMu.     *)
DeleteRemotes(c) ==
    /\ pc[c] = "delete"
    /\ configMu = None
    /\ config' = DeleteSections(config, RemotesOf[Volume(c)])
    /\ Goto(c, "force")
    /\ UNCHANGED <<req, result, found, todo, opened, mc, retry,
                   locks, configMu, mountContext, vfs, kernel>>

(* Mutation: the error of the final clean-up is logged and ignored.        *)
CleanupErrorIgnored(c) ==
    /\ pc[c] = "force"
    /\ Goto(c, "forget")
    /\ UNCHANGED <<req, result, found, todo, opened, mc, retry, driver, vfs, kernel>>

(* mount.CleanupMountWithForce: unmounts one layer and removes the         *)
(* directory. The unmount may fail or time out, and the directory can only *)
(* be removed once nothing is mounted on it.                               *)
CleanupMountWithForce(c) ==
    LET t == Target(c) IN
    /\ pc[c] = "force"
    /\ \/ /\ t \notin exists \/ Len(layers[t]) <= 1
          /\ exists' = exists \ {t}
          /\ layers' = [layers EXCEPT ![t] = <<>>]
          /\ serving' = Unserve(t)
          /\ Goto(c, "forget") /\ UNCHANGED result
       \/ /\ t \in exists /\ Mounted(t)
          /\ layers' = [layers EXCEPT ![t] = Pop(t)]
          /\ serving' = Unserve(t)
          /\ Return(c, "Internal") /\ UNCHANGED exists
       \/ /\ t \in exists
          /\ Return(c, "Internal") /\ UNCHANGED kernel
    /\ UNCHANGED <<req, found, todo, opened, mc, retry, driver, vfs>>

DeleteMountContext(c) ==
    /\ pc[c] = "forget"
    /\ mountContext' = [mountContext EXCEPT ![Target(c)] = None]
    /\ Return(c, "OK")
    /\ UNCHANGED <<req, found, todo, opened, mc, retry,
                   locks, configMu, config, vfs, kernel>>
-----------------------------------------------------------------------------
(* The environment: applications, the VFS write-back, the process.         *)

(* A pod writes through the mount on top of a target. The kubelet calls    *)
(* NodeUnpublishVolume once the containers of the pod are gone.            *)
AppWrite(t) ==
    /\ Mounted(t) /\ Top(t) \in live
    /\ \A c \in Calls : pc[c] \in UnpublishSteps => Target(c) # t
    /\ dirty' = dirty \cup {Top(t)}
    /\ UNCHANGED <<req, locals, driver, live, kernel>>

(* The VFS finishes its uploads.                                           *)
Upload(m) ==
    /\ m \in dirty \cap live
    /\ dirty' = dirty \ {m}
    /\ UNCHANGED <<req, locals, driver, live, kernel>>

(* The process ends and is restarted: all that is in memory is lost, calls *)
(* in flight never answer, and the kernel mounts stay with nobody serving. *)
Crash ==
    /\ pc' = [c \in Calls |-> IF pc[c] = "start" THEN "start" ELSE "done"]
    /\ result' = [c \in Calls |-> IF pc[c] \in {"start", "done"}
                                  THEN result[c] ELSE "lost"]
    /\ todo' = [c \in Calls |-> {}]
    /\ mc' = [c \in Calls |-> None]
    /\ locks' = {}
    /\ configMu' = None
    /\ config' = {}
    /\ mountContext' = [t \in Targets |-> None]
    /\ live' = {}
    /\ serving' = {}
    /\ UNCHANGED <<req, found, opened, retry, dirty, exists, layers>>

PublishStep(c) ==
    \/ ExtractParams(c) \/ PrepareTargetDirectory(c) \/ ConfigInvalid(c)
    \/ LoadBegin(c) \/ LoadRemote(c) \/ UpdateRemoteFails(c) \/ LoadEnd(c)
    \/ NewFs(c) \/ Mount(c) \/ WaitMountReady(c) \/ SetMountContext(c)
    \/ CleanupConfigRemotes(c)

UnpublishStep(c) ==
    \/ GetMountContext(c) \/ SyncPoll(c) \/ UnmountMountPoint(c)
    \/ DeleteRemotes(c) \/ CleanupMountWithForce(c) \/ DeleteMountContext(c)

Step(c) == PublishStep(c) \/ UnpublishStep(c) \/ Release(c)

Next ==
    \/ \E c \in Calls : Reject(c) \/ Abort(c) \/ TryAcquire(c) \/ Step(c)
    \/ \E t \in Targets : AppWrite(t)
    \/ \E m \in Calls : Upload(m)
    \/ Crash

Spec == Init /\ [][Next]_vars

(* A goroutine that can go on is eventually scheduled, and the calls into  *)
(* the backend, the kernel and the mounter return.                         *)
FairSpec == Spec /\ \A c \in Calls : WF_vars(Step(c))
-----------------------------------------------------------------------------
(* Properties.                                                             *)

Codes == {"none", "OK", "Aborted", "InvalidArgument", "Internal", "Unknown",
          "lost"}

(* Every variable holds a value of its kind (fields of NodeServer, locals  *)
(* of the two handlers, the kernel's mount table).                         *)
TypeOK ==
    /\ req \in [Calls -> [op : {"publish", "unpublish"}, target : Targets]]
    /\ pc \in [Calls -> Holding \cup {"start", "done", "panicked"}]
    /\ result \in [Calls -> Codes]
    /\ found \in [Calls -> {"none", "absent", "directory", "mounted", "dead"}]
    /\ todo \in [Calls -> SUBSET Remotes]
    /\ opened \subseteq Calls
    /\ mc \in [Calls -> Calls \cup {None}]
    /\ retry \in [Calls -> 0 .. MaxRetries]
    /\ locks \subseteq Volumes \X Targets
    /\ configMu \in Calls \cup {None}
    /\ config \subseteq Remotes
    /\ mountContext \in [Targets -> Calls \cup {None}]
    /\ live \subseteq Calls
    /\ dirty \subseteq Calls
    /\ exists \subseteq Targets
    /\ layers \in [Targets -> Seq(Calls)]
    /\ serving \subseteq Calls

InFlight(c) == pc[c] \in Holding

(* The operation lock of a volume and target is held exactly as long as    *)
(* one call works on that target: no two handlers ever work on the same    *)
(* target, and no return path of either handler leaks or double-frees the  *)
(* lock (TryAcquire, Release and the deferred calls).                      *)
LockOwned ==
    /\ \A c \in Calls : InFlight(c) => LockKey(c) \in locks
    /\ \A c, d \in Calls : InFlight(c) /\ InFlight(d) /\ Target(c) = Target(d) => c = d
    /\ \A k \in locks : \E c \in Calls : InFlight(c) /\ LockKey(c) = k

(* handleRcloneDaemon never gets to the nil daemon process: between Mount  *)
(* and WaitMountReady nobody takes the new mount away.                     *)
NoNilDaemon == \A c \in Calls : pc[c] # "panicked"

(* The publish returned, or is about to return, an error.                  *)
PublishFailed(c) ==
    \/ pc[c] = "cleanup"
    \/ pc[c] \in {"release", "done"} /\ result[c] # "OK"

(* A VFS that runs can be found again: it is the one the mount context of  *)
(* its target names, or its own publish is about to store it. A VFS that   *)
(* broke this could never be synced or shut down. The VFS that             *)
(* mountPoint.Mount leaves behind when MountFn fails is such a one: the    *)
(* property says that nothing else is, for instance the VFS of a mount     *)
(* whose unmount failed half way. It is about mounts without the           *)
(* allow-non-empty option, with which a mount can hide another.            *)
LiveMountTracked ==
    \A m \in live : \/ mountContext[Target(m)] = m
                    \/ pc[m] \in {"ready", "store"}
                    \/ PublishFailed(m)

(* A target whose remotes will still be deleted: by an unpublish, as long  *)
(* as its mount context names them and no unpublish is past that deletion, *)
(* or by the publish that has loaded them and may yet fail.                *)
Keeper(t) ==
    \/ /\ mountContext[t] # None
       /\ \A c \in Calls : pc[c] \in {"force", "forget"} => Target(c) # t
    \/ \E c \in Calls : /\ Target(c) = t
                       /\ pc[c] \in {"loading", "newfs", "mount", "ready",
                                    "store", "cleanup"}

(* A publish that may have left in UpdateRemoteFails.                      *)
LoadFailed(c) ==
    /\ req[c].op = "publish" /\ Volume(c) \in UpdateParams
    /\ pc[c] \in {"release", "done"}
    /\ result[c] = "Internal" /\ c \notin opened

(* A section in rclone's config is accounted for: a target that loads it   *)
(* will still delete it, also when several targets load the same section   *)
(* and delete it under each other. What stays behind with nobody to delete *)
(* it comes from a publish whose UpdateRemote failed, and from no other    *)
(* (loadRcloneConfig, cleanupConfigRemotes, unmountVolume).                *)
SectionTracked ==
    \A r \in config :
        \/ \E t \in Targets : r \in RemotesOf[VolumeOf[t]] /\ Keeper(t)
        \/ \E c \in Calls : r \in RemotesOf[Volume(c)] /\ LoadFailed(c)

(* What an OK promises to the CO, when the handler returns it. Publish:    *)
(* the call's own mount is on top of the target, served, running and known *)
(* to the driver. Unpublish: no directory, no mount and no context are     *)
(* left, whatever failed attempts or crashes came before, and no running   *)
(* VFS but those that failed publishes left (mountPoint.Mount).            *)
AnswerIsTrue ==
    \A c \in Calls : pc[c] = "release" /\ result[c] = "OK" =>
        LET t == Target(c) IN
        IF req[c].op = "publish"
        THEN /\ Mounted(t) /\ Top(t) = c
             /\ c \in live \cap serving
             /\ mountContext[t] = c
             /\ t \in exists
        ELSE /\ ~Mounted(t) /\ t \notin exists
             /\ mountContext[t] = None
             /\ \A m \in live : Target(m) = t => PublishFailed(m)

StopsByUnpublish ==
    \A m \in live : m \notin live' =>
        \/ live' = {} /\ locks' = {}
        \/ \E c \in Calls : /\ req[c].op = "unpublish" /\ InFlight(c)
                            /\ Target(c) = Target(m) /\ mc[c] = m

(* Only an unpublish that has looked the mount up, and holds the lock of   *)
(* its target, takes a running mount down; a failed or repeated publish    *)
(* never does (error paths of createAndMountFilesystem). A crash does.     *)
OnlyUnpublishStops == [][StopsByUnpublish]_vars

(* Every call that got its lock answers or dies with the process: no       *)
(* return path leaves configMu held.                                       *)
Answered == \A c \in Calls : InFlight(c) ~> pc[c] = "done"

(* A publish that finds its target mounted and accessible, and has opened  *)
(* its file system, does not fail (prepareTargetDirectory and its caller). *)
RepublishSucceeds ==
    \A c \in Calls : pc[c] = "done" /\ found[c] = "mounted" /\ c \in opened =>
        result[c] # "Internal"

(* A publish that finds a mount that is not accessible recovers it         *)
(* (prepareTargetDirectory).                                               *)
DeadMountRecovered ==
    \A c \in Calls : found[c] = "dead" /\ pc[c] = "release" => result[c] # "Internal"

(* A mount is taken down only when its cache uploads are complete          *)
(* (waitForVFSCacheSync).                                                  *)
SyncedBeforeUnmount == \A c \in Calls : pc[c] = "delete" => mc[c] \notin dirty
=============================================================================
