--------------------- MODULE NodeServerRefinementProofs ---------------------
(***************************************************************************)
(* Unless mounts may be stacked, the answers of the node service are true  *)
(* and it implements VolumeService, for every set of calls, targets,       *)
(* volumes and remotes.                                                    *)
(***************************************************************************)
EXTENDS NodeServerRefinement, NodeServerProofs

(* The answers, on top of the invariants of NodeServerProofs.              *)

(* The steps of a handler belong to its operation.                         *)
OpOfStep ==
    \A c \in Calls : /\ pc[c] \in PublishSteps => req[c].op = "publish"
                     /\ pc[c] \in UnpublishSteps => req[c].op = "unpublish"

(* A target carries at most one kernel mount, made by a publish of it.     *)
LayerAtTarget ==
    \A t \in Targets : \/ layers[t] = <<>>
                       \/ \E m \in Calls : layers[t] = <<m>> /\ Target(m) = t

(* Only directories that exist are mounted on.                             *)
MountedExists == \A t \in Targets : Mounted(t) => t \in exists

(* The FUSE connection of a running mount is served.                       *)
LiveServed == Running \subseteq serving

(* After the final clean-up of an unpublish nothing is left at the target. *)
ForgetClean ==
    \A c \in Calls : pc[c] = "forget" => ~Mounted(Target(c)) /\ Target(c) \notin exists

(* A publish that has not mounted yet, and an unpublish, is on no target.  *)
BeforeMount == {"start", "params", "prepare", "load", "loading", "newfs", "mount"}

NotYetUp ==
    \A c \in Calls : pc[c] \in BeforeMount \/ req[c].op = "unpublish" =>
        layers[Target(c)] # <<c>>

(* The VFS that a failed publish left running is mounted nowhere.          *)
LeftIsOff == \A m \in live : PublishFailed(m) => layers[Target(m)] # <<m>>

AnswerInv ==
    /\ TrackInv
    /\ OpOfStep
    /\ LayerAtTarget
    /\ MountedExists
    /\ LiveServed
    /\ ForgetClean
    /\ NotYetUp
    /\ LeftIsOff
    /\ AnswerIsTrue

LEMMA AnswerInit == Init => AnswerInv
<1>. SUFFICES ASSUME Init PROVE AnswerInv
  OBVIOUS
<1>1. /\ TrackInv /\ live = {} /\ layers = [t \in Targets |-> <<>>]
      /\ pc = [c \in Calls |-> "start"] /\ \A c \in Calls : Target(c) \in Targets
  BY TrackInit DEF Init, Target
<1>2. OpOfStep /\ LayerAtTarget /\ MountedExists /\ LiveServed /\ ForgetClean /\ AnswerIsTrue
  BY <1>1 DEF OpOfStep, LayerAtTarget, MountedExists, Mounted, LiveServed, Running,
              ForgetClean, AnswerIsTrue, PublishSteps, UnpublishSteps
<1>3. \A c \in Calls : layers[Target(c)] # <<c>>
  BY <1>1
<1>4. NotYetUp /\ LeftIsOff
  BY <1>1, <1>3 DEF NotYetUp, LeftIsOff
<1>. QED
  BY <1>1, <1>2, <1>4 DEF AnswerInv

(* A step of a handler is followed by a step of the same handler, or by    *)
(* the deferred Release.                                                   *)
LEMMA StepOp ==
  ASSUME TypeOK, NEW c \in Calls, Step(c)
  PROVE  /\ pc'[c] \in PublishSteps => pc[c] \in PublishSteps
         /\ pc'[c] \in UnpublishSteps => pc[c] \in UnpublishSteps
<1>. USE DEF Goto, Return, PublishSteps, UnpublishSteps
<1>0. pc \in [Calls -> Holding \cup {"start", "done", "panicked"}]
  BY DEF TypeOK
<1>1. CASE ExtractParams(c) \/ PrepareTargetDirectory(c) \/ ConfigInvalid(c)
  BY <1>0, <1>1 DEF ExtractParams, PrepareTargetDirectory, ConfigInvalid
<1>2. CASE LoadBegin(c) \/ LoadRemote(c) \/ UpdateRemoteFails(c) \/ LoadEnd(c)
  BY <1>0, <1>2 DEF LoadBegin, LoadRemote, UpdateRemoteFails, LoadEnd
<1>3. CASE NewFs(c) \/ Mount(c)
  BY <1>0, <1>3 DEF NewFs, Mount, FailMount
<1>4. CASE WaitMountReady(c) \/ SetMountContext(c) \/ CleanupConfigRemotes(c)
  BY <1>0, <1>4 DEF WaitMountReady, SetMountContext, CleanupConfigRemotes
<1>5. CASE GetMountContext(c) \/ SyncPoll(c) \/ UnmountMountPoint(c)
  BY <1>0, <1>5 DEF GetMountContext, SyncPoll, UnmountMountPoint
<1>6. CASE DeleteRemotes(c) \/ CleanupMountWithForce(c) \/ DeleteMountContext(c)
  BY <1>0, <1>6 DEF DeleteRemotes, CleanupMountWithForce, DeleteMountContext
<1>7. CASE Release(c)
  BY <1>0, <1>7 DEF Release
<1>. QED
  BY <1>1, <1>2, <1>3, <1>4, <1>5, <1>6, <1>7 DEF Step, PublishStep, UnpublishStep

(* The steps that touch no mount, directory or context neither answer OK   *)
(* nor enter "forget".                                                     *)
LEMMA StepInert ==
  ASSUME TypeOK, NEW c \in Calls, Step(c),
         ~PrepareTargetDirectory(c), ~Mount(c), ~SetMountContext(c),
         ~UnmountMountPoint(c), ~CleanupMountWithForce(c), ~DeleteMountContext(c)
  PROVE  /\ UNCHANGED <<live, mountContext, kernel>>
         /\ pc'[c] # "forget"
         /\ pc'[c] = "release" => result'[c] # "OK"
<1>. USE DEF Goto, Return, driver, vfs, kernel
<1>0. /\ pc \in [Calls -> Holding \cup {"start", "done", "panicked"}]
      /\ result \in [Calls -> Codes]
  BY DEF TypeOK
<1>1. CASE ExtractParams(c) \/ ConfigInvalid(c)
  BY <1>0, <1>1 DEF ExtractParams, ConfigInvalid
<1>2. CASE LoadBegin(c) \/ LoadRemote(c) \/ UpdateRemoteFails(c) \/ LoadEnd(c)
  BY <1>0, <1>2 DEF LoadBegin, LoadRemote, UpdateRemoteFails, LoadEnd
<1>3. CASE NewFs(c)
  BY <1>0, <1>3 DEF NewFs, FailMount
<1>4. CASE WaitMountReady(c) \/ CleanupConfigRemotes(c)
  BY <1>0, <1>4 DEF WaitMountReady, CleanupConfigRemotes
<1>5. CASE GetMountContext(c) \/ SyncPoll(c)
  BY <1>0, <1>5 DEF GetMountContext, SyncPoll
<1>6. CASE DeleteRemotes(c) \/ Release(c)
  BY <1>0, <1>6 DEF DeleteRemotes, Release
<1>. QED
  BY <1>1, <1>2, <1>3, <1>4, <1>5, <1>6 DEF Step, PublishStep, UnpublishStep

(* Unmounting a target with one kernel mount leaves none, and no mount of  *)
(* another target stops being served.                                      *)
LEMMA UnmountOne ==
  ASSUME TypeOK, LayerAtTarget, NEW t \in Targets
  PROVE  /\ Mounted(t) => Pop(t) = <<>>
         /\ \A m \in serving : Target(m) # t => m \in Unserve(t)
         /\ Unserve(t) \subseteq serving
<1>1. CASE layers[t] = <<>>
  BY <1>1 DEF Mounted, Unserve
<1>2. ASSUME NEW m \in Calls, layers[t] = <<m>>, Target(m) = t
      PROVE  Pop(t) = <<>> /\ Top(t) = m
  <2>1. Len(<<m>>) = 1 /\ <<m>>[1] = m
    OBVIOUS
  <2>2. SubSeq(<<m>>, 1, 0) = <<>>
    OBVIOUS
  <2>. QED
    BY <1>2, <2>1, <2>2 DEF Pop, Top
<1>. QED
  BY <1>1, <1>2 DEF LayerAtTarget, Unserve

(* What a step of a call does to mounts and directories, it does at its    *)
(* own target.                                                             *)
LEMMA StepElsewhere ==
  ASSUME TypeOK, LayerAtTarget, ContextAtTarget, LookupFresh, NEW c \in Calls, Step(c)
  PROVE  /\ \A u \in Targets \ {Target(c)} : u \in exists' <=> u \in exists
         /\ \A m \in Calls : Target(m) # Target(c) =>
               /\ m \in live' <=> m \in live
               /\ m \in serving' <=> m \in serving
<1>. DEFINE t == Target(c)
<1>0. t \in Targets /\ mountContext \in [Targets -> Calls \cup {None}]
  BY DEF TypeOK, Target
<1>1. /\ \A m \in serving : Target(m) # t => m \in Unserve(t)
      /\ Unserve(t) \subseteq serving
  BY <1>0, UnmountOne
<1>2. CASE PrepareTargetDirectory(c)
  BY <1>2 DEF PrepareTargetDirectory, vfs
<1>3. CASE Mount(c)
  BY <1>3 DEF Mount
<1>4. CASE SetMountContext(c) \/ DeleteMountContext(c)
  BY <1>4 DEF SetMountContext, DeleteMountContext, vfs, kernel
<1>5. CASE UnmountMountPoint(c)
  <2>1. mc[c] = mountContext[t]
    BY <1>5 DEF UnmountMountPoint, LookupFresh
  <2>2. \A m \in Calls : Target(m) # t => m # mc[c]
    BY <1>0, <2>1, ConstantsAssumption DEF ContextAtTarget
  <2>3. live' = live \ {mc[c]} /\ UNCHANGED exists
        /\ (serving' = Unserve(t) \/ serving' = serving)
    BY <1>5 DEF UnmountMountPoint
  <2>. QED
    BY <1>1, <2>2, <2>3
<1>6. CASE CleanupMountWithForce(c)
  <2>1. UNCHANGED live /\ (serving' = Unserve(t) \/ serving' = serving)
        /\ (exists' = exists \ {t} \/ exists' = exists)
    BY <1>6 DEF CleanupMountWithForce, vfs, kernel
  <2>. QED
    BY <1>1, <2>1
<1>7. CASE /\ ~PrepareTargetDirectory(c) /\ ~Mount(c) /\ ~SetMountContext(c)
           /\ ~UnmountMountPoint(c) /\ ~CleanupMountWithForce(c) /\ ~DeleteMountContext(c)
  BY <1>7, StepInert DEF kernel
<1>. QED
  BY <1>2, <1>3, <1>4, <1>5, <1>6, <1>7

(* How a call comes to be on top of its target, and how it fails.          *)
LEMMA StepUp ==
  ASSUME ~AllowNonEmpty, TypeOK, ReadyMounted, LayerAtTarget, OpOfStep, NEW c \in Calls, Step(c)
  PROVE  /\ \A m \in Calls : layers'[Target(m)] = <<m>> =>
              layers[Target(m)] = <<m>> \/ (m = c /\ pc'[c] = "ready")
         /\ pc'[c] \in BeforeMount => pc[c] \in BeforeMount
         /\ pc'[c] = "ready" => pc[c] \in PublishSteps
         /\ c \in live' /\ PublishFailed(c)' =>
              \/ c \in live /\ PublishFailed(c)
              \/ pc[c] \in BeforeMount \/ req[c].op = "unpublish"
<1>. DEFINE t == Target(c)
<1>. USE DEF Goto, Return, PublishFailed, BeforeMount
<1>0. /\ pc \in [Calls -> Holding \cup {"start", "done", "panicked"}]
      /\ result \in [Calls -> Codes]
      /\ layers \in [Targets -> Seq(Calls)]
      /\ \A m \in Calls : Target(m) \in Targets
  BY DEF TypeOK, Target
<1>1. CASE ExtractParams(c) \/ PrepareTargetDirectory(c) \/ ConfigInvalid(c)
  BY <1>0, <1>1 DEF ExtractParams, PrepareTargetDirectory, ConfigInvalid, kernel, PublishSteps
<1>2. CASE LoadBegin(c) \/ LoadRemote(c) \/ UpdateRemoteFails(c) \/ LoadEnd(c)
  BY <1>0, <1>2 DEF LoadBegin, LoadRemote, UpdateRemoteFails, LoadEnd, kernel, PublishSteps
<1>3. CASE NewFs(c)
  BY <1>0, <1>3 DEF NewFs, FailMount, kernel, PublishSteps
<1>4. CASE Mount(c)
  <2>1. CASE layers' = layers
    BY <1>0, <1>4, <2>1 DEF Mount, FailMount, PublishSteps
  <2>2. CASE layers' # layers
    <3>1. /\ layers[t] = <<>> /\ layers' = [layers EXCEPT ![t] = Append(@, c)]
          /\ pc[c] = "mount" /\ pc'[c] = "ready"
      BY <1>0, <1>4, <2>2 DEF Mount, FailMount, Mounted
    <3>2. layers'[t] = <<c>> /\ \A u \in Targets \ {t} : layers'[u] = layers[u]
      BY <1>0, <3>1
    <3>3. \A m : <<c>> = <<m>> => m = c
      OBVIOUS
    <3>. QED
      BY <1>0, <3>1, <3>2, <3>3 DEF PublishSteps
  <2>. QED
    BY <2>1, <2>2
<1>5. CASE WaitMountReady(c) \/ SetMountContext(c) \/ Release(c)
  BY <1>0, <1>5 DEF WaitMountReady, SetMountContext, Release, ReadyMounted, vfs, kernel, PublishSteps
<1>6. CASE CleanupConfigRemotes(c)
  BY <1>0, <1>6 DEF CleanupConfigRemotes, vfs, kernel, PublishSteps
<1>7. CASE UnpublishStep(c)
  <2>1. pc[c] \in UnpublishSteps /\ pc'[c] \in UnpublishSteps \cup {"release"}
    BY <1>0, <1>7 DEF UnpublishStep, GetMountContext, SyncPoll, UnmountMountPoint, DeleteRemotes,
                      CleanupMountWithForce, DeleteMountContext, UnpublishSteps
  <2>2. req[c].op = "unpublish"
    BY <2>1 DEF OpOfStep
  <2>3. \/ layers' = layers
        \/ layers' = [layers EXCEPT ![t] = <<>>]
        \/ Mounted(t) /\ layers' = [layers EXCEPT ![t] = Pop(t)]
    BY <1>7 DEF UnpublishStep, GetMountContext, SyncPoll, UnmountMountPoint, DeleteRemotes,
                CleanupMountWithForce, DeleteMountContext, kernel
  <2>4. Mounted(t) => Pop(t) = <<>>
    BY <1>0, UnmountOne
  <2>5. \A u \in Targets : layers'[u] = layers[u] \/ layers'[u] = <<>>
    BY <1>0, <2>3, <2>4
  <2>6. \A m \in Calls : layers'[Target(m)] = <<m>> => layers[Target(m)] = <<m>>
    <3>1. \A m : <<m>> # <<>>
      OBVIOUS
    <3>. QED
      BY <1>0, <2>5, <3>1
  <2>7. "ready" \notin UnpublishSteps \cup {"release"}
        /\ BeforeMount \cap (UnpublishSteps \cup {"release"}) = {}
    BY DEF UnpublishSteps
  <2>. QED
    BY <2>1, <2>2, <2>6, <2>7
<1>. QED
  BY <1>1, <1>2, <1>3, <1>4, <1>5, <1>6, <1>7 DEF Step, PublishStep

LEMMA UpStep ==
  ASSUME ~AllowNonEmpty, AnswerInv, [Next]_vars
  PROVE  NotYetUp' /\ LeftIsOff'
<1>0. /\ TypeOK /\ ReadyMounted /\ LayerAtTarget /\ ContextAtTarget /\ LookupFresh
      /\ OpOfStep /\ NotYetUp /\ LeftIsOff
      /\ pc \in [Calls -> Holding \cup {"start", "done", "panicked"}]
      /\ live \subseteq Calls
  BY DEF AnswerInv, TrackInv, LockInv, TypeOK
<1>1. ASSUME NEW c \in Calls, Step(c) PROVE NotYetUp' /\ LeftIsOff'
  <2>1. /\ req' = req /\ \A d \in Calls \ {c} : pc'[d] = pc[d] /\ result'[d] = result[d]
        /\ \A d \in Calls : Target(d)' = Target(d)
    BY <1>0, <1>1, StepLocal DEF Target
  <2>2. /\ \A m \in Calls : layers'[Target(m)] = <<m>> =>
             layers[Target(m)] = <<m>> \/ (m = c /\ pc'[c] = "ready")
        /\ pc'[c] \in BeforeMount => pc[c] \in BeforeMount
        /\ pc'[c] = "ready" => pc[c] \in PublishSteps
        /\ c \in live' /\ PublishFailed(c)' =>
             \/ c \in live /\ PublishFailed(c)
             \/ pc[c] \in BeforeMount \/ req[c].op = "unpublish"
    BY <1>0, <1>1, StepUp
  <2>3. pc'[c] = "ready" => /\ pc'[c] \notin BeforeMount /\ req[c].op # "unpublish"
                           /\ ~PublishFailed(c)'
    BY <1>0, <2>2 DEF OpOfStep, BeforeMount, PublishFailed
  <2>4. live' \subseteq live \cup {c}
    <3>1. CASE Mount(c) \/ PrepareTargetDirectory(c) \/ UnmountMountPoint(c)
      BY <3>1 DEF Mount, PrepareTargetDirectory, UnmountMountPoint, vfs
    <3>2. CASE SetMountContext(c) \/ DeleteMountContext(c) \/ CleanupMountWithForce(c)
      BY <3>2 DEF SetMountContext, DeleteMountContext, CleanupMountWithForce, vfs
    <3>3. CASE /\ ~PrepareTargetDirectory(c) /\ ~Mount(c) /\ ~SetMountContext(c)
               /\ ~UnmountMountPoint(c) /\ ~CleanupMountWithForce(c) /\ ~DeleteMountContext(c)
      BY <1>0, <1>1, <3>3, StepInert
    <3>. QED
      BY <3>1, <3>2, <3>3
  <2>5. NotYetUp'
    BY <1>0, <2>1, <2>2, <2>3 DEF NotYetUp
  <2>6. ASSUME NEW m \in live', PublishFailed(m)', layers'[Target(m)] = <<m>> PROVE FALSE
    <3>0. m \in Calls
      BY <1>0, <2>4
    <3>1. CASE m # c
      BY <1>0, <2>1, <2>2, <2>4, <2>6, <3>0, <3>1 DEF LeftIsOff, PublishFailed
    <3>2. CASE m = c
      BY <1>0, <2>2, <2>3, <2>6, <3>2 DEF LeftIsOff, NotYetUp
    <3>. QED
      BY <3>1, <3>2
  <2>. QED
    BY <1>0, <2>1, <2>4, <2>5, <2>6 DEF LeftIsOff
<1>2. ASSUME NEW c \in Calls, Reject(c) \/ Abort(c) \/ TryAcquire(c)
      PROVE  NotYetUp' /\ LeftIsOff'
  <2>1. /\ UNCHANGED <<req, live, layers>> /\ pc[c] = "start"
        /\ \A d \in Calls \ {c} : pc'[d] = pc[d] /\ result'[d] = result[d]
    BY <1>0, <1>2 DEF Reject, Abort, TryAcquire, Goto, vfs, kernel, TypeOK
  <2>2. layers[Target(c)] # <<c>>
    BY <1>0, <2>1 DEF NotYetUp, BeforeMount
  <2>. QED
    BY <1>0, <2>1, <2>2 DEF NotYetUp, LeftIsOff, PublishFailed, Target
<1>3. CASE Crash
  <2>1. /\ live' = {} /\ UNCHANGED <<req, layers>>
        /\ \A c \in Calls : pc'[c] \in {"start", "done"} /\ (pc'[c] = "start" => pc[c] = "start")
    BY <1>3 DEF Crash
  <2>. QED
    BY <1>0, <2>1 DEF NotYetUp, LeftIsOff, BeforeMount, Target
<1>4. CASE UNCHANGED <<req, pc, result, live, layers>>
  BY <1>0, <1>4 DEF NotYetUp, LeftIsOff, PublishFailed, Target
<1>5. CASE (\E t \in Targets : AppWrite(t)) \/ (\E m \in Calls : Upload(m)) \/ UNCHANGED vars
  BY <1>4, <1>5 DEF AppWrite, Upload, vars, locals, vfs, kernel
<1>. QED
  BY <1>1, <1>2, <1>3, <1>5 DEF Next

LEMMA AnswerStep ==
  ASSUME ~AllowNonEmpty, AnswerInv, [Next]_vars
  PROVE  AnswerInv'
<1>. USE ConstantsAssumption
<1>0. /\ TypeOK /\ LockOwned /\ ContextAtTarget /\ LiveOnTop /\ ReadyLive
      /\ LookupFresh /\ StoppedAfterUnmount /\ TrackInv'
      /\ OpOfStep /\ LayerAtTarget /\ MountedExists /\ LiveServed /\ ForgetClean
      /\ AnswerIsTrue /\ NotYetUp' /\ LeftIsOff'
  BY TrackStep, UpStep DEF AnswerInv, TrackInv, LockInv
<1>. DEFINE Rest == /\ OpOfStep /\ LayerAtTarget /\ MountedExists /\ LiveServed
                    /\ ForgetClean /\ AnswerIsTrue
<1>1. ASSUME NEW c \in Calls, Reject(c) \/ Abort(c) \/ TryAcquire(c)
      PROVE  Rest'
  <2>1. /\ UNCHANGED <<req, live, layers, serving, exists, mountContext>>
        /\ pc[c] = "start" /\ pc'[c] \in {"done", "params", "lookup"}
        /\ \A d \in Calls \ {c} : pc'[d] = pc[d] /\ result'[d] = result[d]
        /\ pc'[c] = "params" => req[c].op = "publish"
        /\ pc'[c] = "lookup" => req[c].op = "unpublish"
    BY <1>0, <1>1 DEF Reject, Abort, TryAcquire, Goto, driver, vfs, kernel, TypeOK
  <2>2. OpOfStep'
    BY <1>0, <2>1 DEF OpOfStep, PublishSteps, UnpublishSteps
  <2>a. \A d \in Calls : PublishFailed(d) => PublishFailed(d)'
    BY <1>0, <2>1 DEF PublishFailed
  <2>3. LayerAtTarget' /\ MountedExists' /\ LiveServed'
    BY <1>0, <2>1, <2>a DEF LayerAtTarget, MountedExists, LiveServed, Running, Mounted, Target, TypeOK
  <2>4. ForgetClean'
    BY <1>0, <2>1 DEF ForgetClean, Mounted, Target
  <2>5. AnswerIsTrue'
    <3>1. ASSUME NEW d \in Calls, pc'[d] = "release", result'[d] = "OK"
          PROVE  pc[d] = "release" /\ result[d] = "OK"
      BY <2>1, <3>1
    <3>2. \A d \in Calls : Target(d)' = Target(d)
      BY <2>1 DEF Target
    <3>. QED
      BY <1>0, <2>1, <2>a, <3>1, <3>2 DEF AnswerIsTrue, Mounted, Top, TypeOK
  <2>. QED
    BY <2>2, <2>3, <2>4, <2>5
<1>2. ASSUME NEW c \in Calls, Step(c)
      PROVE  Rest'
  <2>. DEFINE t == Target(c)
  <2>1. /\ req' = req
        /\ pc[c] \in Holding
        /\ \A d \in Calls \ {c} : pc'[d] = pc[d] /\ result'[d] = result[d]
        /\ \A u \in Targets \ {t} : layers'[u] = layers[u] /\ mountContext'[u] = mountContext[u]
    BY <1>0, <1>2, StepLocal
  <2>2. \A d \in Calls : Target(d)' = Target(d) /\ Target(d) \in Targets
    BY <1>0, <2>1 DEF Target, TypeOK
  <2>3. \A d \in Calls \ {c} : pc[d] \in Holding => Target(d) # t
    BY <1>0, <2>1 DEF LockOwned, InFlight
  <2>4. /\ pc \in [Calls -> Holding \cup {"start", "done", "panicked"}]
        /\ result \in [Calls -> Codes]
        /\ layers \in [Targets -> Seq(Calls)]
        /\ mountContext \in [Targets -> Calls \cup {None}]
        /\ live \subseteq Calls /\ serving \subseteq Calls /\ live' \subseteq Calls
    BY <1>0 DEF TrackInv, LockInv, TypeOK
  <2>5. /\ \A u \in Targets \ {t} : u \in exists' <=> u \in exists
        /\ \A m \in Calls : Target(m) # t => /\ m \in live' <=> m \in live
                                             /\ m \in serving' <=> m \in serving
    BY <1>0, <1>2, StepElsewhere
  <2>a. \A m \in Calls : Target(m) # t => (m \in Running' <=> m \in Running)
    <3>. SUFFICES ASSUME NEW m \in Calls, Target(m) # t PROVE m \in Running' <=> m \in Running
      OBVIOUS
    <3>1. m # c /\ (m \in live' <=> m \in live) /\ pc'[m] = pc[m] /\ result'[m] = result[m]
      BY <2>1, <2>5
    <3>. QED
      BY <3>1 DEF Running, PublishFailed
  <2>b. Running \subseteq Calls /\ Running' \subseteq Calls /\ Running' \subseteq live'
        /\ Running' \subseteq Running \cup (live' \ live)
    BY <1>0, <1>2, <2>4, StepFailed DEF Running
  <2>6. OpOfStep'
    BY <1>0, <1>2, <2>1, StepOp DEF OpOfStep
  (* The parts of the invariant at the call's own target.                  *)
  <2>. DEFINE Here ==
         /\ layers'[t] = <<>> \/ \E m \in Calls : layers'[t] = <<m>> /\ Target(m) = t
         /\ layers'[t] # <<>> => t \in exists'
         /\ \A m \in Running' : Target(m) = t => m \in serving'
         /\ pc'[c] = "forget" => layers'[t] = <<>> /\ t \notin exists'
         /\ pc'[c] = "release" /\ result'[c] = "OK" =>
              IF req[c].op = "publish"
              THEN /\ layers'[t] = <<c>> /\ c \in live' \cap serving'
                   /\ mountContext'[t] = c /\ t \in exists'
              ELSE /\ layers'[t] = <<>> /\ t \notin exists'
                   /\ mountContext'[t] = None
                   /\ \A m \in Running' : Target(m) # t
  <2>7. ASSUME Here PROVE Rest'
    <3>1. LayerAtTarget'
      BY <1>0, <2>1, <2>2, <2>7 DEF LayerAtTarget
    <3>2. MountedExists'
      BY <1>0, <2>1, <2>2, <2>5, <2>7 DEF MountedExists, Mounted
    <3>3. LiveServed'
      BY <1>0, <2>2, <2>5, <2>7, <2>a, <2>b DEF LiveServed
    <3>4. ForgetClean'
      <4>1. ASSUME NEW d \in Calls, pc'[d] = "forget", d # c
            PROVE  layers'[Target(d)] = <<>> /\ Target(d) \notin exists'
        BY <1>0, <2>1, <2>2, <2>3, <2>5, <4>1
        DEF ForgetClean, Mounted, Holding, UnpublishSteps
      <4>. QED
        BY <2>2, <2>7, <4>1 DEF ForgetClean, Mounted
    <3>5. AnswerIsTrue'
      <4>1. ASSUME NEW d \in Calls, pc'[d] = "release", result'[d] = "OK", d # c
            PROVE  /\ Target(d) # t /\ pc[d] = "release" /\ result[d] = "OK"
                   /\ layers'[Target(d)] = layers[Target(d)]
                   /\ mountContext'[Target(d)] = mountContext[Target(d)]
                   /\ Target(d) \in exists' <=> Target(d) \in exists
                   /\ \A m \in Calls : Target(m) = Target(d) =>
                        /\ m \in Running' <=> m \in Running
                        /\ m \in live' <=> m \in live
                        /\ m \in serving' <=> m \in serving
        BY <2>1, <2>2, <2>3, <2>5, <2>a, <4>1 DEF Holding
      <4>2. ASSUME NEW d \in Calls, pc'[d] = "release", result'[d] = "OK", d # c
            PROVE  IF req[d].op = "publish"
                   THEN /\ layers'[Target(d)] # <<>>
                        /\ layers'[Target(d)][Len(layers'[Target(d)])] = d
                        /\ d \in live' \cap serving'
                        /\ mountContext'[Target(d)] = d
                        /\ Target(d) \in exists'
                   ELSE /\ layers'[Target(d)] = <<>> /\ Target(d) \notin exists'
                        /\ mountContext'[Target(d)] = None
                        /\ \A m \in Running' : Target(m) # Target(d)
        <5>1. CASE req[d].op = "publish"
          BY <1>0, <4>1, <4>2, <5>1 DEF AnswerIsTrue, Mounted, Top
        <5>2. CASE req[d].op # "publish"
          <6>1. \A m \in Running : Target(m) # Target(d)
            BY <1>0, <4>1, <4>2, <5>2 DEF AnswerIsTrue, Running
          <6>. QED
            BY <1>0, <2>b, <4>1, <4>2, <5>2, <6>1 DEF AnswerIsTrue, Mounted
        <5>. QED
          BY <5>1, <5>2
      <4>3. /\ <<c>> # <<>> /\ <<c>>[Len(<<c>>)] = c
        OBVIOUS
      <4>4. ASSUME pc'[c] = "release", result'[c] = "OK"
            PROVE  IF req[c].op = "publish"
                   THEN /\ layers'[t] # <<>>
                        /\ layers'[t][Len(layers'[t])] = c
                        /\ c \in live' \cap serving'
                        /\ mountContext'[t] = c
                        /\ t \in exists'
                   ELSE /\ layers'[t] = <<>> /\ t \notin exists'
                        /\ mountContext'[t] = None
                        /\ \A m \in Running' : Target(m) # t
        BY <2>7, <4>3, <4>4
      <4>5. \A m \in live' : m \in Running' \/ PublishFailed(m)'
        BY DEF Running
      <4>. QED
        BY <2>1, <2>2, <2>4, <4>2, <4>4, <4>5 DEF AnswerIsTrue, Mounted, Top
    <3>. QED
      BY <2>6, <3>1, <3>2, <3>3, <3>4, <3>5
  <2>8. CASE PrepareTargetDirectory(c)
    <3>1. /\ UNCHANGED <<live, layers, serving, mountContext>>
          /\ exists \subseteq exists' /\ pc'[c] # "forget"
          /\ pc'[c] = "release" => result'[c] # "OK"
      BY <2>4, <2>8 DEF PrepareTargetDirectory, Return, Goto, driver, vfs
    <3>. QED
      BY <1>0, <2>2, <2>7, <2>b, <3>1 DEF LayerAtTarget, MountedExists, Mounted, LiveServed
  <2>9. CASE Mount(c)
    <3>1. CASE pc'[c] = "ready"
      <4>1. /\ layers' = [layers EXCEPT ![t] = Append(@, c)] /\ layers[t] = <<>>
            /\ live' = live \cup {c} /\ serving' = serving \cup {c}
            /\ t \in exists /\ exists' = exists
        BY <2>4, <2>9, <3>1 DEF Mount, FailMount, Goto, Mounted
      <4>2. layers'[t] = <<c>>
        BY <2>2, <2>4, <4>1
      <4>. QED
        BY <1>0, <2>2, <2>7, <2>b, <3>1, <4>1, <4>2 DEF LiveServed
    <3>2. CASE pc'[c] # "ready"
      <4>1. /\ UNCHANGED <<layers, serving, exists>> /\ pc'[c] = "cleanup"
            /\ live' \in {live, live \cup {c}}
        BY <2>4, <2>9, <3>2 DEF Mount, FailMount, Goto
      <4>2. Running' \subseteq Running
        BY <2>b, <4>1 DEF Running, PublishFailed
      <4>. QED
        BY <1>0, <2>2, <2>7, <4>1, <4>2 DEF LayerAtTarget, MountedExists, Mounted, LiveServed
    <3>. QED
      BY <3>1, <3>2
  <2>10. CASE SetMountContext(c)
    <3>1. /\ UNCHANGED <<live, layers, serving, exists>>
          /\ mountContext'[t] = c
          /\ pc[c] = "store" /\ pc'[c] = "release"
      BY <2>2, <2>4, <2>10 DEF SetMountContext, Return, Goto, vfs, kernel
    <3>2. c \in live /\ layers[t] = <<c>> /\ req[c].op = "publish"
      <4>1. c \in Running
        BY <1>0, <3>1 DEF ReadyLive, Running, PublishFailed
      <4>. QED
        BY <1>0, <3>1, <4>1 DEF ReadyLive, LiveOnTop, OpOfStep, PublishSteps
    <3>3. <<c>> # <<>>
      OBVIOUS
    <3>4. c \in serving /\ Running' \subseteq Running
      BY <1>0, <2>b, <3>1 DEF LiveServed, ReadyLive, Running, PublishFailed
    <3>. QED
      BY <1>0, <2>2, <2>7, <3>1, <3>2, <3>3, <3>4 DEF LayerAtTarget, MountedExists, Mounted, LiveServed
  <2>11. CASE UnmountMountPoint(c)
    <3>1. /\ pc'[c] = "delete" /\ exists' = exists
          /\ \/ Mounted(t) /\ layers' = [layers EXCEPT ![t] = Pop(t)]
             \/ layers' = layers
      BY <2>4, <2>11 DEF UnmountMountPoint, Goto
    <3>2. \A m \in Running' : Target(m) # t
      BY <1>0, <2>2, <2>b, <3>1 DEF TrackInv, StoppedAfterUnmount
    <3>3. layers'[t] = <<>> \/ layers'[t] = layers[t]
      BY <1>0, <2>2, <2>4, <3>1, UnmountOne
    <3>. QED
      BY <1>0, <2>2, <2>7, <3>1, <3>2, <3>3 DEF LayerAtTarget, MountedExists, Mounted
  <2>12. CASE CleanupMountWithForce(c)
    <3>1. pc[c] = "force" /\ UNCHANGED live
      BY <2>12 DEF CleanupMountWithForce, vfs
    <3>2. \A m \in Running' : Target(m) # t
      BY <1>0, <2>b, <3>1 DEF StoppedAfterUnmount
    <3>3. \/ /\ layers'[t] = <<>> /\ t \notin exists' /\ pc'[c] = "forget"
          \/ /\ layers'[t] = <<>> /\ pc'[c] = "release" /\ result'[c] = "Internal"
          \/ /\ layers' = layers /\ exists' = exists
             /\ pc'[c] = "release" /\ result'[c] = "Internal"
      BY <1>0, <2>2, <2>4, <2>12, UnmountOne
      DEF CleanupMountWithForce, Return, Goto, kernel
    <3>. QED
      BY <1>0, <2>2, <2>7, <3>2, <3>3 DEF LayerAtTarget, MountedExists, Mounted
  <2>13. CASE DeleteMountContext(c)
    <3>1. /\ UNCHANGED <<live, layers, serving, exists>>
          /\ mountContext'[t] = None
          /\ pc[c] = "forget" /\ pc'[c] = "release"
      BY <2>2, <2>4, <2>13 DEF DeleteMountContext, Return, Goto, vfs, kernel
    <3>2. /\ layers[t] = <<>> /\ t \notin exists /\ req[c].op = "unpublish"
          /\ \A m \in Running : Target(m) # t
      BY <1>0, <3>1 DEF ForgetClean, Mounted, OpOfStep, UnpublishSteps, StoppedAfterUnmount
    <3>. QED
      BY <1>0, <2>2, <2>7, <2>b, <3>1, <3>2
  <2>14. CASE /\ ~PrepareTargetDirectory(c) /\ ~Mount(c) /\ ~SetMountContext(c)
              /\ ~UnmountMountPoint(c) /\ ~CleanupMountWithForce(c) /\ ~DeleteMountContext(c)
    <3>1. /\ UNCHANGED <<live, layers, serving, exists>>
          /\ pc'[c] # "forget"
          /\ pc'[c] = "release" => result'[c] # "OK"
      BY <1>0, <1>2, <2>14, StepInert DEF kernel
    <3>. QED
      BY <1>0, <2>2, <2>7, <2>b, <3>1 DEF LayerAtTarget, MountedExists, Mounted, LiveServed
  <2>. QED
    BY <2>8, <2>9, <2>10, <2>11, <2>12, <2>13, <2>14
<1>3. CASE Crash
  <2>1. /\ live' = {} /\ UNCHANGED <<req, layers, exists>>
        /\ \A d \in Calls : pc'[d] \in {"start", "done"}
    BY <1>3 DEF Crash
  <2>2. Running' = {}
    BY <2>1 DEF Running
  <2>. QED
    BY <1>0, <2>1, <2>2 DEF AnswerInv, OpOfStep, LayerAtTarget, MountedExists, LiveServed,
                      ForgetClean, AnswerIsTrue, Mounted, Target, PublishSteps, UnpublishSteps
<1>4. CASE UNCHANGED <<req, pc, result, live, layers, serving, exists, mountContext>>
  BY <1>0, <1>4 DEF AnswerInv, OpOfStep, LayerAtTarget, MountedExists, LiveServed, Running,
                    PublishFailed, ForgetClean, AnswerIsTrue, Mounted, Top, Target
<1>5. ASSUME NEW t \in Targets, AppWrite(t)
      PROVE  UNCHANGED <<req, pc, result, live, layers, serving, exists, mountContext>>
  BY <1>5 DEF AppWrite, locals, driver, kernel
<1>6. ASSUME NEW m \in Calls, Upload(m)
      PROVE  UNCHANGED <<req, pc, result, live, layers, serving, exists, mountContext>>
  BY <1>6 DEF Upload, locals, driver, kernel
<1>7. CASE UNCHANGED vars
  BY <1>4, <1>7 DEF vars, locals, driver, vfs, kernel
<1>. QED
  BY <1>0, <1>1, <1>2, <1>3, <1>4, <1>5, <1>6, <1>7 DEF Next, AnswerInv

(* Without allow-non-empty, an OK of either handler is true when it is     *)
(* returned: after a publish the call's own mount is on top of the target, *)
(* served and recorded; after an unpublish no directory, mount or context  *)
(* is left of the volume, and no VFS but those of failed publishes,        *)
(* whatever failed, was repeated or crashed before.                        *)
THEOREM Answers == ~AllowNonEmpty => (Spec => []AnswerIsTrue)
<1>. SUFFICES ASSUME ~AllowNonEmpty PROVE Spec => []AnswerIsTrue
  OBVIOUS
<1>1. AnswerInv /\ [Next]_vars => AnswerInv'
  BY AnswerStep
<1>2. AnswerInv => AnswerIsTrue
  BY DEF AnswerInv
<1>. QED
  BY AnswerInit, <1>1, <1>2, PTL DEF Spec

(* A step that ends a running mount is a crash or mountPoint.Unmount of an *)
(* unpublish of its target.                                                *)
LEMMA StopStep ==
  ASSUME AnswerInv, [Next]_vars
  PROVE  [StopsByUnpublish]_vars
<1>. USE ConstantsAssumption
<1>0. /\ TypeOK /\ ContextAtTarget /\ LookupFresh /\ OpOfStep
      /\ live \subseteq Calls /\ mountContext \in [Targets -> Calls \cup {None}]
      /\ \A c \in Calls : Target(c) \in Targets
  BY DEF AnswerInv, TrackInv, LockInv, TypeOK, Target
<1>1. ASSUME NEW c \in Calls, UnmountMountPoint(c)
      PROVE  StopsByUnpublish
  <2>1. live' = live \ {mc[c]} /\ pc[c] = "unmount"
    BY <1>1 DEF UnmountMountPoint
  <2>2. mc[c] = mountContext[Target(c)]
    BY <1>0, <2>1 DEF LookupFresh
  <2>3. mc[c] \in live => Target(mc[c]) = Target(c)
    BY <1>0, <2>2 DEF ContextAtTarget
  <2>4. req[c].op = "unpublish" /\ InFlight(c)
    BY <1>0, <2>1 DEF OpOfStep, InFlight, Holding, UnpublishSteps
  <2>. QED
    BY <2>1, <2>3, <2>4 DEF StopsByUnpublish
<1>2. ASSUME NEW c \in Calls, Step(c), ~UnmountMountPoint(c)
      PROVE  live \subseteq live'
  <2>1. CASE Mount(c) \/ PrepareTargetDirectory(c)
    BY <2>1 DEF Mount, PrepareTargetDirectory, vfs
  <2>2. CASE SetMountContext(c) \/ DeleteMountContext(c) \/ CleanupMountWithForce(c)
    BY <2>2 DEF SetMountContext, DeleteMountContext, CleanupMountWithForce, vfs
  <2>3. CASE /\ ~PrepareTargetDirectory(c) /\ ~Mount(c) /\ ~SetMountContext(c)
             /\ ~CleanupMountWithForce(c) /\ ~DeleteMountContext(c)
    BY <1>0, <1>2, <2>3, StepInert
  <2>. QED
    BY <2>1, <2>2, <2>3
<1>3. ASSUME NEW c \in Calls, Reject(c) \/ Abort(c) \/ TryAcquire(c)
      PROVE  live \subseteq live'
  BY <1>3 DEF Reject, Abort, TryAcquire, vfs
<1>4. CASE Crash
  BY <1>4 DEF Crash, StopsByUnpublish
<1>5. ASSUME NEW t \in Targets, AppWrite(t) PROVE live \subseteq live'
  BY <1>5 DEF AppWrite
<1>6. ASSUME NEW m \in Calls, Upload(m) PROVE live \subseteq live'
  BY <1>6 DEF Upload
<1>7. CASE live \subseteq live'
  BY <1>7 DEF StopsByUnpublish
<1>. QED
  BY <1>1, <1>2, <1>3, <1>4, <1>5, <1>6, <1>7 DEF Next

(* Without allow-non-empty, a running mount ends only by an unpublish of   *)
(* its own target that holds the lock and looked it up, or with the        *)
(* process: no publish, failed or repeated, takes it down.                 *)
THEOREM Stops == ~AllowNonEmpty => (Spec => OnlyUnpublishStops)
<1>. SUFFICES ASSUME ~AllowNonEmpty PROVE Spec => OnlyUnpublishStops
  OBVIOUS
<1>1. AnswerInv /\ [Next]_vars => AnswerInv'
  BY AnswerStep
<1>2. AnswerInv /\ [Next]_vars => [StopsByUnpublish]_vars
  BY StopStep
<1>. QED
  BY AnswerInit, <1>1, <1>2, PTL DEF Spec, OnlyUnpublishStops
-----------------------------------------------------------------------------
(* The refinement, from the same invariant.                                *)

LEMMA ServiceInit == Init => Service!Init
  BY ConstantsAssumption, BrokenAssumption
  DEF Init, Service!Init, PhaseOf, AnswerOf, Shown, Mounted

(* What a target shows depends on its kernel mount and on whether the VFS  *)
(* of that mount runs.                                                     *)
LEMMA ShownStays ==
  ASSUME LayerAtTarget, NEW t \in Targets, layers'[t] = layers[t], req' = req,
         \A m \in Calls : Target(m) = t /\ layers[t] = <<m>> => (m \in live' <=> m \in live)
  PROVE  Shown(t)' = Shown(t)
<1>1. CASE layers[t] = <<>>
  BY <1>1 DEF Shown, Mounted
<1>2. ASSUME NEW m \in Calls, layers[t] = <<m>>, Target(m) = t
      PROVE  Shown(t)' = Shown(t)
  <2>1. Top(t) = m /\ Top(t)' = m
    BY <1>2 DEF Top
  <2>. QED
    BY <1>2, <2>1 DEF Shown, Mounted
<1>. QED
  BY <1>1, <1>2 DEF LayerAtTarget

(* What a target shows after a step that leaves no mount of it running.    *)
LEMMA ShownStopped ==
  ASSUME LayerAtTarget', NEW t \in Targets,
         \A m \in live' : Target(m)' = t => layers'[t] # <<m>>
  PROVE  Shown(t)' = IF Mounted(t)' THEN Broken ELSE None
<1>1. CASE layers'[t] = <<>>
  BY <1>1 DEF Shown, Mounted
<1>2. ASSUME NEW m \in Calls, layers'[t] = <<m>>, Target(m)' = t
      PROVE  Shown(t)' = IF Mounted(t)' THEN Broken ELSE None
  <2>1. Top(t)' = m
    BY <1>2 DEF Top
  <2>. QED
    BY <1>2, <2>1 DEF Shown, Mounted
<1>. QED
  BY <1>1, <1>2 DEF LayerAtTarget

LEMMA ServiceStep ==
  ASSUME ~AllowNonEmpty, AnswerInv, AnswerInv', [Next]_vars
  PROVE  [Service!Next]_Service!vars
<1>. USE ConstantsAssumption, BrokenAssumption
<1>. DEFINE Ph == [c \in Calls |-> PhaseOf(c)]
            An == [c \in Calls |-> AnswerOf(c)]
            Vo == [t \in Targets |-> Shown(t)]
<1>0. /\ TypeOK /\ LockOwned /\ ReadyMounted /\ NoNilDaemon
      /\ ContextAtTarget /\ LiveOnTop /\ LookupFresh /\ StoppedAfterUnmount
      /\ OpOfStep /\ LayerAtTarget /\ AnswerIsTrue
      /\ StoppedAfterUnmount' /\ LayerAtTarget' /\ LeftIsOff' /\ NotYetUp
      /\ \A c \in Calls : Target(c) \in Targets
      /\ pc \in [Calls -> Holding \cup {"start", "done", "panicked"}]
      /\ result \in [Calls -> Codes] /\ layers \in [Targets -> Seq(Calls)]
      /\ live \subseteq Calls
  BY DEF AnswerInv, TrackInv, LockInv, TypeOK, Target
<1>1. \A c \in Calls : Ph[c] = "working" <=> InFlight(c)
  BY <1>0 DEF PhaseOf, InFlight, NoNilDaemon, Holding, PublishSteps, UnpublishSteps
<1>2. ASSUME NEW c \in Calls, Reject(c) \/ Abort(c)
      PROVE  Service!Refuse(c)
  <2>1. /\ req' = req /\ pc[c] = "start" /\ pc' = [pc EXCEPT ![c] = "done"]
        /\ layers' = layers /\ live' = live
        /\ \/ result' = [result EXCEPT ![c] = "InvalidArgument"]
           \/ LockKey(c) \in locks /\ result' = [result EXCEPT ![c] = "Aborted"]
    BY <1>2 DEF Reject, Abort, Goto, vfs, kernel
  <2>2. Vo' = Vo
    BY <1>0, <2>1, ShownStays DEF Target
  <2>3. Ph' = [Ph EXCEPT ![c] = "answered"] /\ Ph[c] = "waiting"
    BY <1>0, <2>1 DEF PhaseOf
  <2>4. An' = [An EXCEPT ![c] = result'[c]]
    BY <1>0, <2>1 DEF AnswerOf
  <2>5. ASSUME LockKey(c) \in locks
        PROVE  \E d \in Calls : Ph[d] = "working" /\ req[d].target = req[c].target
    BY <1>0, <1>1, <2>5 DEF LockOwned, LockKey, Target
  <2>6. result'[c] = "InvalidArgument" \/ (result'[c] = "Aborted" /\ LockKey(c) \in locks)
    BY <1>0, <2>1
  <2>. QED
    BY <2>1, <2>2, <2>3, <2>4, <2>5, <2>6 DEF Service!Refuse, Service!At
<1>3. ASSUME NEW c \in Calls, TryAcquire(c)
      PROVE  Service!Begin(c)
  <2>1. /\ req' = req /\ pc[c] = "start" /\ LockKey(c) \notin locks
        /\ \E l \in {"params", "lookup"} : pc' = [pc EXCEPT ![c] = l]
        /\ layers' = layers /\ live' = live /\ result' = result
    BY <1>3 DEF TryAcquire, Goto, vfs, kernel
  <2>2. Vo' = Vo
    BY <1>0, <2>1, ShownStays DEF Target
  <2>3. Ph' = [Ph EXCEPT ![c] = "working"] /\ Ph[c] = "waiting"
    BY <1>0, <2>1 DEF PhaseOf
  <2>4. An' = An
    BY <1>0, <2>1 DEF AnswerOf
  <2>5. \A d \in Calls : Ph[d] = "working" => req[d].target # req[c].target
    BY <1>0, <1>1, <2>1 DEF LockOwned, LockKey, Target, Volume
  <2>. QED
    BY <2>1, <2>2, <2>3, <2>4, <2>5 DEF Service!Begin, Service!At
<1>4. ASSUME NEW c \in Calls, Step(c), ~Release(c)
      PROVE  /\ req' = req /\ Ph' = Ph /\ An' = An /\ Ph[c] = "working"
             /\ \A t \in Targets \ {Target(c)} : Vo'[t] = Vo[t]
  <2>1. /\ req' = req /\ pc[c] \in Holding /\ pc'[c] \in Holding
        /\ \A d \in Calls \ {c} : pc'[d] = pc[d] /\ result'[d] = result[d]
        /\ \A t \in Targets \ {Target(c)} : layers'[t] = layers[t]
        /\ \A m \in Calls : Target(m) # Target(c) => (m \in live' <=> m \in live)
    BY <1>0, <1>4, StepLocal, StepLock, StepElsewhere
  <2>2. Ph' = Ph /\ An' = An
    <3>1. \A d \in Calls : PhaseOf(d)' = PhaseOf(d) /\ AnswerOf(d)' = AnswerOf(d)
      BY <2>1 DEF PhaseOf, AnswerOf, Holding, PublishSteps, UnpublishSteps
    <3>. QED
      BY <3>1
  <2>3. \A t \in Targets \ {Target(c)} : Shown(t)' = Shown(t)
    BY <1>0, <2>1, ShownStays
  <2>. QED
    BY <1>1, <2>1, <2>2, <2>3 DEF InFlight
<1>5. ASSUME NEW c \in Calls, Step(c), ~Release(c),
             NEW t \in Targets, t = Target(c), Shown(t)' = Shown(t)
      PROVE  UNCHANGED Service!vars
  <2>1. Vo' = Vo
    BY <1>4, <1>5
  <2>. QED
    BY <1>4, <1>5, <2>1 DEF Service!vars
<1>6. ASSUME NEW c \in Calls, Mount(c)
      PROVE  Service!BringUp(c) \/ UNCHANGED Service!vars
  <2>a. PICK t \in Targets : t = Target(c)
    BY <1>0
  <2>0. Step(c) /\ ~Release(c) /\ req' = req
    BY <1>0, <2>a, <1>6 DEF Step, PublishStep, Mount, Release
  <2>1. CASE layers' = layers
    <3>1. layers[t] # <<c>> /\ live' \in {live, live \cup {c}}
      BY <1>0, <2>a, <1>6 DEF NotYetUp, BeforeMount, Mount
    <3>2. \A m \in Calls : Target(m) = t /\ layers[t] = <<m>> => (m \in live' <=> m \in live)
      BY <3>1
    <3>. QED
      BY <1>0, <2>a, <1>5, <2>0, <2>1, <3>2, ShownStays
  <2>2. CASE layers' # layers
    <3>1. /\ ~Mounted(t) /\ pc[c] = "mount" /\ live' = live \cup {c}
          /\ layers' = [layers EXCEPT ![t] = Append(layers[t], c)]
      BY <2>a, <1>6, <2>2 DEF Mount
    <3>2. layers[t] = <<>> /\ layers'[t] = <<c>>
      BY <1>0, <2>a, <2>0, <3>1 DEF Mounted
    <3>3. Shown(t) = None /\ Shown(t)' = c
      <4>1. Top(t)' = c
        BY <3>2 DEF Top
      <4>2. c \in live'
        BY <3>1
      <4>3. Mounted(t)'
        BY <3>2 DEF Mounted
      <4>. QED
        BY <3>1, <4>1, <4>2, <4>3 DEF Shown
    <3>4. Vo' = [Vo EXCEPT ![t] = c] /\ Vo[t] = None
      BY <2>a, <1>4, <2>0, <3>3
    <3>5. req[c].op = "publish"
      BY <1>0, <2>a, <3>1 DEF OpOfStep, PublishSteps
    <3>. QED
      BY <2>a, <1>4, <2>0, <3>4, <3>5 DEF Service!BringUp, Service!At, Target
  <2>. QED
    BY <2>a, <2>1, <2>2
<1>7. ASSUME NEW c \in Calls, Step(c), ~Release(c), pc[c] \in {"unmount", "force"},
             NEW t \in Targets, t = Target(c), Shown(t)' \in {None, Broken},
             Shown(t) = None => Shown(t)' = None
      PROVE  Service!TakeDown(c) \/ UNCHANGED Service!vars
  <2>1. CASE Shown(t) = None
    BY <1>5, <1>7, <2>1
  <2>2. CASE Shown(t) # None
    <3>1. Vo' = [Vo EXCEPT ![t] = Shown(t)'] /\ Vo[t] # None
      BY <1>0, <1>4, <1>7, <2>2
    <3>2. req[c].op = "unpublish"
      BY <1>0, <1>7 DEF OpOfStep, UnpublishSteps
    <3>. QED
      BY <1>4, <1>7, <3>1, <3>2 DEF Service!TakeDown, Service!At, Target
  <2>. QED
    BY <2>1, <2>2
<1>8. ASSUME NEW c \in Calls, UnmountMountPoint(c) \/ CleanupMountWithForce(c)
      PROVE  Service!TakeDown(c) \/ UNCHANGED Service!vars
  <2>a. PICK t \in Targets : t = Target(c)
    BY <1>0
  <2>0. /\ Step(c) /\ ~Release(c) /\ req' = req /\ Target(c)' = t
        /\ pc[c] \in {"unmount", "force"}
    BY <1>0, <2>a, <1>8 DEF Step, UnpublishStep, UnmountMountPoint, CleanupMountWithForce,
                      Release, Target
  <2>b. \A m \in Running' : Target(m)' # t
    <3>1. CASE UnmountMountPoint(c)
      <4>1. pc'[c] = "delete"
        BY <1>0, <2>a, <3>1 DEF UnmountMountPoint, Goto
      <4>. QED
        BY <1>0, <2>a, <2>0, <4>1 DEF StoppedAfterUnmount
    <3>2. CASE CleanupMountWithForce(c)
      <4>1. /\ pc[c] = "force" /\ UNCHANGED live /\ TypeOK
            /\ Running' \subseteq Running \cup (live' \ live) /\ Running' \subseteq live'
        BY <1>0, <2>0, <3>2, StepFailed DEF CleanupMountWithForce, vfs, Running
      <4>2. \A m \in Running' : m \in Running /\ Target(m)' = Target(m)
        BY <2>0, <4>1 DEF Target
      <4>. QED
        BY <1>0, <2>a, <4>1, <4>2 DEF StoppedAfterUnmount
    <3>. QED
      BY <2>a, <1>8, <3>1, <3>2
  <2>1. \A m \in live' : Target(m)' = t => layers'[t] # <<m>>
    BY <1>0, <2>b DEF LeftIsOff, Running
  <2>2. Shown(t)' = IF Mounted(t)' THEN Broken ELSE None
    BY <1>0, <2>a, <2>0, <2>1, ShownStopped
  <2>3. ~Mounted(t) => ~Mounted(t)'
    BY <1>0, <2>a, <1>8, <2>0 DEF UnmountMountPoint, CleanupMountWithForce, Mounted, kernel
  <2>4. Shown(t) = None => Shown(t)' = None
    BY <1>0, <2>a, <2>0, <2>2, <2>3 DEF Shown, LayerAtTarget, Top
  <2>. QED
    BY <2>a, <1>7, <2>0, <2>2, <2>4
<1>9. ASSUME NEW c \in Calls, Step(c), ~Release(c), ~Mount(c),
             ~UnmountMountPoint(c), ~CleanupMountWithForce(c)
      PROVE  UNCHANGED Service!vars
  <2>1. req' = req /\ layers' = layers /\ live' = live
    <3>1. CASE PrepareTargetDirectory(c) \/ SetMountContext(c) \/ DeleteMountContext(c)
      BY <3>1 DEF PrepareTargetDirectory, SetMountContext, DeleteMountContext, vfs, kernel
    <3>2. CASE ~(PrepareTargetDirectory(c) \/ SetMountContext(c) \/ DeleteMountContext(c))
      BY <1>0, <1>9, <3>2, StepInert, StepLocal DEF kernel
    <3>. QED
      BY <3>1, <3>2
  <2>2. PICK t \in Targets : t = Target(c)
    BY <1>0
  <2>3. Shown(t)' = Shown(t)
    BY <1>0, <2>1, ShownStays
  <2>. QED
    BY <1>5, <1>9, <2>2, <2>3
<1>10. ASSUME NEW c \in Calls, Release(c)
       PROVE  Service!Answer(c)
  <2>1. /\ req' = req /\ pc[c] = "release" /\ pc' = [pc EXCEPT ![c] = "done"]
        /\ layers' = layers /\ live' = live /\ result' = result
    BY <1>10 DEF Release, Goto, vfs, kernel
  <2>2. Vo' = Vo
    BY <1>0, <2>1, ShownStays DEF Target
  <2>3. Ph' = [Ph EXCEPT ![c] = "answered"] /\ Ph[c] = "working"
    BY <1>0, <2>1 DEF PhaseOf
  <2>4. An' = [An EXCEPT ![c] = result[c]] /\ result[c] \in Codes
    BY <1>0, <2>1 DEF AnswerOf
  <2>5. ASSUME result[c] = "OK"
        PROVE  Vo[Target(c)] = IF req[c].op = "publish" THEN c ELSE None
    BY <1>0, <2>1, <2>5 DEF AnswerIsTrue, Shown
  <2>. QED
    BY <2>1, <2>2, <2>3, <2>4, <2>5 DEF Service!Answer, Service!At, Service!Promised, Target
<1>11. ASSUME Crash PROVE Service!Restart
  <2>1. /\ req' = req /\ layers' = layers /\ live' = {}
        /\ pc' = [c \in Calls |-> IF pc[c] = "start" THEN "start" ELSE "done"]
        /\ result' = [c \in Calls |-> IF pc[c] \in {"start", "done"}
                                      THEN result[c] ELSE "lost"]
    BY <1>11 DEF Crash
  <2>2. \A t \in Targets : Shown(t)' = IF Shown(t) = None THEN None ELSE Broken
    BY <1>0, <2>1 DEF Shown, Mounted, Top, LayerAtTarget
  <2>3. Vo' = [t \in Targets |-> IF Vo[t] = None THEN None ELSE Broken]
    BY <2>2
  <2>4. Ph' = [c \in Calls |-> IF Ph[c] = "working" THEN "answered" ELSE Ph[c]]
    BY <2>1 DEF PhaseOf
  <2>5. An' = [c \in Calls |-> IF Ph[c] = "working" THEN "lost" ELSE An[c]]
    BY <2>1 DEF PhaseOf, AnswerOf
  <2>. QED
    BY <2>1, <2>3, <2>4, <2>5 DEF Service!Restart
<1>12. CASE UNCHANGED <<req, pc, result, live, layers>>
  <2>1. Vo' = Vo /\ Ph' = Ph /\ An' = An
    BY <1>12 DEF Shown, Mounted, Top, PhaseOf, AnswerOf
  <2>. QED
    BY <1>12, <2>1 DEF Service!vars
<1>13. CASE (\E t \in Targets : AppWrite(t)) \/ (\E m \in Calls : Upload(m)) \/ UNCHANGED vars
  BY <1>12, <1>13 DEF AppWrite, Upload, vars, locals, vfs, kernel
<1>. QED
  BY <1>2, <1>3, <1>6, <1>8, <1>9, <1>10, <1>11, <1>13 DEF Next, Service!Next

(* Unless mounts may be stacked, NodePublishVolume and NodeUnpublishVolume *)
(* implement the abstract service: calls on a target take turns, an OK is  *)
(* true when given, and only an unpublish or a crash takes a volume down.  *)
THEOREM Implements == ~AllowNonEmpty => (Spec => ImplementsService)
<1>. SUFFICES ASSUME ~AllowNonEmpty PROVE Spec => ImplementsService
  OBVIOUS
<1>1. AnswerInv /\ [Next]_vars => AnswerInv'
  BY AnswerStep
<1>2. AnswerInv /\ AnswerInv' /\ [Next]_vars => [Service!Next]_Service!vars
  BY ServiceStep
<1>. QED
  BY AnswerInit, ServiceInit, <1>1, <1>2, PTL DEF Spec, ImplementsService, Service!Spec
=============================================================================
