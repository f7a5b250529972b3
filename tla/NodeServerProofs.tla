-------------------------- MODULE NodeServerProofs --------------------------
(***************************************************************************)
(* Proofs about NodeServer, for every set of calls, targets, volumes and   *)
(* config sections.                                                        *)
(***************************************************************************)
EXTENDS NodeServer, SequenceTheorems, TLAPS

(* Every variable keeps its kind in every reachable state.                 *)
LEMMA TypeInit == Init => TypeOK
  BY ConstantsAssumption DEF Init, TypeOK, Codes, Holding

(* The stack of kernel mounts stays a sequence of mounts when its top is   *)
(* taken off.                                                              *)
LEMMA PopType ==
  ASSUME TypeOK, NEW t \in Targets, Mounted(t)
  PROVE  Pop(t) \in Seq(Calls)
<1>1. layers[t] \in Seq(Calls) /\ layers[t] # <<>>
  BY DEF TypeOK, Mounted
<1>2. Len(layers[t]) \in Nat /\ Len(layers[t]) # 0
  BY <1>1, EmptySeq
<1>3. 1 \in 1 .. Len(layers[t]) + 1 /\ Len(layers[t]) - 1 \in 0 .. Len(layers[t])
  BY <1>2
<1>. QED
  BY <1>1, <1>2, <1>3, SubSeqProperties DEF Pop

LEMMA TypeStep == TypeOK /\ [Next]_vars => TypeOK'
<1>. SUFFICES ASSUME TypeOK, [Next]_vars PROVE TypeOK'
  OBVIOUS
<1>. USE ConstantsAssumption DEF Goto, Return, driver, vfs, kernel, locals
<1>1. ASSUME NEW c \in Calls, Reject(c) PROVE TypeOK'
  BY <1>1 DEF Reject, TypeOK, Codes, Holding
<1>2. ASSUME NEW c \in Calls, Abort(c) PROVE TypeOK'
  BY <1>2 DEF Abort, TypeOK, Codes, Holding
<1>3. ASSUME NEW c \in Calls, TryAcquire(c) PROVE TypeOK'
  BY <1>3 DEF TryAcquire, TypeOK, Holding, PublishSteps, UnpublishSteps,
              LockKey, Volume, Target
<1>4. ASSUME NEW c \in Calls, Release(c) PROVE TypeOK'
  BY <1>4 DEF Release, TypeOK, Holding
<1>5. ASSUME NEW c \in Calls, ExtractParams(c) PROVE TypeOK'
  <2>1. /\ pc' \in [Calls -> Holding \cup {"start", "done", "panicked"}]
        /\ result' \in [Calls -> Codes]
    <3>1. CASE Goto(c, "prepare") /\ UNCHANGED result
      BY <3>1 DEF TypeOK, Holding, PublishSteps
    <3>2. CASE Return(c, "InvalidArgument")
      BY <3>2 DEF TypeOK, Codes, Holding
    <3>. QED
      BY <1>5, <3>1, <3>2 DEF ExtractParams
  <2>. QED
    BY <1>5, <2>1 DEF ExtractParams, TypeOK
<1>6. ASSUME NEW c \in Calls, PrepareTargetDirectory(c) PROVE TypeOK'
  <2>1. /\ pc' \in [Calls -> Holding \cup {"start", "done", "panicked"}]
        /\ result' \in [Calls -> Codes]
        /\ exists' \subseteq Targets
    <3>1. CASE /\ exists' = exists \cup {Target(c)}
               /\ Goto(c, "load") /\ UNCHANGED result
      BY <3>1 DEF TypeOK, Holding, PublishSteps, Target
    <3>2. CASE Return(c, "Internal") /\ UNCHANGED exists
      BY <3>2 DEF TypeOK, Codes, Holding
    <3>. QED
      BY <1>6, <3>1, <3>2 DEF PrepareTargetDirectory
  <2>2. TargetState(Target(c)) \in {"absent", "directory", "mounted", "dead"}
    BY DEF TargetState
  <2>3. found' \in [Calls -> {"none", "absent", "directory", "mounted", "dead"}]
    BY <1>6, <2>2 DEF PrepareTargetDirectory, TypeOK
  <2>. QED
    BY <1>6, <2>1, <2>3 DEF PrepareTargetDirectory, TypeOK
<1>7. ASSUME NEW c \in Calls, ConfigInvalid(c) PROVE TypeOK'
  BY <1>7 DEF ConfigInvalid, TypeOK, Codes, Holding
<1>8. ASSUME NEW c \in Calls, LoadBegin(c) PROVE TypeOK'
  BY <1>8 DEF LoadBegin, TypeOK, Holding, PublishSteps, Volume, Target
<1>9. ASSUME NEW c \in Calls, LoadRemote(c) PROVE TypeOK'
  BY <1>9 DEF LoadRemote, TypeOK
<1>10. ASSUME NEW c \in Calls, UpdateRemoteFails(c) PROVE TypeOK'
  BY <1>10 DEF UpdateRemoteFails, TypeOK, Codes, Holding
<1>11. ASSUME NEW c \in Calls, LoadEnd(c) PROVE TypeOK'
  BY <1>11 DEF LoadEnd, TypeOK, Holding, PublishSteps
<1>12. ASSUME NEW c \in Calls, NewFs(c) PROVE TypeOK'
  <2>2. opened' \subseteq Calls
    BY <1>12 DEF NewFs, TypeOK
  <2>3. pc' \in [Calls -> Holding \cup {"start", "done", "panicked"}]
    <3>1. CASE Goto(c, "mount")
      BY <3>1 DEF TypeOK, Holding, PublishSteps
    <3>2. CASE Goto(c, "cleanup")
      BY <3>2 DEF TypeOK, Holding, PublishSteps
    <3>. QED
      BY <1>12, <3>1, <3>2 DEF NewFs, FailMount
  <2>. QED
    BY <1>12, <2>2, <2>3 DEF NewFs, TypeOK
<1>13. ASSUME NEW c \in Calls, Mount(c) PROVE TypeOK'
  <2>1. layers' \in [Targets -> Seq(Calls)]
    <3>1. layers[Target(c)] \in Seq(Calls) /\ Target(c) \in Targets
      BY DEF TypeOK, Target
    <3>2. Append(layers[Target(c)], c) \in Seq(Calls)
      BY <3>1
    <3>. QED
      <4>1. CASE layers' = [layers EXCEPT ![Target(c)] = Append(@, c)]
        BY <3>1, <3>2, <4>1 DEF TypeOK
      <4>2. CASE UNCHANGED layers
        BY <4>2 DEF TypeOK
      <4>. QED
        BY <1>13, <4>1, <4>2 DEF Mount
  <2>2. /\ pc' \in [Calls -> Holding \cup {"start", "done", "panicked"}]
        /\ live' \subseteq Calls /\ serving' \subseteq Calls
    <3>1. CASE /\ serving' = serving \cup {c} /\ live' = live \cup {c}
               /\ Goto(c, "ready")
      BY <3>1 DEF TypeOK, Holding, PublishSteps
    <3>2. CASE Goto(c, "cleanup") /\ UNCHANGED serving /\ live' \in {live, live \cup {c}}
      BY <3>2 DEF TypeOK, Holding, PublishSteps
    <3>. QED
      BY <1>13, <3>1, <3>2 DEF Mount, FailMount
  <2>. QED
    BY <1>13, <2>1, <2>2 DEF Mount, TypeOK
<1>14. ASSUME NEW c \in Calls, WaitMountReady(c) PROVE TypeOK'
  BY <1>14 DEF WaitMountReady, TypeOK, Holding, PublishSteps
<1>15. ASSUME NEW c \in Calls, SetMountContext(c) PROVE TypeOK'
  BY <1>15 DEF SetMountContext, TypeOK, Codes, Holding, Target
<1>16. ASSUME NEW c \in Calls, CleanupConfigRemotes(c) PROVE TypeOK'
  BY <1>16 DEF CleanupConfigRemotes, DeleteSections, TypeOK, Codes, Holding
<1>17. ASSUME NEW c \in Calls, GetMountContext(c) PROVE TypeOK'
  BY <1>17 DEF GetMountContext, TypeOK, Holding, UnpublishSteps, Target
<1>18. ASSUME NEW c \in Calls, SyncPoll(c) PROVE TypeOK'
  <2>1. pc' \in [Calls -> Holding \cup {"start", "done", "panicked"}]
    <3>1. CASE Goto(c, "unmount")
      BY <3>1 DEF TypeOK, Holding, UnpublishSteps
    <3>2. CASE UNCHANGED pc
      BY <3>2 DEF TypeOK
    <3>. QED
      BY <1>18, <3>1, <3>2 DEF SyncPoll
  <2>2. retry' \in [Calls -> 0 .. MaxRetries]
    <3>1. CASE retry[c] < MaxRetries /\ retry' = [retry EXCEPT ![c] = @ + 1]
      BY <3>1 DEF TypeOK
    <3>2. CASE UNCHANGED retry
      BY <3>2 DEF TypeOK
    <3>. QED
      BY <1>18, <3>1, <3>2 DEF SyncPoll
  <2>. QED
    BY <1>18, <2>1, <2>2 DEF SyncPoll, TypeOK
<1>19. ASSUME NEW c \in Calls, UnmountMountPoint(c) PROVE TypeOK'
  <2>1. layers' \in [Targets -> Seq(Calls)]
    <3>1. Target(c) \in Targets
      BY DEF TypeOK, Target
    <3>2. Mounted(Target(c)) => Pop(Target(c)) \in Seq(Calls)
      BY <3>1, PopType
    <3>. QED
      <4>1. CASE Mounted(Target(c)) /\ layers' = [layers EXCEPT ![Target(c)] = Pop(Target(c))]
        BY <3>1, <3>2, <4>1 DEF TypeOK
      <4>2. CASE UNCHANGED layers
        BY <4>2 DEF TypeOK
      <4>. QED
        BY <1>19, <4>1, <4>2 DEF UnmountMountPoint
  <2>2. /\ pc' \in [Calls -> Holding \cup {"start", "done", "panicked"}]
        /\ live' \subseteq Calls /\ serving' \subseteq Calls
    BY <1>19 DEF UnmountMountPoint, Unserve, TypeOK, Holding, UnpublishSteps
  <2>. QED
    BY <1>19, <2>1, <2>2 DEF UnmountMountPoint, TypeOK
<1>20. ASSUME NEW c \in Calls, DeleteRemotes(c) PROVE TypeOK'
  BY <1>20 DEF DeleteRemotes, DeleteSections, TypeOK, Holding, UnpublishSteps
<1>21. ASSUME NEW c \in Calls, CleanupMountWithForce(c) PROVE TypeOK'
  <2>1. layers' \in [Targets -> Seq(Calls)]
    <3>1. Target(c) \in Targets
      BY DEF TypeOK, Target
    <3>2. Mounted(Target(c)) => Pop(Target(c)) \in Seq(Calls)
      BY <3>1, PopType
    <3>. QED
      <4>1. CASE layers' = [layers EXCEPT ![Target(c)] = <<>>]
        BY <3>1, <4>1 DEF TypeOK
      <4>2. CASE Mounted(Target(c)) /\ layers' = [layers EXCEPT ![Target(c)] = Pop(Target(c))]
        BY <3>1, <3>2, <4>2 DEF TypeOK
      <4>3. CASE UNCHANGED layers
        BY <4>3 DEF TypeOK
      <4>. QED
        BY <1>21, <4>1, <4>2, <4>3 DEF CleanupMountWithForce
  <2>2. /\ pc' \in [Calls -> Holding \cup {"start", "done", "panicked"}]
        /\ result' \in [Calls -> Codes]
        /\ exists' \subseteq Targets /\ serving' \subseteq Calls
    <3>1. CASE /\ exists' = exists \ {Target(c)} /\ serving' = Unserve(Target(c))
               /\ Goto(c, "forget") /\ UNCHANGED result
      BY <3>1 DEF Unserve, TypeOK, Holding, UnpublishSteps
    <3>2. CASE /\ serving' = Unserve(Target(c)) /\ Return(c, "Internal")
               /\ UNCHANGED exists
      BY <3>2 DEF Unserve, TypeOK, Codes, Holding
    <3>3. CASE Return(c, "Internal") /\ UNCHANGED <<exists, serving>>
      BY <3>3 DEF TypeOK, Codes, Holding
    <3>. QED
      BY <1>21, <3>1, <3>2, <3>3 DEF CleanupMountWithForce
  <2>. QED
    BY <1>21, <2>1, <2>2 DEF CleanupMountWithForce, TypeOK
<1>22. ASSUME NEW c \in Calls, DeleteMountContext(c) PROVE TypeOK'
  BY <1>22 DEF DeleteMountContext, TypeOK, Codes, Holding, Target
<1>23. ASSUME NEW t \in Targets, AppWrite(t) PROVE TypeOK'
  <2>1. Top(t) \in Calls
    BY <1>23 DEF AppWrite, TypeOK
  <2>. QED
    BY <1>23, <2>1 DEF AppWrite, TypeOK
<1>24. ASSUME NEW m \in Calls, Upload(m) PROVE TypeOK'
  BY <1>24 DEF Upload, TypeOK
<1>25. CASE Crash
  BY <1>25 DEF Crash, TypeOK, Codes, Holding
<1>26. CASE UNCHANGED vars
  BY <1>26 DEF vars, TypeOK
<1>. QED
  BY <1>1, <1>2, <1>3, <1>4, <1>5, <1>6, <1>7, <1>8, <1>9, <1>10, <1>11, <1>12,
     <1>13, <1>14, <1>15, <1>16, <1>17, <1>18, <1>19, <1>20, <1>21, <1>22,
     <1>23, <1>24, <1>25, <1>26
  DEF Next, Step, PublishStep, UnpublishStep

(* Type correctness of the node server.                                    *)
THEOREM TypeCorrect == Spec => []TypeOK
  BY TypeInit, TypeStep, PTL DEF Spec
-----------------------------------------------------------------------------
(* What a step of a call between TryAcquire and done can touch: its own    *)
(* locals and its own target.                                              *)
LEMMA StepLocal ==
  ASSUME TypeOK, NEW c \in Calls, Step(c)
  PROVE  /\ req' = req
         /\ pc[c] \in Holding
         /\ \A d \in Calls \ {c} : pc'[d] = pc[d] /\ mc'[d] = mc[d] /\ result'[d] = result[d]
         /\ \A t \in Targets \ {Target(c)} :
               layers'[t] = layers[t] /\ mountContext'[t] = mountContext[t]
<1>. USE DEF Goto, Return, driver, vfs, kernel
<1>0. /\ pc \in [Calls -> Holding \cup {"start", "done", "panicked"}]
      /\ mc \in [Calls -> Calls \cup {None}]
      /\ result \in [Calls -> Codes]
      /\ layers \in [Targets -> Seq(Calls)]
      /\ mountContext \in [Targets -> Calls \cup {None}]
      /\ Target(c) \in Targets
  BY DEF TypeOK, Target
<1>1. CASE ExtractParams(c)
  BY <1>0, <1>1 DEF ExtractParams, Holding, PublishSteps
<1>2. CASE PrepareTargetDirectory(c)
  BY <1>0, <1>2 DEF PrepareTargetDirectory, Holding, PublishSteps
<1>3. CASE ConfigInvalid(c)
  BY <1>0, <1>3 DEF ConfigInvalid, Holding, PublishSteps
<1>4. CASE LoadBegin(c)
  BY <1>0, <1>4 DEF LoadBegin, Holding, PublishSteps
<1>5. CASE LoadRemote(c)
  BY <1>0, <1>5 DEF LoadRemote, Holding, PublishSteps
<1>6. CASE UpdateRemoteFails(c)
  BY <1>0, <1>6 DEF UpdateRemoteFails, Holding, PublishSteps
<1>7. CASE LoadEnd(c)
  BY <1>0, <1>7 DEF LoadEnd, Holding, PublishSteps
<1>8. CASE NewFs(c)
  BY <1>0, <1>8 DEF NewFs, FailMount, Holding, PublishSteps
<1>9. CASE Mount(c)
  BY <1>0, <1>9 DEF Mount, FailMount, Holding, PublishSteps
<1>10. CASE WaitMountReady(c)
  BY <1>0, <1>10 DEF WaitMountReady, Holding, PublishSteps
<1>11. CASE SetMountContext(c)
  BY <1>0, <1>11 DEF SetMountContext, Holding, PublishSteps
<1>12. CASE CleanupConfigRemotes(c)
  BY <1>0, <1>12 DEF CleanupConfigRemotes, Holding, PublishSteps
<1>13. CASE GetMountContext(c)
  BY <1>0, <1>13 DEF GetMountContext, Holding, UnpublishSteps
<1>14. CASE SyncPoll(c)
  BY <1>0, <1>14 DEF SyncPoll, Holding, UnpublishSteps
<1>15. CASE UnmountMountPoint(c)
  BY <1>0, <1>15 DEF UnmountMountPoint, Holding, UnpublishSteps
<1>16. CASE DeleteRemotes(c)
  BY <1>0, <1>16 DEF DeleteRemotes, Holding, UnpublishSteps
<1>17. CASE CleanupMountWithForce(c)
  BY <1>0, <1>17 DEF CleanupMountWithForce, Holding, UnpublishSteps
<1>18. CASE DeleteMountContext(c)
  BY <1>0, <1>18 DEF DeleteMountContext, Holding, UnpublishSteps
<1>19. CASE Release(c)
  BY <1>0, <1>19 DEF Release, Holding
<1>. QED
  BY <1>1, <1>2, <1>3, <1>4, <1>5, <1>6, <1>7, <1>8, <1>9, <1>10, <1>11, <1>12,
     <1>13, <1>14, <1>15, <1>16, <1>17, <1>18, <1>19
  DEF Step, PublishStep, UnpublishStep

(* Between Mount and the store of the context, the target is mounted.      *)
ReadyMounted == \A c \in Calls : pc[c] \in {"ready", "store"} => Mounted(Target(c))

(* The inductive invariant for the operation locks. Mutual exclusion needs *)
(* ReadyMounted, since a panic would leave its lock without an owner, and  *)
(* ReadyMounted needs mutual exclusion, since nobody else may unmount.     *)
LockInv == TypeOK /\ LockOwned /\ ReadyMounted /\ NoNilDaemon

(* Only Release gives the lock up; every other step keeps it.              *)
LEMMA StepLock ==
  ASSUME TypeOK, ReadyMounted, NEW c \in Calls, Step(c), ~Release(c)
  PROVE  locks' = locks /\ pc'[c] \in Holding
<1>. USE DEF Goto, Return, driver, Holding, PublishSteps, UnpublishSteps
<1>0. pc \in [Calls -> Holding \cup {"start", "done", "panicked"}]
  BY DEF TypeOK
<1>1. CASE ExtractParams(c)
  BY <1>0, <1>1 DEF ExtractParams
<1>2. CASE PrepareTargetDirectory(c)
  BY <1>0, <1>2 DEF PrepareTargetDirectory
<1>3. CASE ConfigInvalid(c)
  BY <1>0, <1>3 DEF ConfigInvalid
<1>4. CASE LoadBegin(c)
  BY <1>0, <1>4 DEF LoadBegin
<1>5. CASE LoadRemote(c)
  BY <1>0, <1>5 DEF LoadRemote
<1>6. CASE UpdateRemoteFails(c)
  BY <1>0, <1>6 DEF UpdateRemoteFails
<1>7. CASE LoadEnd(c)
  BY <1>0, <1>7 DEF LoadEnd
<1>8. CASE NewFs(c)
  BY <1>0, <1>8 DEF NewFs, FailMount
<1>9. CASE Mount(c)
  BY <1>0, <1>9 DEF Mount, FailMount
<1>10. CASE WaitMountReady(c)
  BY <1>0, <1>10 DEF WaitMountReady, ReadyMounted
<1>11. CASE SetMountContext(c)
  BY <1>0, <1>11 DEF SetMountContext
<1>12. CASE CleanupConfigRemotes(c)
  BY <1>0, <1>12 DEF CleanupConfigRemotes
<1>13. CASE GetMountContext(c)
  BY <1>0, <1>13 DEF GetMountContext
<1>14. CASE SyncPoll(c)
  BY <1>0, <1>14 DEF SyncPoll
<1>15. CASE UnmountMountPoint(c)
  BY <1>0, <1>15 DEF UnmountMountPoint
<1>16. CASE DeleteRemotes(c)
  BY <1>0, <1>16 DEF DeleteRemotes
<1>17. CASE CleanupMountWithForce(c)
  BY <1>0, <1>17 DEF CleanupMountWithForce
<1>18. CASE DeleteMountContext(c)
  BY <1>0, <1>18 DEF DeleteMountContext
<1>. QED
  BY <1>1, <1>2, <1>3, <1>4, <1>5, <1>6, <1>7, <1>8, <1>9, <1>10, <1>11, <1>12,
     <1>13, <1>14, <1>15, <1>16, <1>17, <1>18
  DEF Step, PublishStep, UnpublishStep

(* A call gets to "ready" only by mounting, and to "store" from "ready".   *)
LEMMA StepReady ==
  ASSUME TypeOK, ReadyMounted, NEW c \in Calls, Step(c),
         pc'[c] \in {"ready", "store"}
  PROVE  layers'[Target(c)] # <<>>
<1>. USE DEF Goto, Return, kernel
<1>0. /\ pc \in [Calls -> Holding \cup {"start", "done", "panicked"}]
      /\ Target(c) \in Targets
      /\ layers \in [Targets -> Seq(Calls)]
  BY DEF TypeOK, Target
<1>1. CASE Mount(c)
  <2>1. pc'[c] = "ready"
    BY <1>0, <1>1 DEF Mount, FailMount
  <2>2. layers' = [layers EXCEPT ![Target(c)] = Append(@, c)]
    BY <1>0, <1>1, <2>1 DEF Mount, FailMount
  <2>3. Append(layers[Target(c)], c) # <<>>
    BY <1>0, AppendProperties
  <2>. QED
    BY <1>0, <2>2, <2>3
<1>2. CASE WaitMountReady(c)
  BY <1>0, <1>2 DEF WaitMountReady, ReadyMounted, Mounted
<1>3. CASE ExtractParams(c) \/ PrepareTargetDirectory(c) \/ ConfigInvalid(c)
  BY <1>0, <1>3 DEF ExtractParams, PrepareTargetDirectory, ConfigInvalid
<1>4. CASE LoadBegin(c) \/ LoadRemote(c) \/ UpdateRemoteFails(c) \/ LoadEnd(c)
  BY <1>0, <1>4 DEF LoadBegin, LoadRemote, UpdateRemoteFails, LoadEnd
<1>5. CASE NewFs(c) \/ SetMountContext(c) \/ CleanupConfigRemotes(c) \/ Release(c)
  BY <1>0, <1>5 DEF NewFs, FailMount, SetMountContext, CleanupConfigRemotes, Release
<1>6. CASE GetMountContext(c) \/ SyncPoll(c) \/ UnmountMountPoint(c)
  BY <1>0, <1>6 DEF GetMountContext, SyncPoll, UnmountMountPoint
<1>7. CASE DeleteRemotes(c) \/ CleanupMountWithForce(c) \/ DeleteMountContext(c)
  BY <1>0, <1>7 DEF DeleteRemotes, CleanupMountWithForce, DeleteMountContext
<1>. QED
  BY <1>1, <1>2, <1>3, <1>4, <1>5, <1>6, <1>7 DEF Step, PublishStep, UnpublishStep

LEMMA LockInit == Init => LockInv
<1>. SUFFICES ASSUME Init PROVE LockOwned /\ ReadyMounted /\ NoNilDaemon
  BY TypeInit DEF LockInv
<1>. QED
  BY DEF Init, LockOwned, ReadyMounted, NoNilDaemon, InFlight, Holding,
         PublishSteps, UnpublishSteps

LEMMA LockStep == LockInv /\ [Next]_vars => LockInv'
<1>. SUFFICES ASSUME LockInv, [Next]_vars PROVE LockInv'
  OBVIOUS
<1>. USE ConstantsAssumption
<1>0. TypeOK /\ TypeOK' /\ LockOwned /\ ReadyMounted /\ NoNilDaemon
  BY TypeStep DEF LockInv
<1>1. ASSUME NEW c \in Calls, Reject(c) \/ Abort(c)
      PROVE  LockOwned' /\ ReadyMounted' /\ NoNilDaemon'
  <2>1. /\ UNCHANGED <<req, locks, layers>>
        /\ pc[c] = "start" /\ pc' = [pc EXCEPT ![c] = "done"]
    BY <1>1 DEF Reject, Abort, Goto, driver, kernel
  <2>2. \A d \in Calls : /\ InFlight(d)' <=> InFlight(d)
                         /\ pc'[d] \in {"ready", "store", "panicked"} => pc'[d] = pc[d]
    BY <1>0, <2>1 DEF TypeOK, InFlight, Holding, PublishSteps, UnpublishSteps
  <2>. QED
    BY <1>0, <2>1, <2>2 DEF LockOwned, ReadyMounted, NoNilDaemon, Mounted,
                            LockKey, Volume, Target
<1>2. ASSUME NEW c \in Calls, TryAcquire(c)
      PROVE  LockOwned' /\ ReadyMounted' /\ NoNilDaemon'
  <2>1. /\ UNCHANGED <<req, layers>>
        /\ locks' = locks \cup {LockKey(c)} /\ LockKey(c) \notin locks
        /\ pc[c] = "start" /\ pc'[c] \in {"params", "lookup"}
        /\ \A d \in Calls \ {c} : pc'[d] = pc[d]
    BY <1>0, <1>2 DEF TryAcquire, Goto, kernel, TypeOK
  <2>2. \A d \in Calls : /\ InFlight(d)' <=> InFlight(d) \/ d = c
                         /\ pc'[d] \in {"ready", "store", "panicked"} => pc'[d] = pc[d]
    BY <2>1 DEF InFlight, Holding, PublishSteps, UnpublishSteps
  <2>3. \A d \in Calls : InFlight(d) => Target(d) # Target(c)
    BY <1>0, <2>1 DEF LockOwned, LockKey, Volume
  <2>4. \A d \in Calls : LockKey(d)' = LockKey(d) /\ Target(d)' = Target(d)
    BY <2>1 DEF LockKey, Volume, Target
  <2>5. LockOwned'
    BY <1>0, <2>1, <2>2, <2>3, <2>4 DEF LockOwned
  <2>. QED
    BY <1>0, <2>1, <2>2, <2>4, <2>5 DEF ReadyMounted, NoNilDaemon, Mounted
<1>3. ASSUME NEW c \in Calls, Step(c)
      PROVE  LockOwned' /\ ReadyMounted' /\ NoNilDaemon'
  <2>1. /\ req' = req
        /\ pc[c] \in Holding
        /\ \A d \in Calls \ {c} : pc'[d] = pc[d]
        /\ \A t \in Targets \ {Target(c)} : layers'[t] = layers[t]
    BY <1>0, <1>3, StepLocal
  <2>2. \A d \in Calls : LockKey(d)' = LockKey(d) /\ Target(d)' = Target(d)
                          /\ Target(d) \in Targets
    BY <1>0, <2>1 DEF LockKey, Volume, Target, TypeOK
  <2>3. \A d \in Calls \ {c} : /\ InFlight(d)' <=> InFlight(d)
                               /\ InFlight(d) => Target(d) # Target(c)
    BY <1>0, <2>1 DEF InFlight, LockOwned
  <2>4. InFlight(c) /\ LockKey(c) \in locks
    BY <1>0, <2>1 DEF InFlight, LockOwned
  <2>5. CASE Release(c)
    <3>1. locks' = locks \ {LockKey(c)} /\ ~InFlight(c)' /\ pc'[c] = "done"
      BY <1>0, <2>5 DEF Release, Goto, TypeOK, InFlight, Holding,
                        PublishSteps, UnpublishSteps
    <3>2. \A d \in Calls \ {c} : InFlight(d) => LockKey(d) # LockKey(c)
      BY <2>3 DEF LockKey
    <3>3. LockOwned'
      BY <1>0, <2>2, <2>3, <3>1, <3>2 DEF LockOwned
    <3>4. NoNilDaemon'
      BY <1>0, <2>1, <3>1 DEF NoNilDaemon
    <3>5. ReadyMounted'
      BY <1>0, <2>1, <2>2, <2>3, <3>1 DEF ReadyMounted, Mounted, InFlight, Holding,
                                          PublishSteps
    <3>. QED
      BY <3>3, <3>4, <3>5
  <2>6. CASE ~Release(c)
    <3>1. locks' = locks /\ pc'[c] \in Holding
      BY <1>0, <1>3, <2>6, StepLock
    <3>2. InFlight(c)' /\ pc'[c] # "panicked"
      BY <3>1 DEF InFlight, Holding, PublishSteps, UnpublishSteps
    <3>3. LockOwned'
      BY <1>0, <2>2, <2>3, <2>4, <3>1, <3>2 DEF LockOwned
    <3>4. NoNilDaemon'
      BY <1>0, <2>1, <3>2 DEF NoNilDaemon
    <3>5. ASSUME NEW d \in Calls, pc'[d] \in {"ready", "store"}
          PROVE  layers'[Target(d)] # <<>>
      <4>1. CASE d = c
        BY <1>0, <1>3, <3>5, <4>1, StepReady
      <4>2. CASE d # c
        BY <1>0, <2>1, <2>2, <2>3, <3>5, <4>2
        DEF ReadyMounted, Mounted, InFlight, Holding, PublishSteps
      <4>. QED
        BY <4>1, <4>2
    <3>6. ReadyMounted'
      BY <2>2, <3>5 DEF ReadyMounted, Mounted
    <3>. QED
      BY <3>3, <3>4, <3>6
  <2>. QED
    BY <2>5, <2>6
<1>4. CASE Crash
  <2>1. locks' = {} /\ \A d \in Calls : pc'[d] \in {"start", "done"}
    BY <1>4 DEF Crash
  <2>. QED
    BY <1>0, <2>1 DEF LockInv, LockOwned, ReadyMounted, NoNilDaemon, InFlight,
                      Holding, PublishSteps, UnpublishSteps
<1>5. CASE UNCHANGED <<req, pc, locks, layers>>
  BY <1>0, <1>5 DEF LockInv, LockOwned, ReadyMounted, NoNilDaemon, InFlight,
                    LockKey, Volume, Target, Mounted
<1>6. ASSUME NEW t \in Targets, AppWrite(t) PROVE UNCHANGED <<req, pc, locks, layers>>
  BY <1>6 DEF AppWrite, locals, driver, kernel
<1>7. ASSUME NEW m \in Calls, Upload(m) PROVE UNCHANGED <<req, pc, locks, layers>>
  BY <1>7 DEF Upload, locals, driver, kernel
<1>8. CASE UNCHANGED vars
  BY <1>5, <1>8 DEF vars, locals, driver, kernel
<1>. QED
  BY <1>0, <1>1, <1>2, <1>3, <1>4, <1>5, <1>6, <1>7, <1>8 DEF Next, LockInv

(* No two handlers ever work on the same target, no lock outlives its      *)
(* handler, and handleRcloneDaemon never dereferences the nil daemon.      *)
THEOREM LockSafety == Spec => [](LockOwned /\ NoNilDaemon)
<1>1. LockInv => LockOwned /\ NoNilDaemon
  BY DEF LockInv
<1>. QED
  BY LockInit, LockStep, <1>1, PTL DEF Spec

(* In particular no publish panics, which would end the whole process.     *)
THEOREM NeverNilDaemon == Spec => []NoNilDaemon
  BY LockSafety, PTL
-----------------------------------------------------------------------------
(* Mounts and contexts, when the mounts do not carry allow-non-empty. The  *)
(* parts of the inductive invariant say what the handlers rely on between  *)
(* their steps, which the operation lock of the target protects.           *)

(* A context belongs to the target it is stored under.                     *)
ContextAtTarget ==
    \A t \in Targets : mountContext[t] # None => Target(mountContext[t]) = t

(* The VFSs that run, but for those that a failed publish has left behind: *)
(* these are in no context and at no target, and nothing concerns them.    *)
Running == {m \in live : ~PublishFailed(m)}

(* A running mount is the one kernel mount of its target.                  *)
LiveOnTop == \A m \in Running : layers[Target(m)] = <<m>>

(* A publish that has mounted and not yet returned owns a running mount.   *)
ReadyLive == \A c \in Calls : pc[c] \in {"ready", "store"} => c \in live

(* The context an unpublish looked up is still the one in the map.         *)
LookupFresh ==
    \A c \in Calls : pc[c] \in {"sync", "unmount"} => mc[c] = mountContext[Target(c)]

(* Past mountPoint.Unmount nothing runs on the target any more.            *)
StoppedAfterUnmount ==
    \A c \in Calls : pc[c] \in {"delete", "force", "forget"} =>
        \A m \in Running : Target(m) # Target(c)

(* LiveMountTracked, with the VFSs that nobody ever tracks left out.       *)
RunningTracked ==
    \A m \in Running : mountContext[Target(m)] = m \/ pc[m] \in {"ready", "store"}

TrackInv ==
    /\ LockInv
    /\ ContextAtTarget
    /\ LiveOnTop
    /\ ReadyLive
    /\ LookupFresh
    /\ StoppedAfterUnmount
    /\ RunningTracked

LEMMA TrackInit == Init => TrackInv
  BY LockInit, ConstantsAssumption
  DEF Init, TrackInv, ContextAtTarget, LiveOnTop, ReadyLive, LookupFresh,
      StoppedAfterUnmount, RunningTracked, Running

(* A publish that has failed stays so: no VFS becomes a running one but by *)
(* the step that mounts it.                                                *)
LEMMA StepFailed ==
  ASSUME TypeOK, NEW c \in Calls, Step(c)
  PROVE  /\ \A d \in Calls : PublishFailed(d) => PublishFailed(d)'
         /\ Running' \subseteq Running \cup (live' \ live)
<1>0. /\ pc \in [Calls -> Holding \cup {"start", "done", "panicked"}]
      /\ result \in [Calls -> Codes]
      /\ live \subseteq Calls
      /\ \A d \in Calls \ {c} : pc'[d] = pc[d] /\ result'[d] = result[d]
  BY StepLocal DEF TypeOK
<1>1. PublishFailed(c) => PublishFailed(c)'
  <2>. USE DEF PublishFailed, Goto, Return
  <2>1. CASE CleanupConfigRemotes(c)
    BY <1>0, <2>1 DEF CleanupConfigRemotes
  <2>2. CASE Release(c)
    BY <1>0, <2>2 DEF Release
  <2>3. CASE pc[c] \notin {"cleanup", "release", "done"}
    BY <2>3
  <2>4. CASE ExtractParams(c) \/ PrepareTargetDirectory(c) \/ ConfigInvalid(c)
    BY <2>3, <2>4 DEF ExtractParams, PrepareTargetDirectory, ConfigInvalid
  <2>5. CASE LoadBegin(c) \/ LoadRemote(c) \/ UpdateRemoteFails(c) \/ LoadEnd(c)
    BY <2>3, <2>5 DEF LoadBegin, LoadRemote, UpdateRemoteFails, LoadEnd
  <2>6. CASE NewFs(c) \/ Mount(c) \/ WaitMountReady(c) \/ SetMountContext(c)
    BY <2>3, <2>6 DEF NewFs, Mount, WaitMountReady, SetMountContext
  <2>7. CASE GetMountContext(c) \/ SyncPoll(c) \/ UnmountMountPoint(c)
    BY <2>3, <2>7 DEF GetMountContext, SyncPoll, UnmountMountPoint
  <2>8. CASE DeleteRemotes(c) \/ CleanupMountWithForce(c) \/ DeleteMountContext(c)
    BY <2>3, <2>8 DEF DeleteRemotes, CleanupMountWithForce, DeleteMountContext
  <2>. QED
    BY <2>1, <2>2, <2>4, <2>5, <2>6, <2>7, <2>8 DEF Step, PublishStep, UnpublishStep
<1>2. \A d \in Calls : PublishFailed(d) => PublishFailed(d)'
  BY <1>0, <1>1 DEF PublishFailed
<1>. QED
  BY <1>0, <1>2 DEF Running

(* The steps of a call that leave the mounts, the contexts and the call's  *)
(* own lookup alone do not bring it into a phase it was not in.            *)
LEMMA StepQuiet ==
  ASSUME TypeOK, ReadyMounted, NEW c \in Calls, Step(c),
         ~Mount(c), ~SetMountContext(c), ~GetMountContext(c),
         ~UnmountMountPoint(c), ~CleanupMountWithForce(c), ~DeleteMountContext(c)
  PROVE  /\ UNCHANGED <<live, layers, mountContext, mc>>
         /\ pc'[c] \in {"ready", "store"} <=> pc[c] \in {"ready", "store"}
         /\ pc'[c] \in {"sync", "unmount"} => pc[c] \in {"sync", "unmount"}
         /\ pc'[c] \in {"delete", "force", "forget"} => pc[c] = "delete"
<1>. USE DEF Goto, Return, driver, vfs, kernel
<1>0. pc \in [Calls -> Holding \cup {"start", "done", "panicked"}]
  BY DEF TypeOK
<1>1. CASE ExtractParams(c) \/ ConfigInvalid(c)
  BY <1>0, <1>1 DEF ExtractParams, ConfigInvalid
<1>2. CASE PrepareTargetDirectory(c)
  BY <1>0, <1>2 DEF PrepareTargetDirectory
<1>3. CASE LoadBegin(c) \/ LoadRemote(c)
  BY <1>0, <1>3 DEF LoadBegin, LoadRemote
<1>4. CASE UpdateRemoteFails(c) \/ LoadEnd(c)
  BY <1>0, <1>4 DEF UpdateRemoteFails, LoadEnd
<1>5. CASE NewFs(c)
  BY <1>0, <1>5 DEF NewFs, FailMount
<1>6. CASE WaitMountReady(c)
  BY <1>0, <1>6 DEF WaitMountReady, ReadyMounted
<1>7. CASE CleanupConfigRemotes(c) \/ DeleteRemotes(c)
  BY <1>0, <1>7 DEF CleanupConfigRemotes, DeleteRemotes
<1>8. CASE SyncPoll(c)
  BY <1>0, <1>8 DEF SyncPoll
<1>9. CASE Release(c)
  BY <1>0, <1>9 DEF Release
<1>. QED
  BY <1>1, <1>2, <1>3, <1>4, <1>5, <1>6, <1>7, <1>8, <1>9
  DEF Step, PublishStep, UnpublishStep

LEMMA TrackStep ==
  ASSUME ~AllowNonEmpty, TrackInv, [Next]_vars
  PROVE  TrackInv'
<1>. USE ConstantsAssumption
<1>0. /\ TypeOK /\ LockOwned /\ ReadyMounted /\ LockInv'
      /\ ContextAtTarget /\ LiveOnTop /\ ReadyLive /\ LookupFresh
      /\ StoppedAfterUnmount /\ RunningTracked
      /\ live \subseteq Calls /\ Running \subseteq Calls
  BY LockStep DEF TrackInv, LockInv, TypeOK, Running
<1>. DEFINE Rest == /\ ContextAtTarget /\ LiveOnTop /\ ReadyLive /\ LookupFresh
                    /\ StoppedAfterUnmount /\ RunningTracked
<1>1. ASSUME NEW c \in Calls, Reject(c) \/ Abort(c) \/ TryAcquire(c)
      PROVE  Rest'
  <2>1. /\ UNCHANGED <<req, live, layers, mountContext, mc>>
        /\ pc[c] = "start" /\ pc'[c] \in {"done", "params", "lookup"}
        /\ \A d \in Calls \ {c} : pc'[d] = pc[d] /\ result'[d] = result[d]
    BY <1>0, <1>1 DEF Reject, Abort, TryAcquire, Goto, driver, vfs, kernel, TypeOK
  <2>2. Running' \subseteq Running
    BY <1>0, <2>1 DEF Running, PublishFailed
  <2>20. ContextAtTarget'
    BY <1>0, <2>1 DEF ContextAtTarget, Target
  <2>21. LiveOnTop'
    BY <1>0, <2>1, <2>2 DEF LiveOnTop, Target
  <2>22. ReadyLive'
    BY <1>0, <2>1 DEF ReadyLive, Target
  <2>23. LookupFresh'
    BY <1>0, <2>1 DEF LookupFresh, Target
  <2>24. StoppedAfterUnmount'
    BY <1>0, <2>1, <2>2 DEF StoppedAfterUnmount, Target
  <2>25. RunningTracked'
    BY <1>0, <2>1, <2>2 DEF RunningTracked, Target
  <2>. QED
    BY <2>20, <2>21, <2>22, <2>23, <2>24, <2>25
<1>2. ASSUME NEW c \in Calls, Step(c)
      PROVE  Rest'
  <2>. DEFINE t == Target(c)
  <2>1. /\ req' = req
        /\ pc[c] \in Holding
        /\ \A d \in Calls \ {c} : pc'[d] = pc[d] /\ mc'[d] = mc[d]
        /\ \A u \in Targets \ {t} : layers'[u] = layers[u] /\ mountContext'[u] = mountContext[u]
    BY <1>0, <1>2, StepLocal
  <2>2. \A d \in Calls : Target(d)' = Target(d) /\ Target(d) \in Targets
    BY <1>0, <2>1 DEF Target, TypeOK
  <2>3. \A d \in Calls \ {c} : pc[d] \in Holding => Target(d) # t
    BY <1>0, <2>1 DEF LockOwned, InFlight
  <2>4. /\ pc \in [Calls -> Holding \cup {"start", "done", "panicked"}]
        /\ mc \in [Calls -> Calls \cup {None}]
        /\ layers \in [Targets -> Seq(Calls)]
        /\ mountContext \in [Targets -> Calls \cup {None}]
        /\ live \subseteq Calls /\ Running \subseteq Calls
    BY <1>0 DEF TypeOK
  <2>a. Running' \subseteq Running \cup (live' \ live)
    BY <1>0, <1>2, StepFailed
  <2>5. CASE Mount(c)
    <3>1. CASE pc'[c] = "ready"
      <4>1. /\ layers' = [layers EXCEPT ![t] = Append(@, c)] /\ layers[t] = <<>>
            /\ live' = live \cup {c} /\ UNCHANGED <<mountContext, mc>>
        BY <2>4, <2>5, <3>1 DEF Mount, FailMount, Goto, Mounted, driver
      <4>2. layers'[t] = <<c>>
        BY <2>2, <2>4, <4>1
      <4>a. Running' \subseteq Running \cup {c}
        BY <2>a, <4>1
      <4>3. \A m \in Running : Target(m) # t
        <5>1. \A m : <<m>> # <<>>
          OBVIOUS
        <5>. QED
          BY <1>0, <4>1, <5>1 DEF LiveOnTop
      <4>20. ContextAtTarget'
        BY <1>0, <2>1, <2>2, <2>3, <2>4, <3>1, <4>1, <4>2, <4>3 DEF ContextAtTarget, Holding, UnpublishSteps
      <4>21. LiveOnTop'
        BY <1>0, <2>1, <2>2, <2>3, <2>4, <3>1, <4>1, <4>2, <4>a, <4>3 DEF LiveOnTop, Holding, UnpublishSteps
      <4>22. ReadyLive'
        BY <1>0, <2>1, <2>2, <2>3, <2>4, <3>1, <4>1, <4>2, <4>3 DEF ReadyLive, Holding, UnpublishSteps
      <4>23. LookupFresh'
        BY <1>0, <2>1, <2>2, <2>3, <2>4, <3>1, <4>1, <4>2, <4>3 DEF LookupFresh, Holding, UnpublishSteps
      <4>24. StoppedAfterUnmount'
        BY <1>0, <2>1, <2>2, <2>3, <2>4, <3>1, <4>1, <4>2, <4>a, <4>3 DEF StoppedAfterUnmount, Target, Holding, UnpublishSteps
      <4>25. RunningTracked'
        BY <1>0, <2>1, <2>2, <2>3, <2>4, <3>1, <4>1, <4>2, <4>a, <4>3 DEF RunningTracked, Holding, UnpublishSteps
      <4>. QED
        BY <4>20, <4>21, <4>22, <4>23, <4>24, <4>25
    <3>2. CASE pc'[c] # "ready"
      <4>1. /\ live' \in {live, live \cup {c}} /\ UNCHANGED <<layers, mountContext, mc>>
            /\ pc[c] = "mount" /\ pc'[c] = "cleanup"
        BY <2>4, <2>5, <3>2 DEF Mount, FailMount, Goto, driver
      <4>2. Running' \subseteq Running /\ live \subseteq live'
        BY <2>a, <4>1 DEF Running, PublishFailed
      <4>20. ContextAtTarget'
        BY <1>0, <2>1, <2>2, <2>4, <4>1 DEF ContextAtTarget
      <4>21. LiveOnTop'
        BY <1>0, <2>1, <2>2, <4>1, <4>2 DEF LiveOnTop
      <4>22. ReadyLive'
        BY <1>0, <2>1, <2>2, <4>1, <4>2 DEF ReadyLive
      <4>23. LookupFresh'
        BY <1>0, <2>1, <2>2, <4>1 DEF LookupFresh
      <4>24. StoppedAfterUnmount'
        BY <1>0, <2>1, <2>2, <4>1, <4>2 DEF StoppedAfterUnmount, Target
      <4>25. RunningTracked'
        BY <1>0, <2>1, <2>2, <4>1, <4>2 DEF RunningTracked
      <4>. QED
        BY <4>20, <4>21, <4>22, <4>23, <4>24, <4>25
    <3>. QED
      BY <3>1, <3>2
  <2>6. CASE SetMountContext(c)
    <3>1. /\ mountContext' = [mountContext EXCEPT ![t] = c]
          /\ UNCHANGED <<live, layers, mc>>
          /\ pc[c] = "store" /\ pc'[c] = "release"
      BY <2>4, <2>6 DEF SetMountContext, Return, Goto, vfs, kernel
    <3>a. Running' \subseteq Running
      BY <2>a, <3>1
    <3>b. c \in Running
      BY <1>0, <3>1 DEF ReadyLive, Running, PublishFailed
    <3>2. \A m \in Running : Target(m) = t => m = c
      BY <1>0, <3>1, <3>b DEF LiveOnTop
    <3>20. ContextAtTarget'
      BY <1>0, <2>1, <2>2, <2>3, <2>4, <3>1, <3>2 DEF ContextAtTarget, Holding, UnpublishSteps
    <3>21. LiveOnTop'
      BY <1>0, <2>1, <2>2, <2>3, <2>4, <3>1, <3>2, <3>a DEF LiveOnTop, Holding, UnpublishSteps
    <3>22. ReadyLive'
      BY <1>0, <2>1, <2>2, <2>3, <2>4, <3>1, <3>2 DEF ReadyLive, Holding, UnpublishSteps
    <3>23. LookupFresh'
      BY <1>0, <2>1, <2>2, <2>3, <2>4, <3>1, <3>2 DEF LookupFresh, Holding, UnpublishSteps
    <3>24. StoppedAfterUnmount'
      BY <1>0, <2>1, <2>2, <2>3, <2>4, <3>1, <3>2, <3>a DEF StoppedAfterUnmount, Target, Holding, UnpublishSteps
    <3>25. RunningTracked'
      BY <1>0, <2>1, <2>2, <2>3, <2>4, <3>1, <3>2, <3>a DEF RunningTracked, Target
    <3>. QED
      BY <3>20, <3>21, <3>22, <3>23, <3>24, <3>25
  <2>7. CASE GetMountContext(c)
    <3>1. /\ mc' = [mc EXCEPT ![c] = mountContext[t]]
          /\ pc[c] = "lookup"
          /\ pc'[c] = IF mountContext[t] = None THEN "force" ELSE "sync"
          /\ UNCHANGED <<live, layers, mountContext>>
      BY <2>4, <2>7 DEF GetMountContext, Goto, driver, vfs, kernel
    <3>a. Running' \subseteq Running
      BY <2>a, <3>1
    <3>2. mountContext[t] = None => \A m \in Running : Target(m) # t
      BY <1>0, <2>3, <2>4, <3>1, SMTT(30) DEF RunningTracked, Holding, PublishSteps
    <3>20. ContextAtTarget'
      BY <1>0, <2>1, <2>2, <2>4, <3>1, <3>2 DEF ContextAtTarget
    <3>21. LiveOnTop'
      BY <1>0, <2>1, <2>2, <2>4, <3>1, <3>2, <3>a DEF LiveOnTop
    <3>22. ReadyLive'
      BY <1>0, <2>1, <2>2, <2>4, <3>1, <3>2 DEF ReadyLive
    <3>23. LookupFresh'
      BY <1>0, <2>1, <2>2, <2>4, <3>1, <3>2 DEF LookupFresh
    <3>24. StoppedAfterUnmount'
      <4> SUFFICES ASSUME NEW d \in Calls, pc'[d] \in {"delete", "force", "forget"}, NEW m \in Running'
                   PROVE  Target(m)' # Target(d)'
        BY DEF StoppedAfterUnmount
      <4>1. m \in Running /\ m \in Calls /\ Target(m)' = Target(m) /\ Target(d)' = Target(d)
        BY <2>2, <2>4, <3>a
      <4>2. CASE d = c
        BY <4>1, <4>2, <3>1, <3>2
      <4>3. CASE d # c
        BY <1>0, <2>1, <4>1, <4>3 DEF StoppedAfterUnmount
      <4>. QED
        BY <4>2, <4>3
    <3>25. RunningTracked'
      BY <1>0, <2>1, <2>2, <2>4, <3>1, <3>2, <3>a DEF RunningTracked, Target
    <3>. QED
      BY <3>20, <3>21, <3>22, <3>23, <3>24, <3>25
  <2>8. CASE UnmountMountPoint(c)
    <3>1. /\ live' = live \ {mc[c]} /\ UNCHANGED <<mountContext, mc>>
          /\ pc[c] = "unmount" /\ pc'[c] = "delete"
      BY <2>4, <2>8 DEF UnmountMountPoint, Goto, driver
    <3>2. mc[c] = mountContext[t]
      BY <1>0, <3>1 DEF LookupFresh
    <3>a. Running' \subseteq Running \ {mc[c]}
      BY <2>a, <3>1 DEF Running
    <3>3. \A m \in Running' : m \in Running /\ Target(m) # t
      BY <1>0, <2>3, <2>4, <3>1, <3>2, <3>a DEF RunningTracked, Holding, PublishSteps
    <3>4. \A d \in Calls : pc'[d] \in {"ready", "store"} => d \in live'
      BY <1>0, <2>1, <2>2, <2>3, <2>4, <3>1, <3>2
      DEF ReadyLive, ContextAtTarget, Holding, PublishSteps
    <3>20. ContextAtTarget'
      BY <1>0, <2>1, <2>2, <2>4, <3>1, <3>3, <3>4 DEF ContextAtTarget
    <3>21. LiveOnTop'
      BY <1>0, <2>1, <2>2, <2>4, <3>1, <3>3, <3>4 DEF LiveOnTop
    <3>22. ReadyLive'
      BY <1>0, <2>1, <2>2, <2>4, <3>1, <3>3, <3>4 DEF ReadyLive
    <3>23. LookupFresh'
      BY <1>0, <2>1, <2>2, <2>4, <3>1, <3>3, <3>4 DEF LookupFresh
    <3>24. StoppedAfterUnmount'
      BY <1>0, <2>1, <2>2, <2>4, <3>1, <3>3, <3>4 DEF StoppedAfterUnmount, Target
    <3>25. RunningTracked'
      <4> SUFFICES ASSUME NEW m \in Running'
                   PROVE  \/ mountContext'[Target(m)'] = m
                          \/ pc'[m] \in {"ready", "store"}
        BY DEF RunningTracked
      <4>1. m \in Running /\ m \in Calls /\ Target(m)' = Target(m) /\ m # c
        BY <2>2, <2>4, <3>3
      <4>2. mountContext[Target(m)] = m \/ pc[m] \in {"ready", "store"}
        BY <1>0, <4>1 DEF RunningTracked
      <4>. QED
        BY <2>1, <3>1, <4>1, <4>2
    <3>. QED
      BY <3>20, <3>21, <3>22, <3>23, <3>24, <3>25
  <2>9. CASE CleanupMountWithForce(c)
    <3>1. /\ UNCHANGED <<live, mountContext, mc>>
          /\ pc[c] = "force" /\ pc'[c] \in {"forget", "release"}
      BY <2>4, <2>9 DEF CleanupMountWithForce, Return, Goto, driver, vfs
    <3>a. Running' \subseteq Running
      BY <2>a, <3>1
    <3>2. \A m \in Running : Target(m) # t
      BY <1>0, <3>1 DEF StoppedAfterUnmount
    <3>20. ContextAtTarget'
      BY <1>0, <2>1, <2>2, <2>4, <3>1, <3>2 DEF ContextAtTarget
    <3>21. LiveOnTop'
      BY <1>0, <2>1, <2>2, <2>4, <3>1, <3>2, <3>a DEF LiveOnTop
    <3>22. ReadyLive'
      BY <1>0, <2>1, <2>2, <2>4, <3>1, <3>2 DEF ReadyLive
    <3>23. LookupFresh'
      BY <1>0, <2>1, <2>2, <2>4, <3>1, <3>2 DEF LookupFresh
    <3>24. StoppedAfterUnmount'
      BY <1>0, <2>1, <2>2, <2>4, <3>1, <3>2, <3>a DEF StoppedAfterUnmount, Target
    <3>25. RunningTracked'
      BY <1>0, <2>1, <2>2, <2>4, <3>1, <3>2, <3>a DEF RunningTracked, Target
    <3>. QED
      BY <3>20, <3>21, <3>22, <3>23, <3>24, <3>25
  <2>10. CASE DeleteMountContext(c)
    <3>1. /\ mountContext' = [mountContext EXCEPT ![t] = None]
          /\ UNCHANGED <<live, layers, mc>>
          /\ pc[c] = "forget" /\ pc'[c] = "release"
      BY <2>4, <2>10 DEF DeleteMountContext, Return, Goto, vfs, kernel
    <3>a. Running' \subseteq Running
      BY <2>a, <3>1
    <3>2. \A m \in Running : Target(m) # t
      BY <1>0, <3>1 DEF StoppedAfterUnmount
    <3>20. ContextAtTarget'
      BY <1>0, <2>1, <2>2, <2>3, <2>4, <3>1, <3>2 DEF ContextAtTarget, Holding, UnpublishSteps
    <3>21. LiveOnTop'
      BY <1>0, <2>1, <2>2, <2>3, <2>4, <3>1, <3>2, <3>a DEF LiveOnTop, Holding, UnpublishSteps
    <3>22. ReadyLive'
      BY <1>0, <2>1, <2>2, <2>3, <2>4, <3>1, <3>2 DEF ReadyLive, Holding, UnpublishSteps
    <3>23. LookupFresh'
      BY <1>0, <2>1, <2>2, <2>3, <2>4, <3>1, <3>2 DEF LookupFresh, Holding, UnpublishSteps
    <3>24. StoppedAfterUnmount'
      BY <1>0, <2>1, <2>2, <2>3, <2>4, <3>1, <3>2, <3>a DEF StoppedAfterUnmount, Target, Holding, UnpublishSteps
    <3>25. RunningTracked'
      BY <1>0, <2>1, <2>2, <2>3, <2>4, <3>1, <3>2, <3>a DEF RunningTracked, Target
    <3>. QED
      BY <3>20, <3>21, <3>22, <3>23, <3>24, <3>25
  <2>11. CASE ~Mount(c) /\ ~SetMountContext(c) /\ ~GetMountContext(c) /\
              ~UnmountMountPoint(c) /\ ~CleanupMountWithForce(c) /\ ~DeleteMountContext(c)
    <3>1. /\ UNCHANGED <<live, layers, mountContext, mc>>
          /\ pc'[c] \in {"ready", "store"} <=> pc[c] \in {"ready", "store"}
          /\ pc'[c] \in {"sync", "unmount"} => pc[c] \in {"sync", "unmount"}
          /\ pc'[c] \in {"delete", "force", "forget"} => pc[c] = "delete"
      BY <1>0, <1>2, <2>11, StepQuiet
    <3>a. Running' \subseteq Running
      BY <2>a, <3>1
    <3>20. ContextAtTarget'
      BY <1>0, <2>1, <2>2, <2>4, <3>1 DEF ContextAtTarget
    <3>21. LiveOnTop'
      BY <1>0, <2>1, <2>2, <2>4, <3>1, <3>a DEF LiveOnTop
    <3>22. ReadyLive'
      BY <1>0, <2>1, <2>2, <2>4, <3>1 DEF ReadyLive
    <3>23. LookupFresh'
      BY <1>0, <2>1, <2>2, <2>4, <3>1 DEF LookupFresh
    <3>24. StoppedAfterUnmount'
      BY <1>0, <2>1, <2>2, <2>4, <3>1, <3>a DEF StoppedAfterUnmount, Target
    <3>25. RunningTracked'
      <4> SUFFICES ASSUME NEW m \in Running'
                   PROVE  \/ mountContext'[Target(m)'] = m
                          \/ pc'[m] \in {"ready", "store"}
        BY DEF RunningTracked
      <4>1. m \in Running /\ m \in Calls /\ Target(m)' = Target(m)
        BY <2>2, <2>4, <3>a
      <4>2. mountContext[Target(m)] = m \/ pc[m] \in {"ready", "store"}
        BY <1>0, <4>1 DEF RunningTracked
      <4>. QED
        BY <2>1, <3>1, <4>1, <4>2
    <3>. QED
      BY <3>20, <3>21, <3>22, <3>23, <3>24, <3>25
  <2>. QED
    BY <2>5, <2>6, <2>7, <2>8, <2>9, <2>10, <2>11
<1>3. CASE Crash
  <2>1. /\ live' = {} /\ mountContext' = [t \in Targets |-> None]
        /\ \A d \in Calls : pc'[d] \in {"start", "done"}
    BY <1>3 DEF Crash
  <2>2. Running' = {}
    BY <2>1 DEF Running
  <2>. QED
    BY <1>0, <2>1, <2>2 DEF TrackInv, ContextAtTarget, LiveOnTop, ReadyLive, LookupFresh,
                            StoppedAfterUnmount, RunningTracked
<1>4. CASE UNCHANGED <<req, pc, result, mc, live, layers, mountContext>>
  <2>1. Running' = Running
    BY <1>4 DEF Running, PublishFailed
  <2>. QED
    BY <1>0, <1>4, <2>1 DEF TrackInv, ContextAtTarget, LiveOnTop, ReadyLive, LookupFresh,
                            StoppedAfterUnmount, RunningTracked, Target
<1>5. ASSUME NEW t \in Targets, AppWrite(t)
      PROVE  UNCHANGED <<req, pc, result, mc, live, layers, mountContext>>
  BY <1>5 DEF AppWrite, locals, driver, kernel
<1>6. ASSUME NEW m \in Calls, Upload(m)
      PROVE  UNCHANGED <<req, pc, result, mc, live, layers, mountContext>>
  BY <1>6 DEF Upload, locals, driver, kernel
<1>7. CASE UNCHANGED vars
  BY <1>4, <1>7 DEF vars, locals, driver, vfs, kernel
<1>. QED
  BY <1>0, <1>1, <1>2, <1>3, <1>4, <1>5, <1>6, <1>7 DEF Next, TrackInv

(* Without allow-non-empty, every running VFS stays reachable through the  *)
(* context map or its own publish call, whatever calls fail, race or are   *)
(* repeated, and whenever the process crashes; only those are lost that    *)
(* mountPoint.Mount started for a publish which then failed.               *)
THEOREM Tracking == ~AllowNonEmpty => (Spec => []LiveMountTracked)
<1>. SUFFICES ASSUME ~AllowNonEmpty PROVE Spec => []LiveMountTracked
  OBVIOUS
<1>1. TrackInv /\ [Next]_vars => TrackInv'
  BY TrackStep
<1>2. TrackInv => LiveMountTracked
  BY DEF TrackInv, RunningTracked, Running, LiveMountTracked
<1>. QED
  BY TrackInit, <1>1, <1>2, PTL DEF Spec
-----------------------------------------------------------------------------
(* The life of the config sections, whatever targets have sections in      *)
(* common: who has a section in the config will delete it, or is a publish *)
(* that failed in UpdateRemote.                                            *)

Rem(t) == RemotesOf[VolumeOf[t]]

(* The steps of a publish before fs.NewFs has succeeded.                   *)
Early == {"start", "params", "prepare", "load", "loading", "newfs"}

(* The steps of a publish whose sections may be in the config.             *)
Loaded == {"loading", "newfs", "mount", "ready", "store", "cleanup"}

(* loadRcloneConfig writes the sections of its own volume.                 *)
OwnTodo == \A c \in Calls : todo[c] \subseteq Rem(Target(c))

EarlyPublish ==
    \A c \in Calls : /\ pc[c] \in Early => c \notin opened
                     /\ pc[c] \in PublishSteps => req[c].op = "publish"

SectionInv == LockInv /\ OwnTodo /\ EarlyPublish /\ SectionTracked

LEMMA SectionInit == Init => SectionInv
  BY LockInit DEF Init, SectionInv, OwnTodo, EarlyPublish, SectionTracked, PublishSteps

(* Which steps of a call touch the sections, the work list and opened.     *)
LEMMA SectionMoves ==
  ASSUME SectionInv, NEW c \in Calls, Step(c)
  PROVE  /\ config' \subseteq config \cup (IF pc[c] = "loading" THEN todo[c] ELSE {})
         /\ pc[c] \in {"cleanup", "delete"} => Rem(Target(c)) \cap config' = {}
         /\ \A d \in Calls \ {c} : todo'[d] = todo[d]
         /\ todo'[c] \subseteq Rem(Target(c))
         /\ opened' \subseteq opened \cup {c}
         /\ pc'[c] \in Early => pc[c] \in Early /\ opened' = opened
         /\ pc'[c] \in PublishSteps => pc[c] \in PublishSteps
<1> USE DEF Goto, Return, driver, Rem, Early, PublishSteps
<1>0. /\ pc \in [Calls -> Holding \cup {"start", "done", "panicked"}]
      /\ todo \in [Calls -> SUBSET Remotes]
      /\ todo[c] \subseteq Rem(Target(c))
  BY DEF SectionInv, LockInv, OwnTodo, TypeOK
<1>1. CASE LoadBegin(c)
  BY <1>0, <1>1 DEF LoadBegin, Volume
<1>2. CASE LoadRemote(c)
  BY <1>0, <1>2 DEF LoadRemote
<1>3. CASE UpdateRemoteFails(c)
  BY <1>0, <1>3 DEF UpdateRemoteFails
<1>4. CASE LoadEnd(c)
  BY <1>0, <1>4 DEF LoadEnd
<1>5. CASE CleanupConfigRemotes(c)
  BY <1>0, <1>5 DEF CleanupConfigRemotes, DeleteSections, Volume
<1>6. CASE DeleteRemotes(c)
  BY <1>0, <1>6 DEF DeleteRemotes, DeleteSections, Volume
<1>7. CASE ExtractParams(c) \/ ConfigInvalid(c) \/ Release(c)
  BY <1>0, <1>7 DEF ExtractParams, ConfigInvalid, Release
<1>8. CASE PrepareTargetDirectory(c)
  BY <1>0, <1>8 DEF PrepareTargetDirectory
<1>9. CASE NewFs(c)
  BY <1>0, <1>9 DEF NewFs, FailMount
<1>10. CASE Mount(c)
  BY <1>0, <1>10 DEF Mount, FailMount
<1>11. CASE WaitMountReady(c) \/ SetMountContext(c)
  BY <1>0, <1>11 DEF WaitMountReady, SetMountContext
<1>12. CASE GetMountContext(c) \/ SyncPoll(c) \/ UnmountMountPoint(c)
  BY <1>0, <1>12 DEF GetMountContext, SyncPoll, UnmountMountPoint
<1>13. CASE CleanupMountWithForce(c) \/ DeleteMountContext(c)
  BY <1>0, <1>13 DEF CleanupMountWithForce, DeleteMountContext
<1> QED
  BY <1>1, <1>2, <1>3, <1>4, <1>5, <1>6, <1>7, <1>8, <1>9, <1>10, <1>11, <1>12, <1>13
  DEF Step, PublishStep, UnpublishStep

(* The part a call itself has in keeping the sections of its target.       *)
Keeps(c) == \/ pc[c] \in Loaded
            \/ mountContext[Target(c)] # None /\ pc[c] \notin {"force", "forget"}

(* A call hands over to the context or goes on keeping its sections, until *)
(* it deletes them or fails in UpdateRemote.                               *)
LEMMA StepKeeps ==
  ASSUME LockInv, NEW c \in Calls, Step(c), Keeps(c),
         pc[c] \notin {"cleanup", "delete"}, ~UpdateRemoteFails(c)
  PROVE  Keeps(c)'
<1> USE DEF Goto, Return, driver, Loaded, Keeps
<1>0. /\ pc \in [Calls -> Holding \cup {"start", "done", "panicked"}]
      /\ mountContext \in [Targets -> Calls \cup {None}]
      /\ Target(c) \in Targets /\ Target(c)' = Target(c)
  BY StepLocal DEF LockInv, TypeOK, Target
<1>1. CASE LoadBegin(c) \/ LoadRemote(c) \/ LoadEnd(c)
  BY <1>0, <1>1 DEF LoadBegin, LoadRemote, LoadEnd
<1>2. CASE NewFs(c)
  BY <1>0, <1>2 DEF NewFs, FailMount
<1>3. CASE Mount(c)
  BY <1>0, <1>3 DEF Mount, FailMount
<1>4. CASE WaitMountReady(c)
  BY <1>0, <1>4 DEF WaitMountReady, LockInv, ReadyMounted
<1>5. CASE SetMountContext(c)
  BY <1>0, <1>5, ConstantsAssumption DEF SetMountContext
<1>6. CASE ExtractParams(c) \/ PrepareTargetDirectory(c) \/ ConfigInvalid(c) \/ Release(c)
  BY <1>0, <1>6 DEF ExtractParams, PrepareTargetDirectory, ConfigInvalid, Release
<1>7. CASE GetMountContext(c) \/ SyncPoll(c) \/ UnmountMountPoint(c)
  BY <1>0, <1>7 DEF GetMountContext, SyncPoll, UnmountMountPoint
<1>8. CASE DeleteRemotes(c) \/ CleanupMountWithForce(c) \/ DeleteMountContext(c)
  BY <1>0, <1>8 DEF DeleteRemotes, CleanupMountWithForce, DeleteMountContext
<1>9. CASE CleanupConfigRemotes(c)
  BY <1>9 DEF CleanupConfigRemotes
<1> QED
  BY <1>1, <1>2, <1>3, <1>4, <1>5, <1>6, <1>7, <1>8, <1>9
  DEF Step, PublishStep, UnpublishStep

(* At the target of a call at work, only that call counts.                 *)
LEMMA KeeperAtWork ==
  ASSUME LockInv, NEW c \in Calls, pc[c] \in Holding
  PROVE  Keeper(Target(c)) <=> Keeps(c)
<1>1. \A d \in Calls : pc[d] \in Holding /\ Target(d) = Target(c) => d = c
  BY DEF LockInv, LockOwned, InFlight
<1>2. \A d \in Calls : pc[d] \in {"force", "forget"} \cup Loaded => pc[d] \in Holding
  BY DEF Holding, PublishSteps, UnpublishSteps, Loaded
<1> QED
  BY <1>1, <1>2 DEF Keeper, Keeps, Loaded

(* The targets of the other calls keep what they had.                      *)
LEMMA OthersKeep ==
  ASSUME TypeOK, NEW c \in Calls, Step(c), NEW t \in Targets, t # Target(c), Keeper(t)
  PROVE  Keeper(t)'
<1>1. /\ \A d \in Calls \ {c} : pc'[d] = pc[d]
      /\ mountContext'[t] = mountContext[t] /\ req' = req
  BY StepLocal
<1>2. \A d \in Calls : Target(d)' = Target(d)
  BY <1>1 DEF Target
<1> QED
  BY <1>1, <1>2 DEF Keeper

(* A publish that failed in UpdateRemote does not change any more.         *)
LEMMA LoadFailedStays ==
  ASSUME SectionInv, NEW c \in Calls, Step(c), NEW d \in Calls, LoadFailed(d)
  PROVE  LoadFailed(d)'
<1>0. /\ pc \in [Calls -> Holding \cup {"start", "done", "panicked"}]
      /\ \A e \in Calls \ {c} : pc'[e] = pc[e] /\ result'[e] = result[e]
      /\ req' = req /\ pc[c] \in Holding
      /\ opened' \subseteq opened \cup {c}
  BY StepLocal, SectionMoves DEF SectionInv, LockInv, TypeOK
<1>1. CASE d # c
  BY <1>0, <1>1 DEF LoadFailed, Volume, Target
<1>2. CASE d = c
  <2>1. pc[c] = "release"
    BY <1>0, <1>2 DEF LoadFailed, Holding, PublishSteps, UnpublishSteps
  <2>2. Release(c)
    BY <2>1 DEF Step, PublishStep, UnpublishStep, ExtractParams, PrepareTargetDirectory,
                ConfigInvalid, LoadBegin, LoadRemote, UpdateRemoteFails, LoadEnd, NewFs,
                Mount, WaitMountReady, SetMountContext, CleanupConfigRemotes,
                GetMountContext, SyncPoll, UnmountMountPoint, DeleteRemotes,
                CleanupMountWithForce, DeleteMountContext
  <2>3. pc'[c] = "done" /\ UNCHANGED <<req, result, opened>>
    BY <1>0, <2>2 DEF Release, Goto
  <2> QED
    BY <1>2, <2>3 DEF LoadFailed, Volume, Target
<1> QED
  BY <1>1, <1>2

LEMMA SectionsByStep ==
  ASSUME SectionInv, NEW c \in Calls, Step(c)
  PROVE  OwnTodo' /\ EarlyPublish' /\ SectionTracked'
<1>0. /\ TypeOK /\ LockInv /\ OwnTodo /\ EarlyPublish /\ SectionTracked
      /\ \A d \in Calls : Target(d) \in Targets
  BY DEF SectionInv, LockInv, TypeOK, Target
<1>1. /\ pc[c] \in Holding /\ req' = req
      /\ \A d \in Calls \ {c} : pc'[d] = pc[d]
  BY <1>0, StepLocal
<1>2. \A d \in Calls : Target(d)' = Target(d) /\ Volume(d)' = Volume(d)
  BY <1>1 DEF Target, Volume
<1>3. OwnTodo'
  BY <1>0, <1>2, SectionMoves DEF OwnTodo, Rem
<1>4. EarlyPublish'
  BY <1>0, <1>1, SectionMoves DEF EarlyPublish
<1>5. SectionTracked'
  <2> SUFFICES ASSUME NEW r \in config'
               PROVE  \/ \E t \in Targets : r \in Rem(t) /\ Keeper(t)'
                      \/ \E d \in Calls : r \in Rem(Target(d)) /\ LoadFailed(d)'
    BY <1>2 DEF SectionTracked, Rem, Volume
  <2>1. CASE UpdateRemoteFails(c) /\ r \in Rem(Target(c))
    <3>1. /\ pc[c] = "loading" /\ pc'[c] = "release" /\ result'[c] = "Internal"
          /\ Volume(c) \in UpdateParams /\ opened' = opened
      BY <1>0, <2>1 DEF UpdateRemoteFails, Return, Goto, TypeOK
    <3>2. LoadFailed(c)'
      BY <1>0, <1>1, <1>2, <3>1 DEF LoadFailed, EarlyPublish, Early, PublishSteps
    <3> QED
      BY <2>1, <3>2
  <2>2. CASE r \notin config /\ ~UpdateRemoteFails(c)
    <3>1. r \in Rem(Target(c)) /\ pc[c] = "loading"
      BY <1>0, <2>2, SectionMoves DEF OwnTodo
    <3>2. Keeps(c) /\ Keeps(c)'
      BY <1>0, <2>2, <3>1, StepKeeps DEF Keeps, Loaded
    <3>3. pc'[c] \in Loaded
      BY <1>0, <2>2, <3>1 DEF Step, PublishStep, UnpublishStep, ExtractParams,
                PrepareTargetDirectory, ConfigInvalid, LoadBegin, LoadRemote, LoadEnd, NewFs,
                Mount, WaitMountReady, SetMountContext, CleanupConfigRemotes, Release,
                GetMountContext, SyncPoll, UnmountMountPoint, DeleteRemotes,
                CleanupMountWithForce, DeleteMountContext, Goto, TypeOK, Loaded
    <3>4. Keeper(Target(c))'
      BY <1>2, <3>3 DEF Keeper, Loaded
    <3> QED
      BY <1>0, <1>2, <3>1, <3>4
  <2>3. CASE r \in config /\ ~(UpdateRemoteFails(c) /\ r \in Rem(Target(c)))
    <3>1. CASE \E d \in Calls : r \in Rem(Target(d)) /\ LoadFailed(d)
      BY <3>1, LoadFailedStays
    <3>2. ASSUME NEW t \in Targets, r \in Rem(t), Keeper(t)
          PROVE  Keeper(t)'
      <4>1. CASE t # Target(c)
        BY <1>0, <3>2, <4>1, OthersKeep
      <4>2. CASE t = Target(c)
        <5>1. pc[c] \notin {"cleanup", "delete"}
          BY <3>2, <4>2, SectionMoves
        <5>2. Keeps(c)'
          BY <1>0, <1>1, <2>3, <3>2, <4>2, <5>1, KeeperAtWork, StepKeeps
        <5>3. \A d \in Calls \ {c} : pc'[d] \in {"force", "forget"} => Target(d) # t
          BY <1>0, <1>1, <4>2 DEF LockInv, LockOwned, InFlight, Holding, UnpublishSteps
        <5> QED
          BY <1>2, <4>2, <5>2, <5>3 DEF Keeper, Keeps, Loaded
      <4> QED
        BY <4>1, <4>2
    <3>3. \/ \E t \in Targets : r \in Rem(t) /\ Keeper(t)
          \/ \E d \in Calls : r \in Rem(Target(d)) /\ LoadFailed(d)
      BY <1>0, <2>3 DEF SectionTracked, Rem, Volume
    <3> QED
      BY <3>1, <3>2, <3>3
  <2>4. CASE r \notin config /\ r \notin Rem(Target(c))
    BY <1>0, <2>4, SectionMoves DEF OwnTodo
  <2> QED
    BY <2>1, <2>2, <2>3, <2>4
<1> QED
  BY <1>3, <1>4, <1>5

(* Steps that leave sections, contexts and work lists alone.               *)
LEMMA SectionsAsBefore ==
  ASSUME SectionInv, UNCHANGED <<req, config, todo, opened, mountContext>>,
         \A d \in Calls : \/ pc'[d] = pc[d] /\ result'[d] = result[d]
                          \/ /\ pc[d] = "start" /\ pc'[d] \in {"done", "params", "lookup"}
                             /\ pc'[d] = "params" => req[d].op = "publish"
  PROVE  OwnTodo' /\ EarlyPublish' /\ SectionTracked'
<1>1. \A d \in Calls : Target(d)' = Target(d) /\ Volume(d)' = Volume(d)
  BY DEF Target, Volume
<1>2. \A t \in Targets : Keeper(t) => Keeper(t)'
  BY <1>1 DEF Keeper
<1>3. \A d \in Calls : LoadFailed(d) => LoadFailed(d)'
  BY <1>1 DEF LoadFailed
<1>4. OwnTodo' /\ EarlyPublish'
  BY <1>1 DEF SectionInv, OwnTodo, EarlyPublish, Rem, Early, PublishSteps
<1>5. SectionTracked'
  BY <1>1, <1>2, <1>3 DEF SectionInv, SectionTracked
<1> QED BY <1>4, <1>5

LEMMA SectionStep ==
  ASSUME SectionInv, [Next]_vars
  PROVE  SectionInv'
<1>0. /\ LockInv /\ LockInv' /\ pc \in [Calls -> Holding \cup {"start", "done", "panicked"}]
      /\ result \in [Calls -> Codes]
  BY LockStep DEF SectionInv, LockInv, TypeOK
<1> DEFINE Rest == OwnTodo /\ EarlyPublish /\ SectionTracked
<1>1. ASSUME NEW c \in Calls, Step(c) PROVE Rest'
  BY <1>1, SectionsByStep
<1>2. ASSUME NEW c \in Calls, Reject(c) \/ Abort(c) \/ TryAcquire(c) PROVE Rest'
  <2>1. /\ UNCHANGED <<req, config, todo, opened, mountContext>>
        /\ pc[c] = "start" /\ pc'[c] \in {"done", "params", "lookup"}
        /\ pc'[c] = "params" => req[c].op = "publish"
        /\ \A d \in Calls \ {c} : pc'[d] = pc[d] /\ result'[d] = result[d]
    BY <1>0, <1>2 DEF Reject, Abort, TryAcquire, Goto, driver
  <2>2. \A d \in Calls : \/ pc'[d] = pc[d] /\ result'[d] = result[d]
                         \/ /\ pc[d] = "start" /\ pc'[d] \in {"done", "params", "lookup"}
                            /\ pc'[d] = "params" => req[d].op = "publish"
    BY <2>1
  <2> QED BY <2>1, <2>2, SectionsAsBefore
<1>3. ASSUME NEW t \in Targets, AppWrite(t) PROVE Rest'
  BY <1>3, SectionsAsBefore DEF AppWrite, locals, driver
<1>4. ASSUME NEW m \in Calls, Upload(m) PROVE Rest'
  BY <1>4, SectionsAsBefore DEF Upload, locals, driver
<1>5. ASSUME UNCHANGED vars PROVE Rest'
  BY <1>5, SectionsAsBefore DEF vars, locals, driver
<1>6. ASSUME Crash PROVE Rest'
  <2>1. /\ config' = {} /\ \A c \in Calls : todo'[c] = {} /\ pc'[c] \in {"start", "done"}
        /\ \A c \in Calls : pc'[c] = "start" => pc[c] = "start"
        /\ opened' = opened /\ req' = req
    BY <1>6 DEF Crash
  <2> QED
    BY <2>1 DEF SectionInv, OwnTodo, EarlyPublish, SectionTracked, Early, PublishSteps
<1> QED
  BY <1>0, <1>1, <1>2, <1>3, <1>4, <1>5, <1>6 DEF Next, SectionInv

(* A section in rclone's config will be deleted by a context or a publish  *)
(* of a target that loads it, however many targets share it; it is left    *)
(* over only by a publish that failed in UpdateRemote, whose clean-up has  *)
(* no names (the comment of the deferred call, "Ensure cleanup on          *)
(* failure", does not hold for it).                                        *)
THEOREM NoStraySection == Spec => []SectionTracked
<1>1. SectionInv => SectionTracked
  BY DEF SectionInv
<1> QED
  BY SectionInit, SectionStep, <1>1, PTL DEF Spec
=============================================================================
