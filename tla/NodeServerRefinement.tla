------------------------ MODULE NodeServerRefinement ------------------------
(***************************************************************************)
(* The node service implements VolumeService. A call works on its target   *)
(* from TryAcquire to the deferred Release, and what a target shows is the *)
(* kernel mount on top of it, as long as its VFS runs.                     *)
(***************************************************************************)
EXTENDS NodeServer

CONSTANT Broken

ASSUME BrokenAssumption == Broken \notin Calls \cup {None}

PhaseOf(c) ==
    IF pc[c] = "start" THEN "waiting"
    ELSE IF pc[c] = "done" THEN "answered" ELSE "working"

AnswerOf(c) == IF pc[c] = "done" THEN result[c] ELSE "none"

Shown(t) ==
    IF ~Mounted(t) THEN None
    ELSE IF Top(t) \in live THEN Top(t) ELSE Broken

Service == INSTANCE VolumeService WITH
    request <- req,
    phase <- [c \in Calls |-> PhaseOf(c)],
    answer <- [c \in Calls |-> AnswerOf(c)],
    volume <- [t \in Targets |-> Shown(t)]

(* NodePublishVolume and NodeUnpublishVolume keep the promise of           *)
(* VolumeService: per target one call at a time, no false OK, and no       *)
(* volume goes down but through its unpublish or a crash.                  *)
ImplementsService == Service!Spec
=============================================================================
