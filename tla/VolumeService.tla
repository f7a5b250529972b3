--------------------------- MODULE VolumeService ---------------------------
(***************************************************************************)
(* What the node service promises to the container orchestrator, without   *)
(* locks, config sections, contexts, directories or kernel mounts: calls   *)
(* on a target take turns, an OK tells the truth about the target at the   *)
(* moment it is given, and a volume that is up goes down only through an   *)
(* unpublish at work on its target or a restart of the driver.             *)
(***************************************************************************)
CONSTANTS
    Calls,      \* gRPC calls
    Targets,    \* target paths
    Codes,      \* gRPC status codes
    None,       \* nothing is published at the target
    Broken      \* something is left at the target that nobody serves

VARIABLES
    request,    \* operation and target of a call
    phase,      \* a call waits, works on its target, or is answered
    answer,     \* the status a call was given
    volume      \* the publish whose volume a target shows

vars == <<request, phase, answer, volume>>

At(c) == request[c].target

Init ==
    /\ request \in [Calls -> [op : {"publish", "unpublish"}, target : Targets]]
    /\ phase = [c \in Calls |-> "waiting"]
    /\ answer = [c \in Calls |-> "none"]
    /\ volume = [t \in Targets |-> None]

(* A call is refused at once: bad arguments, or the target is taken.       *)
Refuse(c) ==
    /\ phase[c] = "waiting"
    /\ phase' = [phase EXCEPT ![c] = "answered"]
    /\ \/ answer' = [answer EXCEPT ![c] = "InvalidArgument"]
       \/ /\ \E d \in Calls : phase[d] = "working" /\ At(d) = At(c)
          /\ answer' = [answer EXCEPT ![c] = "Aborted"]
    /\ UNCHANGED <<request, volume>>

(* One call at a time works on a target.                                   *)
Begin(c) ==
    /\ phase[c] = "waiting"
    /\ \A d \in Calls : phase[d] = "working" => At(d) # At(c)
    /\ phase' = [phase EXCEPT ![c] = "working"]
    /\ UNCHANGED <<request, answer, volume>>

(* A publish puts its volume on a target that shows nothing.               *)
BringUp(c) ==
    /\ phase[c] = "working" /\ request[c].op = "publish"
    /\ volume[At(c)] = None
    /\ volume' = [volume EXCEPT ![At(c)] = c]
    /\ UNCHANGED <<request, phase, answer>>

(* An unpublish takes down what its target shows, perhaps half way.        *)
TakeDown(c) ==
    /\ phase[c] = "working" /\ request[c].op = "unpublish"
    /\ volume[At(c)] # None
    /\ \E left \in {None, Broken} : volume' = [volume EXCEPT ![At(c)] = left]
    /\ UNCHANGED <<request, phase, answer>>

Promised(c) == IF request[c].op = "publish" THEN c ELSE None

(* An answer may be an error at any time; OK must be true.                 *)
Answer(c) ==
    /\ phase[c] = "working"
    /\ phase' = [phase EXCEPT ![c] = "answered"]
    /\ \E code \in Codes :
        /\ code = "OK" => volume[At(c)] = Promised(c)
        /\ answer' = [answer EXCEPT ![c] = code]
    /\ UNCHANGED <<request, volume>>

(* The driver restarts: calls at work are lost, volumes that are up break. *)
Restart ==
    /\ phase' = [c \in Calls |-> IF phase[c] = "working" THEN "answered" ELSE phase[c]]
    /\ answer' = [c \in Calls |-> IF phase[c] = "working" THEN "lost" ELSE answer[c]]
    /\ volume' = [t \in Targets |-> IF volume[t] = None THEN None ELSE Broken]
    /\ UNCHANGED request

Next ==
    \/ \E c \in Calls : Refuse(c) \/ Begin(c) \/ BringUp(c) \/ TakeDown(c) \/ Answer(c)
    \/ Restart

Spec == Init /\ [][Next]_vars
=============================================================================
