------------------------------ MODULE RWMutex -------------------------------
(***************************************************************************)
(* sync.RWMutex of the Go library, as far as its users can tell. A writer  *)
(* first announces itself; from then on new read locks wait, and the       *)
(* writer waits for the read locks granted before. A goroutine that takes  *)
(* a read lock twice is two readers to the mutex.                          *)
(***************************************************************************)
EXTENDS Naturals

CONSTANTS Threads, None

VARIABLES
    holds,      \* read locks held by each goroutine
    announced,  \* the writer waiting for readers to leave
    writer      \* the goroutine holding the write lock

mutex == <<holds, announced, writer>>

Init ==
    /\ holds = [p \in Threads |-> 0]
    /\ announced = None
    /\ writer = None

RLock(p) ==
    /\ announced = None /\ writer = None
    /\ holds' = [holds EXCEPT ![p] = @ + 1]
    /\ UNCHANGED <<announced, writer>>

RUnlock(p) ==
    /\ holds[p] > 0
    /\ holds' = [holds EXCEPT ![p] = @ - 1]
    /\ UNCHANGED <<announced, writer>>

(* Lock, first part: only one writer at a time gets this far.              *)
Announce(p) ==
    /\ announced = None /\ writer = None
    /\ announced' = p
    /\ UNCHANGED <<holds, writer>>

(* Lock, second part: the last reader has left.                            *)
Acquire(p) ==
    /\ announced = p
    /\ \A q \in Threads : holds[q] = 0
    /\ announced' = None
    /\ writer' = p
    /\ UNCHANGED holds

Unlock(p) ==
    /\ writer = p
    /\ writer' = None
    /\ UNCHANGED <<holds, announced>>
=============================================================================
