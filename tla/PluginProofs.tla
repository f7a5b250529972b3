---------------------------- MODULE PluginProofs ----------------------------
(***************************************************************************)
(* Proofs about Plugin for every command line, any number of restarts and  *)
(* both modes: the record of a process keeps its shape, and a service is   *)
(* never reachable before the driver is complete.                          *)
(***************************************************************************)
EXTENDS Plugin, TLAPS

(* What the order of the steps in main and serve establishes.              *)
Ordered ==
    /\ p.main \notin {"wait", "returned"} =>
            p.serve = "none" /\ p.wg = 0 /\ p.stopper = "none" /\ p.probe = "none"
    /\ p.main = "options" => "locks" \in p.driver
    /\ p.main = "node" => {"locks", "options"} \subseteq p.driver
    /\ p.main \in {"start", "wait", "returned"} =>
            DriverParts \ {"name"} \subseteq p.driver
    /\ p.serve \in {"listen", "server", "done"} => p.wg = 1
    /\ p.serve \in {"done", "serve", "serving", "stopped"} =>
            p.services = Services
    /\ p.probe # "none" => p.services = Services
    /\ p.probe = "ready" => "name" \in p.driver

PInv == TypeOK /\ Ordered

(* A process that starts is well-formed and has reached nothing yet.       *)
LEMMA FreshOrdered == Init => PInv
<1> SUFFICES ASSUME Init PROVE PInv
  OBVIOUS
<1>1. TypeOK
  BY PluginAssumption DEF Init, Fresh, TypeOK, Memory, DriverParts, Services
<1>2. Ordered
  BY DEF Init, Fresh, Ordered
<1> QED BY <1>1, <1>2 DEF PInv

(* The end of a process changes nothing in its memory.                     *)
LEMMA ExitKeeps == PInv /\ Exit => PInv'
  BY DEF Exit, PInv, TypeOK, Ordered

(* Every step keeps the order.                                             *)
LEMMA StepOrdered == PInv /\ [Next]_vars => PInv'
<1> SUFFICES ASSUME PInv, [Next]_vars PROVE PInv'
  OBVIOUS
<1> USE DEF PInv
<1>1. CASE MetricsStart
  <2>1. CASE Exit
    BY <2>1, ExitKeeps
  <2>2. CASE ~Exit
    <3>1. TypeOK'
      <4>1. (IF conf.metrics.on THEN {"metrics"} ELSE {}) \in SUBSET {"metrics", "rc"}
        OBVIOUS
      <4> QED BY <1>1, <2>2, <4>1 DEF MetricsStart, env, TypeOK, Memory
    <3>2. Ordered'
      BY <1>1, <2>2 DEF MetricsStart, env, TypeOK, Memory, Ordered
    <3> QED BY <3>1, <3>2
  <2> QED BY <2>1, <2>2
<1>2. CASE RCStart
  <2>1. CASE Exit
    BY <2>1, ExitKeeps
  <2>2. CASE ~Exit
    <3>1. TypeOK'
      <4>1. (p.http \cup IF conf.rc.on THEN {"rc"} ELSE {}) \in SUBSET {"metrics", "rc"}
        BY DEF TypeOK, Memory
      <4> QED BY <1>2, <2>2, <4>1 DEF RCStart, env, TypeOK, Memory
    <3>2. Ordered'
      BY <1>2, <2>2 DEF RCStart, env, TypeOK, Memory, Ordered
    <3> QED BY <3>1, <3>2
  <2> QED BY <2>1, <2>2
<1>3. CASE NewDriver
  <2>1. TypeOK'
    BY <1>3 DEF NewDriver, env, TypeOK, Memory, DriverParts
  <2>2. Ordered'
    BY <1>3 DEF NewDriver, env, TypeOK, Memory, Ordered, DriverParts
  <2> QED BY <2>1, <2>2
<1>4. CASE InitOptions
  <2>1. CASE Exit
    BY <2>1, ExitKeeps
  <2>2. CASE ~Exit
    <3>1. /\ p.main = "options"
          /\ p' = [p EXCEPT !.main = "node", !.driver = @ \cup {"options"}]
          /\ UNCHANGED env
      BY <1>4, <2>2 DEF InitOptions
    <3>2. TypeOK'
      <4>1. p.driver \cup {"options"} \in SUBSET DriverParts
        BY DEF TypeOK, Memory, DriverParts
      <4> QED BY <3>1, <4>1 DEF env, TypeOK, Memory
    <3>3. Ordered'
      BY <3>1 DEF env, TypeOK, Memory, Ordered, DriverParts
    <3> QED BY <3>2, <3>3
  <2> QED BY <2>1, <2>2
<1>5. CASE InitNodeServer
  <2>1. TypeOK'
    BY <1>5 DEF InitNodeServer, env, TypeOK, Memory, DriverParts
  <2>2. Ordered'
    BY <1>5 DEF InitNodeServer, env, TypeOK, Memory, Ordered, DriverParts
  <2> QED BY <2>1, <2>2
<1>6. CASE Start
  <2>1. TypeOK'
    <3>1. p.wg + 1 \in 0 .. 1
      BY <1>6 DEF Start, Ordered
    <3> QED BY <1>6, <3>1 DEF Start, env, TypeOK, Memory
  <2>2. Ordered'
    BY <1>6 DEF Start, env, TypeOK, Memory, Ordered
  <2> QED BY <2>1, <2>2
<1>7. CASE Wait
  <2>1. CASE Exit
    BY <2>1, ExitKeeps
  <2>2. CASE ~Exit
    <3>1. TypeOK'
      BY <1>7, <2>2 DEF Wait, env, TypeOK, Memory
    <3>2. Ordered'
      BY <1>7, <2>2 DEF Wait, env, TypeOK, Memory, Ordered
    <3> QED BY <3>1, <3>2
  <2> QED BY <2>1, <2>2
<1>8. CASE Listen
  <2>1. CASE Exit
    BY <2>1, ExitKeeps
  <2>2. CASE ~Exit
    <3>1. TypeOK'
      BY <1>8, <2>2 DEF Listen, TypeOK, Memory
    <3>2. Ordered'
      BY <1>8, <2>2 DEF Listen, TypeOK, Memory, Ordered
    <3> QED BY <3>1, <3>2
  <2> QED BY <2>1, <2>2
<1>9. CASE Register
  <2>1. TypeOK'
    BY <1>9 DEF Register, env, TypeOK, Memory, Services
  <2>2. Ordered'
    BY <1>9 DEF Register, env, TypeOK, Memory, Ordered, Services
  <2> QED BY <2>1, <2>2
<1>10. CASE Done
  <2>1. TypeOK'
    <3>1. p.wg - 1 \in 0 .. 1
      BY <1>10 DEF Done, Ordered
    <3> QED BY <1>10, <3>1 DEF Done, env, TypeOK, Memory
  <2>2. Ordered'
    BY <1>10 DEF Done, env, TypeOK, Memory, Ordered
  <2> QED BY <2>1, <2>2
<1>11. CASE Serve
  <2>1. CASE p.stopper = "stopped"
    BY <1>11, <2>1 DEF Serve, TypeOK, Ordered
  <2>2. CASE p.stopper # "stopped"
    <3>1. TypeOK'
      BY <1>11, <2>2 DEF Serve, env, TypeOK, Memory
    <3>2. Ordered'
      BY <1>11, <2>2 DEF Serve, env, TypeOK, Memory, Ordered
    <3> QED BY <3>1, <3>2
  <2> QED BY <2>1, <2>2
<1>12. CASE GracefulStop
  <2>1. TypeOK'
    <3>2. p' \in Memory
      <4>1. CASE p.serve = "serving"
        <5>1. p' = [p EXCEPT !.stopper = "stopped", !.serve = "stopped"]
          BY <1>12, <4>1 DEF GracefulStop
        <5> QED BY <5>1 DEF TypeOK, Memory
      <4>2. CASE p.serve # "serving"
        <5>1. p' = [p EXCEPT !.stopper = "stopped"]
          BY <1>12, <4>2 DEF GracefulStop, TypeOK, Memory
        <5> QED BY <5>1 DEF TypeOK, Memory
      <4> QED BY <4>1, <4>2
    <3>3. socket' \in {"absent", "bound", "stale"}
      BY <1>12 DEF GracefulStop, TypeOK
    <3> QED BY <1>12, <3>2, <3>3 DEF GracefulStop, TypeOK
  <2>2. Ordered'
    <3>1. p.stopper = "wait"
      BY <1>12 DEF GracefulStop
    <3>2. p' = [p EXCEPT !.stopper = "stopped",
                         !.serve = IF p.serve = "serving" THEN "stopped" ELSE p.serve]
      BY <1>12 DEF GracefulStop
    <3>3. /\ p'.main = p.main /\ p'.wg = p.wg /\ p'.probe = p.probe
          /\ p'.driver = p.driver /\ p'.services = p.services /\ p'.stopper = "stopped"
          /\ p'.serve = IF p.serve = "serving" THEN "stopped" ELSE p.serve
      BY <3>2 DEF TypeOK, Memory
    <3> QED BY <3>1, <3>3 DEF Ordered
  <2> QED BY <2>1, <2>2
<1>13. CASE Probe
  <2>1. TypeOK'
    BY <1>13 DEF Probe, env, TypeOK, Memory
  <2>2. Ordered'
    BY <1>13 DEF Probe, env, TypeOK, Memory, Ordered
  <2> QED BY <2>1, <2>2
<1>14. CASE Kill
  BY <1>14, ExitKeeps DEF Kill
<1>15. CASE Restart
  <2>1. TypeOK'
    BY <1>15, PluginAssumption DEF Restart, TypeOK, Memory, Fresh, DriverParts, Services
  <2>2. Ordered'
    BY <1>15 DEF Restart, TypeOK, Memory, Ordered, Fresh, DriverParts, Services
  <2> QED BY <2>1, <2>2
<1>16. CASE UNCHANGED vars
  BY <1>16 DEF vars, TypeOK, Ordered
<1> QED
  BY <1>1, <1>2, <1>3, <1>4, <1>5, <1>6, <1>7, <1>8, <1>9, <1>10, <1>11, <1>12,
     <1>13, <1>14, <1>15, <1>16 DEF Next, Main, ServeStep

LEMMA AlwaysOrdered == Spec => []PInv
  BY FreshOrdered, StepOrdered, PTL DEF Spec

(* The memory, the socket and the counters keep their kinds; in particular *)
(* the wait group never goes below zero, which would panic, nor above one. *)
THEOREM PluginTyped == Spec => []TypeOK
<1>1. PInv => TypeOK
  BY DEF PInv
<1> QED BY <1>1, AlwaysOrdered, PTL

(* No call reaches a service, and no Probe answers ready, before rclone,   *)
(* the node server and the metrics collector are initialised (Run, serve). *)
THEOREM ReadyMeansReady == Spec => []ReadyIsTrue
<1>1. PInv => ReadyIsTrue
  BY DEF PInv, TypeOK, Ordered, ReadyIsTrue
<1> QED BY <1>1, AlwaysOrdered, PTL
=============================================================================
