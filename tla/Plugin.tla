------------------------------- MODULE Plugin -------------------------------
(***************************************************************************)
(* The life of the plugin process: main starts the metrics and the remote  *)
(* control server, NewDriver and Run build the driver, and the gRPC server *)
(* is started in a goroutine of its own while Run waits for it. The socket *)
(* file outlives the process. In test mode only Run is called, and a third *)
(* goroutine stops the server again. The addresses are free and the        *)
(* directory of the socket can be written: net.Listen and os.Remove fail   *)
(* for no other reason than the ones shown.                                *)
(***************************************************************************)
EXTENDS Naturals

CONSTANTS
    Configs,        \* command lines: metrics, rc, endpoint, drivername given;
                    \* environ: the environment's rclone options are valid;
                    \* test: a test calls Run(true), and main does not run
    MaxRestarts     \* how often the container is restarted

ASSUME PluginAssumption == MaxRestarts \in Nat

VARIABLES
    alive,          \* the process runs
    restarts,       \* restarts of the container so far
    conf,           \* its command line
    p,              \* what is in memory, a record
    socket          \* socket file: "absent", "bound" or left over ("stale")

vars == <<alive, restarts, conf, p, socket>>
env  == <<alive, restarts, conf, socket>>

(* The memory of a process:                                                *)
(*   main      where the main goroutine is                                 *)
(*   serve     where the goroutine of nonBlockingGRPCServer.serve is       *)
(*   stopper   where the goroutine that stops a test server is             *)
(*   wg        nonBlockingGRPCServer.wg                                    *)
(*   services  services registered with it                                 *)
(*   driver    parts of the Driver that are initialised                    *)
(*   http      HTTP servers that listen                                    *)
(*   probe     last answer to Probe                                        *)
Fresh ==
    [main |-> IF conf.test THEN "options" ELSE "metrics",
     serve |-> "none", stopper |-> "none", wg |-> 0,
     services |-> {}, driver |-> IF conf.test THEN {"name", "locks"} ELSE {},
     http |-> {}, probe |-> "none"]

(* The protocols ParseEndpoint accepts; it keeps the spelling.             *)
ParseEndpoint(ep) == ep \in {"unix", "tcp", "UNIX", "TCP"}

(* Option checks of internal/metrics and internal/rc (Validate).           *)
ValidMetrics(o) == o.path = "/metrics" /\ ~o.negativeTimeout
ValidRC(o)      == IF o.noAuth THEN ~o.user /\ ~o.pass ELSE o.user /\ o.pass

Init ==
    /\ conf \in Configs
    /\ alive = TRUE /\ restarts = 0
    /\ socket \in {"absent", "stale"}
    /\ p = Fresh

(* klog.Fatal, a panic or a kill: the process ends, its listeners with it, *)
(* the socket file stays.                                                  *)
Exit ==
    /\ alive' = FALSE
    /\ socket' = IF socket = "bound" THEN "stale" ELSE socket
    /\ UNCHANGED <<restarts, conf, p>>
-----------------------------------------------------------------------------
(* main.                                                                   *)

MetricsStart ==
    /\ p.main = "metrics"
    /\ \/ /\ conf.metrics.on => ValidMetrics(conf.metrics)
          /\ p' = [p EXCEPT !.main = "rc",
                            !.http = IF conf.metrics.on THEN {"metrics"} ELSE {}]
          /\ UNCHANGED env
       \/ conf.metrics.on /\ ~ValidMetrics(conf.metrics) /\ Exit

RCStart ==
    /\ p.main = "rc"
    /\ \/ /\ conf.rc.on => ValidRC(conf.rc)
          /\ p' = [p EXCEPT !.main = "driver",
                            !.http = @ \cup IF conf.rc.on THEN {"rc"} ELSE {}]
          /\ UNCHANGED env
       \/ conf.rc.on /\ ~ValidRC(conf.rc) /\ Exit

(* NewDriver: name, version, capabilities and the operation locks.         *)
NewDriver ==
    /\ p.main = "driver"
    /\ p' = [p EXCEPT !.main = "options",
                      !.driver = {"locks"} \cup IF conf.named THEN {"name"} ELSE {}]
    /\ UNCHANGED env

(* Mutation: the gRPC server is started with a node server still to come.  *)
InitOptionsAndStart ==
    /\ p.main = "options"
    /\ p' = [p EXCEPT !.main = "start", !.driver = @ \cup {"options"}]
    /\ UNCHANGED env

(* Run: GlobalOptionsInit, which refuses an RCLONE_ variable of the        *)
(* environment that does not parse, and accounting.Start.                  *)
InitOptions ==
    /\ p.main = "options"
    /\ \/ /\ conf.environ
          /\ p' = [p EXCEPT !.main = "node", !.driver = @ \cup {"options"}]
          /\ UNCHANGED env
       \/ ~conf.environ /\ Exit

(* Run: NewNodeServer and initMetricsCollector, whose descriptors are      *)
(* fixed and so are always accepted.                                       *)
InitNodeServer ==
    /\ p.main = "node"
    /\ p' = [p EXCEPT !.main = "start", !.driver = @ \cup {"node", "collector"}]
    /\ UNCHANGED env

(* Mutation: wg counts the three services, not the goroutine.              *)
StartCountsServices ==
    /\ p.main = "start"
    /\ p' = [p EXCEPT !.main = "wait", !.wg = @ + 3, !.serve = "listen"]
    /\ UNCHANGED env

(* NonBlockingGRPCServer.Start.                                            *)
Start ==
    /\ p.main = "start"
    /\ p' = [p EXCEPT !.main = "wait", !.wg = @ + 1, !.serve = "listen"]
    /\ UNCHANGED env

(* NonBlockingGRPCServer.Wait: Run returns when the count of wg is zero,   *)
(* and main then ends the process with os.Exit.                            *)
Wait ==
    /\ p.main = "wait"
    /\ p.wg = 0
    /\ IF conf.test
       THEN p' = [p EXCEPT !.main = "returned"] /\ UNCHANGED env
       ELSE Exit

Main == MetricsStart \/ RCStart \/ NewDriver \/ InitOptions \/ InitNodeServer
        \/ Start \/ Wait
-----------------------------------------------------------------------------
(* nonBlockingGRPCServer.serve.                                            *)

(* Mutation: a left over socket file is not removed.                       *)
ListenOnly ==
    /\ p.serve = "listen"
    /\ \/ /\ conf.endpoint = "tcp" \/ (conf.endpoint = "unix" /\ socket = "absent")
          /\ socket' = IF conf.endpoint = "unix" THEN "bound" ELSE socket
          /\ p' = [p EXCEPT !.serve = "server"]
          /\ UNCHANGED <<alive, restarts, conf>>
       \/ conf.endpoint = "unix" /\ socket # "absent" /\ Exit

(* ParseEndpoint, os.Remove of a left over socket, net.Listen. The         *)
(* protocol is passed on as it is spelled, and net.Listen knows it in      *)
(* lower case only.                                                        *)
Listen ==
    /\ p.serve = "listen"
    /\ \/ /\ ParseEndpoint(conf.endpoint) /\ conf.endpoint \in {"unix", "tcp"}
          /\ socket' = IF conf.endpoint = "unix" THEN "bound" ELSE socket
          /\ p' = [p EXCEPT !.serve = "server"]
          /\ UNCHANGED <<alive, restarts, conf>>
       \/ /\ ~ParseEndpoint(conf.endpoint) \/ conf.endpoint \notin {"unix", "tcp"}
          /\ Exit

(* grpc.NewServer, its assignment and the registration of the services.    *)
Register ==
    /\ p.serve = "server"
    /\ p' = [p EXCEPT !.serve = IF conf.test THEN "done" ELSE "serve",
                      !.services = {"identity", "controller", "node"}]
    /\ UNCHANGED env

(* Test mode: wg.Done, and the goroutine that will stop the server.        *)
Done ==
    /\ p.serve = "done"
    /\ p' = [p EXCEPT !.serve = "serve", !.wg = @ - 1, !.stopper = "wait"]
    /\ UNCHANGED env

(* server.Serve: when the server is already stopped it closes the listener *)
(* and with it the socket file, and the process ends with klog.Fatalf.     *)
Serve ==
    /\ p.serve = "serve"
    /\ \/ /\ p.stopper # "stopped"
          /\ p' = [p EXCEPT !.serve = "serving"]
          /\ UNCHANGED env
       \/ /\ p.stopper = "stopped"
          /\ alive' = FALSE
          /\ socket' = IF socket = "bound" THEN "absent" ELSE socket
          /\ UNCHANGED <<restarts, conf, p>>

ServeStep == Listen \/ Register \/ Done \/ Serve

(* Test mode: the stopper waits for wg, sleeps for a second and calls      *)
(* GracefulStop. It closes the listeners Serve has taken over, and with    *)
(* them the socket file.                                                   *)
GracefulStop ==
    /\ p.stopper = "wait" /\ p.wg = 0
    /\ p' = [p EXCEPT !.stopper = "stopped",
                      !.serve = IF @ = "serving" THEN "stopped" ELSE @]
    /\ socket' = IF p.serve = "serving" /\ socket = "bound" THEN "absent" ELSE socket
    /\ UNCHANGED <<alive, restarts, conf>>
-----------------------------------------------------------------------------
(* IdentityServer.Probe: ready when the driver has a name and a version.   *)
Probe ==
    /\ p.serve = "serving"
    /\ p' = [p EXCEPT !.probe = IF "name" \in p.driver THEN "ready" ELSE "notready"]
    /\ UNCHANGED env

(* The container is killed at any moment, and started again.               *)
Kill == restarts < MaxRestarts /\ Exit

Restart ==
    /\ ~alive
    /\ restarts < MaxRestarts
    /\ restarts' = restarts + 1
    /\ alive' = TRUE
    /\ p' = Fresh
    /\ UNCHANGED <<conf, socket>>

Next == \/ alive /\ (Main \/ ServeStep \/ GracefulStop \/ Probe \/ Kill)
        \/ Restart

Spec == Init /\ [][Next]_vars

(* The two goroutines are scheduled, and the container is restarted.       *)
FairSpec == /\ Spec
            /\ WF_vars(alive /\ Main)
            /\ WF_vars(alive /\ ServeStep)
            /\ WF_vars(Restart)
-----------------------------------------------------------------------------
(* Properties.                                                             *)

DriverParts == {"name", "locks", "options", "node", "collector"}
Services    == {"identity", "controller", "node"}

Memory ==
    [main : {"metrics", "rc", "driver", "options", "node", "start", "wait", "returned"},
     serve : {"none", "listen", "server", "done", "serve", "serving", "stopped"},
     stopper : {"none", "wait", "stopped"},
     wg : 0 .. 1,
     services : SUBSET Services,
     driver : SUBSET DriverParts,
     http : SUBSET {"metrics", "rc"},
     probe : {"none", "ready", "notready"}]

(* Every variable holds a value of its kind.                               *)
TypeOK ==
    /\ alive \in BOOLEAN
    /\ restarts \in 0 .. MaxRestarts
    /\ conf \in Configs
    /\ socket \in {"absent", "bound", "stale"}
    /\ p \in Memory

(* A Probe that answers ready, and every call that can reach a service,    *)
(* meets a driver that is complete: Run initialises rclone, the node       *)
(* server and the collector before the goroutine of serve may listen.      *)
ReadyIsTrue ==
    alive /\ (p.serve = "serving" \/ p.probe = "ready") =>
        /\ DriverParts \ {"name"} \subseteq p.driver
        /\ p.probe = "ready" => "name" \in p.driver
        /\ p.services = Services

ValidConf ==
    /\ ~conf.test
    /\ conf.metrics.on => ValidMetrics(conf.metrics)
    /\ conf.rc.on => ValidRC(conf.rc)
    /\ conf.environ
    /\ conf.endpoint \in {"unix", "tcp"}

(* However often the process was killed, and wherever it was then, with a  *)
(* valid command line it comes up and goes on serving: a left over socket  *)
(* file does not stop the next start, and Wait does not return to main     *)
(* while the server serves.                                                *)
ComesUp == ValidConf => <>[](alive /\ p.serve = "serving")
=============================================================================
