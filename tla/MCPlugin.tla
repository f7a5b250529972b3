------------------------------ MODULE MCPlugin ------------------------------
(* Command lines for TLC.                                                  *)
EXTENDS Plugin

Metrics(on, path, neg) == [on |-> on, path |-> path, negativeTimeout |-> neg]
RC(on, noAuth, user, pass) ==
    [on |-> on, noAuth |-> noAuth, user |-> user, pass |-> pass]
Conf(m, r, e, n, v, t) == [metrics |-> m, rc |-> r, endpoint |-> e, named |-> n,
                           environ |-> v, test |-> t]

NoMetrics == Metrics(FALSE, "/metrics", FALSE)
NoRC      == RC(FALSE, FALSE, FALSE, FALSE)

(* Every server off, on and on with options that Validate refuses, and the *)
(* command lines of a test. UNIX is accepted by ParseEndpoint only.        *)
MCConfigs ==
    {Conf(m, r, e, n, v, FALSE) :
        m \in {NoMetrics, Metrics(TRUE, "/metrics", FALSE),
               Metrics(TRUE, "metrics", FALSE), Metrics(TRUE, "/metrics", TRUE)},
        r \in {NoRC} \cup {RC(TRUE, n, u, u) : n, u \in BOOLEAN},
        e \in {"unix", "tcp", "UNIX", "http"}, n, v \in BOOLEAN}
    \cup {Conf(NoMetrics, NoRC, e, TRUE, v, TRUE) :
             e \in {"unix", "tcp"}, v \in BOOLEAN}
=============================================================================
