---------------------------- MODULE MCHealthGate ----------------------------
(***************************************************************************)
(* HealthGate instantiated for TLC: every check, over the containers and   *)
(* the units that tell them apart.                                         *)
(***************************************************************************)
EXTENDS HealthGate, TLC

Gated(kind, own, ports) ==
    [kind |-> kind, timeout |-> 4, checks |-> {own, "uptime", "port-bound", "port-connect"},
     ports |-> ports, routed |-> TRUE, proxied |-> FALSE, healthcheck |-> FALSE, resumed |-> FALSE]

Container == Gated("docker", "docker", "tcp")
Unit      == Gated("systemd", "systemd", "tcp")

AllKinds ==
    {[Container EXCEPT !.healthcheck = TRUE],
     [Container EXCEPT !.timeout = 2],
     [Container EXCEPT !.proxied = TRUE],
     [Container EXCEPT !.ports = "udp"],
     [Container EXCEPT !.routed = FALSE, !.healthcheck = TRUE, !.checks = @ \ {"uptime"}],
     [Container EXCEPT !.ports = "none"],
     Unit,
     [Unit EXCEPT !.timeout = 1],
     [Unit EXCEPT !.ports = "udp", !.checks = @ \ {"systemd"}],
     [Unit EXCEPT !.resumed = TRUE, !.checks = {"systemd", "port-bound"}]}
=============================================================================
