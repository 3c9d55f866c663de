---------------------------- MODULE MCDetection ----------------------------
(***************************************************************************)
(* Detection instantiated for TLC: every detector, over the workloads that *)
(* tell them apart.                                                        *)
(***************************************************************************)
EXTENDS Detection, TLC

CONSTANT client

Container(detector, ports, override) ==
    [kind |-> "docker", detector |-> detector, ports |-> ports, override |-> override]
Unit(detector, ports) ==
    [kind |-> "systemd", detector |-> detector, ports |-> ports, override |-> FALSE]

AllDetectors ==
    {Container("conntrack", {"tcp", "udp"}, FALSE),
     Container("tcp", {"tcp"}, FALSE),
     Container("netio", {"udp"}, FALSE),
     Container("conntrack", {}, TRUE),
     Unit("tcp", {"udp"}),
     Unit("none", {})}
JustNetio == {Container("netio", {"udp"}, FALSE)}

=============================================================================
