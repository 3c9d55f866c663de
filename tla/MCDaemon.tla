------------------------------ MODULE MCDaemon ------------------------------
(***************************************************************************)
(* Daemon instantiated for TLC: a systemd source, then a Docker source.    *)
(***************************************************************************)
EXTENDS Daemon, TLC

CONSTANTS unit, container

OneEach == <<{unit}, {container}>>
JustOne == <<{unit}>>
AnyCall == Calls

\* From the start a reboot is needed: until one is, a pass leads to nothing more.
NeededInit == Init /\ needed
NeededSpec == NeededInit /\ [][Next]_vars

=============================================================================
