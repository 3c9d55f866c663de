---------------------------- MODULE MCDockerSwap ----------------------------
(***************************************************************************)
(* DockerSwap instantiated for TLC.                                        *)
(***************************************************************************)
EXTENDS DockerSwap, TLC

CONSTANTS d1, d2, d3

TwoImages   == {d1, d2}
ThreeImages == {d1, d2, d3}

=============================================================================
