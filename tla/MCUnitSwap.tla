----------------------------- MODULE MCUnitSwap -----------------------------
(***************************************************************************)
(* UnitSwap instantiated for TLC.                                          *)
(***************************************************************************)
EXTENDS UnitSwapInvariant, TLC

CONSTANTS v1, v2

TwoVersions == {v1, v2}
OnlyUp    == {"up"}

SymTwo == Permutations(TwoVersions)

=============================================================================
