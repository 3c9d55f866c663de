----------------------------- MODULE MCUnitBoot -----------------------------
(***************************************************************************)
(* UnitBoot instantiated for TLC.                                          *)
(***************************************************************************)
EXTENDS UnitBoot, TLC

CONSTANTS v1, v2

TwoVersions == {v1, v2}
\* The two versions are alike, so the profile starts on the first.
JustV1      == {v1}
Inactive    == {"inactive"}

=============================================================================
