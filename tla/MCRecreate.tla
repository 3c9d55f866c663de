----------------------------- MODULE MCRecreate -----------------------------
(***************************************************************************)
(* Recreate, and the client under it, instantiated for TLC.                *)
(***************************************************************************)
EXTENDS Recreate, TLC

CONSTANTS pass, pull, i1, i2, a, b, e1, e2, k1, k2

\* Docker 24, 26 and later, 29, and two to come.
FewOffers == {[oldest |-> 12, newest |-> 43], [oldest |-> 24, newest |-> 51], [oldest |-> 44, newest |-> 52],
              [oldest |-> 44, newest |-> 58], [oldest |-> 57, newest |-> 60]}

=============================================================================
