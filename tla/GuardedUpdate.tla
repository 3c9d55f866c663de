--------------------------- MODULE GuardedUpdate ---------------------------
(***************************************************************************)
(* What a source promises of a service it updates, whatever swapping one   *)
(* is made of: there is always a proven version to go back to; another one *)
(* is tried beside it and takes its place only by passing a gate; and a    *)
(* version a gate rejected is not tried again until there is a reason to   *)
(* reconsider.  Its one promise about failure is that it changes nothing   *)
(* here: a trial that is withdrawn leaves the proven version proven.       *)
(***************************************************************************)
CONSTANTS Versions, None

VARIABLES
    proven,      \* the version that last passed a gate
    trial,       \* the one standing that has not, None when there is none
    rejected     \* the versions a gate found unhealthy

vars == <<proven, trial, rejected>>

Init == proven \in Versions /\ trial = None /\ rejected = {}

Try(v) ==
    /\ trial = None /\ v \notin rejected
    /\ trial' = v
    /\ UNCHANGED <<proven, rejected>>

Accept ==
    /\ trial # None /\ trial \notin rejected
    /\ proven' = trial /\ trial' = None
    /\ UNCHANGED rejected

Reject ==
    /\ trial # None
    /\ rejected' = {trial}
    /\ UNCHANGED <<proven, trial>>

Withdraw ==
    /\ trial # None /\ trial' = None
    /\ UNCHANGED <<proven, rejected>>

Reconsider == rejected' = {} /\ UNCHANGED <<proven, trial>>

Next == (\E v \in Versions : Try(v)) \/ Accept \/ Reject \/ Withdraw \/ Reconsider

Spec == Init /\ [][Next]_vars

=============================================================================
