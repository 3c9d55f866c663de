------------------------------- MODULE Decide -------------------------------
(***************************************************************************)
(* The pure decision shared by every source (src/internal/decide): what to *)
(* do with one workload this pass.  Digests, image tags and store paths    *)
(* are all opaque here, compared only for equality; None is the empty      *)
(* string.                                                                 *)
(***************************************************************************)
EXTENDS Integers

CONSTANT None            \* no digest, no store path: "" in the code

Kinds == {"keep", "update", "defer", "pinned"}

(***************************************************************************)
(* The order of the branches is the policy: a pin wins even over "already  *)
(* there", and both win over anyone being on.                              *)
(***************************************************************************)
DecideKind(pinned, current, desired, inUse, streak, idleSamples) ==
    IF pinned # None /\ pinned = desired       THEN "pinned"
    ELSE IF current = desired                  THEN "keep"
    ELSE IF inUse \/ streak < idleSamples      THEN "defer"
    ELSE "update"

(***************************************************************************)
(* The idle streak after a sample.  The code counts without a ceiling; the *)
(* streak is only ever compared with idleSamples, so it is capped there.   *)
(***************************************************************************)
NextStreakShort(streak, idle, idleSamples) ==   \* Mutant: stops one short.
    IF idle /\ streak + 1 < idleSamples THEN streak + 1 ELSE 0
NextStreakDecays(streak, idle, idleSamples) ==  \* Mutant: a busy sample takes one off.
    IF ~idle THEN streak - 1
    ELSE IF streak < idleSamples THEN streak + 1 ELSE idleSamples
NextStreak(streak, idle, idleSamples) ==
    IF ~idle THEN 0
    ELSE IF streak < idleSamples THEN streak + 1 ELSE idleSamples

=============================================================================
