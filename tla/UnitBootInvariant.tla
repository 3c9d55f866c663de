------------------------- MODULE UnitBootInvariant -------------------------
(***************************************************************************)
(* The inductive invariants behind the safety properties of UnitBoot,      *)
(* beside those of UnitSwap, most of which hold through reboots as well:   *)
(*  - SeedInv: nothing has happened to a unit that has no profile yet, or  *)
(*    whose profile prepare is about to seed;                              *)
(*  - StartAwaited and RunsUnlessOvertaken: of what the unit runs, before   *)
(*    the boot's start and after it;                                       *)
(*  - BootFits: of what prepare has read, and what it leaves, while nobody *)
(*    else moves the unit.                                                 *)
(* TLC checks them on small instances; UnitBoot_proofs proves them.        *)
(***************************************************************************)
EXTENDS UnitBoot, UnitSwapInvariant

\* The unit has never run, and no daemon has anything on record of it.
NeverRan ==
    /\ IsStopped(unit.active) /\ IsStopped(job.active)
    /\ ~mem.swapping.on /\ mem.good = 0
    /\ ~disk.swapping.on /\ disk.good = 0
    /\ ungated = {}
    /\ job.task = "none"
    /\ pc = "off" => ~seen
    /\ pc \in {"off", "idle", "firstSight", "relook", "act",
                "stoppedBind", "stoppedSet", "stoppedReload", "end"}

SeedInv ==
    /\ cur = 0 \/ boot.pc = "seed" => NeverRan
    /\ boot.pc = "seed" => boot.want # None

(***************************************************************************)
(* While the boot's start is to come, prepare has failed nothing and the   *)
(* daemon has not moved the unit: the closure drop-in is not there until   *)
(* prepare writes it, for what the profile names by then.                  *)
(***************************************************************************)
BootFits ==
    boot.starting /\ ~boot.moved /\ ~boot.failed =>
        /\ boot.pc \in {"read", "seed", "check", "write"} => file = None /\ loaded = None
        /\ boot.pc = "seed" => boot.current = boot.want
        /\ boot.pc \in {"check", "write"} => Target(cur) = boot.current
        /\ boot.pc \in {"check", "write", "reload", "done"} => Target(cur) # None
        /\ boot.pc = "reload" => file = Target(cur)
        /\ boot.pc = "done" /\ BindClosure => file = Target(cur) /\ loaded = Target(cur)

(***************************************************************************)
(* Before the boot's start, and with nobody else starting it, the unit is  *)
(* down and every pass since finds it so.                                  *)
(***************************************************************************)
StartAwaited ==
    boot.starting /\ spent.outside = 0 =>
        /\ unit.active = "inactive" /\ job.active = "inactive"
        /\ \/ pc \in {"off", "idle", "firstSight", "resumed", "relook", "act",
                      "stoppedBind", "stoppedSet", "stoppedReload", "end"}
           \/ pc \in PutBackSteps /\ job.task = "resume"

\* RunInv, unless the boot has started the unit while it was taken for stopped.
RunsUnlessOvertaken == ~boot.overtook => RunInv

\* RecoveryInv, once there is a profile.
SeededRecovers == cur # 0 => RecoveryInv

BootInv == /\ ClosureInv /\ SeedInv /\ SeededRecovers /\ RestartInv
           /\ StartAwaited /\ RunsUnlessOvertaken /\ BootFits

=============================================================================
