------------------------------ MODULE UnitBoot ------------------------------
(***************************************************************************)
(* UnitSwap with the machine it runs on: it boots, and reboots at any      *)
(* point of a swap, and at each boot tidewaiter-prepare.service            *)
(* (src/internal/systemd, prepare.go) makes the unit startable before      *)
(* systemd starts it, beside a daemon that is ordered after neither        *)
(* (src/nix/module.nix).                                                   *)
(*                                                                         *)
(* /run, where the closure drop-in is, and everything in memory are gone   *)
(* after a reboot; the profile and the state file are not.  prepare is run *)
(* again by every switch that changes a declaration.  A start of the unit, *)
(* whoever asks for it, waits for a prepare under way.                     *)
(* Bounds: UnitSwap's; a reboot is one of the MaxCrashes.                  *)
(***************************************************************************)
EXTENDS UnitSwap

CONSTANT FirstVersions     \* what the profile may be on when the model starts
ASSUME FirstVersionsAssumption == FirstVersions \subseteq Versions

VARIABLE
    boot         \* the prepare under way, and whether the unit is to be started

bootVars == <<vars, boot>>

Boots == [pc : {"read", "seed", "check", "write", "reload", "done"},
          want : MaybeVersion, current : MaybeVersion,
          starting : BOOLEAN, moved : BOOLEAN, overtook : BOOLEAN,
          failed : BOOLEAN]
Booting == [pc |-> "read", want |-> None, current |-> None,
            starting |-> TRUE, moved |-> FALSE, overtook |-> FALSE, failed |-> FALSE]

-----------------------------------------------------------------------------
(* prepare, for the unit.                                                  *)

Step(step) == boot' = [boot EXCEPT !.pc = step]
Undisturbed == UNCHANGED <<unit, busy, desired, disk, daemon, attention, abandoned, condemned,
                          spent>>

\* Mutant: the closure bound is the declaration's, not what the profile is on.
BoundForDeclared(current, want) == want
\* What the drop-in is for: what the profile points at, or is now set to.
BoundFor(current, want) == IF current = None THEN want ELSE current

\* Mutant: prepare sets the profile to what is declared, whatever it is on.
PrepareReadsNothing ==
    /\ boot.pc = "read"
    /\ boot' = [boot EXCEPT !.want = desired, !.current = desired, !.pc = "seed"]
    /\ Undisturbed /\ UNCHANGED <<gens, cur, file, loaded, ungated>>

\* A profile there is left alone; a confined unit's drop-in is seen to.
PrepareReads ==
    /\ boot.pc = "read"
    /\ boot' = [boot EXCEPT !.want = desired, !.current = BoundFor(Target(cur), desired),
                            !.pc = IF Target(cur) = None THEN "seed"
                                   ELSE IF BindClosure THEN "check" ELSE "done"]
    /\ Undisturbed /\ UNCHANGED <<gens, cur, file, loaded, ungated>>

PrepareSeeds ==
    /\ boot.pc = "seed"
    /\ \E g \in Generations : ProfileSet(boot.want, g) /\ ungated' = ungated \ {g}
    /\ Step(IF BindClosure THEN "check" ELSE "done")
    /\ Undisturbed /\ UNCHANGED <<file, loaded>>

\* A drop-in that is there is the daemon's, or its own of before: it stays.
PrepareChecks ==
    /\ boot.pc = "check"
    /\ Step(IF file # None THEN "done" ELSE "write")
    /\ Undisturbed /\ UNCHANGED <<gens, cur, file, loaded, ungated>>

\* Created only if it still is not there.
PrepareWrites ==
    /\ boot.pc = "write"
    /\ IF file = None
       THEN file' = boot.current /\ Step("reload")
       ELSE file' = file /\ Step("done")
    /\ Undisturbed /\ UNCHANGED <<gens, cur, loaded, ungated>>

PrepareReloads ==
    /\ boot.pc = "reload"
    /\ loaded' = file
    /\ Step("done")
    /\ Undisturbed /\ UNCHANGED <<gens, cur, file, ungated>>

(***************************************************************************)
(* What fails is logged; the unit is started all the same (Wants, not      *)
(* Requires).  Bound: it happens once.                                     *)
(***************************************************************************)
PrepareFails ==
    /\ boot.pc # "done" /\ ~boot.failed
    /\ loaded' \in (IF boot.pc = "reload" THEN {loaded, file} ELSE {loaded})
    /\ boot' = [boot EXCEPT !.pc = "done", !.failed = TRUE]
    /\ Undisturbed /\ UNCHANGED <<gens, cur, file, ungated>>

Prepare == \/ PrepareReads \/ PrepareSeeds \/ PrepareChecks \/ PrepareWrites
           \/ PrepareReloads \/ PrepareFails

-----------------------------------------------------------------------------
(* The machine.                                                            *)

\* Down and up again: nothing runs, and what was in memory and in /run is gone.
Reboot ==
    /\ spent.crashes < MaxCrashes
    /\ spent' = [spent EXCEPT !.crashes = @ + 1]
    /\ boot' = [Booting EXCEPT !.overtook = boot.overtook, !.failed = boot.failed]
    /\ unit' = [active |-> "inactive", runs |-> None, inv |-> Fresh]
    /\ busy' = FALSE /\ file' = None /\ loaded' = None
    /\ pc' = "off" /\ job' = NoJob /\ mem' = NoMemory
    /\ streak' = 0 /\ seen' = FALSE /\ held' = FALSE
    /\ UNCHANGED <<gens, cur, desired, disk, history>>

\* The unit is about to be taken for a stopped one.
TakenForStopped == /\ IsStopped(job.active)
                   /\ pc \in {"firstSight", "act", "stoppedBind", "stoppedSet", "switch"}

\* The boot starts the unit.
BootStarts ==
    /\ boot.pc = "done" /\ boot.starting
    /\ IF CanStart THEN Starts("activating") ELSE Starts("failed")
    /\ boot' = [boot EXCEPT !.starting = FALSE, !.moved = FALSE,
                            !.overtook = @ \/ TakenForStopped]
    /\ UNCHANGED <<gens, cur, file, loaded, desired, disk, daemon, history, spent>>

\* moved: the daemon has moved the profile or its drop-in before the boot's start.
Beside(A) ==
    /\ A
    /\ unit'.inv # unit.inv => boot.pc = "done"
    /\ boot' = [boot EXCEPT !.moved =
                    @ \/ (boot.starting /\ <<gens, cur, file>>' # <<gens, cur, file>>)]

\* A switch that changes the declaration runs prepare again.
Declared ==
    /\ boot.pc = "done" /\ ~boot.starting
    /\ Deploy
    /\ boot' = [Booting EXCEPT !.starting = FALSE, !.overtook = boot.overtook,
                               !.failed = boot.failed]

-----------------------------------------------------------------------------
(* The specification.                                                      *)

\* The machine boots, with a profile or with none, on what was asked for or not.
BootInit ==
    \E v \in FirstVersions, seeded \in BOOLEAN :
        /\ unit = [active |-> "inactive", inv |-> 0, runs |-> None]
        /\ busy = FALSE
        /\ gens = [g \in Generations |-> IF seeded /\ g = 1 THEN v ELSE None]
        /\ cur = (IF seeded THEN 1 ELSE 0)
        /\ file = None /\ loaded = None
        /\ desired \in Versions
        /\ disk = NoMemory /\ mem = NoMemory
        /\ streak = 0 /\ seen = FALSE /\ held = FALSE
        /\ pc = "off" /\ job = NoJob
        /\ attention = FALSE /\ abandoned = FALSE /\ ungated = {} /\ condemned = {}
        /\ spent = [faults |-> 0, crashes |-> 0, outside |-> 0, deploys |-> 0]
        /\ boot = Booting

DaemonSteps == Beside(Daemon)
World == Crash \/ UnitDies \/ OthersStart \/ UnitStopped \/ UnitReady \/ PlayersComeOrGo
BootNext == DaemonSteps \/ Beside(World) \/ Prepare \/ Reboot \/ BootStarts \/ Declared

BootSpec == BootInit /\ [][BootNext]_bootVars

(***************************************************************************)
(* As in UnitSwap; and systemd runs prepare and starts the unit.           *)
(***************************************************************************)
BootFairSpec == /\ BootSpec
                /\ WF_bootVars(DaemonSteps)
                /\ WF_bootVars(Beside(UnitReady))
                /\ WF_bootVars(Prepare) /\ WF_bootVars(BootStarts)

-----------------------------------------------------------------------------
(* Properties.                                                             *)

BootTypeOK == TypeOK /\ boot \in Boots

(***************************************************************************)
(* Whatever a reboot cut short, what prepare leaves can be started: the    *)
(* profile names a version, a rolled back one too, and systemd has its     *)
(* closure loaded.  Unless a call of prepare's failed, or the daemon moved *)
(* the unit itself meanwhile.                                              *)
(***************************************************************************)
PreparedCanStart ==
    boot.pc = "done" /\ boot.starting /\ ~boot.moved /\ ~boot.failed => CanStart

(***************************************************************************)
(* UnitSwap's UpRunsItsProfile, through reboots at any point of a swap:    *)
(* the boot's start of the unit while the daemon takes it for stopped is   *)
(* the only way to a unit that runs something else unnoticed.              *)
(***************************************************************************)
UpRunsUnlessOvertaken == ~boot.overtook => UpRunsItsProfile

(***************************************************************************)
(* UnitSwap's convergence, through reboots at any point of a swap.  Unless *)
(* the boot started the unit while the daemon, which found it stopped, was *)
(* moving its profile: see the run BootOvertaken.                          *)
(***************************************************************************)
ConvergesThroughReboots == <>[](~busy) => <>[](Settled \/ boot.overtook)

=============================================================================
