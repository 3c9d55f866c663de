--------------------------- MODULE UnitBoot_proofs ---------------------------
(***************************************************************************)
(* Theorems about UnitBoot, for every value of its constants: what of      *)
(* UnitSwap holds through reboots as well, and what prepare leaves.  The   *)
(* steps of UnitSwap are taken from the lemmas about it; the steps that    *)
(* are UnitBoot's own - prepare, a reboot, the boot's start - are added.   *)
(***************************************************************************)
EXTENDS UnitBootInvariant, UnitRecovery_proofs

-----------------------------------------------------------------------------
(* The steps.                                                              *)

\* The daemon, the world and a deploy step as they do in UnitSwap.
LEMMA StepsOfUnitSwap ==
  ASSUME DaemonSteps \/ Beside(World) \/ Declared
  PROVE  Next
BY DEF DaemonSteps, Beside, World, Declared, Next, Environment

\* What prepare never touches, whatever it does.
LEMMA PrepareUndisturbing ==
  ASSUME Prepare
  PROVE  UNCHANGED <<unit, busy, desired, disk, mem, streak, seen, held, pc, job,
                     attention, abandoned, condemned, spent>>
BY DEF Prepare, PrepareReads, PrepareSeeds, PrepareChecks, PrepareWrites, PrepareReloads,
       PrepareFails, Undisturbed, daemon

\* Nor does it touch the profile, but to seed it.
LEMMA PrepareMovesProfile ==
  ASSUME Prepare
  PROVE  PrepareSeeds \/ UNCHANGED <<gens, cur, ungated>>
BY DEF Prepare, PrepareReads, PrepareChecks, PrepareWrites, PrepareReloads, PrepareFails

\* The boot's start is a start of the unit and nothing else.
LEMMA BootStartsStarts ==
  ASSUME BootStarts
  PROVE  /\ \E active \in {"activating", "failed"} :
              Starts(active) /\ (active = "activating" => CanStart)
         /\ UNCHANGED <<gens, cur, file, loaded, desired, disk, mem, streak, seen, held, pc, job,
                        history, spent>>
BY DEF BootStarts, daemon

-----------------------------------------------------------------------------
(* Type correctness.                                                       *)

LEMMA BoundForType ==
  ASSUME TypeOK
  PROVE  BoundFor(Target(cur), desired) \in MaybeVersion /\ desired \in MaybeVersion
<1>1. Target(cur) \in MaybeVersion
  BY TargetType DEF TypeOK
<1> QED BY <1>1 DEF BoundFor, TypeOK, MaybeVersion

LEMMA BootTypeInit == BootInit => BootTypeOK
<1> SUFFICES ASSUME NEW v \in FirstVersions, NEW seeded \in BOOLEAN, BootInit!(v, seeded)
             PROVE  BootTypeOK
  BY DEF BootInit
<1>1. unit \in Units
  BY DEF Units, ActiveStates, MaybeVersion, InvocationIds
<1>2. gens \in [Generations -> MaybeVersion] /\ cur \in MaybeGen
  BY GenerationsAssumption, FirstVersionsAssumption DEF MaybeVersion, MaybeGen, Generations
<1>3. streak \in 0..IdleSamples
  BY PolicyAssumption
<1>4. spent \in Spendings
  BY DEF Spendings
<1>5. boot \in Boots
  BY DEF Booting, Boots, MaybeVersion
<1> QED BY <1>1, <1>2, <1>3, <1>4, <1>5, NoMemoryType, NoJobType
       DEF BootTypeOK, TypeOK, Steps, MaybeVersion

LEMMA BootTypePrepare ==
  ASSUME BootTypeOK, Prepare
  PROVE  BootTypeOK'
<1>1. /\ file' \in MaybeVersion /\ loaded' \in MaybeVersion /\ boot' \in Boots
      /\ gens' \in [Generations -> MaybeVersion] /\ cur' \in MaybeGen /\ ungated' \subseteq Generations
  <2> TypeOK /\ boot \in Boots
    BY DEF BootTypeOK
  <2>1. CASE PrepareReads
    <3>1. boot' \in Boots
      BY <2>1, BoundForType DEF PrepareReads, Boots
    <3> QED BY <2>1, <3>1 DEF PrepareReads, TypeOK
  <2>2. CASE PrepareSeeds
    <3>1. boot' \in Boots
      BY <2>2 DEF PrepareSeeds, Step, Boots
    <3>2. PICK g \in Generations : ProfileSet(boot.want, g) /\ ungated' = ungated \ {g}
      BY <2>2 DEF PrepareSeeds
    <3>3. boot.want \in MaybeVersion
      BY DEF Boots
    <3> QED BY <2>2, <3>1, <3>2, <3>3 DEF PrepareSeeds, ProfileSet, TypeOK, MaybeGen
  <2>3. CASE PrepareChecks
    BY <2>3 DEF PrepareChecks, Step, Boots, TypeOK
  <2>4. CASE PrepareWrites
    BY <2>4 DEF PrepareWrites, Step, Boots, TypeOK
  <2>5. CASE PrepareReloads
    BY <2>5 DEF PrepareReloads, Step, Boots, TypeOK
  <2>6. CASE PrepareFails
    BY <2>6 DEF PrepareFails, Boots, TypeOK
  <2> QED BY <2>1, <2>2, <2>3, <2>4, <2>5, <2>6 DEF Prepare
<1> QED BY <1>1, PrepareUndisturbing DEF BootTypeOK, TypeOK

LEMMA BootTypeStep == BootTypeOK /\ [BootNext]_bootVars => BootTypeOK'
<1> SUFFICES ASSUME BootTypeOK, [BootNext]_bootVars PROVE BootTypeOK'
  OBVIOUS
<1> TypeOK /\ boot \in Boots
  BY DEF BootTypeOK
<1>1. CASE UNCHANGED bootVars
  <2>1. TypeOK' /\ boot' \in Boots
    BY <1>1, TypeStep DEF bootVars
  <2> QED BY <2>1 DEF BootTypeOK
<1>2. CASE DaemonSteps \/ Beside(World) \/ Declared
  <2>1. TypeOK'
    BY <1>2, StepsOfUnitSwap, TypeStep
  <2>2. boot' \in Boots
    BY <1>2 DEF DaemonSteps, Beside, Declared, Booting, Boots, MaybeVersion
  <2> QED BY <2>1, <2>2 DEF BootTypeOK
<1>3. CASE Prepare
  BY <1>3, BootTypePrepare
<1>4. CASE Reboot
  <2>1. Fresh \in InvocationIds
    BY FreshType
  <2>2. unit' \in Units /\ spent' \in Spendings /\ streak' \in 0..IdleSamples
    BY <1>4, <2>1, PolicyAssumption DEF Reboot, Units, ActiveStates, MaybeVersion, TypeOK, Spendings
  <2>3. boot' \in Boots
    BY <1>4 DEF Reboot, Booting, Boots, MaybeVersion
  <2> QED BY <1>4, <2>2, <2>3, NoJobType, NoMemoryType
         DEF Reboot, BootTypeOK, TypeOK, Steps, MaybeVersion, history
<1>5. CASE BootStarts
  <2>1. unit' \in Units /\ busy' \in BOOLEAN
    BY <1>5, StartsType, BootStartsStarts DEF ActiveStates
  <2>2. boot' \in Boots
    BY <1>5 DEF BootStarts, TakenForStopped, IsStopped, Boots
  <2> QED BY <1>5, <2>1, <2>2, BootStartsStarts DEF BootTypeOK, TypeOK, history
<1> QED BY <1>1, <1>2, <1>3, <1>4, <1>5 DEF BootNext

(***************************************************************************)
(* The variables stay in their types through reboots, and so does what     *)
(* prepare has read.                                                       *)
(***************************************************************************)
THEOREM BootTypeCorrect == BootSpec => []BootTypeOK
<1> QED BY BootTypeInit, BootTypeStep, PTL DEF BootSpec

-----------------------------------------------------------------------------
(* A unit that has no profile yet.                                         *)

USE DEF ClosureInv, CurExists, WantsOne, LookHolds, RecordsAgree, NotSetYet, SwapFits, ClosureFits,
        GateFits, PutBackFits, RecordFits, GoesBackTo, OnRecord, MustRestart, Exists, Target,
        SeedInv, NeverRan, IsStopped

\* What prepare is to seed a profile with is a version; and so it seeds one.
LEMMA SeedKeeps ==
  ASSUME BootTypeOK, CurExists, SeedInv, PrepareSeeds
  PROVE  /\ NeverRan /\ CurExists' /\ cur' # 0 /\ Target(cur)' = boot.want /\ ungated' = {}
         /\ \A r \in SwapRecords : RecordFits(r) => RecordFits(r)'
<1>1. boot.want \in Versions
  BY DEF PrepareSeeds, BootTypeOK, Boots, MaybeVersion
<1>2. PICK g \in Generations : ProfileSet(boot.want, g) /\ ungated' = ungated \ {g}
  BY DEF PrepareSeeds
<1>3. cur' = g /\ g # 0
  BY <1>2 DEF ProfileSet, Generations
<1>4. NeverRan
  BY DEF PrepareSeeds
<1>5. CurExists' /\ Target(cur)' = boot.want /\ \A r \in SwapRecords : RecordFits(r) => RecordFits(r)'
  BY <1>1, <1>2, SetKeeps DEF BootTypeOK
<1> QED BY <1>2, <1>3, <1>4, <1>5

\* A pass over a unit that never ran finds nothing to recover, and starts nothing.
LEMMA NeverRanDaemon ==
  ASSUME TypeOK, ClosureInv, NeverRan, Daemon
  PROVE  NeverRan'
<1>1. Start \/ Look \/ EndPass \/ NothingToRecover \/ Relook \/ Stopped
  BY DEF Daemon, SampleAndDecide, FirstSight, ResumePutBack, ResumeGate, ResumeRollBack, Adopt, IsUp,
         RollBackInterrupted, FailedNewer,
         PutBack, Switch, SwitchFails, Delete, Rebind, RebindFails, Rereload, RereloadFails, Resumed,
         Swap, SomeoneArrived, Record, RecordFails, Bind, Reload, SetProfile, SetProfileFails,
         RestartDone, RestartFails, RestartLost, UndoRestart, UndoRestartFails, Undone,
         Gate, Baseline, BaselineFails, Healthy, Unhealthy, Prune, Commit, RollBackRestart,
         FinishRollBack
<1>2. CASE Start
  BY <1>2 DEF Start, machine, history
<1>3. CASE Look
  <2>1. job'.active = unit.active /\ job'.task = "none"
    BY <1>3 DEF Look, GotoJob, Looked, NoJob
  <2>2. mem'.swapping = mem.swapping /\ mem'.good = mem.good
    BY <1>3 DEF Look, Forget, TypeOK, UnitMemories
  <2> QED BY <1>3, <2>1, <2>2 DEF Look, GotoJob, machine, history
<1>4. CASE EndPass
  BY <1>4 DEF EndPass, GotoJob, NoJob, SaveAs, machine, history
<1>5. CASE NothingToRecover
  BY <1>5 DEF NothingToRecover, GotoJob, machine, history
<1>6. CASE Relook
  <2>1. job'.active \in {unit.active, job.active} /\ job'.task = job.task
    BY <1>6 DEF Relook, GotoJob, Looked, TypeOK, Jobs
  <2> QED BY <1>6, <2>1 DEF Relook, GotoJob, machine, history
<1>7. CASE Stopped
  BY <1>7 DEF Stopped, UpdateStopped, StoppedBind, StoppedSet, StoppedReload, GotoJob, machine, history
<1> QED BY <1>1, <1>2, <1>3, <1>4, <1>5, <1>6, <1>7

(***************************************************************************)
(* Nor does the world start it: systemd cannot, without a profile, and     *)
(* lets no start by while prepare is at it.                                *)
(***************************************************************************)
LEMMA NeverRanWorld ==
  ASSUME TypeOK, NeverRan, World, cur = 0 \/ unit'.inv = unit.inv
  PROVE  NeverRan' /\ cur' = cur
<1>1. CASE Crash
  BY <1>1 DEF Crash, NoJob, NoMemory, NoSwap, machine, history
<1>2. CASE UnitDies \/ UnitStopped \/ UnitReady
  BY <1>2 DEF UnitDies, UnitStopped, UnitReady
<1>3. CASE OthersStart
  <2>1. cur = 0
    BY <1>3, StartsAfresh DEF OthersStart
  <2>2. unit'.active = "failed"
    BY <1>3, <2>1 DEF OthersStart, CanStart, Starts
  <2> QED BY <1>3, <2>2 DEF OthersStart, daemon, history
<1>4. CASE PlayersComeOrGo
  BY <1>4 DEF PlayersComeOrGo
<1> QED BY <1>1, <1>2, <1>3, <1>4 DEF World

\* No step leaves a unit without its profile.
LEMMA ProfileStays ==
  ASSUME TypeOK, ClosureInv, [Next]_vars, cur' = 0
  PROVE  cur = 0
<1>1. CASE UNCHANGED vars
  BY <1>1 DEF vars, machine
<1>2. CASE Daemon
  <2>1. UNCHANGED cur \/ Switch \/ StoppedSet \/ SetProfile
    BY <1>2
       DEF Daemon, Start, Look, EndPass, Relook, SampleAndDecide, FirstSight, ResumePutBack, ResumeGate,
           ResumeRollBack, Adopt, RollBackInterrupted, NothingToRecover,
           PutBack, SwitchFails, Delete, Rebind, RebindFails, Rereload, RereloadFails, Resumed,
           Stopped, UpdateStopped, StoppedBind, StoppedReload,
           Swap, SomeoneArrived, Record, RecordFails, Bind, Reload, SetProfileFails,
           RestartDone, RestartFails, RestartLost, UndoRestart, UndoRestartFails, Undone,
           Gate, Baseline, BaselineFails, Healthy, Unhealthy, Prune, Commit, RollBackRestart,
           FinishRollBack, machine
  <2>2. CASE Switch
    BY <2>2 DEF Switch
  <2>3. CASE StoppedSet \/ SetProfile
    BY <2>3 DEF StoppedSet, SetProfile, ProfileSet, Generations
  <2> QED BY <2>1, <2>2, <2>3
<1>3. CASE Environment
  BY <1>3 DEF Environment, Crash, UnitDies, OthersStart, UnitStopped, UnitReady, PlayersComeOrGo,
         Deploy, machine
<1> QED BY <1>1, <1>2, <1>3 DEF Next

LEMMA SeedInit == BootInit => SeedInv
BY DEF BootInit, Booting, NoMemory, NoSwap, NoJob

LEMMA SeedPrepare ==
  ASSUME BootTypeOK, ClosureInv, SeedInv, Prepare
  PROVE  SeedInv'
<1>1. CASE PrepareReads
  <2>1. Target(cur) = None => cur = 0
    BY DEF BootTypeOK, TypeOK, MaybeGen
  <2>2. desired # None
    BY VersionsAssumption DEF BootTypeOK, TypeOK
  <2>3. boot'.want = desired /\ (boot'.pc = "seed" <=> Target(cur) = None)
    BY <1>1 DEF PrepareReads, BootTypeOK, Boots
  <2> QED BY <1>1, <2>1, <2>2, <2>3, PrepareUndisturbing DEF PrepareReads
<1>2. CASE PrepareSeeds
  <2>1. boot'.pc # "seed"
    BY <1>2 DEF PrepareSeeds, Step, BootTypeOK, Boots
  <2> QED BY <1>2, <2>1, SeedKeeps
<1>3. CASE PrepareChecks \/ PrepareWrites \/ PrepareReloads \/ PrepareFails
  <2>1. boot'.pc # "seed" /\ UNCHANGED <<cur, ungated>>
    BY <1>3 DEF PrepareChecks, PrepareWrites, PrepareReloads, PrepareFails, Step, BootTypeOK, Boots
  <2> QED BY <2>1, PrepareUndisturbing
<1> QED BY <1>1, <1>2, <1>3 DEF Prepare

LEMMA SeedStep == BootTypeOK /\ ClosureInv /\ SeedInv /\ [BootNext]_bootVars => SeedInv'
<1> SUFFICES ASSUME BootTypeOK, ClosureInv, SeedInv, [BootNext]_bootVars PROVE SeedInv'
  OBVIOUS
<1> TypeOK
  BY DEF BootTypeOK
<1>1. CASE UNCHANGED bootVars
  BY <1>1 DEF bootVars, vars, machine, daemon, history
<1>2. CASE DaemonSteps
  <2>1. boot'.pc = boot.pc /\ boot'.want = boot.want
    BY <1>2 DEF DaemonSteps, Beside, BootTypeOK, Boots
  <2>2. cur' = 0 => cur = 0
    BY <1>2, ProfileStays, StepsOfUnitSwap
  <2> QED BY <1>2, <2>1, <2>2, NeverRanDaemon DEF DaemonSteps, Beside
<1>3. CASE Beside(World)
  <2>1. boot'.pc = boot.pc /\ boot'.want = boot.want /\ (unit'.inv # unit.inv => boot.pc = "done")
    BY <1>3 DEF Beside, BootTypeOK, Boots
  <2>2. cur' = 0 => cur = 0
    BY <1>3, ProfileStays, StepsOfUnitSwap
  <2> QED BY <1>3, <2>1, <2>2, NeverRanWorld DEF Beside
<1>4. CASE Prepare
  BY <1>4, SeedPrepare
<1>5. CASE Reboot
  <2>1. boot'.pc = "read"
    BY <1>5 DEF Reboot, Booting
  <2> QED BY <1>5, <2>1 DEF Reboot, NoJob, NoMemory, NoSwap, history
<1>6. CASE BootStarts
  <2>1. boot'.pc = "done" /\ UNCHANGED <<cur, ungated, job, mem, disk, pc, seen>>
    BY <1>6, BootStartsStarts DEF BootStarts, BootTypeOK, Boots, history
  <2>2. cur = 0 => unit'.active = "failed"
    BY <1>6 DEF BootStarts, CanStart, Starts
  <2> QED BY <2>1, <2>2
<1>7. CASE Declared
  <2>1. boot'.pc = "read" /\ UNCHANGED <<unit, cur, ungated, job, mem, disk, pc, seen>>
    BY <1>7 DEF Declared, Deploy, Booting, machine, daemon
  <2> QED BY <2>1
<1> QED BY <1>1, <1>2, <1>3, <1>4, <1>5, <1>6, <1>7 DEF BootNext

-----------------------------------------------------------------------------
(* ClosureInv, through reboots.                                            *)

LEMMA BootClosureInit == BootInit => ClosureInv
BY GenerationsAssumption, VersionsAssumption, FirstVersionsAssumption
   DEF BootInit, NoMemory, NoSwap, NoJob, Generations

\* The drop-in prepare creates is none the daemon counts on, nor what it loads.
LEMMA ClosurePrepare ==
  ASSUME BootTypeOK, ClosureInv, SeedInv, Prepare
  PROVE  ClosureInv'
<1>0. UNCHANGED <<unit, busy, desired, disk, mem, streak, seen, held, pc, job>>
  BY PrepareUndisturbing
<1>1. CASE PrepareReads \/ PrepareChecks
  BY <1>0, <1>1 DEF PrepareReads, PrepareChecks
<1>2. CASE PrepareSeeds
  <2>1. mem.swapping \in SwapRecords /\ disk.swapping \in SwapRecords
    BY DEF BootTypeOK, TypeOK, UnitMemories
  <2>2. NeverRan /\ CurExists' /\ RecordFits(mem.swapping)' /\ RecordFits(disk.swapping)'
    BY <1>0, <1>2, <2>1, SeedKeeps
  <2> QED BY <1>0, <2>2
<1>3. CASE PrepareWrites
  <2>1. UNCHANGED <<gens, cur, loaded>> /\ (file # None => file' = file)
    BY <1>3 DEF PrepareWrites
  <2> QED BY <1>0, <2>1
<1>4. CASE PrepareReloads \/ PrepareFails
  <2>1. UNCHANGED <<gens, cur, file>> /\ loaded' \in {loaded, file}
    BY <1>4 DEF PrepareReloads, PrepareFails
  <2> QED BY <1>0, <2>1
<1> QED BY <1>1, <1>2, <1>3, <1>4 DEF Prepare

LEMMA BootClosureStep ==
  BootTypeOK /\ ClosureInv /\ SeedInv /\ [BootNext]_bootVars => ClosureInv'
<1> SUFFICES ASSUME BootTypeOK, ClosureInv, SeedInv, [BootNext]_bootVars PROVE ClosureInv'
  OBVIOUS
<1>1. CASE UNCHANGED bootVars
  BY <1>1, ClosureStep DEF bootVars, BootTypeOK
<1>2. CASE DaemonSteps \/ Beside(World) \/ Declared
  BY <1>2, StepsOfUnitSwap, ClosureStep DEF BootTypeOK
<1>3. CASE Prepare
  BY <1>3, ClosurePrepare
<1>4. CASE Reboot
  BY <1>4 DEF Reboot, NoJob, NoMemory, NoSwap, BootTypeOK, TypeOK
<1>5. CASE BootStarts
  BY <1>5, BootStartsStarts
<1> QED BY <1>1, <1>2, <1>3, <1>4, <1>5 DEF BootNext

-----------------------------------------------------------------------------
(* RecoveryInv, through reboots, once there is a profile.                  *)

USE DEF RecoveryInv, SwapMoves, GoodFits, UngatedFits, Recorded, SwapSteps, PutBackSteps, GateSteps,
        BackOrPassed, SeededRecovers

\* A unit that never ran leaves nothing to recover.
LEMMA NeverRanRecovers == TypeOK /\ NeverRan /\ cur # 0 => RecoveryInv
BY NumberTypes

LEMMA SeededInit == BootInit => SeededRecovers
BY DEF BootInit, NoMemory, NoSwap, NoJob

LEMMA SeededStep ==
  /\ BootTypeOK /\ BootTypeOK' /\ ClosureInv /\ SeedInv /\ SeededRecovers /\ [BootNext]_bootVars
  => SeededRecovers'
<1> SUFFICES ASSUME BootTypeOK, BootTypeOK', ClosureInv, SeedInv, SeededRecovers,
                    [BootNext]_bootVars, (cur # 0)'
             PROVE  RecoveryInv'
  OBVIOUS
<1> TypeOK /\ TypeOK'
  BY DEF BootTypeOK
<1> HIDE DEF RecoveryInv
<1>0. NeverRan' => RecoveryInv'
  BY NeverRanRecovers, PTL
<1>1. CASE UNCHANGED bootVars
  <2>1. UNCHANGED vars /\ cur' = cur
    BY <1>1 DEF bootVars, vars, machine
  <2> QED BY <2>1, RecoveryStep
<1>2. CASE DaemonSteps \/ Beside(World) \/ Declared
  <2>1. CASE cur # 0
    BY <1>2, <2>1, StepsOfUnitSwap, RecoveryStep
  <2>2. CASE cur = 0
    <3>1. NeverRan
      BY <2>2
    <3>2. ~Beside(World) /\ ~Declared
      BY <2>2, <3>1, NeverRanWorld DEF Beside, Declared, Deploy, machine
    <3>3. NeverRan'
      BY <1>2, <3>1, <3>2, NeverRanDaemon DEF DaemonSteps, Beside
    <3> QED BY <1>0, <3>3
  <2> QED BY <2>1, <2>2
<1>3. CASE Prepare
  <2>1. CASE PrepareSeeds
    <3>1. NeverRan /\ ungated' = {}
      BY <2>1, SeedKeeps
    <3>2. UNCHANGED <<unit, job, mem, disk, pc, seen>>
      BY <1>3, PrepareUndisturbing
    <3> QED BY <1>0, <3>1, <3>2
  <2>2. CASE UNCHANGED <<gens, cur, ungated>>
    BY <1>3, <2>2, PrepareUndisturbing DEF RecoveryInv
  <2> QED BY <1>3, <2>1, <2>2, PrepareMovesProfile
<1>4. CASE Reboot
  BY <1>4, NumberTypes DEF Reboot, NoJob, NoMemory, NoSwap, history, RecoveryInv
<1>5. CASE BootStarts
  BY <1>5, BootStartsStarts DEF history, RecoveryInv
<1> QED BY <1>1, <1>2, <1>3, <1>4, <1>5 DEF BootNext

-----------------------------------------------------------------------------
(* RestartInv, through reboots.                                            *)

USE DEF RestartInv, HoldsIt

LEMMA BootRestartInit == BootInit => RestartInv
BY DEF BootInit, NoJob

LEMMA BootRestartStep ==
  BootTypeOK /\ ClosureInv /\ RestartInv /\ [BootNext]_bootVars => RestartInv'
<1> SUFFICES ASSUME BootTypeOK, ClosureInv, RestartInv, [BootNext]_bootVars PROVE RestartInv'
  OBVIOUS
<1> TypeOK
  BY DEF BootTypeOK
<1>1. CASE UNCHANGED bootVars
  BY <1>1, RestartStep DEF bootVars
<1>2. CASE DaemonSteps \/ Beside(World) \/ Declared
  BY <1>2, StepsOfUnitSwap, RestartStep
<1>3. CASE Prepare
  BY <1>3, PrepareUndisturbing
<1>4. CASE Reboot
  BY <1>4 DEF Reboot, NoJob
<1>5. CASE BootStarts
  BY <1>5, BootStartsStarts, StartsAfresh
<1> QED BY <1>1, <1>2, <1>3, <1>4, <1>5 DEF BootNext

-----------------------------------------------------------------------------
(* RunInv, through reboots, unless the boot's start overtook a pass.       *)

\* A step of the daemon's spends on a failing call, if on anything.
LEMMA DaemonSpends ==
  ASSUME TypeOK, Daemon
  PROVE  spent'.outside = spent.outside
<1>1. Start \/ Look \/ EndPass \/ Relook \/ SampleAndDecide => Fault \/ NoFault
  BY DEF Start, Look, EndPass, Relook, SampleAndDecide, SampleReads, SaveAs, NoFault
<1>2. FirstSight => Fault \/ NoFault
  BY DEF FirstSight, ResumePutBack, ResumeGate, ResumeRollBack, Adopt, RollBackInterrupted,
         NothingToRecover, SaveAs, NoFault
<1>3. PutBack => Fault \/ NoFault
  BY DEF PutBack, Switch, SwitchFails, Delete, Rebind, RebindFails, Rereload, RereloadFails, Resumed,
         SaveAs, NoFault
<1>4. Stopped => Fault \/ NoFault
  BY DEF Stopped, UpdateStopped, StoppedBind, StoppedSet, StoppedReload, NoFault
<1>5. Swap => Fault \/ NoFault
  BY DEF Swap, SomeoneArrived, Record, RecordFails, Bind, Reload, SetProfile, SetProfileFails,
         RestartDone, RestartFails, RestartLost, UndoRestart, UndoRestartFails, Undone,
         SampleReads, SaveAs, NoFault
<1>6. Gate => Fault \/ NoFault
  BY DEF Gate, Baseline, BaselineFails, Healthy, Unhealthy, Prune, Commit, RollBackRestart,
         FinishRollBack, SaveAs, NoFault
<1> QED BY <1>1, <1>2, <1>3, <1>4, <1>5, <1>6, NothingOutside DEF Daemon

\* Nobody takes back what was done to the unit.
LEMMA OutsideStays ==
  ASSUME TypeOK, [Next]_vars, spent'.outside = 0
  PROVE  spent.outside = 0
<1>1. CASE UNCHANGED vars
  BY <1>1 DEF vars
<1>2. CASE Daemon
  BY <1>2, DaemonSpends
<1>3. CASE Environment
  BY <1>3, OutsideCounts DEF Environment, Crash, UnitDies, OthersStart, UnitStopped, UnitReady,
     PlayersComeOrGo, Deploy, TypeOK, Spendings
<1> QED BY <1>1, <1>2, <1>3 DEF Next

USE DEF StartAwaited

LEMMA StartAwaitedInit == BootInit => StartAwaited
BY DEF BootInit, NoJob

\* A pass before the boot's start starts nothing itself.
LEMMA StartAwaitedDaemon ==
  ASSUME BootTypeOK, ClosureInv, StartAwaited, boot.starting, spent.outside = 0, Daemon
  PROVE  /\ unit' = unit /\ job'.active = "inactive"
         /\ \/ pc' \in {"off", "idle", "firstSight", "resumed", "relook", "act",
                       "stoppedBind", "stoppedSet", "stoppedReload", "end"}
            \/ pc' \in PutBackSteps /\ job'.task = "resume"
<1> TypeOK
  BY DEF BootTypeOK
<1>1. \/ Start \/ Look \/ EndPass \/ Relook \/ ResumePutBack \/ NothingToRecover \/ PutBack \/ Stopped
  BY DEF Daemon, SampleAndDecide, FirstSight, ResumeGate, ResumeRollBack, Adopt, IsUp,
         RollBackInterrupted, FailedNewer,
         Swap, SomeoneArrived, Record, RecordFails, Bind, Reload, SetProfile, SetProfileFails,
         RestartDone, RestartFails, RestartLost, UndoRestart, UndoRestartFails, Undone,
         Gate, Baseline, BaselineFails, Healthy, Unhealthy, Prune, Commit, RollBackRestart,
         FinishRollBack
<1>2. CASE Start \/ EndPass \/ NothingToRecover
  BY <1>2 DEF Start, EndPass, NothingToRecover, GotoJob, NoJob, machine
<1>3. CASE Look
  BY <1>3 DEF Look, GotoJob, Looked, NoJob, machine
<1>4. CASE Relook
  BY <1>4 DEF Relook, Fault, NoFault, GotoJob, Looked, machine, TypeOK, Jobs
<1>5. CASE ResumePutBack
  BY <1>5 DEF ResumePutBack, BackTo, GotoJob, AfterSwitch, AfterPutBack, machine, TypeOK, Jobs
<1>6. CASE PutBack
  <2>1. pc = "resumed" \/ job.task = "resume"
    BY <1>6 DEF PutBack, Switch, SwitchFails, Delete, Rebind, RebindFails, Rereload, RereloadFails,
       Resumed
  <2>2. job'.active = job.active /\ job'.task = job.task /\ unit' = unit
    BY <1>6 DEF PutBack, Switch, SwitchFails, Delete, Rebind, RebindFails, Rereload, RereloadFails,
       Resumed, PutBackFails, GotoJob, machine, TypeOK, Jobs
  <2>3. pc' \in {"delete", "rebind", "rereload", "resumed", "relook", "end"}
    BY <1>6, <2>1 DEF PutBack, Switch, SwitchFails, Delete, Rebind, RebindFails, Rereload,
       RereloadFails, Resumed, PutBackFails, GotoJob, AfterSwitch, AfterPutBack
  <2>4. CASE pc = "resumed"
    <3>1. pc' = "relook"
      BY <1>6, <2>4 DEF PutBack, Switch, SwitchFails, Delete, Rebind, RebindFails, Rereload,
         RereloadFails, Resumed, GotoJob
    <3> QED BY <2>2, <3>1
  <2>5. CASE job.task = "resume"
    <3>1. job'.active = "inactive" /\ job'.task = "resume" /\ unit' = unit
      BY <2>2, <2>5
    <3> QED BY <2>3, <3>1 DEF PutBackSteps
  <2> QED BY <2>1, <2>4, <2>5
<1>7. CASE Stopped
  BY <1>7 DEF Stopped, UpdateStopped, StoppedBind, StoppedSet, StoppedReload, GotoJob, machine
<1> QED BY <1>1, <1>2, <1>3, <1>4, <1>5, <1>6, <1>7

LEMMA StartAwaitedStep ==
  BootTypeOK /\ ClosureInv /\ StartAwaited /\ [BootNext]_bootVars => StartAwaited'
<1> SUFFICES ASSUME BootTypeOK, ClosureInv, StartAwaited, [BootNext]_bootVars,
                    boot'.starting, spent'.outside = 0
             PROVE  StartAwaited'
  OBVIOUS
<1> TypeOK
  BY DEF BootTypeOK
<1>1. CASE UNCHANGED bootVars
  BY <1>1 DEF bootVars, vars, machine, daemon
<1>2. CASE DaemonSteps
  <2>1. boot.starting /\ spent.outside = 0
    BY <1>2, StepsOfUnitSwap, OutsideStays DEF DaemonSteps, Beside, BootTypeOK, Boots
  <2> QED BY <1>2, <2>1, StartAwaitedDaemon DEF DaemonSteps, Beside
<1>3. CASE Beside(World)
  <2>1. boot.starting /\ spent.outside = 0
    BY <1>3, StepsOfUnitSwap, OutsideStays DEF Beside, BootTypeOK, Boots
  <2>2. Crash \/ PlayersComeOrGo
    BY <1>3, <2>1, OutsideCounts DEF Beside, World, UnitDies, OthersStart, UnitStopped, UnitReady
  <2> QED BY <2>1, <2>2 DEF Crash, PlayersComeOrGo, NoJob, machine
<1>4. CASE Prepare
  <2>1. boot.starting
    BY <1>4 DEF Prepare, PrepareReads, PrepareSeeds, PrepareChecks, PrepareWrites, PrepareReloads,
       PrepareFails, Step, BootTypeOK, Boots
  <2> QED BY <1>4, <2>1, PrepareUndisturbing
<1>5. CASE Reboot
  BY <1>5 DEF Reboot, NoJob
<1>6. CASE BootStarts \/ Declared
  BY <1>6 DEF BootStarts, Declared, Booting, BootTypeOK, Boots
<1> QED BY <1>1, <1>2, <1>3, <1>4, <1>5, <1>6 DEF BootNext

USE DEF RunInv, PlaceFits, RunFits, RunsByRecord, RunSteps, Up, Calm, RunsUnlessOvertaken

\* A unit that never ran runs nothing.
LEMMA NeverRanRuns == NeverRan => RunInv
OBVIOUS

LEMMA RunsInit == BootInit => RunsUnlessOvertaken
BY DEF BootInit, NoMemory, NoSwap, NoJob

\* The boot's start, of a unit no pass takes for stopped, is of what the profile names.
LEMMA RunsBootStarts ==
  ASSUME BootTypeOK, StartAwaited, RunInv, BootStarts, ~boot'.overtook
  PROVE  RunInv'
<1> TypeOK
  BY DEF BootTypeOK
<1>1. ~TakenForStopped /\ boot.starting
  BY DEF BootStarts, BootTypeOK, Boots
<1>2. /\ unit'.inv # mem.swapping.inv /\ unit'.inv # disk.swapping.inv
      /\ unit'.active \in {"activating", "failed"}
      /\ unit'.active = "activating" => unit'.runs = Target(cur)
  BY BootStartsStarts, StartsAfresh
<1>3. UNCHANGED <<gens, cur, disk, mem, seen, pc, job, attention, spent>>
  BY BootStartsStarts DEF history
<1>4. PlaceFits'
  BY <1>3
<1>5. ASSUME Calm PROVE RunFits'
  <2>1. /\ job.active = "inactive"
        /\ \/ pc \in {"off", "idle", "resumed", "relook", "stoppedReload", "end"}
           \/ pc \in {"delete", "rebind", "rereload"} /\ job.task = "resume"
    BY <1>1, <1>5 DEF TakenForStopped
  <2> QED BY <1>2, <1>3, <1>5, <2>1
<1> QED BY <1>3, <1>4, <1>5

\* That the boot has overtaken the daemon is not forgotten.
LEMMA OvertookStays ==
  ASSUME BootTypeOK, [BootNext]_bootVars, boot.overtook
  PROVE  boot'.overtook
<1>0. boot \in Boots
  BY DEF BootTypeOK
<1>1. CASE UNCHANGED bootVars
  BY <1>1 DEF bootVars
<1>2. CASE DaemonSteps \/ Beside(World)
  BY <1>0, <1>2 DEF DaemonSteps, Beside, Boots
<1>3. CASE Declared \/ Reboot
  BY <1>0, <1>3 DEF Declared, Reboot, Booting, Boots
<1>4. CASE BootStarts
  BY <1>0, <1>4 DEF BootStarts, Boots
<1>5. CASE Prepare
  BY <1>0, <1>5 DEF Prepare, PrepareReads, PrepareSeeds, PrepareChecks, PrepareWrites,
     PrepareReloads, PrepareFails, Step, Boots
<1> QED BY <1>1, <1>2, <1>3, <1>4, <1>5 DEF BootNext

LEMMA RunsStep ==
  /\ BootTypeOK /\ BootTypeOK' /\ ClosureInv /\ SeedInv /\ SeededRecovers /\ RestartInv
  /\ StartAwaited /\ RunsUnlessOvertaken /\ [BootNext]_bootVars
  => RunsUnlessOvertaken'
<1> SUFFICES ASSUME BootTypeOK, BootTypeOK', ClosureInv, SeedInv, SeededRecovers, RestartInv,
                    StartAwaited, RunsUnlessOvertaken, [BootNext]_bootVars, ~boot'.overtook
             PROVE  RunInv'
  OBVIOUS
<1> TypeOK /\ TypeOK'
  BY DEF BootTypeOK
<1>0. RunInv /\ (NeverRan' => RunInv')
  <2>1. ~boot.overtook
    BY OvertookStays
  <2>2. RunInv
    BY <2>1
  <2> HIDE DEF RunInv, NeverRan
  <2>3. NeverRan' => RunInv'
    BY NeverRanRuns, PTL
  <2> QED BY <2>2, <2>3
<1> HIDE DEF RunInv, RecoveryInv, RestartInv
<1>1. CASE UNCHANGED bootVars
  BY <1>0, <1>1 DEF bootVars, vars, machine, daemon, history, RunInv
<1>2. CASE DaemonSteps \/ Beside(World) \/ Declared
  <2>1. CASE cur # 0
    BY <1>0, <1>2, <2>1, StepsOfUnitSwap, RunStep
  <2>2. CASE cur = 0
    <3>1. NeverRan
      BY <2>2
    <3>2. CASE DaemonSteps
      BY <1>0, <3>1, <3>2, NeverRanDaemon DEF DaemonSteps, Beside
    <3>3. CASE Beside(World)
      BY <1>0, <2>2, <3>1, <3>3, NeverRanWorld DEF Beside
    <3>4. CASE Declared
      <4>1. NeverRan'
        BY <3>1, <3>4 DEF Declared, Deploy, machine, daemon
      <4> QED BY <1>0, <4>1
    <3> QED BY <1>2, <3>2, <3>3, <3>4
  <2> QED BY <2>1, <2>2
<1>3. CASE Prepare
  <2>1. CASE PrepareSeeds
    <3>1. NeverRan /\ ungated' = {}
      BY <2>1, SeedKeeps
    <3>2. UNCHANGED <<unit, job, mem, disk, pc, seen>>
      BY <1>3, PrepareUndisturbing
    <3> QED BY <1>0, <3>1, <3>2
  <2>2. CASE UNCHANGED <<gens, cur, ungated>>
    BY <1>0, <1>3, <2>2, PrepareUndisturbing DEF RunInv
  <2> QED BY <1>3, <2>1, <2>2, PrepareMovesProfile
<1>4. CASE Reboot
  BY <1>4 DEF Reboot, NoJob, NoMemory, NoSwap, RunInv
<1>5. CASE BootStarts
  BY <1>0, <1>5, RunsBootStarts
<1> QED BY <1>1, <1>2, <1>3, <1>4, <1>5 DEF BootNext

HIDE DEF StartAwaited, RunInv, PlaceFits, RunFits, RunsByRecord, RunSteps, Up, Calm,
         RunsUnlessOvertaken

-----------------------------------------------------------------------------
(* BootFits: what prepare leaves.                                          *)

\* The daemon loads the drop-in that is on disk, or loads none.
LEMMA LoadsWhatIsThere ==
  ASSUME [Next]_vars
  PROVE  loaded' \in {loaded, file}
<1>1. CASE UNCHANGED vars
  BY <1>1 DEF vars, machine
<1>2. CASE Daemon
  BY <1>2
     DEF Daemon, Start, Look, EndPass, Relook, SampleAndDecide, FirstSight, ResumePutBack, ResumeGate,
         ResumeRollBack, Adopt, RollBackInterrupted, NothingToRecover,
         PutBack, Switch, SwitchFails, Delete, Rebind, RebindFails, Rereload, RereloadFails, Resumed,
         Stopped, UpdateStopped, StoppedBind, StoppedSet, StoppedReload,
         Swap, SomeoneArrived, Record, RecordFails, Bind, Reload, SetProfile, SetProfileFails,
         RestartDone, RestartFails, RestartLost, UndoRestart, UndoRestartFails, Undone,
         Gate, Baseline, BaselineFails, Healthy, Unhealthy, Prune, Commit, RollBackRestart,
         FinishRollBack, machine
<1>3. CASE Environment
  BY <1>3 DEF Environment, Crash, UnitDies, OthersStart, UnitStopped, UnitReady, PlayersComeOrGo,
         Deploy, machine
<1> QED BY <1>1, <1>2, <1>3 DEF Next

USE DEF BootFits

LEMMA BootFitsInit == BootInit => BootFits
BY DEF BootInit, Booting

LEMMA BootFitsPrepare ==
  ASSUME BootTypeOK, CurExists, SeedInv, BootFits, Prepare
  PROVE  BootFits'
<1>1. CASE PrepareReads
  <2>1. /\ boot'.pc \in {"seed", "check", "done"} /\ boot'.want = desired
        /\ boot'.current = BoundFor(Target(cur), desired)
        /\ boot'.pc = "seed" <=> Target(cur) = None
        /\ BindClosure => boot'.pc # "done"
        /\ boot'.starting = boot.starting /\ boot'.moved = boot.moved /\ boot'.failed = boot.failed
    BY <1>1 DEF PrepareReads, BootTypeOK, Boots
  <2> QED BY <1>1, <2>1 DEF PrepareReads, BoundFor
<1>2. CASE PrepareSeeds
  <2>1. /\ boot' = [boot EXCEPT !.pc = IF BindClosure THEN "check" ELSE "done"]
        /\ boot.want # None
    BY <1>2 DEF PrepareSeeds, Step
  <2>2. Target(cur)' = boot.want
    BY <1>2, SeedKeeps
  <2> QED BY <1>2, <2>1, <2>2 DEF PrepareSeeds, BootTypeOK, Boots
<1>3. CASE PrepareChecks
  BY <1>3, PolicyAssumption DEF PrepareChecks, Step, BootTypeOK, Boots
<1>4. CASE PrepareWrites
  BY <1>4 DEF PrepareWrites, Step, BootTypeOK, Boots
<1>5. CASE PrepareReloads
  BY <1>5 DEF PrepareReloads, Step, BootTypeOK, Boots
<1>6. CASE PrepareFails
  BY <1>6 DEF PrepareFails, BootTypeOK, Boots
<1> QED BY <1>1, <1>2, <1>3, <1>4, <1>5, <1>6 DEF Prepare

LEMMA BootFitsStep ==
  BootTypeOK /\ CurExists /\ SeedInv /\ BootFits /\ [BootNext]_bootVars => BootFits'
<1> SUFFICES ASSUME BootTypeOK, CurExists, SeedInv, BootFits, [BootNext]_bootVars PROVE BootFits'
  OBVIOUS
<1>1. CASE UNCHANGED bootVars
  BY <1>1 DEF bootVars, vars, machine
<1>2. CASE DaemonSteps \/ Beside(World)
  <2>1. loaded' \in {loaded, file}
    BY <1>2, StepsOfUnitSwap, LoadsWhatIsThere
  <2>2. /\ UNCHANGED <<boot.pc, boot.want, boot.current, boot.starting, boot.failed>>
        /\ boot'.starting /\ ~boot'.moved => ~boot.moved /\ UNCHANGED <<gens, cur, file>>
    BY <1>2 DEF DaemonSteps, Beside, BootTypeOK, Boots
  <2> QED BY <2>1, <2>2
<1>3. CASE Prepare
  BY <1>3, BootFitsPrepare
<1>4. CASE Reboot
  BY <1>4 DEF Reboot, Booting
<1>5. CASE BootStarts \/ Declared
  <2>1. ~boot'.starting
    BY <1>5 DEF BootStarts, Declared, Booting, BootTypeOK, Boots
  <2> QED BY <2>1
<1> QED BY <1>1, <1>2, <1>3, <1>4, <1>5 DEF BootNext

HIDE DEF ClosureInv, CurExists, WantsOne, LookHolds, RecordsAgree, NotSetYet, SwapFits, ClosureFits,
         GateFits, PutBackFits, RecordFits, GoesBackTo, OnRecord, MustRestart, Exists, Target,
         SeedInv, NeverRan, IsStopped,
         RecoveryInv, SwapMoves, GoodFits, UngatedFits, Recorded, SwapSteps, PutBackSteps, GateSteps,
         BackOrPassed, SeededRecovers, RestartInv, HoldsIt, BootFits

-----------------------------------------------------------------------------
(* The theorems.                                                           *)

\* The invariants hold throughout, whatever the profile is on at the first boot.
THEOREM BootInvariant == BootSpec => [](BootTypeOK /\ BootInv)
<1>1. BootInit => BootTypeOK /\ BootInv
  BY BootTypeInit, BootClosureInit, SeedInit, SeededInit, BootRestartInit, StartAwaitedInit, RunsInit,
     BootFitsInit DEF BootInv
<1>2. BootTypeOK /\ BootInv /\ [BootNext]_bootVars => (BootTypeOK /\ BootInv)'
  BY BootTypeStep, BootClosureStep, SeedStep, SeededStep, BootRestartStep, StartAwaitedStep, RunsStep,
     BootFitsStep DEF BootInv, ClosureInv
<1> QED BY <1>1, <1>2, PTL DEF BootSpec

(***************************************************************************)
(* Whatever a reboot cut short, what prepare leaves can be started: the    *)
(* profile names a version and systemd has its closure loaded, unless a    *)
(* call of prepare's failed or the daemon moved the unit meanwhile.        *)
(***************************************************************************)
THEOREM PreparedAlwaysCanStart == BootSpec => []PreparedCanStart
<1>1. BootInv => PreparedCanStart
  BY DEF BootInv, BootFits, PreparedCanStart, CanStart
<1> QED BY <1>1, BootInvariant, PTL

(***************************************************************************)
(* Each restart Tidewaiter asks for is of a unit whose loaded drop-in is   *)
(* for the version it will start, with a prepare under way beside it and   *)
(* with a reboot at any point before: prepare creates a drop-in only where *)
(* there is none, and the one a restart counts on is there.                *)
(***************************************************************************)
THEOREM BootRestartsUnderOwnClosure == BootSpec => []RestartsUnderOwnClosure
<1>1. ClosureInv => RestartsUnderOwnClosure
  BY DEF ClosureInv, ClosureFits, RestartsUnderOwnClosure, AboutToRestart
<1> QED BY <1>1, BootInvariant, PTL DEF BootInv

(***************************************************************************)
(* A reboot at any point of a swap is found out as a crash is: what it     *)
(* left the profile on without a gate having passed it is on record in the *)
(* state file.  The profile need not be there when the machine first       *)
(* boots: nothing has run that could have anything on record until it is.  *)
(***************************************************************************)
THEOREM BootUngatedIsRecorded == BootSpec => []UngatedIsRecorded
<1>1. BootTypeOK /\ BootInv => UngatedIsRecorded
  <2> SUFFICES ASSUME BootTypeOK, BootInv PROVE UngatedIsRecorded
    OBVIOUS
  <2>1. TypeOK /\ 0 \notin ungated
    BY NumberTypes DEF BootTypeOK
  <2>2. CASE cur = 0
    BY <2>1, <2>2 DEF BootInv, SeedInv, NeverRan, UngatedIsRecorded
  <2>3. CASE cur # 0
    BY <2>1, <2>3, NumberTypes
       DEF BootInv, SeededRecovers, UngatedIsRecorded, RecoveryInv, SwapMoves, UngatedFits, Recorded,
           ClosureInv, RecordsAgree
  <2> QED BY <2>2, <2>3
<1> QED BY <1>1, BootInvariant, PTL

(***************************************************************************)
(* Through reboots, whatever the daemon restarts is held, and beside the   *)
(* idle-gated restart of a swap it restarts only a unit that was restarted *)
(* since the swap began - by the boot, for one - or that had failed.       *)
(***************************************************************************)
THEOREM BootRestartsAreHeldAndNeeded == BootSpec => RestartsAreHeldAndNeeded
<1>1. BootTypeOK /\ BootInv /\ [BootNext]_bootVars
      => [DaemonRestarts =>
            /\ held
            /\ pc = "restart" \/ unit.inv # mem.swapping.inv \/ job.task = "interrupted"]_vars
  <2> SUFFICES ASSUME BootTypeOK, BootInv, [BootNext]_bootVars, DaemonRestarts
               PROVE  /\ held
                      /\ pc = "restart" \/ unit.inv # mem.swapping.inv \/ job.task = "interrupted"
    OBVIOUS
  <2>1. ~Prepare /\ ~Reboot /\ ~BootStarts
    BY PrepareUndisturbing, BootStartsStarts DEF Reboot, DaemonRestarts
  <2>2. [Next]_vars
    BY <2>1, StepsOfUnitSwap DEF BootNext, bootVars
  <2> QED BY <2>2, RestartingSteps DEF BootTypeOK, BootInv
<1> QED BY <1>1, BootInvariant, PTL DEF BootSpec, RestartsAreHeldAndNeeded

(***************************************************************************)
(* Through reboots at any point of a swap, a unit that is up between       *)
(* passes, with no swap on record, nobody asked for and nobody else having *)
(* touched it, runs what its profile names - unless the boot started it    *)
(* while the daemon, which had found it stopped, was acting on that: there *)
(* is no other way to a unit that runs something else unnoticed.           *)
(***************************************************************************)
THEOREM UpAlwaysRunsUnlessOvertaken == BootSpec => []UpRunsUnlessOvertaken
<1>1. BootInv => UpRunsUnlessOvertaken
  BY DEF BootInv, RunsUnlessOvertaken, RunInv, RunFits, UpRunsUnlessOvertaken, UpRunsItsProfile,
         Calm, Up
<1> QED BY <1>1, BootInvariant, PTL

=============================================================================
