------------------------ MODULE UnitRecovery_proofs ------------------------
(***************************************************************************)
(* What a restarted daemon can rely on, what it may restart, what the unit *)
(* runs and what it is never put back to: theorems about UnitSwap for a    *)
(* profile that is seeded, and every value of the other constants.         *)
(***************************************************************************)
EXTENDS UnitSwap_proofs

USE DEF ClosureInv, CurExists, WantsOne, LookHolds, RecordsAgree, NotSetYet, SwapFits, ClosureFits,
        GateFits, PutBackFits, RecordFits, GoesBackTo, OnRecord, MustRestart, Exists, Target

-----------------------------------------------------------------------------
(* RecoveryInv: the generations no gate has passed.                        *)

\* The generation numbers are natural numbers, and 0 is never ungated.
LEMMA NumberTypes ==
  ASSUME TypeOK
  PROVE  /\ cur \in Nat /\ mem.good \in Nat /\ disk.good \in Nat
         /\ mem.swapping.from \in Nat /\ disk.swapping.from \in Nat
         /\ job.back \in Nat /\ job.gen \in Nat /\ job.commits \in Nat
         /\ job.left \in Nat /\ 0 \notin ungated
         /\ mem.swapping \in SwapRecords /\ disk.swapping \in SwapRecords
<1>1. /\ cur \in MaybeGen /\ mem \in UnitMemories /\ disk \in UnitMemories /\ job \in Jobs
      /\ ungated \subseteq Generations
  BY DEF TypeOK
<1>2. MaybeGen \subseteq Nat /\ 0 \notin Generations
  BY DEF MaybeGen, Generations
<1>3. \A m \in UnitMemories : m.good \in MaybeGen /\ m.swapping \in SwapRecords
  BY DEF UnitMemories
<1>4. \A r \in SwapRecords : r.from \in MaybeGen
  BY DEF SwapRecords
<1>5. {job.back, job.gen, job.commits, job.left} \subseteq MaybeGen
  BY <1>1 DEF Jobs
<1> QED BY <1>1, <1>2, <1>3, <1>4, <1>5

(***************************************************************************)
(* nix-env --set to another version than the current one lands past the    *)
(* current generation, and past it nothing on record is touched.           *)
(***************************************************************************)
LEMMA SetLandsPast ==
  ASSUME TypeOK, CurExists, cur # 0, NEW v \in Versions, v # Target(cur),
         NEW g \in Generations, ProfileSet(v, g)
  PROVE  /\ g > cur /\ cur' = g
         /\ \A h \in MaybeGen : h <= cur => Target(h)' = Target(h)
<1>1. cur \in Generations /\ gens[cur] # None /\ gens[cur] # v
  BY DEF TypeOK, MaybeGen
<1>2. g \in Nat /\ cur \in Nat /\ gens \in [Generations -> MaybeVersion]
  BY <1>1 DEF Generations, TypeOK
<1>3. g > cur
  <2>1. CASE IsNewest(g) /\ gens[g] = v
    BY <1>1, <1>2, <2>1 DEF IsNewest
  <2>2. CASE ~Exists(g) /\ IF g = 1 THEN \A h \in Generations : ~Exists(h)
                                    ELSE IsNewest(g - 1) /\ gens[g - 1] # v
    <3>1. g # 1
      BY <1>1, <2>2
    <3>2. ~(cur > g - 1)
      BY <1>1, <2>2, <3>1 DEF IsNewest
    <3> QED BY <1>2, <3>2
  <2> QED BY <2>1, <2>2 DEF ProfileSet, SetLandsOn
<1>4. cur' = g /\ gens' = [gens EXCEPT ![g] = v]
  BY DEF ProfileSet
<1>5. ASSUME NEW h \in MaybeGen, h <= cur PROVE Target(h)' = Target(h)
  BY <1>2, <1>3, <1>4, <1>5 DEF MaybeGen, Generations
<1> QED BY <1>3, <1>4, <1>5

USE DEF RecoveryInv, SwapMoves, GoodFits, UngatedFits, Recorded, SwapSteps, PutBackSteps, GateSteps,
        BackOrPassed

LEMMA RecoveryInit == Init /\ Seeded => RecoveryInv
BY GenerationsAssumption DEF Init, NoMemory, NoSwap, NoJob, Generations

LEMMA RecoveryPasses ==
  ASSUME TypeOK, ClosureInv, RecoveryInv, Start \/ Look \/ EndPass \/ Relook \/ SampleAndDecide
  PROVE  RecoveryInv'
<1>1. CASE Start
  BY <1>1, NumberTypes DEF Start, machine, history
<1>2. CASE Look
  <2>1. /\ job'.want = desired /\ job'.gen = cur /\ job'.target = Target(cur)
        /\ job'.set = FALSE /\ job'.task = "none"
    BY <1>2 DEF Look, GotoJob, Looked, NoJob
  <2>2. mem'.swapping = mem.swapping /\ mem'.good = mem.good
    BY <1>2 DEF Look, Forget, TypeOK, UnitMemories
  <2> QED BY <1>2, <2>1, <2>2 DEF Look, GotoJob, machine, history
<1>3. CASE EndPass
  BY <1>3 DEF EndPass, GotoJob, NoJob, SaveAs, machine, history
<1>4. CASE Relook
  BY <1>4 DEF Relook, Fault, NoFault, GotoJob, Looked, machine, history, TypeOK, Jobs
<1>5. CASE SampleAndDecide
  BY <1>5 DEF SampleAndDecide, DecideKind, Goto, machine, history
<1> QED BY <1>1, <1>2, <1>3, <1>4, <1>5

LEMMA RecoveryFirstSight ==
  ASSUME TypeOK, ClosureInv, RecoveryInv, FirstSight
  PROVE  RecoveryInv'
<1>1. CASE ResumePutBack
  BY <1>1, NumberTypes
     DEF ResumePutBack, BackTo, GotoJob, AfterSwitch, Rebinds, AfterPutBack, machine, history,
         TypeOK, Jobs
<1>2. CASE ResumeGate
  BY <1>2 DEF ResumeGate, GotoJob, BackTo, machine, history, TypeOK, Jobs
<1>3. CASE ResumeRollBack
  BY <1>3 DEF ResumeRollBack, StartRollBack, BackTo, machine, TypeOK, Jobs
<1>4. CASE Adopt
  BY <1>4, NumberTypes
     DEF Adopt, IsUp, IsStopped, SaveAs, GotoJob, machine, history, TypeOK, UnitMemories
<1>5. CASE RollBackInterrupted
  BY <1>5 DEF RollBackInterrupted, StartRollBack, BackTo, machine, TypeOK, Jobs
<1>6. CASE NothingToRecover
  BY <1>6 DEF NothingToRecover, GotoJob, machine, history
<1> QED BY <1>1, <1>2, <1>3, <1>4, <1>5, <1>6 DEF FirstSight

LEMMA RecoveryPutBack ==
  ASSUME TypeOK, ClosureInv, RecoveryInv, PutBack
  PROVE  RecoveryInv'
<1>1. CASE Switch
  <2>1. /\ job'.task = job.task /\ job'.want = job.want /\ job'.back = job.back
        /\ job'.backTarget = job.backTarget /\ job'.set = job.set
        /\ job'.gen = job.gen /\ job'.commits = job.commits
    BY <1>1 DEF TypeOK, Switch, GotoJob, Jobs
  <2>2. cur' = job.back /\ gens' = gens /\ job.back # 0
    BY <1>1 DEF Switch
  <2>3. pc' \in {"delete", "rebind", "undoRestart", "resumed", "rerestart"}
    BY <1>1 DEF Switch, GotoJob, AfterSwitch, AfterPutBack
  <2>4. job.task # "interrupted" => mem.swapping.on /\ job.back = mem.swapping.from
    BY <1>1 DEF Switch
  <2>5. job.task = "interrupted" => job.back = mem.good /\ ~mem.swapping.on /\ ~disk.swapping.on
    BY <1>1 DEF Switch
  <2>6. UNCHANGED <<mem, disk, seen, ungated, attention, abandoned>>
    BY <1>1 DEF Switch, history
  <2> QED BY <1>1, <2>1, <2>2, <2>3, <2>4, <2>5, <2>6, NumberTypes DEF Switch
<1>2. CASE SwitchFails
  BY <1>2, NumberTypes DEF SwitchFails, PutBackFails, machine
<1>3. CASE Delete
  <2>1. /\ cur' = cur /\ job' = job /\ cur = job.back /\ ungated' \subseteq ungated
        /\ pc' \in {"rebind", "undoRestart", "resumed", "rerestart"}
    BY <1>3 DEF Delete, GotoJob, AfterSwitch, AfterPutBack
  <2> QED BY <1>3, <2>1, NumberTypes DEF Delete
<1>4. CASE Rebind
  BY <1>4 DEF Rebind, GotoJob, history
<1>5. CASE RebindFails
  BY <1>5, NumberTypes DEF RebindFails, PutBackFails, machine
<1>6. CASE Rereload
  BY <1>6 DEF Rereload, GotoJob, AfterPutBack, history
<1>7. CASE RereloadFails
  BY <1>7, NumberTypes DEF RereloadFails, PutBackFails
<1>8. CASE Resumed
  <2>1. mem'.swapping = NoSwap /\ mem'.good = mem.good
    BY <1>8 DEF Resumed, SaveAs, TypeOK, UnitMemories
  <2>2. disk' \in {disk, mem'}
    BY <1>8 DEF Resumed, SaveAs
  <2> QED BY <1>8, <2>1, <2>2 DEF Resumed, NoSwap, GotoJob, machine, history
<1> QED BY <1>1, <1>2, <1>3, <1>4, <1>5, <1>6, <1>7, <1>8 DEF PutBack

LEMMA RecoveryStopped ==
  ASSUME TypeOK, ClosureInv, RecoveryInv, Stopped
  PROVE  RecoveryInv'
<1>1. CASE UpdateStopped
  BY <1>1 DEF UpdateStopped, GotoJob, machine, history
<1>2. CASE StoppedBind
  BY <1>2 DEF StoppedBind, GotoJob, history
<1>3. CASE StoppedSet
  <2>1. CASE UNCHANGED <<gens, cur, ungated>>
    BY <1>3, <2>1 DEF StoppedSet, GotoJob
  <2>2. ASSUME NEW g \in Generations, ProfileSet(job.want, g), ungated' = ungated \ {g}
        PROVE  RecoveryInv'
    <3>1. job.want \in Versions
      BY <1>3 DEF TypeOK, StoppedSet, Jobs, MaybeVersion
    <3>2. cur' = g /\ g # 0 /\ g \in Nat
      BY <2>2 DEF ProfileSet, Generations
    <3>3. cur <= cur'
      BY <2>2, <3>1, SetKeeps
    <3>4. /\ UNCHANGED <<mem, disk, seen, attention, abandoned>> /\ job' = job
          /\ pc' \in {"stoppedReload", "end"}
      BY <1>3 DEF StoppedSet, GotoJob
    <3> HIDE DEF ProfileSet
    <3> QED BY <1>3, <2>2, <3>2, <3>3, <3>4, NumberTypes DEF StoppedSet
  <2> QED BY <1>3, <2>1, <2>2 DEF StoppedSet
<1>4. CASE StoppedReload
  BY <1>4 DEF StoppedReload, GotoJob, history
<1> QED BY <1>1, <1>2, <1>3, <1>4 DEF Stopped

LEMMA RecoverySwap ==
  ASSUME TypeOK, ClosureInv, RecoveryInv, Swap
  PROVE  RecoveryInv'
<1>1. CASE SomeoneArrived
  BY <1>1 DEF SomeoneArrived, GotoJob, machine, history
<1>2. CASE Record
  <2>1. job.gen = cur /\ job.target = Target(cur)
    BY <1>2 DEF Record
  <2>2. /\ job'.task = "swap" /\ job'.want = job.want /\ job'.back = cur
        /\ job'.backTarget = Target(cur) /\ job'.set = job.set
    BY <1>2, <2>1 DEF TypeOK, Record, GotoJob, BackTo, Jobs
  <2>3. /\ mem'.swapping.on /\ mem'.swapping.from = cur /\ mem'.swapping.fromTarget = Target(cur)
        /\ disk' = mem' /\ mem'.good = mem.good
    BY <1>2, <2>1 DEF TypeOK, Record, UnitMemories, RecordOf
  <2> QED BY <1>2, <2>1, <2>2, <2>3, NumberTypes DEF Record, GotoJob, machine, history
<1>3. CASE RecordFails
  <2>1. mem'.swapping = NoSwap /\ mem'.good = mem.good
    BY <1>3 DEF RecordFails, TypeOK, UnitMemories
  <2> QED BY <1>3, <2>1 DEF RecordFails, NoSwap, GotoJob, machine, history
<1>4. ASSUME NEW j \in Jobs, j.want = job.want, j.back = job.back, j.backTarget = job.backTarget,
             j.set = job.set, j.gen = job.gen, j.commits = job.commits,
             pc \in SwapSteps, Undo(j), UNCHANGED <<gens, cur, mem, disk, seen, history>>
      PROVE  RecoveryInv'
  <2>1. /\ job'.task = "undo" /\ job'.want = job.want /\ job'.back = job.back
        /\ job'.backTarget = job.backTarget /\ job'.set = job.set
        /\ job'.gen = job.gen /\ job'.commits = job.commits
    BY <1>4 DEF Undo, GotoJob, Jobs
  <2>2. IF job.set THEN pc' = "switch" ELSE pc' \in {"rebind", "undoRestart"}
    BY <1>4 DEF Undo, GotoJob, AfterSwitch, AfterPutBack, Jobs
  <2>3. mem.swapping.on /\ mem.swapping.from = job.back /\ (~job.set => job.back = cur)
    BY <1>4
  <2> QED BY <1>4, <2>1, <2>2, <2>3, NumberTypes DEF history
<1>5. CASE Bind
  <2>1. CASE Undo(job)
    BY <1>4, <1>5, <2>1 DEF Bind, TypeOK
  <2>2. CASE GotoJob("reload", [job EXCEPT !.bound = TRUE])
    BY <1>5, <2>2 DEF Bind, GotoJob, history, TypeOK, Jobs
  <2> QED BY <1>5, <2>1, <2>2 DEF Bind
<1>6. CASE Reload
  <2>1. CASE Undo(job)
    BY <1>4, <1>6, <2>1 DEF Reload, TypeOK
  <2>2. CASE GotoJob("set", job)
    BY <1>6, <2>2 DEF Reload, GotoJob, history
  <2> QED BY <1>6, <2>1, <2>2 DEF Reload
<1>7. CASE SetProfile
  <2>1. PICK g \in Generations : ProfileSet(job.want, g) /\ ungated' = ungated \cup {g}
    BY <1>7 DEF SetProfile
  <2>2. job.want \in Versions /\ job.want # Target(cur) /\ job.back = cur
    BY <1>7 DEF TypeOK, SetProfile, Jobs, MaybeVersion
  <2>3. g > cur /\ cur' = g /\ Target(cur)' = job.want /\ \A h \in MaybeGen : h <= cur => Target(h)' = Target(h)
    BY <2>1, <2>2, SetLandsPast, SetKeeps
  <2>4. gens'[job.back] = gens[job.back] /\ g \in Nat /\ job.back # 0
    BY <2>2, <2>3, NumberTypes DEF TypeOK, MaybeGen, Generations
  <2>5. /\ job'.task = job.task /\ job'.want = job.want /\ job'.back = job.back
        /\ job'.backTarget = job.backTarget /\ job'.set
        /\ job'.gen = job.gen /\ job'.commits = job.commits /\ pc' = "restart"
    BY <1>7 DEF SetProfile, GotoJob, Jobs, TypeOK
  <2>6. UNCHANGED <<mem, disk, seen, attention, abandoned>>
    BY <1>7 DEF SetProfile
  <2>7. disk.swapping = mem.swapping /\ mem.swapping.on /\ mem.swapping.from = cur
        /\ mem.swapping.fromTarget = job.backTarget /\ job.backTarget = gens[job.back] /\ pc = "set"
    BY <1>7, <2>2, <2>4 DEF SetProfile
  <2> HIDE DEF ProfileSet
  <2> QED BY <2>1, <2>2, <2>3, <2>4, <2>5, <2>6, <2>7, NumberTypes
<1>8. CASE SetProfileFails
  BY <1>4, <1>8 DEF SetProfileFails, machine, TypeOK
<1>9. CASE RestartDone
  BY <1>9 DEF RestartDone, GotoJob, history
<1>10. CASE RestartFails
  BY <1>10 DEF RestartFails, StartRollBack, TypeOK, Jobs
<1>11. CASE RestartLost
  BY <1>4, <1>11 DEF RestartLost, TypeOK
<1>12. CASE UndoRestart
  BY <1>12 DEF UndoRestart, GotoJob, history
<1>13. CASE UndoRestartFails
  BY <1>13 DEF UndoRestartFails, GotoJob
<1>14. CASE Undone
  <2>1. mem'.swapping = NoSwap /\ mem'.good = mem.good
    BY <1>14 DEF Undone, SaveAs, CountFailure, TypeOK, UnitMemories
  <2>2. disk'.swapping \in {disk.swapping, NoSwap} /\ disk'.good \in {disk.good, mem.good}
        /\ (disk'.swapping = NoSwap \/ disk' = disk)
    BY <1>14, <2>1 DEF Undone, SaveAs
  <2> QED BY <1>14, <2>1, <2>2 DEF Undone, GotoJob, NoSwap, machine, history
<1> QED BY <1>1, <1>2, <1>3, <1>5, <1>6, <1>7, <1>8, <1>9, <1>10, <1>11, <1>12, <1>13, <1>14 DEF Swap

LEMMA RecoveryGate ==
  ASSUME TypeOK, ClosureInv, RecoveryInv, Gate
  PROVE  RecoveryInv'
<1>1. CASE Baseline
  BY <1>1 DEF Baseline, GotoJob, machine, history, TypeOK, Jobs
<1>2. CASE BaselineFails
  BY <1>2 DEF BaselineFails, machine
<1>3. CASE Healthy
  <2>1. job'.commits \in {0, cur} \/ pc' = "finish"
    BY <1>3 DEF Healthy, GotoJob, TypeOK, Jobs
  <2>2. pc' \in {"prune", "finish"} /\ ungated' = ungated \ {cur} /\ cur' = cur
        /\ job'.back = job.back /\ job'.task = job.task /\ job'.want = job.want
        /\ job'.gen = job.gen /\ job'.backTarget = job.backTarget
    BY <1>3 DEF Healthy, GotoJob, machine, TypeOK, Jobs
  <2> QED BY <1>3, <2>1, <2>2 DEF Healthy, machine
<1>4. CASE Unhealthy
  BY <1>4 DEF Unhealthy, StartRollBack, GotoJob, machine, TypeOK, Jobs
<1>5. CASE Prune
  <2>1. ungated' \subseteq ungated /\ cur' = cur /\ job' = job /\ pc' = "commit"
    BY <1>5 DEF Prune, GotoJob
  <2> QED BY <1>5, <2>1 DEF Prune
<1>6. CASE Commit
  <2>1. mem'.swapping = NoSwap /\ mem'.good = job.commits
    BY <1>6 DEF Commit, SaveAs, NoMemory
  <2>2. disk' \in {disk, mem'}
    BY <1>6 DEF Commit, SaveAs
  <2> QED BY <1>6, <2>1, <2>2, NumberTypes DEF Commit, NoSwap, GotoJob, machine, history
<1>7. CASE RollBackRestart
  BY <1>7 DEF RollBackRestart, Goto
<1>8. CASE FinishRollBack
  <2>1. /\ mem'.swapping = IF job.task = "interrupted" THEN mem.swapping ELSE NoSwap
        /\ mem'.good = mem.good
    BY <1>8 DEF FinishRollBack, SaveAs, RolledBack, TypeOK, UnitMemories
  <2>2. disk' \in {disk, mem'}
    BY <1>8 DEF FinishRollBack, SaveAs
  <2> QED BY <1>8, <2>1, <2>2 DEF FinishRollBack, GotoJob, NoSwap, machine, history
<1> QED BY <1>1, <1>2, <1>3, <1>4, <1>5, <1>6, <1>7, <1>8 DEF Gate

LEMMA RecoveryEnvironment ==
  ASSUME TypeOK, ClosureInv, RecoveryInv, Environment
  PROVE  RecoveryInv'
<1>1. CASE Crash
  BY <1>1, NumberTypes DEF Crash, NoJob, NoMemory, NoSwap, machine, history
<1>2. CASE UnitDies
  BY <1>2 DEF UnitDies, daemon, history
<1>3. CASE OthersStart
  BY <1>3 DEF OthersStart, daemon, history
<1>4. CASE UnitStopped
  BY <1>4 DEF UnitStopped, daemon, history
<1>5. CASE UnitReady
  BY <1>5 DEF UnitReady, daemon, history
<1>6. CASE PlayersComeOrGo
  BY <1>6 DEF PlayersComeOrGo, daemon, history
<1>7. CASE Deploy
  BY <1>7 DEF Deploy, machine, daemon
<1> QED BY <1>1, <1>2, <1>3, <1>4, <1>5, <1>6, <1>7 DEF Environment

LEMMA RecoveryStep == TypeOK /\ ClosureInv /\ RecoveryInv /\ [Next]_vars => RecoveryInv'
<1> SUFFICES ASSUME TypeOK, ClosureInv, RecoveryInv, [Next]_vars PROVE RecoveryInv'
  OBVIOUS
<1>1. CASE UNCHANGED vars
  BY <1>1 DEF vars, machine, daemon, history
<1>2. CASE Daemon
  BY <1>2, RecoveryPasses, RecoveryFirstSight, RecoveryPutBack, RecoveryStopped, RecoverySwap,
     RecoveryGate DEF Daemon
<1>3. CASE Environment
  BY <1>3, RecoveryEnvironment
<1> QED BY <1>1, <1>2, <1>3 DEF Next

HIDE DEF ClosureInv, CurExists, WantsOne, LookHolds, RecordsAgree, NotSetYet, SwapFits, ClosureFits,
        GateFits, PutBackFits, RecordFits, GoesBackTo, OnRecord, MustRestart, Exists, Target,
         RecoveryInv, SwapMoves, GoodFits, UngatedFits, Recorded, SwapSteps, PutBackSteps, GateSteps,
        BackOrPassed

\* RecoveryInv holds throughout, once the profile is seeded.
THEOREM RecoveryInvariant ==
  ASSUME Seeded
  PROVE  Spec => []RecoveryInv
<1>1. Init => RecoveryInv
  BY RecoveryInit
<1> QED BY <1>1, RecoveryStep, TypeCorrect, ClosureInvariant, PTL DEF Spec

(***************************************************************************)
(* A daemon that dies at any point of a swap, or whose saves fail, finds   *)
(* out on its next start: whatever it left the profile on without a gate   *)
(* having passed it is on record in the state file, with a generation to   *)
(* go back to that is still what the record says.                          *)
(***************************************************************************)
THEOREM UngatedIsAlwaysRecorded ==
  ASSUME Seeded
  PROVE  Spec => []UngatedIsRecorded
<1>1. TypeOK /\ ClosureInv /\ RecoveryInv => UngatedIsRecorded
  BY NumberTypes
     DEF UngatedIsRecorded, RecoveryInv, SwapMoves, UngatedFits, Recorded, ClosureInv, RecordsAgree
<1> QED BY <1>1, RecoveryInvariant, TypeCorrect, ClosureInvariant, PTL

-----------------------------------------------------------------------------
(* RestartInv: the unit's invocation, and what is held.                    *)

\* A fresh invocation is nobody's.
LEMMA FreshIsNew ==
  ASSUME TypeOK
  PROVE  /\ Fresh # unit.inv /\ Fresh # job.inv /\ Fresh # job.baseline
         /\ Fresh # mem.swapping.inv /\ Fresh # disk.swapping.inv
<1>1. \E i \in InvocationIds : i \notin InvocationsHeld
  <2> DEFINE a == unit.inv  b == job.inv  c == job.baseline
             d == mem.swapping.inv  e == disk.swapping.inv
  <2> SUFFICES \E i \in 0..5 : i # a /\ i # b /\ i # c /\ i # d /\ i # e
    BY DEF InvocationIds, InvocationsHeld
  <2> HIDE DEF a, b, c, d, e
  <2> QED OBVIOUS
<1>2. Fresh \notin InvocationsHeld
  BY <1>1 DEF Fresh
<1> QED BY <1>2 DEF InvocationsHeld

\* A start of the unit puts it in an invocation nobody has on record.
LEMMA StartsAfresh ==
  ASSUME TypeOK, NEW active, Starts(active)
  PROVE  /\ unit'.inv # unit.inv /\ unit'.inv # job.inv
         /\ unit'.inv # mem.swapping.inv /\ unit'.inv # disk.swapping.inv
         /\ unit'.active = active
         /\ unit'.runs = IF active = "failed" THEN None ELSE Target(cur)
BY FreshIsNew DEF Starts

USE DEF ClosureInv, CurExists, WantsOne, LookHolds, RecordsAgree, NotSetYet, SwapFits, ClosureFits,
        GateFits, PutBackFits, RecordFits, GoesBackTo, OnRecord, MustRestart, Exists, Target,
        SwapSteps, PutBackSteps, GateSteps, RestartInv, HoldsIt

LEMMA RestartInit == Init => RestartInv
BY DEF Init, NoJob

LEMMA RestartPasses ==
  ASSUME TypeOK, ClosureInv, RestartInv, Start \/ Look \/ EndPass \/ Relook \/ SampleAndDecide
  PROVE  RestartInv'
<1>1. CASE Start
  BY <1>1 DEF Start, machine
<1>2. CASE Look
  <2>1. job'.inv = unit.inv /\ job'.task = "none"
    BY <1>2 DEF Look, GotoJob, Looked, NoJob
  <2> QED BY <1>2, <2>1 DEF Look, GotoJob, machine
<1>3. CASE EndPass
  BY <1>3 DEF EndPass, GotoJob, machine
<1>4. CASE Relook
  BY <1>4 DEF Relook, Fault, NoFault, GotoJob, machine
<1>5. CASE SampleAndDecide
  BY <1>5 DEF SampleAndDecide, Goto, machine
<1> QED BY <1>1, <1>2, <1>3, <1>4, <1>5

LEMMA RestartFirstSight ==
  ASSUME TypeOK, ClosureInv, RestartInv, FirstSight
  PROVE  RestartInv'
<1>1. CASE ResumePutBack
  BY <1>1 DEF ResumePutBack, BackTo, GotoJob, AfterSwitch, Rebinds, AfterPutBack, machine, TypeOK, Jobs
<1>2. CASE ResumeGate
  BY <1>2 DEF ResumeGate, NotRestarted, GotoJob, BackTo, machine, TypeOK, Jobs
<1>3. CASE ResumeRollBack
  BY <1>3 DEF ResumeRollBack, NotRestarted, StartRollBack, BackTo, machine, TypeOK, Jobs
<1>4. CASE Adopt
  BY <1>4 DEF Adopt, GotoJob, machine
<1>5. CASE RollBackInterrupted
  BY <1>5 DEF RollBackInterrupted, StartRollBack, BackTo, machine, TypeOK, Jobs
<1>6. CASE NothingToRecover
  BY <1>6 DEF NothingToRecover, GotoJob, machine
<1> QED BY <1>1, <1>2, <1>3, <1>4, <1>5, <1>6 DEF FirstSight

LEMMA RestartPutBack ==
  ASSUME TypeOK, ClosureInv, RestartInv, PutBack
  PROVE  RestartInv'
<1>1. CASE Switch
  BY <1>1 DEF Switch, GotoJob, AfterSwitch, Rebinds, AfterPutBack, TypeOK, Jobs
<1>2. CASE SwitchFails
  BY <1>2 DEF SwitchFails, PutBackFails, machine
<1>3. CASE Delete
  BY <1>3 DEF Delete, GotoJob, AfterSwitch, Rebinds, AfterPutBack
<1>4. CASE Rebind
  BY <1>4 DEF Rebind, GotoJob
<1>5. CASE RebindFails
  BY <1>5 DEF RebindFails, PutBackFails, machine
<1>6. CASE Rereload
  BY <1>6 DEF Rereload, GotoJob, AfterPutBack
<1>7. CASE RereloadFails
  BY <1>7 DEF RereloadFails, PutBackFails
<1>8. CASE Resumed
  BY <1>8 DEF Resumed, GotoJob, machine
<1> QED BY <1>1, <1>2, <1>3, <1>4, <1>5, <1>6, <1>7, <1>8 DEF PutBack

LEMMA RestartStopped ==
  ASSUME TypeOK, ClosureInv, RestartInv, Stopped
  PROVE  RestartInv'
BY DEF Stopped, UpdateStopped, StoppedBind, StoppedSet, StoppedReload, GotoJob, machine

LEMMA RestartSwap ==
  ASSUME TypeOK, ClosureInv, RestartInv, Swap
  PROVE  RestartInv'
<1>1. CASE SomeoneArrived
  BY <1>1 DEF SomeoneArrived, GotoJob, machine
<1>2. CASE Record
  <2>1. mem'.swapping.inv = job.inv /\ job'.inv = job.inv /\ job'.task = "swap"
    BY <1>2 DEF Record, RecordOf, GotoJob, BackTo, TypeOK, UnitMemories, Jobs
  <2> QED BY <1>2, <2>1 DEF Record, GotoJob, machine
<1>3. CASE RecordFails
  BY <1>3 DEF RecordFails, GotoJob, machine
<1>4. ASSUME pc \in SwapSteps, Undo(job), UNCHANGED <<mem, held>>
      PROVE  RestartInv'
  <2>1. job'.task = "undo" /\ job'.inv = job.inv
    BY <1>4 DEF Undo, GotoJob, TypeOK, Jobs
  <2>2. pc' \in {"switch", "rebind", "undoRestart"}
    BY <1>4 DEF Undo, GotoJob, AfterSwitch, AfterPutBack, TypeOK, Jobs
  <2> QED BY <1>4, <2>1, <2>2
<1>5. CASE Bind
  BY <1>4, <1>5 DEF Bind, GotoJob, TypeOK, Jobs
<1>6. CASE Reload
  BY <1>4, <1>6 DEF Reload, GotoJob
<1>7. CASE SetProfile
  BY <1>7 DEF SetProfile, GotoJob, TypeOK, Jobs
<1>8. CASE SetProfileFails
  BY <1>4, <1>8 DEF SetProfileFails
<1>9. CASE RestartDone
  BY <1>9, StartsAfresh DEF RestartDone, GotoJob
<1>10. CASE RestartFails
  BY <1>10, StartsAfresh DEF RestartFails, StartRollBack, TypeOK, Jobs
<1>11. CASE RestartLost
  BY <1>4, <1>11 DEF RestartLost
<1>12. CASE UndoRestart
  BY <1>12 DEF UndoRestart, GotoJob
<1>13. CASE UndoRestartFails
  BY <1>13 DEF UndoRestartFails, GotoJob
<1>14. CASE Undone
  BY <1>14 DEF Undone, GotoJob, machine
<1> QED BY <1>1, <1>2, <1>3, <1>5, <1>6, <1>7, <1>8, <1>9, <1>10, <1>11, <1>12, <1>13, <1>14 DEF Swap

LEMMA RestartGate ==
  ASSUME TypeOK, ClosureInv, RestartInv, Gate
  PROVE  RestartInv'
<1>1. CASE Baseline
  BY <1>1 DEF Baseline, GotoJob, machine, TypeOK, Jobs
<1>2. CASE BaselineFails
  BY <1>2 DEF BaselineFails, machine
<1>3. CASE Healthy
  BY <1>3 DEF Healthy, GotoJob, machine
<1>4. CASE Unhealthy
  BY <1>4 DEF Unhealthy, StartRollBack, GotoJob, machine, TypeOK, Jobs
<1>5. CASE Prune
  BY <1>5 DEF Prune, GotoJob
<1>6. CASE Commit
  BY <1>6 DEF Commit, GotoJob, machine
<1>7. CASE RollBackRestart
  BY <1>7, StartsAfresh DEF RollBackRestart, Goto
<1>8. CASE FinishRollBack
  BY <1>8 DEF FinishRollBack, GotoJob, machine
<1> QED BY <1>1, <1>2, <1>3, <1>4, <1>5, <1>6, <1>7, <1>8 DEF Gate

LEMMA RestartEnvironment ==
  ASSUME TypeOK, ClosureInv, RestartInv, Environment
  PROVE  RestartInv'
<1>1. CASE Crash
  BY <1>1 DEF Crash, NoJob, machine
<1>2. CASE UnitDies
  BY <1>2 DEF UnitDies, daemon, TypeOK, Units
<1>3. CASE OthersStart
  BY <1>3, StartsAfresh DEF OthersStart, daemon
<1>4. CASE UnitStopped
  BY <1>4 DEF UnitStopped, daemon, TypeOK, Units
<1>5. CASE UnitReady
  BY <1>5 DEF UnitReady, daemon, TypeOK, Units
<1>6. CASE PlayersComeOrGo
  BY <1>6 DEF PlayersComeOrGo, daemon
<1>7. CASE Deploy
  BY <1>7 DEF Deploy, machine, daemon
<1> QED BY <1>1, <1>2, <1>3, <1>4, <1>5, <1>6, <1>7 DEF Environment

LEMMA RestartStep == TypeOK /\ ClosureInv /\ RestartInv /\ [Next]_vars => RestartInv'
<1> SUFFICES ASSUME TypeOK, ClosureInv, RestartInv, [Next]_vars PROVE RestartInv'
  OBVIOUS
<1>1. CASE UNCHANGED vars
  BY <1>1 DEF vars, machine, daemon, history
<1>2. CASE Daemon
  BY <1>2, RestartPasses, RestartFirstSight, RestartPutBack, RestartStopped, RestartSwap,
     RestartGate DEF Daemon
<1>3. CASE Environment
  BY <1>3, RestartEnvironment
<1> QED BY <1>1, <1>2, <1>3 DEF Next

HIDE DEF ClosureInv, CurExists, WantsOne, LookHolds, RecordsAgree, NotSetYet, SwapFits, ClosureFits,
        GateFits, PutBackFits, RecordFits, GoesBackTo, OnRecord, MustRestart, Exists, Target,
         SwapSteps, PutBackSteps, GateSteps, RestartInv, HoldsIt

\* RestartInv holds throughout.
THEOREM RestartInvariant == Spec => []RestartInv
<1> QED BY RestartInit, RestartStep, TypeCorrect, ClosureInvariant, PTL DEF Spec

\* Only the daemon's restart of the unit leaves a step that restarts and stays alive.
LEMMA RestartingSteps ==
  ASSUME TypeOK, ClosureInv, RestartInv, [Next]_vars, DaemonRestarts
  PROVE  /\ held
         /\ pc = "restart" \/ unit.inv # mem.swapping.inv \/ job.task = "interrupted"
<1> USE DEF ClosureInv, PutBackFits, OnRecord, RestartInv, HoldsIt, SwapSteps, PutBackSteps, GateSteps
<1>1. pc \in {"restart", "rerestart", "undoRestart"} /\ held
  BY DEF DaemonRestarts
<1>2. CASE pc = "rerestart"
  BY <1>1, <1>2
<1>3. CASE pc = "undoRestart"
  <2>1. unit.inv # job.inv
    <3>1. UndoRestart \/ UndoRestartFails \/ Environment \/ UNCHANGED vars
      BY <1>3 DEF Next, Daemon, Start, Look, EndPass, Relook, SampleAndDecide, FirstSight,
         ResumePutBack, ResumeGate, ResumeRollBack, Adopt, RollBackInterrupted, NothingToRecover,
         PutBack, Switch, SwitchFails, Delete, Rebind, RebindFails, Rereload, RereloadFails, Resumed,
         Stopped, UpdateStopped, StoppedBind, StoppedSet, StoppedReload,
         Swap, SomeoneArrived, Record, RecordFails, Bind, Reload, SetProfile, SetProfileFails,
         RestartDone, RestartFails, RestartLost, Undone,
         Gate, Baseline, BaselineFails, Healthy, Unhealthy, Prune, Commit, RollBackRestart,
         FinishRollBack
    <3>2. ~(Environment \/ UNCHANGED vars)
      BY <1>3 DEF DaemonRestarts, Environment, Crash, UnitDies, OthersStart, UnitStopped, UnitReady,
         PlayersComeOrGo, Deploy, daemon, vars
    <3> QED BY <3>1, <3>2 DEF UndoRestart, UndoRestartFails, DaemonRestarts
  <2> QED BY <1>3, <2>1
<1> QED BY <1>1, <1>2, <1>3

(***************************************************************************)
(* Whatever the daemon restarts is held, so that the status says so; and   *)
(* beside the idle-gated restart of a swap it restarts only a unit that    *)
(* was restarted since the swap began, or one that had failed.             *)
(***************************************************************************)
THEOREM RestartsAreAlwaysHeldAndNeeded == Spec => RestartsAreHeldAndNeeded
<1>1. TypeOK /\ ClosureInv /\ RestartInv /\ [Next]_vars
      => [DaemonRestarts =>
            /\ held
            /\ pc = "restart" \/ unit.inv # mem.swapping.inv \/ job.task = "interrupted"]_vars
  BY RestartingSteps
<1> QED BY <1>1, RestartInvariant, TypeCorrect, ClosureInvariant, PTL
       DEF Spec, RestartsAreHeldAndNeeded

-----------------------------------------------------------------------------
(* RunInv: what the unit runs, with nobody else touching it.               *)

\* An external call that fails or not is not something done to the unit by others.
LEMMA NothingOutside ==
  ASSUME TypeOK, Fault \/ NoFault
  PROVE  spent'.outside = spent.outside
BY DEF Fault, NoFault, TypeOK, Spendings

\* Pruning keeps the current generation.
LEMMA PruneKeepsCurrent ==
  ASSUME TypeOK, Prune
  PROVE  cur' = cur /\ Target(cur)' = Target(cur)
BY DEF Prune, PruneKeeps, Target, TypeOK, MaybeGen

\* After a recovery the pass goes on with what it reads then, or is over.
LEMMA RelookSteps ==
  ASSUME TypeOK, Relook
  PROVE  /\ pc = "relook" /\ spent'.outside = spent.outside
         /\ UNCHANGED <<machine, desired, disk, mem, seen, history>>
         /\ job'.want = job.want /\ job'.task = job.task
         /\ \/ pc' = "act" /\ job'.inv = unit.inv /\ job'.active = unit.active
            \/ pc' = "end" /\ job' = job
<1>1. job \in Jobs
  BY DEF TypeOK
<1>2. Looked(job).inv = unit.inv /\ Looked(job).active = unit.active
      /\ Looked(job).want = job.want /\ Looked(job).task = job.task
  BY <1>1 DEF Looked, Jobs
<1> QED BY <1>2, NothingOutside DEF Relook, GotoJob

USE DEF ClosureInv, CurExists, WantsOne, LookHolds, RecordsAgree, NotSetYet, SwapFits, ClosureFits,
        GateFits, PutBackFits, RecordFits, GoesBackTo, OnRecord, MustRestart, Exists, Target,
        RecoveryInv, SwapMoves, RestartInv, SwapSteps, PutBackSteps, GateSteps,
        RunInv, PlaceFits, RunFits, RunsByRecord, RunSteps, Up, Calm, IsStopped, Recorded

LEMMA RunInit == Init /\ Seeded => RunInv
BY GenerationsAssumption DEF Init, NoMemory, NoSwap, NoJob, Generations

LEMMA RunPasses ==
  ASSUME TypeOK, ClosureInv, RecoveryInv, RestartInv, RunInv,
         Start \/ Look \/ EndPass \/ Relook \/ SampleAndDecide
  PROVE  RunInv'
<1>1. CASE Start
  BY <1>1 DEF Start, GoodFits, machine, history
<1>2. CASE Look
  <2>1. /\ job'.inv = unit.inv /\ job'.active = unit.active /\ job'.task = "none"
    BY <1>2 DEF Look, GotoJob, Looked, NoJob
  <2>2. mem'.swapping = mem.swapping
    BY <1>2 DEF Look, Forget, TypeOK, UnitMemories
  <2> QED BY <1>2, <2>1, <2>2 DEF Look, GotoJob, machine, history
<1>3. CASE EndPass
  BY <1>3 DEF EndPass, GotoJob, NoJob, SaveAs, Fault, NoFault, machine, history, TypeOK, Spendings
<1>4. CASE Relook
  BY <1>4, RelookSteps DEF machine, history
<1>5. CASE SampleAndDecide
  BY <1>5 DEF SampleAndDecide, SampleReads, Fault, NoFault, Goto, machine, history, TypeOK, Spendings
<1> QED BY <1>1, <1>2, <1>3, <1>4, <1>5

LEMMA RunFirstSight ==
  ASSUME TypeOK, ClosureInv, RecoveryInv, RestartInv, RunInv, FirstSight
  PROVE  RunInv'
<1>1. CASE ResumePutBack
  BY <1>1
     DEF ResumePutBack, NotRestarted, BackTo, GotoJob, AfterSwitch, Rebinds, AfterPutBack, machine,
         history, TypeOK, Jobs
<1>2. CASE ResumeGate
  BY <1>2 DEF ResumeGate, NotRestarted, GotoJob, BackTo, machine, history, TypeOK, Jobs
<1>3. CASE ResumeRollBack
  BY <1>3 DEF ResumeRollBack, NotRestarted, StartRollBack, BackTo, machine, TypeOK, Jobs
<1>4. CASE Adopt
  BY <1>4
     DEF Adopt, SaveAs, GotoJob, Fault, NoFault, machine, history, TypeOK, UnitMemories, Spendings
<1>5. CASE RollBackInterrupted
  BY <1>5 DEF RollBackInterrupted, FailedNewer, StartRollBack, BackTo, machine, TypeOK, Jobs
<1>6. CASE NothingToRecover
  BY <1>6 DEF NothingToRecover, GotoJob, machine, history
<1> QED BY <1>1, <1>2, <1>3, <1>4, <1>5, <1>6 DEF FirstSight

LEMMA RunPutBack ==
  ASSUME TypeOK, ClosureInv, RecoveryInv, RestartInv, RunInv, PutBack
  PROVE  RunInv'
<1>1. CASE Switch
  <2>1. /\ job'.task = job.task /\ job'.want = job.want /\ job'.back = job.back
        /\ job'.backTarget = job.backTarget /\ job'.set = job.set
        /\ job'.inv = job.inv /\ job'.active = job.active
    BY <1>1 DEF TypeOK, Switch, GotoJob, Jobs
  <2>2. /\ cur' = job.back /\ gens' = gens /\ job.back # 0
        /\ gens[job.back] # None /\ gens[job.back] = job.backTarget
    BY <1>1 DEF Switch
  <2>3. \/ pc' \in {"delete", "rebind"}
        \/ pc' = "undoRestart" /\ job.task = "undo"
        \/ pc' = "resumed" /\ job.task = "resume"
        \/ pc' = "rerestart" /\ job.task \in {"rollBack", "interrupted"}
    BY <1>1 DEF Switch, GotoJob, AfterSwitch, AfterPutBack
  <2>4. UNCHANGED <<mem, disk, seen, unit, attention, spent>> /\ pc = "switch"
    BY <1>1 DEF Switch, history
  <2> QED BY <1>1, <2>1, <2>2, <2>3, <2>4
<1>2. CASE SwitchFails
  BY <1>2 DEF SwitchFails, PutBackFails, Fault, NoFault, machine, TypeOK, Spendings
<1>3. CASE Delete
  <2>1. cur' = cur /\ job' = job /\ cur = job.back /\ pc = "delete"
    BY <1>3 DEF Delete, GotoJob
  <2>2. Target(cur)' = Target(cur)
    BY <1>3, <2>1 DEF Delete, TypeOK, MaybeGen
  <2>3. \/ pc' = "rebind"
        \/ pc' = "undoRestart" /\ job.task = "undo"
        \/ pc' = "resumed" /\ job.task = "resume"
        \/ pc' = "rerestart" /\ job.task \in {"rollBack", "interrupted"}
    BY <1>3 DEF Delete, GotoJob, AfterSwitch, AfterPutBack
  <2> QED BY <1>3, <2>1, <2>2, <2>3 DEF Delete, Fault, NoFault, TypeOK, Spendings
<1>4. CASE Rebind
  BY <1>4 DEF Rebind, GotoJob, history
<1>5. CASE RebindFails
  BY <1>5 DEF RebindFails, PutBackFails, Fault, machine, TypeOK, Spendings
<1>6. CASE Rereload
  BY <1>6 DEF Rereload, GotoJob, AfterPutBack, history
<1>7. CASE RereloadFails
  BY <1>7 DEF RereloadFails, PutBackFails, Fault, TypeOK, Spendings
<1>8. CASE Resumed
  <2>1. mem'.swapping = NoSwap
    BY <1>8 DEF Resumed, SaveAs, TypeOK, UnitMemories
  <2>2. disk' \in {disk, mem'} /\ spent'.outside = spent.outside
    BY <1>8 DEF Resumed, SaveAs, Fault, NoFault, TypeOK, Spendings
  <2> QED BY <1>8, <2>1, <2>2 DEF Resumed, NoSwap, GotoJob, machine, history
<1> QED BY <1>1, <1>2, <1>3, <1>4, <1>5, <1>6, <1>7, <1>8 DEF PutBack

LEMMA RunStopped ==
  ASSUME TypeOK, ClosureInv, RecoveryInv, RestartInv, RunInv, Stopped
  PROVE  RunInv'
<1>1. CASE UpdateStopped
  BY <1>1 DEF UpdateStopped, GotoJob, machine, history
<1>2. CASE StoppedBind
  BY <1>2 DEF StoppedBind, GotoJob, Fault, NoFault, history, TypeOK, Spendings
<1>3. CASE StoppedSet
  <2>1. /\ UNCHANGED <<mem, disk, seen, unit, attention, job>>
        /\ pc = "stoppedSet" /\ pc' \in {"stoppedReload", "end"}
    BY <1>3 DEF StoppedSet, GotoJob
  <2>2. spent'.outside = spent.outside
    BY <1>3 DEF StoppedSet, Fault, NoFault, TypeOK, Spendings
  <2> QED BY <2>1, <2>2
<1>4. CASE StoppedReload
  BY <1>4 DEF StoppedReload, GotoJob, Fault, NoFault, history, TypeOK, Spendings
<1> QED BY <1>1, <1>2, <1>3, <1>4 DEF Stopped

LEMMA RunSwap ==
  ASSUME TypeOK, ClosureInv, RecoveryInv, RestartInv, RunInv, Swap
  PROVE  RunInv'
<1>0. ASSUME Fault \/ NoFault PROVE spent'.outside = spent.outside
  BY <1>0 DEF Fault, NoFault, TypeOK, Spendings
<1>1. CASE SomeoneArrived
  BY <1>0, <1>1 DEF SomeoneArrived, SampleReads, GotoJob, machine, history
<1>2. CASE Record
  <2>1. job.gen = cur /\ job.target = Target(cur)
    BY <1>2 DEF Record
  <2>2. /\ mem'.swapping.on /\ mem'.swapping.from = cur /\ mem'.swapping.fromTarget = Target(cur)
        /\ mem'.swapping.inv = job.inv /\ mem'.swapping.to = job.want /\ disk' = mem'
    BY <1>2, <2>1 DEF TypeOK, Record, UnitMemories, RecordOf
  <2>3. /\ job'.inv = job.inv /\ job'.task = "swap" /\ job'.want = job.want
        /\ pc' \in {"bind", "set"}
    BY <1>2 DEF TypeOK, Record, GotoJob, BackTo, Jobs
  <2> QED BY <1>0, <1>2, <2>1, <2>2, <2>3 DEF Record, SampleReads, machine, history
<1>3. CASE RecordFails
  <2>1. mem'.swapping = NoSwap
    BY <1>3 DEF RecordFails, TypeOK, UnitMemories
  <2> QED BY <1>0, <1>3, <2>1 DEF RecordFails, NoSwap, GotoJob, machine, history
<1>4. ASSUME pc \in SwapSteps, Undo(job), UNCHANGED <<gens, cur, mem, disk, seen, attention>>,
             spent'.outside = spent.outside,
             \/ UNCHANGED unit
             \/ /\ pc = "restart"
                /\ unit'.inv # mem.swapping.inv /\ unit'.inv # disk.swapping.inv
                /\ unit'.runs \in {None, Target(cur)}
                /\ unit'.active # "failed" => unit'.runs = Target(cur) /\ Target(cur) # None
      PROVE  RunInv'
  <2>1. /\ job'.task = "undo" /\ job'.want = job.want /\ job'.back = job.back
        /\ job'.backTarget = job.backTarget /\ job'.set = job.set /\ job'.inv = job.inv
    BY <1>4 DEF Undo, GotoJob, TypeOK, Jobs
  <2>2. IF job.set THEN pc' = "switch" ELSE pc' \in {"rebind", "undoRestart"}
    BY <1>4 DEF Undo, GotoJob, AfterSwitch, AfterPutBack, TypeOK, Jobs
  <2> QED BY <1>4, <2>1, <2>2
<1>5. CASE Bind
  <2>1. CASE Undo(job)
    BY <1>0, <1>4, <1>5, <2>1 DEF Bind, history
  <2>2. CASE GotoJob("reload", [job EXCEPT !.bound = TRUE])
    BY <1>0, <1>5, <2>2 DEF Bind, GotoJob, history, TypeOK, Jobs
  <2> QED BY <1>5, <2>1, <2>2 DEF Bind
<1>6. CASE Reload
  <2>1. CASE Undo(job)
    BY <1>0, <1>4, <1>6, <2>1 DEF Reload, history
  <2>2. CASE GotoJob("set", job)
    BY <1>0, <1>6, <2>2 DEF Reload, GotoJob, history
  <2> QED BY <1>6, <2>1, <2>2 DEF Reload
<1>7. CASE SetProfile
  <2>1. /\ job'.task = job.task /\ job'.want = job.want /\ job'.back = job.back
        /\ job'.backTarget = job.backTarget /\ job'.set /\ job'.inv = job.inv
        /\ pc' = "restart" /\ pc = "set"
    BY <1>7 DEF SetProfile, GotoJob, Jobs, TypeOK
  <2>2. UNCHANGED <<mem, disk, seen, attention, unit, spent>>
    BY <1>7 DEF SetProfile
  <2>3. Target(cur)' = job.want
    BY <1>7, SetKeeps DEF SetProfile, TypeOK, Jobs, MaybeVersion
  <2> QED BY <2>1, <2>2, <2>3
<1>8. CASE SetProfileFails
  BY <1>0, <1>4, <1>8 DEF SetProfileFails, machine, history
<1>9. CASE RestartDone
  BY <1>9, StartsAfresh DEF RestartDone, GotoJob, history
<1>10. CASE RestartFails
  BY <1>10, StartsAfresh DEF RestartFails, StartRollBack, TypeOK, Jobs
<1>11. CASE RestartLost
  BY <1>0, <1>4, <1>11, StartsAfresh DEF RestartLost, LostRestart, Starts, CanStart, history
<1>12. CASE UndoRestart
  <2>1. CASE job.set /\ unit.inv # job.inv
    BY <1>12, <2>1, StartsAfresh DEF UndoRestart, GotoJob, history
  <2>2. CASE ~(job.set /\ unit.inv # job.inv)
    BY <1>12, <2>2 DEF UndoRestart, GotoJob, history
  <2> QED BY <2>1, <2>2
<1>13. CASE UndoRestartFails
  BY <1>13 DEF UndoRestartFails, GotoJob
<1>14. CASE Undone
  <2>1. mem'.swapping = NoSwap
    BY <1>14 DEF Undone, SaveAs, CountFailure, TypeOK, UnitMemories
  <2>2. disk'.swapping \in {disk.swapping, NoSwap} /\ spent'.outside = spent.outside
    BY <1>0, <1>14, <2>1 DEF Undone, SaveAs
  <2> QED BY <1>14, <2>1, <2>2 DEF Undone, GotoJob, NoSwap, machine, history
<1> QED BY <1>1, <1>2, <1>3, <1>5, <1>6, <1>7, <1>8, <1>9, <1>10, <1>11, <1>12, <1>13, <1>14 DEF Swap

LEMMA RunGate ==
  ASSUME TypeOK, ClosureInv, RecoveryInv, RestartInv, RunInv, Gate
  PROVE  RunInv'
<1>0. ASSUME Fault \/ NoFault PROVE spent'.outside = spent.outside
  BY <1>0 DEF Fault, NoFault, TypeOK, Spendings
<1>1. CASE Baseline
  BY <1>1 DEF Baseline, GotoJob, machine, history, TypeOK, Jobs
<1>2. CASE BaselineFails
  BY <1>0, <1>2 DEF BaselineFails, machine
<1>3. CASE Healthy
  <2>1. pc' \in {"prune", "finish"} /\ job'.task = job.task /\ pc = "gate"
    BY <1>3 DEF Healthy, GotoJob, TypeOK, Jobs
  <2>2. UNCHANGED <<machine, mem, disk, seen, attention>> /\ spent'.outside = spent.outside
    BY <1>0, <1>3 DEF Healthy
  <2> QED BY <2>1, <2>2 DEF machine
<1>4. CASE Unhealthy
  BY <1>4 DEF Unhealthy, StartRollBack, GotoJob, machine, TypeOK, Jobs
<1>5. CASE Prune
  <2>1. cur' = cur /\ job' = job /\ pc' = "commit" /\ pc = "prune" /\ spent'.outside = spent.outside
    BY <1>0, <1>5 DEF Prune, GotoJob
  <2>2. Target(cur)' = Target(cur)
    BY <1>5, PruneKeepsCurrent
  <2> QED BY <1>5, <2>1, <2>2 DEF Prune
<1>6. CASE Commit
  <2>1. mem'.swapping = NoSwap
    BY <1>6 DEF Commit, SaveAs, NoMemory
  <2>2. disk' \in {disk, mem'} /\ spent'.outside = spent.outside
    BY <1>0, <1>6 DEF Commit, SaveAs
  <2> QED BY <1>6, <2>1, <2>2 DEF Commit, NoSwap, GotoJob, machine, history
<1>7. CASE RollBackRestart
  BY <1>7, StartsAfresh DEF RollBackRestart, Goto
<1>8. CASE FinishRollBack
  <2>1. mem'.swapping = IF job.task = "interrupted" THEN mem.swapping ELSE NoSwap
    BY <1>8 DEF FinishRollBack, SaveAs, RolledBack, TypeOK, UnitMemories
  <2>2. disk' \in {disk, mem'} /\ spent'.outside = spent.outside
    BY <1>0, <1>8 DEF FinishRollBack, SaveAs
  <2> QED BY <1>8, <2>1, <2>2 DEF FinishRollBack, GotoJob, NoSwap, machine, history
<1> QED BY <1>1, <1>2, <1>3, <1>4, <1>5, <1>6, <1>7, <1>8 DEF Gate

\* What others do to the unit is counted.
LEMMA OutsideCounts ==
  ASSUME TypeOK, Outside
  PROVE  spent'.outside # 0
BY DEF TypeOK, Outside, Spendings

LEMMA RunEnvironment ==
  ASSUME TypeOK, ClosureInv, RecoveryInv, RestartInv, RunInv, Environment
  PROVE  RunInv'
<1>1. CASE Crash
  <2>1. spent'.outside = spent.outside
    BY <1>1 DEF Crash, TypeOK, Spendings
  <2> QED BY <1>1, <2>1 DEF Crash, NoJob, NoMemory, NoSwap, machine, history
<1>2. CASE UnitDies
  BY <1>2, OutsideCounts DEF UnitDies, daemon, history
<1>3. CASE OthersStart
  BY <1>3, OutsideCounts DEF OthersStart, daemon, history
<1>4. CASE UnitStopped
  BY <1>4, OutsideCounts DEF UnitStopped, daemon, history
<1>5. CASE UnitReady
  <2>1. /\ unit'.active = "up" /\ unit'.inv = unit.inv /\ unit'.runs = unit.runs
        /\ unit.active = "activating"
    BY <1>5 DEF UnitReady, TypeOK, Units
  <2> QED BY <1>5, <2>1 DEF UnitReady, daemon, history
<1>6. CASE PlayersComeOrGo
  BY <1>6 DEF PlayersComeOrGo, daemon, history
<1>7. CASE Deploy
  <2>1. spent'.outside = spent.outside
    BY <1>7 DEF Deploy, TypeOK, Spendings
  <2> QED BY <1>7, <2>1 DEF Deploy, machine, daemon
<1> QED BY <1>1, <1>2, <1>3, <1>4, <1>5, <1>6, <1>7 DEF Environment

LEMMA RunStep ==
  TypeOK /\ ClosureInv /\ RecoveryInv /\ RestartInv /\ RunInv /\ [Next]_vars => RunInv'
<1> SUFFICES ASSUME TypeOK, ClosureInv, RecoveryInv, RestartInv, RunInv, [Next]_vars PROVE RunInv'
  OBVIOUS
<1>1. CASE UNCHANGED vars
  BY <1>1 DEF vars, machine, daemon, history
<1>2. CASE Daemon
  BY <1>2, RunPasses, RunFirstSight, RunPutBack, RunStopped, RunSwap, RunGate DEF Daemon
<1>3. CASE Environment
  BY <1>3, RunEnvironment
<1> QED BY <1>1, <1>2, <1>3 DEF Next

HIDE DEF ClosureInv, CurExists, WantsOne, LookHolds, RecordsAgree, NotSetYet, SwapFits, ClosureFits,
         GateFits, PutBackFits, RecordFits, GoesBackTo, OnRecord, MustRestart, Exists, Target,
         RecoveryInv, SwapMoves, RestartInv, SwapSteps, PutBackSteps, GateSteps,
         RunInv, PlaceFits, RunFits, RunsByRecord, RunSteps, Up, Calm, IsStopped, Recorded

\* RunInv holds throughout, once the profile is seeded.
THEOREM RunInvariant ==
  ASSUME Seeded
  PROVE  Spec => []RunInv
<1>1. Init => RunInv
  BY RunInit
<1> QED BY <1>1, RunStep, TypeCorrect, ClosureInvariant, RecoveryInvariant, RestartInvariant, PTL
       DEF Spec

(***************************************************************************)
(* Between passes, with no swap on record, nobody asked for and nobody     *)
(* else having touched it, a unit that is up runs what its profile names:  *)
(* a pass that finds the profile where it is desired need not look at what *)
(* the unit runs, as no pass does.                                         *)
(***************************************************************************)
THEOREM UpAlwaysRunsItsProfile ==
  ASSUME Seeded
  PROVE  Spec => []UpRunsItsProfile
<1>1. RunInv => UpRunsItsProfile
  BY DEF RunInv, RunFits, UpRunsItsProfile, Calm, Up
<1> QED BY <1>1, RunInvariant, PTL

-----------------------------------------------------------------------------
(* PinInv: a version a gate has found unhealthy.                           *)

USE DEF ClosureInv, CurExists, WantsOne, LookHolds, RecordsAgree, NotSetYet, SwapFits, ClosureFits,
        GateFits, PutBackFits, RecordFits, GoesBackTo, OnRecord, MustRestart, Exists, Target,
        RecoveryInv, SwapMoves, RestartInv, SwapSteps, PutBackSteps, GateSteps,
        RunInv, PlaceFits, RunFits, RunsByRecord, RunSteps, Up, Calm, IsStopped, Recorded,
        PinInv, SwappedTo, Remembers, StaysAway, RecordOfDesired, SwapUnderWay

LEMMA PinInit == Init => PinInv
BY DEF Init, NoJob, NoMemory, NoSwap

LEMMA PinPasses ==
  ASSUME TypeOK, ClosureInv, RecoveryInv, RestartInv, RunInv, PinInv,
         Start \/ Look \/ EndPass \/ Relook \/ SampleAndDecide
  PROVE  PinInv'
<1>1. CASE Start
  BY <1>1 DEF Start, GoodFits, machine, history
<1>2. CASE Look
  <2>1. /\ job'.inv = unit.inv /\ job'.active = unit.active /\ job'.task = "none"
        /\ job'.want = desired /\ pc' = IF seen THEN "act" ELSE "firstSight"
    BY <1>2 DEF Look, GotoJob, Looked, NoJob
  <2>2. /\ mem'.swapping = mem.swapping
        /\ mem.pinned = desired => mem'.pinned = desired
    BY <1>2 DEF Look, Forget, TypeOK, UnitMemories
  <2> QED BY <1>2, <2>1, <2>2 DEF Look, machine, history
<1>3. CASE EndPass
  <2>1. disk' \in {disk, mem} /\ mem' = mem /\ spent'.outside = spent.outside
    BY <1>3, NothingOutside DEF EndPass, SaveAs
  <2> QED BY <1>3, <2>1 DEF EndPass, GotoJob, NoJob, machine, history
<1>4. CASE Relook
  BY <1>4, RelookSteps DEF machine, history
<1>5. CASE SampleAndDecide
  <2>1. /\ UNCHANGED <<machine, desired, disk, mem, seen, job, history>>
        /\ spent'.outside = spent.outside /\ pc = "act"
    BY <1>5, NothingOutside DEF SampleAndDecide, SampleReads
  <2>2. /\ pc' \in {"lastLook", "end"}
        /\ pc' = "lastLook" => mem.pinned # job.want /\ job.target # job.want
    BY <1>5 DEF SampleAndDecide, Goto, DecideKind
  <2> QED BY <2>1, <2>2 DEF machine, history
<1> QED BY <1>1, <1>2, <1>3, <1>4, <1>5

LEMMA PinFirstSight ==
  ASSUME TypeOK, ClosureInv, RecoveryInv, RestartInv, RunInv, PinInv, FirstSight
  PROVE  PinInv'
<1>1. CASE ResumePutBack
  <2>1. /\ pc' \in {"switch", "rebind", "resumed"} /\ job'.task = "resume"
        /\ UNCHANGED <<unit, gens, cur, desired, disk, mem, seen, condemned, attention, spent>>
    BY <1>1 DEF ResumePutBack, GotoJob, AfterSwitch, Rebinds, AfterPutBack, BackTo, machine, history,
                TypeOK, Jobs
  <2>2. Calm => condemned = {}
    BY <1>1 DEF ResumePutBack, NotRestarted
  <2> QED BY <2>1, <2>2
<1>2. CASE ResumeGate
  <2>1. /\ pc' = "baseline" /\ job'.task = "resume" /\ job'.pin = mem.swapping.to
        /\ job'.want = job.want
    BY <1>2 DEF ResumeGate, GotoJob, BackTo, TypeOK, Jobs
  <2> QED BY <1>2, <2>1 DEF ResumeGate, NotRestarted, machine, history
<1>3. CASE ResumeRollBack
  <2>1. /\ job'.task = "rollBack" /\ job'.pin = mem.swapping.to
        /\ pc' = "switch" \/ (pc' = "finish" /\ attention')
    BY <1>3 DEF ResumeRollBack, StartRollBack, BackTo, TypeOK, Jobs
  <2> QED BY <1>3, <2>1 DEF ResumeRollBack, StartRollBack, machine
<1>4. CASE Adopt
  <2>1. /\ mem'.swapping = mem.swapping /\ mem'.pinned = mem.pinned
        /\ disk' \in {disk, mem'} /\ spent'.outside = spent.outside
    BY <1>4, NothingOutside DEF Adopt, SaveAs, TypeOK, UnitMemories
  <2> QED BY <1>4, <2>1 DEF Adopt, GotoJob, machine, history
<1>5. CASE RollBackInterrupted
  <2>1. /\ job'.task = "interrupted"
        /\ pc' = "switch" \/ (pc' = "finish" /\ attention')
    BY <1>5 DEF RollBackInterrupted, StartRollBack, BackTo, TypeOK, Jobs
  <2>2. Calm => condemned = {}
    BY <1>5 DEF RollBackInterrupted, FailedNewer
  <2> QED BY <1>5, <2>1, <2>2 DEF RollBackInterrupted, StartRollBack, machine
<1>6. CASE NothingToRecover
  BY <1>6 DEF NothingToRecover, GotoJob, machine, history
<1> QED BY <1>1, <1>2, <1>3, <1>4, <1>5, <1>6 DEF FirstSight

\* A step of putting back that fails asks for a person, unless a swap is being resumed.
LEMMA PinPutBackFails ==
  ASSUME TypeOK, ClosureInv, PinInv, PutBackFails, pc \in PutBackSteps,
         UNCHANGED <<unit, gens, cur>>, Fault \/ NoFault
  PROVE  PinInv'
<1>1. spent'.outside = spent.outside
  BY NothingOutside
<1>2. /\ UNCHANGED <<desired, disk, mem, condemned, job>>
      /\ pc' \in {"undone", "end", "finish"}
      /\ attention' \/ (job.task = "resume" /\ pc' = "end" /\ attention' = attention)
  BY DEF PutBackFails
<1>3. Calm' => Calm /\ condemned = {}
  BY <1>1, <1>2
<1> QED BY <1>1, <1>2, <1>3

LEMMA PinPutBack ==
  ASSUME TypeOK, ClosureInv, RecoveryInv, RestartInv, RunInv, PinInv, PutBack
  PROVE  PinInv'
<1>0. Fault \/ NoFault => spent'.outside = spent.outside
  BY NothingOutside
<1>1. CASE Switch
  <2>1. /\ job'.task = job.task /\ job'.pin = job.pin
        /\ UNCHANGED <<unit, gens, desired, disk, mem, seen, attention, condemned, spent>>
        /\ pc = "switch"
    BY <1>1 DEF TypeOK, Switch, GotoJob, Jobs, history
  <2>2. \/ pc' \in {"delete", "rebind"}
        \/ pc' = "undoRestart" /\ job.task = "undo"
        \/ pc' = "resumed" /\ job.task = "resume"
        \/ pc' = "rerestart" /\ job.task \in {"rollBack", "interrupted"}
    BY <1>1 DEF Switch, GotoJob, AfterSwitch, AfterPutBack
  <2>3. cur' = job.back
    BY <1>1 DEF Switch
  <2>4. SwappedTo(mem.swapping)' /\ SwappedTo(disk.swapping)'
    BY <2>1, <2>3
  <2> QED BY <2>1, <2>2, <2>4
<1>2. CASE SwitchFails
  BY <1>2, PinPutBackFails DEF SwitchFails, machine
<1>3. CASE Delete
  <2>1. /\ UNCHANGED <<unit, cur, desired, disk, mem, seen, attention, condemned, job>>
        /\ pc = "delete" /\ spent'.outside = spent.outside
    BY <1>0, <1>3 DEF Delete, GotoJob
  <2>2. \/ pc' = "rebind"
        \/ pc' = "undoRestart" /\ job.task = "undo"
        \/ pc' = "resumed" /\ job.task = "resume"
        \/ pc' = "rerestart" /\ job.task \in {"rollBack", "interrupted"}
    BY <1>3 DEF Delete, GotoJob, AfterSwitch, AfterPutBack
  <2> QED BY <2>1, <2>2
<1>4. CASE Rebind
  BY <1>4 DEF Rebind, GotoJob, history
<1>5. CASE RebindFails
  BY <1>5, PinPutBackFails DEF RebindFails, machine
<1>6. CASE Rereload
  BY <1>6 DEF Rereload, GotoJob, AfterPutBack, history
<1>7. CASE RereloadFails
  BY <1>7, PinPutBackFails DEF RereloadFails
<1>8. CASE Resumed
  <2>1. mem'.swapping = NoSwap /\ disk' \in {disk, mem'} /\ spent'.outside = spent.outside
    BY <1>0, <1>8 DEF Resumed, SaveAs, TypeOK, UnitMemories
  <2> QED BY <1>8, <2>1 DEF Resumed, NoSwap, GotoJob, machine, history
<1> QED BY <1>1, <1>2, <1>3, <1>4, <1>5, <1>6, <1>7, <1>8 DEF PutBack

LEMMA PinStopped ==
  ASSUME TypeOK, ClosureInv, RecoveryInv, RestartInv, RunInv, PinInv, Stopped
  PROVE  PinInv'
<1>0. Fault \/ NoFault => spent'.outside = spent.outside
  BY NothingOutside
<1>1. CASE UpdateStopped
  BY <1>1 DEF UpdateStopped, GotoJob, machine, history
<1>2. /\ pc \in {"stoppedBind", "stoppedSet", "stoppedReload"}
      /\ pc' \in {"stoppedSet", "stoppedReload", "end"}
      /\ pc = "stoppedSet" \/ UNCHANGED <<gens, cur>>
      /\ UNCHANGED <<unit, desired, disk, mem, job, attention, condemned>>
      /\ spent'.outside = spent.outside
      => PinInv'
  OBVIOUS
<1>3. CASE StoppedBind
  BY <1>0, <1>2, <1>3 DEF StoppedBind, GotoJob, history
<1>4. CASE StoppedSet
  BY <1>0, <1>2, <1>4 DEF StoppedSet, GotoJob
<1>5. CASE StoppedReload
  BY <1>0, <1>2, <1>5 DEF StoppedReload, GotoJob, history
<1> QED BY <1>1, <1>3, <1>4, <1>5 DEF Stopped

LEMMA PinSwap ==
  ASSUME TypeOK, ClosureInv, RecoveryInv, RestartInv, RunInv, PinInv, Swap
  PROVE  PinInv'
<1>0. Fault \/ NoFault => spent'.outside = spent.outside
  BY NothingOutside
<1>1. CASE SomeoneArrived
  BY <1>0, <1>1 DEF SomeoneArrived, SampleReads, GotoJob, machine, history
<1>2. CASE Record
  <2>1. /\ mem'.swapping.to = job.want /\ mem'.swapping.inv = job.inv /\ disk' = mem'
        /\ pc' \in {"bind", "set"} /\ spent'.outside = spent.outside
        /\ job'.pin = job.want /\ job'.want = job.want
    BY <1>0, <1>2
       DEF Record, SampleReads, RecordOf, GotoJob, BackTo, TypeOK, Jobs, UnitMemories
  <2> QED BY <1>2, <2>1 DEF Record, machine, history
<1>3. CASE RecordFails
  BY <1>0, <1>3 DEF RecordFails, NoSwap, GotoJob, machine, history, TypeOK, UnitMemories
<1>4. ASSUME pc \in SwapSteps, Undo(job),
             UNCHANGED <<gens, cur, desired, disk, mem, condemned, attention>>,
             UNCHANGED unit \/ pc = "restart", spent'.outside = spent.outside
      PROVE  PinInv'
  <2>1. pc' \in {"switch", "rebind", "undoRestart"} /\ job'.task = "undo"
    BY <1>4 DEF Undo, GotoJob, AfterSwitch, AfterPutBack, TypeOK, Jobs
  <2> QED BY <1>4, <2>1
<1>5. ASSUME pc \in SwapSteps, pc' \in SwapSteps, job'.pin = job.pin, job'.want = job.want,
             UNCHANGED <<unit, desired, disk, mem, condemned, attention>>,
             spent'.outside = spent.outside
      PROVE  PinInv'
  BY <1>5
<1>6. CASE Bind
  <2>1. CASE Undo(job)
    BY <1>0, <1>4, <1>6, <2>1 DEF Bind, history
  <2>2. CASE GotoJob("reload", [job EXCEPT !.bound = TRUE])
    BY <1>0, <1>5, <1>6, <2>2 DEF Bind, GotoJob, history, TypeOK, Jobs
  <2> QED BY <1>6, <2>1, <2>2 DEF Bind
<1>7. CASE Reload
  <2>1. CASE Undo(job)
    BY <1>0, <1>4, <1>7, <2>1 DEF Reload, history
  <2>2. CASE GotoJob("set", job)
    BY <1>0, <1>5, <1>7, <2>2 DEF Reload, GotoJob, history
  <2> QED BY <1>7, <2>1, <2>2 DEF Reload
<1>8. CASE SetProfile
  BY <1>5, <1>8 DEF SetProfile, GotoJob, TypeOK, Jobs
<1>9. CASE SetProfileFails
  BY <1>0, <1>4, <1>9 DEF SetProfileFails, machine, history
<1>10. CASE RestartDone
  BY <1>10 DEF RestartDone, Starts, GotoJob, history
<1>11. CASE RestartFails
  <2>1. /\ unit'.inv # mem.swapping.inv /\ unit'.active = "failed"
        /\ mem.swapping.on /\ disk.swapping = mem.swapping
        /\ mem.swapping.to = job.want /\ job.pin = job.want
    BY <1>11, StartsAfresh DEF RestartFails
  <2>2. /\ job'.task = "rollBack" /\ job'.pin = job.pin
        /\ pc' = "switch" \/ (pc' = "finish" /\ attention')
    BY <1>11 DEF RestartFails, StartRollBack, TypeOK, Jobs
  <2>3. Calm' => Calm /\ (condemned' = {} \/ job.want = desired)
    BY <1>11 DEF RestartFails, StartRollBack, Condemn
  <2> QED BY <1>11, <2>1, <2>2, <2>3 DEF RestartFails, Condemn
<1>12. CASE RestartLost
  BY <1>0, <1>4, <1>12 DEF RestartLost, history
<1>13. CASE UndoRestart
  BY <1>13 DEF UndoRestart, GotoJob, history
<1>14. CASE UndoRestartFails
  BY <1>14 DEF UndoRestartFails, GotoJob
<1>15. CASE Undone
  <2>1. mem'.swapping = NoSwap
    BY <1>15 DEF Undone, SaveAs, CountFailure, TypeOK, UnitMemories
  <2>2. disk'.swapping \in {disk.swapping, NoSwap} /\ spent'.outside = spent.outside
    BY <1>0, <1>15, <2>1 DEF Undone, SaveAs
  <2> QED BY <1>15, <2>1, <2>2 DEF Undone, GotoJob, NoSwap, machine, history
<1> QED BY <1>1, <1>2, <1>3, <1>6, <1>7, <1>8, <1>9, <1>10, <1>11, <1>12, <1>13, <1>14, <1>15 DEF Swap

LEMMA PinGate ==
  ASSUME TypeOK, ClosureInv, RecoveryInv, RestartInv, RunInv, PinInv, Gate
  PROVE  PinInv'
<1>0. Fault \/ NoFault => spent'.outside = spent.outside
  BY NothingOutside
<1>1. CASE Baseline
  <2>1. job'.task = job.task /\ job'.pin = job.pin /\ job'.want = job.want
    BY <1>1 DEF Baseline, GotoJob, TypeOK, Jobs
  <2> QED BY <1>1, <2>1 DEF Baseline, GotoJob, machine, history
<1>2. CASE BaselineFails
  BY <1>0, <1>2 DEF BaselineFails, machine
<1>3. CASE Healthy
  <2>1. /\ job'.task = job.task /\ job'.pin = job.pin /\ job'.want = job.want /\ pc = "gate"
        /\ pc' = IF job.task \in {"swap", "resume"} THEN "prune" ELSE "finish"
    BY <1>3 DEF Healthy, GotoJob, TypeOK, Jobs
  <2>2. /\ UNCHANGED <<machine, desired, disk, mem, seen, attention, condemned>>
        /\ spent'.outside = spent.outside
    BY <1>0, <1>3 DEF Healthy
  <2> QED BY <2>1, <2>2 DEF machine
<1>4. CASE Unhealthy
  <2>1. UNCHANGED <<machine, desired, disk, mem, seen, spent>> /\ pc = "gate"
    BY <1>4 DEF Unhealthy
  <2>2. CASE job.task \in {"swap", "resume"}
    <3>1. /\ job'.task = "rollBack" /\ job'.pin = job.pin
          /\ pc' = "switch" \/ (pc' = "finish" /\ attention')
      BY <1>4, <2>2 DEF Unhealthy, StartRollBack, TypeOK, Jobs
    <3>2. Calm' => Calm /\ (condemned' = {} \/ job.pin = desired)
      BY <1>4, <2>1, <2>2 DEF Unhealthy, StartRollBack, Condemn
    <3>3. condemned' \subseteq {desired}
      BY <1>4, <2>2 DEF Unhealthy, Condemn
    <3> QED BY <2>1, <2>2, <3>1, <3>2, <3>3 DEF machine
  <2>3. CASE job.task \notin {"swap", "resume"}
    BY <1>4, <2>1, <2>3 DEF Unhealthy, GotoJob, machine
  <2> QED BY <2>2, <2>3
<1>5. CASE Prune
  <2>1. cur' = cur /\ job' = job /\ pc' = "commit" /\ pc = "prune" /\ spent'.outside = spent.outside
    BY <1>0, <1>5 DEF Prune, GotoJob
  <2>2. Target(cur)' = Target(cur)
    BY <1>5, PruneKeepsCurrent
  <2> QED BY <1>5, <2>1, <2>2 DEF Prune
<1>6. CASE Commit
  <2>1. ~mem'.swapping.on
    BY <1>6 DEF Commit, SaveAs, NoMemory, NoSwap
  <2>2. disk' \in {disk, mem'} /\ spent'.outside = spent.outside
    BY <1>0, <1>6 DEF Commit, SaveAs
  <2> QED BY <1>6, <2>1, <2>2 DEF Commit, GotoJob, machine, history
<1>7. CASE RollBackRestart
  <2>1. /\ UNCHANGED <<desired, disk, mem, condemned, job>> /\ pc = "rerestart"
        /\ \/ pc' = "finish" /\ attention'
           \/ Starts("up") /\ pc' = "baseline" /\ UNCHANGED <<attention, spent>>
    BY <1>7 DEF RollBackRestart, Goto
  <2>2. CASE pc' = "finish" /\ attention'
    BY <2>1, <2>2
  <2>3. CASE Starts("up") /\ pc' = "baseline" /\ UNCHANGED <<attention, spent>>
    <3>1. unit'.inv # mem.swapping.inv /\ unit'.active = "up"
      BY <2>3, StartsAfresh
    <3>2. SwappedTo(mem.swapping)' /\ SwappedTo(disk.swapping)'
      BY <1>7, <2>1 DEF RollBackRestart
    <3> QED BY <2>1, <2>3, <3>1, <3>2
  <2> QED BY <2>1, <2>2, <2>3
<1>8. CASE FinishRollBack
  <2>1. /\ job.task = "rollBack" => mem'.swapping = NoSwap /\ mem'.pinned = job.pin
        /\ disk' \in {disk, mem'} /\ spent'.outside = spent.outside
        /\ mem'.swapping \in {mem.swapping, NoSwap}
    BY <1>0, <1>8 DEF FinishRollBack, SaveAs, RolledBack, TypeOK, UnitMemories
  <2> QED BY <1>8, <2>1 DEF FinishRollBack, GotoJob, NoSwap, machine, history
<1> QED BY <1>1, <1>2, <1>3, <1>4, <1>5, <1>6, <1>7, <1>8 DEF Gate

LEMMA PinEnvironment ==
  ASSUME TypeOK, ClosureInv, RecoveryInv, RestartInv, RunInv, PinInv, Environment
  PROVE  PinInv'
<1>1. CASE Crash
  <2>1. spent'.outside = spent.outside
    BY <1>1 DEF Crash, TypeOK, Spendings
  <2> QED BY <1>1, <2>1 DEF Crash, NoMemory, NoSwap, machine, history
<1>2. CASE UnitDies
  BY <1>2, OutsideCounts DEF UnitDies, daemon, history
<1>3. CASE OthersStart
  BY <1>3, OutsideCounts DEF OthersStart, daemon, history
<1>4. CASE UnitStopped
  BY <1>4, OutsideCounts DEF UnitStopped, daemon, history
<1>5. CASE UnitReady
  <2>1. /\ unit'.active = "up" /\ unit'.inv = unit.inv /\ unit'.runs = unit.runs
        /\ unit.active = "activating"
    BY <1>5 DEF UnitReady, TypeOK, Units
  <2> QED BY <1>5, <2>1 DEF UnitReady, daemon, history
<1>6. CASE PlayersComeOrGo
  BY <1>6 DEF PlayersComeOrGo, daemon, history
<1>7. CASE Deploy
  <2>1. spent'.outside = spent.outside
    BY <1>7 DEF Deploy, TypeOK, Spendings
  <2> QED BY <1>7, <2>1 DEF Deploy, machine, daemon
<1> QED BY <1>1, <1>2, <1>3, <1>4, <1>5, <1>6, <1>7 DEF Environment

LEMMA PinStep ==
  TypeOK /\ ClosureInv /\ RecoveryInv /\ RestartInv /\ RunInv /\ PinInv /\ [Next]_vars => PinInv'
<1> SUFFICES ASSUME TypeOK, ClosureInv, RecoveryInv, RestartInv, RunInv, PinInv, [Next]_vars
             PROVE  PinInv'
  OBVIOUS
<1>1. CASE UNCHANGED vars
  BY <1>1 DEF vars, machine, daemon, history
<1>2. CASE Daemon
  BY <1>2, PinPasses, PinFirstSight, PinPutBack, PinStopped, PinSwap, PinGate DEF Daemon
<1>3. CASE Environment
  BY <1>3, PinEnvironment
<1> QED BY <1>1, <1>2, <1>3 DEF Next

HIDE DEF ClosureInv, CurExists, WantsOne, LookHolds, RecordsAgree, NotSetYet, SwapFits, ClosureFits,
         GateFits, PutBackFits, RecordFits, GoesBackTo, OnRecord, MustRestart, Exists, Target,
         RecoveryInv, SwapMoves, RestartInv, SwapSteps, PutBackSteps, GateSteps,
         RunInv, PlaceFits, RunFits, RunsByRecord, RunSteps, Up, Calm, IsStopped, Recorded,
         PinInv, SwappedTo, Remembers, StaysAway, RecordOfDesired, SwapUnderWay

\* PinInv holds throughout, once the profile is seeded.
THEOREM PinInvariant ==
  ASSUME Seeded
  PROVE  Spec => []PinInv
<1> QED BY PinInit, PinStep, TypeCorrect, ClosureInvariant, RecoveryInvariant, RestartInvariant,
           RunInvariant, PTL DEF Spec

(***************************************************************************)
(* A version a gate found unhealthy is not put into the profile again      *)
(* until the desired version moves, through any number of crashes and      *)
(* failed saves: the pin is in the state file, or the record that leads to *)
(* it is.                                                                  *)
(***************************************************************************)
THEOREM NeverIsBackToCondemned ==
  ASSUME Seeded
  PROVE  Spec => NeverBackToCondemned
<1>1. PinInv => (DaemonMovesProfile /\ ~attention /\ spent.outside = 0 => job.want \notin condemned)
  BY DEF PinInv, SwapUnderWay, SwapSteps, Calm, DaemonMovesProfile
<1>2. PinInv /\ [Next]_vars
      => [DaemonMovesProfile /\ ~attention /\ spent.outside = 0 => job.want \notin condemned]_vars
  BY <1>1
<1> QED BY <1>2, PinInvariant, PTL DEF Spec, NeverBackToCondemned

=============================================================================
