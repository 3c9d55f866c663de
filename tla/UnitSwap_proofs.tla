--------------------------- MODULE UnitSwap_proofs ---------------------------
(***************************************************************************)
(* Theorems about UnitSwap, for every value of its constants.              *)
(***************************************************************************)
EXTENDS UnitSwapInvariant, TLAPS

-----------------------------------------------------------------------------
(* Types of the operators the actions are built from.                      *)

\* There is always an invocation id nobody holds: six ids, five holders.
LEMMA FreshType ==
  ASSUME TypeOK
  PROVE  Fresh \in InvocationIds
<1>1. \E i \in InvocationIds : i \notin InvocationsHeld
  <2> DEFINE a == unit.inv  b == job.inv  c == job.baseline
             d == mem.swapping.inv  e == disk.swapping.inv
  <2> SUFFICES \E i \in 0..5 : i # a /\ i # b /\ i # c /\ i # d /\ i # e
    BY DEF InvocationIds, InvocationsHeld
  <2> HIDE DEF a, b, c, d, e
  <2> QED OBVIOUS
<1> QED BY <1>1 DEF Fresh

\* The store path of a generation is one, or None.
LEMMA TargetType ==
  ASSUME TypeOK, NEW g \in MaybeGen
  PROVE  Target(g) \in MaybeVersion
BY DEF TypeOK, Target, MaybeVersion, MaybeGen

\* A start of the unit leaves it well typed.
LEMMA StartsType ==
  ASSUME TypeOK, NEW active \in ActiveStates, Starts(active)
  PROVE  unit' \in Units /\ busy' \in BOOLEAN
<1>1. Fresh \in InvocationIds
  BY FreshType
<1>2. Target(cur) \in MaybeVersion
  BY TargetType DEF TypeOK
<1> QED BY <1>1, <1>2 DEF Starts, Units, MaybeVersion

\* So does a restart whose outcome is not known.
LEMMA LostRestartType ==
  ASSUME TypeOK, LostRestart
  PROVE  unit' \in Units /\ busy' \in BOOLEAN
<1>1. CASE UNCHANGED <<unit, busy>>
  BY <1>1 DEF TypeOK
<1>2. ASSUME NEW active \in {"up", "activating", "failed"}, Starts(active)
      PROVE  unit' \in Units /\ busy' \in BOOLEAN
  BY <1>2, StartsType DEF ActiveStates
<1> QED BY <1>1, <1>2 DEF LostRestart

\* A failing call spends from its bound, and a call that works does not.
LEMMA FaultType ==
  ASSUME TypeOK, Fault \/ NoFault
  PROVE  spent' \in Spendings
BY DEF TypeOK, Fault, NoFault, Spendings

\* Saving a memory leaves both copies of it well typed.
LEMMA SaveAsType ==
  ASSUME TypeOK, NEW m \in UnitMemories, SaveAs(m)
  PROVE  mem' \in UnitMemories /\ disk' \in UnitMemories /\ spent' \in Spendings
<1>1. mem' \in UnitMemories /\ disk' \in UnitMemories
  BY DEF TypeOK, SaveAs
<1>2. spent' \in Spendings
  BY FaultType DEF SaveAs
<1> QED BY <1>1, <1>2

LEMMA LookedType ==
  ASSUME TypeOK, NEW j \in Jobs
  PROVE  Looked(j) \in Jobs
<1>1. Target(cur) \in MaybeVersion
  BY TargetType DEF TypeOK
<1>2. unit.active \in ActiveStates /\ unit.inv \in InvocationIds /\ cur \in MaybeGen
  BY DEF TypeOK, Units
<1> HIDE DEF TypeOK
<1> QED BY <1>1, <1>2 DEF Looked, Jobs

LEMMA NoSwapType ==
  NoSwap \in SwapRecords
BY DEF NoSwap, SwapRecords, MaybeVersion, MaybeGen, InvocationIds

LEMMA NoMemoryType ==
  NoMemory \in UnitMemories
BY NoSwapType DEF NoMemory, UnitMemories, MaybeVersion, MaybeGen

LEMMA NoJobType ==
  NoJob \in Jobs
BY DEF NoJob, Jobs, MaybeVersion, MaybeGen, InvocationIds, ActiveStates, Tasks

LEMMA ForgetType ==
  ASSUME NEW m \in UnitMemories, NEW want \in Versions
  PROVE  Forget(m, want) \in UnitMemories
BY DEF Forget, UnitMemories, MaybeVersion

LEMMA CountFailureType ==
  ASSUME NEW m \in UnitMemories, NEW want \in MaybeVersion
  PROVE  CountFailure(m, want) \in UnitMemories
<1> DEFINE failures == IF m.failing = want THEN m.failures + 1 ELSE 1
           pinned == IF failures >= MaxSwapFailures THEN want ELSE m.pinned
<1>1. failures \in Nat
  BY DEF UnitMemories
<1>2. pinned \in MaybeVersion
  BY DEF UnitMemories
<1>3. CountFailure(m, want) = [m EXCEPT !.failing = want, !.failures = failures,
                                        !.pinned = pinned]
  BY DEF CountFailure
<1> HIDE DEF failures, pinned
<1> QED BY <1>1, <1>2, <1>3 DEF UnitMemories

LEMMA BackToType ==
  ASSUME NEW j \in Jobs, NEW task \in Tasks, NEW g \in MaybeGen,
         NEW target \in MaybeVersion, NEW pin \in MaybeVersion
  PROVE  BackTo(j, task, g, target, pin) \in Jobs
BY DEF BackTo, Jobs

LEMMA StepTypes ==
  ASSUME NEW j
  PROVE  AfterPutBack(j) \in Steps /\ AfterSwitch(j) \in Steps
BY DEF AfterSwitch, AfterPutBack, Steps

LEMMA StartRollBackType ==
  ASSUME TypeOK, NEW j \in Jobs, StartRollBack(j)
  PROVE  pc' \in Steps /\ job' \in Jobs /\ attention' \in BOOLEAN
BY DEF TypeOK, StartRollBack, Steps

LEMMA PutBackFailsType ==
  ASSUME TypeOK, PutBackFails
  PROVE  pc' \in Steps /\ job' \in Jobs /\ attention' \in BOOLEAN /\ seen' \in BOOLEAN
BY DEF TypeOK, PutBackFails, Steps

LEMMA UndoType ==
  ASSUME NEW j \in Jobs, Undo(j)
  PROVE  pc' \in Steps /\ job' \in Jobs
<1> DEFINE u == [j EXCEPT !.task = "undo"]
<1>1. u \in Jobs
  BY DEF Jobs, Tasks
<1>2. AfterSwitch(u) \in Steps
  BY StepTypes
<1>3. pc' = (IF u.set /\ u.back # 0 THEN "switch" ELSE AfterSwitch(u)) /\ job' = u
  BY DEF Undo, GotoJob
<1> HIDE DEF u
<1> QED BY <1>1, <1>2, <1>3 DEF Steps

-----------------------------------------------------------------------------
(* Type correctness.  The actions are taken in the groups Next is made of. *)

LEMMA TypeInit == Init => TypeOK
<1> SUFFICES ASSUME NEW v \in Versions, NEW active \in InitialActive,
                    Init!(v, active)
             PROVE  TypeOK
  BY DEF Init
<1>1. unit \in Units
  BY PolicyAssumption DEF Units, ActiveStates, MaybeVersion, InvocationIds
<1>2. gens \in [Generations -> MaybeVersion] /\ cur \in MaybeGen
  BY GenerationsAssumption DEF MaybeVersion, MaybeGen, Generations
<1>3. Target(cur) \in MaybeVersion
  BY <1>2 DEF Target, MaybeVersion, MaybeGen
<1>4. streak \in 0..IdleSamples
  BY PolicyAssumption
<1>5. spent \in Spendings
  BY DEF Spendings
<1> QED BY <1>1, <1>2, <1>3, <1>4, <1>5, NoMemoryType, NoJobType DEF TypeOK, Steps

LEMMA TypePasses ==
  ASSUME TypeOK, Start \/ Look \/ EndPass \/ Relook \/ SampleAndDecide
  PROVE  TypeOK'
<1>1. CASE Start
  BY <1>1 DEF TypeOK, Start, Steps, machine, history
<1>2. CASE Look
  <2>1. desired \in MaybeVersion
    BY DEF TypeOK, MaybeVersion
  <2>2. [NoJob EXCEPT !.want = desired] \in Jobs
    BY <2>1, NoJobType DEF Jobs
  <2>3. job' \in Jobs
    BY <1>2, <2>2, LookedType DEF Look, GotoJob
  <2>4. mem' \in UnitMemories
    BY <1>2, ForgetType DEF Look, TypeOK
  <2> QED BY <1>2, <2>3, <2>4 DEF TypeOK, Look, GotoJob, Steps, machine, history
<1>3. CASE EndPass
  <2>1. mem' \in UnitMemories /\ disk' \in UnitMemories /\ spent' \in Spendings
    BY <1>3, SaveAsType DEF EndPass, TypeOK
  <2> QED BY <1>3, <2>1, NoJobType DEF TypeOK, EndPass, GotoJob, Steps, machine, history
<1>4. CASE Relook
  <2>1. job' \in Jobs
    BY <1>4, LookedType DEF Relook, GotoJob, TypeOK
  <2>2. spent' \in Spendings
    BY <1>4, FaultType DEF Relook
  <2> QED BY <1>4, <2>1, <2>2 DEF TypeOK, Relook, GotoJob, Steps, machine, history
<1>5. CASE SampleAndDecide
  <2>1. spent' \in Spendings
    BY <1>5, FaultType DEF SampleAndDecide, SampleReads
  <2>2. \A idle \in BOOLEAN : NextStreak(streak, idle, IdleSamples) \in 0..IdleSamples
    BY PolicyAssumption DEF TypeOK, NextStreak
  <2>3. streak' \in 0..IdleSamples /\ pc' \in Steps /\ held' \in BOOLEAN
    BY <1>5, <2>2 DEF SampleAndDecide, Goto, Steps, TypeOK
  <2> QED BY <1>5, <2>1, <2>3 DEF TypeOK, SampleAndDecide, machine, history
<1> QED BY <1>1, <1>2, <1>3, <1>4, <1>5

LEMMA TypeFirstSight ==
  ASSUME TypeOK, FirstSight
  PROVE  TypeOK'
<1> DEFINE record == mem.swapping
           BackToRecord(task) == BackTo(job, task, record.from, record.fromTarget, record.to)
<1>1. \A task \in Tasks : BackToRecord(task) \in Jobs
  <2>1. record \in SwapRecords
    BY DEF TypeOK, UnitMemories
  <2> QED BY <2>1, BackToType DEF TypeOK, SwapRecords
<1>2. CASE ResumePutBack
  <2>1. job' \in Jobs
    BY <1>1, <1>2 DEF ResumePutBack, GotoJob, Tasks
  <2>2. pc' \in Steps
    BY <1>2, StepTypes DEF ResumePutBack, GotoJob, Steps
  <2> QED BY <1>2, <2>1, <2>2 DEF TypeOK, ResumePutBack, machine, history
<1>3. CASE ResumeGate
  <2>1. job' \in Jobs
    BY <1>1, <1>3 DEF ResumeGate, GotoJob, Tasks
  <2> QED BY <1>3, <2>1 DEF TypeOK, ResumeGate, GotoJob, Steps, machine, history
<1>4. CASE ResumeRollBack
  <2>1. pc' \in Steps /\ job' \in Jobs /\ attention' \in BOOLEAN
    BY <1>1, <1>4, StartRollBackType DEF ResumeRollBack, Tasks
  <2> QED BY <1>4, <2>1 DEF TypeOK, ResumeRollBack, machine
<1>5. CASE Adopt
  <2>1. [mem EXCEPT !.good = job.gen] \in UnitMemories
    BY DEF TypeOK, UnitMemories, Jobs
  <2>2. mem' \in UnitMemories /\ disk' \in UnitMemories /\ spent' \in Spendings
    BY <1>5, <2>1, SaveAsType DEF Adopt
  <2> QED BY <1>5, <2>2 DEF TypeOK, Adopt, GotoJob, Steps, machine, history
<1>6. CASE RollBackInterrupted
  <2>1. mem.good \in MaybeGen /\ job.target \in MaybeVersion
    BY DEF TypeOK, UnitMemories, Jobs
  <2>2. BackTo(job, "interrupted", mem.good, Target(mem.good), job.target) \in Jobs
    BY <2>1, TargetType, BackToType DEF TypeOK, Tasks
  <2>3. pc' \in Steps /\ job' \in Jobs /\ attention' \in BOOLEAN
    BY <1>6, <2>2, StartRollBackType DEF RollBackInterrupted
  <2> QED BY <1>6, <2>3 DEF TypeOK, RollBackInterrupted, machine
<1>7. CASE NothingToRecover
  BY <1>7 DEF TypeOK, NothingToRecover, GotoJob, Steps, machine, history
<1> QED BY <1>2, <1>3, <1>4, <1>5, <1>6, <1>7 DEF FirstSight

LEMMA TypePutBack ==
  ASSUME TypeOK, PutBack
  PROVE  TypeOK'
<1>1. AfterSwitch(job) \in Steps /\ AfterPutBack(job) \in Steps
  BY StepTypes
<1>2. CASE Switch
  <2>1. job' \in Jobs /\ cur' \in MaybeGen
    BY <1>2 DEF TypeOK, Switch, GotoJob, Jobs
  <2> QED BY <1>1, <1>2, <2>1 DEF TypeOK, Switch, GotoJob, Steps, history
<1>3. CASE SwitchFails
  BY <1>3, PutBackFailsType, FaultType DEF TypeOK, SwitchFails, PutBackFails, machine
<1>4. CASE Delete
  <2>1. gens' \in [Generations -> MaybeVersion] /\ ungated' \subseteq Generations
    BY <1>4 DEF TypeOK, Delete, MaybeVersion
  <2> QED BY <1>1, <1>4, <2>1, FaultType DEF TypeOK, Delete, GotoJob
<1>5. CASE Rebind
  BY <1>5 DEF TypeOK, Rebind, GotoJob, Steps, Jobs, history
<1>6. CASE RebindFails
  BY <1>6, PutBackFailsType, FaultType DEF TypeOK, RebindFails, PutBackFails, machine
<1>7. CASE Rereload
  BY <1>1, <1>7 DEF TypeOK, Rereload, GotoJob, history
<1>8. CASE RereloadFails
  BY <1>8, PutBackFailsType, FaultType DEF TypeOK, RereloadFails, PutBackFails
<1>9. CASE Resumed
  <2>1. [mem EXCEPT !.swapping = NoSwap] \in UnitMemories
    BY NoSwapType DEF TypeOK, UnitMemories
  <2>2. mem' \in UnitMemories /\ disk' \in UnitMemories /\ spent' \in Spendings
    BY <1>9, <2>1, SaveAsType DEF Resumed
  <2> QED BY <1>9, <2>2 DEF TypeOK, Resumed, GotoJob, Steps, machine, history
<1> QED BY <1>2, <1>3, <1>4, <1>5, <1>6, <1>7, <1>8, <1>9 DEF PutBack

LEMMA TypeStopped ==
  ASSUME TypeOK, Stopped
  PROVE  TypeOK'
<1>1. CASE UpdateStopped
  BY <1>1 DEF TypeOK, UpdateStopped, GotoJob, Steps, machine, history
<1>2. CASE StoppedBind
  BY <1>2, FaultType DEF TypeOK, StoppedBind, GotoJob, Steps, Jobs, history
<1>3. CASE StoppedSet
  <2>1. gens' \in [Generations -> MaybeVersion] /\ cur' \in MaybeGen /\ ungated' \subseteq Generations
    BY <1>3 DEF TypeOK, StoppedSet, ProfileSet, Jobs, MaybeGen
  <2> QED BY <1>3, <2>1, FaultType DEF TypeOK, StoppedSet, GotoJob, Steps
<1>4. CASE StoppedReload
  BY <1>4, FaultType DEF TypeOK, StoppedReload, GotoJob, Steps, history
<1> QED BY <1>1, <1>2, <1>3, <1>4 DEF Stopped

LEMMA TypeSwap ==
  ASSUME TypeOK, Swap
  PROVE  TypeOK'
<1>1. CASE SomeoneArrived
  BY <1>1, FaultType, PolicyAssumption
  DEF TypeOK, SomeoneArrived, SampleReads, GotoJob, Steps, machine, history
<1>2. CASE Record
  <2>1. RecordOf(job) \in SwapRecords
    BY DEF TypeOK, RecordOf, SwapRecords, Jobs
  <2>2. mem' \in UnitMemories /\ disk' \in UnitMemories
    BY <1>2, <2>1 DEF TypeOK, Record, UnitMemories
  <2>3. job' \in Jobs
    BY <1>2, BackToType DEF TypeOK, Record, GotoJob, Jobs, Tasks
  <2> QED BY <1>2, <2>2, <2>3, FaultType
         DEF TypeOK, Record, SampleReads, GotoJob, Steps, machine, history
<1>3. CASE RecordFails
  <2>1. [mem EXCEPT !.swapping = NoSwap] \in UnitMemories
    BY NoSwapType DEF TypeOK, UnitMemories
  <2> QED BY <1>3, <2>1, FaultType DEF TypeOK, RecordFails, GotoJob, Steps, machine, history
<1>4. CASE Bind
  <2>1. [job EXCEPT !.bound = TRUE] \in Jobs
    BY DEF TypeOK, Jobs
  <2>2. pc' \in Steps /\ job' \in Jobs
    BY <1>4, <2>1, UndoType DEF TypeOK, Bind, GotoJob, Steps
  <2>3. file' \in MaybeVersion
    BY <1>4 DEF TypeOK, Bind, Jobs
  <2> QED BY <1>4, <2>2, <2>3, FaultType DEF TypeOK, Bind, history
<1>5. CASE Reload
  <2>1. pc' \in Steps /\ job' \in Jobs
    BY <1>5, UndoType DEF TypeOK, Reload, GotoJob, Steps
  <2>2. loaded' \in MaybeVersion
    BY <1>5 DEF TypeOK, Reload
  <2> QED BY <1>5, <2>1, <2>2, FaultType DEF TypeOK, Reload, history
<1>6. CASE SetProfile
  <2>1. gens' \in [Generations -> MaybeVersion] /\ cur' \in MaybeGen /\ ungated' \subseteq Generations
    BY <1>6 DEF TypeOK, SetProfile, ProfileSet, Jobs, MaybeGen
  <2>2. [job EXCEPT !.set = TRUE] \in Jobs
    BY DEF TypeOK, Jobs
  <2> QED BY <1>6, <2>1, <2>2 DEF TypeOK, SetProfile, GotoJob, Steps
<1>7. CASE SetProfileFails
  BY <1>7, UndoType, FaultType DEF TypeOK, SetProfileFails, machine, history
<1>8. CASE RestartDone
  BY <1>8, StartsType DEF TypeOK, RestartDone, GotoJob, Steps, ActiveStates, history
<1>9. CASE RestartFails
  <2>1. [job EXCEPT !.task = "rollBack"] \in Jobs
    BY DEF TypeOK, Jobs, Tasks
  <2>2. pc' \in Steps /\ job' \in Jobs /\ attention' \in BOOLEAN
    BY <1>9, <2>1, StartRollBackType DEF RestartFails
  <2>3. condemned' \subseteq Versions
    BY <1>9 DEF TypeOK, RestartFails, Condemn
  <2> QED BY <1>9, <2>2, <2>3, StartsType DEF TypeOK, RestartFails, ActiveStates
<1>10. CASE RestartLost
  BY <1>10, LostRestartType, UndoType, FaultType DEF TypeOK, RestartLost, history
<1>11. CASE UndoRestart
  <2>1. unit' \in Units /\ busy' \in BOOLEAN
    BY <1>11, StartsType DEF TypeOK, UndoRestart, ActiveStates
  <2> QED BY <1>11, <2>1 DEF TypeOK, UndoRestart, GotoJob, Steps, history
<1>12. CASE UndoRestartFails
  <2>1. unit' \in Units /\ busy' \in BOOLEAN
    BY <1>12, LostRestartType DEF TypeOK, UndoRestartFails
  <2> QED BY <1>12, <2>1, FaultType DEF TypeOK, UndoRestartFails, GotoJob, Steps
<1>13. CASE Undone
  <2>1. [mem EXCEPT !.swapping = NoSwap] \in UnitMemories
    BY NoSwapType DEF TypeOK, UnitMemories
  <2>2. CountFailure([mem EXCEPT !.swapping = NoSwap], job.want) \in UnitMemories
    BY <2>1, CountFailureType DEF TypeOK, Jobs
  <2>3. mem' \in UnitMemories /\ disk' \in UnitMemories /\ spent' \in Spendings
    BY <1>13, <2>2, SaveAsType DEF Undone
  <2> QED BY <1>13, <2>3 DEF TypeOK, Undone, GotoJob, Steps, machine, history
<1> QED BY <1>1, <1>2, <1>3, <1>4, <1>5, <1>6, <1>7, <1>8, <1>9, <1>10, <1>11, <1>12, <1>13 DEF Swap

LEMMA TypeGate ==
  ASSUME TypeOK, Gate
  PROVE  TypeOK'
<1>1. CASE Baseline
  BY <1>1 DEF TypeOK, Baseline, GotoJob, Steps, Jobs, Units, machine, history
<1>2. CASE BaselineFails
  BY <1>2, FaultType DEF TypeOK, BaselineFails, Steps, machine
<1>3. CASE Healthy
  <2>1. \A good \in MaybeGen : [job EXCEPT !.commits = good] \in Jobs
    BY DEF TypeOK, Jobs
  <2>2. cur \in MaybeGen /\ 0 \in MaybeGen /\ job.gen \in MaybeGen
    BY DEF TypeOK, MaybeGen, Jobs
  <2>3. pc' \in Steps /\ job' \in Jobs /\ spent' \in Spendings
    BY <1>3, <2>1, <2>2, FaultType DEF TypeOK, Healthy, GotoJob, Steps
  <2> QED BY <1>3, <2>3 DEF TypeOK, Healthy, machine
<1>4. CASE Unhealthy
  <2>1. [job EXCEPT !.task = "rollBack"] \in Jobs
    BY DEF TypeOK, Jobs, Tasks
  <2>2. pc' \in Steps /\ job' \in Jobs /\ attention' \in BOOLEAN
    BY <1>4, <2>1, StartRollBackType DEF TypeOK, Unhealthy, GotoJob, Steps
  <2>3. condemned' \subseteq Versions
    BY <1>4 DEF TypeOK, Unhealthy, Condemn
  <2> QED BY <1>4, <2>2, <2>3 DEF TypeOK, Unhealthy, machine
<1>5. CASE Prune
  <2>1. gens' \in [Generations -> MaybeVersion] /\ ungated' \subseteq Generations
    BY <1>5 DEF TypeOK, Prune, MaybeVersion
  <2> QED BY <1>5, <2>1, FaultType DEF TypeOK, Prune, GotoJob, Steps
<1>6. CASE Commit
  <2>1. [NoMemory EXCEPT !.good = job.commits] \in UnitMemories
    BY NoMemoryType DEF TypeOK, UnitMemories, Jobs
  <2>2. mem' \in UnitMemories /\ disk' \in UnitMemories /\ spent' \in Spendings
    BY <1>6, <2>1, SaveAsType DEF Commit
  <2> QED BY <1>6, <2>2 DEF TypeOK, Commit, GotoJob, Steps, machine, history
<1>7. CASE RollBackRestart
  <2>1. unit' \in Units /\ busy' \in BOOLEAN
    BY <1>7, StartsType, LostRestartType DEF RollBackRestart, ActiveStates
  <2> QED BY <1>7, <2>1, FaultType DEF TypeOK, RollBackRestart, Goto, Steps
<1>8. CASE FinishRollBack
  <2>1. RolledBack(mem) \in UnitMemories
    BY NoSwapType DEF TypeOK, RolledBack, UnitMemories, Jobs, MaybeVersion
  <2>2. mem' \in UnitMemories /\ disk' \in UnitMemories /\ spent' \in Spendings
    BY <1>8, <2>1, SaveAsType DEF FinishRollBack
  <2> QED BY <1>8, <2>2 DEF TypeOK, FinishRollBack, GotoJob, Steps, machine, history
<1> QED BY <1>1, <1>2, <1>3, <1>4, <1>5, <1>6, <1>7, <1>8 DEF Gate

LEMMA TypeEnvironment ==
  ASSUME TypeOK, Environment
  PROVE  TypeOK'
<1>1. CASE Crash
  <2>1. spent' \in Spendings
    BY <1>1 DEF TypeOK, Crash, Spendings
  <2>2. streak' \in 0..IdleSamples
    BY <1>1, PolicyAssumption DEF Crash
  <2> QED BY <1>1, <2>1, <2>2, NoJobType, NoMemoryType DEF TypeOK, Crash, Steps, machine, history
<1>2. ASSUME Outside PROVE spent' \in Spendings
  BY <1>2 DEF TypeOK, Outside, Spendings
<1>3. CASE UnitDies
  BY <1>2, <1>3 DEF TypeOK, UnitDies, Units, ActiveStates, MaybeVersion, daemon, history
<1>4. CASE OthersStart
  <2>1. unit' \in Units /\ busy' \in BOOLEAN
    BY <1>4, StartsType DEF OthersStart, ActiveStates
  <2> QED BY <1>2, <1>4, <2>1 DEF TypeOK, OthersStart, daemon, history
<1>5. CASE UnitStopped
  BY <1>2, <1>5 DEF TypeOK, UnitStopped, Units, ActiveStates, MaybeVersion, daemon, history
<1>6. CASE UnitReady
  BY <1>6 DEF TypeOK, UnitReady, Units, ActiveStates, daemon, history
<1>7. CASE PlayersComeOrGo
  BY <1>7 DEF TypeOK, PlayersComeOrGo, daemon, history
<1>8. CASE Deploy
  <2>1. spent' \in Spendings
    BY <1>8 DEF TypeOK, Deploy, Spendings
  <2> QED BY <1>8, <2>1 DEF TypeOK, Deploy, machine, daemon
<1> QED BY <1>1, <1>3, <1>4, <1>5, <1>6, <1>7, <1>8 DEF Environment

LEMMA TypeStep == TypeOK /\ [Next]_vars => TypeOK'
<1> SUFFICES ASSUME TypeOK, [Next]_vars PROVE TypeOK'
  OBVIOUS
<1>1. CASE UNCHANGED vars
  BY <1>1 DEF TypeOK, vars, machine, daemon, history
<1>2. CASE Daemon
  BY <1>2, TypePasses, TypeFirstSight, TypePutBack, TypeStopped, TypeSwap, TypeGate DEF Daemon
<1>3. CASE Environment
  BY <1>3, TypeEnvironment
<1> QED BY <1>1, <1>2, <1>3 DEF Next

(***************************************************************************)
(* The variables of UnitSwap stay in their types: in particular a pass     *)
(* never ends up at a step, a generation or a version there is none of.    *)
(***************************************************************************)
THEOREM TypeCorrect == Spec => []TypeOK
<1> QED BY TypeInit, TypeStep, PTL DEF Spec

-----------------------------------------------------------------------------
(* The closure invariant (UnitSwapInvariant).                              *)

(***************************************************************************)
(* nix-env --set moves the profile forward, to a generation that is there, *)
(* and never gives a number still on record to another store path.         *)
(***************************************************************************)
LEMMA SetKeeps ==
  ASSUME TypeOK, CurExists, NEW v \in Versions, NEW g \in Generations, ProfileSet(v, g)
  PROVE  /\ CurExists' /\ cur <= cur' /\ Target(cur)' = v
         /\ \A r \in SwapRecords : RecordFits(r) => RecordFits(r)'
<1>1. cur \in MaybeGen /\ cur' = g /\ gens' = [gens EXCEPT ![g] = v] /\ v # None
  BY VersionsAssumption DEF ProfileSet, TypeOK
<1>2. CurExists' /\ Target(cur)' = v
  BY <1>1 DEF TypeOK, CurExists, Exists, Target, Generations
<1>3. CASE IsNewest(g) /\ gens[g] = v
  <2>1. gens' = gens
    BY <1>1, <1>3 DEF TypeOK
  <2>2. cur <= cur'
    BY <1>1, <1>3 DEF CurExists, IsNewest, Exists, MaybeGen, Generations
  <2> QED BY <1>1, <1>2, <2>1, <2>2 DEF RecordFits, GoesBackTo, SwapRecords, MaybeGen, Generations
<1>4. CASE ~Exists(g) /\ IF g = 1 THEN \A h \in Generations : ~Exists(h)
                                  ELSE IsNewest(g - 1) /\ gens[g - 1] # v
  <2>1. cur < g
    <3>1. CASE g = 1
      BY <1>1, <1>4, <3>1 DEF CurExists, MaybeGen, Generations
    <3>2. CASE g # 1
      <4>1. IsNewest(g - 1) /\ g - 1 \in Generations
        BY <1>4, <3>2, GenerationsAssumption DEF Generations
      <4>2. cur <= g - 1
        BY <1>1, <4>1 DEF IsNewest, CurExists, MaybeGen, Generations
      <4> QED BY <1>1, <4>2 DEF MaybeGen, Generations
    <3> QED BY <3>1, <3>2
  <2>2. ASSUME NEW r \in SwapRecords, RecordFits(r) PROVE RecordFits(r)'
    <3>1. r.on => r.from \in MaybeGen /\ r.from < g
      BY <1>1, <2>1, <2>2 DEF RecordFits, SwapRecords, MaybeGen, Generations
    <3>2. r.on /\ r.from # 0 => gens'[r.from] = gens[r.from]
      BY <1>1, <3>1 DEF TypeOK, MaybeGen, Generations
    <3> QED BY <1>1, <2>1, <2>2, <3>1, <3>2 DEF RecordFits, GoesBackTo, MaybeGen, Generations
  <2> QED BY <1>1, <1>2, <2>1, <2>2 DEF MaybeGen, Generations
<1> QED BY <1>3, <1>4 DEF ProfileSet, SetLandsOn

USE DEF ClosureInv, CurExists, WantsOne, LookHolds, RecordsAgree, NotSetYet, SwapFits, ClosureFits,
        GateFits, PutBackFits, RecordFits, GoesBackTo, OnRecord, MustRestart, Exists, Target

LEMMA ClosureInit == Init => ClosureInv
BY GenerationsAssumption, VersionsAssumption DEF Init, NoMemory, NoSwap, NoJob, Generations

LEMMA ClosurePasses ==
  ASSUME TypeOK, ClosureInv, Start \/ Look \/ EndPass \/ Relook \/ SampleAndDecide
  PROVE  ClosureInv'
<1>1. CASE Start
  BY <1>1 DEF Start, machine
<1>2. CASE Look
  <2>1. /\ job'.want = desired /\ job'.gen = cur /\ job'.target = Target(cur)
        /\ job'.set = FALSE /\ job'.task = "none"
    BY <1>2 DEF Look, GotoJob, Looked, NoJob
  <2>2. mem'.swapping = mem.swapping
    BY <1>2 DEF Look, Forget, TypeOK, UnitMemories
  <2>3. desired # None
    BY VersionsAssumption DEF TypeOK
  <2> QED BY <1>2, <2>1, <2>2, <2>3 DEF Look, GotoJob, machine
<1>3. CASE EndPass
  BY <1>3 DEF EndPass, GotoJob, NoJob, SaveAs, machine
<1>4. CASE Relook
  BY <1>4 DEF Relook, Fault, NoFault, GotoJob, Looked, machine, TypeOK, Jobs
<1>5. CASE SampleAndDecide
  BY <1>5 DEF SampleAndDecide, Goto, machine
<1> QED BY <1>1, <1>2, <1>3, <1>4, <1>5

LEMMA ClosureFirstSight ==
  ASSUME TypeOK, ClosureInv, FirstSight
  PROVE  ClosureInv'
<1>1. CASE ResumePutBack
  BY <1>1
     DEF ResumePutBack, BackTo, GotoJob, AfterSwitch, Rebinds, AfterPutBack, machine, TypeOK, Jobs
<1>2. CASE ResumeGate
  BY <1>2 DEF ResumeGate, GotoJob, BackTo, machine, TypeOK, Jobs
<1>3. CASE ResumeRollBack
  BY <1>3 DEF ResumeRollBack, StartRollBack, BackTo, machine, TypeOK, Jobs
<1>4. CASE Adopt
  BY <1>4 DEF Adopt, SaveAs, GotoJob, machine, TypeOK, UnitMemories
<1>5. CASE RollBackInterrupted
  BY <1>5 DEF RollBackInterrupted, StartRollBack, BackTo, machine, TypeOK, Jobs
<1>6. CASE NothingToRecover
  BY <1>6 DEF NothingToRecover, GotoJob, machine
<1> QED BY <1>1, <1>2, <1>3, <1>4, <1>5, <1>6 DEF FirstSight

LEMMA ClosurePutBack ==
  ASSUME TypeOK, ClosureInv, PutBack
  PROVE  ClosureInv'
<1>1. CASE Switch
  <2>1. /\ job'.task = job.task /\ job'.want = job.want /\ job'.back = job.back
        /\ job'.backTarget = job.backTarget /\ job'.bound = job.bound /\ job'.set = job.set
    BY <1>1 DEF TypeOK, Switch, GotoJob, Jobs
  <2>2. /\ cur' = job.back /\ gens' = gens
        /\ gens[job.back] # None /\ gens[job.back] = job.backTarget
    BY <1>1 DEF Switch
  <2>3. RecordsAgree'
    <3>1. mem' = mem /\ disk' = disk /\ seen' = seen /\ seen /\ pc' \notin {"off", "firstSight"}
      BY <1>1 DEF Switch, GotoJob, AfterSwitch, AfterPutBack
    <3>2. CASE job.task = "interrupted"
      BY <2>1, <3>1, <3>2
    <3>3. CASE job.task # "interrupted"
      <4>1. job.back <= job.back
        BY DEF TypeOK, Jobs, MaybeGen, Generations
      <4>2. mem.swapping.on /\ mem.swapping.from = job.back /\ disk.swapping = mem.swapping
        BY <1>1, <3>3 DEF Switch
      <4> QED BY <2>1, <2>2, <3>1, <4>1, <4>2
    <3> QED BY <3>2, <3>3
  <2>4. CASE pc' = "delete"
    <3>1. cur # job.back /\ cur # 0 /\ job'.left = cur
      BY <1>1, <2>4 DEF TypeOK, Switch, GotoJob, AfterSwitch, AfterPutBack, Jobs
    <3> QED BY <1>1, <2>1, <2>2, <2>3, <2>4, <3>1 DEF Switch
  <2>5. CASE pc' = AfterSwitch(job)
    BY <1>1, <2>1, <2>2, <2>3, <2>5 DEF Switch, AfterSwitch, Rebinds, AfterPutBack
  <2>6. pc' \in {"delete", AfterSwitch(job)}
    BY <1>1, <2>1 DEF Switch, GotoJob, AfterSwitch, Rebinds, AfterPutBack
  <2> QED BY <2>4, <2>5, <2>6
<1>2. CASE SwitchFails
  BY <1>2 DEF SwitchFails, PutBackFails, machine
<1>3. CASE Delete
  <2>1. /\ cur' = cur /\ job' = job /\ cur = job.back /\ job.back \in Generations
        /\ gens' \in [Generations -> MaybeVersion]
        /\ gens'[cur] = gens[cur]
        /\ \A g \in Generations : gens'[g] \in {gens[g], None}
    BY <1>3 DEF TypeOK, Delete, GotoJob, Jobs, MaybeGen, MaybeVersion
  <2>2. CurExists' /\ Target(cur)' = Target(cur) /\ Target(cur) = job.backTarget /\ job.backTarget # None
    BY <1>3, <2>1 DEF Delete
  <2>3. \A r \in SwapRecords : RecordFits(r) => RecordFits(r)'
    BY <2>1 DEF SwapRecords, MaybeGen
  <2>4. RecordsAgree'
    BY <1>3, <2>1, <2>3 DEF TypeOK, UnitMemories, Delete, GotoJob, AfterSwitch, AfterPutBack
  <2> QED BY <1>3, <2>1, <2>2, <2>4 DEF Delete, GotoJob, AfterSwitch, AfterPutBack, Rebinds
<1>4. CASE Rebind
  BY <1>4 DEF Rebind, GotoJob
<1>5. CASE RebindFails
  BY <1>5 DEF RebindFails, PutBackFails, machine
<1>6. CASE Rereload
  BY <1>6 DEF Rereload, GotoJob, AfterPutBack
<1>7. CASE RereloadFails
  BY <1>7 DEF RereloadFails, PutBackFails
<1>8. CASE Resumed
  BY <1>8 DEF Resumed, SaveAs, NoSwap, GotoJob, machine, TypeOK, UnitMemories
<1> QED BY <1>1, <1>2, <1>3, <1>4, <1>5, <1>6, <1>7, <1>8 DEF PutBack

LEMMA ClosureStopped ==
  ASSUME TypeOK, ClosureInv, Stopped
  PROVE  ClosureInv'
<1>1. CASE UpdateStopped
  BY <1>1 DEF UpdateStopped, GotoJob, machine
<1>2. CASE StoppedBind
  BY <1>2 DEF StoppedBind, GotoJob
<1>3. CASE StoppedSet
  <2>0. job \in Jobs /\ job.want \in Versions /\ mem.swapping \in SwapRecords /\ disk.swapping \in SwapRecords
    BY <1>3 DEF TypeOK, StoppedSet, Jobs, MaybeVersion, UnitMemories
  <2>1. CurExists' /\ RecordFits(mem.swapping)' /\ RecordFits(disk.swapping)'
    <3>1. CASE UNCHANGED <<gens, cur>>
      BY <1>3, <3>1 DEF StoppedSet
    <3>2. CASE \E g \in Generations : ProfileSet(job.want, g)
      BY <1>3, <2>0, <3>2, SetKeeps DEF StoppedSet
    <3> QED BY <1>3, <3>1, <3>2 DEF StoppedSet
  <2> QED BY <1>3, <2>0, <2>1 DEF StoppedSet, GotoJob
<1>4. CASE StoppedReload
  BY <1>4 DEF StoppedReload, GotoJob
<1> QED BY <1>1, <1>2, <1>3, <1>4 DEF Stopped

LEMMA ClosureSwap ==
  ASSUME TypeOK, ClosureInv, Swap
  PROVE  ClosureInv'
<1>1. CASE SomeoneArrived
  BY <1>1 DEF SomeoneArrived, GotoJob, machine
<1>2. CASE Record
  <2>1. job.gen = cur /\ job.target = Target(cur)
    BY <1>2 DEF Record
  <2>2. /\ job'.task = "swap" /\ job'.want = job.want /\ job'.back = cur
        /\ job'.backTarget = Target(cur) /\ job'.set = job.set
    BY <1>2, <2>1 DEF TypeOK, Record, GotoJob, BackTo, Jobs
  <2>3. /\ mem'.swapping = RecordOf(job) /\ disk'.swapping = RecordOf(job)
    BY <1>2 DEF TypeOK, Record, UnitMemories
  <2>4. RecordFits(mem.swapping)'
    BY <1>2, <2>1, <2>3 DEF TypeOK, Record, machine, RecordOf, MaybeGen, Generations
  <2>5. RecordsAgree'
    BY <1>2, <2>2, <2>3, <2>4 DEF Record, machine
  <2>6. OnRecord'
    BY <2>1, <2>2, <2>3 DEF RecordOf
  <2>7. job.set = FALSE
    BY <1>2 DEF Record, TypeOK, Jobs
  <2> QED BY <1>2, <2>2, <2>5, <2>6, <2>7 DEF Record, GotoJob, machine
<1>3. CASE RecordFails
  BY <1>3 DEF RecordFails, NoSwap, GotoJob, machine, TypeOK, UnitMemories
<1>4. CASE Bind
  <2>1. SwapFits /\ job \in Jobs
    BY DEF TypeOK
  <2>2. CASE file' = job.want /\ GotoJob("reload", [job EXCEPT !.bound = TRUE])
    <3>1. /\ job'.task = job.task /\ job'.want = job.want /\ job'.back = job.back
          /\ job'.backTarget = job.backTarget /\ job'.bound /\ job'.set = job.set
          /\ pc' = "reload"
      BY <2>1, <2>2 DEF GotoJob, Jobs
    <3> QED BY <1>4, <2>1, <2>2, <3>1 DEF Bind
  <2>3. CASE Undo(job)
    <3>1. /\ job'.task = "undo" /\ job'.want = job.want /\ job'.back = job.back
          /\ job'.backTarget = job.backTarget /\ job'.bound = job.bound /\ job'.set = job.set
          /\ pc' \in {"rebind", "undoRestart"}
          /\ pc' = "rebind" => job.backTarget # None
      BY <1>4, <2>1, <2>3 DEF Undo, GotoJob, Jobs, AfterSwitch, Rebinds, AfterPutBack, Bind
    <3> QED BY <1>4, <2>1, <2>3, <3>1 DEF Bind
  <2> QED BY <1>4, <2>2, <2>3 DEF Bind
<1>5. CASE Reload
  BY <1>5 DEF Reload, GotoJob, Undo, AfterSwitch, Rebinds, AfterPutBack, TypeOK, Jobs
<1>6. CASE SetProfile
  <2>0. job \in Jobs /\ job.want \in Versions /\ mem.swapping \in SwapRecords /\ disk.swapping \in SwapRecords
    BY <1>6 DEF TypeOK, SetProfile, Jobs, MaybeVersion, UnitMemories
  <2>1. /\ CurExists' /\ RecordFits(mem.swapping)' /\ RecordFits(disk.swapping)'
        /\ Target(cur)' = job.want
    <3>1. PICK g \in Generations : ProfileSet(job.want, g)
      BY <1>6 DEF SetProfile
    <3> QED BY <1>6, <2>0, <3>1, SetKeeps DEF SetProfile
  <2>2. /\ job'.task = job.task /\ job'.want = job.want /\ job'.back = job.back
        /\ job'.backTarget = job.backTarget /\ job'.bound = job.bound /\ job'.set
    BY <1>6, <2>0 DEF SetProfile, GotoJob, Jobs
  <2> QED BY <1>6, <2>0, <2>1, <2>2 DEF SetProfile, GotoJob
<1>7. CASE SetProfileFails
  BY <1>7
     DEF SetProfileFails, Undo, GotoJob, AfterSwitch, Rebinds, AfterPutBack, machine, TypeOK, Jobs
<1>8. CASE RestartDone
  BY <1>8 DEF RestartDone, GotoJob
<1>9. CASE RestartFails
  BY <1>9 DEF RestartFails, StartRollBack, TypeOK, Jobs
<1>10. CASE RestartLost
  BY <1>10 DEF RestartLost, Undo, GotoJob, AfterSwitch, Rebinds, AfterPutBack, TypeOK, Jobs
<1>11. CASE UndoRestart
  BY <1>11 DEF UndoRestart, GotoJob
<1>12. CASE UndoRestartFails
  BY <1>12 DEF UndoRestartFails, GotoJob
<1>13. CASE Undone
  <2>1. mem'.swapping = NoSwap
    BY <1>13 DEF Undone, SaveAs, CountFailure, TypeOK, UnitMemories
  <2>2. disk'.swapping \in {disk.swapping, NoSwap}
    BY <1>13, <2>1 DEF Undone, SaveAs
  <2> QED BY <1>13, <2>1, <2>2 DEF Undone, GotoJob, NoSwap, machine
<1> QED BY <1>1, <1>2, <1>3, <1>4, <1>5, <1>6, <1>7, <1>8, <1>9, <1>10, <1>11, <1>12, <1>13 DEF Swap

LEMMA ClosureGate ==
  ASSUME TypeOK, ClosureInv, Gate
  PROVE  ClosureInv'
<1>1. CASE Baseline
  BY <1>1 DEF Baseline, GotoJob, machine, TypeOK, Jobs
<1>2. CASE BaselineFails
  BY <1>2 DEF BaselineFails, machine
<1>3. CASE Healthy
  BY <1>3 DEF Healthy, GotoJob, machine, TypeOK, Jobs
<1>4. CASE Unhealthy
  BY <1>4 DEF Unhealthy, StartRollBack, GotoJob, machine, TypeOK, Jobs
<1>5. CASE Prune
  <2>1. /\ cur' = cur
        /\ \A g \in Generations : gens'[g] \in {gens[g], None} /\ (g = cur => gens'[g] = gens[g])
    BY <1>5 DEF TypeOK, Prune, PruneKeeps
  <2>2. CurExists'
    BY <2>1 DEF TypeOK, MaybeGen
  <2>3. \A r \in SwapRecords : RecordFits(r) => RecordFits(r)'
    BY <2>1 DEF SwapRecords, MaybeGen
  <2> QED BY <1>5, <2>1, <2>2, <2>3 DEF TypeOK, UnitMemories, Prune, GotoJob
<1>6. CASE Commit
  BY <1>6 DEF Commit, SaveAs, NoMemory, NoSwap, GotoJob, machine, TypeOK
<1>7. CASE RollBackRestart
  BY <1>7 DEF RollBackRestart, Goto
<1>8. CASE FinishRollBack
  <2>1. mem'.swapping = IF job.task = "interrupted" THEN mem.swapping ELSE NoSwap
    BY <1>8 DEF FinishRollBack, SaveAs, RolledBack, TypeOK, UnitMemories
  <2>2. disk'.swapping \in {disk.swapping, mem'.swapping}
    BY <1>8 DEF FinishRollBack, SaveAs
  <2> QED BY <1>8, <2>1, <2>2 DEF FinishRollBack, GotoJob, NoSwap, machine
<1> QED BY <1>1, <1>2, <1>3, <1>4, <1>5, <1>6, <1>7, <1>8 DEF Gate

LEMMA ClosureEnvironment ==
  ASSUME TypeOK, ClosureInv, Environment
  PROVE  ClosureInv'
<1>1. CASE Crash
  BY <1>1 DEF Crash, NoJob, NoMemory, NoSwap, machine, TypeOK
<1>2. CASE UnitDies
  BY <1>2 DEF UnitDies, daemon, TypeOK
<1>3. CASE OthersStart
  BY <1>3 DEF OthersStart, daemon
<1>4. CASE UnitStopped
  BY <1>4 DEF UnitStopped, daemon, TypeOK
<1>5. CASE UnitReady
  BY <1>5 DEF UnitReady, daemon, TypeOK
<1>6. CASE PlayersComeOrGo
  BY <1>6 DEF PlayersComeOrGo, daemon
<1>7. CASE Deploy
  BY <1>7 DEF Deploy, machine, daemon, TypeOK
<1> QED BY <1>1, <1>2, <1>3, <1>4, <1>5, <1>6, <1>7 DEF Environment

LEMMA ClosureStep == TypeOK /\ ClosureInv /\ [Next]_vars => ClosureInv'
<1> SUFFICES ASSUME TypeOK, ClosureInv, [Next]_vars PROVE ClosureInv'
  OBVIOUS
<1>1. CASE UNCHANGED vars
  BY <1>1 DEF vars, machine, daemon
<1>2. CASE Daemon
  BY <1>2, ClosurePasses, ClosureFirstSight, ClosurePutBack, ClosureStopped, ClosureSwap,
     ClosureGate DEF Daemon
<1>3. CASE Environment
  BY <1>3, ClosureEnvironment
<1> QED BY <1>1, <1>2, <1>3 DEF Next

HIDE DEF ClosureInv, CurExists, WantsOne, LookHolds, RecordsAgree, NotSetYet, SwapFits, ClosureFits,
         GateFits, PutBackFits, RecordFits, GoesBackTo, OnRecord, MustRestart, Exists, Target

\* What is known of the profile, the drop-in and the records holds throughout.
THEOREM ClosureInvariant == Spec => []ClosureInv
<1> QED BY TypeInit, TypeStep, TypeCorrect, ClosureInit, ClosureStep, PTL DEF Spec

(***************************************************************************)
(* Each restart Tidewaiter asks for - to swap, to roll back, to undo - is  *)
(* of a unit whose loaded drop-in is for the version it will start,        *)
(* through crashes, failed calls, failed saves, pruning and a moving       *)
(* desired version.                                                        *)
(***************************************************************************)
THEOREM RestartsUnderOwnClosureHolds == Spec => []RestartsUnderOwnClosure
<1>1. ClosureInv => RestartsUnderOwnClosure
  BY DEF ClosureInv, ClosureFits, PutBackFits, RestartsUnderOwnClosure, AboutToRestart
<1> QED BY <1>1, ClosureInvariant, PTL

=============================================================================
