------------------------------ MODULE UnitSwap ------------------------------
(***************************************************************************)
(* The systemd source of src/internal/systemd for ONE unit: the unit as    *)
(* systemd runs it, the Nix profile its ExecStart runs from, the closure   *)
(* drop-in that lets a confined unit see its program, the memory the       *)
(* source persists, and a daemon that may die between any two steps of a   *)
(* swap and is started again.                                              *)
(*                                                                         *)
(* The daemon is one sequential process; pc is the step it takes next, so  *)
(* everything else (systemd, players, people, a deploy, SIGKILL) happens   *)
(* between its steps.  One external call is one step.                      *)
(*                                                                         *)
(* What is abstracted:                                                     *)
(*  - units do not interact within a pass, so one unit is modelled;        *)
(*  - a store path is a member of Versions;                                *)
(*  - invocation ids are only compared for equality with the current one,  *)
(*    so a fresh id is any one nobody holds;                               *)
(*  - a dry run changes nothing and a pass that cannot read the unit or    *)
(*    the profile returns without a change: neither is a step;             *)
(*  - the policy's health list includes the systemd check, its default;    *)
(*  - nobody but the daemon moves the profile.                             *)
(* Bounds, each a guard: MaxGenerations, MaxFaults failing calls,          *)
(* MaxCrashes deaths of the daemon, MaxOutside things done to the unit by  *)
(* others, MaxDeploys moves of the desired version.                        *)
(***************************************************************************)
EXTENDS Decide, FiniteSets

CONSTANTS
    Versions,            \* the store paths a unit can be asked to run
    MaxGenerations,      \* how many generation numbers there are
    IdleSamples,         \* idle passes in a row before a swap
    MaxSwapFailures,     \* source.MaxSwapFailures
    KeepGenerations,     \* generations kept beside the current one
    BindClosure,         \* whether the unit is confined
    InitialActive,       \* what the unit may be doing when the model starts
    Seeded,              \* whether the profile exists when the model starts
    MaxFaults, MaxCrashes, MaxOutside, MaxDeploys

ASSUME VersionsAssumption == None \notin Versions /\ Versions # {}
ASSUME GenerationsAssumption == MaxGenerations \in Nat \ {0}
ASSUME PolicyAssumption ==
    /\ IdleSamples \in Nat \ {0}
    /\ MaxSwapFailures \in Nat \ {0}
    /\ KeepGenerations \in Nat
    /\ BindClosure \in BOOLEAN
    /\ Seeded \in BOOLEAN
    /\ InitialActive \subseteq {"up", "activating", "failed", "inactive"}
ASSUME BoundsAssumption ==
    /\ MaxFaults \in Nat
    /\ MaxCrashes \in Nat
    /\ MaxOutside \in Nat
    /\ MaxDeploys \in Nat

VARIABLES
    unit,        \* what systemd runs: its ActiveState, version, invocation
    busy,        \* whether players are on
    gens,        \* the profile's generations: number -> store path or None
    cur,         \* the current generation, 0 when there is no profile
    file,        \* the version the closure drop-in on disk is for
    loaded,      \* the version the drop-in systemd has loaded is for
    desired,     \* the version the units file asks for
    disk,        \* the unit's memory as last saved
    mem,         \* the unit's memory in the running daemon
    streak,      \* the idle streak, lost with the daemon
    seen,        \* whether this daemon has looked at the unit before
    held,        \* whether the pass holds the unit as being swapped
    pc,          \* the daemon's next step
    job,         \* the local variables of the pass under way
    attention,   \* "manual attention needed" has been logged
    abandoned,   \* a swap's gate never ran: its first read of the unit failed
    ungated,     \* generations a swap put in that no gate has passed yet
    condemned,   \* the desired version, if a gate found it unhealthy
    spent        \* how much of each bound has been used

machine == <<unit, busy, gens, cur, file, loaded>>
daemon  == <<mem, streak, seen, held, pc, job>>
history == <<attention, abandoned, ungated, condemned>>
vars    == <<machine, desired, disk, daemon, history, spent>>

-----------------------------------------------------------------------------
(* Data.                                                                   *)

ActiveStates  == {"up", "activating", "failed", "inactive"}
InvocationIds == 0..5
MaybeVersion  == Versions \cup {None}
Generations   == 1..MaxGenerations
MaybeGen      == Generations \cup {0}

Units == [active : ActiveStates, runs : MaybeVersion, inv : InvocationIds]

SwapRecords == [on : BOOLEAN, from : MaybeGen, fromTarget : MaybeVersion,
                to : MaybeVersion, inv : InvocationIds]
NoSwap == [on |-> FALSE, from |-> 0, fromTarget |-> None, to |-> None, inv |-> 0]

UnitMemories == [pinned : MaybeVersion, failing : MaybeVersion, failures : Nat,
                 good : MaybeGen, swapping : SwapRecords]
NoMemory == [pinned |-> None, failing |-> None, failures |-> 0, good |-> 0,
             swapping |-> NoSwap]

Spendings == [faults : Nat, crashes : Nat, outside : Nat, deploys : Nat]

Tasks == {"none", "swap", "undo", "rollBack", "resume", "interrupted"}
Jobs == [want : MaybeVersion, active : ActiveStates, inv : InvocationIds,
         gen : MaybeGen, target : MaybeVersion, task : Tasks,
         back : MaybeGen, backTarget : MaybeVersion, left : MaybeGen,
         baseline : InvocationIds, pin : MaybeVersion,
         commits : MaybeGen, bound : BOOLEAN, set : BOOLEAN]
NoJob == [want |-> None, active |-> "inactive", inv |-> 0, gen |-> 0,
          target |-> None, task |-> "none", back |-> 0, backTarget |-> None,
          left |-> 0, baseline |-> 0, pin |-> None, commits |-> 0,
          bound |-> FALSE, set |-> FALSE]

Steps == {"off", "idle", "firstSight", "relook", "act", "lastLook",
          "bind", "reload", "set", "restart", "baseline", "gate", "prune", "commit",
          "switch", "delete", "rebind", "rereload", "rerestart", "undoRestart",
          "undone", "finish", "resumed",
          "stoppedBind", "stoppedSet", "stoppedReload", "end"}

IsUp(active)      == active = "up"
IsStopped(active) == active \in {"inactive", "failed"}

\* The store path generation g points at, None when it is gone.
Target(g) == IF g = 0 THEN None ELSE gens[g]

Exists(g)   == gens[g] # None
IsNewest(g) == Exists(g) /\ \A h \in Generations : h > g => ~Exists(h)

(***************************************************************************)
(* nix-env --set: one past the newest generation left, unless the newest   *)
(* already points there, when it is used again.                            *)
(***************************************************************************)
SetLandsOn(v, g) ==
    \/ IsNewest(g) /\ gens[g] = v
    \/ /\ ~Exists(g)
       /\ IF g = 1 THEN \A h \in Generations : ~Exists(h)
                   ELSE IsNewest(g - 1) /\ gens[g - 1] # v

\* nix-env --delete-generations +(keep+1): the newest by number, and the current.
PruneKeeps(g) ==
    \/ g = cur
    \/ Cardinality({h \in Generations : h > g /\ Exists(h)}) <= KeepGenerations

InvocationsHeld == {unit.inv, job.inv, job.baseline, mem.swapping.inv, disk.swapping.inv}
Fresh == CHOOSE i \in InvocationIds : i \notin InvocationsHeld

-----------------------------------------------------------------------------
(* Steps shared by several handlers.                                       *)

\* One more call fails, within the bound.
Fault == /\ spent.faults < MaxFaults
         /\ spent' = [spent EXCEPT !.faults = @ + 1]
NoFault == UNCHANGED spent

(***************************************************************************)
(* The memory becomes m and is saved.  A save that fails is only warned    *)
(* about (the swap record's excepted, see RecordFails).                    *)
(***************************************************************************)
SaveAs(m) ==
    /\ mem' = m
    /\ \/ disk' = m /\ NoFault
       \/ disk' = disk /\ m # disk /\ Fault

(***************************************************************************)
(* A start of the unit: a new invocation of whatever the profile points at *)
(* now, ending up in state active.  A confined unit starts only if the     *)
(* drop-in systemd has loaded is for that version: its root has no other   *)
(* program in it.  Players are cut off.                                    *)
(***************************************************************************)
CanStart == /\ Target(cur) # None
            /\ BindClosure => loaded = Target(cur)
Starts(active) ==
    /\ active \in {"up", "activating"} => CanStart
    /\ unit' = [active |-> active, inv |-> Fresh,
                runs |-> IF active = "failed" THEN None ELSE Target(cur)]
    /\ busy' = FALSE

\* What an activity sample reads: the truth, or busy when it cannot tell.
SampleReads(inUse) == \/ inUse = busy /\ NoFault
                      \/ inUse /\ ~busy /\ Fault

Goto(step) == pc' = step
GotoJob(step, j) == pc' = step /\ job' = j

\* What a look at the unit and the profile puts in the pass's variables.
Looked(j) == [j EXCEPT !.active = unit.active, !.inv = unit.inv,
                       !.gen = cur, !.target = Target(cur)]

\* Mutant: every pass forgets the pin.
ForgetPin(m, want) == [m EXCEPT !.pinned = None]

\* A pin, and a run of swap failures, hold only until desired moves on.
Forget(m, want) ==
    [m EXCEPT !.pinned   = IF @ = want THEN @ ELSE None,
              !.failures = IF m.failing = want THEN @ ELSE 0,
              !.failing  = IF @ = want THEN @ ELSE None]

CountFailure(m, want) ==
    LET failures == IF m.failing = want THEN m.failures + 1 ELSE 1
    IN  [m EXCEPT !.failing = want, !.failures = failures,
                  !.pinned = IF failures >= MaxSwapFailures THEN want ELSE @]

\* A job going back to generation g, for the reason task.
BackTo(j, task, g, target, pin) ==
    [j EXCEPT !.task = task, !.back = g, !.backTarget = target, !.pin = pin]

\* A gate found v unhealthy: remembered while v is what is asked for.
Condemn(v) == condemned' = IF v = desired THEN condemned \cup {v} ELSE condemned

(***************************************************************************)
(* Where rollBack begins: with nowhere to go back to it only asks for a    *)
(* person.                                                                 *)
(***************************************************************************)
StartRollBack(j) ==
    /\ job' = j
    /\ IF j.back = 0 \/ j.backTarget = None
       THEN pc' = "finish" /\ attention' = TRUE
       ELSE pc' = "switch" /\ UNCHANGED attention

-----------------------------------------------------------------------------
(* The daemon's life.                                                      *)

Start ==
    /\ pc = "off"
    /\ pc' = "idle"
    /\ mem' = disk
    /\ UNCHANGED <<machine, desired, disk, streak, seen, held, job, history, spent>>

\* SIGKILL, or the machine taking the process down: everything in memory goes.
Crash ==
    /\ pc # "off"
    /\ spent.crashes < MaxCrashes
    /\ spent' = [spent EXCEPT !.crashes = @ + 1]
    /\ pc' = "off" /\ job' = NoJob /\ mem' = NoMemory
    /\ streak' = 0 /\ seen' = FALSE /\ held' = FALSE
    /\ UNCHANGED <<machine, desired, disk, history>>

(***************************************************************************)
(* A pass begins: the unit, the profile and the declaration are read, and  *)
(* what only held for another desired version is forgotten.                *)
(***************************************************************************)
Look ==
    /\ pc = "idle"
    /\ GotoJob(IF seen THEN "act" ELSE "firstSight", Looked([NoJob EXCEPT !.want = desired]))
    /\ mem' = Forget(mem, desired)
    /\ seen' = TRUE
    /\ UNCHANGED <<machine, desired, disk, streak, held, history, spent>>

\* The end of the pass: what changed is saved, and nothing is held any more.
EndPass ==
    /\ pc = "end"
    /\ GotoJob("idle", NoJob)
    /\ SaveAs(mem)
    /\ held' = FALSE
    /\ UNCHANGED <<machine, desired, streak, seen, history>>

-----------------------------------------------------------------------------
(* Putting a unit back: the part undo, rollBack and resumeSwap share.      *)

\* Mutant: a rollback leaves the drop-in as the swap bound it.
RebindsNoRollBack(j) == j.task = "undo" /\ j.bound /\ j.backTarget # None
Rebinds(j) ==
    CASE j.task = "undo"   -> j.bound /\ j.backTarget # None
      [] j.task = "resume" -> BindClosure /\ j.backTarget # None
      [] OTHER             -> BindClosure

\* Mutant: a rollback switches the profile back and restarts nothing.
AfterPutBackUnrestarted(j) ==
    CASE j.task = "undo"   -> "undoRestart"
      [] j.task = "resume" -> "resumed"
      [] OTHER             -> "finish"
AfterPutBack(j) ==
    CASE j.task = "undo"   -> "undoRestart"
      [] j.task = "resume" -> "resumed"
      [] OTHER             -> "rerestart"

AfterSwitch(j) == IF Rebinds(j) THEN "rebind" ELSE AfterPutBack(j)

(***************************************************************************)
(* A step of putting back fails.  undo and rollBack give up and ask for a  *)
(* person; resumeSwap leaves its record and looks again next pass.         *)
(***************************************************************************)
PutBackFails ==
    /\ job' = job
    /\ CASE job.task = "undo"   -> pc' = "undone" /\ attention' = TRUE /\ seen' = seen
         [] job.task = "resume" -> pc' = "end" /\ attention' = attention /\ seen' = FALSE
         [] OTHER               -> pc' = "finish" /\ attention' = TRUE /\ seen' = seen
    /\ UNCHANGED <<desired, disk, mem, streak, held, abandoned, ungated, condemned>>

\* switchBack, its first half: the profile is switched to the generation kept.
Switch ==
    /\ pc = "switch"
    /\ IF cur = job.back
       THEN UNCHANGED cur /\ GotoJob(AfterSwitch(job), job)
       ELSE /\ Exists(job.back)
            /\ cur' = job.back
            /\ GotoJob(IF cur = 0 THEN AfterSwitch(job) ELSE "delete",
                       [job EXCEPT !.left = cur])
    /\ UNCHANGED <<unit, busy, gens, file, loaded, desired, disk, mem, streak, seen, held,
                   history, spent>>

\* The generation cannot be read, or switched to: one that is gone never can,
\* whatever the budget.
SwitchFails ==
    /\ pc = "switch"
    /\ IF cur # job.back /\ ~Exists(job.back) THEN NoFault ELSE Fault
    /\ PutBackFails
    /\ UNCHANGED machine

(***************************************************************************)
(* switchBack, its second half: the generation left is deleted.  A failure *)
(* is logged and nothing more.                                             *)
(***************************************************************************)
Delete ==
    /\ pc = "delete"
    /\ \/ /\ gens' = [gens EXCEPT ![job.left] = None]
          /\ ungated' = ungated \ {job.left}
          /\ NoFault
       \/ Fault /\ UNCHANGED <<gens, ungated>>
    /\ GotoJob(AfterSwitch(job), job)
    /\ UNCHANGED <<unit, busy, cur, file, loaded, desired, disk, mem, streak, seen, held,
                   attention, abandoned, condemned>>

Rebind ==
    /\ pc = "rebind"
    /\ file' = job.backTarget
    /\ GotoJob("rereload", job)
    /\ UNCHANGED <<unit, busy, gens, cur, loaded, desired, disk, mem, streak, seen, held,
                   history, spent>>

RebindFails ==
    /\ pc = "rebind"
    /\ Fault /\ PutBackFails
    /\ UNCHANGED machine

Rereload ==
    /\ pc = "rereload"
    /\ loaded' = file
    /\ GotoJob(AfterPutBack(job), job)
    /\ UNCHANGED <<unit, busy, gens, cur, file, desired, disk, mem, streak, seen, held,
                   history, spent>>

\* A reload whose answer is lost may still have happened.
RereloadFails ==
    /\ pc = "rereload"
    /\ loaded' \in {loaded, file}
    /\ Fault /\ PutBackFails
    /\ UNCHANGED <<unit, busy, gens, cur, file>>

-----------------------------------------------------------------------------
(* firstSight: the first look at the unit since this daemon started.       *)

\* Mutant: a swap on record is always taken to have restarted the unit.
NotRestartedNever == FALSE
NotRestarted == job.inv = mem.swapping.inv

\* resumeSwap: the swap never restarted the unit, or somebody stopped it since.
ResumePutBack ==
    LET record == mem.swapping
        j == BackTo(job, "resume", record.from, record.fromTarget, record.to)
    IN  /\ pc = "firstSight" /\ record.on
        /\ NotRestarted \/ job.active = "inactive"
        /\ GotoJob(IF record.from # 0 /\ job.gen # 0 /\ job.gen # record.from
                   THEN "switch" ELSE AfterSwitch(j), j)
        /\ UNCHANGED <<machine, desired, disk, mem, streak, seen, held, history, spent>>

\* resumeSwap: restarted, up, and never gated.
ResumeGate ==
    LET record == mem.swapping
    IN  /\ pc = "firstSight" /\ record.on
        /\ ~NotRestarted /\ job.active \in {"up", "activating"}
        /\ record.from = 0 \/ job.gen # record.from
        /\ GotoJob("baseline", BackTo(job, "resume", record.from, record.fromTarget, record.to))
        /\ held' = TRUE
        /\ UNCHANGED <<machine, desired, disk, mem, streak, seen, history, spent>>

\* resumeSwap: restarted and failed, or already switched back by a rollback.
ResumeRollBack ==
    LET record == mem.swapping
    IN  /\ pc = "firstSight" /\ record.on
        /\ ~NotRestarted /\ job.active # "inactive"
        /\ job.active = "failed" \/ (record.from # 0 /\ job.gen = record.from)
        /\ StartRollBack(BackTo(job, "rollBack", record.from, record.fromTarget, record.to))
        /\ held' = TRUE
        /\ UNCHANGED <<machine, desired, disk, mem, streak, seen, abandoned, ungated, condemned, spent>>

\* With no record, a unit that is up is adopted as it is.
Adopt ==
    /\ pc = "firstSight" /\ ~mem.swapping.on
    /\ job.gen # 0 /\ IsUp(job.active) /\ mem.good # job.gen
    /\ SaveAs([mem EXCEPT !.good = job.gen])
    /\ GotoJob("relook", job)
    /\ UNCHANGED <<machine, desired, streak, seen, held, history>>

\* Failed on a generation newer than the last good one: rolled back to that.
FailedNewer == /\ job.gen # 0 /\ job.active = "failed"
               /\ mem.good # 0 /\ job.gen > mem.good
RollBackInterrupted ==
    /\ pc = "firstSight" /\ ~mem.swapping.on /\ FailedNewer
    /\ StartRollBack(BackTo(job, "interrupted", mem.good, Target(mem.good), job.target))
    /\ held' = TRUE
    /\ UNCHANGED <<machine, desired, disk, mem, streak, seen, abandoned, ungated, condemned, spent>>

NothingToRecover ==
    /\ pc = "firstSight" /\ ~mem.swapping.on /\ ~FailedNewer
    /\ ~(job.gen # 0 /\ IsUp(job.active) /\ mem.good # job.gen)
    /\ GotoJob("relook", job)
    /\ UNCHANGED <<machine, desired, disk, mem, streak, seen, held, history, spent>>

\* resumeSwap put everything back: its record is cleared.
Resumed ==
    /\ pc = "resumed"
    /\ SaveAs([mem EXCEPT !.swapping = NoSwap])
    /\ GotoJob("relook", job)
    /\ UNCHANGED <<machine, desired, streak, seen, held, history>>

\* Recovery may have moved the profile back, or gated what it points at: both
\* are read again.  Where that fails the pass is over, the unit being seen.
Relook ==
    /\ pc = "relook"
    /\ \/ NoFault /\ GotoJob("act", Looked(job))
       \/ Fault /\ GotoJob("end", job)
    /\ UNCHANGED <<machine, desired, disk, mem, streak, seen, held, history>>

-----------------------------------------------------------------------------
(* An ordinary pass over a unit.                                           *)

\* updateStopped: nobody is on it, so its profile is moved and nothing started.
UpdateStopped ==
    /\ pc = "act" /\ IsStopped(job.active)
    /\ GotoJob(IF job.target = job.want \/ mem.pinned = job.want THEN "end"
               ELSE IF BindClosure THEN "stoppedBind" ELSE "stoppedSet", job)
    /\ UNCHANGED <<machine, desired, disk, mem, streak, seen, held, history, spent>>

StoppedBind ==
    /\ pc = "stoppedBind"
    /\ \/ file' = job.want /\ NoFault /\ GotoJob("stoppedSet", job)
       \/ file' = file /\ Fault /\ GotoJob("end", job)
    /\ UNCHANGED <<unit, busy, gens, cur, loaded, desired, disk, mem, streak, seen, held, history>>

\* nix-env --set: the profile points at v, as generation g.
ProfileSet(v, g) ==
    /\ SetLandsOn(v, g)
    /\ gens' = [gens EXCEPT ![g] = v]
    /\ cur' = g

StoppedSet ==
    /\ pc = "stoppedSet"
    /\ \/ /\ \E g \in Generations : ProfileSet(job.want, g) /\ ungated' = ungated \ {g}
          /\ NoFault
          /\ GotoJob(IF BindClosure THEN "stoppedReload" ELSE "end", job)
       \/ UNCHANGED <<gens, cur, ungated>> /\ Fault /\ GotoJob("end", job)
    /\ UNCHANGED <<unit, busy, file, loaded, desired, disk, mem, streak, seen, held,
                   attention, abandoned, condemned>>

StoppedReload ==
    /\ pc = "stoppedReload"
    /\ \/ loaded' = file /\ NoFault
       \/ loaded' \in {loaded, file} /\ Fault
    /\ GotoJob("end", job)
    /\ UNCHANGED <<unit, busy, gens, cur, file, desired, disk, mem, streak, seen, held, history>>

(***************************************************************************)
(* A running unit is sampled, its streak counted, and the decision made.   *)
(* A unit on its way up counts nothing and is not swapped.  An update      *)
(* holds the workload before it starts.                                    *)
(***************************************************************************)
SampleAndDecide ==
    /\ pc = "act" /\ ~IsStopped(job.active)
    /\ \E inUse \in BOOLEAN :
         LET settling == ~IsUp(job.active)
             counted  == NextStreak(streak, ~inUse /\ ~settling, IdleSamples)
             updates  == DecideKind(mem.pinned, job.target, job.want, inUse, counted,
                                    IdleSamples) = "update"
         IN  /\ SampleReads(inUse)
             /\ streak' = counted
             /\ Goto(IF updates /\ ~settling THEN "lastLook" ELSE "end")
             /\ held' = (held \/ (updates /\ ~settling))
    /\ UNCHANGED <<machine, desired, disk, mem, seen, job, history>>

-----------------------------------------------------------------------------
(* The swap.                                                               *)

\* Looked at once more; someone there now means the swap waits.
SomeoneArrived ==
    /\ pc = "lastLook"
    /\ SampleReads(TRUE)
    /\ streak' = 0
    /\ GotoJob("end", job)
    /\ UNCHANGED <<machine, desired, disk, mem, seen, held, history>>

RecordOf(j) == [on |-> TRUE, from |-> j.gen, fromTarget |-> j.target, to |-> j.want,
                inv |-> j.inv]

\* The swap is recorded, durably, before anything changes.
Record ==
    /\ pc = "lastLook" /\ SampleReads(FALSE)
    /\ mem' = [mem EXCEPT !.swapping = RecordOf(job)]
    /\ disk' = mem'
    /\ GotoJob(IF BindClosure THEN "bind" ELSE "set",
               BackTo(job, "swap", job.gen, job.target, job.want))
    /\ UNCHANGED <<machine, desired, streak, seen, held, history>>

\* Mutant: the swap goes on though its record was not saved.
RecordFailsIgnored ==
    /\ pc = "lastLook" /\ ~busy
    /\ Fault
    /\ mem' = [mem EXCEPT !.swapping = RecordOf(job)]
    /\ GotoJob(IF BindClosure THEN "bind" ELSE "set",
               BackTo(job, "swap", job.gen, job.target, job.want))
    /\ UNCHANGED <<machine, desired, disk, streak, seen, held, history>>

\* A swap that cannot be recorded is not started.
RecordFails ==
    /\ pc = "lastLook" /\ ~busy
    /\ Fault
    /\ mem' = [mem EXCEPT !.swapping = NoSwap]
    /\ GotoJob("end", job)
    /\ UNCHANGED <<machine, desired, disk, streak, seen, held, history>>

(***************************************************************************)
(* A step before the gate fails: what was done is undone, from how far it  *)
(* got.                                                                    *)
(***************************************************************************)
Undo(j) ==
    LET u == [j EXCEPT !.task = "undo"]
    IN  GotoJob(IF u.set /\ u.back # 0 THEN "switch" ELSE AfterSwitch(u), u)

Bind ==
    /\ pc = "bind"
    /\ \/ file' = job.want /\ NoFault /\ GotoJob("reload", [job EXCEPT !.bound = TRUE])
       \/ file' = file /\ Fault /\ Undo(job)
    /\ UNCHANGED <<unit, busy, gens, cur, loaded, desired, disk, mem, streak, seen, held, history>>

Reload ==
    /\ pc = "reload"
    /\ \/ loaded' = file /\ NoFault /\ GotoJob("set", job)
       \/ loaded' \in {loaded, file} /\ Fault /\ Undo(job)
    /\ UNCHANGED <<unit, busy, gens, cur, file, desired, disk, mem, streak, seen, held, history>>

SetProfile ==
    /\ pc = "set"
    /\ \E g \in Generations : ProfileSet(job.want, g) /\ ungated' = ungated \cup {g}
    /\ GotoJob("restart", [job EXCEPT !.set = TRUE])
    /\ UNCHANGED <<unit, busy, file, loaded, desired, disk, mem, streak, seen, held,
                   attention, abandoned, condemned, spent>>

SetProfileFails ==
    /\ pc = "set"
    /\ Fault /\ Undo(job)
    /\ UNCHANGED <<machine, desired, disk, mem, streak, seen, held, history>>

\* The restart job ends done.
RestartDone ==
    /\ pc = "restart"
    /\ Starts("up")
    /\ GotoJob("baseline", job)
    /\ UNCHANGED <<gens, cur, file, loaded, desired, disk, mem, streak, seen, held, history, spent>>

\* The restart job fails: the new version did not come up, unhealthy at once.
RestartFails ==
    /\ pc = "restart"
    /\ Starts("failed")
    /\ StartRollBack([job EXCEPT !.task = "rollBack"])
    /\ Condemn(job.want)
    /\ UNCHANGED <<gens, cur, file, loaded, desired, disk, mem, streak, seen, held, abandoned, ungated, spent>>

\* What is left of a restart whose job could not be queued, or whose end was lost.
LostRestart ==
    \/ UNCHANGED <<unit, busy>>
    \/ \E active \in {"up", "activating", "failed"} : Starts(active)

RestartLost ==
    /\ pc = "restart"
    /\ LostRestart
    /\ Fault /\ Undo(job)
    /\ UNCHANGED <<gens, cur, file, loaded, desired, disk, mem, streak, seen, held, history>>

(***************************************************************************)
(* undo, its last part: only a unit that did restart regardless is         *)
(* restarted, back onto the generation it left.  The look at its           *)
(* invocation and the restart are one step: an invocation never comes      *)
(* back, so what the look has found still holds at the restart.            *)
(***************************************************************************)
UndoRestart ==
    /\ pc = "undoRestart"
    /\ IF job.set /\ unit.inv # job.inv
       THEN Starts("up") \/ Starts("failed")
       ELSE UNCHANGED <<unit, busy>>
    /\ GotoJob("undone", job)
    /\ UNCHANGED <<gens, cur, file, loaded, desired, disk, mem, streak, seen, held, history, spent>>

UndoRestartFails ==
    /\ pc = "undoRestart" /\ job.set
    /\ IF unit.inv # job.inv THEN LostRestart ELSE UNCHANGED <<unit, busy>>
    /\ Fault
    /\ GotoJob("undone", job)
    /\ attention' = TRUE
    /\ UNCHANGED <<gens, cur, file, loaded, desired, disk, mem, streak, seen, held,
                   abandoned, ungated, condemned>>

\* The failure is counted, and the record of the swap cleared.
Undone ==
    /\ pc = "undone"
    /\ SaveAs(CountFailure([mem EXCEPT !.swapping = NoSwap], job.want))
    /\ GotoJob("end", job)
    /\ UNCHANGED <<machine, desired, streak, seen, held, history>>

-----------------------------------------------------------------------------
(* The gate, and what follows its verdict.                                 *)

\* The baseline the gate compares with: the state just after the restart.
Baseline ==
    /\ pc = "baseline"
    /\ GotoJob("gate", [job EXCEPT !.baseline = unit.inv])
    /\ UNCHANGED <<machine, desired, disk, mem, streak, seen, held, history, spent>>

(***************************************************************************)
(* The baseline cannot be read.  A rollback asks for a person; a swap and  *)
(* a resumed swap return the error, their record left as it is.            *)
(***************************************************************************)
BaselineFails ==
    /\ pc = "baseline"
    /\ Fault
    /\ job' = job
    /\ IF job.task \in {"swap", "resume"}
       THEN pc' = "end" /\ abandoned' = TRUE /\ UNCHANGED attention
       ELSE pc' = "finish" /\ attention' = TRUE /\ UNCHANGED abandoned
    /\ UNCHANGED <<machine, desired, disk, mem, streak, seen, held, ungated, condemned>>

(***************************************************************************)
(* The gate passes: nothing failed by its deadline.  A unit still coming   *)
(* up then is inconclusive, which commits; a unit down, or restarted since *)
(* the baseline, has failed.  What is to be recorded good is the           *)
(* generation read now, or at the start of a resumed pass; 0, none, if it  *)
(* cannot be read.                                                         *)
(***************************************************************************)
Healthy ==
    /\ pc = "gate"
    /\ unit.active \in {"up", "activating"} /\ unit.inv = job.baseline
    /\ CASE job.task = "swap" ->
               \E good \in {cur, 0} :
                  /\ IF good = cur THEN NoFault ELSE Fault
                  /\ GotoJob("prune", [job EXCEPT !.commits = good])
         [] job.task = "resume" ->
               GotoJob("prune", [job EXCEPT !.commits = job.gen]) /\ NoFault
         [] OTHER -> GotoJob("finish", job) /\ NoFault
    /\ ungated' = ungated \ {cur}
    /\ UNCHANGED <<machine, desired, disk, mem, streak, seen, held,
                   attention, abandoned, condemned>>

Unhealthy ==
    /\ pc = "gate"
    /\ IF job.task \in {"swap", "resume"}
       THEN /\ StartRollBack([job EXCEPT !.task = "rollBack"])
            /\ Condemn(job.pin)
       ELSE /\ GotoJob("finish", job)
            /\ attention' = TRUE
            /\ UNCHANGED condemned
    /\ UNCHANGED <<machine, desired, disk, mem, streak, seen, held, abandoned, ungated, spent>>

\* Old generations are pruned; a failure is logged and nothing more.
Prune ==
    /\ pc = "prune"
    /\ \/ /\ gens' = [g \in Generations |-> IF PruneKeeps(g) THEN gens[g] ELSE None]
          /\ ungated' = {g \in ungated : PruneKeeps(g)}
          /\ NoFault
       \/ Fault /\ UNCHANGED <<gens, ungated>>
    /\ GotoJob("commit", job)
    /\ UNCHANGED <<unit, busy, cur, file, loaded, desired, disk, mem, streak, seen, held,
                   attention, abandoned, condemned>>

\* Mutant: the record of the swap outlives its commit.
CommitKeepsRecord ==
    /\ pc = "commit"
    /\ SaveAs([mem EXCEPT !.good = job.commits])
    /\ GotoJob(IF job.task = "resume" THEN "relook" ELSE "end", job)
    /\ UNCHANGED <<machine, desired, streak, seen, held, history>>

\* The generation is recorded good, and everything else forgotten.
Commit ==
    /\ pc = "commit"
    /\ SaveAs([NoMemory EXCEPT !.good = job.commits])
    /\ GotoJob(IF job.task = "resume" THEN "relook" ELSE "end", job)
    /\ UNCHANGED <<machine, desired, streak, seen, held, history>>

\* rollBack: the restart back onto the generation kept, then gated as a swap is.
RollBackRestart ==
    /\ pc = "rerestart"
    /\ \/ Starts("up") /\ Goto("baseline") /\ UNCHANGED <<attention, spent>>
       \/ Starts("failed") /\ Goto("finish") /\ attention' = TRUE /\ UNCHANGED spent
       \/ LostRestart /\ Goto("finish") /\ attention' = TRUE /\ Fault
    /\ UNCHANGED <<gens, cur, file, loaded, desired, disk, mem, streak, seen, held, job,
                   abandoned, ungated, condemned>>

\* The rollback ended, however it ended: the version is pinned out.
RolledBack(m) ==
    IF job.task = "interrupted"
    THEN IF job.pin = None THEN m ELSE [m EXCEPT !.pinned = job.pin]
    ELSE [m EXCEPT !.pinned = job.pin, !.failing = None, !.failures = 0, !.swapping = NoSwap]

FinishRollBack ==
    /\ pc = "finish"
    /\ SaveAs(RolledBack(mem))
    /\ GotoJob("end", job)
    /\ UNCHANGED <<machine, desired, streak, seen, held, history>>

-----------------------------------------------------------------------------
(* Everything that is not the daemon.                                      *)

Outside == /\ spent.outside < MaxOutside
           /\ spent' = [spent EXCEPT !.outside = @ + 1]

\* The unit's program exits and Restart= does not bring it back.
UnitDies ==
    /\ unit.active \in {"up", "activating"} /\ Outside
    /\ unit' = [unit EXCEPT !.active = "failed", !.runs = None]
    /\ busy' = FALSE
    /\ UNCHANGED <<gens, cur, file, loaded, desired, disk, daemon, history>>

\* The unit is restarted by Restart= or by a person, or started by a person.
OthersStart ==
    /\ Outside
    /\ IF CanStart THEN Starts("activating") ELSE Starts("failed")
    /\ UNCHANGED <<gens, cur, file, loaded, desired, disk, daemon, history>>

UnitStopped ==
    /\ unit.active \in {"up", "activating"} /\ Outside
    /\ unit' = [unit EXCEPT !.active = "inactive", !.runs = None]
    /\ busy' = FALSE
    /\ UNCHANGED <<gens, cur, file, loaded, desired, disk, daemon, history>>

UnitReady ==
    /\ unit.active = "activating"
    /\ unit' = [unit EXCEPT !.active = "up"]
    /\ UNCHANGED <<busy, gens, cur, file, loaded, desired, disk, daemon, history, spent>>

PlayersComeOrGo ==
    /\ unit.active = "up"
    /\ busy' = ~busy
    /\ UNCHANGED <<unit, gens, cur, file, loaded, desired, disk, daemon, history, spent>>

\* A deploy: the units file asks for another version.
Deploy ==
    /\ spent.deploys < MaxDeploys
    /\ spent' = [spent EXCEPT !.deploys = @ + 1]
    /\ desired' \in Versions \ {desired}
    /\ condemned' = {}
    /\ UNCHANGED <<machine, disk, daemon, attention, abandoned, ungated>>

-----------------------------------------------------------------------------
(* The specification.                                                      *)

\* A seeded profile is at its first generation, which the unit was started from.
Init ==
    \E v \in Versions, active \in InitialActive :
        /\ unit = [active |-> active, inv |-> 0,
                   runs |-> IF IsStopped(active) THEN None ELSE v]
        /\ busy = FALSE
        /\ gens = [g \in Generations |-> IF Seeded /\ g = 1 THEN v ELSE None]
        /\ cur = (IF Seeded THEN 1 ELSE 0)
        /\ file = Target(cur) /\ loaded = Target(cur)
        /\ desired = v
        /\ disk = NoMemory /\ mem = NoMemory
        /\ streak = 0 /\ seen = FALSE /\ held = FALSE
        /\ pc = "off" /\ job = NoJob
        /\ attention = FALSE /\ abandoned = FALSE /\ ungated = {} /\ condemned = {}
        /\ spent = [faults |-> 0, crashes |-> 0, outside |-> 0, deploys |-> 0]

FirstSight == \/ ResumePutBack \/ ResumeGate \/ ResumeRollBack
              \/ Adopt \/ RollBackInterrupted \/ NothingToRecover
PutBack    == \/ Switch \/ SwitchFails \/ Delete \/ Rebind \/ RebindFails
              \/ Rereload \/ RereloadFails \/ Resumed
Stopped    == UpdateStopped \/ StoppedBind \/ StoppedSet \/ StoppedReload
Swap       == \/ SomeoneArrived \/ Record \/ RecordFails \/ Bind \/ Reload
              \/ SetProfile \/ SetProfileFails \/ RestartDone \/ RestartFails \/ RestartLost
              \/ UndoRestart \/ UndoRestartFails \/ Undone
Gate       == \/ Baseline \/ BaselineFails \/ Healthy \/ Unhealthy \/ Prune \/ Commit
              \/ RollBackRestart \/ FinishRollBack

Daemon == \/ Start \/ Look \/ EndPass \/ Relook \/ SampleAndDecide
          \/ FirstSight \/ PutBack \/ Stopped \/ Swap \/ Gate
Environment == \/ Crash \/ UnitDies \/ OthersStart \/ UnitStopped \/ UnitReady
               \/ PlayersComeOrGo \/ Deploy

Next == Daemon \/ Environment

Spec == Init /\ [][Next]_vars

(***************************************************************************)
(* systemd restarts the daemon and the daemon passes for ever, one step    *)
(* after another; a unit on its way up gets there.                         *)
(***************************************************************************)
FairSpec == Spec /\ WF_vars(Daemon) /\ WF_vars(UnitReady)

-----------------------------------------------------------------------------
(* Properties.                                                             *)

TypeOK ==
    /\ unit \in Units
    /\ busy \in BOOLEAN
    /\ gens \in [Generations -> MaybeVersion] /\ cur \in MaybeGen
    /\ file \in MaybeVersion /\ loaded \in MaybeVersion /\ desired \in Versions
    /\ disk \in UnitMemories /\ mem \in UnitMemories
    /\ streak \in 0..IdleSamples /\ seen \in BOOLEAN /\ held \in BOOLEAN
    /\ pc \in Steps /\ job \in Jobs
    /\ attention \in BOOLEAN /\ abandoned \in BOOLEAN
    /\ ungated \subseteq Generations /\ condemned \subseteq Versions
    /\ spent \in Spendings

(***************************************************************************)
(* Whenever the profile points at a generation a swap put there and no     *)
(* gate has passed yet, the state file says a swap is under way, and the   *)
(* generation it says to go back to is still there with the target it      *)
(* says; and the generation recovery would roll back to was never merely   *)
(* put in by a swap.  So a daemon that dies at any point of a swap, or     *)
(* whose saves fail, finds out on its next start.  Not once a person was   *)
(* asked for, or a gate was abandoned for want of a first read.            *)
(***************************************************************************)
UngatedIsRecorded ==
    ~attention /\ ~abandoned =>
        /\ cur \in ungated =>
             /\ disk.swapping.on
             /\ disk.swapping.from # 0
             /\ Target(disk.swapping.from) = disk.swapping.fromTarget
        /\ disk.good \notin ungated

(***************************************************************************)
(* Each restart Tidewaiter asks for starts a version under its own closure *)
(* - forward, back, and back again after a crash.                          *)
(***************************************************************************)
AboutToRestart ==
    \/ pc \in {"restart", "rerestart"}
    \/ pc = "undoRestart" /\ job.set /\ unit.inv # job.inv
RestartsUnderOwnClosure ==
    AboutToRestart /\ BindClosure => loaded = Target(cur)

\* A step in which the daemon restarts the unit.
DaemonRestarts ==
    /\ pc \in {"restart", "rerestart", "undoRestart"}
    /\ pc' # pc /\ pc' # "off"
    /\ unit'.inv # unit.inv

(***************************************************************************)
(* A version a gate found unhealthy is not put into the profile again      *)
(* until the desired version moves, through crashes and failed saves: the  *)
(* pin is in the state file, or the record that leads to it is.  Not once  *)
(* a person was asked for: recovery after a failed rollback pins what it   *)
(* failed back to instead (source.go firstSight, RollBackInterrupted); nor *)
(* when others stop the unit, whose record is then dropped (resumeSwap).   *)
(***************************************************************************)
DaemonMovesProfile ==
    /\ pc \in {"set", "stoppedSet"}
    /\ <<gens, cur>>' # <<gens, cur>>
NeverBackToCondemned ==
    [][DaemonMovesProfile /\ ~attention /\ spent.outside = 0
         => job.want \notin condemned]_vars

(***************************************************************************)
(* Whatever the daemon restarts is held, so that the status says so and no *)
(* reboot comes in between; and beside the idle-gated restart of a swap it *)
(* restarts only a unit that has been restarted since the swap began, or   *)
(* has failed: what players are on is never restarted to clean up.         *)
(***************************************************************************)
RestartsAreHeldAndNeeded ==
    [][DaemonRestarts =>
         /\ held
         /\ pc = "restart" \/ unit.inv # mem.swapping.inv \/ job.task = "interrupted"]_vars

(***************************************************************************)
(* Between passes, with no swap on record and nobody asked for, a unit     *)
(* that is up runs what its profile names: once the profile names what is  *)
(* desired, no pass looks at it again.                                     *)
(***************************************************************************)
UpRunsItsProfile ==
    /\ spent.outside = 0
    /\ pc = "idle" /\ seen /\ ~mem.swapping.on
    /\ unit.active = "up" /\ ~attention
    => unit.runs = Target(cur)

(***************************************************************************)
(* Where a unit nobody is on should end up: the profile is on the desired  *)
(* version and the unit runs it or is stopped, or that version is pinned   *)
(* out, or a person was asked for.                                         *)
(***************************************************************************)
Settled == \/ Target(cur) = desired /\ unit.runs \in {desired, None}
           \/ disk.pinned = desired
           \/ attention

\* A swap on record is sooner or later committed or undone.
SwapResolved == disk.swapping.on ~> ~disk.swapping.on

=============================================================================
