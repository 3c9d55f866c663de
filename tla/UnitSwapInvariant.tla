------------------------- MODULE UnitSwapInvariant -------------------------
(***************************************************************************)
(* The inductive invariants behind the safety properties of UnitSwap: what *)
(* is known at each step of a pass                                         *)
(*  - ClosureInv: of the profile, the closure drop-in and the records of a *)
(*    swap;                                                                *)
(*  - RecoveryInv: of the generations no gate has passed, and of what a    *)
(*    daemon that starts again would find;                                 *)
(*  - RestartInv: of the invocation the unit is in, and of what is held;   *)
(*  - RunInv: of what the unit runs, with nobody else touching it;         *)
(*  - PinInv: of a version a gate has found unhealthy.                     *)
(* TLC checks them on small instances; UnitSwap_proofs proves the first,   *)
(* UnitRecovery_proofs the others.                                         *)
(***************************************************************************)
EXTENDS UnitSwap

\* The current generation is there.
CurExists == cur # 0 => Exists(cur)

\* A pass under way wants a version.
WantsOne == pc \notin {"off", "idle"} => job.want # None

(***************************************************************************)
(* What a pass looked at is still so until the pass itself changes it; or  *)
(* the pass acts on none of it, the unit being stopped and nothing on      *)
(* record of it (a profile may then be seeded meanwhile: UnitBoot).        *)
(***************************************************************************)
LookHolds ==
    /\ pc \in {"firstSight", "act", "lastLook"} =>
         \/ job.gen = cur /\ job.target = Target(cur)
         \/ IsStopped(job.active) /\ ~mem.swapping.on /\ mem.good = 0
    /\ pc = "lastLook" => ~IsStopped(job.active)

\* Going back to generation g means target, or g is gone.
GoesBackTo(g, target) ==
    IF g = 0 THEN target = None ELSE gens[g] \in {None, target}

(***************************************************************************)
(* A record of a swap names a generation that still is what it says, or is *)
(* gone; none that was put in since took its number.                       *)
(***************************************************************************)
RecordFits(r) ==
    r.on => GoesBackTo(r.from, r.fromTarget) /\ r.from <= cur

(***************************************************************************)
(* The records in memory and on disk agree, but for one that outlived a    *)
(* failed save; and a first look still to come finds them agreeing.        *)
(***************************************************************************)
RecordsAgree ==
    /\ ~seen => pc \in {"off", "idle", "end"}
    /\ RecordFits(mem.swapping) /\ RecordFits(disk.swapping)
    /\ mem.swapping.on => disk.swapping = mem.swapping
    /\ pc # "off" /\ (~seen \/ pc = "firstSight") => disk.swapping = mem.swapping
    /\ job.task = "interrupted" => ~disk.swapping.on /\ ~mem.swapping.on

\* The swap under way, or its undoing, is the one on record.
OnRecord ==
    /\ mem.swapping.on
    /\ mem.swapping.from = job.back
    /\ mem.swapping.fromTarget = job.backTarget

\* Only a swap sets the profile, and not before it is on record.
NotSetYet ==
    pc \in {"firstSight", "relook", "act", "lastLook", "resumed"} \/ job.task = "resume"
    => ~job.set

\* A swap, before its profile is set.
SwapFits ==
    pc \in {"bind", "reload", "set"} =>
        /\ job.task = "swap" /\ OnRecord /\ ~job.set
        /\ job.back = cur /\ job.backTarget = Target(cur)

(***************************************************************************)
(* The drop-in on disk stays what was loaded of it, so that loading it     *)
(* again changes nothing; and it is there, so that none is created.        *)
(***************************************************************************)
ClosureFits ==
    /\ pc = "reload" => job.bound /\ file = job.want
    /\ pc = "set" /\ BindClosure => job.bound /\ loaded = job.want /\ file = job.want
    /\ pc = "restart" => /\ job.task = "swap" /\ OnRecord /\ job.set
                         /\ BindClosure => job.bound
    /\ BindClosure /\ (pc \in {"restart", "rerestart"} \/ (pc = "undoRestart" /\ job.set))
         => loaded = Target(cur) /\ file = Target(cur)

\* Until its verdict, a gate can still lead back.
GateFits ==
    pc \in {"baseline", "gate"} =>
        /\ job.task \in {"swap", "resume", "rollBack", "interrupted"}
        /\ job.task \in {"swap", "resume"} => OnRecord

(***************************************************************************)
(* Putting back: the profile is at the generation gone back to from the    *)
(* switch on, and the closure follows it.                                  *)
(***************************************************************************)
MustRestart == job.task \in {"rollBack", "interrupted"} \/ (job.task = "undo" /\ job.set)
PutBackFits ==
    /\ pc \in {"switch", "delete", "rebind", "rereload"} =>
         /\ job.task \in {"undo", "rollBack", "resume", "interrupted"}
         /\ job.task # "interrupted" => OnRecord
    /\ pc \in {"switch", "delete"} =>
         /\ job.back # 0
         /\ GoesBackTo(job.back, job.backTarget)
         /\ job.task = "undo" => job.set
         /\ job.task = "undo" /\ BindClosure => job.bound
    /\ pc = "delete" => cur = job.back /\ job.left # job.back /\ job.left # 0
    /\ pc \in {"rebind", "rereload"} /\ MustRestart => Target(cur) = job.backTarget
    /\ pc \in {"rebind", "rereload"} => job.backTarget # None
    /\ pc = "rereload" => file = job.backTarget
    /\ pc = "rerestart" => job.task \in {"rollBack", "interrupted"}

ClosureInv ==
    /\ CurExists
    /\ WantsOne
    /\ LookHolds
    /\ RecordsAgree
    /\ NotSetYet
    /\ SwapFits
    /\ ClosureFits
    /\ GateFits
    /\ PutBackFits

-----------------------------------------------------------------------------
(* The generations no gate has passed.                                     *)

SwapSteps    == {"bind", "reload", "set", "restart"}
PutBackSteps == {"switch", "delete", "rebind", "rereload"}
GateSteps    == {"baseline", "gate"}

\* A swap is to somewhere else, and a seeded profile is somewhere.
SwapMoves ==
    /\ cur # 0
    /\ pc = "lastLook" => job.want # job.target
    /\ pc \in SwapSteps \ {"restart"} => job.want # job.backTarget
    /\ mem.swapping.on => mem.swapping.from # 0
    /\ disk.swapping.on => disk.swapping.from # 0

(***************************************************************************)
(* The last good generation is not past the current one, nor past the one  *)
(* a swap on record goes back to; and the memory recovery works from has   *)
(* the one on disk.                                                        *)
(***************************************************************************)
GoodFits ==
    /\ pc = "off" => ~seen
    /\ mem.good <= cur /\ disk.good <= cur
    /\ mem.swapping.on => mem.good <= mem.swapping.from
    /\ disk.swapping.on => disk.good <= disk.swapping.from
    /\ \/ pc # "off" /\ ~seen
       \/ pc = "firstSight"
       \/ pc \in PutBackSteps /\ job.task = "resume"
       => mem.good = disk.good
    /\ pc = "switch" /\ job.task = "interrupted" => job.back = mem.good /\ job.back = disk.good
    /\ pc \in GateSteps /\ job.task = "resume" => job.gen = cur
    /\ pc \in {"prune", "commit"} => job.commits \in {0, cur}

\* The record recovery would find now.
Recorded == IF pc = "off" THEN disk.swapping ELSE mem.swapping

\* Where the profile is on a generation gone back to, or one a gate has passed.
BackOrPassed == {"delete", "rebind", "rereload", "rerestart", "undoRestart", "undone",
                 "resumed", "finish", "prune", "commit"}

(***************************************************************************)
(* While nobody was asked for and no gate abandoned: a profile on a        *)
(* generation no gate has passed has the swap that put it there on record, *)
(* to a generation that is there and was passed; no record is left between *)
(* swaps, but the one a restarted daemon has not looked at.                *)
(***************************************************************************)
UngatedFits ==
    ~attention /\ ~abandoned =>
        /\ mem.good \notin ungated /\ disk.good \notin ungated
        /\ cur \in ungated => /\ Recorded.on
                              /\ Target(Recorded.from) = Recorded.fromTarget
                              /\ pc \notin BackOrPassed
        /\ mem.swapping.on => mem.swapping.from \notin ungated
        /\ disk.swapping.on => disk.swapping.from \notin ungated
        /\ mem.swapping.on /\ seen =>
              pc \in {"firstSight"} \cup SwapSteps \cup GateSteps \cup {"switch"} \cup BackOrPassed

RecoveryInv == SwapMoves /\ GoodFits /\ UngatedFits

-----------------------------------------------------------------------------
(* The unit's invocation.                                                  *)

\* What is being swapped or rolled back is held.
HoldsIt ==
    \/ pc \in {"lastLook"} \cup SwapSteps \cup GateSteps \cup {"rerestart", "undoRestart"}
    \/ pc \in PutBackSteps /\ job.task # "resume"
    => held

(***************************************************************************)
(* The record of a swap has the invocation the swap began in, and what is  *)
(* gated, or rolled back, has been restarted since.                        *)
(***************************************************************************)
RestartInv ==
    /\ HoldsIt
    /\ pc = "firstSight" => unit.inv = job.inv \/ unit.inv # mem.swapping.inv
    /\ pc \in SwapSteps \cup {"undoRestart"} => mem.swapping.inv = job.inv
    /\ pc \in PutBackSteps /\ job.task = "undo" => mem.swapping.inv = job.inv
    /\ pc \in GateSteps /\ job.task \in {"swap", "resume"} => unit.inv # mem.swapping.inv
    /\ pc \in PutBackSteps \cup {"rerestart"} /\ job.task = "rollBack"
         => unit.inv # mem.swapping.inv

-----------------------------------------------------------------------------
(* What the unit runs.                                                     *)

Up   == unit.active \in {"up", "activating"}
Calm == ~attention /\ spent.outside = 0

(***************************************************************************)
(* By the record r of a swap: a unit not restarted since runs what the     *)
(* swap was from; one that was runs what the profile names - unless the    *)
(* profile is back already.                                                *)
(***************************************************************************)
RunsByRecord(r) ==
    r.on /\ Up =>
        IF unit.inv = r.inv THEN unit.runs = r.fromTarget
        ELSE cur = r.from \/ unit.runs = Target(cur)

\* Where a unit that is up runs what its profile names.
RunSteps == {"relook", "act", "lastLook", "stoppedReload", "undone", "resumed", "finish",
             "prune", "commit"} \cup GateSteps

\* What a swap under way put in, and where one being put back is.
PlaceFits ==
    /\ pc \in SwapSteps => mem.swapping.to = job.want
    /\ pc = "restart" => Target(cur) = job.want
    /\ pc = "undoRestart" => job.task = "undo"
    /\ pc \in {"delete", "rebind", "rereload", "undoRestart", "rerestart"}
       /\ job.task \in {"undo", "rollBack"}
         => OnRecord /\ cur = job.back

RunFits ==
    /\ RunsByRecord(mem.swapping) /\ RunsByRecord(disk.swapping)
    /\ Up /\ ~Recorded.on => unit.runs = Target(cur)
    /\ Up /\ pc \in RunSteps => unit.runs = Target(cur)
    /\ Up /\ pc \in {"idle", "end"} /\ seen => unit.runs = Target(cur)
    /\ pc \in {"lastLook"} \cup SwapSteps => unit.inv = job.inv
    /\ pc \in {"firstSight", "act"} /\ ~IsStopped(job.active) => unit.inv = job.inv
    /\ pc \in {"firstSight", "act"} /\ IsStopped(job.active) => ~Up
    /\ pc \in {"stoppedBind", "stoppedSet"} => ~Up
    /\ pc \in PutBackSteps \cup {"rerestart"} /\ job.task = "interrupted" => ~Up
    \* Putting back: what was not restarted runs what is gone back to.
    /\ pc \in {"delete", "rebind", "rereload", "undoRestart"} /\ job.task \in {"undo", "resume"}
         => Target(cur) = job.backTarget
    /\ pc = "resumed" => Target(cur) = job.backTarget
    /\ pc \in PutBackSteps \cup {"resumed"} /\ job.task = "resume" /\ Up
         => unit.runs = job.backTarget
    /\ pc \in PutBackSteps \cup {"undoRestart"} /\ job.task = "undo" /\ ~job.set
         => unit.inv = job.inv

RunInv == PlaceFits /\ (Calm => RunFits)

-----------------------------------------------------------------------------
(* A version a gate has found unhealthy.                                   *)

\* The swap with memory m on record was to the desired version, and restarted the unit.
RecordOfDesired(m) ==
    /\ m.swapping.on
    /\ m.swapping.to = desired
    /\ unit.inv # m.swapping.inv

\* A daemon with memory m does not swap the unit to the desired version.
StaysAway(m) == Up /\ (m.pinned = desired \/ Target(cur) = desired)

\* A daemon that starts from memory m does not: it pins the version, or runs it already.
Remembers(m) ==
    \/ RecordOfDesired(m) /\ unit.active # "inactive"
    \/ ~m.swapping.on /\ StaysAway(m)

\* The pass under way is to put in, or puts in, another version than the desired one.
SwapUnderWay ==
    \/ pc \in {"lastLook", "stoppedBind", "stoppedSet", "stoppedReload", "undoRestart", "undone"}
              \cup SwapSteps
    \/ pc \in GateSteps \cup {"prune", "commit"} /\ job.task = "swap"
    \/ pc \in PutBackSteps /\ job.task = "undo"

\* A unit restarted since the swap on record r is on what the swap was to, or back.
SwappedTo(r) ==
    r.on /\ Up /\ unit.inv # r.inv => cur = r.from \/ Target(cur) = r.to

(***************************************************************************)
(* Only the desired version is condemned, and while it is, the unit is up  *)
(* and away from it or already on it, or is being rolled back with it as   *)
(* the version to pin; at every step the state file alone leads to that.   *)
(***************************************************************************)
PinInv ==
    /\ condemned \subseteq {desired}
    /\ Calm /\ condemned # {} =>
        /\ ~SwapUnderWay
        /\ pc \in PutBackSteps => job.task = "rollBack"
        /\ pc # "resumed"
        /\ Remembers(disk)
        /\ pc # "off" => Remembers(mem)
        /\ pc \in {"firstSight", "relook", "act"} => job.want = desired
        /\ pc \in {"idle", "end"} /\ seen => StaysAway(mem)
        /\ pc \in {"relook", "act"} => StaysAway(mem)
        /\ pc \in GateSteps \cup {"prune", "commit"} /\ job.task = "resume"
             => job.want = desired /\ Up /\ Target(cur) = desired
        /\ pc \in PutBackSteps \cup GateSteps \cup {"rerestart", "finish"}
             => job.task \in {"rollBack", "resume"} /\ job.pin = desired /\ RecordOfDesired(mem)
        /\ pc = "finish" => job.task = "rollBack" /\ Up
    /\ Calm => SwappedTo(mem.swapping) /\ SwappedTo(disk.swapping)
    \* A gate judges what is on record, on a unit that was started.
    /\ pc \in SwapSteps \cup GateSteps /\ job.task \in {"swap", "resume"}
         => mem.swapping.to = job.pin
    /\ pc \in SwapSteps => job.pin = job.want
    /\ pc \in {"prune", "commit"} => job.task \in {"swap", "resume"}
    /\ Calm /\ pc \in GateSteps => Up
    /\ Calm /\ pc = "firstSight" =>
         /\ unit.inv = job.inv
         /\ unit.active = job.active \/ (job.active = "activating" /\ unit.active = "up")

=============================================================================
