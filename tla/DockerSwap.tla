----------------------------- MODULE DockerSwap -----------------------------
(***************************************************************************)
(* The Docker source of src/internal/docker for ONE container: the two     *)
(* names a swap uses (the container's own, and the one the old container   *)
(* is parked under), the tag it chases, the background pulls, the memory   *)
(* the source keeps in the process, and a daemon that may die between any  *)
(* two calls.                                                              *)
(*                                                                         *)
(* One Docker call is one step.  A call that fails may have been carried   *)
(* out all the same, its answer lost.                                      *)
(*                                                                         *)
(* What is abstracted:                                                     *)
(*  - containers do not interact within a pass, so one is modelled;        *)
(*  - a digest is a member of Images; what a recreate carries over of a    *)
(*    container's settings is in Recreate;                                 *)
(*  - the gate is its verdict;                                             *)
(*  - the memory's previous and adopted are only for the log, and pruning  *)
(*    of old images changes nothing modelled: both are left out;           *)
(*  - a pass that cannot list, inspect or resolve changes nothing and is   *)
(*    not a step, nor is a dry run;                                        *)
(*  - nobody else stops, starts or renames the two containers.             *)
(* Bounds, each a guard: MaxFaults failing calls, MaxCrashes deaths of the *)
(* daemon, MaxMoves moves of the tag.                                      *)
(***************************************************************************)
EXTENDS Decide

CONSTANTS
    Images,              \* the digests the tag can resolve to
    IdleSamples,         \* idle passes in a row before a swap
    MaxSwapFailures,     \* source.MaxSwapFailures
    MaxFaults, MaxCrashes, MaxMoves

ASSUME ImagesAssumption == None \notin Images /\ Images # {}
ASSUME SwapAssumption == IdleSamples \in Nat \ {0} /\ MaxSwapFailures \in Nat \ {0}
ASSUME SwapBounds == MaxFaults \in Nat /\ MaxCrashes \in Nat /\ MaxMoves \in Nat

VARIABLES
    opted,       \* the container's labels: its policy, and whether it can be recreated
    named,       \* what wears the container's name
    parked,      \* what wears its rollback name
    busy,        \* whether players are on
    registry,    \* the digest the tag resolves to at the registry
    stored,      \* the image the tag resolves to on the host: what a create uses
    mem,         \* the source's memory of the container, lost with the daemon
    prefetched,  \* the target of the last background pull, None when it failed
    pulls,       \* the targets of the background pulls still running
    pc,          \* the source's next step
    job,         \* the local variables of the pass under way
    attention,   \* "manual attention needed" has been logged
    condemned,   \* the digest the tag resolves to, if a gate found it unhealthy
    spent        \* how much of each bound has been used

host    == <<named, parked, busy>>
tags    == <<registry, stored>>
fetches == <<prefetched, pulls>>
history == <<attention, condemned>>
vars    == <<opted, host, tags, mem, fetches, pc, job, history, spent>>

-----------------------------------------------------------------------------
(* Data.                                                                   *)

MaybeImage  == Images \cup {None}
Nobody      == [image |-> None, running |-> FALSE, gated |-> FALSE]
Containers  == [image : MaybeImage, running : BOOLEAN, gated : BOOLEAN]
There(c)    == c.image # None

Labels   == [autoupdate : {"registry", "local"}, recreatable : BOOLEAN]
Memories == [streak : 0..IdleSamples, pinned : MaybeImage, failing : MaybeImage,
             failures : Nat]
NoMemory == [streak |-> 0, pinned |-> None, failing |-> None, failures |-> 0]

\* stopped, parked and created are the code's progress.
Jobs  == [want : MaybeImage, stopped : BOOLEAN, parked : BOOLEAN, created : BOOLEAN,
          unhealthy : BOOLEAN, stale : BOOLEAN]
NoJob == [want |-> None, stopped |-> FALSE, parked |-> FALSE, created |-> FALSE,
          unhealthy |-> FALSE, stale |-> FALSE]
Steps == {"idle", "decide", "pull", "stop", "rename", "create", "connect", "start", "gate",
          "commit", "undoRemove", "undoRename", "undoStart", "undone"}

\* What the tag should resolve to now, per the policy.
Desired == IF opted.autoupdate = "registry" THEN registry ELSE stored

Fault == /\ spent.faults < MaxFaults
         /\ spent' = [spent EXCEPT !.faults = @ + 1]
NoFault == UNCHANGED spent

\* A detector that cannot tell reads as busy.
SampleReads(inUse) == \/ inUse = busy /\ NoFault
                      \/ inUse /\ ~busy /\ Fault

Goto(step, j) == pc' = step /\ job' = j

\* Mutant: every pass forgets the pin.
ForgetPin(m, want) == [m EXCEPT !.pinned = None]
\* A pin only holds until the tag moves on.
Forget(m, want) == [m EXCEPT !.pinned = IF @ = want THEN @ ELSE None]

CountFailure(m, want) ==
    LET failures == IF m.failing = want THEN m.failures + 1 ELSE 1
    IN  [m EXCEPT !.failing = want, !.failures = failures,
                  !.pinned = IF failures >= MaxSwapFailures THEN want ELSE @]

-----------------------------------------------------------------------------
(* A pass.                                                                 *)

(***************************************************************************)
(* prefetch: one background pull per target, not of what is pinned out,    *)
(* and only where there is a registry.                                     *)
(***************************************************************************)
Prefetches(want) ==
    /\ opted.autoupdate = "registry"
    /\ want # named.image /\ want # Forget(mem, want).pinned
    /\ prefetched # want

\* Only a running container is listed; what its tag should be is looked up.
Look ==
    /\ pc = "idle" /\ named.running
    /\ Goto("decide", [NoJob EXCEPT !.want = Desired])
    /\ mem' = Forget(mem, Desired)
    /\ IF Prefetches(Desired)
       THEN prefetched' = Desired /\ pulls' = pulls \cup {Desired}
       ELSE UNCHANGED fetches
    /\ UNCHANGED <<opted, host, tags, history, spent>>

\* A container that is down is not listed, and nothing is done about it.
NothingListed ==
    /\ pc = "idle" /\ ~named.running
    /\ UNCHANGED vars

(***************************************************************************)
(* The container is sampled and the decision made; one that cannot be      *)
(* recreated is refused.  Only the registry policy pulls.                  *)
(***************************************************************************)
SampleAndDecide ==
    /\ pc = "decide"
    /\ \E inUse \in BOOLEAN :
         LET counted == NextStreak(mem.streak, ~inUse, IdleSamples)
             updates == DecideKind(mem.pinned, named.image, job.want, inUse, counted,
                                   IdleSamples) = "update"
         IN  /\ SampleReads(inUse)
             /\ mem' = [mem EXCEPT !.streak = counted]
             /\ IF updates /\ opted.recreatable
                THEN Goto(IF opted.autoupdate = "registry" THEN "pull" ELSE "stop", job)
                ELSE Goto("idle", NoJob)
    /\ UNCHANGED <<opted, host, tags, fetches, history>>

\* Mutant: the swap trusts the prefetch.
PullSkipped ==
    /\ pc = "pull"
    /\ Goto("stop", job)
    /\ UNCHANGED <<opted, host, tags, mem, fetches, history, spent>>

\* The swap's own pull: the tag is here as the registry has it now.
Pull ==
    /\ pc = "pull"
    /\ stored' = registry
    /\ Goto("stop", job)
    /\ UNCHANGED <<opted, host, registry, mem, fetches, history, spent>>

PullFails ==
    /\ pc = "pull" /\ Fault
    /\ Goto("idle", NoJob)
    /\ UNCHANGED <<opted, host, tags, mem, fetches, history>>

-----------------------------------------------------------------------------
(* Docker's calls: what each does to the host, and when it cannot.         *)

StopCall     == named' = [named EXCEPT !.running = FALSE] /\ busy' = FALSE /\ UNCHANGED parked
CanPark      == There(named) /\ ~There(parked)
ParkCall     == parked' = named /\ named' = Nobody /\ UNCHANGED busy
CanCreate    == ~There(named)
CreateCall   == /\ named' = [image |-> stored, running |-> FALSE, gated |-> FALSE]
                /\ UNCHANGED <<parked, busy>>
CanStart     == There(named)
StartCall    == named' = [named EXCEPT !.running = TRUE] /\ UNCHANGED <<parked, busy>>
RemoveCall   == named' = Nobody /\ busy' = FALSE /\ UNCHANGED parked
CanRestore   == There(parked) /\ ~There(named)
RestoreCall  == named' = parked /\ parked' = Nobody /\ UNCHANGED busy
DropCall     == parked' = Nobody /\ UNCHANGED <<named, busy>>

\* A call that could not be carried out, or whose answer was lost.
Fails(can, call) == \/ ~can /\ NoFault /\ UNCHANGED host
                    \/ can /\ Fault /\ (call \/ UNCHANGED host)

-----------------------------------------------------------------------------
(* The swap.                                                               *)

\* undo: derived from how far the swap got.
Undo(j) ==
    Goto(IF j.created THEN "undoRemove"
         ELSE IF j.parked THEN "undoRename"
         ELSE IF j.stopped THEN "undoStart"
         ELSE "undone", j)

Stop ==
    /\ pc = "stop"
    /\ \/ StopCall /\ NoFault /\ Goto("rename", [job EXCEPT !.stopped = TRUE])
       \/ Fails(TRUE, StopCall) /\ Undo(job)
    /\ UNCHANGED <<opted, tags, mem, fetches, history>>

Rename ==
    /\ pc = "rename"
    /\ \/ CanPark /\ ParkCall /\ NoFault /\ Goto("create", [job EXCEPT !.parked = TRUE])
       \/ Fails(CanPark, ParkCall) /\ Undo(job)
    /\ UNCHANGED <<opted, tags, mem, fetches, history>>

Create ==
    /\ pc = "create"
    /\ \/ CanCreate /\ CreateCall /\ NoFault /\ Goto("connect", [job EXCEPT !.created = TRUE])
       \/ Fails(CanCreate, CreateCall) /\ Undo(job)
    /\ UNCHANGED <<opted, tags, mem, fetches, history>>

\* Its networks beyond the first.
Connect ==
    /\ pc = "connect"
    /\ \/ NoFault /\ Goto("start", job)
       \/ Fault /\ Undo(job)
    /\ UNCHANGED <<opted, host, tags, mem, fetches, history>>

\* Mutant: committed as soon as it has started.
StartNewUngated ==
    /\ pc = "start"
    /\ \/ CanStart /\ StartCall /\ NoFault /\ Goto("commit", job)
       \/ Fails(CanStart, StartCall) /\ Undo(job)
    /\ UNCHANGED <<opted, tags, mem, fetches, history>>

StartNew ==
    /\ pc = "start"
    /\ \/ CanStart /\ StartCall /\ NoFault /\ Goto("gate", job)
       \/ Fails(CanStart, StartCall) /\ Undo(job)
    /\ UNCHANGED <<opted, tags, mem, fetches, history>>

Healthy ==
    /\ pc = "gate"
    /\ named' = [named EXCEPT !.gated = TRUE]
    /\ Goto("commit", job)
    /\ UNCHANGED <<opted, parked, busy, tags, mem, fetches, history, spent>>

\* Mutant: pinned, and not rolled back.
UnhealthyPinsOnly ==
    /\ pc = "gate"
    /\ Goto("undone", [job EXCEPT !.unhealthy = TRUE])
    /\ UNCHANGED <<opted, host, tags, mem, fetches, history, spent>>

\* The one case that both rolls fully back and pins.
Unhealthy ==
    /\ pc = "gate"
    /\ Undo([job EXCEPT !.unhealthy = TRUE])
    /\ condemned' = IF named.image = Desired /\ ~job.stale THEN {Desired} ELSE condemned
    /\ UNCHANGED <<opted, host, tags, mem, fetches, attention, spent>>

\* The parked container is dropped; a failure is only logged.
Commit ==
    /\ pc = "commit"
    /\ \/ DropCall /\ NoFault
       \/ Fails(There(parked), DropCall)
    /\ mem' = [NoMemory EXCEPT !.streak = mem.streak]
    /\ Goto("idle", NoJob)
    /\ UNCHANGED <<opted, tags, fetches, history>>

-----------------------------------------------------------------------------
(* The undo: best effort, its first failure asks for a person.             *)

UndoStep(can, call, next) ==
    /\ \/ can /\ call /\ NoFault /\ Goto(next, job) /\ UNCHANGED attention
       \/ Fails(can, call) /\ Goto("undone", job) /\ attention' = TRUE
    /\ UNCHANGED <<opted, tags, mem, fetches, condemned>>

UndoRemove == pc = "undoRemove" /\ UndoStep(There(named), RemoveCall, "undoRename")
UndoRename == pc = "undoRename" /\ UndoStep(CanRestore, RestoreCall, "undoStart")
UndoStart  == pc = "undoStart" /\ UndoStep(CanStart, StartCall, "undone")

\* Unhealthy pins at once; a failed step only counts.
Undone ==
    /\ pc = "undone"
    /\ mem' = IF job.unhealthy THEN [mem EXCEPT !.pinned = job.want]
              ELSE CountFailure(mem, job.want)
    /\ Goto("idle", NoJob)
    /\ UNCHANGED <<opted, host, tags, fetches, history, spent>>

-----------------------------------------------------------------------------
(* Background pulls, and everything that is not the source.                *)

\* A pull lands on what the tag was when it was looked up, or is by now.
PullLands(target) ==
    /\ target \in pulls
    /\ stored' \in {target, registry}
    /\ pulls' = pulls \ {target}
    /\ job' = [job EXCEPT !.stale = pc # "idle"]
    /\ UNCHANGED <<opted, host, registry, mem, prefetched, pc, history, spent>>

\* It is purely speculative: the next pass tries again.
PrefetchFails(target) ==
    /\ target \in pulls /\ Fault
    /\ pulls' = pulls \ {target}
    /\ prefetched' = IF prefetched = target THEN None ELSE prefetched
    /\ UNCHANGED <<opted, host, tags, mem, pc, job, history>>

\* The tag moves: at the registry, or to an image built here.
TagMoves ==
    /\ spent.moves < MaxMoves
    /\ spent' = [spent EXCEPT !.moves = @ + 1]
    /\ \E image \in Images \ {Desired} :
         IF opted.autoupdate = "registry"
         THEN registry' = image /\ UNCHANGED stored
         ELSE stored' = image /\ UNCHANGED registry
    /\ job' = [job EXCEPT !.stale = pc # "idle"]
    /\ condemned' = {}
    /\ UNCHANGED <<opted, host, mem, fetches, pc, attention>>

PlayersComeOrGo ==
    /\ named.running
    /\ busy' = ~busy
    /\ UNCHANGED <<opted, named, parked, tags, mem, fetches, pc, job, history, spent>>

\* The daemon dies, its pulls with it, and another is started with no memory.
Crash ==
    /\ spent.crashes < MaxCrashes
    /\ spent' = [spent EXCEPT !.crashes = @ + 1]
    /\ Goto("idle", NoJob)
    /\ mem' = NoMemory /\ prefetched' = None /\ pulls' = {}
    /\ condemned' = {}
    /\ UNCHANGED <<opted, host, tags, attention>>

-----------------------------------------------------------------------------
(* The specification.                                                      *)

Init ==
    \E image \in Images :
        /\ opted \in Labels
        /\ named = [image |-> image, running |-> TRUE, gated |-> TRUE]
        /\ parked = Nobody /\ busy = FALSE
        /\ registry = image /\ stored = image
        /\ mem = NoMemory /\ prefetched = None /\ pulls = {}
        /\ pc = "idle" /\ job = NoJob
        /\ attention = FALSE /\ condemned = {}
        /\ spent = [faults |-> 0, crashes |-> 0, moves |-> 0]

Pass == \/ Look \/ NothingListed \/ SampleAndDecide \/ Pull \/ PullFails
        \/ Stop \/ Rename \/ Create \/ Connect \/ StartNew
        \/ Healthy \/ Unhealthy \/ Commit
        \/ UndoRemove \/ UndoRename \/ UndoStart \/ Undone
Prefetch == \E target \in Images : PullLands(target) \/ PrefetchFails(target)
Others == TagMoves \/ PlayersComeOrGo \/ Crash

Next == Pass \/ Prefetch \/ Others

Spec == Init /\ [][Next]_vars

(***************************************************************************)
(* The daemon passes for ever, each Docker call is bounded by a timeout    *)
(* (client.go RequestTimeout), and so is a background pull (PullTimeout).  *)
(***************************************************************************)
FairSpec == Spec /\ WF_vars(Pass) /\ WF_vars(Prefetch)

-----------------------------------------------------------------------------
(* Properties.                                                             *)

TypeOK ==
    /\ opted \in Labels
    /\ named \in Containers /\ parked \in Containers /\ busy \in BOOLEAN
    /\ registry \in Images /\ stored \in Images
    /\ mem \in Memories
    /\ prefetched \in MaybeImage /\ pulls \subseteq Images
    /\ pc \in Steps /\ job \in Jobs
    /\ attention \in BOOLEAN /\ condemned \subseteq Images
    /\ spent \in [faults : Nat, crashes : Nat, moves : Nat]

(***************************************************************************)
(* The inductive invariant behind the two below: what each step of a swap  *)
(* and of its undo knows of the two names.  Alive is a daemon whose swaps  *)
(* were all carried through, by it or its undo.                            *)
(***************************************************************************)
Alive == ~attention /\ spent.crashes = 0
SwapFits ==
    /\ ~There(named) => ~named.gated
    /\ ~There(parked) => ~parked.gated
    /\ named.gated \/ parked.gated
    /\ pc \in {"decide", "pull", "stop", "rename"} => ~job.parked /\ ~job.created
    /\ pc = "rename" => job.stopped
    /\ pc = "create" => job.parked /\ ~job.created
    /\ pc \in {"connect", "start", "gate"} => job.created
    /\ pc \in {"create", "connect", "start", "gate", "undoRemove"} => parked.gated
    /\ pc = "gate" => There(named)
    /\ pc = "commit" => named.gated
    /\ Alive /\ pc \in {"idle", "decide", "pull", "stop", "rename", "undone"} => named.gated
    /\ Alive /\ pc = "undoStart" /\ There(named) => named.gated

(***************************************************************************)
(* The inductive invariant behind StandsUpWhatItAskedFor and               *)
(* KeepsTheProven: a pass under way wants what the tag resolves to unless  *)
(* it is stale, a swap stands up an ungated container while nothing is     *)
(* condemned, and what is condemned is pinned, or is about to be.          *)
(***************************************************************************)
TargetFits ==
    /\ pulls # {} => opted.autoupdate = "registry"
    /\ pc = "pull" => opted.autoupdate = "registry"
    /\ pc # "idle" /\ ~job.stale => job.want = Desired
    /\ pc \in {"stop", "rename", "create"} /\ ~job.stale => stored = job.want
    /\ pc \in {"connect", "start", "gate", "undoRemove"} => ~named.gated
    /\ pc \in {"pull", "stop", "rename", "create", "connect", "start", "gate", "commit"}
         => condemned = {}
    /\ condemned # {} => /\ condemned = {Desired}
                         /\ pc # "idle" => job.want = Desired
                         /\ \/ mem.pinned = Desired
                            \/ job.unhealthy /\ pc \notin {"idle", "decide"}

(***************************************************************************)
(* A container that passed a gate, or was there before any swap, always    *)
(* exists under one of the two names: through lost answers, a failed undo  *)
(* and a daemon that dies anywhere, there is something to go back to.      *)
(***************************************************************************)
GatedContainerSurvives == named.gated \/ parked.gated

(***************************************************************************)
(* Between passes of a daemon that has not died, nothing that no gate has  *)
(* passed wears the container's name - unless a person was asked for.      *)
(***************************************************************************)
NothingUngatedIsLeft ==
    pc = "idle" /\ ~attention /\ spent.crashes = 0 => named.gated

(***************************************************************************)
(* A swap stands up the digest it asked for, unless the tag moved, or a    *)
(* background pull landed, since the pass looked it up.                    *)
(***************************************************************************)
StandsUpWhatItAskedFor ==
    [][~There(named) /\ There(named') /\ pc = "create"
         => named'.image = job.want \/ job.stale]_vars

(***************************************************************************)
(* The promise of GuardedUpdate, kept through every failed call, lost      *)
(* answer and death: the proven version is under one of the two names      *)
(* until a gate passes another, and a digest a gate found unhealthy is not *)
(* stood up again before the tag moves or the daemon forgets.              *)
(***************************************************************************)
Guarded == INSTANCE GuardedUpdate WITH
    Versions <- Images,
    proven   <- IF named.gated THEN named.image ELSE parked.image,
    trial    <- IF named.gated THEN None ELSE named.image,
    rejected <- condemned
KeepsTheProven == Guarded!Spec

(***************************************************************************)
(* With nobody on from some point, the container ends up on what the tag   *)
(* resolves to, or that digest is pinned out, or it cannot be recreated,   *)
(* or it is down.                                                          *)
(***************************************************************************)
Settled == \/ named.image = Desired
           \/ mem.pinned = Desired
           \/ ~opted.recreatable
           \/ pc = "idle" /\ ~named.running
Converges == <>[](~busy) => <>[]Settled

(***************************************************************************)
(* However a swap fails, the container is left running - unless a person   *)
(* was asked for, or the daemon died in it.                                *)
(***************************************************************************)
FailedSwapLeavesRunning ==
    pc = "idle" /\ ~attention /\ spent.crashes = 0 => named.running

=============================================================================
