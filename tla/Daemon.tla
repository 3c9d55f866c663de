------------------------------- MODULE Daemon -------------------------------
(***************************************************************************)
(* The daemon of src/internal/daemon: two goroutines - passes over every   *)
(* source, each followed by the question of an automatic reboot, and a     *)
(* faster tick that only reads activity - that share the sources through   *)
(* one lock (turn) and what they know through another (mu, whose critical  *)
(* sections are single steps here).  Around them players come and go,      *)
(* workloads appear and disappear, updates arrive, the reboot window opens *)
(* and closes, and somebody asks the daemon to stop.                       *)
(*                                                                         *)
(* A source is seen from the daemon's side (src/internal/source): it lists *)
(* its workloads, samples each with the pass's one conntrack dump, holds a *)
(* workload before it swaps it, looks once more, and reports.  What        *)
(* happens inside a swap is UnitSwap's.                                    *)
(*                                                                         *)
(* What is abstracted:                                                     *)
(*  - a status file and an automatic reboot are both configured;           *)
(*  - of the status, only what is being swapped is kept;                   *)
(*  - every detector reads the conntrack dump, and reads it truly;         *)
(*  - a unit on its way up or down, which starts its streak over, and what *)
(*    a daemon finishes of a swap it finds on record, are UnitSwap's;      *)
(*  - whoever is on a container that is not opted in does not count as     *)
(*    playing, and every container can be recreated;                       *)
(*  - intervals: a goroutine that waits for its timer may go on any time.  *)
(* Bounds, each a guard: MaxFaults failing FaultyCalls, MaxChanges         *)
(* workloads appearing, disappearing, and of those Vacating stopped or     *)
(* started, MaxUpdates updates.                                            *)
(***************************************************************************)
EXTENDS Decide, FiniteSets, Sequences

CONSTANTS
    SourceWorkloads,    \* per source, in the order they run: its workloads
    LooksAgain,         \* those whose source looks again before a swap: systemd's
    IdleSamples,        \* idle passes in a row before a swap or a reboot
    FaultyCalls,        \* the calls that may fail
    Vacating,           \* the workloads that somebody may stop, or take the policy from
    MaxFaults, MaxChanges, MaxUpdates

Sources   == DOMAIN SourceWorkloads
Workloads == UNION {SourceWorkloads[s] : s \in Sources}
Calls     == {"conntrack", "source", "sample", "swap", "status", "clear",
              "boot check", "logind"}

ASSUME SourcesAssumption ==
    /\ SourceWorkloads \in Seq(SUBSET Workloads)
    /\ \A s, t \in Sources : s # t => SourceWorkloads[s] \cap SourceWorkloads[t] = {}
    /\ LooksAgain \subseteq Workloads
ASSUME DaemonBounds ==
    /\ IdleSamples \in Nat \ {0}
    /\ FaultyCalls \subseteq Calls /\ Vacating \subseteq Workloads
    /\ MaxFaults \in Nat /\ MaxChanges \in Nat /\ MaxUpdates \in Nat

VARIABLES
    \* The world.
    running,     \* the workloads there are
    vacant,      \* those with nobody to wait for: a unit that is stopped or unknown,
                 \* a container whose label is not a policy
    playing,     \* those with players on
    newcomers,   \* during a last look: workloads whose players came since it began
    pending,     \* those with an update waiting
    needed,      \* whether the machine needs a reboot
    window,      \* whether the time is inside the reboot window
    asked,       \* whether somebody asked the daemon to stop
    \* The daemon, under turn.
    turn,        \* who holds the sources: "free", "pass", "look" or "tick"
    dump,        \* the holder's conntrack dump, NoDump when there is no holder
    at,          \* the source the holder is at
    streak,      \* the sources' idle streaks
    \* The daemon, under mu.
    busy,        \* workloads last seen in use
    known,       \* workloads the last pass reported
    settled,     \* those idle for their whole debounce then, or vacant
    held,        \* workloads being swapped
    rebooting,   \* whether logind has accepted a reboot
    stopping,    \* whether systemd was told the daemon is stopping
    status,      \* the status file
    lastNotified,\* what systemd was last told
    \* The goroutines.
    pc,          \* the next step of the passes
    todo,        \* the workloads the source has not reconciled yet
    subject,     \* the workload being swapped
    outcome,     \* what the source has concluded, per workload
    failed,      \* whether a source of this pass failed
    answered,    \* whether every source answered the look
    tick,        \* the next step of the tick
    \* What happened, for the properties.
    unwaited,    \* the settled workloads that were vacant, not debounced
    unwritten,   \* whether the last write of the status failed
    uncleared,   \* whether the status file could not be removed
    spent        \* how much of each bound has been used

world   == <<running, vacant, playing, newcomers, pending, needed, window, asked>>
shared  == <<turn, dump, at, streak>>
memory  == <<busy, known, settled, unwaited, held>>
told    == <<stopping, status, lastNotified, unwritten, uncleared>>
passing == <<pc, todo, subject, outcome, failed, answered>>
vars    == <<world, shared, memory, rebooting, told, passing, tick, spent>>

-----------------------------------------------------------------------------
(* Data.                                                                   *)

NoDump   == [known |-> FALSE, inUse |-> {}]
Dumps    == [known : BOOLEAN, inUse : SUBSET Workloads]
Outcomes == {"absent", "unsampled", "busy", "idle", "settled", "vacant"}
NoStatus == [written |-> FALSE, swapping |-> {}]
Statuses == [written : BOOLEAN, swapping : SUBSET Workloads]

\* A detector that cannot tell reads as busy.
ReadsBusy(w) == dump.known => w \in dump.inUse

Unsettled == known \ settled

(***************************************************************************)
(* reboot.Decide: the order of the branches is the policy.                 *)
(***************************************************************************)
RebootDecisionHasty(isNeeded, inWindow, swapping, inUse, unsettled) ==
    IF ~isNeeded THEN "notNeeded"                    \* Mutant: no debounce.
    ELSE IF ~inWindow \/ swapping # {} \/ inUse # {} THEN "wait"
    ELSE "reboot"
RebootDecision(isNeeded, inWindow, swapping, inUse, unsettled) ==
    IF ~isNeeded                                    THEN "notNeeded"
    ELSE IF ~inWindow \/ swapping # {}
            \/ inUse # {} \/ unsettled # {}         THEN "wait"
    ELSE "reboot"

Fault(call) == /\ call \in FaultyCalls /\ spent.faults < MaxFaults
               /\ spent' = [spent EXCEPT !.faults = @ + 1]
NoFault == UNCHANGED spent

(***************************************************************************)
(* publish: the status file becomes what the daemon knows now, swapping    *)
(* being what is held; systemd hears of it unless the daemon is stopping.  *)
(* A write that fails leaves the file as it was.                           *)
(***************************************************************************)
Publish ==
    /\ \/ /\ status' = [written |-> TRUE, swapping |-> held]
          /\ unwritten' = FALSE
          /\ NoFault
       \/ Fault("status") /\ status' = status /\ unwritten' = TRUE
    /\ lastNotified' = IF stopping THEN lastNotified
                       ELSE IF held # {} THEN "swapping" ELSE "working"
    /\ UNCHANGED <<stopping, uncleared>>

\* The conntrack table is read, or it cannot be.
TakeDump ==
    \/ dump' = [known |-> TRUE, inUse |-> playing] /\ NoFault
    \/ dump' = NoDump /\ Fault("conntrack")

-----------------------------------------------------------------------------
(* A pass: Once.                                                           *)

\* The interval has passed; with ctx done as well, either may be picked.
PassDue ==
    /\ pc = "resting"
    /\ pc' = "waiting"
    /\ UNCHANGED <<world, shared, memory, rebooting, told, todo, subject, outcome, failed,
                   answered, tick, spent>>

PassBegins ==
    /\ pc = "waiting" /\ turn = "free"
    /\ turn' = "pass" /\ pc' = "list" /\ at' = 1 /\ failed' = FALSE
    /\ TakeDump
    /\ UNCHANGED <<world, streak, memory, rebooting, told, todo, subject, outcome,
                   answered, tick>>

AtSource == pc = "list" /\ at \in Sources

\* Source.Once lists its workloads.
SourceLists ==
    /\ AtSource
    /\ pc' = "reconcile"
    /\ todo' = SourceWorkloads[at] \cap running
    /\ UNCHANGED <<world, shared, memory, rebooting, told, subject, outcome, failed, answered,
                   tick, spent>>

\* It could not see its workloads: the others still run, the pass has failed.
SourceFails ==
    /\ AtSource
    /\ Fault("source")
    /\ failed' = TRUE
    /\ at' = at + 1
    /\ UNCHANGED <<world, turn, dump, streak, memory, rebooting, told, pc, todo, subject,
                   outcome, answered, tick>>

Reports(w, concluded) ==
    /\ outcome' = [outcome EXCEPT ![w] = concluded]
    /\ todo' = todo \ {w}

\* The registry, or systemd, did not answer for w: never sampled this pass.
NotSampled(w) ==
    /\ pc = "reconcile" /\ w \in todo
    /\ Fault("sample")
    /\ Reports(w, "unsampled")
    /\ UNCHANGED <<world, shared, memory, rebooting, told, pc, subject, failed, answered,
                   tick>>

(***************************************************************************)
(* Nobody to wait for: reported settled at once, its streak as it was.     *)
(* The profile of a stopped unit is moved, where there is something to     *)
(* move it to and that can be done.                                        *)
(***************************************************************************)
NobodyToWaitFor(w) ==
    /\ pc = "reconcile" /\ w \in todo \cap vacant
    /\ pending' \in {pending, pending \ {w}}
    /\ Reports(w, "vacant")
    /\ UNCHANGED <<running, vacant, playing, newcomers, needed, window, asked, shared, memory,
                   rebooting, told, pc, subject, failed, answered, tick, spent>>

\* Sampled and left alone: nothing to update to, in use, or not idle for long.
LeftAlone(w) ==
    LET counted == NextStreak(streak[w], ~ReadsBusy(w), IdleSamples)
    IN  /\ pc = "reconcile" /\ w \in todo \ vacant
        /\ w \notin pending \/ counted < IdleSamples
        /\ streak' = [streak EXCEPT ![w] = counted]
        /\ Reports(w, IF ReadsBusy(w) THEN "busy"
                      ELSE IF counted < IdleSamples THEN "idle" ELSE "settled")
        /\ UNCHANGED <<world, turn, dump, at, memory, rebooting, told, pc, subject, failed,
                       answered, tick, spent>>

\* To be swapped: held first, then the status says so, then the swap.
Hold(w) ==
    LET counted == NextStreak(streak[w], ~ReadsBusy(w), IdleSamples)
    IN  /\ pc = "reconcile" /\ w \in (todo \cap pending) \ vacant
        /\ counted = IdleSamples
        /\ streak' = [streak EXCEPT ![w] = counted]
        /\ held' = held \cup {w}
        /\ subject' = w
        /\ pc' = "publishHold"
        /\ UNCHANGED <<world, turn, dump, at, busy, known, settled, unwaited, rebooting, told,
                       todo, outcome, failed, answered, tick, spent>>

\* Mutant: held, but the swap goes on without the status saying so.
PublishHoldLater ==
    /\ pc = "publishHold"
    /\ pc' = "lastLook"
    /\ UNCHANGED <<world, shared, memory, rebooting, told, todo, subject, outcome, failed,
                   answered, tick, spent>>

PublishHold ==
    /\ pc = "publishHold"
    /\ Publish
    /\ pc' = "lastLook"
    /\ UNCHANGED <<world, shared, memory, rebooting, todo, subject, outcome, failed, answered,
                   tick>>

\* The last look of a source that takes one: someone is there, and the swap waits.
SomeoneArrived ==
    /\ pc = "lastLook" /\ subject \in LooksAgain
    /\ IF subject \in playing THEN NoFault ELSE Fault("conntrack")
    /\ streak' = [streak EXCEPT ![subject] = 0]
    /\ Reports(subject, "idle")
    /\ pc' = "reconcile" /\ subject' = None
    /\ UNCHANGED <<world, turn, dump, at, memory, rebooting, told, failed, answered,
                   tick>>

\* The Docker source goes straight on.
SwapBegins ==
    /\ pc = "lastLook"
    /\ subject \in LooksAgain => subject \notin playing
    /\ pc' = "swapping"
    /\ UNCHANGED <<world, shared, memory, rebooting, told, todo, subject, outcome, failed,
                   answered, tick, spent>>

(***************************************************************************)
(* The swap ends, however it ends, and the subject is not settled; whoever *)
(* was on may have left meanwhile.  A step of it that fails leaves the     *)
(* update waiting, but for a gate that could not be begun: the version is  *)
(* there, and the unit is reported as never sampled.                       *)
(***************************************************************************)
SwapEnds ==
    /\ pc = "swapping"
    /\ \/ Reports(subject, "idle") /\ pending' = pending \ {subject} /\ NoFault
       \/ Reports(subject, "idle") /\ pending' = pending /\ Fault("swap")
       \/ /\ subject \in LooksAgain
          /\ Reports(subject, "unsampled") /\ pending' = pending \ {subject} /\ Fault("swap")
    /\ pc' = "reconcile" /\ subject' = None
    /\ UNCHANGED <<running, vacant, playing, newcomers, needed, window, asked, shared, memory,
                   rebooting, told, failed, answered, tick>>

(***************************************************************************)
(* record: what the source reported replaces what was known of it.  A      *)
(* workload it no longer reports drops out; one it never sampled keeps its *)
(* last busy verdict, and is not settled.                                  *)
(***************************************************************************)
Record ==
    LET own == SourceWorkloads[at]
        Reported(concluded) == {w \in own : outcome[w] \in concluded}
    IN  /\ pc = "reconcile" /\ todo = {}
        /\ busy'    = (busy \ own) \cup Reported({"busy"}) \cup (busy \cap Reported({"unsampled"}))
        /\ known'   = (known \ own) \cup Reported(Outcomes \ {"absent"})
        /\ settled' = (settled \ own) \cup Reported({"settled", "vacant"})
        /\ unwaited' = (unwaited \ own) \cup Reported({"vacant"})
        /\ at' = at + 1 /\ pc' = "list"
        /\ outcome' = [w \in Workloads |-> "absent"]
        /\ UNCHANGED <<world, turn, dump, streak, held, rebooting, told, todo, subject,
                       failed, answered, tick, spent>>

\* Every source has run: nothing is held any more.
LetGo ==
    /\ pc = "list" /\ at \notin Sources
    /\ held' = {}
    /\ pc' = "publishPass"
    /\ UNCHANGED <<world, shared, busy, known, settled, unwaited, rebooting, told, todo,
                   subject, outcome, failed, answered, tick, spent>>

\* The pass's last word; a pass that failed never leads to a reboot.
PassEnds ==
    /\ pc = "publishPass"
    /\ Publish
    /\ turn' = "free" /\ dump' = NoDump /\ at' = 1 /\ failed' = FALSE
    /\ pc' = IF failed THEN "resting" ELSE "consider"
    /\ UNCHANGED <<world, streak, memory, rebooting, todo, subject, outcome, answered, tick>>

-----------------------------------------------------------------------------
(* Reading activity, for a look and for a tick alike.                      *)

(***************************************************************************)
(* The source answers: its verdicts are replaced, so a workload it does    *)
(* not report is no longer busy.  What is settled is the pass's alone.     *)
(***************************************************************************)
SourceAnswers ==
    LET own == SourceWorkloads[at]
    IN  /\ busy' = (busy \ own) \cup {w \in (own \cap running) \ vacant : ReadsBusy(w)}
        /\ UNCHANGED answered /\ NoFault

(***************************************************************************)
(* It does not: it keeps its last verdicts.  A tick is cut off by a stop,  *)
(* a look is not.                                                          *)
(***************************************************************************)
SourceSilent(holder) ==
    /\ IF holder = "tick" /\ asked THEN NoFault ELSE Fault("source")
    /\ answered' = (answered /\ holder # "look")
    /\ UNCHANGED busy

ReadsSource(holder) ==
    /\ turn = holder /\ at \in Sources
    /\ SourceAnswers \/ SourceSilent(holder)
    /\ at' = at + 1
    /\ UNCHANGED <<world, turn, dump, streak, known, settled, unwaited, held, rebooting, told,
                   pc, todo, subject, outcome, failed, tick>>

-----------------------------------------------------------------------------
(* ConsiderReboot, after a pass.                                           *)

Decision(isNeeded) == RebootDecision(isNeeded, window, held, busy, Unsettled)

\* Mutant: the first decision is the only one.
ConsiderOnce ==
    /\ pc = "consider" /\ ~rebooting
    /\ pc' = IF Decision(needed) = "reboot" THEN "ask" ELSE "publishReboot"
    /\ UNCHANGED <<world, shared, memory, rebooting, told, todo, subject, outcome, failed,
                   answered, tick, spent>>

\* Needed, then the first decision: only a reboot goes on to the last look.
Consider ==
    /\ pc = "consider" /\ ~rebooting
    /\ pc' = IF Decision(needed) = "reboot" THEN "look" ELSE "publishReboot"
    /\ UNCHANGED <<world, shared, memory, rebooting, told, todo, subject, outcome, failed,
                   answered, tick, spent>>

\* Whether one is needed cannot be told.
ConsiderFails ==
    /\ pc = "consider" /\ ~rebooting
    /\ Fault("boot check")
    /\ pc' = "publishReboot"
    /\ UNCHANGED <<world, shared, memory, rebooting, told, todo, subject, outcome, failed,
                   answered, tick>>

\* logind has accepted one already: no later pass asks again.
AlreadyRebooting ==
    /\ pc = "consider" /\ rebooting
    /\ pc' = "resting"
    /\ UNCHANGED <<world, shared, memory, rebooting, told, todo, subject, outcome, failed,
                   answered, tick, spent>>

\* The last look takes the turn and reads the table afresh.
LookBegins ==
    /\ pc = "look" /\ turn = "free"
    /\ turn' = "look" /\ at' = 1 /\ answered' = TRUE
    /\ TakeDump
    /\ newcomers' = {}
    /\ UNCHANGED <<running, vacant, playing, pending, needed, window, asked, streak, memory,
                   rebooting, told, pc, todo, subject, outcome, failed, tick>>

\* Mutant: the look keeps the turn.
LookEndsLocked ==
    /\ turn = "look" /\ at \notin Sources
    /\ pc' = "decide"
    /\ UNCHANGED <<world, shared, memory, rebooting, told, todo, subject, outcome, failed,
                   answered, tick, spent>>

LookEnds ==
    /\ turn = "look" /\ at \notin Sources
    /\ turn' = "free" /\ dump' = NoDump /\ at' = 1
    /\ pc' = "decide"
    /\ UNCHANGED <<world, streak, memory, rebooting, told, todo, subject, outcome,
                   failed, answered, tick, spent>>

\* Decided again, with the reason for a reboot as first read.
DecideAgain ==
    /\ pc = "decide"
    /\ answered' = TRUE
    /\ pc' = IF answered /\ Decision(TRUE) = "reboot" THEN "ask" ELSE "publishReboot"
    /\ UNCHANGED <<world, shared, memory, rebooting, told, todo, subject, outcome, failed, tick,
                   spent>>

\* logind is asked, and may refuse: the next pass asks again.
AskForReboot ==
    /\ pc = "ask"
    /\ \/ rebooting' = TRUE /\ NoFault
       \/ rebooting' = FALSE /\ Fault("logind")
    /\ pc' = "publishReboot"
    /\ UNCHANGED <<world, shared, memory, told, todo, subject, outcome, failed, answered,
                   tick>>

PublishReboot ==
    /\ pc = "publishReboot"
    /\ Publish
    /\ pc' = "resting"
    /\ newcomers' = {}
    /\ UNCHANGED <<running, vacant, playing, pending, needed, window, asked, shared, memory,
                   rebooting, todo, subject, outcome, failed, answered,
                   tick>>

-----------------------------------------------------------------------------
(* The tick: activity only, and never behind a pass.                       *)

\* Mutant: Lock where the code has TryLock.
TickBeginsBlocking ==
    /\ tick = "resting" /\ turn = "free"
    /\ turn' = "tick" /\ at' = 1 /\ TakeDump /\ tick' = "read"
    /\ UNCHANGED <<world, streak, memory, rebooting, told, passing>>

\* TryLock: with the turn taken, the status is published as it stands.
TickBegins ==
    /\ tick = "resting"
    /\ IF turn = "free"
       THEN turn' = "tick" /\ at' = 1 /\ TakeDump /\ tick' = "read"
       ELSE UNCHANGED <<turn, at, dump, spent>> /\ tick' = "publish"
    /\ UNCHANGED <<world, streak, memory, rebooting, told, passing>>

TickReads == ReadsSource("tick")
LookReads == ReadsSource("look")

TickLetsGo ==
    /\ tick = "read" /\ at \notin Sources
    /\ turn' = "free" /\ dump' = NoDump /\ at' = 1
    /\ tick' = "publish"
    /\ UNCHANGED <<world, streak, memory, rebooting, told, passing, spent>>

TickPublishes ==
    /\ tick = "publish"
    /\ Publish
    /\ tick' = "resting"
    /\ UNCHANGED <<world, shared, memory, rebooting, passing>>

-----------------------------------------------------------------------------
(* Stopping: a pass in flight is finished, and the status goes last.       *)

Stop ==
    /\ asked /\ ~stopping
    /\ stopping' = TRUE
    /\ lastNotified' = "stopping"
    /\ UNCHANGED <<world, shared, memory, rebooting, status, unwritten, uncleared, passing, tick,
                   spent>>

PassesExit ==
    /\ asked /\ pc = "resting"
    /\ pc' = "exited"
    /\ UNCHANGED <<world, shared, memory, rebooting, told, todo, subject, outcome, failed,
                   answered, tick, spent>>

TickExits ==
    /\ asked /\ tick = "resting"
    /\ tick' = "exited"
    /\ UNCHANGED <<world, shared, memory, rebooting, told, passing, spent>>

\* The status file is removed, or stays as it is: the error goes unread.
Clear ==
    \/ status' = NoStatus /\ uncleared' = FALSE /\ NoFault
    \/ status' = status /\ uncleared' = TRUE /\ Fault("clear")

\* Mutant: the status is cleared without waiting for the tick.
ExitUnwaited ==
    /\ stopping /\ pc = "exited"
    /\ Clear
    /\ pc' = "over"
    /\ UNCHANGED <<world, shared, memory, rebooting, stopping, lastNotified, unwritten, todo,
                   subject, outcome, failed, answered, tick>>

\* wg.Wait, then Clear.
Exit ==
    /\ stopping /\ pc = "exited" /\ tick = "exited"
    /\ Clear
    /\ pc' = "over"
    /\ UNCHANGED <<world, shared, memory, rebooting, stopping, lastNotified, unwritten, todo,
                   subject, outcome, failed, answered, tick>>

-----------------------------------------------------------------------------
(* The world.                                                              *)

\* From the last look's reading of the table until logind is asked.
Looking == turn = "look" \/ pc \in {"decide", "ask"}

\* Stopped, or between its stop and its start.
BeingSwapped(w) == pc = "swapping" /\ w = subject

daemonState == <<shared, memory, rebooting, told, passing, tick>>

PlayersJoin(w) ==
    /\ w \in running \ (vacant \cup playing)
    /\ playing' = playing \cup {w}
    /\ newcomers' = IF Looking THEN newcomers \cup {w} ELSE {}
    /\ UNCHANGED <<running, vacant, pending, needed, window, asked, daemonState, spent>>

PlayersLeave(w) ==
    /\ w \in playing
    /\ playing' = playing \ {w} /\ newcomers' = newcomers \ {w}
    /\ UNCHANGED <<running, vacant, pending, needed, window, asked, daemonState, spent>>

UpdateAppears(w) ==
    /\ w \in running \ pending
    /\ spent.updates < MaxUpdates
    /\ spent' = [spent EXCEPT !.updates = @ + 1]
    /\ pending' = pending \cup {w}
    /\ UNCHANGED <<running, vacant, playing, newcomers, needed, window, asked, daemonState>>

Change == /\ spent.changes < MaxChanges
          /\ spent' = [spent EXCEPT !.changes = @ + 1]

\* A source forgets nothing of a workload that comes back: not its streak either.
WorkloadAppears(w) ==
    /\ w \notin running
    /\ Change
    /\ running' = running \cup {w}
    /\ UNCHANGED <<vacant, playing, newcomers, pending, needed, window, asked, daemonState>>

WorkloadDisappears(w) ==
    /\ w \in running /\ ~BeingSwapped(w)
    /\ Change
    /\ running' = running \ {w} /\ vacant' = vacant \ {w}
    /\ playing' = playing \ {w} /\ newcomers' = newcomers \ {w}
    /\ pending' = pending \ {w}
    /\ UNCHANGED <<needed, window, asked, daemonState>>

\* A unit is stopped, or a container recreated with a label that is no policy.
WorkloadVacates(w) ==
    /\ w \in (running \cap Vacating) \ vacant
    /\ Change
    /\ vacant' = vacant \cup {w}
    /\ playing' = playing \ {w} /\ newcomers' = newcomers \ {w}
    /\ UNCHANGED <<running, pending, needed, window, asked, daemonState>>

\* The other way round.
WorkloadReturns(w) ==
    /\ w \in vacant
    /\ Change
    /\ vacant' = vacant \ {w}
    /\ UNCHANGED <<running, playing, newcomers, pending, needed, window, asked, daemonState>>

RebootIsNeeded ==
    /\ ~needed /\ needed' = TRUE
    /\ UNCHANGED <<running, vacant, playing, newcomers, pending, window, asked, daemonState, spent>>

WindowOpensOrCloses ==
    /\ window' = ~window
    /\ UNCHANGED <<running, vacant, playing, newcomers, pending, needed, asked, daemonState, spent>>

StopAsked ==
    /\ ~asked /\ asked' = TRUE
    /\ UNCHANGED <<running, vacant, playing, newcomers, pending, needed, window, daemonState,
                   spent>>

-----------------------------------------------------------------------------
(* The specification.                                                      *)

Init ==
    /\ running \in SUBSET Workloads /\ vacant \in SUBSET (running \cap Vacating)
    /\ playing \in SUBSET (running \ vacant) /\ newcomers = {}
    /\ pending = {} /\ needed \in BOOLEAN /\ window \in BOOLEAN /\ asked = FALSE
    /\ turn = "free" /\ dump = NoDump /\ at = 1
    /\ streak = [w \in Workloads |-> 0]
    /\ busy = {} /\ known = {} /\ settled = {} /\ unwaited = {} /\ held = {}
    /\ rebooting = FALSE
    /\ stopping = FALSE /\ status = NoStatus /\ lastNotified = "working"
    /\ unwritten = FALSE /\ uncleared = FALSE
    /\ pc = "waiting" /\ todo = {} /\ subject = None
    /\ outcome = [w \in Workloads |-> "absent"]
    /\ failed = FALSE /\ answered = TRUE
    /\ tick = "resting"
    /\ spent = [faults |-> 0, changes |-> 0, updates |-> 0]

Reconcile(w) == NotSampled(w) \/ NobodyToWaitFor(w) \/ LeftAlone(w) \/ Hold(w)

Once == \/ PassBegins \/ SourceLists \/ SourceFails
        \/ \E w \in Workloads : Reconcile(w)
        \/ PublishHold \/ SomeoneArrived \/ SwapBegins
        \/ Record \/ LetGo \/ PassEnds
ConsiderReboot == \/ Consider \/ ConsiderFails \/ AlreadyRebooting
                  \/ LookBegins \/ LookReads \/ LookEnds
                  \/ DecideAgain \/ AskForReboot \/ PublishReboot
Passes == PassDue \/ Once \/ SwapEnds \/ ConsiderReboot
Ticks  == TickBegins \/ TickReads \/ TickLetsGo \/ TickPublishes
Stops  == Stop \/ PassesExit \/ TickExits \/ Exit

Outside == \/ \E w \in Workloads :
                 \/ PlayersJoin(w) \/ PlayersLeave(w) \/ UpdateAppears(w)
                 \/ WorkloadAppears(w) \/ WorkloadDisappears(w)
                 \/ WorkloadVacates(w) \/ WorkloadReturns(w)
           \/ RebootIsNeeded \/ WindowOpensOrCloses \/ StopAsked

Next == Passes \/ Ticks \/ Stops \/ Outside

Spec == Init /\ [][Next]_vars

(***************************************************************************)
(* Each goroutine keeps running, and the Go mutex hands the turn on, so a  *)
(* pass waiting for it gets it although the tick keeps asking.  A swap has *)
(* no fairness: nothing bounds how long it takes.                          *)
(***************************************************************************)
FairSpec == /\ Spec
            /\ WF_vars(PassDue \/ Once \/ ConsiderReboot)
            /\ SF_vars(PassBegins) /\ SF_vars(LookBegins)
            /\ WF_vars(Ticks)
            /\ WF_vars(Stop) /\ SF_vars(PassesExit) /\ SF_vars(TickExits) /\ WF_vars(Exit)

-----------------------------------------------------------------------------
(* Properties.                                                             *)

PassSteps == {"resting", "waiting", "list", "reconcile", "publishHold", "lastLook",
              "swapping", "publishPass", "consider", "look", "decide", "ask",
              "publishReboot", "exited", "over"}

TypeOK ==
    /\ running \subseteq Workloads /\ vacant \subseteq running
    /\ playing \subseteq running \ vacant /\ newcomers \subseteq playing
    /\ pending \subseteq Workloads /\ {needed, window, asked} \subseteq BOOLEAN
    /\ turn \in {"free", "pass", "look", "tick"}
    /\ dump \in Dumps /\ at \in 1..(Len(SourceWorkloads) + 1)
    /\ streak \in [Workloads -> 0..IdleSamples]
    /\ busy \subseteq Workloads /\ known \subseteq Workloads
    /\ settled \subseteq known /\ unwaited \subseteq settled
    /\ held \subseteq Workloads
    /\ {rebooting, stopping, unwritten, uncleared, failed, answered} \subseteq BOOLEAN
    /\ status \in Statuses /\ lastNotified \in {"working", "swapping", "stopping"}
    /\ pc \in PassSteps /\ todo \subseteq Workloads /\ subject \in Workloads \cup {None}
    /\ outcome \in [Workloads -> Outcomes]
    /\ tick \in {"resting", "read", "publish", "exited"}
    /\ spent \in [faults : Nat, changes : Nat, updates : Nat]

(***************************************************************************)
(* When logind is asked for a reboot, whoever is playing joined after the  *)
(* last look had begun: a player who was there before is never cut off,    *)
(* whatever ticks, failed reads, joins and departures came in between.     *)
(***************************************************************************)
RebootSparesPlayers == [][pc = "ask" /\ pc' # "ask" => playing \subseteq newcomers]_vars

(***************************************************************************)
(* While a workload is being swapped the status file says so - although    *)
(* the tick writes it too - unless the last write of it failed.            *)
(***************************************************************************)
StatusSaysSwapping ==
    pc \in {"lastLook", "swapping"} /\ ~unwritten => subject \in status.swapping

(***************************************************************************)
(* systemd's last word of a daemon that is stopping is that it is          *)
(* stopping.  Once it is over no swap was left half done, nothing writes   *)
(* any more, and a status file is left only where it could not be removed; *)
(* that says of nothing that it is being swapped, unless the last write    *)
(* failed too.                                                             *)
(***************************************************************************)
LeavesNoStatus ==
    /\ stopping => lastNotified = "stopping"
    /\ pc = "over" => /\ held = {} /\ turn = "free"
                      /\ status.written => uncleared /\ (unwritten \/ status.swapping = {})

(***************************************************************************)
(* The tick publishes for ever, even behind a swap that never ends, until  *)
(* the daemon is asked to stop: the status never reads as stale.           *)
(***************************************************************************)
TickNeverWaits == []<>(tick = "publish" \/ asked)

\* The swap under way never ends.
SwapHangs == <>[](pc = "swapping")

\* Asked to stop, the daemon finishes the pass in flight and is over.
StopEnds == SwapHangs \/ (asked ~> pc = "over")

(***************************************************************************)
(* A machine that needs a reboot, in its window and with nobody on, is     *)
(* rebooted sooner or later - unless the daemon is stopped.                *)
(***************************************************************************)
Quiet == needed /\ window /\ playing = {}
RebootHappens == <>[]Quiet => SwapHangs \/ <>(rebooting \/ asked)

(***************************************************************************)
(* A reboot waits for the debounce of every workload the last pass knew,   *)
(* although ticks and the look move the busy verdicts in between - but for *)
(* one that had nobody to wait for when that pass came to it.              *)
(***************************************************************************)
RebootWaitsForDebounce ==
    [][pc = "ask" /\ pc' # "ask"
         => \A w \in known : streak[w] >= IdleSamples \/ w \in unwaited]_vars

=============================================================================
