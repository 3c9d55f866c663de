-------------------------- MODULE DaemonInvariant --------------------------
(***************************************************************************)
(* The inductive invariants behind the safety properties of Daemon:        *)
(*  - TurnInv: who holds the turn, and where its holder is;                *)
(*  - StatusInv: of the status file, and of what is held;                  *)
(*  - LookInv: of what a last look before a reboot has seen;               *)
(*  - StreakInv: of the streaks behind what a pass calls settled.          *)
(* TLC checks them on small instances; Daemon_proofs proves them.          *)
(***************************************************************************)
EXTENDS Daemon

SourceSteps  == {"reconcile", "publishHold", "lastLook", "swapping"}
SubjectSteps == SourceSteps \ {"reconcile"}
TurnSteps    == SourceSteps \cup {"list", "publishPass"}

(***************************************************************************)
(* One holder at a time, and whoever holds the turn is at a step that      *)
(* needs it.  A pass inside a source is at one of the sources.             *)
(***************************************************************************)
TurnInv ==
    /\ turn = "pass" <=> pc \in TurnSteps
    /\ turn = "tick" <=> tick = "read"
    /\ turn = "look" => pc = "look"
    /\ pc \in SourceSteps => at \in Sources

(***************************************************************************)
(* Only a pass at work holds anything, what it swaps is held, and the      *)
(* status file has it once it has been written; when the pass is over the  *)
(* file has nothing, if it could be written.                               *)
(***************************************************************************)
StatusInv ==
    /\ pc \notin SourceSteps \cup {"list"} => held = {}
    /\ pc \in SubjectSteps => subject \in held
    /\ pc \in {"lastLook", "swapping"} /\ ~unwritten => subject \in status.swapping
    /\ pc \notin TurnSteps /\ ~unwritten => status.swapping = {}
    /\ stopping => lastNotified = "stopping"
    /\ pc = "over" => tick = "exited" /\ (status.written => uncleared)

\* Who has been playing since the last look began.
SinceTheLook == playing \ newcomers

(***************************************************************************)
(* Whoever has been playing since the last look began is in the look's own *)
(* dump and in that of any tick after it; and is busy, once the look has   *)
(* read the source, for as long as every source has answered.              *)
(***************************************************************************)
LookInv ==
    /\ turn = "look" \/ (turn = "tick" /\ pc = "decide")
         => (dump.known => SinceTheLook \subseteq dump.inUse)
    /\ turn = "look" /\ answered
         => \A s \in Sources : s < at => SinceTheLook \cap SourceWorkloads[s] \subseteq busy
    /\ pc = "decide" /\ answered => SinceTheLook \subseteq busy
    /\ pc = "ask" => SinceTheLook = {}

\* Idle for the whole debounce.
Debounced(w) == streak[w] >= IdleSamples

(***************************************************************************)
(* What is settled and was waited for is debounced, but for the workloads  *)
(* of the source being run, of which what it has concluded so far is.      *)
(***************************************************************************)
StreakInv ==
    /\ \A w \in settled \ unwaited :
         Debounced(w) \/ (pc \in SourceSteps /\ w \in SourceWorkloads[at])
    /\ pc \in SourceSteps => todo \subseteq SourceWorkloads[at]
    /\ pc \in SubjectSteps => subject \in todo
    /\ pc \notin SourceSteps => todo = {}
    /\ \A w \in Workloads : outcome[w] = "settled" => Debounced(w) /\ w \notin todo
    /\ pc \notin SourceSteps => \A w \in Workloads : outcome[w] = "absent"
    /\ pc = "ask" => \A w \in known : Debounced(w) \/ w \in unwaited

=============================================================================
