----------------------------- MODULE Detection -----------------------------
(***************************************************************************)
(* Whether anybody is on ONE workload: the conntrack, tcp and netio        *)
(* detectors of src/internal/detect, the sample each source makes of them, *)
(* and the debounce that turns samples into an update.  Passes and         *)
(* activity ticks look in turn (Daemon shows that they never overlap), but *)
(* players come, send and go between any two steps of a look, and the      *)
(* container is restarted or recreated under it.                           *)
(*                                                                         *)
(* What is abstracted:                                                     *)
(*  - a client is one flow at a time, and its phase stands for the states  *)
(*    conntrack and the socket are in: "new" has no reply yet, "on" is     *)
(*    assured and established, "closing" is one of closingTCPStates, and   *)
(*    "lingering" is a flow whose client is gone and that conntrack has    *)
(*    not been told of (all of UDP; TCP when the container was restarted); *)
(*  - only netio reads the counter, so only under it do bytes move;        *)
(*  - bytes and seconds are small numbers; a reading is kept as what has   *)
(*    been counted and how long it has been since it, not as two totals;   *)
(*  - a swap works, and another update appears some time after it.         *)
(* Bounds, each a guard: MaxArrivals, MaxBytes of a container, MaxRestarts *)
(* by others, MaxFaults of a read, MaxTicks between two passes.            *)
(***************************************************************************)
EXTENDS Decide, FiniteSets

CONSTANTS
    Clients, Settings,
    Threshold,      \* bytes per second at or below which netio reads idle
    IdleSamples,
    PassWaits, TickWaits,   \* how long it can be from the last look to a pass, to a tick
    MaxArrivals, MaxBytes, MaxRestarts, MaxFaults, MaxTicks

(***************************************************************************)
(* ports are the protocols of the ports in scope; override is a ports      *)
(* label on the container.                                                 *)
(***************************************************************************)
Policies == [kind : {"docker", "systemd"}, detector : {"conntrack", "tcp", "netio", "none"},
             ports : SUBSET {"tcp", "udp"}, override : BOOLEAN]

ASSUME SettingsAssumption ==
    Settings \subseteq {p \in Policies : p.kind = "systemd" => p.detector # "netio"}
ASSUME NumbersAssumption ==
    /\ Threshold \in Nat /\ IdleSamples \in Nat \ {0}
    /\ PassWaits \subseteq Nat /\ TickWaits \subseteq Nat
ASSUME DetectionBounds ==
    /\ MaxArrivals \in Nat /\ MaxBytes \in Nat /\ MaxRestarts \in Nat
    /\ MaxFaults \in Nat /\ MaxTicks \in Nat

VARIABLES
    policy,
    flows,      \* each client's flow in the host's conntrack table
    bytes,      \* the container's counter
    prior,      \* netio's last reading: what has been counted since, and how long ago
    look,       \* the look under way
    streak,     \* the pass's idle streak
    current,    \* the version that runs
    quiet,      \* passes in a row that had nobody to see
    sincePass,  \* what has truly moved since the last pass read the counter
    spent       \* how much of each bound has been used

vars == <<policy, flows, bytes, prior, look, streak, current, quiet, sincePass, spent>>

Phases == {"none", "new", "on", "closing", "lingering"}
Flows  == [phase : Phases, protocol : {"tcp", "udp"}, ours : BOOLEAN]
NoFlow == [phase |-> "none", protocol |-> "udp", ours |-> FALSE]

NoReading == [seen |-> FALSE, counted |-> 0, age |-> 0, moved |-> 0, reset |-> FALSE]
NoPass    == [seen |-> FALSE, moved |-> 0, age |-> 0, reset |-> FALSE]
NoLook    == [step |-> "none", by |-> "tick", readable |-> FALSE, table |-> [c \in Clients |-> NoFlow],
              on |-> {}, container |-> "same"]

Fault     == spent.faults < MaxFaults /\ spent' = [spent EXCEPT !.faults = @ + 1]
NoFault   == UNCHANGED spent

-----------------------------------------------------------------------------
(* The detectors.                                                          *)

InScope(flow) == flow.ours /\ flow.protocol \in policy.ports

\* What a detector that reads the table keeps of a flow.
Reduce(flow) == IF policy.detector = "conntrack" /\ InScope(flow) THEN flow ELSE NoFlow

Active(flow) == flow.phase \in {"new", "on", "lingering"}

ConntrackInUse(table) == \E c \in Clients : InScope(table[c]) /\ Active(table[c])

\* Sockets of the workload's own netns, read when the detector runs.
Established(c) == flows[c].phase = "on" /\ flows[c].protocol = "tcp" /\ InScope(flows[c])
TCPInUse == \E c \in Clients : Established(c)

NetioInUse(last) ==
    \/ ~last.seen \/ last.age = 0 \/ last.counted < 0
    \/ last.counted > Threshold * last.age

\* Mutant: a table that could not be read is an empty one.
CannotTellPortsOnly == policy.ports = {} /\ policy.detector # "none"
\* What cannot be told before any detector is asked is busy.
CannotTell ==
    \/ policy.detector = "conntrack" /\ ~look.readable
    \/ policy.ports = {} /\ IF policy.kind = "docker" THEN policy.override
                                                      ELSE policy.detector # "none"

(***************************************************************************)
(* A detector that errs: /proc of a process that is gone, /stats of a      *)
(* container that is, or a read that fails.  The conntrack table is in     *)
(* hand, and tcp without TCP ports reads nothing.                          *)
(***************************************************************************)
MayErr == policy.detector = "netio" \/ (policy.detector = "tcp" /\ "tcp" \in policy.ports)
Gone   == CASE policy.detector = "tcp"   -> look.container # "same"
            [] policy.detector = "netio" -> look.container = "recreated"
            [] OTHER                     -> FALSE
Errs   == ~CannotTell /\ MayErr /\ ((Gone /\ NoFault) \/ (~Gone /\ Fault))
Reads  == ~CannotTell /\ ~(MayErr /\ Gone) /\ NoFault

InUse == CASE policy.detector = "conntrack" -> ConntrackInUse(look.table)
           [] policy.detector = "tcp"       -> TCPInUse
           [] policy.detector = "netio"     -> NetioInUse(prior)
           [] policy.detector = "none"      -> FALSE

-----------------------------------------------------------------------------
(* A look, by a pass or by the activity tick.                              *)

world == <<policy, flows, bytes>>

\* The host's table is dumped, once for the look, or cannot be.
LookBegins(by, waited) ==
    /\ look.step = "none"
    /\ \E readable \in BOOLEAN :
         /\ readable \/ spent.faults < MaxFaults
         /\ spent' = [spent EXCEPT !.faults = IF readable THEN @ ELSE @ + 1,
                                   !.ticks = IF by = "tick" THEN @ + 1 ELSE 0]
         /\ look' = [NoLook EXCEPT !.step = "dumped", !.by = by, !.readable = readable,
                        !.table = IF readable THEN [c \in Clients |-> Reduce(flows[c])] ELSE @,
                        !.on = {c \in Clients : flows[c].phase = "on" /\ InScope(flows[c])}]
    /\ prior' = IF prior.seen THEN [prior EXCEPT !.age = @ + waited] ELSE prior
    /\ sincePass' = IF sincePass.seen THEN [sincePass EXCEPT !.age = @ + waited] ELSE sincePass
    /\ UNCHANGED <<world, streak, current, quiet>>

PassBegins == \E waited \in PassWaits : LookBegins("pass", waited)
TickBegins == spent.ticks < MaxTicks /\ \E waited \in TickWaits : LookBegins("tick", waited)

\* The workload is listed: its id and its process are as of here.
Lists ==
    /\ look.step = "dumped"
    /\ look' = [look EXCEPT !.step = "listed"]
    /\ UNCHANGED <<world, prior, streak, current, quiet, sincePass, spent>>

(***************************************************************************)
(* Nothing is listed, or - for a pass - its tag does not resolve: nothing  *)
(* is sampled, and the streak stays as it is.                              *)
(***************************************************************************)
LeftAlone ==
    /\ \/ look.step = "dumped"
       \/ look.step = "listed" /\ look.by = "pass"
    /\ Fault /\ look' = NoLook
    /\ UNCHANGED <<world, prior, streak, current, quiet, sincePass>>

\* netio keeps what it read, whoever looked.
Reading ==
    IF policy.detector = "netio" /\ Reads
    THEN /\ prior' = [NoReading EXCEPT !.seen = TRUE]
         /\ sincePass' = IF look.by = "pass" THEN [NoPass EXCEPT !.seen = TRUE] ELSE sincePass
    ELSE UNCHANGED <<prior, sincePass>>

\* The verdict, fail-safe.
Sample(busy) ==
    /\ look.step = "listed" /\ look' = NoLook
    /\ \/ CannotTell /\ busy /\ NoFault
       \/ Errs /\ busy
       \/ Reads /\ busy = InUse

\* Mutant: the tick starts the streak over.
TickSamplesStartsOver ==
    /\ look.by = "tick" /\ \E busy \in BOOLEAN : Sample(busy)
    /\ Reading /\ streak' = 0
    /\ UNCHANGED <<world, current, quiet>>
TickSamples ==
    /\ look.by = "tick" /\ \E busy \in BOOLEAN : Sample(busy)
    /\ Reading
    /\ UNCHANGED <<world, streak, current, quiet>>

(***************************************************************************)
(* Whether there was nobody for the detector to see: on since before the   *)
(* table was dumped and still, on now, or moving the counter faster than   *)
(* the threshold since it was last read.  A counter that was reset in      *)
(* between cannot tell.                                                    *)
(***************************************************************************)
NobodyToSee ==
    CASE policy.detector = "conntrack" -> look.readable /\ look.on = {}
      [] policy.detector = "tcp"       -> ~TCPInUse
      [] policy.detector = "netio"     ->
            prior.seen /\ (prior.reset \/ prior.moved <= Threshold * prior.age)
      [] policy.detector = "none"      -> TRUE

Renewed(flow) == IF flow.phase = "on" /\ flow.ours THEN [flow EXCEPT !.phase = "lingering"] ELSE flow

(***************************************************************************)
(* The streak is counted and the decision made.  A swap takes the clients  *)
(* off, and a container it recreates has another id: netio has not read    *)
(* it.                                                                     *)
(***************************************************************************)
PassSamples ==
    /\ look.by = "pass"
    /\ \E busy \in BOOLEAN :
         /\ Sample(busy)
         /\ streak' = NextStreak(streak, ~busy, IdleSamples)
         /\ quiet' = NextStreak(quiet, NobodyToSee, IdleSamples)
         /\ IF DecideKind(None, current, "new", busy, streak', IdleSamples) = "update"
            THEN /\ current' = "new" /\ bytes' = 0
                 /\ flows' = [c \in Clients |-> Renewed(flows[c])]
                 /\ prior' = NoReading /\ sincePass' = NoPass
            ELSE UNCHANGED <<current, bytes, flows>> /\ Reading
    /\ UNCHANGED policy

-----------------------------------------------------------------------------
(* Clients, the kernel and whoever else manages the container.             *)

looked == <<policy, streak, current, quiet>>

ClientArrives(c) ==
    /\ flows[c].phase = "none" /\ spent.arrivals < MaxArrivals
    /\ spent' = [spent EXCEPT !.arrivals = @ + 1]
    /\ \E protocol \in {"tcp", "udp"}, ours \in BOOLEAN :
         flows' = [flows EXCEPT ![c] = [phase |-> "new", protocol |-> protocol, ours |-> ours]]
    /\ UNCHANGED <<looked, bytes, prior, look, sincePass>>

ClientSettles(c) ==
    /\ flows[c].phase = "new"
    /\ flows' = [flows EXCEPT ![c].phase = "on"]
    /\ UNCHANGED <<looked, bytes, prior, look, sincePass, spent>>

ClientSends(c) ==
    /\ flows[c].phase = "on" /\ flows[c].ours /\ policy.detector = "netio" /\ bytes < MaxBytes
    /\ bytes' = bytes + 1
    /\ prior' = IF prior.seen THEN [prior EXCEPT !.counted = @ + 1, !.moved = @ + 1] ELSE prior
    /\ sincePass' = IF sincePass.seen THEN [sincePass EXCEPT !.moved = @ + 1] ELSE sincePass
    /\ UNCHANGED <<looked, flows, look, spent>>

ClientLeaves(c) ==
    /\ flows[c].phase = "on"
    /\ flows' = [flows EXCEPT ![c].phase = IF @ = "on" /\ flows[c].protocol = "tcp" THEN "closing"
                                           ELSE "lingering"]
    /\ look' = [look EXCEPT !.on = @ \ {c}]
    /\ UNCHANGED <<looked, bytes, prior, sincePass, spent>>

FlowExpires(c) ==
    /\ flows[c].phase \in {"new", "closing", "lingering"}
    /\ flows' = [flows EXCEPT ![c] = NoFlow]
    /\ UNCHANGED <<looked, bytes, prior, look, sincePass, spent>>

UpdateAppears ==
    /\ current = "new" /\ current' = "old"
    /\ UNCHANGED <<world, prior, look, streak, quiet, sincePass, spent>>

\* By Docker or a person: the counter starts over, and everyone is off.
ContainerRestarts(how) ==
    /\ spent.restarts < MaxRestarts /\ spent' = [spent EXCEPT !.restarts = @ + 1]
    /\ bytes' = 0
    /\ flows' = [c \in Clients |-> Renewed(flows[c])]
    /\ prior' = CASE how = "recreated" -> NoReading
                  [] how = "restarted" ->
                        IF prior.seen THEN [prior EXCEPT !.counted = @ - bytes, !.reset = TRUE] ELSE prior
    /\ sincePass' = IF how = "recreated" THEN NoPass ELSE [sincePass EXCEPT !.reset = TRUE]
    /\ look' = [look EXCEPT !.on = {}, !.container =
                    IF look.step = "listed" /\ (how = "recreated" \/ @ = "same") THEN how ELSE @]
    /\ UNCHANGED looked

-----------------------------------------------------------------------------
(* The specification.                                                      *)

Init ==
    /\ policy \in Settings
    /\ flows = [c \in Clients |-> NoFlow]
    /\ bytes = 0 /\ prior = NoReading /\ look = NoLook
    /\ streak = 0 /\ current = "old" /\ quiet = 0 /\ sincePass = NoPass
    /\ spent = [arrivals |-> 0, restarts |-> 0, faults |-> 0, ticks |-> 0]

Looks == PassBegins \/ TickBegins \/ Lists \/ LeftAlone \/ TickSamples \/ PassSamples
World == \/ \E c \in Clients : \/ ClientArrives(c) \/ ClientSettles(c) \/ ClientSends(c)
                               \/ ClientLeaves(c) \/ FlowExpires(c)
         \/ \E how \in {"restarted", "recreated"} : ContainerRestarts(how)
         \/ UpdateAppears

Next == Looks \/ World

Spec == Init /\ [][Next]_vars

(***************************************************************************)
(* Passes come round and end (daemon.go:428-445: a timer, and calls that   *)
(* have timeouts), and the kernel forgets what is over.                    *)
(***************************************************************************)
FairSpec == /\ Spec
            /\ WF_vars(PassBegins) /\ WF_vars(Lists) /\ WF_vars(TickSamples \/ PassSamples)
            /\ \A c \in Clients : WF_vars(FlowExpires(c))

-----------------------------------------------------------------------------
(* Properties.                                                             *)

TypeOK ==
    /\ policy \in Settings /\ flows \in [Clients -> Flows]
    /\ bytes \in 0..MaxBytes
    /\ prior \in [seen : BOOLEAN, counted : Int, age : Nat, moved : Nat, reset : BOOLEAN]
    /\ prior.counted = prior.moved \/ prior.reset
    /\ look \in [step : {"none", "dumped", "listed"}, by : {"pass", "tick"}, readable : BOOLEAN,
                table : [Clients -> Flows], on : SUBSET Clients,
                container : {"same", "restarted", "recreated"}]
    /\ streak \in 0..IdleSamples /\ current \in {"old", "new"} /\ quiet \in 0..IdleSamples
    /\ sincePass \in [seen : BOOLEAN, moved : Nat, age : Nat, reset : BOOLEAN]
    /\ spent \in [arrivals : Nat, restarts : Nat, faults : Nat, ticks : 0..MaxTicks]

Updates == current = "old" /\ current' = "new"

(***************************************************************************)
(* An update is applied only after IdleSamples passes in a row at which    *)
(* there was nobody for the detector to see, whatever the ticks, failed    *)
(* reads and restarts in between.                                          *)
(***************************************************************************)
UpdatesAfterTheDebounce == [][Updates => quiet' >= IdleSamples]_vars

(***************************************************************************)
(* A workload that can be told, and that everyone leaves for good, is      *)
(* updated, and updated again: neither what is over nor a lost reading     *)
(* holds it for ever.                                                      *)
(***************************************************************************)
CanBeTold == policy.ports = {} => IF policy.kind = "docker" THEN ~policy.override
                                                           ELSE policy.detector = "none"
NobodyOn  == \A c \in Clients : flows[c].phase # "on"
QuietIsUpdated == CanBeTold => (<>[]NobodyOn => []<>(current = "new"))

(***************************************************************************)
(* The tick remembers nothing, so that it can never hurry an update along: *)
(* what a pass updates on is as quiet counted from the pass before.        *)
(***************************************************************************)
TicksHurryNothing ==
    [][Updates /\ policy.detector = "netio" /\ sincePass.seen /\ ~sincePass.reset
         => sincePass.moved <= Threshold * sincePass.age]_vars

=============================================================================
