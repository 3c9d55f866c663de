----------------------------- MODULE HealthGate -----------------------------
(***************************************************************************)
(* The health gate of src/internal/health for ONE new version, container   *)
(* or unit: the poll and its deadline, the checks and what they remember,  *)
(* the rule that combines them, and - for a container - the watch of       *)
(* Docker's health events that races the poll.                             *)
(*                                                                         *)
(* The version under the gate is the environment: it binds its port, dies, *)
(* comes back and is found healthy or not at any moment.                   *)
(*                                                                         *)
(* What is abstracted:                                                     *)
(*  - time is whole seconds; an evaluation reads the subject when it       *)
(*    starts and the sockets when it ends, Slow seconds later at most;     *)
(*  - one port is in scope, so the version serves nowhere, on its own      *)
(*    loopback only, or where its clients look for it;                     *)
(*  - a network driver is looked up once a gate (networkDrivers memoises   *)
(*    it, a failed lookup too), so whether the host can route to the       *)
(*    container is a setting;                                              *)
(*  - the pass's own context is never cancelled: the daemon runs passes    *)
(*    with a context without one (daemon.go:434).                          *)
(* Bounds, each a guard: MaxChanges of the version, MaxFaults reads that   *)
(* fail or streams that drop.                                              *)
(***************************************************************************)
EXTENDS Integers, Sequences, FiniteSetsExt

CONSTANTS
    Poll,        \* seconds between two polls
    Slow,        \* the longest an evaluation takes
    Settings,    \* the gates that are run: a set of Policies
    MaxChanges, MaxFaults

Kinds  == {"docker", "systemd"}
Checks == {"docker", "systemd", "uptime", "port-bound", "port-connect"}
Ports  == {"none", "udp", "tcp"}

(***************************************************************************)
(* kind is the source, timeout the seconds until the deadline, ports what  *)
(* is in scope.  For a container: whether the host can route to it,        *)
(* whether docker-proxy fronts its port, and whether its image has a       *)
(* HEALTHCHECK.  Only a unit's gate is resumed, and it may meet the unit   *)
(* still activating.                                                       *)
(***************************************************************************)
Policies == [kind : Kinds, timeout : Nat \ {0}, checks : SUBSET Checks, ports : Ports,
             routed : BOOLEAN, proxied : BOOLEAN, healthcheck : BOOLEAN, resumed : BOOLEAN]

ASSUME TimesAssumption == Poll \in Nat \ {0} /\ Slow \in Nat
ASSUME SettingsAssumption ==
    Settings \subseteq Policies /\ \A p \in Settings : p.resumed => p.kind = "systemd"
ASSUME GateBounds == MaxChanges \in Nat /\ MaxFaults \in Nat

VARIABLES
    policy,     \* which gate this is
    version,    \* the version under the gate, as it is
    now,        \* seconds since the gate began
    poll,       \* the poll's step, and when it wakes
    watch,      \* the event watch's step, when it wakes, and the event in hand
    events,     \* health events on the stream the watch has not read
    holder,     \* the arm that is evaluating
    seen,       \* the subject as the evaluation under way read it, and when
    firstSeen,  \* what uptime and port-connect remember
    sent,       \* the verdicts the arms sent, in order
    cancelled,  \* the gate has its verdict: the other arm is to end
    returned,   \* the gate has returned
    been,       \* what the version has been since the gate began
    spent       \* how much of each bound has been used

arms  == <<poll, watch, events, holder, seen, firstSeen, sent>>
vars  == <<policy, version, now, arms, cancelled, returned, been, spent>>

Nobody == "nobody"
Unseen == -1

Versions == [state : {"up", "activating", "down"}, restarted : BOOLEAN,
             health : {"none", "starting", "healthy", "unhealthy"},
             serves : {"nowhere", "loopback", "clients"}]
Unread   == [at |-> 0, version |-> [state |-> "down", restarted |-> FALSE, health |-> "none",
                                    serves |-> "nowhere"]]

Fault   == spent.faults < MaxFaults /\ spent' = [spent EXCEPT !.faults = @ + 1]
NoFault == UNCHANGED spent
Change  == spent.changes < MaxChanges /\ spent' = [spent EXCEPT !.changes = @ + 1]

-----------------------------------------------------------------------------
(* The checks.                                                             *)

\* Mutant: the grace is the timeout.
UptimeSecondsNoMargin(timeout) == timeout
UptimeSeconds(timeout) == Max({2, Min({30, (timeout * 66) \div 100})})
Grace == UptimeSeconds(policy.timeout)

\* What systemd's own crash signals feed as well.
Running(v) == v.state = "up" /\ (policy.kind = "systemd" => ~v.restarted)

\* Docker's own HEALTHCHECK, from the inspect or from the event in hand.
DockerCheck(health) ==
    CASE health = "healthy"   -> "pass"
      [] health = "unhealthy" -> "fail"
      [] health = "starting"  -> "wait"
      [] health = "none"      -> "skip"

\* Verdict: the restart job ended done, or there would be no gate.
SystemdCheck(v) ==
    CASE v.restarted \/ v.state = "down"         -> "fail"
      [] ~v.restarted /\ v.state = "up"          -> "pass"
      [] ~v.restarted /\ v.state = "activating"  -> "wait"

\* A socket waits on the port, at whatever address: in the container's netns,
\* or within the unit's cgroup.
Bound == version.serves # "nowhere"

\* first is when the check first saw the version up, this time included.
UptimeCheck(v, first, known) ==
    CASE ~Running(v)                                          -> "fail"
      [] Running(v) /\ now - first < Grace                    -> "wait"
      [] Running(v) /\ now - first >= Grace ->
            IF policy.ports = "none"                THEN "pass"
            ELSE IF ~known                          THEN "wait"
            ELSE IF Bound                           THEN "pass" ELSE "fail"

PortBoundCheck(known) ==
    IF policy.ports = "none" THEN "skip"
    ELSE IF known /\ Bound THEN "pass" ELSE "wait"

(***************************************************************************)
(* ClientEndpoints: a container's own address, where the host has a route  *)
(* to it, is truthful; the host port docker-proxy answers for is not.  A   *)
(* unit is at 127.0.0.1, truthfully.                                       *)
(***************************************************************************)
Addressed(v) == policy.routed /\ v.state = "up" /\ version.state = "up"
Accepts(v) ==
    IF policy.kind = "systemd" THEN version.serves # "nowhere"
    ELSE \/ Addressed(v) /\ version.serves = "clients"
         \/ policy.proxied /\ version.state = "up"
RefusesTruthfully(v) ==
    IF policy.kind = "systemd" THEN version.serves = "nowhere"
    ELSE Addressed(v) /\ version.serves # "clients"

\* Mutant: a refusal is only ever not yet.
PortConnectCheckBlind(v, first) ==
    IF policy.ports # "tcp" THEN "skip" ELSE IF Accepts(v) THEN "pass" ELSE "wait"
PortConnectCheck(v, first) ==
    IF policy.ports # "tcp" THEN "skip"
    ELSE IF Accepts(v) THEN "pass"
    ELSE IF now - first >= Grace /\ RefusesTruthfully(v) THEN "fail" ELSE "wait"

\* Whether uptime and port-connect look at the clock in this evaluation.
Clocks(v) == [uptime  |-> "uptime" \in policy.checks /\ Running(v),
              connect |-> /\ "port-connect" \in policy.checks /\ policy.ports = "tcp"
                          /\ ~Accepts(v)]
First(v) == [c \in {"uptime", "connect"} |->
                IF Clocks(v)[c] /\ firstSeen[c] = Unseen THEN now ELSE firstSeen[c]]

Result(check, v, health, known) ==
    CASE check = "docker"       -> DockerCheck(health)
      [] check = "systemd"      -> SystemdCheck(v)
      [] check = "uptime"       -> UptimeCheck(v, First(v).uptime, known)
      [] check = "port-bound"   -> PortBoundCheck(known)
      [] check = "port-connect" -> PortConnectCheck(v, First(v).connect)
Results(v, health, known) == {Result(check, v, health, known) : check \in policy.checks}

\* Mutant: what never confirmed vetoes at the deadline.
CombineStrict(results, timedOut) ==
    IF "fail" \in results \/ (timedOut /\ "wait" \in results) THEN "unhealthy"
    ELSE IF "wait" \in results THEN "undecided" ELSE "healthy"
Combine(results, timedOut) ==
    IF "fail" \in results THEN "unhealthy"
    ELSE IF "wait" \in results /\ ~timedOut THEN "undecided"
    ELSE "healthy"

-----------------------------------------------------------------------------
(* One evaluation, by either arm: one at a time.                           *)

\* The subject is read: from here the arm has its checks to run.
Inspected(name) ==
    /\ holder = Nobody /\ ~cancelled /\ NoFault
    /\ holder' = name
    /\ seen' = [at |-> now, version |-> version]

\* The read fails, or the gate has its verdict and has cancelled it.
InspectFails == /\ holder = Nobody
                /\ \/ cancelled /\ NoFault
                   \/ Fault
                /\ UNCHANGED <<holder, seen>>

(***************************************************************************)
(* The checks have run, the sockets readable or not - not once cancelled,  *)
(* or for a fault: combined is what they come to.                          *)
(***************************************************************************)
Checked(name, health, timedOut, combined) ==
    /\ holder = name
    /\ holder' = Nobody /\ seen' = Unread
    /\ firstSeen' = First(seen.version)
    /\ \E known \in BOOLEAN :
         /\ \/ known /\ NoFault
            \/ ~known /\ ((cancelled /\ NoFault) \/ Fault)
         /\ combined = Combine(Results(seen.version, health, known), timedOut)

Send(verdict) == sent' = Append(sent, verdict)

-----------------------------------------------------------------------------
(* The poll: Gate.                                                         *)

outside == <<policy, version, now, cancelled, returned, been>>

\* The deadline decides whether this is the last look.
PollLooks ==
    /\ poll.step = "top"
    /\ poll' = IF cancelled THEN [poll EXCEPT !.step = "done"]
               ELSE [poll EXCEPT !.step = "inspect", !.last = now >= policy.timeout]
    /\ UNCHANGED <<outside, watch, events, holder, seen, firstSeen, sent, spent>>

PollInspects ==
    /\ poll.step = "inspect" /\ Inspected("poll")
    /\ poll' = [poll EXCEPT !.step = "checks"]
    /\ UNCHANGED <<outside, watch, events, firstSeen, sent>>

\* Mutant: the verdict is sent and the poll goes on.
PollCannotInspectGoesOn ==
    /\ poll.step = "inspect" /\ InspectFails
    /\ poll' = [poll EXCEPT !.step = IF cancelled THEN "done" ELSE "top"]
    /\ IF cancelled THEN UNCHANGED sent ELSE Send("unhealthy")
    /\ UNCHANGED <<outside, watch, events, firstSeen>>
(***************************************************************************)
(* An evaluation that errs rolls back, but for the last look, which then   *)
(* has nothing to say against the update; none once cancelled.             *)
(***************************************************************************)
PollCannotInspect ==
    /\ poll.step = "inspect" /\ InspectFails
    /\ poll' = [poll EXCEPT !.step = "done"]
    /\ IF poll.last THEN Send("healthy")
       ELSE IF cancelled THEN UNCHANGED sent
       ELSE Send("unhealthy")
    /\ UNCHANGED <<outside, watch, events, firstSeen>>

PollSettles(verdict) ==
    /\ poll.step = "checks"
    /\ Checked("poll", seen.version.health, poll.last, verdict)
    /\ Send(verdict) /\ poll' = [poll EXCEPT !.step = "done"]
    /\ UNCHANGED <<outside, watch, events>>

PollSleeps ==
    /\ poll.step = "checks"
    /\ Checked("poll", seen.version.health, poll.last, "undecided")
    /\ poll' = [poll EXCEPT !.step = "sleep", !.wake = now + Poll]
    /\ UNCHANGED <<outside, watch, events, sent>>

PollWakes ==
    /\ poll.step = "sleep" /\ (now >= poll.wake \/ cancelled)
    /\ poll' = [poll EXCEPT !.step = IF cancelled THEN "done" ELSE "top", !.wake = 0]
    /\ UNCHANGED <<outside, watch, events, holder, seen, firstSeen, sent, spent>>

-----------------------------------------------------------------------------
(* The watch: health_status events, while the docker check is asked for.   *)

Listening == watch.step \in {"read", "inspect", "checks"}

WatchOpens ==
    /\ watch.step = "closed" /\ (now >= watch.wake \/ cancelled)
    /\ watch' = [watch EXCEPT !.step = IF cancelled THEN "done" ELSE "read", !.wake = 0]
    /\ UNCHANGED <<outside, poll, events, holder, seen, firstSeen, sent, spent>>

\* The event in hand is what the docker check takes.
WatchReads ==
    /\ watch.step = "read" /\ events # <<>>
    /\ watch' = [watch EXCEPT !.step = "inspect", !.event = Head(events)]
    /\ events' = Tail(events)
    /\ UNCHANGED <<outside, poll, holder, seen, firstSeen, sent, spent>>

WatchInspects ==
    /\ watch.step = "inspect" /\ Inspected("watch")
    /\ watch' = [watch EXCEPT !.step = "checks"]
    /\ UNCHANGED <<outside, poll, events, firstSeen, sent>>

\* The event is let go: the poll carries the wait.
WatchCannotInspect ==
    /\ watch.step = "inspect" /\ InspectFails
    /\ watch' = [watch EXCEPT !.step = "read", !.event = "none"]
    /\ UNCHANGED <<outside, poll, events, firstSeen, sent>>

\* Mutant: Docker's word settles the gate alone.
WatchSettlesAlone(verdict) ==
    /\ watch.step = "checks" /\ holder = "watch"
    /\ verdict = watch.event
    /\ holder' = Nobody /\ seen' = Unread /\ firstSeen' = First(seen.version)
    /\ Send(verdict) /\ watch' = [watch EXCEPT !.step = "done"]
    /\ UNCHANGED <<outside, poll, events, spent>>
WatchSettles(verdict) ==
    /\ watch.step = "checks"
    /\ Checked("watch", watch.event, FALSE, verdict)
    /\ Send(verdict) /\ watch' = [watch EXCEPT !.step = "done"]
    /\ UNCHANGED <<outside, poll, events>>

WatchGoesOn ==
    /\ watch.step = "checks"
    /\ Checked("watch", watch.event, FALSE, "undecided")
    /\ watch' = [watch EXCEPT !.step = "read", !.event = "none"]
    /\ UNCHANGED <<outside, poll, events, sent>>

\* Mutant: a stream that is quiet is waited on for ever.
WatchDropsOnly ==
    /\ watch.step = "read" /\ Fault
    /\ watch' = [watch EXCEPT !.step = "closed", !.wake = now + 1]
    /\ events' = <<>>
    /\ UNCHANGED <<outside, poll, holder, seen, firstSeen, sent>>
\* The stream drops, and what was on it with it, or is cancelled.
WatchDrops ==
    /\ watch.step = "read" /\ ((cancelled /\ NoFault) \/ Fault)
    /\ watch' = [watch EXCEPT !.step = "closed", !.wake = now + 1]
    /\ events' = <<>>
    /\ UNCHANGED <<outside, poll, holder, seen, firstSeen, sent>>

-----------------------------------------------------------------------------
(* The gate.                                                               *)

Receives ==
    /\ sent # <<>> /\ ~cancelled
    /\ cancelled' = TRUE
    /\ UNCHANGED <<policy, version, now, arms, returned, been, spent>>

Returns ==
    /\ cancelled /\ ~returned
    /\ poll.step = "done" /\ watch.step = "done"
    /\ returned' = TRUE
    /\ UNCHANGED <<policy, version, now, arms, cancelled, been, spent>>

-----------------------------------------------------------------------------
(* The version, and time.                                                  *)

Becomes(new) ==
    /\ Change /\ ~cancelled
    /\ version' = new
    /\ been' = been \cup {new.state, new.health, new.serves}
                    \cup (IF new.restarted THEN {"restarted"} ELSE {})
    /\ UNCHANGED <<policy, now, poll, watch, holder, seen, firstSeen, sent, cancelled, returned>>

VersionDies ==
    /\ version.state # "down"
    /\ Becomes([version EXCEPT !.state = "down", !.serves = "nowhere"])
    /\ UNCHANGED events

\* Docker's restart policy, or systemd's Restart=.
VersionComesBack ==
    /\ version.state = "down"
    /\ Becomes([version EXCEPT !.state = "up", !.restarted = TRUE,
                               !.health = IF policy.healthcheck THEN "starting" ELSE "none"])
    /\ UNCHANGED events

VersionReady ==
    /\ version.state = "activating"
    /\ Becomes([version EXCEPT !.state = "up"])
    /\ UNCHANGED events

VersionServes ==
    /\ version.state # "down"
    /\ \E where \in {"loopback", "clients"} \ {version.serves} :
         Becomes([version EXCEPT !.serves = where])
    /\ UNCHANGED events

\* Docker's probe says otherwise than before, and says so on the stream.
HealthFlips ==
    /\ policy.healthcheck /\ version.state = "up"
    /\ \E health \in {"healthy", "unhealthy"} \ {version.health} :
         /\ Becomes([version EXCEPT !.health = health])
         /\ events' = IF Listening THEN Append(events, health) ELSE events

\* An arm with something to do does it: only sleeps and evaluations take time.
Due == \/ poll.step = "top"
       \/ poll.step = "sleep" /\ (now >= poll.wake \/ cancelled)
       \/ poll.step = "inspect" /\ holder = Nobody
       \/ watch.step = "read" /\ (events # <<>> \/ cancelled)
       \/ watch.step = "closed" /\ (now >= watch.wake \/ cancelled)
       \/ watch.step = "inspect" /\ holder = Nobody
       \/ holder # Nobody /\ now >= seen.at + Slow
       \/ sent # <<>> /\ ~cancelled
Tick ==
    /\ ~returned /\ ~Due
    /\ ~(cancelled /\ poll.step = "done" /\ watch.step = "done")
    /\ now' = now + 1
    /\ UNCHANGED <<policy, version, arms, cancelled, returned, been, spent>>

-----------------------------------------------------------------------------
(* The specification.                                                      *)

Init ==
    /\ policy \in Settings
    /\ version \in [state : {"up"} \cup (IF policy.resumed THEN {"activating"} ELSE {}),
                    restarted : {FALSE},
                    health : IF policy.healthcheck THEN {"starting"} ELSE {"none"},
                    serves : {"nowhere"}]
    /\ now = 0
    /\ poll = [step |-> "top", last |-> FALSE, wake |-> 0]
    /\ watch = [step |-> IF "docker" \in policy.checks THEN "closed" ELSE "done",
                wake |-> 0, event |-> "none"]
    /\ events = <<>> /\ holder = Nobody
    /\ seen = Unread
    /\ firstSeen = [uptime |-> Unseen, connect |-> Unseen]
    /\ sent = <<>> /\ cancelled = FALSE /\ returned = FALSE
    /\ been = {version.state, version.health, version.serves}
    /\ spent = [changes |-> 0, faults |-> 0]

PollSteps  == \/ PollLooks \/ PollInspects \/ PollCannotInspect \/ PollSleeps \/ PollWakes
              \/ \E verdict \in {"healthy", "unhealthy"} : PollSettles(verdict)
WatchSteps == \/ WatchOpens \/ WatchReads \/ WatchInspects \/ WatchCannotInspect
              \/ WatchGoesOn \/ WatchDrops
              \/ \E verdict \in {"healthy", "unhealthy"} : WatchSettles(verdict)
Gate       == PollSteps \/ WatchSteps \/ Receives \/ Returns \/ Tick
World      == \/ VersionDies \/ VersionComesBack \/ VersionReady \/ VersionServes
              \/ HealthFlips

Next == Gate \/ World

Spec == Init /\ [][Next]_vars

(***************************************************************************)
(* Time passes, and each arm takes its steps: every call it makes has a    *)
(* timeout (client.go RequestTimeout, Dialer.Timeout).                     *)
(***************************************************************************)
FairSpec == Spec /\ WF_vars(Gate)

-----------------------------------------------------------------------------
(* Properties.                                                             *)

TypeOK ==
    /\ policy \in Settings /\ version \in Versions /\ now \in Nat
    /\ poll \in [step : {"top", "inspect", "checks", "sleep", "done"}, last : BOOLEAN, wake : Nat]
    /\ watch \in [step : {"closed", "read", "inspect", "checks", "done"}, wake : Nat,
                  event : {"none", "healthy", "unhealthy"}]
    /\ events \in Seq({"healthy", "unhealthy"})
    /\ holder \in {Nobody, "poll", "watch"}
    /\ seen \in [at : Nat, version : Versions]
    /\ firstSeen \in [{"uptime", "connect"} -> Nat \cup {Unseen}]
    /\ sent \in Seq({"healthy", "unhealthy"}) /\ Len(sent) <= 2
    /\ cancelled \in BOOLEAN /\ returned \in BOOLEAN
    /\ spent \in [changes : Nat, faults : Nat]

Verdict == sent'[1]
Judged  == sent = <<>> /\ sent' # <<>>

(***************************************************************************)
(* Only something actively wrong rolls back: the version was down, or came *)
(* back, or Docker said unhealthy, or it could not be read - or the grace  *)
(* has passed and it does not serve where its clients look.  A probe that  *)
(* is slow, blind or cut off never does.                                   *)
(***************************************************************************)
RollsBackOnEvidence ==
    [][Judged /\ Verdict = "unhealthy"
         => \/ been \cap {"down", "restarted", "unhealthy"} # {}
            \/ spent'.faults > spent.faults /\ poll.step = "inspect" /\ ~poll.last
            \/ now >= Grace /\ version.serves # "clients"]_vars

(***************************************************************************)
(* A version that is up and never binds its port is not committed, however *)
(* the deadline, the polls and the grace fall, if its sockets can be read: *)
(* uptime decides before the gate gives up.                                *)
(***************************************************************************)
NeverServedNeverCommitted ==
    [][Judged /\ Verdict = "healthy"
         => \/ "uptime" \notin policy.checks \/ policy.ports = "none"
            \/ been \cap {"loopback", "clients"} # {}
            \/ spent'.faults > 0]_vars

(***************************************************************************)
(* Before the deadline nothing commits that uptime has not watched for the *)
(* whole grace, an event that says healthy included.                       *)
(***************************************************************************)
EarlyCommitHasBeenUp ==
    [][Judged /\ Verdict = "healthy" /\ "uptime" \in policy.checks /\ now < policy.timeout
         => /\ firstSeen'.uptime # Unseen /\ now - firstSeen'.uptime >= Grace
            /\ Running(seen.version)]_vars

\* The gate returns: whatever the events, the stream and the version do.
GateReturns == <>returned

(***************************************************************************)
(* port-connect catches a version its clients cannot reach: one that from  *)
(* the start serves nowhere but on its own loopback, with a route to it,   *)
(* is not committed - but where docker-proxy fronts the port, whose accept *)
(* is taken for the version's.                                             *)
(***************************************************************************)
WrongAddressIsCaught ==
    [][Judged /\ Verdict = "healthy"
         => ~(/\ policy.kind = "docker" /\ "port-connect" \in policy.checks
              /\ policy.ports = "tcp" /\ policy.routed /\ ~policy.proxied
              /\ been \cap {"clients", "down"} = {} /\ spent'.faults = 0)]_vars

=============================================================================
