------------------------ MODULE HealthGateInvariant ------------------------
(***************************************************************************)
(* The inductive invariants behind the verdicts of HealthGate:             *)
(*  - ArmsInv: where the two arms are, and what they have sent;            *)
(*  - EvidenceInv: that what an arm has read of the version it has been;   *)
(*  - ClockInv: when uptime and port-connect began to count, against the   *)
(*    poll and its deadline.                                               *)
(* TLC checks them on small instances; HealthGate_proofs proves them.      *)
(***************************************************************************)
EXTENDS HealthGate

\* How many verdicts an arm can have sent.
Sends(step) == IF step = "done" THEN 1 ELSE 0

(***************************************************************************)
(* One evaluation at a time, of at most Slow seconds; each arm sends once, *)
(* the gate is decided by what was sent, and the last look is at the       *)
(* deadline or past it.                                                    *)
(***************************************************************************)
ArmsInv ==
    /\ holder = "poll" <=> poll.step = "checks"
    /\ holder = "watch" <=> watch.step = "checks"
    /\ holder # Nobody => seen.at <= now /\ now <= seen.at + Slow
    /\ Len(sent) <= Sends(poll.step) + Sends(watch.step)
    /\ cancelled => sent # <<>>
    /\ poll.last => now >= policy.timeout

\* The version v, all of it, has been.
HasBeen(v) == {v.state, v.health, v.serves} \subseteq been /\ (v.restarted => "restarted" \in been)

EvidenceInv ==
    /\ HasBeen(version)
    /\ holder # Nobody => HasBeen(seen.version)
    /\ watch.event # "none" => watch.event \in been
    /\ \A i \in DOMAIN events : events[i] \in been
    /\ "activating" \in been => policy.resumed

(***************************************************************************)
(* Every evaluation that does not settle the gate starts check c's clock:  *)
(* uptime's, as it fails what is not running; port-connect's, where        *)
(* nothing that answers can be the version.                                *)
(***************************************************************************)
Counts(c) ==
    IF c = "uptime" THEN "uptime" \in policy.checks
    ELSE /\ policy.kind = "docker" /\ "port-connect" \in policy.checks /\ policy.ports = "tcp"
         /\ ~policy.proxied /\ "clients" \notin been

(***************************************************************************)
(* Undecided, and with no read failed: c's clock started with the first    *)
(* evaluation, which began at once; and the poll has slept since, if it is *)
(* at its last look.                                                       *)
(***************************************************************************)
NotStarted ==
    /\ poll.step \in {"top", "inspect", "checks"} /\ ~poll.last
    /\ poll.step = "top" => now = 0
    /\ IF holder = Nobody THEN now = 0 ELSE seen.at = 0
Started(first) ==
    /\ first <= Slow /\ first <= now
    /\ poll.step = "sleep" => poll.wake >= first + Poll
    /\ poll.step = "top" => now = 0 \/ now >= first + Poll
    /\ poll.last => now >= first + Poll
Clock(c) == IF firstSeen[c] = Unseen THEN NotStarted ELSE Started(firstSeen[c])
Clocked  == {"uptime", "connect"}
ClockInv == \A c \in Clocked : Counts(c) /\ sent = <<>> /\ spent.faults = 0 => Clock(c)

(***************************************************************************)
(* The grace and an evaluation fit before the deadline, or the grace fits  *)
(* between two polls: else the last look may be the one that still waits.  *)
(***************************************************************************)
TimesFit ==
    \A p \in Settings : UptimeSeconds(p.timeout) <= Poll
                        \/ UptimeSeconds(p.timeout) + Slow <= p.timeout

=============================================================================
