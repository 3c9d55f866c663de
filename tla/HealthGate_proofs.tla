-------------------------- MODULE HealthGate_proofs --------------------------
(***************************************************************************)
(* Theorems about HealthGate: what its verdicts mean, for any policies,    *)
(* any poll interval and any time an evaluation takes.                     *)
(***************************************************************************)
EXTENDS HealthGateInvariant, TLAPS

-----------------------------------------------------------------------------
(* The operators the actions are built from.                               *)

\* The policy is one, and stays the same.
LEMMA PolicyType ==
  ASSUME TypeOK
  PROVE  /\ policy \in Policies /\ policy.timeout \in Nat \ {0}
         /\ policy.checks \subseteq Checks /\ policy.kind \in Kinds
BY SettingsAssumption DEF TypeOK, Policies

\* The grace is a number of seconds, two at least.
LEMMA GraceType ==
  ASSUME NEW t \in Nat
  PROVE  UptimeSeconds(t) \in Nat /\ UptimeSeconds(t) >= 2
<1> DEFINE third == (t * 66) \div 100
           least == Min({30, third})
<1>1. third \in Nat
  BY Z3
<1> HIDE DEF third
<1>2. least \in Nat
  <2>1. \E x \in {30, third} : \A y \in {30, third} : x <= y
    BY <1>1
  <2>2. least \in {30, third}
    BY <2>1 DEF Min
  <2> QED BY <1>1, <2>2
<1> HIDE DEF least
<1>3. \E x \in {2, least} : \A y \in {2, least} : x >= y
  BY <1>2
<1>4. Max({2, least}) \in {2, least} /\ Max({2, least}) >= 2
  BY <1>3 DEF Max
<1>5. UptimeSeconds(t) = Max({2, least})
  BY DEF UptimeSeconds, least, third
<1> QED BY <1>2, <1>4, <1>5

(***************************************************************************)
(* What the results combine to: a failed check rolls back and nothing else *)
(* does; a check that waits holds back a commit until the deadline.        *)
(***************************************************************************)
LEMMA Combined ==
  ASSUME NEW v, NEW health, NEW known, NEW timedOut, NEW combined,
         combined = Combine(Results(v, health, known), timedOut)
  PROVE  /\ combined \in {"healthy", "unhealthy", "undecided"}
         /\ combined = "unhealthy"
              => \E check \in policy.checks : Result(check, v, health, known) = "fail"
         /\ combined # "unhealthy"
              => \A check \in policy.checks : Result(check, v, health, known) # "fail"
         /\ combined = "healthy" /\ ~timedOut
              => \A check \in policy.checks : Result(check, v, health, known) # "wait"
         /\ combined = "undecided" => ~timedOut
BY DEF Combine, Results

\* The clocks of the checks are started once, at the end of an evaluation.
LEMMA FirstType ==
  ASSUME TypeOK, NEW v
  PROVE  /\ First(v) \in [{"uptime", "connect"} -> Nat \cup {Unseen}]
         /\ First(v).uptime = IF "uptime" \in policy.checks /\ Running(v) /\ firstSeen.uptime = Unseen
                              THEN now ELSE firstSeen.uptime
         /\ First(v).connect = IF /\ "port-connect" \in policy.checks /\ policy.ports = "tcp"
                                  /\ ~Accepts(v) /\ firstSeen.connect = Unseen
                               THEN now ELSE firstSeen.connect
BY DEF TypeOK, First, Clocks

Verdicts   == {"healthy", "unhealthy"}
Spendings  == [changes : Nat, faults : Nat]
PollType   == [step : {"top", "inspect", "checks", "sleep", "done"}, last : BOOLEAN, wake : Nat]
WatchType  == [step : {"closed", "read", "inspect", "checks", "done"}, wake : Nat,
               event : {"none"} \cup Verdicts]

\* A read that fails is spent from its bound, and so is a change of the version.
LEMMA SpendingType ==
  ASSUME TypeOK, Fault \/ NoFault \/ Change
  PROVE  spent' \in Spendings /\ spent'.faults >= spent.faults
BY DEF TypeOK, Fault, NoFault, Change, Spendings

\* A fault is one more than none.
LEMMA FaultCounts ==
  ASSUME TypeOK, Fault
  PROVE  spent'.faults > spent.faults /\ spent'.faults # 0
BY DEF TypeOK, Fault

(***************************************************************************)
(* What an evaluation that ends leaves: the arm free, the clocks started,  *)
(* and a verdict from every check.                                         *)
(***************************************************************************)
LEMMA CheckedType ==
  ASSUME TypeOK, NEW name, NEW health, NEW timedOut, NEW combined,
         Checked(name, health, timedOut, combined)
  PROVE  /\ holder = name /\ holder' = Nobody /\ seen' = Unread
         /\ seen' \in [at : Nat, version : Versions]
         /\ firstSeen' = First(seen.version)
         /\ firstSeen' \in [{"uptime", "connect"} -> Nat \cup {Unseen}]
         /\ spent' \in Spendings /\ spent'.faults >= spent.faults
         /\ \E known \in BOOLEAN :
              /\ known \/ cancelled \/ spent'.faults # 0
              /\ combined = Combine(Results(seen.version, health, known), timedOut)
<1>1. Unread \in [at : Nat, version : Versions]
  BY DEF Unread, Versions
<1>2. firstSeen' \in [{"uptime", "connect"} -> Nat \cup {Unseen}]
  BY FirstType DEF Checked
<1>3. PICK known \in BOOLEAN :
        /\ \/ known /\ NoFault
           \/ ~known /\ ((cancelled /\ NoFault) \/ Fault)
        /\ combined = Combine(Results(seen.version, health, known), timedOut)
  BY DEF Checked
<1>4. spent' \in Spendings /\ spent'.faults >= spent.faults
  BY <1>3, SpendingType
<1>5. known \/ cancelled \/ spent'.faults # 0
  BY <1>3, FaultCounts
<1> QED BY <1>1, <1>2, <1>3, <1>4, <1>5 DEF Checked

-----------------------------------------------------------------------------
(* TypeOK, and ArmsInv with it: an arm sends once.                         *)

LEMMA TypeInit == Init => TypeOK /\ ArmsInv
<1> SUFFICES ASSUME Init PROVE TypeOK /\ ArmsInv
  OBVIOUS
<1>1. policy \in Settings /\ policy.timeout \in Nat \ {0}
  BY SettingsAssumption DEF Init, Policies
<1>2. version \in Versions
  BY DEF Init, Versions
<1>3. poll \in PollType /\ watch \in WatchType
  BY DEF Init, PollType, WatchType
<1>4. seen \in [at : Nat, version : Versions]
  BY DEF Init, Unread, Versions
<1>5. firstSeen \in [{"uptime", "connect"} -> Nat \cup {Unseen}]
  BY DEF Init
<1>6. spent \in Spendings
  BY DEF Init, Spendings
<1>7. events \in Seq(Verdicts) /\ sent \in Seq(Verdicts) /\ Len(sent) = 0
  BY DEF Init
<1>8. now \in Nat /\ holder = Nobody /\ cancelled = FALSE /\ returned = FALSE
  BY DEF Init
<1>9. TypeOK
  <2>1. cancelled \in BOOLEAN /\ returned \in BOOLEAN /\ holder \in {Nobody, "poll", "watch"}
    BY <1>8
  <2>2. Len(sent) <= 2
    BY <1>7
  <2> QED BY <1>1, <1>2, <1>3, <1>4, <1>5, <1>6, <1>7, <1>8, <2>1, <2>2
          DEF TypeOK, PollType, WatchType, Verdicts, Spendings
<1>10. ArmsInv
  BY <1>7, <1>8 DEF Init, ArmsInv, Sends, Nobody
<1> QED BY <1>9, <1>10

\* A verdict more is still few enough.
LEMMA SendType ==
  ASSUME TypeOK, NEW verdict \in Verdicts, Send(verdict)
  PROVE  sent' \in Seq(Verdicts) /\ Len(sent') = Len(sent) + 1 /\ sent' # <<>>
         /\ (sent = <<>> => sent'[1] = verdict)
<1>1. sent \in Seq(Verdicts) /\ sent' = Append(sent, verdict)
  BY DEF TypeOK, Send, Verdicts
<1> QED BY <1>1

(***************************************************************************)
(* A step keeps TypeOK if it keeps the types of what the arms have.        *)
(***************************************************************************)
LEMMA TypeOfArms ==
  ASSUME TypeOK, UNCHANGED outside,
         poll' \in PollType, watch' \in WatchType, events' \in Seq(Verdicts),
         holder' \in {Nobody, "poll", "watch"}, seen' \in [at : Nat, version : Versions],
         firstSeen' \in [{"uptime", "connect"} -> Nat \cup {Unseen}],
         sent' \in Seq(Verdicts), Len(sent') <= 2, spent' \in Spendings
  PROVE  TypeOK'
BY DEF TypeOK, outside, PollType, WatchType, Verdicts, Spendings

\* What TypeOK says of the arms, under the names above.
LEMMA ArmTypes ==
  ASSUME TypeOK
  PROVE  /\ poll \in PollType /\ watch \in WatchType /\ events \in Seq(Verdicts)
         /\ holder \in {Nobody, "poll", "watch"} /\ seen \in [at : Nat, version : Versions]
         /\ firstSeen \in [{"uptime", "connect"} -> Nat \cup {Unseen}]
         /\ sent \in Seq(Verdicts) /\ Len(sent) <= 2 /\ Len(sent) \in Nat
         /\ spent \in Spendings /\ now \in Nat
BY DEF TypeOK, PollType, WatchType, Verdicts, Spendings

LEMMA TypePoll ==
  ASSUME TypeOK, ArmsInv, PollSteps
  PROVE  TypeOK' /\ ArmsInv'
<1> USE ArmTypes
<1>1. CASE PollLooks
  <2>1. poll' = [poll EXCEPT !.step = "done"]
        \/ poll' = [poll EXCEPT !.step = "inspect", !.last = now >= policy.timeout]
    BY <1>1 DEF PollLooks
  <2>2. poll' \in PollType
    <3>1. (now >= policy.timeout) \in BOOLEAN
      OBVIOUS
    <3> QED BY <2>1, <3>1 DEF PollType
  <2>3. poll'.last => now >= policy.timeout
    BY <2>1 DEF PollType, ArmsInv
  <2>4. poll.step = "top" /\ poll'.step # "checks"
    BY <1>1, <2>1 DEF PollLooks, PollType
  <2>5. UNCHANGED <<outside, watch, events, holder, seen, firstSeen, sent, spent>>
    BY <1>1 DEF PollLooks
  <2>6. TypeOK'
    BY <2>2, <2>5, TypeOfArms
  <2>7. ArmsInv'
    BY <2>3, <2>4, <2>5 DEF ArmsInv, Sends, outside
  <2> QED BY <2>6, <2>7
<1>2. CASE PollInspects
  <2>1. /\ poll' \in PollType /\ seen' \in [at : Nat, version : Versions]
    BY <1>2 DEF PollInspects, Inspected, TypeOK, PollType
  <2>2. /\ poll'.step = "checks" /\ poll'.last = poll.last /\ poll.step = "inspect"
        /\ seen'.at = now /\ holder = Nobody /\ holder' = "poll"
    BY <1>2 DEF PollInspects, Inspected, PollType
  <2>3. UNCHANGED <<outside, watch, events, firstSeen, sent, spent>>
    BY <1>2 DEF PollInspects, Inspected, NoFault
  <2>4. TypeOK'
    BY <2>1, <2>2, <2>3, TypeOfArms
  <2>5. ArmsInv'
    BY <2>2, <2>3, TimesAssumption DEF ArmsInv, Sends, outside, Nobody
  <2> QED BY <2>4, <2>5
<1>3. CASE PollCannotInspect
  <2>1. poll' \in PollType /\ poll'.step = "done" /\ poll'.last = poll.last /\ poll.step = "inspect"
    BY <1>3 DEF PollCannotInspect, PollType
  <2>2. spent' \in Spendings /\ UNCHANGED <<outside, watch, events, firstSeen, holder, seen>>
    BY <1>3, SpendingType DEF PollCannotInspect, InspectFails
  <2>3. sent' = sent \/ Send("healthy") \/ Send("unhealthy")
    BY <1>3 DEF PollCannotInspect
  <2>4. sent' \in Seq(Verdicts) /\ Len(sent') <= Len(sent) + 1 /\ (sent # <<>> => sent' # <<>>)
    BY <2>3, SendType DEF Verdicts
  <2>5. Len(sent') <= Sends(poll'.step) + Sends(watch.step) /\ Len(sent') <= 2
    BY <2>1, <2>4 DEF ArmsInv, Sends
  <2>6. TypeOK'
    BY <2>1, <2>2, <2>4, <2>5, TypeOfArms
  <2>7. ArmsInv'
    BY <2>1, <2>2, <2>4, <2>5 DEF ArmsInv, outside
  <2> QED BY <2>6, <2>7
<1>4. ASSUME NEW verdict \in Verdicts, PollSettles(verdict) PROVE TypeOK' /\ ArmsInv'
  <2>1. poll' \in PollType /\ poll'.step = "done" /\ poll'.last = poll.last /\ poll.step = "checks"
    BY <1>4 DEF PollSettles, PollType
  <2>2. Checked("poll", seen.version.health, poll.last, verdict) /\ Send(verdict)
        /\ UNCHANGED <<outside, watch, events>>
    BY <1>4 DEF PollSettles
  <2>3. sent' \in Seq(Verdicts) /\ Len(sent') = Len(sent) + 1 /\ sent' # <<>>
    BY <2>2, SendType
  <2>4. Len(sent') <= Sends(poll'.step) + Sends(watch.step) /\ Len(sent') <= 2
    BY <2>1, <2>3 DEF ArmsInv, Sends
  <2>5. TypeOK'
    BY <2>1, <2>2, <2>3, <2>4, TypeOfArms, CheckedType
  <2>6. ArmsInv'
    BY <2>1, <2>2, <2>3, <2>4, CheckedType DEF ArmsInv, outside, Nobody
  <2> QED BY <2>5, <2>6
<1>5. CASE PollSleeps
  <2>1. poll' \in PollType
    <3>1. now + Poll \in Nat
      BY TimesAssumption
    <3> QED BY <1>5, <3>1 DEF PollSleeps, PollType
  <2>2. poll'.step = "sleep" /\ poll'.last = poll.last /\ poll.step = "checks"
    BY <1>5 DEF PollSleeps, PollType
  <2>3. Checked("poll", seen.version.health, poll.last, "undecided")
        /\ UNCHANGED <<outside, watch, events, sent>>
    BY <1>5 DEF PollSleeps
  <2>4. TypeOK'
    BY <2>1, <2>3, TypeOfArms, CheckedType
  <2>5. ArmsInv'
    BY <2>2, <2>3, CheckedType DEF ArmsInv, Sends, outside, Nobody
  <2> QED BY <2>4, <2>5
<1>6. CASE PollWakes
  <2>1. poll' \in PollType
    BY <1>6 DEF PollWakes, PollType
  <2>2. poll'.step \in {"done", "top"} /\ poll'.last = poll.last /\ poll.step = "sleep"
    BY <1>6 DEF PollWakes, PollType
  <2>3. UNCHANGED <<outside, watch, events, holder, seen, firstSeen, sent, spent>>
    BY <1>6 DEF PollWakes
  <2>4. TypeOK'
    BY <2>1, <2>3, TypeOfArms
  <2>5. ArmsInv'
    BY <2>2, <2>3 DEF ArmsInv, Sends, outside
  <2> QED BY <2>4, <2>5
<1> QED BY <1>1, <1>2, <1>3, <1>4, <1>5, <1>6 DEF PollSteps, Verdicts

LEMMA TypeWatch ==
  ASSUME TypeOK, ArmsInv, WatchSteps
  PROVE  TypeOK' /\ ArmsInv'
<1> USE ArmTypes
<1>1. CASE WatchOpens
  <2>1. watch' \in WatchType /\ watch'.step # "checks" /\ watch.step = "closed"
    BY <1>1 DEF WatchOpens, WatchType
  <2>2. UNCHANGED <<outside, poll, events, holder, seen, firstSeen, sent, spent>>
    BY <1>1 DEF WatchOpens
  <2>3. TypeOK'
    BY <2>1, <2>2, TypeOfArms
  <2>4. ArmsInv'
    BY <2>1, <2>2 DEF ArmsInv, Sends, outside
  <2> QED BY <2>3, <2>4
<1>2. CASE WatchReads
  <2>1. Head(events) \in Verdicts /\ events' \in Seq(Verdicts)
    BY <1>2 DEF WatchReads
  <2>2. watch' \in WatchType /\ watch'.step = "inspect" /\ watch.step = "read"
    BY <1>2, <2>1 DEF WatchReads, WatchType
  <2>3. UNCHANGED <<outside, poll, holder, seen, firstSeen, sent, spent>>
    BY <1>2 DEF WatchReads
  <2>4. TypeOK'
    BY <2>1, <2>2, <2>3, TypeOfArms
  <2>5. ArmsInv'
    BY <2>2, <2>3 DEF ArmsInv, Sends, outside
  <2> QED BY <2>4, <2>5
<1>3. CASE WatchInspects
  <2>1. watch' \in WatchType /\ seen' \in [at : Nat, version : Versions]
    BY <1>3 DEF WatchInspects, Inspected, TypeOK, WatchType
  <2>2. /\ watch'.step = "checks" /\ watch.step = "inspect"
        /\ seen'.at = now /\ holder = Nobody /\ holder' = "watch"
    BY <1>3 DEF WatchInspects, Inspected, WatchType
  <2>3. UNCHANGED <<outside, poll, events, firstSeen, sent, spent>>
    BY <1>3 DEF WatchInspects, Inspected, NoFault
  <2>4. TypeOK'
    BY <2>1, <2>2, <2>3, TypeOfArms
  <2>5. ArmsInv'
    BY <2>2, <2>3, TimesAssumption DEF ArmsInv, Sends, outside, Nobody
  <2> QED BY <2>4, <2>5
<1>4. CASE WatchCannotInspect
  <2>1. watch' \in WatchType /\ watch'.step = "read" /\ watch.step = "inspect"
    BY <1>4 DEF WatchCannotInspect, WatchType
  <2>2. spent' \in Spendings /\ UNCHANGED <<outside, poll, events, firstSeen, sent, holder, seen>>
    BY <1>4, SpendingType DEF WatchCannotInspect, InspectFails
  <2>3. TypeOK'
    BY <2>1, <2>2, TypeOfArms
  <2>4. ArmsInv'
    BY <2>1, <2>2 DEF ArmsInv, Sends, outside
  <2> QED BY <2>3, <2>4
<1>5. ASSUME NEW verdict \in Verdicts, WatchSettles(verdict) PROVE TypeOK' /\ ArmsInv'
  <2>1. watch' \in WatchType /\ watch'.step = "done" /\ watch.step = "checks"
    BY <1>5 DEF WatchSettles, WatchType
  <2>2. Checked("watch", watch.event, FALSE, verdict) /\ Send(verdict)
        /\ UNCHANGED <<outside, poll, events>>
    BY <1>5 DEF WatchSettles
  <2>3. sent' \in Seq(Verdicts) /\ Len(sent') = Len(sent) + 1 /\ sent' # <<>>
    BY <2>2, SendType
  <2>4. Len(sent') <= Sends(poll.step) + Sends(watch'.step) /\ Len(sent') <= 2
    BY <2>1, <2>3 DEF ArmsInv, Sends
  <2>5. TypeOK'
    BY <2>1, <2>2, <2>3, <2>4, TypeOfArms, CheckedType
  <2>6. ArmsInv'
    BY <2>1, <2>2, <2>3, <2>4, CheckedType DEF ArmsInv, outside, Nobody
  <2> QED BY <2>5, <2>6
<1>6. CASE WatchGoesOn
  <2>1. watch' \in WatchType /\ watch'.step = "read" /\ watch.step = "checks"
    BY <1>6 DEF WatchGoesOn, WatchType
  <2>2. Checked("watch", watch.event, FALSE, "undecided") /\ UNCHANGED <<outside, poll, events, sent>>
    BY <1>6 DEF WatchGoesOn
  <2>3. TypeOK'
    BY <2>1, <2>2, TypeOfArms, CheckedType
  <2>4. ArmsInv'
    BY <2>1, <2>2, CheckedType DEF ArmsInv, Sends, outside, Nobody
  <2> QED BY <2>3, <2>4
<1>7. CASE WatchDrops
  <2>1. watch' \in WatchType /\ watch'.step = "closed" /\ watch.step = "read"
    <3>1. now + 1 \in Nat
      OBVIOUS
    <3> QED BY <1>7, <3>1 DEF WatchDrops, WatchType
  <2>2. spent' \in Spendings /\ events' \in Seq(Verdicts)
    BY <1>7, SpendingType DEF WatchDrops
  <2>3. UNCHANGED <<outside, poll, holder, seen, firstSeen, sent>>
    BY <1>7 DEF WatchDrops
  <2>4. TypeOK'
    BY <2>1, <2>2, <2>3, TypeOfArms
  <2>5. ArmsInv'
    BY <2>1, <2>3 DEF ArmsInv, Sends, outside
  <2> QED BY <2>4, <2>5
<1> QED BY <1>1, <1>2, <1>3, <1>4, <1>5, <1>6, <1>7 DEF WatchSteps, Verdicts

(***************************************************************************)
(* The version becomes another one: whatever it becomes, it has been that  *)
(* from then on, and nothing the gate knows changes but the stream.        *)
(***************************************************************************)
LEMMA WorldBecomes ==
  ASSUME TypeOK, World
  PROVE  /\ version' \in Versions /\ events' \in Seq(Verdicts) /\ spent' \in Spendings
         /\ spent'.faults = spent.faults
         /\ UNCHANGED <<policy, now, poll, watch, holder, seen, firstSeen, sent, cancelled, returned>>
         /\ been \subseteq been'
         /\ {version'.state, version'.health, version'.serves} \subseteq been'
         /\ version'.restarted => "restarted" \in been'
         /\ version'.state = "activating" => version.state = "activating"
         /\ ~cancelled
         /\ events' = events \/ \E health \in Verdicts : events' = Append(events, health)
                                                         /\ health = version'.health
<1>1. ASSUME NEW new \in Versions, Becomes(new)
      PROVE  /\ version' = new /\ spent' \in Spendings /\ spent'.faults = spent.faults /\ ~cancelled
             /\ UNCHANGED <<policy, now, poll, watch, holder, seen, firstSeen, sent, cancelled,
                            returned>>
             /\ been \subseteq been' /\ {new.state, new.health, new.serves} \subseteq been'
             /\ new.restarted => "restarted" \in been'
  BY <1>1 DEF Becomes, Change, TypeOK, Spendings
<1>2. version \in Versions /\ events \in Seq(Verdicts)
  BY DEF TypeOK, Verdicts
<1>3. CASE VersionDies
  <2> DEFINE new == [version EXCEPT !.state = "down", !.serves = "nowhere"]
  <2>1. new \in Versions /\ new.state = "down"
    BY <1>2 DEF Versions
  <2>2. Becomes(new) /\ events' = events
    BY <1>3 DEF VersionDies
  <2> HIDE DEF new
  <2> QED BY <1>1, <1>2, <2>1, <2>2
<1>4. CASE VersionComesBack
  <2> DEFINE new == [version EXCEPT !.state = "up", !.restarted = TRUE,
                               !.health = IF policy.healthcheck THEN "starting" ELSE "none"]
  <2>1. new \in Versions /\ new.state = "up"
    BY <1>2 DEF Versions
  <2>2. Becomes(new) /\ events' = events
    BY <1>4 DEF VersionComesBack
  <2> HIDE DEF new
  <2> QED BY <1>1, <1>2, <2>1, <2>2
<1>5. CASE VersionReady
  <2>1. [version EXCEPT !.state = "up"] \in Versions
    BY <1>2 DEF Versions
  <2> QED BY <1>1, <1>2, <1>5, <2>1 DEF VersionReady, Versions
<1>6. CASE VersionServes
  <2>1. PICK where \in {"loopback", "clients"} : Becomes([version EXCEPT !.serves = where])
    BY <1>6 DEF VersionServes
  <2>2. [version EXCEPT !.serves = where] \in Versions
    BY <1>2 DEF Versions
  <2> QED BY <1>1, <1>2, <1>6, <2>1, <2>2 DEF VersionServes, Versions
<1>7. CASE HealthFlips
  <2>1. PICK health \in Verdicts :
          /\ Becomes([version EXCEPT !.health = health])
          /\ events' = IF Listening THEN Append(events, health) ELSE events
    BY <1>7 DEF HealthFlips, Verdicts
  <2>2. [version EXCEPT !.health = health] \in Versions
        /\ [version EXCEPT !.health = health].health = health
        /\ [version EXCEPT !.health = health].state = version.state
    BY <1>2 DEF Versions, Verdicts
  <2>3. events' \in Seq(Verdicts)
    BY <1>2, <2>1
  <2> QED BY <1>1, <1>2, <2>1, <2>2, <2>3
<1> QED BY <1>3, <1>4, <1>5, <1>6, <1>7 DEF World

LEMMA TypeStep == TypeOK /\ ArmsInv /\ [Next]_vars => TypeOK' /\ ArmsInv'
<1> SUFFICES ASSUME TypeOK, ArmsInv, [Next]_vars PROVE TypeOK' /\ ArmsInv'
  OBVIOUS
<1>1. CASE PollSteps \/ WatchSteps
  BY <1>1, TypePoll, TypeWatch
<1>2. CASE Receives
  BY <1>2 DEF Receives, TypeOK, ArmsInv, arms
<1>3. CASE Returns
  BY <1>3 DEF Returns, TypeOK, ArmsInv, arms
<1>4. CASE Tick
  <2>1. now' = now + 1 /\ now \in Nat /\ policy.timeout \in Nat /\ seen.at \in Nat
    BY <1>4, PolicyType DEF Tick, TypeOK
  <2>2. UNCHANGED <<policy, version, arms, cancelled, returned, been, spent>>
    BY <1>4 DEF Tick
  <2>3. holder # Nobody => ~(now >= seen.at + Slow)
    BY <1>4 DEF Tick, Due
  <2>4. TypeOK'
    BY <2>1, <2>2 DEF TypeOK, arms
  <2>5. ArmsInv'
    BY <2>1, <2>2, <2>3, TimesAssumption DEF ArmsInv, arms
  <2> QED BY <2>4, <2>5
<1>5. CASE World
  <2>1. TypeOK'
    BY <1>5, WorldBecomes DEF TypeOK, Verdicts, Spendings
  <2>2. ArmsInv'
    BY <1>5, WorldBecomes DEF ArmsInv
  <2> QED BY <2>1, <2>2
<1>6. CASE UNCHANGED vars
  BY <1>6 DEF vars, arms, TypeOK, ArmsInv
<1> QED BY <1>1, <1>2, <1>3, <1>4, <1>5, <1>6 DEF Next, Gate

\* Every variable keeps its type, and each arm sends one verdict at most.
THEOREM TypeCorrect == Spec => []TypeOK
<1>1. Spec => [](TypeOK /\ ArmsInv)
  BY TypeInit, TypeStep, PTL DEF Spec
<1> QED BY <1>1, PTL

\* ArmsInv holds throughout.
THEOREM ArmsInvariant == Spec => []ArmsInv
<1>1. Spec => [](TypeOK /\ ArmsInv)
  BY TypeInit, TypeStep, PTL DEF Spec
<1> QED BY <1>1, PTL

-----------------------------------------------------------------------------
(* EvidenceInv: what has been read of the version, it has been.            *)

LEMMA EvidenceInit == Init => EvidenceInv
<1> SUFFICES ASSUME Init PROVE EvidenceInv
  OBVIOUS
<1>1. /\ version.state \in {"up"} \cup (IF policy.resumed THEN {"activating"} ELSE {})
      /\ version.restarted = FALSE /\ version.serves = "nowhere"
      /\ version.health \in {"starting", "none"}
  BY DEF Init
<1>2. been = {version.state, version.health, version.serves} /\ watch.event = "none"
      /\ events = <<>> /\ holder = Nobody
  BY DEF Init
<1> QED BY <1>1, <1>2 DEF EvidenceInv, HasBeen

LEMMA EvidencePoll ==
  ASSUME TypeOK, ArmsInv, EvidenceInv, PollSteps
  PROVE  EvidenceInv'
<1>1. UNCHANGED <<version, been, policy, watch, events>>
  BY DEF PollSteps, PollLooks, PollInspects, PollCannotInspect, PollSleeps, PollWakes, PollSettles,
         outside
<1>2. \/ UNCHANGED <<holder, seen>>
      \/ seen'.version = version
      \/ holder' = Nobody
  BY DEF PollSteps, PollLooks, PollInspects, PollCannotInspect, PollSleeps, PollWakes, PollSettles,
         Inspected, InspectFails, Checked
<1> QED BY <1>1, <1>2 DEF EvidenceInv, HasBeen

LEMMA EvidenceWatch ==
  ASSUME TypeOK, ArmsInv, EvidenceInv, WatchSteps
  PROVE  EvidenceInv'
<1>1. UNCHANGED <<version, been, policy>>
  BY DEF WatchSteps, WatchOpens, WatchReads, WatchInspects, WatchCannotInspect, WatchGoesOn,
         WatchDrops, WatchSettles, outside
<1>2. \/ UNCHANGED <<holder, seen>>
      \/ seen'.version = version
      \/ holder' = Nobody
  <2>1. CASE WatchOpens \/ WatchReads \/ WatchDrops
    BY <2>1 DEF WatchOpens, WatchReads, WatchDrops
  <2>2. CASE WatchInspects \/ WatchCannotInspect
    BY <2>2 DEF WatchInspects, WatchCannotInspect, Inspected, InspectFails
  <2>3. CASE WatchGoesOn
    BY <2>3, CheckedType DEF WatchGoesOn
  <2>4. ASSUME NEW verdict, WatchSettles(verdict) PROVE holder' = Nobody
    BY <2>4, CheckedType DEF WatchSettles
  <2> QED BY <2>1, <2>2, <2>3, <2>4 DEF WatchSteps
<1>3. (HasBeen(version) /\ (holder # Nobody => HasBeen(seen.version)))'
  BY <1>1, <1>2 DEF EvidenceInv, HasBeen
<1>4. CASE WatchReads
  <2>1. /\ Head(events) = events[1] /\ 1 \in DOMAIN events
        /\ \A i \in DOMAIN Tail(events) : Tail(events)[i] = events[i + 1] /\ i + 1 \in DOMAIN events
    BY <1>4, ArmTypes DEF WatchReads
  <2>2. watch'.event = Head(events) /\ events' = Tail(events)
    BY <1>4, ArmTypes DEF WatchReads, WatchType
  <2> QED BY <1>1, <1>3, <2>1, <2>2 DEF EvidenceInv
<1>5. CASE ~WatchReads
  <2>1. /\ watch'.event = "none" \/ watch'.event = watch.event
        /\ events' = events \/ events' = <<>>
    BY <1>5, ArmTypes
       DEF WatchSteps, WatchOpens, WatchInspects, WatchCannotInspect, WatchGoesOn, WatchDrops,
           WatchSettles, WatchType
  <2> QED BY <1>1, <1>3, <2>1 DEF EvidenceInv
<1> QED BY <1>4, <1>5

LEMMA EvidenceStep == TypeOK /\ ArmsInv /\ EvidenceInv /\ [Next]_vars => EvidenceInv'
<1> SUFFICES ASSUME TypeOK, ArmsInv, EvidenceInv, [Next]_vars PROVE EvidenceInv'
  OBVIOUS
<1>1. CASE PollSteps \/ WatchSteps
  BY <1>1, EvidencePoll, EvidenceWatch
<1>2. CASE Receives \/ Returns \/ Tick \/ UNCHANGED vars
  BY <1>2 DEF Receives, Returns, Tick, vars, arms, EvidenceInv, HasBeen
<1>3. CASE World
  <2>1. /\ UNCHANGED <<policy, holder, seen, watch>> /\ been \subseteq been'
        /\ HasBeen(version)'
    BY <1>3, WorldBecomes DEF HasBeen
  <2>2. "activating" \in been' => "activating" \in been
    BY <1>3 DEF World, VersionDies, VersionComesBack, VersionReady, VersionServes, HealthFlips,
                Becomes, EvidenceInv, HasBeen, TypeOK, Versions
  <2>3. \A i \in DOMAIN events' : events'[i] \in been'
    <3>1. CASE events' = events
      BY <2>1, <3>1 DEF EvidenceInv
    <3>2. ASSUME NEW health \in Verdicts, events' = Append(events, health), health = version'.health
          PROVE  \A i \in DOMAIN events' : events'[i] \in been'
      <4>1. \A i \in DOMAIN events' : \/ i \in DOMAIN events /\ events'[i] = events[i]
                                      \/ events'[i] = health
        BY <3>2, ArmTypes
      <4> QED BY <2>1, <3>2, <4>1 DEF EvidenceInv, HasBeen
    <3> QED BY <1>3, <3>1, <3>2, WorldBecomes
  <2> QED BY <2>1, <2>2, <2>3 DEF EvidenceInv, HasBeen
<1> QED BY <1>1, <1>2, <1>3 DEF Next, Gate

\* EvidenceInv holds throughout.
THEOREM EvidenceInvariant == Spec => []EvidenceInv
<1> QED BY EvidenceInit, EvidenceStep, TypeCorrect, ArmsInvariant, PTL DEF Spec

-----------------------------------------------------------------------------
(* The first verdict, and what it rests on.                                *)

\* An evaluation of either arm, ending in the verdict.
Settles(verdict) ==
    \E health \in {seen.version.health, watch.event}, known, timedOut \in BOOLEAN :
        /\ verdict = Combine(Results(seen.version, health, known), timedOut)
        /\ timedOut => now >= policy.timeout /\ poll.last
        /\ known \/ spent'.faults # 0
        /\ holder # Nobody
        /\ firstSeen' = First(seen.version)

\* The poll's subject cannot be read, so it judges without an evaluation.
JudgesUnread(verdict) ==
    IF verdict = "healthy" THEN poll.last /\ now >= policy.timeout /\ spent'.faults # 0
    ELSE poll.step = "inspect" /\ ~poll.last /\ spent'.faults > spent.faults

(***************************************************************************)
(* The first verdict is an evaluation's, or that of a poll that could not  *)
(* read its subject; nothing the gate decides changes the version.         *)
(***************************************************************************)
LEMMA FirstVerdict ==
  ASSUME TypeOK, ArmsInv, [Next]_vars, Judged
  PROVE  /\ Verdict \in Verdicts
         /\ Settles(Verdict) \/ JudgesUnread(Verdict)
<1>1. ~cancelled /\ sent = <<>>
  BY DEF ArmsInv, Judged
<1>2. PollSteps \/ WatchSteps
  BY <1>1, WorldBecomes DEF Next, Gate, Receives, Returns, Tick, vars, arms, Judged
<1>3. CASE PollCannotInspect
  <2>1. InspectFails /\ poll.step = "inspect"
    BY <1>3 DEF PollCannotInspect
  <2>2. Fault
    BY <1>1, <2>1 DEF InspectFails
  <2>3. IF poll.last THEN Send("healthy") ELSE Send("unhealthy")
    BY <1>1, <1>3 DEF PollCannotInspect
  <2>4. Verdict = IF poll.last THEN "healthy" ELSE "unhealthy"
    BY <1>1, <2>3, SendType DEF Verdicts, Verdict
  <2>5. JudgesUnread(Verdict)
    BY <2>1, <2>2, <2>4, FaultCounts DEF JudgesUnread, ArmsInv
  <2> QED BY <2>4, <2>5 DEF Verdicts
<1>4. ASSUME NEW verdict \in Verdicts, PollSettles(verdict)
      PROVE  Verdict = verdict /\ Settles(verdict)
  <2>1. Checked("poll", seen.version.health, poll.last, verdict) /\ Send(verdict)
    BY <1>4 DEF PollSettles
  <2>2. Verdict = verdict
    BY <1>1, <2>1, SendType DEF Verdict
  <2>3. PICK known \in BOOLEAN :
          /\ known \/ cancelled \/ spent'.faults # 0
          /\ verdict = Combine(Results(seen.version, seen.version.health, known), poll.last)
    BY <2>1, CheckedType
  <2>4. poll.last \in BOOLEAN /\ (poll.last => now >= policy.timeout)
    BY ArmTypes DEF ArmsInv, PollType
  <2>5. holder # Nobody /\ firstSeen' = First(seen.version)
    BY <2>1, CheckedType DEF Nobody
  <2> QED BY <1>1, <2>2, <2>3, <2>4, <2>5 DEF Settles
<1>5. ASSUME NEW verdict \in Verdicts, WatchSettles(verdict)
      PROVE  Verdict = verdict /\ Settles(verdict)
  <2>1. Checked("watch", watch.event, FALSE, verdict) /\ Send(verdict)
    BY <1>5 DEF WatchSettles
  <2>2. Verdict = verdict
    BY <1>1, <2>1, SendType DEF Verdict
  <2>3. PICK known \in BOOLEAN :
          /\ known \/ cancelled \/ spent'.faults # 0
          /\ verdict = Combine(Results(seen.version, watch.event, known), FALSE)
    BY <2>1, CheckedType
  <2>4. holder # Nobody
    BY <2>1 DEF Checked, Nobody
  <2>5. firstSeen' = First(seen.version)
    BY <2>1 DEF Checked
  <2> QED BY <1>1, <2>2, <2>3, <2>4, <2>5 DEF Settles
<1>6. CASE ~PollCannotInspect /\ \A verdict \in Verdicts : ~PollSettles(verdict) /\ ~WatchSettles(verdict)
  <2>1. sent' = sent
    BY <1>2, <1>6
       DEF PollSteps, PollLooks, PollInspects, PollSleeps, PollWakes, WatchSteps, WatchOpens,
           WatchReads, WatchInspects, WatchCannotInspect, WatchGoesOn, WatchDrops, Verdicts
  <2> QED BY <2>1 DEF Judged
<1> QED BY <1>3, <1>4, <1>5, <1>6

\* The version an evaluation has read is one, and so is what the clocks say.
LEMMA EvaluationTypes ==
  ASSUME TypeOK, NEW v
  PROVE  /\ now \in Nat /\ Grace \in Nat /\ Grace >= 2 /\ version \in Versions
         /\ firstSeen.uptime \in Nat \cup {Unseen} /\ firstSeen.connect \in Nat \cup {Unseen}
         /\ seen.version \in Versions
<1>1. Grace \in Nat /\ Grace >= 2
  BY GraceType, PolicyType DEF Grace
<1> QED BY <1>1 DEF TypeOK

\* A check of uptime that fails has seen the version not running, or not serving in time.
LEMMA UptimeFails ==
  ASSUME TypeOK, NEW v \in Versions, NEW known \in BOOLEAN, "uptime" \in policy.checks,
         UptimeCheck(v, First(v).uptime, known) = "fail"
  PROVE  ~Running(v) \/ (now >= Grace /\ version.serves = "nowhere")
<1> SUFFICES ASSUME Running(v) PROVE now >= Grace /\ version.serves = "nowhere"
  OBVIOUS
<1>1. First(v).uptime \in Nat /\ now \in Nat /\ Grace \in Nat
  BY FirstType, EvaluationTypes DEF Unseen
<1> HIDE DEF Running
<1>2. now - First(v).uptime >= Grace /\ ~Bound
  BY <1>1 DEF UptimeCheck
<1> QED BY <1>1, <1>2 DEF Bound

\* A check of port-connect that fails has waited for the grace, and was truly refused.
LEMMA PortConnectFails ==
  ASSUME TypeOK, NEW v \in Versions, "port-connect" \in policy.checks,
         PortConnectCheck(v, First(v).connect) = "fail"
  PROVE  now >= Grace /\ version.serves # "clients"
<1>1. /\ policy.ports = "tcp" /\ ~Accepts(v)
      /\ now - First(v).connect >= Grace /\ RefusesTruthfully(v)
  BY DEF PortConnectCheck
<1>2. First(v).connect \in Nat /\ now \in Nat /\ Grace \in Nat
  BY <1>1, FirstType, EvaluationTypes DEF Unseen
<1>3. now >= Grace
  BY <1>1, <1>2
<1>4. version.serves # "clients"
  BY <1>1 DEF RefusesTruthfully
<1> QED BY <1>3, <1>4

(***************************************************************************)
(* Only something actively wrong rolls back: the version was down, came    *)
(* back, or Docker said unhealthy, or it could not be read; or the grace   *)
(* has passed and it does not serve where its clients look.  It takes that *)
(* uptime is not asked of a unit that may still be activating, as the gate *)
(* a restarted daemon resumes may ask it: see the README, 7 (d).           *)
(***************************************************************************)
THEOREM AlwaysRollsBackOnEvidence ==
  ASSUME \A p \in Settings : p.resumed => "uptime" \notin p.checks
  PROVE  Spec => RollsBackOnEvidence
<1>1. ASSUME TypeOK, ArmsInv, EvidenceInv, [Next]_vars, Judged, Verdict = "unhealthy"
      PROVE  \/ been \cap {"down", "restarted", "unhealthy"} # {}
             \/ spent'.faults > spent.faults /\ poll.step = "inspect" /\ ~poll.last
             \/ now >= Grace /\ version.serves # "clients"
  <2>1. CASE JudgesUnread("unhealthy")
    BY <2>1 DEF JudgesUnread
  <2>2. CASE Settles("unhealthy")
    <3>1. PICK health \in {seen.version.health, watch.event}, known \in BOOLEAN,
               timedOut \in BOOLEAN :
            "unhealthy" = Combine(Results(seen.version, health, known), timedOut)
      BY <2>2 DEF Settles
    <3>2. PICK check \in policy.checks : Result(check, seen.version, health, known) = "fail"
      BY <3>1, Combined
    <3>3. HasBeen(seen.version) /\ seen.version \in Versions /\ check \in Checks
      BY <1>1, <2>2, <3>2, PolicyType, EvaluationTypes DEF Settles, EvidenceInv
    <3>4. CASE check = "docker"
      <4>1. DockerCheck(health) = "fail"
        BY <3>2, <3>4 DEF Result
      <4>2. health \in {"none", "starting", "healthy", "unhealthy"}
        BY <1>1, <3>3, ArmTypes DEF Versions, WatchType, Verdicts
      <4>3. health = "unhealthy"
        BY <4>1, <4>2 DEF DockerCheck
      <4> QED BY <1>1, <3>3, <4>3 DEF EvidenceInv, HasBeen
    <3>5. CASE check = "systemd"
      <4>1. SystemdCheck(seen.version) = "fail"
        BY <3>2, <3>5 DEF Result
      <4>2. seen.version.restarted \/ seen.version.state = "down"
        BY <3>3, <4>1 DEF SystemdCheck, Versions
      <4> QED BY <3>3, <4>2 DEF HasBeen
    <3>6. CASE check = "uptime"
      <4>1. UptimeCheck(seen.version, First(seen.version).uptime, known) = "fail"
        BY <3>2, <3>6 DEF Result
      <4>2. ~Running(seen.version) \/ (now >= Grace /\ version.serves = "nowhere")
        BY <1>1, <3>3, <3>6, <4>1, UptimeFails
      <4>3. "activating" \notin been
        BY <1>1, <3>2, <3>6 DEF TypeOK, EvidenceInv
      <4> QED BY <3>3, <4>2, <4>3 DEF Running, HasBeen, Versions
    <3>7. CASE check = "port-bound"
      BY <3>2, <3>7 DEF Result, PortBoundCheck
    <3>8. CASE check = "port-connect"
      <4>1. PortConnectCheck(seen.version, First(seen.version).connect) = "fail"
        BY <3>2, <3>8 DEF Result
      <4> QED BY <1>1, <3>2, <3>3, <3>8, <4>1, PortConnectFails
    <3> QED BY <3>3, <3>4, <3>5, <3>6, <3>7, <3>8 DEF Checks
  <2> QED BY <1>1, <2>1, <2>2, FirstVerdict
<1>2. TypeOK /\ ArmsInv /\ EvidenceInv /\ [Next]_vars
      => [Judged /\ Verdict = "unhealthy"
            => \/ been \cap {"down", "restarted", "unhealthy"} # {}
               \/ spent'.faults > spent.faults /\ poll.step = "inspect" /\ ~poll.last
               \/ now >= Grace /\ version.serves # "clients"]_vars
  BY <1>1
<1> QED BY <1>2, TypeCorrect, ArmsInvariant, EvidenceInvariant, PTL DEF Spec, RollsBackOnEvidence

(***************************************************************************)
(* Before the deadline nothing commits that uptime has not watched for the *)
(* whole grace, an event that says healthy included.                       *)
(***************************************************************************)
THEOREM EarlyCommitAlwaysHasBeenUp == Spec => EarlyCommitHasBeenUp
<1>1. ASSUME TypeOK, ArmsInv, [Next]_vars, Judged, Verdict = "healthy",
             "uptime" \in policy.checks, now < policy.timeout
      PROVE  /\ firstSeen'.uptime # Unseen /\ now - firstSeen'.uptime >= Grace
             /\ Running(seen.version)
  <2>1. now \in Nat /\ policy.timeout \in Nat
    BY <1>1, PolicyType DEF TypeOK
  <2>2. Settles("healthy")
    BY <1>1, <2>1, FirstVerdict DEF JudgesUnread
  <2>3. PICK health \in {seen.version.health, watch.event}, known \in BOOLEAN,
             timedOut \in BOOLEAN :
          /\ "healthy" = Combine(Results(seen.version, health, known), timedOut)
          /\ timedOut => now >= policy.timeout
          /\ firstSeen' = First(seen.version)
    BY <2>2 DEF Settles
  <2>4. ~timedOut
    BY <1>1, <2>1, <2>3
  <2>5. Result("uptime", seen.version, health, known) \notin {"fail", "wait"}
    BY <1>1, <2>3, <2>4, Combined
  <2>6. UptimeCheck(seen.version, First(seen.version).uptime, known) \notin {"fail", "wait"}
    BY <2>5 DEF Result
  <2>7. Running(seen.version)
    BY <2>6 DEF UptimeCheck
  <2>8. First(seen.version).uptime \in Nat /\ Grace \in Nat
    BY <1>1, <2>7, FirstType, EvaluationTypes DEF Unseen
  <2>9. now - First(seen.version).uptime >= Grace
    BY <2>1, <2>6, <2>7, <2>8 DEF UptimeCheck
  <2> QED BY <2>3, <2>7, <2>8, <2>9 DEF Unseen
<1>2. TypeOK /\ ArmsInv /\ [Next]_vars
      => [Judged /\ Verdict = "healthy" /\ "uptime" \in policy.checks /\ now < policy.timeout
            => /\ firstSeen'.uptime # Unseen /\ now - firstSeen'.uptime >= Grace
               /\ Running(seen.version)]_vars
  BY <1>1
<1> QED BY <1>2, TypeCorrect, ArmsInvariant, PTL DEF Spec, EarlyCommitHasBeenUp

-----------------------------------------------------------------------------
(* ClockInv: when the checks that count began to.                          *)

LEMMA ClockInit == Init => ClockInv
<1> SUFFICES ASSUME Init PROVE ClockInv
  OBVIOUS
<1>1. /\ poll = [step |-> "top", last |-> FALSE, wake |-> 0] /\ now = 0 /\ holder = Nobody
      /\ firstSeen = [uptime |-> Unseen, connect |-> Unseen]
  BY DEF Init
<1> QED BY <1>1 DEF ClockInv, Clock, Clocked, NotStarted

\* Verdicts stay sent, and what was spent stays spent.
LEMMA NothingIsTakenBack ==
  ASSUME TypeOK, [Next]_vars
  PROVE  /\ sent' = <<>> => sent = <<>>
         /\ spent'.faults = 0 => spent.faults = 0
         /\ \A c \in Clocked : Counts(c)' => Counts(c)
<1>1. CASE PollSteps \/ WatchSteps
  <2>1. UNCHANGED outside
    BY <1>1 DEF PollSteps, PollLooks, PollInspects, PollCannotInspect, PollSleeps, PollWakes,
                PollSettles, WatchSteps, WatchOpens, WatchReads, WatchInspects,
                WatchCannotInspect, WatchGoesOn, WatchDrops, WatchSettles
  <2>2. sent' = sent \/ \E verdict \in Verdicts : Send(verdict)
    BY <1>1 DEF PollSteps, PollLooks, PollInspects, PollCannotInspect, PollSleeps, PollWakes,
                PollSettles, WatchSteps, WatchOpens, WatchReads, WatchInspects,
                WatchCannotInspect, WatchGoesOn, WatchDrops, WatchSettles, Verdicts
  <2>3. spent' = spent \/ Fault
    BY <1>1 DEF PollSteps, PollLooks, PollInspects, PollCannotInspect, PollSleeps, PollWakes,
                PollSettles, WatchSteps, WatchOpens, WatchReads, WatchInspects,
                WatchCannotInspect, WatchGoesOn, WatchDrops, WatchSettles, Inspected,
                InspectFails, Checked, NoFault
  <2>4. sent' = <<>> => sent = <<>>
    BY <2>2, SendType
  <2>5. spent'.faults = 0 => spent.faults = 0
    BY <2>3, FaultCounts
  <2> QED BY <2>1, <2>4, <2>5 DEF Counts, outside
<1>2. CASE Receives \/ Returns \/ Tick \/ UNCHANGED vars
  BY <1>2 DEF Receives, Returns, Tick, vars, arms, Counts
<1>3. CASE World
  BY <1>3, WorldBecomes DEF Counts
<1> QED BY <1>1, <1>2, <1>3 DEF Next, Gate

(***************************************************************************)
(* An evaluation that knows the sockets and leaves the gate undecided has  *)
(* started the clocks that count, if no other did.                         *)
(***************************************************************************)
LEMMA UndecidedStartsTheClock ==
  ASSUME TypeOK, EvidenceInv, NEW c \in Clocked, Counts(c), holder # Nobody,
         NEW health, NEW known, NEW timedOut,
         "undecided" = Combine(Results(seen.version, health, known), timedOut)
  PROVE  First(seen.version)[c] = IF firstSeen[c] = Unseen THEN now ELSE firstSeen[c]
<1>1. CASE c = "uptime"
  <2>1. "uptime" \in policy.checks
    BY <1>1 DEF Counts
  <2>2. Result("uptime", seen.version, health, known) # "fail"
    BY <2>1, Combined
  <2>3. Running(seen.version)
    BY <2>2 DEF Result, UptimeCheck
  <2> QED BY <1>1, <2>1, <2>3, FirstType
<1>2. CASE c = "connect"
  <2>1. policy.kind = "docker" /\ ~policy.proxied /\ "clients" \notin been
    BY <1>2 DEF Counts
  <2>2. version.serves # "clients"
    BY <2>1 DEF EvidenceInv, HasBeen
  <2>3. ~Accepts(seen.version)
    BY <2>1, <2>2 DEF Accepts
  <2> QED BY <1>2, <2>3, FirstType DEF Counts
<1> QED BY <1>1, <1>2 DEF Clocked

\* Where nothing the clock is set against changes, it is as it was.
LEMMA ClockFrame ==
  ASSUME NEW c, Clock(c), UNCHANGED <<now, poll, holder, seen, firstSeen>>
  PROVE  Clock(c)'
BY DEF Clock, NotStarted, Started

\* What the times are.
LEMMA TimeTypes ==
  ASSUME TypeOK, NEW c \in Clocked
  PROVE  /\ now \in Nat /\ Poll \in Nat /\ Slow \in Nat /\ Poll > 0
         /\ seen.at \in Nat /\ poll.wake \in Nat /\ policy.timeout \in Nat /\ policy.timeout > 0
         /\ firstSeen[c] # Unseen => firstSeen[c] \in Nat
         /\ poll \in PollType
<1>1. poll \in PollType
  BY ArmTypes
<1>2. seen.at \in Nat /\ poll.wake \in Nat
  BY <1>1 DEF TypeOK, PollType
<1>3. firstSeen[c] # Unseen => firstSeen[c] \in Nat
  BY DEF TypeOK, Clocked
<1> QED BY <1>1, <1>2, <1>3, PolicyType, TimesAssumption DEF TypeOK

LEMMA ClockPoll ==
  ASSUME TypeOK, ArmsInv, EvidenceInv, NEW c \in Clocked, Counts(c), Clock(c),
         sent = <<>>, sent' = <<>>, spent.faults = 0, spent'.faults = 0, PollSteps
  PROVE  Clock(c)'
<1> USE TimeTypes
<1>1. ~cancelled
  BY DEF ArmsInv
<1>2. CASE PollLooks
  <2>1. /\ poll.step = "top" /\ UNCHANGED <<now, holder, seen, firstSeen>>
        /\ poll'.step = "inspect" /\ (poll'.last => now >= policy.timeout)
    BY <1>1, <1>2 DEF PollLooks, PollType, outside
  <2>2. CASE firstSeen[c] = Unseen
    <3>1. now = 0 /\ (IF holder = Nobody THEN now = 0 ELSE seen.at = 0)
      BY <2>1, <2>2 DEF Clock, NotStarted
    <3>2. ~poll'.last
      BY <2>1, <3>1
    <3> QED BY <2>1, <2>2, <3>1, <3>2 DEF Clock, NotStarted
  <2>3. CASE firstSeen[c] # Unseen
    <3>1. /\ firstSeen[c] <= Slow /\ firstSeen[c] <= now
          /\ now = 0 \/ now >= firstSeen[c] + Poll
      BY <2>1, <2>3 DEF Clock, Started
    <3>2. poll'.last => now >= firstSeen[c] + Poll
      BY <2>1, <3>1
    <3> QED BY <2>1, <2>3, <3>1, <3>2 DEF Clock, Started
  <2> QED BY <2>2, <2>3
<1>3. CASE PollInspects
  <2>1. /\ poll.step = "inspect" /\ UNCHANGED <<now, firstSeen>> /\ holder = Nobody
        /\ poll'.step = "checks" /\ poll'.last = poll.last
        /\ holder' # Nobody /\ seen'.at = now
    BY <1>3 DEF PollInspects, Inspected, PollType, outside, Nobody
  <2> QED BY <2>1 DEF Clock, NotStarted, Started
<1>4. CASE PollCannotInspect
  BY <1>1, <1>4, FaultCounts DEF PollCannotInspect, InspectFails
<1>5. CASE PollSleeps
  <2>1. Checked("poll", seen.version.health, poll.last, "undecided") /\ now' = now
    BY <1>5 DEF PollSleeps, outside
  <2>2. PICK known \in BOOLEAN :
          "undecided" = Combine(Results(seen.version, seen.version.health, known), poll.last)
    BY <2>1, CheckedType
  <2>3. ~poll.last /\ holder # Nobody /\ firstSeen' = First(seen.version)
    BY <2>1, <2>2, Combined, CheckedType DEF Nobody
  <2>4. firstSeen'[c] = IF firstSeen[c] = Unseen THEN now ELSE firstSeen[c]
    BY <2>2, <2>3, UndecidedStartsTheClock
  <2>5. poll'.step = "sleep" /\ poll'.last = poll.last /\ poll'.wake = now + Poll
    BY <1>5 DEF PollSleeps, PollType
  <2>6. firstSeen'[c] # Unseen /\ firstSeen'[c] <= Slow /\ firstSeen'[c] <= now
    BY <2>3, <2>4 DEF Clock, NotStarted, Started, ArmsInv, Unseen
  <2>7. firstSeen'[c] \in Nat
    BY <2>4, <2>6
  <2>8. poll'.wake >= firstSeen'[c] + Poll
    BY <2>5, <2>6, <2>7
  <2> QED BY <2>1, <2>3, <2>5, <2>6, <2>8 DEF Clock, Started
<1>6. CASE PollWakes
  <2>1. /\ poll.step = "sleep" /\ UNCHANGED <<now, holder, seen, firstSeen>>
        /\ now >= poll.wake /\ poll'.step = "top" /\ poll'.last = poll.last
    BY <1>1, <1>6 DEF PollWakes, PollType, outside
  <2>2. firstSeen[c] # Unseen /\ Started(firstSeen[c])
    BY <2>1 DEF Clock, NotStarted
  <2>3. now >= firstSeen[c] + Poll
    BY <2>1, <2>2 DEF Started
  <2> QED BY <2>1, <2>2, <2>3 DEF Clock, Started
<1>7. ASSUME NEW verdict \in Verdicts, PollSettles(verdict) PROVE FALSE
  BY <1>7, SendType DEF PollSettles
<1> QED BY <1>2, <1>3, <1>4, <1>5, <1>6, <1>7 DEF PollSteps, Verdicts

LEMMA ClockWatch ==
  ASSUME TypeOK, ArmsInv, EvidenceInv, NEW c \in Clocked, Counts(c), Clock(c),
         sent = <<>>, sent' = <<>>, spent.faults = 0, spent'.faults = 0, WatchSteps
  PROVE  Clock(c)'
<1> USE TimeTypes
<1>1. ~cancelled
  BY DEF ArmsInv
<1>2. CASE WatchOpens \/ WatchReads
  BY <1>2, ClockFrame DEF WatchOpens, WatchReads, outside
<1>3. CASE WatchInspects
  <2>1. UNCHANGED <<now, poll, firstSeen>> /\ holder = Nobody /\ holder' # Nobody /\ seen'.at = now
    BY <1>3 DEF WatchInspects, Inspected, outside, Nobody
  <2> QED BY <2>1 DEF Clock, NotStarted, Started
<1>4. CASE WatchCannotInspect \/ WatchDrops
  BY <1>1, <1>4, FaultCounts DEF WatchCannotInspect, InspectFails, WatchDrops
<1>5. CASE WatchGoesOn
  <2>1. Checked("watch", watch.event, FALSE, "undecided") /\ UNCHANGED <<now, poll>>
    BY <1>5 DEF WatchGoesOn, outside
  <2>2. PICK known \in BOOLEAN :
          "undecided" = Combine(Results(seen.version, watch.event, known), FALSE)
    BY <2>1, CheckedType
  <2>3. holder = "watch" /\ holder # Nobody /\ firstSeen' = First(seen.version)
    BY <2>1 DEF Checked, Nobody
  <2>4. firstSeen'[c] = IF firstSeen[c] = Unseen THEN now ELSE firstSeen[c]
    BY <2>2, <2>3, UndecidedStartsTheClock
  <2>5. CASE firstSeen[c] = Unseen
    <3>1. firstSeen'[c] = now /\ now <= Slow /\ NotStarted
      BY <2>3, <2>4, <2>5 DEF Clock, NotStarted, ArmsInv
    <3>2. now # Unseen
      BY DEF Unseen
    <3> QED BY <2>1, <3>1, <3>2 DEF Clock, NotStarted, Started
  <2>6. CASE firstSeen[c] # Unseen
    BY <2>1, <2>4, <2>6 DEF Clock, Started
  <2> QED BY <2>5, <2>6
<1>6. ASSUME NEW verdict \in Verdicts, WatchSettles(verdict) PROVE FALSE
  BY <1>6, SendType DEF WatchSettles
<1> QED BY <1>2, <1>3, <1>4, <1>5, <1>6 DEF WatchSteps, Verdicts

LEMMA ClockStep ==
  TypeOK /\ ArmsInv /\ EvidenceInv /\ ClockInv /\ [Next]_vars => ClockInv'
<1> SUFFICES ASSUME TypeOK, ArmsInv, EvidenceInv, ClockInv, [Next]_vars,
                    NEW c \in Clocked, Counts(c)', sent' = <<>>, spent'.faults = 0
             PROVE  Clock(c)'
  BY DEF ClockInv
<1>1. Counts(c) /\ sent = <<>> /\ spent.faults = 0
  BY NothingIsTakenBack
<1>2. Clock(c)
  BY <1>1 DEF ClockInv
<1>3. CASE PollSteps \/ WatchSteps
  BY <1>1, <1>2, <1>3, ClockPoll, ClockWatch
<1>4. CASE Receives \/ Returns
  BY <1>1, <1>4 DEF Receives, Returns, ArmsInv
<1>5. CASE Tick
  <2>1. now' = now + 1 /\ UNCHANGED <<poll, holder, seen, firstSeen>> /\ ~Due
    BY <1>5 DEF Tick, arms
  <2>2. poll.step # "top" /\ (poll.step = "inspect" => holder # Nobody)
    BY <2>1 DEF Due
  <2>3. now \in Nat /\ Poll \in Nat /\ (firstSeen[c] # Unseen => firstSeen[c] \in Nat)
    BY TimeTypes
  <2>4. CASE firstSeen[c] = Unseen
    <3>1. poll.step \in {"inspect", "checks"} /\ ~poll.last /\ holder # Nobody /\ seen.at = 0
      BY <1>2, <2>2, <2>4 DEF Clock, NotStarted, ArmsInv, Nobody
    <3> QED BY <2>1, <2>4, <3>1 DEF Clock, NotStarted
  <2>5. CASE firstSeen[c] # Unseen
    BY <1>2, <2>1, <2>2, <2>3, <2>5 DEF Clock, Started
  <2> QED BY <2>4, <2>5
<1>6. CASE World
  BY <1>2, <1>6, WorldBecomes, ClockFrame
<1>7. CASE UNCHANGED vars
  BY <1>2, <1>7, ClockFrame DEF vars, arms
<1> QED BY <1>3, <1>4, <1>5, <1>6, <1>7 DEF Next, Gate

\* ClockInv holds throughout.
THEOREM ClockInvariant == Spec => []ClockInv
<1> HIDE DEF ClockInv
<1> QED BY ClockInit, ClockStep, TypeCorrect, ArmsInvariant, EvidenceInvariant, PTL DEF Spec

(***************************************************************************)
(* At the last look a clock that counts has run for the grace: it started  *)
(* with the first evaluation, and the poll has slept or the deadline has   *)
(* passed since.                                                           *)
(***************************************************************************)
LEMMA TheLastLookIsLate ==
  ASSUME TypeOK, ArmsInv, ClockInv, TimesFit, NEW c \in Clocked, Counts(c),
         sent = <<>>, spent.faults = 0, poll.last
  PROVE  firstSeen[c] \in Nat /\ now - firstSeen[c] >= Grace
<1>1. Clock(c)
  BY DEF ClockInv
<1>2. firstSeen[c] # Unseen /\ Started(firstSeen[c])
  BY <1>1 DEF Clock, NotStarted
<1>3. firstSeen[c] \in Nat /\ Slow \in Nat /\ Poll \in Nat /\ now \in Nat /\ policy.timeout \in Nat
  BY <1>2, TimeTypes
<1>4. firstSeen[c] <= Slow /\ now >= firstSeen[c] + Poll /\ now >= policy.timeout
  BY <1>2 DEF Started, ArmsInv
<1>5. Grace <= Poll \/ Grace + Slow <= policy.timeout
  BY DEF TimesFit, Grace, TypeOK
<1>6. Grace \in Nat
  BY EvaluationTypes
<1> QED BY <1>3, <1>4, <1>5, <1>6

(***************************************************************************)
(* A commit that no fault blinded is an evaluation's, whose checks that    *)
(* count did not fail, and waited only at the last look - when they had    *)
(* run for the grace.                                                      *)
(***************************************************************************)
LEMMA CommitHasWaited ==
  ASSUME TypeOK, ArmsInv, ClockInv, TimesFit, [Next]_vars,
         Judged, Verdict = "healthy", spent'.faults = 0
  PROVE  /\ holder # Nobody
         /\ \E health \in {seen.version.health, watch.event} :
              \A check \in policy.checks :
                 /\ Result(check, seen.version, health, TRUE) # "fail"
                 /\ \/ Result(check, seen.version, health, TRUE) # "wait"
                    \/ \A c \in Clocked : Counts(c) =>
                         firstSeen[c] \in Nat /\ now - firstSeen[c] >= Grace
<1>1. Settles("healthy")
  BY FirstVerdict DEF JudgesUnread
<1>2. PICK health \in {seen.version.health, watch.event}, known \in BOOLEAN,
           timedOut \in BOOLEAN :
        /\ "healthy" = Combine(Results(seen.version, health, TRUE), timedOut)
        /\ timedOut => poll.last
        /\ holder # Nobody
  BY <1>1 DEF Settles
<1>3. \A check \in policy.checks : Result(check, seen.version, health, TRUE) # "fail"
  BY <1>2, Combined
<1>4. ~timedOut => \A check \in policy.checks : Result(check, seen.version, health, TRUE) # "wait"
  BY <1>2, Combined
<1>5. sent = <<>> /\ spent.faults = 0
  BY NothingIsTakenBack DEF Judged
<1>6. timedOut => \A c \in Clocked : Counts(c) =>
                    firstSeen[c] \in Nat /\ now - firstSeen[c] >= Grace
  BY <1>2, <1>5, TheLastLookIsLate
<1> QED BY <1>2, <1>3, <1>4, <1>6

(***************************************************************************)
(* A version that is up and never binds its port is not committed, if its  *)
(* sockets can be read: whatever the policy, the polls and the delays of   *)
(* an evaluation, once the grace fits before the deadline.                 *)
(***************************************************************************)
THEOREM NeverServedIsNeverCommitted ==
  ASSUME TimesFit
  PROVE  Spec => NeverServedNeverCommitted
<1>1. ASSUME TypeOK, ArmsInv, EvidenceInv, ClockInv, [Next]_vars, Judged, Verdict = "healthy"
      PROVE  \/ "uptime" \notin policy.checks \/ policy.ports = "none"
             \/ been \cap {"loopback", "clients"} # {}
             \/ spent'.faults > 0
  <2> SUFFICES ASSUME "uptime" \in policy.checks, policy.ports # "none",
                      been \cap {"loopback", "clients"} = {}, spent'.faults = 0
               PROVE  FALSE
    <3>1. spent'.faults \in Nat
      BY <1>1, TypeStep DEF TypeOK
    <3> QED BY <3>1
  <2>1. ~Bound
    BY <1>1 DEF EvidenceInv, HasBeen, Bound, TypeOK, Versions
  <2> DEFINE v == seen.version
  <2>2. PICK health \in {seen.version.health, watch.event} :
          /\ Result("uptime", v, health, TRUE) # "fail"
          /\ \/ Result("uptime", v, health, TRUE) # "wait"
             \/ Counts("uptime") => firstSeen.uptime \in Nat /\ now - firstSeen.uptime >= Grace
    BY <1>1, CommitHasWaited DEF Clocked
  <2> HIDE DEF v
  <2>3. UptimeCheck(v, First(v).uptime, TRUE) = Result("uptime", v, health, TRUE)
    BY DEF Result
  <2>4. Running(v)
    BY <2>2, <2>3 DEF UptimeCheck
  <2>5. First(v).uptime \in Nat /\ now \in Nat /\ Grace \in Nat
    BY <1>1, <2>4, FirstType, EvaluationTypes DEF Unseen
  <2>6. ~(now - First(v).uptime >= Grace)
    <3>1. SUFFICES ASSUME now - First(v).uptime >= Grace PROVE FALSE
      OBVIOUS
    <3>2. ~(now - First(v).uptime < Grace)
      BY <2>5, <3>1
    <3>3. UptimeCheck(v, First(v).uptime, TRUE) = "fail"
      BY <2>1, <2>4, <3>1, <3>2 DEF UptimeCheck
    <3> QED BY <2>2, <2>3, <3>3
  <2>7. UptimeCheck(v, First(v).uptime, TRUE) = "wait"
    <3>1. now - First(v).uptime < Grace
      BY <2>5, <2>6
    <3> QED BY <2>4, <2>6, <3>1 DEF UptimeCheck
  <2>8. firstSeen.uptime \in Nat /\ now - firstSeen.uptime >= Grace
    BY <2>2, <2>3, <2>7 DEF Counts
  <2>9. First(v).uptime = firstSeen.uptime
    BY <1>1, <2>8, FirstType DEF Unseen
  <2> QED BY <2>6, <2>8, <2>9
<1>2. TypeOK /\ ArmsInv /\ EvidenceInv /\ ClockInv /\ [Next]_vars
      => [Judged /\ Verdict = "healthy"
            => \/ "uptime" \notin policy.checks \/ policy.ports = "none"
               \/ been \cap {"loopback", "clients"} # {}
               \/ spent'.faults > 0]_vars
  BY <1>1
<1> QED BY <1>2, TypeCorrect, ArmsInvariant, EvidenceInvariant, ClockInvariant, PTL
        DEF Spec, NeverServedNeverCommitted

(***************************************************************************)
(* port-connect catches a container that from the start serves only its    *)
(* own loopback, under the same condition.                                 *)
(***************************************************************************)
THEOREM WrongAddressIsAlwaysCaught ==
  ASSUME TimesFit
  PROVE  Spec => WrongAddressIsCaught
<1>1. ASSUME TypeOK, ArmsInv, EvidenceInv, ClockInv, [Next]_vars, Judged, Verdict = "healthy"
      PROVE  ~(/\ policy.kind = "docker" /\ "port-connect" \in policy.checks
               /\ policy.ports = "tcp" /\ policy.routed /\ ~policy.proxied
               /\ been \cap {"clients", "down"} = {} /\ spent'.faults = 0)
  <2> SUFFICES ASSUME policy.kind = "docker", "port-connect" \in policy.checks,
                      policy.ports = "tcp", policy.routed, ~policy.proxied,
                      been \cap {"clients", "down"} = {}, spent'.faults = 0
               PROVE  FALSE
    OBVIOUS
  <2> DEFINE v == seen.version
  <2>1. PICK health \in {seen.version.health, watch.event} :
          /\ Result("port-connect", v, health, TRUE) # "fail"
          /\ \/ Result("port-connect", v, health, TRUE) # "wait"
             \/ Counts("connect") => firstSeen.connect \in Nat /\ now - firstSeen.connect >= Grace
    BY <1>1, CommitHasWaited DEF Clocked
  <2>2. HasBeen(v) /\ v \in Versions /\ HasBeen(version) /\ version \in Versions
    BY <1>1, CommitHasWaited, EvaluationTypes DEF EvidenceInv
  <2>3. "activating" \notin been
    BY <1>1, SettingsAssumption DEF EvidenceInv, TypeOK
  <2> HIDE DEF v
  <2>4. v.state = "up" /\ version.state = "up" /\ version.serves # "clients"
    BY <2>2, <2>3 DEF HasBeen, Versions
  <2>5. ~Accepts(v) /\ RefusesTruthfully(v)
    BY <2>4 DEF Accepts, RefusesTruthfully, Addressed
  <2>6. PortConnectCheck(v, First(v).connect) = Result("port-connect", v, health, TRUE)
    BY DEF Result
  <2>7. ~(now - First(v).connect >= Grace) /\ PortConnectCheck(v, First(v).connect) = "wait"
    BY <2>1, <2>5, <2>6 DEF PortConnectCheck
  <2>8. firstSeen.connect \in Nat /\ now - firstSeen.connect >= Grace
    BY <2>1, <2>6, <2>7 DEF Counts
  <2>9. First(v).connect = firstSeen.connect
    BY <1>1, <2>8, FirstType DEF Unseen
  <2> QED BY <2>7, <2>8, <2>9
<1>2. TypeOK /\ ArmsInv /\ EvidenceInv /\ ClockInv /\ [Next]_vars
      => [Judged /\ Verdict = "healthy"
            => ~(/\ policy.kind = "docker" /\ "port-connect" \in policy.checks
                 /\ policy.ports = "tcp" /\ policy.routed /\ ~policy.proxied
                 /\ been \cap {"clients", "down"} = {} /\ spent'.faults = 0)]_vars
  BY <1>1
<1> QED BY <1>2, TypeCorrect, ArmsInvariant, EvidenceInvariant, ClockInvariant, PTL
        DEF Spec, WrongAddressIsCaught

=============================================================================
