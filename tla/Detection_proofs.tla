--------------------------- MODULE Detection_proofs ---------------------------
(***************************************************************************)
(* Theorems about Detection: for any number of clients, any threshold and  *)
(* any idle streak, nothing is updated that the detector had somebody to   *)
(* see on.                                                                 *)
(***************************************************************************)
EXTENDS Detection, TLAPS

(***************************************************************************)
(* Who was on when a readable table was dumped, and still is, is in what   *)
(* conntrack kept of it; and no more passes were counted idle than had     *)
(* nobody to see.                                                          *)
(***************************************************************************)
LookInv ==
    policy.detector = "conntrack" /\ look.readable
        => \A c \in look.on : InScope(look.table[c]) /\ Active(look.table[c])
StreakInv == streak <= quiet

-----------------------------------------------------------------------------
(* What the variables' values are made of.                                 *)

Readings == [seen : BOOLEAN, counted : Int, age : Nat, moved : Nat, reset : BOOLEAN]
Passes   == [seen : BOOLEAN, moved : Nat, age : Nat, reset : BOOLEAN]
LookType == [step : {"none", "dumped", "listed"}, by : {"pass", "tick"}, readable : BOOLEAN,
             table : [Clients -> Flows], on : SUBSET Clients,
             container : {"same", "restarted", "recreated"}]
SpentType == [arrivals : Nat, restarts : Nat, faults : Nat, ticks : 0..MaxTicks]

\* A reading that was not reset counts what truly moved.
Honest(reading) == reading.counted = reading.moved \/ reading.reset

LEMMA Types ==
  TypeOK <=> /\ policy \in Settings /\ flows \in [Clients -> Flows] /\ bytes \in 0..MaxBytes
             /\ prior \in Readings /\ Honest(prior)
             /\ look \in LookType
             /\ streak \in 0..IdleSamples /\ current \in {"old", "new"} /\ quiet \in 0..IdleSamples
             /\ sincePass \in Passes /\ spent \in SpentType
BY DEF TypeOK, Readings, Passes, LookType, SpentType, Honest

\* The same of a step's end.
LEMMA TypesKept ==
  ASSUME policy' \in Settings, flows' \in [Clients -> Flows], bytes' \in 0..MaxBytes,
         prior' \in Readings, Honest(prior'), look' \in LookType,
         streak' \in 0..IdleSamples, current' \in {"old", "new"}, quiet' \in 0..IdleSamples,
         sincePass' \in Passes, spent' \in SpentType
  PROVE  TypeOK'
BY DEF TypeOK, Readings, Passes, LookType, SpentType, Honest

\* A look keeps LookInv while nobody is on that was not, and its table is the same.
LEMMA LookKept ==
  ASSUME LookInv, policy' = policy, look'.on \subseteq look.on,
         look'.on = {} \/ (look'.table = look.table /\ look'.readable = look.readable)
  PROVE  LookInv'
BY DEF LookInv, InScope, Active

\* The values everything starts from.
LEMMA Nothing ==
  /\ NoFlow \in Flows /\ NoReading \in Readings /\ Honest(NoReading) /\ NoPass \in Passes
  /\ NoLook \in LookType /\ NoLook.on = {}
<1>1. NoFlow \in Flows
  BY DEF NoFlow, Flows, Phases
<1>2. NoReading \in Readings /\ Honest(NoReading) /\ NoPass \in Passes
  BY DEF NoReading, Readings, Honest, NoPass, Passes
<1>3. NoLook \in LookType /\ NoLook.on = {}
  BY <1>1 DEF NoLook, LookType
<1> QED BY <1>1, <1>2, <1>3

\* A streak is counted from nothing to its limit.
LEMMA StreakCounts ==
  ASSUME NEW s \in 0..IdleSamples, NEW idle \in BOOLEAN
  PROVE  /\ NextStreak(s, idle, IdleSamples) \in 0..IdleSamples
         /\ ~idle => NextStreak(s, idle, IdleSamples) = 0
         /\ \A t \in 0..IdleSamples :
              s <= t => NextStreak(s, idle, IdleSamples) <= NextStreak(t, TRUE, IdleSamples)
BY NumbersAssumption DEF NextStreak

\* A fault more, and a restart more, stay within what is spent.
LEMMA FaultType ==
  ASSUME TypeOK, Fault \/ NoFault
  PROVE  spent' \in SpentType
<1>1. spent \in SpentType
  BY Types
<1> QED BY <1>1 DEF Fault, NoFault, SpentType

LEMMA InitTypes == Init => TypeOK /\ LookInv /\ StreakInv
<1> SUFFICES ASSUME Init PROVE TypeOK /\ LookInv /\ StreakInv
  OBVIOUS
<1>1. /\ policy \in Settings /\ flows = [c \in Clients |-> NoFlow] /\ bytes = 0
      /\ prior = NoReading /\ look = NoLook /\ streak = 0 /\ current = "old" /\ quiet = 0
      /\ sincePass = NoPass
  BY DEF Init
<1>2. flows \in [Clients -> Flows]
  BY <1>1, Nothing
<1>3. spent \in SpentType
  BY DetectionBounds DEF Init, SpentType
<1>4. bytes \in 0..MaxBytes /\ streak \in 0..IdleSamples /\ quiet \in 0..IdleSamples
  BY <1>1, DetectionBounds, NumbersAssumption
<1>5. TypeOK
  BY <1>1, <1>2, <1>3, <1>4, Nothing, Types
<1> QED BY <1>1, <1>5, Nothing DEF LookInv, StreakInv

-----------------------------------------------------------------------------
(* The looks.                                                              *)

LEMMA LookBeginsStep ==
  ASSUME TypeOK, StreakInv, NEW by \in {"pass", "tick"}, NEW waited \in Nat,
         by = "tick" => spent.ticks < MaxTicks, LookBegins(by, waited)
  PROVE  TypeOK' /\ LookInv' /\ StreakInv'
<1> USE Types
<1>1. UNCHANGED <<world, streak, current, quiet>>
  BY DEF LookBegins
<1>2. PICK readable \in BOOLEAN :
        /\ spent' = [spent EXCEPT !.faults = IF readable THEN @ ELSE @ + 1,
                                  !.ticks = IF by = "tick" THEN @ + 1 ELSE 0]
        /\ look' = [NoLook EXCEPT !.step = "dumped", !.by = by, !.readable = readable,
                       !.table = IF readable THEN [c \in Clients |-> Reduce(flows[c])] ELSE @,
                       !.on = {c \in Clients : flows[c].phase = "on" /\ InScope(flows[c])}]
  BY DEF LookBegins
<1>3. spent' \in SpentType
  <2>1. spent.faults + 1 \in Nat /\ spent.ticks \in 0..MaxTicks
    BY DEF SpentType
  <2>2. (IF by = "tick" THEN spent.ticks + 1 ELSE 0) \in 0..MaxTicks
    BY <2>1, DetectionBounds
  <2> QED BY <1>2, <2>1, <2>2 DEF SpentType
<1>4. [c \in Clients |-> Reduce(flows[c])] \in [Clients -> Flows]
  BY Nothing DEF Reduce
<1> DEFINE on == {c \in Clients : flows[c].phase = "on" /\ InScope(flows[c])}
<1>5. on \in SUBSET Clients
  OBVIOUS
<1>6. /\ look' \in LookType /\ look'.on = on /\ look'.readable = readable
      /\ readable => look'.table = [c \in Clients |-> Reduce(flows[c])]
  <2> HIDE DEF on
  <2> QED BY <1>2, <1>4, <1>5, Nothing DEF LookType, on
<1>7. prior' \in Readings /\ Honest(prior')
  <2>1. prior.seen => prior.age + waited \in Nat
    BY DEF Readings
  <2> QED BY <2>1 DEF LookBegins, Readings, Honest
<1>8. sincePass' \in Passes
  <2>1. sincePass.seen => sincePass.age + waited \in Nat
    BY DEF Passes
  <2> QED BY <2>1 DEF LookBegins, Passes
<1>9. TypeOK'
  <2> HIDE DEF on
  <2> QED BY <1>1, <1>3, <1>6, <1>7, <1>8, TypesKept DEF world
<1>10. LookInv'
  <2>1. ASSUME policy.detector = "conntrack", readable, NEW c \in on
        PROVE  InScope(look'.table[c]) /\ Active(look'.table[c])
    <3>1. flows[c].phase = "on" /\ InScope(flows[c]) /\ c \in Clients
      BY <2>1
    <3>2. look'.table[c] = flows[c]
      BY <1>6, <2>1, <3>1 DEF Reduce
    <3> QED BY <3>1, <3>2 DEF Active
  <2>2. policy' = policy
    BY <1>1 DEF world
  <2> HIDE DEF on
  <2> QED BY <1>6, <2>1, <2>2 DEF LookInv, InScope, Active
<1> QED BY <1>1, <1>9, <1>10 DEF StreakInv

\* Of a look that samples: what is kept of a reading.
LEMMA ReadingTypes ==
  ASSUME TypeOK, Reading
  PROVE  prior' \in Readings /\ Honest(prior') /\ sincePass' \in Passes
<1>1. [NoReading EXCEPT !.seen = TRUE] \in Readings /\ Honest([NoReading EXCEPT !.seen = TRUE])
  <2>1. NoReading \in Readings /\ NoReading.counted = NoReading.moved
    BY Nothing DEF NoReading
  <2> QED BY <2>1 DEF Readings, Honest
<1>2. [NoPass EXCEPT !.seen = TRUE] \in Passes
  BY DEF NoPass, Passes
<1> QED BY <1>1, <1>2, Types DEF Reading

LEMMA SampleTypes ==
  ASSUME TypeOK, NEW busy \in BOOLEAN, Sample(busy)
  PROVE  look' = NoLook /\ look' \in LookType /\ spent' \in SpentType
<1>1. Fault \/ NoFault
  BY DEF Sample, Errs, Reads
<1> QED BY <1>1, FaultType, Nothing DEF Sample

(***************************************************************************)
(* The heart of it: a sample that says nobody is on had nobody to see,     *)
(* whichever detector took it.                                             *)
(***************************************************************************)
LEMMA IdleHadNobodyToSee ==
  ASSUME TypeOK, LookInv, Sample(FALSE)
  PROVE  NobodyToSee
<1>1. Reads /\ ~InUse
  BY DEF Sample
<1>2. policy.detector \in {"conntrack", "tcp", "netio", "none"}
  BY SettingsAssumption DEF TypeOK, Policies
<1>3. CASE policy.detector = "conntrack"
  <2>1. look.readable
    BY <1>1, <1>3 DEF Reads, CannotTell
  <2>2. ~ConntrackInUse(look.table)
    BY <1>1, <1>3 DEF InUse
  <2>3. look.on = {}
    BY <1>3, <2>1, <2>2, Types DEF LookInv, ConntrackInUse, LookType
  <2> QED BY <1>3, <2>1, <2>3 DEF NobodyToSee
<1>4. CASE policy.detector = "tcp"
  BY <1>1, <1>4 DEF InUse, NobodyToSee
<1>5. CASE policy.detector = "netio"
  <2>1. ~NetioInUse(prior)
    BY <1>1, <1>5 DEF InUse
  <2>2. prior \in Readings /\ Honest(prior)
    BY Types
  <2> DEFINE allowed == Threshold * prior.age
  <2>3. allowed \in Nat
    BY <2>2, NumbersAssumption DEF Readings
  <2>4. prior.seen /\ ~(prior.counted > allowed)
    BY <2>1 DEF NetioInUse
  <2>5. prior.reset \/ ~(prior.moved > allowed)
    BY <2>2, <2>4 DEF Honest
  <2>6. prior.reset \/ prior.moved <= allowed
    <3> HIDE DEF allowed
    <3> QED BY <2>2, <2>3, <2>5 DEF Readings
  <2> QED BY <1>5, <2>4, <2>6 DEF NobodyToSee
<1>6. CASE policy.detector = "none"
  BY <1>6 DEF NobodyToSee
<1> QED BY <1>2, <1>3, <1>4, <1>5, <1>6

\* What a pass that samples makes of the streaks, and when it updates.
LEMMA PassSamplesStreaks ==
  ASSUME TypeOK, LookInv, StreakInv, PassSamples
  PROVE  /\ streak' \in 0..IdleSamples /\ quiet' \in 0..IdleSamples /\ streak' <= quiet'
         /\ look' = NoLook /\ look' \in LookType /\ spent' \in SpentType
         /\ \/ current' = "new" /\ streak' >= IdleSamples /\ bytes' = 0
               /\ flows' = [c \in Clients |-> Renewed(flows[c])]
               /\ prior' = NoReading /\ sincePass' = NoPass
            \/ UNCHANGED <<current, bytes, flows>> /\ Reading
         /\ policy' = policy
<1>1. PICK busy \in BOOLEAN :
        /\ Sample(busy)
        /\ streak' = NextStreak(streak, ~busy, IdleSamples)
        /\ quiet' = NextStreak(quiet, NobodyToSee, IdleSamples)
        /\ IF DecideKind(None, current, "new", busy, streak', IdleSamples) = "update"
           THEN /\ current' = "new" /\ bytes' = 0
                /\ flows' = [c \in Clients |-> Renewed(flows[c])]
                /\ prior' = NoReading /\ sincePass' = NoPass
           ELSE UNCHANGED <<current, bytes, flows>> /\ Reading
  BY DEF PassSamples
<1>2. streak \in 0..IdleSamples /\ quiet \in 0..IdleSamples /\ streak <= quiet
  BY Types DEF StreakInv
<1>3. streak' \in 0..IdleSamples /\ quiet' \in 0..IdleSamples
  <2>1. streak' \in 0..IdleSamples
    BY <1>1, <1>2, StreakCounts
  <2>2. quiet' \in 0..IdleSamples
    <3>1. quiet' = NextStreak(quiet, TRUE, IdleSamples) \/ quiet' = NextStreak(quiet, FALSE, IdleSamples)
      BY <1>1 DEF NextStreak
    <3> QED BY <1>2, <3>1, StreakCounts
  <2> QED BY <2>1, <2>2
<1>4. streak' <= quiet'
  <2>1. CASE busy
    <3>1. streak' = 0
      BY <1>1, <1>2, <2>1, StreakCounts
    <3> QED BY <1>3, <3>1
  <2>2. CASE ~busy
    <3>1. NobodyToSee
      BY <1>1, <2>2, IdleHadNobodyToSee
    <3>2. quiet' = NextStreak(quiet, TRUE, IdleSamples)
      BY <1>1, <3>1 DEF NextStreak
    <3>3. streak' = NextStreak(streak, TRUE, IdleSamples)
      BY <1>1, <2>2 DEF NextStreak
    <3> QED BY <1>2, <3>2, <3>3, StreakCounts
  <2> QED BY <2>1, <2>2
<1>5. DecideKind(None, current, "new", busy, streak', IdleSamples) = "update"
        => streak' >= IdleSamples
  BY <1>3, NumbersAssumption DEF DecideKind
<1>6. policy' = policy
  BY DEF PassSamples
<1> QED BY <1>1, <1>3, <1>4, <1>5, <1>6, SampleTypes

\* A flow that is cut off is one still.
LEMMA RenewedType ==
  ASSUME flows \in [Clients -> Flows]
  PROVE  [c \in Clients |-> Renewed(flows[c])] \in [Clients -> Flows]
BY DEF Renewed, Flows, Phases

LEMMA LooksStep ==
  ASSUME TypeOK, LookInv, StreakInv, Looks
  PROVE  TypeOK' /\ LookInv' /\ StreakInv'
<1> USE Types
<1>1. CASE PassBegins \/ TickBegins
  BY <1>1, LookBeginsStep, NumbersAssumption DEF PassBegins, TickBegins
<1>2. CASE Lists
  <2>1. /\ look' \in LookType /\ look'.on = look.on /\ look'.table = look.table
        /\ look'.readable = look.readable
    BY <1>2 DEF Lists, LookType
  <2>2. UNCHANGED <<world, prior, streak, current, quiet, sincePass, spent>>
    BY <1>2 DEF Lists
  <2> QED BY <2>1, <2>2, TypesKept, LookKept DEF StreakInv, world
<1>3. CASE LeftAlone
  <2>1. /\ look' = NoLook /\ spent' \in SpentType
        /\ UNCHANGED <<world, prior, streak, current, quiet, sincePass>>
    BY <1>3, FaultType DEF LeftAlone
  <2> QED BY <2>1, Nothing, TypesKept, LookKept DEF StreakInv, world
<1>4. CASE TickSamples
  <2>1. /\ look' = NoLook /\ spent' \in SpentType
        /\ prior' \in Readings /\ Honest(prior') /\ sincePass' \in Passes
        /\ UNCHANGED <<world, streak, current, quiet>>
    BY <1>4, SampleTypes, ReadingTypes DEF TickSamples
  <2> QED BY <2>1, Nothing, TypesKept, LookKept DEF StreakInv, world
<1>5. CASE PassSamples
  <2>1. flows' \in [Clients -> Flows] /\ bytes' \in 0..MaxBytes /\ current' \in {"old", "new"}
    BY <1>5, PassSamplesStreaks, RenewedType, DetectionBounds
  <2>2. prior' \in Readings /\ Honest(prior') /\ sincePass' \in Passes
    BY <1>5, PassSamplesStreaks, ReadingTypes, Nothing
  <2>3. TypeOK'
    BY <1>5, <2>1, <2>2, PassSamplesStreaks, TypesKept
  <2> QED BY <1>5, <2>3, PassSamplesStreaks, Nothing, LookKept DEF StreakInv
<1> QED BY <1>1, <1>2, <1>3, <1>4, <1>5 DEF Looks

-----------------------------------------------------------------------------
(* Everybody else.                                                         *)

\* Clients come, settle, leave and are forgotten.
LEMMA ClientStep ==
  ASSUME TypeOK, LookInv, StreakInv, NEW c \in Clients,
         ClientArrives(c) \/ ClientSettles(c) \/ ClientSends(c) \/ ClientLeaves(c) \/ FlowExpires(c)
  PROVE  TypeOK' /\ LookInv' /\ StreakInv'
<1> USE Types
<1>1. CASE ClientArrives(c)
  <2>1. PICK protocol \in {"tcp", "udp"}, ours \in BOOLEAN :
          flows' = [flows EXCEPT ![c] = [phase |-> "new", protocol |-> protocol, ours |-> ours]]
    BY <1>1 DEF ClientArrives
  <2>2. flows' \in [Clients -> Flows]
    BY <2>1 DEF Flows, Phases
  <2>3. spent' \in SpentType
    BY <1>1 DEF ClientArrives, SpentType
  <2>4. UNCHANGED <<looked, bytes, prior, look, sincePass>>
    BY <1>1 DEF ClientArrives
  <2> QED BY <2>2, <2>3, <2>4, TypesKept, LookKept DEF StreakInv, looked
<1>2. CASE ClientSettles(c)
  <2>1. flows' \in [Clients -> Flows]
    BY <1>2 DEF ClientSettles, Flows, Phases
  <2>2. UNCHANGED <<looked, bytes, prior, look, sincePass, spent>>
    BY <1>2 DEF ClientSettles
  <2> QED BY <2>1, <2>2, TypesKept, LookKept DEF StreakInv, looked
<1>3. CASE ClientSends(c)
  <2>1. bytes' \in 0..MaxBytes
    BY <1>3, DetectionBounds DEF ClientSends
  <2>2. prior' \in Readings /\ Honest(prior')
    <3>1. prior.moved + 1 \in Nat /\ prior.counted + 1 \in Int
      BY DEF Readings
    <3> QED BY <1>3, <3>1 DEF ClientSends, Readings, Honest
  <2>3. sincePass' \in Passes
    <3>1. sincePass.moved + 1 \in Nat
      BY DEF Passes
    <3> QED BY <1>3, <3>1 DEF ClientSends, Passes
  <2>4. UNCHANGED <<looked, flows, look, spent>>
    BY <1>3 DEF ClientSends
  <2> QED BY <2>1, <2>2, <2>3, <2>4, TypesKept, LookKept DEF StreakInv, looked
<1>4. CASE ClientLeaves(c)
  <2>1. flows' \in [Clients -> Flows]
    BY <1>4 DEF ClientLeaves, Flows, Phases
  <2>2. /\ look' \in LookType /\ look'.on \subseteq look.on /\ look'.table = look.table
        /\ look'.readable = look.readable
    BY <1>4 DEF ClientLeaves, LookType
  <2>3. UNCHANGED <<looked, bytes, prior, sincePass, spent>>
    BY <1>4 DEF ClientLeaves
  <2> QED BY <2>1, <2>2, <2>3, TypesKept, LookKept DEF StreakInv, looked
<1>5. CASE FlowExpires(c)
  <2>1. flows' \in [Clients -> Flows]
    BY <1>5, Nothing DEF FlowExpires
  <2>2. UNCHANGED <<looked, bytes, prior, look, sincePass, spent>>
    BY <1>5 DEF FlowExpires
  <2> QED BY <2>1, <2>2, TypesKept, LookKept DEF StreakInv, looked
<1> QED BY <1>1, <1>2, <1>3, <1>4, <1>5

LEMMA RestartStep ==
  ASSUME TypeOK, LookInv, StreakInv, NEW how \in {"restarted", "recreated"}, ContainerRestarts(how)
  PROVE  TypeOK' /\ LookInv' /\ StreakInv'
<1> USE Types
<1>1. spent' \in SpentType /\ bytes' \in 0..MaxBytes /\ flows' \in [Clients -> Flows]
  BY RenewedType, DetectionBounds DEF ContainerRestarts, SpentType
<1>2. prior' \in Readings /\ Honest(prior')
  <2>1. prior.counted - bytes \in Int
    BY DEF Readings
  <2>2. [prior EXCEPT !.counted = @ - bytes, !.reset = TRUE] \in Readings
    BY <2>1 DEF Readings
  <2>3. Honest([prior EXCEPT !.counted = @ - bytes, !.reset = TRUE])
    BY DEF Readings, Honest
  <2> QED BY <2>2, <2>3, Nothing DEF ContainerRestarts
<1>3. sincePass' \in Passes
  BY Nothing DEF ContainerRestarts, Passes
<1>4. look' \in LookType /\ look'.on = {}
  BY DEF ContainerRestarts, LookType
<1>5. UNCHANGED looked
  BY DEF ContainerRestarts
<1> QED BY <1>1, <1>2, <1>3, <1>4, <1>5, TypesKept, LookKept DEF StreakInv, looked

LEMMA NextStep ==
  TypeOK /\ LookInv /\ StreakInv /\ [Next]_vars => TypeOK' /\ LookInv' /\ StreakInv'
<1> SUFFICES ASSUME TypeOK, LookInv, StreakInv, [Next]_vars
             PROVE  TypeOK' /\ LookInv' /\ StreakInv'
  OBVIOUS
<1>1. CASE UpdateAppears
  BY <1>1, Types, TypesKept, LookKept DEF UpdateAppears, StreakInv, world
<1>2. CASE UNCHANGED vars
  BY <1>2, Types, TypesKept, LookKept DEF vars, StreakInv
<1> QED BY <1>1, <1>2, LooksStep, ClientStep, RestartStep DEF Next, World

-----------------------------------------------------------------------------
(* The theorems.                                                           *)

THEOREM DebounceInvariant == Spec => [](TypeOK /\ LookInv /\ StreakInv)
<1> HIDE DEF TypeOK, LookInv, StreakInv
<1> QED BY InitTypes, NextStep, PTL DEF Spec

\* Every variable keeps its type, and a reading not reset counts what moved.
THEOREM TypeCorrect == Spec => []TypeOK
<1> HIDE DEF TypeOK, LookInv, StreakInv
<1> QED BY DebounceInvariant, PTL

(***************************************************************************)
(* An update is applied only after IdleSamples passes in a row at which    *)
(* there was nobody for the detector to see, whatever the ticks, failed    *)
(* reads and restarts in between.                                          *)
(***************************************************************************)
THEOREM AlwaysUpdatesAfterTheDebounce == Spec => UpdatesAfterTheDebounce
<1>1. ASSUME TypeOK, LookInv, StreakInv, [Next]_vars, Updates
      PROVE  quiet' >= IdleSamples
  <2>1. current' # current
    BY <1>1 DEF Updates
  <2>2. PassSamples
    BY <1>1, <2>1
       DEF Next, Looks, World, PassBegins, TickBegins, LookBegins, Lists, LeftAlone, TickSamples,
           ClientArrives, ClientSettles, ClientSends, ClientLeaves, FlowExpires, UpdateAppears,
           ContainerRestarts, looked, vars, Updates
  <2>3. streak' >= IdleSamples /\ streak' <= quiet' /\ streak' \in 0..IdleSamples
        /\ quiet' \in 0..IdleSamples
    BY <1>1, <2>1, <2>2, PassSamplesStreaks
  <2> QED BY <2>3, NumbersAssumption
<1>2. TypeOK /\ LookInv /\ StreakInv /\ [Next]_vars => [Updates => quiet' >= IdleSamples]_vars
  BY <1>1
<1> HIDE DEF TypeOK, LookInv, StreakInv
<1> QED BY <1>2, DebounceInvariant, PTL DEF Spec, UpdatesAfterTheDebounce

=============================================================================
