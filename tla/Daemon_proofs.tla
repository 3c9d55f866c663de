---------------------------- MODULE Daemon_proofs ----------------------------
(***************************************************************************)
(* Theorems about Daemon: the safety properties of the passes, the tick    *)
(* and the last look before a reboot, for any sources with any workloads,  *)
(* and every value of the bounds.                                          *)
(***************************************************************************)
EXTENDS DaemonInvariant, TLAPS

-----------------------------------------------------------------------------
(* The operators the actions are built from.                               *)

\* The sources are numbered in the order they run, and have workloads each.
LEMMA SourceNumbers ==
  /\ Len(SourceWorkloads) \in Nat
  /\ Sources = 1..Len(SourceWorkloads)
  /\ \A s \in Sources : SourceWorkloads[s] \subseteq Workloads
  /\ \A w \in Workloads : \E s \in Sources : w \in SourceWorkloads[s]
<1>1. SourceWorkloads \in Seq(SUBSET Workloads)
  BY SourcesAssumption
<1>2. Len(SourceWorkloads) \in Nat /\ DOMAIN SourceWorkloads = 1..Len(SourceWorkloads)
  BY <1>1
<1> QED BY <1>2 DEF Sources, Workloads

\* A streak is counted up to the debounce and no further.
LEMMA StreakType ==
  ASSUME NEW s \in 0..IdleSamples, NEW idle \in BOOLEAN
  PROVE  /\ NextStreak(s, idle, IdleSamples) \in 0..IdleSamples
         /\ 0 \in 0..IdleSamples
BY DaemonBounds DEF NextStreak

Spendings == [faults : Nat, changes : Nat, updates : Nat]

\* Whether a call fails, the bounds stay well typed.
LEMMA FaultType ==
  ASSUME TypeOK, NEW call, Fault(call) \/ NoFault
  PROVE  spent' \in Spendings
BY DEF TypeOK, Fault, NoFault, Spendings

\* A conntrack dump is one, whether the table could be read or not.
LEMMA DumpType ==
  ASSUME TypeOK, TakeDump
  PROVE  dump' \in Dumps /\ spent' \in Spendings /\ (dump'.known => dump'.inUse = playing)
<1>1. NoDump \in Dumps /\ ~NoDump.known
  BY DEF NoDump, Dumps
<1>2. spent' \in Spendings
  BY FaultType DEF TakeDump
<1>3. CASE dump' = [known |-> TRUE, inUse |-> playing]
  BY <1>2, <1>3 DEF TypeOK, Dumps
<1>4. CASE dump' = NoDump
  BY <1>1, <1>2, <1>4
<1> QED BY <1>3, <1>4 DEF TakeDump

(***************************************************************************)
(* What publish leaves: a status file with what is held in it, or a write  *)
(* that failed; and systemd told anything else but that it is stopping.    *)
(***************************************************************************)
LEMMA Published ==
  ASSUME TypeOK, Publish
  PROVE  /\ status' \in Statuses /\ unwritten' \in BOOLEAN /\ spent' \in Spendings
         /\ lastNotified' \in {"working", "swapping", "stopping"}
         /\ ~unwritten' => status'.swapping = held
         /\ stopping' = stopping /\ uncleared' = uncleared
         /\ stopping /\ lastNotified = "stopping" => lastNotified' = "stopping"
<1>1. spent' \in Spendings
  BY FaultType DEF Publish
<1>2. /\ lastNotified' \in {"working", "swapping", "stopping"}
      /\ stopping' = stopping /\ uncleared' = uncleared
      /\ stopping /\ lastNotified = "stopping" => lastNotified' = "stopping"
  BY DEF Publish, TypeOK
<1>3. CASE status' = [written |-> TRUE, swapping |-> held] /\ unwritten' = FALSE
  <2>1. status' \in Statuses /\ status'.swapping = held
    BY <1>3 DEF TypeOK, Statuses
  <2> QED BY <1>1, <1>2, <1>3, <2>1
<1>4. CASE status' = status /\ unwritten' = TRUE
  BY <1>1, <1>2, <1>4 DEF TypeOK
<1> QED BY <1>3, <1>4 DEF Publish

\* What clearing leaves: no status file, or the one there was.
LEMMA Cleared ==
  ASSUME TypeOK, Clear
  PROVE  /\ status' \in Statuses /\ uncleared' \in BOOLEAN /\ spent' \in Spendings
         /\ status'.written => uncleared'
         /\ status.swapping = {} => status'.swapping = {}
<1>1. spent' \in Spendings
  BY FaultType DEF Clear
<1>2. CASE status' = NoStatus /\ uncleared' = FALSE
  BY <1>1, <1>2 DEF NoStatus, Statuses
<1>3. CASE status' = status /\ uncleared' = TRUE
  BY <1>1, <1>3 DEF TypeOK
<1> QED BY <1>2, <1>3 DEF Clear

-----------------------------------------------------------------------------
(* TypeOK, and TurnInv with it: a pass in a source is at one of them.      *)

USE DEF TurnInv, SourceSteps, TurnSteps

LEMMA TypeInit == Init => TypeOK /\ TurnInv
<1>1. Init => dump \in Dumps /\ status \in Statuses
  BY DEF Init, Dumps, NoDump, Statuses, NoStatus
<1>2. Init => streak \in [Workloads -> 0..IdleSamples]
  BY DaemonBounds DEF Init
<1>3. Init => at \in 1..(Len(SourceWorkloads) + 1)
  BY SourceNumbers DEF Init
<1>4. Init => outcome \in [Workloads -> Outcomes]
  BY DEF Init, Outcomes
<1>5. Init => /\ {needed, window, asked} \subseteq BOOLEAN
              /\ {rebooting, stopping, unwritten, uncleared, failed, answered} \subseteq BOOLEAN
  BY DEF Init
<1>6. Init => spent \in [faults : Nat, changes : Nat, updates : Nat]
  BY DEF Init
<1>7. Init => TurnInv
  BY DEF Init
<1> QED BY <1>1, <1>2, <1>3, <1>4, <1>5, <1>6, <1>7 DEF Init, TypeOK, PassSteps

LEMMA TypeOnce ==
  ASSUME TypeOK, TurnInv, PassDue \/ Once \/ SwapEnds
  PROVE  TypeOK' /\ TurnInv'
<1>1. CASE PassDue
  BY <1>1 DEF PassDue, TypeOK, PassSteps, world, shared, memory, told
<1>2. CASE PassBegins
  <2>1. dump' \in Dumps /\ spent' \in Spendings
    BY <1>2, DumpType DEF PassBegins
  <2>2. at' \in 1..(Len(SourceWorkloads) + 1)
    BY <1>2, SourceNumbers DEF PassBegins
  <2> QED BY <1>2, <2>1, <2>2 DEF PassBegins, TypeOK, PassSteps, world, memory, told, Spendings
<1>3. CASE SourceLists
  BY <1>3, SourceNumbers DEF SourceLists, AtSource, TypeOK, PassSteps, world, shared, memory, told
<1>4. CASE SourceFails
  <2>1. at' \in 1..(Len(SourceWorkloads) + 1)
    BY <1>4, SourceNumbers DEF SourceFails, AtSource, TypeOK
  <2>2. spent' \in Spendings
    BY <1>4, FaultType DEF SourceFails
  <2> QED BY <1>4, <2>1, <2>2 DEF SourceFails, AtSource, TypeOK, PassSteps, world, memory, told,
             Spendings
<1>5. ASSUME NEW w \in Workloads, NotSampled(w) PROVE TypeOK' /\ TurnInv'
  <2>1. spent' \in Spendings
    BY <1>5, FaultType DEF NotSampled
  <2>2. outcome' \in [Workloads -> Outcomes] /\ todo' \subseteq Workloads
    BY <1>5 DEF NotSampled, Reports, TypeOK, Outcomes
  <2> QED BY <1>5, <2>1, <2>2 DEF NotSampled, TypeOK, PassSteps, world, shared, memory, told,
             Spendings
<1>6. ASSUME NEW w \in Workloads, LeftAlone(w) PROVE TypeOK' /\ TurnInv'
  <2>1. streak' \in [Workloads -> 0..IdleSamples]
    BY <1>6, StreakType DEF LeftAlone, TypeOK
  <2>2. outcome' \in [Workloads -> Outcomes] /\ todo' \subseteq Workloads
    BY <1>6 DEF LeftAlone, Reports, TypeOK, Outcomes
  <2> QED BY <1>6, <2>1, <2>2 DEF LeftAlone, TypeOK, PassSteps, world, memory, told
<1>7. ASSUME NEW w \in Workloads, Hold(w) PROVE TypeOK' /\ TurnInv'
  <2>1. streak' \in [Workloads -> 0..IdleSamples]
    BY <1>7, StreakType DEF Hold, TypeOK
  <2> QED BY <1>7, <2>1 DEF Hold, TypeOK, PassSteps, world, told
<1>8. CASE PublishHold
  BY <1>8, Published DEF PublishHold, TypeOK, PassSteps, world, shared, memory, Spendings
<1>9. CASE SomeoneArrived
  <2>1. streak' \in [Workloads -> 0..IdleSamples]
    BY <1>9, StreakType DEF SomeoneArrived, TypeOK
  <2>2. outcome' \in [Workloads -> Outcomes] /\ todo' \subseteq Workloads
    BY <1>9 DEF SomeoneArrived, Reports, TypeOK, Outcomes
  <2>3. spent' \in Spendings
    BY <1>9, FaultType DEF SomeoneArrived
  <2> QED BY <1>9, <2>1, <2>2, <2>3
         DEF SomeoneArrived, TypeOK, PassSteps, world, memory, told, Spendings
<1>10. CASE SwapBegins
  BY <1>10 DEF SwapBegins, TypeOK, PassSteps, world, shared, memory, told
<1>11. CASE SwapEnds
  <2>1. outcome' \in [Workloads -> Outcomes] /\ todo' \subseteq Workloads
    BY <1>11 DEF SwapEnds, Reports, TypeOK, Outcomes
  <2>2. spent' \in Spendings /\ pending' \subseteq Workloads
    BY <1>11, FaultType DEF SwapEnds, TypeOK
  <2> QED BY <1>11, <2>1, <2>2 DEF SwapEnds, TypeOK, PassSteps, shared, memory, told, Spendings
<1>12. CASE Record
  <2>1. at' \in 1..(Len(SourceWorkloads) + 1) /\ SourceWorkloads[at] \subseteq Workloads
    BY <1>12, SourceNumbers DEF Record, TypeOK
  <2>2. /\ busy' \subseteq Workloads /\ known' \subseteq Workloads /\ settled' \subseteq known'
      /\ unwaited' \subseteq settled'
    BY <1>12, <2>1 DEF Record, TypeOK, Outcomes
  <2>3. outcome' \in [Workloads -> Outcomes]
    BY <1>12 DEF Record, Outcomes
  <2> QED BY <1>12, <2>1, <2>2, <2>3 DEF Record, TypeOK, PassSteps, world, told
<1>13. CASE LetGo
  BY <1>13 DEF LetGo, TypeOK, PassSteps, world, shared, told
<1>14. CASE PassEnds
  <2>1. at' \in 1..(Len(SourceWorkloads) + 1) /\ dump' \in Dumps
    BY <1>14, SourceNumbers DEF PassEnds, NoDump, Dumps
  <2> QED BY <1>14, <2>1, Published DEF PassEnds, TypeOK, PassSteps, world, memory, Spendings
<1>15. ASSUME NEW w \in Workloads, NobodyToWaitFor(w) PROVE TypeOK' /\ TurnInv'
  <2>1. outcome' \in [Workloads -> Outcomes] /\ todo' \subseteq Workloads
    BY <1>15 DEF NobodyToWaitFor, Reports, TypeOK, Outcomes
  <2> QED BY <1>15, <2>1 DEF NobodyToWaitFor, TypeOK, PassSteps, shared, memory, told
<1> QED BY <1>1, <1>2, <1>3, <1>4, <1>5, <1>6, <1>7, <1>8, <1>9, <1>10, <1>11, <1>12, <1>13, <1>14,
          <1>15 DEF Once, Reconcile

LEMMA TypeReads ==
  ASSUME TypeOK, TurnInv, NEW holder \in {"look", "tick"}, ReadsSource(holder)
  PROVE  TypeOK' /\ TurnInv'
<1>1. at' \in 1..(Len(SourceWorkloads) + 1) /\ SourceWorkloads[at] \subseteq Workloads
  BY SourceNumbers DEF ReadsSource, TypeOK
<1>2. busy' \subseteq Workloads
  BY <1>1 DEF ReadsSource, SourceAnswers, SourceSilent, TypeOK
<1>3. {rebooting, stopping, unwritten, uncleared, failed, answered'} \subseteq BOOLEAN
  BY DEF ReadsSource, SourceAnswers, SourceSilent, TypeOK
<1>4. spent' \in Spendings
  BY FaultType DEF ReadsSource, SourceAnswers, SourceSilent
<1>5. /\ UNCHANGED <<running, vacant, playing, newcomers, pending, needed, window, asked, turn,
                     dump, streak, known, settled, unwaited, held, rebooting, stopping, status,
                     lastNotified, unwritten, uncleared, pc, todo, subject, outcome, failed, tick>>
      /\ turn = holder
  BY DEF ReadsSource, world, told
<1>6. TurnInv'
  BY <1>5
<1> QED BY <1>1, <1>2, <1>3, <1>4, <1>5, <1>6 DEF TypeOK, Spendings

LEMMA TypeConsider ==
  ASSUME TypeOK, TurnInv, ConsiderReboot
  PROVE  TypeOK' /\ TurnInv'
<1>1. CASE Consider
  BY <1>1 DEF Consider, TypeOK, PassSteps, world, shared, memory, told
<1>2. CASE ConsiderFails
  BY <1>2, FaultType DEF ConsiderFails, TypeOK, PassSteps, world, shared, memory, told, Spendings
<1>3. CASE AlreadyRebooting
  BY <1>3 DEF AlreadyRebooting, TypeOK, PassSteps, world, shared, memory, told
<1>4. CASE LookBegins
  <2>1. dump' \in Dumps /\ spent' \in Spendings
    BY <1>4, DumpType DEF LookBegins
  <2>2. at' \in 1..(Len(SourceWorkloads) + 1)
    BY <1>4, SourceNumbers DEF LookBegins
  <2> QED BY <1>4, <2>1, <2>2 DEF LookBegins, TypeOK, PassSteps, memory, told, Spendings
<1>5. CASE LookReads
  BY <1>5, TypeReads DEF LookReads
<1>6. CASE LookEnds
  <2>1. at' \in 1..(Len(SourceWorkloads) + 1) /\ dump' \in Dumps
    BY <1>6, SourceNumbers DEF LookEnds, NoDump, Dumps
  <2> QED BY <1>6, <2>1 DEF LookEnds, TypeOK, PassSteps, world, memory, told
<1>7. CASE DecideAgain
  BY <1>7 DEF DecideAgain, TypeOK, PassSteps, world, shared, memory, told
<1>8. CASE AskForReboot
  BY <1>8, FaultType DEF AskForReboot, TypeOK, PassSteps, world, shared, memory, told, Spendings
<1>9. CASE PublishReboot
  BY <1>9, Published DEF PublishReboot, TypeOK, PassSteps, shared, memory, Spendings
<1> QED BY <1>1, <1>2, <1>3, <1>4, <1>5, <1>6, <1>7, <1>8, <1>9 DEF ConsiderReboot

LEMMA TypeTicks ==
  ASSUME TypeOK, TurnInv, Ticks
  PROVE  TypeOK' /\ TurnInv'
<1>1. CASE TickBegins
  <2>1. dump' \in Dumps /\ spent' \in Spendings
    BY <1>1, DumpType DEF TickBegins, TypeOK, Spendings
  <2>2. at' \in 1..(Len(SourceWorkloads) + 1)
    BY <1>1, SourceNumbers DEF TickBegins, TypeOK
  <2> QED BY <1>1, <2>1, <2>2 DEF TickBegins, TypeOK, world, memory, told, passing, Spendings
<1>2. CASE TickReads
  BY <1>2, TypeReads DEF TickReads
<1>3. CASE TickLetsGo
  <2>1. at' \in 1..(Len(SourceWorkloads) + 1) /\ dump' \in Dumps
    BY <1>3, SourceNumbers DEF TickLetsGo, NoDump, Dumps
  <2> QED BY <1>3, <2>1 DEF TickLetsGo, TypeOK, world, memory, told, passing
<1>4. CASE TickPublishes
  BY <1>4, Published DEF TickPublishes, TypeOK, world, shared, memory, passing, Spendings
<1> QED BY <1>1, <1>2, <1>3, <1>4 DEF Ticks

LEMMA TypeStops ==
  ASSUME TypeOK, TurnInv, Stops
  PROVE  TypeOK' /\ TurnInv'
<1>1. CASE Stop
  BY <1>1 DEF Stop, TypeOK, world, shared, memory, passing
<1>2. CASE PassesExit
  BY <1>2 DEF PassesExit, TypeOK, PassSteps, world, shared, memory, told
<1>3. CASE TickExits
  BY <1>3 DEF TickExits, TypeOK, world, shared, memory, told, passing
<1>4. CASE Exit
  <2>1. status' \in Statuses /\ uncleared' \in BOOLEAN /\ spent' \in Spendings
    BY <1>4, Cleared DEF Exit
  <2> QED BY <1>4, <2>1 DEF Exit, TypeOK, PassSteps, world, shared, memory, Spendings
<1> QED BY <1>1, <1>2, <1>3, <1>4 DEF Stops

(***************************************************************************)
(* What is not the daemon leaves its state alone; and between a last look  *)
(* and a request for a reboot, whoever comes is a newcomer.                *)
(***************************************************************************)
LEMMA OutsideLeavesDaemon ==
  ASSUME TypeOK, Outside
  PROVE  /\ UNCHANGED daemonState
         /\ running' \subseteq Workloads /\ vacant' \subseteq running'
         /\ playing' \subseteq running' \ vacant'
         /\ newcomers' \subseteq playing' /\ pending' \subseteq Workloads
         /\ {needed', window', asked'} \subseteq BOOLEAN
         /\ spent' \in Spendings
         /\ Looking => playing' \ newcomers' \subseteq playing \ newcomers
<1>1. ASSUME NEW w \in Workloads,
             \/ UpdateAppears(w) \/ WorkloadAppears(w) \/ WorkloadDisappears(w)
             \/ WorkloadVacates(w) \/ WorkloadReturns(w)
      PROVE  spent' \in Spendings
  BY <1>1 DEF TypeOK, UpdateAppears, WorkloadAppears, WorkloadDisappears, WorkloadVacates,
     WorkloadReturns, Change, Spendings
<1>2. ASSUME NEW w \in Workloads,
             \/ PlayersJoin(w) \/ PlayersLeave(w) \/ UpdateAppears(w)
             \/ WorkloadAppears(w) \/ WorkloadDisappears(w)
             \/ WorkloadVacates(w) \/ WorkloadReturns(w)
      PROVE  /\ UNCHANGED <<daemonState, needed, window, asked>>
             /\ running' \subseteq Workloads /\ vacant' \subseteq running'
             /\ playing' \subseteq running' \ vacant'
             /\ newcomers' \subseteq playing' /\ pending' \subseteq Workloads
             /\ Looking => playing' \ newcomers' \subseteq playing \ newcomers
  <2>1. CASE PlayersJoin(w)
    BY <2>1 DEF TypeOK, PlayersJoin
  <2>2. CASE PlayersLeave(w)
    BY <2>2 DEF TypeOK, PlayersLeave
  <2>3. CASE UpdateAppears(w)
    BY <2>3 DEF TypeOK, UpdateAppears
  <2>4. CASE WorkloadAppears(w)
    BY <2>4 DEF TypeOK, WorkloadAppears
  <2>5. CASE WorkloadDisappears(w)
    BY <2>5 DEF TypeOK, WorkloadDisappears
  <2>6. CASE WorkloadVacates(w)
    BY <2>6 DEF TypeOK, WorkloadVacates
  <2>7. CASE WorkloadReturns(w)
    BY <2>7 DEF TypeOK, WorkloadReturns
  <2> QED BY <1>2, <2>1, <2>2, <2>3, <2>4, <2>5, <2>6, <2>7
<1>3. ASSUME NEW w \in Workloads, PlayersJoin(w) \/ PlayersLeave(w)
      PROVE  spent' \in Spendings
  BY <1>3 DEF TypeOK, PlayersJoin, PlayersLeave, Spendings
<1>4. ASSUME RebootIsNeeded \/ WindowOpensOrCloses \/ StopAsked
      PROVE  /\ UNCHANGED <<daemonState, running, vacant, playing, newcomers, pending, spent>>
             /\ {needed', window', asked'} \subseteq BOOLEAN
  BY <1>4 DEF TypeOK, RebootIsNeeded, WindowOpensOrCloses, StopAsked
<1>5. CASE RebootIsNeeded \/ WindowOpensOrCloses \/ StopAsked
  BY <1>4, <1>5 DEF TypeOK, Spendings
<1>6. ASSUME NEW w \in Workloads,
             \/ PlayersJoin(w) \/ PlayersLeave(w) \/ UpdateAppears(w)
             \/ WorkloadAppears(w) \/ WorkloadDisappears(w)
             \/ WorkloadVacates(w) \/ WorkloadReturns(w)
      PROVE  spent' \in Spendings /\ {needed', window', asked'} \subseteq BOOLEAN
  BY <1>1, <1>2, <1>3, <1>6 DEF TypeOK
<1> QED BY <1>2, <1>5, <1>6 DEF Outside

LEMMA TypeOutside ==
  ASSUME TypeOK, TurnInv, Outside
  PROVE  TypeOK' /\ TurnInv'
BY OutsideLeavesDaemon
   DEF TypeOK, daemonState, shared, memory, told, passing, Spendings

LEMMA TypeStep == TypeOK /\ TurnInv /\ [Next]_vars => TypeOK' /\ TurnInv'
<1> SUFFICES ASSUME TypeOK, TurnInv, [Next]_vars PROVE TypeOK' /\ TurnInv'
  OBVIOUS
<1>1. CASE UNCHANGED vars
  BY <1>1 DEF vars, world, shared, memory, told, passing, TypeOK
<1>2. CASE Passes
  BY <1>2, TypeOnce, TypeConsider DEF Passes
<1>3. CASE Ticks \/ Stops \/ Outside
  BY <1>3, TypeTicks, TypeStops, TypeOutside
<1> QED BY <1>1, <1>2, <1>3 DEF Next

HIDE DEF TurnInv, SourceSteps, TurnSteps

\* Every variable keeps its type.
THEOREM TypeCorrect == Spec => []TypeOK
<1>1. Spec => [](TypeOK /\ TurnInv)
  BY TypeInit, TypeStep, PTL DEF Spec
<1> QED BY <1>1, PTL

(***************************************************************************)
(* The turn has one holder at a time, a pass, the last look before a       *)
(* reboot or a tick, and only its holder is at a step that needs it.       *)
(***************************************************************************)
THEOREM TurnInvariant == Spec => []TurnInv
<1>1. Spec => [](TypeOK /\ TurnInv)
  BY TypeInit, TypeStep, PTL DEF Spec
<1> QED BY <1>1, PTL

-----------------------------------------------------------------------------
(* StatusInv: the status file, and what is held.                           *)

USE DEF StatusInv, TurnInv, SourceSteps, SubjectSteps, TurnSteps

LEMMA StatusInit == Init => StatusInv
BY DEF Init, NoStatus

LEMMA StatusPasses ==
  ASSUME TypeOK, TurnInv, StatusInv, Passes
  PROVE  StatusInv'
<1>1. CASE PassDue
  BY <1>1 DEF PassDue, memory, told
<1>2. CASE PassBegins
  BY <1>2 DEF PassBegins, memory, told
<1>3. CASE SourceLists
  BY <1>3 DEF SourceLists, AtSource, memory, told
<1>4. CASE SourceFails
  BY <1>4 DEF SourceFails, AtSource, memory, told
<1>5. ASSUME NEW w \in Workloads, Reconcile(w) PROVE StatusInv'
  BY <1>5 DEF Reconcile, NotSampled, NobodyToWaitFor, LeftAlone, Hold, memory, told
<1>6. CASE PublishHold
  BY <1>6, Published DEF PublishHold, memory
<1>7. CASE SomeoneArrived
  BY <1>7 DEF SomeoneArrived, memory, told
<1>8. CASE SwapBegins
  BY <1>8 DEF SwapBegins, memory, told
<1>9. CASE SwapEnds
  BY <1>9 DEF SwapEnds, memory, told
<1>10. CASE Record
  BY <1>10 DEF Record, told
<1>11. CASE LetGo
  BY <1>11 DEF LetGo, told
<1>12. CASE PassEnds
  BY <1>12, Published DEF PassEnds, memory
<1>13. CASE Consider \/ AlreadyRebooting
  BY <1>13 DEF Consider, AlreadyRebooting, memory, told
<1>14. CASE ConsiderFails
  <2>1. UNCHANGED <<held, status, unwritten, stopping, lastNotified, tick>>
        /\ pc' = "publishReboot" /\ pc = "consider"
    BY <1>14 DEF ConsiderFails, memory, told
  <2> QED BY <2>1
<1>15. CASE LookBegins \/ LookEnds
  BY <1>15 DEF LookBegins, LookEnds, memory, told
<1>16. CASE LookReads
  BY <1>16 DEF LookReads, ReadsSource, told
<1>17. CASE DecideAgain
  BY <1>17 DEF DecideAgain, memory, told
<1>18. CASE AskForReboot
  BY <1>18 DEF AskForReboot, memory, told
<1>19. CASE PublishReboot
  BY <1>19, Published DEF PublishReboot, memory
<1> QED BY <1>1, <1>2, <1>3, <1>4, <1>5, <1>6, <1>7, <1>8, <1>9, <1>10, <1>11, <1>12, <1>13, <1>14,
           <1>15, <1>16, <1>17, <1>18, <1>19 DEF Passes, Once, ConsiderReboot

LEMMA StatusOthers ==
  ASSUME TypeOK, TurnInv, StatusInv, Ticks \/ Stops \/ Outside
  PROVE  StatusInv'
<1>1. CASE TickBegins
  BY <1>1 DEF TickBegins, memory, told, passing
<1>2. CASE TickReads
  BY <1>2 DEF TickReads, ReadsSource, told
<1>3. CASE TickLetsGo
  BY <1>3 DEF TickLetsGo, memory, told, passing
<1>4. CASE TickPublishes
  BY <1>4, Published DEF TickPublishes, memory, passing
<1>5. CASE Stop
  BY <1>5 DEF Stop, memory, passing
<1>6. CASE PassesExit \/ TickExits
  BY <1>6 DEF PassesExit, TickExits, memory, told, passing
<1>7. CASE Exit
  BY <1>7, Cleared DEF Exit, memory
<1>8. CASE Outside
  BY <1>8, OutsideLeavesDaemon DEF daemonState, memory, told, passing
<1> QED BY <1>1, <1>2, <1>3, <1>4, <1>5, <1>6, <1>7, <1>8 DEF Ticks, Stops

LEMMA StatusStep == TypeOK /\ TurnInv /\ StatusInv /\ [Next]_vars => StatusInv'
<1>1. TypeOK /\ TurnInv /\ StatusInv /\ UNCHANGED vars => StatusInv'
  BY DEF vars, memory, told, passing
<1> QED BY <1>1, StatusPasses, StatusOthers DEF Next

HIDE DEF StatusInv, TurnInv, SourceSteps, SubjectSteps, TurnSteps

\* StatusInv holds throughout.
THEOREM StatusInvariant == Spec => []StatusInv
<1> QED BY StatusInit, StatusStep, TypeCorrect, TurnInvariant, PTL DEF Spec

(***************************************************************************)
(* While a workload is being swapped the status file says so, unless the   *)
(* last write of it failed: the tick writes it from what is held, and what *)
(* is held is published before the swap begins.                            *)
(***************************************************************************)
THEOREM StatusAlwaysSaysSwapping == Spec => []StatusSaysSwapping
<1>1. StatusInv => StatusSaysSwapping
  BY DEF StatusInv, StatusSaysSwapping
<1> QED BY <1>1, StatusInvariant, PTL

(***************************************************************************)
(* systemd's last word of a daemon that is stopping is that it is          *)
(* stopping.  Once it is over no swap was left half done, nothing writes   *)
(* any more, and a status file is left only where it could not be removed; *)
(* that says of nothing that it is being swapped, unless the last write    *)
(* failed too.                                                             *)
(***************************************************************************)
THEOREM AlwaysLeavesNoStatus == Spec => []LeavesNoStatus
<1>1. TypeOK /\ TurnInv /\ StatusInv => LeavesNoStatus
  BY DEF TypeOK, TurnInv, StatusInv, LeavesNoStatus, SourceSteps, TurnSteps
<1> QED BY <1>1, StatusInvariant, TypeCorrect, TurnInvariant, PTL

-----------------------------------------------------------------------------
(* LookInv: what the last look before a reboot has seen.                   *)

USE DEF LookInv, SinceTheLook, TurnInv, TurnSteps, SourceSteps

LEMMA LookInit == Init => LookInv
BY DEF Init

\* A source that answers makes busy whoever its dump has of its workloads.
LEMMA AnswerIsBusy ==
  ASSUME TypeOK, SourceAnswers, at \in Sources, NEW present, present \subseteq playing,
         dump.known => present \subseteq dump.inUse
  PROVE  /\ present \cap SourceWorkloads[at] \subseteq busy'
         /\ present \cap busy \subseteq busy'
BY DEF TypeOK, SourceAnswers, ReadsBusy

LEMMA LookReadsInv ==
  ASSUME TypeOK, TurnInv, LookInv, LookReads
  PROVE  LookInv'
<1>1. /\ UNCHANGED <<playing, newcomers, dump, turn, pc>> /\ turn = "look" /\ pc = "look"
      /\ at \in Sources /\ at' = at + 1
      /\ SourceAnswers \/ ~answered'
  BY DEF LookReads, ReadsSource, SourceSilent, world
<1>2. CASE ~answered'
  BY <1>1, <1>2
<1>3. CASE SourceAnswers
  <2>1. answered' = answered /\ SinceTheLook \subseteq playing
    BY <1>3 DEF SourceAnswers
  <2>2. /\ SinceTheLook \cap SourceWorkloads[at] \subseteq busy'
        /\ SinceTheLook \cap busy \subseteq busy'
    <3> HIDE DEF SinceTheLook
    <3> QED BY <1>1, <1>3, <2>1, AnswerIsBusy
  <2>3. ASSUME answered, NEW s \in Sources, s < at + 1
        PROVE  SinceTheLook \cap SourceWorkloads[s] \subseteq busy'
    <3>1. s < at \/ s = at
      BY <1>1, <2>3, SourceNumbers
    <3> QED BY <1>1, <2>2, <2>3, <3>1
  <2> QED BY <1>1, <2>1, <2>3
<1> QED BY <1>1, <1>2, <1>3

LEMMA LookPasses ==
  ASSUME TypeOK, TurnInv, LookInv, Passes
  PROVE  LookInv'
<1>1. CASE PassDue
  BY <1>1 DEF PassDue, world, shared, memory
<1>2. CASE Once \/ SwapEnds
  <2>1. turn = "pass" \/ turn' = "pass"
    BY <1>2 DEF Once, Reconcile, PassBegins, SourceLists, SourceFails, NotSampled,
       NobodyToWaitFor, LeftAlone, Hold, PublishHold, SomeoneArrived, SwapBegins, SwapEnds, Record,
       LetGo, PassEnds, AtSource
  <2>2. turn' \in {"free", "pass"} /\ pc' \notin {"decide", "ask"}
    BY <1>2 DEF Once, Reconcile, PassBegins, SourceLists, SourceFails, NotSampled,
       NobodyToWaitFor, LeftAlone, Hold, PublishHold, SomeoneArrived, SwapBegins, SwapEnds, Record,
       LetGo, PassEnds, AtSource, shared
  <2> QED BY <2>2
<1>3. CASE Consider \/ AlreadyRebooting
  BY <1>3 DEF Consider, AlreadyRebooting, world, shared, memory
<1>4. CASE ConsiderFails
  <2>1. pc' = "publishReboot" /\ turn' = turn /\ pc = "consider"
    BY <1>4 DEF ConsiderFails, shared
  <2> QED BY <2>1
<1>5. CASE LookBegins
  <2>1. dump'.known => dump'.inUse = playing
    BY <1>5, DumpType DEF LookBegins
  <2>2. pc' = "look" /\ newcomers' = {} /\ playing' = playing /\ at' = 1
    BY <1>5 DEF LookBegins
  <2>3. \A s \in Sources : ~(s < 1)
    BY SourceNumbers
  <2> QED BY <2>1, <2>2, <2>3
<1>6. CASE LookReads
  BY <1>6, LookReadsInv
<1>7. CASE LookEnds
  <2>1. /\ UNCHANGED <<playing, newcomers, busy, answered>> /\ turn = "look" /\ turn' = "free"
        /\ pc' = "decide"
    BY <1>7 DEF LookEnds, world, memory
  <2>2. \A s \in Sources : s < at
    BY <1>7, SourceNumbers DEF LookEnds, TypeOK
  <2>3. answered => SinceTheLook \subseteq busy
    BY <2>1, <2>2, SourceNumbers DEF TypeOK
  <2> QED BY <2>1, <2>3
<1>8. CASE DecideAgain
  BY <1>8 DEF DecideAgain, Decision, RebootDecision, world, shared, memory
<1>9. CASE AskForReboot
  BY <1>9 DEF AskForReboot, shared
<1>10. CASE PublishReboot
  BY <1>10 DEF PublishReboot, shared
<1> QED BY <1>1, <1>2, <1>3, <1>4, <1>5, <1>6, <1>7, <1>8, <1>9, <1>10 DEF Passes, ConsiderReboot

LEMMA LookTicks ==
  ASSUME TypeOK, TurnInv, LookInv, Ticks
  PROVE  LookInv'
<1>1. CASE TickBegins
  <2>1. CASE turn = "free"
    BY <1>1, <2>1, DumpType DEF TickBegins, TypeOK, world, memory, passing
  <2>2. CASE turn # "free"
    BY <1>1, <2>2 DEF TickBegins, world, memory, passing
  <2> QED BY <2>1, <2>2
<1>2. CASE TickReads
  <2>1. /\ UNCHANGED <<playing, newcomers, dump, turn, pc>> /\ turn = "tick" /\ at \in Sources
        /\ SourceAnswers \/ SourceSilent("tick")
    BY <1>2 DEF TickReads, ReadsSource, world
  <2>2. SourceAnswers \/ busy' = busy
    BY <2>1 DEF SourceSilent
  <2>3. answered' => answered
    BY <2>1 DEF SourceAnswers, SourceSilent
  <2>4. ASSUME pc = "decide" PROVE SinceTheLook \cap busy \subseteq busy'
    <3>1. SinceTheLook \subseteq playing /\ (dump.known => SinceTheLook \subseteq dump.inUse)
      BY <2>1, <2>4
    <3> HIDE DEF SinceTheLook
    <3> QED BY <2>1, <2>2, <3>1, AnswerIsBusy
  <2> QED BY <2>1, <2>3, <2>4
<1>3. CASE TickLetsGo
  BY <1>3 DEF TickLetsGo, world, memory, passing
<1>4. CASE TickPublishes
  BY <1>4 DEF TickPublishes, world, shared, memory, passing
<1> QED BY <1>1, <1>2, <1>3, <1>4 DEF Ticks

LEMMA LookStep == TypeOK /\ TurnInv /\ LookInv /\ [Next]_vars => LookInv'
<1> SUFFICES ASSUME TypeOK, TurnInv, LookInv, [Next]_vars PROVE LookInv'
  OBVIOUS
<1>1. CASE UNCHANGED vars
  BY <1>1 DEF vars, world, shared, memory, passing
<1>2. CASE Stops
  BY <1>2
     DEF Stops, Stop, PassesExit, TickExits, Exit, world, shared, memory, passing
<1>3. CASE Outside
  <2>1. /\ UNCHANGED <<turn, dump, at, busy, pc, answered>>
        /\ Looking => SinceTheLook' \subseteq SinceTheLook
    BY <1>3, OutsideLeavesDaemon DEF daemonState, shared, memory, passing
  <2> HIDE DEF SinceTheLook
  <2> QED BY <2>1 DEF Looking
<1> QED BY <1>1, <1>2, <1>3, LookPasses, LookTicks DEF Next

HIDE DEF LookInv, SinceTheLook, TurnInv, TurnSteps, SourceSteps

\* LookInv holds throughout.
THEOREM LookInvariant == Spec => []LookInv
<1> QED BY LookInit, LookStep, TypeCorrect, TurnInvariant, PTL DEF Spec

(***************************************************************************)
(* When logind is asked for a reboot, whoever is playing joined after the  *)
(* last look had begun: a player who was there before is never cut off,    *)
(* whatever ticks, failed reads, joins and departures came in between.     *)
(***************************************************************************)
THEOREM RebootAlwaysSparesPlayers == Spec => RebootSparesPlayers
<1>1. LookInv /\ [Next]_vars => [pc = "ask" /\ pc' # "ask" => playing \subseteq newcomers]_vars
  BY DEF LookInv, SinceTheLook
<1> QED BY <1>1, LookInvariant, PTL DEF Spec, RebootSparesPlayers

-----------------------------------------------------------------------------
(* StreakInv: the streaks behind what a pass calls settled.                *)

USE DEF StreakInv, TurnInv, SourceSteps, SubjectSteps, TurnSteps

LEMMA StreakInit == Init => StreakInv
BY DEF Init, Debounced

\* What is reported leaves the list of what is still to be reconciled.
LEMMA ReportsOne ==
  ASSUME TypeOK, NEW w \in Workloads, NEW concluded, Reports(w, concluded)
  PROVE  /\ outcome'[w] = concluded /\ w \notin todo' /\ todo' \subseteq todo
         /\ \A v \in Workloads : v # w => outcome'[v] = outcome[v] /\ (v \in todo' <=> v \in todo)
BY DEF TypeOK, Reports

\* A streak that is set is one workload's.
LEMMA StreakOfOne ==
  ASSUME TypeOK, NEW w \in Workloads, NEW n, streak' = [streak EXCEPT ![w] = n]
  PROVE  streak'[w] = n /\ \A v \in Workloads : v # w => streak'[v] = streak[v]
BY DEF TypeOK

LEMMA StreakReconciles ==
  ASSUME TypeOK, TurnInv, StreakInv, NEW w \in Workloads, Reconcile(w)
  PROVE  StreakInv'
<1> DEFINE counted == NextStreak(streak[w], ~ReadsBusy(w), IdleSamples)
<1>1. pc = "reconcile" /\ w \in todo /\ w \in SourceWorkloads[at] /\ settled \subseteq Workloads
  BY DEF Reconcile, NotSampled, NobodyToWaitFor, LeftAlone, Hold, TypeOK
<1>2. counted \in Nat /\ IdleSamples \in Nat
  <2>1. streak[w] \in 0..IdleSamples
    BY DEF TypeOK
  <2> QED BY <2>1, DaemonBounds DEF NextStreak
<1> HIDE DEF counted
<1>3. CASE NotSampled(w) \/ NobodyToWaitFor(w)
  <2>1. /\ UNCHANGED <<settled, unwaited, known, streak, at, pc>>
        /\ Reports(w, "unsampled") \/ Reports(w, "vacant")
    BY <1>3 DEF NotSampled, NobodyToWaitFor, shared, memory
  <2> QED BY <1>1, <2>1, ReportsOne DEF Debounced
<1>4. CASE LeftAlone(w)
  <2>1. /\ UNCHANGED <<settled, unwaited, known, at, pc>>
        /\ streak' = [streak EXCEPT ![w] = counted]
        /\ \/ Reports(w, "busy") \/ Reports(w, "idle")
           \/ Reports(w, "settled") /\ ~(counted < IdleSamples)
    BY <1>4 DEF LeftAlone, memory, counted
  <2>2. streak'[w] = counted /\ \A v \in Workloads : v # w => streak'[v] = streak[v]
    BY <2>1, StreakOfOne
  <2>3. ASSUME NEW concluded \in {"busy", "idle", "settled"}, Reports(w, concluded),
               concluded = "settled" => ~(counted < IdleSamples)
        PROVE  StreakInv'
    <3>1. \A v \in settled \ unwaited : Debounced(v)' \/ v \in SourceWorkloads[at]
      BY <1>1, <2>2 DEF Debounced
    <3>2. \A v \in Workloads : outcome'[v] = "settled" => Debounced(v)' /\ v \notin todo'
      BY <1>1, <1>2, <2>2, <2>3, ReportsOne DEF Debounced
    <3> QED BY <1>1, <2>1, <2>3, <3>1, <3>2, ReportsOne
  <2> QED BY <2>1, <2>3
<1>5. CASE Hold(w)
  <2>1. /\ UNCHANGED <<settled, unwaited, known, at, outcome, todo>>
        /\ pc' = "publishHold" /\ subject' = w
        /\ streak' = [streak EXCEPT ![w] = counted]
    BY <1>5 DEF Hold, counted
  <2>2. streak'[w] = counted /\ \A v \in Workloads : v # w => streak'[v] = streak[v]
    BY <2>1, StreakOfOne
  <2>3. \A v \in settled \ unwaited : Debounced(v)' \/ v \in SourceWorkloads[at]
    BY <1>1, <2>2 DEF Debounced
  <2>4. \A v \in Workloads : outcome'[v] = "settled" => Debounced(v)' /\ v \notin todo'
    BY <1>1, <2>1, <2>2 DEF Debounced
  <2> QED BY <1>1, <2>1, <2>3, <2>4
<1> QED BY <1>3, <1>4, <1>5 DEF Reconcile

LEMMA StreakSwaps ==
  ASSUME TypeOK, TurnInv, StreakInv, PublishHold \/ SomeoneArrived \/ SwapBegins \/ SwapEnds
  PROVE  StreakInv'
<1>1. /\ subject \in Workloads /\ subject \in todo /\ subject \in SourceWorkloads[at]
      /\ settled \subseteq Workloads /\ pc \in SubjectSteps
  BY DEF PublishHold, SomeoneArrived, SwapBegins, SwapEnds, TypeOK
<1>2. CASE PublishHold \/ SwapBegins
  BY <1>2 DEF PublishHold, SwapBegins, shared, memory, Debounced
<1>3. CASE SomeoneArrived \/ SwapEnds
  <2>1. /\ UNCHANGED <<settled, unwaited, known, at>> /\ pc' = "reconcile"
        /\ Reports(subject, "idle") \/ Reports(subject, "unsampled")
        /\ streak' = streak \/ streak' = [streak EXCEPT ![subject] = 0]
    BY <1>3 DEF SomeoneArrived, SwapEnds, shared, memory
  <2>2. \A v \in Workloads : v # subject => streak'[v] = streak[v]
    BY <1>1, <2>1, StreakOfOne
  <2>3. \A v \in settled \ unwaited : Debounced(v)' \/ v \in SourceWorkloads[at]
    BY <1>1, <2>2 DEF Debounced
  <2>4. \A v \in Workloads : outcome'[v] = "settled" => Debounced(v)' /\ v \notin todo'
    BY <1>1, <2>1, <2>2, ReportsOne DEF Debounced
  <2> QED BY <1>1, <2>1, <2>3, <2>4, ReportsOne
<1> QED BY <1>2, <1>3

LEMMA StreakPasses ==
  ASSUME TypeOK, TurnInv, StreakInv, Passes
  PROVE  StreakInv'
<1>1. CASE PassDue \/ PassBegins
  BY <1>1 DEF PassDue, PassBegins, shared, memory, Debounced
<1>2. CASE SourceLists
  BY <1>2 DEF SourceLists, AtSource, shared, memory, Debounced, TypeOK
<1>3. CASE SourceFails
  BY <1>3 DEF SourceFails, AtSource, memory, Debounced
<1>4. CASE Record
  <2>1. /\ UNCHANGED <<streak, todo>> /\ pc = "reconcile" /\ pc' = "list"
        /\ outcome' = [w \in Workloads |-> "absent"] /\ todo = {}
    BY <1>4 DEF Record
  <2>2. /\ settled' = (settled \ SourceWorkloads[at])
                     \cup {w \in SourceWorkloads[at] : outcome[w] \in {"settled", "vacant"}}
        /\ unwaited' = (unwaited \ SourceWorkloads[at])
                     \cup {w \in SourceWorkloads[at] : outcome[w] \in {"vacant"}}
    BY <1>4 DEF Record
  <2>3. SourceWorkloads[at] \subseteq Workloads
    BY <2>1, SourceNumbers
  <2>4. \A w \in settled' \ unwaited' : Debounced(w)
    BY <2>1, <2>2, <2>3
  <2> QED BY <2>1, <2>4 DEF Debounced
<1>5. CASE LetGo \/ PassEnds
  BY <1>5 DEF LetGo, PassEnds, shared, memory, Debounced
<1>6. CASE Consider \/ AlreadyRebooting
  BY <1>6 DEF Consider, AlreadyRebooting, shared, memory, Debounced
<1>7. CASE ConsiderFails
  <2>1. /\ UNCHANGED <<settled, unwaited, known, streak, todo, outcome>>
        /\ pc = "consider" /\ pc' = "publishReboot"
    BY <1>7 DEF ConsiderFails, shared, memory
  <2> QED BY <2>1 DEF Debounced
<1>8. CASE LookBegins \/ LookEnds
  BY <1>8 DEF LookBegins, LookEnds, memory, Debounced
<1>9. CASE LookReads
  BY <1>9 DEF LookReads, ReadsSource, Debounced
<1>10. CASE DecideAgain
  <2>1. /\ UNCHANGED <<settled, unwaited, known, streak, todo, outcome>>
        /\ pc = "decide" /\ pc' \in {"ask", "publishReboot"}
        /\ pc' = "ask" => known \subseteq settled
    BY <1>10 DEF DecideAgain, Decision, RebootDecision, Unsettled, shared, memory
  <2> QED BY <2>1 DEF Debounced
<1>11. CASE AskForReboot
  BY <1>11 DEF AskForReboot, shared, memory, Debounced
<1>12. CASE PublishReboot
  BY <1>12 DEF PublishReboot, shared, memory, Debounced
<1> QED BY <1>1, <1>2, <1>3, <1>4, <1>5, <1>6, <1>7, <1>8, <1>9, <1>10, <1>11, <1>12,
           StreakReconciles, StreakSwaps DEF Passes, Once, ConsiderReboot

LEMMA StreakStep == TypeOK /\ TurnInv /\ StreakInv /\ [Next]_vars => StreakInv'
<1> SUFFICES ASSUME TypeOK, TurnInv, StreakInv, [Next]_vars PROVE StreakInv'
  OBVIOUS
<1>1. ASSUME UNCHANGED <<settled, unwaited, known, streak, passing>>, at' = at \/ turn # "pass"
      PROVE  StreakInv'
  BY <1>1 DEF passing, Debounced
<1>2. CASE Passes
  BY <1>2, StreakPasses
<1>3. CASE TickBegins
  BY <1>1, <1>3 DEF TickBegins, memory
<1>4. CASE TickReads
  <2>1. /\ UNCHANGED <<settled, unwaited, known, streak, pc, todo, subject, outcome>>
        /\ pc \notin SourceSteps
    BY <1>4 DEF TickReads, ReadsSource
  <2> QED BY <2>1 DEF Debounced
<1>5. CASE TickLetsGo \/ TickPublishes
  BY <1>1, <1>5 DEF TickLetsGo, TickPublishes, shared, memory
<1>6. CASE Stops
  BY <1>6 DEF Stops, Stop, PassesExit, TickExits, Exit, shared, memory, passing, Debounced
<1>7. CASE Outside
  BY <1>1, <1>7, OutsideLeavesDaemon DEF daemonState, shared, memory
<1>8. CASE UNCHANGED vars
  BY <1>1, <1>8 DEF vars, shared, memory
<1> QED BY <1>2, <1>3, <1>4, <1>5, <1>6, <1>7, <1>8 DEF Next, Ticks

HIDE DEF StreakInv, TurnInv, SourceSteps, SubjectSteps, TurnSteps

\* StreakInv holds throughout.
THEOREM StreakInvariant == Spec => []StreakInv
<1> QED BY StreakInit, StreakStep, TypeCorrect, TurnInvariant, PTL DEF Spec

(***************************************************************************)
(* A reboot waits for the debounce of every workload the last pass knew,   *)
(* although ticks and the look move the busy verdicts in between - but for *)
(* one that had nobody to wait for when that pass came to it: nothing      *)
(* touches a settled workload's streak before a pass settles it anew.      *)
(***************************************************************************)
THEOREM RebootAlwaysWaitsForDebounce == Spec => RebootWaitsForDebounce
<1>1. StreakInv /\ [Next]_vars
      => [pc = "ask" /\ pc' # "ask"
            => \A w \in known : streak[w] >= IdleSamples \/ w \in unwaited]_vars
  BY DEF StreakInv, Debounced
<1> QED BY <1>1, StreakInvariant, PTL DEF Spec, RebootWaitsForDebounce

=============================================================================
