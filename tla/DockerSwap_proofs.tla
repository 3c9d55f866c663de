-------------------------- MODULE DockerSwap_proofs --------------------------
(***************************************************************************)
(* Theorems about DockerSwap, for every value of its constants: its types, *)
(* what it leaves behind, that a swap stands up the digest it asked for,   *)
(* and that it implements GuardedUpdate.                                   *)
(***************************************************************************)
EXTENDS DockerSwap, TLAPS

-----------------------------------------------------------------------------
(* Types.                                                                  *)

\* The records a pass starts from are well typed.
LEMMA EmptyTypes == /\ Nobody \in Containers
                    /\ NoJob \in Jobs
                    /\ NoMemory \in Memories
BY SwapAssumption DEF Nobody, Containers, NoJob, Jobs, NoMemory, Memories, MaybeImage

\* What the tag should resolve to is one of the images.
LEMMA DesiredType ==
  ASSUME TypeOK
  PROVE  Desired \in Images
BY DEF TypeOK, Desired

\* Forgetting a pin leaves the memory well typed.
LEMMA ForgetType ==
  ASSUME NEW m \in Memories, NEW want \in MaybeImage
  PROVE  Forget(m, want) \in Memories
BY DEF Memories, Forget, MaybeImage

\* So does counting a failure.
LEMMA CountFailureType ==
  ASSUME NEW m \in Memories, NEW want \in MaybeImage
  PROVE  CountFailure(m, want) \in Memories
<1> DEFINE failures == IF m.failing = want THEN m.failures + 1 ELSE 1
<1>1. failures \in Nat
  BY DEF Memories
<1> HIDE DEF failures
<1>2. [m EXCEPT !.failing = want, !.failures = failures,
                !.pinned = IF failures >= MaxSwapFailures THEN want ELSE @] \in Memories
  BY <1>1 DEF Memories
<1> QED BY <1>2 DEF CountFailure, failures

\* A failing call spends from its bound, and one that works does not.
LEMMA FaultType ==
  ASSUME TypeOK, Fault \/ NoFault
  PROVE  spent' \in [faults : Nat, crashes : Nat, moves : Nat]
BY DEF TypeOK, Fault, NoFault

\* Whatever a call does, and whether it fails, the host stays well typed.
LEMMA CallTypes ==
  ASSUME TypeOK,
         \/ StopCall \/ ParkCall \/ CreateCall \/ StartCall
         \/ RemoveCall \/ RestoreCall \/ DropCall \/ UNCHANGED host
  PROVE  named' \in Containers /\ parked' \in Containers /\ busy' \in BOOLEAN
<1>1. CASE CreateCall
  BY <1>1 DEF TypeOK, CreateCall, Containers, MaybeImage
<1>2. CASE StopCall \/ StartCall
  BY <1>2 DEF TypeOK, StopCall, StartCall, Containers
<1>3. CASE ParkCall \/ RemoveCall \/ RestoreCall \/ DropCall \/ UNCHANGED host
  BY <1>3, EmptyTypes DEF TypeOK, ParkCall, RemoveCall, RestoreCall, DropCall, host
<1> QED BY <1>1, <1>2, <1>3

\* An undo starts at one of its steps, or ends at once.
LEMMA UndoType ==
  ASSUME NEW j \in Jobs, Undo(j)
  PROVE  pc' \in Steps /\ job' \in Jobs
BY DEF Undo, Goto, Steps

LEMMA TypeInit == Init => TypeOK
<1> SUFFICES ASSUME Init PROVE TypeOK
  OBVIOUS
<1>1. PICK image \in Images : Init!(image)
  BY DEF Init
<1>2. named \in Containers
  BY <1>1 DEF Containers, MaybeImage
<1>3. spent \in [faults : Nat, crashes : Nat, moves : Nat]
  BY <1>1
<1> QED BY <1>1, <1>2, <1>3, EmptyTypes DEF TypeOK, MaybeImage, Steps

\* A pass up to the swap keeps the types.
LEMMA TypePass ==
  ASSUME TypeOK, Look \/ SampleAndDecide \/ Pull \/ PullFails
  PROVE  TypeOK'
<1>1. CASE Look
  <2>1. Desired \in Images /\ Desired \in MaybeImage
    BY DesiredType DEF MaybeImage
  <2>2. mem' \in Memories
    BY <1>1, <2>1, ForgetType DEF Look, TypeOK
  <2>3. pc' \in Steps /\ job' \in Jobs
    BY <1>1, <2>1, EmptyTypes DEF Look, Goto, Steps, Jobs
  <2>4. prefetched' \in MaybeImage /\ pulls' \subseteq Images
    BY <1>1, <2>1 DEF Look, TypeOK, fetches
  <2> QED BY <1>1, <2>2, <2>3, <2>4 DEF Look, TypeOK, host, tags, history
<1>2. CASE SampleAndDecide
  <2>1. PICK inUse \in BOOLEAN :
          /\ SampleReads(inUse)
          /\ mem' = [mem EXCEPT !.streak = NextStreak(mem.streak, ~inUse, IdleSamples)]
          /\ \/ Goto("pull", job) \/ Goto("stop", job) \/ Goto("idle", NoJob)
    BY <1>2 DEF SampleAndDecide
  <2>2. mem' \in Memories
    BY <2>1, SwapAssumption DEF TypeOK, Memories, NextStreak
  <2>3. pc' \in Steps /\ job' \in Jobs
    BY <2>1, EmptyTypes DEF Goto, Steps, TypeOK
  <2>4. spent' \in [faults : Nat, crashes : Nat, moves : Nat]
    BY <2>1, FaultType DEF SampleReads
  <2> QED BY <1>2, <2>2, <2>3, <2>4 DEF SampleAndDecide, TypeOK, host, tags, fetches, history
<1>3. CASE Pull
  BY <1>3 DEF Pull, TypeOK, Goto, Steps, host, fetches, history
<1>4. CASE PullFails
  BY <1>4, EmptyTypes, FaultType DEF PullFails, TypeOK, Goto, Steps, host, tags, fetches, history
<1> QED BY <1>1, <1>2, <1>3, <1>4

\* So does each call of the swap.
LEMMA TypeSwap ==
  ASSUME TypeOK, Stop \/ Rename \/ Create \/ Connect \/ StartNew
  PROVE  TypeOK'
<1>1. named' \in Containers /\ parked' \in Containers /\ busy' \in BOOLEAN
  BY CallTypes DEF Stop, Rename, Create, Connect, StartNew, Fails
<1>2. spent' \in [faults : Nat, crashes : Nat, moves : Nat]
  BY FaultType DEF Stop, Rename, Create, Connect, StartNew, Fails
<1>3. \/ Undo(job)
      \/ Goto("rename", [job EXCEPT !.stopped = TRUE])
      \/ Goto("create", [job EXCEPT !.parked = TRUE])
      \/ Goto("connect", [job EXCEPT !.created = TRUE])
      \/ Goto("start", job) \/ Goto("gate", job)
  BY DEF Stop, Rename, Create, Connect, StartNew
<1>4. pc' \in Steps /\ job' \in Jobs
  <2>1. job \in Jobs
    BY DEF TypeOK
  <2>2. CASE Undo(job)
    BY <2>1, <2>2, UndoType
  <2> QED BY <1>3, <2>1, <2>2 DEF Goto, Steps, Jobs
<1>5. UNCHANGED <<opted, tags, mem, fetches, history>>
  BY DEF Stop, Rename, Create, Connect, StartNew
<1> QED BY <1>1, <1>2, <1>4, <1>5 DEF TypeOK, tags, fetches, history

\* So do the verdict, and what follows it.
LEMMA TypeGate ==
  ASSUME TypeOK, Healthy \/ Unhealthy \/ Commit
  PROVE  TypeOK'
<1>1. CASE Healthy
  BY <1>1 DEF Healthy, TypeOK, Containers, Goto, Steps, tags, fetches, history
<1>2. CASE Unhealthy
  <2>1. [job EXCEPT !.unhealthy = TRUE] \in Jobs
    BY DEF TypeOK, Jobs
  <2>2. pc' \in Steps /\ job' \in Jobs
    BY <1>2, <2>1, UndoType DEF Unhealthy
  <2>3. condemned' \subseteq Images
    BY <1>2, DesiredType DEF Unhealthy, TypeOK
  <2> QED BY <1>2, <2>2, <2>3 DEF Unhealthy, TypeOK, host, tags, fetches
<1>3. CASE Commit
  <2>1. named' \in Containers /\ parked' \in Containers /\ busy' \in BOOLEAN
    BY <1>3, CallTypes DEF Commit, Fails
  <2>2. mem' \in Memories
    BY <1>3, EmptyTypes DEF Commit, TypeOK, Memories
  <2>3. pc' \in Steps /\ job' \in Jobs
    BY <1>3, EmptyTypes DEF Commit, Goto, Steps
  <2>4. spent' \in [faults : Nat, crashes : Nat, moves : Nat]
    BY <1>3, FaultType DEF Commit, Fails
  <2> QED BY <1>3, <2>1, <2>2, <2>3, <2>4 DEF Commit, TypeOK, tags, fetches, history
<1> QED BY <1>1, <1>2, <1>3

\* So does the undo.
LEMMA TypeUndo ==
  ASSUME TypeOK, UndoRemove \/ UndoRename \/ UndoStart \/ Undone
  PROVE  TypeOK'
<1>1. CASE UndoRemove \/ UndoRename \/ UndoStart
  <2>1. named' \in Containers /\ parked' \in Containers /\ busy' \in BOOLEAN
    BY <1>1, CallTypes DEF UndoRemove, UndoRename, UndoStart, UndoStep, Fails
  <2>2. spent' \in [faults : Nat, crashes : Nat, moves : Nat]
    BY <1>1, FaultType DEF UndoRemove, UndoRename, UndoStart, UndoStep, Fails
  <2>3. pc' \in Steps /\ job' \in Jobs /\ attention' \in BOOLEAN
    BY <1>1 DEF UndoRemove, UndoRename, UndoStart, UndoStep, Goto, Steps, TypeOK
  <2>4. UNCHANGED <<opted, tags, mem, fetches, condemned>>
    BY <1>1 DEF UndoRemove, UndoRename, UndoStart, UndoStep
  <2> QED BY <2>1, <2>2, <2>3, <2>4 DEF TypeOK, tags, fetches
<1>2. CASE Undone
  <2>1. job.want \in MaybeImage
    BY DEF TypeOK, Jobs
  <2>2. mem' \in Memories
    BY <1>2, <2>1, CountFailureType DEF Undone, TypeOK, Memories
  <2> QED BY <1>2, <2>2, EmptyTypes DEF Undone, TypeOK, Goto, Steps, host, tags, fetches, history
<1> QED BY <1>1, <1>2

\* So does everything that is not the pass.
LEMMA TypeOthers ==
  ASSUME TypeOK, Prefetch \/ Others
  PROVE  TypeOK'
<1>1. ASSUME NEW target \in Images, PullLands(target)
      PROVE  TypeOK'
  BY <1>1 DEF PullLands, TypeOK, Jobs, host, history
<1>2. ASSUME NEW target \in Images, PrefetchFails(target)
      PROVE  TypeOK'
  BY <1>2, FaultType DEF PrefetchFails, TypeOK, MaybeImage, host, tags, history
<1>3. CASE TagMoves
  <2>1. job' \in Jobs
    BY <1>3 DEF TagMoves, TypeOK, Jobs
  <2>2. registry' \in Images /\ stored' \in Images
    BY <1>3 DEF TagMoves, TypeOK
  <2>3. spent' \in [faults : Nat, crashes : Nat, moves : Nat]
    BY <1>3 DEF TagMoves, TypeOK
  <2> QED BY <1>3, <2>1, <2>2, <2>3 DEF TagMoves, TypeOK, host, fetches
<1>4. CASE PlayersComeOrGo
  BY <1>4 DEF PlayersComeOrGo, TypeOK, tags, fetches, history
<1>5. CASE Crash
  BY <1>5, EmptyTypes DEF Crash, TypeOK, Goto, Steps, MaybeImage, host, tags
<1> QED BY <1>1, <1>2, <1>3, <1>4, <1>5 DEF Prefetch, Others

LEMMA TypeStep == TypeOK /\ [Next]_vars => TypeOK'
<1> SUFFICES ASSUME TypeOK, [Next]_vars PROVE TypeOK'
  OBVIOUS
<1>1. CASE UNCHANGED vars
  BY <1>1 DEF vars, TypeOK, host, tags, fetches, history
<1> QED BY <1>1, TypePass, TypeSwap, TypeGate, TypeUndo, TypeOthers
        DEF Next, Pass, NothingListed

(***************************************************************************)
(* Every variable keeps its type.                                          *)
(***************************************************************************)
THEOREM TypeCorrect == Spec => []TypeOK
<1>1. Init => TypeOK
  BY TypeInit
<1>2. TypeOK /\ [Next]_vars => TypeOK'
  BY TypeStep
<1> QED BY <1>1, <1>2, PTL DEF Spec

-----------------------------------------------------------------------------
(* The invariant of a swap.                                                *)

\* No failing call kills a daemon.
LEMMA FaultKeepsCrashes ==
  ASSUME TypeOK, Fault \/ NoFault
  PROVE  spent'.crashes = spent.crashes
BY DEF TypeOK, Fault, NoFault

LEMMA SwapFitsInit == Init => SwapFits
BY ImagesAssumption DEF Init, SwapFits, Nobody, There, NoJob, Alive

\* Where an undo begins says how far the swap got.
LEMMA UndoStarts ==
  ASSUME NEW j \in Jobs, Undo(j)
  PROVE  /\ job' = j
         /\ j.created => pc' = "undoRemove"
         /\ ~j.created /\ j.parked => pc' = "undoRename"
         /\ ~j.created /\ ~j.parked /\ j.stopped => pc' = "undoStart"
         /\ ~j.created /\ ~j.parked /\ ~j.stopped => pc' = "undone"
BY DEF Undo, Goto

\* A pass up to the swap touches neither name.
LEMMA SwapFitsPass ==
  ASSUME TypeOK, SwapFits, Look \/ SampleAndDecide \/ Pull \/ PullFails
  PROVE  SwapFits'
<1>1. UNCHANGED <<named, parked, attention>>
  BY DEF Look, SampleAndDecide, Pull, PullFails, host, history
<1>2. spent'.crashes = spent.crashes
  BY FaultKeepsCrashes DEF Look, SampleAndDecide, Pull, PullFails, SampleReads, NoFault
<1>3. /\ pc \in {"idle", "decide", "pull"}
      /\ pc' \in {"idle", "decide", "pull", "stop"}
      /\ pc' # "idle" => ~job'.parked /\ ~job'.created
  BY DEF Look, SampleAndDecide, Pull, PullFails, Goto, NoJob, SwapFits
<1> QED BY <1>1, <1>2, <1>3 DEF SwapFits, There, Alive

\* Each call of the swap, carried out or not, leaves a gated container.
LEMMA SwapFitsSwap ==
  ASSUME TypeOK, SwapFits, Stop \/ Rename \/ Create \/ Connect \/ StartNew
  PROVE  SwapFits'
<1> USE DEF There
<1>0. /\ spent'.crashes = spent.crashes
      /\ attention' = attention
      /\ job \in Jobs /\ named \in Containers /\ parked \in Containers
  BY FaultKeepsCrashes DEF Stop, Rename, Create, Connect, StartNew, Fails, history, TypeOK
<1>a. Alive' = Alive
  BY <1>0 DEF Alive
<1>1. CASE Stop
  <2>1. /\ named'.gated = named.gated /\ named'.image = named.image
        /\ parked' = parked
    BY <1>0, <1>1 DEF Stop, Fails, StopCall, host, Containers
  <2>2. CASE Goto("rename", [job EXCEPT !.stopped = TRUE])
    BY <1>0, <1>a, <1>1, <2>1, <2>2 DEF SwapFits, Stop, Goto, Jobs
  <2>3. CASE Undo(job)
    <3>1. pc' \in {"undoStart", "undone"}
      BY <1>0, <1>1, <2>3, UndoStarts DEF SwapFits, Stop, Jobs
    <3> QED BY <1>a, <1>1, <2>1, <3>1 DEF SwapFits, Stop
  <2> QED BY <1>1, <2>2, <2>3 DEF Stop
<1>2. CASE Rename
  <2>1. CASE CanPark /\ ParkCall /\ Goto("create", [job EXCEPT !.parked = TRUE])
    <3>1. named'.image = None /\ ~named'.gated /\ parked'.gated /\ parked'.image # None
      BY <1>2, <2>1 DEF CanPark, ParkCall, Nobody, SwapFits, Rename
    <3>2. job'.parked /\ ~job'.created /\ pc' = "create"
      BY <1>0, <1>2, <2>1 DEF Goto, Jobs, SwapFits, Rename
    <3> QED BY <1>a, <3>1, <3>2 DEF SwapFits
  <2>2. CASE Fails(CanPark, ParkCall) /\ Undo(job)
    <3>1. pc' = "undoStart"
      BY <1>0, <1>2, <2>2, UndoStarts DEF SwapFits, Rename, Jobs
    <3>2. CASE UNCHANGED host
      BY <1>a, <1>2, <3>1, <3>2 DEF SwapFits, Rename, host
    <3>3. CASE CanPark /\ ParkCall
      <4>1. named'.image = None /\ ~named'.gated /\ parked'.gated /\ parked'.image # None
        BY <1>2, <3>3 DEF CanPark, ParkCall, Nobody, SwapFits, Rename
      <4> QED BY <1>a, <3>1, <4>1 DEF SwapFits
    <3> QED BY <2>2, <3>2, <3>3 DEF Fails
  <2> QED BY <1>2, <2>1, <2>2 DEF Rename
<1>3. CASE Create
  <2>1. \/ UNCHANGED <<named, parked>>
        \/ /\ named.image = None
           /\ ~named'.gated /\ named'.image \in Images
           /\ parked' = parked
    BY <1>3 DEF Create, Fails, CanCreate, CreateCall, host, TypeOK
  <2>2. CASE Goto("connect", [job EXCEPT !.created = TRUE])
    BY <1>0, <1>a, <1>3, <2>1, <2>2, ImagesAssumption DEF SwapFits, Create, Goto, Jobs
  <2>3. CASE Undo(job)
    <3>1. pc' = "undoRename"
      BY <1>0, <1>3, <2>3, UndoStarts DEF SwapFits, Create
    <3> QED BY <1>a, <1>3, <2>1, <3>1, ImagesAssumption DEF SwapFits, Create
  <2> QED BY <1>3, <2>2, <2>3 DEF Create
<1>4. CASE Connect
  <2>1. UNCHANGED <<named, parked>>
    BY <1>4 DEF Connect, host
  <2>2. CASE Goto("start", job)
    BY <1>a, <1>4, <2>1, <2>2 DEF SwapFits, Connect, Goto
  <2>3. CASE Undo(job)
    <3>1. pc' = "undoRemove"
      BY <1>0, <1>4, <2>3, UndoStarts DEF SwapFits, Connect
    <3> QED BY <1>a, <1>4, <2>1, <3>1 DEF SwapFits, Connect
  <2> QED BY <1>4, <2>2, <2>3 DEF Connect
<1>5. CASE StartNew
  <2>1. /\ named'.gated = named.gated /\ named'.image = named.image
        /\ parked' = parked
    BY <1>0, <1>5 DEF StartNew, Fails, StartCall, host, Containers
  <2>2. CASE CanStart /\ Goto("gate", job)
    BY <1>a, <1>5, <2>1, <2>2 DEF SwapFits, StartNew, Goto, CanStart
  <2>3. CASE Undo(job)
    <3>1. pc' = "undoRemove"
      BY <1>0, <1>5, <2>3, UndoStarts DEF SwapFits, StartNew
    <3> QED BY <1>a, <1>5, <2>1, <3>1 DEF SwapFits, StartNew
  <2> QED BY <1>5, <2>2, <2>3 DEF StartNew
<1> QED BY <1>1, <1>2, <1>3, <1>4, <1>5

\* The parked container goes only once the gate has passed the new one.
LEMMA SwapFitsGate ==
  ASSUME TypeOK, SwapFits, Healthy \/ Unhealthy \/ Commit
  PROVE  SwapFits'
<1> USE DEF There
<1>0. /\ spent'.crashes = spent.crashes
      /\ attention' = attention
      /\ job \in Jobs /\ named \in Containers /\ parked \in Containers
  BY FaultKeepsCrashes DEF Healthy, Unhealthy, Commit, Fails, NoFault, history, TypeOK
<1>a. Alive' = Alive
  BY <1>0 DEF Alive
<1>1. CASE Healthy
  <2>1. named'.gated /\ named'.image = named.image /\ parked' = parked
    BY <1>0, <1>1 DEF Healthy, Containers
  <2> QED BY <1>a, <1>1, <2>1 DEF SwapFits, Healthy, Goto
<1>2. CASE Unhealthy
  <2>1. [job EXCEPT !.unhealthy = TRUE] \in Jobs /\ [job EXCEPT !.unhealthy = TRUE].created
    BY <1>0, <1>2 DEF Jobs, SwapFits, Unhealthy
  <2>2. pc' = "undoRemove"
    BY <1>2, <2>1, UndoStarts DEF Unhealthy
  <2> QED BY <1>a, <1>2, <2>2 DEF SwapFits, Unhealthy, host
<1>3. CASE Commit
  <2>1. named' = named /\ (parked' = parked \/ parked' = Nobody)
    BY <1>3 DEF Commit, Fails, DropCall, host
  <2> QED BY <1>a, <1>3, <2>1 DEF SwapFits, Commit, Goto, Nobody
<1> QED BY <1>1, <1>2, <1>3

\* The undo removes the new container only when the old one is parked.
LEMMA SwapFitsUndo ==
  ASSUME TypeOK, SwapFits, UndoRemove \/ UndoRename \/ UndoStart \/ Undone
  PROVE  SwapFits'
<1> USE DEF There
<1>0. /\ spent'.crashes = spent.crashes
      /\ named \in Containers /\ parked \in Containers
      /\ attention => attention'
  BY FaultKeepsCrashes
     DEF UndoRemove, UndoRename, UndoStart, Undone, UndoStep, Fails, NoFault, history, TypeOK
<1>a. Alive' => Alive
  BY <1>0 DEF Alive
<1>1. CASE UndoRemove
  <2>1. parked' = parked /\ (named' = named \/ named' = Nobody)
    BY <1>1 DEF UndoRemove, UndoStep, Fails, RemoveCall, host
  <2>2. pc' = "undoRename" \/ (pc' = "undone" /\ ~Alive')
    BY <1>1 DEF UndoRemove, UndoStep, Goto, Alive
  <2> QED BY <1>a, <1>1, <2>1, <2>2 DEF SwapFits, UndoRemove, Nobody
<1>2. CASE UndoRename
  <2>1. \/ UNCHANGED <<named, parked>>
        \/ named.image = None /\ named' = parked /\ parked' = Nobody
    BY <1>2 DEF UndoRename, UndoStep, Fails, CanRestore, RestoreCall, host
  <2>2. \/ pc' = "undoStart" /\ named.image = None /\ named' = parked
        \/ pc' = "undone" /\ ~Alive'
    BY <1>2 DEF UndoRename, UndoStep, Goto, Alive, CanRestore, RestoreCall
  <2> QED BY <1>a, <1>2, <2>1, <2>2 DEF SwapFits, UndoRename, Nobody
<1>3. CASE UndoStart
  <2>1. /\ parked' = parked
        /\ named'.gated = named.gated /\ named'.image = named.image
    BY <1>0, <1>3 DEF UndoStart, UndoStep, Fails, StartCall, host, Containers
  <2>2. pc' = "undone" /\ (Alive' => named.image # None)
    BY <1>3 DEF UndoStart, UndoStep, Goto, Alive, CanStart
  <2> QED BY <1>a, <1>3, <2>1, <2>2 DEF SwapFits, UndoStart
<1>4. CASE Undone
  <2>1. UNCHANGED <<named, parked>> /\ pc' = "idle"
    BY <1>4 DEF Undone, Goto, host
  <2> QED BY <1>a, <1>4, <2>1 DEF SwapFits, Undone
<1> QED BY <1>1, <1>2, <1>3, <1>4

\* Nothing else touches the two names, and a death forgets only the pass.
LEMMA SwapFitsOthers ==
  ASSUME TypeOK, SwapFits, Prefetch \/ Others
  PROVE  SwapFits'
<1> USE DEF There
<1>0. job \in Jobs /\ named \in Containers /\ spent.crashes \in Nat
  BY DEF TypeOK
<1>1. CASE Prefetch \/ TagMoves
  <2>1. UNCHANGED <<named, parked, pc, attention>> /\ spent'.crashes = spent.crashes
    BY <1>1, FaultKeepsCrashes
       DEF Prefetch, PullLands, PrefetchFails, TagMoves, host, history, TypeOK, NoFault
  <2>2. /\ job'.stopped = job.stopped
        /\ job'.parked = job.parked /\ job'.created = job.created
    BY <1>0, <1>1 DEF Prefetch, PullLands, PrefetchFails, TagMoves, Jobs
  <2> QED BY <2>1, <2>2 DEF SwapFits, Alive
<1>2. CASE PlayersComeOrGo
  BY <1>2 DEF PlayersComeOrGo, SwapFits, Alive, history
<1>3. CASE Crash
  <2>1. UNCHANGED <<named, parked>> /\ pc' = "idle" /\ spent'.crashes # 0
    BY <1>0, <1>3 DEF Crash, Goto, host, TypeOK
  <2> QED BY <1>3, <2>1 DEF SwapFits, Alive
<1> QED BY <1>1, <1>2, <1>3 DEF Others

LEMMA SwapFitsStep == TypeOK /\ SwapFits /\ [Next]_vars => SwapFits'
<1> SUFFICES ASSUME TypeOK, SwapFits, [Next]_vars PROVE SwapFits'
  OBVIOUS
<1>1. CASE UNCHANGED vars
  BY <1>1 DEF vars, SwapFits, There, Alive, host, history
<1> QED BY <1>1, SwapFitsPass, SwapFitsSwap, SwapFitsGate, SwapFitsUndo, SwapFitsOthers
        DEF Next, Pass, NothingListed

(***************************************************************************)
(* What each step of a swap and of its undo knows of the two names.        *)
(***************************************************************************)
THEOREM SwapInvariant == Spec => []SwapFits
<1>1. Init => TypeOK /\ SwapFits
  BY TypeInit, SwapFitsInit
<1>2. TypeOK /\ SwapFits /\ [Next]_vars => (TypeOK /\ SwapFits)'
  BY TypeStep, SwapFitsStep
<1> QED BY <1>1, <1>2, PTL DEF Spec

(***************************************************************************)
(* There is always a gated container to go back to, under one name or the  *)
(* other.                                                                  *)
(***************************************************************************)
THEOREM GatedContainerAlwaysSurvives == Spec => []GatedContainerSurvives
<1>1. SwapFits => GatedContainerSurvives
  BY DEF SwapFits, GatedContainerSurvives
<1> QED BY <1>1, SwapInvariant, PTL

(***************************************************************************)
(* A daemon that has not died, and has not asked for a person, leaves no   *)
(* ungated container in service between its passes.                        *)
(***************************************************************************)
THEOREM NothingUngatedIsEverLeft == Spec => []NothingUngatedIsLeft
<1>1. SwapFits => NothingUngatedIsLeft
  BY DEF SwapFits, NothingUngatedIsLeft, Alive
<1> QED BY <1>1, SwapInvariant, PTL

-----------------------------------------------------------------------------
(* The invariant of what a swap wants and of what is condemned.            *)

\* The steps of an undo.
Undoing == {"undoRemove", "undoRename", "undoStart", "undone"}

LEMMA TargetFitsInit == Init => TargetFits
BY DEF Init, TargetFits, NoJob

\* An undo goes to one of its own steps.
LEMMA UndoIsUndoing ==
  ASSUME NEW j, Undo(j)
  PROVE  pc' \in Undoing /\ job' = j
BY DEF Undo, Goto, Undoing

\* A pass looks its target up, and swaps to nothing that is pinned.
LEMMA TargetFitsPass ==
  ASSUME TypeOK, TargetFits, Look \/ SampleAndDecide \/ Pull \/ PullFails
  PROVE  TargetFits'
<1>0. job \in Jobs /\ mem \in Memories
  BY DEF TypeOK
<1>1. CASE Look
  <2>1. /\ UNCHANGED <<opted, registry, stored, condemned, named>>
        /\ Desired' = Desired
    BY <1>1 DEF Look, tags, host, history, Desired
  <2>2. pc = "idle" /\ pc' = "decide" /\ job'.want = Desired
    BY <1>1 DEF Look, Goto, NoJob
  <2>3. pulls' # {} => opted.autoupdate = "registry"
    BY <1>1 DEF Look, Prefetches, fetches, TargetFits
  <2>4. mem.pinned = Desired => mem'.pinned = Desired
    BY <1>0, <1>1 DEF Look, Forget, Memories
  <2> QED BY <2>1, <2>2, <2>3, <2>4 DEF TargetFits
<1>2. CASE SampleAndDecide
  <2>1. /\ UNCHANGED <<opted, registry, stored, condemned, pulls, named>>
        /\ Desired' = Desired /\ pc = "decide"
    BY <1>2 DEF SampleAndDecide, tags, host, history, fetches, Desired
  <2>2. mem'.pinned = mem.pinned
    BY <1>0, <1>2 DEF SampleAndDecide, Memories
  <2>3. \/ pc' = "idle"
        \/ /\ job' = job /\ (mem.pinned = None \/ mem.pinned # job.want)
           /\ \/ pc' = "pull" /\ opted.autoupdate = "registry"
              \/ pc' = "stop" /\ opted.autoupdate # "registry"
    BY <1>2 DEF SampleAndDecide, Goto, DecideKind
  <2>4. CASE pc' = "idle"
    BY <2>1, <2>2, <2>4 DEF TargetFits
  <2>5. CASE pc' # "idle"
    <3>1. condemned = {}
      <4>1. Desired # None
        BY DesiredType, ImagesAssumption
      <4> QED BY <2>1, <2>3, <2>5, <4>1 DEF TargetFits
    <3>2. pc' = "stop" /\ ~job.stale => stored = job.want
      BY <2>1, <2>3 DEF TargetFits, Desired
    <3> QED BY <2>1, <2>3, <2>5, <3>1, <3>2 DEF TargetFits
  <2> QED BY <2>4, <2>5
<1>3. CASE Pull
  <2>1. /\ UNCHANGED <<opted, condemned, pulls, mem, job, named>>
        /\ opted.autoupdate = "registry" /\ Desired' = Desired
        /\ stored' = Desired
    BY <1>3 DEF Pull, host, history, fetches, Desired, TargetFits, Goto
  <2> QED BY <1>3, <2>1 DEF TargetFits, Pull, Goto
<1>4. CASE PullFails
  <2>1. /\ UNCHANGED <<opted, registry, stored, condemned, pulls, mem, named>>
        /\ Desired' = Desired
    BY <1>4 DEF PullFails, tags, host, history, fetches, Desired
  <2> QED BY <1>4, <2>1 DEF TargetFits, PullFails, Goto
<1> QED BY <1>1, <1>2, <1>3, <1>4

\* A swap runs while nothing is condemned.
LEMMA TargetFitsSwap ==
  ASSUME TypeOK, SwapFits, TargetFits, Stop \/ Rename \/ Create \/ Connect \/ StartNew
  PROVE  TargetFits'
<1>0. /\ job \in Jobs /\ named \in Containers
      /\ UNCHANGED <<opted, registry, stored, condemned, pulls, mem>>
      /\ Desired' = Desired /\ condemned = {}
  BY DEF Stop, Rename, Create, Connect, StartNew, tags, fetches, history, Desired, TypeOK,
         TargetFits
<1>1. CASE Undo(job)
  <2>1. pc' \in Undoing /\ job' = job
    BY <1>1, UndoIsUndoing
  <2>2. pc' = "undoRemove" => ~named'.gated
    <3>1. CASE Connect \/ StartNew
      BY <1>0, <3>1 DEF Connect, StartNew, Fails, StartCall, host, Containers, TargetFits
    <3>2. CASE Stop \/ Rename \/ Create
      BY <1>0, <1>1, <3>2, UndoStarts DEF Stop, Rename, Create, SwapFits
    <3> QED BY <3>1, <3>2
  <2>3. job.want = Desired \/ job.stale
    BY DEF Stop, Rename, Create, Connect, StartNew, TargetFits
  <2> QED BY <1>0, <2>1, <2>2, <2>3 DEF TargetFits, Undoing
<1>2. CASE Stop /\ Goto("rename", [job EXCEPT !.stopped = TRUE])
  BY <1>0, <1>2 DEF Stop, Goto, Jobs, TargetFits
<1>3. CASE Rename /\ Goto("create", [job EXCEPT !.parked = TRUE])
  BY <1>0, <1>3 DEF Rename, Goto, Jobs, TargetFits
<1>4. CASE Create /\ CreateCall /\ Goto("connect", [job EXCEPT !.created = TRUE])
  BY <1>0, <1>4 DEF Create, CreateCall, Goto, Jobs, TargetFits
<1>5. CASE Connect /\ Goto("start", job)
  BY <1>0, <1>5 DEF Connect, Goto, host, TargetFits
<1>6. CASE StartNew /\ StartCall /\ Goto("gate", job)
  BY <1>0, <1>6 DEF StartNew, StartCall, Goto, Containers, TargetFits
<1> QED BY <1>1, <1>2, <1>3, <1>4, <1>5, <1>6
        DEF Stop, Rename, Create, Connect, StartNew

\* Only a verdict on the digest the pass still wants condemns it.
LEMMA TargetFitsGate ==
  ASSUME TypeOK, SwapFits, TargetFits, Healthy \/ Unhealthy \/ Commit
  PROVE  TargetFits'
<1>0. /\ job \in Jobs /\ mem \in Memories
      /\ UNCHANGED <<opted, registry, stored, pulls>>
      /\ Desired' = Desired /\ condemned = {}
  BY DEF Healthy, Unhealthy, Commit, tags, fetches, Desired, TypeOK, TargetFits
<1>1. CASE Healthy
  BY <1>0, <1>1 DEF Healthy, Goto, history, TargetFits
<1>2. CASE Unhealthy
  <2>1. pc' = "undoRemove" /\ job' = [job EXCEPT !.unhealthy = TRUE]
    <3>1. [job EXCEPT !.unhealthy = TRUE] \in Jobs /\ [job EXCEPT !.unhealthy = TRUE].created
      BY <1>0, <1>2 DEF Jobs, SwapFits, Unhealthy
    <3> QED BY <1>2, <3>1, UndoStarts DEF Unhealthy
  <2>2. job'.want = job.want /\ job'.stale = job.stale /\ job'.unhealthy
    BY <1>0, <2>1 DEF Jobs
  <2>3. ~named'.gated /\ mem' = mem
    BY <1>2 DEF Unhealthy, host, TargetFits
  <2>4. job.want = Desired \/ job.stale
    BY <1>2 DEF Unhealthy, TargetFits
  <2>5. condemned' = {} \/ (condemned' = {Desired} /\ ~job.stale)
    BY <1>0, <1>2 DEF Unhealthy
  <2> QED BY <1>0, <2>1, <2>2, <2>3, <2>4, <2>5 DEF TargetFits
<1>3. CASE Commit
  BY <1>0, <1>3 DEF Commit, Goto, history, TargetFits
<1> QED BY <1>1, <1>2, <1>3

\* An undo ends with the pin.
LEMMA TargetFitsUndo ==
  ASSUME TypeOK, TargetFits, UndoRemove \/ UndoRename \/ UndoStart \/ Undone
  PROVE  TargetFits'
<1>0. /\ job \in Jobs /\ mem \in Memories
      /\ UNCHANGED <<opted, registry, stored, pulls, condemned>>
      /\ Desired' = Desired
  BY DEF UndoRemove, UndoRename, UndoStart, UndoStep, Undone, tags, fetches, history, Desired,
         TypeOK
<1>1. CASE UndoRemove \/ UndoRename \/ UndoStart
  BY <1>0, <1>1 DEF UndoRemove, UndoRename, UndoStart, UndoStep, Goto, TargetFits
<1>2. CASE Undone
  <2>1. /\ job.unhealthy => mem'.pinned = job.want
        /\ ~job.unhealthy => mem'.pinned \in {mem.pinned, job.want}
    <3>1. ~job.unhealthy => mem'.pinned \in {mem.pinned, job.want}
      BY <1>0, <1>2 DEF Undone, CountFailure, Memories
    <3> QED BY <1>0, <1>2, <3>1 DEF Undone, Memories
  <2> QED BY <1>0, <1>2, <2>1 DEF Undone, Goto, TargetFits
<1> QED BY <1>1, <1>2

\* What lands or moves meanwhile makes the pass stale, and a move frees.
LEMMA TargetFitsOthers ==
  ASSUME TypeOK, TargetFits, Prefetch \/ Others
  PROVE  TargetFits'
<1>0. job \in Jobs
  BY DEF TypeOK
<1>1. ASSUME NEW target \in Images, PullLands(target)
      PROVE  TargetFits'
  <2>1. /\ UNCHANGED <<opted, registry, condemned, mem, pc, named>>
        /\ opted.autoupdate = "registry" /\ Desired' = Desired
    BY <1>1 DEF PullLands, host, history, TargetFits, Desired
  <2>2. /\ pc # "idle" => job'.stale
        /\ job'.want = job.want /\ job'.unhealthy = job.unhealthy
    BY <1>0, <1>1 DEF PullLands, Jobs
  <2> QED BY <2>1, <2>2 DEF TargetFits
<1>2. ASSUME NEW target \in Images, PrefetchFails(target)
      PROVE  TargetFits'
  BY <1>2 DEF PrefetchFails, host, tags, history, TargetFits, Desired
<1>3. CASE TagMoves
  <2>1. /\ UNCHANGED <<opted, mem, pc, named, pulls>> /\ condemned' = {}
        /\ pc # "idle" => job'.stale
    BY <1>0, <1>3 DEF TagMoves, host, fetches, Jobs
  <2> QED BY <2>1 DEF TargetFits
<1>4. CASE PlayersComeOrGo
  BY <1>4 DEF PlayersComeOrGo, tags, fetches, history, TargetFits, Desired
<1>5. CASE Crash
  BY <1>5 DEF Crash, Goto, TargetFits
<1> QED BY <1>1, <1>2, <1>3, <1>4, <1>5 DEF Prefetch, Others

LEMMA TargetFitsStep == TypeOK /\ SwapFits /\ TargetFits /\ [Next]_vars => TargetFits'
<1> SUFFICES ASSUME TypeOK, SwapFits, TargetFits, [Next]_vars PROVE TargetFits'
  OBVIOUS
<1>1. CASE UNCHANGED vars
  BY <1>1 DEF vars, host, tags, fetches, history, TargetFits, Desired
<1> QED BY <1>1, TargetFitsPass, TargetFitsSwap, TargetFitsGate, TargetFitsUndo,
           TargetFitsOthers DEF Next, Pass, NothingListed

\* The whole inductive invariant.
SwapInv == TypeOK /\ SwapFits /\ TargetFits

LEMMA SwapInvInvariant == Spec => []SwapInv
<1>1. Init => SwapInv
  BY TypeInit, SwapFitsInit, TargetFitsInit DEF SwapInv
<1>2. SwapInv /\ [Next]_vars => SwapInv'
  BY TypeStep, SwapFitsStep, TargetFitsStep DEF SwapInv
<1> QED BY <1>1, <1>2, PTL DEF Spec

(***************************************************************************)
(* A swap stands up the digest the pass asked for, unless the tag moved or *)
(* a background pull landed under it.                                      *)
(***************************************************************************)
THEOREM SwapStandsUpWhatItAskedFor == Spec => StandsUpWhatItAskedFor
<1>1. SwapInv /\ [Next]_vars
        => [~There(named) /\ There(named') /\ pc = "create"
              => named'.image = job.want \/ job.stale]_vars
  <2> SUFFICES ASSUME SwapInv, Next, ~There(named), There(named'), pc = "create", ~job.stale
               PROVE  named'.image = job.want
    OBVIOUS
  <2>1. stored = job.want
    BY DEF SwapInv, TargetFits
  <2>2. CASE Create
    BY <2>1, <2>2 DEF Create, Fails, CreateCall, host, There
  <2>3. CASE Prefetch \/ Others
    BY <2>3 DEF Prefetch, PullLands, PrefetchFails, Others, TagMoves, PlayersComeOrGo, Crash,
                host, There
  <2> QED BY <2>2, <2>3
          DEF Next, Pass, Look, NothingListed, SampleAndDecide, Pull, PullFails, Stop, Rename,
              Connect, StartNew, Healthy, Unhealthy, Commit, UndoRemove, UndoRename, UndoStart,
              Undone
<1> QED BY <1>1, SwapInvInvariant, PTL DEF Spec, StandsUpWhatItAskedFor

-----------------------------------------------------------------------------
(* The refinement.                                                         *)

\* A step that changes neither name's container, gate or what is condemned.
LEMMA SameNames ==
  ASSUME named'.image = named.image, named'.gated = named.gated,
         parked'.image = parked.image, condemned' = condemned
  PROVE  UNCHANGED Guarded!vars
BY DEF Guarded!vars

LEMMA InitRefines == Init => Guarded!Init
BY DEF Init, Guarded!Init

\* Up to the swap nothing is tried.
LEMMA PassRefines ==
  ASSUME Look \/ SampleAndDecide \/ Pull \/ PullFails
  PROVE  UNCHANGED Guarded!vars
BY DEF Look, SampleAndDecide, Pull, PullFails, host, history, Guarded!vars

\* The rename moves the proven one aside, and the create begins a trial.
LEMMA SwapRefines ==
  ASSUME SwapInv, Stop \/ Rename \/ Create \/ Connect \/ StartNew
  PROVE  [Guarded!Next]_Guarded!vars
<1>0. /\ named \in Containers /\ parked \in Containers
      /\ condemned = {} /\ condemned' = condemned
  BY DEF SwapInv, TypeOK, TargetFits, Stop, Rename, Create, Connect, StartNew, history
<1>1. CASE Stop \/ Connect \/ StartNew
  <2>1. /\ named'.image = named.image /\ named'.gated = named.gated
        /\ parked' = parked
    BY <1>0, <1>1 DEF Stop, Connect, StartNew, Fails, StopCall, StartCall, host, Containers
  <2> QED BY <1>0, <2>1, SameNames
<1>2. CASE Rename
  <2>1. \/ UNCHANGED <<named, parked>>
        \/ /\ named.gated /\ parked' = named /\ named' = Nobody
    BY <1>2 DEF Rename, Fails, CanPark, ParkCall, host, There, SwapInv, SwapFits
  <2> QED BY <1>0, <2>1 DEF Nobody, Guarded!vars
<1>3. CASE Create
  <2>1. \/ UNCHANGED <<named, parked>>
        \/ /\ named.image = None /\ ~named.gated
           /\ named'.image \in Images /\ ~named'.gated
           /\ parked' = parked
    BY <1>3 DEF Create, Fails, CanCreate, CreateCall, host, There, SwapInv, SwapFits, TypeOK
  <2>2. CASE UNCHANGED <<named, parked>>
    BY <1>0, <2>2 DEF Guarded!vars
  <2>3. CASE ~UNCHANGED <<named, parked>>
    <3>1. Guarded!Try(named'.image)
      BY <1>0, <2>1, <2>3 DEF Guarded!Try
    <3> QED BY <2>1, <2>3, <3>1 DEF Guarded!Next
  <2> QED BY <2>2, <2>3
<1> QED BY <1>1, <1>2, <1>3

\* The verdict accepts or rejects the trial.
LEMMA GateRefines ==
  ASSUME SwapInv, Healthy \/ Unhealthy \/ Commit
  PROVE  [Guarded!Next]_Guarded!vars
<1>0. named \in Containers /\ parked \in Containers /\ condemned = {}
  BY DEF SwapInv, TypeOK, TargetFits, Healthy, Unhealthy, Commit
<1>1. CASE Healthy
  <2>1. /\ named.image # None /\ ~named.gated
        /\ named'.image = named.image /\ named'.gated
        /\ condemned' = condemned
    BY <1>0, <1>1 DEF Healthy, SwapInv, SwapFits, TargetFits, There, Containers, history
  <2>2. Guarded!Accept
    BY <1>0, <2>1 DEF Guarded!Accept
  <2> QED BY <2>2 DEF Guarded!Next
<1>2. CASE Unhealthy
  <2>1. /\ named.image # None /\ ~named.gated
        /\ UNCHANGED <<named, parked>>
        /\ condemned' = condemned \/ condemned' = {named.image}
    BY <1>2 DEF Unhealthy, SwapInv, SwapFits, TargetFits, There, host
  <2>2. CASE condemned' = condemned
    BY <2>1, <2>2 DEF Guarded!vars
  <2>3. CASE condemned' = {named.image}
    <3>1. Guarded!Reject
      BY <2>1, <2>3 DEF Guarded!Reject
    <3> QED BY <3>1 DEF Guarded!Next
  <2> QED BY <2>1, <2>2, <2>3
<1>3. CASE Commit
  <2>1. named' = named /\ named.gated /\ condemned' = condemned
    BY <1>3 DEF Commit, Fails, DropCall, host, history, SwapInv, SwapFits
  <2> QED BY <2>1 DEF Guarded!vars
<1> QED BY <1>1, <1>2, <1>3

\* The undo withdraws it, and puts the proven one back under the name.
LEMMA UndoRefines ==
  ASSUME SwapInv, UndoRemove \/ UndoRename \/ UndoStart \/ Undone
  PROVE  [Guarded!Next]_Guarded!vars
<1>0. named \in Containers /\ parked \in Containers /\ condemned' = condemned
  BY DEF SwapInv, TypeOK, UndoRemove, UndoRename, UndoStart, Undone, UndoStep, history
<1>1. CASE UndoRemove
  <2>1. /\ parked' = parked /\ ~named.gated
        /\ named' = named \/ (named.image # None /\ named' = Nobody)
    BY <1>1 DEF UndoRemove, UndoStep, Fails, RemoveCall, There, host, SwapInv, TargetFits
  <2>2. CASE named' = named
    BY <1>0, <2>1, <2>2 DEF Guarded!vars
  <2>3. CASE named.image # None /\ named' = Nobody
    <3>1. Guarded!Withdraw
      BY <1>0, <2>1, <2>3 DEF Guarded!Withdraw, Nobody
    <3> QED BY <3>1 DEF Guarded!Next
  <2> QED BY <2>1, <2>2, <2>3
<1>2. CASE UndoRename
  <2>1. \/ UNCHANGED <<named, parked>>
        \/ /\ named.image = None /\ ~named.gated /\ parked.gated
           /\ named' = parked /\ parked' = Nobody
    BY <1>2 DEF UndoRename, UndoStep, Fails, CanRestore, RestoreCall, host, There, SwapInv,
                SwapFits
  <2> QED BY <1>0, <2>1 DEF Nobody, Guarded!vars
<1>3. CASE UndoStart \/ Undone
  <2>1. /\ named'.image = named.image /\ named'.gated = named.gated
        /\ parked' = parked
    BY <1>0, <1>3 DEF UndoStart, Undone, UndoStep, Fails, StartCall, host, Containers
  <2> QED BY <1>0, <2>1, SameNames
<1> QED BY <1>1, <1>2, <1>3

\* A move of the tag and a death are reasons to reconsider.
LEMMA OthersRefine ==
  ASSUME Prefetch \/ Others
  PROVE  [Guarded!Next]_Guarded!vars
<1>1. CASE Prefetch \/ PlayersComeOrGo
  <2>1. /\ named'.image = named.image /\ named'.gated = named.gated
        /\ parked' = parked /\ condemned' = condemned
    BY <1>1 DEF Prefetch, PullLands, PrefetchFails, PlayersComeOrGo, host, history
  <2> QED BY <2>1, SameNames
<1>2. CASE TagMoves \/ Crash
  <2>1. Guarded!Reconsider
    BY <1>2 DEF TagMoves, Crash, host, Guarded!Reconsider
  <2> QED BY <2>1 DEF Guarded!Next
<1> QED BY <1>1, <1>2 DEF Others

LEMMA StepRefines == SwapInv /\ [Next]_vars => [Guarded!Next]_Guarded!vars
<1> SUFFICES ASSUME SwapInv, [Next]_vars PROVE [Guarded!Next]_Guarded!vars
  OBVIOUS
<1>1. CASE UNCHANGED vars
  BY <1>1 DEF vars, host, history, Guarded!vars
<1> QED BY <1>1, PassRefines, SwapRefines, GateRefines, UndoRefines, OthersRefine
        DEF Next, Pass, NothingListed

(***************************************************************************)
(* DockerSwap implements GuardedUpdate: through every failing call, lost   *)
(* answer and death of the daemon, the version to go back to changes only  *)
(* by passing a gate, and what a gate rejected is not stood up again until *)
(* the tag moves or the daemon forgets.                                    *)
(***************************************************************************)
THEOREM SwapKeepsTheProven == Spec => KeepsTheProven
<1>1. Init => Guarded!Init
  BY InitRefines
<1>2. SwapInv /\ [Next]_vars => [Guarded!Next]_Guarded!vars
  BY StepRefines
<1> QED BY <1>1, <1>2, SwapInvInvariant, PTL DEF Spec, KeepsTheProven, Guarded!Spec

=============================================================================
