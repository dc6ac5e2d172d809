--------------------------- MODULE IoOwnersProofs ---------------------------
(* Proofs about IoOwners, for every set of threads, members and descriptors, *)
(* and every number of generations.                                          *)
EXTENDS IoOwners, IoModuleProofs

USE DEF Gens, NoEpoll, Callers

-----------------------------------------------------------------------------
(* Type correctness, one lemma for each kind of step *)

LEMMA ReturningType ==
  ASSUME use \in [Members -> Uses], NEW c, NEW u \in Uses, Returning(c, u)
  PROVE  use' \in [Members -> Uses]
BY DEF Returning

LEMMA ProcessType == TypeOK /\ Process => TypeOK'
BY ProcStepType DEF Process, TypeOK, ownerVars

LEMMA OwnerType == TypeOK /\ OwnerStep => TypeOK'
<1> SUFFICES ASSUME TypeOK, OwnerStep PROVE TypeOK'
    OBVIOUS
<1>0. UNCHANGED procVars /\ (ProcTypeOK => ProcTypeOK')
    BY DEF OwnerStep, Open, Close, BeginAdd, BeginRemove, procVars, ProcTypeOK
<1>1. ASSUME NEW m \in Members, Open(m) PROVE TypeOK'
  <2>1. IoTypeOK'
    BY <1>1 DEF Open, TypeOK, IoTypeOK, ioVars, kernelVars, stateVars, tableVars, loopVars
  <2> QED
    BY <1>0, <1>1, <2>1 DEF Open, TypeOK, Uses
<1>2. ASSUME NEW m \in Members, Close(m) PROVE TypeOK'
  <2>1. IoTypeOK'
    BY <1>2, KernelCloseType DEF Close, TypeOK, IoTypeOK, stateVars, tableVars, loopVars
  <2> QED
    BY <1>0, <1>2, <2>1 DEF Close, TypeOK, Uses
<1>3. ASSUME NEW c \in Callers, NEW m \in Members, BeginAdd(c, m) PROVE TypeOK'
  <2>1. IoTypeOK'
    BY <1>3, CallAddType DEF BeginAdd, TypeOK
  <2> QED
    BY <1>0, <1>3, <2>1 DEF BeginAdd, TypeOK, Uses
<1>4. ASSUME NEW c \in Callers, NEW m \in Members, BeginRemove(c, m) PROVE TypeOK'
  <2>1. IoTypeOK'
    BY <1>4, CallRemoveType DEF BeginRemove, TypeOK
  <2> QED
    BY <1>0, <1>4, <2>1 DEF BeginRemove, TypeOK, Uses
<1> QED
    BY <1>1, <1>2, <1>3, <1>4 DEF OwnerStep

LEMMA CallType ==
  ASSUME TypeOK, NEW c \in Callers, CallStep(c)
  PROVE  TypeOK'
<1>1. /\ use' \in [Members -> Uses]
      /\ UNCHANGED <<m_init, ctl, fdOf>>
    BY ReturningType DEF CallStep, AddStep, RemoveStep, Uses, TypeOK, procVars
<1>2. \E ok \in BOOLEAN :
        AddEntry(c) \/ AddCtl(c, ok) \/ AddWakeup(c) \/ RemoveEntry(c) \/ RemoveCtl(c)
    BY DEF CallStep, AddStep, RemoveStep
<1>3. IoTypeOK'
    BY <1>2, CallStepType DEF TypeOK
<1> QED
    BY <1>1, <1>3 DEF TypeOK, ProcTypeOK

LEMMA PollingType ==
  ASSUME TypeOK, NEW g \in Gens, PollingThread(g)
  PROVE  TypeOK'
BY LoopType DEF PollingThread, TypeOK, ProcTypeOK, procVars, ownerVars

LEMMA NextType == TypeOK /\ [Next]_vars => TypeOK'
<1> SUFFICES ASSUME TypeOK, [Next]_vars PROVE TypeOK'
    OBVIOUS
<1>1. CASE UNCHANGED vars
    BY <1>1 DEF TypeOK, IoTypeOK, ProcTypeOK, vars, ioVars, kernelVars, stateVars,
                tableVars, loopVars, procVars, ownerVars
<1> QED
    BY <1>1, ProcessType, OwnerType, CallType, PollingType DEF Next, Dead

\* Every variable keeps its type.
THEOREM TypeCorrect == Spec => []TypeOK
<1>1. Init => TypeOK
  BY IoInitType DEF Init, ProcInitial, TypeOK, ProcTypeOK, Uses
<1> QED
    BY <1>1, NextType, PTL DEF Spec

-----------------------------------------------------------------------------
(* The stop byte in a pipe *)

LEMMA EmptyHasNoStop == ~StopIn(<<>>)
BY DEF StopIn

LEMMA WakeAddsNoStop ==
  ASSUME pipe \in [Gens -> Seq({"wake", "stop"})], NEW g \in Gens, StopIn(Written("wake")[g])
  PROVE  HasStop(g)
BY DEF Written, StopIn, HasStop

LEMMA ReadAddsNoStop ==
  ASSUME NEW s \in Seq({"wake", "stop"}), s # <<>>, ~StopIn(s)
  PROVE  Head(s) = "wake" /\ ~StopIn(Tail(s))
BY DEF StopIn

-----------------------------------------------------------------------------
(* The invariant of the life cycle *)

LEMMA ProcessLifecycle == TypeOK /\ LifecycleInv /\ Process => LifecycleInv'
<1> SUFFICES ASSUME TypeOK, LifecycleInv, ProcStep PROVE LifecycleInv'
    BY DEF Process
<1> USE IoAssumption, EmptyHasNoStop
    DEF TypeOK, IoTypeOK, ProcTypeOK, LifecycleInv, OpenIsInitialized, FutureIsUntouched,
        StopThenDeinit, InitMeansPolling, StartedHasLoop, SpawnedIsCurrent, FlagIsInitial,
        NotStartedYet, StartedIsUp, CtlMatchesInit, HasStop, Running,
        kernelVars, stateVars, tableVars, loopVars
<1>1. CASE ProcInit
  <2>1. /\ ctl = "idle" /\ ~m_init /\ ~m_init' /\ ctl' \in {"idle", "start"}
        /\ UNCHANGED <<pipe, wakePolled, polled, lpc, wakeup_flag>>
    BY <1>1 DEF ProcInit, ModuleInit
  <2>2. \/ UNCHANGED <<m_state, m_epollFd, generation>>
        \/ /\ generation' = generation + 1
           /\ generation' \in Gens
           /\ m_epollFd' = generation'
           /\ m_state' = "INITIALIZED"
    <3>1. ModuleInit(TRUE) \/ ModuleInit(FALSE)
      BY <1>1 DEF ProcInit
    <3>2. CASE ModuleInit(FALSE)
      BY <3>2 DEF ModuleInit
    <3>3. CASE ModuleInit(TRUE) /\ m_state # "CREATED"
      BY <3>3 DEF ModuleInit
    <3>4. CASE ModuleInit(TRUE) /\ m_state = "CREATED"
      <4>1. generation < MaxGen /\ generation' = generation + 1 /\ m_epollFd' = generation + 1
            /\ m_state' = "INITIALIZED"
        BY <3>4 DEF ModuleInit
      <4> QED
        BY <4>1
    <3> QED
      BY <3>1, <3>2, <3>3, <3>4
  <2>3. CASE UNCHANGED <<m_state, m_epollFd, generation>>
    BY <2>1, <2>3
  <2>4. CASE generation' = generation + 1 /\ generation' \in Gens
             /\ m_epollFd' = generation' /\ m_state' = "INITIALIZED"
    <3>1. m_epollFd' \in Gens /\ m_epollFd' > generation
      BY <2>4
    <3>2. /\ ~wakePolled'[m_epollFd'] /\ pipe'[m_epollFd'] = <<>> /\ lpc'[m_epollFd'] = "none"
      BY <2>1, <3>1
    <3>3. NotStartedYet'
      BY <3>2
    <3>4. FutureIsUntouched' /\ SpawnedIsCurrent'
      BY <2>1, <2>4
    <3> QED
      BY <2>1, <2>4, <3>3, <3>4
  <2> QED
    BY <2>2, <2>3, <2>4
<1>2. CASE ProcStart
  <2>1. /\ UNCHANGED <<m_state, m_epollFd, generation, pipe, polled, wakeup_flag>>
        /\ ctl = "start"
    BY <1>2 DEF ProcStart, ModuleStart
  <2>2. CASE ModuleStart(TRUE) /\ m_init' = TRUE /\ ctl' = "idle"
    <3>1. /\ m_state = "INITIALIZED" /\ m_epollFd \in Gens /\ ~wakePolled[m_epollFd]
          /\ wakePolled' = [wakePolled EXCEPT ![m_epollFd] = TRUE]
          /\ lpc' = [lpc EXCEPT ![m_epollFd] = "spawned"]
      BY <2>2 DEF ModuleStart
    <3>2. lpc[m_epollFd] = "none" /\ ~StopIn(pipe[m_epollFd])
      BY <3>1
    <3>a. \A g \in Gens : g # m_epollFd => lpc'[g] = lpc[g] /\ wakePolled'[g] = wakePolled[g]
      BY <3>1
    <3>b. SpawnedIsCurrent' /\ FlagIsInitial'
      BY <2>1, <2>2, <3>1, <3>2
    <3>3. FutureIsUntouched'
      <4>1. \A g \in Gens : g > generation => g # m_epollFd
        BY <3>1
      <4>2. \A g \in Gens : g > generation =>
              ~wakePolled'[g] /\ polled'[g] = {} /\ pipe'[g] = <<>> /\ lpc'[g] = "none"
        BY <2>1, <3>a, <4>1
      <4> QED
        BY <2>1, <4>2
    <3>4. wakePolled'[m_epollFd'] /\ lpc'[m_epollFd'] = "spawned"
      BY <2>1, <3>1
    <3>5. InitMeansPolling' /\ NotStartedYet'
      BY <2>1, <3>1, <3>4
    <3> QED
      BY <2>1, <2>2, <3>1, <3>b, <3>3, <3>5
  <2>3. CASE ModuleStart(FALSE) /\ m_init' = FALSE /\ ctl' = "undo"
    BY <2>1, <2>3 DEF ModuleStart
  <2> QED
    BY <1>2, <2>2, <2>3 DEF ProcStart
<1>3. CASE ProcUndo
  <2>1. ModuleDeinit(TRUE) \/ ModuleDeinit(FALSE)
    BY <1>3 DEF ProcUndo
  <2> QED
    BY <1>3, <2>1 DEF ProcUndo, ModuleDeinit
<1>4. CASE ProcStop
  <2>1. CASE ModuleStop(TRUE) /\ ctl' = "deinit"
    BY <1>4, <2>1 DEF ProcStop, ModuleStop, Written
  <2>2. CASE ModuleStop(FALSE) /\ ctl' = "idle"
    BY <1>4, <2>2 DEF ProcStop, ModuleStop
  <2> QED
    BY <1>4, <2>1, <2>2 DEF ProcStop
<1>5. CASE ProcDeinit
  <2>1. CASE ModuleDeinit(TRUE) /\ m_init' = FALSE
    BY <1>5, <2>1 DEF ProcDeinit, ModuleDeinit
  <2>2. ~ModuleDeinit(FALSE)
    BY <1>5 DEF ProcDeinit, ModuleDeinit
  <2> QED
    BY <1>5, <2>1, <2>2 DEF ProcDeinit
<1> QED
    BY <1>1, <1>2, <1>3, <1>4, <1>5 DEF ProcStep

LEMMA OwnerLifecycle == TypeOK /\ LifecycleInv /\ OwnerStep => LifecycleInv'
<1> SUFFICES ASSUME TypeOK, LifecycleInv, OwnerStep PROVE LifecycleInv'
    OBVIOUS
<1>1. /\ UNCHANGED <<m_init, ctl, m_state, m_epollFd, generation, pipe, wakePolled>>
      /\ UNCHANGED <<lpc, wakeup_flag>>
      /\ \A g \in Gens : polled'[g] \subseteq polled[g]
  <2> USE DEF TypeOK, IoTypeOK, kernelVars, stateVars, loopVars, ioVars, procVars
  <2>1. CASE \E m \in Members : Open(m)
    BY <2>1 DEF Open
  <2>2. CASE \E m \in Members : Close(m)
    BY <2>2 DEF Close, KernelClose
  <2>3. CASE \E c \in Callers, m \in Members : BeginAdd(c, m)
    BY <2>3 DEF BeginAdd, CallAdd
  <2>4. CASE \E c \in Callers, m \in Members : BeginRemove(c, m)
    BY <2>4 DEF BeginRemove, CallRemove
  <2> QED
    BY <2>1, <2>2, <2>3, <2>4 DEF OwnerStep
<1> QED
    BY <1>1 DEF LifecycleInv, OpenIsInitialized, FutureIsUntouched,
        StopThenDeinit, InitMeansPolling, StartedHasLoop, SpawnedIsCurrent, FlagIsInitial,
        NotStartedYet, StartedIsUp, CtlMatchesInit, HasStop, Running

LEMMA CallLifecycle ==
  ASSUME TypeOK, LifecycleInv, NEW c \in Callers, CallStep(c)
  PROVE  LifecycleInv'
<1>1. /\ UNCHANGED <<m_init, ctl, m_state, m_epollFd, generation, wakePolled>>
      /\ UNCHANGED <<lpc, wakeup_flag>>
    BY DEF CallStep, AddStep, RemoveStep, AddEntry, AddCtl, AddWakeup, RemoveEntry, RemoveCtl,
           kernelVars, stateVars, loopVars, procVars
<1>2. \A g \in Gens : HasStop(g)' => HasStop(g)
    BY WakeAddsNoStop
    DEF CallStep, AddStep, RemoveStep, AddEntry, AddCtl, AddWakeup, RemoveEntry, RemoveCtl,
        kernelVars, TypeOK, IoTypeOK, HasStop
<1>3. \A g \in Gens : g > generation => pipe'[g] = <<>> /\ polled'[g] = {}
  <2> USE DEF LifecycleInv, FutureIsUntouched, TypeOK, IoTypeOK
  <2>1. \A g \in Gens : g > generation => g # m_epollFd
    BY IoAssumption
  <2>2. \A g \in Gens : g # m_epollFd => pipe'[g] = pipe[g] /\ polled'[g] = polled[g]
    <3>1. ASSUME AddEntry(c) \/ RemoveEntry(c) PROVE UNCHANGED <<pipe, polled>>
      BY <3>1 DEF AddEntry, RemoveEntry, kernelVars
    <3>2. ASSUME NEW ok, AddCtl(c, ok)
          PROVE  pipe' = pipe /\ \A g \in Gens : g # m_epollFd => polled'[g] = polled[g]
      BY <3>2 DEF AddCtl
    <3>3. ASSUME AddWakeup(c)
          PROVE  polled' = polled /\ \A g \in Gens : g # m_epollFd => pipe'[g] = pipe[g]
      BY <3>3 DEF AddWakeup, Written
    <3>4. ASSUME RemoveCtl(c)
          PROVE  pipe' = pipe /\ \A g \in Gens : g # m_epollFd => polled'[g] = polled[g]
      BY <3>4 DEF RemoveCtl
    <3> QED
      BY <3>1, <3>2, <3>3, <3>4 DEF CallStep, AddStep, RemoveStep
  <2> QED
    BY <2>1, <2>2
<1> QED
    BY <1>1, <1>2, <1>3 DEF TypeOK, IoTypeOK, LifecycleInv, OpenIsInitialized, FutureIsUntouched,
        StopThenDeinit, InitMeansPolling, StartedHasLoop, SpawnedIsCurrent, FlagIsInitial,
        NotStartedYet, StartedIsUp, CtlMatchesInit, Running

LEMMA PollingLifecycle ==
  ASSUME TypeOK, LifecycleInv, NEW g \in Gens, PollingThread(g)
  PROVE  LifecycleInv'
<1> USE IoAssumption
    DEF TypeOK, IoTypeOK, ProcTypeOK, LifecycleInv, OpenIsInitialized, FutureIsUntouched,
        StopThenDeinit, InitMeansPolling, StartedHasLoop, SpawnedIsCurrent, FlagIsInitial,
        NotStartedYet, StartedIsUp, CtlMatchesInit, HasStop, Running, LoopPcs,
        kernelVars, stateVars, tableVars, loopVars, procVars
<1>0. UNCHANGED procVars
    BY DEF PollingThread
<1>1. CASE ThreadStart(g)
  <2>1. /\ lpc[g] = "spawned" /\ lpc' = [lpc EXCEPT ![g] = "wait"] /\ m_state' = "STARTED"
        /\ UNCHANGED <<m_init, ctl, m_epollFd, generation, pipe, wakePolled, polled, wakeup_flag>>
    BY <1>0, <1>1 DEF ThreadStart
  <2>2. /\ m_init /\ ctl = "idle" /\ g = m_epollFd /\ ~StopIn(pipe[g])
        /\ wakeup_flag[g] = "wake"
    BY <2>1
  <2>3. lpc'[g] = "wait" /\ \A h \in Gens \ {g} : lpc'[h] = lpc[h]
    BY <2>1
  <2>4. OpenIsInitialized' /\ StopThenDeinit' /\ StartedIsUp' /\ CtlMatchesInit'
    BY <2>1, <2>2
  <2>5. FutureIsUntouched' /\ FlagIsInitial'
    BY <2>1, <2>2, <2>3
  <2>6. InitMeansPolling' /\ StartedHasLoop' /\ NotStartedYet'
    BY <2>1, <2>2, <2>3
  <2>7. SpawnedIsCurrent'
    BY <2>1, <2>2, <2>3
  <2> QED
    BY <2>4, <2>5, <2>6, <2>7 DEF LifecycleInv
<1>2. CASE EpollEnter(g)
    BY <1>0, <1>2, ZenonT(60) DEF EpollEnter
<1>3. CASE EpollReturn(g)
    BY <1>0, <1>3, ZenonT(60) DEF EpollReturn
<1>4. CASE ScanFreed(g)
    BY <1>0, <1>4 DEF ScanFreed
<1>5. CASE ScanWake(g)
    BY <1>0, <1>5, ReadAddsNoStop, ZenonT(60) DEF ScanWake
<1>6. ASSUME NEW callback \in {"onReadAvailable", "onIoError"}, ScanMember(g, callback)
      PROVE LifecycleInv'
  <2>1. /\ lpc' = lpc \/ lpc' = [lpc EXCEPT ![g] = callback]
        /\ lpc[g] = "scan"
    BY <1>6 DEF ScanMember
  <2>2. UNCHANGED <<kernelVars, stateVars, wakeup_flag>>
    BY <1>6 DEF ScanMember
  <2> QED
    BY <1>0, <2>1, <2>2, ZenonT(60)
<1>7. CASE CallbackReturn(g)
    BY <1>0, <1>7, ZenonT(60) DEF CallbackReturn, InCallback
<1>8. CASE BatchDone(g)
    BY <1>0, <1>8, ZenonT(60) DEF BatchDone
<1>9. CASE ThreadExit(g)
    BY <1>0, <1>9, ZenonT(60) DEF ThreadExit
<1> QED
    BY <1>1, <1>2, <1>3, <1>4, <1>5, <1>6, <1>7, <1>8, <1>9 DEF PollingThread, LoopStep

LEMMA LifecycleNext == TypeOK /\ LifecycleInv /\ [Next]_vars => LifecycleInv'
<1> SUFFICES ASSUME TypeOK, LifecycleInv, [Next]_vars PROVE LifecycleInv'
    OBVIOUS
<1>1. CASE UNCHANGED vars
    BY <1>1 DEF LifecycleInv, OpenIsInitialized, FutureIsUntouched,
        StopThenDeinit, InitMeansPolling, StartedHasLoop, SpawnedIsCurrent, FlagIsInitial,
        NotStartedYet, StartedIsUp, CtlMatchesInit, HasStop, Running,
        vars, ioVars, kernelVars, stateVars, tableVars, loopVars, procVars
<1> QED
    BY <1>1, ProcessLifecycle, OwnerLifecycle, CallLifecycle, PollingLifecycle DEF Next, Dead

LEMMA LifecycleAlways == Spec => []LifecycleInv
<1>1. Init => LifecycleInv
    BY EmptyHasNoStop, IoAssumption
    DEF Init, IoInit, ProcInitial, LifecycleInv, OpenIsInitialized, FutureIsUntouched,
        StopThenDeinit, InitMeansPolling, StartedHasLoop, SpawnedIsCurrent, FlagIsInitial,
        NotStartedYet, StartedIsUp, CtlMatchesInit
<1> QED
    BY <1>1, LifecycleNext, TypeCorrect, PTL DEF Spec

\* DericProcess::deinit cannot fail between its stop and its deinit.
THEOREM DeinitFollowsStop == Spec => []StopThenDeinit
<1>1. LifecycleInv => StopThenDeinit
    BY DEF LifecycleInv
<1> QED
    BY <1>1, LifecycleAlways, PTL

\* m_init never outlives the epoll object, its pipe or its polling thread.
THEOREM InitIsBacked == Spec => []InitMeansPolling
<1>1. LifecycleInv => InitMeansPolling
    BY DEF LifecycleInv
<1> QED
    BY <1>1, LifecycleAlways, PTL

\* STARTED is never a leftover of a thread that was told to stop.
THEOREM StartedIsBacked == Spec => []StartedHasLoop
<1>1. LifecycleInv => StartedHasLoop
    BY DEF LifecycleInv
<1> QED
    BY <1>1, LifecycleAlways, PTL

-----------------------------------------------------------------------------
(* The invariant of the owners *)

\* Steps that neither touch the table, the calls and the owners nor add a
\* descriptor to the set of an open epoll object.
LEMMA OwnersFrame ==
  ASSUME OwnersInv, UNCHANGED <<tableVars, call, ownerVars>>,
         m_epollFd' # NoEpoll => polled'[m_epollFd'] = {} \/
            (m_epollFd' = m_epollFd /\ polled'[m_epollFd] = polled[m_epollFd])
  PROVE  OwnersInv'
BY DEF OwnersInv, MutexNeverKept, FdsAreOwned, CallsAreOwned, TableIsOwned, Inserted,
       AddOps, RemoveOps, PolledIsRegistered, Registered, tableVars, ownerVars

LEMMA ProcessOwners == TypeOK /\ LifecycleInv /\ OwnersInv /\ Process => OwnersInv'
<1> SUFFICES ASSUME TypeOK, LifecycleInv, OwnersInv, ProcStep, UNCHANGED ownerVars
             PROVE OwnersInv'
    BY DEF Process
<1>1. UNCHANGED <<tableVars, call, polled>>
    BY DEF ProcStep, ProcInit, ProcStart, ProcUndo, ProcStop, ProcDeinit, ModuleInit,
           ModuleDeinit, ModuleStart, ModuleStop, kernelVars, stateVars, tableVars
<1>2. \/ m_epollFd' \in {m_epollFd, NoEpoll}
      \/ m_epollFd' = generation + 1 /\ generation < MaxGen
    BY DEF ProcStep, ProcInit, ProcStart, ProcUndo, ProcStop, ProcDeinit, ModuleInit,
           ModuleDeinit, ModuleStart, ModuleStop, stateVars
<1>3. m_epollFd' = generation + 1 /\ generation < MaxGen => polled[m_epollFd'] = {}
    BY IoAssumption DEF LifecycleInv, FutureIsUntouched, TypeOK, IoTypeOK
<1> QED
    BY <1>1, <1>2, <1>3, OwnersFrame

LEMMA PollingOwners ==
  ASSUME OwnersInv, NEW g \in Gens, PollingThread(g)
  PROVE  OwnersInv'
<1>1. UNCHANGED <<tableVars, call, ownerVars, polled, m_epollFd>>
    BY DEF PollingThread, LoopStep, ThreadStart, EpollEnter, EpollReturn, ScanFreed, ScanWake,
           ScanMember, CallbackReturn, BatchDone, ThreadExit, kernelVars, stateVars
<1> QED
    BY <1>1, OwnersFrame

\* An idle caller begins a call about a member that no other call is about.
LEMMA BeginKeepsOwners ==
  ASSUME TypeOK, OwnersInv, NEW c \in Callers, NEW m \in Members,
         NEW op \in {"add", "remove"},
         call[c].op = "none",
         use[m] = (IF op = "add" THEN "open" ELSE "added"),
         use' = [use EXCEPT ![m] = IF op = "add" THEN "adding" ELSE "removing"],
         call' = [call EXCEPT ![c] = [op |-> op, m |-> m, fd |-> fdOf[m]]],
         UNCHANGED <<m_ioMembers, m_ioMembersMutex, fdOf, polled, m_epollFd>>
  PROVE  OwnersInv'
<1> USE IoAssumption
    DEF TypeOK, IoTypeOK, Uses, OwnersInv, MutexNeverKept, FdsAreOwned, CallsAreOwned,
        TableIsOwned, Inserted, AddOps, RemoveOps, PolledIsRegistered, Registered
<1>1. FdsAreOwned'
    OBVIOUS
<1>2. \A d \in Callers : call[d].op # "none" => call[d].m # m /\ d # c /\ call'[d] = call[d]
    OBVIOUS
<1>3. \A d \in Callers : d # c => call'[d] = call[d]
    OBVIOUS
<1>4. call'[c].op = op /\ call'[c].m = m /\ call'[c].fd = fdOf[m]
    OBVIOUS
<1>5. \A d \in Callers : call[d].op = "none" => call[d].m = NoMember
    BY DEF IdleCall
<1>6. CallsAreOwned'
  <2>1. \A d \in Callers : call'[d].op = "none" => call'[d] = IdleCall
    BY <1>3, <1>4
  <2>2. \A d \in Callers : call'[d].op # "none" =>
          /\ call'[d].m \in Members
          /\ call'[d].fd = fdOf'[call'[d].m]
          /\ use'[call'[d].m] = IF call'[d].op \in AddOps THEN "adding" ELSE "removing"
    BY <1>2, <1>3, <1>4
  <2>3. \A d, e \in Callers : call'[d].op # "none" /\ call'[d].m = call'[e].m => d = e
    <3> SUFFICES ASSUME NEW d \in Callers, NEW e \in Callers, d # e,
                        call'[d].op # "none", call'[d].m = call'[e].m
                 PROVE  FALSE
      OBVIOUS
    <3>1. CASE d = c
      <4>1. call[e].m = m
        BY <3>1, <1>3, <1>4
      <4> QED
        <5> HIDE DEF OwnersInv, TableIsOwned, PolledIsRegistered, FdsAreOwned, CallsAreOwned,
                     TypeOK, IoTypeOK
        <5>1. call[e].op = "none"
          BY <4>1, <1>2
        <5> QED
          BY <4>1, <5>1, <1>5, IoAssumption
    <3>2. CASE e = c
      BY <3>2, <1>2, <1>3, <1>4
    <3>3. CASE d # c /\ e # c
      BY <3>3, <1>3
    <3> QED
      BY <3>1, <3>2, <3>3
  <2> QED
    BY <2>1, <2>2, <2>3
<1>7. TableIsOwned'
  <2>1. \A fd \in Fds : Registered(fd) =>
          /\ fdOf'[m_ioMembers'[fd]] = fd
          /\ \/ use'[m_ioMembers'[fd]] = "added"
             \/ \E d \in Callers : call'[d].m = m_ioMembers'[fd] /\ call'[d].op \in Inserted
    <3> SUFFICES ASSUME NEW fd \in Fds, Registered(fd)
                 PROVE  \/ use'[m_ioMembers[fd]] = "added"
                        \/ \E d \in Callers : call'[d].m = m_ioMembers[fd] /\ call'[d].op \in Inserted
      OBVIOUS
    <3>1. CASE m_ioMembers[fd] = m
      BY <3>1, <1>2, <1>4
    <3>2. CASE m_ioMembers[fd] # m
      BY <3>2, <1>2, <1>3
    <3> QED
      BY <3>1, <3>2
  <2>2. \A n \in Members : use'[n] = "added" => m_ioMembers'[fdOf'[n]] = n
    OBVIOUS
  <2>3. \A d \in Callers : call'[d].op \in Inserted => m_ioMembers'[call'[d].fd] = call'[d].m
    BY <1>3, <1>4
  <2> QED
    BY <2>1, <2>2, <2>3
<1>8. PolledIsRegistered'
    BY <1>2
<1> QED
    BY <1>1, <1>6, <1>7, <1>8

LEMMA OwnerOwners == TypeOK /\ LifecycleInv /\ OwnersInv /\ OwnerStep => OwnersInv'
<1> SUFFICES ASSUME TypeOK, LifecycleInv, OwnersInv, OwnerStep PROVE OwnersInv'
    OBVIOUS
<1> USE IoAssumption
    DEF TypeOK, IoTypeOK, OwnersInv, MutexNeverKept, FdsAreOwned, CallsAreOwned, TableIsOwned,
        Inserted, AddOps, RemoveOps, PolledIsRegistered, Registered,
        kernelVars, stateVars, tableVars, loopVars, ioVars
<1>1. ASSUME NEW m \in Members, Open(m) PROVE OwnersInv'
    BY <1>1 DEF Open, Uses
<1>2. ASSUME NEW m \in Members, Close(m) PROVE OwnersInv'
  <2>1. /\ use[m] = "removed" /\ fdOf[m] \in Fds
        /\ use' = [use EXCEPT ![m] = "closed"] /\ fdOf' = [fdOf EXCEPT ![m] = NoFd]
        /\ polled' = [g \in Gens |-> polled[g] \ {fdOf[m]}]
        /\ UNCHANGED <<m_ioMembers, m_ioMembersMutex, call, m_epollFd>>
    BY <1>2 DEF Close, KernelClose, Uses
  <2>a. \A c \in Callers : call[c].op # "none" => call[c].m # m
    BY <2>1
  <2>2. \A fd \in Fds : m_ioMembers[fd] # m
    <3> SUFFICES ASSUME NEW fd \in Fds, m_ioMembers[fd] = m PROVE FALSE
      OBVIOUS
    <3>1. Registered(fd)
      OBVIOUS
    <3>2. PICK c \in Callers : call[c].m = m /\ call[c].op \in Inserted
      BY <2>1, <3>1
    <3> QED
      BY <2>a, <3>2
  <2>3. FdsAreOwned'
    BY <2>1
  <2>4. CallsAreOwned'
    BY <2>1
  <2>5. TableIsOwned'
    BY <2>1, <2>2
  <2>6. PolledIsRegistered'
    BY <2>1
  <2> QED
    BY <2>1, <2>3, <2>4, <2>5, <2>6
<1>3. ASSUME NEW c \in Callers, NEW m \in Members, BeginAdd(c, m) PROVE OwnersInv'
  <2>1. /\ call[c].op = "none" /\ use[m] = "open"
        /\ use' = [use EXCEPT ![m] = "adding"]
        /\ UNCHANGED <<m_ioMembers, m_ioMembersMutex, fdOf, polled, m_epollFd>>
    BY <1>3 DEF BeginAdd, CallAdd, MayCall, IdleCall
  <2>2. call' = [call EXCEPT ![c] = [op |-> "add", m |-> m, fd |-> fdOf[m]]]
    BY <1>3 DEF BeginAdd, CallAdd
  <2> QED
    <3>0. "add" \in {"add", "remove"}
      OBVIOUS
    <3> HIDE DEF TypeOK, IoTypeOK, OwnersInv, MutexNeverKept, FdsAreOwned, CallsAreOwned,
                 TableIsOwned, PolledIsRegistered, Registered
    <3> QED
      BY <2>1, <2>2, <3>0, BeginKeepsOwners
<1>4. ASSUME NEW c \in Callers, NEW m \in Members, BeginRemove(c, m) PROVE OwnersInv'
  <2>1. /\ call[c].op = "none" /\ use[m] = "added"
        /\ use' = [use EXCEPT ![m] = "removing"]
        /\ UNCHANGED <<m_ioMembers, m_ioMembersMutex, fdOf, polled, m_epollFd>>
    BY <1>4 DEF BeginRemove, CallRemove, MayCall, IdleCall
  <2>2. call' = [call EXCEPT ![c] = [op |-> "remove", m |-> m, fd |-> fdOf[m]]]
    BY <1>4 DEF BeginRemove, CallRemove
  <2> QED
    <3>0. "remove" \in {"add", "remove"}
      OBVIOUS
    <3> HIDE DEF TypeOK, IoTypeOK, OwnersInv, MutexNeverKept, FdsAreOwned, CallsAreOwned,
                 TableIsOwned, PolledIsRegistered, Registered
    <3> QED
      BY <2>1, <2>2, <3>0, BeginKeepsOwners
<1> QED
    BY <1>1, <1>2, <1>3, <1>4 DEF OwnerStep

\* A call that goes on to its next step stays about the same member.
LEMMA SameFrames ==
  ASSUME CallsAreOwned, NEW c \in Callers, call[c].op # "none",
         call'[c].m = call[c].m, call'[c].fd = call[c].fd,
         \/ call[c].op \in AddOps /\ call'[c].op \in AddOps
         \/ call[c].op \in RemoveOps /\ call'[c].op \in RemoveOps,
         \A d \in Callers : d # c => call'[d] = call[d],
         UNCHANGED <<use, fdOf>>
  PROVE  CallsAreOwned'
<1> USE DEF CallsAreOwned, AddOps, RemoveOps
<1>1. \A d \in Callers : call'[d].m = call[d].m /\ call'[d].fd = call[d].fd
    OBVIOUS
<1>2. \A d \in Callers : /\ call'[d].op = "none" <=> call[d].op = "none"
                         /\ call'[d].op \in AddOps <=> call[d].op \in AddOps
    OBVIOUS
<1>3. \A d \in Callers : call'[d].op = "none" => call'[d] = IdleCall
    BY <1>2
<1> QED
    BY <1>1, <1>2, <1>3

\* A call that ends leaves its member to its owner.
LEMMA EndedCall ==
  ASSUME TypeOK, FdsAreOwned, CallsAreOwned, NEW c \in Callers, call[c].op # "none",
         NEW u \in {"added", "removed"},
         call' = [call EXCEPT ![c] = IdleCall],
         use' = [use EXCEPT ![call[c].m] = u], fdOf' = fdOf
  PROVE  FdsAreOwned' /\ CallsAreOwned'
<1>1. /\ call[c].m \in Members
      /\ use[call[c].m] \in {"adding", "removing"}
      /\ \A d \in Callers : d # c => call[d].m # call[c].m
    BY DEF CallsAreOwned
<1>2. FdsAreOwned'
    BY <1>1 DEF FdsAreOwned, TypeOK, Uses
<1>3. call'[c] = IdleCall /\ call'[c].op = "none" /\ call'[c].m = NoMember
    BY DEF IdleCall, TypeOK, IoTypeOK
<1>4. \A d \in Callers : d # c => call'[d] = call[d]
    BY DEF TypeOK, IoTypeOK
<1>5. \A d \in Callers : d # c /\ call[d].op # "none" =>
        call[d].m \in Members /\ use'[call[d].m] = use[call[d].m]
    BY <1>1 DEF CallsAreOwned, TypeOK
<1>6. CallsAreOwned'
  <2>1. \A d \in Callers : call'[d].op = "none" => call'[d] = IdleCall
    BY <1>3, <1>4 DEF CallsAreOwned
  <2>2. \A d \in Callers : call'[d].op # "none" =>
          /\ call'[d].m \in Members
          /\ call'[d].fd = fdOf'[call'[d].m]
          /\ use'[call'[d].m] = IF call'[d].op \in AddOps THEN "adding" ELSE "removing"
    BY <1>3, <1>4, <1>5 DEF CallsAreOwned
  <2>3. \A d, e \in Callers : call'[d].op # "none" /\ call'[d].m = call'[e].m => d = e
    BY <1>3, <1>4, <1>5, IoAssumption DEF CallsAreOwned
  <2> QED
    BY <2>1, <2>2, <2>3 DEF CallsAreOwned
<1> QED
    BY <1>2, <1>6

\* A call that ends has its member where Returning puts it, and the calls and
\* members of the others are as before.
LEMMA CallOwners ==
  ASSUME TypeOK, LifecycleInv, OwnersInv, NEW c \in Callers, CallStep(c)
  PROVE  OwnersInv'
<1> DEFINE m == call[c].m
           fd == call[c].fd
<1> USE IoAssumption
    DEF TypeOK, IoTypeOK, Uses, OwnersInv, MutexNeverKept, FdsAreOwned, CallsAreOwned,
        TableIsOwned, Inserted, AddOps, RemoveOps, PolledIsRegistered, Registered,
        kernelVars, stateVars, tableVars, loopVars
<1>1. /\ call[c].op # "none" /\ m \in Members /\ fd = fdOf[m] /\ fd \in Fds
      /\ use[m] = IF call[c].op \in AddOps THEN "adding" ELSE "removing"
      /\ \A d \in Callers : d # c => call[d].m # m
    BY DEF CallStep, AddStep, RemoveStep, AddEntry, AddCtl, AddWakeup, RemoveEntry, RemoveCtl
<1>2. \A n \in Members : fdOf[n] = fd => n = m
    BY <1>1
<1>3. \A d \in Callers : d # c => call'[d] = call[d]
    BY DEF CallStep, AddStep, RemoveStep, AddEntry, AddCtl, AddWakeup, RemoveEntry, RemoveCtl
<1>t. \A e \in Fds : Registered(e) =>
        /\ fdOf[m_ioMembers[e]] = e
        /\ \/ use[m_ioMembers[e]] = "added"
           \/ \E d \in Callers : call[d].m = m_ioMembers[e] /\ call[d].op \in Inserted
    OBVIOUS
<1>4. CASE AddEntry(c)
  <2>1. ~Registered(fd)
    <3> SUFFICES ASSUME Registered(fd) PROVE FALSE
      OBVIOUS
    <3>1. m_ioMembers[fd] = m
      BY <1>2
    <3>2. use[m] = "adding" /\ call[c].op = "add"
      BY <1>1, <1>4 DEF AddEntry
    <3>3. PICK d \in Callers : call[d].m = m /\ call[d].op \in Inserted
      <4>1. Registered(fd)
        OBVIOUS
      <4>2. \/ use[m_ioMembers[fd]] = "added"
            \/ \E d \in Callers : call[d].m = m_ioMembers[fd] /\ call[d].op \in Inserted
        <5> HIDE DEF Registered, OwnersInv, TypeOK, Inserted
        <5> QED
          BY <1>1, <1>t, <4>1
      <4> HIDE DEF OwnersInv, TypeOK
      <4> QED
        BY <3>1, <3>2, <4>2
    <3>4. d = c
      BY <1>1, <3>3
    <3> QED
      BY <3>2, <3>3, <3>4
  <2>2. /\ m_ioMembers' = [m_ioMembers EXCEPT ![fd] = m]
        /\ call' = [call EXCEPT ![c].op = "addCtl"]
        /\ UNCHANGED <<m_ioMembersMutex, polled, m_epollFd>>
    BY <1>4, <2>1 DEF AddEntry
  <2>3. call'[c].op = "addCtl" /\ call'[c].m = m /\ call'[c].fd = fd /\ call'[c] # IdleCall
    BY <2>2, FrameUpdate DEF IdleCall
  <2>4. UNCHANGED <<use, fdOf>>
    BY <1>4, <2>3 DEF CallStep, AddStep, RemoveStep, AddEntry, RemoveEntry, RemoveCtl, Returning
  <2>5. CallsAreOwned'
    <3>1. call[c].op = "add"
      BY <1>4 DEF AddEntry
    <3> HIDE DEF CallsAreOwned
    <3> QED
      BY <1>1, <1>3, <2>3, <2>4, <3>1, SameFrames
  <2>6. TableIsOwned'
    <3>1. \A d \in Callers : call[d].op \in Inserted => call[d].fd # fd /\ d # c
      <4> SUFFICES ASSUME NEW d \in Callers, call[d].op \in Inserted
                   PROVE  call[d].fd # fd /\ d # c
        OBVIOUS
      <4>1. d # c
        BY <1>4 DEF AddEntry
      <4>2. m_ioMembers[call[d].fd] = call[d].m /\ call[d].m \in Members
        OBVIOUS
      <4>3. call[d].fd # fd
        BY <1>1, <2>1, <4>2
      <4> QED
        BY <4>1, <4>3
    <3>2. \A n \in Members : use[n] = "added" => fdOf[n] # fd
      BY <1>1, <1>2
    <3>3. \A e \in Fds : Registered(e)' =>
            /\ fdOf'[m_ioMembers'[e]] = e
            /\ \/ use'[m_ioMembers'[e]] = "added"
               \/ \E d \in Callers : call'[d].m = m_ioMembers'[e] /\ call'[d].op \in Inserted
      <4> SUFFICES ASSUME NEW e \in Fds, Registered(e)'
                   PROVE  /\ fdOf[m_ioMembers'[e]] = e
                          /\ \/ use[m_ioMembers'[e]] = "added"
                             \/ \E d \in Callers : call'[d].m = m_ioMembers'[e] /\ call'[d].op \in Inserted
        BY <2>4
      <4>1. CASE e = fd
        BY <4>1, <1>1, <2>2, <2>3
      <4>2. CASE e # fd
        BY <4>2, <1>3, <2>2, <3>1
      <4> QED
        BY <4>1, <4>2
    <3>4. \A n \in Members : use'[n] = "added" => m_ioMembers'[fdOf'[n]] = n
      BY <2>2, <2>4, <3>2
    <3>5. \A d \in Callers : call'[d].op \in Inserted => m_ioMembers'[call'[d].fd] = call'[d].m
      BY <1>1, <1>3, <2>2, <2>3, <3>1
    <3> QED
      BY <3>3, <3>4, <3>5
  <2>7. PolledIsRegistered'
    BY <1>1, <1>3, <1>4, <2>2, <2>3 DEF AddEntry
  <2>8. MutexNeverKept' /\ FdsAreOwned'
    BY <2>2, <2>4
  <2> HIDE DEF TypeOK, IoTypeOK, MutexNeverKept, FdsAreOwned, CallsAreOwned, TableIsOwned,
               PolledIsRegistered
  <2> QED
    BY <2>5, <2>6, <2>7, <2>8
<1>5. ASSUME NEW ok \in BOOLEAN, AddCtl(c, ok) PROVE OwnersInv'
  <2>1. /\ call[c].op = "addCtl" /\ call' = [call EXCEPT ![c].op = "addWake"]
        /\ UNCHANGED <<m_ioMembers, m_ioMembersMutex, m_epollFd>>
        /\ \A e \in Fds : m_epollFd # NoEpoll /\ e \in polled'[m_epollFd] =>
             e \in polled[m_epollFd] \/ e = fd
    BY <1>5 DEF AddCtl
  <2>2. call'[c].op = "addWake" /\ call'[c].m = m /\ call'[c].fd = fd /\ call'[c] # IdleCall
    BY <2>1, FrameUpdate DEF IdleCall
  <2>3. UNCHANGED <<use, fdOf>>
    BY <2>1, <2>2
    DEF CallStep, AddStep, RemoveStep, AddEntry, AddWakeup, RemoveEntry, RemoveCtl, Returning
  <2>4. CallsAreOwned'
    <3> HIDE DEF CallsAreOwned
    <3> QED
      BY <1>1, <1>3, <2>1, <2>2, <2>3, SameFrames
  <2>5. TableIsOwned'
    <3>1. \A d \in Callers : /\ call'[d].m = call[d].m /\ call'[d].fd = call[d].fd
                             /\ call'[d].op \in Inserted <=> call[d].op \in Inserted
      BY <1>3, <2>1, <2>2
    <3> QED
      BY <2>1, <2>3, <3>1
  <2>6. PolledIsRegistered'
    <3>1. Registered(fd)
      BY <1>1, <2>1
    <3>2. \A d \in Callers : call[d].op = "delCtl" => d # c
      BY <2>1
    <3> QED
      BY <1>3, <2>1, <3>1, <3>2
  <2> QED
    BY <2>1, <2>3, <2>4, <2>5, <2>6
<1>6. CASE AddWakeup(c)
  <2>1. /\ call[c].op = "addWake" /\ call' = [call EXCEPT ![c] = IdleCall]
        /\ UNCHANGED <<m_ioMembers, m_ioMembersMutex, m_epollFd, polled>>
    BY <1>6 DEF AddWakeup
  <2>2. use' = [use EXCEPT ![m] = "added"] /\ fdOf' = fdOf
    BY <2>1 DEF CallStep, AddStep, RemoveStep, RemoveEntry, RemoveCtl, Returning
  <2>3. FdsAreOwned' /\ CallsAreOwned'
    <3> HIDE DEF TypeOK, FdsAreOwned, CallsAreOwned
    <3>1. FdsAreOwned /\ CallsAreOwned
      BY DEF OwnersInv
    <3> QED
      BY <1>1, <2>1, <2>2, <3>1, EndedCall
  <2>4. TableIsOwned'
    <3>1. m_ioMembers[fd] = m
      BY <1>1, <2>1
    <3>2. \A d \in Callers : call'[d].op \in Inserted => d # c
      BY <2>1 DEF IdleCall
    <3>3. \A e \in Fds : Registered(e)' =>
            /\ fdOf'[m_ioMembers'[e]] = e
            /\ \/ use'[m_ioMembers'[e]] = "added"
               \/ \E d \in Callers : call'[d].m = m_ioMembers'[e] /\ call'[d].op \in Inserted
      <4> SUFFICES ASSUME NEW e \in Fds, Registered(e)
                   PROVE  /\ fdOf[m_ioMembers[e]] = e
                          /\ \/ use'[m_ioMembers[e]] = "added"
                             \/ \E d \in Callers : call'[d].m = m_ioMembers[e] /\ call'[d].op \in Inserted
        BY <2>1, <2>2
      <4>1. CASE m_ioMembers[e] = m
        BY <4>1, <1>t, <1>1, <2>2
      <4>2. CASE m_ioMembers[e] # m
        <5>1. m_ioMembers[e] \in Members /\ use'[m_ioMembers[e]] = use[m_ioMembers[e]]
          BY <4>2, <2>2
        <5> HIDE DEF OwnersInv, TypeOK, Registered, Inserted
        <5> QED
          BY <4>2, <5>1, <1>t, <1>3
      <4> QED
        BY <4>1, <4>2
    <3>4. \A n \in Members : use'[n] = "added" => m_ioMembers'[fdOf'[n]] = n
      BY <1>1, <2>1, <2>2, <3>1
    <3>5. \A d \in Callers : call'[d].op \in Inserted => m_ioMembers'[call'[d].fd] = call'[d].m
      BY <1>3, <2>1, <3>2
    <3> QED
      BY <3>3, <3>4, <3>5
  <2>5. PolledIsRegistered'
    <3>1. \A d \in Callers : call[d].op = "delCtl" => d # c
      BY <2>1
    <3> QED
      BY <1>3, <2>1, <3>1
  <2> QED
    BY <2>1, <2>3, <2>4, <2>5
<1>7. CASE RemoveEntry(c)
  <2>1. Registered(fd)
    BY <1>1, <1>7 DEF RemoveEntry
  <2>2. /\ call[c].op = "remove" /\ call' = [call EXCEPT ![c].op = "delCtl"]
        /\ m_ioMembers' = [m_ioMembers EXCEPT ![fd] = NoMember]
        /\ UNCHANGED <<m_ioMembersMutex, m_epollFd, polled>>
    BY <1>7, <2>1 DEF RemoveEntry
  <2>3. call'[c].op = "delCtl" /\ call'[c].m = m /\ call'[c].fd = fd /\ call'[c] # IdleCall
    BY <2>2, FrameUpdate DEF IdleCall
  <2>4. UNCHANGED <<use, fdOf>>
    BY <2>2, <2>3
    DEF CallStep, AddStep, RemoveStep, AddEntry, AddCtl, AddWakeup, RemoveCtl, Returning
  <2>5. CallsAreOwned'
    <3> HIDE DEF CallsAreOwned
    <3> QED
      BY <1>1, <1>3, <2>2, <2>3, <2>4, SameFrames
  <2>6. TableIsOwned'
    <3>1. \A n \in Members : use[n] = "added" => fdOf[n] # fd
      BY <1>1, <1>2, <2>2
    <3>2. \A d \in Callers : call[d].op \in Inserted /\ d # c => call[d].fd # fd
      <4> SUFFICES ASSUME NEW d \in Callers, call[d].op \in Inserted, d # c
                   PROVE  call[d].fd # fd
        OBVIOUS
      <4>1. call[d].m \in Members /\ call[d].fd = fdOf[call[d].m] /\ call[d].m # m
        BY <1>1
      <4> QED
        BY <4>1, <1>2
    <3>3. m_ioMembers[fd] = m
      BY <1>1, <2>2
    <3>4. \A e \in Fds : Registered(e)' =>
            /\ fdOf'[m_ioMembers'[e]] = e
            /\ \/ use'[m_ioMembers'[e]] = "added"
               \/ \E d \in Callers : call'[d].m = m_ioMembers'[e] /\ call'[d].op \in Inserted
      <4> SUFFICES ASSUME NEW e \in Fds, Registered(e)'
                   PROVE  /\ fdOf'[m_ioMembers'[e]] = e
                          /\ \/ use'[m_ioMembers'[e]] = "added"
                             \/ \E d \in Callers : call'[d].m = m_ioMembers'[e] /\ call'[d].op \in Inserted
        OBVIOUS
      <4>1. e # fd /\ Registered(e) /\ m_ioMembers'[e] = m_ioMembers[e]
        BY <2>2
      <4>2. m_ioMembers[e] # m
        BY <1>1, <4>1, <1>t
      <4> HIDE DEF OwnersInv, TypeOK, Registered, Inserted
      <4> QED
        BY <4>1, <4>2, <1>t, <1>3, <2>4
    <3>5. \A n \in Members : use'[n] = "added" => m_ioMembers'[fdOf'[n]] = n
      BY <2>2, <2>4, <3>1
    <3>6. \A d \in Callers : call'[d].op \in Inserted => m_ioMembers'[call'[d].fd] = call'[d].m
      BY <1>3, <2>2, <2>3, <3>2
    <3> QED
      BY <3>4, <3>5, <3>6
  <2>7. PolledIsRegistered'
    <3>1. \A d \in Callers : call[d].op = "delCtl" => d # c
      BY <2>2
    <3> QED
      BY <1>3, <2>2, <2>3, <3>1
  <2>8. MutexNeverKept' /\ FdsAreOwned'
    BY <2>2, <2>4
  <2> HIDE DEF TypeOK, IoTypeOK, MutexNeverKept, FdsAreOwned, CallsAreOwned, TableIsOwned,
               PolledIsRegistered
  <2> QED
    BY <2>5, <2>6, <2>7, <2>8
<1>8. CASE RemoveCtl(c)
  <2>1. /\ call[c].op = "delCtl" /\ call' = [call EXCEPT ![c] = IdleCall]
        /\ UNCHANGED <<m_ioMembers, m_ioMembersMutex, m_epollFd>>
        /\ m_epollFd # NoEpoll => polled'[m_epollFd] = polled[m_epollFd] \ {fd}
    BY <1>8 DEF RemoveCtl, CanCtl, LifecycleInv, OpenIsInitialized
  <2>2. use' = [use EXCEPT ![m] = "removed"] /\ fdOf' = fdOf
    BY <2>1 DEF CallStep, AddStep, RemoveStep, AddEntry, AddCtl, AddWakeup, Returning
  <2>3. FdsAreOwned' /\ CallsAreOwned'
    <3> HIDE DEF TypeOK, FdsAreOwned, CallsAreOwned
    <3>1. FdsAreOwned /\ CallsAreOwned
      BY DEF OwnersInv
    <3> QED
      BY <1>1, <2>1, <2>2, <3>1, EndedCall
  <2>4. TableIsOwned'
    <3>1. \A d \in Callers : call'[d].op \in Inserted => d # c
      BY <2>1 DEF IdleCall
    <3>2. \A d \in Callers : call[d].op \in Inserted => d # c
      BY <2>1
    <3>3. \A e \in Fds : Registered(e) => m_ioMembers[e] # m
      <4> SUFFICES ASSUME NEW e \in Fds, Registered(e), m_ioMembers[e] = m PROVE FALSE
        OBVIOUS
      <4>1. use[m] = "removing"
        BY <1>1, <2>1
      <4> HIDE DEF OwnersInv, TypeOK, Registered, Inserted
      <4> QED
        BY <4>1, <1>t, <1>1, <3>2
    <3>4. \A e \in Fds : Registered(e)' =>
            /\ fdOf'[m_ioMembers'[e]] = e
            /\ \/ use'[m_ioMembers'[e]] = "added"
               \/ \E d \in Callers : call'[d].m = m_ioMembers'[e] /\ call'[d].op \in Inserted
      <4> SUFFICES ASSUME NEW e \in Fds, Registered(e)
                   PROVE  /\ fdOf[m_ioMembers[e]] = e
                          /\ \/ use'[m_ioMembers[e]] = "added"
                             \/ \E d \in Callers : call'[d].m = m_ioMembers[e] /\ call'[d].op \in Inserted
        BY <2>1, <2>2
      <4>1. m_ioMembers[e] \in Members /\ use'[m_ioMembers[e]] = use[m_ioMembers[e]]
        BY <2>2, <3>3
      <4> HIDE DEF OwnersInv, TypeOK, Registered, Inserted
      <4> QED
        BY <4>1, <1>t, <1>3, <3>2
    <3>5. \A n \in Members : use'[n] = "added" => m_ioMembers'[fdOf'[n]] = n
      BY <1>1, <2>1, <2>2
    <3>6. \A d \in Callers : call'[d].op \in Inserted => m_ioMembers'[call'[d].fd] = call'[d].m
      BY <1>3, <2>1, <3>1
    <3> QED
      BY <3>4, <3>5, <3>6
  <2>5. PolledIsRegistered'
    <3> SUFFICES ASSUME NEW e \in Fds, m_epollFd # NoEpoll, e \in polled'[m_epollFd]
                 PROVE  Registered(e) \/ \E d \in Callers : call'[d].op = "delCtl" /\ call'[d].fd = e
      BY <2>1
    <3>1. e \in polled[m_epollFd] /\ e # fd
      BY <2>1
    <3>2. Registered(e) \/ \E d \in Callers : call[d].op = "delCtl" /\ call[d].fd = e
      BY <3>1
    <3> HIDE DEF TypeOK, IoTypeOK, OwnersInv, MutexNeverKept, FdsAreOwned, CallsAreOwned,
                 TableIsOwned, PolledIsRegistered, Registered
    <3> QED
      BY <1>3, <3>1, <3>2
  <2>6. MutexNeverKept'
    BY <2>1
  <2> HIDE DEF TypeOK, IoTypeOK, MutexNeverKept, FdsAreOwned, CallsAreOwned, TableIsOwned,
               PolledIsRegistered
  <2> QED
    BY <2>3, <2>4, <2>5, <2>6
<1> QED
    BY <1>4, <1>5, <1>6, <1>7, <1>8 DEF CallStep, AddStep, RemoveStep

LEMMA OwnersNext == TypeOK /\ LifecycleInv /\ OwnersInv /\ [Next]_vars => OwnersInv'
<1> SUFFICES ASSUME TypeOK, LifecycleInv, OwnersInv, [Next]_vars PROVE OwnersInv'
    OBVIOUS
<1>1. CASE UNCHANGED vars
    BY <1>1, OwnersFrame DEF vars, ioVars, kernelVars, stateVars
<1> QED
    BY <1>1, ProcessOwners, OwnerOwners, CallOwners, PollingOwners DEF Next, Dead

LEMMA OwnersAlways == Spec => []OwnersInv
<1>1. Init => OwnersInv
    BY IoAssumption
    DEF Init, IoInit, OwnersInv, MutexNeverKept, FdsAreOwned, CallsAreOwned, TableIsOwned,
        Inserted, PolledIsRegistered, Registered, IdleCall
<1> QED
    BY <1>1, OwnersNext, TypeCorrect, LifecycleAlways, PTL DEF Spec

\* addIoMember and removeIoMember never return with the mutex locked when each
\* member is added once and removed once before its descriptor is closed.
THEOREM MutexIsReleased == Spec => []MutexNeverKept
<1>1. OwnersInv => MutexNeverKept
    BY DEF OwnersInv
<1> QED
    BY <1>1, OwnersAlways, PTL

\* Under the same use nothing stays in the epoll set without its member.
THEOREM NoOrphanDescriptor == Spec => []PolledIsRegistered
<1>1. OwnersInv => PolledIsRegistered
    BY DEF OwnersInv
<1> QED
    BY <1>1, OwnersAlways, PTL

\* Under the same use the table maps descriptors to their present owners.
THEOREM EventsReachOwners == Spec => []TableMatchesOwners
<1>1. OwnersInv => TableMatchesOwners
    BY DEF OwnersInv, TableIsOwned, TableMatchesOwners
<1> QED
    BY <1>1, OwnersAlways, PTL
=============================================================================
