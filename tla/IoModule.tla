------------------------------ MODULE IoModule ------------------------------
(***************************************************************************)
(* The IoModule singleton (io/src/io_module.cpp): one epoll descriptor, a  *)
(* self-pipe that wakes or stops the waiting thread, and the table of the  *)
(* members it polls.                                                       *)
(*                                                                         *)
(* This module has the state and one operator per step of the code; it has *)
(* no Next of its own.  The modules that call IoModule (DericProcess, the  *)
(* owners of members) conjoin these operators with their own steps.        *)
(*                                                                         *)
(* Granularity.  Every section under m_instanceMutex or m_ioMembersMutex   *)
(* is one step, so the only thing left to say of m_ioMembersMutex is       *)
(* whether an early exit kept it: m_ioMembersMutex is TRUE from then on.   *)
(* Between those sections, and around every epoll call, other threads run. *)
(*                                                                         *)
(* Generations.  Each successful init opens a pipe and an epoll object;    *)
(* the n-th pair, and the one thread that start can create for it, is      *)
(* called generation n.                                                    *)
(***************************************************************************)
EXTENDS Naturals, Sequences, FiniteSets

CONSTANTS
  Threads,   \* threads of the application that call addIoMember, removeIoMember
  Members,   \* IoMember objects
  Fds,       \* descriptor numbers a member may hold
  NoMember,  \* the null shared_ptr<IoMember>
  NoFd,      \* the descriptor -1
  WakeFd,    \* m_wakeUpPipeFd[0]
  MaxGen,    \* bound: pipe and epoll pairs the kernel will hand out
  MaxBytes   \* bound: wake bytes held in a pipe, more are not told apart

ASSUME IoAssumption ==
  /\ MaxGen \in Nat \ {0}
  /\ MaxBytes \in Nat
  /\ NoMember \notin Members
  /\ NoFd \notin Fds
  /\ WakeFd \notin Fds \cup {NoFd}
  /\ Threads \cap (1..MaxGen) = {}

Gens    == 1..MaxGen
NoEpoll == 0                    \* m_epollFd = -1, m_epollEvents = nullptr
Callers == Threads \cup Gens    \* the polling thread calls too, in a callback

VARIABLES
  m_state,           \* ComponentState_e of the module
  m_epollFd,         \* generation of the open epoll object, or NoEpoll
  generation,        \* how many generations were opened
  pipe,              \* bytes in the pipe of a generation: "wake" is '1', "stop" is '0'
  wakePolled,        \* is the pipe's read end in the epoll set of its generation?
  polled,            \* member descriptors in the epoll set of a generation
  m_ioMembers,       \* the member registered under a descriptor, or NoMember
  m_ioMembersMutex,  \* TRUE when a call returned without unlocking it
  call,              \* the add or remove a caller is executing
  lpc,               \* where the polling thread of a generation is
  lep,               \* the epoll object (and m_epollEvents) it last waited on
  batch,             \* the events of its last epoll_wait still to be handled
  wakeup_flag,       \* its local of that name
  cur_member,        \* its local of that name
  closedZero,        \* has deinit closed descriptor 0, which it does not own?
  crashed            \* the process died of undefined behaviour

kernelVars == <<pipe, wakePolled, polled>>
stateVars  == <<m_state, m_epollFd, generation, closedZero>>
tableVars  == <<m_ioMembers, m_ioMembersMutex>>
loopVars   == <<lpc, lep, batch, wakeup_flag, cur_member>>
ioVars     == <<kernelVars, stateVars, tableVars, loopVars, call, crashed>>

IdleCall == [op |-> "none", m |-> NoMember, fd |-> NoFd]

Frames   == [op : {"none", "add", "addCtl", "addWake", "remove", "delCtl"},
             m : Members \cup {NoMember}, fd : Fds \cup {NoFd}]

LoopPcs == {"none", "spawned", "wait", "blocked", "scan",
            "onReadAvailable", "onIoError", "exit", "done"}
InCallback(g) == lpc[g] \in {"onReadAvailable", "onIoError"}
Running(g)    == lpc[g] \in {"wait", "blocked", "scan", "onReadAvailable", "onIoError"}

IoTypeOK ==
  /\ m_state \in {"CREATED", "INITIALIZED", "STARTED"}
  /\ m_epollFd \in Gens \cup {NoEpoll}
  /\ generation \in 0..MaxGen
  /\ pipe \in [Gens -> Seq({"wake", "stop"})]
  /\ wakePolled \in [Gens -> BOOLEAN]
  /\ polled \in [Gens -> SUBSET Fds]
  /\ m_ioMembers \in [Fds -> Members \cup {NoMember}]
  /\ m_ioMembersMutex \in BOOLEAN
  /\ call \in [Callers -> Frames]
  /\ \A c \in Callers : call[c].op \in {"add", "addCtl"} => call[c].fd \in Fds
  /\ lpc \in [Gens -> LoopPcs]
  /\ lep \in [Gens -> Gens \cup {NoEpoll}]
  /\ \A g \in Gens : lpc[g] = "blocked" => lep[g] # NoEpoll
  /\ batch \in [Gens -> SUBSET (Fds \cup {WakeFd})]
  /\ wakeup_flag \in [Gens -> {"wake", "stop"}]
  /\ cur_member \in [Gens -> Members \cup {NoMember}]
  /\ closedZero \in BOOLEAN
  /\ crashed \in BOOLEAN

IoInit ==
  /\ m_state = "CREATED"
  /\ m_epollFd = NoEpoll
  /\ generation = 0
  /\ pipe = [g \in Gens |-> <<>>]
  /\ wakePolled = [g \in Gens |-> FALSE]
  /\ polled = [g \in Gens |-> {}]
  /\ m_ioMembers = [fd \in Fds |-> NoMember]
  /\ m_ioMembersMutex = FALSE
  /\ call = [c \in Callers |-> IdleCall]
  /\ lpc = [g \in Gens |-> "none"]
  /\ lep = [g \in Gens |-> NoEpoll]
  /\ batch = [g \in Gens |-> {}]
  /\ wakeup_flag = [g \in Gens |-> "wake"]
  /\ cur_member = [g \in Gens |-> NoMember]
  /\ closedZero = FALSE
  /\ crashed = FALSE

-----------------------------------------------------------------------------
(***************************************************************************)
(* init, deinit, start, stop: one section under m_instanceMutex each.  ok  *)
(* is "the call returned >= 0".  init and start may fail in the kernel.    *)
(***************************************************************************)
ModuleInit(ok) ==
  /\ UNCHANGED <<kernelVars, tableVars, loopVars, call, closedZero, crashed>>
  /\ IF m_state # "CREATED" \* already initialized
     THEN ok /\ UNCHANGED <<m_state, m_epollFd, generation>>
     ELSE \/ /\ ~ok
             /\ UNCHANGED <<m_state, m_epollFd, generation>>
          \/ /\ ok
             /\ generation < MaxGen
             /\ generation' = generation + 1
             /\ m_epollFd' = generation + 1
             /\ m_state' = "INITIALIZED"

\* The pipe descriptors are set to 0, not to -1: a second deinit closes 0.
ModuleDeinit(ok) ==
  /\ ok = (m_state = "INITIALIZED")
  /\ IF ok
     THEN /\ m_epollFd' = NoEpoll
          /\ wakePolled' = [g \in Gens |-> g # m_epollFd /\ wakePolled[g]]
          /\ closedZero' = (closedZero \/ m_epollFd = NoEpoll)
          /\ m_state' = "CREATED"
     ELSE UNCHANGED <<m_epollFd, wakePolled, closedZero, m_state>>
  /\ UNCHANGED <<generation, pipe, polled, tableVars, loopVars, call, crashed>>

\* The pipe is never taken out of the epoll set, so a second start of one
\* generation fails in epoll_ctl.  start leaves the state INITIALIZED.
ModuleStart(ok) ==
  /\ ok => /\ m_state = "INITIALIZED"
           /\ m_epollFd # NoEpoll
           /\ ~wakePolled[m_epollFd]
  /\ IF ok
     THEN /\ wakePolled' = [wakePolled EXCEPT ![m_epollFd] = TRUE]
          /\ lpc' = [lpc EXCEPT ![m_epollFd] = "spawned"]
     ELSE UNCHANGED <<wakePolled, lpc>>
  /\ UNCHANGED <<pipe, polled, stateVars, tableVars, lep, batch,
                 wakeup_flag, cur_member, call, crashed>>

\* What a write to the pipe leaves in it.
Written(byte) ==
  [g \in Gens |-> IF g = m_epollFd /\ (byte = "stop" \/ Len(pipe[g]) < MaxBytes)
                  THEN Append(pipe[g], byte) ELSE pipe[g]]

\* Wrong: stop writes the byte and leaves the state to the polling thread.
ModuleStopLate(ok) ==
  /\ ok = (m_state = "STARTED")
  /\ pipe' = IF ok THEN Written("stop") ELSE pipe
  /\ UNCHANGED <<stateVars, wakePolled, polled, tableVars, loopVars, call, crashed>>

ModuleStop(ok) ==
  /\ ok = (m_state = "STARTED")
  /\ IF ok
     THEN /\ pipe' = Written("stop")
          /\ m_state' = "INITIALIZED"
     ELSE UNCHANGED <<pipe, m_state>>
  /\ UNCHANGED <<m_epollFd, generation, closedZero, wakePolled, polled,
                 tableVars, loopVars, call, crashed>>

-----------------------------------------------------------------------------
(***************************************************************************)
(* addIoMember and removeIoMember of caller c.  The descriptor is read     *)
(* from the member before the mutex is taken.                              *)
(***************************************************************************)
Registered(fd) == fd \in Fds /\ m_ioMembers[fd] # NoMember

\* modifyEpollEvent gets as far as epoll_ctl.
CanCtl == m_epollFd # NoEpoll /\ m_state # "CREATED"

CallAdd(c, m, fd) ==
  /\ call[c] = IdleCall
  /\ call' = IF fd = NoFd THEN call
             ELSE [call EXCEPT ![c] = [op |-> "add", m |-> m, fd |-> fd]]
  /\ UNCHANGED <<kernelVars, stateVars, tableVars, loopVars, crashed>>

\* A descriptor that is already there: the call returns 0 with the mutex held.
AddEntry(c) ==
  /\ call[c].op = "add"
  /\ ~m_ioMembersMutex
  /\ IF Registered(call[c].fd)
     THEN /\ m_ioMembersMutex' = TRUE
          /\ call' = [call EXCEPT ![c] = IdleCall]
          /\ UNCHANGED m_ioMembers
     ELSE /\ m_ioMembers' = [m_ioMembers EXCEPT ![call[c].fd] = call[c].m]
          /\ call' = [call EXCEPT ![c].op = "addCtl"]
          /\ UNCHANGED m_ioMembersMutex
  /\ UNCHANGED <<kernelVars, stateVars, loopVars, crashed>>

\* The entry stays in the table when epoll_ctl fails.
AddCtl(c, ok) ==
  /\ call[c].op = "addCtl"
  /\ polled' = IF CanCtl /\ ok
               THEN [polled EXCEPT ![m_epollFd] = @ \cup {call[c].fd}]
               ELSE polled
  /\ call' = [call EXCEPT ![c].op = "addWake"]
  /\ UNCHANGED <<pipe, wakePolled, stateVars, tableVars, loopVars, crashed>>

\* wakeupModule, the last thing addIoMember does.
AddWakeup(c) ==
  /\ call[c].op = "addWake"
  /\ pipe' = IF m_state = "STARTED" THEN Written("wake") ELSE pipe
  /\ call' = [call EXCEPT ![c] = IdleCall]
  /\ UNCHANGED <<wakePolled, polled, stateVars, tableVars, loopVars, crashed>>

\* Wrong: the member has given up its descriptor before it is removed.
CallRemoveLate(c, m, fd) ==
  /\ call[c] = IdleCall
  /\ call' = [call EXCEPT ![c] = [op |-> "remove", m |-> m, fd |-> NoFd]]
  /\ UNCHANGED <<kernelVars, stateVars, tableVars, loopVars, crashed>>

CallRemove(c, m, fd) ==
  /\ call[c] = IdleCall
  /\ call' = [call EXCEPT ![c] = [op |-> "remove", m |-> m, fd |-> fd]]
  /\ UNCHANGED <<kernelVars, stateVars, tableVars, loopVars, crashed>>

\* A descriptor that is not there: the call returns -1 with the mutex held.
RemoveEntry(c) ==
  /\ call[c].op = "remove"
  /\ ~m_ioMembersMutex
  /\ IF Registered(call[c].fd)
     THEN /\ m_ioMembers' = [m_ioMembers EXCEPT ![call[c].fd] = NoMember]
          /\ call' = [call EXCEPT ![c].op = "delCtl"]
          /\ UNCHANGED m_ioMembersMutex
     ELSE /\ m_ioMembersMutex' = TRUE
          /\ call' = [call EXCEPT ![c] = IdleCall]
          /\ UNCHANGED m_ioMembers
  /\ UNCHANGED <<kernelVars, stateVars, loopVars, crashed>>

\* Wrong: the descriptor is left in the epoll set.
RemoveNoCtl(c) ==
  /\ call[c].op = "delCtl"
  /\ call' = [call EXCEPT ![c] = IdleCall]
  /\ UNCHANGED <<kernelVars, stateVars, tableVars, loopVars, crashed>>

RemoveCtl(c) ==
  /\ call[c].op = "delCtl"
  /\ polled' = IF CanCtl THEN [polled EXCEPT ![m_epollFd] = @ \ {call[c].fd}]
               ELSE polled
  /\ call' = [call EXCEPT ![c] = IdleCall]
  /\ UNCHANGED <<pipe, wakePolled, stateVars, tableVars, loopVars, crashed>>

\* The kernel's part of close(fd): the descriptor leaves every epoll set.
KernelClose(fd) ==
  polled' = [g \in Gens |-> polled[g] \ {fd}]

-----------------------------------------------------------------------------
(***************************************************************************)
(* waitThreadFunc, run by the polling thread of generation g.              *)
(***************************************************************************)
ThreadStart(g) ==
  /\ lpc[g] = "spawned"
  /\ lpc' = [lpc EXCEPT ![g] = "wait"]
  /\ m_state' = "STARTED"
  /\ UNCHANGED <<kernelVars, m_epollFd, generation, closedZero, tableVars, lep,
                 batch, wakeup_flag, cur_member, call, crashed>>

\* Wrong: epoll_wait(-1) blocks.
EpollEnterUnopened(g) ==
  /\ lpc[g] = "wait"
  /\ lep' = [lep EXCEPT ![g] = m_epollFd]
  /\ lpc' = [lpc EXCEPT ![g] = "blocked"]
  /\ UNCHANGED <<kernelVars, stateVars, tableVars, batch, wakeup_flag,
                 cur_member, call, crashed>>

\* epoll_wait(-1) returns at once and the loop comes back here: no step.
EpollEnter(g) ==
  /\ lpc[g] = "wait"
  /\ m_epollFd # NoEpoll
  /\ lep' = [lep EXCEPT ![g] = m_epollFd]
  /\ lpc' = [lpc EXCEPT ![g] = "blocked"]
  /\ UNCHANGED <<kernelVars, stateVars, tableVars, batch, wakeup_flag,
                 cur_member, call, crashed>>

PipeReadable(e) == wakePolled[e] /\ pipe[e] # <<>>

\* epoll_wait returns all that is ready (fewer than m_maxEpollSize descriptors
\* are): the pipe when it holds a byte, and any of the members.  If deinit has
\* freed the array meanwhile, the kernel writes to freed memory.
EpollReturn(g) ==
  /\ lpc[g] = "blocked"
  /\ \E ready \in SUBSET (polled[lep[g]] \cup {WakeFd}) :
       /\ ready # {}
       /\ WakeFd \in ready <=> PipeReadable(lep[g])
       /\ batch' = [batch EXCEPT ![g] = ready]
  /\ lpc' = [lpc EXCEPT ![g] = "scan"]
  /\ crashed' \in (IF lep[g] = m_epollFd THEN {FALSE} ELSE BOOLEAN)
  /\ UNCHANGED <<kernelVars, stateVars, tableVars, lep, wakeup_flag,
                 cur_member, call>>

\* What m_epollEvents[i] may hold: an event of this batch, or anything when
\* the array is another one by now or another thread is filling it too.
Event(g) ==
  IF lep[g] = m_epollFd /\ \A h \in Gens \ {g} : ~(Running(h) /\ lep[h] = lep[g])
  THEN batch[g]
  ELSE Fds \cup {WakeFd}

\* The batch without the event just handled.
Rest(g, fd) ==
  LET done == IF fd \in batch[g] THEN fd ELSE CHOOSE x \in batch[g] : TRUE
  IN [batch EXCEPT ![g] = @ \ {done}]

\* m_epollEvents is nullptr while the loop still has events to handle.
ScanFreed(g) ==
  /\ lpc[g] = "scan"
  /\ batch[g] # {}
  /\ m_epollFd = NoEpoll
  /\ crashed' = TRUE
  /\ UNCHANGED <<kernelVars, stateVars, tableVars, loopVars, call>>

\* The event is the pipe's: one byte is read (the read blocks on an empty pipe).
ScanWake(g) ==
  /\ lpc[g] = "scan"
  /\ batch[g] # {}
  /\ m_epollFd # NoEpoll
  /\ WakeFd \in Event(g)
  /\ pipe[m_epollFd] # <<>>
  /\ wakeup_flag' = [wakeup_flag EXCEPT ![g] = Head(pipe[m_epollFd])]
  /\ pipe' = [pipe EXCEPT ![m_epollFd] = Tail(@)]
  /\ batch' = Rest(g, WakeFd)
  /\ UNCHANGED <<wakePolled, polled, stateVars, tableVars, lpc, lep,
                 cur_member, call, crashed>>

\* The event is a member's: look it up under the mutex, then call it without.
\* A descriptor that is not in the table is a "wrong fd" and is skipped.
ScanMember(g, callback) ==
  /\ lpc[g] = "scan"
  /\ batch[g] # {}
  /\ m_epollFd # NoEpoll
  /\ ~m_ioMembersMutex
  /\ \E fd \in Event(g) \ {WakeFd} :
       /\ batch' = Rest(g, fd)
       /\ IF Registered(fd)
          THEN /\ cur_member' = [cur_member EXCEPT ![g] = m_ioMembers[fd]]
               /\ lpc' = [lpc EXCEPT ![g] = callback]
          ELSE UNCHANGED <<cur_member, lpc>>
  /\ UNCHANGED <<kernelVars, stateVars, tableVars, lep, wakeup_flag, call, crashed>>

\* The member's callback returns.  No member asks for its own deletion.
CallbackReturn(g) ==
  /\ InCallback(g)
  /\ call[g] = IdleCall
  /\ lpc' = [lpc EXCEPT ![g] = "scan"]
  /\ cur_member' = [cur_member EXCEPT ![g] = NoMember]
  /\ UNCHANGED <<kernelVars, stateVars, tableVars, lep, batch, wakeup_flag,
                 call, crashed>>

\* Wrong: the flag is not tested, the loop never ends ...
BatchDoneLoops(g) ==
  /\ lpc[g] = "scan"
  /\ batch[g] = {}
  /\ lpc' = [lpc EXCEPT ![g] = "wait"]
  /\ UNCHANGED <<kernelVars, stateVars, tableVars, lep, batch, wakeup_flag,
                 cur_member, call, crashed>>

\* ... or it is tested as a truth value, and '1' is as true as '0'.
BatchDoneExits(g) ==
  /\ lpc[g] = "scan"
  /\ batch[g] = {}
  /\ lpc' = [lpc EXCEPT ![g] = "exit"]
  /\ UNCHANGED <<kernelVars, stateVars, tableVars, lep, batch, wakeup_flag,
                 cur_member, call, crashed>>

BatchDone(g) ==
  /\ lpc[g] = "scan"
  /\ batch[g] = {}
  /\ lpc' = [lpc EXCEPT ![g] = IF wakeup_flag[g] = "stop" THEN "exit" ELSE "wait"]
  /\ UNCHANGED <<kernelVars, stateVars, tableVars, lep, batch, wakeup_flag,
                 cur_member, call, crashed>>

\* The last section of the thread sets the state, whatever it is by then.
ThreadExit(g) ==
  /\ lpc[g] = "exit"
  /\ lpc' = [lpc EXCEPT ![g] = "done"]
  /\ m_state' = "INITIALIZED"
  /\ UNCHANGED <<kernelVars, m_epollFd, generation, closedZero, tableVars, lep,
                 batch, wakeup_flag, cur_member, call, crashed>>

LoopStep(g) ==
  \/ ThreadStart(g) \/ EpollEnter(g) \/ EpollReturn(g) \/ ScanFreed(g)
  \/ ScanWake(g)
  \/ \E callback \in {"onReadAvailable", "onIoError"} : ScanMember(g, callback)
  \/ BatchDone(g) \/ ThreadExit(g)
=============================================================================
