------------------------------ MODULE IoOwners ------------------------------
(***************************************************************************)
(* The IoModule under DericProcess and under owners that use it the way    *)
(* TcpIoServer::start and TcpIoServer::stop do (io/src/tcp_io_server.cpp): *)
(* open a descriptor, add the member, later remove it, and only then close *)
(* the descriptor, one call at a time for each member.  The calls come     *)
(* from threads of the application and from callbacks of the polling       *)
(* thread, and the process goes up and down at any time meanwhile.         *)
(*                                                                         *)
(* An owner ignores the result of addIoMember, as RpcServiceClientEntry    *)
(* does, so it also removes a member whose epoll_ctl failed.               *)
(***************************************************************************)
EXTENDS DericProcess

VARIABLES
  use,   \* how far the owner of a member is
  fdOf   \* the member's descriptor, what getFd returns

ownerVars == <<use, fdOf>>
vars == <<ioVars, procVars, ownerVars>>

Uses == {"closed", "open", "adding", "added", "removing", "removed"}

TypeOK ==
  /\ IoTypeOK
  /\ ProcTypeOK
  /\ use \in [Members -> Uses]
  /\ fdOf \in [Members -> Fds \cup {NoFd}]

Init ==
  /\ IoInit
  /\ ProcInitial
  /\ use = [m \in Members |-> "closed"]
  /\ fdOf = [m \in Members |-> NoFd]

\* Who may make a call now: an application thread that is not in one, or the
\* polling thread in a callback.
MayCall(c) == call[c] = IdleCall /\ (c \in Gens => InCallback(c))

-----------------------------------------------------------------------------
\* start: socket, bind and listen give the owner a descriptor nobody holds.
Open(m) ==
  /\ use[m] = "closed"
  /\ \E fd \in Fds \ {fdOf[n] : n \in Members} : fdOf' = [fdOf EXCEPT ![m] = fd]
  /\ use' = [use EXCEPT ![m] = "open"]
  /\ UNCHANGED <<ioVars, procVars>>

BeginAdd(c, m) ==
  /\ MayCall(c)
  /\ use[m] = "open"
  /\ CallAdd(c, m, fdOf[m])
  /\ use' = [use EXCEPT ![m] = "adding"]
  /\ UNCHANGED <<procVars, fdOf>>

\* Wrong: a member may be removed twice.
BeginRemoveAgain(c, m) ==
  /\ MayCall(c)
  /\ use[m] \in {"added", "removed"}
  /\ CallRemove(c, m, fdOf[m])
  /\ use' = [use EXCEPT ![m] = "removing"]
  /\ UNCHANGED <<procVars, fdOf>>

BeginRemove(c, m) ==
  /\ MayCall(c)
  /\ use[m] = "added"
  /\ CallRemove(c, m, fdOf[m])
  /\ use' = [use EXCEPT ![m] = "removing"]
  /\ UNCHANGED <<procVars, fdOf>>

\* The call of c, if this step ends it, leaves its member in state u.
Returning(c, u) ==
  use' = IF call'[c] = IdleCall THEN [use EXCEPT ![call[c].m] = u] ELSE use

AddStep(c) ==
  /\ AddEntry(c) \/ (\E ok \in BOOLEAN : AddCtl(c, ok)) \/ AddWakeup(c)
  /\ Returning(c, "added")
  /\ UNCHANGED <<procVars, fdOf>>

RemoveStep(c) ==
  /\ RemoveEntry(c) \/ RemoveCtl(c)
  /\ Returning(c, "removed")
  /\ UNCHANGED <<procVars, fdOf>>

CallStep(c) == AddStep(c) \/ RemoveStep(c)

\* Wrong: stop closes a descriptor that is still registered.
CloseEarly(m) ==
  /\ use[m] \in {"added", "removed"}
  /\ KernelClose(fdOf[m])
  /\ fdOf' = [fdOf EXCEPT ![m] = NoFd]
  /\ use' = [use EXCEPT ![m] = "closed"]
  /\ UNCHANGED <<pipe, wakePolled, stateVars, tableVars, loopVars, call, crashed, procVars>>

\* stop, after removeIoMember: close.
Close(m) ==
  /\ use[m] = "removed"
  /\ KernelClose(fdOf[m])
  /\ fdOf' = [fdOf EXCEPT ![m] = NoFd]
  /\ use' = [use EXCEPT ![m] = "closed"]
  /\ UNCHANGED <<pipe, wakePolled, stateVars, tableVars, loopVars, call, crashed, procVars>>

OwnerStep ==
  \/ \E m \in Members : Open(m) \/ Close(m)
  \/ \E c \in Callers, m \in Members : BeginAdd(c, m) \/ BeginRemove(c, m)

-----------------------------------------------------------------------------
PollingThread(g) ==
  /\ LoopStep(g) \/ CallbackReturn(g)
  /\ UNCHANGED <<procVars, ownerVars>>

Process == ProcStep /\ UNCHANGED ownerVars

\* A dead process takes no step.
Dead == crashed /\ UNCHANGED vars

Next ==
  \/ ~crashed /\ Process
  \/ ~crashed /\ OwnerStep
  \/ ~crashed /\ \E c \in Callers : CallStep(c)
  \/ ~crashed /\ \E g \in Gens : PollingThread(g)
  \/ Dead

Spec == Init /\ [][Next]_vars

(***************************************************************************)
(* Fairness.  A thread of the process that can run does run: a call goes   *)
(* on, and the polling thread handles what epoll_wait gave it.  A callback *)
(* is straight-line code, so it ends although it may make calls meanwhile: *)
(* strong fairness.  Whether the application calls anything is its choice. *)
(***************************************************************************)
Fairness ==
  /\ \A c \in Callers : WF_vars(~crashed /\ CallStep(c))
  /\ \A g \in Gens :
       /\ WF_vars(~crashed /\ LoopStep(g) /\ UNCHANGED <<procVars, ownerVars>>)
       /\ SF_vars(~crashed /\ CallbackReturn(g) /\ UNCHANGED <<procVars, ownerVars>>)

FairSpec == Spec /\ Fairness

-----------------------------------------------------------------------------
(* Properties *)

\* No add or remove returns with m_ioMembersMutex locked, so the polling
\* thread and every later add and remove can still take it (the early exits
\* of addIoMember and removeIoMember never happen under this use).
MutexNeverKept == ~m_ioMembersMutex

\* A descriptor in the epoll set is in the table, or its removal has erased
\* the entry and is about to take it out of the set: the polling thread never
\* spins on a "wrong fd" that nobody will take away.
PolledIsRegistered ==
  \A fd \in Fds :
    m_epollFd # NoEpoll /\ fd \in polled[m_epollFd] =>
      Registered(fd) \/ \E c \in Callers : call[c].op = "delCtl" /\ call[c].fd = fd

\* The table never maps a descriptor to a member that does not hold it, and a
\* member that was added and not removed is found under its descriptor: an
\* event is handed to the owner of the descriptor it came from.
TableMatchesOwners ==
  /\ \A fd \in Fds : Registered(fd) => fdOf[m_ioMembers[fd]] = fd
  /\ \A m \in Members : use[m] = "added" => m_ioMembers[fdOf[m]] = m

\* Between the stop and the deinit that DericProcess::deinit makes, nobody
\* moves the module out of INITIALIZED: deinit cannot fail half way, leaving
\* m_init set with no polling thread.
StopThenDeinit == ctl = "deinit" => m_state = "INITIALIZED"

\* While m_init is set the epoll object is open, polls the pipe, and has been
\* given its polling thread.
InitMeansPolling ==
  m_init => /\ m_state # "CREATED"
            /\ m_epollFd # NoEpoll
            /\ wakePolled[m_epollFd]
            /\ lpc[m_epollFd] # "none"

\* The byte that stops a polling thread is in the pipe of its generation.
StopIn(bytes) == \E i \in 1..Len(bytes) : bytes[i] = "stop"
HasStop(g) == StopIn(pipe[g])

\* STARTED is never a leftover: the thread of the open generation is in its
\* loop, and it has not been told to stop.
StartedHasLoop ==
  m_state = "STARTED" =>
    /\ m_epollFd # NoEpoll
    /\ Running(m_epollFd)
    /\ ~HasStop(m_epollFd)

\* A call to addIoMember or removeIoMember ends, or the process dies.
EveryCallReturns ==
  \A c \in Callers : call[c] # IdleCall ~> call[c] = IdleCall \/ crashed

\* After stop the polling thread ends by itself, however late deinit comes,
\* when no thread of an earlier generation is left to take its byte.
StopReachesLoop ==
  \A g \in Gens :
    HasStop(g) /\ m_epollFd = g /\ (\A h \in Gens \ {g} : lpc[h] \in {"none", "done"})
      ~> lpc[g] = "done" \/ m_epollFd # g

\* What the log of DericProcess::deinit says, "process deinit successfully":
\* with the process down and no call under way the module is down too.
DeinitMeansDown == ~m_init /\ ctl = "idle" => m_state = "CREATED"

-----------------------------------------------------------------------------
(***************************************************************************)
(* Inductive invariants.  LifecycleInv, inductive with TypeOK, implies the *)
(* last three of the invariants above; OwnersInv, inductive with both, the *)
(* first three.                                                            *)
(***************************************************************************)
\* The module is never CREATED with its epoll object open.
OpenIsInitialized == m_epollFd # NoEpoll => m_state # "CREATED"

\* A generation that was not opened yet is untouched.
FutureIsUntouched ==
  /\ m_epollFd <= generation
  /\ \A g \in Gens : g > generation =>
       ~wakePolled[g] /\ polled[g] = {} /\ pipe[g] = <<>> /\ lpc[g] = "none"

\* Descriptors are held by open members only, by one each.
FdsAreOwned ==
  /\ \A m \in Members : fdOf[m] = NoFd <=> use[m] = "closed"
  /\ \A m, n \in Members : m # n /\ fdOf[m] = fdOf[n] => fdOf[m] = NoFd

AddOps    == {"add", "addCtl", "addWake"}
RemoveOps == {"remove", "delCtl"}

\* A call is about an owned member, with its descriptor, and no two calls are
\* about the same one.
CallsAreOwned ==
  /\ \A c \in Callers : call[c].op = "none" => call[c] = IdleCall
  /\ \A c \in Callers : call[c].op # "none" =>
       /\ call[c].m \in Members
       /\ call[c].fd = fdOf[call[c].m]
       /\ use[call[c].m] = IF call[c].op \in AddOps THEN "adding" ELSE "removing"
  /\ \A c, d \in Callers : call[c].op # "none" /\ call[c].m = call[d].m => c = d

\* An entry of the table is there because its member was added, or because a
\* call has inserted it or is about to erase it, and then it is there.
Inserted == {"addCtl", "addWake", "remove"}
TableIsOwned ==
  /\ \A fd \in Fds : Registered(fd) =>
       /\ fdOf[m_ioMembers[fd]] = fd
       /\ \/ use[m_ioMembers[fd]] = "added"
          \/ \E c \in Callers : call[c].m = m_ioMembers[fd] /\ call[c].op \in Inserted
  /\ \A m \in Members : use[m] = "added" => m_ioMembers[fdOf[m]] = m
  /\ \A c \in Callers : call[c].op \in Inserted => m_ioMembers[call[c].fd] = call[c].m

OwnersInv ==
  /\ MutexNeverKept
  /\ FdsAreOwned
  /\ CallsAreOwned
  /\ TableIsOwned
  /\ PolledIsRegistered

\* A polling thread that has not run yet belongs to the open generation, was
\* not told to stop, and has the process up and waiting for it.
SpawnedIsCurrent ==
  \A g \in Gens : lpc[g] = "spawned" =>
    m_init /\ ctl = "idle" /\ m_state = "INITIALIZED" /\ g = m_epollFd /\ ~HasStop(g)

\* A thread that has not entered its loop has its initial wakeup_flag.
FlagIsInitial ==
  \A g \in Gens : lpc[g] \in {"none", "spawned"} => wakeup_flag[g] = "wake"

\* The open generation has no thread, and no stop byte, before start.
NotStartedYet ==
  m_epollFd # NoEpoll /\ ~wakePolled[m_epollFd] =>
    lpc[m_epollFd] = "none" /\ ~HasStop(m_epollFd)

StartedIsUp ==
  m_state = "STARTED" => m_init /\ ctl = "idle" /\ wakeup_flag[m_epollFd] = "wake"

CtlMatchesInit == /\ ctl \in {"start", "undo"} => ~m_init
                  /\ ctl = "deinit" => m_init

LifecycleInv ==
  /\ OpenIsInitialized
  /\ FutureIsUntouched
  /\ StopThenDeinit
  /\ InitMeansPolling
  /\ StartedHasLoop
  /\ SpawnedIsCurrent
  /\ FlagIsInitial
  /\ NotStartedYet
  /\ StartedIsUp
  /\ CtlMatchesInit
=============================================================================
