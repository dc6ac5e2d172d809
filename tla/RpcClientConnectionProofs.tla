---------------------- MODULE RpcClientConnectionProofs ----------------------
(* Proofs about RpcClientConnection, for every set of members and descriptors *)
(* and every bound on the answers.                                            *)
EXTENDS RpcClientConnection, IoModuleProofs

USE DEF Gens, NoEpoll, Callers, Poller

-----------------------------------------------------------------------------
(* The inductive invariant *)

\* The service has closed a connection while the client's end was open.
Lost == \E m \in Members : peer[m] = "closed"

\* The process is up from the moment its polling thread exists, and is not taken
\* down again.
ProcessInv ==
  /\ ctl \in {"idle", "start", "undo"}
  /\ m_init <=> lpc[Poller] # "none"
  /\ m_init => ctl = "idle" /\ m_epollFd = Poller

\* Nothing that may lead to a crash, or to an empty m_ioConnection, comes before,
\* but for a disconnect while a thread is about to send.
LossInv ==
  /\ ppc = "close" => Lost
  /\ lpc[Poller] = "onIoError" => Lost
  /\ apc = "disconnect" /\ m_ioConnection = NoMember => Lost
  /\ sending # {} /\ m_ioConnection = NoMember => overlapped \/ Lost
  /\ apc = "closed" /\ m_ioConnection # io => Lost
  /\ crashed => overlapped \/ Lost

\* A connection that holds a descriptor has its socket there, from start until
\* stop closes it, and no two hold the same one.
Closing(m) == m = io /\ apc \in {"closed", "abandoned"}

SocketInv ==
  /\ \A m \in Members : m_socketFd[m] # NoFd /\ ~Closing(m) => socketAt[m_socketFd[m]] = m
  /\ \A m, k \in Members : m_socketFd[m] = m_socketFd[k] /\ m_socketFd[m] # NoFd => m = k

\* What is connected, registered or in the making is no member that is still to be
\* made.
Made(m) == m # NoMember => peer[m] # "none"

MadeInv == Made(m_ioConnection) /\ Made(io) /\ \A fd \in Fds : Made(m_ioMembers[fd])

\* The descriptor of m is in the table, and polled if the entry is that of m.
Entered(m) ==
  /\ Registered(m_socketFd[m])
  /\ m_ioMembers[m_socketFd[m]] = m => m_socketFd[m] \in polled[Poller]

\* What is polled belongs to the connection that is registered, and was not closed;
\* the connection in use is entered.
TableInv ==
  /\ \A fd \in Fds : Registered(fd) /\ fd \in polled[Poller] =>
       m_socketFd[m_ioMembers[fd]] = fd /\ ~Closing(m_ioMembers[fd])
  /\ m_ioConnection # NoMember /\ apc # "closed" =>
       m_socketFd[m_ioConnection] # NoFd /\ Entered(m_ioConnection)

\* addIoMember for the connection that is made.
Adds ==
  \/ call[App] = IdleCall /\ (added => Entered(io))
  \/ /\ call[App].m = io /\ call[App].fd = m_socketFd[io]
     /\ \/ call[App].op = "add" /\ \A fd \in Fds : m_ioMembers[fd] # io
        \/ call[App].op = "addCtl" /\ m_ioMembers[m_socketFd[io]] = io
        \/ call[App].op = "addWake" /\ (added => Entered(io))

\* The connection that is made or stopped is a new one, or the one that was in use.
AppInv ==
  /\ IF apc = "adding" THEN Adds ELSE call[App] = IdleCall
  /\ apc \in {"adding", "abandon", "abandoned"} => io \in Members /\ io # m_ioConnection
  /\ apc = "closed" => io \in Members
  /\ apc \in {"adding", "abandon"} => m_socketFd[io] \in Fds

ConnectionInv ==
  ProcessInv /\ LossInv /\ SocketInv /\ MadeInv /\ AppInv /\ TableInv

-----------------------------------------------------------------------------
(* Types *)

\* One thread of the application and one generation.
LEMMA OneOfEach ==
  Poller \in Gens /\ Gens = {Poller} /\ App \in Callers
BY IoAssumption, ConnectionAssumption

\* All but IoModule and DericProcess.
OwnTypeOK ==
  /\ m_ioConnection \in Members \cup {NoMember}
  /\ m_socketFd \in [Members -> Fds \cup {NoFd}]
  /\ socketAt \in [Fds -> Members \cup {NoMember}]
  /\ apc \in {"idle", "adding"} \cup Stopping
  /\ io \in Members \cup {NoMember}
  /\ added \in BOOLEAN
  /\ sending \subseteq Senders
  /\ overlapped \in BOOLEAN
  /\ ppc \in {"begin", "close", "return"}
  /\ peer \in [Members -> {"none", "open", "left", "closed"}]
  /\ inbox \in [Members -> 0..MaxAnswers]

LEMMA TypeParts ==
  /\ TypeOK <=> IoTypeOK /\ ProcTypeOK /\ OwnTypeOK
  /\ IoTypeOK' /\ ProcTypeOK' /\ OwnTypeOK' => TypeOK'
BY DEF TypeOK, OwnTypeOK

LEMMA TypeInit == Init => TypeOK
<1> SUFFICES ASSUME Init PROVE TypeOK
  OBVIOUS
<1>1. IoTypeOK
  BY IoInitType DEF Init
<1>2. ProcTypeOK
  BY DEF Init, ProcInitial, ProcTypeOK
<1>3. inbox \in [Members -> 0..MaxAnswers]
  BY ConnectionAssumption DEF Init
<1>4. m_socketFd \in [Members -> Fds \cup {NoFd}]
      /\ socketAt \in [Fds -> Members \cup {NoMember}]
      /\ peer \in [Members -> {"none", "open", "left", "closed"}]
  BY DEF Init
<1>5. OwnTypeOK
  BY <1>3, <1>4, ZenonT(30) DEF Init, OwnTypeOK, Stopping
<1> QED
  BY <1>1, <1>2, <1>5, TypeParts

\* The new connection is a member that was not made yet.
LEMMA NewIsMember ==
  ASSUME \E m \in Members : peer[m] = "none"
  PROVE  NewConnection \in Members /\ peer[NewConnection] = "none"
BY DEF NewConnection

LEMMA AppType ==
  ASSUME TypeOK, AppCalls \/ AppContinues
  PROVE  TypeOK'
<1>t. IoTypeOK /\ ProcTypeOK /\ OwnTypeOK
  BY TypeParts
<1> USE DEF Stopping
<1>1. CASE ProcessUp
  <2>1. IoTypeOK' /\ ProcTypeOK'
    BY <1>1, <1>t, ProcStepType DEF ProcessUp, ProcStep
  <2>2. OwnTypeOK'
    BY <1>1, <1>t DEF ProcessUp, OwnTypeOK, connVars, appVars, sendVars, peerVars
  <2> QED
    BY <2>1, <2>2, TypeParts
<1>2. ASSUME NEW fd \in Fds, Connect(fd)
      PROVE  TypeOK'
  <2>1. NewConnection \in Members
    BY <1>2, NewIsMember DEF Connect
  <2>2. IoTypeOK'
    BY <1>2, <1>t, <2>1, OneOfEach, CallAddType DEF Connect, MakeConnection
  <2>3. ProcTypeOK' /\ OwnTypeOK'
    BY <1>2, <1>t, <2>1 DEF Connect, MakeConnection, OwnTypeOK, ProcTypeOK, procVars, sendVars
  <2> QED
    BY <2>2, <2>3, TypeParts
<1>3. CASE AddStep
  <2>1. IoTypeOK'
    BY <1>3, <1>t, OneOfEach, CallStepType DEF AddStep
  <2>2. added' \in BOOLEAN
    BY <1>3, <1>t, ZenonT(30) DEF AddStep, OwnTypeOK
  <2>3. ProcTypeOK' /\ OwnTypeOK'
    BY <1>3, <1>t, <2>2 DEF AddStep, OwnTypeOK, ProcTypeOK, procVars, connVars, sendVars, peerVars
  <2> QED
    BY <2>1, <2>3, TypeParts
<1>4. CASE ConnectReturn \/ Disconnect
  <2>1. ProcTypeOK' /\ OwnTypeOK'
    BY <1>4, <1>t DEF ConnectReturn, Disconnect, OwnTypeOK, ProcTypeOK, procVars, connVars, sendVars,
                      peerVars
  <2>2. IoTypeOK'
    BY <1>4, <1>t DEF ConnectReturn, Disconnect, IoTypeOK, ioVars, kernelVars, stateVars, tableVars,
                      loopVars
  <2> QED
    BY <2>1, <2>2, TypeParts
<1>5. CASE DisconnectStops
  <2>1. crashed' \in BOOLEAN
    BY <1>5, <1>t, ZenonT(30) DEF DisconnectStops, IoTypeOK
  <2>2. polled' \in [Gens -> SUBSET Fds]
    BY <1>5, <1>t, KernelCloseType DEF DisconnectStops, StopCloses, IoTypeOK
  <2>3. IoTypeOK'
    BY <1>5, <1>t, <2>1, <2>2 DEF DisconnectStops, IoTypeOK, stateVars, tableVars, loopVars
  <2>4. ProcTypeOK' /\ OwnTypeOK'
    BY <1>5, <1>t DEF DisconnectStops, StopCloses, OwnTypeOK, ProcTypeOK, procVars, sendVars
  <2> QED
    BY <2>3, <2>4, TypeParts
<1>6. CASE ConnectStops
  <2>1. polled' \in [Gens -> SUBSET Fds]
    BY <1>6, <1>t, KernelCloseType DEF ConnectStops, StopCloses, IoTypeOK
  <2>2. IoTypeOK'
    BY <1>6, <1>t, <2>1 DEF ConnectStops, IoTypeOK, stateVars, tableVars, loopVars
  <2>3. ProcTypeOK' /\ OwnTypeOK'
    BY <1>6, <1>t DEF ConnectStops, StopCloses, OwnTypeOK, ProcTypeOK, procVars, sendVars
  <2> QED
    BY <2>2, <2>3, TypeParts
<1>7. CASE StopReturn
  <2>1. crashed' \in BOOLEAN
    BY <1>7, ZenonT(30) DEF StopReturn
  <2>2. IoTypeOK'
    BY <1>7, <1>t, <2>1 DEF StopReturn, IoTypeOK, kernelVars, stateVars, tableVars, loopVars
  <2>3. ProcTypeOK' /\ OwnTypeOK'
    <3>1. m_socketFd' \in [Members -> Fds \cup {NoFd}]
      BY <1>7, <1>t DEF StopReturn, OwnTypeOK
    <3>o. overlapped' \in BOOLEAN
      BY <1>7, ZenonT(30) DEF StopReturn, Release
    <3>2. m_ioConnection' \in Members \cup {NoMember} /\ apc' = "idle"
      BY <1>7, <1>t DEF StopReturn, Release, OwnTypeOK
    <3>3. UNCHANGED <<procVars, socketAt, io, added, sending, ppc, peerVars>>
      BY <1>7 DEF StopReturn
    <3> QED
      BY <1>t, <3>1, <3>o, <3>2, <3>3 DEF OwnTypeOK, ProcTypeOK, procVars, peerVars
  <2> QED
    BY <2>2, <2>3, TypeParts
<1> QED
  BY <1>1, <1>2, <1>3, <1>4, <1>5, <1>6, <1>7 DEF AppCalls, AppContinues

LEMMA SenderType ==
  ASSUME TypeOK, SenderStep
  PROVE  TypeOK'
<1>t. IoTypeOK /\ ProcTypeOK /\ OwnTypeOK
  BY TypeParts
<1>1. ASSUME NEW s \in Senders, SendMsg(s) PROVE TypeOK'
  <2>1. ProcTypeOK' /\ OwnTypeOK'
    BY <1>1, <1>t DEF SendMsg, OwnTypeOK, ProcTypeOK, procVars, connVars, appVars, peerVars
  <2>2. IoTypeOK'
    BY <1>1, <1>t DEF SendMsg, IoTypeOK, ioVars, kernelVars, stateVars, tableVars, loopVars
  <2> QED
    BY <2>1, <2>2, TypeParts
<1>2. ASSUME NEW s \in Senders, SendData(s) PROVE TypeOK'
  <2>1. crashed' \in BOOLEAN
    BY <1>2, ZenonT(30) DEF SendData
  <2>2. IoTypeOK'
    BY <1>2, <1>t, <2>1 DEF SendData, IoTypeOK, kernelVars, stateVars, tableVars, loopVars
  <2>3. ProcTypeOK' /\ OwnTypeOK'
    BY <1>2, <1>t DEF SendData, OwnTypeOK, ProcTypeOK, procVars, connVars, appVars, peerVars
  <2> QED
    BY <2>2, <2>3, TypeParts
<1> QED
  BY <1>1, <1>2 DEF SenderStep

LEMMA PollingType ==
  ASSUME TypeOK, PollingThread \/ Peers
  PROVE  TypeOK'
<1>t. IoTypeOK /\ ProcTypeOK /\ OwnTypeOK
  BY TypeParts
<1>1. CASE PollingLoop \/ CallbackEnds
  <2>1. IoTypeOK'
    BY <1>1, <1>t, OneOfEach, LoopType DEF PollingLoop, CallbackEnds
  <2>2. ProcTypeOK' /\ OwnTypeOK'
    BY <1>1, <1>t DEF PollingLoop, CallbackEnds, ProcTypeOK, OwnTypeOK, procVars, connVars, appVars,
                      sendVars, peerVars
  <2> QED
    BY <2>1, <2>2, TypeParts
<1>2. CASE HandleEvent \/ (\E m \in Members : ReadConnection(m) \/ IoError(m)) \/ Peers
  <2>1. UNCHANGED <<ioVars, procVars>>
    BY <1>2 DEF HandleEvent, ReadConnection, IoError, Peers
  <2>2. IoTypeOK' /\ ProcTypeOK'
    BY <1>t, <2>1 DEF IoTypeOK, ProcTypeOK, ioVars, kernelVars, stateVars, tableVars, loopVars,
                      procVars
  <2>3. m_ioConnection' \in Members \cup {NoMember} /\ UNCHANGED <<connVars, appVars, sendVars>>
    BY <1>2, <1>t DEF HandleEvent, ReadConnection, IoError, Peers, OwnTypeOK
  <2>4. ppc' \in {"begin", "close", "return"}
    BY <1>2, <1>t DEF HandleEvent, ReadConnection, IoError, Peers, OwnTypeOK
  <2>5. peer' \in [Members -> {"none", "open", "left", "closed"}]
    BY <1>2, <1>t DEF HandleEvent, ReadConnection, IoError, Peers, PeerAnswer, PeerClose, OwnTypeOK,
                      peerVars
  <2>6. inbox' \in [Members -> 0..MaxAnswers]
    BY <1>2, <1>t, ConnectionAssumption
    DEF HandleEvent, ReadConnection, IoError, Peers, PeerAnswer, PeerClose, OwnTypeOK, peerVars
  <2> QED
    BY <1>t, <2>2, <2>3, <2>4, <2>5, <2>6, TypeParts DEF OwnTypeOK, connVars, appVars, sendVars
<1> QED
  BY <1>1, <1>2 DEF PollingThread

LEMMA TypeStep == TypeOK /\ [Next]_vars => TypeOK'
<1> SUFFICES ASSUME TypeOK, [Next]_vars PROVE TypeOK'
  OBVIOUS
<1>1. CASE UNCHANGED vars
  BY <1>1 DEF TypeOK, IoTypeOK, ProcTypeOK, vars, ioVars, kernelVars, stateVars, tableVars,
              loopVars, procVars, connVars, appVars, sendVars, peerVars
<1> QED
  BY <1>1, AppType, SenderType, PollingType DEF Next

\* The state of a client's connections is well typed.
THEOREM ConnectionTyped == Spec => []TypeOK
BY TypeInit, TypeStep, PTL DEF Spec

-----------------------------------------------------------------------------
(* What keeps the invariant *)

LEMMA ProcessKept ==
  ASSUME ProcessInv, UNCHANGED <<ctl, m_init, m_epollFd>>,
         lpc'[Poller] = "none" <=> lpc[Poller] = "none"
  PROVE  ProcessInv'
BY DEF ProcessInv

\* A connection that was lost stays so, and one that was made.
PeersStay ==
  /\ \A m \in Members : peer[m] = "closed" => peer'[m] = "closed"
  /\ \A m \in Members : peer[m] # "none" => peer'[m] # "none"

LEMMA LostStays == PeersStay /\ Lost => Lost'
BY DEF PeersStay, Lost

LEMMA LossKept ==
  ASSUME LossInv, PeersStay, UNCHANGED <<m_ioConnection, apc, io, sending, overlapped>>,
         ppc' = "close" => ppc = "close" \/ Lost',
         lpc'[Poller] = "onIoError" => lpc[Poller] = "onIoError" \/ Lost',
         crashed' => crashed \/ overlapped \/ Lost
  PROVE  LossInv'
BY LostStays DEF LossInv

\* Nothing but m_ioConnection is dropped.
LEMMA TableKept ==
  ASSUME TypeOK, ConnectionInv, PeersStay,
         m_ioConnection' \in {m_ioConnection, NoMember},
         UNCHANGED <<m_socketFd, socketAt, apc, io, added, m_ioMembers, m_ioMembersMutex, polled, call>>
  PROVE  SocketInv' /\ MadeInv' /\ AppInv' /\ TableInv'
<1> USE DEF ConnectionInv
<1>1. SocketInv'
  BY DEF SocketInv, Closing
<1>2. MadeInv'
  BY DEF MadeInv, Made, PeersStay, TypeOK, IoTypeOK
<1>3. AppInv'
  <2>1. Adds <=> Adds'
    BY Zenon DEF Adds, Entered, Registered
  <2>2. apc' \in {"adding", "abandon", "abandoned"} => io' \in Members /\ io' # m_ioConnection'
    BY IoAssumption DEF AppInv
  <2> QED
    BY <2>1, <2>2 DEF AppInv
<1>4. TableInv'
  BY DEF TableInv, Entered, Registered, Closing
<1> QED
  BY <1>1, <1>2, <1>3, <1>4

LEMMA InvKept ==
  ASSUME TypeOK, ConnectionInv, UNCHANGED vars
  PROVE  ConnectionInv'
<1>1. UNCHANGED <<ctl, m_init, m_epollFd, lpc, m_ioConnection, m_socketFd, socketAt, apc, io, added,
                  sending, overlapped, ppc, peer, m_ioMembers, m_ioMembersMutex, polled, call, crashed>>
  BY DEF vars, ioVars, procVars, kernelVars, stateVars, tableVars, loopVars, connVars, appVars,
         sendVars, peerVars
<1>2. PeersStay
  BY <1>1 DEF PeersStay
<1>3. ProcessInv'
  BY <1>1, ProcessKept DEF ConnectionInv
<1>4. LossInv'
  BY <1>1, <1>2, LossKept DEF ConnectionInv
<1> QED
  BY <1>1, <1>2, <1>3, <1>4, TableKept DEF ConnectionInv

-----------------------------------------------------------------------------
(* The polling thread and the service *)

\* The scan goes on, or calls the callback of a member that is in the table.
LEMMA ScansMember ==
  ASSUME TypeOK, NEW callback, ScanMember(Poller, callback)
  PROVE  /\ lpc[Poller] = "scan"
         /\ \/ UNCHANGED lpc
            \/ lpc'[Poller] = callback /\ cur_member'[Poller] \in Members
<1>1. PICK fd \in Event(Poller) \ {WakeFd} :
        IF Registered(fd)
        THEN /\ cur_member' = [cur_member EXCEPT ![Poller] = m_ioMembers[fd]]
             /\ lpc' = [lpc EXCEPT ![Poller] = callback]
        ELSE UNCHANGED <<cur_member, lpc>>
  BY DEF ScanMember
<1>2. Registered(fd) => m_ioMembers[fd] \in Members
  BY DEF Registered, TypeOK, IoTypeOK
<1>3. lpc[Poller] = "scan"
  BY DEF ScanMember
<1> QED
  BY <1>1, <1>2, <1>3, OneOfEach DEF TypeOK, IoTypeOK

\* The thread is in its loop only as long as the process is up: its epoll object is
\* the open one, and epoll_wait and the scan do not crash.
LEMMA LoopIsSafe ==
  ASSUME TypeOK, ProcessInv, LoopStep(Poller) \/ CallbackReturn(Poller)
  PROVE  /\ crashed' => crashed
         /\ lpc'[Poller] # "none" /\ lpc[Poller] # "none"
<1>1. lpc[Poller] # "none"
  BY DEF LoopStep, ThreadStart, EpollEnter, EpollReturn, ScanFreed, ScanWake, ScanMember, BatchDone,
         ThreadExit, CallbackReturn, InCallback
<1>2. m_epollFd = Poller
  BY <1>1 DEF ProcessInv
<1>3. lpc[Poller] = "blocked" => lep[Poller] = Poller
  BY OneOfEach DEF TypeOK, IoTypeOK
<1>4. ~ScanFreed(Poller)
  BY <1>2 DEF ScanFreed
<1>5. EpollReturn(Poller) => ~crashed'
  BY <1>2, <1>3 DEF EpollReturn
<1>6. (LoopStep(Poller) /\ ~EpollReturn(Poller)) \/ CallbackReturn(Poller) => UNCHANGED crashed
  BY <1>4 DEF LoopStep, ThreadStart, EpollEnter, ScanWake, ScanMember, BatchDone, ThreadExit,
              CallbackReturn
<1>7. lpc'[Poller] # "none"
  <2>1. ASSUME NEW callback \in {"onReadAvailable", "onIoError"}, ScanMember(Poller, callback)
        PROVE  lpc'[Poller] # "none"
    BY <2>1, <1>1, ScansMember
  <2>2. CASE ThreadStart(Poller) \/ EpollEnter(Poller) \/ EpollReturn(Poller) \/ BatchDone(Poller)
             \/ ThreadExit(Poller) \/ CallbackReturn(Poller)
    BY <2>2, OneOfEach DEF ThreadStart, EpollEnter, EpollReturn, BatchDone, ThreadExit,
                           CallbackReturn, TypeOK, IoTypeOK
  <2>3. CASE ScanWake(Poller)
    BY <2>3, <1>1 DEF ScanWake
  <2> QED
    BY <2>1, <2>2, <2>3, <1>4 DEF LoopStep
<1> QED
  BY <1>1, <1>5, <1>6, <1>7

\* The kernel reports an error of a connection only when the service has closed it.
LEMMA ErrorMeansLoss ==
  ASSUME TypeOK, PollingLoop \/ CallbackEnds, lpc'[Poller] = "onIoError"
  PROVE  lpc[Poller] = "onIoError" \/ Lost
<1>1. CASE CallbackEnds
  BY <1>1, OneOfEach DEF CallbackEnds, CallbackReturn, TypeOK, IoTypeOK
<1>2. ASSUME NEW callback \in {"onReadAvailable", "onIoError"}, ScanMember(Poller, callback),
             PollingLoop
      PROVE  lpc[Poller] = "onIoError" \/ Lost
  BY <1>2, ScansMember DEF PollingLoop, Lost
<1>3. CASE ThreadStart(Poller) \/ EpollEnter(Poller) \/ EpollReturn(Poller) \/ BatchDone(Poller)
           \/ ThreadExit(Poller)
  BY <1>3, OneOfEach DEF ThreadStart, EpollEnter, EpollReturn, BatchDone, ThreadExit, TypeOK, IoTypeOK
<1>4. CASE ScanWake(Poller) \/ ScanFreed(Poller)
  BY <1>4 DEF ScanWake, ScanFreed, loopVars
<1> QED
  BY <1>1, <1>2, <1>3, <1>4 DEF PollingLoop, LoopStep

LEMMA PollingStep ==
  ASSUME TypeOK, ConnectionInv, PollingThread \/ Peers
  PROVE  ConnectionInv'
<1>1. /\ UNCHANGED <<ctl, m_init, m_epollFd, m_socketFd, socketAt, apc, io, added, m_ioMembers,
                     m_ioMembersMutex, polled, call>>
      /\ m_ioConnection' \in {m_ioConnection, NoMember}
  <2>1. CASE PollingLoop \/ CallbackEnds
    <3>1. LoopStep(Poller) \/ CallbackReturn(Poller)
      BY <2>1 DEF PollingLoop, CallbackEnds
    <3>2. UNCHANGED <<m_epollFd, m_ioMembers, m_ioMembersMutex, polled, call>>
      BY <3>1 DEF LoopStep, ThreadStart, EpollEnter, EpollReturn, ScanFreed, ScanWake, ScanMember,
                  BatchDone, ThreadExit, CallbackReturn, kernelVars, stateVars, tableVars
    <3> QED
      BY <2>1, <3>2 DEF PollingLoop, CallbackEnds, procVars, connVars, appVars
  <2>2. CASE HandleEvent \/ (\E m \in Members : ReadConnection(m) \/ IoError(m)) \/ Peers
    BY <2>2 DEF HandleEvent, ReadConnection, IoError, Peers, ioVars, procVars, connVars, appVars,
                kernelVars, stateVars, tableVars
  <2> QED
    BY <2>1, <2>2 DEF PollingThread
<1>2. PeersStay
  BY DEF PollingThread, PollingLoop, CallbackEnds, HandleEvent, ReadConnection, IoError, Peers,
         PeerAnswer, PeerClose, PeersStay, peerVars, TypeOK
<1>3. ProcessInv'
  <2>1. CASE PollingLoop \/ CallbackEnds
    BY <2>1, <1>1, LoopIsSafe, ProcessKept DEF PollingLoop, CallbackEnds, ConnectionInv
  <2>2. CASE HandleEvent \/ (\E m \in Members : ReadConnection(m) \/ IoError(m)) \/ Peers
    <3>1. UNCHANGED lpc
      BY <2>2 DEF HandleEvent, ReadConnection, IoError, Peers, ioVars, loopVars
    <3> QED
      BY <3>1, <1>1, ProcessKept DEF ConnectionInv
  <2> QED
    BY <2>1, <2>2 DEF PollingThread
<1>4. LossInv'
  <2>1. CASE PollingLoop \/ CallbackEnds
    <3>1. crashed' => crashed
      BY <2>1, LoopIsSafe DEF PollingLoop, CallbackEnds, ConnectionInv
    <3>2. lpc'[Poller] = "onIoError" => lpc[Poller] = "onIoError" \/ Lost'
      BY <2>1, ErrorMeansLoss, <1>2, LostStays DEF PollingLoop, CallbackEnds, peerVars
    <3>3. /\ UNCHANGED <<m_ioConnection, apc, io, sending, overlapped>>
          /\ ppc' = "close" => ppc = "close"
      BY <2>1 DEF PollingLoop, CallbackEnds, appVars, sendVars
    <3> QED
      BY <1>2, <3>1, <3>2, <3>3, LossKept DEF ConnectionInv
  <2>2. CASE (\E m \in Members : ReadConnection(m) \/ IoError(m)) \/ Peers
    <3>1. ppc' = "close" => ppc = "close" \/ Lost'
      <4>1. ASSUME NEW m \in Members, ReadConnection(m), ppc' = "close" PROVE Lost'
        BY <4>1 DEF ReadConnection, Lost, Begins
      <4>2. ASSUME NEW m \in Members, IoError(m) PROVE Lost'
        BY <4>2 DEF IoError, Begins, ConnectionInv, LossInv, Lost, peerVars
      <4>3. CASE Peers
        BY <4>3 DEF Peers
      <4> QED
        BY <2>2, <4>1, <4>2, <4>3
    <3>2. UNCHANGED <<m_ioConnection, apc, io, sending, overlapped, crashed, lpc>>
      BY <2>2 DEF ReadConnection, IoError, Peers, ioVars, loopVars, appVars, sendVars
    <3> QED
      BY <1>2, <3>1, <3>2, LossKept DEF ConnectionInv
  <2>3. CASE HandleEvent
    BY <2>3 DEF HandleEvent, ConnectionInv, LossInv, Lost, ioVars, loopVars, appVars, sendVars,
                peerVars
  <2> QED
    BY <2>1, <2>2, <2>3 DEF PollingThread
<1> QED
  BY <1>1, <1>2, <1>3, <1>4, TableKept DEF ConnectionInv

-----------------------------------------------------------------------------
(* The application's thread *)

LEMMA Typing ==
  ASSUME TypeOK
  PROVE  /\ m_ioConnection \in Members \cup {NoMember} /\ NoMember \notin Members
         /\ m_socketFd \in [Members -> Fds \cup {NoFd}] /\ NoFd \notin Fds
         /\ socketAt \in [Fds -> Members \cup {NoMember}]
         /\ io \in Members \cup {NoMember}
         /\ peer \in [Members -> {"none", "open", "left", "closed"}]
         /\ m_ioMembers \in [Fds -> Members \cup {NoMember}]
         /\ polled \in [{Poller} -> SUBSET Fds]
         /\ call \in [Callers -> Frames] /\ App \in Callers
BY IoAssumption, OneOfEach DEF TypeOK, IoTypeOK

\* A step of the application that leaves the process alone.
LEMMA AppKeepsProcess ==
  ASSUME ConnectionInv, UNCHANGED <<procVars, m_epollFd, lpc>>
  PROVE  ProcessInv'
BY ProcessKept DEF ConnectionInv, procVars

LEMMA ProcessUpStep ==
  ASSUME TypeOK, ConnectionInv, ProcessUp
  PROVE  ConnectionInv'
<1>1. /\ UNCHANGED <<m_ioConnection, m_socketFd, socketAt, apc, io, added, sending, overlapped, ppc,
                     peer, m_ioMembers, m_ioMembersMutex, polled, call, crashed>>
      /\ lpc'[Poller] = "onIoError" => lpc[Poller] = "onIoError"
  <2>1. UNCHANGED <<m_ioConnection, m_socketFd, socketAt, apc, io, added, sending, overlapped, ppc,
                    peer>>
    BY DEF ProcessUp, connVars, appVars, sendVars, peerVars
  <2>2. UNCHANGED <<m_ioMembers, m_ioMembersMutex, polled, call, crashed>>
    BY DEF ProcessUp, ProcInit, ProcStart, ProcUndo, ModuleInit, ModuleStart, ModuleDeinit,
           kernelVars, tableVars
  <2>3. UNCHANGED lpc \/ lpc' = [lpc EXCEPT ![m_epollFd] = "spawned"]
    BY DEF ProcessUp, ProcInit, ProcStart, ProcUndo, ModuleInit, ModuleStart, ModuleDeinit, loopVars
  <2> QED
    BY <2>1, <2>2, <2>3, OneOfEach DEF TypeOK, IoTypeOK
<1>2. PeersStay
  BY <1>1 DEF PeersStay
<1>3. ProcessInv'
  <2>1. ASSUME ProcInit PROVE ProcessInv'
    BY <2>1 DEF ProcInit, ModuleInit, ConnectionInv, ProcessInv, loopVars
  <2>2. ASSUME ProcStart PROVE ProcessInv'
    <3>1. PICK ok \in BOOLEAN :
            ModuleStart(ok) /\ m_init' = ok /\ ctl' = (IF ok THEN "idle" ELSE "undo")
      BY <2>2 DEF ProcStart
    <3>2. ctl = "start" /\ ~m_init /\ lpc[Poller] = "none"
      BY <2>2 DEF ProcStart, ConnectionInv, ProcessInv
    <3>3. CASE ok
      <4>1. m_epollFd' = Poller /\ lpc'[Poller] = "spawned"
        BY <3>1, <3>3, OneOfEach DEF ModuleStart, TypeOK, IoTypeOK, stateVars
      <4> QED
        BY <3>1, <3>3, <4>1 DEF ProcessInv
    <3>4. CASE ~ok
      <4>1. UNCHANGED lpc
        BY <3>1, <3>4 DEF ModuleStart
      <4> QED
        BY <3>1, <3>2, <3>4, <4>1 DEF ProcessInv
    <3> QED
      BY <3>3, <3>4
  <2>3. ASSUME ProcUndo PROVE ProcessInv'
    BY <2>3 DEF ProcUndo, ModuleDeinit, ConnectionInv, ProcessInv, loopVars
  <2> QED
    BY <2>1, <2>2, <2>3 DEF ProcessUp
<1>4. LossInv'
  BY <1>1, <1>2, LossKept DEF ConnectionInv
<1> QED
  BY <1>1, <1>2, <1>3, <1>4, TableKept DEF ConnectionInv

\* disconnect and sendMsg find a connection, and sendMsg uses what is there by then.
LEMMA DisconnectStep ==
  ASSUME TypeOK, ConnectionInv, Disconnect
  PROVE  ConnectionInv'
<1>1. /\ UNCHANGED <<procVars, m_epollFd, lpc, m_ioConnection, m_socketFd, socketAt, io, added, sending,
                     overlapped, ppc, peer, m_ioMembers, m_ioMembersMutex, polled, call, crashed>>
      /\ apc = "idle" /\ apc' = "disconnect" /\ m_ioConnection # NoMember
  BY DEF Disconnect, ioVars, kernelVars, stateVars, tableVars, loopVars, connVars, sendVars, peerVars
<1> USE DEF ConnectionInv
<1>2. LossInv'
  BY <1>1 DEF LossInv, Lost
<1>3. ProcessInv'
  BY <1>1, AppKeepsProcess
<1>4. SocketInv' /\ MadeInv'
  BY <1>1 DEF SocketInv, Closing, MadeInv, Made
<1>5. AppInv'
  BY <1>1 DEF AppInv
<1>6. TableInv'
  BY <1>1 DEF TableInv, Entered, Registered, Closing
<1> QED
  BY <1>2, <1>3, <1>4, <1>5, <1>6

LEMMA SenderKeeps ==
  ASSUME TypeOK, ConnectionInv, SenderStep
  PROVE  ConnectionInv'
<1>1. /\ UNCHANGED <<procVars, m_epollFd, lpc, m_ioConnection, m_socketFd, socketAt, apc, io, added,
                     overlapped, ppc, peer, m_ioMembers, m_ioMembersMutex, polled, call>>
      /\ m_ioConnection = NoMember => sending' \subseteq sending
  BY DEF SenderStep, SendMsg, SendData, ioVars, kernelVars, stateVars, tableVars, loopVars, connVars,
         appVars, peerVars
<1>2. crashed' => crashed \/ overlapped \/ Lost
  <2>1. ASSUME NEW s \in Senders, SendMsg(s) PROVE UNCHANGED crashed
    BY <2>1 DEF SendMsg, ioVars
  <2>2. ASSUME NEW s \in Senders, SendData(s), crashed' PROVE overlapped \/ Lost
    <3>1. m_ioConnection = NoMember \/ peer[m_ioConnection] = "closed"
      BY <2>2 DEF SendData
    <3>2. m_ioConnection \in Members \cup {NoMember} /\ sending # {}
      BY <2>2 DEF SendData, TypeOK
    <3> QED
      BY <3>1, <3>2 DEF ConnectionInv, LossInv, Lost
  <2> QED
    BY <2>1, <2>2 DEF SenderStep
<1>3. LossInv'
  BY <1>1, <1>2 DEF ConnectionInv, LossInv, Lost
<1>4. ProcessInv'
  BY <1>1, AppKeepsProcess
<1>5. PeersStay
  BY <1>1 DEF PeersStay
<1> QED
  BY <1>1, <1>3, <1>4, <1>5, TableKept DEF ConnectionInv

\* connect makes a connection that is in no table, under a descriptor no other holds.
LEMMA ConnectStep ==
  ASSUME TypeOK, ConnectionInv, NEW fd \in Fds, Connect(fd)
  PROVE  ConnectionInv'
<1>1. PICK m \in Members : peer[m] = "none" /\ MakeConnection(m, fd)
  BY NewIsMember DEF Connect
<1>2. /\ UNCHANGED <<procVars, m_epollFd, lpc, m_ioConnection, added, sending, overlapped, ppc,
                     m_ioMembers, m_ioMembersMutex, polled, crashed>>
      /\ apc = "idle" /\ apc' = "adding" /\ io' = m /\ socketAt[fd] = NoMember
  BY <1>1 DEF Connect, MakeConnection, CallAdd, kernelVars, stateVars, tableVars, loopVars, sendVars
<1>3. /\ socketAt' = [socketAt EXCEPT ![fd] = m]
      /\ m_socketFd' = [m_socketFd EXCEPT ![m] = fd]
      /\ peer' = [peer EXCEPT ![m] = "open"]
      /\ call' = [call EXCEPT ![App] = [op |-> "add", m |-> m, fd |-> fd]]
  BY <1>1, IoAssumption DEF MakeConnection, CallAdd
<1>4. PeersStay
  BY <1>1, <1>3, Typing DEF PeersStay
<1> USE DEF ConnectionInv
<1>5. m # m_ioConnection /\ \A f \in Fds : m_ioMembers[f] # m
  BY <1>1, Typing DEF MadeInv, Made
<1>6. ProcessInv'
  BY <1>2, AppKeepsProcess
<1>7. LossInv'
  BY <1>2, <1>4, LostStays DEF LossInv
<1>8. SocketInv'
  <2>1. ASSUME NEW k \in Members, k # m, m_socketFd[k] # NoFd
        PROVE  socketAt[m_socketFd[k]] = k /\ m_socketFd[k] # fd
    BY <1>2, <2>1, Typing DEF SocketInv, Closing
  <2> QED
    BY <1>2, <1>3, <2>1, Typing DEF SocketInv, Closing
<1>9. MadeInv'
  BY <1>2, <1>3, <1>4, Typing DEF MadeInv, Made, PeersStay
<1>10. AppInv'
  <2>1. /\ call'[App].op = "add" /\ call'[App].m = io' /\ call'[App].fd = m_socketFd'[io']
        /\ \A f \in Fds : m_ioMembers'[f] # io'
    BY <1>2, <1>3, <1>5, Typing
  <2>2. Adds'
    BY <2>1 DEF Adds
  <2> QED
    BY <1>2, <1>3, <1>5, <2>2, Typing DEF AppInv
<1>11. TableInv'
  BY <1>2, <1>3, <1>5, Typing DEF TableInv, Entered, Registered, Closing
<1> QED
  BY <1>6, <1>7, <1>8, <1>9, <1>10, <1>11

\* addIoMember for the connection that connect makes: it is registered, unless a
\* stopped one still is under its descriptor, and polled.
LEMMA AddFacts ==
  ASSUME TypeOK, ConnectionInv, AddStep
  PROVE  /\ UNCHANGED <<procVars, m_epollFd, lpc, m_ioConnection, m_socketFd, socketAt, apc, io,
                        sending, overlapped, ppc, peer, crashed>>
         /\ PeersStay
         /\ apc = "adding" /\ io \in Members /\ io # m_ioConnection /\ m_socketFd[io] \in Fds
         /\ socketAt[m_socketFd[io]] = io
         /\ call[App].m = io /\ call[App].fd = m_socketFd[io]
<1>1. UNCHANGED <<procVars, m_epollFd, lpc, m_ioConnection, m_socketFd, socketAt, apc, io, sending,
                  overlapped, ppc, peer, crashed>>
  BY DEF AddStep, AddEntry, AddCtl, AddWakeup, connVars, sendVars, peerVars, stateVars, loopVars
<1>2. call[App].op \in {"add", "addCtl", "addWake"}
  BY DEF AddStep, AddEntry, AddCtl, AddWakeup
<1>3. call[App] # IdleCall
  BY <1>2 DEF IdleCall
<1>4. /\ apc = "adding" /\ io \in Members /\ io # m_ioConnection /\ m_socketFd[io] \in Fds
      /\ call[App].m = io /\ call[App].fd = m_socketFd[io]
  BY <1>3 DEF ConnectionInv, AppInv, Adds
<1>5. socketAt[m_socketFd[io]] = io
  BY <1>4, IoAssumption DEF ConnectionInv, SocketInv, Closing
<1> QED
  BY <1>1, <1>4, <1>5 DEF PeersStay

LEMMA AddEntryStep ==
  ASSUME TypeOK, ConnectionInv, AddStep, AddEntry(App)
  PROVE  MadeInv' /\ AppInv' /\ TableInv'
<1>f. /\ UNCHANGED <<m_ioConnection, m_socketFd, socketAt, apc, io, peer, polled>>
      /\ apc = "adding" /\ io \in Members /\ io # m_ioConnection /\ m_socketFd[io] \in Fds
      /\ socketAt[m_socketFd[io]] = io
      /\ call[App].m = io /\ call[App].fd = m_socketFd[io] /\ call[App].op = "add"
  BY AddFacts DEF AddEntry, kernelVars
<1>n. \A fd \in Fds : m_ioMembers[fd] # io
  BY <1>f DEF ConnectionInv, AppInv, Adds, IdleCall
<1>1. CASE Registered(m_socketFd[io])
  <2>1. m_ioMembersMutex' = TRUE /\ call'[App] = IdleCall /\ UNCHANGED m_ioMembers
    BY <1>1, <1>f, Typing DEF AddEntry
  <2>2. MadeInv'
    BY <1>f, <2>1 DEF ConnectionInv, MadeInv, Made
  <2>3. Adds'
    BY <1>1, <1>f, <1>n, <2>1 DEF Adds, Entered, Registered
  <2>4. AppInv'
    BY <1>f, <2>3 DEF AppInv
  <2>5. TableInv'
    BY <1>f, <2>1 DEF ConnectionInv, TableInv, Entered, Registered, Closing
  <2> QED
    BY <2>2, <2>4, <2>5
<1>2. CASE ~Registered(m_socketFd[io])
  <2>1. /\ m_ioMembers' = [m_ioMembers EXCEPT ![m_socketFd[io]] = io]
        /\ call' = [call EXCEPT ![App].op = "addCtl"]
        /\ ~m_ioMembersMutex /\ UNCHANGED m_ioMembersMutex
    BY <1>2, <1>f DEF AddEntry
  <2>2. call'[App].op = "addCtl" /\ call'[App].m = io /\ call'[App].fd = m_socketFd[io]
    BY <2>1, <1>f, FrameUpdate, Typing
  <2>3. m_ioMembers[m_socketFd[io]] = NoMember
    BY <1>2, <1>f DEF Registered
  <2>4. MadeInv'
    BY <1>f, <2>1, Typing DEF ConnectionInv, MadeInv, Made
  <2>5. Adds'
    BY <1>f, <2>1, <2>2, Typing DEF Adds
  <2>6. AppInv'
    BY <1>f, <2>5 DEF AppInv
  <2>7. TableInv'
    BY <1>f, <2>1, <2>3, Typing DEF ConnectionInv, TableInv, Entered, Registered, Closing
  <2> QED
    BY <2>4, <2>6, <2>7
<1> QED
  BY <1>1, <1>2

LEMMA AddCtlStep ==
  ASSUME TypeOK, ConnectionInv, AddStep, NEW ok \in BOOLEAN, AddCtl(App, ok),
         added' = (CanCtl /\ ok)
  PROVE  MadeInv' /\ AppInv' /\ TableInv'
<1>f. /\ UNCHANGED <<m_ioConnection, m_socketFd, apc, io, peer, m_ioMembers, m_ioMembersMutex>>
      /\ apc = "adding" /\ io \in Members /\ io # m_ioConnection /\ m_socketFd[io] \in Fds
      /\ call[App].m = io /\ call[App].fd = m_socketFd[io] /\ call[App].op = "addCtl"
      /\ call' = [call EXCEPT ![App].op = "addWake"]
  BY AddFacts DEF AddCtl, tableVars
<1>1. m_ioMembers[m_socketFd[io]] = io
  BY <1>f DEF ConnectionInv, AppInv, Adds, IdleCall
<1>2. call'[App].op = "addWake" /\ call'[App].m = io /\ call'[App].fd = m_socketFd[io]
  BY <1>f, FrameUpdate, Typing
<1>3. polled[Poller] \subseteq polled'[Poller]
  BY Typing DEF AddCtl
<1>4. added' => m_socketFd[io] \in polled'[Poller]
  <2>1. CASE CanCtl /\ ok
    <3>1. m_epollFd = Poller
      BY <2>1, OneOfEach DEF CanCtl, TypeOK, IoTypeOK
    <3> QED
      BY <2>1, <3>1, <1>f, Typing DEF AddCtl
  <2>2. CASE ~(CanCtl /\ ok)
    BY <2>2
  <2> QED
    BY <2>1, <2>2
<1>5. MadeInv'
  BY <1>f DEF ConnectionInv, MadeInv, Made
<1>6. Adds'
  BY <1>f, <1>1, <1>2, <1>4, IoAssumption DEF Adds, Entered, Registered
<1>7. AppInv'
  BY <1>f, <1>6 DEF AppInv
<1>8. TableInv'
  <2>1. polled'[Poller] \subseteq polled[Poller] \cup {m_socketFd[io]}
    BY <1>f, OneOfEach, Typing DEF AddCtl, CanCtl, TypeOK, IoTypeOK
  <2> QED
    BY <1>f, <1>1, <1>3, <2>1 DEF ConnectionInv, TableInv, Entered, Registered, Closing
<1> QED
  BY <1>5, <1>7, <1>8

LEMMA AddWakeupStep ==
  ASSUME TypeOK, ConnectionInv, AddStep, AddWakeup(App), UNCHANGED added
  PROVE  MadeInv' /\ AppInv' /\ TableInv'
<1>f. /\ UNCHANGED <<m_ioConnection, m_socketFd, apc, io, peer, m_ioMembers, m_ioMembersMutex, polled>>
      /\ apc = "adding" /\ io \in Members /\ io # m_ioConnection /\ m_socketFd[io] \in Fds
      /\ call[App].op = "addWake" /\ call'[App] = IdleCall
  BY AddFacts, Typing DEF AddWakeup, tableVars
<1>1. added => Entered(io)
  BY <1>f DEF ConnectionInv, AppInv, Adds, IdleCall
<1>2. Adds'
  BY <1>f, <1>1 DEF Adds, Entered, Registered
<1>3. AppInv'
  BY <1>f, <1>2 DEF AppInv
<1>4. MadeInv' /\ TableInv'
  BY <1>f DEF ConnectionInv, MadeInv, Made, TableInv, Entered, Registered, Closing
<1> QED
  BY <1>3, <1>4

LEMMA AddStepKeeps ==
  ASSUME TypeOK, ConnectionInv, AddStep
  PROVE  ConnectionInv'
<1>1. ProcessInv'
  BY AddFacts, AppKeepsProcess
<1>2. LossInv'
  BY AddFacts, LossKept DEF ConnectionInv
<1>3. SocketInv'
  BY AddFacts DEF ConnectionInv, SocketInv, Closing
<1>4. MadeInv' /\ AppInv' /\ TableInv'
  BY AddEntryStep, AddCtlStep, AddWakeupStep DEF AddStep
<1> QED
  BY <1>1, <1>2, <1>3, <1>4 DEF ConnectionInv

\* connect returns: the connection is in use, or it is stopped first.
LEMMA ConnectReturnStep ==
  ASSUME TypeOK, ConnectionInv, ConnectReturn
  PROVE  ConnectionInv'
<1>1. /\ UNCHANGED <<procVars, m_epollFd, lpc, m_socketFd, socketAt, io, added, sending, overlapped,
                     ppc, peer, m_ioMembers, m_ioMembersMutex, polled, call, crashed>>
      /\ apc = "adding" /\ apc' \in {"idle", "abandon"} /\ call[App] = IdleCall
      /\ added => m_ioConnection' = io /\ apc' = "idle"
      /\ ~added => m_ioConnection' = m_ioConnection /\ apc' = "abandon"
  BY DEF ConnectReturn, ioVars, kernelVars, stateVars, tableVars, loopVars, connVars, sendVars,
         peerVars
<1>2. PeersStay
  BY <1>1 DEF PeersStay
<1>3. /\ io \in Members /\ io # m_ioConnection /\ m_socketFd[io] \in Fds
      /\ added => Entered(io)
  <2>1. call[App].op = "none"
    BY <1>1 DEF IdleCall
  <2> QED
    BY <1>1, <2>1 DEF ConnectionInv, AppInv, Adds
<1>4. m_ioConnection' = m_ioConnection \/ m_ioConnection' = io
  BY <1>1
<1>5. ProcessInv'
  BY <1>1, AppKeepsProcess
<1>6. LossInv'
  BY <1>1, <1>2, <1>3, LostStays, IoAssumption DEF ConnectionInv, LossInv
<1>7. SocketInv' /\ MadeInv'
  BY <1>1, <1>4 DEF ConnectionInv, SocketInv, Closing, MadeInv, Made
<1>8. AppInv'
  BY <1>1, <1>3 DEF AppInv
<1>9. TableInv'
  <2>1. CASE added
    BY <1>1, <1>3, <2>1, IoAssumption DEF ConnectionInv, TableInv, Entered, Registered, Closing
  <2>2. CASE ~added
    BY <1>1, <2>2 DEF ConnectionInv, TableInv, Entered, Registered, Closing
  <2> QED
    BY <2>1, <2>2
<1> QED
  BY <1>5, <1>6, <1>7, <1>8, <1>9 DEF ConnectionInv

\* stop closes the socket of a connection, and no other connection has its descriptor.
LEMMA ClosedSocket ==
  ASSUME TypeOK, ConnectionInv, apc \notin {"closed", "abandoned"},
         NEW m \in Members, m_socketFd[m] # NoFd, StopCloses(m)
  PROVE  /\ PeersStay
         /\ \A k \in Members : k # m /\ m_socketFd[k] # NoFd =>
              /\ socketAt'[m_socketFd[k]] = k
              /\ m_socketFd[k] \in polled[Poller] => m_socketFd[k] \in polled'[Poller]
<1>1. /\ socketAt' = [socketAt EXCEPT ![m_socketFd[m]] = NoMember]
      /\ polled'[Poller] = polled[Poller] \ {m_socketFd[m]}
      /\ peer' = [peer EXCEPT ![m] = IF @ = "open" THEN "left" ELSE @]
  BY OneOfEach DEF StopCloses, KernelClose
<1>2. PeersStay
  BY <1>1, Typing DEF PeersStay
<1>3. ASSUME NEW k \in Members, k # m, m_socketFd[k] # NoFd
      PROVE  socketAt[m_socketFd[k]] = k /\ m_socketFd[k] # m_socketFd[m]
  BY <1>3 DEF ConnectionInv, SocketInv, Closing
<1> QED
  BY <1>1, <1>2, <1>3, Typing

\* A connection that was not adding keeps no trace of it.
LEMMA NoCallLeft ==
  ASSUME ConnectionInv, apc # "adding"
  PROVE  call[App] = IdleCall
BY DEF ConnectionInv, AppInv

LEMMA DisconnectStopsStep ==
  ASSUME TypeOK, ConnectionInv, DisconnectStops
  PROVE  ConnectionInv'
<1>1. /\ UNCHANGED <<procVars, m_epollFd, lpc, m_ioConnection, m_socketFd, added, sending, overlapped,
                     ppc, m_ioMembers, m_ioMembersMutex, call>>
      /\ apc = "disconnect" /\ call[App] = IdleCall
  BY NoCallLeft DEF DisconnectStops, stateVars, tableVars, loopVars, sendVars
<1>2. ProcessInv'
  BY <1>1, AppKeepsProcess
<1>4. CASE m_ioConnection = NoMember
  <2>1. UNCHANGED <<io, apc, socketAt, polled, peer>>
    BY <1>4 DEF DisconnectStops
  <2>2. PeersStay /\ Lost
    BY <1>1, <1>4, <2>1 DEF PeersStay, ConnectionInv, LossInv
  <2>3. LossInv'
    BY <1>1, <2>1, <2>2, LossKept DEF ConnectionInv
  <2> QED
    BY <1>1, <1>2, <2>1, <2>2, <2>3, TableKept DEF ConnectionInv
<1>5. CASE m_ioConnection # NoMember
  <2>1. m_ioConnection \in Members /\ io' = m_ioConnection /\ UNCHANGED crashed
    BY <1>5, Typing DEF DisconnectStops
  <2>2. CASE m_socketFd[m_ioConnection] # NoFd
    <3>1. StopCloses(m_ioConnection) /\ apc' = "closed"
      BY <1>5, <2>2 DEF DisconnectStops
    <3>2. /\ PeersStay
          /\ \A k \in Members : k # m_ioConnection /\ m_socketFd[k] # NoFd =>
               socketAt'[m_socketFd[k]] = k
      BY <1>1, <2>1, <2>2, <3>1, ClosedSocket
    <3>3. LossInv'
      BY <1>1, <2>1, <3>1, <3>2, LostStays DEF ConnectionInv, LossInv
    <3>4. SocketInv'
      BY <1>1, <2>1, <3>1, <3>2 DEF ConnectionInv, SocketInv, Closing
    <3>5. MadeInv'
      BY <1>1, <2>1, <3>2, Typing DEF ConnectionInv, MadeInv, Made, PeersStay
    <3>6. AppInv'
      BY <1>1, <2>1, <3>1 DEF AppInv
    <3>7. TableInv'
      <4>1. polled'[Poller] = polled[Poller] \ {m_socketFd[m_ioConnection]}
        BY <3>1, OneOfEach DEF StopCloses, KernelClose
      <4> QED
        BY <1>1, <2>1, <3>1, <4>1 DEF ConnectionInv, TableInv, Registered, Closing
    <3> QED
      BY <1>2, <3>3, <3>4, <3>5, <3>6, <3>7 DEF ConnectionInv
  <2>3. CASE m_socketFd[m_ioConnection] = NoFd
    <3>1. UNCHANGED <<socketAt, polled, peer>> /\ apc' = "idle"
      BY <1>5, <2>3 DEF DisconnectStops
    <3>2. LossInv'
      BY <1>1, <2>1, <3>1 DEF ConnectionInv, LossInv, Lost
    <3>3. SocketInv' /\ MadeInv'
      BY <1>1, <2>1, <3>1 DEF ConnectionInv, SocketInv, Closing, MadeInv, Made
    <3>4. AppInv'
      BY <1>1, <3>1 DEF AppInv
    <3>5. TableInv'
      BY <1>1, <3>1 DEF ConnectionInv, TableInv, Entered, Registered, Closing
    <3> QED
      BY <1>2, <3>2, <3>3, <3>4, <3>5 DEF ConnectionInv
  <2> QED
    BY <2>2, <2>3
<1> QED
  BY <1>4, <1>5

LEMMA ConnectStopsStep ==
  ASSUME TypeOK, ConnectionInv, ConnectStops
  PROVE  ConnectionInv'
<1>1. /\ UNCHANGED <<procVars, m_epollFd, lpc, m_ioConnection, m_socketFd, io, added, sending,
                     overlapped, ppc, m_ioMembers, m_ioMembersMutex, call, crashed>>
      /\ apc = "abandon" /\ apc' = "abandoned" /\ call[App] = IdleCall /\ StopCloses(io)
  BY NoCallLeft DEF ConnectStops, stateVars, tableVars, loopVars, sendVars
<1>2. io \in Members /\ io # m_ioConnection /\ m_socketFd[io] # NoFd
  BY <1>1, IoAssumption DEF ConnectionInv, AppInv
<1>3. /\ PeersStay
      /\ \A k \in Members : k # io /\ m_socketFd[k] # NoFd =>
           /\ socketAt'[m_socketFd[k]] = k
           /\ m_socketFd[k] \in polled[Poller] => m_socketFd[k] \in polled'[Poller]
  BY <1>1, <1>2, ClosedSocket
<1>4. ProcessInv'
  BY <1>1, AppKeepsProcess
<1>5. LossInv'
  BY <1>1, <1>3, LostStays DEF ConnectionInv, LossInv
<1>6. SocketInv'
  BY <1>1, <1>3 DEF ConnectionInv, SocketInv, Closing
<1>7. MadeInv'
  BY <1>1, <1>3, Typing DEF ConnectionInv, MadeInv, Made, PeersStay
<1>8. AppInv'
  BY <1>1, <1>2 DEF AppInv
<1>9. TableInv'
  <2>1. polled'[Poller] = polled[Poller] \ {m_socketFd[io]}
    BY <1>1, OneOfEach DEF StopCloses, KernelClose
  <2> QED
    BY <1>1, <1>2, <1>3, <2>1, Typing DEF ConnectionInv, TableInv, Entered, Registered, Closing
<1> QED
  BY <1>4, <1>5, <1>6, <1>7, <1>8, <1>9 DEF ConnectionInv

\* stop gives the descriptor up; only a close event can have taken the connection.
LEMMA StopReturnStep ==
  ASSUME TypeOK, ConnectionInv, StopReturn
  PROVE  ConnectionInv'
<1>1. /\ UNCHANGED <<procVars, m_epollFd, lpc, polled, m_ioMembers, m_ioMembersMutex, call, socketAt,
                     io, added, ppc, peer>>
      /\ m_socketFd' = [m_socketFd EXCEPT ![io] = NoFd]
      /\ apc \in {"closed", "abandoned"} /\ apc' = "idle" /\ call[App] = IdleCall
      /\ m_ioConnection' = IF apc = "closed" THEN NoMember ELSE m_ioConnection
      /\ sending' = sending /\ (overlapped => overlapped')
      /\ apc = "closed" /\ sending # {} => overlapped'
  BY NoCallLeft DEF StopReturn, Release, kernelVars, stateVars, tableVars, loopVars, peerVars
<1>2. io \in Members /\ (apc = "abandoned" => io # m_ioConnection)
  BY <1>1 DEF ConnectionInv, AppInv
<1>3. crashed' => Lost /\ apc = "closed"
  <2>1. crashed' => apc = "closed" /\ m_ioConnection # io
    BY DEF StopReturn
  <2> QED
    BY <2>1 DEF ConnectionInv, LossInv
<1>4. ProcessInv'
  BY <1>1, AppKeepsProcess
<1>5. LossInv'
  BY <1>1, <1>3 DEF ConnectionInv, LossInv, Lost
<1>6. SocketInv'
  BY <1>1, <1>2, Typing DEF ConnectionInv, SocketInv, Closing
<1>7. MadeInv'
  BY <1>1, Typing DEF ConnectionInv, MadeInv, Made
<1>8. AppInv'
  BY <1>1 DEF AppInv
<1>9. TableInv'
  BY <1>1, <1>2, Typing DEF ConnectionInv, TableInv, Entered, Registered, Closing
<1> QED
  BY <1>4, <1>5, <1>6, <1>7, <1>8, <1>9 DEF ConnectionInv

-----------------------------------------------------------------------------
(* The theorems *)

LEMMA InvInit == Init => ConnectionInv
<1> SUFFICES ASSUME Init PROVE ConnectionInv
  OBVIOUS
<1> USE OneOfEach DEF Init, IoInit, ProcInitial
<1>1. ProcessInv
  BY DEF ProcessInv
<1>2. LossInv
  BY DEF LossInv
<1>3. SocketInv /\ MadeInv
  BY IoAssumption DEF SocketInv, MadeInv, Made
<1>4. AppInv
  BY DEF AppInv
<1>5. TableInv
  BY DEF TableInv, Registered
<1> QED
  BY <1>1, <1>2, <1>3, <1>4, <1>5 DEF ConnectionInv

LEMMA InvStep == TypeOK /\ ConnectionInv /\ [Next]_vars => ConnectionInv'
<1> SUFFICES ASSUME TypeOK, ConnectionInv, [Next]_vars PROVE ConnectionInv'
  OBVIOUS
<1>1. CASE AppCalls
  BY <1>1, ProcessUpStep, ConnectStep, DisconnectStep DEF AppCalls
<1>2. CASE AppContinues
  BY <1>2, AddStepKeeps, ConnectReturnStep, DisconnectStopsStep, ConnectStopsStep,
     StopReturnStep DEF AppContinues
<1>3. CASE SenderStep \/ PollingThread \/ Peers
  BY <1>3, SenderKeeps, PollingStep
<1>4. CASE UNCHANGED vars
  BY <1>4, InvKept
<1> QED
  BY <1>1, <1>2, <1>3, <1>4 DEF Next

\* The process, the sockets, the table and the running call of a client agree with one
\* another, and nothing is lost that the service did not close.
THEOREM ConnectionInvariant == Spec => []ConnectionInv
BY InvInit, InvStep, ConnectionTyped, PTL DEF Spec

\* Nothing but addIoMember takes the mutex for good.
LEMMA MutexSteps ==
  ASSUME Next, ~m_ioMembersMutex, m_ioMembersMutex'
  PROVE  AddStep /\ AddEntry(App)
<1>1. CASE AppCalls
  BY <1>1 DEF AppCalls, ProcessUp, ProcInit, ProcStart, ProcUndo, ModuleInit, ModuleStart, ModuleDeinit,
              Connect, MakeConnection, CallAdd, Disconnect, ioVars, tableVars
<1>2. CASE AppContinues
  BY <1>2 DEF AppContinues, AddStep, AddCtl, AddWakeup, ConnectReturn, DisconnectStops, ConnectStops,
              StopReturn, ioVars, tableVars
<1>3. CASE SenderStep \/ Peers
  BY <1>3 DEF SenderStep, SendMsg, SendData, Peers, ioVars, tableVars
<1>4. CASE PollingThread
  BY <1>4 DEF PollingThread, PollingLoop, LoopStep, ThreadStart, EpollEnter, EpollReturn, ScanFreed,
              ScanWake, ScanMember, BatchDone, ThreadExit, CallbackEnds, CallbackReturn, HandleEvent,
              ReadConnection, IoError, ioVars, tableVars
<1> QED
  BY <1>1, <1>2, <1>3, <1>4 DEF Next, vars, ioVars, tableVars

\* The table's mutex is kept only when connect adds a descriptor that a connection
\* which was stopped left in the table.
THEOREM OnlyReuseKeepsMutex == Spec => MutexKeptOnlyByReuse
<1>1. TypeOK /\ ConnectionInv /\ [Next]_vars =>
        [ ~m_ioMembersMutex /\ m_ioMembersMutex' => apc = "adding" /\ Stale(m_socketFd[io]) ]_vars
  <2> SUFFICES ASSUME TypeOK, ConnectionInv, Next, ~m_ioMembersMutex, m_ioMembersMutex'
               PROVE  apc = "adding" /\ Stale(m_socketFd[io])
    BY DEF vars, ioVars, tableVars
  <2>1. AddStep /\ AddEntry(App)
    BY MutexSteps
  <2>2. /\ apc = "adding" /\ io \in Members /\ m_socketFd[io] \in Fds
        /\ socketAt[m_socketFd[io]] = io /\ ~Closing(io)
        /\ call[App].fd = m_socketFd[io] /\ call[App].op = "add"
    BY <2>1, AddFacts DEF AddEntry, Closing
  <2>3. Registered(m_socketFd[io]) /\ \A fd \in Fds : m_ioMembers[fd] # io
    <3>1. Registered(call[App].fd)
      BY <2>1 DEF AddEntry
    <3>2. call[App] # IdleCall
      BY <2>2 DEF IdleCall
    <3>3. Adds
      BY <2>2 DEF ConnectionInv, AppInv
    <3> QED
      BY <2>2, <3>1, <3>2, <3>3 DEF Adds
  <2>4. m_socketFd[m_ioMembers[m_socketFd[io]]] # m_socketFd[io]
    BY <2>2, <2>3, Typing DEF ConnectionInv, SocketInv, Registered
  <2> QED
    BY <2>2, <2>3, <2>4 DEF Stale
<1> QED
  BY <1>1, ConnectionInvariant, ConnectionTyped, PTL DEF Spec, MutexKeptOnlyByReuse

\* Whatever other connections were made before: the connection that connect returned
\* with has an entry under its own descriptor until it is stopped; it is polled if the
\* entry is its own, and if the number was handed out before and an earlier connection's
\* entry is there still, nobody polls it.
THEOREM UsedIsPolled == Spec => []ConnectedIsPolled
<1>1. TypeOK /\ ConnectionInv => ConnectedIsPolled
  <2> SUFFICES ASSUME TypeOK, ConnectionInv, m_ioConnection # NoMember, apc # "closed"
               PROVE  LET fd == m_socketFd[m_ioConnection]
                      IN fd # NoFd /\ Registered(fd) /\ (fd \in polled[Poller] <=> ~Stale(fd))
    BY DEF ConnectedIsPolled
  <2> DEFINE fd == m_socketFd[m_ioConnection]
  <2>1. m_ioConnection \in Members /\ fd \in Fds /\ Entered(m_ioConnection)
    BY Typing DEF ConnectionInv, TableInv
  <2>2. Registered(fd) /\ m_ioMembers[fd] \in Members
    BY <2>1, Typing DEF Entered, Registered
  <2>3. fd \in polled[Poller] => ~Stale(fd)
    BY <2>1, <2>2 DEF ConnectionInv, TableInv, Stale
  <2>4. ~Stale(fd) => m_ioMembers[fd] = m_ioConnection
    BY <2>1, <2>2, IoAssumption DEF Stale, ConnectionInv, SocketInv
  <2> QED
    BY <2>1, <2>2, <2>3, <2>4, IoAssumption DEF Entered
<1> QED
  BY <1>1, ConnectionInvariant, ConnectionTyped, PTL

\* With one thread that connects and disconnects and any number that send: neither a send
\* on an empty m_ioConnection, nor one to a closed socket, nor a stop of a connection that
\* is gone comes before the service has closed a connection, or disconnect has reset it
\* between the test and the use of a send.
THEOREM OnlyLossCrashes == Spec => []CrashNeedsLoss
<1>1. ConnectionInv => CrashNeedsLoss
  BY DEF ConnectionInv, LossInv, Lost, CrashNeedsLoss
<1> QED
  BY <1>1, ConnectionInvariant, PTL

\* A close event that takes a connection in use is due to a loss, of it or of another.
THEOREM DropsNeedLoss == Spec => DropNeedsLoss
<1>1. ConnectionInv =>
        [ ppc = "close" /\ m_ioConnection # NoMember =>
            \/ peer[m_ioConnection] = "closed"
            \/ \E m \in Members \ {m_ioConnection} : peer[m] = "closed" ]_vars
  BY DEF ConnectionInv, LossInv, Lost
<1> QED
  BY <1>1, ConnectionInvariant, PTL DEF DropNeedsLoss
=============================================================================
