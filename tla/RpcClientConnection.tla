------------------------ MODULE RpcClientConnection ------------------------
(***************************************************************************)
(* The connections of a client (RpcClientImpl, rpc/client, and the client  *)
(* side of TcpIoConnection) on top of IoModule.  One thread of the         *)
(* application connects and disconnects, and others send meanwhile; the    *)
(* polling thread reads answers and handles the end of a stream; the       *)
(* service answers and may close.                                          *)
(*                                                                         *)
(* Every connect makes a new TcpIoConnection, a member of IoModule's       *)
(* table, with a socket of its own.  A socket is named after the member    *)
(* that made it; socketAt says which one is open under a descriptor.       *)
(* Nothing removes a member from the table, and RpcClientImpl has no lock. *)
(***************************************************************************)
EXTENDS DericProcess

CONSTANTS
  App,         \* the application's thread that connects and disconnects
  Senders,     \* its threads that send
  MaxAnswers   \* bound: answers on the way in one connection

ASSUME ConnectionAssumption ==
  /\ Threads = {App}
  /\ MaxGen = 1
  /\ MaxAnswers \in Nat

Poller == 1    \* the polling thread

VARIABLES
  m_ioConnection,  \* RpcClientImpl's connection, or NoMember
  m_socketFd,      \* of each TcpIoConnection; it is STARTED as long as this is one
  socketAt,        \* the socket that is open under a descriptor, or NoMember
  apc,             \* what the application's thread App does next
  io,              \* the connection that connect makes, or disconnect stops
  added,           \* did addIoMember return >= 0?
  sending,         \* the threads between the test of m_ioConnection and its use
  overlapped,      \* ghost: disconnect reset m_ioConnection while a thread was
  ppc,             \* what the polling thread does next in a callback
  peer,            \* the service's end of a socket: "closed" while the client's was
                   \* open, or "left" by the client
  inbox            \* answers that were received and not read

connVars == <<m_socketFd, socketAt>>
sendVars == <<sending, overlapped>>
appVars  == <<apc, io, added>>
peerVars == <<peer, inbox>>
vars == <<ioVars, procVars, m_ioConnection, connVars, appVars, sendVars, ppc, peerVars>>

Stopping == {"disconnect", "abandon", "closed", "abandoned"}

TypeOK ==
  /\ IoTypeOK /\ ProcTypeOK
  /\ m_ioConnection \in Members \cup {NoMember}
  /\ m_socketFd \in [Members -> Fds \cup {NoFd}]
  /\ socketAt \in [Fds -> Members \cup {NoMember}]
  /\ apc \in {"idle", "adding"} \cup Stopping
  /\ io \in Members \cup {NoMember}
  /\ added \in BOOLEAN
  /\ sending \subseteq Senders
  /\ overlapped \in BOOLEAN
  /\ ppc \in {"begin", "close", "return"}
  /\ peer \in [Members -> {"none", "open", "left", "closed"}]
  /\ inbox \in [Members -> 0..MaxAnswers]

Init ==
  /\ IoInit /\ ProcInitial
  /\ m_ioConnection = NoMember
  /\ m_socketFd = [m \in Members |-> NoFd]
  /\ socketAt = [fd \in Fds |-> NoMember]
  /\ apc = "idle" /\ io = NoMember /\ added = FALSE
  /\ sending = {} /\ overlapped = FALSE
  /\ ppc = "begin"
  /\ peer = [m \in Members |-> "none"]
  /\ inbox = [m \in Members |-> 0]

-----------------------------------------------------------------------------
(* The application *)

\* The process goes up; how it goes down is the subject of IoOwners.
ProcessUp ==
  /\ apc = "idle"
  /\ ProcInit \/ ProcStart \/ ProcUndo
  /\ UNCHANGED <<m_ioConnection, connVars, appVars, sendVars, ppc, peerVars>>

NewConnection == CHOOSE m \in Members : peer[m] = "none"

MakeConnection(m, fd) ==
  /\ socketAt' = [socketAt EXCEPT ![fd] = m]
  /\ m_socketFd' = [m_socketFd EXCEPT ![m] = fd]
  /\ peer' = [peer EXCEPT ![m] = "open"]
  /\ CallAdd(App, m, fd)
  /\ io' = m

\* connect, into TcpIoConnection::start: a new socket under any descriptor that
\* is free (if it fails, nothing is left of it), then addIoMember.  Whether
\* there is a connection already is not looked at.
Connect(fd) ==
  /\ apc = "idle" /\ ctl = "idle"
  /\ (\E m \in Members : peer[m] = "none") /\ socketAt[fd] = NoMember
  /\ MakeConnection(NewConnection, fd)
  /\ apc' = "adding"
  /\ UNCHANGED <<procVars, m_ioConnection, added, sendVars, ppc, inbox>>

\* addIoMember, which returns 0 for a descriptor that is there already.
AddStep ==
  /\ \/ AddEntry(App) /\ added' = TRUE
     \/ \E ok \in BOOLEAN : AddCtl(App, ok) /\ added' = (CanCtl /\ ok)
     \/ AddWakeup(App) /\ UNCHANGED added
  /\ UNCHANGED <<procVars, m_ioConnection, connVars, apc, io, sendVars, ppc, peerVars>>

\* Wrong: the connection is kept whatever addIoMember returns.
ConnectReturnUnchecked ==
  /\ apc = "adding" /\ call[App] = IdleCall
  /\ m_ioConnection' = io /\ apc' = "idle"
  /\ UNCHANGED <<ioVars, procVars, connVars, io, added, sendVars, ppc, peerVars>>

\* setIoConnection; or addIoMember failed, and the connection is stopped.
ConnectReturn ==
  /\ apc = "adding" /\ call[App] = IdleCall
  /\ IF added THEN m_ioConnection' = io /\ apc' = "idle"
     ELSE apc' = "abandon" /\ UNCHANGED m_ioConnection
  /\ UNCHANGED <<ioVars, procVars, connVars, io, added, sendVars, ppc, peerVars>>

\* Wrong: whether there is a connection is not looked at.
DisconnectUntested ==
  /\ apc = "idle" /\ ctl = "idle"
  /\ apc' = "disconnect"
  /\ UNCHANGED <<ioVars, procVars, m_ioConnection, connVars, io, added, sendVars, ppc, peerVars>>

\* disconnect and sendMsg test m_ioConnection ...
Disconnect ==
  /\ apc = "idle" /\ ctl = "idle" /\ m_ioConnection # NoMember
  /\ apc' = "disconnect"
  /\ UNCHANGED <<ioVars, procVars, m_ioConnection, connVars, io, added, sendVars, ppc, peerVars>>

SendMsg(s) ==
  /\ s \notin sending /\ m_ioConnection # NoMember
  /\ sending' = sending \cup {s}
  /\ UNCHANGED <<ioVars, procVars, m_ioConnection, connVars, appVars, overlapped, ppc, peerVars>>

\* ... and use it in a step of their own: when a close event or disconnect has
\* reset it meanwhile, that is a null pointer.  To send to a socket whose other
\* end is closed may raise SIGPIPE.
SendData(s) ==
  /\ s \in sending
  /\ crashed' \in IF m_ioConnection = NoMember THEN {TRUE}
                  ELSE IF peer[m_ioConnection] = "closed" THEN BOOLEAN ELSE {FALSE}
  /\ sending' = sending \ {s}
  /\ UNCHANGED <<kernelVars, stateVars, tableVars, loopVars, call, procVars, m_ioConnection,
                 connVars, appVars, overlapped, ppc, peerVars>>

\* TcpIoConnection::stop: close the descriptor, which leaves the epoll set ...
StopCloses(m) ==
  /\ socketAt' = [socketAt EXCEPT ![m_socketFd[m]] = NoMember]
  /\ KernelClose(m_socketFd[m])
  /\ peer' = [peer EXCEPT ![m] = IF @ = "open" THEN "left" ELSE @]

DisconnectStops ==
  /\ apc = "disconnect"
  /\ IF m_ioConnection = NoMember
     THEN crashed' = TRUE /\ UNCHANGED <<io, apc, socketAt, polled, peer>>
     ELSE /\ IF m_socketFd[m_ioConnection] # NoFd
             THEN StopCloses(m_ioConnection) /\ apc' = "closed"
             ELSE UNCHANGED <<socketAt, polled, peer>> /\ apc' = "idle"
          /\ io' = m_ioConnection
          /\ UNCHANGED crashed
  /\ UNCHANGED <<pipe, wakePolled, stateVars, tableVars, loopVars, call, procVars,
                 m_ioConnection, m_socketFd, added, sendVars, ppc, inbox>>

ConnectStops ==
  /\ apc = "abandon"
  /\ StopCloses(io)
  /\ apc' = "abandoned"
  /\ UNCHANGED <<pipe, wakePolled, stateVars, tableVars, loopVars, call, crashed, procVars,
                 m_ioConnection, m_socketFd, io, added, sendVars, ppc, inbox>>

\* disconnect resets m_ioConnection when stop has returned.
Release ==
  /\ m_ioConnection' = IF apc = "closed" THEN NoMember ELSE m_ioConnection
  /\ overlapped' = (overlapped \/ (apc = "closed" /\ sending # {}))
  /\ apc' = "idle"

\* Wrong: m_socketFd keeps the descriptor that was closed.
StopReturnKeepsFd ==
  /\ apc \in {"closed", "abandoned"}
  /\ Release
  /\ UNCHANGED <<ioVars, procVars, connVars, io, added, sending, ppc, peerVars>>

\* Wrong: the descriptor is not given up in the middle of a batch of events.
StopReturnWaits ==
  /\ apc \in {"closed", "abandoned"} /\ lpc[Poller] \in {"none", "blocked"}
  /\ m_socketFd' = [m_socketFd EXCEPT ![io] = NoFd]
  /\ Release
  /\ UNCHANGED <<ioVars, procVars, socketAt, io, added, sending, ppc, peerVars>>

\* ... and set m_socketFd to -1, whatever a send is about to do.  When a
\* close event reset it before, and the table does not hold it, the
\* connection is gone.
StopReturn ==
  /\ apc \in {"closed", "abandoned"}
  /\ m_socketFd' = [m_socketFd EXCEPT ![io] = NoFd]
  /\ LET gone == /\ apc = "closed" /\ m_ioConnection # io
                 /\ \A fd \in Fds : m_ioMembers[fd] # io
     IN crashed' \in IF gone THEN BOOLEAN ELSE {FALSE}
  /\ Release
  /\ UNCHANGED <<kernelVars, stateVars, tableVars, loopVars, call, procVars, socketAt, io,
                 added, sending, ppc, peerVars>>

AppCalls ==
  \/ ProcessUp
  \/ \E fd \in Fds : Connect(fd)
  \/ Disconnect

AppContinues ==
  AddStep \/ ConnectReturn \/ DisconnectStops \/ ConnectStops \/ StopReturn

SenderStep == \E s \in Senders : SendMsg(s) \/ SendData(s)

-----------------------------------------------------------------------------
(* The polling thread *)

\* The member whose callback runs, when it is callback cb and at its start.
Begins(cb, m) == lpc[Poller] = cb /\ cur_member[Poller] = m /\ ppc = "begin"

\* recv works on the member's own socket.  Between close and m_socketFd = -1 it
\* fails (bound: nobody else is given the descriptor in that moment).
Receives(m) == m_socketFd[m] # NoFd /\ socketAt[m_socketFd[m]] = m

\* Wrong: a recv that fails is taken for the end of the stream.
ReadConnectionFailureCloses(m) ==
  /\ Begins("onReadAvailable", m)
  /\ IF Receives(m) /\ inbox[m] > 0
     THEN inbox' = [inbox EXCEPT ![m] = @ - 1] /\ ppc' = "return"
     ELSE ppc' = "close" /\ UNCHANGED inbox
  /\ UNCHANGED <<ioVars, procVars, m_ioConnection, connVars, appVars, sendVars, peer>>

\* Wrong: the end of the stream is no event.
ReadConnectionNoClose(m) ==
  /\ Begins("onReadAvailable", m)
  /\ IF Receives(m) /\ inbox[m] > 0 THEN inbox' = [inbox EXCEPT ![m] = @ - 1]
     ELSE UNCHANGED inbox
  /\ ppc' = "return"
  /\ UNCHANGED <<ioVars, procVars, m_ioConnection, connVars, appVars, sendVars, peer>>

\* Wrong: a recv that fails is taken for an answer.
ReadConnectionUnchecked(m) ==
  /\ Begins("onReadAvailable", m)
  /\ IF Receives(m) /\ inbox[m] = 0 THEN ppc' = "close" /\ UNCHANGED inbox
     ELSE ppc' = "return" /\ inbox' = [inbox EXCEPT ![m] = @ - 1]
  /\ UNCHANGED <<ioVars, procVars, m_ioConnection, connVars, appVars, sendVars, peer>>

\* TcpIoConnection::onReadAvailable: an answer, which RpcClientImpl::handleData
\* hands to the callback, or the end of the stream.  With neither, recv
\* blocks: no step.
ReadConnection(m) ==
  /\ Begins("onReadAvailable", m)
  /\ \/ /\ Receives(m) /\ inbox[m] > 0
        /\ inbox' = [inbox EXCEPT ![m] = @ - 1]
        /\ ppc' = "return"
     \/ /\ Receives(m) /\ inbox[m] = 0 /\ peer[m] = "closed"
        /\ ppc' = "close"
        /\ UNCHANGED inbox
     \/ /\ ~Receives(m)
        /\ ppc' = "return"
        /\ UNCHANGED inbox
  /\ UNCHANGED <<ioVars, procVars, m_ioConnection, connVars, appVars, sendVars, peer>>

\* onIoError looks at no state.
IoError(m) ==
  /\ Begins("onIoError", m)
  /\ ppc' = "close"
  /\ UNCHANGED <<ioVars, procVars, m_ioConnection, connVars, appVars, sendVars, peerVars>>

\* RpcClientImpl::handleEvent(CLOSE), whichever connection the event is of.
HandleEvent ==
  /\ ppc = "close"
  /\ m_ioConnection' = NoMember
  /\ ppc' = "return"
  /\ UNCHANGED <<ioVars, procVars, connVars, appVars, sendVars, peerVars>>

CallbackEnds ==
  /\ ppc = "return" /\ CallbackReturn(Poller)
  /\ ppc' = "begin"
  /\ UNCHANGED <<procVars, m_ioConnection, connVars, appVars, sendVars, peerVars>>

\* The other end is closed of a socket that epoll reports an error of, and
\* what epoll_wait returns is what can be read.
Ready(fd) ==
  IF socketAt[fd] = NoMember THEN FALSE
  ELSE inbox[socketAt[fd]] > 0 \/ peer[socketAt[fd]] = "closed"

PollingLoop ==
  /\ LoopStep(Poller)
  /\ lpc[Poller] = "blocked" =>
       \A fd \in polled[lep[Poller]] : fd \in batch'[Poller] <=> Ready(fd)
  /\ lpc[Poller] = "scan" /\ lpc'[Poller] = "onIoError" =>
       peer[cur_member'[Poller]] = "closed"
  /\ UNCHANGED <<procVars, m_ioConnection, connVars, appVars, sendVars, ppc, peerVars>>

PollingThread ==
  \/ PollingLoop \/ CallbackEnds \/ HandleEvent
  \/ \E m \in Members : ReadConnection(m) \/ IoError(m)

-----------------------------------------------------------------------------
(* The service *)
PeerAnswer(m) ==
  /\ peer[m] = "open" /\ inbox[m] < MaxAnswers
  /\ inbox' = [inbox EXCEPT ![m] = @ + 1]
  /\ UNCHANGED peer

PeerClose(m) ==
  /\ peer[m] = "open"
  /\ peer' = [peer EXCEPT ![m] = "closed"]
  /\ UNCHANGED inbox

Peers ==
  /\ \E m \in Members : PeerAnswer(m) \/ PeerClose(m)
  /\ UNCHANGED <<ioVars, procVars, m_ioConnection, connVars, appVars, sendVars, ppc>>

-----------------------------------------------------------------------------
\* The process died, nobody calls anything, or the table's mutex was kept.
Finished == crashed \/ apc = "idle" \/ m_ioMembersMutex

Next ==
  \/ ~crashed /\ AppCalls
  \/ ~crashed /\ AppContinues
  \/ ~crashed /\ SenderStep
  \/ ~crashed /\ PollingThread
  \/ ~crashed /\ Peers
  \/ Finished /\ UNCHANGED vars

Spec == Init /\ [][Next]_vars

\* The polling thread and the one that connects and disconnects go on when they
\* can.  Calls, the threads that send and the service are free to go on or not.
FairSpec ==
  /\ Spec
  /\ WF_vars(~crashed /\ AppContinues)
  /\ WF_vars(~crashed /\ PollingThread)

-----------------------------------------------------------------------------
(* Properties *)

\* A registered connection that was stopped: its descriptor is free for others.
Stale(fd) == Registered(fd) /\ m_socketFd[m_ioMembers[fd]] # fd

\* The table's mutex is kept only by a connect that is given the descriptor of a
\* connection that disconnect, or a connect that failed, has left registered.
MutexKeptOnlyByReuse ==
  [][ ~m_ioMembersMutex /\ m_ioMembersMutex' =>
        apc = "adding" /\ Stale(m_socketFd[io]) ]_vars

\* The connection that connect returned with is polled under its descriptor until
\* it is stopped, unless the entry of an earlier connection is in its place: then
\* its descriptor is not polled for anybody.
ConnectedIsPolled ==
  m_ioConnection # NoMember /\ apc # "closed" =>
    LET fd == m_socketFd[m_ioConnection]
    IN /\ fd # NoFd
       /\ Registered(fd)
       /\ fd \in polled[Poller] <=> ~Stale(fd)

\* A connection that is not lost is dropped by a close event only when another
\* one was lost: the service closed that one before the client left it.
DropNeedsLoss ==
  [][ ppc = "close" /\ m_ioConnection # NoMember =>
        \/ peer[m_ioConnection] = "closed"
        \/ \E m \in Members \ {m_ioConnection} : peer[m] = "closed" ]_vars

\* With one thread that connects and disconnects, the process dies only after
\* the service has closed a connection, or after disconnect has reset it between
\* the test and the use in a thread that sends.
CrashNeedsLoss == crashed => overlapped \/ \E m \in Members : peer[m] = "closed"

\* The client notices that its connection is lost.
LossIsNoticed ==
  \A m \in Members :
    m_ioConnection = m /\ peer[m] = "closed" ~>
      m_ioConnection # m \/ m_ioMembersMutex \/ crashed

\* connect and disconnect return, unless the mutex of the table was kept.
AppReturns == apc # "idle" ~> apc = "idle" \/ m_ioMembersMutex \/ crashed
=============================================================================
