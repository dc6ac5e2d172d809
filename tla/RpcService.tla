------------------------------ MODULE RpcService ------------------------------
(***************************************************************************)
(* A service (RpcServiceImpl, its TcpIoServer and the entries of its       *)
(* clients, rpc/server and io) on top of IoModule.  The application's      *)
(* thread calls init, start, stop and deInit; the polling thread accepts   *)
(* connections, reads requests and handles closed connections in the       *)
(* callbacks that IoModule makes; peers connect, send and close.           *)
(*                                                                         *)
(* The service's m_clientsMutex and m_instanceMutex are held by the        *)
(* application's thread over several steps, by the polling thread within   *)
(* one step only.  TcpIoServer and TcpIoConnection have no lock at all.    *)
(*                                                                         *)
(* A descriptor has the name of the member that holds it: the sockets      *)
(* accept returns are never closed, so no number is ever given twice, and  *)
(* the one of the listening socket is free again when it is closed.        *)
(***************************************************************************)
EXTENDS DericProcess

CONSTANTS
  App,           \* the application's thread
  Listener,      \* the TcpIoServerEntry
  MaxStarts,     \* bound: calls of start that reach the IoModule
  MaxRequests    \* bound: requests a peer sends

ASSUME ServiceAssumption ==
  /\ Threads = {App}
  /\ MaxGen = 1
  /\ Listener \in Members
  /\ Fds = Members
  /\ MaxStarts \in Nat
  /\ MaxRequests \in Nat

Conns  == Members \ {Listener}   \* TcpIoConnection and RpcServiceClientEntry of a peer
Poller == 1                      \* the polling thread

VARIABLES
  m_serviceState,  \* RpcServiceImpl's m_state
  m_serverState,   \* TcpIoServer's m_state
  m_ioEntry,       \* is TcpIoServer's m_ioEntry set?
  m_client,        \* has the server still its m_client, once onConnectRequest tested it?
  listening,       \* is the listening socket open?
  m_clients,       \* RpcServiceImpl's table of client entries
  m_ioConnection,  \* has a client entry its connection?
  m_connState,     \* TcpIoConnection's m_state
  m_socketFd,      \* TcpIoConnection's m_socketFd
  instanceMutex,   \* the application's thread holds m_instanceMutex
  clientsMutex,    \* the application's thread holds m_clientsMutex
  apc,             \* what the application's thread does next
  client,          \* the client entry its loop in stop is at
  todo,            \* the client entries its loop in stop has still to stop
  added,           \* did its addIoMember return >= 0?
  ppc,             \* what the polling thread does next in a callback
  accepted,        \* the connection it accepted
  starts,          \* how often start reached the IoModule
  peer,            \* what the other end of a connection has done
  sent, inbox,     \* requests it sent, and those not read yet
  replies,         \* answers given to it
  causes           \* ghost: what may have made the service go wrong

serviceVars == <<m_serviceState, m_clients, instanceMutex, clientsMutex>>
serverVars  == <<m_serverState, m_ioEntry, m_client, listening>>
connVars    == <<m_ioConnection, m_connState, m_socketFd>>
appVars     == <<apc, client, todo, added, starts>>
pollVars    == <<ppc, accepted>>
peerVars    == <<peer, sent, inbox, replies>>
vars == <<ioVars, procVars, serviceVars, serverVars, connVars, appVars, pollVars,
          peerVars, causes>>

ComponentStates == {"CREATED", "INITIALIZED", "STARTED"}
Stopping == {"stopClients", "stopClient", "stopServer", "removedServer", "stopped"}
Attaching == {"create", "attach", "start", "add", "adding"}
Opening  == {"accept", "accepting"} \cup Attaching
Closing  == {"close", "stopConnection", "forget", "serverStop", "serverRemoved"}

TypeOK ==
  /\ IoTypeOK /\ ProcTypeOK
  /\ m_serviceState \in ComponentStates
  /\ m_serverState \in ComponentStates
  /\ m_ioEntry \in BOOLEAN /\ m_client \in BOOLEAN /\ listening \in BOOLEAN
  /\ m_clients \subseteq Conns
  /\ m_ioConnection \in [Conns -> BOOLEAN]
  /\ m_connState \in [Conns -> {"CREATED", "STARTED"}]
  /\ m_socketFd \in [Conns -> Conns \cup {NoFd}]
  /\ instanceMutex \in BOOLEAN /\ clientsMutex \in BOOLEAN
  /\ apc \in {"idle", "starting"} \cup Stopping
  /\ client \in Conns \cup {NoMember}
  /\ todo \subseteq Conns
  /\ added \in BOOLEAN
  /\ ppc \in {"begin", "handle", "reply", "sending", "return"} \cup Opening \cup Closing
  /\ accepted \in Conns \cup {NoMember}
  /\ starts \in 0..MaxStarts
  /\ peer \in [Conns -> {"none", "pending", "connected", "closed"}]
  /\ sent \in [Conns -> 0..MaxRequests]
  /\ inbox \in [Conns -> 0..MaxRequests]
  /\ replies \in [Conns -> 0..MaxRequests]
  /\ causes \subseteq {"race", "failedStart"}

Init ==
  /\ IoInit /\ ProcInitial
  /\ m_serviceState = "CREATED" /\ m_serverState = "CREATED"
  /\ m_ioEntry = FALSE /\ m_client = FALSE /\ listening = FALSE
  /\ m_clients = {}
  /\ m_ioConnection = [k \in Conns |-> FALSE]
  /\ m_connState = [k \in Conns |-> "CREATED"]
  /\ m_socketFd = [k \in Conns |-> NoFd]
  /\ instanceMutex = FALSE /\ clientsMutex = FALSE
  /\ apc = "idle" /\ client = NoMember /\ todo = {} /\ added = FALSE
  /\ ppc = "begin" /\ accepted = NoMember
  /\ starts = 0
  /\ peer = [k \in Conns |-> "none"]
  /\ sent = [k \in Conns |-> 0]
  /\ inbox = [k \in Conns |-> 0]
  /\ replies = [k \in Conns |-> 0]
  /\ causes = {}

-----------------------------------------------------------------------------
(* Steps that both threads make *)

\* The process goes up; how it goes down is the subject of IoOwners.
ProcessUp ==
  /\ apc = "idle"
  /\ ProcInit \/ ProcStart \/ ProcUndo
  /\ UNCHANGED <<serviceVars, serverVars, connVars, appVars, pollVars, peerVars>>

\* addIoMember and removeIoMember of thread c, once called.
CallStep(c) ==
  /\ \/ AddEntry(c) /\ added' = (c = App \/ added)
     \/ \E ok \in BOOLEAN : AddCtl(c, ok) /\ added' = IF c = App THEN CanCtl /\ ok ELSE added
     \/ (AddWakeup(c) \/ RemoveEntry(c) \/ RemoveCtl(c)) /\ UNCHANGED added
  /\ UNCHANGED <<procVars, serviceVars, serverVars, connVars, apc, client, todo, starts,
                 pollVars, peerVars>>

\* close(m_socketFd) of the listening socket drops who is not accepted yet.  An
\* accept that waits in the kernel is not woken: it keeps the socket, bound and open.
CloseListener ==
  /\ listening' = FALSE
  /\ KernelClose(Listener)
  /\ peer' = IF ppc = "accepting" THEN peer
             ELSE [k \in Conns |-> IF peer[k] = "pending" THEN "closed" ELSE peer[k]]

\* TcpIoServer::stop of thread c: remove the entry when there is one, ...
ServerRemove(c) ==
  IF m_ioEntry THEN CallRemove(c, Listener, Listener) ELSE UNCHANGED ioVars

\* ... then forget it and close the socket.
ServerClose(c) ==
  /\ call[c] = IdleCall
  /\ CloseListener
  /\ m_ioEntry' = FALSE
  /\ m_serverState' = "INITIALIZED"
  /\ UNCHANGED <<pipe, wakePolled, stateVars, tableVars, loopVars, call, crashed, m_client>>

\* TcpIoConnection::stop of a connection that was accepted: the socket is left open.
StopConnection(k) ==
  IF m_connState[k] = "STARTED"
  THEN /\ m_socketFd' = [m_socketFd EXCEPT ![k] = NoFd]
       /\ m_connState' = [m_connState EXCEPT ![k] = "CREATED"]
  ELSE UNCHANGED <<m_socketFd, m_connState>>

-----------------------------------------------------------------------------
(* RpcServiceImpl: init, deInit, start and stop, by the application's thread *)

ServiceInit ==
  /\ apc = "idle" /\ ctl = "idle"
  /\ m_serviceState = "CREATED"
  /\ m_serviceState' = "INITIALIZED" /\ m_serverState' = "INITIALIZED"
  /\ UNCHANGED <<ioVars, procVars, m_clients, instanceMutex, clientsMutex, m_ioEntry, m_client,
                 listening, connVars, appVars, pollVars, peerVars>>

\* m_ioServer is set: RpcServiceImpl::init creates it, deInit drops it.
HasServer == m_serverState # "CREATED"

\* The server is not started then, so TcpIoServer::deInit has nothing to stop; it
\* drops its client, of which a callback may be about to make use.  Without a server
\* the call returns -1 and the state stays.
ServiceDeinit ==
  /\ apc = "idle" /\ ctl = "idle"
  /\ m_serviceState = "INITIALIZED" /\ HasServer
  /\ m_serviceState' = "CREATED" /\ m_serverState' = "CREATED"
  /\ m_client' = FALSE
  /\ UNCHANGED <<ioVars, procVars, m_clients, instanceMutex, clientsMutex, m_ioEntry,
                 listening, connVars, appVars, pollVars, peerVars>>

\* start, into TcpIoServer::start: socket, bind and listen (if they fail nothing
\* is done, and bind does while an accept keeps the last socket), then addIoMember.
Start ==
  /\ apc = "idle" /\ ctl = "idle"
  /\ m_serviceState = "INITIALIZED" /\ m_serverState = "INITIALIZED"
  /\ starts < MaxStarts /\ ppc # "accepting"
  /\ starts' = starts + 1
  /\ instanceMutex' = TRUE
  /\ listening' = TRUE /\ m_ioEntry' = TRUE
  /\ CallAdd(App, Listener, Listener)
  /\ apc' = "starting"
  /\ UNCHANGED <<procVars, m_serviceState, m_clients, clientsMutex, m_serverState, m_client,
                 connVars, client, todo, added, pollVars, peerVars>>

\* addIoMember has returned.  When it failed its entry stays in the table.
StartReturn ==
  /\ apc = "starting" /\ call[App] = IdleCall
  /\ \/ /\ added
        /\ m_serverState' = "STARTED" /\ m_serviceState' = "STARTED"
        /\ UNCHANGED <<ioVars, m_ioEntry, listening, peer>>
     \/ /\ ~added
        /\ m_ioEntry' = FALSE
        /\ CloseListener
        /\ UNCHANGED <<pipe, wakePolled, stateVars, tableVars, loopVars, call, crashed,
                       m_serverState, m_serviceState>>
  /\ instanceMutex' = FALSE
  /\ apc' = "idle"
  /\ UNCHANGED <<procVars, m_clients, clientsMutex, m_client, connVars, client, todo, added,
                 starts, pollVars, sent, inbox, replies>>

Stop ==
  /\ apc = "idle" /\ ctl = "idle"
  /\ m_serviceState = "STARTED"
  /\ instanceMutex' = TRUE /\ clientsMutex' = TRUE
  /\ todo' = m_clients
  /\ apc' = "stopClients"
  /\ UNCHANGED <<ioVars, procVars, m_serviceState, m_clients, serverVars, connVars, client,
                 added, starts, pollVars, peerVars>>

\* stop of a service that is not started returns -1, and sets the state too.
StopRefused ==
  /\ apc = "idle" /\ ctl = "idle"
  /\ m_serviceState # "STARTED"
  /\ m_serviceState' = "INITIALIZED"
  /\ UNCHANGED <<ioVars, procVars, m_clients, instanceMutex, clientsMutex, serverVars,
                 connVars, appVars, pollVars, peerVars>>

\* RpcServiceClientEntry::stop of the next client, which has no connection yet: nothing ...
SkipClient ==
  /\ apc = "stopClients"
  /\ \E k \in todo : ~m_ioConnection[k] /\ todo' = todo \ {k}
  /\ UNCHANGED <<ioVars, procVars, serviceVars, serverVars, connVars, apc, client, added,
                 starts, pollVars, peerVars>>

\* ... or has one: remove it ...
StopClient ==
  /\ apc = "stopClients"
  /\ \E k \in todo :
       /\ m_ioConnection[k]
       /\ client' = k
       /\ CallRemove(App, k, m_socketFd[k])
  /\ apc' = "stopClient"
  /\ UNCHANGED <<procVars, serviceVars, serverVars, connVars, todo, added, starts,
                 pollVars, peerVars>>

\* Wrong: the connection is removed, but not stopped.
RemoveClientOnly ==
  /\ apc = "stopClient" /\ call[App] = IdleCall
  /\ todo' = todo \ {client}
  /\ apc' = "stopClients"
  /\ UNCHANGED <<ioVars, procVars, serviceVars, serverVars, connVars, client, added, starts,
                 pollVars, peerVars>>

\* ... and stop it.
StopClientConnection ==
  /\ apc = "stopClient" /\ call[App] = IdleCall
  /\ StopConnection(client)
  /\ todo' = todo \ {client}
  /\ apc' = "stopClients"
  /\ UNCHANGED <<ioVars, procVars, serviceVars, serverVars, m_ioConnection, client, added,
                 starts, pollVars, peerVars>>

\* Wrong: the table keeps the stopped clients.
ClearClientsNot ==
  /\ apc = "stopClients" /\ todo = {}
  /\ clientsMutex' = FALSE
  /\ apc' = "stopServer"
  /\ UNCHANGED <<ioVars, procVars, m_serviceState, m_clients, instanceMutex, serverVars,
                 connVars, client, todo, added, starts, pollVars, peerVars>>

ClearClients ==
  /\ apc = "stopClients" /\ todo = {}
  /\ m_clients' = {}
  /\ clientsMutex' = FALSE
  /\ apc' = "stopServer"
  /\ UNCHANGED <<ioVars, procVars, m_serviceState, instanceMutex, serverVars, connVars,
                 client, todo, added, starts, pollVars, peerVars>>

StopServer ==
  /\ apc = "stopServer"
  /\ IF m_serverState = "STARTED"
     THEN ServerRemove(App) /\ apc' = "removedServer"
     ELSE UNCHANGED ioVars /\ apc' = "stopped"
  /\ UNCHANGED <<procVars, serviceVars, serverVars, connVars, client, todo, added, starts,
                 pollVars, peerVars>>

CloseServer ==
  /\ apc = "removedServer"
  /\ ServerClose(App)
  /\ apc' = "stopped"
  /\ UNCHANGED <<procVars, serviceVars, connVars, client, todo, added, starts, pollVars,
                 sent, inbox, replies>>

\* Wrong: the state is set under m_instanceMutex, which stop already holds.
StopReturnRelocks ==
  /\ apc = "stopped" /\ ~instanceMutex
  /\ m_serviceState' = "INITIALIZED"
  /\ apc' = "idle"
  /\ UNCHANGED <<ioVars, procVars, m_clients, instanceMutex, clientsMutex, serverVars,
                 connVars, client, todo, added, starts, pollVars, peerVars>>

\* Whatever the server's stop returned.
StopReturn ==
  /\ apc = "stopped"
  /\ m_serviceState' = "INITIALIZED"
  /\ instanceMutex' = FALSE
  /\ apc' = "idle"
  /\ UNCHANGED <<ioVars, procVars, m_clients, clientsMutex, serverVars, connVars, client,
                 todo, added, starts, pollVars, peerVars>>

AppContinues ==
  \/ CallStep(App)
  \/ StartReturn \/ SkipClient \/ StopClient \/ StopClientConnection \/ ClearClients
  \/ StopServer \/ CloseServer \/ StopReturn

-----------------------------------------------------------------------------
(* The callbacks of the polling thread *)

\* A client entry lives as long as it is in the table, or a callback holds it.
Alive(k) == k \in m_clients

\* The member whose callback runs, when it is callback cb and at its start.
Begins(cb, m) == lpc[Poller] = cb /\ cur_member[Poller] = m /\ ppc = "begin"

\* TcpIoServer::onConnectRequest tests the state, and the client, that a started
\* server has, ...
TestServer ==
  /\ Begins("onReadAvailable", Listener)
  /\ IF m_serverState = "STARTED" THEN ppc' = "accept" /\ m_client' = TRUE
     ELSE ppc' = "return" /\ UNCHANGED m_client
  /\ UNCHANGED <<ioVars, procVars, serviceVars, m_serverState, m_ioEntry, listening, connVars,
                 appVars, accepted, peerVars>>

\* ... calls accept, which fails when the server was stopped meanwhile, ...
CallAccept ==
  /\ ppc = "accept"
  /\ ppc' = IF listening /\ m_client THEN "accepting" ELSE "return"
  /\ UNCHANGED <<ioVars, procVars, serviceVars, serverVars, connVars, appVars, accepted,
                 peerVars>>

\* ... accepts a peer, for as long as it has to wait for one, ...
AcceptConnection ==
  /\ ppc = "accepting"
  /\ \E k \in Conns : /\ peer[k] = "pending"
                      /\ peer' = [peer EXCEPT ![k] = "connected"]
                      /\ accepted' = k
  /\ ppc' = "create"
  /\ UNCHANGED <<ioVars, procVars, serviceVars, serverVars, connVars, appVars, sent, inbox,
                 replies>>

\* ... and calls its client, through a null pointer when deInit has dropped it.
CreateWithoutClient ==
  /\ ppc = "create" /\ ~m_client
  /\ crashed' = TRUE
  /\ UNCHANGED <<kernelVars, stateVars, tableVars, loopVars, call, procVars, serviceVars,
                 serverVars, connVars, appVars, pollVars, peerVars>>

CreateIoConnectionClient ==
  /\ ppc = "create" /\ m_client /\ ~clientsMutex
  /\ m_clients' = m_clients \cup {accepted}
  /\ ppc' = "attach"
  /\ UNCHANGED <<ioVars, procVars, m_serviceState, instanceMutex, clientsMutex, serverVars,
                 connVars, appVars, accepted, peerVars>>

\* setIoFd, setIoClient and setIoConnection.
SetIoConnection ==
  /\ ppc = "attach"
  /\ m_socketFd' = [m_socketFd EXCEPT ![accepted] = accepted]
  /\ m_ioConnection' = [m_ioConnection EXCEPT ![accepted] = TRUE]
  /\ ppc' = "start"
  /\ UNCHANGED <<ioVars, procVars, serviceVars, serverVars, m_connState, appVars, accepted,
                 peerVars>>

\* startIoClient: TcpIoConnection::start, which succeeds here, and addIoMember,
\* whose result is ignored.
StartConnection ==
  /\ ppc = "start"
  /\ m_connState' = [m_connState EXCEPT ![accepted] = "STARTED"]
  /\ ppc' = "add"
  /\ UNCHANGED <<ioVars, procVars, serviceVars, serverVars, m_ioConnection, m_socketFd,
                 appVars, accepted, peerVars>>

AddConnection ==
  /\ ppc = "add"
  /\ CallAdd(Poller, accepted, m_socketFd[accepted])
  /\ ppc' = "adding"
  /\ UNCHANGED <<procVars, serviceVars, serverVars, connVars, appVars, accepted, peerVars>>

ConnectionAdded ==
  /\ ppc = "adding" /\ call[Poller] = IdleCall
  /\ ppc' = "return" /\ accepted' = NoMember
  /\ UNCHANGED <<ioVars, procVars, serviceVars, serverVars, connVars, appVars, peerVars>>

\* Wrong: the request stays in the receive queue (MSG_PEEK).
ReadConnectionPeeks(k) ==
  /\ Begins("onReadAvailable", k)
  /\ ppc' = IF m_connState[k] # "STARTED" \/ m_socketFd[k] = NoFd \/ ~Alive(k) THEN "return"
            ELSE IF inbox[k] > 0 THEN "handle" ELSE "close"
  /\ UNCHANGED <<ioVars, procVars, serviceVars, serverVars, connVars, appVars, accepted,
                 peerVars>>

\* TcpIoConnection::onReadAvailable: a request, or the end of the stream.
\* With neither, recv blocks: no step.
ReadConnection(k) ==
  /\ Begins("onReadAvailable", k)
  /\ \/ /\ m_connState[k] = "STARTED" /\ m_socketFd[k] # NoFd /\ Alive(k)
        /\ \/ /\ inbox[k] > 0
              /\ inbox' = [inbox EXCEPT ![k] = @ - 1]
              /\ ppc' = "handle"
           \/ /\ inbox[k] = 0 /\ peer[k] = "closed"
              /\ ppc' = "close"
              /\ UNCHANGED inbox
     \/ /\ ~(m_connState[k] = "STARTED" /\ m_socketFd[k] # NoFd /\ Alive(k))
        /\ ppc' = "return"
        /\ UNCHANGED inbox
  /\ UNCHANGED <<ioVars, procVars, serviceVars, serverVars, connVars, appVars, accepted,
                 peer, sent, replies>>

\* RpcServiceImpl::handleData executes the request in the started service only;
\* a void function leaves nothing to send.
HandleData ==
  /\ ppc = "handle" /\ ~instanceMutex
  /\ ppc' \in IF m_serviceState = "STARTED" THEN {"reply", "return"} ELSE {"return"}
  /\ UNCHANGED <<ioVars, procVars, serviceVars, serverVars, connVars, appVars, accepted,
                 peerVars>>

\* sendData tests the connection, ...
TestConnection ==
  /\ ppc = "reply"
  /\ LET k == cur_member[Poller]
     IN ppc' = IF m_connState[k] = "STARTED" /\ m_socketFd[k] # NoFd THEN "sending" ELSE "return"
  /\ UNCHANGED <<ioVars, procVars, serviceVars, serverVars, connVars, appVars, accepted,
                 peerVars>>

\* ... and sends, on no descriptor when the connection was stopped meanwhile.  If
\* the peer has closed the connection, SIGPIPE may end the process.
SendReply ==
  /\ ppc = "sending"
  /\ LET k == cur_member[Poller]
         open == m_socketFd[k] # NoFd
     IN /\ replies' = IF open THEN [replies EXCEPT ![k] = @ + 1] ELSE replies
        /\ crashed' \in IF open /\ peer[k] = "closed" THEN BOOLEAN ELSE {FALSE}
  /\ ppc' = "return"
  /\ UNCHANGED <<kernelVars, stateVars, tableVars, loopVars, call, procVars, serviceVars,
                 serverVars, connVars, appVars, accepted, peer, sent, inbox>>

\* onIoError, of a connection and of the listening socket.
IoError(m) ==
  /\ Begins("onIoError", m)
  /\ ppc' = IF m = Listener THEN "serverStop" ELSE IF Alive(m) THEN "close" ELSE "return"
  /\ UNCHANGED <<ioVars, procVars, serviceVars, serverVars, connVars, appVars, accepted,
                 peerVars>>

\* Wrong: the connection is stopped, but the module still polls it.
CloseConnectionOnly ==
  /\ ppc = "close"
  /\ ppc' = "stopConnection"
  /\ UNCHANGED <<ioVars, procVars, serviceVars, serverVars, connVars, appVars, accepted,
                 peerVars>>

\* RpcServiceClientEntry::handleEvent(CLOSE): remove the connection, ...
CloseConnection ==
  /\ ppc = "close"
  /\ LET k == cur_member[Poller] IN CallRemove(Poller, k, m_socketFd[k])
  /\ ppc' = "stopConnection"
  /\ UNCHANGED <<procVars, serviceVars, serverVars, connVars, appVars, accepted, peerVars>>

\* ... stop it, ...
CloseStopsConnection ==
  /\ ppc = "stopConnection" /\ call[Poller] = IdleCall
  /\ StopConnection(cur_member[Poller])
  /\ ppc' = "forget"
  /\ UNCHANGED <<ioVars, procVars, serviceVars, serverVars, m_ioConnection, appVars,
                 accepted, peerVars>>

\* Wrong: the client entry stays in the table.
RemoveIoConnectionClientNot ==
  /\ ppc = "forget" /\ ~clientsMutex
  /\ ppc' = "return"
  /\ UNCHANGED <<ioVars, procVars, serviceVars, serverVars, connVars, appVars, accepted,
                 peerVars>>

\* ... and forget the client entry.
RemoveIoConnectionClient ==
  /\ ppc = "forget" /\ ~clientsMutex
  /\ m_clients' = m_clients \ {cur_member[Poller]}
  /\ ppc' = "return"
  /\ UNCHANGED <<ioVars, procVars, m_serviceState, instanceMutex, clientsMutex, serverVars,
                 connVars, appVars, accepted, peerVars>>

\* TcpIoServer::onIoError stops the server, under no lock of the service.
ErrorStopsServer ==
  /\ ppc = "serverStop"
  /\ IF m_serverState = "STARTED"
     THEN ServerRemove(Poller) /\ ppc' = "serverRemoved"
     ELSE UNCHANGED ioVars /\ ppc' = "return"
  /\ UNCHANGED <<procVars, serviceVars, serverVars, connVars, appVars, accepted, peerVars>>

ErrorClosesServer ==
  /\ ppc = "serverRemoved"
  /\ ServerClose(Poller)
  /\ ppc' = "return"
  /\ UNCHANGED <<procVars, serviceVars, connVars, appVars, accepted, sent, inbox, replies>>

Callback ==
  \/ TestServer \/ CallAccept \/ AcceptConnection
  \/ CreateWithoutClient \/ CreateIoConnectionClient \/ SetIoConnection
  \/ StartConnection \/ AddConnection \/ ConnectionAdded
  \/ HandleData \/ TestConnection \/ SendReply \/ CloseConnection \/ CloseStopsConnection
  \/ RemoveIoConnectionClient \/ ErrorStopsServer \/ ErrorClosesServer
  \/ \E k \in Conns : ReadConnection(k)
  \/ \E m \in Members : IoError(m)

\* What makes epoll_wait return a descriptor of the service.
Ready(fd) == IF fd = Listener THEN \E k \in Conns : peer[k] = "pending"
             ELSE inbox[fd] > 0 \/ peer[fd] = "closed"

\* The loop of waitThreadFunc.  epoll_wait returns exactly what is ready; an
\* error is reported only of a connection that its peer closed.
PollingLoop ==
  /\ LoopStep(Poller)
  /\ (lpc[Poller] = "blocked") =>
       \A fd \in polled[lep[Poller]] : fd \in batch'[Poller] <=> Ready(fd)
  /\ (lpc'[Poller] = "onIoError" /\ lpc[Poller] = "scan") =>
       LET m == cur_member'[Poller] IN m \in Conns => peer[m] = "closed"
  /\ UNCHANGED <<pollVars>>

CallbackEnds ==
  /\ ppc = "return" /\ CallbackReturn(Poller)
  /\ ppc' = "begin" /\ UNCHANGED accepted

PollingThread ==
  \/ CallStep(Poller)
  \/ Callback
  \/ /\ PollingLoop \/ CallbackEnds
     /\ UNCHANGED <<procVars, serviceVars, serverVars, connVars, appVars, peerVars>>

-----------------------------------------------------------------------------
(* The peers *)
PeerConnect(k) ==
  /\ peer[k] = "none" /\ (listening \/ ppc = "accepting")
  /\ peer' = [peer EXCEPT ![k] = "pending"]
  /\ UNCHANGED <<sent, inbox, replies>>

PeerSend(k) ==
  /\ peer[k] \in {"pending", "connected"} /\ sent[k] < MaxRequests
  /\ sent' = [sent EXCEPT ![k] = @ + 1]
  /\ inbox' = [inbox EXCEPT ![k] = @ + 1]
  /\ UNCHANGED <<peer, replies>>

PeerClose(k) ==
  /\ peer[k] = "connected"
  /\ peer' = [peer EXCEPT ![k] = "closed"]
  /\ UNCHANGED <<sent, inbox, replies>>

Peers ==
  /\ \E k \in Conns : PeerConnect(k) \/ PeerSend(k) \/ PeerClose(k)
  /\ UNCHANGED <<ioVars, procVars, serviceVars, serverVars, connVars, appVars, pollVars>>

-----------------------------------------------------------------------------
\* A stop overlaps with a callback that opens or closes a connection, or with
\* one that stops the server; or a start has failed.
Record ==
  causes' = causes
    \cup (IF apc' \in Stopping /\ ppc' \in Opening \cup Closing THEN {"race"} ELSE {})
    \cup (IF apc' = "idle" /\ apc = "starting" /\ ~added THEN {"failedStart"} ELSE {})

AppCalls == ProcessUp \/ ServiceInit \/ ServiceDeinit \/ Start \/ Stop \/ StopRefused

\* The process died, nobody calls anything, or the table's mutex was kept.
Finished == crashed \/ apc = "idle" \/ m_ioMembersMutex

Next ==
  \/ ~crashed /\ AppCalls /\ Record
  \/ ~crashed /\ AppContinues /\ Record
  \/ ~crashed /\ PollingThread /\ Record
  \/ ~crashed /\ Peers /\ Record
  \/ Finished /\ UNCHANGED vars

Spec == Init /\ [][Next]_vars

\* A thread that can go on does.  Calls and peers are free to come or not.
FairSpec ==
  /\ Spec
  /\ WF_vars(~crashed /\ AppContinues /\ Record)
  /\ WF_vars(~crashed /\ PollingThread /\ Record)

-----------------------------------------------------------------------------
(* Properties *)

\* The table's mutex is kept by an early exit only after a stop of the service
\* overlapped with the opening or closing of a connection, or after a start
\* that failed left its entry behind.
MutexKeptOnlyInRace == m_ioMembersMutex => causes # {}

\* A connection in the module's table has a client entry and is started, so its
\* events are handled: no connection makes the polling thread spin.
ConnectionsAreOwned ==
  causes = {} =>
    \A k \in Conns : Registered(k) =>
      k \in m_clients /\ m_connState[k] = "STARTED" /\ m_socketFd[k] = k

\* A stopped service holds no connection and polls none.
StoppedIsEmpty ==
  causes = {} /\ m_serviceState # "STARTED" =>
    /\ m_clients = {}
    /\ \A m \in Members : apc = "idle" => ~Registered(m) /\ m \notin polled[Poller]

\* An answer goes to a client the running service has: once a stop has cleared its
\* client no callback sends one, not even one that had executed the request before,
\* or that goes on when the service is started again.
AnswersStayInService ==
  [][causes = {} =>
       \A k \in Conns :
         replies'[k] # replies[k] => k \in m_clients /\ m_serviceState = "STARTED"]_vars

\* stop and start return, unless the mutex of the table was kept.
AppReturns == apc # "idle" ~> apc = "idle" \/ m_ioMembersMutex \/ crashed

\* A request on a connection that is polled is read, unless the service stops or
\* dies, or the connection was dropped because its peer closed it.
RequestsAreRead ==
  \A k \in Conns :
    inbox[k] > 0 /\ k \in polled[Poller] ~>
      \/ inbox[k] = 0
      \/ peer[k] = "closed" /\ k \notin m_clients
      \/ m_serviceState # "STARTED" \/ apc \in Stopping \/ causes # {} \/ crashed

\* A stop that is refused with "invalid state" changes nothing: a service that
\* is INITIALIZED was initialized, and can be started.
RefusedStopIsHarmless == m_serviceState = "INITIALIZED" => HasServer

\* "close the server": stop returns.
StopReturns == apc \in Stopping ~> apc = "idle" \/ crashed
=============================================================================
