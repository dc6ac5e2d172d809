--------------------------- MODULE RpcServiceProofs ---------------------------
(* Proofs about RpcService, for every set of members and every bound on the  *)
(* starts and the requests.                                                  *)
EXTENDS RpcService, IoModuleProofs

USE DEF Gens, NoEpoll, Callers, Poller, Conns, Attaching

-----------------------------------------------------------------------------
(* The inductive invariant *)

\* What HandleData and SendReply are about to answer.
Answering(k) == ppc \in {"handle", "reply", "sending"} /\ cur_member[Poller] = k

\* A callback that has begun is one of the polling thread ...
CallbackRuns == ppc # "begin" => InCallback(Poller)

\* ... of a connection, when it reads, answers or closes one ...
OfConnection ==
  ppc \in {"handle", "reply", "sending", "close", "stopConnection", "forget"} => cur_member[Poller] \in Conns

\* ... and an accepted one is at hand as long as it is opened.
AcceptedIsConnection == ppc \in Attaching => accepted \in Conns

\* The loop over the clients is at one.
ClientIsConnection == apc = "stopClient" => client \in Conns

\* The one thread is started once: its pipe is polled from then on.
StartedOnce ==
  /\ m_epollFd = 1 => generation = 1
  /\ lpc[Poller] # "none" => generation = 1 /\ (m_epollFd = 1 => wakePolled[Poller])

\* A request that was read and is not answered is still due.
DueReplies ==
  \A k \in Conns :
    /\ sent[k] <= MaxRequests
    /\ replies[k] + inbox[k] <= sent[k]
    /\ Answering(k) => replies[k] + inbox[k] < sent[k]

\* All but the causes.
OwnStateTyped ==
  /\ m_serviceState \in ComponentStates /\ m_serverState \in ComponentStates
  /\ m_ioEntry \in BOOLEAN /\ listening \in BOOLEAN
  /\ m_clients \subseteq Conns
  /\ m_ioConnection \in [Conns -> BOOLEAN]
  /\ m_connState \in [Conns -> {"CREATED", "STARTED"}]
  /\ m_socketFd \in [Conns -> Conns \cup {NoFd}]
  /\ instanceMutex \in BOOLEAN /\ clientsMutex \in BOOLEAN
  /\ apc \in {"idle", "starting"} \cup Stopping
  /\ client \in Conns \cup {NoMember} /\ todo \subseteq Conns
  /\ added \in BOOLEAN
  /\ ppc \in {"begin", "handle", "reply", "sending", "return"} \cup Opening \cup Closing
  /\ accepted \in Conns \cup {NoMember}
  /\ starts \in 0..MaxStarts
  /\ peer \in [Conns -> {"none", "pending", "connected", "closed"}]

ClientTyped == m_client \in BOOLEAN

OwnTypeOK == OwnStateTyped /\ causes \subseteq {"race", "failedStart"}

CountsTyped ==
  sent \in [Conns -> Nat] /\ inbox \in [Conns -> Nat] /\ replies \in [Conns -> Nat]

PollFacts ==
  CallbackRuns /\ OfConnection /\ AcceptedIsConnection /\ ClientIsConnection /\ StartedOnce

ServiceInv == ClientTyped /\ IoTypeOK /\ ProcTypeOK /\ OwnTypeOK /\ CountsTyped /\ PollFacts /\ DueReplies

LEMMA TypesSplit == ServiceInv => TypeOK
<1> SUFFICES ASSUME ServiceInv PROVE TypeOK
  OBVIOUS
<1>1. IoTypeOK /\ ProcTypeOK /\ OwnTypeOK
  BY DEF ServiceInv
<1>2. MaxRequests \in Nat
  BY ServiceAssumption
<1>3. ASSUME NEW k \in Conns
      PROVE  sent[k] \in 0..MaxRequests /\ inbox[k] \in 0..MaxRequests /\ replies[k] \in 0..MaxRequests
  <2>1. sent[k] \in Nat /\ inbox[k] \in Nat /\ replies[k] \in Nat
    BY DEF ServiceInv, CountsTyped
  <2>2. sent[k] <= MaxRequests /\ replies[k] + inbox[k] <= sent[k]
    BY DEF ServiceInv, DueReplies
  <2> QED
    BY <1>2, <2>1, <2>2
<1>4. /\ sent \in [Conns -> 0..MaxRequests]
      /\ inbox \in [Conns -> 0..MaxRequests]
      /\ replies \in [Conns -> 0..MaxRequests]
  BY <1>3 DEF ServiceInv, CountsTyped
<1>5. m_client \in BOOLEAN
  BY DEF ServiceInv, ClientTyped
<1> QED
  BY <1>1, <1>4, <1>5 DEF OwnTypeOK, OwnStateTyped, TypeOK

LEMMA Constants ==
  /\ App \in Callers /\ Poller \in Callers /\ Poller \in Gens /\ App # Poller
  /\ Listener \in Members /\ Conns \subseteq Members /\ Fds = Members
  /\ MaxStarts \in Nat /\ MaxRequests \in Nat /\ MaxGen = 1
  /\ Gens = {1}
<1>1. Threads = {App} /\ MaxGen = 1 /\ Gens = {1}
  BY ServiceAssumption
<1>2. App # Poller
  BY <1>1, IoAssumption
<1> QED
  BY <1>1, <1>2, ServiceAssumption

-----------------------------------------------------------------------------
(* The state of IoModule and DericProcess keeps its types *)

\* Steps that close the listening socket.
LEMMA CloseListenerType ==
  ASSUME IoTypeOK, CloseListener,
         UNCHANGED <<pipe, wakePolled, stateVars, tableVars, loopVars, call, crashed>>
  PROVE  IoTypeOK'
BY KernelCloseType DEF CloseListener, IoTypeOK, stateVars, tableVars, loopVars

LEMMA ServerRemoveType ==
  ASSUME IoTypeOK, NEW c \in Callers, ServerRemove(c)
  PROVE  IoTypeOK'
<1>1. CASE m_ioEntry
  BY <1>1, CallRemoveType, Constants DEF ServerRemove
<1>2. CASE UNCHANGED ioVars
  BY <1>2 DEF IoTypeOK, ioVars, kernelVars, stateVars, tableVars, loopVars
<1> QED
  BY <1>1, <1>2 DEF ServerRemove

LEMMA IoKept == IoTypeOK /\ UNCHANGED ioVars => IoTypeOK'
BY DEF IoTypeOK, ioVars, kernelVars, stateVars, tableVars, loopVars

LEMMA CallStepIoType ==
  ASSUME IoTypeOK, NEW c \in Callers, CallStep(c)
  PROVE  IoTypeOK'
<1>1. \E ok \in BOOLEAN :
        AddEntry(c) \/ AddCtl(c, ok) \/ AddWakeup(c) \/ RemoveEntry(c) \/ RemoveCtl(c)
  BY DEF CallStep
<1> QED
  BY <1>1, CallStepType

LEMMA AppIoType ==
  ASSUME ServiceInv, AppCalls \/ AppContinues
  PROVE  IoTypeOK'
<1>i. IoTypeOK /\ ProcTypeOK
  BY DEF ServiceInv
<1>f. m_socketFd \in [Conns -> Conns \cup {NoFd}] /\ todo \subseteq Conns
  BY DEF ServiceInv, OwnTypeOK, OwnStateTyped
<1>1. CASE ProcessUp
  BY <1>1, <1>i, ProcStepType DEF ProcessUp, ProcStep
<1>2. CASE ServiceInit \/ ServiceDeinit \/ Stop \/ StopRefused \/ SkipClient
           \/ StopClientConnection \/ ClearClients \/ StopReturn
  BY <1>2, <1>i, IoKept DEF ServiceInit, ServiceDeinit, Stop, StopRefused, SkipClient,
       StopClientConnection,
                           ClearClients, StopReturn
<1>3. CASE Start
  BY <1>3, <1>i, CallAddType, Constants DEF Start
<1>4. CASE CallStep(App)
  BY <1>4, <1>i, CallStepIoType, Constants
<1>5. CASE StartReturn
  BY <1>5, <1>i, IoKept, CloseListenerType DEF StartReturn
<1>6. CASE StopClient
  <2>1. PICK k \in todo : CallRemove(App, k, m_socketFd[k])
    BY <1>6 DEF StopClient
  <2>2. k \in Members /\ m_socketFd[k] \in Fds \cup {NoFd}
    BY <1>f, Constants
  <2> QED
    BY <1>i, <2>1, <2>2, CallRemoveType, Constants
<1>7. CASE StopServer
  BY <1>7, <1>i, ServerRemoveType, IoKept, Constants DEF StopServer
<1>8. CASE CloseServer
  BY <1>8, <1>i, CloseListenerType DEF CloseServer, ServerClose
<1> QED
  BY <1>1, <1>2, <1>3, <1>4, <1>5, <1>6, <1>7, <1>8 DEF AppCalls, AppContinues

LEMMA PollingIoType ==
  ASSUME ServiceInv, PollingThread
  PROVE  IoTypeOK'
<1>i. IoTypeOK
  BY DEF ServiceInv
<1>f. m_socketFd \in [Conns -> Conns \cup {NoFd}]
  BY DEF ServiceInv, OwnTypeOK, OwnStateTyped
<1>1. CASE CallStep(Poller)
  BY <1>1, <1>i, CallStepIoType, Constants
<1>2. CASE PollingLoop \/ CallbackEnds
  BY <1>2, <1>i, LoopType, Constants DEF PollingLoop, CallbackEnds
<1>3. CASE TestServer \/ CallAccept \/ AcceptConnection \/ CreateIoConnectionClient
           \/ SetIoConnection \/ StartConnection \/ ConnectionAdded \/ HandleData
           \/ TestConnection \/ CloseStopsConnection \/ RemoveIoConnectionClient
           \/ (\E k \in Conns : ReadConnection(k)) \/ (\E m \in Members : IoError(m))
  BY <1>3, <1>i, IoKept DEF TestServer, CallAccept, AcceptConnection, CreateIoConnectionClient,
       SetIoConnection,
        StartConnection, ConnectionAdded, HandleData, TestConnection, CloseStopsConnection,
        RemoveIoConnectionClient, ReadConnection, IoError
<1>4. CASE AddConnection
  <2>1. accepted \in Members /\ m_socketFd[accepted] \in Fds \cup {NoFd}
    BY <1>4, <1>f, Constants DEF AddConnection, ServiceInv, PollFacts, AcceptedIsConnection, Opening
  <2> QED
    BY <1>4, <1>i, <2>1, CallAddType, Constants DEF AddConnection
<1>5. CASE CloseConnection
  <2>1. cur_member[Poller] \in Members /\ m_socketFd[cur_member[Poller]] \in Fds \cup {NoFd}
    BY <1>5, <1>f, Constants DEF CloseConnection, ServiceInv, PollFacts, OfConnection
  <2> QED
    BY <1>5, <1>i, <2>1, CallRemoveType, Constants DEF CloseConnection
<1>6. CASE ErrorStopsServer
  BY <1>6, <1>i, ServerRemoveType, IoKept, Constants DEF ErrorStopsServer
<1>7. CASE ErrorClosesServer
  BY <1>7, <1>i, CloseListenerType DEF ErrorClosesServer, ServerClose
<1>8. CASE SendReply
  <2>1. crashed' \in BOOLEAN
    BY <1>8, Zenon DEF SendReply
  <2> QED
    BY <1>8, <1>i, <2>1 DEF SendReply, IoTypeOK, kernelVars, stateVars, tableVars, loopVars
<1>9. CASE CreateWithoutClient
  <2>1. crashed' \in BOOLEAN
    BY <1>9, Zenon DEF CreateWithoutClient
  <2> QED
    BY <1>9, <1>i, <2>1 DEF CreateWithoutClient, IoTypeOK, kernelVars, stateVars, tableVars, loopVars
<1> QED
  BY <1>1, <1>2, <1>3, <1>4, <1>5, <1>6, <1>7, <1>8, <1>9 DEF PollingThread, Callback

-----------------------------------------------------------------------------
(* The service's own state keeps its types *)

LEMMA RecordType == causes \subseteq {"race", "failedStart"} /\ Record
                      => causes' \subseteq {"race", "failedStart"}
BY DEF Record

LEMMA AddedType ==
  ASSUME added \in BOOLEAN, NEW c \in Callers, CallStep(c)
  PROVE  added' \in BOOLEAN
<1>1. CASE added' = added
  BY <1>1
<1>2. CASE added' = (c = App \/ added)
  BY <1>2, Zenon
<1>3. ASSUME NEW ok \in BOOLEAN, added' = IF c = App THEN CanCtl /\ ok ELSE added
      PROVE  added' \in BOOLEAN
  <2>1. (CanCtl /\ ok) \in BOOLEAN
    BY Zenon
  <2> QED
    BY <1>3, <2>1, Zenon
<1> QED
  BY <1>1, <1>2, <1>3, Zenon DEF CallStep

LEMMA CloseListenerPeer ==
  ASSUME OwnStateTyped, CloseListener
  PROVE  listening' \in BOOLEAN /\ peer' \in [Conns -> {"none", "pending", "connected", "closed"}]
BY DEF OwnStateTyped, CloseListener

LEMMA StopConnectionType ==
  ASSUME OwnStateTyped, NEW k \in Conns, StopConnection(k)
  PROVE  /\ m_connState' \in [Conns -> {"CREATED", "STARTED"}]
         /\ m_socketFd' \in [Conns -> Conns \cup {NoFd}]
BY DEF OwnStateTyped, StopConnection

LEMMA AppOwnType ==
  ASSUME ServiceInv, OwnStateTyped, AppCalls \/ AppContinues
  PROVE  OwnStateTyped'
<1> USE Constants DEF OwnStateTyped, Stopping, Opening, Closing, ComponentStates,
        serviceVars, serverVars, connVars, appVars, pollVars, peerVars
<1>1. CASE ProcessUp
  BY <1>1 DEF ProcessUp
<1>2. CASE ServiceInit
  BY <1>2 DEF ServiceInit
<1>3. CASE ServiceDeinit
  BY <1>3 DEF ServiceDeinit
<1>4. CASE Start
  BY <1>4 DEF Start
<1>5. CASE Stop
  BY <1>5 DEF Stop
<1>6. CASE StopRefused
  BY <1>6 DEF StopRefused
<1>7. CASE CallStep(App)
  <2>1. UNCHANGED <<serviceVars, serverVars, connVars, apc, client, todo, starts, pollVars, peerVars>>
    BY <1>7 DEF CallStep
  <2> QED
    BY <1>7, <2>1, AddedType
<1>8. CASE StartReturn
  <2>1. /\ UNCHANGED <<m_clients, clientsMutex, m_ioConnection, m_connState, m_socketFd, client,
                       todo, added, starts, ppc, accepted>>
        /\ instanceMutex' = FALSE /\ apc' = "idle"
        /\ m_serverState' \in {m_serverState, "STARTED"} /\ m_serviceState' \in {m_serviceState, "STARTED"}
        /\ m_ioEntry' = m_ioEntry \/ m_ioEntry' = FALSE
        /\ CloseListener \/ UNCHANGED <<listening, peer>>
    BY <1>8 DEF StartReturn
  <2>2. listening' \in BOOLEAN /\ peer' \in [Conns -> {"none", "pending", "connected", "closed"}]
    BY <2>1, CloseListenerPeer
  <2>3. m_ioEntry' \in BOOLEAN /\ instanceMutex' \in BOOLEAN /\ clientsMutex' \in BOOLEAN /\ added' \in BOOLEAN
    BY <2>1, Zenon
  <2> HIDE DEF OwnStateTyped
  <2>4. OwnStateTyped
    OBVIOUS
  <2> QED
    BY <2>1, <2>2, <2>3, <2>4 DEF OwnStateTyped
<1>9. CASE SkipClient \/ StopClient
  BY <1>9 DEF SkipClient, StopClient
<1>10. CASE StopClientConnection
  <2>0. /\ todo' \subseteq Conns /\ apc' = "stopClients"
        /\ UNCHANGED <<serviceVars, serverVars, m_ioConnection, client, added, starts, pollVars, peerVars>>
    BY <1>10 DEF StopClientConnection
  <2>1. client \in Conns
    BY <1>10 DEF StopClientConnection, ServiceInv, PollFacts, ClientIsConnection
  <2>2. /\ m_connState' \in [Conns -> {"CREATED", "STARTED"}]
        /\ m_socketFd' \in [Conns -> Conns \cup {NoFd}]
    BY <1>10, <2>1, StopConnectionType, Zenon DEF StopClientConnection
  <2> QED
    BY <2>0, <2>2
<1>11. CASE ClearClients
  <2>1. /\ m_clients' = {} /\ clientsMutex' = FALSE /\ apc' = "stopServer"
        /\ UNCHANGED <<m_serviceState, instanceMutex, m_serverState, m_ioEntry, listening,
                       m_ioConnection, m_connState, m_socketFd, client, todo, added, starts,
                       ppc, accepted, peer>>
    BY <1>11 DEF ClearClients
  <2>2. m_ioEntry' \in BOOLEAN /\ instanceMutex' \in BOOLEAN /\ clientsMutex' \in BOOLEAN
        /\ added' \in BOOLEAN /\ listening' \in BOOLEAN
    BY <2>1, Zenon
  <2>3. m_clients' \subseteq Conns /\ apc' \in {"idle", "starting"} \cup Stopping
    BY <2>1
  <2> HIDE DEF OwnStateTyped
  <2>4. OwnStateTyped
    OBVIOUS
  <2> QED
    BY <2>1, <2>2, <2>3, <2>4 DEF OwnStateTyped
<1>12. CASE StopServer
  <2>1. /\ apc' \in {"removedServer", "stopped"}
        /\ UNCHANGED <<serviceVars, serverVars, connVars, client, todo, added, starts, pollVars, peerVars>>
    BY <1>12 DEF StopServer
  <2> QED
    BY <2>1
<1>13. CASE CloseServer
  <2>1. /\ m_ioEntry' = FALSE /\ m_serverState' = "INITIALIZED" /\ apc' = "stopped"
        /\ UNCHANGED <<m_serviceState, m_clients, instanceMutex, clientsMutex, m_ioConnection,
                       m_connState, m_socketFd, client, todo, added, starts, ppc, accepted>>
    BY <1>13 DEF CloseServer, ServerClose
  <2>2. listening' \in BOOLEAN /\ peer' \in [Conns -> {"none", "pending", "connected", "closed"}]
    BY <1>13, CloseListenerPeer DEF CloseServer, ServerClose
  <2>3. m_ioEntry' \in BOOLEAN /\ instanceMutex' \in BOOLEAN /\ clientsMutex' \in BOOLEAN
        /\ added' \in BOOLEAN
    BY <2>1, Zenon
  <2> HIDE DEF OwnStateTyped
  <2>4. OwnStateTyped
    OBVIOUS
  <2> QED
    BY <2>1, <2>2, <2>3, <2>4 DEF OwnStateTyped
<1>14. CASE StopReturn
  <2>1. /\ m_serviceState' = "INITIALIZED" /\ instanceMutex' = FALSE /\ apc' = "idle"
        /\ UNCHANGED <<m_clients, clientsMutex, m_serverState, m_ioEntry, listening,
                       m_ioConnection, m_connState, m_socketFd, client, todo, added, starts,
                       ppc, accepted, peer>>
    BY <1>14 DEF StopReturn
  <2>2. m_ioEntry' \in BOOLEAN /\ instanceMutex' \in BOOLEAN /\ clientsMutex' \in BOOLEAN
        /\ added' \in BOOLEAN /\ listening' \in BOOLEAN
    BY <2>1, Zenon
  <2> HIDE DEF OwnStateTyped
  <2>4. OwnStateTyped
    OBVIOUS
  <2> QED
    BY <2>1, <2>2, <2>4 DEF OwnStateTyped
<1> QED
  BY <1>1, <1>2, <1>3, <1>4, <1>5, <1>6, <1>7, <1>8, <1>9, <1>10, <1>11, <1>12, <1>13, <1>14
  DEF AppCalls, AppContinues

LEMMA ClientType ==
  ASSUME ClientTyped, AppCalls \/ AppContinues \/ PollingThread \/ Peers
  PROVE  ClientTyped'
<1>1. m_client' = m_client \/ m_client' = TRUE \/ m_client' = FALSE
  <2> USE DEF serverVars
  <2>1. CASE AppCalls \/ AppContinues
    BY <2>1 DEF AppCalls, AppContinues, ProcessUp, ServiceInit, ServiceDeinit, Start, Stop, StopRefused,
       CallStep, StartReturn, SkipClient, StopClient, StopClientConnection, ClearClients, StopServer,
       CloseServer, ServerClose, StopReturn
  <2>2. CASE PollingThread
    BY <2>2 DEF PollingThread, Callback, CallStep, TestServer, CallAccept, AcceptConnection,
       CreateWithoutClient, CreateIoConnectionClient, SetIoConnection, StartConnection, AddConnection,
       ConnectionAdded, HandleData, TestConnection, SendReply, CloseConnection, CloseStopsConnection,
       RemoveIoConnectionClient, ErrorStopsServer, ErrorClosesServer, ServerClose, ReadConnection,
       IoError
  <2>3. CASE Peers
    BY <2>3 DEF Peers
  <2> QED
    BY <2>1, <2>2, <2>3
<1> QED
  BY <1>1, Zenon DEF ClientTyped

LEMMA PollingOwnType ==
  ASSUME ServiceInv, OwnStateTyped, PollingThread
  PROVE  OwnStateTyped'
<1> USE Constants DEF OwnStateTyped, Stopping, Opening, Closing, ComponentStates,
        serviceVars, serverVars, connVars, appVars, pollVars, peerVars
<1>a. ppc \in Attaching => accepted \in Conns
  BY DEF ServiceInv, PollFacts, AcceptedIsConnection
<1>c. ppc \in {"handle", "reply", "sending", "close", "stopConnection", "forget"} => cur_member[Poller] \in Conns
  BY DEF ServiceInv, PollFacts, OfConnection
<1>1. CASE CallStep(Poller)
  BY <1>1, AddedType DEF CallStep
<1>2. CASE /\ PollingLoop \/ CallbackEnds
           /\ UNCHANGED <<procVars, serviceVars, serverVars, connVars, appVars, peerVars>>
  BY <1>2 DEF PollingLoop, CallbackEnds
<1>3. CASE TestServer \/ CallAccept \/ AcceptConnection \/ CreateWithoutClient
  BY <1>3 DEF TestServer, CallAccept, AcceptConnection, CreateWithoutClient
<1>4. CASE CreateIoConnectionClient
  BY <1>4, <1>a DEF CreateIoConnectionClient
<1>5. CASE SetIoConnection
  BY <1>5, <1>a DEF SetIoConnection
<1>6. CASE StartConnection
  BY <1>6, <1>a DEF StartConnection
<1>7. CASE AddConnection
  BY <1>7 DEF AddConnection
<1>8. CASE ConnectionAdded
  BY <1>8 DEF ConnectionAdded
<1>9. CASE HandleData
  BY <1>9 DEF HandleData
<1>10. CASE TestConnection \/ SendReply
  <2>1. CASE TestConnection
    BY <2>1 DEF TestConnection
  <2>2. CASE SendReply
    BY <2>2 DEF SendReply
  <2> QED
    BY <1>10, <2>1, <2>2
<1>11. CASE CloseConnection
  BY <1>11 DEF CloseConnection
<1>12. CASE CloseStopsConnection
  <2>1. cur_member[Poller] \in Conns
    BY <1>12, <1>c DEF CloseStopsConnection
  <2>2. /\ m_connState' \in [Conns -> {"CREATED", "STARTED"}]
        /\ m_socketFd' \in [Conns -> Conns \cup {NoFd}]
    BY <1>12, <2>1, StopConnectionType DEF CloseStopsConnection
  <2> QED
    BY <1>12, <2>2 DEF CloseStopsConnection
<1>13. CASE RemoveIoConnectionClient
  BY <1>13 DEF RemoveIoConnectionClient
<1>14. CASE ErrorStopsServer
  BY <1>14 DEF ErrorStopsServer
<1>15. CASE ErrorClosesServer
  <2>1. /\ m_ioEntry' = FALSE /\ m_serverState' = "INITIALIZED" /\ ppc' = "return"
        /\ UNCHANGED <<m_serviceState, m_clients, instanceMutex, clientsMutex, m_ioConnection,
                       m_connState, m_socketFd, apc, client, todo, added, starts, accepted>>
    BY <1>15 DEF ErrorClosesServer, ServerClose
  <2>2. listening' \in BOOLEAN /\ peer' \in [Conns -> {"none", "pending", "connected", "closed"}]
    BY <1>15, CloseListenerPeer DEF ErrorClosesServer, ServerClose
  <2>3. m_ioEntry' \in BOOLEAN /\ instanceMutex' \in BOOLEAN /\ clientsMutex' \in BOOLEAN
        /\ added' \in BOOLEAN
    BY <2>1, Zenon
  <2> HIDE DEF OwnStateTyped
  <2>4. OwnStateTyped
    OBVIOUS
  <2> QED
    BY <2>1, <2>2, <2>3, <2>4 DEF OwnStateTyped
<1>16. CASE \E k \in Conns : ReadConnection(k)
  BY <1>16 DEF ReadConnection
<1>17. CASE \E m \in Members : IoError(m)
  BY <1>17 DEF IoError
<1> QED
  BY <1>1, <1>2, <1>3, <1>4, <1>5, <1>6, <1>7, <1>8, <1>9, <1>10, <1>11, <1>12, <1>13, <1>14,
     <1>15, <1>16, <1>17 DEF PollingThread, Callback
-----------------------------------------------------------------------------
(* Where the polling thread is *)

LEMMA AppFrame ==
  ASSUME ServiceInv, AppCalls \/ AppContinues
  PROVE  /\ UNCHANGED <<ppc, accepted, cur_member, sent, inbox, replies>>
         /\ lpc' = lpc \/ lpc[Poller] = "none"
         /\ apc' = "stopClient" => client' \in Conns
         /\ StartedOnce'
<1>s. StartedOnce /\ ClientIsConnection
  BY DEF ServiceInv, PollFacts
<1>t. todo \subseteq Conns
  BY DEF ServiceInv, OwnTypeOK, OwnStateTyped
<1>i. IoTypeOK
  BY DEF ServiceInv
<1>k. (UNCHANGED <<lpc, generation, m_epollFd, wakePolled>>) => StartedOnce'
  BY <1>s DEF StartedOnce
<1> USE DEF Stopping, serviceVars, serverVars, connVars, appVars, pollVars, peerVars,
        ioVars, procVars, kernelVars, stateVars, tableVars, loopVars, CallAdd, CallRemove
<1>1. CASE ProcessUp
  <2>1. UNCHANGED <<ppc, accepted, sent, inbox, replies, apc, client>>
    BY <1>1 DEF ProcessUp
  <2>2. cur_member' = cur_member
    BY <1>1 DEF ProcessUp, ProcInit, ProcStart, ProcUndo, ModuleInit, ModuleStart, ModuleDeinit
  <2>3. CASE ProcInit
    <3>1. lpc' = lpc /\ wakePolled' = wakePolled
      BY <2>3 DEF ProcInit, ModuleInit
    <3>2. \/ UNCHANGED <<m_epollFd, generation>>
          \/ generation < 1 /\ generation' = generation + 1
      BY <2>3, Constants DEF ProcInit, ModuleInit
    <3>i. generation \in 0..1
      BY <1>i, Constants DEF IoTypeOK
    <3>3. StartedOnce'
      BY <3>1, <3>2, <3>i, <1>s DEF StartedOnce
    <3> QED
      BY <1>1, <1>s, <2>1, <2>2, <3>1, <3>3 DEF ProcessUp, ClientIsConnection
  <2>4. CASE ProcStart
    <3>1. UNCHANGED <<generation, m_epollFd>>
      BY <2>4 DEF ProcStart, ModuleStart
    <3>2. CASE UNCHANGED <<wakePolled, lpc>>
      BY <1>1, <1>s, <1>k, <2>1, <2>2, <3>1, <3>2 DEF ProcessUp, ClientIsConnection
    <3>3. CASE /\ m_epollFd # NoEpoll /\ ~wakePolled[m_epollFd]
               /\ wakePolled' = [wakePolled EXCEPT ![m_epollFd] = TRUE]
      <4>1. m_epollFd = 1 /\ m_epollFd = Poller
        BY <3>3, <1>i, Constants DEF IoTypeOK
      <4>2. lpc[Poller] = "none"
        BY <3>3, <4>1, <1>s DEF StartedOnce
      <4>3. generation = 1 /\ wakePolled'[Poller]
        BY <4>1, <3>3, <1>i, <1>s DEF IoTypeOK, StartedOnce
      <4> QED
        BY <1>1, <1>s, <2>1, <2>2, <3>1, <4>2, <4>3 DEF ProcessUp, ClientIsConnection, StartedOnce
    <3> QED
      BY <2>4, <3>2, <3>3 DEF ProcStart, ModuleStart
  <2>5. CASE ProcUndo
    <3>1. lpc' = lpc /\ generation' = generation
      BY <2>5 DEF ProcUndo, ModuleDeinit
    <3>2. m_epollFd' = NoEpoll \/ UNCHANGED <<m_epollFd, wakePolled>>
      BY <2>5 DEF ProcUndo, ModuleDeinit
    <3> QED
      BY <1>1, <1>s, <2>1, <2>2, <3>1, <3>2 DEF ProcessUp, ClientIsConnection, StartedOnce
  <2> QED
    BY <1>1, <2>3, <2>4, <2>5 DEF ProcessUp
<1>2. CASE ServiceInit \/ ServiceDeinit \/ Start \/ Stop \/ StopRefused
  BY <1>2, <1>k, <1>s DEF ServiceInit, ServiceDeinit, Start, Stop, StopRefused, ClientIsConnection
<1>3. CASE CallStep(App)
  <2>1. UNCHANGED <<ppc, accepted, sent, inbox, replies, apc, client>>
    BY <1>3 DEF CallStep
  <2>2. UNCHANGED <<lpc, cur_member, generation, m_epollFd, wakePolled>>
    BY <1>3 DEF CallStep, AddEntry, AddCtl, AddWakeup, RemoveEntry, RemoveCtl
  <2> QED
    BY <2>1, <2>2, <1>k, <1>s DEF ClientIsConnection
<1>4. CASE StartReturn
  <2>1. UNCHANGED <<ppc, accepted, sent, inbox, replies>> /\ apc' = "idle"
    BY <1>4 DEF StartReturn
  <2>2. UNCHANGED <<lpc, cur_member, generation, m_epollFd, wakePolled>>
    BY <1>4 DEF StartReturn
  <2> QED
    BY <2>1, <2>2, <1>k
<1>5. CASE StopClient
  <2>1. UNCHANGED <<ppc, accepted, sent, inbox, replies>> /\ client' \in todo
    BY <1>5 DEF StopClient
  <2>2. UNCHANGED <<lpc, cur_member, generation, m_epollFd, wakePolled>>
    BY <1>5 DEF StopClient
  <2> QED
    BY <2>1, <2>2, <1>k, <1>t
<1>6. CASE SkipClient \/ StopClientConnection \/ ClearClients \/ StopReturn
  BY <1>6, <1>k DEF SkipClient, StopClientConnection, ClearClients, StopReturn
<1>7. CASE StopServer
  BY <1>7, <1>k DEF StopServer, ServerRemove
<1>8. CASE CloseServer
  BY <1>8, <1>k DEF CloseServer, ServerClose
<1> QED
  BY <1>1, <1>2, <1>3, <1>4, <1>5, <1>6, <1>7, <1>8 DEF AppCalls, AppContinues

LEMMA AppPollFacts ==
  ASSUME ServiceInv, AppCalls \/ AppContinues
  PROVE  PollFacts' /\ CountsTyped' /\ DueReplies'
<1>1. /\ UNCHANGED <<ppc, accepted, cur_member, sent, inbox, replies>>
      /\ lpc' = lpc \/ lpc[Poller] = "none"
      /\ apc' = "stopClient" => client' \in Conns
      /\ StartedOnce'
  BY AppFrame
<1>2. PollFacts /\ CountsTyped /\ DueReplies
  BY DEF ServiceInv
<1>3. CallbackRuns'
  BY <1>1, <1>2 DEF PollFacts, CallbackRuns, InCallback
<1>4. OfConnection' /\ AcceptedIsConnection' /\ ClientIsConnection'
  BY <1>1, <1>2 DEF PollFacts, OfConnection, AcceptedIsConnection, ClientIsConnection
<1>5. CountsTyped' /\ DueReplies'
  BY <1>1, <1>2 DEF CountsTyped, DueReplies, Answering
<1> QED
  BY <1>1, <1>3, <1>4, <1>5 DEF PollFacts

\* A step of a callback leaves the loop, and the application's thread, where they are.
LEMMA CallbackFrame ==
  ASSUME ServiceInv, CallStep(Poller) \/ Callback
  PROVE  /\ UNCHANGED <<lpc, cur_member, generation, m_epollFd, wakePolled, apc, client>>
         /\ Callback => InCallback(Poller)
<1> USE DEF serviceVars, serverVars, connVars, appVars, pollVars, peerVars,
        ioVars, procVars, kernelVars, stateVars, tableVars, loopVars, CallAdd, CallRemove
<1>1. CASE CallStep(Poller)
  <2>1. UNCHANGED <<lpc, cur_member, generation, m_epollFd, wakePolled, apc, client>>
    BY <1>1 DEF CallStep, AddEntry, AddCtl, AddWakeup, RemoveEntry, RemoveCtl
  <2>2. CallbackRuns
    BY DEF ServiceInv, PollFacts
  <2>3. CASE ~Callback
    BY <2>1, <2>3
  <2>4. Callback => InCallback(Poller)
    BY <2>2 DEF CallbackRuns, Callback, TestServer, CallAccept, AcceptConnection,
         CreateWithoutClient, CreateIoConnectionClient, SetIoConnection,
      StartConnection, AddConnection, ConnectionAdded, HandleData, TestConnection, SendReply,
      CloseConnection,
      CloseStopsConnection, RemoveIoConnectionClient, ErrorStopsServer, ErrorClosesServer,
      ReadConnection, IoError, Begins, InCallback
  <2> QED
    BY <2>1, <2>4
<1>2. CASE Callback
  <2>1. CallbackRuns
    BY DEF ServiceInv, PollFacts
  <2>2. InCallback(Poller)
    BY <1>2, <2>1 DEF CallbackRuns, Callback, TestServer, CallAccept, AcceptConnection,
         CreateWithoutClient, CreateIoConnectionClient, SetIoConnection,
      StartConnection, AddConnection, ConnectionAdded, HandleData, TestConnection, SendReply,
      CloseConnection,
      CloseStopsConnection, RemoveIoConnectionClient, ErrorStopsServer, ErrorClosesServer,
      ReadConnection, IoError, Begins, InCallback
  <2>3. CASE TestServer \/ CallAccept \/ AcceptConnection \/ CreateWithoutClient
             \/ CreateIoConnectionClient \/ SetIoConnection \/ StartConnection
             \/ AddConnection \/ ConnectionAdded \/ HandleData \/ TestConnection \/ SendReply
    BY <2>2, <2>3 DEF TestServer, CallAccept, AcceptConnection, CreateWithoutClient,
         CreateIoConnectionClient, SetIoConnection, StartConnection,
       AddConnection, ConnectionAdded, HandleData, TestConnection, SendReply
  <2>4. CASE CloseConnection \/ CloseStopsConnection \/ RemoveIoConnectionClient \/ ErrorStopsServer
             \/ ErrorClosesServer \/ (\E k \in Conns : ReadConnection(k))
             \/ (\E m \in Members : IoError(m))
    BY <2>2, <2>4 DEF CloseConnection, CloseStopsConnection, RemoveIoConnectionClient,
       ErrorStopsServer, ErrorClosesServer, ReadConnection, IoError, ServerRemove, ServerClose
  <2> QED
    BY <1>2, <2>3, <2>4 DEF Callback
<1> QED
  BY <1>1, <1>2

\* What a callback does next, and what it has at hand then.
LEMMA CallbackPollFacts ==
  ASSUME ServiceInv, CallStep(Poller) \/ Callback
  PROVE  PollFacts'
<1>f. /\ UNCHANGED <<lpc, cur_member, generation, m_epollFd, wakePolled, apc, client>>
      /\ Callback => InCallback(Poller)
  BY CallbackFrame
<1>p. CallbackRuns /\ OfConnection /\ AcceptedIsConnection /\ ClientIsConnection /\ StartedOnce
  BY DEF ServiceInv, PollFacts
<1>1. ClientIsConnection' /\ StartedOnce'
  BY <1>f, <1>p DEF ClientIsConnection, StartedOnce
<1>2. CallbackRuns'
  <2>1. CASE CallStep(Poller)
    BY <2>1, <1>f, <1>p DEF CallStep, CallbackRuns, InCallback, pollVars
  <2>2. CASE Callback
    BY <2>2, <1>f DEF CallbackRuns, InCallback
  <2> QED
    BY <2>1, <2>2
<1>3. OfConnection' /\ AcceptedIsConnection'
  <2> USE <1>f, <1>p DEF OfConnection, AcceptedIsConnection, Opening, Closing, pollVars
  <2>1. CASE CallStep(Poller)
    BY <2>1 DEF CallStep
  <2>2. CASE TestServer \/ CallAccept \/ AcceptConnection \/ CreateWithoutClient
             \/ CreateIoConnectionClient \/ SetIoConnection \/ StartConnection
             \/ AddConnection \/ ConnectionAdded
    BY <2>2 DEF TestServer, CallAccept, AcceptConnection, CreateWithoutClient,
         CreateIoConnectionClient, SetIoConnection, StartConnection,
       AddConnection, ConnectionAdded
  <2>3. CASE HandleData \/ TestConnection \/ SendReply \/ CloseConnection \/ CloseStopsConnection
             \/ RemoveIoConnectionClient
    BY <2>3 DEF HandleData, TestConnection, SendReply, CloseConnection, CloseStopsConnection,
       RemoveIoConnectionClient
  <2>4. CASE ErrorStopsServer \/ ErrorClosesServer
    BY <2>4 DEF ErrorStopsServer, ErrorClosesServer
  <2>5. CASE \E k \in Conns : ReadConnection(k)
    BY <2>5 DEF ReadConnection, Begins
  <2>6. CASE \E m \in Members : IoError(m)
    <3>1. PICK m \in Members : IoError(m)
      BY <2>6
    <3>2. CASE m = Listener
      BY <3>1, <3>2 DEF IoError, Begins
    <3>3. CASE m # Listener
      BY <3>1, <3>3 DEF IoError, Begins
    <3> QED
      BY <3>2, <3>3
  <2> QED
    BY <2>1, <2>2, <2>3, <2>4, <2>5, <2>6 DEF Callback
<1> QED
  BY <1>1, <1>2, <1>3 DEF PollFacts

\* The loop itself runs no callback.
LEMMA LoopPollFacts ==
  ASSUME ServiceInv, PollingLoop \/ CallbackEnds, UNCHANGED <<appVars>>
  PROVE  PollFacts' /\ ppc' = "begin"
<1>p. CallbackRuns /\ AcceptedIsConnection /\ ClientIsConnection /\ StartedOnce /\ IoTypeOK
  BY DEF ServiceInv, PollFacts
<1>1. ppc' = "begin" /\ accepted' = accepted
  <2>1. CASE CallbackEnds
    BY <2>1 DEF CallbackEnds
  <2>2. CASE PollingLoop
    <3>1. LoopStep(Poller) /\ UNCHANGED <<ppc, accepted>>
      BY <2>2 DEF PollingLoop, pollVars
    <3>2. lpc[Poller] \in {"spawned", "wait", "blocked", "scan", "exit"}
      BY <3>1 DEF LoopStep, ThreadStart, EpollEnter, EpollReturn, ScanFreed, ScanWake, ScanMember,
                  BatchDone, ThreadExit
    <3> QED
      BY <3>1, <3>2, <1>p DEF CallbackRuns, InCallback
  <2> QED
    BY <2>1, <2>2
<1>2. UNCHANGED <<generation, m_epollFd, wakePolled, apc, client>> /\ lpc[Poller] # "none"
  <2>1. UNCHANGED <<apc, client>>
    BY DEF appVars
  <2>2. CASE CallbackEnds
    BY <2>1, <2>2 DEF CallbackEnds, CallbackReturn, InCallback, kernelVars, stateVars
  <2>3. CASE LoopStep(Poller)
    BY <2>1, <2>3 DEF LoopStep, ThreadStart, EpollEnter, EpollReturn, ScanFreed, ScanWake, ScanMember,
                  BatchDone, ThreadExit, kernelVars, stateVars
  <2> QED
    BY <2>2, <2>3 DEF PollingLoop
<1>3. ClientIsConnection' /\ StartedOnce'
  BY <1>2, <1>p DEF ClientIsConnection, StartedOnce
<1> QED
  BY <1>1, <1>3 DEF PollFacts, CallbackRuns, OfConnection, AcceptedIsConnection, Opening

-----------------------------------------------------------------------------
(* A request is answered once *)

LEMMA DueKept ==
  ASSUME CountsTyped, DueReplies, UNCHANGED <<sent, inbox, replies>>,
         \A k \in Conns : Answering(k)' => Answering(k)
  PROVE  CountsTyped' /\ DueReplies'
BY DEF CountsTyped, DueReplies

\* A request is taken from the queue, and due while it is handled.
LEMMA ReadDue ==
  ASSUME ServiceInv, NEW k \in Conns, ReadConnection(k), cur_member' = cur_member
  PROVE  CountsTyped' /\ DueReplies'
<1>c. CountsTyped /\ DueReplies
  BY DEF ServiceInv
<1>r. sent' = sent /\ replies' = replies /\ cur_member[Poller] = k
  BY DEF ReadConnection, Begins
<1>1. CASE inbox[k] > 0 /\ inbox' = [inbox EXCEPT ![k] = @ - 1] /\ ppc' = "handle"
  <2>1. CountsTyped'
    BY <1>1, <1>c, <1>r DEF CountsTyped
  <2>2. ASSUME NEW n \in Conns
        PROVE  /\ sent'[n] <= MaxRequests
               /\ replies'[n] + inbox'[n] <= sent'[n]
               /\ Answering(n)' => replies'[n] + inbox'[n] < sent'[n]
    <3>1. CASE n = k
      <4>1. inbox'[n] = inbox[n] - 1 /\ inbox[n] \in Nat /\ replies[n] \in Nat /\ sent[n] \in Nat
        BY <1>1, <3>1, <1>c DEF CountsTyped
      <4>2. sent[n] <= MaxRequests /\ replies[n] + inbox[n] <= sent[n]
        BY <1>c DEF DueReplies
      <4> QED
        BY <4>1, <4>2, <1>r, ServiceAssumption
    <3>2. CASE n # k
      BY <1>1, <1>c, <1>r, <3>2 DEF CountsTyped, DueReplies, Answering
    <3> QED
      BY <3>1, <3>2
  <2> QED
    BY <2>1, <2>2 DEF DueReplies
<1>2. CASE ppc' \in {"close", "return"} /\ inbox' = inbox
  BY <1>2, <1>c, <1>r, DueKept DEF Answering
<1> QED
  BY <1>1, <1>2 DEF ReadConnection

\* The answer that was due is given, or dropped.
LEMMA ReplyDue ==
  ASSUME ServiceInv, SendReply, cur_member' = cur_member
  PROVE  CountsTyped' /\ DueReplies'
<1>c. CountsTyped /\ DueReplies
  BY DEF ServiceInv
<1> DEFINE k == cur_member[Poller]
<1>k. k \in Conns /\ Answering(k)
  BY DEF ServiceInv, PollFacts, OfConnection, SendReply, Answering
<1>r. sent' = sent /\ inbox' = inbox /\ ppc' = "return"
  BY DEF SendReply
<1>1. CASE replies' = replies
  BY <1>1, <1>c, <1>r, DueKept DEF Answering
<1>2. CASE replies' = [replies EXCEPT ![k] = @ + 1]
  <2>1. CountsTyped'
    BY <1>2, <1>c, <1>r, <1>k DEF CountsTyped
  <2>2. ASSUME NEW n \in Conns
        PROVE  /\ sent'[n] <= MaxRequests
               /\ replies'[n] + inbox'[n] <= sent'[n]
    <3>1. CASE n = k
      <4>1. replies'[n] = replies[n] + 1 /\ inbox[n] \in Nat /\ replies[n] \in Nat /\ sent[n] \in Nat
        BY <1>2, <3>1, <1>c DEF CountsTyped
      <4>2. sent[n] <= MaxRequests /\ replies[n] + inbox[n] < sent[n]
        BY <1>c, <1>k, <3>1 DEF DueReplies
      <4> QED
        BY <4>1, <4>2, <1>r, ServiceAssumption
    <3>2. CASE n # k
      BY <1>2, <1>c, <1>r, <3>2 DEF CountsTyped, DueReplies
    <3> QED
      BY <3>1, <3>2
  <2> QED
    BY <2>1, <2>2, <1>r DEF DueReplies, Answering
<1> QED
  BY <1>1, <1>2 DEF SendReply

LEMMA CallbackDue ==
  ASSUME ServiceInv, CallStep(Poller) \/ Callback
  PROVE  CountsTyped' /\ DueReplies'
<1>f. cur_member' = cur_member
  BY CallbackFrame
<1>c. CountsTyped /\ DueReplies
  BY DEF ServiceInv
<1> USE DEF Answering, peerVars, pollVars
<1>1. CASE CallStep(Poller)
  BY <1>1, <1>f, <1>c, DueKept DEF CallStep
<1>2. CASE TestServer \/ CallAccept \/ AcceptConnection \/ CreateWithoutClient
           \/ CreateIoConnectionClient \/ SetIoConnection \/ StartConnection
           \/ AddConnection \/ ConnectionAdded
  BY <1>2, <1>f, <1>c, DueKept DEF TestServer, CallAccept, AcceptConnection, CreateWithoutClient,
       CreateIoConnectionClient, SetIoConnection,
     StartConnection, AddConnection, ConnectionAdded
<1>3. CASE HandleData \/ TestConnection \/ CloseConnection \/ CloseStopsConnection
           \/ RemoveIoConnectionClient
  BY <1>3, <1>f, <1>c, DueKept DEF HandleData, TestConnection, CloseConnection, CloseStopsConnection,
     RemoveIoConnectionClient
<1>4. CASE ErrorStopsServer
  BY <1>4, <1>f, <1>c, DueKept DEF ErrorStopsServer
<1>5. CASE ErrorClosesServer
  BY <1>5, <1>f, <1>c, DueKept DEF ErrorClosesServer
<1>6. CASE \E m \in Members : IoError(m)
  BY <1>6, <1>f, <1>c, DueKept DEF IoError
<1>7. CASE SendReply
  BY <1>7, <1>f, ReplyDue
<1>8. CASE \E k \in Conns : ReadConnection(k)
  BY <1>8, <1>f, ReadDue
<1> QED
  BY <1>1, <1>2, <1>3, <1>4, <1>5, <1>6, <1>7, <1>8 DEF Callback

LEMMA PollingStep ==
  ASSUME ServiceInv, PollingThread
  PROVE  PollFacts' /\ CountsTyped' /\ DueReplies'
<1>1. CASE CallStep(Poller) \/ Callback
  BY <1>1, CallbackPollFacts, CallbackDue
<1>2. CASE /\ PollingLoop \/ CallbackEnds
           /\ UNCHANGED <<procVars, serviceVars, serverVars, connVars, appVars, peerVars>>
  <2>1. PollFacts' /\ ppc' = "begin"
    BY <1>2, LoopPollFacts
  <2>2. UNCHANGED <<sent, inbox, replies>>
    BY <1>2 DEF peerVars
  <2>3. CountsTyped /\ DueReplies
    BY DEF ServiceInv
  <2> QED
    BY <2>1, <2>2, <2>3, DueKept DEF Answering
<1> QED
  BY <1>1, <1>2 DEF PollingThread

LEMMA PeersStep ==
  ASSUME ServiceInv, Peers
  PROVE  IoTypeOK' /\ ProcTypeOK' /\ OwnStateTyped' /\ PollFacts' /\ CountsTyped' /\ DueReplies'
<1>i. IoTypeOK /\ ProcTypeOK /\ OwnStateTyped /\ PollFacts /\ CountsTyped /\ DueReplies
  BY DEF ServiceInv, OwnTypeOK
<1>u. UNCHANGED <<ioVars, procVars, serviceVars, serverVars, connVars, appVars, pollVars>>
  BY DEF Peers
<1>1. IoTypeOK' /\ ProcTypeOK'
  BY <1>i, <1>u, IoKept DEF ProcTypeOK, procVars
<1>2. PollFacts'
  BY <1>i, <1>u DEF PollFacts, CallbackRuns, OfConnection, AcceptedIsConnection, ClientIsConnection,
     StartedOnce, InCallback, ioVars, appVars, pollVars, loopVars, stateVars, kernelVars
<1>3. PICK k \in Conns : PeerConnect(k) \/ PeerSend(k) \/ PeerClose(k)
  BY DEF Peers
<1>4. OwnStateTyped'
  <2>1. peer' \in [Conns -> {"none", "pending", "connected", "closed"}]
    BY <1>3, <1>i DEF OwnStateTyped, PeerConnect, PeerSend, PeerClose
  <2> QED
    BY <2>1, <1>i, <1>u DEF OwnStateTyped, serviceVars, serverVars, connVars, appVars, pollVars
<1>a. \A n \in Conns : Answering(n)' <=> Answering(n)
  BY <1>u DEF Answering, pollVars, ioVars, loopVars
<1>5. CountsTyped' /\ DueReplies'
  <2>1. CASE PeerConnect(k) \/ PeerClose(k)
    BY <2>1, <1>a, <1>i, DueKept DEF PeerConnect, PeerClose
  <2>2. CASE PeerSend(k)
    <3>1. CountsTyped'
      BY <2>2, <1>i DEF CountsTyped, PeerSend
    <3>2. ASSUME NEW n \in Conns
          PROVE  /\ sent'[n] <= MaxRequests
                 /\ replies'[n] + inbox'[n] <= sent'[n]
                 /\ Answering(n)' => replies'[n] + inbox'[n] < sent'[n]
      <4>1. sent[n] \in Nat /\ inbox[n] \in Nat /\ replies[n] \in Nat
        BY <1>i DEF CountsTyped
      <4>2. /\ sent[n] <= MaxRequests /\ replies[n] + inbox[n] <= sent[n]
            /\ Answering(n) => replies[n] + inbox[n] < sent[n]
        BY <1>i DEF DueReplies
      <4>3. CASE n = k
        <5>1. /\ sent'[n] = sent[n] + 1 /\ inbox'[n] = inbox[n] + 1 /\ replies'[n] = replies[n]
              /\ sent[n] < MaxRequests
          BY <2>2, <4>3, <1>i DEF PeerSend, CountsTyped
        <5> QED
          BY <4>1, <4>2, <5>1, <1>a, ServiceAssumption
      <4>4. CASE n # k
        BY <2>2, <4>1, <4>2, <4>4, <1>a, <1>i DEF PeerSend, CountsTyped
      <4> QED
        BY <4>3, <4>4
    <3> QED
      BY <3>1, <3>2 DEF DueReplies
  <2> QED
    BY <1>3, <2>1, <2>2
<1> QED
  BY <1>1, <1>2, <1>4, <1>5

-----------------------------------------------------------------------------
(* Every step *)

LEMMA AppProcType ==
  ASSUME ServiceInv, AppCalls \/ AppContinues
  PROVE  ProcTypeOK'
<1>i. IoTypeOK /\ ProcTypeOK
  BY DEF ServiceInv
<1>1. CASE ProcessUp
  BY <1>1, <1>i, ProcStepType DEF ProcessUp, ProcStep
<1>2. CASE UNCHANGED procVars
  BY <1>2, <1>i DEF ProcTypeOK, procVars
<1>3. ~ProcessUp => UNCHANGED procVars
  BY DEF AppCalls, AppContinues, ServiceInit, ServiceDeinit, Start, Stop, StopRefused, CallStep,
     StartReturn, SkipClient, StopClient, StopClientConnection, ClearClients, StopServer,
     CloseServer, StopReturn
<1> QED
  BY <1>1, <1>2, <1>3

LEMMA PollingProcType ==
  ASSUME ServiceInv, PollingThread
  PROVE  ProcTypeOK'
<1>1. UNCHANGED procVars
  BY DEF PollingThread, Callback, CallStep, TestServer, CallAccept, AcceptConnection,
       CreateWithoutClient, CreateIoConnectionClient,
     SetIoConnection, StartConnection, AddConnection, ConnectionAdded, HandleData, TestConnection,
     SendReply,
     CloseConnection, CloseStopsConnection, RemoveIoConnectionClient, ErrorStopsServer,
     ErrorClosesServer, ReadConnection, IoError
<1> QED
  BY <1>1 DEF ServiceInv, ProcTypeOK, procVars

LEMMA ServiceInvInit == Init => ServiceInv
<1> SUFFICES ASSUME Init PROVE ServiceInv
  OBVIOUS
<1>1. IoTypeOK
  BY IoInitType DEF Init
<1>2. ProcTypeOK
  BY DEF Init, ProcInitial, ProcTypeOK
<1>3. CountsTyped
  BY DEF Init, CountsTyped
<1>4. DueReplies
  BY ServiceAssumption DEF Init, DueReplies, Answering
<1>5. PollFacts
  <2>1. lpc[Poller] = "none" /\ m_epollFd = 0
    BY Constants DEF Init, IoInit
  <2> QED
    BY <2>1 DEF Init, PollFacts, CallbackRuns, OfConnection, AcceptedIsConnection,
       ClientIsConnection, StartedOnce, Opening
<1>6. OwnTypeOK
  <2>1. m_ioEntry \in BOOLEAN /\ listening \in BOOLEAN /\ instanceMutex \in BOOLEAN
        /\ clientsMutex \in BOOLEAN /\ added \in BOOLEAN
    BY Zenon DEF Init
  <2>2. m_ioConnection \in [Conns -> BOOLEAN]
    BY Zenon DEF Init
  <2>3. /\ m_connState \in [Conns -> {"CREATED", "STARTED"}]
        /\ m_socketFd \in [Conns -> Conns \cup {NoFd}]
        /\ peer \in [Conns -> {"none", "pending", "connected", "closed"}]
        /\ m_clients \subseteq Conns /\ todo \subseteq Conns /\ starts \in 0..MaxStarts
        /\ causes \subseteq {"race", "failedStart"}
    BY ServiceAssumption DEF Init
  <2>4. /\ m_serviceState \in ComponentStates /\ m_serverState \in ComponentStates
        /\ apc \in {"idle", "starting"} \cup Stopping
        /\ client \in Conns \cup {NoMember} /\ accepted \in Conns \cup {NoMember}
        /\ ppc \in {"begin", "handle", "reply", "sending", "return"} \cup Opening \cup Closing
    BY DEF Init, ComponentStates
  <2> QED
    BY <2>1, <2>2, <2>3, <2>4 DEF OwnTypeOK, OwnStateTyped
<1>7. ClientTyped
  BY Zenon DEF Init, ClientTyped
<1> QED
  BY <1>1, <1>2, <1>3, <1>4, <1>5, <1>6, <1>7 DEF ServiceInv

LEMMA ServiceStep ==
  ASSUME ServiceInv, [Next]_vars
  PROVE  ServiceInv'
<1>o. OwnStateTyped /\ causes \subseteq {"race", "failedStart"}
  BY DEF ServiceInv, OwnTypeOK
<1>r. Record => causes' \subseteq {"race", "failedStart"}
  BY <1>o, RecordType
<1>c. AppCalls \/ AppContinues \/ PollingThread \/ Peers => ClientTyped'
  BY ClientType DEF ServiceInv
<1>1. CASE (AppCalls \/ AppContinues) /\ Record
  <2>1. OwnStateTyped'
    BY <1>1, <1>o, AppOwnType
  <2>2. IoTypeOK' /\ ProcTypeOK' /\ PollFacts' /\ CountsTyped' /\ DueReplies'
    BY <1>1, AppIoType, AppProcType, AppPollFacts
  <2> QED
    BY <1>1, <1>r, <1>c, <2>1, <2>2 DEF ServiceInv, OwnTypeOK
<1>2. CASE PollingThread /\ Record
  <2>1. OwnStateTyped'
    BY <1>2, <1>o, PollingOwnType
  <2>2. IoTypeOK' /\ ProcTypeOK' /\ PollFacts' /\ CountsTyped' /\ DueReplies'
    BY <1>2, PollingIoType, PollingProcType, PollingStep
  <2> QED
    BY <1>2, <1>r, <1>c, <2>1, <2>2 DEF ServiceInv, OwnTypeOK
<1>3. CASE Peers /\ Record
  <2>1. OwnStateTyped' /\ IoTypeOK' /\ ProcTypeOK' /\ PollFacts' /\ CountsTyped' /\ DueReplies'
    BY <1>3, PeersStep
  <2> QED
    BY <1>3, <1>r, <1>c, <2>1 DEF ServiceInv, OwnTypeOK
<1>4. CASE UNCHANGED vars
  <2>1. IoTypeOK'
    BY <1>4, IoKept DEF ServiceInv, vars
  <2>2. ProcTypeOK'
    BY <1>4 DEF ServiceInv, ProcTypeOK, procVars, vars
  <2>3. OwnStateTyped' /\ causes' = causes
    BY <1>4, <1>o DEF OwnStateTyped, vars, serviceVars, serverVars, connVars, appVars, pollVars,
         peerVars
  <2>4. CountsTyped' /\ DueReplies'
    BY <1>4, DueKept DEF ServiceInv, vars, ioVars, loopVars, pollVars, peerVars, Answering
  <2>5. PollFacts'
    BY <1>4 DEF ServiceInv, PollFacts, CallbackRuns, OfConnection, AcceptedIsConnection,
       ClientIsConnection, StartedOnce, InCallback, vars, ioVars, appVars, pollVars, loopVars,
       stateVars, kernelVars
  <2>6. ClientTyped'
    BY <1>4 DEF ServiceInv, ClientTyped, vars, serverVars
  <2> QED
    BY <1>o, <2>1, <2>2, <2>3, <2>4, <2>5, <2>6 DEF ServiceInv, OwnTypeOK
<1> QED
  BY <1>1, <1>2, <1>3, <1>4 DEF Next

\* The inductive invariant holds in every behaviour of the service.
THEOREM ServiceInvariant == Spec => []ServiceInv
<1>1. Init => ServiceInv
  BY ServiceInvInit
<1>2. ServiceInv /\ [Next]_vars => ServiceInv'
  BY ServiceStep
<1> QED
  BY <1>1, <1>2, PTL DEF Spec

\* Every variable of the service, of its server, of its connections and of the
\* module under them keeps its type, however many connections there are.
THEOREM TypeCorrect == Spec => []TypeOK
<1>1. ServiceInv => TypeOK
  BY TypesSplit
<1> QED
  BY <1>1, ServiceInvariant, PTL

-----------------------------------------------------------------------------
(* What holds as long as no stop overlapped with an opening or a closing, and *)
(* no start failed                                                            *)

\* The process is up, on its way up, or down.
UpInv ==
  /\ m_init => ctl = "idle" /\ m_epollFd = 1 /\ m_state # "CREATED"
  /\ ~m_init => lpc[Poller] = "none"
  /\ ~m_init /\ ctl = "idle" => m_epollFd = NoEpoll /\ m_state = "CREATED"
  /\ ctl # "idle" => m_epollFd = 1 /\ m_state = "INITIALIZED"
  /\ apc # "idle" => ctl = "idle"

NoRace == apc \in Stopping => ppc \notin Opening \cup Closing

\* The states of the service and of its server, against the two program counters.
ServerPhase ==
  /\ m_serviceState = "STARTED" => m_init
  /\ m_serverState = "STARTED" => m_serviceState = "STARTED" /\ m_ioEntry
  /\ apc = "starting" =>
       m_serverState = "INITIALIZED" /\ m_serviceState = "INITIALIZED" /\ m_ioEntry
  /\ apc = "starting" /\ call[App].op \in {"addWake", "none"} /\ added => m_init
  /\ apc \in Stopping => m_serviceState = "STARTED"
  /\ ppc \in (Opening \cup Closing) \ {"serverStop"} => m_serviceState = "STARTED"
  /\ ppc = "serverRemoved" \/ apc = "removedServer" => m_serverState = "STARTED"
  /\ apc = "stopped" => m_serverState # "STARTED"

\* The table of clients, against them.
ClientsPhase ==
  /\ m_clients # {} =>
       m_serviceState = "STARTED" /\ apc \notin {"stopServer", "removedServer", "stopped"}
  /\ apc \in {"stopClients", "stopClient"} => todo \subseteq m_clients
  /\ apc = "stopClient" => client \in todo
  /\ ppc \in {"close", "stopConnection", "forget"} => cur_member[Poller] \in m_clients
  /\ ppc = "create" => accepted \notin m_clients
  /\ ppc \in Attaching \ {"create"} => accepted \in m_clients

Adds    == {"add", "addCtl", "addWake"}
Removes == {"remove", "delCtl"}

\* Caller c is in none of these calls, or in one for m.
CallIs(c, ops, m) ==
  call[c].op = "none" \/ (call[c].op \in ops /\ call[c].m = m /\ call[c].fd = m)

CallsPhase ==
  /\ apc \notin {"starting", "stopClient", "removedServer"} => call[App].op = "none"
  /\ apc = "starting" => CallIs(App, Adds, Listener)
  /\ apc = "stopClient" => CallIs(App, Removes, client)
  /\ apc = "removedServer" => CallIs(App, Removes, Listener)
  /\ ppc \notin {"adding", "stopConnection", "serverRemoved"} => call[Poller].op = "none"
  /\ ppc = "adding" => CallIs(Poller, Adds, accepted)
  /\ ppc = "stopConnection" => CallIs(Poller, Removes, cur_member[Poller])
  /\ ppc = "serverRemoved" => CallIs(Poller, Removes, Listener)

\* m is neither in the table nor polled.
Out(m) == ~Registered(m) /\ m \notin polled[Poller]

\* How far the call that adds, or removes, m has come.
AddsTo(c, m) ==
  /\ call[c].op = "add" => Out(m)
  /\ call[c].op # "add" => Registered(m)

RemovesFrom(c, m) ==
  /\ call[c].op = "remove" => Registered(m)
  /\ call[c].op = "delCtl" => ~Registered(m)
  /\ call[c].op = "none" => Out(m)

\* The listening socket, from start to stop.
ListenerPhase ==
  /\ m_serverState # "STARTED" /\ apc # "starting" => Out(Listener)
  /\ apc = "starting" => AddsTo(App, Listener)
  /\ apc = "removedServer" => RemovesFrom(App, Listener)
  /\ ppc = "serverRemoved" => RemovesFrom(Poller, Listener)
  /\ m_serverState = "STARTED" /\ apc # "removedServer" /\ ppc # "serverRemoved" =>
       Registered(Listener)

StoppedConn(k) == m_connState[k] = "CREATED" /\ m_socketFd[k] = NoFd
StartedConn(k) == m_connState[k] = "STARTED" /\ m_socketFd[k] = k /\ m_ioConnection[k]

\* Who is about to open, close or stop connection k.
OpensIt(k)  == ppc \in Attaching /\ accepted = k
ClosesIt(k) == ppc \in {"stopConnection", "forget"} /\ cur_member[Poller] = k
StopsIt(k)  == /\ apc \in {"stopClients", "stopClient"}
               /\ k \notin todo \/ (apc = "stopClient" /\ client = k)

\* A connection, from accept to close.
ConnPhase(k) ==
  /\ peer[k] \in {"none", "pending"} => k \notin m_clients /\ ~OpensIt(k)
  /\ k \notin m_clients => Out(k) /\ StoppedConn(k)
  /\ k \in m_clients /\ ~OpensIt(k) /\ ~ClosesIt(k) /\ ~StopsIt(k) =>
       Registered(k) /\ StartedConn(k)
  /\ OpensIt(k) =>
       /\ ppc = "attach" => Out(k) /\ StoppedConn(k)
       /\ ppc = "start" => /\ Out(k) /\ m_connState[k] = "CREATED"
                           /\ m_socketFd[k] = k /\ m_ioConnection[k]
       /\ ppc = "add" => Out(k) /\ StartedConn(k)
       /\ ppc = "adding" => AddsTo(Poller, k) /\ StartedConn(k)
  /\ ClosesIt(k) =>
       /\ ppc = "stopConnection" => RemovesFrom(Poller, k) /\ StartedConn(k)
       /\ ppc = "forget" => Out(k) /\ StoppedConn(k)
  /\ StopsIt(k) /\ k \in m_clients =>
       IF k \in todo THEN RemovesFrom(App, k) /\ StartedConn(k) ELSE Out(k) /\ StoppedConn(k)

Clean ==
  /\ ~m_ioMembersMutex /\ NoRace
  /\ ServerPhase /\ ClientsPhase /\ CallsPhase /\ ListenerPhase
  /\ \A k \in Conns : ConnPhase(k)

CleanInv == causes = {} => Clean

-----------------------------------------------------------------------------
(* UpInv *)

LEMMA ProcessUpUp ==
  ASSUME ServiceInv, UpInv, ProcessUp
  PROVE  UpInv' /\ (m_init' \/ ~m_init)
<1>i. generation \in 0..1 /\ m_epollFd \in {0, 1} /\ lpc \in [Gens -> LoopPcs] /\ StartedOnce
      /\ m_init \in BOOLEAN
  BY Constants DEF ServiceInv, IoTypeOK, PollFacts, ProcTypeOK
<1>g. MaxGen = 1 /\ Gens = {1} /\ Poller \in Gens
  BY Constants
<1>a. apc = "idle" /\ apc' = "idle"
  BY DEF ProcessUp, appVars
<1> USE <1>i, <1>g, <1>a DEF UpInv
<1>1. CASE ProcInit
  <2>1. ctl = "idle" /\ ~m_init /\ m_init' = m_init /\ lpc' = lpc
    BY <1>1 DEF ProcInit, ModuleInit, loopVars
  <2>2. m_epollFd = 0 /\ m_state = "CREATED"
    BY <2>1
  <2>3. \/ ctl' = "idle" /\ UNCHANGED <<m_state, m_epollFd>>
        \/ ctl' = "start" /\ generation < 1 /\ m_epollFd' = generation + 1 /\ m_state' = "INITIALIZED"
    BY <1>1, <2>2 DEF ProcInit, ModuleInit
  <2> QED
    BY <2>1, <2>2, <2>3
<1>2. CASE ProcStart
  <2>1. ctl = "start" /\ ~m_init /\ m_epollFd = 1 /\ m_state = "INITIALIZED"
    BY <1>2 DEF ProcStart
  <2>2. UNCHANGED <<m_epollFd, m_state>>
    BY <1>2 DEF ProcStart, ModuleStart, stateVars
  <2>3. \/ m_init' = TRUE /\ ctl' = "idle"
        \/ m_init' = FALSE /\ ctl' = "undo" /\ lpc' = lpc
    BY <1>2 DEF ProcStart, ModuleStart
  <2> QED
    BY <2>1, <2>2, <2>3
<1>3. CASE ProcUndo
  <2>1. ctl = "undo" /\ ~m_init /\ m_init' = m_init /\ lpc' = lpc /\ ctl' = "idle"
        /\ m_state = "INITIALIZED"
    BY <1>3 DEF ProcUndo, ModuleDeinit, loopVars
  <2>2. m_epollFd' = NoEpoll /\ m_state' = "CREATED"
    BY <1>3, <2>1 DEF ProcUndo, ModuleDeinit
  <2> QED
    BY <2>1, <2>2
<1> QED
  BY <1>1, <1>2, <1>3 DEF ProcessUp

LEMMA AppUp ==
  ASSUME ServiceInv, UpInv, AppCalls \/ AppContinues
  PROVE  UpInv'
<1>1. CASE ProcessUp
  BY <1>1, ProcessUpUp
<1> USE DEF Stopping, serviceVars, serverVars, connVars, appVars, pollVars, peerVars,
        ioVars, procVars, kernelVars, stateVars, tableVars, loopVars, CallAdd, CallRemove
<1>2. CASE ~ProcessUp
  <2>1. UNCHANGED <<m_init, ctl, m_epollFd, m_state, lpc>>
    BY <1>2 DEF AppCalls, AppContinues, ServiceInit, ServiceDeinit, Start, Stop, StopRefused, CallStep,
       StartReturn, SkipClient, StopClient, StopClientConnection, ClearClients, StopServer,
       CloseServer, StopReturn,
       AddEntry, AddCtl, AddWakeup, RemoveEntry, RemoveCtl, ServerRemove, ServerClose
  <2>2. apc' # "idle" => ctl = "idle" \/ apc # "idle"
    BY <1>2 DEF AppCalls, AppContinues, ServiceInit, ServiceDeinit, Start, Stop, StopRefused, CallStep,
       StartReturn, SkipClient, StopClient, StopClientConnection, ClearClients, StopServer,
       CloseServer, StopReturn
  <2> QED
    BY <2>1, <2>2 DEF UpInv
<1> QED
  BY <1>1, <1>2

LEMMA PollingUp ==
  ASSUME ServiceInv, UpInv, PollingThread
  PROVE  UpInv'
<1>1. CASE CallStep(Poller) \/ Callback
  <2>1. UNCHANGED <<lpc, m_epollFd, apc>>
    BY <1>1, CallbackFrame
  <2>2. UNCHANGED <<m_init, ctl>>
    BY <1>1 DEF Callback, CallStep, TestServer, CallAccept, AcceptConnection, CreateWithoutClient,
         CreateIoConnectionClient,
     SetIoConnection, StartConnection, AddConnection, ConnectionAdded, HandleData, TestConnection,
     SendReply,
     CloseConnection, CloseStopsConnection, RemoveIoConnectionClient, ErrorStopsServer,
     ErrorClosesServer, ReadConnection, IoError, procVars
  <2> USE DEF stateVars, ioVars, CallAdd, CallRemove
  <2>3. m_state' = m_state
    <3>1. CASE CallStep(Poller)
      BY <3>1 DEF CallStep, AddEntry, AddCtl, AddWakeup, RemoveEntry, RemoveCtl
    <3>2. CASE TestServer \/ CallAccept \/ AcceptConnection \/ CreateWithoutClient
               \/ CreateIoConnectionClient \/ SetIoConnection \/ StartConnection
               \/ AddConnection \/ ConnectionAdded \/ HandleData \/ TestConnection \/ SendReply
      BY <3>2 DEF TestServer, CallAccept, AcceptConnection, CreateWithoutClient,
           CreateIoConnectionClient, SetIoConnection, StartConnection,
         AddConnection, ConnectionAdded, HandleData, TestConnection, SendReply
    <3>3. CASE CloseConnection \/ CloseStopsConnection \/ RemoveIoConnectionClient \/ ErrorStopsServer
               \/ ErrorClosesServer \/ (\E k \in Conns : ReadConnection(k))
               \/ (\E m \in Members : IoError(m))
      BY <3>3 DEF CloseConnection, CloseStopsConnection, RemoveIoConnectionClient,
         ErrorStopsServer, ErrorClosesServer, ReadConnection, IoError, ServerRemove, ServerClose
    <3> QED
      BY <1>1, <3>1, <3>2, <3>3 DEF Callback
  <2> QED
    BY <2>1, <2>2, <2>3 DEF UpInv
<1>2. CASE /\ PollingLoop \/ CallbackEnds
           /\ UNCHANGED <<procVars, serviceVars, serverVars, connVars, appVars, peerVars>>
  <2>1. UNCHANGED <<m_init, ctl, apc>>
    BY <1>2 DEF procVars, appVars
  <2>2. m_epollFd' = m_epollFd /\ lpc[Poller] # "none" /\ m_state' \in {m_state, "STARTED", "INITIALIZED"}
    <3>1. CASE CallbackEnds
      BY <3>1 DEF CallbackEnds, CallbackReturn, InCallback, stateVars
    <3>2. CASE LoopStep(Poller)
      BY <3>2 DEF LoopStep, ThreadStart, EpollEnter, EpollReturn, ScanFreed, ScanWake, ScanMember,
                  BatchDone, ThreadExit, stateVars
    <3> QED
      BY <1>2, <3>1, <3>2 DEF PollingLoop
  <2>3. m_init
    BY <2>2 DEF UpInv
  <2> QED
    BY <2>1, <2>2, <2>3 DEF UpInv
<1> QED
  BY <1>1, <1>2 DEF PollingThread

-----------------------------------------------------------------------------
(* One step of a call, when the call is the only one about its member *)

\* The others see nothing of it.
LEMMA CallElsewhere ==
  ASSUME IoTypeOK, NEW c \in Callers, NEW m \in Members, call[c].fd = m, CallStep(c)
  PROVE  /\ \A n \in Members \ {m} : /\ Registered(n)' <=> Registered(n)
                                     /\ Out(n)' <=> Out(n)
         /\ \A d \in Callers \ {c} : call'[d] = call[d]
         /\ UNCHANGED <<m_init, m_serviceState, serverVars, m_clients, connVars, apc, client, todo,
                        pollVars, cur_member, peer>>
<1>1. UNCHANGED <<m_init, m_serviceState, serverVars, m_clients, connVars, apc, client, todo,
                  pollVars, cur_member, peer>>
  BY DEF CallStep, AddEntry, AddCtl, AddWakeup, RemoveEntry, RemoveCtl, procVars, serviceVars,
         peerVars, loopVars
<1>t. /\ call \in [Callers -> Frames] /\ polled \in [Gens -> SUBSET Fds]
      /\ m_ioMembers \in [Fds -> Members \cup {NoMember}] /\ Fds = Members
      /\ Poller \in Gens
  BY Constants DEF IoTypeOK
<1>2. \A d \in Callers \ {c} : call'[d] = call[d]
  BY <1>t DEF CallStep, AddEntry, AddCtl, AddWakeup, RemoveEntry, RemoveCtl
<1>3. \A n \in Members \ {m} : m_ioMembers'[n] = m_ioMembers[n]
  BY <1>t DEF CallStep, AddEntry, AddCtl, AddWakeup, RemoveEntry, RemoveCtl, tableVars
<1>4. \A n \in Members \ {m} : n \in polled'[Poller] <=> n \in polled[Poller]
  <2>1. \/ polled' = polled
        \/ polled' = [polled EXCEPT ![m_epollFd] = @ \cup {m}]
        \/ polled' = [polled EXCEPT ![m_epollFd] = @ \ {m}]
    BY DEF CallStep, AddEntry, AddCtl, AddWakeup, RemoveEntry, RemoveCtl, kernelVars
  <2>2. \/ polled'[Poller] = polled[Poller]
        \/ polled'[Poller] = polled[Poller] \cup {m}
        \/ polled'[Poller] = polled[Poller] \ {m}
    <3>1. CASE m_epollFd = Poller
      BY <1>t, <2>1, <3>1
    <3>2. CASE m_epollFd # Poller
      BY <1>t, <2>1, <3>2
    <3> QED
      BY <3>1, <3>2
  <2> QED
    BY <2>2
<1> QED
  BY <1>1, <1>2, <1>3, <1>4, <1>t DEF Registered, Out

\* addIoMember of a member that is not there.
LEMMA AddsStep ==
  ASSUME IoTypeOK, ~m_ioMembersMutex, NEW c \in Callers, NEW m \in Members,
         CallIs(c, Adds, m), AddsTo(c, m), CallStep(c)
  PROVE  /\ ~m_ioMembersMutex' /\ call[c].fd = m
         /\ CallIs(c, Adds, m)' /\ AddsTo(c, m)'
         /\ c = App /\ call'[c].op \in {"addWake", "none"} /\ added' =>
              \/ call[c].op = "addCtl" /\ CanCtl
              \/ call[c].op = "addWake" /\ added
<1>t. /\ call \in [Callers -> Frames] /\ polled \in [Gens -> SUBSET Fds]
      /\ m_ioMembers \in [Fds -> Members \cup {NoMember}] /\ Fds = Members
      /\ Poller \in Gens /\ NoMember \notin Members
  BY Constants, IoAssumption DEF IoTypeOK
<1>1. call[c].op \in Adds /\ call[c].m = m /\ call[c].fd = m
  BY DEF CallIs, Adds, CallStep, AddEntry, AddCtl, AddWakeup, RemoveEntry, RemoveCtl
<1>2. CASE call[c].op = "add"
  <2>1. AddEntry(c) /\ added' = (c = App \/ added)
    BY <1>2 DEF CallStep, AddEntry, AddCtl, AddWakeup, RemoveEntry, RemoveCtl
  <2>2. ~Registered(m)
    BY <1>2 DEF AddsTo, Out
  <2>3. /\ m_ioMembers' = [m_ioMembers EXCEPT ![m] = m]
        /\ call' = [call EXCEPT ![c].op = "addCtl"]
        /\ UNCHANGED m_ioMembersMutex
    BY <1>1, <2>1, <2>2 DEF AddEntry
  <2>4. call'[c].op = "addCtl" /\ call'[c].m = m /\ call'[c].fd = m
    BY <1>t, <1>1, <2>3, FrameUpdate
  <2>5. Registered(m)'
    BY <1>t, <2>3 DEF Registered
  <2> QED
    BY <1>1, <2>3, <2>4, <2>5 DEF CallIs, Adds, AddsTo
<1>3. CASE call[c].op = "addCtl"
  <2>1. PICK ok \in BOOLEAN : AddCtl(c, ok) /\ added' = IF c = App THEN CanCtl /\ ok ELSE added
    BY <1>3 DEF CallStep, AddEntry, AddCtl, AddWakeup, RemoveEntry, RemoveCtl
  <2>2. /\ call' = [call EXCEPT ![c].op = "addWake"]
        /\ UNCHANGED <<m_ioMembers, m_ioMembersMutex>>
    BY <2>1 DEF AddCtl, tableVars
  <2>3. call'[c].op = "addWake" /\ call'[c].m = m /\ call'[c].fd = m
    BY <1>t, <1>1, <2>2, FrameUpdate
  <2>4. Registered(m) /\ Registered(m)'
    BY <1>3, <2>2 DEF AddsTo, Registered
  <2>5. c = App /\ added' => CanCtl
    BY <2>1
  <2> QED
    BY <1>1, <1>3, <2>2, <2>3, <2>4, <2>5 DEF CallIs, Adds, AddsTo
<1>4. CASE call[c].op = "addWake"
  <2>1. AddWakeup(c) /\ added' = added
    BY <1>4 DEF CallStep, AddEntry, AddCtl, AddWakeup, RemoveEntry, RemoveCtl
  <2>2. call'[c].op = "none" /\ UNCHANGED <<m_ioMembers, m_ioMembersMutex>>
    BY <1>t, <2>1 DEF AddWakeup, tableVars, IdleCall
  <2>3. Registered(m)'
    BY <1>4, <2>2 DEF AddsTo, Registered
  <2> QED
    BY <1>1, <1>4, <2>1, <2>2, <2>3 DEF CallIs, Adds, AddsTo
<1> QED
  BY <1>1, <1>2, <1>3, <1>4 DEF Adds

\* removeIoMember of a member that is there, while the module is up.
LEMMA RemovesStep ==
  ASSUME IoTypeOK, ~m_ioMembersMutex, CanCtl, m_epollFd = 1, NEW c \in Callers, NEW m \in Members,
         CallIs(c, Removes, m), RemovesFrom(c, m), CallStep(c)
  PROVE  /\ ~m_ioMembersMutex' /\ call[c].fd = m /\ added' = added
         /\ CallIs(c, Removes, m)' /\ RemovesFrom(c, m)'
<1>t. /\ call \in [Callers -> Frames] /\ polled \in [Gens -> SUBSET Fds]
      /\ m_ioMembers \in [Fds -> Members \cup {NoMember}] /\ Fds = Members
      /\ Poller \in Gens /\ NoMember \notin Members
  BY Constants, IoAssumption DEF IoTypeOK
<1>1. call[c].op \in Removes /\ call[c].m = m /\ call[c].fd = m
  BY DEF CallIs, Removes, CallStep, AddEntry, AddCtl, AddWakeup, RemoveEntry, RemoveCtl
<1>2. CASE call[c].op = "remove"
  <2>1. RemoveEntry(c) /\ added' = added
    BY <1>2 DEF CallStep, AddEntry, AddCtl, AddWakeup, RemoveEntry, RemoveCtl
  <2>2. Registered(m)
    BY <1>2 DEF RemovesFrom
  <2>3. /\ m_ioMembers' = [m_ioMembers EXCEPT ![m] = NoMember]
        /\ call' = [call EXCEPT ![c].op = "delCtl"]
        /\ UNCHANGED m_ioMembersMutex
    BY <1>1, <2>1, <2>2 DEF RemoveEntry
  <2>4. call'[c].op = "delCtl" /\ call'[c].m = m /\ call'[c].fd = m
    BY <1>t, <1>1, <2>3, FrameUpdate
  <2>5. ~Registered(m)'
    BY <1>t, <2>3 DEF Registered
  <2> QED
    BY <1>1, <2>1, <2>3, <2>4, <2>5 DEF CallIs, Removes, RemovesFrom
<1>3. CASE call[c].op = "delCtl"
  <2>1. RemoveCtl(c) /\ added' = added
    BY <1>3 DEF CallStep, AddEntry, AddCtl, AddWakeup, RemoveEntry, RemoveCtl
  <2>2. call'[c].op = "none" /\ UNCHANGED <<m_ioMembers, m_ioMembersMutex>>
    BY <1>t, <2>1 DEF RemoveCtl, tableVars, IdleCall
  <2>3. m \notin polled'[Poller]
    BY <1>t, <1>1, <2>1 DEF RemoveCtl
  <2>4. ~Registered(m)'
    BY <1>3, <2>2 DEF RemovesFrom, Registered
  <2>5. Out(m)'
    BY <2>3, <2>4 DEF Out
  <2> QED
    BY <1>1, <2>1, <2>2, <2>5 DEF CallIs, Removes, RemovesFrom
<1> QED
  BY <1>1, <1>2, <1>3 DEF Removes

-----------------------------------------------------------------------------
(* Clean, when a call goes on *)

\* A connection that a step does not touch.
LEMMA ConnKept ==
  ASSUME NEW k \in Conns, ConnPhase(k),
         UNCHANGED <<m_clients, apc, ppc, accepted, client, todo, connVars, cur_member>>,
         peer'[k] \in {"none", "pending"} => peer[k] \in {"none", "pending"},
         Registered(k)' <=> Registered(k), Out(k)' <=> Out(k),
         OpensIt(k) \/ ClosesIt(k) => call'[Poller] = call[Poller],
         StopsIt(k) /\ k \in todo => call'[App] = call[App]
  PROVE  ConnPhase(k)'
<1>1. /\ OpensIt(k)' <=> OpensIt(k)
      /\ ClosesIt(k)' <=> ClosesIt(k)
      /\ StopsIt(k)' <=> StopsIt(k)
  BY DEF OpensIt, ClosesIt, StopsIt
<1>2. /\ StartedConn(k)' <=> StartedConn(k)
      /\ StoppedConn(k)' <=> StoppedConn(k)
  BY DEF StartedConn, StoppedConn, connVars
<1>3. OpensIt(k) \/ ClosesIt(k) => /\ AddsTo(Poller, k)' <=> AddsTo(Poller, k)
                                   /\ RemovesFrom(Poller, k)' <=> RemovesFrom(Poller, k)
  BY DEF AddsTo, RemovesFrom
<1>4. StopsIt(k) /\ k \in todo => (RemovesFrom(App, k)' <=> RemovesFrom(App, k))
  BY DEF RemovesFrom
<1>5. peer'[k] \in {"none", "pending"} => k \notin m_clients' /\ ~OpensIt(k)'
  BY <1>1 DEF ConnPhase
<1>6. k \notin m_clients' => Out(k)' /\ StoppedConn(k)'
  BY <1>2 DEF ConnPhase
<1>7. k \in m_clients' /\ ~OpensIt(k)' /\ ~ClosesIt(k)' /\ ~StopsIt(k)' =>
        Registered(k)' /\ StartedConn(k)'
  BY <1>1, <1>2 DEF ConnPhase
<1>8. OpensIt(k)' =>
       /\ ppc' = "attach" => Out(k)' /\ StoppedConn(k)'
       /\ ppc' = "start" => /\ Out(k)' /\ m_connState'[k] = "CREATED"
                            /\ m_socketFd'[k] = k /\ m_ioConnection'[k]
       /\ ppc' = "add" => Out(k)' /\ StartedConn(k)'
       /\ ppc' = "adding" => AddsTo(Poller, k)' /\ StartedConn(k)'
  BY <1>1, <1>2, <1>3 DEF ConnPhase, connVars
<1>9. ClosesIt(k)' =>
       /\ ppc' = "stopConnection" => RemovesFrom(Poller, k)' /\ StartedConn(k)'
       /\ ppc' = "forget" => Out(k)' /\ StoppedConn(k)'
  BY <1>1, <1>2, <1>3 DEF ConnPhase
<1>10. StopsIt(k)' /\ k \in m_clients' =>
         IF k \in todo' THEN RemovesFrom(App, k)' /\ StartedConn(k)' ELSE Out(k)' /\ StoppedConn(k)'
  BY <1>1, <1>2, <1>4 DEF ConnPhase
<1> QED
  BY <1>5, <1>6, <1>7, <1>8, <1>9, <1>10 DEF ConnPhase

LEMMA AppCallClean ==
  ASSUME ServiceInv, UpInv, Clean, CallStep(App)
  PROVE  Clean'
<1>i. /\ IoTypeOK /\ ~m_ioMembersMutex /\ NoRace /\ ServerPhase /\ ClientsPhase /\ CallsPhase
      /\ ListenerPhase /\ App \in Callers /\ Poller \in Callers \ {App} /\ Listener \in Members
      /\ Conns = Members \ {Listener}
      /\ apc = "stopClient" => client \in Conns
  BY Constants DEF ServiceInv, Clean, PollFacts, ClientIsConnection
<1>o. call[App].op # "none"
  BY DEF CallStep, AddEntry, AddCtl, AddWakeup, RemoveEntry, RemoveCtl
<1> DEFINE m == IF apc = "stopClient" THEN client ELSE Listener
<1>m. /\ apc \in {"starting", "stopClient", "removedServer"} /\ m \in Members
      /\ call[App].fd = m
  BY <1>i, <1>o DEF CallsPhase, CallIs
<1>e. /\ \A n \in Members \ {m} : /\ Registered(n)' <=> Registered(n)
                                  /\ Out(n)' <=> Out(n)
      /\ call'[Poller] = call[Poller]
      /\ UNCHANGED <<m_init, m_serviceState, serverVars, m_clients, connVars, apc, client, todo,
                     pollVars, cur_member, peer>>
  <2> HIDE DEF m
  <2> QED
    BY <1>i, <1>m, CallElsewhere
<1>u. UNCHANGED <<m_serverState, m_ioEntry, ppc, accepted>>
  BY <1>e DEF serverVars, pollVars
<1>n. NoRace' /\ ClientsPhase'
  BY <1>i, <1>e, <1>u DEF NoRace, ClientsPhase
<1>c. CASE apc = "starting"
  <2>1. m = Listener /\ CallIs(App, Adds, Listener) /\ AddsTo(App, Listener)
    BY <1>c, <1>i DEF CallsPhase, ListenerPhase
  <2>2. /\ ~m_ioMembersMutex' /\ CallIs(App, Adds, Listener)' /\ AddsTo(App, Listener)'
        /\ call'[App].op \in {"addWake", "none"} /\ added' =>
              \/ call[App].op = "addCtl" /\ CanCtl
              \/ call[App].op = "addWake" /\ added
    BY <1>i, <2>1, AddsStep
  <2>3. CanCtl => m_init
    BY <1>c DEF UpInv, CanCtl
  <2>4. ServerPhase'
    BY <1>i, <1>c, <1>e, <1>u, <2>2, <2>3 DEF ServerPhase
  <2>5. CallsPhase'
    BY <1>i, <1>c, <1>e, <1>u, <2>2 DEF CallsPhase, CallIs
  <2>6. ListenerPhase'
    <3>1. ppc # "serverRemoved"
      BY <1>i, <1>c DEF ServerPhase
    <3>2. m_serverState # "STARTED"
      BY <1>i, <1>c DEF ServerPhase
    <3> QED
      BY <1>c, <1>e, <1>u, <2>2, <3>1, <3>2 DEF ListenerPhase
  <2>7. ASSUME NEW k \in Conns PROVE ConnPhase(k)'
    <3>1. ConnPhase(k) /\ k \in Members \ {m}
      BY <1>i, <2>1 DEF Clean
    <3>2. ~StopsIt(k)
      BY <1>c DEF StopsIt
    <3> HIDE DEF m
    <3> QED
      BY <1>e, <1>u, <3>1, <3>2, ConnKept
  <2> QED
    BY <1>n, <2>2, <2>4, <2>5, <2>6, <2>7 DEF Clean
<1>d. CASE apc \in {"stopClient", "removedServer"}
  <2>1. apc \in Stopping /\ m_init /\ CanCtl /\ m_epollFd = 1
    BY <1>d, <1>i DEF Stopping, ServerPhase, UpInv, CanCtl
  <2>2. CallIs(App, Removes, m)
    BY <1>d, <1>i DEF CallsPhase
  <2>3. ppc \notin Opening \cup Closing
    BY <1>i, <2>1 DEF NoRace
  <2>4. RemovesFrom(App, m)
    <3>1. CASE apc = "removedServer"
      BY <3>1, <1>i DEF ListenerPhase
    <3>2. CASE apc = "stopClient"
      <4>1. ConnPhase(client) /\ client \in todo /\ client \in m_clients /\ StopsIt(client)
        BY <3>2, <1>i DEF Clean, ClientsPhase, StopsIt
      <4> QED
        BY <3>2, <4>1 DEF ConnPhase
    <3> QED
      BY <1>d, <3>1, <3>2
  <2>5. /\ ~m_ioMembersMutex' /\ added' = added
        /\ CallIs(App, Removes, m)' /\ RemovesFrom(App, m)'
    <3> HIDE DEF m
    <3>1. /\ ~m_ioMembersMutex' /\ added' = added
          /\ \A n : n = m => CallIs(App, Removes, n)' /\ RemovesFrom(App, n)'
      BY <1>i, <1>m, <2>1, <2>2, <2>4, RemovesStep
    <3>2. m' = m
      BY <1>e DEF m
    <3> QED
      BY <3>1, <3>2 DEF CallIs, RemovesFrom
  <2>6. ServerPhase'
    BY <1>i, <1>d, <1>e, <1>u, <2>5 DEF ServerPhase
  <2>7. CallsPhase'
    BY <1>i, <1>d, <1>e, <1>u, <2>5 DEF CallsPhase, CallIs
  <2>8. ListenerPhase'
    <3>1. CASE apc = "removedServer"
      <4>1. ppc # "serverRemoved" /\ m_serverState = "STARTED"
        BY <3>1, <1>i, <2>3 DEF ServerPhase, Closing
      <4> QED
        BY <3>1, <1>e, <1>u, <2>5, <4>1 DEF ListenerPhase
    <3>2. CASE apc = "stopClient"
      <4>1. Listener \in Members \ {m}
        BY <3>2, <1>i
      <4>2. (Registered(Listener)' <=> Registered(Listener)) /\ (Out(Listener)' <=> Out(Listener))
        BY <1>e, <4>1
      <4>3. ppc # "serverRemoved"
        BY <2>3 DEF Closing
      <4> QED
        BY <3>2, <1>i, <1>e, <1>u, <4>2, <4>3 DEF ListenerPhase
    <3> QED
      BY <1>d, <3>1, <3>2
  <2>9. ASSUME NEW k \in Conns PROVE ConnPhase(k)'
    <3>1. ConnPhase(k)
      BY DEF Clean
    <3>2. ~OpensIt(k) /\ ~ClosesIt(k)
      BY <2>3 DEF OpensIt, ClosesIt, Opening, Closing
    <3>3. CASE k # m
      <4>1. ~(StopsIt(k) /\ k \in todo)
        BY <1>d, <3>3, <1>i DEF StopsIt
      <4>2. k \in Members \ {m}
        BY <3>3, <1>i
      <4>3. (Registered(k)' <=> Registered(k)) /\ (Out(k)' <=> Out(k))
        BY <1>e, <4>2
      <4> HIDE DEF m
      <4> QED
        BY <1>e, <1>u, <3>1, <3>2, <4>1, <4>3, ConnKept
    <3>4. CASE k = m
      <4>1. apc = "stopClient" /\ k = client
        BY <3>4, <1>i
      <4>2. k \in todo /\ k \in m_clients /\ StopsIt(k)
        BY <4>1, <1>i DEF ClientsPhase, StopsIt
      <4>3. StartedConn(k) /\ peer[k] \notin {"none", "pending"}
        BY <3>1, <4>2 DEF ConnPhase
      <4>4. StartedConn(k)' /\ k \in todo' /\ k \in m_clients' /\ peer'[k] \notin {"none", "pending"}
        BY <1>e, <4>2, <4>3 DEF StartedConn, connVars
      <4>5. ~OpensIt(k)' /\ ~ClosesIt(k)' /\ StopsIt(k)'
        BY <1>e, <1>u, <3>2, <4>2 DEF OpensIt, ClosesIt, StopsIt
      <4>6. RemovesFrom(App, k)'
        BY <2>5, <4>1, <1>e DEF RemovesFrom
      <4> QED
        BY <4>4, <4>5, <4>6 DEF ConnPhase
    <3> QED
      BY <3>3, <3>4
  <2> QED
    BY <1>n, <2>5, <2>6, <2>7, <2>8, <2>9 DEF Clean
<1> QED
  BY <1>m, <1>c, <1>d

\* A connection that is not being opened or closed, and that a step does not touch.
LEMMA ConnElse ==
  ASSUME NEW k \in Conns, ConnPhase(k),
         ~OpensIt(k), ~ClosesIt(k), ~OpensIt(k)', ~ClosesIt(k)',
         k \in m_clients' <=> k \in m_clients,
         k \in m_clients => /\ StopsIt(k)' <=> StopsIt(k)
                            /\ k \in todo' <=> k \in todo
                            /\ StopsIt(k) /\ k \in todo => call'[App] = call[App],
         m_connState'[k] = m_connState[k], m_socketFd'[k] = m_socketFd[k],
         m_ioConnection'[k] = m_ioConnection[k],
         peer'[k] \in {"none", "pending"} => peer[k] \in {"none", "pending"},
         Registered(k)' <=> Registered(k), Out(k)' <=> Out(k)
  PROVE  ConnPhase(k)'
<1>1. /\ StartedConn(k)' <=> StartedConn(k)
      /\ StoppedConn(k)' <=> StoppedConn(k)
  BY DEF StartedConn, StoppedConn
<1>2. k \in m_clients /\ StopsIt(k) /\ k \in todo => (RemovesFrom(App, k)' <=> RemovesFrom(App, k))
  BY DEF RemovesFrom
<1> QED
  BY <1>1, <1>2 DEF ConnPhase

LEMMA PollingCallClean ==
  ASSUME ServiceInv, UpInv, Clean, CallStep(Poller)
  PROVE  Clean'
<1>i. /\ IoTypeOK /\ ~m_ioMembersMutex /\ NoRace /\ ServerPhase /\ ClientsPhase /\ CallsPhase
      /\ ListenerPhase /\ Poller \in Callers /\ App \in Callers \ {Poller} /\ Listener \in Members
      /\ Conns = Members \ {Listener}
      /\ (ppc = "adding" => accepted \in Conns)
      /\ (ppc = "stopConnection" => cur_member[Poller] \in Conns)
  BY Constants DEF ServiceInv, Clean, PollFacts, AcceptedIsConnection, OfConnection, Opening
<1>o. call[Poller].op # "none"
  BY DEF CallStep, AddEntry, AddCtl, AddWakeup, RemoveEntry, RemoveCtl
<1> DEFINE m == IF ppc = "adding" THEN accepted
                ELSE IF ppc = "stopConnection" THEN cur_member[Poller] ELSE Listener
<1>m. /\ ppc \in {"adding", "stopConnection", "serverRemoved"} /\ m \in Members
      /\ call[Poller].fd = m
  BY <1>i, <1>o DEF CallsPhase, CallIs
<1>e. /\ \A n \in Members \ {m} : /\ Registered(n)' <=> Registered(n)
                                  /\ Out(n)' <=> Out(n)
      /\ call'[App] = call[App]
      /\ UNCHANGED <<m_init, m_serviceState, serverVars, m_clients, connVars, apc, client, todo,
                     pollVars, cur_member, peer>>
  <2> HIDE DEF m
  <2> QED
    BY <1>i, <1>m, CallElsewhere
<1>u. UNCHANGED <<m_serverState, m_ioEntry, ppc, accepted>> /\ m' = m
  BY <1>e DEF serverVars, pollVars
<1>n. NoRace' /\ ClientsPhase'
  BY <1>i, <1>e, <1>u DEF NoRace, ClientsPhase
<1>s. /\ m_serviceState = "STARTED" /\ m_init /\ CanCtl /\ m_epollFd = 1 /\ apc \notin Stopping
      /\ apc # "starting"
  BY <1>i, <1>m DEF Opening, Closing, ServerPhase, NoRace, UpInv, CanCtl
<1>h. ~StopsIt(m) /\ ~StopsIt(m)'
  BY <1>e, <1>s DEF StopsIt, Stopping
<1>b. ServerPhase'
  BY <1>i, <1>e, <1>u, <1>s DEF ServerPhase
<1>k. ASSUME NEW k \in Conns, k # m PROVE ConnPhase(k)'
  <2>1. ConnPhase(k) /\ k \in Members \ {m}
    BY <1>i, <1>k DEF Clean
  <2>2. ~OpensIt(k) /\ ~ClosesIt(k)
    BY <1>k, <1>m DEF OpensIt, ClosesIt, Opening
  <2> HIDE DEF m
  <2> QED
    BY <1>e, <1>u, <2>1, <2>2, ConnKept
<1>c. CASE ppc = "adding"
  <2>1. m = accepted /\ m \in Conns /\ CallIs(Poller, Adds, m) /\ ConnPhase(m) /\ OpensIt(m)
    BY <1>c, <1>i DEF CallsPhase, Clean, OpensIt, Opening
  <2>2. AddsTo(Poller, m) /\ StartedConn(m) /\ peer[m] \notin {"none", "pending"} /\ m \in m_clients
    BY <1>c, <1>i, <2>1 DEF ConnPhase, ClientsPhase, Opening
  <2>3. ~m_ioMembersMutex' /\ CallIs(Poller, Adds, m)' /\ AddsTo(Poller, m)'
    <3> HIDE DEF m
    <3>1. /\ ~m_ioMembersMutex'
          /\ \A n : n = m => CallIs(Poller, Adds, n)' /\ AddsTo(Poller, n)'
      BY <1>i, <1>m, <2>1, <2>2, AddsStep
    <3> QED
      BY <1>u, <3>1 DEF CallIs, AddsTo
  <2>4. CallsPhase'
    BY <1>i, <1>c, <1>e, <1>u, <2>1, <2>3 DEF CallsPhase, CallIs
  <2>5. ListenerPhase'
    <3>1. Listener \in Members \ {m}
      BY <1>i, <2>1
    <3>2. (Registered(Listener)' <=> Registered(Listener)) /\ (Out(Listener)' <=> Out(Listener))
      BY <1>e, <3>1
    <3> QED
      BY <1>c, <1>i, <1>e, <1>u, <1>s, <3>2 DEF ListenerPhase, Stopping
  <2>6. ConnPhase(m)'
    <3> HIDE DEF m
    <3>1. StartedConn(m)' /\ m \in m_clients' /\ peer'[m] \notin {"none", "pending"}
      BY <1>e, <1>u, <2>2 DEF StartedConn, connVars
    <3>2. OpensIt(m)' /\ ~ClosesIt(m)' /\ ppc' = "adding"
      BY <1>c, <1>u, <2>1 DEF OpensIt, ClosesIt
    <3> QED
      BY <1>h, <1>u, <2>3, <3>1, <3>2 DEF ConnPhase
  <2>7. \A k \in Conns : ConnPhase(k)'
    <3> TAKE k \in Conns
    <3>1. CASE k # m
      BY <1>k, <3>1
    <3>2. CASE k = m
      <4> HIDE DEF m
      <4>1. \A n : n = m' => ConnPhase(n)'
        BY <2>6
      <4> QED
        BY <1>u, <3>2, <4>1
    <3> QED
      BY <3>1, <3>2
  <2> QED
    BY <1>n, <1>b, <2>3, <2>4, <2>5, <2>7 DEF Clean
<1>d. CASE ppc = "stopConnection"
  <2>1. m = cur_member[Poller] /\ m \in Conns /\ CallIs(Poller, Removes, m) /\ ConnPhase(m) /\ ClosesIt(m)
    BY <1>d, <1>i DEF CallsPhase, Clean, ClosesIt
  <2>2. RemovesFrom(Poller, m) /\ StartedConn(m) /\ m \in m_clients /\ peer[m] \notin {"none", "pending"}
    BY <1>d, <1>i, <2>1 DEF ConnPhase, ClientsPhase
  <2>3. ~m_ioMembersMutex' /\ CallIs(Poller, Removes, m)' /\ RemovesFrom(Poller, m)'
    <3> HIDE DEF m
    <3>1. /\ ~m_ioMembersMutex'
          /\ \A n : n = m => CallIs(Poller, Removes, n)' /\ RemovesFrom(Poller, n)'
      BY <1>i, <1>m, <1>s, <2>1, <2>2, RemovesStep
    <3> QED
      BY <1>u, <3>1 DEF CallIs, RemovesFrom
  <2>4. CallsPhase'
    BY <1>i, <1>d, <1>e, <1>u, <2>1, <2>3 DEF CallsPhase, CallIs
  <2>5. ListenerPhase'
    <3>1. Listener \in Members \ {m}
      BY <1>i, <2>1
    <3>2. (Registered(Listener)' <=> Registered(Listener)) /\ (Out(Listener)' <=> Out(Listener))
      BY <1>e, <3>1
    <3> QED
      BY <1>d, <1>i, <1>e, <1>u, <1>s, <3>2 DEF ListenerPhase, Stopping
  <2>6. ConnPhase(m)'
    <3> HIDE DEF m
    <3>1. StartedConn(m)' /\ m \in m_clients' /\ peer'[m] \notin {"none", "pending"}
      BY <1>e, <1>u, <2>2 DEF StartedConn, connVars
    <3>2. ~OpensIt(m)' /\ ClosesIt(m)' /\ ppc' = "stopConnection"
      BY <1>d, <1>e, <1>u, <2>1 DEF OpensIt, ClosesIt, Opening
    <3> QED
      BY <1>h, <1>u, <2>3, <3>1, <3>2 DEF ConnPhase
  <2>7. \A k \in Conns : ConnPhase(k)'
    <3> TAKE k \in Conns
    <3>1. CASE k # m
      BY <1>k, <3>1
    <3>2. CASE k = m
      <4> HIDE DEF m
      <4>1. \A n : n = m' => ConnPhase(n)'
        BY <2>6
      <4> QED
        BY <1>u, <3>2, <4>1
    <3> QED
      BY <3>1, <3>2
  <2> QED
    BY <1>n, <1>b, <2>3, <2>4, <2>5, <2>7 DEF Clean
<1>f. CASE ppc = "serverRemoved"
  <2>1. m = Listener /\ CallIs(Poller, Removes, Listener) /\ RemovesFrom(Poller, Listener)
        /\ m_serverState = "STARTED"
    BY <1>f, <1>i DEF CallsPhase, ListenerPhase, ServerPhase
  <2>2. ~m_ioMembersMutex' /\ CallIs(Poller, Removes, Listener)' /\ RemovesFrom(Poller, Listener)'
    BY <1>i, <1>s, <2>1, RemovesStep
  <2>3. CallsPhase'
    BY <1>i, <1>f, <1>e, <1>u, <2>2 DEF CallsPhase, CallIs
  <2>4. ListenerPhase'
    BY <1>f, <1>e, <1>u, <1>s, <2>1, <2>2 DEF ListenerPhase, Stopping
  <2>5. \A k \in Conns : ConnPhase(k)'
    <3> TAKE k \in Conns
    <3>1. k # m
      BY <1>i, <2>1
    <3> QED
      BY <1>k, <3>1
  <2> QED
    BY <1>n, <1>b, <2>2, <2>3, <2>4, <2>5 DEF Clean
<1> QED
  BY <1>m, <1>c, <1>d, <1>f

-----------------------------------------------------------------------------
(* Clean, when nothing of it changes *)

\* The polling thread has nothing in hand that it opens or closes.
Quiet == {"begin", "accept", "accepting", "handle", "reply", "sending", "return", "serverStop"}

LEMMA CleanKept ==
  ASSUME Clean, NoRace',
         UNCHANGED <<m_ioMembersMutex, m_ioMembers, polled, call, apc, m_serviceState, m_serverState,
                     m_ioEntry, m_clients, todo, client, added, connVars>>,
         m_init => m_init',
         ppc' \in Opening => ppc \in Opening \/ m_serverState = "STARTED",
         \/ UNCHANGED <<ppc, accepted, cur_member>>
         \/ ppc \in Quiet /\ ppc' \in Quiet
         \/ /\ ppc \in Quiet /\ ppc' = "close" /\ UNCHANGED cur_member
            /\ cur_member[Poller] \in m_clients,
         \A k \in Conns : peer'[k] \in {"none", "pending"} => peer[k] \in {"none", "pending"}
  PROVE  Clean'
<1>i. /\ ~m_ioMembersMutex /\ NoRace /\ ServerPhase /\ ClientsPhase /\ CallsPhase /\ ListenerPhase
      /\ \A k \in Conns : ConnPhase(k)
  BY DEF Clean
<1>r. \A n : (Registered(n)' <=> Registered(n)) /\ (Out(n)' <=> Out(n))
  BY DEF Registered, Out
<1>1. ServerPhase'
  BY <1>i DEF ServerPhase, ClientsPhase, Quiet, Opening, Closing
<1>2. ClientsPhase'
  BY <1>i DEF ClientsPhase, Quiet, Opening
<1>3. CallsPhase'
  BY <1>i DEF CallsPhase, CallIs, Quiet
<1>4. ListenerPhase'
  BY <1>i, <1>r DEF ListenerPhase, AddsTo, RemovesFrom, Quiet
<1>5. ASSUME NEW k \in Conns PROVE ConnPhase(k)'
  <2>1. CASE UNCHANGED <<ppc, accepted, cur_member>>
    BY <1>i, <1>r, <2>1, ConnKept
  <2>2. CASE ~UNCHANGED <<ppc, accepted, cur_member>>
    <3>1. ~OpensIt(k) /\ ~ClosesIt(k) /\ ~OpensIt(k)' /\ ~ClosesIt(k)'
      BY <2>2 DEF OpensIt, ClosesIt, Quiet, Opening
    <3>2. StopsIt(k)' <=> StopsIt(k)
      BY DEF StopsIt
    <3> QED
      BY <1>i, <1>r, <3>1, <3>2, ConnElse DEF connVars
  <2> QED
    BY <2>1, <2>2
<1> QED
  BY <1>i, <1>1, <1>2, <1>3, <1>4, <1>5 DEF Clean

\* The states change while the service is not started.
LEMMA CleanStates ==
  ASSUME Clean, NoRace', apc = "idle",
         m_serviceState # "STARTED", m_serviceState' # "STARTED", m_serverState' # "STARTED",
         UNCHANGED <<m_ioMembersMutex, m_ioMembers, polled, call, apc, m_init, m_clients, todo, client,
                     added, connVars, ppc, accepted, cur_member, peer>>
  PROVE  Clean'
<1>i. /\ ~m_ioMembersMutex /\ NoRace /\ ServerPhase /\ ClientsPhase /\ CallsPhase /\ ListenerPhase
      /\ \A k \in Conns : ConnPhase(k)
  BY DEF Clean
<1>r. \A n : (Registered(n)' <=> Registered(n)) /\ (Out(n)' <=> Out(n))
  BY DEF Registered, Out
<1>1. ServerPhase'
  BY <1>i DEF ServerPhase, Opening, Closing, Stopping
<1>2. ClientsPhase'
  BY <1>i DEF ClientsPhase
<1>3. CallsPhase'
  BY <1>i DEF CallsPhase, CallIs
<1>4. ListenerPhase'
  BY <1>i, <1>r DEF ListenerPhase, ServerPhase, AddsTo, RemovesFrom, Closing
<1>5. ASSUME NEW k \in Conns PROVE ConnPhase(k)'
  BY <1>i, <1>r, ConnKept
<1> QED
  BY <1>i, <1>1, <1>2, <1>3, <1>4, <1>5 DEF Clean

-----------------------------------------------------------------------------
(* Clean, when the application's thread goes on *)

\* What an unchanged table and an unchanged epoll set keep.
LEMMA SameTable ==
  ASSUME UNCHANGED <<m_ioMembers, polled>>
  PROVE  \A n : (Registered(n)' <=> Registered(n)) /\ (Out(n)' <=> Out(n))
BY DEF Registered, Out

\* A service that is not started has no clients, and no callback opens or closes one.
LEMMA NotStarted ==
  ASSUME Clean, m_serviceState # "STARTED"
  PROVE  /\ m_clients = {} /\ ppc \notin (Opening \cup Closing) \ {"serverStop"}
         /\ m_serverState # "STARTED" /\ apc \notin Stopping
         /\ \A k \in Conns : ~OpensIt(k) /\ ~ClosesIt(k)
<1>1. /\ m_clients = {} /\ ppc \notin (Opening \cup Closing) \ {"serverStop"}
      /\ m_serverState # "STARTED" /\ apc \notin Stopping
  BY DEF Clean, ServerPhase, ClientsPhase
<1>2. \A k \in Conns : ~OpensIt(k) /\ ~ClosesIt(k)
  BY <1>1 DEF OpensIt, ClosesIt, Opening, Closing
<1> QED
  BY <1>1, <1>2

\* A stop that goes on means that no callback opens or closes anything.
LEMMA NobodyOpens ==
  ASSUME NoRace, apc \in Stopping
  PROVE  /\ ppc \notin Opening \cup Closing
         /\ \A k \in Conns : ~OpensIt(k) /\ ~ClosesIt(k)
BY DEF NoRace, OpensIt, ClosesIt, Opening, Closing

\* A call that begins.
LEMMA CallMade ==
  ASSUME IoTypeOK, NEW c \in Callers, NEW m \in Members, NEW op \in {"add", "remove"},
         (op = "add" /\ CallAdd(c, m, m)) \/ (op = "remove" /\ CallRemove(c, m, m))
  PROVE  /\ call'[c].op = op /\ call'[c].m = m /\ call'[c].fd = m
         /\ \A d \in Callers \ {c} : call'[d] = call[d]
         /\ UNCHANGED <<kernelVars, stateVars, tableVars, loopVars, crashed>>
<1>1. call \in [Callers -> Frames] /\ m # NoFd
  BY Constants, IoAssumption DEF IoTypeOK
<1>2. call' = [call EXCEPT ![c] = [op |-> op, m |-> m, fd |-> m]]
  BY <1>1 DEF CallAdd, CallRemove
<1>3. UNCHANGED <<kernelVars, stateVars, tableVars, loopVars, crashed>>
  BY DEF CallAdd, CallRemove
<1> QED
  BY <1>1, <1>2, <1>3

LEMMA StartClean ==
  ASSUME ServiceInv, Clean, NoRace', Start
  PROVE  Clean'
<1>i. /\ IoTypeOK /\ ~m_ioMembersMutex /\ ServerPhase /\ ClientsPhase /\ CallsPhase /\ ListenerPhase
      /\ App \in Callers /\ Poller \in Callers \ {App} /\ Listener \in Members
      /\ \A k \in Conns : ConnPhase(k)
  BY Constants DEF ServiceInv, Clean
<1>s. /\ apc = "idle" /\ apc' = "starting" /\ m_ioEntry'
      /\ m_serviceState = "INITIALIZED" /\ m_serverState = "INITIALIZED"
      /\ UNCHANGED <<m_init, m_serviceState, m_serverState, m_clients, connVars, client, todo, added,
                     ppc, accepted, peer>>
      /\ CallAdd(App, Listener, Listener)
  BY DEF Start, procVars, pollVars, peerVars
<1>c. /\ call'[App].op = "add" /\ call'[App].m = Listener /\ call'[App].fd = Listener
      /\ call'[Poller] = call[Poller]
      /\ UNCHANGED <<m_ioMembers, m_ioMembersMutex, polled, cur_member>>
  BY <1>i, <1>s, CallMade DEF kernelVars, tableVars, loopVars
<1>r. \A n : (Registered(n)' <=> Registered(n)) /\ (Out(n)' <=> Out(n))
  BY <1>c, SameTable
<1>n. /\ m_clients = {} /\ ppc \notin (Opening \cup Closing) \ {"serverStop"}
      /\ \A k \in Conns : ~OpensIt(k) /\ ~ClosesIt(k)
  BY <1>s, NotStarted
<1>1. ServerPhase'
  BY <1>i, <1>s, <1>c, <1>n DEF ServerPhase, Stopping
<1>2. ClientsPhase'
  BY <1>i, <1>s, <1>c, <1>n DEF ClientsPhase
<1>3. CallsPhase'
  BY <1>i, <1>s, <1>c DEF CallsPhase, CallIs, Adds
<1>4. ListenerPhase'
  BY <1>i, <1>s, <1>c, <1>n, <1>r DEF ListenerPhase, AddsTo, Closing
<1>5. ASSUME NEW k \in Conns PROVE ConnPhase(k)'
  <2>1. ConnPhase(k) /\ ~OpensIt(k) /\ ~ClosesIt(k) /\ ~OpensIt(k)' /\ ~ClosesIt(k)'
    BY <1>i, <1>n, <1>s, <1>c DEF OpensIt, ClosesIt
  <2> QED
    BY <2>1, <1>s, <1>c, <1>n, <1>r, ConnElse DEF connVars
<1> QED
  BY <1>i, <1>c, <1>1, <1>2, <1>3, <1>4, <1>5 DEF Clean

LEMMA StartReturnClean ==
  ASSUME ServiceInv, Clean, NoRace', StartReturn, added
  PROVE  Clean'
<1>i. /\ ~m_ioMembersMutex /\ ServerPhase /\ ClientsPhase /\ CallsPhase /\ ListenerPhase
      /\ \A k \in Conns : ConnPhase(k)
  BY DEF Clean
<1>s. /\ apc = "starting" /\ apc' = "idle" /\ call[App].op = "none"
      /\ m_serviceState' = "STARTED" /\ m_serverState' = "STARTED"
      /\ UNCHANGED <<m_init, m_ioEntry, m_clients, connVars, client, todo, added, call,
                     ppc, accepted, peer, m_ioMembers, m_ioMembersMutex, polled, cur_member>>
  BY DEF StartReturn, procVars, pollVars, ioVars, kernelVars, tableVars, loopVars, IdleCall
<1>r. \A n : (Registered(n)' <=> Registered(n)) /\ (Out(n)' <=> Out(n))
  BY <1>s, SameTable
<1>t. m_serviceState = "INITIALIZED" /\ m_ioEntry /\ m_init /\ Registered(Listener)
  BY <1>i, <1>s DEF ServerPhase, ListenerPhase, AddsTo
<1>n. /\ m_clients = {} /\ ppc \notin (Opening \cup Closing) \ {"serverStop"}
      /\ \A k \in Conns : ~OpensIt(k) /\ ~ClosesIt(k)
  BY <1>t, NotStarted
<1>1. ServerPhase'
  BY <1>s, <1>t, <1>n DEF ServerPhase, Stopping, Closing
<1>2. ClientsPhase'
  BY <1>i, <1>s, <1>n DEF ClientsPhase
<1>3. CallsPhase'
  BY <1>i, <1>s DEF CallsPhase, CallIs
<1>4. ListenerPhase'
  BY <1>s, <1>t, <1>n, <1>r DEF ListenerPhase, Closing
<1>5. ASSUME NEW k \in Conns PROVE ConnPhase(k)'
  <2>1. ConnPhase(k) /\ ~OpensIt(k) /\ ~ClosesIt(k) /\ ~OpensIt(k)' /\ ~ClosesIt(k)'
    BY <1>i, <1>n, <1>s DEF OpensIt, ClosesIt
  <2> QED
    BY <2>1, <1>s, <1>n, <1>r, ConnElse DEF connVars
<1> QED
  BY <1>i, <1>s, <1>1, <1>2, <1>3, <1>4, <1>5 DEF Clean

LEMMA StopClean ==
  ASSUME ServiceInv, Clean, NoRace', Stop
  PROVE  Clean'
<1>i. /\ ~m_ioMembersMutex /\ ServerPhase /\ ClientsPhase /\ CallsPhase /\ ListenerPhase
      /\ \A k \in Conns : ConnPhase(k)
  BY DEF Clean
<1>s. /\ apc = "idle" /\ apc' = "stopClients" /\ m_serviceState = "STARTED" /\ todo' = m_clients
      /\ UNCHANGED <<m_init, m_serviceState, m_serverState, m_ioEntry, m_clients, connVars, client, added,
                     call, ppc, accepted, peer, m_ioMembers, m_ioMembersMutex, polled, cur_member>>
  BY DEF Stop, procVars, pollVars, ioVars, kernelVars, tableVars, loopVars, serverVars, peerVars
<1>r. \A n : (Registered(n)' <=> Registered(n)) /\ (Out(n)' <=> Out(n))
  BY <1>s, SameTable
<1>n. ppc \notin Opening \cup Closing
  BY <1>s DEF NoRace, Stopping
<1>1. ServerPhase'
  BY <1>i, <1>s DEF ServerPhase
<1>2. ClientsPhase'
  BY <1>i, <1>s, <1>n DEF ClientsPhase
<1>3. CallsPhase'
  BY <1>i, <1>s DEF CallsPhase, CallIs
<1>4. ListenerPhase'
  BY <1>i, <1>s, <1>n, <1>r DEF ListenerPhase, Closing
<1>5. ASSUME NEW k \in Conns PROVE ConnPhase(k)'
  <2>1. ConnPhase(k) /\ ~OpensIt(k) /\ ~ClosesIt(k) /\ ~OpensIt(k)' /\ ~ClosesIt(k)'
    BY <1>i, <1>n, <1>s DEF OpensIt, ClosesIt, Opening, Closing
  <2>2. ~StopsIt(k) /\ (k \in m_clients' => ~StopsIt(k)')
    BY <1>s DEF StopsIt
  <2>3. (StartedConn(k)' <=> StartedConn(k)) /\ (StoppedConn(k)' <=> StoppedConn(k))
    BY <1>s DEF StartedConn, StoppedConn, connVars
  <2> QED
    BY <2>1, <2>2, <2>3, <1>s, <1>r DEF ConnPhase
<1> QED
  BY <1>i, <1>s, <1>1, <1>2, <1>3, <1>4, <1>5 DEF Clean

\* Every client in the table has its connection.
LEMMA NobodySkipped ==
  ASSUME ServiceInv, Clean
  PROVE  ~SkipClient
<1> SUFFICES ASSUME SkipClient PROVE FALSE
  OBVIOUS
<1>s. apc = "stopClients"
  BY DEF SkipClient
<1>n. \A k \in Conns : ~OpensIt(k) /\ ~ClosesIt(k)
  BY <1>s, NobodyOpens DEF Clean, Stopping
<1> PICK c \in todo : ~m_ioConnection[c]
  BY DEF SkipClient
<1>1. c \in m_clients /\ c \in Conns /\ ConnPhase(c)
  BY <1>s DEF Clean, ClientsPhase, ServiceInv, OwnTypeOK, OwnStateTyped
<1>2. ~StopsIt(c)
  BY <1>s DEF StopsIt
<1>3. StartedConn(c)
  BY <1>n, <1>1, <1>2 DEF ConnPhase
<1> QED
  BY <1>3 DEF StartedConn

LEMMA StopClientClean ==
  ASSUME ServiceInv, Clean, NoRace', StopClient
  PROVE  Clean'
<1>i. /\ IoTypeOK /\ ~m_ioMembersMutex /\ ServerPhase /\ ClientsPhase /\ CallsPhase /\ ListenerPhase
      /\ App \in Callers /\ Poller \in Callers \ {App} /\ Conns \subseteq Members
      /\ \A k \in Conns : ConnPhase(k)
  BY Constants DEF ServiceInv, Clean
<1>s. /\ apc = "stopClients" /\ apc' = "stopClient"
      /\ UNCHANGED <<m_init, m_serviceState, m_serverState, m_ioEntry, m_clients, connVars, todo, added,
                     ppc, accepted, peer>>
  BY DEF StopClient, procVars, pollVars, serviceVars, serverVars, peerVars
<1>n. ppc \notin Opening \cup Closing /\ \A k \in Conns : ~OpensIt(k) /\ ~ClosesIt(k)
  BY <1>s, NobodyOpens DEF Clean, Stopping
<1> PICK c \in todo : client' = c /\ CallRemove(App, c, m_socketFd[c])
  BY DEF StopClient
<1>t. c \in m_clients /\ c \in Conns
  BY <1>i, <1>s DEF ClientsPhase, ServiceInv, OwnTypeOK, OwnStateTyped
<1>p. Registered(c) /\ StartedConn(c) /\ peer[c] \notin {"none", "pending"}
  <2>1. ~StopsIt(c)
    BY <1>s DEF StopsIt
  <2> QED
    BY <1>i, <1>n, <1>t, <2>1 DEF ConnPhase
<1>c. /\ call'[App].op = "remove" /\ call'[App].m = c /\ call'[App].fd = c
      /\ call'[Poller] = call[Poller]
      /\ UNCHANGED <<m_ioMembers, m_ioMembersMutex, polled, cur_member>>
  <2>1. CallRemove(App, c, c)
    BY <1>p DEF StartedConn
  <2> QED
    BY <1>i, <1>t, <2>1, CallMade DEF kernelVars, tableVars, loopVars
<1>r. \A n : (Registered(n)' <=> Registered(n)) /\ (Out(n)' <=> Out(n))
  BY <1>c, SameTable
<1>1. ServerPhase'
  BY <1>i, <1>s DEF ServerPhase, Stopping
<1>2. ClientsPhase'
  BY <1>i, <1>s, <1>n DEF ClientsPhase, Closing
<1>3. CallsPhase'
  BY <1>i, <1>s, <1>c DEF CallsPhase, CallIs, Removes
<1>4. ListenerPhase'
  BY <1>i, <1>s, <1>n, <1>r DEF ListenerPhase, Closing
<1>5. ASSUME NEW k \in Conns PROVE ConnPhase(k)'
  <2>1. ConnPhase(k) /\ ~OpensIt(k) /\ ~ClosesIt(k) /\ ~OpensIt(k)' /\ ~ClosesIt(k)'
    BY <1>i, <1>n, <1>s, <1>c DEF OpensIt, ClosesIt, Closing
  <2>2. CASE k = c
    <3>1. StartedConn(k)' /\ RemovesFrom(App, k)' /\ StopsIt(k)' /\ k \in todo' /\ k \in m_clients'
      BY <1>s, <1>t, <1>p, <1>c, <1>r, <2>2 DEF StartedConn, RemovesFrom, StopsIt, connVars
    <3>2. peer'[k] \notin {"none", "pending"}
      BY <1>s, <1>p, <2>2
    <3> QED
      BY <2>1, <3>1, <3>2 DEF ConnPhase
  <2>3. CASE k # c
    <3>1. (StopsIt(k)' <=> StopsIt(k)) /\ ~(StopsIt(k) /\ k \in todo)
      BY <1>s, <2>3 DEF StopsIt
    <3> QED
      BY <2>1, <3>1, <1>s, <1>r, ConnElse DEF connVars
  <2> QED
    BY <2>2, <2>3
<1> QED
  BY <1>i, <1>c, <1>1, <1>2, <1>3, <1>4, <1>5 DEF Clean

LEMMA StopClientConnectionClean ==
  ASSUME ServiceInv, Clean, NoRace', StopClientConnection
  PROVE  Clean'
<1>i. /\ ~m_ioMembersMutex /\ ServerPhase /\ ClientsPhase /\ CallsPhase /\ ListenerPhase
      /\ \A k \in Conns : ConnPhase(k)
      /\ m_connState \in [Conns -> {"CREATED", "STARTED"}]
      /\ m_socketFd \in [Conns -> Conns \cup {NoFd}]
  BY DEF ServiceInv, OwnTypeOK, OwnStateTyped, Clean
<1>s. /\ apc = "stopClient" /\ apc' = "stopClients" /\ call[App].op = "none" /\ todo' = todo \ {client}
      /\ UNCHANGED <<m_init, m_serviceState, m_serverState, m_ioEntry, m_clients, m_ioConnection, added,
                     call, client, ppc, accepted, peer, m_ioMembers, m_ioMembersMutex, polled, cur_member>>
  BY DEF StopClientConnection, procVars, pollVars, serviceVars, serverVars, peerVars, ioVars,
         kernelVars, tableVars, loopVars, IdleCall
<1>n. ppc \notin Opening \cup Closing /\ \A k \in Conns : ~OpensIt(k) /\ ~ClosesIt(k)
  BY <1>s, NobodyOpens DEF Clean, Stopping
<1>t. client \in todo /\ client \in m_clients /\ client \in Conns /\ StopsIt(client)
  BY <1>i, <1>s DEF ClientsPhase, StopsIt, ServiceInv, PollFacts, ClientIsConnection
<1>p. Out(client) /\ StartedConn(client) /\ peer[client] \notin {"none", "pending"}
  BY <1>i, <1>s, <1>n, <1>t DEF ConnPhase, RemovesFrom
<1>c. /\ m_socketFd' = [m_socketFd EXCEPT ![client] = NoFd]
      /\ m_connState' = [m_connState EXCEPT ![client] = "CREATED"]
  BY <1>p DEF StopClientConnection, StopConnection, StartedConn
<1>r. \A n : (Registered(n)' <=> Registered(n)) /\ (Out(n)' <=> Out(n))
  BY <1>s, SameTable
<1>1. ServerPhase'
  BY <1>i, <1>s DEF ServerPhase, Stopping
<1>2. ClientsPhase'
  BY <1>i, <1>s, <1>n DEF ClientsPhase, Closing
<1>3. CallsPhase'
  BY <1>i, <1>s DEF CallsPhase, CallIs
<1>4. ListenerPhase'
  BY <1>i, <1>s, <1>n, <1>r DEF ListenerPhase, Closing
<1>5. ASSUME NEW k \in Conns PROVE ConnPhase(k)'
  <2>1. ConnPhase(k) /\ ~OpensIt(k) /\ ~ClosesIt(k) /\ ~OpensIt(k)' /\ ~ClosesIt(k)'
    BY <1>i, <1>n, <1>s DEF OpensIt, ClosesIt, Closing
  <2>2. CASE k = client
    <3>1. StoppedConn(k)' /\ Out(k)' /\ StopsIt(k)' /\ k \notin todo'
      BY <1>i, <1>s, <1>t, <1>p, <1>c, <1>r, <2>2 DEF StoppedConn, StopsIt
    <3>2. peer'[k] \notin {"none", "pending"}
      BY <1>s, <1>p, <2>2
    <3> QED
      BY <2>1, <3>1, <3>2 DEF ConnPhase
  <2>3. CASE k # client
    <3>1. (StopsIt(k)' <=> StopsIt(k)) /\ (k \in todo' <=> k \in todo)
      BY <1>s, <2>3 DEF StopsIt
    <3>2. m_connState'[k] = m_connState[k] /\ m_socketFd'[k] = m_socketFd[k]
      BY <1>i, <1>c, <2>3
    <3> QED
      BY <2>1, <3>1, <3>2, <1>s, <1>r, ConnElse
  <2> QED
    BY <2>2, <2>3
<1> QED
  BY <1>i, <1>s, <1>1, <1>2, <1>3, <1>4, <1>5 DEF Clean

LEMMA ClearClientsClean ==
  ASSUME ServiceInv, Clean, NoRace', ClearClients
  PROVE  Clean'
<1>i. /\ ~m_ioMembersMutex /\ ServerPhase /\ ClientsPhase /\ CallsPhase /\ ListenerPhase
      /\ \A k \in Conns : ConnPhase(k)
  BY DEF Clean
<1>s. /\ apc = "stopClients" /\ apc' = "stopServer" /\ todo = {} /\ m_clients' = {}
      /\ UNCHANGED <<m_init, m_serviceState, m_serverState, m_ioEntry, connVars, todo, added,
                     call, client, ppc, accepted, peer, m_ioMembers, m_ioMembersMutex, polled, cur_member>>
  BY DEF ClearClients, procVars, pollVars, serverVars, peerVars, ioVars, kernelVars, tableVars, loopVars
<1>n. ppc \notin Opening \cup Closing /\ \A k \in Conns : ~OpensIt(k) /\ ~ClosesIt(k)
  BY <1>s, NobodyOpens DEF Clean, Stopping
<1>r. \A n : (Registered(n)' <=> Registered(n)) /\ (Out(n)' <=> Out(n))
  BY <1>s, SameTable
<1>1. ServerPhase'
  BY <1>i, <1>s DEF ServerPhase, Stopping
<1>2. ClientsPhase'
  BY <1>i, <1>s, <1>n DEF ClientsPhase, Opening, Closing
<1>3. CallsPhase'
  BY <1>i, <1>s DEF CallsPhase, CallIs
<1>4. ListenerPhase'
  BY <1>i, <1>s, <1>n, <1>r DEF ListenerPhase, Closing
<1>5. ASSUME NEW k \in Conns PROVE ConnPhase(k)'
  <2>1. ConnPhase(k) /\ ~OpensIt(k) /\ ~ClosesIt(k) /\ ~OpensIt(k)' /\ ~ClosesIt(k)'
    BY <1>i, <1>n, <1>s DEF OpensIt, ClosesIt, Closing
  <2>2. StopsIt(k) /\ k \notin todo /\ ~StopsIt(k)'
    BY <1>s DEF StopsIt
  <2>3. Out(k) /\ StoppedConn(k)
    BY <2>1, <2>2 DEF ConnPhase
  <2>4. Out(k)' /\ StoppedConn(k)' /\ k \notin m_clients'
    BY <2>3, <1>r, <1>s DEF StoppedConn, connVars
  <2> QED
    BY <2>1, <2>2, <2>4 DEF ConnPhase
<1> QED
  BY <1>i, <1>s, <1>1, <1>2, <1>3, <1>4, <1>5 DEF Clean

LEMMA StopServerClean ==
  ASSUME ServiceInv, Clean, NoRace', StopServer
  PROVE  Clean'
<1>i. /\ IoTypeOK /\ ~m_ioMembersMutex /\ ServerPhase /\ ClientsPhase /\ CallsPhase /\ ListenerPhase
      /\ App \in Callers /\ Poller \in Callers \ {App} /\ Listener \in Members
      /\ \A k \in Conns : ConnPhase(k)
  BY Constants DEF ServiceInv, Clean
<1>s. /\ apc = "stopServer" /\ m_serviceState = "STARTED"
      /\ UNCHANGED <<m_init, m_serviceState, m_serverState, m_ioEntry, m_clients, connVars, todo, added,
                     client, ppc, accepted, peer>>
  BY <1>i DEF StopServer, procVars, pollVars, serviceVars, serverVars, peerVars, ServerPhase, Stopping
<1>n. /\ ppc \notin Opening \cup Closing /\ \A k \in Conns : ~OpensIt(k) /\ ~ClosesIt(k)
      /\ m_clients = {}
  BY <1>i, <1>s, NobodyOpens DEF Clean, Stopping, ClientsPhase
<1>c. /\ \/ /\ m_serverState = "STARTED" /\ apc' = "removedServer" /\ Registered(Listener)
            /\ call'[App].op = "remove" /\ call'[App].m = Listener /\ call'[App].fd = Listener
            /\ call'[Poller] = call[Poller]
         \/ m_serverState # "STARTED" /\ apc' = "stopped" /\ call' = call
      /\ UNCHANGED <<m_ioMembers, m_ioMembersMutex, polled, cur_member>>
  <2>1. CASE m_serverState = "STARTED"
    <3>1. CallRemove(App, Listener, Listener) /\ apc' = "removedServer"
      BY <1>i, <2>1 DEF StopServer, ServerRemove, ServerPhase
    <3>2. Registered(Listener)
      BY <1>i, <1>s, <1>n, <2>1 DEF ListenerPhase, Closing
    <3> QED
      BY <1>i, <2>1, <3>1, <3>2, CallMade DEF kernelVars, tableVars, loopVars
  <2>2. CASE m_serverState # "STARTED"
    BY <2>2 DEF StopServer, ioVars, kernelVars, tableVars, loopVars
  <2> QED
    BY <2>1, <2>2
<1>r. \A n : (Registered(n)' <=> Registered(n)) /\ (Out(n)' <=> Out(n))
  BY <1>c, SameTable
<1>1. ServerPhase'
  BY <1>i, <1>s, <1>c, <1>n DEF ServerPhase, Stopping, Closing
<1>2. ClientsPhase'
  BY <1>i, <1>s, <1>c, <1>n DEF ClientsPhase
<1>3. CallsPhase'
  BY <1>i, <1>s, <1>c DEF CallsPhase, CallIs, Removes
<1>4. ListenerPhase'
  BY <1>i, <1>s, <1>c, <1>n, <1>r DEF ListenerPhase, RemovesFrom, Closing
<1>5. ASSUME NEW k \in Conns PROVE ConnPhase(k)'
  <2>1. ConnPhase(k) /\ ~OpensIt(k) /\ ~ClosesIt(k) /\ ~OpensIt(k)' /\ ~ClosesIt(k)'
    BY <1>i, <1>n, <1>s, <1>c DEF OpensIt, ClosesIt, Closing
  <2> QED
    BY <2>1, <1>s, <1>n, <1>r, ConnElse DEF connVars
<1> QED
  BY <1>i, <1>c, <1>1, <1>2, <1>3, <1>4, <1>5 DEF Clean

\* The socket is closed by the thread that removed its entry.
LEMMA ServerClosed ==
  ASSUME ServiceInv, Clean, NEW c \in Callers, RemovesFrom(c, Listener), ServerClose(c)
  PROVE  /\ m_serverState' = "INITIALIZED" /\ Out(Listener)'
         /\ \A n \in Conns : (Registered(n)' <=> Registered(n)) /\ (Out(n)' <=> Out(n))
         /\ UNCHANGED <<m_ioMembers, m_ioMembersMutex, call, cur_member>> /\ call[c].op = "none"
         /\ \A k \in Conns : peer'[k] \in {"none", "pending"} => peer[k] \in {"none", "pending"}
<1>1. /\ polled \in [Gens -> SUBSET Fds] /\ Poller \in Gens
      /\ peer \in [Conns -> {"none", "pending", "connected", "closed"}]
  BY Constants DEF ServiceInv, IoTypeOK, OwnTypeOK, OwnStateTyped
<1>2. /\ m_serverState' = "INITIALIZED" /\ call[c].op = "none"
      /\ polled' = [g \in Gens |-> polled[g] \ {Listener}]
      /\ peer' \in {peer, [k \in Conns |-> IF peer[k] = "pending" THEN "closed" ELSE peer[k]]}
      /\ UNCHANGED <<m_ioMembers, m_ioMembersMutex, call, cur_member>>
  BY DEF ServerClose, CloseListener, KernelClose, tableVars, loopVars, IdleCall
<1>3. polled'[Poller] = polled[Poller] \ {Listener}
  BY <1>1, <1>2
<1>4. Out(Listener)
  BY <1>2 DEF RemovesFrom
<1>5. Out(Listener)' /\ \A n \in Conns : (Registered(n)' <=> Registered(n)) /\ (Out(n)' <=> Out(n))
  BY <1>2, <1>3, <1>4 DEF Out, Registered
<1>6. \A k \in Conns : peer'[k] \in {"none", "pending"} => peer[k] \in {"none", "pending"}
  BY <1>1, <1>2
<1> QED
  BY <1>2, <1>5, <1>6

LEMMA CloseServerClean ==
  ASSUME ServiceInv, Clean, NoRace', CloseServer
  PROVE  Clean'
<1>i. /\ ~m_ioMembersMutex /\ ServerPhase /\ ClientsPhase /\ CallsPhase /\ ListenerPhase
      /\ App \in Callers
      /\ \A k \in Conns : ConnPhase(k)
  BY Constants DEF Clean
<1>s. /\ apc = "removedServer" /\ apc' = "stopped" /\ m_serviceState = "STARTED"
      /\ UNCHANGED <<m_init, m_serviceState, m_clients, connVars, todo, added, client, ppc, accepted>>
  BY <1>i DEF CloseServer, procVars, pollVars, serviceVars, ServerPhase, Stopping
<1>n. /\ ppc \notin Opening \cup Closing /\ \A k \in Conns : ~OpensIt(k) /\ ~ClosesIt(k)
      /\ m_clients = {}
  BY <1>i, <1>s, NobodyOpens DEF Clean, Stopping, ClientsPhase
<1>c. /\ m_serverState' = "INITIALIZED" /\ Out(Listener)'
      /\ \A n \in Conns : (Registered(n)' <=> Registered(n)) /\ (Out(n)' <=> Out(n))
      /\ UNCHANGED <<m_ioMembers, m_ioMembersMutex, call, cur_member>> /\ call[App].op = "none"
      /\ \A k \in Conns : peer'[k] \in {"none", "pending"} => peer[k] \in {"none", "pending"}
  BY <1>i, <1>s, ServerClosed DEF CloseServer, ListenerPhase
<1>1. ServerPhase'
  BY <1>i, <1>s, <1>c, <1>n DEF ServerPhase, Stopping, Closing
<1>2. ClientsPhase'
  BY <1>i, <1>s, <1>n DEF ClientsPhase
<1>3. CallsPhase'
  BY <1>i, <1>s, <1>c DEF CallsPhase, CallIs
<1>4. ListenerPhase'
  BY <1>s, <1>c, <1>n DEF ListenerPhase, Closing
<1>5. ASSUME NEW k \in Conns PROVE ConnPhase(k)'
  <2>1. ConnPhase(k) /\ ~OpensIt(k) /\ ~ClosesIt(k) /\ ~OpensIt(k)' /\ ~ClosesIt(k)'
    BY <1>i, <1>n, <1>s, <1>c DEF OpensIt, ClosesIt, Closing
  <2> QED
    BY <2>1, <1>s, <1>n, <1>c, ConnElse DEF connVars
<1> QED
  BY <1>i, <1>c, <1>1, <1>2, <1>3, <1>4, <1>5 DEF Clean

LEMMA StopReturnClean ==
  ASSUME ServiceInv, Clean, NoRace', StopReturn
  PROVE  Clean'
<1>i. /\ ~m_ioMembersMutex /\ ServerPhase /\ ClientsPhase /\ CallsPhase /\ ListenerPhase
      /\ \A k \in Conns : ConnPhase(k)
  BY DEF Clean
<1>s. /\ apc = "stopped" /\ apc' = "idle" /\ m_serviceState' = "INITIALIZED"
      /\ UNCHANGED <<m_init, m_serverState, m_ioEntry, m_clients, connVars, todo, added, client, call,
                     ppc, accepted, peer, m_ioMembers, m_ioMembersMutex, polled, cur_member>>
  BY DEF StopReturn, procVars, pollVars, serverVars, peerVars, ioVars, kernelVars, tableVars, loopVars
<1>n. /\ ppc \notin Opening \cup Closing /\ \A k \in Conns : ~OpensIt(k) /\ ~ClosesIt(k)
      /\ m_clients = {} /\ m_serverState # "STARTED"
  BY <1>i, <1>s, NobodyOpens DEF Clean, Stopping, ClientsPhase, ServerPhase
<1>r. \A n : (Registered(n)' <=> Registered(n)) /\ (Out(n)' <=> Out(n))
  BY <1>s, SameTable
<1>1. ServerPhase'
  BY <1>s, <1>n DEF ServerPhase, Stopping, Closing
<1>2. ClientsPhase'
  BY <1>i, <1>s, <1>n DEF ClientsPhase
<1>3. CallsPhase'
  BY <1>i, <1>s DEF CallsPhase, CallIs
<1>4. ListenerPhase'
  BY <1>i, <1>s, <1>n, <1>r DEF ListenerPhase, Closing
<1>5. ASSUME NEW k \in Conns PROVE ConnPhase(k)'
  <2>1. ConnPhase(k) /\ ~OpensIt(k) /\ ~ClosesIt(k) /\ ~OpensIt(k)' /\ ~ClosesIt(k)'
    BY <1>i, <1>n, <1>s DEF OpensIt, ClosesIt, Closing
  <2> QED
    BY <2>1, <1>s, <1>n, <1>r, ConnElse DEF connVars
<1> QED
  BY <1>i, <1>s, <1>1, <1>2, <1>3, <1>4, <1>5 DEF Clean

LEMMA AppClean ==
  ASSUME ServiceInv, UpInv, Clean, NoRace', AppCalls \/ AppContinues,
         ~(apc' = "idle" /\ apc = "starting" /\ ~added)
  PROVE  Clean'
<1>1. CASE ProcessUp
  <2>1. /\ m_init => m_init'
        /\ UNCHANGED <<m_ioMembersMutex, m_ioMembers, polled, call, apc, m_serviceState, m_serverState,
                       m_ioEntry, m_clients, todo, client, added, connVars, ppc, accepted, cur_member, peer>>
    BY <1>1, ProcessUpUp DEF ProcessUp, ProcInit, ProcStart, ProcUndo, ModuleInit, ModuleStart,
         ModuleDeinit,
       serviceVars, serverVars, appVars, pollVars, peerVars, kernelVars, stateVars, tableVars, loopVars
  <2> QED
    BY <2>1, CleanKept
<1>2. CASE ServiceInit \/ ServiceDeinit \/ StopRefused
  <2>1. /\ apc = "idle" /\ m_serviceState # "STARTED" /\ m_serviceState' # "STARTED"
        /\ m_serverState' \in {m_serverState, "CREATED", "INITIALIZED"}
        /\ UNCHANGED <<m_ioMembersMutex, m_ioMembers, polled, call, apc, m_init, m_clients, todo, client,
                     added, connVars, ppc, accepted, cur_member, peer>>
    BY <1>2 DEF ServiceInit, ServiceDeinit, StopRefused, procVars, serverVars, appVars, pollVars,
       peerVars, ioVars, kernelVars, tableVars, loopVars
  <2> QED
    BY <2>1, NotStarted, CleanStates
<1>3. CASE StartReturn
  <2>1. added
    BY <1>3 DEF StartReturn
  <2> QED
    BY <1>3, <2>1, StartReturnClean
<1> QED
  BY <1>1, <1>2, <1>3, NobodySkipped, StartClean, StopClean, AppCallClean, StopClientClean, StopClientConnectionClean,
     ClearClientsClean, StopServerClean, CloseServerClean, StopReturnClean DEF AppCalls, AppContinues

-----------------------------------------------------------------------------
(* Clean, when the polling thread opens a connection *)

LEMMA AcceptClean ==
  ASSUME ServiceInv, Clean, NoRace', AcceptConnection
  PROVE  Clean'
<1>i. /\ ~m_ioMembersMutex /\ ServerPhase /\ ClientsPhase /\ CallsPhase /\ ListenerPhase
      /\ \A k \in Conns : ConnPhase(k)
      /\ peer \in [Conns -> {"none", "pending", "connected", "closed"}]
  BY DEF ServiceInv, OwnTypeOK, OwnStateTyped, Clean
<1>s. /\ ppc = "accepting" /\ ppc' = "create"
      /\ UNCHANGED <<m_init, m_serviceState, m_serverState, m_ioEntry, m_clients, connVars, todo, added,
                     client, call, apc, m_ioMembers, m_ioMembersMutex, polled, cur_member>>
  BY DEF AcceptConnection, procVars, serviceVars, serverVars, appVars, ioVars, kernelVars,
         tableVars, loopVars
<1> PICK k \in Conns : /\ peer[k] = "pending" /\ peer' = [peer EXCEPT ![k] = "connected"]
                       /\ accepted' = k
  BY DEF AcceptConnection
<1>1. ppc' = "create" /\ m_serviceState = "STARTED"
  BY <1>i, <1>s DEF ServerPhase, Opening
<1>2. k \notin m_clients /\ apc \notin Stopping
  BY <1>i, <1>s, <1>1 DEF ConnPhase, NoRace, Opening
<1>r. \A n : (Registered(n)' <=> Registered(n)) /\ (Out(n)' <=> Out(n))
  BY <1>s, SameTable
<1>3. ServerPhase' /\ ClientsPhase'
  BY <1>i, <1>s, <1>1, <1>2 DEF ServerPhase, ClientsPhase, Opening
<1>4. CallsPhase'
  BY <1>i, <1>s, <1>1 DEF CallsPhase, CallIs
<1>5. ListenerPhase'
  BY <1>i, <1>s, <1>1, <1>r DEF ListenerPhase, AddsTo, RemovesFrom
<1>6. ASSUME NEW j \in Conns PROVE ConnPhase(j)'
  <2>1. ConnPhase(j) /\ ~OpensIt(j) /\ ~ClosesIt(j) /\ ~ClosesIt(j)'
    BY <1>i, <1>s, <1>1 DEF OpensIt, ClosesIt, Opening
  <2>2. CASE j = k
    <3>1. Out(j)' /\ StoppedConn(j)' /\ peer'[j] = "connected" /\ j \notin m_clients'
      BY <1>i, <1>s, <1>2, <1>r, <2>1, <2>2 DEF ConnPhase, StoppedConn, connVars
    <3> QED
      BY <1>1, <2>1, <3>1 DEF ConnPhase
  <2>3. CASE j # k
    <3>1. ~OpensIt(j)' /\ peer'[j] = peer[j] /\ (StopsIt(j)' <=> StopsIt(j))
      BY <1>i, <1>s, <2>3 DEF OpensIt, StopsIt
    <3> QED
      BY <1>s, <1>r, <2>1, <3>1, ConnElse DEF connVars
  <2> QED
    BY <2>2, <2>3
<1> QED
  BY <1>i, <1>s, <1>3, <1>4, <1>5, <1>6 DEF Clean

\* The steps from then on, but for what they do to the connection itself.
LEMMA OpeningClean ==
  ASSUME Clean, NoRace', NEW k \in Conns, accepted = k,
         ppc \in Attaching, ppc' \in {"attach", "start", "add", "adding", "return"},
         accepted' = k \/ ppc' = "return",
         UNCHANGED <<m_ioMembersMutex, m_ioMembers, polled, apc, m_init, m_serviceState, m_serverState,
                     m_ioEntry, todo, client, added, peer, cur_member>>,
         m_clients' = m_clients \cup {k},
         \A j \in Conns \ {k} : /\ m_connState'[j] = m_connState[j] /\ m_socketFd'[j] = m_socketFd[j]
                                /\ m_ioConnection'[j] = m_ioConnection[j],
         call'[App] = call[App],
         IF ppc' = "adding" THEN CallIs(Poller, Adds, k)' ELSE call'[Poller].op = "none",
         ConnPhase(k)'
  PROVE  Clean'
<1>i. /\ ~m_ioMembersMutex /\ NoRace /\ ServerPhase /\ ClientsPhase /\ CallsPhase /\ ListenerPhase
      /\ \A j \in Conns : ConnPhase(j)
  BY DEF Clean
<1>r. \A n : (Registered(n)' <=> Registered(n)) /\ (Out(n)' <=> Out(n))
  BY SameTable
<1>n. m_serviceState = "STARTED" /\ apc \notin Stopping
  BY <1>i DEF ServerPhase, NoRace, Opening
<1>1. ServerPhase' /\ ClientsPhase'
  BY <1>i, <1>n DEF ServerPhase, ClientsPhase, Stopping, Opening, Closing
<1>2. CallsPhase'
  BY <1>i DEF CallsPhase, CallIs, Opening
<1>3. ListenerPhase'
  BY <1>i, <1>n, <1>r DEF ListenerPhase, AddsTo, Stopping, Opening
<1>4. ASSUME NEW j \in Conns, j # k PROVE ConnPhase(j)'
  <2>1. ConnPhase(j) /\ ~OpensIt(j) /\ ~ClosesIt(j) /\ ~OpensIt(j)' /\ ~ClosesIt(j)'
    BY <1>i, <1>4 DEF OpensIt, ClosesIt, Opening
  <2>2. (StopsIt(j)' <=> StopsIt(j)) /\ (j \in m_clients' <=> j \in m_clients)
    BY <1>4 DEF StopsIt
  <2>3. /\ m_connState'[j] = m_connState[j] /\ m_socketFd'[j] = m_socketFd[j]
        /\ m_ioConnection'[j] = m_ioConnection[j]
    BY <1>4
  <2> QED
    BY <1>r, <2>1, <2>2, <2>3, ConnElse
<1> QED
  BY <1>i, <1>1, <1>2, <1>3, <1>4 DEF Clean

LEMMA OpenStepClean ==
  ASSUME ServiceInv, Clean, NoRace',
         \/ CreateIoConnectionClient \/ SetIoConnection \/ StartConnection
         \/ AddConnection \/ ConnectionAdded
  PROVE  Clean'
<1>i. /\ IoTypeOK /\ NoRace /\ ClientsPhase /\ CallsPhase
      /\ m_connState \in [Conns -> {"CREATED", "STARTED"}]
      /\ m_socketFd \in [Conns -> Conns \cup {NoFd}]
      /\ m_ioConnection \in [Conns -> BOOLEAN]
      /\ App \in Callers \ {Poller} /\ Poller \in Callers /\ Conns \subseteq Members
  BY Constants DEF ServiceInv, OwnTypeOK, OwnStateTyped, Clean
<1>o. ppc \in Attaching
  BY DEF CreateIoConnectionClient, SetIoConnection, StartConnection, AddConnection,
       ConnectionAdded, Opening
<1> PICK k \in Conns : accepted = k
  BY <1>o DEF ServiceInv, PollFacts, AcceptedIsConnection
<1>k. /\ ConnPhase(k) /\ OpensIt(k) /\ ~ClosesIt(k) /\ ~StopsIt(k) /\ peer[k] \notin {"none", "pending"}
      /\ (ppc # "adding" => call[Poller].op = "none")
      /\ (ppc = "create" => k \notin m_clients) /\ (ppc # "create" => k \in m_clients)
  BY <1>i, <1>o DEF Clean, OpensIt, ClosesIt, StopsIt, NoRace, Stopping, ConnPhase, CallsPhase,
       ClientsPhase,
     Opening
<1>u. UNCHANGED <<m_ioMembersMutex, m_ioMembers, polled, apc, m_init, m_serviceState, m_serverState,
                  m_ioEntry, todo, client, added, peer, cur_member>>
  BY DEF CreateIoConnectionClient, SetIoConnection, StartConnection, AddConnection,
       ConnectionAdded, CallAdd,
         procVars, serviceVars, serverVars, appVars, peerVars, ioVars, kernelVars, tableVars, loopVars
<1>r. \A n : (Registered(n)' <=> Registered(n)) /\ (Out(n)' <=> Out(n))
  BY <1>u, SameTable
<1>p. ~StopsIt(k)' /\ peer'[k] \notin {"none", "pending"}
  BY <1>k, <1>u DEF StopsIt
<1>1. CASE CreateIoConnectionClient
  <2>1. /\ ppc = "create" /\ ppc' = "attach" /\ accepted' = k /\ m_clients' = m_clients \cup {k}
        /\ call' = call /\ UNCHANGED connVars
    BY <1>1 DEF CreateIoConnectionClient, ioVars
  <2>2. Out(k)' /\ StoppedConn(k)'
    BY <1>k, <1>r, <2>1 DEF ConnPhase, StoppedConn, connVars
  <2>3. ConnPhase(k)'
    BY <1>p, <2>1, <2>2 DEF ConnPhase, OpensIt, ClosesIt, Opening
  <2> QED
    BY <1>o, <1>k, <1>u, <2>1, <2>3, OpeningClean DEF connVars
<1>2. CASE SetIoConnection
  <2>1. /\ ppc = "attach" /\ ppc' = "start" /\ accepted' = k /\ m_clients' = m_clients \cup {k}
        /\ call' = call /\ UNCHANGED m_connState
        /\ m_socketFd' = [m_socketFd EXCEPT ![k] = k]
        /\ m_ioConnection' = [m_ioConnection EXCEPT ![k] = TRUE]
    BY <1>2, <1>k DEF SetIoConnection, ioVars, serviceVars
  <2>2. Out(k)' /\ m_connState'[k] = "CREATED" /\ m_socketFd'[k] = k /\ m_ioConnection'[k]
    BY <1>i, <1>k, <1>r, <2>1 DEF ConnPhase, StoppedConn
  <2>3. ConnPhase(k)'
    BY <1>p, <2>1, <2>2 DEF ConnPhase, OpensIt, ClosesIt, Opening
  <2>4. \A j \in Conns \ {k} : /\ m_connState'[j] = m_connState[j] /\ m_socketFd'[j] = m_socketFd[j]
                               /\ m_ioConnection'[j] = m_ioConnection[j]
    BY <1>i, <2>1
  <2> QED
    BY <1>o, <1>k, <1>u, <2>1, <2>3, <2>4, OpeningClean
<1>3. CASE StartConnection
  <2>1. /\ ppc = "start" /\ ppc' = "add" /\ accepted' = k /\ m_clients' = m_clients \cup {k}
        /\ call' = call /\ UNCHANGED <<m_socketFd, m_ioConnection>>
        /\ m_connState' = [m_connState EXCEPT ![k] = "STARTED"]
    BY <1>3, <1>k DEF StartConnection, ioVars, serviceVars
  <2>2. Out(k)' /\ StartedConn(k)'
    BY <1>i, <1>k, <1>r, <2>1 DEF ConnPhase, StartedConn
  <2>3. ConnPhase(k)'
    BY <1>p, <2>1, <2>2 DEF ConnPhase, OpensIt, ClosesIt, Opening
  <2>4. \A j \in Conns \ {k} : /\ m_connState'[j] = m_connState[j] /\ m_socketFd'[j] = m_socketFd[j]
                               /\ m_ioConnection'[j] = m_ioConnection[j]
    BY <1>i, <2>1
  <2> QED
    BY <1>o, <1>k, <1>u, <2>1, <2>3, <2>4, OpeningClean
<1>4. CASE AddConnection
  <2>1. /\ ppc = "add" /\ ppc' = "adding" /\ accepted' = k /\ m_clients' = m_clients \cup {k}
        /\ UNCHANGED connVars /\ CallAdd(Poller, k, m_socketFd[k])
    BY <1>4, <1>k DEF AddConnection, serviceVars
  <2>2. Out(k) /\ StartedConn(k) /\ CallAdd(Poller, k, k)
    BY <1>k, <2>1 DEF ConnPhase, StartedConn
  <2>3. /\ call'[Poller].op = "add" /\ call'[Poller].m = k /\ call'[Poller].fd = k
        /\ call'[App] = call[App]
    BY <1>i, <2>2, CallMade
  <2>4. AddsTo(Poller, k)' /\ StartedConn(k)' /\ CallIs(Poller, Adds, k)'
    BY <1>r, <2>1, <2>2, <2>3 DEF AddsTo, StartedConn, connVars, CallIs, Adds
  <2>5. ConnPhase(k)'
    BY <1>p, <2>1, <2>4 DEF ConnPhase, OpensIt, ClosesIt, Opening
  <2> QED
    BY <1>o, <1>k, <1>u, <2>1, <2>3, <2>4, <2>5, OpeningClean DEF connVars
<1>5. CASE ConnectionAdded
  <2>1. /\ ppc = "adding" /\ ppc' = "return" /\ m_clients' = m_clients \cup {k}
        /\ UNCHANGED connVars /\ call' = call /\ call[Poller].op = "none"
    BY <1>5, <1>k DEF ConnectionAdded, serviceVars, ioVars, IdleCall
  <2>2. Registered(k) /\ StartedConn(k)
    BY <1>k, <2>1 DEF ConnPhase, AddsTo
  <2>3. Registered(k)' /\ StartedConn(k)'
    BY <1>r, <2>1, <2>2 DEF StartedConn, connVars
  <2>4. ConnPhase(k)'
    BY <1>p, <2>1, <2>3 DEF ConnPhase, OpensIt, ClosesIt, Opening
  <2> QED
    BY <1>o, <1>k, <1>u, <2>1, <2>4, OpeningClean DEF connVars
<1> QED
  BY <1>1, <1>2, <1>3, <1>4, <1>5

-----------------------------------------------------------------------------
(* Clean, when the polling thread closes a connection, or the server *)

LEMMA ClosingClean ==
  ASSUME Clean, NoRace', NEW k \in Conns, cur_member[Poller] = k,
         ppc \in {"close", "stopConnection", "forget"},
         ppc' \in {"stopConnection", "forget", "return"},
         UNCHANGED <<m_ioMembersMutex, m_ioMembers, polled, apc, m_init, m_serviceState, m_serverState,
                     m_ioEntry, todo, client, added, peer, cur_member, accepted, m_ioConnection>>,
         m_clients' = m_clients \/ (ppc' = "return" /\ m_clients' = m_clients \ {k}),
         \A j \in Conns \ {k} : m_connState'[j] = m_connState[j] /\ m_socketFd'[j] = m_socketFd[j],
         call'[App] = call[App],
         IF ppc' = "stopConnection" THEN CallIs(Poller, Removes, k)' ELSE call'[Poller].op = "none",
         ConnPhase(k)'
  PROVE  Clean'
<1>i. /\ ~m_ioMembersMutex /\ NoRace /\ ServerPhase /\ ClientsPhase /\ CallsPhase /\ ListenerPhase
      /\ \A j \in Conns : ConnPhase(j)
  BY DEF Clean
<1>r. \A n : (Registered(n)' <=> Registered(n)) /\ (Out(n)' <=> Out(n))
  BY SameTable
<1>n. m_serviceState = "STARTED" /\ apc \notin Stopping
  BY <1>i DEF ServerPhase, NoRace, Opening, Closing
<1>1. ServerPhase' /\ ClientsPhase'
  BY <1>i, <1>n DEF ServerPhase, ClientsPhase, Stopping, Opening, Closing
<1>2. CallsPhase'
  BY <1>i DEF CallsPhase, CallIs
<1>3. ListenerPhase'
  BY <1>i, <1>n, <1>r DEF ListenerPhase, AddsTo, Stopping
<1>4. ASSUME NEW j \in Conns, j # k PROVE ConnPhase(j)'
  <2>1. ConnPhase(j) /\ ~OpensIt(j) /\ ~ClosesIt(j) /\ ~OpensIt(j)' /\ ~ClosesIt(j)'
    BY <1>i, <1>4 DEF OpensIt, ClosesIt, Opening
  <2>2. (StopsIt(j)' <=> StopsIt(j)) /\ (j \in m_clients' <=> j \in m_clients)
    BY <1>4 DEF StopsIt
  <2>3. m_connState'[j] = m_connState[j] /\ m_socketFd'[j] = m_socketFd[j]
    BY <1>4
  <2> QED
    BY <1>r, <2>1, <2>2, <2>3, ConnElse
<1> QED
  BY <1>i, <1>1, <1>2, <1>3, <1>4 DEF Clean

LEMMA CloseStepClean ==
  ASSUME ServiceInv, Clean, NoRace',
         CloseConnection \/ CloseStopsConnection \/ RemoveIoConnectionClient
  PROVE  Clean'
<1>i. /\ IoTypeOK /\ NoRace /\ ClientsPhase /\ CallsPhase
      /\ m_connState \in [Conns -> {"CREATED", "STARTED"}]
      /\ m_socketFd \in [Conns -> Conns \cup {NoFd}]
      /\ App \in Callers \ {Poller} /\ Poller \in Callers /\ Conns \subseteq Members
  BY Constants DEF ServiceInv, OwnTypeOK, OwnStateTyped, Clean
<1>o. ppc \in {"close", "stopConnection", "forget"}
  BY DEF CloseConnection, CloseStopsConnection, RemoveIoConnectionClient
<1> PICK k \in Conns : cur_member[Poller] = k
  BY <1>o DEF ServiceInv, PollFacts, OfConnection
<1>k. /\ ConnPhase(k) /\ ~OpensIt(k) /\ ~StopsIt(k) /\ peer[k] \notin {"none", "pending"}
      /\ k \in m_clients /\ (ppc # "stopConnection" => call[Poller].op = "none")
      /\ (ClosesIt(k) <=> ppc # "close")
  BY <1>i, <1>o DEF Clean, OpensIt, ClosesIt, StopsIt, NoRace, Stopping, ConnPhase, CallsPhase,
       ClientsPhase,
     Opening, Closing
<1>u. UNCHANGED <<m_ioMembersMutex, m_ioMembers, polled, apc, m_init, m_serviceState, m_serverState,
                  m_ioEntry, todo, client, added, peer, cur_member, accepted, m_ioConnection>>
  BY DEF CloseConnection, CloseStopsConnection, RemoveIoConnectionClient, CallRemove, connVars,
         procVars, serviceVars, serverVars, appVars, peerVars, ioVars, kernelVars, tableVars, loopVars
<1>r. \A n : (Registered(n)' <=> Registered(n)) /\ (Out(n)' <=> Out(n))
  BY <1>u, SameTable
<1>p. ~StopsIt(k)' /\ peer'[k] \notin {"none", "pending"}
  BY <1>k, <1>u DEF StopsIt
<1>1. CASE CloseConnection
  <2>1. /\ ppc = "close" /\ ppc' = "stopConnection" /\ m_clients' = m_clients
        /\ UNCHANGED connVars /\ CallRemove(Poller, k, m_socketFd[k])
    BY <1>1 DEF CloseConnection, serviceVars
  <2>2. Registered(k) /\ StartedConn(k) /\ CallRemove(Poller, k, k)
    BY <1>k, <2>1 DEF ConnPhase, StartedConn
  <2>3. /\ call'[Poller].op = "remove" /\ call'[Poller].m = k /\ call'[Poller].fd = k
        /\ call'[App] = call[App]
    BY <1>i, <2>2, CallMade
  <2>4. RemovesFrom(Poller, k)' /\ StartedConn(k)' /\ CallIs(Poller, Removes, k)'
    BY <1>r, <2>1, <2>2, <2>3 DEF RemovesFrom, StartedConn, connVars, CallIs, Removes
  <2>5. ConnPhase(k)'
    BY <1>k, <1>u, <1>p, <2>1, <2>4 DEF ConnPhase, OpensIt, ClosesIt, Opening
  <2> QED
    BY <1>o, <1>u, <2>1, <2>3, <2>4, <2>5, ClosingClean DEF connVars
<1>2. CASE CloseStopsConnection
  <2>1. /\ ppc = "stopConnection" /\ ppc' = "forget" /\ m_clients' = m_clients
        /\ call' = call /\ call[Poller].op = "none" /\ StopConnection(k)
    BY <1>2 DEF CloseStopsConnection, serviceVars, ioVars, IdleCall
  <2>2. Out(k) /\ StartedConn(k)
    BY <1>k, <2>1 DEF ConnPhase, RemovesFrom
  <2>3. /\ m_socketFd' = [m_socketFd EXCEPT ![k] = NoFd]
        /\ m_connState' = [m_connState EXCEPT ![k] = "CREATED"]
    BY <2>1, <2>2 DEF StopConnection, StartedConn
  <2>4. Out(k)' /\ StoppedConn(k)'
    BY <1>i, <1>r, <2>2, <2>3 DEF StoppedConn
  <2>5. ConnPhase(k)'
    BY <1>k, <1>u, <1>p, <2>1, <2>4 DEF ConnPhase, OpensIt, ClosesIt, Opening
  <2>6. \A j \in Conns \ {k} : m_connState'[j] = m_connState[j] /\ m_socketFd'[j] = m_socketFd[j]
    BY <1>i, <2>3
  <2> QED
    BY <1>o, <1>u, <2>1, <2>5, <2>6, ClosingClean
<1>3. CASE RemoveIoConnectionClient
  <2>1. /\ ppc = "forget" /\ ppc' = "return" /\ m_clients' = m_clients \ {k}
        /\ call' = call /\ UNCHANGED connVars
    BY <1>3 DEF RemoveIoConnectionClient, ioVars
  <2>2. Out(k) /\ StoppedConn(k)
    BY <1>k, <2>1 DEF ConnPhase
  <2>3. Out(k)' /\ StoppedConn(k)' /\ k \notin m_clients'
    BY <1>r, <2>1, <2>2 DEF StoppedConn, connVars
  <2>4. ConnPhase(k)'
    BY <1>p, <2>1, <2>3 DEF ConnPhase, OpensIt, ClosesIt, Opening
  <2> QED
    BY <1>o, <1>k, <1>u, <2>1, <2>4, ClosingClean DEF connVars
<1> QED
  BY <1>1, <1>2, <1>3

LEMMA ErrorStopsClean ==
  ASSUME ServiceInv, Clean, NoRace', ErrorStopsServer
  PROVE  Clean'
<1>i. /\ IoTypeOK /\ ~m_ioMembersMutex /\ NoRace /\ ServerPhase /\ ClientsPhase /\ CallsPhase /\ ListenerPhase
      /\ App \in Callers \ {Poller} /\ Poller \in Callers /\ Listener \in Members
      /\ \A k \in Conns : ConnPhase(k)
  BY Constants DEF ServiceInv, Clean
<1>s. /\ ppc = "serverStop"
      /\ UNCHANGED <<m_init, m_serviceState, m_serverState, m_ioEntry, m_clients, connVars, todo, added,
                     client, apc, accepted, peer>>
  BY DEF ErrorStopsServer, procVars, serviceVars, serverVars, appVars, peerVars
<1>1. CASE m_serverState # "STARTED"
  <2>1. ppc' = "return" /\ UNCHANGED <<call, m_ioMembers, m_ioMembersMutex, polled, cur_member>>
    BY <1>1 DEF ErrorStopsServer, ioVars, kernelVars, tableVars, loopVars
  <2> QED
    BY <1>s, <2>1, CleanKept DEF Quiet, Opening
<1>2. CASE m_serverState = "STARTED"
  <2>1. ppc' = "serverRemoved" /\ CallRemove(Poller, Listener, Listener)
    BY <1>2, <1>i DEF ErrorStopsServer, ServerRemove, ServerPhase
  <2>2. apc \notin Stopping /\ apc # "starting" /\ Registered(Listener) /\ m_serviceState = "STARTED"
    BY <1>2, <1>i, <1>s DEF NoRace, Closing, ServerPhase, ListenerPhase, Stopping
  <2>3. /\ call'[Poller].op = "remove" /\ call'[Poller].m = Listener /\ call'[Poller].fd = Listener
        /\ call'[App] = call[App]
        /\ UNCHANGED <<m_ioMembers, m_ioMembersMutex, polled, cur_member>>
    BY <1>i, <2>1, CallMade DEF kernelVars, tableVars, loopVars
  <2>r. \A n : (Registered(n)' <=> Registered(n)) /\ (Out(n)' <=> Out(n))
    BY <2>3, SameTable
  <2>4. ServerPhase' /\ ClientsPhase'
    BY <1>i, <1>s, <1>2, <2>1, <2>2 DEF ServerPhase, ClientsPhase, Opening, Closing
  <2>5. CallsPhase'
    BY <1>i, <1>s, <2>1, <2>3 DEF CallsPhase, CallIs, Removes
  <2>6. ListenerPhase'
    BY <1>2, <1>s, <2>1, <2>2, <2>3, <2>r DEF ListenerPhase, RemovesFrom, Stopping
  <2>7. ASSUME NEW k \in Conns PROVE ConnPhase(k)'
    <3>1. ConnPhase(k) /\ ~OpensIt(k) /\ ~ClosesIt(k) /\ ~OpensIt(k)' /\ ~ClosesIt(k)'
      BY <1>i, <1>s, <2>1 DEF OpensIt, ClosesIt, Opening
    <3>2. StopsIt(k)' <=> StopsIt(k)
      BY <1>s DEF StopsIt
    <3> QED
      BY <3>1, <3>2, <1>s, <2>3, <2>r, ConnElse DEF connVars
  <2> QED
    BY <1>i, <2>3, <2>4, <2>5, <2>6, <2>7 DEF Clean
<1> QED
  BY <1>1, <1>2

LEMMA ErrorClosesClean ==
  ASSUME ServiceInv, Clean, NoRace', ErrorClosesServer
  PROVE  Clean'
<1>i. /\ ~m_ioMembersMutex /\ NoRace /\ ServerPhase /\ ClientsPhase /\ CallsPhase /\ ListenerPhase
      /\ Poller \in Callers
      /\ \A k \in Conns : ConnPhase(k)
  BY Constants DEF Clean
<1>s. /\ ppc = "serverRemoved" /\ ppc' = "return" /\ m_serverState = "STARTED" /\ m_serviceState = "STARTED"
      /\ UNCHANGED <<m_init, m_serviceState, m_clients, connVars, todo, added, client, apc, accepted>>
  BY <1>i DEF ErrorClosesServer, procVars, serviceVars, appVars, ServerPhase
<1>n. apc \notin Stopping /\ apc # "starting"
  BY <1>i, <1>s DEF NoRace, Closing, ServerPhase
<1>c. /\ m_serverState' = "INITIALIZED" /\ Out(Listener)'
      /\ \A n \in Conns : (Registered(n)' <=> Registered(n)) /\ (Out(n)' <=> Out(n))
      /\ UNCHANGED <<m_ioMembers, m_ioMembersMutex, call, cur_member>> /\ call[Poller].op = "none"
      /\ \A k \in Conns : peer'[k] \in {"none", "pending"} => peer[k] \in {"none", "pending"}
  BY <1>i, <1>s, ServerClosed DEF ErrorClosesServer, ListenerPhase
<1>1. ServerPhase' /\ ClientsPhase'
  BY <1>i, <1>s, <1>c, <1>n DEF ServerPhase, ClientsPhase, Stopping, Opening, Closing
<1>2. CallsPhase'
  BY <1>i, <1>s, <1>c DEF CallsPhase, CallIs
<1>3. ListenerPhase'
  BY <1>s, <1>c, <1>n DEF ListenerPhase, Stopping
<1>4. ASSUME NEW k \in Conns PROVE ConnPhase(k)'
  <2>1. ConnPhase(k) /\ ~OpensIt(k) /\ ~ClosesIt(k) /\ ~OpensIt(k)' /\ ~ClosesIt(k)'
    BY <1>i, <1>s DEF OpensIt, ClosesIt, Opening
  <2>2. StopsIt(k)' <=> StopsIt(k)
    BY <1>s DEF StopsIt
  <2> QED
    BY <2>1, <2>2, <1>s, <1>c, ConnElse DEF connVars
<1> QED
  BY <1>i, <1>c, <1>1, <1>2, <1>3, <1>4 DEF Clean

-----------------------------------------------------------------------------
(* CleanInv *)

LEMMA CallbackClean ==
  ASSUME ServiceInv, Clean, NoRace', Callback
  PROVE  Clean'
<1> USE DEF procVars, serviceVars, serverVars, connVars, appVars, pollVars, peerVars,
        ioVars, kernelVars, stateVars, tableVars, loopVars
<1>p. /\ peer \in [Conns -> {"none", "pending", "connected", "closed"}]
      /\ CallsPhase /\ ServerPhase
  BY DEF ServiceInv, OwnTypeOK, OwnStateTyped, Clean
<1>1. CASE HandleData
  <2>1. ppc = "handle" /\ ppc' \in {"reply", "return"}
    BY <1>1 DEF HandleData
  <2>2. UNCHANGED <<m_ioMembersMutex, m_ioMembers, polled, call, apc, m_serviceState, m_serverState, m_init,
                    m_ioEntry, m_clients, todo, client, added, connVars, peer>>
    BY <1>1 DEF HandleData
  <2> QED
    BY <2>1, <2>2, CleanKept DEF Quiet, Opening
<1>2. CASE SendReply
  <2>1. ppc = "sending" /\ ppc' = "return"
    BY <1>2 DEF SendReply
  <2>2. UNCHANGED <<m_ioMembersMutex, m_ioMembers, polled, call, apc, m_serviceState, m_serverState, m_init,
                    m_ioEntry, m_clients, todo, client, added, connVars, peer>>
    BY <1>2 DEF SendReply
  <2> QED
    BY <2>1, <2>2, CleanKept DEF Quiet, Opening
<1>3. ASSUME NEW k \in Conns, ReadConnection(k) PROVE Clean'
  <2>1. /\ ppc = "begin" /\ cur_member[Poller] = k /\ ppc' \in {"handle", "close", "return"}
        /\ ppc' = "close" => k \in m_clients
    BY <1>3 DEF ReadConnection, Begins, Alive
  <2>2. UNCHANGED <<m_ioMembersMutex, m_ioMembers, polled, call, apc, m_serviceState, m_serverState, m_init,
                    m_ioEntry, m_clients, todo, client, added, connVars, peer, cur_member>>
    BY <1>3 DEF ReadConnection
  <2> QED
    BY <2>1, <2>2, CleanKept DEF Quiet, Opening
<1>4. ASSUME NEW m \in Members, IoError(m) PROVE Clean'
  <2>1. /\ ppc = "begin" /\ cur_member[Poller] = m /\ ppc' \in {"serverStop", "close", "return"}
        /\ ppc' = "close" => m \in m_clients
    BY <1>4 DEF IoError, Begins, Alive
  <2>2. UNCHANGED <<m_ioMembersMutex, m_ioMembers, polled, call, apc, m_serviceState, m_serverState, m_init,
                    m_ioEntry, m_clients, todo, client, added, connVars, peer, cur_member>>
    BY <1>4 DEF IoError
  <2> QED
    BY <2>1, <2>2, CleanKept DEF Quiet, Opening
<1>5. CASE TestServer \/ CallAccept \/ TestConnection
  <2>1. /\ ppc \in Quiet /\ ppc' \in Quiet
        /\ ppc' \in Opening => ppc \in Opening \/ m_serverState = "STARTED"
    BY <1>5 DEF TestServer, Begins, CallAccept, TestConnection, Quiet, Opening
  <2>2. UNCHANGED <<m_ioMembersMutex, m_ioMembers, polled, call, apc, m_serviceState, m_serverState, m_init,
                    m_ioEntry, m_clients, todo, client, added, connVars, peer>>
    BY <1>5 DEF TestServer, CallAccept, TestConnection
  <2> QED
    BY <2>1, <2>2, CleanKept
<1>6. CASE CreateWithoutClient
  <2>1. UNCHANGED <<m_ioMembersMutex, m_ioMembers, polled, call, apc, m_serviceState, m_serverState, m_init,
                    m_ioEntry, m_clients, todo, client, added, connVars, peer, ppc, accepted, cur_member>>
    BY <1>6 DEF CreateWithoutClient
  <2> QED
    BY <2>1, CleanKept
<1> QED
  BY <1>1, <1>2, <1>3, <1>4, <1>5, <1>6, AcceptClean, OpenStepClean, CloseStepClean, ErrorStopsClean, ErrorClosesClean
  DEF Callback

LEMMA LoopClean ==
  ASSUME ServiceInv, Clean, NoRace', PollingLoop \/ CallbackEnds,
         UNCHANGED <<procVars, serviceVars, serverVars, connVars, appVars, peerVars>>
  PROVE  Clean'
<1> USE DEF procVars, serviceVars, serverVars, appVars, pollVars, peerVars, kernelVars, tableVars
<1>1. CASE CallbackEnds
  <2>1. /\ ppc = "return" /\ ppc' = "begin"
        /\ UNCHANGED <<m_ioMembersMutex, m_ioMembers, polled, call>>
    BY <1>1 DEF CallbackEnds, CallbackReturn
  <2> QED
    BY <2>1, CleanKept DEF Quiet, Opening
<1>2. CASE PollingLoop
  <2>1. LoopStep(Poller) /\ ppc' = ppc
    BY <1>2 DEF PollingLoop
  <2>2. /\ ~InCallback(Poller)
        /\ UNCHANGED <<m_ioMembersMutex, m_ioMembers, polled, call>>
    BY <2>1 DEF LoopStep, ThreadStart, EpollEnter, EpollReturn, ScanFreed, ScanWake, ScanMember,
       BatchDone, ThreadExit, InCallback
  <2>3. ppc = "begin"
    BY <2>2 DEF ServiceInv, PollFacts, CallbackRuns
  <2> QED
    BY <2>1, <2>2, <2>3, CleanKept DEF Quiet, Opening
<1> QED
  BY <1>1, <1>2

LEMMA PeersClean ==
  ASSUME ServiceInv, Clean, NoRace', Peers
  PROVE  Clean'
<1>1. peer \in [Conns -> {"none", "pending", "connected", "closed"}]
  BY DEF ServiceInv, OwnTypeOK, OwnStateTyped
<1>2. \E k \in Conns : PeerConnect(k) \/ PeerSend(k) \/ PeerClose(k)
  BY DEF Peers
<1>3. \A k \in Conns : peer'[k] \in {"none", "pending"} => peer[k] \in {"none", "pending"}
  BY <1>1, <1>2 DEF PeerConnect, PeerSend, PeerClose
<1>4. UNCHANGED <<m_ioMembersMutex, m_ioMembers, polled, call, apc, m_serviceState, m_serverState, m_init,
                  m_ioEntry, m_clients, todo, client, added, connVars, ppc, accepted, cur_member>>
  BY DEF Peers, procVars, serviceVars, serverVars, appVars, pollVars, ioVars, kernelVars,
       tableVars, loopVars
<1> QED
  BY <1>3, <1>4, CleanKept

LEMMA CleanInitially == Init => UpInv /\ Clean
<1> SUFFICES ASSUME Init PROVE UpInv /\ Clean
  OBVIOUS
<1>c. /\ Poller \in Gens /\ App \in Callers /\ Poller \in Callers /\ Listener \in Members /\ Fds = Members
      /\ Conns \subseteq Members
  BY Constants
<1>1. UpInv
  BY <1>c DEF Init, IoInit, ProcInitial, UpInv
<1>2. ~m_ioMembersMutex /\ NoRace /\ ServerPhase /\ ClientsPhase
  BY DEF Init, IoInit, ProcInitial, NoRace, ServerPhase, ClientsPhase, Opening, Closing, Stopping
<1>3. call[App].op = "none" /\ call[Poller].op = "none"
  BY <1>c DEF Init, IoInit, IdleCall
<1>4. CallsPhase
  BY <1>3 DEF Init, CallsPhase
<1>5. \A n \in Members : Out(n)
  BY <1>c DEF Init, IoInit, Out, Registered
<1>6. ListenerPhase
  BY <1>c, <1>5 DEF Init, ListenerPhase
<1>7. ASSUME NEW k \in Conns PROVE ConnPhase(k)
  <2>1. StoppedConn(k) /\ Out(k) /\ k \notin m_clients /\ ~OpensIt(k) /\ ~ClosesIt(k)
    BY <1>c, <1>5 DEF Init, StoppedConn, OpensIt, ClosesIt, Opening
  <2> QED
    BY <2>1 DEF ConnPhase
<1> QED
  BY <1>1, <1>2, <1>4, <1>6, <1>7 DEF Clean

LEMMA CleanStep ==
  ASSUME ServiceInv, UpInv, CleanInv, [Next]_vars
  PROVE  UpInv' /\ CleanInv'
<1>1. CASE UNCHANGED vars
  <2>1. UNCHANGED <<m_ioMembersMutex, m_ioMembers, polled, call, apc, m_serviceState, m_serverState, m_init,
                    m_ioEntry, m_clients, todo, client, added, connVars, ppc, accepted, cur_member, peer,
                    m_epollFd, m_state, lpc, ctl, causes>>
    BY <1>1 DEF vars, procVars, serviceVars, serverVars, appVars, pollVars, peerVars, ioVars,
         kernelVars,
       stateVars, tableVars, loopVars
  <2>2. UpInv'
    BY <2>1 DEF UpInv
  <2>3. Clean /\ NoRace' => Clean'
    BY <2>1, CleanKept
  <2> QED
    BY <2>1, <2>2, <2>3 DEF CleanInv, Clean, NoRace
<1>2. CASE Record /\ (AppCalls \/ AppContinues \/ PollingThread \/ Peers)
  <2>1. UpInv'
    <3>1. CASE Peers
      BY <3>1 DEF Peers, UpInv, procVars, appVars, ioVars, stateVars, loopVars
    <3> QED
      BY <1>2, <3>1, AppUp, PollingUp
  <2>2. ASSUME causes' = {} PROVE Clean'
    <3>1. /\ causes = {} /\ NoRace'
          /\ ~(apc' = "idle" /\ apc = "starting" /\ ~added)
      BY <1>2, <2>2 DEF Record, NoRace
    <3>2. Clean
      BY <3>1 DEF CleanInv
    <3>3. CASE AppCalls \/ AppContinues
      BY <3>1, <3>2, <3>3, AppClean
    <3>4. CASE PollingThread
      BY <3>1, <3>2, <3>4, PollingCallClean, CallbackClean, LoopClean DEF PollingThread
    <3>5. CASE Peers
      BY <3>1, <3>2, <3>5, PeersClean
    <3> QED
      BY <1>2, <3>3, <3>4, <3>5
  <2> QED
    BY <2>1, <2>2 DEF CleanInv
<1> QED
  BY <1>1, <1>2 DEF Next

\* While no stop has overlapped with a callback that opens or closes, and no start has
\* failed, the threads, the tables and the connections agree with one another.
THEOREM CleanUntilRace == Spec => [](UpInv /\ CleanInv)
<1>1. Init => UpInv /\ CleanInv
  BY CleanInitially DEF CleanInv
<1>2. ServiceInv /\ (UpInv /\ CleanInv) /\ [Next]_vars => (UpInv /\ CleanInv)'
  BY CleanStep
<1> QED
  BY <1>1, <1>2, ServiceInvariant, PTL DEF Spec

\* The table's mutex is kept by an early exit of addIoMember or removeIoMember only
\* when a stop overlapped with a callback that opens or closes, or a start failed.
THEOREM MutexOnlyInRace == Spec => []MutexKeptOnlyInRace
<1>1. CleanInv => MutexKeptOnlyInRace
  BY DEF CleanInv, Clean, MutexKeptOnlyInRace
<1> QED
  BY <1>1, CleanUntilRace, PTL

\* A connection in the module's table has its client entry, is started and holds its
\* descriptor: RpcServiceImpl and TcpIoServer leave none behind in IoModule.
THEOREM OwnedConnections == Spec => []ConnectionsAreOwned
<1>1. ASSUME CleanInv, causes = {}, NEW k \in Conns, Registered(k)
      PROVE  k \in m_clients /\ m_connState[k] = "STARTED" /\ m_socketFd[k] = k
  <2>1. ConnPhase(k)
    BY <1>1 DEF CleanInv, Clean
  <2>2. ~Out(k)
    BY <1>1 DEF Out
  <2>3. k \in m_clients
    BY <2>1, <2>2 DEF ConnPhase
  <2>4. OpensIt(k) => ppc # "create"
    BY <2>3, <1>1 DEF CleanInv, Clean, ClientsPhase, OpensIt
  <2>5. StartedConn(k)
    BY <2>1, <2>2, <2>3, <2>4, <1>1 DEF ConnPhase, OpensIt, ClosesIt, Opening
  <2> QED
    BY <2>3, <2>5 DEF StartedConn
<1>2. CleanInv => ConnectionsAreOwned
  BY <1>1 DEF ConnectionsAreOwned
<1> QED
  BY <1>2, CleanUntilRace, PTL

\* stop leaves nothing: a service that is not started has no client entry, and none of
\* its sockets is in the module's table or in its epoll set.
THEOREM StopEmpties == Spec => []StoppedIsEmpty
<1>1. ASSUME CleanInv, causes = {}, m_serviceState # "STARTED"
      PROVE  m_clients = {} /\ \A m \in Members : apc = "idle" => Out(m)
  <2>1. Clean
    BY <1>1 DEF CleanInv
  <2>2. m_clients = {} /\ m_serverState # "STARTED"
    BY <1>1, <2>1, NotStarted
  <2>3. apc = "idle" => Out(Listener)
    BY <2>1, <2>2 DEF Clean, ListenerPhase
  <2>4. \A k \in Conns : Out(k)
    BY <2>1, <2>2 DEF Clean, ConnPhase
  <2> QED
    BY <2>2, <2>3, <2>4
<1>2. CleanInv => StoppedIsEmpty
  BY <1>1 DEF StoppedIsEmpty, Out
<1> QED
  BY <1>2, CleanUntilRace, PTL

\* Only sendData gives an answer, and on a descriptor that is still there.
LEMMA AnswerStep ==
  ASSUME ServiceInv, [Next]_vars, NEW k \in Conns, replies'[k] # replies[k]
  PROVE  m_socketFd[k] # NoFd
<1> USE DEF peerVars
<1>1. CASE AppCalls \/ AppContinues
  BY <1>1, AppFrame
<1>2. CASE UNCHANGED vars \/ Peers
  BY <1>2 DEF vars, Peers, PeerConnect, PeerSend, PeerClose
<1>3. CASE PollingThread /\ ~SendReply
  <2>1. replies' = replies
    BY <1>3 DEF PollingThread, Callback, CallStep, TestServer, CallAccept, AcceptConnection,
       CreateWithoutClient, CreateIoConnectionClient, SetIoConnection, StartConnection, AddConnection,
       ConnectionAdded, HandleData, TestConnection, CloseConnection, CloseStopsConnection,
       RemoveIoConnectionClient, ErrorStopsServer, ErrorClosesServer, ReadConnection, IoError
  <2> QED
    BY <2>1
<1>4. CASE SendReply
  <2>1. replies \in [Conns -> Nat] /\ cur_member[Poller] \in Conns
    BY <1>4 DEF SendReply, ServiceInv, CountsTyped, PollFacts, OfConnection
  <2>2. CASE m_socketFd[cur_member[Poller]] # NoFd
    <3>1. replies' = [replies EXCEPT ![cur_member[Poller]] = @ + 1]
      BY <1>4, <2>2 DEF SendReply
    <3>2. k = cur_member[Poller]
      BY <2>1, <3>1
    <3> QED
      BY <2>2, <3>2
  <2>3. CASE m_socketFd[cur_member[Poller]] = NoFd
    BY <1>4, <2>3 DEF SendReply
  <2> QED
    BY <2>2, <2>3
<1> QED
  BY <1>1, <1>2, <1>3, <1>4 DEF Next

\* While no stop has overlapped with an opening or a closing, an answer goes to a client
\* of the started service only: stop takes the descriptor of every connection, so that a
\* callback which had executed a request before finds nothing to send its answer on.
THEOREM AnswersInService == Spec => AnswersStayInService
<1>1. ASSUME ServiceInv, CleanInv, [Next]_vars, causes = {}, NEW k \in Conns, replies'[k] # replies[k]
      PROVE  k \in m_clients /\ m_serviceState = "STARTED"
  <2>1. m_socketFd[k] # NoFd
    BY <1>1, AnswerStep
  <2>2. Clean /\ ConnPhase(k)
    BY <1>1 DEF CleanInv, Clean
  <2>3. k \in m_clients
    BY <2>1, <2>2 DEF ConnPhase, StoppedConn
  <2> QED
    BY <2>2, <2>3 DEF Clean, ClientsPhase
<1>2. ServiceInv /\ (UpInv /\ CleanInv) /\ [Next]_vars =>
        [causes = {} =>
           \A k \in Conns :
             replies'[k] # replies[k] => k \in m_clients /\ m_serviceState = "STARTED"]_vars
  BY <1>1
<1> QED
  BY <1>2, ServiceInvariant, CleanUntilRace, PTL DEF Spec, AnswersStayInService
=============================================================================
