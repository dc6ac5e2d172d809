---------------------------- MODULE ServiceCalls ----------------------------
(***************************************************************************)
(* The way of a call through a service: the application reads its          *)
(* configuration, sets up an RpcServiceEntry, registers and unregisters    *)
(* functions; peers send frames in pieces and may break off; the one       *)
(* polling thread reads them (TcpIoConnection::onReadAvailable), finds the *)
(* function (RpcServiceImpl), runs it (FunctionHelper) and answers.        *)
(*                                                                         *)
(* Opening and closing connections against the IoModule is the subject of  *)
(* RpcService: here a connection is open or not, stop closes all of them   *)
(* in one step, and the polling thread is in one callback at a time.       *)
(***************************************************************************)
EXTENDS Wire, RpcConfig, FiniteSets

CONSTANTS
  Conns,        \* connections, numbers that peers put in as arguments
  Names,        \* names of functions, numbers that fit a field
  Registrable,  \* the names the application has functions for
  Files,        \* configurations, sequences of lines
  Breaks,       \* bound: how many bytes of a frame may be missing in between
  MaxRequests   \* bound: requests that each peer sends

ASSUME CallsAssumption ==
  /\ Conns \subseteq 1..255
  /\ Names \subseteq 1..255
  /\ Registrable \subseteq Names
  /\ Breaks \subseteq Nat /\ 0 \in Breaks
  /\ MaxRequests \in [Conns -> 1..255]
  /\ \A f \in Files : f \in Seq(Seq(STRING))
  /\ \A f \in Files : \A i \in 1..Len(f) : Len(f[i]) <= NPos   \* an index is not npos

Kinds == {"none", "value", "void"}   \* what is registered under a name

VARIABLES
  file, at,          \* the lines of the configuration, and the one to read next
  m_configItemMap,   \* what RpcConfig has read
  m_state,           \* RpcServiceImpl's state
  m_functions,       \* its table of functions
  open,              \* connections that are started and polled
  out,               \* bytes a peer has to send
  inbox,             \* bytes received from it and not read
  eof,               \* it has closed the connection
  sent,              \* the names it called
  batch,             \* connections epoll_wait has returned
  t,                 \* the polling thread: where it is, and its locals
  recv,              \* whether it waits inside of recv
  answers,           \* bodies sent to a connection
  ended,             \* what has ended the process
  late               \* ghost: runs of a function since it was unregistered

configVars  == <<file, at, m_configItemMap>>
serviceVars == <<m_state, m_functions>>
peerVars    == <<out, eof, sent>>
loopVars    == <<batch, t, recv, answers>>
vars == <<configVars, serviceVars, open, inbox, peerVars, loopVars, ended, late>>

Idle == [pc |-> "wait", conn |-> 0, len |-> 0, msg |-> <<>>, kind |-> "none", reply |-> <<>>]
Body == Seq(-1..255)

Pcs  == {"wait", "scan", "header", "body", "handle", "lookup", "run", "send"}

TypeOK ==
  /\ file \in Files \cup {<<>>} /\ at \in Nat
  /\ \A k \in DOMAIN m_configItemMap : k # <<>> /\ m_configItemMap[k] # <<>>
  /\ m_state \in {"CREATED", "INITIALIZED", "STARTED"}
  /\ m_functions \in [Registrable -> Kinds]
  /\ open \subseteq Conns
  /\ out \in [Conns -> Seq(UInt8)] /\ inbox \in [Conns -> Seq(UInt8)]
  /\ eof \subseteq Conns
  /\ sent \in [Conns -> Seq(Names)]
  /\ batch \subseteq Conns
  /\ t \in [pc : Pcs,
            conn : Conns \cup {0}, len : Nat, msg : Seq(UInt8), kind : Kinds, reply : Body]
  /\ recv \in {"out", "waiting"}
  /\ answers \in [Conns -> Seq(Body)]
  /\ ended \in {"no", "config", "port", "sigpipe"}
  /\ late \in [Registrable -> 0..2]

Init ==
  /\ file \in Files /\ at = 1 /\ m_configItemMap = <<>>
  /\ m_state = "CREATED"
  /\ m_functions = [f \in Registrable |-> "none"]
  /\ open = {} /\ eof = {} /\ batch = {}
  /\ out = [k \in Conns |-> <<>>] /\ inbox = [k \in Conns |-> <<>>]
  /\ sent = [k \in Conns |-> <<>>] /\ answers = [k \in Conns |-> <<>>]
  /\ t = Idle /\ recv = "out"
  /\ ended = "no"
  /\ late = [f \in Registrable |-> 0]

-----------------------------------------------------------------------------
(* The application's thread *)

\* RpcConfig::init reads line by line.
ReadLine ==
  /\ at \in 1..Len(file)
  /\ IF ParseThrows(file[at])
     THEN ended' = "config" /\ UNCHANGED <<at, m_configItemMap>>
     ELSE /\ m_configItemMap' = ParseLine(m_configItemMap, file[at])
          /\ at' = at + 1
          /\ UNCHANGED ended
  /\ UNCHANGED <<file, serviceVars, open, inbox, peerVars, loopVars, late>>

\* RpcServiceEntry::init: IP and Port must be there, and std::stoi throws on a
\* port that does not begin with a digit.  The lines are forgotten, so that at is 0
\* when the entry is initialized once more.
EntryInit ==
  /\ m_state = "CREATED" /\ at \in {0, Len(file) + 1}
  /\ HasValue(m_configItemMap, <<"IP">>) /\ HasValue(m_configItemMap, <<"Port">>)
  /\ IF m_configItemMap[<<"Port">>][1] = "1"
     THEN m_state' = "INITIALIZED" /\ file' = <<>> /\ at' = 0 /\ UNCHANGED ended
     ELSE ended' = "port" /\ UNCHANGED <<m_state, file, at>>
  /\ UNCHANGED <<m_configItemMap, m_functions, open, inbox, peerVars, loopVars, late>>

\* Bound: the service is started anew or deinitialized only before a peer has called.
Fresh(k) == sent[k] = <<>> /\ k \notin eof

EntryStart ==
  /\ m_state = "INITIALIZED" /\ \A k \in Conns : Fresh(k)
  /\ m_state' = "STARTED"
  /\ UNCHANGED <<configVars, m_functions, open, inbox, peerVars, loopVars, ended, late>>

\* stop waits for a handler that is under m_instanceMutex: HandleData is one step.
\* What a refused stop does is the subject of RpcService.
EntryStop ==
  /\ m_state = "STARTED"
  /\ m_state' = "INITIALIZED" /\ open' = {}
  /\ UNCHANGED <<configVars, m_functions, inbox, peerVars, loopVars, ended, late>>

\* The table of functions stays.
EntryDeinit ==
  /\ m_state = "INITIALIZED" /\ \A k \in Conns : Fresh(k)
  /\ m_state' = "CREATED"
  /\ UNCHANGED <<configVars, m_functions, open, inbox, peerVars, loopVars, ended, late>>

\* registerMethod and unregisterMethod, each under m_functionsMutex.
RegisterMethod(f, kind) ==
  IF m_functions[f] # "none" THEN UNCHANGED <<m_functions, late>>
  ELSE /\ m_functions' = [m_functions EXCEPT ![f] = kind]
       /\ late' = [late EXCEPT ![f] = 0]

UnregisterMethod(f) ==
  /\ m_functions' = [m_functions EXCEPT ![f] = "none"]
  /\ UNCHANGED late

\* RpcServiceEntry hands both on, in whatever state the service is.  Bound: not
\* before its first init, when no peer can call.
EntryMethods ==
  /\ file = <<>>
  /\ \E f \in Registrable :
       \/ UnregisterMethod(f)
       \/ \E kind \in Kinds \ {"none"} : RegisterMethod(f, kind)
  /\ UNCHANGED <<configVars, m_state, open, inbox, peerVars, loopVars, ended>>

AppStep ==
  ReadLine \/ EntryInit \/ EntryStart \/ EntryStop \/ EntryDeinit \/ EntryMethods

-----------------------------------------------------------------------------
(* The polling thread: TcpIoConnection::onReadAvailable *)

Conn == t.conn

\* recv with MSG_WAITALL returns when n bytes are there or no more will come.
RecvReady(n) == Len(inbox[Conn]) >= n \/ Conn \in eof

Got(n)  == SubSeq(inbox[Conn], 1, IF Len(inbox[Conn]) < n THEN Len(inbox[Conn]) ELSE n)
Left(n) == [inbox EXCEPT ![Conn] = SubSeq(@, Len(Got(n)) + 1, Len(@))]

CallbackDone == [Idle EXCEPT !.pc = "scan"]

EpollWait ==
  /\ t.pc = "wait"
  /\ batch' = {k \in open : inbox[k] # <<>> \/ k \in eof}
  /\ batch' # {}
  /\ t' = CallbackDone
  /\ UNCHANGED <<configVars, serviceVars, open, inbox, peerVars, recv, answers, ended, late>>

\* The next event; a connection that was stopped meanwhile is skipped.  When the
\* peer has reset the connection, onIoError closes it and reads nothing more.
NextEvent ==
  /\ t.pc = "scan"
  /\ \/ batch = {} /\ t' = Idle /\ UNCHANGED <<batch, open>>
     \/ \E k \in batch :
          /\ batch' = batch \ {k}
          /\ \/ /\ t' = IF k \in open THEN [t EXCEPT !.pc = "header", !.conn = k] ELSE t
                /\ UNCHANGED open
             \/ k \in open \cap eof /\ open' = open \ {k} /\ UNCHANGED t
  /\ UNCHANGED <<configVars, serviceVars, inbox, peerVars, recv, answers, ended, late>>

\* handleEvent(CLOSE): the connection is removed and stopped, its socket left open.
CloseEvent == open' = open \ {Conn} /\ t' = CallbackDone

\* Wrong: what was read into the buffer is not consumed.
RecvHeaderPeeks ==
  /\ t.pc = "header" /\ RecvReady(TCP_HEADER_SIZE)
  /\ IF Got(TCP_HEADER_SIZE) = <<>> THEN CloseEvent
     ELSE /\ t' = [t EXCEPT !.pc = "body", !.len = DeserialerFrom(Got(TCP_HEADER_SIZE))]
          /\ UNCHANGED open
  /\ recv' = "out"
  /\ UNCHANGED <<configVars, serviceVars, inbox, batch, peerVars, answers, ended, late>>

\* Wrong: recv is tried again when it returns nothing.
RecvHeaderRetries ==
  /\ t.pc = "header" /\ RecvReady(TCP_HEADER_SIZE)
  /\ t' = IF Got(TCP_HEADER_SIZE) = <<>> THEN t
          ELSE [t EXCEPT !.pc = "body", !.len = DeserialerFrom(Got(TCP_HEADER_SIZE))]
  /\ inbox' = Left(TCP_HEADER_SIZE)
  /\ recv' = "out"
  /\ UNCHANGED <<configVars, serviceVars, open, batch, peerVars, answers, ended, late>>

\* recv waits for more, here and for the body.
RecvWaits(n) ==
  /\ Conn \in open /\ ~RecvReady(n)
  /\ recv = "out" /\ recv' = "waiting"
  /\ UNCHANGED <<t, open, inbox>>

\* It fails when stop has taken the descriptor away before the call; one that
\* waits goes on waiting, because the socket of an accepted connection stays open.
RecvFails ==
  /\ Conn \notin open
  /\ recv = "out"
  /\ t' = CallbackDone
  /\ UNCHANGED <<recv, open, inbox>>

RecvHeader ==
  /\ t.pc = "header"
  /\ \/ /\ RecvReady(TCP_HEADER_SIZE)
        /\ IF Got(TCP_HEADER_SIZE) = <<>> THEN CloseEvent
           ELSE /\ t' = [t EXCEPT !.pc = "body", !.len = DeserialerFrom(Got(TCP_HEADER_SIZE))]
                /\ UNCHANGED open
        /\ inbox' = Left(TCP_HEADER_SIZE)
        /\ recv' = "out"
     \/ RecvWaits(TCP_HEADER_SIZE)
     \/ RecvFails
  /\ UNCHANGED <<configVars, serviceVars, batch, peerVars, answers, ended, late>>

\* A length of 0 is the end of the stream as well; whatever came before the end
\* is handled as a message.
RecvBody ==
  /\ t.pc = "body"
  /\ \/ /\ RecvReady(t.len)
        /\ IF Got(t.len) = <<>> THEN CloseEvent
           ELSE t' = [t EXCEPT !.pc = "handle", !.msg = Got(t.len)] /\ UNCHANGED open
        /\ inbox' = Left(t.len)
        /\ recv' = "out"
     \/ RecvWaits(t.len)
     \/ RecvFails
  /\ UNCHANGED <<configVars, serviceVars, batch, peerVars, answers, ended, late>>

-----------------------------------------------------------------------------
(* The polling thread: RpcServiceClientEntry and RpcServiceImpl::handleData *)

HandleData ==
  /\ t.pc = "handle"
  /\ t' = IF m_state = "STARTED" /\ GetMessageType(t.msg) = COMMAND
          THEN [t EXCEPT !.pc = "lookup",
                         !.reply = SerialMessageMeta(REPLAY, GetMessageName(t.msg),
                                                     GetMessageId(t.msg))]
          ELSE CallbackDone
  /\ UNCHANGED <<configVars, serviceVars, open, inbox, batch, peerVars, recv, answers, ended, late>>

\* Wrong: a function that was once found is not looked up again.
LookupCached ==
  /\ t.pc = "lookup"
  /\ LET f == GetMessageName(t.msg)
     IN t' = IF f \in Registrable
             THEN [t EXCEPT !.pc = "run",
                            !.kind = IF m_functions[f] = "none" THEN "value" ELSE m_functions[f]]
             ELSE [t EXCEPT !.pc = "send"]
  /\ UNCHANGED <<configVars, serviceVars, open, inbox, batch, peerVars, recv, answers, ended, late>>

\* handleCommand copies the function under m_functionsMutex ...
Lookup ==
  /\ t.pc = "lookup"
  /\ LET f == GetMessageName(t.msg)
         known == IF f \in Registrable THEN m_functions[f] # "none" ELSE FALSE
     IN t' = IF known THEN [t EXCEPT !.pc = "run", !.kind = m_functions[f]]
             ELSE [t EXCEPT !.pc = "send"]
  /\ UNCHANGED <<configVars, serviceVars, open, inbox, batch, peerVars, recv, answers, ended, late>>

\* Wrong: the result goes in front of the meta data.
ExecInFront(kind, msg, resultString) ==
  IF kind = "void" THEN <<>> ELSE <<GetMessageData(msg)>> \o resultString

\* FunctionHelper::exec of a function that returns its argument: the result goes
\* behind the meta data; a void function clears it.
Exec(kind, msg, resultString) ==
  IF kind = "void" THEN <<>> ELSE SerialMessageData(GetMessageData(msg), resultString)

\* ... and runs the copy without.
Run ==
  /\ t.pc = "run"
  /\ LET f == GetMessageName(t.msg)
         reply == Exec(t.kind, t.msg, t.reply)
     IN /\ t' = IF reply = <<>> THEN CallbackDone ELSE [t EXCEPT !.pc = "send", !.reply = reply]
        /\ late' = IF m_functions[f] = "none" /\ late[f] < 2
                   THEN [late EXCEPT ![f] = @ + 1] ELSE late
  /\ UNCHANGED <<configVars, serviceVars, open, inbox, batch, peerVars, recv, answers, ended>>

\* sendData on a connection that is started still.  When the peer has closed it,
\* the answer is lost, or SIGPIPE ends the process.
Send ==
  /\ t.pc = "send"
  /\ answers' = IF Conn \in open \ eof THEN [answers EXCEPT ![Conn] = Append(@, t.reply)]
                ELSE answers
  /\ ended' \in IF Conn \in open \cap eof THEN {"no", "sigpipe"} ELSE {"no"}
  /\ t' = CallbackDone
  /\ UNCHANGED <<configVars, serviceVars, open, inbox, batch, peerVars, recv, late>>

PollStep ==
  \/ EpollWait \/ NextEvent \/ RecvHeader \/ RecvBody
  \/ HandleData \/ Lookup \/ Run \/ Send

-----------------------------------------------------------------------------
(* The peers: clients of this library, each with ids of its own *)

Connect(k) ==
  /\ m_state = "STARTED" /\ Fresh(k) /\ k \notin open
  /\ open' = open \cup {k}
  /\ UNCHANGED <<configVars, serviceVars, inbox, peerVars, loopVars, ended, late>>

\* The n-th request of k for function f, with k as its argument.
Request(k, f, n) == <<COMMAND, f, n, k>>

PeerSend(k, f) ==
  /\ k \in open \/ sent[k] # <<>>
  /\ k \notin eof /\ out[k] = <<>>
  /\ Len(sent[k]) < MaxRequests[k]
  /\ out' = [out EXCEPT ![k] = Frame(Request(k, f, Len(sent[k]) + 1))]
  /\ sent' = [sent EXCEPT ![k] = Append(@, f)]
  /\ UNCHANGED <<configVars, serviceVars, open, inbox, eof, loopVars, ended, late>>

\* TCP delivers the next bytes of the frame.
Transmit(k) ==
  /\ k \notin eof
  /\ \E n \in 1..Len(out[k]) :
       /\ Len(out[k]) - n \in Breaks
       /\ inbox' = [inbox EXCEPT ![k] = @ \o SubSeq(out[k], 1, n)]
       /\ out' = [out EXCEPT ![k] = SubSeq(@, n + 1, Len(@))]
  /\ UNCHANGED <<configVars, serviceVars, open, eof, sent, loopVars, ended, late>>

\* The peer breaks off: what it has not sent is lost.
PeerClose(k) ==
  /\ k \in open /\ k \notin eof
  /\ eof' = eof \cup {k}
  /\ out' = [out EXCEPT ![k] = <<>>]
  /\ UNCHANGED <<configVars, serviceVars, open, inbox, sent, loopVars, ended, late>>

PeerStep ==
  \E k \in Conns : Connect(k) \/ Transmit(k) \/ PeerClose(k) \/ \E f \in Names : PeerSend(k, f)

\* The process has ended, the entry could not be initialized, or all is quiet.
Quiet == ended # "no" \/ t.pc = "wait" \/ t.pc \in {"header", "body"} \/ m_state = "CREATED"

Next ==
  \/ ended = "no" /\ AppStep
  \/ ended = "no" /\ PollStep
  \/ ended = "no" /\ PeerStep
  \/ Quiet /\ UNCHANGED vars

Spec == Init /\ [][Next]_vars

\* The polling thread goes on when it can.
FairSpec == Spec /\ WF_vars(ended = "no" /\ PollStep)

-----------------------------------------------------------------------------
(* Properties *)

\* parseLine reads what the lines say, whatever blanks, separators and comments
\* they have: of each name the first definition.
ParsedAsMeant ==
  at > 0 =>
    {<<k, m_configItemMap[k]>> : k \in DOMAIN m_configItemMap}
      = MeaningOf(SubSeq(file, 1, at - 1))

\* Reading a configuration ends the process only at a line that is no comment
\* and has no separator (find returned npos, which is logged and then used).
ThrowsOnlyWithoutSeparator ==
  ended = "config" =>
    /\ file[at][1] # "#"
    /\ \A i \in 1..Len(file[at]) : file[at][i] # "="

\* What the service runs is a request that this very connection has sent, in
\* full; or, when the peer broke off in the middle, the rest of it with what the
\* getters return for missing fields.
RunStemsFromRequest ==
  t.pc \in {"handle", "lookup", "run", "send"} =>
    \E n \in 1..Len(sent[Conn]) :
      LET whole == Request(Conn, sent[Conn][n], n)
      IN \/ t.msg = whole
         \/ /\ Conn \in eof /\ n = Len(sent[Conn])
            /\ t.msg = SubSeq(whole, 1, Len(t.msg))

\* A connection is given the answers to its own requests, in their order, each
\* at most once, and with the result of that request.
AnswersInOrder ==
  \A k \in Conns :
    /\ \A i \in 1..Len(answers[k]) :
         LET a == answers[k][i]
         IN /\ GetMessageType(a) = REPLAY
            /\ GetMessageId(a) \in 1..Len(sent[k])
            /\ GetMessageName(a) = sent[k][GetMessageId(a)]
            /\ GetMessageData(a) \in {k, Default}
            /\ GetMessageData(a) = Default => Len(a) = 3
    /\ \A i, j \in 1..Len(answers[k]) :
         i < j => GetMessageId(answers[k][i]) < GetMessageId(answers[k][j])

\* Once unregisterMethod has returned, a function runs at most once more: the
\* copy that handleCommand had taken.
AtMostOneLateRun == \A f \in Registrable : late[f] <= 1

\* The thread waits inside of a recv whose bytes have not come.
Stalled ==
  /\ recv = "waiting"
  /\ ~RecvReady(IF t.pc = "header" THEN TCP_HEADER_SIZE ELSE t.len)

\* As long as no peer leaves the polling thread in the middle of a message for
\* ever, what any connection sends is read.
MessagesAreRead ==
  []<>(~Stalled) =>
    \A k \in Conns :
      k \in open /\ inbox[k] # <<>> ~> inbox[k] = <<>> \/ k \notin open \/ ended # "no"
=============================================================================
