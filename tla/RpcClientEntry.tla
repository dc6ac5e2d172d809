--------------------------- MODULE RpcClientEntry ---------------------------
(***************************************************************************)
(* The calls of a client (RpcClientEntry, rpc/client) over one connection: *)
(* threads of the application call invoke and invokeWithResultSync, the    *)
(* service answers, the polling thread hands each answer to                *)
(* serviceMessageCallback, which wakes the thread that waits for its id.   *)
(*                                                                         *)
(* The sections under m_waitingLock are one step each; every other access  *)
(* to shared data (the static index of _getMessageId, the m_sendBuffer of  *)
(* the connection) is a step of its own, because no lock protects it.  Two *)
(* threads inside sendData at once may put any blend of their messages on  *)
(* the wire: one's id, another's function, another's argument.             *)
(*                                                                         *)
(* The service is what RpcServiceImpl::handleData does with a command: a   *)
(* value function is answered with its result, a void function is not      *)
(* answered (the result string is cleared), an unknown function is         *)
(* answered with the message's meta data alone.  Connecting anew after a   *)
(* disconnect or a loss is not part of this module.                        *)
(***************************************************************************)
EXTENDS Naturals, Sequences

CONSTANTS
  Callers,       \* threads of the application
  Functions,     \* kinds of functions called: "value", "void", "unknown"
  MaxCalls,      \* bound: calls each thread makes
  MaxMsgId,      \* bound: message ids that are told apart
  PeerMayClose,  \* may the service close the connection?
  MayDisconnect, \* may the application disconnect, also while calls are in progress?
  MayWakeEarly   \* may a condition variable wake without notify?

ASSUME ClientAssumption ==
  /\ Functions \subseteq {"value", "void", "unknown"}
  /\ MaxCalls \in Nat \ {0}
  /\ MaxMsgId \in Nat \ {0}
  /\ PeerMayClose \in BOOLEAN
  /\ MayDisconnect \in BOOLEAN
  /\ MayWakeEarly \in BOOLEAN

Calls  == Callers \X (1..MaxCalls)
MsgIds == 1..MaxMsgId

\* What a waiting item or a message holds, and what a call returns: "absent"
\* when there is no item, "empty" before an answer came, "meta" for an answer
\* without a result, "result" with the call it is the result of, or NoCall when
\* its argument was nobody's.  A call returns "sent", "failed", "result", or
\* "default" when there was no result.
NoCall == <<>>
Kinds  == {"absent", "empty", "meta", "result", "none", "sent", "failed", "default"}
Values == [kind : Kinds, of : Calls \cup {NoCall}]
Plain(kind) == [kind |-> kind, of |-> NoCall]
Result(x)   == [kind |-> "result", of |-> x]
Absent == Plain("absent")
Empty  == Plain("empty")

Replies  == [id : MsgIds, msg : Values]
Requests == [id : MsgIds, fn : Functions, of : Calls \cup {NoCall}]
NoRequest(fn_) == [id |-> 0, fn |-> fn_, of |-> NoCall]
Torn     == NoRequest("torn")   \* bytes that are no message
NoBuffer == NoRequest("none")   \* a buffer nobody wrote yet

VARIABLES
  inited,          \* m_serialer and m_clientImpl are set
  m_ioConnection,  \* m_clientImpl's m_ioConnection is set
  link,            \* the socket: "none", "open", "lost" (the service closed it),
                   \* "reset" (its error was seen), "closed" (by disconnect)
  main,            \* what disconnect does next: "idle" when none is in progress
  index,           \* the static index of _getMessageId
  pc,              \* what a thread does next
  n,               \* how many calls it has begun
  fn, sync,        \* the function it calls, and whether it waits for the result
  reg,             \* its copy of index in ++index
  msgId,           \* its local of that name
  ret,             \* what its last call returned
  m_sendBuffer,    \* the connection's buffer
  requests,        \* messages on their way to the service
  replies,         \* messages on their way to the client
  m_waitingItems,  \* the msg of the waiting item of an id
  garbled,         \* the service lost the framing of the stream
  killed,          \* SIGPIPE ended the process
  idOf,            \* ghost: the id each call used, 0 before
  executed,        \* ghost: how often the service executed each call (2: more than once)
  early,           \* ghost: the calls that woke without notify
  raced,           \* ghost: the calls whose thread was in sendData while another was
  torn             \* ghost: the ids of messages that two threads wrote at once

appVars   == <<inited, m_ioConnection, link, main>>
callVars  == <<n, fn, sync>>
idVars    == <<index, reg, msgId, idOf>>
netVars   == <<requests, replies, garbled, executed>>
raceVars  == <<raced, torn>>
vars == <<appVars, callVars, idVars, netVars, raceVars, pc, ret, m_sendBuffer,
          m_waitingItems, killed, early>>

InWait == {"wait", "cvwait", "woken", "remove"}   \* holds an item
Pcs    == {"idle", "load", "store", "reload", "check", "fill", "send", "add"} \cup InWait

TypeOK ==
  /\ inited \in BOOLEAN
  /\ m_ioConnection \in BOOLEAN
  /\ link \in {"none", "open", "lost", "reset", "closed"}
  /\ main \in {"idle", "stop", "release"}
  /\ index \in 0..MaxMsgId
  /\ pc \in [Callers -> Pcs]
  /\ n \in [Callers -> 0..MaxCalls]
  /\ fn \in [Callers -> Functions \cup {"none"}]
  /\ sync \in [Callers -> BOOLEAN]
  /\ reg \in [Callers -> 0..MaxMsgId]
  /\ msgId \in [Callers -> 0..MaxMsgId]
  /\ ret \in [Callers -> Values]
  /\ m_sendBuffer \in Requests \cup {Torn, NoBuffer}
  /\ requests \in Seq(Requests \cup {Torn})
  /\ replies \in Seq(Replies)
  /\ m_waitingItems \in [MsgIds -> Values]
  /\ garbled \in BOOLEAN
  /\ killed \in BOOLEAN
  /\ idOf \in [Calls -> 0..MaxMsgId]
  /\ executed \in [Calls -> 0..2]
  /\ early \subseteq Calls
  /\ raced \subseteq Calls
  /\ torn \subseteq MsgIds

Init ==
  /\ inited = FALSE /\ m_ioConnection = FALSE /\ link = "none" /\ main = "idle"
  /\ index = 0
  /\ pc = [c \in Callers |-> "idle"]
  /\ n = [c \in Callers |-> 0]
  /\ fn = [c \in Callers |-> "none"]
  /\ sync = [c \in Callers |-> FALSE]
  /\ reg = [c \in Callers |-> 0]
  /\ msgId = [c \in Callers |-> 0]
  /\ ret = [c \in Callers |-> Plain("none")]
  /\ m_sendBuffer = NoBuffer
  /\ requests = <<>> /\ replies = <<>>
  /\ m_waitingItems = [i \in MsgIds |-> Absent]
  /\ garbled = FALSE /\ killed = FALSE
  /\ idOf = [x \in Calls |-> 0]
  /\ executed = [x \in Calls |-> 0]
  /\ early = {} /\ raced = {} /\ torn = {}

CallOf(c) == <<c, n[c]>>

\* The call of c returns r.
Return(c, r) ==
  /\ pc' = [pc EXCEPT ![c] = "idle"]
  /\ ret' = [ret EXCEPT ![c] = Plain(r)]

Goto(c, label) == pc' = [pc EXCEPT ![c] = label] /\ UNCHANGED ret

-----------------------------------------------------------------------------
(* The application's main thread: init, connect, disconnect and deinit, with *)
(* deinit only when no call is in progress.                                  *)
Quiet == \A c \in Callers : pc[c] = "idle"

InitEntry ==
  /\ ~inited /\ link = "none"
  /\ inited' = TRUE
  /\ UNCHANGED <<m_ioConnection, link, main, callVars, idVars, netVars, raceVars, pc, ret,
                 m_sendBuffer, m_waitingItems, killed, early>>

Connect ==
  /\ inited /\ link = "none"
  /\ link' = "open" /\ m_ioConnection' = TRUE
  /\ UNCHANGED <<inited, main, callVars, idVars, netVars, raceVars, pc, ret, m_sendBuffer,
                 m_waitingItems, killed, early>>

\* disconnect has nothing to do when the connection was released already ...
BeginDisconnect ==
  /\ MayDisconnect
  /\ inited /\ main = "idle" /\ m_ioConnection
  /\ main' = "stop"
  /\ UNCHANGED <<inited, m_ioConnection, link, callVars, idVars, netVars, raceVars, pc, ret,
                 m_sendBuffer, m_waitingItems, killed, early>>

\* ... and stops it else, although a close event may have reset it since.  The
\* socket is closed: what it received is lost, but for the answer that the
\* polling thread may have read already.
StopConnection ==
  /\ main = "stop"
  /\ IF m_ioConnection
     THEN /\ link' = "closed" /\ main' = "release"
          /\ \E k \in 0..1 : k <= Len(replies) /\ replies' = SubSeq(replies, 1, k)
          /\ UNCHANGED killed
     ELSE killed' = TRUE /\ UNCHANGED <<link, main, replies>>
  /\ UNCHANGED <<inited, m_ioConnection, callVars, idVars, requests, garbled, executed,
                 raceVars, pc, ret, m_sendBuffer, m_waitingItems, early>>

ReleaseConnection ==
  /\ main = "release"
  /\ m_ioConnection' = FALSE /\ main' = "idle"
  /\ UNCHANGED <<inited, link, callVars, idVars, netVars, raceVars, pc, ret, m_sendBuffer,
                 m_waitingItems, killed, early>>

\* The client is destroyed, with or without a connection; the polling thread
\* finds no client then.
Deinit ==
  /\ inited /\ Quiet /\ main = "idle" /\ link # "none"
  /\ inited' = FALSE /\ m_ioConnection' = FALSE
  /\ m_waitingItems' = [i \in MsgIds |-> Absent]
  /\ UNCHANGED <<link, main, callVars, idVars, netVars, raceVars, pc, ret, m_sendBuffer,
                 killed, early>>

MainStep ==
  InitEntry \/ Connect \/ BeginDisconnect \/ StopConnection \/ ReleaseConnection \/ Deinit

-----------------------------------------------------------------------------
(* invoke (s = FALSE) and invokeWithResultSync (s = TRUE) of thread c *)

Begin(c, f, s) ==
  /\ pc[c] = "idle"
  /\ n[c] < MaxCalls
  /\ n' = [n EXCEPT ![c] = @ + 1]
  /\ fn' = [fn EXCEPT ![c] = f]
  /\ sync' = [sync EXCEPT ![c] = s]
  /\ IF inited THEN Goto(c, "load") ELSE Return(c, "failed")
  /\ UNCHANGED <<appVars, idVars, netVars, raceVars, m_sendBuffer, m_waitingItems, killed, early>>

\* return ++index: load, add and store, and return what was stored or, as the
\* build may, what a second load finds.
LoadIndex(c) ==
  /\ pc[c] = "load"
  /\ reg' = [reg EXCEPT ![c] = index]
  /\ Goto(c, "store")
  /\ UNCHANGED <<appVars, callVars, index, msgId, idOf, netVars, raceVars, m_sendBuffer,
                 m_waitingItems, killed, early>>

StoreIndex(c) ==
  /\ pc[c] = "store"
  /\ reg[c] < MaxMsgId
  /\ index' = reg[c] + 1
  /\ Goto(c, "reload")
  /\ UNCHANGED <<appVars, callVars, reg, msgId, idOf, netVars, raceVars, m_sendBuffer,
                 m_waitingItems, killed, early>>

ReloadIndex(c) ==
  /\ pc[c] = "reload"
  /\ \E id \in {reg[c] + 1, index} :
       /\ msgId' = [msgId EXCEPT ![c] = id]
       /\ idOf' = [idOf EXCEPT ![CallOf(c)] = id]
  /\ Goto(c, "check")
  /\ UNCHANGED <<appVars, callVars, index, reg, netVars, raceVars, m_sendBuffer,
                 m_waitingItems, killed, early>>

\* Wrong: the message carries the id before the increment ...
RequestOldId(c) == [id |-> reg[c], fn |-> fn[c], of |-> CallOf(c)]

\* ... or the index read once more when the message is built.
RequestReread(c) == [id |-> index, fn |-> fn[c], of |-> CallOf(c)]

Request(c) == [id |-> msgId[c], fn |-> fn[c], of |-> CallOf(c)]

\* sendMsg tests m_ioConnection ...
CheckConnection(c) ==
  /\ pc[c] = "check"
  /\ IF m_ioConnection THEN Goto(c, "fill") ELSE Return(c, "failed")
  /\ UNCHANGED <<appVars, callVars, idVars, netVars, raceVars, m_sendBuffer, m_waitingItems,
                 killed, early>>

\* The other threads between their writing of the buffer and their send.
Sending(c) == {d \in Callers \ {c} : pc[d] = "send"}

\* What the bytes of several messages can make, when threads write or send the
\* buffer at once: a message with an id, a function and the argument of any of
\* them or of none, or no message at all.
Blends(c) ==
  IF Sending(c) = {} THEN {}
  ELSE {Torn} \cup [id : MsgIds, fn : Functions,
                    of : {CallOf(d) : d \in Sending(c) \cup {c}} \cup {m_sendBuffer.of, NoCall}]

\* The id of m, when it is a message, and another one than it should be.
BlendedIds(m, intended) == IF m \in {Torn, intended} THEN {} ELSE {m.id}

\* ... and uses it, although a close event or disconnect may have reset or
\* stopped it since.  sendData writes the message into the shared buffer.  While
\* another thread is about to send from it, the data race may blend the two or
\* end the process.
Fill(c) ==
  /\ pc[c] = "fill"
  /\ \/ /\ m_ioConnection /\ link # "closed"
        /\ \E m \in {Request(c)} \cup Blends(c) :
             /\ m_sendBuffer' = m
             /\ torn' = torn \cup BlendedIds(m, Request(c))
        /\ raced' = IF Sending(c) = {} THEN raced
                    ELSE raced \cup {CallOf(d) : d \in Sending(c) \cup {c}}
        /\ Goto(c, "send")
        /\ UNCHANGED killed
     \/ /\ m_ioConnection /\ link = "closed"
        /\ Return(c, "failed")
        /\ UNCHANGED <<m_sendBuffer, raceVars, killed>>
     \/ /\ ~m_ioConnection \/ Sending(c) # {}
        /\ killed' = TRUE
        /\ UNCHANGED <<pc, ret, m_sendBuffer, raceVars>>
  /\ UNCHANGED <<appVars, callVars, idVars, netVars, m_waitingItems, early>>

\* What follows the message of c on the wire: the bytes that are left when the
\* length c sends is not that of the message in the buffer.
Rests(c) ==
  IF m_sendBuffer = Request(c) /\ Sending(c) = {} THEN {<<>>} ELSE {<<>>, <<Torn>>}

Sent(c) == IF sync[c] THEN Goto(c, "add") ELSE Return(c, "sent")

\* send(): onto the wire; to a service that has closed (data lost without an
\* error, an error, or SIGPIPE); or to a socket that disconnect closed.
Send(c) ==
  /\ pc[c] = "send"
  /\ \/ /\ link = "open"
        /\ \E m \in {m_sendBuffer} \cup Blends(c), rest \in Rests(c) :
             /\ requests' = requests \o <<m>> \o rest
             /\ torn' = torn \cup BlendedIds(m, m_sendBuffer)
        /\ Sent(c)
        /\ UNCHANGED killed
     \/ /\ link # "open"
        /\ \/ link # "closed" /\ Sent(c) /\ UNCHANGED killed
           \/ Return(c, "failed") /\ UNCHANGED killed
           \/ link # "closed" /\ killed' = TRUE /\ UNCHANGED <<pc, ret>>
        /\ UNCHANGED <<requests, torn>>
  /\ UNCHANGED <<appVars, callVars, idVars, replies, garbled, executed, raced, m_sendBuffer,
                 m_waitingItems, early>>

\* Wrong: an item of the same id is replaced.
AddItemUnchecked(c) ==
  /\ pc[c] = "add"
  /\ m_waitingItems' = [m_waitingItems EXCEPT ![msgId[c]] = Empty]
  /\ Goto(c, "wait")
  /\ UNCHANGED <<appVars, callVars, idVars, netVars, raceVars, m_sendBuffer, killed, early>>

\* Wrong: a call whose id has an item already is sent again.
AddItemRetries(c) ==
  /\ pc[c] = "add"
  /\ IF m_waitingItems[msgId[c]] = Absent
     THEN /\ m_waitingItems' = [m_waitingItems EXCEPT ![msgId[c]] = Empty]
          /\ Goto(c, "wait")
     ELSE Goto(c, "check") /\ UNCHANGED m_waitingItems
  /\ UNCHANGED <<appVars, callVars, idVars, netVars, raceVars, m_sendBuffer, killed, early>>

\* _addResultWaitingItem, after the request was sent.
AddItem(c) ==
  /\ pc[c] = "add"
  /\ IF m_waitingItems[msgId[c]] = Absent
     THEN /\ m_waitingItems' = [m_waitingItems EXCEPT ![msgId[c]] = Empty]
          /\ Goto(c, "wait")
     ELSE Return(c, "failed") /\ UNCHANGED m_waitingItems
  /\ UNCHANGED <<appVars, callVars, idVars, netVars, raceVars, m_sendBuffer, killed, early>>

\* Wrong: the result is taken without waiting.
WaitSkipped(c) ==
  /\ pc[c] = "wait"
  /\ Goto(c, "woken")
  /\ UNCHANGED <<appVars, callVars, idVars, netVars, raceVars, m_sendBuffer, m_waitingItems,
                 killed, early>>

\* cv.wait without a predicate: whatever msg holds already, wait for a notify.
Wait(c) ==
  /\ pc[c] = "wait"
  /\ Goto(c, "cvwait")
  /\ UNCHANGED <<appVars, callVars, idVars, netVars, raceVars, m_sendBuffer, m_waitingItems,
                 killed, early>>

WakeEarly(c) ==
  /\ MayWakeEarly
  /\ pc[c] = "cvwait"
  /\ Goto(c, "woken")
  /\ early' = early \cup {CallOf(c)}
  /\ UNCHANGED <<appVars, callVars, idVars, netVars, raceVars, m_sendBuffer, m_waitingItems,
                 killed>>

\* The message is moved out of the item and its result decoded: a message
\* without one decodes to the default value.
Take(c) ==
  /\ pc[c] = "woken"
  /\ LET item == m_waitingItems[msgId[c]]
     IN ret' = [ret EXCEPT ![c] = IF item.kind = "result" THEN item ELSE Plain("default")]
  /\ m_waitingItems' = [m_waitingItems EXCEPT ![msgId[c]] = Empty]
  /\ pc' = [pc EXCEPT ![c] = "remove"]
  /\ UNCHANGED <<appVars, callVars, idVars, netVars, raceVars, m_sendBuffer, killed, early>>

\* Wrong: a call that got no result is sent again.
RemoveItemRetries(c) ==
  /\ pc[c] = "remove"
  /\ m_waitingItems' = [m_waitingItems EXCEPT ![msgId[c]] = Absent]
  /\ Goto(c, IF ret[c].kind = "default" THEN "check" ELSE "idle")
  /\ UNCHANGED <<appVars, callVars, idVars, netVars, raceVars, m_sendBuffer, killed, early>>

\* _removeResultWaitingItem; the call returns 0 with the value taken.
RemoveItem(c) ==
  /\ pc[c] = "remove"
  /\ m_waitingItems' = [m_waitingItems EXCEPT ![msgId[c]] = Absent]
  /\ Goto(c, "idle")
  /\ UNCHANGED <<appVars, callVars, idVars, netVars, raceVars, m_sendBuffer, killed, early>>

CallerStep(c) ==
  \/ LoadIndex(c) \/ StoreIndex(c) \/ ReloadIndex(c) \/ CheckConnection(c)
  \/ Fill(c) \/ Send(c) \/ AddItem(c) \/ Wait(c) \/ Take(c) \/ RemoveItem(c)

-----------------------------------------------------------------------------
(* The polling thread of the client *)

\* Wrong: the item is filled, but nobody is notified.
DispatchSilently ==
  /\ link \in {"open", "lost", "closed"} /\ inited
  /\ replies # <<>>
  /\ LET r == Head(replies)
     IN m_waitingItems' = IF m_waitingItems[r.id] = Absent THEN m_waitingItems
                          ELSE [m_waitingItems EXCEPT ![r.id] = r.msg]
  /\ replies' = Tail(replies)
  /\ UNCHANGED <<appVars, callVars, idVars, requests, garbled, executed, raceVars, pc, ret,
                 m_sendBuffer, killed, early>>

\* serviceMessageCallback: the answer goes to the item of its id, and the
\* thread that waits on it, if one does already, is notified.
Dispatch ==
  /\ link \in {"open", "lost", "closed"} /\ inited
  /\ replies # <<>>
  /\ LET r == Head(replies)
         waiting == {c \in Callers : pc[c] = "cvwait" /\ msgId[c] = r.id}
     IN IF m_waitingItems[r.id] = Absent
        THEN UNCHANGED <<m_waitingItems, pc>>
        ELSE /\ m_waitingItems' = [m_waitingItems EXCEPT ![r.id] = r.msg]
             /\ IF waiting = {} THEN UNCHANGED pc
                ELSE \E c \in waiting : pc' = [pc EXCEPT ![c] = "woken"]
  /\ replies' = Tail(replies)
  /\ UNCHANGED <<appVars, callVars, idVars, requests, garbled, executed, raceVars, ret,
                 m_sendBuffer, killed, early>>

\* handleEvent(CLOSE) when recv finds the end of the stream, after the last
\* answer: nobody who waits is woken.
CloseEvent ==
  /\ link = "lost" /\ replies = <<>>
  /\ m_ioConnection
  /\ m_ioConnection' = FALSE
  /\ UNCHANGED <<inited, link, main, callVars, idVars, netVars, raceVars, pc, ret, m_sendBuffer,
                 m_waitingItems, killed, early>>

\* handleEvent(CLOSE) out of onIoError, when epoll reports an error or a hang-up:
\* it will do so in every round from now on, and what the socket received is
\* never read.
ErrorEvent ==
  /\ link = "lost"
  /\ m_ioConnection
  /\ link' = "reset" /\ m_ioConnection' = FALSE
  /\ UNCHANGED <<inited, main, callVars, idVars, netVars, raceVars, pc, ret, m_sendBuffer,
                 m_waitingItems, killed, early>>

-----------------------------------------------------------------------------
(* The service *)

\* The answer to request r, as a sequence of at most one message.
Answer(r) ==
  CASE r.fn = "value"   -> <<[id |-> r.id, msg |-> Result(r.of)]>>
    [] r.fn = "unknown" -> <<[id |-> r.id, msg |-> Plain("meta")]>>
    [] r.fn = "void"    -> <<>>

\* Bytes that are no message are lost, and may end the framing: what follows
\* then is not understood until a frame happens to begin where one is expected.
Serve ==
  /\ link \notin {"lost", "reset"}
  /\ requests # <<>>
  /\ requests' = Tail(requests)
  /\ IF garbled \/ Head(requests) = Torn
     THEN /\ garbled' \in BOOLEAN
          /\ UNCHANGED <<replies, executed>>
     ELSE LET r == Head(requests)
          IN /\ replies' = IF link = "open" THEN replies \o Answer(r) ELSE replies
             /\ executed' = IF r.fn = "unknown" \/ r.of = NoCall THEN executed
                            ELSE [executed EXCEPT ![r.of] = IF @ < 2 THEN @ + 1 ELSE @]
             /\ UNCHANGED garbled
  /\ UNCHANGED <<appVars, callVars, idVars, raceVars, pc, ret, m_sendBuffer, m_waitingItems,
                 killed, early>>

\* The service stops: requests it has not served are lost.
PeerClose ==
  /\ PeerMayClose
  /\ link = "open"
  /\ link' = "lost"
  /\ requests' = <<>>
  /\ UNCHANGED <<inited, m_ioConnection, main, callVars, idVars, replies, garbled, executed,
                 raceVars, pc, ret, m_sendBuffer, m_waitingItems, killed, early>>

-----------------------------------------------------------------------------
\* Nothing is left to happen: the process died, or the calls are made, or
\* wait for answers that will not come.
Finished ==
  /\ killed \/ \A c \in Callers : (pc[c] = "idle" /\ n[c] = MaxCalls) \/ pc[c] = "cvwait"
  /\ UNCHANGED vars

Next ==
  \/ ~killed /\ MainStep
  \/ ~killed /\ \E c \in Callers, f \in Functions, s \in BOOLEAN : Begin(c, f, s)
  \/ ~killed /\ \E c \in Callers : CallerStep(c)
  \/ ~killed /\ \E c \in Callers : WakeEarly(c)
  \/ ~killed /\ Dispatch
  \/ ~killed /\ CloseEvent
  \/ ~killed /\ ErrorEvent
  \/ ~killed /\ Serve
  \/ ~killed /\ PeerClose
  \/ Finished

Spec == Init /\ [][Next]_vars

(***************************************************************************)
(* Fairness: a thread in a call goes on unless it waits, the service       *)
(* serves what it received, and the polling thread (epoll is               *)
(* level-triggered) hands over what came in.  Nothing says that a call is  *)
(* made, that the service closes, or that a wait ends without a notify.    *)
(***************************************************************************)
Fairness ==
  /\ \A c \in Callers : WF_vars(~killed /\ CallerStep(c))
  /\ WF_vars(~killed /\ Dispatch)
  /\ WF_vars(~killed /\ Serve)

FairSpec == Spec /\ Fairness

-----------------------------------------------------------------------------
(* Properties *)

\* Did another call use the id of x, or a message that two threads wrote at once?
Collided(x) ==
  \/ \E y \in Calls \ {x} : idOf[y] = idOf[x]
  \/ idOf[x] \in torn

Finishing(c) == pc[c] = "remove" \/ (pc[c] = "idle" /\ n[c] > 0)

\* A call is given the result of another one only if the unprotected index
\* gave both the same id, or two threads inside sendData blended a message
\* that carried its id.
ResultIsOwn ==
  \A c \in Callers :
    Finishing(c) /\ ret[c].kind = "result" =>
      ret[c] = Result(CallOf(c)) \/ Collided(CallOf(c))

\* A call of a value function that returns 0 returns a result, not a default
\* value, unless it shared its id with a call or with a blend of messages, or
\* its thread woke without a notify.
NoSilentDefault ==
  \A c \in Callers :
    Finishing(c) /\ ret[c].kind = "default" /\ fn[c] = "value" =>
      Collided(CallOf(c)) \/ CallOf(c) \in early

\* There is a waiting item exactly for the ids of the calls between their add
\* and their remove, and those calls have different ids: nobody's item is
\* erased or left behind, also when the index gave two calls one id.
ItemsHaveOwners ==
  /\ \A c \in Callers : pc[c] \in InWait => m_waitingItems[msgId[c]] # Absent
  /\ \A c, d \in Callers :
       pc[c] \in InWait /\ pc[d] \in InWait /\ msgId[c] = msgId[d] => c = d
  /\ \A i \in MsgIds : m_waitingItems[i] # Absent =>
       \E c \in Callers : pc[c] \in InWait /\ msgId[c] = i

\* Whatever the threads do, whatever ids they get and however the connection
\* ends, the service executes a call at most once, and only one that got as far
\* as an id, unless the call's thread was inside sendData together with another:
\* then its message may be sent twice, and another's not at all.
ExecutedOnce ==
  \A x \in Calls : executed[x] <= (IF idOf[x] # 0 THEN 1 ELSE 0) \/ x \in raced

\* A thread that waits while its answer is on the way is woken, also when the
\* service has closed the connection in the meantime, unless disconnect closes
\* the socket or epoll reports an error of it before the answer was read.
AnsweredCallReturns ==
  \A c \in Callers :
    pc[c] = "cvwait" /\ (\E i \in 1..Len(replies) : replies[i].id = msgId[c])
      ~> pc[c] # "cvwait" \/ killed \/ link \in {"reset", "closed"}

\* Every call of invokeWithResultSync returns, with a result or an error.
EverySyncCallReturns ==
  \A c \in Callers : pc[c] # "idle" ~> pc[c] = "idle" \/ killed

-----------------------------------------------------------------------------
(* The inductive invariant behind ItemsHaveOwners and ResultIsOwn *)

\* A thread past _getMessageId has an id, the one recorded for its call.
IdsAreKnown ==
  /\ \A c \in Callers : pc[c] = "reload" => index # 0 /\ reg[c] < MaxMsgId
  /\ \A c \in Callers : pc[c] \in {"check", "fill", "send", "add"} \cup InWait =>
       n[c] # 0 /\ msgId[c] # 0 /\ idOf[CallOf(c)] = msgId[c]
  /\ \A c \in Callers : pc[c] # "idle" => n[c] # 0 /\ fn[c] \in Functions
  /\ \A c \in Callers :
       Finishing(c) /\ ret[c].kind = "result" => idOf[CallOf(c)] # 0
  /\ \A c \in Callers : pc[c] \in {"load", "store", "reload"} => idOf[CallOf(c)] = 0
  /\ \A c \in Callers, k \in 1..MaxCalls : k > n[c] => idOf[<<c, k>>] = 0

\* What is sent, answered or waiting under an id stems from a call with that id,
\* or a blend of messages carried the id.
StemsFrom(id, of) == id \in torn \/ (of \in Calls /\ idOf[of] = id)
MessagesStem ==
  /\ \A c \in Callers : pc[c] = "send" => m_sendBuffer # NoBuffer
  /\ m_sendBuffer \in Requests => StemsFrom(m_sendBuffer.id, m_sendBuffer.of)
  /\ \A i \in 1..Len(requests) :
       requests[i] \in Requests => StemsFrom(requests[i].id, requests[i].of)
  /\ \A i \in 1..Len(replies) :
       /\ replies[i].msg # Absent
       /\ replies[i].msg.kind = "result" => StemsFrom(replies[i].id, replies[i].msg.of)
  /\ \A i \in MsgIds :
       m_waitingItems[i].kind = "result" => StemsFrom(i, m_waitingItems[i].of)

ClientInv == ItemsHaveOwners /\ IdsAreKnown /\ MessagesStem /\ ResultIsOwn

-----------------------------------------------------------------------------
(* The inductive invariant behind NoSilentDefault, on top of ClientInv *)

\* A request for the call a thread makes names the function of that call, unless
\* it may be a blend.
RightFn(r) ==
  r \in Requests /\ r.id \notin torn => \A c \in Callers : r.of = CallOf(c) => r.fn = fn[c]

\* A reply answers a call, and under the id of a call of a value function it
\* carries a result, unless another call or a blend used the id.
RightKind(r) ==
  /\ r.id \in torn \/ \E y \in Calls : idOf[y] = r.id
  /\ \A c \in Callers :
       n[c] # 0 /\ r.id = idOf[CallOf(c)] /\ fn[c] = "value" =>
         r.msg.kind = "result" \/ Collided(CallOf(c))

ValueInv ==
  /\ RightFn(m_sendBuffer)
  /\ \A i \in 1..Len(requests) : RightFn(requests[i])
  /\ \A i \in 1..Len(replies) : RightKind(replies[i])
  /\ \A c \in Callers :
       pc[c] = "woken" /\ fn[c] = "value" =>
         \/ m_waitingItems[msgId[c]].kind = "result"
         \/ Collided(CallOf(c))
         \/ CallOf(c) \in early
  /\ \A c \in Callers : Finishing(c) /\ ret[c].kind = "default" => idOf[CallOf(c)] # 0
  /\ NoSilentDefault
=============================================================================
