---------------------------- MODULE RpcClientCalls ----------------------------
(***************************************************************************)
(* RpcClientEntry and the service keep the promise of RpcCall as long as   *)
(* no two threads take an id, or send, at once; with a single calling      *)
(* thread they always do.  A call ends when its result is taken; what is   *)
(* left of it, the removal of the waiting item, is no part of the promise. *)
(***************************************************************************)
EXTENDS RpcClientEntry

InCall(c) == pc[c] \notin {"idle", "remove"}
Busy      == {c \in Callers : InCall(c)}
Ends      == {Plain("sent"), Plain("failed"), Plain("default")}

Call == INSTANCE RpcCall
  WITH begun    <- n,
       busy     <- Busy,
       returned <- ret,
       runs     <- executed,
       Endings  <- Ends,
       Nothing  <- Plain("none")

\* A remote call is executed at most once, and its result is its own: the client
\* and the service implement RpcCall.
ImplementsRpcCall == Call!Spec

-----------------------------------------------------------------------------
(* The invariants behind it, and behind ExecutedOnce *)

\* What a lock in _getMessageId and one in sendData would keep threads from: to
\* take an id while another does, and to fill the buffer another is to send.
\* The code has neither lock.
Guarded ==
  /\ \A c, d \in Callers :
       pc[c] \in {"store", "reload"} /\ pc[d] \in {"store", "reload"} => c = d
  /\ \A c, d \in Callers : pc[c] = "send" /\ pc[d] = "send" => c = d

\* Every call gets an id no call had before.
IdsDiffer ==
  /\ \A x \in Calls : idOf[x] <= index
  /\ \A c \in Callers : pc[c] = "store" => reg[c] = index
  /\ \A c \in Callers : pc[c] = "reload" =>
       index = reg[c] + 1 /\ \A x \in Calls : idOf[x] <= reg[c]
  /\ \A x, y \in Calls : idOf[x] = idOf[y] /\ idOf[x] # 0 => x = y

\* Will x be sent no more?
Past(x) ==
  \/ x[2] < n[x[1]]
  \/ x[2] = n[x[1]]
     /\ pc[x[1]] \notin {"load", "store", "reload", "check", "fill", "send"}

\* A request that is on its way, and was not executed.
OnItsWay(r) == Past(r.of) /\ executed[r.of] = 0 /\ idOf[r.of] # 0

\* Of the calls whose threads were in sendData alone: what is to be sent was not
\* sent before, what was sent is to be executed once, and what was executed is on
\* its way no more.  The other threads send nothing of theirs.
SentOnce ==
  /\ \A c \in Callers : pc[c] = "send" =>
       IF CallOf(c) \in raced THEN m_sendBuffer.of \in raced \cup {NoCall}
       ELSE m_sendBuffer = Request(c) /\ Sending(c) = {}
  /\ \A i \in 1..Len(requests) : requests[i].of \in Calls \ raced => OnItsWay(requests[i])
  /\ \A i, j \in 1..Len(requests) :
       requests[i].of \in Calls \ raced /\ requests[i].of = requests[j].of => i = j
  /\ \A x \in Calls \ raced :
       executed[x] # 0 => executed[x] = 1 /\ Past(x) /\ idOf[x] # 0

\* No message was blended, and what is on the wire are requests of calls.
NoRaces ==
  /\ raced = {} /\ torn = {}
  /\ \A i \in 1..Len(requests) : requests[i].of \in Calls

\* A result is one of a call that was executed.
ResultsRan ==
  /\ \A i \in 1..Len(replies) :
       replies[i].msg.kind = "result" => executed[replies[i].msg.of] = 1
  /\ \A i \in MsgIds :
       m_waitingItems[i].kind = "result" => executed[m_waitingItems[i].of] = 1

SerialInv == IdsDiffer /\ NoRaces /\ ResultsRan
=============================================================================
