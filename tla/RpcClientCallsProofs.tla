------------------------ MODULE RpcClientCallsProofs ------------------------
(* Proofs that a client whose threads take their ids and send one after    *)
(* another, and the service, implement RpcCall, for every set of callers   *)
(* and functions and every bound.                                          *)
EXTENDS RpcClientCalls, RpcClientEntryProofs

USE DEF Calls, MsgIds, CallOf, NoCall

-----------------------------------------------------------------------------
(* The thread's position *)

\* The steps that are none of a thread.
LEMMA OtherSteps ==
  ASSUME TypeOK, [Next]_vars,
         ~\E d \in Callers : CallerStep(d) \/ WakeEarly(d),
         ~\E d \in Callers, f \in Functions, s \in BOOLEAN : Begin(d, f, s)
  PROVE  /\ UNCHANGED <<n, fn, sync, index, reg, msgId, idOf, ret, m_sendBuffer>>
         /\ \/ UNCHANGED pc
            \/ Dispatch /\ \E d \in Callers : pc[d] = "cvwait" /\ pc' = [pc EXCEPT ![d] = "woken"]
BY DEF Next, MainStep, InitEntry, Connect, BeginDisconnect, StopConnection,
         ReleaseConnection, Deinit, Dispatch, CloseEvent, ErrorEvent, Serve,
       PeerClose, Finished, vars, callVars, idVars

\* A thread moves no other one.
LEMMA OneMoves ==
  ASSUME TypeOK, NEW d \in Callers,
         \/ CallerStep(d) \/ WakeEarly(d)
         \/ \E f \in Functions, s \in BOOLEAN : Begin(d, f, s)
  PROVE  /\ \A c \in Callers \ {d} : pc'[c] = pc[c] /\ n'[c] = n[c]
         /\ pc' = [pc EXCEPT ![d] = pc'[d]]
<1>0. pc \in [Callers -> Pcs] /\ n \in [Callers -> 0..MaxCalls]
  BY DEF TypeOK
<1>1. UNCHANGED n \/ n' = [n EXCEPT ![d] = @ + 1]
  BY DEF CallerStep, LoadIndex, StoreIndex, ReloadIndex, CheckConnection, Fill, Send, Sent, AddItem, Wait,
         WakeEarly, Take, RemoveItem, Begin, callVars
<1>2. pc' = [pc EXCEPT ![d] = pc'[d]]
  BY <1>0 DEF CallerStep, LoadIndex, StoreIndex, ReloadIndex, CheckConnection, Fill, Send, Sent, AddItem,
              Wait, WakeEarly, Take, RemoveItem, Begin, Goto, Return
<1> QED
  BY <1>0, <1>1, <1>2

\* Where a thread comes from that is to store the index, to load it again, or
\* to send.
LEMMA ComesFrom ==
  ASSUME TypeOK, [Next]_vars, NEW c \in Callers
  PROVE  /\ pc'[c] = "store"  => pc[c] = "store" \/ LoadIndex(c)
         /\ pc'[c] = "reload" => pc[c] = "reload" \/ StoreIndex(c)
         /\ pc'[c] = "send"   => pc[c] = "send" \/ Fill(c)
<1>0. pc \in [Callers -> Pcs]
  BY DEF TypeOK
<1>1. CASE CallerStep(c) \/ WakeEarly(c)
  BY <1>0, <1>1 DEF CallerStep, LoadIndex, StoreIndex, ReloadIndex, CheckConnection, Fill, Send, Sent,
         AddItem, Wait, WakeEarly, Take, RemoveItem, Goto, Return
<1>2. CASE \E f \in Functions, s \in BOOLEAN : Begin(c, f, s)
  BY <1>0, <1>2 DEF Begin, Goto, Return
<1>3. ASSUME NEW d \in Callers \ {c},
             \/ CallerStep(d) \/ WakeEarly(d)
             \/ \E f \in Functions, s \in BOOLEAN : Begin(d, f, s)
      PROVE  pc'[c] = pc[c]
  BY <1>3, OneMoves
<1>4. CASE /\ ~\E d \in Callers : CallerStep(d) \/ WakeEarly(d)
           /\ ~\E d \in Callers, f \in Functions, s \in BOOLEAN : Begin(d, f, s)
  BY <1>0, <1>4, OtherSteps
<1> QED
  BY <1>1, <1>2, <1>3, <1>4

-----------------------------------------------------------------------------
(* IdsDiffer *)

LEMMA IdsDifferStep ==
  ASSUME TypeOK, ClientInv, IdsDiffer, Guarded, Guarded', [Next]_vars
  PROVE  IdsDiffer'
<1>0. /\ pc \in [Callers -> Pcs] /\ reg \in [Callers -> 0..MaxMsgId]
      /\ idOf \in [Calls -> 0..MaxMsgId] /\ index \in 0..MaxMsgId
      /\ n \in [Callers -> 0..MaxCalls] /\ MaxMsgId \in Nat
  BY ClientAssumption DEF TypeOK
<1>a. \A c \in Callers :
        /\ pc'[c] = "store"  => pc[c] = "store" \/ LoadIndex(c)
        /\ pc'[c] = "reload" => pc[c] = "reload" \/ StoreIndex(c)
  BY ComesFrom
<1>1. ASSUME NEW c \in Callers, LoadIndex(c) PROVE IdsDiffer'
  <2>1. /\ reg' = [reg EXCEPT ![c] = index] /\ pc' = [pc EXCEPT ![c] = "store"]
        /\ UNCHANGED <<index, idOf>>
    BY <1>1 DEF LoadIndex, Goto
  <2>2. \A d \in Callers : pc'[d] \in {"store", "reload"} => d = c
    BY <1>0, <2>1 DEF Guarded
  <2> QED
    BY <1>0, <2>1, <2>2 DEF IdsDiffer
<1>2. ASSUME NEW c \in Callers, StoreIndex(c) PROVE IdsDiffer'
  <2>1. /\ index' = reg[c] + 1 /\ pc[c] = "store" /\ pc' = [pc EXCEPT ![c] = "reload"]
        /\ UNCHANGED <<reg, idOf>>
    BY <1>2 DEF StoreIndex, Goto
  <2>2. \A x \in Calls : idOf[x] <= reg[c]
    BY <2>1 DEF IdsDiffer
  <2>3. \A x \in Calls : idOf[x] <= reg[c] + 1
    BY <1>0, <2>2
  <2>4. \A d \in Callers : pc'[d] \in {"store", "reload"} => d = c
    BY <1>0, <2>1 DEF Guarded
  <2> QED
    BY <1>0, <2>1, <2>2, <2>3, <2>4 DEF IdsDiffer
<1>3. ASSUME NEW c \in Callers, ReloadIndex(c) PROVE IdsDiffer'
  <2>1. /\ index = reg[c] + 1 /\ pc[c] = "reload"
        /\ \A x \in Calls : idOf[x] <= reg[c]
    BY <1>3 DEF IdsDiffer, ReloadIndex
  <2>2. /\ idOf' = [idOf EXCEPT ![CallOf(c)] = index]
        /\ pc' = [pc EXCEPT ![c] = "check"]
        /\ index' = index /\ reg' = reg
    BY <1>3, <2>1 DEF ReloadIndex, Goto
  <2>3. \A x \in Calls : idOf'[x] = IF x = CallOf(c) THEN index ELSE idOf[x]
    BY <1>0, <2>2
  <2>4. \A x \in Calls : idOf'[x] <= index
    BY <1>0, <2>1, <2>3
  <2>5. \A x, y \in Calls : idOf'[x] = idOf'[y] /\ idOf'[x] # 0 => x = y
    <3>1. \A x \in Calls : idOf[x] # index
      BY <1>0, <2>1
    <3> QED
      BY <2>3, <3>1 DEF IdsDiffer
  <2>6. \A d \in Callers : pc'[d] \notin {"store", "reload"}
    BY <1>0, <2>1, <2>2 DEF Guarded
  <2> QED
    BY <1>0, <2>2, <2>4, <2>5, <2>6 DEF IdsDiffer
<1>4. CASE ~\E c \in Callers : LoadIndex(c) \/ StoreIndex(c) \/ ReloadIndex(c)
  <2>1. UNCHANGED <<index, reg, idOf>>
    BY <1>4 DEF Next, MainStep, InitEntry, Connect, BeginDisconnect, StopConnection,
         ReleaseConnection, Deinit, Begin, CallerStep,
           CheckConnection, Fill, Send, Sent, AddItem, Wait, WakeEarly, Take, RemoveItem, Dispatch,
           CloseEvent, ErrorEvent, Serve, PeerClose, Finished, vars, idVars
  <2>2. \A c \in Callers :
          (pc'[c] = "store" => pc[c] = "store") /\ (pc'[c] = "reload" => pc[c] = "reload")
    BY <1>a, <1>4
  <2> QED
    BY <2>1, <2>2 DEF IdsDiffer
<1> QED
  BY <1>1, <1>2, <1>3, <1>4

-----------------------------------------------------------------------------
(* SentOnce *)

LEMMA CallFields ==
  \A x \in Calls : x[1] \in Callers /\ x[2] \in 1..MaxCalls /\ x = <<x[1], x[2]>>
OBVIOUS

\* What is past its send stays past it.
LEMMA PastStays ==
  ASSUME TypeOK, ClientInv, [Next]_vars, NEW x \in Calls, Past(x)
  PROVE  Past(x)'
<1>a. pc \in [Callers -> Pcs] /\ n \in [Callers -> 0..MaxCalls]
  BY DEF TypeOK
<1>b. PICK c \in Callers : x[1] = c
  BY CallFields
<1>0. /\ pc \in [Callers -> Pcs] /\ n \in [Callers -> 0..MaxCalls]
      /\ x[1] = c /\ x[2] \in 1..MaxCalls /\ MaxCalls \in Nat
  BY <1>a, <1>b, CallFields, ClientAssumption
<1> DEFINE before == {"load", "store", "reload", "check", "fill", "send"}
<1>1. CASE CallerStep(c) \/ WakeEarly(c)
  <2>1. n' = n
    BY <1>1 DEF CallerStep, LoadIndex, StoreIndex, ReloadIndex, CheckConnection, Fill,
                Send, Sent, AddItem, Wait, WakeEarly, Take, RemoveItem, callVars
  <2>2. pc[c] \notin before => pc'[c] \notin before
    BY <1>0, <1>1 DEF CallerStep, LoadIndex, StoreIndex, ReloadIndex, CheckConnection, Fill,
                      Send, Sent, AddItem, Wait, WakeEarly, Take, RemoveItem, Goto, Return
  <2> QED
    BY <1>0, <2>1, <2>2 DEF Past
<1>2. CASE \E f \in Functions, s \in BOOLEAN : Begin(c, f, s)
  <2>1. n'[c] = n[c] + 1
    BY <1>0, <1>2 DEF Begin
  <2> QED
    BY <1>0, <2>1 DEF Past
<1>3. ASSUME NEW d \in Callers \ {c},
             \/ CallerStep(d) \/ WakeEarly(d)
             \/ \E f \in Functions, s \in BOOLEAN : Begin(d, f, s)
      PROVE  Past(x)'
  <2>1. pc'[c] = pc[c] /\ n'[c] = n[c]
    BY <1>3, OneMoves
  <2> QED
    BY <1>0, <2>1 DEF Past
<1>4. CASE /\ ~\E d \in Callers : CallerStep(d) \/ WakeEarly(d)
           /\ ~\E d \in Callers, f \in Functions, s \in BOOLEAN : Begin(d, f, s)
  <2>1. n' = n /\ (pc'[c] = pc[c] \/ pc'[c] = "woken")
    BY <1>0, <1>4, OtherSteps
  <2> QED
    BY <1>0, <2>1 DEF Past
<1> QED
  BY <1>1, <1>2, <1>3, <1>4

\* A thread that is about to send keeps its call until it has sent.
LEMMA CallIsKept ==
  ASSUME TypeOK, [Next]_vars, NEW c \in Callers, pc[c] = "send"
  PROVE  fn'[c] = fn[c] /\ n'[c] = n[c] /\ msgId'[c] = msgId[c]
<1>0. /\ fn \in [Callers -> Functions \cup {"none"}] /\ n \in [Callers -> 0..MaxCalls]
      /\ msgId \in [Callers -> 0..MaxMsgId]
  BY DEF TypeOK
<1>1. ASSUME NEW d \in Callers, NEW f \in Functions, NEW s \in BOOLEAN, Begin(d, f, s)
      PROVE  fn'[c] = fn[c] /\ n'[c] = n[c] /\ msgId'[c] = msgId[c]
  <2>1. c # d
    BY <1>1 DEF Begin
  <2> QED
    BY <1>0, <1>1, <2>1 DEF Begin, idVars
<1>2. ASSUME NEW d \in Callers, ReloadIndex(d)
      PROVE  fn'[c] = fn[c] /\ n'[c] = n[c] /\ msgId'[c] = msgId[c]
  <2>1. c # d
    BY <1>2 DEF ReloadIndex
  <2> QED
    BY <1>0, <1>2, <2>1 DEF ReloadIndex, callVars
<1>3. CASE /\ ~\E d \in Callers, f \in Functions, s \in BOOLEAN : Begin(d, f, s)
           /\ ~\E d \in Callers : ReloadIndex(d)
  <2>1. UNCHANGED <<fn, n, msgId>>
    BY <1>3 DEF Next, MainStep, InitEntry, Connect, BeginDisconnect, StopConnection,
         ReleaseConnection, Deinit, CallerStep, LoadIndex, StoreIndex, CheckConnection, Fill,
         Send, Sent, AddItem, Wait, WakeEarly, Take, RemoveItem, Dispatch, CloseEvent, ErrorEvent,
         Serve, PeerClose, Finished, vars, callVars, idVars
  <2> QED
    BY <2>1
<1> QED
  BY <1>1, <1>2, <1>3

\* A message that threads wrote at once is none of a call that was alone.
LEMMA RacedBuffer ==
  ASSUME TypeOK, ClientInv, SentOnce, NEW d \in Callers, Fill(d), pc'[d] = "send", Sending(d) # {}
  PROVE  /\ m_sendBuffer'.of \in raced' \cup {NoCall}
         /\ \A e \in Sending(d) \cup {d} : CallOf(e) \in raced'
<1>1. PICK m \in {Request(d)} \cup Blends(d) :
        m_sendBuffer' = m /\ raced' = raced \cup {CallOf(e) : e \in Sending(d) \cup {d}}
  <2>1. pc[d] = "fill" /\ pc \in [Callers -> Pcs]
    BY DEF Fill, TypeOK
  <2> QED
    BY <2>1, InTheBuffer
<1>2. \A e \in Sending(d) \cup {d} : CallOf(e) \in raced'
  BY <1>1
<1>3. m_sendBuffer.of \in raced' \cup {NoCall}
  <2>1. PICK e \in Callers : e \in Sending(d) /\ pc[e] = "send"
    BY DEF Sending
  <2>2. m_sendBuffer.of \in raced \cup {NoCall} \/ m_sendBuffer = Request(e)
    BY <2>1 DEF SentOnce
  <2> QED
    BY <1>1, <1>2, <2>1, <2>2 DEF Request
<1>4. CASE m = Request(d)
  BY <1>1, <1>2, <1>4 DEF Request
<1>5. CASE m \in Blends(d)
  <2>1. m.of \in {CallOf(e) : e \in Sending(d) \cup {d}} \cup {m_sendBuffer.of, NoCall}
    BY <1>5 DEF Blends, Torn, NoRequest
  <2> QED
    BY <1>1, <1>2, <1>3, <2>1
<1> QED
  BY <1>1, <1>2, <1>4, <1>5

\* What SentOnce says of a thread that is about to send.
OwnBuffer(c) ==
  pc[c] = "send" =>
    IF CallOf(c) \in raced THEN m_sendBuffer.of \in raced \cup {NoCall}
    ELSE m_sendBuffer = Request(c) /\ Sending(c) = {}

LEMMA OwnBufferStep ==
  ASSUME TypeOK, ClientInv, SentOnce, [Next]_vars, NEW c \in Callers
  PROVE  OwnBuffer(c)'
<1> SUFFICES ASSUME pc'[c] = "send" PROVE OwnBuffer(c)'
  BY DEF OwnBuffer
<1>0. pc \in [Callers -> Pcs]
  BY DEF TypeOK
<1>1. CASE \E d \in Callers : Fill(d) /\ pc'[d] = "send"
  <2>1. PICK d \in Callers : Fill(d) /\ pc'[d] = "send"
    BY <1>1
  <2>2. /\ \A e \in Callers \ {d} : pc'[e] = pc[e] /\ UNCHANGED <<n, fn, msgId>>
        /\ pc[d] = "fill"
    BY <2>1, OneMoves DEF CallerStep, Fill, callVars, idVars
  <2>3. CASE Sending(d) # {}
    <3>1. c \in Sending(d) \cup {d}
      BY <2>2 DEF Sending
    <3>2. CallOf(c)' = CallOf(c)
      BY <2>2, <3>1, <2>1 DEF Fill, callVars
    <3> QED
      BY <2>1, <2>3, <3>1, <3>2, RacedBuffer DEF OwnBuffer
  <2>4. CASE Sending(d) = {}
    <3>1. c = d
      BY <2>2, <2>4 DEF Sending
    <3>2. UNCHANGED <<n, fn, msgId>> /\ m_sendBuffer' = Request(d) /\ raced' = raced
      <4>1. UNCHANGED <<n, fn, msgId>>
        BY <2>1 DEF Fill, callVars, idVars
      <4>2. m_sendBuffer' = Request(d) /\ raced' = raced
        BY <1>0, <2>1, <2>2, <2>4, InTheBuffer DEF Blends
      <4> QED
        BY <4>1, <4>2
    <3>3. Sending(d)' = {}
      BY <2>2, <2>4 DEF Sending
    <3> QED
      BY <3>1, <3>2, <3>3 DEF OwnBuffer, Request
  <2> QED
    BY <2>3, <2>4
<1>2. CASE ~\E d \in Callers : Fill(d) /\ pc'[d] = "send"
  <2>1. \A e \in Callers : pc'[e] = "send" => pc[e] = "send"
    BY <1>2, ComesFrom
  <2>2. UNCHANGED <<m_sendBuffer, raced>>
    <3>1. ASSUME NEW d \in Callers, Fill(d) PROVE UNCHANGED <<m_sendBuffer, raced>>
      BY <1>0, <1>2, <3>1, InTheBuffer
    <3>2. CASE ~\E d \in Callers : Fill(d)
      BY <3>2 DEF Next, MainStep, InitEntry, Connect, BeginDisconnect, StopConnection,
         ReleaseConnection, Deinit, Begin, CallerStep, LoadIndex, StoreIndex, ReloadIndex,
         CheckConnection, Send, Sent, AddItem, Wait, WakeEarly, Take, RemoveItem, Dispatch,
         CloseEvent, ErrorEvent, Serve, PeerClose, Finished, vars, raceVars
    <3> QED
      BY <3>1, <3>2
  <2>3. fn'[c] = fn[c] /\ n'[c] = n[c] /\ msgId'[c] = msgId[c] /\ pc[c] = "send"
    BY <2>1, CallIsKept
  <2>4. Sending(c)' \subseteq Sending(c)
    BY <2>1 DEF Sending
  <2>5. OwnBuffer(c)
    BY DEF SentOnce, OwnBuffer
  <2> QED
    BY <2>2, <2>3, <2>4, <2>5 DEF OwnBuffer, Request
<1> QED
  BY <1>1, <1>2

\* A thread that is in sendData alone sends its request, as a whole.
LEMMA SendsAlone ==
  ASSUME TypeOK, ClientInv, SentOnce, NEW c \in Callers, Send(c), CallOf(c) \notin raced
  PROVE  \/ UNCHANGED <<requests, torn>>
         \/ /\ requests' = Append(requests, Request(c)) /\ Request(c) \in Requests
            /\ UNCHANGED torn
<1>1. m_sendBuffer = Request(c) /\ Sending(c) = {}
  BY DEF SentOnce, Send
<1>2. Blends(c) = {} /\ Rests(c) = {<<>>}
  BY <1>1 DEF Blends, Rests
<1>3. BlendedIds(Request(c), Request(c)) = {}
  BY DEF BlendedIds
<1>4. requests \in Seq(Requests \cup {Torn})
  BY DEF TypeOK
<1>5. Request(c) \in Requests
  <2>1. Request(c).of # NoCall
    BY DEF Request
  <2> QED
    BY <1>1, <2>1 DEF TypeOK, Torn, NoBuffer, NoRequest
<1>6. \/ UNCHANGED <<requests, torn>>
      \/ requests' = requests \o <<Request(c)>> \o <<>> /\ torn' = torn \cup {}
  BY <1>1, <1>2, <1>3 DEF Send
<1>7. requests \o <<Request(c)>> \o <<>> = Append(requests, Request(c))
  BY <1>4, <1>5
<1> QED
  BY <1>5, <1>6, <1>7

\* A thread that is in sendData with another sends nothing of a call that was alone.
LEMMA SendsTogether ==
  ASSUME TypeOK, ClientInv, SentOnce, NEW c \in Callers, Send(c), CallOf(c) \in raced,
         NEW i \in 1..Len(requests'), requests'[i].of \in Calls \ raced
  PROVE  i \in 1..Len(requests) /\ requests'[i] = requests[i]
<1>1. CASE UNCHANGED requests
  BY <1>1
<1>2. ASSUME NEW m \in {m_sendBuffer} \cup Blends(c)
      PROVE  m.of \in raced \cup {NoCall}
  <2>1. pc[c] = "send" /\ m_sendBuffer.of \in raced \cup {NoCall}
    BY DEF SentOnce, Send
  <2>2. \A d \in Sending(c) \cup {c} : CallOf(d) \in raced
    <3>1. ASSUME NEW d \in Sending(c) PROVE CallOf(d) \in raced
      <4>1. d \in Callers /\ pc[d] = "send" /\ c \in Sending(d)
        BY <2>1 DEF Sending
      <4> QED
        BY <4>1 DEF SentOnce
    <3> QED
      BY <3>1
  <2>3. CASE m = m_sendBuffer
    BY <2>1, <2>3
  <2>4. CASE m \in Blends(c)
    <3>1. m.of \in {CallOf(e) : e \in Sending(c) \cup {c}} \cup {m_sendBuffer.of, NoCall}
      BY <2>4 DEF Blends, Torn, NoRequest
    <3> QED
      BY <2>1, <2>2, <3>1
  <2> QED
    BY <2>3, <2>4
<1>3. Torn.of = NoCall /\ NoCall \notin Calls
  BY DEF Torn, NoRequest
<1>4. CASE \E m \in {m_sendBuffer} \cup Blends(c) :
             (i \in 1..Len(requests) /\ requests'[i] = requests[i]) \/ requests'[i] \in {m, Torn}
  BY <1>2, <1>3, <1>4
<1> QED
  BY <1>1, <1>4, OnTheWire

LEMMA OnItsWayStays ==
  ASSUME TypeOK, ClientInv, [Next]_vars,
         NEW r, r.of \in Calls, OnItsWay(r), executed'[r.of] = executed[r.of]
  PROVE  OnItsWay(r)'
BY PastStays, IdStays DEF OnItsWay

Alone(r) == r.of \in Calls \ raced

\* What Serve does with the request at the head.
LEMMA ServeRuns ==
  ASSUME TypeOK, ClientInv, SentOnce, Serve
  PROVE  /\ requests # <<>> /\ requests' = Tail(requests) /\ UNCHANGED <<raced, torn>>
         /\ Head(requests) = requests[1] /\ 1 \in 1..Len(requests)
         /\ Alone(Head(requests)) => OnItsWay(Head(requests))
         /\ \/ UNCHANGED executed
            \/ /\ Head(requests).of \in Calls
               /\ executed' = [executed EXCEPT ![Head(requests).of] = IF @ < 2 THEN @ + 1 ELSE @]
         /\ \/ UNCHANGED replies
            \/ /\ Head(requests) \in Requests /\ replies' = replies \o Answer(Head(requests))
               /\ \/ Head(requests).fn = "unknown" \/ Head(requests).of = NoCall
                  \/ executed' = [executed EXCEPT ![Head(requests).of] = IF @ < 2 THEN @ + 1 ELSE @]
<1>1. /\ requests # <<>> /\ requests' = Tail(requests) /\ UNCHANGED <<raced, torn>>
      /\ requests \in Seq(Requests \cup {Torn})
  BY DEF Serve, TypeOK, raceVars
<1>2. 1 \in 1..Len(requests) /\ Head(requests) = requests[1]
      /\ Head(requests) \in Requests \cup {Torn}
  BY <1>1, HeadAndTail
<1>3. Alone(Head(requests)) => OnItsWay(Head(requests))
  BY <1>2 DEF SentOnce, Alone
<1>4. CASE garbled \/ Head(requests) = Torn
  BY <1>1, <1>2, <1>3, <1>4 DEF Serve
<1>5. CASE ~(garbled \/ Head(requests) = Torn)
  <2>1. UNCHANGED replies \/ replies' = replies \o Answer(Head(requests))
    BY <1>5 DEF Serve
  <2>2. executed' = IF Head(requests).fn = "unknown" \/ Head(requests).of = NoCall THEN executed
                    ELSE [executed EXCEPT ![Head(requests).of] = IF @ < 2 THEN @ + 1 ELSE @]
    BY <1>5 DEF Serve
  <2>3. Head(requests) \in Requests /\ Head(requests).of \in Calls \cup {NoCall}
    BY <1>2, <1>5, RequestFields
  <2> QED
    BY <1>1, <1>2, <1>3, <2>1, <2>2, <2>3
<1> QED
  BY <1>4, <1>5

LEMMA RequestsStep ==
  ASSUME TypeOK, ClientInv, SentOnce, [Next]_vars
  PROVE  /\ \A i \in 1..Len(requests') : Alone(requests[i])' => OnItsWay(requests[i])'
         /\ \A i, j \in 1..Len(requests') :
              Alone(requests[i])' /\ requests'[i].of = requests'[j].of => i = j
<1>0. /\ \A i \in 1..Len(requests) : Alone(requests[i]) => OnItsWay(requests[i])
      /\ \A i, j \in 1..Len(requests) :
           Alone(requests[i]) /\ requests[i].of = requests[j].of => i = j
  BY DEF SentOnce, Alone
<1>a. /\ requests \in Seq(Requests \cup {Torn})
      /\ executed \in [Calls -> 0..2]
  BY DEF TypeOK
<1>b. \A r : r.of \in Calls /\ OnItsWay(r) /\ executed'[r.of] = executed[r.of] => OnItsWay(r)'
  BY OnItsWayStays
<1>c. raced \subseteq raced'
  BY RacesStay
<1>1. CASE Serve
  <2>1. /\ Head(requests) = requests[1] /\ 1 \in 1..Len(requests) /\ raced' = raced
        /\ \/ UNCHANGED executed
           \/ executed' = [executed EXCEPT ![Head(requests).of] = IF @ < 2 THEN @ + 1 ELSE @]
    BY <1>1, ServeRuns
  <2>2. \A i \in 1..Len(requests') :
             i + 1 \in 1..Len(requests) /\ requests'[i] = requests[i + 1]
    BY <1>1, <1>a, ServeRuns, HeadAndTail
  <2>3. ASSUME NEW i \in 1..Len(requests'), NEW r, r = requests'[i], r.of \in Calls \ raced
        PROVE  OnItsWay(r)'
    <3>1. r = requests[i + 1] /\ i + 1 \in 1..Len(requests)
      BY <2>2, <2>3
    <3>2. OnItsWay(r) /\ r.of # Head(requests).of
      BY <1>0, <2>1, <2>3, <3>1 DEF Alone
    <3>3. executed'[r.of] = executed[r.of]
      BY <1>a, <2>1, <2>3, <3>2
    <3> QED
      BY <1>b, <2>3, <3>2, <3>3
  <2>4. ASSUME NEW i \in 1..Len(requests'), NEW j \in 1..Len(requests'),
               requests'[i].of \in Calls \ raced, requests'[i].of = requests'[j].of
        PROVE  i = j
    <3>1. requests[i + 1].of \in Calls \ raced /\ requests[i + 1].of = requests[j + 1].of
      BY <2>2, <2>4
    <3>2. i + 1 = j + 1
      BY <1>0, <2>2, <3>1 DEF Alone
    <3> QED
      BY <3>2
  <2> QED
    BY <2>1, <2>3, <2>4 DEF Alone, OnItsWay
<1>2. ASSUME NEW c \in Callers, Send(c)
      PROVE  /\ \A i \in 1..Len(requests') : Alone(requests[i])' => OnItsWay(requests[i])'
             /\ \A i, j \in 1..Len(requests') :
                  Alone(requests[i])' /\ requests'[i].of = requests'[j].of => i = j
  <2>1. UNCHANGED <<executed, raced, n, idOf>> /\ pc[c] = "send"
    BY <1>2 DEF Send, callVars, idVars
  <2>2. ASSUME NEW i \in 1..Len(requests'), NEW r, r = requests'[i], r.of \in Calls \ raced,
               i \in 1..Len(requests), requests'[i] = requests[i]
        PROVE  OnItsWay(r)'
    BY <1>0, <1>b, <2>1, <2>2 DEF Alone
  <2>3. CASE CallOf(c) \in raced
    <3>1. \A i \in 1..Len(requests') : requests'[i].of \in Calls \ raced =>
            i \in 1..Len(requests) /\ requests'[i] = requests[i]
      BY <1>2, <2>3, SendsTogether
    <3>2. \A i \in 1..Len(requests') : Alone(requests[i])' => OnItsWay(requests[i])'
      BY <2>1, <2>2, <3>1 DEF Alone, OnItsWay
    <3>3. \A i, j \in 1..Len(requests') :
            Alone(requests[i])' /\ requests'[i].of = requests'[j].of => i = j
      BY <1>0, <2>1, <3>1 DEF Alone
    <3> QED
      BY <3>2, <3>3
  <2>4. CASE CallOf(c) \notin raced /\ UNCHANGED requests
    BY <1>0, <2>1, <2>2, <2>4 DEF Alone, OnItsWay
  <2>5. CASE CallOf(c) \notin raced /\ ~UNCHANGED requests
    <3>1. requests' = Append(requests, Request(c)) /\ Request(c) \in Requests
      BY <1>2, <2>5, SendsAlone
    <3>2. /\ Request(c).of = CallOf(c) /\ CallOf(c) \in Calls /\ idOf[CallOf(c)] # 0
          /\ n[c] \in Nat
      BY <2>1, ClientAssumption DEF Request, TypeOK, ClientInv, IdsAreKnown
    <3>3. pc'[c] \in {"add", "idle"}
      <4>1. pc' \in {[pc EXCEPT ![c] = "add"], [pc EXCEPT ![c] = "idle"]}
        BY <1>2, <2>5 DEF Send, Sent, Goto, Return
      <4> QED
        BY <4>1 DEF TypeOK
    <3>4. ~Past(CallOf(c)) /\ Past(CallOf(c))'
      BY <2>1, <3>2, <3>3 DEF Past
    <3>5. executed[CallOf(c)] = 0
      BY <2>5, <3>2, <3>4 DEF SentOnce
    <3>6. \A r : r = Request(c) => OnItsWay(r)'
      BY <2>1, <3>2, <3>4, <3>5 DEF OnItsWay
    <3>7. /\ Len(requests') = Len(requests) + 1 /\ Len(requests) \in Nat
          /\ \A i \in 1..Len(requests') :
               \/ i \in 1..Len(requests) /\ requests'[i] = requests[i]
               \/ i = Len(requests) + 1 /\ requests'[i] = Request(c)
      BY <1>a, <3>1
    <3>8. \A i \in 1..Len(requests) : requests[i].of # CallOf(c)
      BY <1>0, <2>5, <3>2, <3>4 DEF OnItsWay, Alone
    <3>9. \A i \in 1..Len(requests') : Alone(requests[i])' => OnItsWay(requests[i])'
      BY <2>1, <2>2, <3>6, <3>7 DEF Alone, OnItsWay
    <3>10. \A i, j \in 1..Len(requests') :
             Alone(requests[i])' /\ requests'[i].of = requests'[j].of => i = j
      BY <1>0, <2>1, <3>2, <3>7, <3>8 DEF Alone
    <3> QED
      BY <3>9, <3>10
  <2> QED
    BY <2>3, <2>4, <2>5
<1>3. CASE ~(Serve \/ \E c \in Callers : Send(c))
  <2>1. /\ UNCHANGED executed
        /\ UNCHANGED requests \/ requests' = <<>>
    BY <1>3 DEF Next, MainStep, InitEntry, Connect, BeginDisconnect, StopConnection,
           ReleaseConnection, Deinit, Begin, CallerStep, LoadIndex, StoreIndex, ReloadIndex,
           CheckConnection, Fill, AddItem, Wait, WakeEarly, Take, RemoveItem, Dispatch,
           CloseEvent, ErrorEvent, PeerClose, Finished, vars, netVars
  <2>2. CASE UNCHANGED requests
    <3>1. ASSUME NEW i \in 1..Len(requests'), NEW r, r = requests'[i], r.of \in Calls \ raced'
          PROVE  OnItsWay(r)'
      BY <1>0, <1>b, <1>c, <2>1, <2>2, <3>1 DEF Alone
    <3>2. \A i, j \in 1..Len(requests') :
            Alone(requests[i])' /\ requests'[i].of = requests'[j].of => i = j
      BY <1>0, <1>c, <2>2 DEF Alone
    <3> QED
      BY <3>1, <3>2 DEF Alone, OnItsWay
  <2>3. CASE requests' = <<>>
    BY <2>3
  <2> QED
    BY <2>1, <2>2, <2>3
<1> QED
  BY <1>1, <1>2, <1>3

LEMMA ExecutedStep ==
  ASSUME TypeOK, ClientInv, SentOnce, [Next]_vars
  PROVE  \A x \in Calls \ raced' : executed'[x] # 0 => executed'[x] = 1 /\ Past(x)' /\ idOf'[x] # 0
<1>0. /\ executed \in [Calls -> 0..2]
      /\ \A x \in Calls \ raced : executed[x] # 0 => executed[x] = 1 /\ Past(x) /\ idOf[x] # 0
      /\ raced \subseteq raced'
  BY RacesStay DEF TypeOK, SentOnce
<1>1. /\ \A x \in Calls : Past(x) => Past(x)'
      /\ \A x \in Calls : idOf[x] # 0 => idOf'[x] # 0
  BY PastStays, IdStays
<1>2. CASE Serve
  <2> DEFINE of == Head(requests).of
  <2>1. of \in Calls \ raced => Past(of) /\ executed[of] = 0 /\ idOf[of] # 0
    BY <1>2, ServeRuns DEF OnItsWay, Alone
  <2>2. \/ executed' = [executed EXCEPT ![of] = IF @ < 2 THEN @ + 1 ELSE @]
        \/ UNCHANGED executed
    BY <1>2, ServeRuns
  <2> HIDE DEF of
  <2>3. ASSUME NEW x \in Calls \ raced', x # of PROVE executed'[x] = executed[x]
    BY <1>0, <2>2, <2>3
  <2>4. of \in Calls \ raced => executed'[of] \in {0, 1}
    BY <1>0, <2>1, <2>2
  <2>5. ASSUME NEW x \in Calls \ raced', executed'[x] # 0
        PROVE  executed'[x] = 1 /\ Past(x)' /\ idOf'[x] # 0
    <3>1. CASE x = of
      BY <1>0, <1>1, <2>1, <2>4, <2>5, <3>1
    <3>2. CASE x # of
      BY <1>0, <1>1, <2>3, <2>5, <3>2
    <3> QED
      BY <3>1, <3>2
  <2> QED
    BY <2>5
<1>3. CASE ~Serve
  <2>1. UNCHANGED executed
    BY <1>3 DEF Next, MainStep, InitEntry, Connect, BeginDisconnect, StopConnection,
           ReleaseConnection, Deinit, Begin, CallerStep, LoadIndex, StoreIndex, ReloadIndex,
           CheckConnection, Fill, Send, Sent, AddItem, Wait, WakeEarly, Take, RemoveItem, Dispatch,
           CloseEvent, ErrorEvent, PeerClose, Finished, vars, netVars
  <2> QED
    BY <1>0, <1>1, <2>1
<1> QED
  BY <1>2, <1>3

LEMMA SentOnceStep ==
  ASSUME TypeOK, ClientInv, SentOnce, [Next]_vars
  PROVE  SentOnce'
BY OwnBufferStep, RequestsStep, ExecutedStep DEF SentOnce, OwnBuffer, Alone

\* Of every call whose thread was in sendData alone, one request is sent at most,
\* and it is executed at most once.
THEOREM OnceInvariant == Spec => [](TypeOK /\ ClientInv /\ SentOnce)
<1>1. Init => SentOnce
  BY DEF Init, SentOnce
<1>2. TypeOK /\ ClientInv /\ SentOnce /\ [Next]_vars => SentOnce'
  BY SentOnceStep
<1> QED
  BY <1>1, <1>2, ClientInvariant, PTL DEF Spec

\* However many threads call at once, whatever ids they get and however the
\* connection ends: no call is executed twice, or before it has its id, unless its
\* thread was in sendData together with another.
THEOREM CallsRunOnce == Spec => []ExecutedOnce
<1>1. TypeOK /\ SentOnce => ExecutedOnce
  <2> SUFFICES ASSUME TypeOK, SentOnce, NEW x \in Calls \ raced
               PROVE  executed[x] <= (IF idOf[x] # 0 THEN 1 ELSE 0)
    BY DEF ExecutedOnce
  <2>1. executed[x] \in 0..2
    BY DEF TypeOK
  <2>2. executed[x] # 0 => executed[x] = 1 /\ idOf[x] # 0
    BY DEF SentOnce
  <2> QED
    BY <2>1, <2>2
<1> QED
  BY <1>1, OnceInvariant, PTL

-----------------------------------------------------------------------------
(* NoRaces *)

LEMMA NoRacesStep ==
  ASSUME TypeOK, ClientInv, SentOnce, NoRaces, Guarded, Guarded', [Next]_vars
  PROVE  NoRaces'
<1>0. /\ requests \in Seq(Requests \cup {Torn}) /\ pc \in [Callers -> Pcs]
      /\ raced = {} /\ torn = {} /\ \A i \in 1..Len(requests) : requests[i].of \in Calls
  BY DEF TypeOK, NoRaces
<1>1. ASSUME NEW c \in Callers, Fill(c) PROVE NoRaces'
  <2>1. UNCHANGED requests
    BY <1>1 DEF Fill, netVars
  <2>2. CASE UNCHANGED <<raced, torn>>
    BY <2>1, <2>2 DEF NoRaces
  <2>3. CASE ~UNCHANGED <<raced, torn>>
    <3>1. PICK m \in {Request(c)} \cup Blends(c) :
            /\ torn' = torn \cup BlendedIds(m, Request(c))
            /\ pc' = [pc EXCEPT ![c] = "send"]
            /\ raced' = IF Sending(c) = {} THEN raced
                        ELSE raced \cup {CallOf(d) : d \in Sending(c) \cup {c}}
      BY <1>1, <2>3, InTheBuffer
    <3>2. Sending(c) = {}
      BY <1>0, <3>1 DEF Guarded, Sending
    <3> QED
      BY <2>3, <3>1, <3>2 DEF Blends, BlendedIds
  <2> QED
    BY <2>2, <2>3
<1>2. ASSUME NEW c \in Callers, Send(c) PROVE NoRaces'
  <2>1. /\ UNCHANGED raced /\ UNCHANGED torn
        /\ UNCHANGED requests
           \/ (requests' = Append(requests, Request(c)) /\ Request(c) \in Requests)
    BY <1>0, <1>2, SendsAlone DEF Send
  <2>2. Request(c).of = CallOf(c) /\ CallOf(c) \in Calls
    BY <1>2 DEF Send, Request, TypeOK, ClientInv, IdsAreKnown
  <2>3. ASSUME NEW i \in 1..Len(requests') PROVE requests'[i].of \in Calls
    <3>1. CASE UNCHANGED requests
      BY <1>0, <3>1
    <3>2. CASE requests' = Append(requests, Request(c)) /\ Request(c) \in Requests
      <4>1. (i \in 1..Len(requests) /\ requests'[i] = requests[i]) \/ requests'[i] = Request(c)
        BY <1>0, <3>2, Appending
      <4> QED
        BY <1>0, <2>2, <4>1
    <3> QED
      BY <2>1, <3>1, <3>2
  <2> QED
    BY <1>0, <2>1, <2>3 DEF NoRaces
<1>3. CASE ~\E c \in Callers : Fill(c) \/ Send(c)
  <2>1. /\ UNCHANGED <<raced, torn>>
        /\ \/ UNCHANGED requests
           \/ requests' = <<>>
           \/ requests # <<>> /\ requests' = Tail(requests)
    BY <1>3 DEF Next, MainStep, InitEntry, Connect, BeginDisconnect, StopConnection,
           ReleaseConnection, Deinit, Begin, CallerStep, LoadIndex, StoreIndex, ReloadIndex,
           CheckConnection, AddItem, Wait, WakeEarly, Take, RemoveItem, Dispatch, CloseEvent,
           ErrorEvent, Serve, PeerClose, Finished, vars, netVars, raceVars
  <2>2. ASSUME NEW i \in 1..Len(requests') PROVE requests'[i].of \in Calls
    <3>1. CASE UNCHANGED requests
      BY <1>0, <3>1
    <3>2. CASE requests' = <<>>
      BY <3>2
    <3>3. CASE requests # <<>> /\ requests' = Tail(requests)
      <4>1. i + 1 \in 1..Len(requests) /\ requests'[i] = requests[i + 1]
        BY <1>0, <3>3, HeadAndTail
      <4> QED
        BY <1>0, <4>1
    <3> QED
      BY <2>1, <3>1, <3>2, <3>3
  <2> QED
    BY <1>0, <2>1, <2>2 DEF NoRaces
<1> QED
  BY <1>1, <1>2, <1>3

\* Without races, what is served is a request of a call, executed now and never
\* before.
LEMMA ServeRunsOnce ==
  ASSUME TypeOK, ClientInv, SentOnce, NoRaces, Serve
  PROVE  /\ OnItsWay(Head(requests)) /\ Head(requests).of \in Calls
         /\ UNCHANGED executed \/ executed' = [executed EXCEPT ![Head(requests).of] = 1]
         /\ \/ UNCHANGED replies
            \/ /\ Head(requests) \in Requests /\ replies' = replies \o Answer(Head(requests))
               /\ \/ Head(requests).fn = "unknown"
                  \/ executed' = [executed EXCEPT ![Head(requests).of] = 1]
<1> DEFINE of == Head(requests).of
<1>0. /\ Head(requests) = requests[1] /\ 1 \in 1..Len(requests)
      /\ Alone(Head(requests)) => OnItsWay(Head(requests))
  BY ServeRuns
<1>a. of \in Calls /\ raced = {}
  BY <1>0 DEF NoRaces
<1>b. \A x \in Calls : x # NoCall
  OBVIOUS
<1>1. of \in Calls /\ OnItsWay(Head(requests)) /\ of # NoCall
  <2>1. Alone(Head(requests))
    BY <1>a DEF Alone
  <2> QED
    BY <1>0, <1>a, <1>b, <2>1
<1>2. executed \in [Calls -> 0..2] /\ executed[of] = 0
  BY <1>1 DEF TypeOK, OnItsWay
<1> HIDE DEF of
<1>3. [executed EXCEPT ![of] = IF @ < 2 THEN @ + 1 ELSE @] = [executed EXCEPT ![of] = 1]
  BY <1>1, <1>2
<1> QED
  BY <1>1, <1>3, ServeRuns DEF of

-----------------------------------------------------------------------------
(* ResultsRan *)

LEMMA AnswerOfValue ==
  ASSUME NEW r \in Requests, NEW i \in 1..Len(Answer(r)), Answer(r)[i].msg.kind = "result"
  PROVE  Answer(r)[i].msg.of = r.of /\ r.fn = "value"
<1>1. Answer(r)[i].msg.of = r.of
  BY AnswerType
<1>2. r.fn \in {"value", "void", "unknown"}
  BY RequestFields, ClientAssumption
<1>3. CASE r.fn = "unknown"
  BY <1>3 DEF Answer, Plain
<1>4. CASE r.fn = "void"
  BY <1>4 DEF Answer
<1> QED
  BY <1>1, <1>2, <1>3, <1>4

LEMMA ResultsRanStep ==
  ASSUME TypeOK, ClientInv, SentOnce, SerialInv, [Next]_vars
  PROVE  ResultsRan'
<1> DEFINE Ran(v)  == v.kind = "result" => v.of \in Calls /\ executed[v.of] = 1
           Ran1(v) == v.kind = "result" => v.of \in Calls /\ executed'[v.of] = 1
<1>0. /\ \A i \in 1..Len(replies) : Ran(replies[i].msg)
      /\ \A i \in MsgIds : Ran(m_waitingItems[i])
  BY StemsByPart DEF SerialInv, NoRaces, ResultsRan, ClientInv, ReplyStems, ItemStems, StemsFrom
<1>a. /\ replies \in Seq(Replies)
      /\ m_waitingItems \in [MsgIds -> Values]
  BY DEF TypeOK
<1>b. \A v : Ran(v) => Ran1(v)
  <2>1. \A x \in Calls : executed[x] = 1 => executed'[x] = 1
    <3>1. CASE Serve
      <4> DEFINE of == Head(requests).of
      <4>1. /\ UNCHANGED executed \/ executed' = [executed EXCEPT ![of] = 1]
            /\ executed \in [Calls -> 0..2]
        BY <3>1, ServeRunsOnce DEF SerialInv, TypeOK
      <4> HIDE DEF of
      <4> QED
        BY <4>1
    <3>2. CASE ~Serve
      BY <3>2 DEF Next, MainStep, InitEntry, Connect, BeginDisconnect, StopConnection,
           ReleaseConnection, Deinit, Begin, CallerStep, LoadIndex, StoreIndex, ReloadIndex,
           CheckConnection, Fill, Send, Sent, AddItem, Wait, WakeEarly, Take, RemoveItem, Dispatch,
           CloseEvent, ErrorEvent, PeerClose, Finished, vars, netVars
    <3> QED
      BY <3>1, <3>2
  <2> QED
    BY <2>1
<1>1. \A i \in 1..Len(replies') : Ran1(replies'[i].msg)
  <2>1. CASE Serve /\ ~UNCHANGED replies
    <3> DEFINE r == Head(requests)
    <3>1. /\ r \in Requests /\ replies' = replies \o Answer(r)
          /\ r.fn = "value" => r.of \in Calls /\ executed'[r.of] = 1
      <4>1. r.of \in Calls /\ executed \in [Calls -> 0..2]
        BY <2>1, ServeRunsOnce DEF SerialInv, TypeOK
      <4>2. /\ r \in Requests /\ replies' = replies \o Answer(r)
            /\ r.fn = "unknown" \/ executed' = [executed EXCEPT ![r.of] = 1]
        BY <2>1, ServeRunsOnce DEF SerialInv
      <4> HIDE DEF r
      <4> QED
        BY <4>1, <4>2
    <3>2. \A j \in 1..Len(Answer(r)) : Ran1(Answer(r)[j].msg)
      <4> HIDE DEF r
      <4> QED
        BY <3>1, AnswerOfValue
    <3>3. Answer(r) \in Seq(Replies)
      BY <3>1, AnswerType
    <3> HIDE DEF r, Ran, Ran1
    <3> QED
      BY <1>0, <1>a, <1>b, <3>1, <3>2, <3>3, Concatenating
  <2>2. CASE ~(Serve /\ ~UNCHANGED replies)
    <3>1. \/ UNCHANGED replies
          \/ replies # <<>> /\ replies' = Tail(replies)
          \/ \E k \in 0..1 : k <= Len(replies) /\ replies' = SubSeq(replies, 1, k)
      BY <2>2 DEF Next, MainStep, InitEntry, Connect, BeginDisconnect, StopConnection,
         ReleaseConnection, Deinit, Begin, CallerStep,
             LoadIndex, StoreIndex, ReloadIndex, CheckConnection, Fill, Send, Sent, AddItem, Wait,
             WakeEarly, Take, RemoveItem, Dispatch, CloseEvent, ErrorEvent, PeerClose, Finished, vars, netVars
    <3>2. ASSUME NEW i \in 1..Len(replies')
          PROVE  \E j \in 1..Len(replies) : replies'[i] = replies[j]
      <4>1. CASE UNCHANGED replies
        BY <4>1
      <4>2. CASE replies # <<>> /\ replies' = Tail(replies)
        BY <1>a, <4>2, HeadAndTail
      <4>3. CASE \E k \in 0..1 : k <= Len(replies) /\ replies' = SubSeq(replies, 1, k)
        BY <1>a, <4>3, Cutting
      <4> QED
        BY <3>1, <4>1, <4>2, <4>3
    <3>3. ASSUME NEW i \in 1..Len(replies') PROVE Ran1(replies'[i].msg)
      <4>1. PICK j \in 1..Len(replies) : replies'[i] = replies[j]
        BY <3>2
      <4>2. Ran(replies[j].msg)
        BY <1>0
      <4> HIDE DEF Ran, Ran1
      <4> QED
        BY <1>b, <4>1, <4>2
    <3> QED
      BY <3>3
  <2> QED
    BY <2>1, <2>2
<1>2. \A i \in MsgIds : Ran1(m_waitingItems'[i])
  <2>1. \/ UNCHANGED m_waitingItems
        \/ m_waitingItems' = [i \in MsgIds |-> Absent]
        \/ \E d \in Callers : \/ m_waitingItems' = [m_waitingItems EXCEPT ![msgId[d]] = Empty]
                              \/ m_waitingItems' = [m_waitingItems EXCEPT ![msgId[d]] = Absent]
        \/ /\ replies # <<>>
           /\ m_waitingItems' = [m_waitingItems EXCEPT ![Head(replies).id] = Head(replies).msg]
    BY DEF Next, MainStep, InitEntry, Connect, BeginDisconnect, StopConnection,
         ReleaseConnection, Deinit, Begin, CallerStep,
           LoadIndex, StoreIndex, ReloadIndex, CheckConnection, Fill, Send, Sent, AddItem, Wait,
           WakeEarly, Take, RemoveItem, Dispatch, CloseEvent, ErrorEvent, Serve, PeerClose, Finished, vars
  <2>2. Ran1(Absent) /\ Ran1(Empty)
    BY ValueFields DEF Absent, Empty
  <2>3. replies # <<>> => Ran1(Head(replies).msg)
    BY <1>0, <1>a, <1>b, HeadAndTail
  <2> HIDE DEF Ran, Ran1
  <2> QED
    BY <1>0, <1>a, <1>b, <2>1, <2>2, <2>3
<1> QED
  BY <1>1, <1>2 DEF ResultsRan

-----------------------------------------------------------------------------
(* The invariant *)

LEMMA SerialInit ==
  ASSUME Init
  PROVE  SerialInv
<1>1. IdsDiffer
  BY ClientAssumption DEF Init, IdsDiffer
<1>2. NoRaces
  BY DEF Init, NoRaces
<1>3. ResultsRan
  BY ValueFields DEF Init, ResultsRan, Absent
<1> QED
  BY <1>1, <1>2, <1>3 DEF SerialInv

LEMMA SerialStep ==
  ASSUME TypeOK, ClientInv, SentOnce, SerialInv, Guarded, Guarded', [Next]_vars
  PROVE  SerialInv'
BY IdsDifferStep, NoRacesStep, ResultsRanStep DEF SerialInv

\* As long as no two threads take an id or send at once, no id is used twice, no
\* messages are blended, and what is answered was executed.
THEOREM GuardedInvariant == Spec /\ []Guarded => [](TypeOK /\ ClientInv /\ SentOnce /\ SerialInv)
<1>1. Init => SerialInv
  BY SerialInit
<1>2. TypeOK /\ ClientInv /\ SentOnce /\ SerialInv /\ Guarded /\ Guarded' /\ [Next]_vars => SerialInv'
  BY SerialStep
<1> QED
  BY <1>1, <1>2, OnceInvariant, PTL DEF Spec

SoleCaller == \E c : Callers = {c}

LEMMA SoleIsGuarded == SoleCaller => (Spec => []Guarded)
<1>1. SoleCaller => Guarded
  BY DEF SoleCaller, Guarded
<1> SUFFICES ASSUME SoleCaller PROVE Spec => []Guarded
  OBVIOUS
<1>2. Guarded
  BY <1>1
<1> QED
  BY <1>2, PTL

-----------------------------------------------------------------------------
(* The refinement *)

LEMMA RefinesInit == Init => Call!Init
BY DEF Init, Call!Init, Call!Calls, Busy, InCall

\* A call that returns, ends.
LEMMA RefinesReturn ==
  ASSUME NEW c \in Callers, InCall(c), UNCHANGED <<n, executed>>,
         ~InCall(c)', \A d \in Callers \ {c} : pc'[d] = pc[d], NEW r, ret' = [ret EXCEPT ![c] = r],
         r \in Ends \/ (r = Result(CallOf(c)) /\ executed[CallOf(c)] = 1)
  PROVE  Call!End(c)
BY DEF Call!End, Busy, InCall

LEMMA RefinesBegin ==
  ASSUME NEW c \in Callers, TypeOK,
         NEW f \in Functions, NEW s \in BOOLEAN, Begin(c, f, s)
  PROVE  Call!Begin(c) \/ Call!Refuse(c)
<1>1. /\ pc[c] = "idle" /\ n[c] < MaxCalls
      /\ n' = [n EXCEPT ![c] = @ + 1]
      /\ UNCHANGED executed
      /\ pc \in [Callers -> Pcs]
  BY DEF Begin, netVars, TypeOK
<1>2. CASE inited
  <2>1. pc' = [pc EXCEPT ![c] = "load"] /\ UNCHANGED ret
    BY <1>2 DEF Begin, Goto
  <2> QED
    BY <1>1, <2>1 DEF Call!Begin, Busy, InCall
<1>3. CASE ~inited
  <2>1. pc' = [pc EXCEPT ![c] = "idle"] /\ ret' = [ret EXCEPT ![c] = Plain("failed")]
    BY <1>3 DEF Begin, Return
  <2> QED
    BY <1>1, <2>1 DEF Call!Refuse, Busy, InCall, Ends
<1> QED
  BY <1>2, <1>3

\* The result of a call was produced by an execution of that call.
LEMMA RefinesTake ==
  ASSUME NEW c \in Callers, TypeOK, ClientInv, SentOnce, SerialInv, Take(c)
  PROVE  Call!End(c)
<1> DEFINE item == m_waitingItems[msgId[c]]
<1>1. /\ pc[c] = "woken" /\ pc' = [pc EXCEPT ![c] = "remove"]
      /\ ret' = [ret EXCEPT ![c] = IF item.kind = "result" THEN item ELSE Plain("default")]
      /\ UNCHANGED <<n, executed>>
  BY DEF Take, callVars, netVars
<1>2. /\ InCall(c) /\ ~InCall(c)'
      /\ \A d \in Callers \ {c} : pc'[d] = pc[d]
  BY <1>1 DEF InCall, TypeOK
<1>3. CASE item.kind = "result"
  <2>1. /\ msgId[c] \in MsgIds /\ idOf[CallOf(c)] = msgId[c] /\ CallOf(c) \in Calls
    BY <1>1, HolderHasId DEF ClientInv, IdsAreKnown, InWait, TypeOK
  <2>2. item = Result(item.of) /\ item.of \in Calls /\ idOf[item.of] = msgId[c]
    BY <1>3, <2>1, ValueFields DEF TypeOK, ClientInv, MessagesStem, StemsFrom, SerialInv, NoRaces
  <2>3. item.of = CallOf(c)
    BY <2>1, <2>2 DEF SerialInv, IdsDiffer
  <2>4. executed[item.of] = 1
    BY <1>3, <2>1 DEF SerialInv, ResultsRan
  <2> QED
    BY <1>1, <1>2, <1>3, <2>2, <2>3, <2>4, RefinesReturn
<1>4. CASE item.kind # "result"
  BY <1>1, <1>2, <1>4, RefinesReturn DEF Ends
<1> QED
  BY <1>3, <1>4

LEMMA RefinesThread ==
  ASSUME NEW c \in Callers, TypeOK, ClientInv, SerialInv,
         CallerStep(c) \/ WakeEarly(c), ~Take(c)
  PROVE  Call!End(c) \/ UNCHANGED Call!vars
<1>1. UNCHANGED <<n, executed>> /\ pc \in [Callers -> Pcs]
  BY DEF CallerStep, LoadIndex, StoreIndex, ReloadIndex, CheckConnection, Fill, Send, Sent, AddItem,
         Wait, WakeEarly, RemoveItem, callVars, netVars, TypeOK
<1>2. \/ /\ InCall(c) /\ pc' = [pc EXCEPT ![c] = "idle"]
         /\ \E k \in {"sent", "failed"} : ret' = [ret EXCEPT ![c] = Plain(k)]
      \/ /\ InCall(c)' <=> InCall(c)
         /\ UNCHANGED ret
  BY <1>1 DEF CallerStep, LoadIndex, StoreIndex, ReloadIndex, CheckConnection, Fill, Send, Sent, AddItem,
         Wait, WakeEarly, RemoveItem, Goto, Return, InCall
<1>3. CASE /\ InCall(c) /\ pc' = [pc EXCEPT ![c] = "idle"]
           /\ \E k \in {"sent", "failed"} : ret' = [ret EXCEPT ![c] = Plain(k)]
  <2>1. ~InCall(c)'
    BY <1>1, <1>3 DEF InCall
  <2> QED
    BY <1>1, <1>3, <2>1, RefinesReturn DEF Ends
<1>4. CASE (InCall(c)' <=> InCall(c)) /\ UNCHANGED ret
  <2>1. \A d \in Callers \ {c} : pc'[d] = pc[d]
    BY OneMoves
  <2>2. UNCHANGED Busy
    BY <1>4, <2>1 DEF Busy, InCall
  <2> QED
    BY <1>1, <1>4, <2>2 DEF Call!vars
<1> QED
  BY <1>2, <1>3, <1>4

LEMMA RefinesServe ==
  ASSUME TypeOK, ClientInv, SentOnce, SerialInv, Serve
  PROVE  (\E x \in Calls : Call!Execute(x)) \/ UNCHANGED Call!vars
<1>1. UNCHANGED <<n, pc, ret>>
  BY DEF Serve, callVars
<1>2. UNCHANGED Busy
  BY <1>1 DEF Busy, InCall
<1> DEFINE x == Head(requests).of
<1>3. OnItsWay(Head(requests)) /\ x \in Calls
  BY ServeRunsOnce DEF SerialInv
<1>4. x[2] <= n[x[1]] /\ executed[x] = 0
  BY <1>3, ClientAssumption DEF OnItsWay, Past, TypeOK
<1>5. executed' = [executed EXCEPT ![x] = 1] \/ UNCHANGED executed
  BY ServeRunsOnce DEF SerialInv
<1> HIDE DEF x
<1> QED
  BY <1>1, <1>2, <1>3, <1>4, <1>5 DEF Call!Execute, Call!vars

LEMMA RefinesStep ==
  ASSUME TypeOK, ClientInv, SentOnce, SerialInv, [Next]_vars
  PROVE  [Call!Next]_(Call!vars)
<1>1. ASSUME NEW c \in Callers, Take(c) PROVE Call!Next
  BY <1>1, RefinesTake DEF Call!Next
<1>2. ASSUME NEW c \in Callers, (CallerStep(c) \/ WakeEarly(c)) /\ ~Take(c)
      PROVE  [Call!Next]_(Call!vars)
  BY <1>2, RefinesThread DEF Call!Next
<1>3. ASSUME NEW c \in Callers, NEW f \in Functions, NEW s \in BOOLEAN, Begin(c, f, s)
      PROVE  Call!Next
  BY <1>3, RefinesBegin DEF Call!Next
<1>4. CASE Serve
  BY <1>4, RefinesServe DEF Call!Next, Call!Calls
<1>5. CASE /\ ~\E c \in Callers : CallerStep(c) \/ WakeEarly(c)
           /\ ~\E c \in Callers, f \in Functions, s \in BOOLEAN : Begin(c, f, s)
           /\ ~Serve
  <2>1. UNCHANGED <<n, ret, executed>>
    BY <1>5 DEF Next, MainStep, InitEntry, Connect, BeginDisconnect, StopConnection,
         ReleaseConnection, Deinit, Dispatch,
           CloseEvent, ErrorEvent, PeerClose, Finished, vars, callVars, netVars
  <2>2. UNCHANGED pc \/ \E d \in Callers : pc[d] = "cvwait" /\ pc' = [pc EXCEPT ![d] = "woken"]
    BY <1>5, OtherSteps
  <2>3. UNCHANGED Busy
    BY <2>2 DEF Busy, InCall, TypeOK
  <2> QED
    BY <2>1, <2>3 DEF Call!vars
<1> QED
  BY <1>1, <1>2, <1>3, <1>4, <1>5 DEF CallerStep

\* A client and the service keep the promise of RpcCall, however many threads call and
\* wait at once, as long as no two take an id or send at once: a lock in _getMessageId
\* and one in sendData are all that is missing for it.
THEOREM GuardedCallsImplementRpcCall == Spec /\ []Guarded => ImplementsRpcCall
<1>1. Init => Call!Init
  BY RefinesInit
<1>2. TypeOK /\ ClientInv /\ SentOnce /\ SerialInv /\ [Next]_vars => [Call!Next]_(Call!vars)
  BY RefinesStep
<1> QED
  BY <1>1, <1>2, GuardedInvariant, PTL DEF Spec, ImplementsRpcCall, Call!Spec

\* A client with a single calling thread, and the service, keep the promise of
\* RpcCall.
THEOREM SerialCallsImplementRpcCall == SoleCaller => (Spec => ImplementsRpcCall)
<1> SUFFICES ASSUME SoleCaller PROVE Spec => ImplementsRpcCall
  OBVIOUS
<1>1. Spec => []Guarded
  BY SoleIsGuarded
<1> QED
  BY <1>1, GuardedCallsImplementRpcCall, PTL
=============================================================================
